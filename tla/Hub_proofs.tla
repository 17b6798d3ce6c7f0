------------------------------- MODULE Hub_proofs -------------------------------
(***************************************************************************)
(* Proofs about the composed hub: what the proofs of AdminAuth, the        *)
(* limiter, ImportLedger and LibraryGuest say of each part holds in it too,*)
(* whatever its other parts do and wherever the process is stopped or      *)
(* killed: to each part a step of the hub is one of its own, or the end of *)
(* the process. The migrations and the report of the Windows service are   *)
(* sound across starts, stops and crashes. And a stop closes the database  *)
(* under a handler only when the drain was over: once the listener is      *)
(* closed nobody comes, so that a hub that was idle stays so.              *)
(***************************************************************************)
EXTENDS Hub, AdminAuth_proofs, ImportLedger_proofs, LibraryGuest_proofs

-----------------------------------------------------------------------------
(* The account.                                                            *)

\* For the account, every step of the hub is a statement of one request, a pause, or the
\* end of the process.
LEMMA HubIsAuthStep ==
  ASSUME Types, [HubNext]_hubVars
  PROVE  AuthStep
<1>1. ASSUME NEW r \in Requests, LimiterStep(r) PROVE Waits
  BY <1>1, LimiterWaits DEF LimiterStep
<1>2. ASSUME NEW r \in Requests, RequestStep(r) PROVE Acts(r)
  BY <1>2 DEF RequestStep, RequestBegins, Acts
<1>3. ASSUME UNCHANGED <<vars, authVars>> PROVE Waits
  BY <1>3 DEF vars, Waits, Types
<1>4. ASSUME LifeStep PROVE Waits \/ Stops
  <2>1. ASSUME ProcessGone PROVE Stops
    <3>1. ASSUME NEW r \in Requests PROVE req'[r] \in ReqType /\ req'[r].key = req[r].key
      <4>1. req[r] \in ReqType
        BY DEF Types
      <4>2. req'[r] = req[r] \/ req'[r] = [pc |-> "lost", key |-> req[r].key, now |-> req[r].now]
        BY <2>1, <4>1 DEF ProcessGone, ReqType
      <4>. QED
        BY <4>1, <4>2 DEF ReqType
    <3>2. req' \in [Requests -> ReqType]
      BY <2>1, <3>1 DEF ProcessGone
    <3>. QED
      BY <2>1, <3>1, <3>2 DEF ProcessGone, Stops
  <2>. QED
    BY <1>3, <1>4, <2>1 DEF LifeStep
<1>5. ASSUME TimePasses PROVE Waits
  BY <1>5 DEF TimePasses, Tick, Waits, Types
<1>6. ASSUME ImportStep \/ GuestStep \/ UNCHANGED hubVars PROVE Waits
  BY <1>3, <1>6 DEF ImportStep, GuestStep, hubVars
<1>. QED
  BY <1>1, <1>2, <1>4, <1>5, <1>6 DEF HubNext, AuthStep

\* So does the account's invariant.
LEMMA HubAuth == HubSpec => []AuthInv
<1>1. HubInit => AuthInv
  BY AuthInitInv DEF HubInit
<1>2. AuthInv /\ [HubNext]_hubVars => AuthInv'
  BY AuthStepInv, HubIsAuthStep DEF AuthInv
<1>. QED
  BY <1>1, <1>2, PTL DEF HubSpec

\* A page is never shown for a session that had ended when the request for it began,
\* whatever happens to the process meanwhile.
THEOREM HubKeepsLateRequestsOut == HubSpec => []NoEntryAfterTheEnd
BY HubAuth, InvIsSafe, PTL

\* Whoever holds a session knew the password in force, unless set-ups ran together.
THEOREM HubSessionsKnow == HubSpec => []SessionsKnowThePassword
BY HubAuth, InvIsSafe, PTL

\* A set-up that began when there was a password never replaces it, also after restarts.
THEOREM HubSetupHappensOnce == HubSpec => SetupOnlyOnce
BY HubAuth, StepKeepsSetup, PTL DEF SetupOnlyOnce

\* A session is removed only by its sign-out or when it has run out: neither another
\* request nor a restart ends one early.
THEOREM HubSessionsLast == HubSpec => SessionsStayInForce
<1>1. AuthInv /\ [HubNext]_hubVars
        => \A t \in Tokens : sessions[t] # None /\ sessions'[t] = None
             => clock > sessions[t] \/ \E r \in Requests : at[r] = "logout" /\ tok[r] = t
  BY HubIsAuthStep, StepKeepsSessions DEF AuthInv
<1>. QED
  BY <1>1, HubAuth, PTL DEF HubSpec, SessionsStayInForce

-----------------------------------------------------------------------------
(* The limiter.                                                            *)

\* For the limiter, every step of the hub is a step of its own, or the end of the process,
\* which forgets the attempts.
LEMMA HubIsLimiterStep ==
  ASSUME [HubNext]_hubVars
  PROVE  \/ \E r \in Requests : (\E k \in Keys : Arrive(r, k)) \/ Allow(r) \/ Refuse(r)
         \/ Tick \/ Forgets \/ UNCHANGED vars
<1>1. ASSUME NEW r \in Requests, LimiterStep(r)
      PROVE  (\E k \in Keys : Arrive(r, k)) \/ Allow(r) \/ Refuse(r)
  BY <1>1 DEF LimiterStep
<1>2. ASSUME NEW r \in Requests, RequestStep(r) PROVE UNCHANGED vars
  BY <1>2 DEF RequestStep
<1>3. ASSUME ImportStep \/ GuestStep \/ UNCHANGED hubVars PROVE UNCHANGED vars
  BY <1>3 DEF ImportStep, GuestStep, hubVars
<1>4. ASSUME LifeStep PROVE Forgets \/ UNCHANGED vars
  BY <1>4 DEF LifeStep, ProcessGone, Forgets
<1>5. ASSUME TimePasses PROVE Tick
  BY <1>5 DEF TimePasses
<1>. QED
  BY <1>1, <1>2, <1>3, <1>4, <1>5 DEF HubNext

\* The limiter's invariant holds in every behaviour of the hub.
LEMMA HubLimiter == HubSpec => []LimiterInv
<1>1. HubInit => LimiterInv
  BY LimiterInitInv DEF HubInit, AuthInit
<1>2. LimiterInv /\ [HubNext]_hubVars => LimiterInv'
  BY LimiterStepInv, HubIsLimiterStep
<1>. QED
  BY <1>1, <1>2, PTL DEF HubSpec

\* In each life of the process, no client passes more often than the limiter promises.
THEOREM HubLimitIsKept == HubSpec => []AtMostMaxInWindow
<1>1. LimiterInv => AtMostMaxInWindow
  BY DEF LimiterInv
<1>. QED
  BY <1>1, HubLimiter, PTL

\* A post is refused only when max posts of its client were let through by this process.
THEOREM HubRefusalsHaveCause == HubSpec => RefusedOnlyWhenFull
<1>1. LimiterInv /\ [HubNext]_hubVars
        => \A r \in Requests : req[r].pc = "waiting" /\ req'[r].pc = "refused"
             => Cardinality(Passed(req[r].key, req[r].now - window + 1, clock)) >= max
  BY HubIsLimiterStep, StepsOfOne, RefusedWhenFull
<1>. QED
  BY <1>1, HubLimiter, PTL DEF HubSpec, RefusedOnlyWhenFull

-----------------------------------------------------------------------------
(* The runs over the import folder.                                        *)

\* For the runs and pages the end of the process is the end of what was at work.
LEMMA GoneIsKilled ==
  ASSUME LedgerTypes, ProcessGone
  PROVE  Killed
<1>1. ASSUME NEW i \in Runs
      PROVE  /\ run'[i] \in RunType
             /\ run'[i].pc = IF run[i].pc \in {"copy", "record"} THEN "done" ELSE run[i].pc
             /\ run'[i].row = run[i].row /\ SameWork(i) /\ SamePlan(i)
             /\ run[i].pc = "done" => SameRecord(i)
             /\ run[i].pc \in {"copy", "record"} => run'[i].err = "killed"
  <2>1. run[i] \in RunType
    BY DEF LedgerTypes
  <2>2. CASE run[i].pc \in {"copy", "record"}
    <3>1. run'[i] = [run[i] EXCEPT !.pc = "done", !.err = "killed"]
      BY <2>2 DEF ProcessGone
    <3>2. "killed" \in Errors
      BY DEF Errors
    <3>3. run'[i] \in RunType
      BY ONLY <2>1, <3>1, <3>2 DEF RunType
    <3>4. /\ run'[i].pc = "done" /\ run'[i].row = run[i].row /\ SameWork(i) /\ SamePlan(i)
          /\ run'[i].err = "killed"
      BY ONLY <2>1, <3>1 DEF RunType, SameWork, SamePlan
    <3>. QED
      BY <2>2, <3>3, <3>4
  <2>3. CASE run[i].pc \notin {"copy", "record"}
    BY <2>1, <2>3 DEF ProcessGone, SameWork, SamePlan, SameRecord
  <2>. QED
    BY <2>2, <2>3
<1>2. run' \in [Runs -> RunType]
  BY <1>1 DEF ProcessGone
<1>3. ASSUME NEW p \in Pages PROVE page'[p] \in PageType /\ page'[p].of = Mixed
  <2>1. NoRecord \in RecordType
    BY DEF NoRecord, RecordType, Errors
  <2>2. page'[p] = [pc |-> 0, shown |-> NoRecord, of |-> Mixed]
    BY DEF ProcessGone
  <2>. QED
    BY <2>1, <2>2 DEF PageType
<1>4. page' \in [Pages -> PageType]
  BY <1>3 DEF ProcessGone
<1>. QED
  BY <1>1, <1>2, <1>3, <1>4 DEF ProcessGone, Killed

\* For the runs and pages, every step of the hub is one of theirs, or the end of the process.
LEMMA HubIsLedgerStep ==
  ASSUME LedgerTypes, [HubNext]_hubVars
  PROVE  LedgerNext \/ Killed \/ UNCHANGED ledgerVars
<1>1. ASSUME NEW r \in Requests, LimiterStep(r) \/ RequestStep(r) PROVE UNCHANGED ledgerVars
  BY <1>1 DEF LimiterStep, RequestStep
<1>2. ASSUME ImportStep PROVE LedgerNext
  BY <1>2 DEF ImportStep, LedgerNext, FolderStep
<1>3. ASSUME GuestStep \/ TimePasses \/ UNCHANGED hubVars PROVE UNCHANGED ledgerVars
  BY <1>3 DEF GuestStep, TimePasses, hubVars
<1>4. ASSUME LifeStep PROVE Killed \/ UNCHANGED ledgerVars
  BY <1>4, GoneIsKilled DEF LifeStep
<1>. QED
  BY <1>1, <1>2, <1>3, <1>4 DEF HubNext

\* The invariant of the runs holds in every behaviour of the hub.
LEMMA HubLedger == HubSpec => []LedgerInv
<1>1. HubInit => LedgerInv
  BY LedgerInitInv DEF HubInit
<1>2. LedgerInv /\ [HubNext]_hubVars => LedgerInv'
  BY LedgerStepInv, HubIsLedgerStep DEF LedgerInv
<1>. QED
  BY <1>1, <1>2, PTL DEF HubSpec

\* Wherever the process is stopped or killed: a page that was read while no run was
\* writing, after a run that wrote alone and to the end, shows that run's record.
THEOREM HubPagesShowOneRun == HubSpec => []PageShowsOneRun
BY HubLedger, LedgerIsSound, PTL

\* And a run that went through its names has copied each file once.
THEOREM HubFilesAreCopiedOnce == HubSpec => []EachFileOnce
BY HubLedger, LedgerIsSound, PTL

-----------------------------------------------------------------------------
(* The guest.                                                              *)

\* For the guest the end of the process is the loss of the answers that were being made.
LEMMA GoneIsLost ==
  ASSUME GuestTypes, Bounds, ProcessGone
  PROVE  Losts
<1>1. Grows
  <2>1. UNCHANGED <<hubSide, time, tokens, faults>>
    BY DEF ProcessGone, hubSide
  <2>2. tokens \in Nat /\ tokens <= visit.tokens
    BY DEF GuestTypes, Bounds
  <2>. QED
    BY <2>1, <2>2, SameGrows
<1>2. tab \in [Tabs -> TabType]
  BY DEF GuestTypes
<1>3. ASSUME NEW u \in Tabs PROVE tab'[u] \in TabType /\ (tab'[u] = tab[u] \/ (Rests(u) /\ SamePage(u)))
  <2>1. PICK n : n = Stays(tab, u)
    OBVIOUS
  <2>2. /\ n \in [Tabs -> TabType]
        /\ n[u].pc = "idle" /\ ~n[u].page /\ DOMAIN n[u].sets = {}
        /\ ~n[u].crossed /\ n[u].sent = NoCookies
        /\ n[u].form = tab[u].form /\ n[u].stale = tab[u].stale
    BY <1>2, <2>1, StaysFits
  <2>3. tab'[u] = IF tab[u].pc \in {"asked", "listed"} THEN n[u] ELSE tab[u]
    BY <2>1 DEF ProcessGone
  <2>4. CASE tab[u].pc \in {"asked", "listed"}
    BY <2>2, <2>3, <2>4 DEF Rests, SamePage
  <2>5. CASE tab[u].pc \notin {"asked", "listed"}
    BY <1>2, <2>3, <2>5
  <2>. QED
    BY <2>4, <2>5
<1>4. tab' \in [Tabs -> TabType]
  BY <1>3 DEF ProcessGone
<1>. QED
  BY <1>1, <1>3, <1>4 DEF Losts, ProcessGone

\* For the guest, every step of the hub is one of theirs, or the end of the process.
LEMMA HubIsGuestStep ==
  ASSUME GuestTypes, Bounds, [HubNext]_hubVars
  PROVE  GuestNext \/ Losts \/ UNCHANGED guestVars
<1>1. ASSUME NEW r \in Requests, LimiterStep(r) \/ RequestStep(r) PROVE UNCHANGED guestVars
  BY <1>1 DEF LimiterStep, RequestStep
<1>2. ASSUME GuestStep PROVE GuestNext
  BY <1>2 DEF GuestStep, GuestNext
<1>3. ASSUME ImportStep \/ TimePasses \/ UNCHANGED hubVars PROVE UNCHANGED guestVars
  BY <1>3 DEF ImportStep, TimePasses, hubVars
<1>4. ASSUME LifeStep PROVE Losts \/ UNCHANGED guestVars
  BY <1>4, GoneIsLost DEF LifeStep
<1>. QED
  BY <1>1, <1>2, <1>3, <1>4 DEF HubNext

\* The invariant of the guest holds in every behaviour of the hub.
LEMMA HubGuest == HubSpec => []GuestInv
<1>1. HubInit => GuestInv
  BY GuestInitInv DEF HubInit
<1>2. GuestInv /\ [HubNext]_hubVars => GuestInv'
  <2>1. SUFFICES ASSUME GuestInv, [HubNext]_hubVars PROVE GuestInv'
    OBVIOUS
  <2>2. GuestNext \/ Losts \/ UNCHANGED guestVars
    BY <2>1, HubIsGuestStep DEF GuestInv
  <2>. QED
    BY <2>1, <2>2, GuestStepsKeep, EffectsKeepGuestInv DEF GuestEffect
<1>. QED
  BY <1>1, <1>2, PTL DEF HubSpec

\* A page of the list highlights nothing that the page before it has shown, though the hub
\* may stop between the listing and the stamp.
THEOREM HubHighlightsAreNews == HubSpec => []HighlightsAreNews
BY HubGuest, GuestFacts, PTL

\* A form is refused only in a tab whose page was outdated, whatever the process does:
\* it keeps nothing of the form tokens.
THEOREM HubFormsAreAccepted == HubSpec => []FormsAreAccepted
BY HubGuest, GuestFacts, PTL

-----------------------------------------------------------------------------
(* The process.                                                            *)

Phases == {"down", "open", "migrate", "listen", "serving", "draining", "closing", "failing",
           "closed"}

\* What a start has to show for itself when it has reached a phase.
Progress ==
  /\ phase \in Phases
  /\ step \in Nat /\ (phase = "open" => step = 1)
  /\ phase = "migrate" => step >= 1 /\ 1 .. (step - 1) \subseteq applied
  /\ DBOpen => applied = DOMAIN Steps
  /\ ready => bound /\ applied = DOMAIN Steps /\ phase \notin {"open", "migrate", "listen"}
  /\ scm \in {"Running", "StopPending"} => ready /\ phase # "down"
  /\ scm # "none" => service

\* The transaction of a migration: its row is its last statement, and it is gone with
\* the start that began it.
Transaction ==
  /\ tx \in [tables : SUBSET STRING, row : BOOLEAN]
  /\ phase # "migrate" => tx = NoTx
  /\ tx.row => step \in DOMAIN Steps /\ Steps[step] \subseteq tx.tables

\* What is recorded as applied has its tables.
Recorded ==
  /\ applied \subseteq DOMAIN Steps
  /\ \A n \in applied : Steps[n] \subseteq tables

LifeInv == Progress /\ Transaction /\ Recorded

\* The steps of the process, and none of them.
LEMMA LifeStepInv ==
  ASSUME LifeInv, LifeNext(Busy) \/ UNCHANGED lifeVars
  PROVE  LifeInv'
<1>. USE LifecycleAssumption DEF LifeInv
<1>0. /\ DOMAIN Steps = 1 .. Len(Steps) /\ \A n \in DOMAIN Steps : Steps[n] \in SUBSET STRING
      /\ service' = service
  BY DEF LifeNext, lifeVars
<1>1. CASE UNCHANGED lifeVars
  BY <1>1 DEF lifeVars, Progress, Transaction, Recorded, DBOpen
<1>2. CASE StartProcess
  <2>1. Progress'
    BY <1>0, <1>2 DEF StartProcess, Progress, DBOpen, Phases
  <2>2. Transaction' /\ Recorded'
    BY <1>0, <1>2 DEF StartProcess, Transaction, Recorded, NoTx
  <2>. QED
    BY <2>1, <2>2
<1>3. CASE Open
  BY <1>0, <1>3 DEF Open, Progress, Transaction, Recorded, DBOpen, Phases
<1>4. CASE CreateTable
  <2>1. Progress' /\ Recorded'
    BY <1>0, <1>4 DEF CreateTable, Progress, Recorded, DBOpen, Phases
  <2>2. ASSUME NEW t \in Steps[step] \ tx.tables, step \in DOMAIN Steps,
               tx' = [tx EXCEPT !.tables = @ \cup {t}]
        PROVE  Transaction'
    BY <1>0, <1>4, <2>2 DEF CreateTable, Transaction
  <2>3. ASSUME Steps[step] \subseteq tx.tables, step \in DOMAIN Steps, tx' = [tx EXCEPT !.row = TRUE]
        PROVE  Transaction'
    BY <1>4, <2>3 DEF CreateTable, Transaction
  <2>. QED
    BY <1>4, <2>1, <2>2, <2>3 DEF CreateTable
<1>5. CASE Commit
  <2>1. step \in DOMAIN Steps /\ Steps[step] \subseteq tx.tables
    BY <1>0, <1>5 DEF Commit, Transaction
  <2>2. Recorded'
    BY <1>5, <2>1 DEF Commit, Recorded
  <2>3. Progress'
    <3>1. /\ step \in Nat /\ step' = step + 1 /\ applied' = applied \cup {step}
          /\ phase = "migrate" /\ 1 .. (step - 1) \subseteq applied
          /\ ~ready /\ scm \notin {"Running", "StopPending"}
          /\ scm # "none" => service
          /\ service' = service /\ ready' = ready /\ bound' = bound /\ scm' = scm
          /\ phase' = IF step = Len(Steps) THEN "listen" ELSE phase
      BY <1>0, <1>5 DEF Commit, Progress
    <3>2. step' \in Nat /\ step' >= 1 /\ 1 .. (step' - 1) \subseteq applied'
      BY <2>1, <3>1
    <3>3. phase' = "listen" => applied' = DOMAIN Steps
      <4>1. applied' \subseteq DOMAIN Steps
        BY <2>1, <3>1 DEF Recorded
      <4>2. CASE step = Len(Steps)
        <5>1. 1 .. step \subseteq applied'
          BY ONLY <3>1, <3>2
        <5>. QED
          BY ONLY <1>0, <4>1, <4>2, <5>1
      <4>3. CASE step # Len(Steps)
        BY ONLY <3>1, <4>3
      <4>. QED
        BY <4>2, <4>3
    <3>4. phase' \in {"migrate", "listen"}
      BY <3>1
    <3>. QED
      BY <3>1, <3>2, <3>3, <3>4 DEF Progress, DBOpen, Phases
  <2>4. Transaction'
    BY <1>0, <1>5 DEF Commit, Transaction, NoTx
  <2>. QED
    BY <2>2, <2>3, <2>4
<1>6. ASSUME UNCHANGED <<tables, applied>> PROVE Recorded'
  BY <1>6 DEF Recorded
<1>7. CASE StartFails
  BY <1>0, <1>6, <1>7 DEF StartFails, Progress, Transaction, DBOpen, Phases, NoTx
<1>8. CASE Listen
  BY <1>0, <1>6, <1>8 DEF Listen, Progress, Transaction, DBOpen, Phases
<1>13. CASE Serve
  BY <1>0, <1>6, <1>13 DEF Serve, Progress, Transaction, DBOpen, Phases
<1>9. CASE ReportRunning \/ BeginDrain \/ ServeFails \/ Drained(Busy) \/ CloseDB
  BY <1>0, <1>6, <1>9 DEF ReportRunning, BeginDrain, ServeFails, Drained, CloseDB, Progress,
     Transaction, DBOpen, Phases
<1>10. CASE AskStop \/ Second
  BY <1>0, <1>6, <1>10 DEF AskStop, Second, Progress, Transaction, DBOpen, Phases
<1>11. CASE Exit \/ GraceOver
  BY <1>0, <1>6, <1>11 DEF Exit, GraceOver, Progress, Transaction, DBOpen, Phases
<1>12. CASE Crash
  BY <1>0, <1>6, <1>12 DEF Crash, Progress, Transaction, DBOpen, Phases, NoTx
<1>. QED
  BY <1>1, <1>2, <1>3, <1>4, <1>5, <1>7, <1>8, <1>9, <1>10, <1>11, <1>12, <1>13
  DEF LifeNext

-----------------------------------------------------------------------------
(* The process in the hub.                                                 *)

\* A database file that is new, or that of a hub that serves.
LEMMA InitLife == HubInit => LifeInv
<1>1. SUFFICES ASSUME HubInit PROVE LifeInv
  OBVIOUS
<1>. USE LifecycleAssumption DEF LifeInv
<1>2. CASE LifeInit
  BY <1>2 DEF LifeInit, Progress, Transaction, Recorded, NoTx, DBOpen, Phases
<1>3. CASE LifeServing
  <2>1. \A n \in DOMAIN Steps : Steps[n] \subseteq UNION Range(Steps)
    BY DEF Range
  <2>2. Progress
    BY <1>3 DEF LifeServing, Progress, DBOpen, Phases
  <2>. QED
    BY <1>3, <2>1, <2>2 DEF LifeServing, Transaction, Recorded, NoTx
<1>. QED
  BY <1>1, <1>2, <1>3 DEF HubInit

\* Requests, runs and guests do not move the process.
LEMMA HubIsLifeStep ==
  ASSUME [HubNext]_hubVars
  PROVE  LifeNext(Busy) \/ UNCHANGED lifeVars
<1>1. ASSUME NEW r \in Requests, LimiterStep(r) \/ RequestStep(r) PROVE UNCHANGED lifeVars
  BY <1>1 DEF LimiterStep, RequestStep
<1>2. ASSUME ImportStep \/ GuestStep \/ TimePasses \/ UNCHANGED hubVars PROVE UNCHANGED lifeVars
  BY <1>2 DEF ImportStep, GuestStep, TimePasses, hubVars
<1>. QED
  BY <1>1, <1>2 DEF HubNext, LifeStep

\* The invariant of the process holds in every behaviour of the hub.
LEMMA HubLife == HubSpec => []LifeInv
<1>1. LifeInv /\ [HubNext]_hubVars => LifeInv'
  BY LifeStepInv, HubIsLifeStep
<1>. QED
  BY <1>1, InitLife, PTL DEF HubSpec

\* db.Open and its migrations: a step that is recorded in schema_migrations has its
\* tables, and the hub serves on the whole schema, whatever start failed or was killed.
THEOREM HubRecordsCompleteMigrations == HubSpec => []RecordedMigrationsAreComplete
<1>1. LifeInv => RecordedMigrationsAreComplete
  BY DEF LifeInv, Progress, Recorded, RecordedMigrationsAreComplete
<1>. QED
  BY <1>1, HubLife, PTL

\* The Windows service reports Running only for a start that has its address and its
\* whole schema.
THEOREM HubRunningMeansListening == HubSpec => []RunningMeansListening
<1>1. LifeInv => RunningMeansListening
  BY DEF LifeInv, Progress, RunningMeansListening
<1>. QED
  BY <1>1, HubLife, PTL

-----------------------------------------------------------------------------
(* The drain.                                                              *)

\* The parts of Busy: a request, a run that was started by hand, a page, a tab.
AtWork(r) == at[r] \in Asking \/ (at[r] = "idle" /\ req[r].pc \in {"waiting", "passed"})
Imports(i) == run[i].pc \in {"copy", "record"} /\ run[i].mode \in {"scan", "pick"}
IsRead(p) == page[p].pc \in 1 .. Len(ReadOrder) - 1
Answered(t) == tab[t].pc \in {"asked", "listed"}

\* Whoever sends a statement, or leaves the limiter, was at work before.
LEMMA RequestsWereAtWork ==
  ASSUME phase # "serving", NEW r \in Requests, LimiterStep(r) \/ RequestStep(r)
  PROVE  AtWork(r)
<1>1. CASE LimiterStep(r)
  BY <1>1 DEF LimiterStep, Allow, Refuse, AtWork
<1>2. CASE RequestBegins(r)
  BY <1>2 DEF RequestBegins, Post, Goes, AtWork
<1>3. CASE Statement(r) \/ JudgeSession(r) \/ AuthFails(r)
  BY <1>3 DEF Statement, SetupCheck, StorePassword, LoginCheck, ComparePassword, CreateSession,
     RootCheck, Purge, NoSession, ReadSession, ForgetSession, Logout, JudgeSession, AuthFails, Goes,
     AtWork, Asking
<1>. QED
  BY <1>1, <1>2, <1>3 DEF RequestStep

\* A run of the watch loop is not waited for.
LEMMA AutoBegins ==
  ASSUME LedgerTypes, NEW i \in DOMAIN scene.runs, scene.runs[i] = "auto",
         BeginScan(i) \/ BeginPick(i) \/ ScanRefused(i)
  PROVE  /\ i \in Runs /\ run'[i].mode = "auto"
         /\ \A j \in Runs \ {i} : run'[j].pc = run[j].pc /\ run'[j].mode = run[j].mode
         /\ \A p \in Pages : page'[p].pc = page[p].pc
<1>1. CASE BeginScan(i) \/ BeginPick(i)
  <2>1. Listing \in Seq(Names) /\ Begins(i, Listing)
    BY <1>1, ListingIsASet DEF LedgerTypes, BeginScan, BeginPick
  <2>2. i \in Runs /\ Starts(i) /\ run'[i].mode = "auto"
    BY <2>1, BeginsStarts
  <2>. QED
    BY <2>2 DEF Starts, OnlyRun
<1>2. CASE ScanRefused(i)
  <2>1. i \in Runs /\ Turns(i)
    BY <1>2, TurnsToRecord
  <2>2. run[i] \in RunType
    BY <2>1 DEF LedgerTypes
  <2>3. run'[i] = [[run[i] EXCEPT !.mode = "auto"]
                     EXCEPT !.pc = "record", !.err = "unreadable", !.alone = Recording = {}]
    BY <1>2, <2>1 DEF ScanRefused, Records
  <2>4. run'[i].mode = "auto"
    BY ONLY <2>2, <2>3 DEF RunType
  <2>5. page' = [p \in Pages |-> [page[p] EXCEPT !.of = Mixed]]
    BY <1>2 DEF ScanRefused, Records
  <2>6. \A p \in Pages : page'[p].pc = page[p].pc
    BY <2>5 DEF LedgerTypes, PageType
  <2>. QED
    BY <2>1, <2>4, <2>6 DEF Turns, SamePlan
<1>. QED
  BY <1>1, <1>2

\* No run is started by hand, and no page is asked for, once the listener is closed.
LEMMA ImportsWereAtWork ==
  ASSUME LedgerInv, phase # "serving", ImportStep
  PROVE  /\ \A i \in Runs : Imports(i)' => Imports(i)
         /\ \A p \in Pages : IsRead(p)' => IsRead(p)
<1>0. LedgerTypes /\ InRow /\ Whole /\ last \in Runs \cup {Mixed}
  BY DEF LedgerInv, Whole
<1>1. ASSUME NEW j \in Runs, TakesName(j) \/ Writes(j) \/ GivesUp(j), NEW i \in Runs, Imports(i)'
      PROVE  Imports(i)
  <2>1. CASE i = j
    BY <1>1, <2>1 DEF TakesName, Writes, GivesUp, SamePlan, Imports, Recording
  <2>2. CASE i # j
    BY <1>1, <2>2 DEF TakesName, Writes, GivesUp, OnlyRun, Imports
  <2>. QED
    BY <2>1, <2>2
<1>2. ASSUME NEW j \in Runs, run[j].pc = "copy", Turns(j), NEW i \in Runs, Imports(i)'
      PROVE  Imports(i)
  <2>1. CASE i = j
    BY <1>2, <2>1 DEF Turns, Imports
  <2>2. CASE i # j
    BY <1>2, <2>2 DEF Turns, SamePlan, Imports
  <2>. QED
    BY <2>1, <2>2
<1>3. ASSUME NEW i \in DOMAIN scene.runs,
             SkipName(i) \/ CopyName(i) \/ CopyNameFails(i) \/ Cancelled(i) \/ RunEnds(i)
      PROVE  /\ \A j \in Runs : Imports(j)' => Imports(j)
             /\ \A p \in Pages : page'[p].pc = page[p].pc
  <2>1. i \in Runs
    BY <1>0, LedgerAssumption DEF LedgerTypes
  <2>2. CASE SkipName(i) \/ CopyName(i) \/ CopyNameFails(i)
    <3>1. TakesName(i)
      BY <1>0, <2>1, <2>2, MovesGoes
    <3>. QED
      BY <1>1, <2>1, <3>1 DEF TakesName
  <2>3. CASE Cancelled(i) \/ RunEnds(i)
    <3>1. Turns(i) /\ run[i].pc = "copy"
      BY <1>0, <2>3, TurnsToRecord DEF Cancelled, RunEnds, Takes
    <3>2. page' = [p \in Pages |-> [page[p] EXCEPT !.of = Mixed]]
      BY <2>3 DEF Cancelled, RunEnds, Records
    <3>3. \A p \in Pages : page'[p].pc = page[p].pc
      BY <1>0, <3>2 DEF LedgerTypes, PageType
    <3>. QED
      BY <1>2, <2>1, <3>1, <3>3
  <2>. QED
    BY <1>3, <2>2, <2>3
<1>4. ASSUME NEW i \in Runs, RecordRow(i) \/ RecordRowFails(i)
      PROVE  /\ \A j \in Runs : Imports(j)' => Imports(j)
             /\ page' = page
  <2>1. Writes(i) \/ GivesUp(i)
    BY <1>0, <1>4, RowIsWritten, RowIsLost
  <2>. QED
    BY <1>1, <2>1 DEF Writes, GivesUp
<1>5. ASSUME NEW p \in Pages, ReadRow(p) \/ ReadRowFails(p),
             page[p].pc = 0 /\ page'[p].pc = 1 => phase = "serving"
      PROVE  /\ run' = run
             /\ \A q \in Pages : IsRead(q)' => IsRead(q)
  <2>1. Looks(p)
    BY <1>0, <1>5, RowIsRead
  <2>2. page[p].pc \in 0 .. 5 /\ Len(ReadOrder) = 5
    BY <1>0 DEF LedgerTypes, PageType, ReadOrder
  <2>3. IsRead(p)' => IsRead(p)
    BY <1>5, <2>1, <2>2 DEF Looks, IsRead
  <2>4. \A q \in Pages \ {p} : IsRead(q)' => IsRead(q)
    BY <2>1 DEF Looks, IsRead
  <2>. QED
    BY <2>1, <2>3, <2>4 DEF Looks
<1>6. ASSUME LedgerStatement \/ LedgerFailure,
             \A p \in Pages : page[p].pc = 0 /\ page'[p].pc = 1 => phase = "serving"
      PROVE  /\ \A i \in Runs : Imports(i)' => Imports(i)
             /\ \A p \in Pages : IsRead(p)' => IsRead(p)
  BY <1>4, <1>5, <1>6 DEF LedgerStatement, LedgerFailure, Imports, IsRead
<1>7. ASSUME NEW i \in DOMAIN scene.runs, scene.runs[i] = "auto",
             BeginScan(i) \/ BeginPick(i) \/ ScanRefused(i)
      PROVE  /\ \A j \in Runs : Imports(j)' => Imports(j)
             /\ \A p \in Pages : IsRead(p)' => IsRead(p)
  BY <1>0, <1>7, AutoBegins DEF Imports, IsRead
<1>. QED
  BY <1>3, <1>6, <1>7 DEF ImportStep, IsRead

\* No tab asks for anything once the listener is closed.
LEMMA TabsWereAnswered ==
  ASSUME GuestInv, phase # "serving", GuestStep, NEW u \in Tabs, Answered(u)'
  PROVE  \E t \in Tabs : Answered(t)
<1>0. GuestTypes /\ Bounds
  BY DEF GuestInv
<1>1. ASSUME NEW t \in Tabs, Handles(t) \/ RefuseForm(t) \/ ChatUnread(t) PROVE Answered(t)
  BY <1>1 DEF Handles, GreetStranger, ListFiles, StampList, Join, Unlock, SetName, LeaveLibrary,
     Enters, RefuseForm, ChatUnread, Answered
<1>2. CASE HubSwitches
  BY <1>2 DEF HubSwitches, SwitchOn, SwitchOff, WritePartial, Publish, DeleteFile, Answered
<1>3. ASSUME NEW t \in Tabs, Receives(t) \/ CutShort(t) \/ Reloads(t) PROVE Answered(u)
  <2>1. u # t
    BY <1>3 DEF Receives, CutShort, Reloads, Rests, Answered
  <2>2. tab'[u] = tab[u] \/ Marked(u)
    BY <1>3, <2>1 DEF Receives, CutShort, Reloads, TakesIn, OneTab
  <2>. QED
    BY <2>2 DEF Marked, Answered
<1>4. ASSUME Losts PROVE Answered(u)
  BY <1>4 DEF Losts, Rests, Answered
<1>5. ASSUME NEW c \in CookieNames, Expires(c) PROVE Answered(u)
  BY <1>5 DEF Expires, Marked, Answered
<1>6. CASE GuestBrowses
  <2>1. ASSUME NEW t \in Tabs, Receive(t) \/ Cut(t) \/ SeeRefusal(t) PROVE Answered(u)
    BY <1>0, <1>3, <1>4, <2>1, ReceiveIsReceives, CutIsShortOrLost, RefusalIsReloads
  <2>2. ASSUME NEW c \in DOMAIN jar, CookieExpires(c) PROVE Answered(u)
    <3>1. c \in CookieNames
      BY <1>0 DEF GuestTypes, CookieType
    <3>. QED
      BY <1>0, <1>5, <2>2, <3>1, ExpiryIsExpires
  <2>. QED
    BY <1>6, <2>1, <2>2 DEF GuestBrowses
<1>. QED
  BY <1>1, <1>2, <1>6 DEF GuestStep

\* So the hub does not become busy any more.
LEMMA NobodyComes ==
  ASSUME LedgerInv, GuestInv, phase # "serving", UNCHANGED lifeVars, [HubNext]_hubVars, Busy'
  PROVE  Busy
<1>1. Busy <=> \/ \E r \in Requests : AtWork(r)
               \/ \E i \in Runs : Imports(i)
               \/ \E p \in Pages : IsRead(p)
               \/ \E t \in Tabs : Answered(t)
  BY DEF Busy, AtWork, Imports, IsRead, Answered
<1>2. \/ \E r \in Requests : AtWork(r)'
      \/ \E i \in Runs : Imports(i)'
      \/ \E p \in Pages : IsRead(p)'
      \/ \E t \in Tabs : Answered(t)'
  BY DEF Busy, AtWork, Imports, IsRead, Answered
<1>3. UNCHANGED <<req, at>> => \A r \in Requests : AtWork(r)' => AtWork(r)
  BY DEF AtWork
<1>4. UNCHANGED ledgerVars => /\ \A i \in Runs : Imports(i)' => Imports(i)
                              /\ \A p \in Pages : IsRead(p)' => IsRead(p)
  BY DEF ledgerVars, Imports, IsRead
<1>5. UNCHANGED guestVars => \A t \in Tabs : Answered(t)' => Answered(t)
  BY DEF guestVars, Answered
<1>6. ASSUME NEW r \in Requests, LimiterStep(r) \/ RequestStep(r) PROVE Busy
  BY <1>1, <1>6, RequestsWereAtWork
<1>7. CASE ImportStep
  <2>1. UNCHANGED <<req, at>> /\ UNCHANGED guestVars
    BY <1>7 DEF ImportStep, vars, authVars
  <2>. QED
    BY <1>1, <1>2, <1>3, <1>5, <1>7, <2>1, ImportsWereAtWork
<1>8. CASE GuestStep
  <2>1. UNCHANGED <<req, at>> /\ UNCHANGED ledgerVars
    BY <1>8 DEF GuestStep, vars, authVars
  <2>. QED
    BY <1>1, <1>2, <1>3, <1>4, <1>8, <2>1, TabsWereAnswered
<1>9. CASE LifeStep \/ TimePasses \/ UNCHANGED hubVars
  <2>1. UNCHANGED <<req, at>> /\ UNCHANGED ledgerVars /\ UNCHANGED guestVars
    BY <1>9 DEF LifeStep, TimePasses, Tick, hubVars, vars, authVars, lifeVars
  <2>. QED
    BY <1>1, <1>2, <1>3, <1>4, <1>5, <2>1
<1>. QED
  BY <1>6, <1>7, <1>8, <1>9 DEF HubNext

\* The steps of the process: only the end of the drain leads to the close of the database
\* after a stop.
LEMMA DrainIsGiven ==
  ASSUME LedgerInv, GuestInv, HandlersGetTheirDrain, [HubNext]_hubVars
  PROVE  HandlersGetTheirDrain'
<1>1. SUFFICES ASSUME phase' = "closing", Busy' PROVE drain' = 0
  BY DEF HandlersGetTheirDrain
<1>2. CASE UNCHANGED lifeVars
  <2>1. phase = "closing" /\ drain' = drain
    BY <1>1, <1>2 DEF lifeVars
  <2>. QED
    BY <1>1, <1>2, <2>1, NobodyComes DEF HandlersGetTheirDrain
<1>3. CASE LifeStep
  <2>1. UNCHANGED <<vars, authVars, ledgerVars, guestVars>> /\ LifeNext(Busy)
    BY <1>1, <1>3 DEF LifeStep
  <2>2. Busy
    BY <1>1, <2>1 DEF Busy, vars, authVars, ledgerVars, guestVars
  <2>3. CASE Drained(Busy)
    BY <2>2, <2>3 DEF Drained
  <2>4. CASE AskStop \/ ReportRunning \/ Second
    BY <1>1, <2>2, <2>4 DEF AskStop, ReportRunning, Second, HandlersGetTheirDrain
  <2>. QED
    BY <1>1, <2>1, <2>3, <2>4
    DEF LifeNext, StartProcess, Open, CreateTable, Commit, Listen, Serve, StartFails, BeginDrain,
        ServeFails, CloseDB, Exit, GraceOver, Crash
<1>. QED
  BY <1>2, <1>3, HubIsLifeStep DEF HubNext, LimiterStep, RequestStep, ImportStep, GuestStep,
     TimePasses, hubVars

\* runWithReady and db.BeforeClose: after a stop, the database is closed under a handler
\* that is still at work only when the drain was over.
THEOREM HubDrainIsGiven == HubSpec => []HandlersGetTheirDrain
<1>1. HubInit => HandlersGetTheirDrain
  BY DEF HubInit, LifeInit, LifeServing, HandlersGetTheirDrain
<1>2. LedgerInv /\ GuestInv /\ HandlersGetTheirDrain /\ [HubNext]_hubVars
        => HandlersGetTheirDrain'
  BY DrainIsGiven
<1>. QED
  BY <1>1, <1>2, HubLedger, HubGuest, PTL DEF HubSpec

-----------------------------------------------------------------------------
(* The types.                                                              *)

\* The timers, tables and reports stay within their sets.
LEMMA LifeTypesKept ==
  ASSUME LifeInv, LifeTypeOK, LifeNext(Busy) \/ UNCHANGED lifeVars
  PROVE  LifeTypeOK'
<1>. USE LifecycleAssumption
<1>0. /\ DOMAIN Steps = 1 .. Len(Steps) /\ Len(Steps) \in Nat /\ service' = service
      /\ \A n \in DOMAIN Steps : Steps[n] \subseteq UNION Range(Steps)
  BY DEF LifeNext, lifeVars, Range
<1>1. CASE UNCHANGED lifeVars
  BY <1>1 DEF lifeVars, LifeTypeOK
<1>2. CASE StartProcess
  <2>1. step' \in 1 .. Len(Steps) + 1 /\ starts' \in 0 .. MaxStarts
    BY <1>0, <1>2 DEF StartProcess, LifeTypeOK
  <2>2. drain' \in 0 .. Drain /\ grace' \in 0 .. Grace
    BY <1>2 DEF StartProcess
  <2>3. stopping' \in BOOLEAN /\ ready' \in BOOLEAN /\ bound' \in BOOLEAN
    BY <1>2 DEF StartProcess
  <2>4. scm' \in {"none", "StartPending", "Running", "StopPending", "Stopped"}
    BY <1>2 DEF StartProcess
  <2>. QED
    BY <1>0, <1>2, <2>1, <2>2, <2>3, <2>4 DEF StartProcess, LifeTypeOK
<1>3. CASE CreateTable
  <2>1. ASSUME NEW t \in Steps[step] \ tx.tables, step \in DOMAIN Steps,
               tx' = [tx EXCEPT !.tables = @ \cup {t}]
        PROVE  tx' \in [tables : SUBSET UNION Range(Steps), row : BOOLEAN]
    <3>1. t \in UNION Range(Steps)
      BY <1>0, <2>1
    <3>. QED
      BY <2>1, <3>1 DEF LifeTypeOK
  <2>2. ASSUME tx' = [tx EXCEPT !.row = TRUE]
        PROVE  tx' \in [tables : SUBSET UNION Range(Steps), row : BOOLEAN]
    BY <2>2 DEF LifeTypeOK
  <2>3. tx' \in [tables : SUBSET UNION Range(Steps), row : BOOLEAN]
    BY <1>3, <2>1, <2>2 DEF CreateTable
  <2>. QED
    BY <1>0, <1>3, <2>3 DEF CreateTable, LifeTypeOK
<1>4. CASE Commit
  <2>1. step \in DOMAIN Steps
    BY <1>4 DEF Commit, LifeInv, Transaction
  <2>2. NoTx \in [tables : SUBSET UNION Range(Steps), row : BOOLEAN]
    BY DEF NoTx
  <2>3. tables' \subseteq UNION Range(Steps)
    BY <1>4 DEF Commit, LifeTypeOK
  <2>4. step' \in 1 .. Len(Steps) + 1 /\ applied' \subseteq DOMAIN Steps
    BY <1>0, <1>4, <2>1 DEF Commit, LifeTypeOK
  <2>. QED
    BY <1>0, <1>4, <2>2, <2>3, <2>4 DEF Commit, LifeTypeOK
<1>5. CASE StartFails \/ Crash
  <2>1. NoTx \in [tables : SUBSET UNION Range(Steps), row : BOOLEAN]
    BY DEF NoTx
  <2>. QED
    BY <1>0, <1>5, <2>1 DEF StartFails, Crash, LifeTypeOK
<1>6. CASE Second
  <2>1. drain' \in 0 .. Drain /\ grace' \in 0 .. Grace
    BY <1>6 DEF Second, LifeTypeOK
  <2>. QED
    BY <1>0, <1>6, <2>1 DEF Second, LifeTypeOK
<1>7. CASE \/ Open \/ Listen \/ Serve \/ ReportRunning \/ AskStop \/ BeginDrain \/ ServeFails
           \/ Drained(Busy) \/ CloseDB \/ Exit \/ GraceOver
  BY ZenonT(30), <1>0, <1>7 DEF Open, Listen, Serve, ReportRunning, AskStop, BeginDrain, ServeFails, Drained,
     CloseDB, Exit, GraceOver, LifeTypeOK
<1>. QED
  BY <1>1, <1>2, <1>3, <1>4, <1>5, <1>6, <1>7 DEF LifeNext

\* Before the migrations of a start are done no run writes its record.
Quiet == cast \in Casts /\ (phase \in {"down", "open", "migrate"} => Recording = {})

\* What recorded is gone with the process, and a start does not bring it back.
LEMMA QuietKept ==
  ASSUME LedgerTypes, LifeInv, Quiet, [HubNext]_hubVars
  PROVE  Quiet'
<1>1. cast' = cast
  BY DEF HubNext, hubVars
<1>2. CASE UNCHANGED lifeVars
  <2>1. UNCHANGED run => Recording' = Recording
    BY DEF Recording
  <2>2. CASE ImportStep
    BY <1>1, <1>2, <2>2 DEF ImportStep, Alive, DBOpen, Quiet, lifeVars
  <2>3. CASE ~ImportStep
    <3>1. UNCHANGED run \/ LifeStep
      BY <2>3 DEF HubNext, LimiterStep, RequestStep, GuestStep, TimePasses, hubVars, ledgerVars
    <3>2. LifeStep => UNCHANGED run
      BY <1>2 DEF LifeStep, ledgerVars, lifeVars
    <3>. QED
      BY <1>1, <1>2, <2>1, <3>1, <3>2 DEF Quiet, lifeVars
  <2>. QED
    BY <2>2, <2>3
<1>3. CASE LifeStep
  <2>1. CASE phase # "down" /\ phase' = "down"
    <3>1. \A i \in Runs : run'[i].pc # "record"
      BY <1>3, <2>1, GoneIsKilled DEF LifeStep, Killed
    <3>. QED
      BY <1>1, <3>1 DEF Quiet, Recording
  <2>2. CASE ~(phase # "down" /\ phase' = "down")
    <3>1. Recording' = Recording /\ LifeNext(Busy)
      BY <1>3, <2>2 DEF LifeStep, ledgerVars, Recording
    <3>2. phase' \in {"down", "open", "migrate"} => phase \in {"down", "open", "migrate"}
      BY <2>2, <3>1
      DEF LifeNext, StartProcess, Open, CreateTable, Commit, Listen, Serve, StartFails, ReportRunning,
          AskStop, BeginDrain, ServeFails, Drained, CloseDB, Exit, GraceOver, Crash, Second
    <3>. QED
      BY <1>1, <3>1, <3>2 DEF Quiet
  <2>. QED
    BY <2>1, <2>2
<1>. QED
  BY <1>2, <1>3, HubIsLifeStep DEF HubNext, LimiterStep, RequestStep, ImportStep, GuestStep,
     TimePasses, hubVars

\* The hub keeps the types of all its parts; and no run of a process that is gone goes on
\* to write into the database that the next start migrates.
THEOREM HubTypesAreCorrect == HubSpec => []HubTypeOK
<1>1. HubInit => LifeTypeOK /\ Quiet
  <2>1. SUFFICES ASSUME HubInit PROVE LifeTypeOK /\ Quiet
    OBVIOUS
  <2>2. Len(Steps) \in Nat /\ NoTx \in [tables : SUBSET UNION Range(Steps), row : BOOLEAN]
    BY LifecycleAssumption DEF NoTx
  <2>3. ASSUME LifeInit PROVE LifeTypeOK
    <3>1. /\ step \in 1 .. Len(Steps) + 1 /\ drain \in 0 .. Drain /\ grace \in 0 .. Grace
          /\ starts \in 0 .. MaxStarts
      BY <2>2, <2>3, LifecycleAssumption DEF LifeInit
    <3>. QED
      BY <2>2, <2>3, <3>1 DEF LifeInit, LifeTypeOK
  <2>4. ASSUME LifeServing PROVE LifeTypeOK
    <3>1. /\ step \in 1 .. Len(Steps) + 1 /\ drain \in 0 .. Drain /\ grace \in 0 .. Grace
          /\ starts \in 0 .. MaxStarts
      BY <2>2, <2>4, LifecycleAssumption DEF LifeServing
    <3>. QED
      BY <2>2, <2>4, <3>1 DEF LifeServing, LifeTypeOK
  <2>5. Quiet
    BY <2>1 DEF HubInit, LedgerInit, Quiet, Recording
  <2>. QED
    BY <2>1, <2>3, <2>4, <2>5 DEF HubInit
<1>2. LifeInv /\ LifeTypeOK /\ [HubNext]_hubVars => LifeTypeOK'
  BY LifeTypesKept, HubIsLifeStep
<1>3. LedgerInv /\ LifeInv /\ Quiet /\ [HubNext]_hubVars => Quiet'
  BY QuietKept DEF LedgerInv
<1>4. AuthInv /\ LimiterInv /\ GuestInv /\ LifeTypeOK /\ Quiet => HubTypeOK
  <2>1. SUFFICES ASSUME AuthInv, LimiterInv, GuestInv, LifeTypeOK, Quiet PROVE HubTypeOK
    OBVIOUS
  <2>2. AuthTypeOK
    BY <2>1 DEF AuthInv, Types, LimiterInv, AuthTypeOK
  <2>. QED
    BY <2>1, <2>2, GuestFacts DEF Quiet, HubTypeOK
<1>. QED
  BY <1>1, <1>2, <1>3, <1>4, HubAuth, HubLimiter, HubLedger, HubGuest, HubLife, PTL DEF HubSpec
=============================================================================
