------------------------------ MODULE LibraryChat ------------------------------
(***************************************************************************)
(* The public library and its chat: the switch and the guest code            *)
(* (internal/library), the messages and their voice notes                    *)
(* (internal/librarychat), and the handlers that use them.                   *)
(*                                                                           *)
(* A handler is a sequence of SQL statements and file operations, and every  *)
(* one of them is a step: statements share one connection, so each is atomic *)
(* and none of the handlers uses a transaction. Guests post or open the      *)
(* library page, the administrator switches the library on and off or sets   *)
(* the retention, and an hourly maintenance loop prunes; all of them at the  *)
(* same time.                                                                *)
(*                                                                           *)
(* A voice note has a random name, so it is named after the post that saved  *)
(* it; code 0 is no code; a day is one tick of the clock.                    *)
(***************************************************************************)
EXTENDS Integers, FiniteSets

CONSTANTS
  Guests,      \* requests of guests
  Settings,    \* changes of the retention by the administrator
  Maintenance, \* the hourly loop
  Admins,      \* administrator sessions that switch the library
  Days,        \* retention settings, in days
  DefaultDays, \* DefaultRetentionDays
  Failing,     \* the operations that may fail
  MaxFailing,  \* bound: how many different operations fail in one behaviour
  MaxSwitches, \* bound: number of times the library is switched
  MaxClock,    \* bound: the last day
  MaxCrashes   \* bound: number of crashes of the process

Requests == Guests \cup Settings \cup {Maintenance}

ASSUME RequestsAssumption ==
  /\ Guests \cap Settings = {}
  /\ Maintenance \notin Guests \cup Settings

ASSUME BoundsAssumption ==
  /\ Days \subseteq Nat \ {0}
  /\ DefaultDays \in Days
  /\ MaxSwitches \in Nat /\ MaxClock \in Nat /\ MaxCrashes \in Nat
  /\ MaxFailing \in Nat

VARIABLES
  enabled,   \* kv library_enabled
  token,     \* kv library_token
  retention, \* kv library_chat_retention_days
  rows,      \* library_chat_messages
  disk,      \* the voice note of each guest: "none", "partial" or "full"
  req,       \* the requests and the maintenance loop
  admin,     \* the administrator's switching
  clock,
  issued, switches, crashes,
  failed,    \* the operations that have failed so far
  crossed,   \* posts whose voice note was being saved while rows were cleared
  terms,     \* for each prune the retentions in force since it has asked for it
  revoked,   \* the last code that a completed disable has removed
  gone       \* posts that a completed disable has cleared

store == <<enabled, token, retention, rows, disk>>
history == <<crossed, terms, revoked, gone>>
bounds == <<clock, issued, switches, crashes>>
vars == <<store, req, admin, bounds, failed, history>>

Code == 0 .. MaxSwitches
Row == [post : Guests, at : 0 .. MaxClock, voice : BOOLEAN]
Cutoff == {t - d : t \in 0 .. MaxClock, d \in Days}

ReqType ==
  [pc : {"idle", "enabled", "code", "form", "copy", "insert", "days", "select",
         "delete", "remove", "done"},
   page : BOOLEAN, code : Code, barred : Code, voice : BOOLEAN,
   cutoff : Cutoff \cup {0}, names : SUBSET Guests]

AdminType ==
  [pc : {"idle", "token", "forget", "rows", "list", "sweep"},
   upto : Code, before : SUBSET Guests, names : SUBSET (Guests \X {"partial", "full"})]

TypeOK ==
  /\ enabled \in BOOLEAN
  /\ token \in Code
  /\ retention \in Days
  /\ rows \in SUBSET Row
  /\ disk \in [Guests -> {"none", "partial", "full"}]
  /\ req \in [Requests -> ReqType]
  /\ admin \in [Admins -> AdminType]
  /\ clock \in 0 .. MaxClock
  /\ issued \in Code /\ switches \in Code
  /\ issued <= switches
  /\ crashes \in 0 .. MaxCrashes
  /\ failed \in SUBSET Failing
  /\ crossed \in SUBSET Guests
  /\ terms \in [Requests -> SUBSET Days]
  /\ revoked \in Code
  /\ gone \in SUBSET Guests

NoRequest == [pc |-> "idle", page |-> FALSE, code |-> 0, barred |-> 0,
              voice |-> FALSE, cutoff |-> 0, names |-> {}]
NoSwitch == [pc |-> "idle", upto |-> 0, before |-> {}, names |-> {}]

\* A new database; the maintenance loop prunes as soon as it starts.
Init ==
  /\ enabled = FALSE
  /\ token = 0
  /\ retention = DefaultDays
  /\ rows = {}
  /\ disk = [p \in Guests |-> "none"]
  /\ req = [q \in Requests |-> IF q = Maintenance THEN [NoRequest EXCEPT !.pc = "days"]
                                                  ELSE NoRequest]
  /\ admin = [a \in Admins |-> NoSwitch]
  /\ clock = 0 /\ issued = 0 /\ switches = 0 /\ crashes = 0
  /\ failed = {}
  /\ crossed = {} /\ terms = [q \in Requests |-> {}] /\ revoked = 0 /\ gone = {}

Goto(q, pc) == req' = [req EXCEPT ![q].pc = pc]

\* The request q has returned.
Return(q) == req' = [req EXCEPT ![q] = [NoRequest EXCEPT !.pc = "done"]]

\* Operation op fails: a database error, or a request whose browser has gone.
Fails(op) ==
  /\ op \in Failing
  /\ failed' = failed \cup {op}
  /\ Cardinality(failed') <= MaxFailing

Saving(p) == req[p].pc \in {"copy", "insert"}

\* The request has not begun, or has ended.
Quiet(q) == req[q].pc \in {"idle", "done"}

-----------------------------------------------------------------------------
(* requireLibraryGuest, libraryGet, libraryChatPost.                         *)

\* A guest whose cookie holds a code that was given out some time ago.
Arrive(p, page, code) ==
  /\ req[p].pc = "idle"
  /\ req' = [req EXCEPT ![p].pc = "enabled", ![p].page = page, ![p].code = code,
                        ![p].barred = revoked]
  /\ UNCHANGED <<store, admin, bounds, failed, history>>

\* MatchLibraryCode: IsEnabled is one statement,
CheckEnabled(p) ==
  /\ req[p].pc = "enabled"
  /\ enabled
  /\ Goto(p, "code")
  /\ UNCHANGED <<store, admin, bounds, failed, history>>

\* and Token is another.
CheckCode(p) ==
  /\ req[p].pc = "code"
  /\ token # 0
  /\ req[p].code = token
  /\ Goto(p, IF req[p].page THEN "days" ELSE "form")
  /\ UNCHANGED <<store, admin, bounds, failed, history>>

\* The guest is turned away, the database fails, or the form is unusable
\* (empty, too long, no voice note to be read).
Refused(p) ==
  /\ \/ req[p].pc = "enabled"
     \/ req[p].pc = "code"
     \/ req[p].pc = "form"
  /\ Return(p)
  /\ UNCHANGED <<store, admin, bounds, failed, history>>

\* A message without a voice note goes straight to the database.
TextOnly(p) ==
  /\ req[p].pc = "form"
  /\ req' = [req EXCEPT ![p].pc = "insert", ![p].voice = FALSE]
  /\ UNCHANGED <<store, admin, bounds, failed, history>>

\* SaveUploadLimited creates the .partial file of a fresh random name.
VoiceCreate(p) ==
  /\ req[p].pc = "form"
  /\ disk' = [disk EXCEPT ![p] = "partial"]
  /\ req' = [req EXCEPT ![p].pc = "copy", ![p].voice = TRUE]
  /\ crossed' = IF \E a \in Admins : admin[a].pc = "list" THEN crossed \cup {p} ELSE crossed
  /\ UNCHANGED <<enabled, token, retention, rows, admin, bounds, failed, terms, revoked, gone>>

\* The copy is complete; os.Rename finds the .partial unless it was swept away.
VoiceMove(p) ==
  /\ req[p].pc = "copy"
  /\ disk[p] = "partial"
  /\ disk' = [disk EXCEPT ![p] = "full"]
  /\ Goto(p, "insert")
  /\ UNCHANGED <<enabled, token, retention, rows, admin, bounds, failed, history>>

\* Too long, a failed copy or a failed rename: the .partial is removed.
VoiceFails(p) ==
  /\ req[p].pc = "copy"
  /\ disk' = [disk EXCEPT ![p] = "none"]
  /\ Return(p)
  /\ UNCHANGED <<enabled, token, retention, rows, admin, bounds, failed, history>>

\* Insert stamps the row with the current time.
Insert(p) ==
  /\ req[p].pc = "insert"
  /\ rows' = rows \cup {[post |-> p, at |-> clock, voice |-> req[p].voice]}
  /\ Goto(p, "days")
  /\ UNCHANGED <<enabled, token, retention, disk, admin, bounds, failed, history>>

\* Mutant of InsertFails: the voice note is left behind.
InsertFailsUncleaned(p) ==
  /\ req[p].pc = "insert"
  /\ Fails("insert")
  /\ Return(p)
  /\ UNCHANGED <<store, admin, bounds, history>>

\* The voice note is removed again.
InsertFails(p) ==
  /\ req[p].pc = "insert"
  /\ Fails("insert")
  /\ disk' = IF req[p].voice THEN [disk EXCEPT ![p] = "none"] ELSE disk
  /\ Return(p)
  /\ UNCHANGED <<enabled, token, retention, rows, admin, bounds, history>>

Guest(p) ==
  \/ \E page \in BOOLEAN, code \in 0 .. issued : Arrive(p, page, code)
  \/ CheckEnabled(p) \/ CheckCode(p) \/ Refused(p)
  \/ TextOnly(p) \/ VoiceCreate(p) \/ VoiceMove(p) \/ VoiceFails(p)
  \/ Insert(p) \/ InsertFails(p)

-----------------------------------------------------------------------------
(* RetentionDays and PruneOlderThan: at the end of a post, on a page view,    *)
(* after a change of the retention, and every hour.                          *)

\* filesLibraryChatRetentionPost stores the setting, then prunes.
SetRetention(q, d) ==
  /\ q \in Settings
  /\ req[q].pc = "idle"
  /\ retention' = d
  /\ Goto(q, "days")
  /\ terms' = [u \in Requests |-> IF req[u].pc \in {"select", "delete"} THEN terms[u] \cup {d}
                                 ELSE terms[u]]
  /\ UNCHANGED <<enabled, token, rows, disk, admin, bounds, failed, crossed, revoked, gone>>

\* Mutant of Pruned: the maintenance loop runs once.
PrunedOnce(q) ==
  [req EXCEPT ![q] = IF q \in Settings THEN NoRequest ELSE [NoRequest EXCEPT !.pc = "done"]]

\* The prune of q is over: the loop waits for its ticker, a request returns.
Pruned(q) ==
  [req EXCEPT ![q] = [NoRequest EXCEPT !.pc = IF q = Maintenance THEN "days"
                                              ELSE IF q \in Settings THEN "idle" ELSE "done"]]

Prune(q, days) ==
  /\ req[q].pc = "days"
  /\ req' = [req EXCEPT ![q] = [NoRequest EXCEPT !.pc = "select", !.cutoff = clock - days]]
  /\ UNCHANGED <<store, admin, bounds, crossed, revoked, gone>>

\* History: q is to prune by this retention, or by one that is set before it is through.
Term(q, days) == terms' = [terms EXCEPT ![q] = {days}]

\* Mutant of ReadDays: the setting is not asked for.
ReadDaysDefault(q) ==
  /\ Prune(q, DefaultDays) /\ Term(q, retention)
  /\ UNCHANGED failed

\* Mutant of ReadDays: the cutoff is on the wrong side of today.
ReadDaysAhead(q) ==
  /\ Prune(q, -retention) /\ Term(q, retention)
  /\ UNCHANGED failed

\* RetentionDays, and the cutoff computed from it.
ReadDays(q) ==
  /\ Prune(q, retention) /\ Term(q, retention)
  /\ UNCHANGED failed

\* RetentionDays answers a failed query with the default.
ReadDaysFails(q) ==
  /\ Fails("days")
  /\ Prune(q, DefaultDays) /\ Term(q, DefaultDays)

\* Mutant of Select: the voice notes are removed before the rows.
SelectRemoves(q) ==
  /\ req[q].pc = "select"
  /\ LET old == {r.post : r \in {s \in rows : s.at < req[q].cutoff /\ s.voice}} IN
       /\ req' = [req EXCEPT ![q].pc = "delete", ![q].names = old]
       /\ disk' = [p \in Guests |-> IF p \in old THEN "none" ELSE disk[p]]
  /\ UNCHANGED <<enabled, token, retention, rows, admin, bounds, failed, history>>

\* The names of the voice notes that will go.
Select(q) ==
  /\ req[q].pc = "select"
  /\ req' = [req EXCEPT ![q].pc = "delete",
               ![q].names = {r.post : r \in {s \in rows : s.at < req[q].cutoff /\ s.voice}}]
  /\ UNCHANGED <<store, admin, bounds, failed, history>>

\* DELETE with the same cutoff.
Delete(q) ==
  /\ req[q].pc = "delete"
  /\ rows' = {r \in rows : r.at >= req[q].cutoff}
  /\ IF req[q].names = {} THEN req' = Pruned(q) ELSE Goto(q, "remove")
  /\ terms' = [terms EXCEPT ![q] = {}]
  /\ UNCHANGED <<enabled, token, retention, disk, admin, bounds, failed, crossed, revoked, gone>>

\* Either statement fails: nothing was removed.
PruneFails(q) ==
  /\ \/ req[q].pc = "select"
     \/ req[q].pc = "delete"
  /\ Fails("prune")
  /\ req' = Pruned(q)
  /\ terms' = [terms EXCEPT ![q] = {}]
  /\ UNCHANGED <<store, admin, bounds, crossed, revoked, gone>>

\* os.Remove of the selected voice notes, one by one.
Remove(q) ==
  /\ req[q].pc = "remove"
  /\ \E p \in req[q].names :
       /\ disk' = [disk EXCEPT ![p] = "none"]
       /\ req' = IF req[q].names = {p} THEN Pruned(q) ELSE [req EXCEPT ![q].names = @ \ {p}]
  /\ UNCHANGED <<enabled, token, retention, rows, admin, bounds, failed, history>>

Pruning(q) ==
  \/ ReadDays(q) \/ ReadDaysFails(q) \/ Select(q) \/ Delete(q) \/ PruneFails(q) \/ Remove(q)

-----------------------------------------------------------------------------
(* libraryEnablePost and libraryDisablePost.                                 *)

\* Enable: first the switch,
EnableFlag(a) ==
  /\ admin[a].pc = "idle"
  /\ switches < MaxSwitches
  /\ enabled' = TRUE
  /\ switches' = switches + 1
  /\ admin' = [admin EXCEPT ![a].pc = "token"]
  /\ UNCHANGED <<token, retention, rows, disk, req, clock, issued, crashes, failed, history>>

\* then a new code. Guests can know it from here on.
EnableToken(a) ==
  /\ admin[a].pc = "token"
  /\ issued' = issued + 1
  /\ token' = issued + 1
  /\ admin' = [admin EXCEPT ![a].pc = "idle"]
  /\ UNCHANGED <<enabled, retention, rows, disk, req, clock, switches, crashes, failed, history>>

\* The library is on, with the code it had before, if any.
EnableFails(a) ==
  /\ admin[a].pc = "token"
  /\ Fails("token")
  /\ admin' = [admin EXCEPT ![a].pc = "idle"]
  /\ UNCHANGED <<store, req, bounds, history>>

\* Disable: first the switch,
DisableFlag(a) ==
  /\ admin[a].pc = "idle"
  /\ switches < MaxSwitches
  /\ enabled' = FALSE
  /\ switches' = switches + 1
  /\ admin' = [admin EXCEPT ![a].pc = "forget", ![a].upto = issued,
                            ![a].before = {p \in Guests : req[p].pc = "done"}]
  /\ UNCHANGED <<token, retention, rows, disk, req, clock, issued, crashes, failed, history>>

\* Mutant of DisableToken: the switch is thought to be enough.
DisableKeepsToken(a) ==
  /\ admin[a].pc = "forget"
  /\ admin' = [admin EXCEPT ![a].pc = "rows"]
  /\ UNCHANGED <<store, req, bounds, failed, history>>

\* then the code. An error of this statement is ignored.
DisableToken(a) ==
  /\ admin[a].pc = "forget"
  /\ \/ token' = 0 /\ UNCHANGED failed
     \/ Fails("forget") /\ UNCHANGED token
  /\ admin' = [admin EXCEPT ![a].pc = "rows"]
  /\ UNCHANGED <<enabled, retention, rows, disk, req, bounds, history>>

\* ClearAll: first the rows,
ClearRows(a) ==
  /\ admin[a].pc = "rows"
  /\ rows' = {}
  /\ crossed' = crossed \cup {p \in Guests : req[p].pc \in {"copy", "insert"}}
  /\ admin' = [admin EXCEPT ![a].pc = "list"]
  /\ UNCHANGED <<enabled, token, retention, disk, req, bounds, failed, terms, revoked, gone>>

\* The handler answers library_off: codes and chat up to its start are gone.
Off(a) ==
  /\ admin' = [admin EXCEPT ![a] = NoSwitch]
  /\ revoked' = IF admin[a].upto > revoked THEN admin[a].upto ELSE revoked
  /\ UNCHANGED <<enabled, token, retention, rows, req, bounds, crossed, terms>>

\* Mutant of ClearList: only finished voice notes are listed.
ClearListFull(a) ==
  /\ admin[a].pc = "list"
  /\ LET found == {<<p, disk[p]>> : p \in {g \in Guests : disk[g] = "full"}} IN
       IF found = {} THEN Off(a) /\ gone' = gone \cup admin[a].before /\ UNCHANGED disk
       ELSE admin' = [admin EXCEPT ![a].pc = "sweep", ![a].names = found]
            /\ UNCHANGED <<store, req, bounds, history>>
  /\ UNCHANGED failed

\* then every file that the directory holds at this moment, .partial ones too.
ClearList(a) ==
  /\ admin[a].pc = "list"
  /\ LET found == {<<p, disk[p]>> : p \in {g \in Guests : disk[g] # "none"}} IN
       \/ /\ found = {}
          /\ Off(a)
          /\ gone' = gone \cup admin[a].before
          /\ UNCHANGED disk
       \/ /\ found # {}
          /\ admin' = [admin EXCEPT ![a].pc = "sweep", ![a].names = found]
          /\ UNCHANGED <<store, req, bounds, history>>
  /\ UNCHANGED failed

\* os.Remove one by one; a name that is no longer there is passed over.
ClearSweep(a) ==
  /\ admin[a].pc = "sweep"
  /\ \E n \in admin[a].names :
       /\ disk' = [disk EXCEPT ![n[1]] = IF @ = n[2] THEN "none" ELSE @]
       /\ \/ /\ admin[a].names = {n}
             /\ Off(a)
             /\ gone' = gone \cup admin[a].before
          \/ /\ admin[a].names # {n}
             /\ admin' = [admin EXCEPT ![a].names = @ \ {n}]
             /\ UNCHANGED <<enabled, token, retention, rows, req, bounds, history>>
  /\ UNCHANGED failed

\* ClearAll fails at its statement or its listing: the answer is the same.
ClearFails(a) ==
  /\ \/ admin[a].pc = "rows"
     \/ admin[a].pc = "list"
  /\ Fails("clear")
  /\ Off(a)
  /\ UNCHANGED <<disk, gone>>

Switch(a) == EnableFlag(a) \/ DisableFlag(a)

Switching(a) ==
  \/ EnableToken(a) \/ EnableFails(a) \/ DisableToken(a)
  \/ ClearRows(a) \/ ClearList(a) \/ ClearSweep(a) \/ ClearFails(a)

-----------------------------------------------------------------------------

Tick ==
  /\ clock < MaxClock
  /\ clock' = clock + 1
  /\ UNCHANGED <<store, req, admin, issued, switches, crashes, failed, history>>

\* The process dies and starts again: requests are lost, database and files
\* stay as they are.
Crash ==
  /\ crashes < MaxCrashes
  /\ crashes' = crashes + 1
  /\ req' = [q \in Requests |->
               IF q = Maintenance THEN [NoRequest EXCEPT !.pc = "days"]
               ELSE IF q \in Settings THEN NoRequest
               ELSE IF Quiet(q) THEN req[q] ELSE [NoRequest EXCEPT !.pc = "done"]]
  /\ admin' = [a \in Admins |-> NoSwitch]
  /\ terms' = [q \in Requests |-> {}]
  /\ UNCHANGED <<store, clock, issued, switches, failed, crossed, revoked, gone>>

Next ==
  \/ \E p \in Guests : Guest(p)
  \/ \E q \in Settings, d \in Days : SetRetention(q, d)
  \/ \E q \in Requests : Pruning(q)
  \/ \E a \in Admins : Switch(a) \/ Switching(a)
  \/ Tick
  \/ Crash

\* The ticker of the maintenance loop goes on for as long as the process runs,
\* and a prune or a clearing that has begun runs to its end: nothing in them
\* waits for a browser. Nobody has to post, or to switch the library.
Fairness ==
  /\ \A q \in Requests : WF_vars(Pruning(q))
  /\ \A a \in Admins : WF_vars(Switching(a))

Spec == Init /\ [][Next]_vars /\ Fairness

-----------------------------------------------------------------------------
(* Properties.                                                               *)

\* The request has passed the check of its code and not begun to prune.
Accepted(p) == req[p].pc \in {"form", "copy", "insert", "days"}

AllQuiet ==
  /\ \A q \in Guests \cup Settings : Quiet(q)
  /\ req[Maintenance].pc = "days"
  /\ \A a \in Admins : admin[a].pc = "idle"

\* No message refers to a voice note that is not on disk, however pruning,
\* posting, disabling and crashes interleave, unless its post was saving the
\* voice note while a disable cleared the rows.
RowsHaveTheirVoice ==
  \A r \in rows : r.voice /\ r.post \notin crossed => disk[r.post] = "full"

\* When nothing is in progress, every voice note on disk belongs to a message:
\* only a crash, or a clearing that failed half way, leaves one behind.
NoOrphanVoice ==
  AllQuiet /\ crashes = 0 /\ "clear" \notin failed =>
    \A p \in Guests : disk[p] # "none" => \E r \in rows : r.post = p /\ r.voice

\* What was posted before a disable that ran to its end is gone for good, the
\* debris of earlier crashes included.
ClearedChatIsGone ==
  \A p \in gone : disk[p] = "none" /\ \A r \in rows : r.post # p

\* A request that arrives after a disable has been answered is never let in with
\* a code that was in force before, although the switch and the code are changed
\* and checked in separate statements; the code must have been deleted.
OldCodesStayOut ==
  "forget" \notin failed =>
    \A p \in Guests : Accepted(p) => req[p].code > req[p].barred

\* What a prune deletes is older than a retention that was in force at some time since the
\* prune asked for it, though the setting may change before the DELETE, and other prunes,
\* posts and clearings go on meanwhile. Only a prune that could not read the setting goes by
\* the default.
KeptForRetention ==
  [][\A q \in Requests : req[q].pc = "delete" /\ req'[q].pc # "delete"
       => \A r \in rows \ rows' : \E d \in terms[q] : r.at < clock - d]_vars

\* An expired message goes in the end, and its voice note with it, unless the
\* retention is raised in time, an operation fails or, for the voice note, the
\* process crashes.
ExpiredChatGoes ==
  \A p \in Guests :
    (\E r \in rows : r.post = p /\ r.at < clock - retention)
      ~> \/ (\A r \in rows : r.post # p) /\ (disk[p] = "none" \/ crashes > 0)
         \/ \E r \in rows : r.post = p /\ r.at >= clock - retention
         \/ failed # {}

\* server.go:884 tells the administrator who has switched the library off that
\* "Guest codes and all chat (including voice clips) were removed": then no
\* message would be left once everything has come to rest.
DisableRemovesAllChat ==
  ~enabled /\ AllQuiet /\ failed = {} /\ crashes = 0 => rows = {}
=============================================================================
