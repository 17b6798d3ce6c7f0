---------------------------- MODULE AdminAuth_proofs ----------------------------
(***************************************************************************)
(* Proofs about AdminAuth and the limiter before it, for any number of     *)
(* requests, clients, passwords and tokens.                                *)
(*                                                                         *)
(* A token is drawn once, and its expiry is never changed: what was read of*)
(* it stays true or the row is gone. So a session that has ended stays so, *)
(* and a request that began after its end cannot find it in force. A stored*)
(* password is never removed, so a set-up that saw one cannot come to store*)
(* its own, and the password in force is that of a set-up that began before*)
(* there was one.                                                          *)
(*                                                                         *)
(* What the limiter keeps of a client are posts that it let through, and   *)
(* what it has dropped was too old then and is older for whoever asks later:*)
(* so a post finds all the others of its window when it is let through.    *)
(*                                                                         *)
(* The steps are those of AuthStep: a statement of a request, a step of the*)
(* limiter or the clock, and the end of the process. Hub_proofs uses them. *)
(***************************************************************************)
EXTENDS AdminAuth, FiniteSetTheorems, TLAPS

\* A post has come to its form's handler.
Posted == {"setup", "store", "login", "compare", "session"}

\* What the proof needs of the limiter's request.
ReqType == [pc : {"idle", "waiting", "passed", "refused", "lost"}, key : Keys, now : Int]

Types ==
  /\ clock \in Int
  /\ req \in [Requests -> ReqType]
  /\ password \in Passwords \cup {None}
  /\ used \in SUBSET Tokens
  /\ sessions \in [Tokens -> Int \cup {None}]
  /\ at \in [Requests -> {"idle"} \cup Asking \cup Ended]
  /\ pw \in [Requests -> Passwords \cup {None}]
  /\ tok \in [Requests -> Tokens \cup {None}]
  /\ seen \in [Requests -> Int]
  /\ late \in [Requests -> BOOLEAN]
  /\ over \in [Requests -> BOOLEAN]

\* The row of a token is gone, or will not be accepted any more.
Gone(t) == sessions[t] = None \/ clock > sessions[t]

\* What a request knows of its session stays true of it.
Known ==
  /\ \A t \in Tokens : t \notin used => sessions[t] = None
  /\ \A r \in Requests : tok[r] # None => tok[r] \in used
  /\ \A r \in Requests : at[r] = "judge" =>
       tok[r] # None /\ (sessions[tok[r]] = None \/ sessions[tok[r]] = seen[r])
  /\ \A r \in Requests : at[r] = "forget" => tok[r] # None /\ Gone(tok[r])
  /\ \A r \in Requests : at[r] = "out" /\ tok[r] # None => sessions[tok[r]] = None

\* A request that began after the end of its session does not get in.
KeptOut(r) ==
  over[r] => /\ at[r] \in {"root", "purge", "validate", "judge", "forget", "logout", "refused", "out"}
             /\ tok[r] # None /\ Gone(tok[r])
             /\ at[r] = "judge" => clock > seen[r]

Late == \A r \in Requests : KeptOut(r)

\* A post is that of its form, and a set-up that began too late does not store.
Forms ==
  /\ \A r \in Requests : at[r] \in Posted => pw[r] \in Passwords
  /\ \A r \in Requests : at[r] \in {"setup", "store"} => req[r].key = "setup"
  /\ \A r \in Requests : late[r] => password # None /\ at[r] # "store"

StoredIt(q) ==
  req[q].key = "setup" /\ ~late[q] /\ at[q] \in {"session", "signedIn", "error"}

\* The password in force is that of a set-up that began before there was one, and whoever
\* has passed its comparison, or has stored it, knew it, unless there was a rival.
Owned ==
  /\ password # None => \E q \in Requests : StoredIt(q) /\ pw[q] = password
  /\ \A r \in Requests : at[r] \in {"session", "signedIn"} =>
       password # None /\ (pw[r] = password \/ RivalSetups)

AuthInv == Types /\ Known /\ Late /\ Forms /\ Owned

-----------------------------------------------------------------------------
(* The steps.                                                              *)

Acts(r) ==
  /\ \/ Statement(r) \/ JudgeSession(r) \/ AuthFails(r)
     \/ \E p \in Passwords : Post(r, p)
     \/ \E t \in used \cup {None}, route \in {"root", "validate", "logout"} : Visit(r, t, route)
  /\ UNCHANGED vars

\* The limiter or the clock; a request that is under way keeps its key.
Waits ==
  /\ UNCHANGED authVars
  /\ clock' \in {clock, clock + 1}
  /\ req' \in [Requests -> ReqType]
  /\ \A q \in Requests : at[q] # "idle" => req'[q] = req[q]

\* The process ends.
Stops ==
  /\ at' = [r \in Requests |-> IF at[r] = "session" THEN "error"
                               ELSE IF at[r] \in Asking THEN "refused" ELSE at[r]]
  /\ req' \in [Requests -> ReqType] /\ \A r \in Requests : req'[r].key = req[r].key
  /\ UNCHANGED <<clock, password, sessions, used, pw, tok, seen, late, over>>

AuthStep == Waits \/ Stops \/ \E r \in Requests : Acts(r)

\* The limiter's own steps touch one request that has not begun.
LEMMA LimiterWaits ==
  ASSUME Types, NEW r \in Requests, at[r] = "idle", UNCHANGED authVars,
         (\E k \in Keys : Arrive(r, k)) \/ Allow(r) \/ Refuse(r)
  PROVE  Waits
<1>1. clock' = clock
  BY DEF Arrive, Allow, Refuse
<1>2. req' \in [Requests -> ReqType]
  <2>1. ASSUME NEW k \in Keys, Arrive(r, k) PROVE req' \in [Requests -> ReqType]
    <3>1. [pc |-> "waiting", key |-> k, now |-> clock] \in ReqType
      BY DEF Types, ReqType
    <3>. QED
      BY <2>1, <3>1 DEF Types, Arrive
  <2>2. ASSUME NEW pc \in {"passed", "refused"}, req' = [req EXCEPT ![r].pc = pc]
        PROVE  req' \in [Requests -> ReqType]
    <3>1. [req[r] EXCEPT !.pc = pc] \in ReqType
      BY DEF Types, ReqType
    <3>. QED
      BY <2>2, <3>1 DEF Types
  <2>. QED
    BY <2>1, <2>2 DEF Allow, Refuse
<1>3. ASSUME NEW q \in Requests, at[q] # "idle" PROVE req'[q] = req[q]
  BY <1>3 DEF Arrive, Allow, Refuse, Types
<1>. QED
  BY <1>1, <1>2, <1>3 DEF Waits

\* A step of the request alone: the others stay where they are, and nothing is forgotten.
Rest(r) == \A q \in Requests \ {r} :
  /\ at'[q] = at[q] /\ pw'[q] = pw[q] /\ tok'[q] = tok[q]
  /\ seen'[q] = seen[q] /\ late'[q] = late[q] /\ over'[q] = over[q]

\* A statement keeps the types, and touches its own request only.
LEMMA ActsType ==
  ASSUME Types, Forms, NEW r \in Requests, Acts(r)
  PROVE  Types' /\ Rest(r)
<1>. USE DEF Types, Rest, Goes, dbVars, vars, Asking, Ended
<1>1. ASSUME NEW p \in Passwords, Post(r, p) PROVE Types' /\ Rest(r)
  BY <1>1 DEF Post, Acts
<1>2. ASSUME NEW t \in used \cup {None}, NEW route \in {"root", "validate", "logout"},
             Visit(r, t, route)
      PROVE  Types' /\ Rest(r)
  <2>1. PICK b \in BOOLEAN : over' = [over EXCEPT ![r] = b]
    BY <1>2 DEF Visit, HasEnded
  <2>2. /\ at' = [at EXCEPT ![r] = route] /\ tok' = [tok EXCEPT ![r] = t]
        /\ UNCHANGED <<dbVars, pw, seen, late, vars>>
    BY <1>2 DEF Visit, Acts
  <2>. QED
    BY <2>1, <2>2
<1>3. ASSUME SetupCheck(r) \/ LoginCheck(r) \/ ComparePassword(r) \/ RootCheck(r) \/ NoSession(r)
             \/ JudgeSession(r)
      PROVE  Types' /\ Rest(r)
  BY <1>3 DEF SetupCheck, LoginCheck, ComparePassword, RootCheck, NoSession, JudgeSession, Acts
<1>4. ASSUME AuthFails(r) PROVE Types' /\ Rest(r)
  <2>1. PICK next \in {"validate", "error", "refused"} : at' = [at EXCEPT ![r] = next]
    BY <1>4 DEF AuthFails
  <2>2. UNCHANGED <<dbVars, pw, tok, seen, late, over, vars>>
    BY <1>4 DEF AuthFails, Acts
  <2>. QED
    BY <2>1, <2>2
<1>5. ASSUME StorePassword(r) PROVE Types' /\ Rest(r)
  BY <1>5 DEF StorePassword, Acts, Forms, Posted
<1>6. ASSUME CreateSession(r) PROVE Types' /\ Rest(r)
  BY <1>6, AuthAssumption DEF CreateSession, Acts
<1>7. ASSUME Purge(r) PROVE Types' /\ Rest(r)
  BY <1>7 DEF Purge, Acts
<1>8. ASSUME ReadSession(r) PROVE Types' /\ Rest(r)
  BY <1>8 DEF ReadSession, Acts
<1>9. ASSUME ForgetSession(r) PROVE Types' /\ Rest(r)
  BY <1>9 DEF ForgetSession, Acts
<1>10. ASSUME Logout(r) PROVE Types' /\ Rest(r)
  BY <1>10 DEF Logout, Acts
<1>. QED
  BY ONLY Acts(r), <1>1, <1>2, <1>3, <1>4, <1>5, <1>6, <1>7, <1>8, <1>9, <1>10 DEF Acts, Statement

-----------------------------------------------------------------------------
(* Each part of the invariant is preserved.                                *)

\* A session that has ended has ended for good, and what was known of it stays true.
LEMMA GoneStays ==
  ASSUME Types, Known, AuthStep
  PROVE  /\ used \subseteq used'
         /\ \A t \in used : Gone(t) => sessions'[t] = None \/ clock' > sessions'[t]
         /\ \A t \in used : sessions'[t] = sessions[t] \/ sessions'[t] = None
         /\ clock' = clock \/ clock' = clock + 1
<1>1. CASE Waits
  BY <1>1 DEF Waits, authVars, Gone, Types
<1>2. CASE Stops
  BY <1>2 DEF Stops, Gone
<1>3. ASSUME NEW r \in Requests, Acts(r)
      PROVE  /\ used \subseteq used'
             /\ \A t \in used : sessions'[t] = sessions[t] \/ sessions'[t] = None
             /\ clock' = clock
  <2>1. clock' = clock
    BY <1>3 DEF Acts, vars
  <2>2. CASE CreateSession(r)
    BY <2>1, <2>2 DEF CreateSession, Types
  <2>3. CASE Purge(r) \/ Logout(r)
    BY <2>1, <2>3 DEF Purge, Logout, Types
  <2>4. CASE ForgetSession(r)
    BY <2>1, <2>4 DEF ForgetSession, Types
  <2>5. CASE ~(CreateSession(r) \/ Purge(r) \/ Logout(r) \/ ForgetSession(r))
    <3>1. sessions' = sessions /\ used' = used
      BY <1>3, <2>5 DEF Acts, Statement, SetupCheck, StorePassword, LoginCheck, ComparePassword,
         RootCheck, NoSession, ReadSession, JudgeSession, AuthFails, Post, Visit, dbVars
    <3>. QED
      BY <2>1, <3>1
  <2>. QED
    BY <2>2, <2>3, <2>4, <2>5
<1>. QED
  BY <1>1, <1>2, <1>3 DEF AuthStep, Gone, Types

\* Rows go or are judged by what was read of them; none changes its expiry.
LEMMA KnownStep ==
  ASSUME Types, Forms, Known, AuthStep
  PROVE  Known'
<1>1. CASE Waits
  BY <1>1 DEF Waits, authVars, Known, Gone, Types
<1>2. CASE Stops
  BY <1>2 DEF Stops, Known, Gone, Types, Asking, Ended
<1>3. ASSUME NEW r \in Requests, Acts(r) PROVE Known'
  <2>1. Types' /\ Rest(r) /\ clock' = clock
    BY <1>3, ActsType DEF Acts, vars
  <2>2. CASE CreateSession(r)
    BY <2>1, <2>2, AuthAssumption DEF CreateSession, Goes, Known, Gone, Types, Rest
  <2>3. CASE Purge(r)
    BY <2>1, <2>3 DEF Purge, Goes, Known, Gone, Types, Rest
  <2>4. CASE Logout(r)
    BY <2>1, <2>4 DEF Logout, Goes, Known, Gone, Types, Rest
  <2>5. CASE ForgetSession(r)
    BY <2>1, <2>5 DEF ForgetSession, Goes, Known, Gone, Types, Rest
  <2>6. CASE ReadSession(r)
    BY <2>1, <2>6 DEF ReadSession, Goes, Known, Gone, Types, Rest, dbVars
  <2>7. CASE JudgeSession(r)
    BY <2>1, <2>7 DEF JudgeSession, Goes, Known, Gone, Types, Rest, dbVars
  <2>8. ASSUME NEW t \in used \cup {None}, NEW route \in {"root", "validate", "logout"},
               Visit(r, t, route)
        PROVE  Known'
    BY <2>1, <2>8 DEF Visit, Goes, Known, Gone, Types, Rest, dbVars
  <2>9. CASE \/ SetupCheck(r) \/ StorePassword(r) \/ LoginCheck(r) \/ ComparePassword(r)
             \/ RootCheck(r) \/ NoSession(r) \/ AuthFails(r) \/ \E p \in Passwords : Post(r, p)
    <3>1. sessions' = sessions /\ used' = used /\ tok' = tok /\ seen' = seen
      BY <2>9 DEF SetupCheck, StorePassword, LoginCheck, ComparePassword, RootCheck, NoSession,
         AuthFails, Post, dbVars
    <3>2. at'[r] \notin {"judge", "forget", "out"}
      BY <2>9 DEF SetupCheck, StorePassword, LoginCheck, ComparePassword, RootCheck, NoSession,
         AuthFails, Post, Goes, Types
    <3>. QED
      BY <2>1, <3>1, <3>2 DEF Known, Gone, Rest
  <2>. QED
    BY <1>3, <2>2, <2>3, <2>4, <2>5, <2>6, <2>7, <2>8, <2>9 DEF Acts, Statement
<1>. QED
  BY <1>1, <1>2, <1>3 DEF AuthStep

\* Whoever came too late finds nothing.
LEMMA LateStep ==
  ASSUME Types, Forms, Known, Late, AuthStep
  PROVE  Late'
<1>0. /\ used \subseteq used'
      /\ \A t \in used : Gone(t) => sessions'[t] = None \/ clock' > sessions'[t]
  BY GoneStays
<1>1. ASSUME NEW q \in Requests, over'[q] = over[q], tok'[q] = tok[q], seen'[q] = seen[q],
             clock' = clock \/ clock' = clock + 1,
             at'[q] = at[q] \/ (at'[q] = "refused" /\ at[q] \in Asking)
      PROVE  KeptOut(q)'
  <2>1. CASE ~over[q]
    BY <1>1, <2>1 DEF KeptOut
  <2>2. CASE over[q]
    <3>1. KeptOut(q) /\ tok[q] \in used
      BY <2>2 DEF Late, Known, KeptOut
    <3>2. sessions'[tok'[q]] = None \/ clock' > sessions'[tok'[q]]
      BY <1>0, <1>1, <2>2, <3>1 DEF KeptOut
    <3>3. seen[q] \in Int /\ clock \in Int
      BY DEF Types
    <3>. QED
      BY <1>1, <2>2, <3>1, <3>2, <3>3 DEF KeptOut, Gone
  <2>. QED
    BY <2>1, <2>2
<1>2. CASE Waits
  BY <1>1, <1>2 DEF Waits, authVars, Late
<1>3. CASE Stops
  <2>1. ASSUME NEW q \in Requests, at[q] = "session" PROVE KeptOut(q)'
    BY <1>3, <2>1 DEF Stops, Late, KeptOut
  <2>2. ASSUME NEW q \in Requests, at[q] # "session" PROVE KeptOut(q)'
    BY <1>1, <1>3, <2>2 DEF Stops
  <2>. QED
    BY <2>1, <2>2 DEF Late
<1>4. ASSUME NEW r \in Requests, Acts(r) PROVE Late'
  <2>1. Types' /\ Rest(r) /\ clock' = clock
    BY <1>4, ActsType DEF Acts, vars
  <2>2. ASSUME NEW q \in Requests \ {r} PROVE KeptOut(q)'
    BY <1>1, <2>1 DEF Rest
  <2>3. ASSUME NEW t \in used \cup {None}, NEW route \in {"root", "validate", "logout"},
               Visit(r, t, route)
        PROVE  KeptOut(r)'
    <3>1. /\ at'[r] = route /\ tok'[r] = t /\ (over'[r] <=> HasEnded(t))
          /\ sessions' = sessions
      BY <2>3 DEF Visit, Goes, Types, dbVars
    <3>2. CASE ~HasEnded(t)
      BY <3>1, <3>2 DEF KeptOut
    <3>3. CASE HasEnded(t)
      <4>1. t \in used /\ t # None
        BY <3>3, AuthAssumption DEF HasEnded, Types
      <4>2. Gone(t)
        BY <3>3, <4>1 DEF HasEnded, SignedOut, Known, Gone
      <4>. QED
        BY <1>0, <3>1, <4>1, <4>2 DEF KeptOut, Gone
    <3>. QED
      BY <3>2, <3>3
  <2>4. ASSUME ~\E t \in used \cup {None}, route \in {"root", "validate", "logout"} :
                   Visit(r, t, route)
        PROVE  KeptOut(r)'
    <3>1. over'[r] = over[r]
      BY <1>4, <2>4 DEF Acts, Statement, SetupCheck, StorePassword, LoginCheck, ComparePassword,
         CreateSession, RootCheck, Purge, NoSession, ReadSession, ForgetSession, Logout,
         JudgeSession, AuthFails, Post
    <3>2. CASE ~over[r]
      BY <3>1, <3>2 DEF KeptOut
    <3>3. CASE over[r]
      <4>1. /\ at[r] \in {"root", "purge", "validate", "judge", "forget", "logout", "refused", "out"}
            /\ tok[r] # None /\ Gone(tok[r]) /\ tok[r] \in used
            /\ at[r] = "judge" => clock > seen[r]
        BY <3>3 DEF Late, Known, KeptOut
      <4>2. tok'[r] = tok[r]
        BY <1>4, <2>4, <4>1 DEF Acts, Statement, SetupCheck, StorePassword, LoginCheck,
           ComparePassword, CreateSession, RootCheck, Purge, NoSession, ReadSession, ForgetSession,
           Logout, JudgeSession, AuthFails, Post, Goes
      <4>3. sessions'[tok'[r]] = None \/ clock' > sessions'[tok'[r]]
        BY <1>0, <4>1, <4>2
      <4>4. at'[r] \in {"purge", "validate", "judge", "forget", "refused", "out"}
        <5>1. CASE JudgeSession(r)
          BY <4>1, <5>1 DEF JudgeSession, Goes, Types
        <5>2. CASE AuthFails(r)
          BY <4>1, <5>2 DEF AuthFails, Goes, Types
        <5>3. CASE Statement(r)
          BY <4>1, <5>3 DEF Statement, SetupCheck, StorePassword, LoginCheck,
             ComparePassword, CreateSession, RootCheck, Purge, NoSession, ReadSession,
             ForgetSession, Logout, Goes, Types
        <5>4. ~\E p \in Passwords : Post(r, p)
          BY <4>1 DEF Post, Goes
        <5>. QED
          BY <1>4, <2>4, <5>1, <5>2, <5>3, <5>4 DEF Acts
      <4>5. ASSUME at'[r] = "judge" PROVE clock' > seen'[r]
        <5>1. ReadSession(r)
          BY <1>4, <2>4, <4>1, <4>5 DEF Acts, Statement, SetupCheck, StorePassword, LoginCheck,
             ComparePassword, CreateSession, RootCheck, Purge, NoSession, JudgeSession,
             ForgetSession, Logout, AuthFails, Post, Goes, Types
        <5>. QED
          BY <2>1, <4>1, <5>1 DEF ReadSession, Gone, Types
      <4>. QED
        BY <4>1, <4>2, <4>3, <4>4, <4>5 DEF KeptOut, Gone
    <3>. QED
      BY <3>2, <3>3
  <2>. QED
    BY <1>4, <2>2, <2>3, <2>4 DEF Late
<1>. QED
  BY <1>2, <1>3, <1>4 DEF AuthStep

\* A post stays with its form, and a set-up that began too late never comes to store.
LEMMA FormsStep ==
  ASSUME Types, Forms, AuthStep
  PROVE  Forms'
<1>1. CASE Waits
  BY <1>1 DEF Waits, authVars, Forms, Posted
<1>2. CASE Stops
  <2>1. \A r \in Requests : at'[r] \notin Posted
    BY <1>2 DEF Stops, Posted, Types, Asking, Ended
  <2>. QED
    BY <1>2, <2>1 DEF Stops, Forms, Posted
<1>3. ASSUME NEW r \in Requests, Acts(r) PROVE Forms'
  <2>1. Types' /\ Rest(r) /\ req' = req
    BY <1>3, ActsType DEF Acts, vars
  <2>2. password # None => password' # None
    <3>1. CASE StorePassword(r)
      BY <3>1, AuthAssumption DEF StorePassword, Goes, Forms, Posted
    <3>2. CASE ~StorePassword(r)
      BY <1>3, <3>2 DEF Acts, Statement, SetupCheck, LoginCheck, ComparePassword, CreateSession,
         RootCheck, Purge, NoSession, ReadSession, ForgetSession, Logout, JudgeSession, AuthFails,
         Post, Visit, dbVars
    <3>. QED
      BY <3>1, <3>2
  <2>3. ASSUME NEW p \in Passwords, Post(r, p) PROVE Forms'
    <3>1. /\ at'[r] = req[r].key /\ pw'[r] = p /\ (late'[r] <=> password # None)
      BY <2>3 DEF Post, Goes, Types
    <3>. QED
      BY <2>1, <2>2, <2>3, <3>1 DEF Forms, Rest, Post, Posted
  <2>4. CASE SetupCheck(r)
    <3>1. /\ at'[r] \in {"store", "refused"} /\ (at'[r] = "store" => password = None)
          /\ at[r] = "setup" /\ pw' = pw /\ late' = late /\ password' = password
      BY <2>4 DEF SetupCheck, Goes, Types, dbVars
    <3>. QED
      BY <2>1, <3>1 DEF Forms, Rest, Posted
  <2>5. ASSUME pw' = pw, late' = late, at'[r] \notin {"setup", "store"},
               at'[r] \in Posted => at[r] \in Posted
        PROVE  Forms'
    BY <2>1, <2>2, <2>5 DEF Forms, Rest, Posted
  <2>6. CASE AuthFails(r) \/ JudgeSession(r)
    BY <2>5, <2>6 DEF AuthFails, JudgeSession, Goes, Types, Posted, Asking
  <2>7. CASE Statement(r) /\ ~SetupCheck(r)
    BY <2>5, <2>7 DEF Statement, StorePassword, LoginCheck, ComparePassword, CreateSession,
       RootCheck, Purge, NoSession, ReadSession, ForgetSession, Logout, Goes, Types, Posted
  <2>8. ASSUME NEW t \in used \cup {None}, NEW route \in {"root", "validate", "logout"},
               Visit(r, t, route)
        PROVE  Forms'
    BY <2>5, <2>8 DEF Visit, Goes, Types, Posted
  <2>. QED
    BY <1>3, <2>3, <2>4, <2>6, <2>7, <2>8 DEF Acts
<1>. QED
  BY <1>1, <1>2, <1>3 DEF AuthStep

\* What a set-up has stored it has stored for good.
LEMMA StoredStays ==
  ASSUME Types, Forms, AuthStep, NEW q \in Requests, StoredIt(q)
  PROVE  StoredIt(q)' /\ pw'[q] = pw[q]
<1>1. CASE Waits
  BY <1>1 DEF Waits, authVars, StoredIt
<1>2. CASE Stops
  BY <1>2 DEF Stops, StoredIt, Asking
<1>3. ASSUME NEW r \in Requests, Acts(r), r # q PROVE StoredIt(q)' /\ pw'[q] = pw[q]
  BY <1>3, ActsType DEF Rest, StoredIt, Acts, vars
<1>4. CASE Acts(q)
  <2>1. req' = req
    BY <1>4 DEF Acts, vars
  <2>2. at'[q] \in {"session", "signedIn", "error"} /\ pw' = pw /\ late' = late
    <3>1. CASE AuthFails(q)
      BY <3>1 DEF AuthFails, Goes, StoredIt, Types, Asking
    <3>2. CASE Statement(q)
      BY <3>2 DEF Statement, SetupCheck, StorePassword, LoginCheck, ComparePassword, CreateSession,
         RootCheck, Purge, NoSession, ReadSession, ForgetSession, Logout, Goes, StoredIt, Types
    <3>3. ~JudgeSession(q) /\ (\A p \in Passwords : ~Post(q, p))
      BY DEF JudgeSession, Post, Goes, StoredIt
    <3>4. \A t \in used \cup {None}, route \in {"root", "validate", "logout"} : ~Visit(q, t, route)
      BY DEF Visit, Goes, StoredIt
    <3>. QED
      BY <1>4, <3>1, <3>2, <3>3, <3>4 DEF Acts
  <2>. QED
    BY <2>1, <2>2 DEF StoredIt
<1>. QED
  BY <1>1, <1>2, <1>3, <1>4 DEF AuthStep

\* Two set-ups that have stored different passwords stay rivals.
LEMMA RivalsStay ==
  ASSUME Types, Forms, AuthStep, RivalSetups
  PROVE  RivalSetups'
<1>1. PICK q1, q2 \in Requests : StoredIt(q1) /\ StoredIt(q2) /\ pw[q1] # pw[q2]
  BY DEF RivalSetups, StoredIt
<1>2. StoredIt(q1)' /\ StoredIt(q2)' /\ pw'[q1] # pw'[q2]
  BY <1>1, StoredStays
<1>. QED
  BY <1>2 DEF RivalSetups, StoredIt

\* Two set-ups with different passwords are rivals, by definition.
LEMMA RivalsAre ==
  ASSUME NEW q1 \in Requests, NEW q2 \in Requests,
         StoredIt(q1)', StoredIt(q2)', pw'[q1] # pw'[q2]
  PROVE  RivalSetups'
BY DEF RivalSetups, StoredIt

\* The password in force has an owner, and the sessions know it.
LEMMA OwnedStep ==
  ASSUME Types, Forms, Owned, AuthStep
  PROVE  Owned'
<1>1. ASSUME password' = password,
             \A q \in Requests : at'[q] \in {"session", "signedIn"} =>
               pw'[q] = pw[q] /\ (at[q] \in {"session", "signedIn"} \/ (pw[q] = password /\ password # None))
      PROVE  Owned'
  BY <1>1, StoredStays, RivalsStay DEF Owned
<1>2. CASE Waits
  BY <1>1, <1>2 DEF Waits, authVars
<1>3. CASE Stops
  BY <1>1, <1>3 DEF Stops, Asking
<1>4. ASSUME NEW r \in Requests, Acts(r), ~StorePassword(r) PROVE Owned'
  <2>1. password' = password
    BY <1>4 DEF Acts, Statement, SetupCheck, LoginCheck, ComparePassword, CreateSession,
       RootCheck, Purge, NoSession, ReadSession, ForgetSession, Logout, JudgeSession, AuthFails,
       Post, Visit, dbVars
  <2>2. ASSUME at'[r] \in {"session", "signedIn"}
        PROVE  pw' = pw /\ (at[r] = "session" \/ (pw[r] = password /\ password # None))
    <3>1. CASE ComparePassword(r)
      BY <2>2, <3>1, AuthAssumption DEF ComparePassword, Goes, Types, Forms, Posted
    <3>2. CASE CreateSession(r)
      BY <3>2 DEF CreateSession, Goes
    <3>3. CASE Statement(r) /\ ~ComparePassword(r) /\ ~CreateSession(r)
      BY <1>4, <2>2, <3>3 DEF Statement, SetupCheck, LoginCheck,
         RootCheck, Purge, NoSession, ReadSession, ForgetSession, Logout, Goes, Types
    <3>4. ~JudgeSession(r) /\ ~AuthFails(r)
      BY <2>2 DEF JudgeSession, AuthFails, Goes, Types
    <3>5. \A p \in Passwords : ~Post(r, p)
      BY <2>2 DEF Post, Goes, Types
    <3>6. \A t \in used \cup {None}, route \in {"root", "validate", "logout"} : ~Visit(r, t, route)
      BY <2>2 DEF Visit, Goes, Types
    <3>. QED
      BY <1>4, <3>1, <3>2, <3>3, <3>4, <3>5, <3>6 DEF Acts
  <2>3. Rest(r)
    BY <1>4, ActsType
  <2>. QED
    BY <1>1, <2>1, <2>2, <2>3 DEF Rest
<1>5. ASSUME NEW r \in Requests, Acts(r), StorePassword(r) PROVE Owned'
  <2>1. /\ password' = pw[r] /\ pw[r] # None /\ pw' = pw
        /\ at[r] = "store" /\ at'[r] = "session" /\ late' = late
        /\ Rest(r) /\ req' = req
    BY <1>5, AuthAssumption, ActsType DEF StorePassword, Goes, Types, Forms, Posted, Acts, vars
  <2>2. StoredIt(r)'
    BY <2>1 DEF StoredIt, Forms
  <2>3. ASSUME NEW q \in Requests, at'[q] \in {"session", "signedIn"}, pw'[q] # password'
        PROVE  RivalSetups'
    <3>1. q # r /\ at[q] \in {"session", "signedIn"}
      BY <2>1, <2>3 DEF Rest
    <3>2. CASE RivalSetups
      BY <3>2, RivalsStay
    <3>3. CASE pw[q] = password /\ password # None
      <4>1. PICK o \in Requests : StoredIt(o) /\ pw[o] = password
        BY <3>3 DEF Owned
      <4>2. StoredIt(o)' /\ pw'[o] = pw[o]
        BY <4>1, StoredStays
      <4>. QED
        BY <2>1, <2>2, <2>3, <3>3, <4>1, <4>2, RivalsAre
    <3>. QED
      BY <3>1, <3>2, <3>3 DEF Owned
  <2>. QED
    BY <2>1, <2>2, <2>3 DEF Owned
<1>. QED
  BY <1>2, <1>3, <1>4, <1>5 DEF AuthStep

-----------------------------------------------------------------------------
(* The invariant, and the properties.                                      *)

\* Every step of a request, of the limiter, of the clock, and the end of the process.
LEMMA AuthStepInv ==
  ASSUME AuthInv, AuthStep
  PROVE  AuthInv'
<1>1. Types'
  <2>1. CASE Waits
    BY <2>1 DEF AuthInv, Types, Waits, authVars
  <2>2. CASE Stops
    BY <2>2 DEF AuthInv, Types, Stops, Asking, Ended
  <2>. QED
    BY <2>1, <2>2, ActsType DEF AuthStep, AuthInv
<1>. QED
  BY <1>1, KnownStep, LateStep, FormsStep, OwnedStep DEF AuthInv

\* A hub that nobody has asked anything.
LEMMA AuthInitInv == AuthInit => AuthInv
<1>1. SUFFICES ASSUME AuthInit PROVE AuthInv
  OBVIOUS
<1>2. Types
  BY <1>1 DEF AuthInit, Init, Types, ReqType
<1>3. Known /\ Late /\ Forms
  BY <1>1 DEF AuthInit, Known, Late, KeptOut, Forms, Posted
<1>4. Owned
  BY <1>1 DEF AuthInit, Owned
<1>. QED
  BY <1>2, <1>3, <1>4 DEF AuthInv

\* The steps of the specification are those that the lemmas speak of.
LEMMA AuthNextStep ==
  ASSUME Types, [AuthNext]_<<vars, authVars>>
  PROVE  AuthStep
<1>1. ASSUME NEW r \in Requests, at[r] = "idle", UNCHANGED authVars,
             (\E k \in Keys : Arrive(r, k)) \/ Allow(r) \/ Refuse(r)
      PROVE  Waits
  BY <1>1, LimiterWaits
<1>2. ASSUME Tick, UNCHANGED authVars PROVE Waits
  BY <1>2 DEF Tick, Waits, Types
<1>3. ASSUME UNCHANGED <<vars, authVars>> PROVE Waits
  BY <1>3 DEF vars, Waits, Types
<1>. QED
  BY <1>1, <1>2, <1>3 DEF AuthNext, AuthStep, Acts

\* The invariant holds in every behaviour of the handlers of auth.go and server.go.
THEOREM AuthInvariance == AuthSpec => []AuthInv
<1>1. AuthInit => AuthInv
  BY AuthInitInv
<1>2. AuthInv /\ [AuthNext]_<<vars, authVars>> => AuthInv'
  BY AuthStepInv, AuthNextStep DEF AuthInv
<1>. QED
  BY <1>1, <1>2, PTL DEF AuthSpec

\* What the invariant says of pages and passwords.
LEMMA InvIsSafe ==
  ASSUME AuthInv
  PROVE  NoEntryAfterTheEnd /\ SessionsKnowThePassword
<1>1. NoEntryAfterTheEnd
  BY DEF AuthInv, Late, KeptOut, NoEntryAfterTheEnd
<1>2. SessionsKnowThePassword
  BY DEF AuthInv, Owned, SessionsKnowThePassword
<1>. QED
  BY <1>1, <1>2

\* A late set-up is not at the statement that stores.
LEMMA StepKeepsSetup ==
  ASSUME AuthInv
  PROVE  \A r \in Requests : late[r] => ~(at[r] = "store" /\ at'[r] = "session")
BY DEF AuthInv, Forms

\* A row goes by one of four statements: a sign-in adds another row, a purge takes what
\* has run out, and the last two take the row of their own request.
LEMMA StepKeepsSessions ==
  ASSUME AuthInv, AuthStep, NEW t \in Tokens, sessions[t] # None, sessions'[t] = None
  PROVE  clock > sessions[t] \/ \E r \in Requests : at[r] = "logout" /\ tok[r] = t
<1>1. PICK r \in Requests : Acts(r) /\ sessions' # sessions
  BY DEF AuthStep, Waits, Stops, authVars
<1>2. CASE CreateSession(r)
  <2>1. PICK n \in Tokens \ used : sessions' = [sessions EXCEPT ![n] = clock + TTL]
    BY <1>2 DEF CreateSession
  <2>2. n # t
    BY <2>1 DEF AuthInv, Known
  <2>. QED
    BY <2>1, <2>2 DEF AuthInv, Types
<1>3. CASE Purge(r)
  BY <1>3 DEF Purge, AuthInv, Types
<1>4. CASE Logout(r)
  BY <1>4 DEF Logout, Goes, AuthInv, Types
<1>5. CASE ForgetSession(r)
  <2>1. tok[r] = t /\ Gone(t)
    BY <1>5 DEF ForgetSession, Goes, AuthInv, Types, Known
  <2>. QED
    BY <2>1 DEF Gone
<1>6. CASE ~(CreateSession(r) \/ Purge(r) \/ Logout(r) \/ ForgetSession(r))
  <2>1. sessions' = sessions
    BY <1>1, <1>6 DEF Acts, Statement, SetupCheck, StorePassword, LoginCheck, ComparePassword,
       RootCheck, NoSession, ReadSession, JudgeSession, AuthFails, Post, Visit, dbVars
  <2>. QED
    BY <1>1, <2>1
<1>. QED
  BY <1>2, <1>3, <1>4, <1>5, <1>6

\* requireAdmin and the start page: no page is shown for a session that had run out or
\* been signed out when the request for the page began, though ValidateSession reads the
\* row in one statement and judges it later.
THEOREM LateRequestsStayOut == AuthSpec => []NoEntryAfterTheEnd
BY AuthInvariance, InvIsSafe, PTL

\* loginPost and setupPost: whoever was given a session gave the password that is now
\* in force, unless set-ups with different passwords ran together.
THEOREM SessionsKnow == AuthSpec => []SessionsKnowThePassword
BY AuthInvariance, InvIsSafe, PTL

\* setupPost: a set-up that begins when a password is stored never replaces it, though
\* SetAdminPassword is an upsert that does not look.
THEOREM SetupHappensOnce == AuthSpec => SetupOnlyOnce
BY AuthInvariance, StepKeepsSetup, PTL DEF SetupOnlyOnce

\* DeleteExpiredSessions, ValidateSession and DeleteSession remove only what has run out
\* or is being signed out.
THEOREM SessionsLast == AuthSpec => SessionsStayInForce
<1>1. AuthInv /\ [AuthNext]_<<vars, authVars>>
        => \A t \in Tokens : sessions[t] # None /\ sessions'[t] = None
             => clock > sessions[t] \/ \E r \in Requests : at[r] = "logout" /\ tok[r] = t
  BY AuthNextStep, StepKeepsSessions DEF AuthInv
<1>. QED
  BY <1>1, AuthInvariance, PTL DEF AuthSpec, SessionsStayInForce

-----------------------------------------------------------------------------
(* The limiter.                                                            *)

\* Every time that is kept is that of a post that was let through under its key, and a
\* post that was let through is kept until the clock has left its window behind.
Counted ==
  /\ \A k \in Keys : \A q \in attempts[k] : req[q].pc = "passed" /\ req[q].key = k
  /\ \A q \in Requests : req[q].pc = "passed" =>
       q \in attempts[req[q].key] \/ req[q].now + window <= clock

\* A post has read the clock before, and has not waited for long.
Prompt ==
  \A q \in Requests : /\ req[q].now <= clock
                      /\ req[q].pc = "waiting" => clock - req[q].now <= Lag

LetThrough == {r \in Requests : req[r].pc = "passed"}

LimiterInv ==
  TypeOK /\ Counted /\ Prompt /\ IsFiniteSet(LetThrough) /\ AtMostMaxInWindow

\* The process ends: the attempts are forgotten, and the posts that it had are lost.
Forgets ==
  /\ attempts' = [k \in Keys |-> {}]
  /\ req' = [r \in Requests |-> IF req[r].pc \in {"waiting", "passed"}
                                 THEN [req[r] EXCEPT !.pc = "lost"] ELSE req[r]]
  /\ UNCHANGED clock

PostType == [pc : {"idle", "waiting", "passed", "refused", "lost"}, key : Keys, now : 0 .. MaxClock]

\* What is kept for a post fits into the limit.
LEMMA KeptFits ==
  ASSUME TypeOK, NEW r \in Requests
  PROVE  /\ Kept(r) \in SUBSET attempts[req[r].key]
         /\ IsFiniteSet(Kept(r)) /\ Cardinality(Kept(r)) \in Nat /\ Cardinality(Kept(r)) <= max
<1>1. /\ IsFiniteSet(attempts[req[r].key]) /\ Cardinality(attempts[req[r].key]) <= max
      /\ req[r].key \in Keys
  BY DEF TypeOK
<1>2. Kept(r) \in SUBSET attempts[req[r].key]
  BY DEF Kept
<1>3. /\ IsFiniteSet(Kept(r)) /\ Cardinality(Kept(r)) <= Cardinality(attempts[req[r].key])
      /\ Cardinality(Kept(r)) \in Nat /\ Cardinality(attempts[req[r].key]) \in Nat
  BY <1>1, <1>2, FS_Subset, FS_CardinalityType
<1>. QED
  BY <1>1, <1>2, <1>3, LimiterAssumption

\* A decision of allow, whichever it is: its post has an outcome, and its key keeps these.
Decides(r, out, kept) ==
  /\ req[r].pc = "waiting"
  /\ attempts' = [attempts EXCEPT ![req[r].key] = kept]
  /\ req' = [req EXCEPT ![r].pc = out]
  /\ UNCHANGED clock
  /\ kept \in SUBSET Requests /\ IsFiniteSet(kept) /\ Cardinality(kept) <= max

\* There is room for one more.
LEMMA AllowDecides ==
  ASSUME TypeOK, NEW r \in Requests, Allow(r)
  PROVE  Decides(r, "passed", Kept(r) \cup {r})
<1>1. /\ Kept(r) \in SUBSET Requests /\ IsFiniteSet(Kept(r)) /\ Cardinality(Kept(r)) \in Nat
  BY KeptFits DEF TypeOK
<1>2. /\ IsFiniteSet(Kept(r) \cup {r})
      /\ Cardinality(Kept(r) \cup {r}) = IF r \in Kept(r) THEN Cardinality(Kept(r)) ELSE Cardinality(Kept(r)) + 1
  BY <1>1, FS_AddElement
<1>3. Cardinality(Kept(r)) < max
  BY DEF Allow
<1>4. Cardinality(Kept(r) \cup {r}) <= max
  BY ONLY <1>1, <1>2, <1>3, LimiterAssumption DEF LimiterAssumption
<1>. QED
  BY <1>1, <1>2, <1>4 DEF Allow, Decides

\* The times that have left the window are dropped all the same.
LEMMA RefuseDecides ==
  ASSUME TypeOK, NEW r \in Requests, Refuse(r)
  PROVE  Decides(r, "refused", Kept(r))
BY KeptFits DEF Refuse, Decides, TypeOK

\* The fields after a decision.
LEMMA Decided ==
  ASSUME TypeOK, NEW r \in Requests, NEW kept, NEW out \in {"passed", "refused"}, Decides(r, out, kept)
  PROVE  /\ TypeOK'
         /\ req'[r].pc = out /\ req'[r].key = req[r].key /\ req'[r].now = req[r].now
         /\ \A q \in Requests \ {r} : req'[q] = req[q]
         /\ attempts'[req[r].key] = kept
         /\ \A k \in Keys \ {req[r].key} : attempts'[k] = attempts[k]
<1>1. req[r] \in PostType /\ req \in [Requests -> PostType] /\ clock \in 0 .. MaxClock
      /\ attempts \in [Keys -> SUBSET Requests]
  BY DEF TypeOK, PostType
<1>2. req[r].key \in Keys /\ req[r].now \in 0 .. MaxClock
  BY <1>1 DEF PostType
<1>3. /\ attempts'[req[r].key] = kept
      /\ \A k \in Keys \ {req[r].key} : attempts'[k] = attempts[k]
      /\ attempts' \in [Keys -> SUBSET Requests]
  BY <1>1, <1>2 DEF Decides
<1>4. /\ req'[r] = [req[r] EXCEPT !.pc = out]
      /\ \A q \in Requests \ {r} : req'[q] = req[q]
      /\ DOMAIN req' = Requests /\ req' = [q \in Requests |-> req'[q]]
  BY <1>1 DEF Decides
<1>5. [req[r] EXCEPT !.pc = out] = [pc |-> out, key |-> req[r].key, now |-> req[r].now]
  BY <1>1 DEF PostType
<1>6. /\ req'[r].pc = out /\ req'[r].key = req[r].key /\ req'[r].now = req[r].now
      /\ req'[r] \in PostType
  BY <1>2, <1>4, <1>5 DEF PostType
<1>7. req' \in [Requests -> PostType]
  BY <1>1, <1>4, <1>6
<1>8. \A k \in Keys : IsFiniteSet(attempts'[k]) /\ Cardinality(attempts'[k]) <= max
  BY <1>3 DEF Decides, TypeOK
<1>. QED
  BY <1>1, <1>3, <1>4, <1>6, <1>7, <1>8 DEF Decides, TypeOK, PostType

\* What is not kept is outside every window that ends at a later reading: the other posts
\* with readings in a shortened window that holds r's are all kept for r.
LEMMA OthersAreKept ==
  ASSUME LimiterInv, NEW r \in Requests, req[r].pc = "waiting",
         NEW t \in 0 .. MaxClock, req[r].now \in t .. t + window - Lag - 1
  PROVE  Passed(req[r].key, t, t + window - Lag - 1) \subseteq Kept(r)
<1>. DEFINE k == req[r].key
<1>1. SUFFICES ASSUME NEW q \in Requests, req[q].pc = "passed", req[q].key = k,
                      req[q].now \in t .. t + window - Lag - 1
               PROVE  q \in Kept(r)
  BY DEF Passed
<1>2. /\ req[q].now \in Nat /\ req[r].now \in Nat /\ clock \in Nat
      /\ window \in Nat /\ Lag \in Nat /\ MaxClock \in Nat
  BY LimiterAssumption DEF LimiterInv, TypeOK
<1>3. clock - req[r].now <= Lag
  BY DEF LimiterInv, Prompt
<1>4. q \in attempts[k] \/ req[q].now + window <= clock
  BY <1>1 DEF LimiterInv, Counted
<1>5. q \in attempts[k] /\ req[q].now > req[r].now - window
  BY <1>1, <1>2, <1>3, <1>4
<1>. QED
  BY <1>5 DEF Kept

\* The posts that were let through, among those of a key and a window.
LEMMA DecidedPassed ==
  ASSUME TypeOK, NEW r \in Requests, NEW kept, NEW out \in {"passed", "refused"}, Decides(r, out, kept),
         NEW k, NEW from, NEW to
  PROVE  Passed(k, from, to)' =
           IF out = "passed" /\ req[r].key = k /\ req[r].now \in from .. to
           THEN Passed(k, from, to) \cup {r} ELSE Passed(k, from, to)
<1>1. \A q \in Requests : /\ req'[q].key = req[q].key /\ req'[q].now = req[q].now
                          /\ req'[q].pc = IF q = r THEN out ELSE req[q].pc
  BY Decided
<1>2. req[r].pc = "waiting"
  BY DEF Decides
<1>. QED
  BY <1>1, <1>2 DEF Passed

\* A decision keeps the invariant.
LEMMA DecidedInv ==
  ASSUME LimiterInv, NEW r \in Requests, NEW out \in {"passed", "refused"}, NEW kept,
         Decides(r, out, kept), kept = IF out = "passed" THEN Kept(r) \cup {r} ELSE Kept(r)
  PROVE  LimiterInv'
<1>1. /\ TypeOK /\ TypeOK'
      /\ req'[r].pc = out /\ req'[r].key = req[r].key /\ req'[r].now = req[r].now
      /\ \A q \in Requests \ {r} : req'[q] = req[q]
      /\ attempts'[req[r].key] = kept
      /\ \A k \in Keys \ {req[r].key} : attempts'[k] = attempts[k]
      /\ req[r].pc = "waiting" /\ clock' = clock
  BY Decided DEF LimiterInv, Decides
<1>2. Prompt'
  BY <1>1 DEF Prompt, LimiterInv
<1>3. Counted'
  <2>1. ASSUME NEW k \in Keys, NEW q \in attempts'[k] PROVE req'[q].pc = "passed" /\ req'[q].key = k
    BY <1>1, <2>1 DEF LimiterInv, Counted, Kept, TypeOK
  <2>2. ASSUME NEW q \in Requests, req'[q].pc = "passed"
        PROVE  q \in attempts'[req'[q].key] \/ req'[q].now + window <= clock'
    <3>1. CASE q = r
      BY <1>1, <2>2, <3>1
    <3>2. CASE q # r /\ req[q].key # req[r].key
      <4>1. req[q].key \in Keys
        BY <1>1 DEF TypeOK
      <4>. QED
        BY <1>1, <2>2, <3>2, <4>1 DEF LimiterInv, Counted
    <3>3. CASE q # r /\ req[q].key = req[r].key /\ q \notin Kept(r)
      <4>1. q \in attempts[req[q].key] \/ req[q].now + window <= clock
        BY <1>1, <2>2, <3>3 DEF LimiterInv, Counted
      <4>2. q \in attempts[req[r].key] => req[q].now <= req[r].now - window
        BY <1>1, <3>3, LimiterAssumption DEF Kept, TypeOK
      <4>3. req[r].now <= clock /\ req[q].now \in Nat /\ req[r].now \in Nat /\ clock \in Nat /\ window \in Nat
        BY <1>1, LimiterAssumption DEF LimiterInv, Prompt, TypeOK
      <4>4. req[q].now + window <= clock
        BY <3>3, <4>1, <4>2, <4>3
      <4>. QED
        BY <1>1, <3>3, <4>4
    <3>4. CASE q # r /\ req[q].key = req[r].key /\ q \in Kept(r)
      BY <1>1, <3>4
    <3>. QED
      BY <3>1, <3>2, <3>3, <3>4
  <2>. QED
    BY <2>1, <2>2 DEF Counted
<1>4. IsFiniteSet(LetThrough)'
  <2>1. LetThrough' = IF out = "passed" THEN LetThrough \cup {r} ELSE LetThrough
    BY <1>1 DEF LetThrough
  <2>. QED
    BY <2>1, FS_AddElement DEF LimiterInv
<1>5. AtMostMaxInWindow'
  <2>1. SUFFICES ASSUME NEW k \in Keys, NEW t \in 0 .. MaxClock
                 PROVE  Cardinality(Passed(k, t, t + window - Lag - 1)') <= max
    BY DEF AtMostMaxInWindow
  <2>2. CASE out = "passed" /\ req[r].key = k /\ req[r].now \in t .. t + window - Lag - 1
    <3>1. Passed(k, t, t + window - Lag - 1)' \in SUBSET kept
      BY <2>2, OthersAreKept, DecidedPassed, <1>1
    <3>2. IsFiniteSet(kept) /\ Cardinality(kept) <= max
      BY DEF Decides
    <3>3. /\ Cardinality(Passed(k, t, t + window - Lag - 1)') <= Cardinality(kept)
          /\ IsFiniteSet(Passed(k, t, t + window - Lag - 1)')
      BY <3>1, <3>2, FS_Subset
    <3>4. Cardinality(Passed(k, t, t + window - Lag - 1)') \in Nat /\ Cardinality(kept) \in Nat
      BY <3>2, <3>3, FS_CardinalityType
    <3>. QED
      BY <3>2, <3>3, <3>4, LimiterAssumption
  <2>3. CASE ~(out = "passed" /\ req[r].key = k /\ req[r].now \in t .. t + window - Lag - 1)
    BY <1>1, <2>3, DecidedPassed DEF LimiterInv, AtMostMaxInWindow
  <2>. QED
    BY <2>2, <2>3
<1>. QED
  BY <1>1, <1>2, <1>3, <1>4, <1>5 DEF LimiterInv

\* So does every other step, and the end of the process.
LEMMA LimiterStepInv ==
  ASSUME LimiterInv,
         \/ \E r \in Requests : (\E k \in Keys : Arrive(r, k)) \/ Allow(r) \/ Refuse(r)
         \/ Tick \/ Forgets \/ UNCHANGED vars
  PROVE  LimiterInv'
<1>1. ASSUME NEW r \in Requests, Allow(r) \/ Refuse(r) PROVE LimiterInv'
  BY <1>1, AllowDecides, RefuseDecides, DecidedInv DEF LimiterInv
<1>2. ASSUME NEW r \in Requests, NEW k \in Keys, Arrive(r, k) PROVE LimiterInv'
  <2>1. /\ TypeOK' /\ req[r].pc = "idle" /\ attempts' = attempts /\ clock' = clock
        /\ req'[r] = [pc |-> "waiting", key |-> k, now |-> clock]
        /\ \A q \in Requests \ {r} : req'[q] = req[q]
    BY <1>2 DEF Arrive, LimiterInv, TypeOK
  <2>2. \A q \in Requests : req[q].pc = "passed" <=> req'[q].pc = "passed"
    BY <2>1
  <2>3. Prompt'
    BY <2>1, LimiterAssumption DEF LimiterInv, Prompt, TypeOK
  <2>4. Counted'
    BY <2>1, <2>2 DEF LimiterInv, Counted, TypeOK
  <2>5. LetThrough' = LetThrough /\ \A j, from, to : Passed(j, from, to)' = Passed(j, from, to)
    BY <2>1, <2>2 DEF LetThrough, Passed
  <2>. QED
    BY <2>1, <2>3, <2>4, <2>5 DEF LimiterInv, AtMostMaxInWindow
<1>3. CASE Tick
  <2>1. TypeOK' /\ Prompt' /\ Counted'
    BY <1>3, LimiterAssumption DEF Tick, LimiterInv, TypeOK, Prompt, Counted
  <2>2. LetThrough' = LetThrough /\ \A j, from, to : Passed(j, from, to)' = Passed(j, from, to)
    BY <1>3 DEF Tick, LetThrough, Passed
  <2>. QED
    BY <2>1, <2>2 DEF LimiterInv, AtMostMaxInWindow
<1>4. CASE Forgets
  <2>1. \A q \in Requests : /\ req'[q].pc \notin {"waiting", "passed"}
                            /\ req'[q].now = req[q].now /\ req'[q] \in PostType
    <3>1. ASSUME NEW q \in Requests PROVE req[q] \in PostType
      BY DEF LimiterInv, TypeOK, PostType
    <3>2. ASSUME NEW q \in Requests, req[q].pc \in {"waiting", "passed"}
          PROVE  req'[q] = [pc |-> "lost", key |-> req[q].key, now |-> req[q].now]
      BY <1>4, <3>1, <3>2 DEF Forgets, PostType
    <3>. QED
      BY <1>4, <3>1, <3>2 DEF Forgets, PostType
  <2>2. req' \in [Requests -> PostType] /\ clock' = clock /\ attempts' = [k \in Keys |-> {}]
    BY <1>4, <2>1 DEF Forgets
  <2>3. TypeOK'
    BY <2>2, FS_EmptySet, LimiterAssumption DEF LimiterInv, TypeOK, PostType
  <2>4. Prompt'
    BY <2>1, <2>2 DEF LimiterInv, Prompt
  <2>5. Counted'
    BY <2>1, <2>2 DEF Counted
  <2>6. LetThrough' = {} /\ \A j, from, to : Passed(j, from, to)' = {}
    BY <2>1 DEF LetThrough, Passed
  <2>7. IsFiniteSet({}) /\ Cardinality({}) <= max
    BY FS_EmptySet, LimiterAssumption
  <2>8. AtMostMaxInWindow'
    BY <2>6, <2>7 DEF AtMostMaxInWindow
  <2>. QED
    BY <2>3, <2>4, <2>5, <2>6, <2>7, <2>8 DEF LimiterInv
<1>5. CASE UNCHANGED vars
  <2>1. LetThrough' = LetThrough /\ \A j, from, to : Passed(j, from, to)' = Passed(j, from, to)
    BY <1>5 DEF vars, LetThrough, Passed
  <2>. QED
    BY <1>5, <2>1 DEF vars, LimiterInv, TypeOK, Counted, Prompt, AtMostMaxInWindow
<1>. QED
  BY <1>1, <1>2, <1>3, <1>4, <1>5

\* Nobody has asked.
LEMMA LimiterInitInv == Init => LimiterInv
<1>1. SUFFICES ASSUME Init PROVE LimiterInv
  OBVIOUS
<1>2. LetThrough = {} /\ \A j, from, to : Passed(j, from, to) = {}
  BY <1>1 DEF Init, LetThrough, Passed
<1>3. TypeOK /\ Prompt /\ Counted
  BY <1>1, FS_EmptySet, LimiterAssumption DEF Init, TypeOK, Prompt, Counted
<1>. QED
  BY <1>2, <1>3, FS_EmptySet, LimiterAssumption DEF LimiterInv, AtMostMaxInWindow

\* A refusal, whatever else the step does.
LEMMA RefusedWhenFull ==
  ASSUME LimiterInv, NEW r \in Requests, Refuse(r)
  PROVE  Cardinality(Passed(req[r].key, req[r].now - window + 1, clock)) >= max
<1>. DEFINE full == Passed(req[r].key, req[r].now - window + 1, clock)
<1>1. Kept(r) \in SUBSET full
  BY LimiterAssumption DEF Kept, Passed, LimiterInv, Counted, Prompt, TypeOK
<1>2. full \in SUBSET LetThrough
  BY DEF Passed, LetThrough
<1>3. IsFiniteSet(full)
  BY <1>2, FS_Subset DEF LimiterInv
<1>4. IsFiniteSet(Kept(r)) /\ Cardinality(Kept(r)) <= Cardinality(full)
  BY <1>1, <1>3, FS_Subset
<1>5. Cardinality(Kept(r)) \in Nat /\ Cardinality(full) \in Nat
  BY <1>3, <1>4, FS_CardinalityType
<1>. QED
  BY <1>4, <1>5, LimiterAssumption DEF Refuse

\* Who is refused has been refused by allow, and not by what another post did.
LEMMA StepsOfOne ==
  ASSUME LimiterInv, NEW r \in Requests, req[r].pc = "waiting", req'[r].pc = "refused",
         \/ \E q \in Requests : (\E k \in Keys : Arrive(q, k)) \/ Allow(q) \/ Refuse(q)
         \/ Tick \/ Forgets \/ UNCHANGED vars
  PROVE  Refuse(r)
<1>1. req \in [Requests -> PostType]
  BY DEF LimiterInv, TypeOK, PostType
<1>2. ~(Tick \/ UNCHANGED vars)
  BY DEF Tick, vars
<1>3. ~Forgets
  <2>1. SUFFICES ASSUME Forgets PROVE FALSE
    OBVIOUS
  <2>2. req'[r] = [pc |-> "lost", key |-> req[r].key, now |-> req[r].now]
    BY <1>1, <2>1 DEF Forgets, PostType
  <2>. QED
    BY <2>2
<1>4. PICK q \in Requests : (\E k \in Keys : Arrive(q, k)) \/ Allow(q) \/ Refuse(q)
  BY <1>2, <1>3
<1>5. ASSUME Allow(q) PROVE FALSE
  <2>1. TypeOK /\ Decides(q, "passed", Kept(q) \cup {q})
    BY <1>5, AllowDecides DEF LimiterInv
  <2>2. req'[q].pc = "passed" /\ \A o \in Requests \ {q} : req'[o] = req[o]
    BY <2>1, Decided
  <2>. QED
    BY <2>2
<1>6. ASSUME NEW k \in Keys, Arrive(q, k) PROVE FALSE
  BY <1>1, <1>6 DEF Arrive
<1>7. Refuse(q) => q = r
  BY RefuseDecides, Decided DEF LimiterInv
<1>. QED
  BY <1>4, <1>5, <1>6, <1>7

\* ratelimit.go: however posts wait for the mutex, no client passes more often than max
\* in a window that is shortened by the longest wait.
THEOREM LimitIsKept == Spec => []AtMostMaxInWindow
<1>1. LimiterInv /\ [Next]_vars => LimiterInv'
  BY LimiterStepInv DEF Next
<1>2. LimiterInv => AtMostMaxInWindow
  BY DEF LimiterInv
<1>. QED
  BY <1>1, <1>2, LimiterInitInv, PTL DEF Spec

\* A post is refused only when max posts of its client were let through: refused posts do
\* not prolong the refusal.
THEOREM RefusalsHaveCause == Spec => RefusedOnlyWhenFull
<1>1. LimiterInv /\ [Next]_vars => LimiterInv'
  BY LimiterStepInv DEF Next
<1>2. ASSUME LimiterInv, [Next]_vars, NEW r \in Requests, req[r].pc = "waiting", req'[r].pc = "refused"
      PROVE  Refuse(r)
  BY <1>2, StepsOfOne DEF Next
<1>3. LimiterInv /\ [Next]_vars
        => \A r \in Requests : req[r].pc = "waiting" /\ req'[r].pc = "refused"
             => Cardinality(Passed(req[r].key, req[r].now - window + 1, clock)) >= max
  BY <1>2, RefusedWhenFull
<1>. QED
  BY <1>1, <1>3, LimiterInitInv, PTL DEF Spec, RefusedOnlyWhenFull
=============================================================================
