------------------------------- MODULE AdminAuth -------------------------------
(***************************************************************************)
(* internal/auth/auth.go and its callers in internal/server: first-time     *)
(* set-up, sign-in, sign-out, and the check of the session cookie that is    *)
(* made for every page of the administrator.                                 *)
(*                                                                           *)
(* Every step of a request is one SQL statement: the database has one        *)
(* connection, so statements do not overlap, but those of several requests   *)
(* interleave. A failed statement is a step of its own. The posts come       *)
(* through the limiter of RateLimiter, whose clock also ages the sessions.    *)
(***************************************************************************)
EXTENDS RateLimiter

CONSTANTS
  Passwords, \* what is typed into the forms
  Tokens,    \* session tokens, drawn at random
  None,
  TTL        \* sessionDays, in ticks

ASSUME AuthAssumption ==
  /\ None \notin Passwords \cup Tokens
  /\ {"setup", "login"} \subseteq Keys
  /\ TTL \in Nat

VARIABLES
  password, \* the kv row admin_password_bcrypt, None when there is no such row
  sessions, \* the table of that name: expiry by token, None when there is no row
  used,     \* the tokens that have been drawn
  at,       \* the requests: the statement that comes next, or how they ended
  pw,       \* the password a request carries
  tok,      \* the session token a request carries or was given
  seen,     \* the expiry that ValidateSession has read
  late,     \* history: a password was stored when the request began
  over      \* history: the request's session had ended when the request began

dbVars == <<password, sessions, used>>
authVars == <<password, sessions, used, at, pw, tok, seen, late, over>>

Asking == {"setup", "store", "login", "compare", "session", "root", "purge",
           "validate", "judge", "forget", "logout"}
Ended == {"signedIn", "admitted", "refused", "out", "error"}

AuthTypeOK ==
  /\ TypeOK
  /\ password \in Passwords \cup {None}
  /\ used \subseteq Tokens
  /\ sessions \in [Tokens -> Int \cup {None}]
  /\ at \in [Requests -> {"idle"} \cup Asking \cup Ended]
  /\ pw \in [Requests -> Passwords \cup {None}]
  /\ tok \in [Requests -> Tokens \cup {None}]
  /\ seen \in [Requests -> Int]
  /\ late \in [Requests -> BOOLEAN] /\ over \in [Requests -> BOOLEAN]

AuthInit ==
  /\ Init
  /\ password = None /\ used = {} /\ sessions = [t \in Tokens |-> None]
  /\ at = [r \in Requests |-> "idle"]
  /\ pw = [r \in Requests |-> None] /\ tok = [r \in Requests |-> None]
  /\ seen = [r \in Requests |-> 0]
  /\ late = [r \in Requests |-> FALSE] /\ over = [r \in Requests |-> FALSE]

-----------------------------------------------------------------------------
(* Requests come in.                                                         *)

Goes(r, here, next) == at[r] = here /\ at' = [at EXCEPT ![r] = next]

SignedOut(t) == \E q \in Requests : at[q] = "out" /\ tok[q] = t

\* The session of token t has ended, by the clock or by a sign-out.
HasEnded(t) ==
  t \in used /\ (sessions[t] = None \/ clock > sessions[t] \/ SignedOut(t))

\* A post of the set-up or of the sign-in form that the limiter let through.
Post(r, p) ==
  /\ req[r].pc = "passed" /\ req[r].key \in {"setup", "login"}
  /\ Goes(r, "idle", req[r].key)
  /\ pw' = [pw EXCEPT ![r] = p]
  /\ late' = [late EXCEPT ![r] = password # None]
  /\ UNCHANGED <<dbVars, tok, seen, over>>

\* The start page, a page behind requireAdmin, or a sign-out, with the cookie t.
Visit(r, t, route) ==
  /\ req[r].pc = "idle"
  /\ Goes(r, "idle", route)
  /\ tok' = [tok EXCEPT ![r] = t]
  /\ over' = [over EXCEPT ![r] = HasEnded(t)]
  /\ UNCHANGED <<dbVars, pw, seen, late>>

-----------------------------------------------------------------------------
(* Their statements.                                                         *)

\* Mutant of SetupCheck: the set-up form does not look for a password.
SetupUnchecked(r) ==
  /\ \E next \in {"store", "refused"} : Goes(r, "setup", next)
  /\ UNCHANGED <<dbVars, pw, tok, seen, late, over>>

\* setupPost: HasAdminPassword, then the address and the form, which may be refused.
SetupCheck(r) ==
  /\ \E next \in {"store", "refused"} :
       Goes(r, "setup", next) /\ (next = "store" => password = None)
  /\ UNCHANGED <<dbVars, pw, tok, seen, late, over>>

\* SetAdminPassword: an upsert, whatever is stored.
StorePassword(r) ==
  /\ Goes(r, "store", "session")
  /\ password' = pw[r]
  /\ UNCHANGED <<sessions, used, pw, tok, seen, late, over>>

\* loginPost: HasAdminPassword, and the form, which may not parse.
LoginCheck(r) ==
  /\ \E next \in {"compare", "refused"} :
       Goes(r, "login", next) /\ (next = "compare" => password # None)
  /\ UNCHANGED <<dbVars, pw, tok, seen, late, over>>

\* Mutant of ComparePassword: a wrong password is taken.
CompareAny(r) ==
  /\ Goes(r, "compare", "session")
  /\ UNCHANGED <<dbVars, pw, tok, seen, late, over>>

\* CheckAdminPassword.
ComparePassword(r) ==
  /\ Goes(r, "compare", IF password = pw[r] THEN "session" ELSE "refused")
  /\ UNCHANGED <<dbVars, pw, tok, seen, late, over>>

\* CreateSession, and the cookie of the answer.
CreateSession(r) ==
  /\ Goes(r, "session", "signedIn")
  /\ \E t \in Tokens \ used :
       /\ used' = used \cup {t}
       /\ sessions' = [sessions EXCEPT ![t] = clock + TTL]
       /\ tok' = [tok EXCEPT ![r] = t]
  /\ UNCHANGED <<password, pw, seen, late, over>>

\* rootRedirect: HasAdminPassword.
RootCheck(r) ==
  /\ Goes(r, "root", IF password = None THEN "refused" ELSE "purge")
  /\ UNCHANGED <<dbVars, pw, tok, seen, late, over>>

\* Mutant of Purge: the sessions that end at this very moment go too.
PurgeTooMany(r) ==
  /\ Goes(r, "purge", "validate")
  /\ sessions' = [t \in Tokens |-> IF sessions[t] # None /\ sessions[t] <= clock
                                     THEN None ELSE sessions[t]]
  /\ UNCHANGED <<password, used, pw, tok, seen, late, over>>

\* DeleteExpiredSessions.
Purge(r) ==
  /\ Goes(r, "purge", "validate")
  /\ sessions' = [t \in Tokens |-> IF sessions[t] # None /\ sessions[t] < clock
                                     THEN None ELSE sessions[t]]
  /\ UNCHANGED <<password, used, pw, tok, seen, late, over>>

\* ValidateSession finds no row, or was given no token.
NoSession(r) ==
  /\ tok[r] # None => sessions[tok[r]] = None
  /\ Goes(r, "validate", "refused")
  /\ UNCHANGED <<dbVars, pw, tok, seen, late, over>>

\* ValidateSession reads the expiry of the session.
ReadSession(r) ==
  /\ tok[r] # None /\ sessions[tok[r]] # None
  /\ Goes(r, "validate", "judge")
  /\ seen' = [seen EXCEPT ![r] = sessions[tok[r]]]
  /\ UNCHANGED <<dbVars, pw, tok, late, over>>

\* Mutant of JudgeSession: the row is enough, its expiry is not looked at.
JudgeByRow(r) ==
  /\ Goes(r, "judge", "admitted")
  /\ UNCHANGED <<dbVars, pw, tok, seen, late, over>>

\* ValidateSession compares the expiry it read with the clock, later.
JudgeSession(r) ==
  /\ Goes(r, "judge", IF clock > seen[r] THEN "forget" ELSE "admitted")
  /\ UNCHANGED <<dbVars, pw, tok, seen, late, over>>

\* ValidateSession deletes the row it found expired.
ForgetSession(r) ==
  /\ Goes(r, "forget", "refused")
  /\ sessions' = [sessions EXCEPT ![tok[r]] = None]
  /\ UNCHANGED <<password, used, pw, tok, seen, late, over>>

\* logoutPost: DeleteSession; the answer clears the cookie.
Logout(r) ==
  /\ Goes(r, "logout", "out")
  /\ sessions' = [t \in Tokens |-> IF t = tok[r] THEN None ELSE sessions[t]]
  /\ UNCHANGED <<password, used, pw, tok, seen, late, over>>

\* A statement fails. Failed deletions of expired rows are passed over; the rest
\* ends the request, and a sign-out is even answered as if it had worked.
AuthFails(r) ==
  /\ \/ Goes(r, "purge", "validate")
     \/ Goes(r, "session", "error")
     \/ \E here \in Asking \ {"purge", "session", "judge"} : Goes(r, here, "refused")
  /\ UNCHANGED <<dbVars, pw, tok, seen, late, over>>

Statement(r) ==
  \/ SetupCheck(r) \/ StorePassword(r) \/ LoginCheck(r) \/ ComparePassword(r)
  \/ CreateSession(r) \/ RootCheck(r) \/ Purge(r) \/ NoSession(r)
  \/ ReadSession(r) \/ ForgetSession(r) \/ Logout(r)

AuthNext ==
  \/ \E r \in Requests :
       \/ /\ \/ Statement(r) \/ JudgeSession(r) \/ AuthFails(r)
             \/ \E p \in Passwords : Post(r, p)
             \/ \E t \in used \cup {None}, route \in {"root", "validate", "logout"} :
                  Visit(r, t, route)
          /\ UNCHANGED vars
       \/ /\ at[r] = "idle"
          /\ \/ \E k \in Keys : Arrive(r, k)
             \/ Allow(r) \/ Refuse(r)
          /\ UNCHANGED authVars
  \/ Tick /\ UNCHANGED authVars

AuthSpec == AuthInit /\ [][AuthNext]_<<vars, authVars>>

-----------------------------------------------------------------------------
(* Properties.                                                               *)

\* A set-up that begins when a password is stored never replaces it: only set-ups
\* that were under way together with the first one can.
SetupOnlyOnce ==
  [][\A r \in Requests : late[r] => ~(at[r] = "store" /\ at'[r] = "session")]_<<vars, authVars>>

\* Two set-ups that both began before there was a password have stored theirs.
RivalSetups ==
  \E q1, q2 \in Requests :
    /\ \A q \in {q1, q2} : /\ req[q].key = "setup" /\ ~late[q]
                            /\ at[q] \in {"session", "signedIn", "error"}
    /\ pw[q1] # pw[q2]

\* A session was made for somebody who gave the password that is now in force,
\* unless set-ups with different passwords ran together; without a password there
\* is no session.
SessionsKnowThePassword ==
  \A r \in Requests : at[r] = "signedIn" => pw[r] = password \/ RivalSetups

\* No page is shown for a session that had run out, or whose sign-out had been
\* answered, when the request for the page began.
NoEntryAfterTheEnd ==
  \A r \in Requests : at[r] = "admitted" => ~over[r]

\* A session leaves the table only when it has run out or is signed out.
SessionsStayInForce ==
  [][\A t \in Tokens : sessions[t] # None /\ sessions'[t] = None
       => clock > sessions[t] \/ \E r \in Requests : at[r] = "logout" /\ tok[r] = t]_<<vars, authVars>>
=============================================================================
