---------------------------------- MODULE Hub ----------------------------------
(***************************************************************************)
(* One process of the hub: the handlers of the administrator's account        *)
(* (AdminAuth, behind the limiter of RateLimiter), the library's guests         *)
(* (LibraryGuest) and the runs over the import folder (ImportLedger), between    *)
(* the start and the end of the process (Lifecycle).                           *)
(*                                                                           *)
(* The parts meet in two things. The database: its statements fail once it is  *)
(* closed, and what they have written survives the process. The handlers: a    *)
(* shutdown waits for those that are at work, the watch loop it only cancels.  *)
(***************************************************************************)
EXTENDS AdminAuth, ImportLedger, LibraryGuest, Lifecycle

\* Bound: each behaviour has a cast, [posts, visits: the requests that may come,
\* accounts: whether posts go on to their handlers, scene: that of the import
\* folder, visit: that of the library's guest, process: whether the process starts and stops, ticks: how far the clock
\* goes]. The casts keep apart what is independent.
CONSTANT Casts

VARIABLE cast

hubVars == <<vars, authVars, ledgerVars, guestVars, lifeVars, cast>>

HubTypeOK ==
  /\ AuthTypeOK
  /\ GuestTypeOK
  /\ LifeTypeOK
  /\ cast \in Casts
  /\ phase \in {"down", "open", "migrate"} => Recording = {}

HubInit ==
  /\ cast \in Casts
  /\ AuthInit /\ LedgerInit /\ GuestInit
  /\ scene = cast.scene /\ visit = cast.visit
  /\ IF cast.process THEN LifeInit ELSE LifeServing

\* Shutdown waits for the connections of these: requests, from the limiter on, runs that
\* were started by hand, and pages.
Busy ==
  \/ \E r \in Requests : at[r] \in Asking \/ (at[r] = "idle" /\ req[r].pc \in {"waiting", "passed"})
  \/ \E i \in Runs : run[i].pc \in {"copy", "record"} /\ run[i].mode \in {"scan", "pick"}
  \/ \E p \in Pages : page[p].pc \in 1 .. Len(ReadOrder) - 1
  \/ \E t \in Tabs : tab[t].pc \in {"asked", "listed"}

-----------------------------------------------------------------------------
(* Requests.                                                                 *)

LimiterStep(r) ==
  /\ r \in cast.posts /\ at[r] = "idle"
  /\ \/ phase = "serving" /\ \E k \in Keys : Arrive(r, k)
     \/ Alive /\ (Allow(r) \/ Refuse(r))
  /\ UNCHANGED <<authVars, ledgerVars, guestVars, lifeVars>>

\* A post that the limiter let through goes on; a visit is asked for.
RequestBegins(r) ==
  /\ cast.accounts
  /\ \/ Alive /\ \E p \in Passwords : r \in cast.posts /\ Post(r, p)
     \/ phase = "serving" /\ \E t \in used \cup {None}, route \in {"root", "validate", "logout"} :
          r \in cast.visits /\ Visit(r, t, route)

RequestStep(r) ==
  /\ RequestBegins(r) \/ (DBOpen /\ Statement(r)) \/ JudgeSession(r) \/ AuthFails(r)
  /\ UNCHANGED <<vars, ledgerVars, guestVars, lifeVars>>

\* A run is asked for as a page is. One of the watch loop, which starts before the listener
\* and is not waited for, begins wherever its switch can be read from the database.
ImportStep ==
  /\ Alive
  /\ UNCHANGED <<vars, authVars, guestVars, lifeVars>>
  /\ \/ /\ (DBOpen /\ LedgerStatement) \/ LedgerFailure
        /\ \A p \in Pages : page[p].pc = 0 /\ page'[p].pc = 1 => phase = "serving"
     \/ \E i \in DOMAIN scene.runs :
          \/ /\ phase = "serving" \/ (DBOpen /\ scene.runs[i] = "auto")
             /\ BeginScan(i) \/ BeginPick(i) \/ ScanRefused(i)
          \/ SkipName(i) \/ CopyName(i) \/ CopyNameFails(i) \/ Cancelled(i) \/ RunEnds(i)

\* The browser goes on whatever becomes of the process; its requests need the hub.
GuestStep ==
  /\ UNCHANGED <<vars, authVars, ledgerVars, lifeVars>>
  /\ \/ phase = "serving" /\ \E t \in Tabs, route \in Routes, c \in 0 .. codes : Ask(t, route, c)
     \/ DBOpen /\ (HubSwitches \/ \E t \in Tabs : Handles(t))
     \/ Alive /\ \E t \in Tabs : RefuseForm(t) \/ ChatUnread(t)
     \/ GuestBrowses

-----------------------------------------------------------------------------
(* The process.                                                              *)

\* With the process go its handlers and goroutines, the posts that waited or had been let
\* through, and what it kept in memory: the limiter's attempts.
ProcessGone ==
  /\ at' = [r \in Requests |-> IF at[r] = "session" THEN "error"
                               ELSE IF at[r] \in Asking THEN "refused" ELSE at[r]]
  /\ attempts' = [k \in Keys |-> {}]
  /\ req' = [r \in Requests |-> IF req[r].pc \in {"waiting", "passed"}
                                 THEN [req[r] EXCEPT !.pc = "lost"] ELSE req[r]]
  /\ run' = [i \in Runs |-> IF run[i].pc \in {"copy", "record"}
                              THEN [run[i] EXCEPT !.pc = "done", !.err = "killed"] ELSE run[i]]
  /\ last' = IF Recording = {} THEN last ELSE Mixed
  /\ page' = [p \in Pages |-> [pc |-> 0, shown |-> NoRecord, of |-> Mixed]]
  /\ tab' = [t \in Tabs |-> IF tab[t].pc \in {"asked", "listed"} THEN Stays(tab, t)[t] ELSE tab[t]]
  /\ UNCHANGED <<visit, code, codes, tree, saving, time, tokens, jar, shown, faults>>
  /\ UNCHANGED <<clock, password, sessions, used, pw, tok, seen, late, over,
                 scene, ledger>>

LifeStep ==
  /\ cast.process
  /\ LifeNext(Busy)
  /\ IF phase # "down" /\ phase' = "down" THEN ProcessGone
     ELSE UNCHANGED <<vars, authVars, ledgerVars, guestVars>>

TimePasses ==
  /\ clock < cast.ticks /\ Tick
  /\ UNCHANGED <<authVars, ledgerVars, guestVars, lifeVars>>

HubNext ==
  \/ UNCHANGED cast /\ \E r \in Requests : LimiterStep(r) \/ RequestStep(r)
  \/ UNCHANGED cast /\ ImportStep
  \/ UNCHANGED cast /\ GuestStep
  \/ UNCHANGED cast /\ LifeStep
  \/ UNCHANGED cast /\ TimePasses

HubSpec == HubInit /\ [][HubNext]_hubVars

-----------------------------------------------------------------------------
(* Properties.                                                               *)

\* After a stop, a handler finds the database closed only if it was still at work
\* when the drain was over.
HandlersGetTheirDrain ==
  phase = "closing" /\ Busy => drain = 0
=============================================================================
