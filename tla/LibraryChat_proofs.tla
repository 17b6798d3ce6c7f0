-------------------------- MODULE LibraryChat_proofs --------------------------
(***************************************************************************)
(* Proofs about LibraryChat, for any number of guests, administrators, days*)
(* and crashes: codes of before a disable let nobody in after it, a chat   *)
(* that was cleared is gone, a message keeps its voice note, no voice note *)
(* is left without a message, and a prune keeps to the retention.          *)
(*                                                                         *)
(* The argument follows a post and its file. Until its INSERT a post has   *)
(* no message, and past it it never comes back (Posts). A prune names the  *)
(* voice notes of exactly the messages its DELETE will take (Prunes), and  *)
(* a clearing lists files of posts whose messages its own statement has    *)
(* deleted, unless the post was between its file and its row at that       *)
(* moment (Crossings): so neither takes the file of a message (Voices).    *)
(* And a file always has a message, or somebody who is bound to write one  *)
(* or to remove it (Owners). For the codes: they are given out in order,   *)
(* and the one in force is newer than all that were removed (Codes).       *)
(***************************************************************************)
EXTENDS LibraryChat, FiniteSetTheorems, TLAPS

\* Administrators between the two statements of an Enable.
Enabling == {a \in Admins : admin[a].pc = "token"}

\* No more codes are to come than there were switches.
Counted ==
  /\ IsFiniteSet(Enabling)
  /\ issued + Cardinality(Enabling) <= switches

\* The code in force is newer than every code a disable has removed or is about to.
Codes ==
  /\ token <= issued /\ revoked <= issued
  /\ \A p \in Guests : req[p].barred <= revoked
  /\ \A a \in Admins : admin[a].upto <= issued
  /\ "forget" \notin failed /\ token # 0 =>
       /\ token > revoked
       /\ \A a \in Admins : admin[a].pc \in {"rows", "list", "sweep"} => token > admin[a].upto

\* The post has not come to its INSERT, or is past it.
Early(p) == req[p].pc \in {"idle", "enabled", "code", "form"}
Past(p) == req[p].pc \in {"days", "select", "delete", "remove", "done"}

NoRowOf(p) == \A r \in rows : r.post # p

\* What a disable has found done stays done; its rows go, then its files.
Clearings ==
  /\ \A p \in gone : req[p].pc = "done"
  /\ \A a \in Admins : admin[a].pc \in {"forget", "rows", "list", "sweep"} =>
       \A p \in admin[a].before :
         /\ req[p].pc = "done"
         /\ admin[a].pc \in {"list", "sweep"} => NoRowOf(p)
         /\ admin[a].pc = "sweep" /\ disk[p] # "none" => <<p, disk[p]>> \in admin[a].names

\* A post has at most one message, from its INSERT on, and a file from its form on.
Posts ==
  /\ \A r, s \in rows : r.post = s.post => r = s
  /\ \A r \in rows : Past(r.post)
  /\ \A p \in Guests :
       /\ Early(p) => disk[p] = "none"
       /\ req[p].pc = "copy" => req[p].voice
       /\ req[p].pc = "insert" /\ ~req[p].voice => disk[p] = "none"

\* A prune keeps to a retention of its time, and names what its DELETE takes.
Prunes ==
  \A q \in Requests :
    /\ req[q].pc \in {"select", "delete"} =>
         /\ req[q].cutoff <= clock
         /\ \E d \in terms[q] : req[q].cutoff + d <= clock
    /\ req[q].pc = "delete" =>
         /\ \A r \in rows : r.voice /\ r.at < req[q].cutoff => r.post \in req[q].names
         /\ \A p \in req[q].names : Past(p) /\ \A r \in rows : r.post = p => r.at < req[q].cutoff
    /\ req[q].pc = "remove" => \A p \in req[q].names : Past(p) /\ NoRowOf(p)

\* A voice note that a clearing may take.
Doomed(p) == Past(p) /\ \A r \in rows : r.post = p => ~r.voice

\* What a clearing may take: the files of posts it has crossed, or without a message.
Crossings ==
  \A a \in Admins :
    /\ admin[a].pc = "list" =>
         \A p \in Guests \ crossed :
           /\ req[p].pc # "copy"
           /\ req[p].pc = "insert" => ~req[p].voice
           /\ \A r \in rows : r.post = p => ~r.voice
    /\ admin[a].pc = "sweep" => \A n \in admin[a].names : n[1] \in crossed \/ Doomed(n[1])

\* The voice note of a message, and of a post about to write one.
Voices ==
  /\ RowsHaveTheirVoice
  /\ \A p \in Guests \ crossed : req[p].pc = "insert" /\ req[p].voice => disk[p] = "full"

\* Whose voice note it is, or who is about to remove it.
Owned(p) ==
  \/ \E r \in rows : r.post = p /\ r.voice
  \/ req[p].pc = "copy"
  \/ req[p].pc = "insert" /\ req[p].voice
  \/ \E q \in Requests : req[q].pc = "remove" /\ p \in req[q].names
  \/ \E a \in Admins : admin[a].pc = "list"
  \/ \E a \in Admins : admin[a].pc = "sweep" /\ <<p, disk[p]>> \in admin[a].names

\* No file is without an owner.
Owners ==
  crashes = 0 /\ "clear" \notin failed => \A p \in Guests : disk[p] # "none" => Owned(p)

\* The inductive invariant.
IInv ==
  /\ TypeOK /\ Counted
  /\ Codes /\ OldCodesStayOut
  /\ Clearings /\ ClearedChatIsGone
  /\ Posts /\ Prunes /\ Crossings /\ Voices /\ Owners

-----------------------------------------------------------------------------
(* What the steps do to the parts of the state that the invariant speaks of. *)
(* The steps with the same effect are taken together.                      *)

\* Of the requests, q alone moves.
Only(q) ==
  /\ req' \in [Requests -> ReqType]
  /\ \A u \in Requests \ {q} : req'[u] = req[u]

\* Of the administrators, a alone moves.
OnlyAdmin(a) ==
  /\ admin' \in [Admins -> AdminType]
  /\ \A b \in Admins \ {a} : admin'[b] = admin[b]

\* Nothing but the program counter of q moves.
KeepsRest(q) ==
  /\ req'[q].page = req[q].page /\ req'[q].code = req[q].code
  /\ req'[q].barred = req[q].barred /\ req'[q].voice = req[q].voice
  /\ req'[q].cutoff = req[q].cutoff /\ req'[q].names = req[q].names

\* What q knew is forgotten.
Blank(q) ==
  /\ req'[q].code = 0 /\ req'[q].barred = 0 /\ ~req'[q].voice
  /\ req'[q].names = {}

\* What the other prunes go by.
OtherTerms(q) == \A u \in Requests \ {q} : terms'[u] = terms[u]

SameAdmin == UNCHANGED <<admin, token, issued, switches, revoked, gone>>
SameClock == UNCHANGED <<clock, crashes>>

\* Arrive, CheckEnabled, CheckCode, Refused, TextOnly: a guest comes in or is turned away.
Comes(p) ==
  /\ Early(p) /\ req'[p].pc \in {"enabled", "code", "form", "insert", "days", "done"}
  /\ req'[p].pc = "insert" => ~req'[p].voice
  /\ req'[p].barred \in {0, req[p].barred, revoked}
  /\ Accepted(p)' => /\ req'[p].code = req[p].code /\ req'[p].barred = req[p].barred
                     /\ Accepted(p) \/ (token # 0 /\ req[p].code = token)
  /\ Only(p) /\ SameAdmin /\ SameClock
  /\ UNCHANGED <<retention, rows, disk, failed, crossed, terms>>

\* VoiceCreate.
Creates(p) ==
  /\ req[p].pc = "form" /\ req'[p].pc = "copy" /\ req'[p].voice
  /\ req'[p].code = req[p].code /\ req'[p].barred = req[p].barred
  /\ disk'[p] = "partial" /\ \A u \in Guests \ {p} : disk'[u] = disk[u]
  /\ crossed \subseteq crossed'
  /\ \A a \in Admins : admin[a].pc = "list" => p \in crossed'
  /\ Only(p) /\ SameAdmin /\ SameClock
  /\ UNCHANGED <<retention, rows, failed, terms>>

\* VoiceMove.
Renames(p) ==
  /\ req[p].pc = "copy" /\ req'[p].pc = "insert" /\ KeepsRest(p)
  /\ disk'[p] = "full" /\ \A u \in Guests \ {p} : disk'[u] = disk[u]
  /\ Only(p) /\ SameAdmin /\ SameClock
  /\ UNCHANGED <<retention, rows, failed, crossed, terms>>

\* VoiceFails, InsertFails: the post ends, its voice note is removed.
Drops(p) ==
  /\ req[p].pc \in {"copy", "insert"} /\ req'[p].pc = "done" /\ Blank(p)
  /\ \/ disk'[p] = "none"
     \/ disk'[p] = disk[p] /\ req[p].pc = "insert" /\ ~req[p].voice
  /\ \A u \in Guests \ {p} : disk'[u] = disk[u]
  /\ failed \subseteq failed'
  /\ Only(p) /\ SameAdmin /\ SameClock
  /\ UNCHANGED <<retention, rows, crossed, terms>>

\* Insert.
Inserts(p) ==
  /\ req[p].pc = "insert" /\ req'[p].pc = "days" /\ KeepsRest(p)
  /\ rows' = rows \cup {[post |-> p, at |-> clock, voice |-> req[p].voice]}
  /\ Only(p) /\ SameAdmin /\ SameClock
  /\ UNCHANGED <<retention, disk, failed, crossed, terms>>

\* SetRetention.
Sets(q) ==
  /\ q \in Settings /\ req[q].pc = "idle" /\ req'[q].pc = "days" /\ KeepsRest(q)
  /\ \A u \in Requests : req[u].pc \in {"select", "delete"} => terms[u] \subseteq terms'[u]
  /\ Only(q) /\ SameAdmin /\ SameClock
  /\ UNCHANGED <<rows, disk, failed, crossed>>

\* ReadDays, ReadDaysFails.
Reads(q) ==
  /\ req[q].pc = "days" /\ req'[q].pc = "select" /\ Blank(q)
  /\ req'[q].cutoff <= clock /\ \E d \in terms'[q] : req'[q].cutoff + d <= clock
  /\ failed \subseteq failed' /\ OtherTerms(q)
  /\ Only(q) /\ SameAdmin /\ SameClock
  /\ UNCHANGED <<retention, rows, disk, crossed>>

\* Select.
Selects(q) ==
  /\ req[q].pc = "select" /\ req'[q].pc = "delete"
  /\ req'[q].barred = req[q].barred /\ req'[q].cutoff = req[q].cutoff
  /\ req'[q].names = {r.post : r \in {s \in rows : s.at < req[q].cutoff /\ s.voice}}
  /\ Only(q) /\ SameAdmin /\ SameClock
  /\ UNCHANGED <<retention, rows, disk, failed, crossed, terms>>

\* The prune of q is over.
Over(q) ==
  /\ q \in Guests => req'[q].pc = "done"
  /\ req'[q].pc \in {"idle", "days", "done"} /\ Blank(q)

\* Delete.
Deletes(q) ==
  /\ req[q].pc = "delete"
  /\ rows' = {r \in rows : r.at >= req[q].cutoff}
  /\ \/ req[q].names = {} /\ Over(q)
     \/ req'[q].pc = "remove" /\ KeepsRest(q)
  /\ OtherTerms(q)
  /\ Only(q) /\ SameAdmin /\ SameClock
  /\ UNCHANGED <<retention, disk, failed, crossed>>

\* PruneFails.
GivesUp(q) ==
  /\ req[q].pc \in {"select", "delete"} /\ Over(q)
  /\ failed \subseteq failed' /\ OtherTerms(q)
  /\ Only(q) /\ SameAdmin /\ SameClock
  /\ UNCHANGED <<retention, rows, disk, crossed>>

\* Remove.
Removes(q, p) ==
  /\ req[q].pc = "remove" /\ p \in req[q].names
  /\ disk'[p] = "none" /\ \A u \in Guests \ {p} : disk'[u] = disk[u]
  /\ \/ req[q].names = {p} /\ Over(q)
     \/ /\ req'[q].pc = "remove" /\ req'[q].barred = req[q].barred
        /\ req'[q].names = req[q].names \ {p}
  /\ Only(q) /\ SameAdmin /\ SameClock
  /\ UNCHANGED <<retention, rows, failed, crossed, terms>>

SameRequests == UNCHANGED <<req, retention, terms>>
SameSwitch(a) ==
  /\ admin'[a].upto = admin[a].upto /\ admin'[a].before = admin[a].before

\* EnableFlag, EnableToken, EnableFails.
Enables(a) ==
  /\ admin[a].pc \in {"idle", "token"} /\ admin'[a].pc \in {"idle", "token"} /\ SameSwitch(a)
  /\ \/ token' = token /\ issued' = issued
     \/ token' = issued' /\ issued' = issued + 1
  /\ failed \subseteq failed'
  /\ OnlyAdmin(a) /\ SameRequests /\ SameClock
  /\ UNCHANGED <<rows, disk, crossed, revoked, gone>>

\* DisableFlag.
Disables(a) ==
  /\ admin[a].pc = "idle" /\ admin'[a].pc = "forget"
  /\ admin'[a].upto = issued /\ admin'[a].before = {p \in Guests : req[p].pc = "done"}
  /\ OnlyAdmin(a) /\ SameRequests /\ SameClock
  /\ UNCHANGED <<token, issued, rows, disk, failed, crossed, revoked, gone>>

\* DisableToken.
ForgetsToken(a) ==
  /\ admin[a].pc = "forget" /\ admin'[a].pc = "rows" /\ SameSwitch(a)
  /\ token' = 0 \/ (token' = token /\ "forget" \in failed')
  /\ failed \subseteq failed'
  /\ OnlyAdmin(a) /\ SameRequests /\ SameClock
  /\ UNCHANGED <<issued, rows, disk, crossed, revoked, gone>>

\* ClearRows.
Clears(a) ==
  /\ admin[a].pc = "rows" /\ admin'[a].pc = "list" /\ SameSwitch(a)
  /\ rows' = {} /\ crossed' = crossed \cup {p \in Guests : Saving(p)}
  /\ OnlyAdmin(a) /\ SameRequests /\ SameClock
  /\ UNCHANGED <<token, issued, disk, failed, revoked, gone>>

\* ClearList, with files found.
Lists(a) ==
  /\ admin[a].pc = "list" /\ admin'[a].pc = "sweep" /\ SameSwitch(a)
  /\ admin'[a].names = {<<p, disk[p]>> : p \in {g \in Guests : disk[g] # "none"}}
  /\ OnlyAdmin(a) /\ SameRequests /\ SameClock
  /\ UNCHANGED <<token, issued, rows, disk, failed, crossed, revoked, gone>>

\* The end of ClearSweep, of a ClearList that finds nothing, and ClearFails.
Answers(a) ==
  /\ admin[a].pc \in {"rows", "list", "sweep"} /\ admin'[a].pc = "idle"
  /\ admin'[a].upto = 0
  /\ revoked' = revoked \/ revoked' = admin[a].upto
  /\ revoked <= revoked' /\ admin[a].upto <= revoked'
  /\ failed \subseteq failed'
  /\ OnlyAdmin(a) /\ SameRequests /\ SameClock
  /\ UNCHANGED <<token, issued, rows, crossed>>

FindsNothing(a) ==
  /\ Answers(a)
  /\ admin[a].pc = "list" /\ \A p \in Guests : disk[p] = "none"
  /\ disk' = disk /\ gone' = gone \cup admin[a].before

ClearingFails(a) == Answers(a) /\ "clear" \in failed' /\ disk' = disk /\ gone' = gone

\* ClearSweep: the file n is removed.
Takes(n) ==
  \A p \in Guests : disk'[p] = IF n = <<p, disk[p]>> THEN "none" ELSE disk[p]

TakesOne(a, n) ==
  /\ admin[a].pc = "sweep" /\ n \in admin[a].names
  /\ admin'[a].pc = "sweep" /\ SameSwitch(a)
  /\ admin'[a].names = admin[a].names \ {n}
  /\ Takes(n)
  /\ OnlyAdmin(a) /\ SameRequests /\ SameClock
  /\ UNCHANGED <<token, issued, rows, failed, crossed, revoked, gone>>

TakesLast(a, n) ==
  /\ Answers(a)
  /\ admin[a].pc = "sweep" /\ admin[a].names = {n}
  /\ Takes(n)
  /\ gone' = gone \cup admin[a].before /\ failed' = failed

\* Tick.
DayPasses ==
  /\ clock' = clock + 1
  /\ UNCHANGED <<req, admin, token, issued, switches, revoked, gone, crashes, retention, rows,
                 disk, failed, crossed, terms>>

\* Crash.
Dies ==
  /\ \A q \in Requests :
       \/ req'[q] = req[q]
       \/ Over(q)
  /\ \A q \in Requests : req'[q].pc \in {"idle", "days", "done"}
  /\ \A p \in Guests : /\ req'[p].pc \in {"idle", "done"}
                       /\ req'[p].pc = req[p].pc \/ req'[p].pc = "done"
  /\ \A a \in Admins : admin'[a] = NoSwitch
  /\ req' \in [Requests -> ReqType] /\ admin' \in [Admins -> AdminType]
  /\ crashes' > 0
  /\ UNCHANGED <<token, issued, switches, revoked, gone, clock, retention, rows, disk, failed,
                 crossed>>

Effect ==
  \/ \E p \in Guests : Comes(p) \/ Creates(p) \/ Renames(p) \/ Drops(p) \/ Inserts(p)
  \/ \E q \in Requests : Sets(q) \/ Reads(q) \/ Selects(q) \/ Deletes(q) \/ GivesUp(q)
  \/ \E q \in Requests, p \in Guests : Removes(q, p)
  \/ \E a \in Admins : \/ Enables(a) \/ Disables(a) \/ ForgetsToken(a) \/ Clears(a) \/ Lists(a)
                       \/ FindsNothing(a) \/ ClearingFails(a)
                       \/ \E n \in admin[a].names : TakesOne(a, n) \/ TakesLast(a, n)
  \/ DayPasses \/ Dies \/ UNCHANGED vars

-----------------------------------------------------------------------------
(* Every step has one of these effects.                                    *)

Pcs == {"idle", "enabled", "code", "form", "copy", "insert", "days", "select", "delete",
        "remove", "done"}

\* A request given a new record.
LEMMA Given ==
  ASSUME TypeOK, NEW q \in Requests, NEW r \in ReqType, req' = [req EXCEPT ![q] = r]
  PROVE  Only(q) /\ req'[q] = r
BY DEF TypeOK, Only

\* The same for an administrator.
LEMMA GivenAdmin ==
  ASSUME TypeOK, NEW a \in Admins, NEW r \in AdminType, admin' = [admin EXCEPT ![a] = r]
  PROVE  OnlyAdmin(a) /\ admin'[a] = r
BY DEF TypeOK, OnlyAdmin

\* A step of the program counter.
LEMMA Goes ==
  ASSUME TypeOK, NEW q \in Requests, NEW pc \in Pcs, Goto(q, pc)
  PROVE  Only(q) /\ req'[q].pc = pc /\ KeepsRest(q)
<1>1. [req[q] EXCEPT !.pc = pc] \in ReqType
  BY DEF TypeOK, ReqType, Pcs
<1>2. req' = [req EXCEPT ![q] = [req[q] EXCEPT !.pc = pc]]
  BY DEF Goto
<1>3. Only(q) /\ req'[q] = [req[q] EXCEPT !.pc = pc]
  BY <1>1, <1>2, Given
<1>4. req[q] \in ReqType
  BY DEF TypeOK
<1>. QED
  BY <1>3, <1>4 DEF KeepsRest, ReqType

\* A request that starts from nothing.
LEMMA Blanked ==
  ASSUME TypeOK, NEW q \in Requests, NEW pc \in Pcs,
         req' = [req EXCEPT ![q] = [NoRequest EXCEPT !.pc = pc]]
  PROVE  Only(q) /\ req'[q].pc = pc /\ Blank(q)
<1>1. NoRequest \in ReqType
  BY BoundsAssumption DEF NoRequest, ReqType, Code
<1>2. [NoRequest EXCEPT !.pc = pc] \in ReqType
  BY <1>1 DEF ReqType, Pcs
<1>3. Only(q) /\ req'[q] = [NoRequest EXCEPT !.pc = pc]
  BY <1>2, Given
<1>4. /\ req'[q].pc = pc
      /\ req'[q].code = NoRequest.code /\ req'[q].barred = NoRequest.barred
      /\ req'[q].voice = NoRequest.voice /\ req'[q].names = NoRequest.names
  BY <1>1, <1>3 DEF ReqType
<1>5. /\ NoRequest.code = 0 /\ NoRequest.barred = 0 /\ NoRequest.voice = FALSE
      /\ NoRequest.names = {}
  BY DEF NoRequest
<1>. QED
  BY <1>3, <1>4, <1>5 DEF Blank

\* A request that has returned knows nothing more.
LEMMA Returns ==
  ASSUME TypeOK, NEW q \in Requests, Return(q)
  PROVE  Only(q) /\ req'[q].pc = "done" /\ Blank(q)
BY Blanked DEF Return, Pcs

\* The end of a prune: the loop waits, the others return.
LEMMA PrunedIsOver ==
  ASSUME TypeOK, NEW q \in Requests, req' = Pruned(q)
  PROVE  Only(q) /\ Over(q)
<1>1. CASE q = Maintenance
  BY <1>1, Blanked, RequestsAssumption DEF Pruned, Pcs, Over
<1>2. CASE q \in Settings
  BY <1>2, Blanked, RequestsAssumption DEF Pruned, Pcs, Over
<1>3. CASE q \in Guests
  BY <1>3, Blanked, RequestsAssumption DEF Pruned, Pcs, Over
<1>. QED
  BY <1>1, <1>2, <1>3 DEF Requests

\* The steps of a post up to its prune.
LEMMA GuestEffect ==
  ASSUME TypeOK, NEW p \in Guests, Guest(p)
  PROVE  Comes(p) \/ Creates(p) \/ Renames(p) \/ Drops(p) \/ Inserts(p)
<1>. USE DEF store, bounds, history, Pcs, SameAdmin, SameClock
<1>0. /\ p \in Requests
      /\ req[p] \in ReqType
  BY DEF Requests, TypeOK
<1>1. ASSUME NEW page \in BOOLEAN, NEW code \in 0 .. issued, Arrive(p, page, code)
      PROVE  Comes(p)
  <2>1. [req[p] EXCEPT !.pc = "enabled", !.page = page, !.code = code, !.barred = revoked]
          \in ReqType
    <3>1. code \in Code /\ revoked \in Code
      BY BoundsAssumption DEF TypeOK, Code
    <3>. QED
      BY ONLY <1>0, <3>1, page \in BOOLEAN DEF ReqType
  <2>2. req' = [req EXCEPT ![p] =
                  [req[p] EXCEPT !.pc = "enabled", !.page = page, !.code = code, !.barred = revoked]]
    BY <1>1 DEF Arrive
  <2>3. /\ Only(p)
        /\ req'[p] = [req[p] EXCEPT !.pc = "enabled", !.page = page, !.code = code, !.barred = revoked]
    BY <1>0, <2>1, <2>2, Given
  <2>4. req'[p].pc = "enabled" /\ req'[p].barred = revoked
    BY <1>0, <2>3 DEF ReqType
  <2>. QED
    BY <1>1, <2>3, <2>4 DEF Arrive, Comes, Early, Accepted
<1>2. ASSUME CheckEnabled(p) PROVE Comes(p)
  BY <1>0, <1>2, Goes DEF CheckEnabled, Comes, Early, Accepted, KeepsRest
<1>3. ASSUME CheckCode(p) PROVE Comes(p)
  BY <1>0, <1>3, Goes DEF CheckCode, Comes, Early, Accepted, KeepsRest
<1>4. ASSUME Refused(p) PROVE Comes(p)
  BY <1>0, <1>4, Returns DEF Refused, Comes, Early, Accepted, Blank
<1>5. ASSUME TextOnly(p) PROVE Comes(p)
  <2>1. [req[p] EXCEPT !.pc = "insert", !.voice = FALSE] \in ReqType
    BY <1>0 DEF ReqType
  <2>2. req' = [req EXCEPT ![p] = [req[p] EXCEPT !.pc = "insert", !.voice = FALSE]]
    BY <1>5 DEF TextOnly
  <2>3. Only(p) /\ req'[p] = [req[p] EXCEPT !.pc = "insert", !.voice = FALSE]
    BY <1>0, <2>1, <2>2, Given
  <2>4. /\ req'[p].pc = "insert" /\ ~req'[p].voice
        /\ req'[p].barred = req[p].barred /\ req'[p].code = req[p].code
    BY <1>0, <2>3 DEF ReqType
  <2>. QED
    BY <1>5, <2>3, <2>4 DEF TextOnly, Comes, Early, Accepted
<1>6. ASSUME VoiceCreate(p) PROVE Creates(p)
  <2>1. [req[p] EXCEPT !.pc = "copy", !.voice = TRUE] \in ReqType
    BY <1>0 DEF ReqType
  <2>2. req' = [req EXCEPT ![p] = [req[p] EXCEPT !.pc = "copy", !.voice = TRUE]]
    BY <1>6 DEF VoiceCreate
  <2>3. Only(p) /\ req'[p] = [req[p] EXCEPT !.pc = "copy", !.voice = TRUE]
    BY <1>0, <2>1, <2>2, Given
  <2>4. /\ req'[p].pc = "copy" /\ req'[p].voice
        /\ req'[p].barred = req[p].barred /\ req'[p].code = req[p].code
    BY <1>0, <2>3 DEF ReqType
  <2>5. disk'[p] = "partial" /\ \A u \in Guests \ {p} : disk'[u] = disk[u]
    BY <1>6 DEF VoiceCreate, TypeOK
  <2>. QED
    BY <1>6, <2>3, <2>4, <2>5 DEF VoiceCreate, Creates
<1>7. ASSUME VoiceMove(p) PROVE Renames(p)
  <2>1. disk'[p] = "full" /\ \A u \in Guests \ {p} : disk'[u] = disk[u]
    BY <1>7 DEF VoiceMove, TypeOK
  <2>. QED
    BY <1>0, <1>7, <2>1, Goes DEF VoiceMove, Renames
<1>8. ASSUME VoiceFails(p) PROVE Drops(p)
  <2>1. disk'[p] = "none" /\ \A u \in Guests \ {p} : disk'[u] = disk[u]
    BY <1>8 DEF VoiceFails, TypeOK
  <2>. QED
    BY <1>0, <1>8, <2>1, Returns DEF VoiceFails, Drops
<1>9. ASSUME Insert(p) PROVE Inserts(p)
  BY <1>0, <1>9, Goes DEF Insert, Inserts
<1>10. ASSUME InsertFails(p) PROVE Drops(p)
  <2>1. /\ disk'[p] = "none" \/ (disk'[p] = disk[p] /\ ~req[p].voice)
        /\ \A u \in Guests \ {p} : disk'[u] = disk[u]
    BY <1>10 DEF InsertFails, TypeOK
  <2>2. failed \subseteq failed'
    BY <1>10 DEF InsertFails, Fails
  <2>. QED
    BY <1>0, <1>10, <2>1, <2>2, Returns DEF InsertFails, Drops
<1>. QED
  BY <1>1, <1>2, <1>3, <1>4, <1>5, <1>6, <1>7, <1>8, <1>9, <1>10 DEF Guest

\* The steps of a prune.
LEMMA PruneEffect ==
  ASSUME TypeOK, NEW q \in Requests, Pruning(q)
  PROVE  \/ Reads(q) \/ Selects(q) \/ Deletes(q) \/ GivesUp(q)
         \/ \E p \in Guests : Removes(q, p)
<1>. USE DEF store, bounds, history, Pcs, SameAdmin, SameClock
<1>0. req[q] \in ReqType
  BY DEF TypeOK
<1>1. ASSUME NEW days \in Days, Prune(q, days)
      PROVE  /\ Only(q) /\ req'[q].pc = "select" /\ Blank(q)
             /\ req'[q].cutoff = clock - days /\ req'[q].cutoff <= clock
  <2>1. clock - days \in Cutoff /\ clock - days <= clock
    BY BoundsAssumption DEF TypeOK, Cutoff
  <2>2. NoRequest \in ReqType
    BY BoundsAssumption DEF NoRequest, ReqType, Code
  <2>3. [NoRequest EXCEPT !.pc = "select", !.cutoff = clock - days] \in ReqType
    BY ONLY <2>1, <2>2 DEF ReqType
  <2>4. req' = [req EXCEPT ![q] = [NoRequest EXCEPT !.pc = "select", !.cutoff = clock - days]]
    BY <1>1 DEF Prune
  <2>5. Only(q) /\ req'[q] = [NoRequest EXCEPT !.pc = "select", !.cutoff = clock - days]
    BY <2>3, <2>4, Given
  <2>6. /\ req'[q].pc = "select" /\ req'[q].cutoff = clock - days
        /\ req'[q].code = NoRequest.code /\ req'[q].barred = NoRequest.barred
        /\ req'[q].voice = NoRequest.voice /\ req'[q].names = NoRequest.names
    BY <2>2, <2>5 DEF ReqType
  <2>7. /\ NoRequest.code = 0 /\ NoRequest.barred = 0 /\ NoRequest.voice = FALSE
        /\ NoRequest.names = {}
    BY DEF NoRequest
  <2>. QED
    BY <2>1, <2>5, <2>6, <2>7 DEF Blank
<1>2. ASSUME ReadDays(q) PROVE Reads(q)
  <2>1. Prune(q, retention) /\ retention \in Days /\ failed' = failed
    BY <1>2 DEF ReadDays, TypeOK
  <2>2. req'[q].cutoff + retention <= clock
    BY <1>1, <2>1, BoundsAssumption DEF TypeOK
  <2>3. retention \in terms'[q] /\ OtherTerms(q)
    BY <1>2 DEF ReadDays, Term, OtherTerms, TypeOK
  <2>. QED
    BY <1>1, <2>1, <2>2, <2>3 DEF Prune, Reads
<1>3. ASSUME ReadDaysFails(q) PROVE Reads(q)
  <2>1. Prune(q, DefaultDays) /\ DefaultDays \in Days /\ failed \subseteq failed'
    BY <1>3, BoundsAssumption DEF ReadDaysFails, Fails
  <2>2. req'[q].cutoff + DefaultDays <= clock
    BY <1>1, <2>1, BoundsAssumption DEF TypeOK
  <2>3. DefaultDays \in terms'[q] /\ OtherTerms(q)
    BY <1>3 DEF ReadDaysFails, Term, OtherTerms, TypeOK
  <2>. QED
    BY <1>1, <2>1, <2>2, <2>3 DEF Prune, Reads
<1>4. ASSUME Select(q) PROVE Selects(q)
  <2>. DEFINE old == {r.post : r \in {s \in rows : s.at < req[q].cutoff /\ s.voice}}
  <2>1. old \in SUBSET Guests
    BY DEF TypeOK, Row
  <2>2. [req[q] EXCEPT !.pc = "delete", !.names = old] \in ReqType
    BY ONLY <1>0, <2>1 DEF ReqType
  <2>3. req' = [req EXCEPT ![q] = [req[q] EXCEPT !.pc = "delete", !.names = old]]
    BY <1>4 DEF Select
  <2>4. Only(q) /\ req'[q] = [req[q] EXCEPT !.pc = "delete", !.names = old]
    BY <2>2, <2>3, Given
  <2>. HIDE DEF old
  <2>5. /\ req'[q].pc = "delete" /\ req'[q].names = old
        /\ req'[q].barred = req[q].barred /\ req'[q].cutoff = req[q].cutoff
    BY <1>0, <2>4 DEF ReqType
  <2>. QED
    BY <1>4, <2>4, <2>5 DEF Select, Selects, old
<1>5. ASSUME Delete(q) PROVE Deletes(q)
  BY <1>5, Goes, PrunedIsOver DEF Delete, Deletes, OtherTerms, TypeOK
<1>6. ASSUME PruneFails(q) PROVE GivesUp(q)
  BY <1>6, PrunedIsOver DEF PruneFails, GivesUp, Fails, OtherTerms, TypeOK
<1>7. ASSUME Remove(q) PROVE \E p \in Guests : Removes(q, p)
  <2>1. PICK p \in req[q].names :
          /\ disk' = [disk EXCEPT ![p] = "none"]
          /\ req' = IF req[q].names = {p} THEN Pruned(q) ELSE [req EXCEPT ![q].names = @ \ {p}]
    BY <1>7 DEF Remove
  <2>2. p \in Guests
    BY <1>0 DEF ReqType
  <2>3. disk'[p] = "none" /\ \A u \in Guests \ {p} : disk'[u] = disk[u]
    BY <2>1, <2>2 DEF TypeOK
  <2>4. CASE req[q].names = {p}
    BY <1>7, <2>1, <2>2, <2>3, <2>4, PrunedIsOver DEF Remove, Removes
  <2>5. CASE req[q].names # {p}
    <3>1. [req[q] EXCEPT !.names = req[q].names \ {p}] \in ReqType
      BY ONLY <1>0 DEF ReqType
    <3>2. req' = [req EXCEPT ![q] = [req[q] EXCEPT !.names = req[q].names \ {p}]]
      BY <2>1, <2>5
    <3>3. Only(q) /\ req'[q] = [req[q] EXCEPT !.names = req[q].names \ {p}]
      BY <3>1, <3>2, Given
    <3>4. /\ req'[q].pc = req[q].pc /\ req'[q].names = req[q].names \ {p}
          /\ req'[q].barred = req[q].barred
      BY <1>0, <3>3 DEF ReqType
    <3>. QED
      BY <1>7, <2>1, <2>2, <2>3, <3>3, <3>4 DEF Remove, Removes
  <2>. QED
    BY <2>4, <2>5
<1>. QED
  BY <1>2, <1>3, <1>4, <1>5, <1>6, <1>7 DEF Pruning

\* A change of the retention.
LEMMA SetEffect ==
  ASSUME TypeOK, NEW q \in Settings, NEW d \in Days, SetRetention(q, d)
  PROVE  Sets(q)
BY Goes DEF SetRetention, Sets, TypeOK, Requests, Pcs, store, bounds, history, SameAdmin, SameClock

\* The steps of an administrator.
LEMMA AdminEffect ==
  ASSUME TypeOK, NEW a \in Admins, Switch(a) \/ Switching(a)
  PROVE  \/ Enables(a) \/ Disables(a) \/ ForgetsToken(a) \/ Clears(a) \/ Lists(a)
         \/ FindsNothing(a) \/ ClearingFails(a)
         \/ \E n \in admin[a].names : TakesOne(a, n) \/ TakesLast(a, n)
<1>. USE DEF store, bounds, history, SameRequests, SameClock
<1>0. admin[a] \in AdminType
  BY DEF TypeOK
<1>1. ASSUME NEW pc \in {"idle", "token", "forget", "rows", "list", "sweep"},
             admin' = [admin EXCEPT ![a].pc = pc]
      PROVE  OnlyAdmin(a) /\ admin'[a].pc = pc /\ SameSwitch(a)
  <2>1. [admin[a] EXCEPT !.pc = pc] \in AdminType
    BY ONLY <1>0, pc \in {"idle", "token", "forget", "rows", "list", "sweep"} DEF AdminType
  <2>2. admin' = [admin EXCEPT ![a] = [admin[a] EXCEPT !.pc = pc]]
    BY <1>1
  <2>3. OnlyAdmin(a) /\ admin'[a] = [admin[a] EXCEPT !.pc = pc]
    BY <2>1, <2>2, GivenAdmin
  <2>. QED
    BY <1>0, <2>3 DEF AdminType, SameSwitch
<1>2. ASSUME EnableFlag(a) \/ EnableToken(a) \/ EnableFails(a) PROVE Enables(a)
  BY <1>1, <1>2 DEF EnableFlag, EnableToken, EnableFails, Fails, Enables
<1>3. ASSUME DisableFlag(a) PROVE Disables(a)
  <2>. DEFINE done == {p \in Guests : req[p].pc = "done"}
  <2>1. issued \in Code /\ done \in SUBSET Guests
    BY DEF TypeOK
  <2>2. [admin[a] EXCEPT !.pc = "forget", !.upto = issued, !.before = done] \in AdminType
    BY ONLY <1>0, <2>1 DEF AdminType
  <2>3. admin' = [admin EXCEPT ![a] =
                    [admin[a] EXCEPT !.pc = "forget", !.upto = issued, !.before = done]]
    BY <1>3 DEF DisableFlag
  <2>4. /\ OnlyAdmin(a)
        /\ admin'[a] = [admin[a] EXCEPT !.pc = "forget", !.upto = issued, !.before = done]
    BY <2>2, <2>3, GivenAdmin
  <2>. HIDE DEF done
  <2>5. admin'[a].pc = "forget" /\ admin'[a].upto = issued /\ admin'[a].before = done
    BY <1>0, <2>4 DEF AdminType
  <2>. QED
    BY <1>3, <2>4, <2>5 DEF DisableFlag, Disables, done
<1>4. ASSUME DisableToken(a) PROVE ForgetsToken(a)
  BY <1>1, <1>4 DEF DisableToken, Fails, ForgetsToken
<1>5. ASSUME ClearRows(a) PROVE Clears(a)
  BY <1>1, <1>5 DEF ClearRows, Clears, Saving
<1>6. ASSUME Off(a), admin[a].pc \in {"rows", "list", "sweep"}, failed \subseteq failed'
      PROVE  Answers(a)
  <2>1. NoSwitch \in AdminType /\ NoSwitch.pc = "idle" /\ NoSwitch.upto = 0
    BY BoundsAssumption DEF NoSwitch, AdminType, Code
  <2>2. OnlyAdmin(a) /\ admin'[a] = NoSwitch
    BY <1>6, <2>1, GivenAdmin DEF Off
  <2>3. /\ revoked' = revoked \/ revoked' = admin[a].upto
        /\ revoked <= revoked' /\ admin[a].upto <= revoked'
    <3>1. revoked \in Nat /\ admin[a].upto \in Nat
      BY <1>0, BoundsAssumption DEF TypeOK, AdminType, Code
    <3>. QED
      BY <1>6, <3>1 DEF Off
  <2>. QED
    BY <1>6, <2>1, <2>2, <2>3 DEF Off, Answers
<1>7. ASSUME ClearList(a) PROVE FindsNothing(a) \/ Lists(a)
  <2>. DEFINE found == {<<p, disk[p]>> : p \in {g \in Guests : disk[g] # "none"}}
  <2>1. CASE found = {} /\ Off(a) /\ gone' = gone \cup admin[a].before /\ disk' = disk
    <3>1. \A p \in Guests : disk[p] = "none"
      BY <2>1
    <3>. QED
      BY <1>6, <1>7, <2>1, <3>1 DEF ClearList, FindsNothing
  <2>2. CASE /\ admin' = [admin EXCEPT ![a].pc = "sweep", ![a].names = found]
             /\ UNCHANGED <<store, req, bounds, history>>
    <3>1. found \in SUBSET (Guests \X {"partial", "full"})
      BY DEF TypeOK
    <3>2. [admin[a] EXCEPT !.pc = "sweep", !.names = found] \in AdminType
      BY ONLY <1>0, <3>1 DEF AdminType
    <3>3. admin' = [admin EXCEPT ![a] = [admin[a] EXCEPT !.pc = "sweep", !.names = found]]
      BY <2>2
    <3>4. /\ OnlyAdmin(a)
          /\ admin'[a] = [admin[a] EXCEPT !.pc = "sweep", !.names = found]
      BY <3>2, <3>3, GivenAdmin
    <3>. HIDE DEF found
    <3>5. admin'[a].pc = "sweep" /\ admin'[a].names = found /\ SameSwitch(a)
      BY <1>0, <3>4 DEF AdminType, SameSwitch
    <3>. QED
      BY <1>7, <2>2, <3>4, <3>5 DEF ClearList, Lists, found
  <2>. QED
    BY <1>7, <2>1, <2>2 DEF ClearList
<1>8. ASSUME ClearSweep(a) PROVE \E n \in admin[a].names : TakesOne(a, n) \/ TakesLast(a, n)
  <2>1. PICK n \in admin[a].names :
       /\ disk' = [disk EXCEPT ![n[1]] = IF @ = n[2] THEN "none" ELSE @]
       /\ \/ /\ admin[a].names = {n}
             /\ Off(a)
             /\ gone' = gone \cup admin[a].before
          \/ /\ admin[a].names # {n}
             /\ admin' = [admin EXCEPT ![a].names = @ \ {n}]
             /\ UNCHANGED <<enabled, token, retention, rows, req, bounds, history>>
    BY <1>8 DEF ClearSweep
  <2>2. n \in Guests \X {"partial", "full"}
    BY <1>0 DEF AdminType
  <2>3. Takes(n)
    BY <2>1, <2>2 DEF Takes, TypeOK
  <2>4. CASE admin[a].names = {n} /\ Off(a) /\ gone' = gone \cup admin[a].before
    BY <1>6, <1>8, <2>3, <2>4 DEF ClearSweep, TakesLast
  <2>5. CASE /\ admin' = [admin EXCEPT ![a].names = @ \ {n}]
             /\ UNCHANGED <<enabled, token, retention, rows, req, bounds, history>>
    <3>1. [admin[a] EXCEPT !.names = admin[a].names \ {n}] \in AdminType
      BY ONLY <1>0 DEF AdminType
    <3>2. admin' = [admin EXCEPT ![a] = [admin[a] EXCEPT !.names = admin[a].names \ {n}]]
      BY <2>5
    <3>3. OnlyAdmin(a) /\ admin'[a] = [admin[a] EXCEPT !.names = admin[a].names \ {n}]
      BY <3>1, <3>2, GivenAdmin
    <3>4. /\ admin'[a].pc = admin[a].pc /\ SameSwitch(a)
          /\ admin'[a].names = admin[a].names \ {n}
      BY <1>0, <3>3 DEF AdminType, SameSwitch
    <3>. QED
      BY <1>8, <2>3, <2>5, <3>3, <3>4 DEF ClearSweep, TakesOne
  <2>. QED
    BY <2>1, <2>4, <2>5
<1>9. ASSUME ClearFails(a) PROVE ClearingFails(a)
  BY <1>6, <1>9 DEF ClearFails, ClearingFails, Fails
<1>. QED
  BY <1>2, <1>3, <1>4, <1>5, <1>7, <1>8, <1>9 DEF Switch, Switching

\* A crash: requests and administrators start again, the store stays.
LEMMA CrashEffect ==
  ASSUME TypeOK, Crash
  PROVE  Dies
<1>. USE DEF store, bounds, history
<1>1. /\ NoRequest \in ReqType /\ NoSwitch \in AdminType
      /\ NoRequest.code = 0 /\ NoRequest.barred = 0 /\ NoRequest.voice = FALSE
      /\ NoRequest.names = {} /\ NoRequest.pc = "idle"
  BY BoundsAssumption DEF NoRequest, NoSwitch, ReqType, AdminType, Code
<1>2. ASSUME NEW pc \in Pcs
      PROVE  /\ [NoRequest EXCEPT !.pc = pc] \in ReqType
             /\ [NoRequest EXCEPT !.pc = pc].pc = pc
             /\ [NoRequest EXCEPT !.pc = pc].code = 0
             /\ [NoRequest EXCEPT !.pc = pc].barred = 0
             /\ [NoRequest EXCEPT !.pc = pc].voice = FALSE
             /\ [NoRequest EXCEPT !.pc = pc].names = {}
  BY <1>1 DEF ReqType, Pcs
<1>3. ASSUME NEW q \in Requests
      PROVE  /\ req'[q] \in ReqType
             /\ req'[q] = req[q] \/ Over(q)
             /\ req'[q].pc \in {"idle", "days", "done"}
             /\ q \in Guests => /\ req'[q].pc \in {"idle", "done"}
                                /\ req'[q].pc = req[q].pc \/ req'[q].pc = "done"
  <2>1. CASE q = Maintenance
    <3>1. req'[q] = [NoRequest EXCEPT !.pc = "days"]
      BY <2>1 DEF Crash
    <3>. QED
      BY <1>2, <2>1, <3>1, RequestsAssumption DEF Over, Blank, Pcs
  <2>2. CASE q \in Settings
    <3>1. req'[q] = NoRequest
      BY <2>2, RequestsAssumption DEF Crash
    <3>. QED
      BY <1>1, <2>2, <3>1, RequestsAssumption DEF Over, Blank
  <2>3. CASE q \in Guests /\ Quiet(q)
    <3>1. req'[q] = req[q]
      BY <2>3, RequestsAssumption DEF Crash
    <3>. QED
      BY <2>3, <3>1 DEF Quiet, TypeOK
  <2>4. CASE q \in Guests /\ ~Quiet(q)
    <3>1. req'[q] = [NoRequest EXCEPT !.pc = "done"]
      BY <2>4, RequestsAssumption DEF Crash
    <3>. QED
      BY <1>2, <3>1 DEF Over, Blank, Pcs
  <2>. QED
    BY <2>1, <2>2, <2>3, <2>4 DEF Requests
<1>4. req' \in [Requests -> ReqType]
  BY <1>3 DEF Crash
<1>5. admin' \in [Admins -> AdminType] /\ \A a \in Admins : admin'[a] = NoSwitch
  BY <1>1 DEF Crash
<1>6. crashes' > 0
  BY DEF Crash, TypeOK
<1>7. Guests \subseteq Requests
  BY DEF Requests
<1>. QED
  BY <1>3, <1>4, <1>5, <1>6, <1>7 DEF Crash, Dies

\* So every step of the chat has one of the effects.
LEMMA StepEffect ==
  ASSUME TypeOK, [Next]_vars
  PROVE  Effect
<1>1. Guests \subseteq Requests /\ Settings \subseteq Requests
  BY DEF Requests
<1>2. ASSUME Tick PROVE DayPasses
  BY <1>2 DEF Tick, DayPasses, store, bounds, history
<1>3. ASSUME NEW p \in Guests, Guest(p) PROVE Effect
  BY <1>3, GuestEffect DEF Effect
<1>4. ASSUME NEW q \in Settings, NEW d \in Days, SetRetention(q, d) PROVE Effect
  BY <1>1, <1>4, SetEffect DEF Effect
<1>5. ASSUME NEW q \in Requests, Pruning(q) PROVE Effect
  BY <1>5, PruneEffect DEF Effect
<1>6. ASSUME NEW a \in Admins, Switch(a) \/ Switching(a) PROVE Effect
  BY <1>6, AdminEffect DEF Effect
<1>. QED
  BY <1>2, <1>3, <1>4, <1>5, <1>6, CrashEffect DEF Next, Effect

-----------------------------------------------------------------------------
(* Types, and the count of the codes.                                      *)

\* The types of everything but the requests and the administrators.
StoreTypeOK ==
  /\ enabled \in BOOLEAN /\ token \in Code /\ retention \in Days
  /\ rows \in SUBSET Row /\ disk \in [Guests -> {"none", "partial", "full"}]
  /\ clock \in 0 .. MaxClock
  /\ issued \in Code /\ switches \in Code /\ issued <= switches
  /\ crashes \in 0 .. MaxCrashes
  /\ failed \in SUBSET Failing /\ crossed \in SUBSET Guests
  /\ terms \in [Requests -> SUBSET Days] /\ revoked \in Code /\ gone \in SUBSET Guests

\* What is written to the database, to the disk and to the clocks keeps its type.
LEMMA RestType ==
  ASSUME TypeOK, Counted, [Next]_vars
  PROVE  StoreTypeOK'
<1>. USE DEF store, bounds, history, Fails, StoreTypeOK
<1>1. ASSUME NEW p \in Guests, Guest(p) PROVE StoreTypeOK'
  <2>1. CASE \E page \in BOOLEAN, code \in 0 .. issued : Arrive(p, page, code)
    BY <2>1 DEF Arrive, TypeOK
  <2>2. CASE CheckEnabled(p) \/ CheckCode(p) \/ Refused(p) \/ TextOnly(p)
    BY <2>2 DEF CheckEnabled, CheckCode, Refused, TextOnly, TypeOK
  <2>3. CASE VoiceCreate(p) \/ VoiceMove(p) \/ VoiceFails(p)
    BY <2>3 DEF VoiceCreate, VoiceMove, VoiceFails, TypeOK
  <2>4. CASE Insert(p)
    <3>1. req[p].voice \in BOOLEAN
      BY DEF TypeOK, Requests, ReqType
    <3>2. [post |-> p, at |-> clock, voice |-> req[p].voice] \in Row
      BY <3>1 DEF TypeOK, Row
    <3>. QED
      BY <2>4, <3>2 DEF Insert, TypeOK
  <2>5. CASE InsertFails(p)
    BY <2>5 DEF InsertFails, TypeOK
  <2>. QED
    BY <1>1, <2>1, <2>2, <2>3, <2>4, <2>5 DEF Guest
<1>2. ASSUME NEW q \in Settings, NEW d \in Days, SetRetention(q, d) PROVE StoreTypeOK'
  BY <1>2 DEF SetRetention, TypeOK
<1>3. ASSUME NEW q \in Requests, Pruning(q) PROVE StoreTypeOK'
  <2>1. CASE ReadDays(q) \/ ReadDaysFails(q) \/ Select(q)
    <3>1. ASSUME NEW d \in Days, Term(q, d) PROVE terms' \in [Requests -> SUBSET Days]
      BY <3>1 DEF Term, TypeOK
    <3>2. ReadDays(q) \/ ReadDaysFails(q) => terms' \in [Requests -> SUBSET Days]
      BY <3>1, BoundsAssumption DEF ReadDays, ReadDaysFails, TypeOK
    <3>. QED
      BY <2>1, <3>2 DEF ReadDays, ReadDaysFails, Prune, Select, TypeOK
  <2>2. CASE Delete(q) \/ PruneFails(q)
    BY <2>2 DEF Delete, PruneFails, TypeOK
  <2>3. CASE Remove(q)
    <3>1. disk' \in [Guests -> {"none", "partial", "full"}]
      BY <2>3 DEF Remove, TypeOK
    <3>. QED
      BY <2>3, <3>1 DEF Remove, TypeOK
  <2>. QED
    BY <1>3, <2>1, <2>2, <2>3 DEF Pruning
<1>4. ASSUME NEW a \in Admins, Switch(a) PROVE StoreTypeOK'
  <2>1. switches + 1 \in Code /\ issued <= switches + 1
    BY <1>4, BoundsAssumption DEF Switch, EnableFlag, DisableFlag, TypeOK, Code
  <2>. QED
    BY <1>4, <2>1 DEF Switch, EnableFlag, DisableFlag, TypeOK
<1>5. ASSUME NEW a \in Admins, EnableToken(a) PROVE StoreTypeOK'
  <2>1. a \in Enabling /\ IsFiniteSet(Enabling)
    BY <1>5 DEF EnableToken, Enabling, Counted
  <2>2. Cardinality(Enabling) \in Nat /\ Cardinality(Enabling) # 0
    BY <2>1, FS_CardinalityType, FS_EmptySet
  <2>. QED
    BY <1>5, <2>2, BoundsAssumption DEF EnableToken, Counted, TypeOK, Code
<1>6. ASSUME NEW a \in Admins, Switching(a), ~EnableToken(a) PROVE StoreTypeOK'
  <2>1. admin[a].before \subseteq Guests /\ admin[a].upto \in Code
    BY DEF TypeOK, AdminType
  <2>2. 0 \in Code
    BY BoundsAssumption DEF Code
  <2>3. CASE EnableFails(a) \/ DisableToken(a) \/ ClearRows(a)
    BY <2>2, <2>3 DEF EnableFails, DisableToken, ClearRows, TypeOK
  <2>4. CASE ClearList(a) \/ ClearSweep(a) \/ ClearFails(a)
    BY <2>1, <2>4 DEF ClearList, ClearSweep, ClearFails, Off, TypeOK
  <2>. QED
    BY <1>6, <2>3, <2>4 DEF Switching
<1>7. CASE Tick \/ Crash
  BY <1>7, BoundsAssumption DEF Tick, Crash, TypeOK
<1>8. CASE UNCHANGED vars
  BY <1>8 DEF vars, TypeOK
<1>. QED
  BY <1>1, <1>2, <1>3, <1>4, <1>5, <1>6, <1>7, <1>8 DEF Next

\* So do the requests and the administrators.
LEMMA RequestType ==
  ASSUME TypeOK, Effect
  PROVE  req' \in [Requests -> ReqType] /\ admin' \in [Admins -> AdminType]
<1>. USE DEF SameAdmin, SameRequests
<1>1. ASSUME NEW p \in Guests, Comes(p) \/ Creates(p) \/ Renames(p) \/ Drops(p) \/ Inserts(p)
      PROVE  req' \in [Requests -> ReqType] /\ admin' \in [Admins -> AdminType]
  BY <1>1 DEF Comes, Creates, Renames, Drops, Inserts, Only, TypeOK
<1>2. ASSUME NEW q \in Requests, Sets(q) \/ Reads(q) \/ Selects(q) \/ Deletes(q) \/ GivesUp(q)
      PROVE  req' \in [Requests -> ReqType] /\ admin' \in [Admins -> AdminType]
  BY <1>2 DEF Sets, Reads, Selects, Deletes, GivesUp, Only, TypeOK
<1>3. ASSUME NEW q \in Requests, NEW p \in Guests, Removes(q, p)
      PROVE  req' \in [Requests -> ReqType] /\ admin' \in [Admins -> AdminType]
  BY <1>3 DEF Removes, Only, TypeOK
<1>4. ASSUME NEW a \in Admins, NEW n,
             \/ Enables(a) \/ Disables(a) \/ ForgetsToken(a) \/ Clears(a) \/ Lists(a)
             \/ FindsNothing(a) \/ ClearingFails(a) \/ TakesOne(a, n) \/ TakesLast(a, n)
      PROVE  req' \in [Requests -> ReqType] /\ admin' \in [Admins -> AdminType]
  BY <1>4 DEF Enables, Disables, ForgetsToken, Clears, Lists, FindsNothing, ClearingFails,
              TakesOne, TakesLast, Answers, OnlyAdmin, TypeOK
<1>5. CASE DayPasses \/ Dies \/ UNCHANGED vars
  BY <1>5 DEF DayPasses, Dies, vars, TypeOK
<1>. QED
  BY <1>1, <1>2, <1>3, <1>4, <1>5 DEF Effect

\* Every step keeps the state in its domain.
LEMMA TypeStep ==
  ASSUME TypeOK, Counted, [Next]_vars
  PROVE  TypeOK'
<1>1. Effect
  BY StepEffect
<1>2. req' \in [Requests -> ReqType] /\ admin' \in [Admins -> AdminType]
  BY <1>1, RequestType
<1>. QED
  BY <1>2, RestType DEF TypeOK, StoreTypeOK

\* Each Enable that waits for its second statement has its switch to count on.
LEMMA CountedStep ==
  ASSUME TypeOK, Counted, [Next]_vars
  PROVE  Counted'
<1>. DEFINE n == Cardinality(Enabling)
<1>0. IsFiniteSet(Enabling) /\ n \in Nat /\ issued + n <= switches
  BY FS_CardinalityType DEF Counted
<1>. USE DEF store, bounds, history
<1>1. issued \in Nat /\ switches \in Nat
  BY BoundsAssumption DEF TypeOK, Code
<1>2. ASSUME NEW a \in Admins, EnableFlag(a) PROVE Counted'
  <2>1. Enabling' = Enabling \cup {a} /\ a \notin Enabling
    BY <1>2 DEF EnableFlag, Enabling, TypeOK, AdminType
  <2>2. IsFiniteSet(Enabling \cup {a}) /\ Cardinality(Enabling \cup {a}) = n + 1
    BY <1>0, <2>1, FS_AddElement
  <2>3. issued' = issued /\ switches' = switches + 1
    BY <1>2 DEF EnableFlag
  <2>. QED
    BY <1>0, <1>1, <2>1, <2>2, <2>3 DEF Counted
<1>3. ASSUME NEW a \in Admins, EnableToken(a) \/ EnableFails(a) PROVE Counted'
  <2>1. Enabling' = Enabling \ {a} /\ a \in Enabling
    BY <1>3 DEF EnableToken, EnableFails, Enabling, TypeOK, AdminType
  <2>2. IsFiniteSet(Enabling \ {a}) /\ Cardinality(Enabling \ {a}) = n - 1
    BY <1>0, <2>1, FS_RemoveElement
  <2>3. issued' \in {issued, issued + 1} /\ switches' = switches
    BY <1>3 DEF EnableToken, EnableFails
  <2>. QED
    BY <1>0, <1>1, <2>1, <2>2, <2>3 DEF Counted
<1>4. ASSUME Enabling' = Enabling, issued' = issued,
             switches' = switches \/ switches' = switches + 1
      PROVE  Counted'
  BY <1>0, <1>1, <1>4 DEF Counted
<1>5. ASSUME NEW a \in Admins, DisableFlag(a) \/ (Switching(a) /\ ~EnableToken(a) /\ ~EnableFails(a))
      PROVE  Counted'
  <2>1. /\ admin[a].pc # "token" /\ admin'[a].pc # "token"
        /\ \A b \in Admins \ {a} : admin'[b] = admin[b]
        /\ issued' = issued /\ switches' \in {switches, switches + 1}
    BY <1>5 DEF DisableFlag, Switching, DisableToken, ClearRows, ClearList, ClearSweep, ClearFails,
                Off, NoSwitch, TypeOK, AdminType
  <2>2. Enabling' = Enabling
    BY <2>1 DEF Enabling
  <2>. QED
    BY <1>4, <2>1, <2>2
<1>6. ASSUME NEW p \in Guests, Guest(p) PROVE Counted'
  <2>1. UNCHANGED <<admin, issued, switches>>
    BY <1>6 DEF Guest, Arrive, CheckEnabled, CheckCode, Refused, TextOnly, VoiceCreate, VoiceMove,
                VoiceFails, Insert, InsertFails
  <2>. QED
    BY <1>4, <2>1 DEF Enabling
<1>7. ASSUME NEW q \in Requests, Pruning(q) \/ \E d \in Days : SetRetention(q, d) PROVE Counted'
  <2>1. UNCHANGED <<admin, issued, switches>>
    BY <1>7 DEF Pruning, ReadDays, ReadDaysFails, Prune, Select, Delete, PruneFails, Remove, SetRetention
  <2>. QED
    BY <1>4, <2>1 DEF Enabling
<1>8. CASE Crash
  <2>1. Enabling' = {}
    BY <1>8 DEF Crash, NoSwitch, Enabling
  <2>2. issued' = issued /\ switches' = switches
    BY <1>8 DEF Crash
  <2>3. issued + 0 <= switches
    BY <1>0, <1>1
  <2>4. IsFiniteSet({}) /\ Cardinality({}) = 0
    BY FS_EmptySet
  <2>. QED
    BY <2>1, <2>2, <2>3, <2>4 DEF Counted
<1>9. CASE Tick \/ UNCHANGED vars
  BY <1>4, <1>9 DEF Tick, vars, Enabling
<1>10. Settings \subseteq Requests
  BY DEF Requests
<1>. QED
  BY <1>2, <1>3, <1>5, <1>6, <1>7, <1>8, <1>9, <1>10 DEF Next, Switch

-----------------------------------------------------------------------------
(* The parts of the invariant, effect by effect.                           *)

\* Codes are given out in order, and a request that was let in had a newer one than
\* those that were removed before it came.
LEMMA CodesStep ==
  ASSUME TypeOK, Codes, OldCodesStayOut, Effect
  PROVE  Codes' /\ OldCodesStayOut'
<1>0. /\ token \in Nat /\ issued \in Nat /\ revoked \in Nat
      /\ \A q \in Requests : req[q].code \in Nat /\ req[q].barred \in Nat
      /\ \A a \in Admins : admin[a].upto \in Nat
      /\ Guests \subseteq Requests
  BY BoundsAssumption DEF TypeOK, ReqType, AdminType, Code, Requests
<1>. USE DEF Codes, OldCodesStayOut, Accepted, SameAdmin, SameRequests, SameClock
<1>1. ASSUME NEW p \in Guests, Comes(p) PROVE Codes' /\ OldCodesStayOut'
  BY <1>0, <1>1 DEF Comes, Only
<1>2. ASSUME NEW p \in Guests, Creates(p) \/ Renames(p) \/ Drops(p) \/ Inserts(p)
      PROVE  Codes' /\ OldCodesStayOut'
  BY <1>0, <1>2 DEF Creates, Renames, Drops, Inserts, Only, KeepsRest, Blank
<1>3. ASSUME NEW q \in Requests, Sets(q) PROVE Codes' /\ OldCodesStayOut'
  BY <1>0, <1>3, RequestsAssumption DEF Sets, Only, KeepsRest
<1>4. ASSUME NEW q \in Requests, Reads(q) \/ Selects(q) \/ Deletes(q) \/ GivesUp(q)
      PROVE  Codes' /\ OldCodesStayOut'
  BY <1>0, <1>4 DEF Reads, Selects, Deletes, GivesUp, Over, Only, KeepsRest, Blank
<1>5. ASSUME NEW q \in Requests, NEW p \in Guests, Removes(q, p) PROVE Codes' /\ OldCodesStayOut'
  BY <1>0, <1>5 DEF Removes, Over, Only, Blank
<1>6. ASSUME NEW a \in Admins, Enables(a) PROVE Codes' /\ OldCodesStayOut'
  BY <1>0, <1>6 DEF Enables, OnlyAdmin, SameSwitch
<1>7. ASSUME NEW a \in Admins, Disables(a) PROVE Codes' /\ OldCodesStayOut'
  BY <1>0, <1>7 DEF Disables, OnlyAdmin
<1>8. ASSUME NEW a \in Admins, ForgetsToken(a) PROVE Codes' /\ OldCodesStayOut'
  BY <1>0, <1>8 DEF ForgetsToken, OnlyAdmin, SameSwitch
<1>9. ASSUME NEW a \in Admins, NEW n, Clears(a) \/ Lists(a) \/ TakesOne(a, n)
      PROVE  Codes' /\ OldCodesStayOut'
  BY <1>0, <1>9 DEF Clears, Lists, TakesOne, OnlyAdmin, SameSwitch
<1>10. ASSUME NEW a \in Admins, Answers(a) PROVE Codes' /\ OldCodesStayOut'
  BY <1>0, <1>10 DEF Answers, OnlyAdmin
<1>11. CASE Dies
  <2>1. \A a \in Admins : admin'[a].upto = 0 /\ admin'[a].pc = "idle"
    BY <1>11 DEF Dies, NoSwitch
  <2>2. \A p \in Guests : req'[p].barred <= revoked
    BY <1>0, <1>11 DEF Dies, Over, Blank
  <2>3. \A p \in Guests : Accepted(p)' => FALSE
    BY <1>11 DEF Dies
  <2>. QED
    BY <1>0, <1>11, <2>1, <2>2, <2>3 DEF Dies
<1>12. CASE DayPasses \/ UNCHANGED vars
  BY <1>12 DEF DayPasses, vars, store, history, bounds
<1>. QED
  BY <1>1, <1>2, <1>3, <1>4, <1>5, <1>6, <1>7, <1>8, <1>9, <1>10, <1>11, <1>12
     DEF Effect, FindsNothing, ClearingFails, TakesLast

\* What a disable found done stays done, and goes with its rows and its files.
LEMMA ClearingsStep ==
  ASSUME TypeOK, Posts, Clearings, ClearedChatIsGone, Effect
  PROVE  Clearings' /\ ClearedChatIsGone'
<1>0. /\ gone \subseteq Guests /\ Guests \subseteq Requests
      /\ \A a \in Admins : admin[a].before \subseteq Guests
      /\ \A r \in rows : r.post \in Guests
      /\ \A q \in Requests : req[q].names \subseteq Guests
  BY DEF TypeOK, ReqType, AdminType, Requests, Row
<1>. USE DEF Clearings, ClearedChatIsGone, NoRowOf, SameAdmin, SameRequests, SameClock
<1>1. ASSUME NEW p \in Guests, Comes(p) \/ Creates(p) \/ Renames(p) \/ Drops(p)
      PROVE  Clearings' /\ ClearedChatIsGone'
  <2>1. \A u \in Guests : req[u].pc = "done" => req'[u].pc = "done" /\ disk'[u] = disk[u]
    <3>1. req[p].pc # "done" /\ \A u \in Guests \ {p} : req'[u] = req[u] /\ disk'[u] = disk[u]
      BY <1>0, <1>1 DEF Comes, Creates, Renames, Drops, Only, Early
    <3>. QED
      BY <3>1
  <2>2. admin' = admin /\ gone' = gone /\ rows' = rows
    BY <1>1 DEF Comes, Creates, Renames, Drops
  <2>. QED
    BY <1>0, <2>1, <2>2
<1>2. ASSUME NEW p \in Guests, Inserts(p) PROVE Clearings' /\ ClearedChatIsGone'
  <2>1. req[p].pc # "done" /\ \A u \in Guests \ {p} : req'[u] = req[u]
    BY <1>0, <1>2 DEF Inserts, Only
  <2>2. admin' = admin /\ gone' = gone /\ disk' = disk
    BY <1>2 DEF Inserts
  <2>3. \A r \in rows' : r \in rows \/ r.post = p
    BY <1>2 DEF Inserts
  <2>. QED
    BY <1>0, <2>1, <2>2, <2>3
<1>3. ASSUME NEW q \in Requests, Sets(q) \/ Reads(q) \/ Selects(q) \/ GivesUp(q)
      PROVE  Clearings' /\ ClearedChatIsGone'
  <2>1. \A u \in Guests : req[u].pc = "done" => req'[u].pc = "done"
    BY <1>0, <1>3 DEF Sets, Reads, Selects, GivesUp, Only
  <2>2. admin' = admin /\ gone' = gone /\ disk' = disk /\ rows' = rows
    BY <1>3 DEF Sets, Reads, Selects, GivesUp
  <2>. QED
    BY <1>0, <2>1, <2>2
<1>4. ASSUME NEW q \in Requests, Deletes(q) PROVE Clearings' /\ ClearedChatIsGone'
  <2>1. \A u \in Guests : req[u].pc = "done" => req'[u].pc = "done"
    BY <1>0, <1>4 DEF Deletes, Only
  <2>2. admin' = admin /\ gone' = gone /\ disk' = disk /\ rows' \subseteq rows
    BY <1>4 DEF Deletes
  <2>. QED
    BY <1>0, <2>1, <2>2
<1>5. ASSUME NEW q \in Requests, NEW p \in Guests, Removes(q, p)
      PROVE  Clearings' /\ ClearedChatIsGone'
  <2>1. \A u \in Guests : req[u].pc = "done" => req'[u].pc = "done"
    BY <1>0, <1>5 DEF Removes, Only
  <2>2. /\ admin' = admin /\ gone' = gone /\ rows' = rows
        /\ \A u \in Guests : disk'[u] = "none" \/ disk'[u] = disk[u]
    BY <1>5 DEF Removes
  <2>. QED
    BY <1>0, <2>1, <2>2
<1>6. ASSUME NEW a \in Admins, Enables(a) \/ Disables(a) \/ ForgetsToken(a)
      PROVE  Clearings' /\ ClearedChatIsGone'
  BY <1>0, <1>6 DEF Enables, Disables, ForgetsToken, OnlyAdmin, SameSwitch
<1>7. ASSUME NEW a \in Admins, Clears(a) PROVE Clearings' /\ ClearedChatIsGone'
  BY <1>0, <1>7 DEF Clears, OnlyAdmin, SameSwitch
<1>8. ASSUME NEW a \in Admins, Lists(a) PROVE Clearings' /\ ClearedChatIsGone'
  BY <1>0, <1>8 DEF Lists, OnlyAdmin, SameSwitch
<1>9. ASSUME NEW a \in Admins, FindsNothing(a) \/ ClearingFails(a) \/ \E n : TakesLast(a, n)
      PROVE  Clearings' /\ ClearedChatIsGone'
  <2>1. /\ req' = req /\ rows' = rows /\ admin'[a].pc = "idle"
        /\ \A b \in Admins \ {a} : admin'[b] = admin[b]
        /\ \A p \in Guests : disk'[p] = disk[p] \/ disk'[p] = "none"
    BY <1>9 DEF FindsNothing, ClearingFails, TakesLast, Takes, Answers, OnlyAdmin
  <2>2. \/ gone' = gone
        \/ /\ admin[a].pc \in {"list", "sweep"} /\ gone' = gone \cup admin[a].before
           /\ \A p \in admin[a].before : disk'[p] = "none"
    BY <1>0, <1>9 DEF FindsNothing, ClearingFails, TakesLast, Takes
  <2>3. \A p \in gone' : disk'[p] = "none" /\ req[p].pc = "done" /\ \A r \in rows : r.post # p
    BY <1>0, <2>1, <2>2
  <2>4. ClearedChatIsGone' /\ \A p \in gone' : req'[p].pc = "done"
    BY <2>1, <2>3
  <2>5. \A b \in Admins \ {a} : admin[b].pc \in {"forget", "rows", "list", "sweep"} =>
           \A p \in admin[b].before :
             admin[b].pc = "sweep" /\ disk'[p] # "none" => <<p, disk'[p]>> \in admin[b].names
    BY <1>0, <2>1
  <2>6. Clearings'
    <3>1. SUFFICES ASSUME NEW b \in Admins, admin'[b].pc \in {"forget", "rows", "list", "sweep"},
                          NEW p \in admin'[b].before
                   PROVE  /\ req'[p].pc = "done"
                          /\ admin'[b].pc \in {"list", "sweep"} => NoRowOf(p)'
                          /\ admin'[b].pc = "sweep" /\ disk'[p] # "none"
                               => <<p, disk'[p]>> \in admin'[b].names
      BY <2>4
    <3>2. b # a /\ admin'[b] = admin[b]
      BY <2>1, <3>1
    <3>. QED
      BY <2>1, <2>5, <3>1, <3>2
  <2>. QED
    BY <2>4, <2>6
<1>10. ASSUME NEW a \in Admins, NEW n, TakesOne(a, n) PROVE Clearings' /\ ClearedChatIsGone'
  BY <1>0, <1>10 DEF TakesOne, Takes, OnlyAdmin, SameSwitch
<1>11. CASE Dies
  <2>1. \A u \in Guests : req[u].pc = "done" => req'[u].pc = "done"
    BY <1>11 DEF Dies
  <2>2. \A a \in Admins : admin'[a].pc = "idle"
    BY <1>11 DEF Dies, NoSwitch
  <2>. QED
    BY <1>0, <1>11, <2>1, <2>2 DEF Dies
<1>12. CASE DayPasses \/ UNCHANGED vars
  BY <1>12 DEF DayPasses, vars, store, history, bounds
<1>. QED
  BY <1>1, <1>2, <1>3, <1>4, <1>5, <1>6, <1>7, <1>8, <1>9, <1>10, <1>11, <1>12
     DEF Effect

\* A post has one row, which it gets when its voice note is complete.
LEMMA PostsStep ==
  ASSUME TypeOK, Posts, Prunes, Effect
  PROVE  Posts'
<1>0. /\ Guests \subseteq Requests
      /\ \A r \in rows : r.post \in Guests
      /\ \A q \in Requests : req[q].names \subseteq Guests
  BY DEF TypeOK, ReqType, AdminType, Requests, Row
<1>. USE DEF Posts, Early, Past, SameAdmin, SameRequests, SameClock
<1>1. ASSUME NEW p \in Guests, Comes(p) \/ Creates(p) \/ Renames(p) \/ Drops(p)
      PROVE  Posts'
  <2>1. /\ \A u \in Guests \ {p} : req'[u] = req[u] /\ disk'[u] = disk[u]
        /\ rows' = rows /\ ~Past(p)
    BY <1>0, <1>1 DEF Comes, Creates, Renames, Drops, Only
  <2>2. /\ Early(p)' => disk'[p] = "none"
        /\ req'[p].pc = "copy" => req'[p].voice
        /\ req'[p].pc = "insert" /\ ~req'[p].voice => disk'[p] = "none"
    BY <1>0, <1>1 DEF Comes, Creates, Renames, Drops, KeepsRest
  <2>. QED
    BY <1>0, <2>1, <2>2
<1>2. ASSUME NEW p \in Guests, Inserts(p) PROVE Posts'
  <2>1. /\ req[p].pc = "insert" /\ req'[p].pc = "days" /\ disk' = disk
        /\ \A u \in Guests \ {p} : req'[u] = req[u]
    BY <1>0, <1>2 DEF Inserts, Only
  <2>2. \A r \in rows : r.post # p
    BY <2>1
  <2>3. PICK new : new.post = p /\ rows' = rows \cup {new}
    BY <1>2 DEF Inserts
  <2>. QED
    BY <1>0, <2>1, <2>2, <2>3
<1>3. ASSUME NEW q \in Requests, Sets(q) \/ Reads(q) \/ Selects(q) \/ Deletes(q) \/ GivesUp(q)
      PROVE  Posts'
  <2>1. /\ \A u \in Guests \ {q} : req'[u] = req[u]
        /\ disk' = disk /\ rows' \subseteq rows
    BY <1>0, <1>3 DEF Sets, Reads, Selects, Deletes, GivesUp, Only
  <2>2. q \in Guests => Past(q) /\ Past(q)'
    BY <1>3, RequestsAssumption DEF Sets, Reads, Selects, Deletes, GivesUp, Over
  <2>. QED
    BY <1>0, <2>1, <2>2
<1>4. ASSUME NEW q \in Requests, NEW p \in Guests, Removes(q, p) PROVE Posts'
  <2>1. /\ \A u \in Guests \ {q} : req'[u] = req[u]
        /\ \A u \in Guests : disk'[u] = disk[u] \/ disk'[u] = "none"
        /\ rows' = rows
    BY <1>0, <1>4 DEF Removes, Only
  <2>2. q \in Guests => Past(q) /\ Past(q)'
    BY <1>4 DEF Removes, Over
  <2>. QED
    BY <1>0, <2>1, <2>2
<1>5. ASSUME NEW a \in Admins, NEW n,
             \/ Enables(a) \/ Disables(a) \/ ForgetsToken(a) \/ Clears(a) \/ Lists(a)
             \/ FindsNothing(a) \/ ClearingFails(a) \/ TakesOne(a, n) \/ TakesLast(a, n)
      PROVE  Posts'
  <2>1. req' = req /\ rows' \subseteq rows
    BY <1>5 DEF Enables, Disables, ForgetsToken, Clears, Lists, FindsNothing, ClearingFails,
                TakesOne, TakesLast, Answers
  <2>2. \A u \in Guests : disk'[u] = disk[u] \/ disk'[u] = "none"
    BY <1>5 DEF Enables, Disables, ForgetsToken, Clears, Lists, FindsNothing, ClearingFails,
                TakesOne, TakesLast, Takes
  <2>. QED
    BY <1>0, <2>1, <2>2
<1>6. CASE Dies
  <2>1. /\ \A u \in Guests : req'[u].pc \in {"idle", "done"} /\ (req'[u].pc = req[u].pc \/ req'[u].pc = "done")
        /\ rows' = rows /\ disk' = disk
    BY <1>6 DEF Dies
  <2>. QED
    BY <1>0, <2>1
<1>7. CASE DayPasses \/ UNCHANGED vars
  BY <1>7 DEF DayPasses, vars, store, history, bounds
<1>. QED
  BY <1>1, <1>2, <1>3, <1>4, <1>5, <1>6, <1>7 DEF Effect

\* A post that is past its INSERT never comes back to it.
LEMMA PastStays ==
  ASSUME TypeOK, Effect, NEW u \in Guests, Past(u)
  PROVE  Past(u)'
<1>0. u \in Requests
  BY DEF Requests
<1>. USE DEF Past
<1>1. ASSUME NEW p \in Guests, Comes(p) \/ Creates(p) \/ Renames(p) \/ Drops(p) \/ Inserts(p)
      PROVE  Past(u)'
  BY <1>0, <1>1 DEF Comes, Creates, Renames, Drops, Inserts, Only, Early
<1>2. ASSUME NEW q \in Requests, Sets(q) \/ Reads(q) \/ Selects(q) \/ Deletes(q) \/ GivesUp(q)
      PROVE  Past(u)'
  BY <1>0, <1>2, RequestsAssumption DEF Sets, Reads, Selects, Deletes, GivesUp, Over, Only
<1>3. ASSUME NEW q \in Requests, NEW p \in Guests, Removes(q, p) PROVE Past(u)'
  BY <1>0, <1>3 DEF Removes, Over, Only
<1>4. ASSUME NEW a \in Admins, NEW n,
             \/ Enables(a) \/ Disables(a) \/ ForgetsToken(a) \/ Clears(a) \/ Lists(a)
             \/ FindsNothing(a) \/ ClearingFails(a) \/ TakesOne(a, n) \/ TakesLast(a, n)
      PROVE  Past(u)'
  BY <1>4 DEF Enables, Disables, ForgetsToken, Clears, Lists, FindsNothing, ClearingFails,
              TakesOne, TakesLast, Answers, SameRequests
<1>5. CASE DayPasses \/ Dies \/ UNCHANGED vars
  BY <1>0, <1>5 DEF DayPasses, Dies, vars
<1>. QED
  BY <1>1, <1>2, <1>3, <1>4, <1>5 DEF Effect

\* A prune takes the voice notes of the rows that its DELETE takes, and of no other.
LEMMA PrunesStep ==
  ASSUME TypeOK, Posts, Prunes, Effect
  PROVE  Prunes'
<1>0. /\ Guests \subseteq Requests
      /\ \A r \in rows : r.post \in Guests /\ r.at \in Int
      /\ \A q \in Requests : req[q].names \subseteq Guests /\ req[q].cutoff \in Int
      /\ clock \in Int
  BY BoundsAssumption DEF TypeOK, ReqType, AdminType, Requests, Row, Cutoff
<1>b. \A q \in Requests : \A d \in terms[q] : d \in Int
  <2>1. \A q \in Requests : \A d \in terms[q] : d \in Days
    BY DEF TypeOK
  <2>2. \A d \in Days : d \in Int
    BY BoundsAssumption
  <2>. QED
    BY ONLY <2>1, <2>2
<1>a. \A u \in Guests : Past(u) => Past(u)'
  BY PastStays
<1>. USE <1>b DEF SameAdmin, SameRequests, SameClock, NoRowOf
<1>1. ASSUME NEW p \in Guests, Comes(p) \/ Creates(p) \/ Renames(p) \/ Drops(p)
      PROVE  Prunes'
  <2>1. /\ \A u \in Requests \ {p} : req'[u] = req[u]
        /\ req'[p].pc \notin {"select", "delete", "remove"}
    BY <1>0, <1>1 DEF Comes, Creates, Renames, Drops, Only
  <2>2. rows' = rows /\ terms' = terms /\ clock' = clock
    BY <1>1 DEF Comes, Creates, Renames, Drops
  <2>. QED
    BY <1>0, <1>a, <2>1, <2>2 DEF Prunes
<1>2. ASSUME NEW p \in Guests, Inserts(p) PROVE Prunes'
  <2>1. /\ \A u \in Requests \ {p} : req'[u] = req[u]
        /\ req'[p].pc = "days" /\ ~Past(p)
    BY <1>0, <1>2 DEF Inserts, Only, Past
  <2>2. terms' = terms /\ clock' = clock
    BY <1>2 DEF Inserts
  <2>3. PICK new : new.post = p /\ new.at = clock /\ rows' = rows \cup {new}
    BY <1>2 DEF Inserts
  <2>4. SUFFICES ASSUME NEW q \in Requests \ {p} PROVE Prunes!(q)'
    BY <2>1 DEF Prunes
  <2>5. req'[q] = req[q]
    BY <2>1
  <2>6. Prunes!(q)
    BY DEF Prunes
  <2>. QED
    BY <1>0, <1>a, <2>1, <2>2, <2>3, <2>5, <2>6
<1>3. ASSUME NEW q \in Requests, Sets(q) PROVE Prunes'
  <2>1. /\ \A u \in Requests \ {q} : req'[u] = req[u]
        /\ req'[q].pc = "days" /\ rows' = rows /\ clock' = clock
        /\ \A u \in Requests : req[u].pc \in {"select", "delete"} => terms[u] \subseteq terms'[u]
    BY <1>3 DEF Sets, Only
  <2>. QED
    BY <1>0, <1>a, <2>1 DEF Prunes
<1>4. ASSUME NEW q \in Requests, Reads(q) PROVE Prunes'
  <2>1. \A u \in Requests \ {q} : req'[u] = req[u] /\ terms'[u] = terms[u]
    BY <1>4 DEF Reads, OtherTerms, Only
  <2>. QED
    BY <1>0, <1>a, <1>4, <2>1 DEF Prunes, Reads
<1>5. ASSUME NEW q \in Requests, Selects(q) PROVE Prunes'
  <2>1. \A u \in Requests \ {q} : req'[u] = req[u]
    BY <1>5 DEF Selects, Only
  <2>2. \A p \in req'[q].names : Past(p) /\ \A r \in rows : r.post = p => r.at < req[q].cutoff
    BY <1>5 DEF Selects, Posts
  <2>3. \A r \in rows : r.voice /\ r.at < req[q].cutoff => r.post \in req'[q].names
    BY <1>5 DEF Selects
  <2>4. req'[q].names \subseteq Guests
    BY <1>0, <1>5 DEF Selects
  <2>5. /\ req[q].pc = "select" /\ req'[q].pc = "delete" /\ req'[q].cutoff = req[q].cutoff
        /\ rows' = rows /\ terms' = terms /\ clock' = clock
    BY <1>5 DEF Selects
  <2>. QED
    BY <1>0, <1>a, <2>1, <2>2, <2>3, <2>4, <2>5 DEF Prunes
<1>6. ASSUME NEW q \in Requests, Deletes(q) PROVE Prunes'
  <2>1. \A u \in Requests \ {q} : req'[u] = req[u] /\ terms'[u] = terms[u]
    BY <1>6 DEF Deletes, OtherTerms, Only
  <2>2. /\ req[q].pc = "delete" /\ req'[q].pc \notin {"select", "delete"}
        /\ req'[q].pc = "remove" => req'[q].names = req[q].names
        /\ rows' = {r \in rows : r.at >= req[q].cutoff}
        /\ clock' = clock
    BY <1>6 DEF Deletes, Over, KeepsRest
  <2>3. rows' \subseteq rows
    BY <2>2
  <2>4. \A p \in req[q].names : Past(p) /\ \A r \in rows' : r.post # p
    BY <1>0, <2>2 DEF Prunes
  <2>. QED
    BY <1>0, <1>a, <2>1, <2>2, <2>3, <2>4 DEF Prunes
<1>7. ASSUME NEW q \in Requests, GivesUp(q) PROVE Prunes'
  <2>1. \A u \in Requests \ {q} : req'[u] = req[u] /\ terms'[u] = terms[u]
    BY <1>7 DEF GivesUp, OtherTerms, Only
  <2>2. /\ req'[q].pc \notin {"select", "delete", "remove"}
        /\ rows' = rows /\ clock' = clock
    BY <1>7 DEF GivesUp, Over
  <2>. QED
    BY <1>0, <1>a, <2>1, <2>2 DEF Prunes
<1>8. ASSUME NEW q \in Requests, NEW p \in Guests, Removes(q, p) PROVE Prunes'
  <2>1. \A u \in Requests \ {q} : req'[u] = req[u]
    BY <1>8 DEF Removes, Only
  <2>2. /\ req[q].pc = "remove" /\ req'[q].pc \notin {"select", "delete"}
        /\ req'[q].names \subseteq req[q].names
        /\ rows' = rows /\ terms' = terms /\ clock' = clock
    BY <1>8 DEF Removes, Over, Blank
  <2>. QED
    BY <1>0, <1>a, <2>1, <2>2 DEF Prunes
<1>9. ASSUME NEW a \in Admins, NEW n,
             \/ Enables(a) \/ Disables(a) \/ ForgetsToken(a) \/ Clears(a) \/ Lists(a)
             \/ FindsNothing(a) \/ ClearingFails(a) \/ TakesOne(a, n) \/ TakesLast(a, n)
      PROVE  Prunes'
  <2>1. req' = req /\ rows' \subseteq rows /\ terms' = terms /\ clock' = clock
    BY <1>9 DEF Enables, Disables, ForgetsToken, Clears, Lists, FindsNothing, ClearingFails,
                TakesOne, TakesLast, Answers
  <2>. QED
    BY <1>0, <1>a, <2>1 DEF Prunes
<1>10. CASE Dies
  <2>1. \A q \in Requests : req'[q].pc \notin {"select", "delete", "remove"}
    BY <1>10 DEF Dies
  <2>. QED
    BY <2>1 DEF Prunes
<1>11. CASE DayPasses
  BY <1>0, <1>a, <1>11 DEF DayPasses, Prunes
<1>12. CASE UNCHANGED vars
  BY <1>12 DEF vars, store, history, bounds, Prunes, Past
<1>. QED
  BY <1>1, <1>2, <1>3, <1>4, <1>5, <1>6, <1>7, <1>8, <1>9, <1>10, <1>11, <1>12 DEF Effect

\* What a clearing has listed is the voice note of a post that its ClearRows or its
\* listing has crossed, or of one that has no message any more.
LEMMA CrossingsStep ==
  ASSUME TypeOK, Posts, Crossings, Effect
  PROVE  Crossings'
<1>0. /\ Guests \subseteq Requests
      /\ \A r \in rows : r.post \in Guests
      /\ \A a \in Admins : \A n \in admin[a].names : n[1] \in Guests
  BY DEF TypeOK, AdminType, Requests, Row
<1>a. \A u \in Guests : Past(u) => Past(u)'
  BY PastStays
<1>. USE DEF SameAdmin, SameRequests, SameClock
<1>1. ASSUME admin' = admin, crossed' = crossed, rows' \subseteq rows,
             \A u \in Guests : \/ req'[u] = req[u]
                               \/ /\ req'[u].pc # "copy"
                                  /\ req'[u].pc = "insert" => ~req'[u].voice
      PROVE  Crossings'
  BY <1>0, <1>a, <1>1 DEF Crossings, Doomed
<1>2. ASSUME NEW p \in Guests, Comes(p) \/ Drops(p) PROVE Crossings'
  BY <1>0, <1>1, <1>2 DEF Comes, Drops, Only
<1>3. ASSUME NEW p \in Guests, Creates(p) PROVE Crossings'
  <2>1. /\ \A u \in Guests \ {p} : req'[u] = req[u]
        /\ admin' = admin /\ rows' = rows /\ crossed \subseteq crossed'
        /\ \A a \in Admins : admin[a].pc = "list" => p \in crossed'
    BY <1>0, <1>3 DEF Creates, Only
  <2>. QED
    BY <1>0, <1>a, <2>1 DEF Crossings, Doomed
<1>4. ASSUME NEW p \in Guests, Renames(p) PROVE Crossings'
  <2>1. /\ \A u \in Guests \ {p} : req'[u] = req[u]
        /\ admin' = admin /\ rows' = rows /\ crossed' = crossed
        /\ req[p].pc = "copy"
    BY <1>0, <1>4 DEF Renames, Only
  <2>. QED
    BY <1>0, <1>a, <2>1 DEF Crossings, Doomed
<1>5. ASSUME NEW p \in Guests, Inserts(p) PROVE Crossings'
  <2>1. /\ \A u \in Guests \ {p} : req'[u] = req[u]
        /\ admin' = admin /\ crossed' = crossed
        /\ req[p].pc = "insert" /\ req'[p].pc = "days" /\ ~Past(p)
    BY <1>0, <1>5 DEF Inserts, Only, Past
  <2>2. PICK new : new.post = p /\ new.voice = req[p].voice /\ rows' = rows \cup {new}
    BY <1>5 DEF Inserts
  <2>3. \A n : Doomed(n) /\ n \in Guests => Doomed(n)'
    BY <1>a, <2>1, <2>2 DEF Doomed
  <2>. QED
    BY <1>0, <2>1, <2>2, <2>3 DEF Crossings
<1>6. ASSUME NEW q \in Requests, Sets(q) \/ Reads(q) \/ Selects(q) \/ Deletes(q) \/ GivesUp(q)
      PROVE  Crossings'
  <2>1. \A u \in Guests : req'[u] = req[u] \/ req'[u].pc \notin {"copy", "insert"}
    BY <1>0, <1>6 DEF Sets, Reads, Selects, Deletes, GivesUp, Over, Only
  <2>2. admin' = admin /\ crossed' = crossed /\ rows' \subseteq rows
    BY <1>6 DEF Sets, Reads, Selects, Deletes, GivesUp
  <2>. QED
    BY <1>1, <2>1, <2>2
<1>7. ASSUME NEW q \in Requests, NEW p \in Guests, Removes(q, p) PROVE Crossings'
  BY <1>0, <1>1, <1>7 DEF Removes, Over, Only
<1>8. ASSUME NEW a \in Admins, req' = req, rows' = rows, crossed' = crossed,
             \A b \in Admins \ {a} : admin'[b] = admin[b],
             admin'[a].pc # "list",
             admin'[a].pc = "sweep" =>
               admin[a].pc = "sweep" /\ admin'[a].names \subseteq admin[a].names
      PROVE  Crossings'
  BY <1>0, <1>8 DEF Crossings, Doomed, Past
<1>9. ASSUME NEW a \in Admins, NEW n,
             \/ Enables(a) \/ Disables(a) \/ ForgetsToken(a)
             \/ FindsNothing(a) \/ ClearingFails(a) \/ TakesOne(a, n) \/ TakesLast(a, n)
      PROVE  Crossings'
  BY <1>8, <1>9 DEF Enables, Disables, ForgetsToken, FindsNothing, ClearingFails,
                    TakesOne, TakesLast, Answers, OnlyAdmin
<1>10. ASSUME NEW a \in Admins, Clears(a) PROVE Crossings'
  BY <1>0, <1>a, <1>10 DEF Clears, OnlyAdmin, Saving, Crossings, Doomed
<1>11. ASSUME NEW a \in Admins, Lists(a) PROVE Crossings'
  <2>1. /\ req' = req /\ rows' = rows /\ crossed' = crossed
        /\ \A b \in Admins \ {a} : admin'[b] = admin[b]
        /\ admin[a].pc = "list" /\ admin'[a].pc = "sweep"
    BY <1>11 DEF Lists, OnlyAdmin
  <2>2. ASSUME NEW p \in Guests \ crossed, disk[p] # "none" PROVE Doomed(p)
    <3>1. ~Early(p) /\ ~(req[p].pc = "insert" /\ ~req[p].voice)
      BY <2>2 DEF Posts
    <3>2. req[p].pc # "copy" /\ (req[p].pc = "insert" => ~req[p].voice)
      BY <2>1 DEF Crossings
    <3>3. req[p] \in ReqType
      BY <1>0 DEF TypeOK
    <3>4. Past(p)
      BY <3>1, <3>2, <3>3 DEF Early, Past, ReqType
    <3>. QED
      BY <2>1, <3>4 DEF Crossings, Doomed
  <2>3. \A n \in admin'[a].names : \E p \in Guests : n[1] = p /\ disk[p] # "none"
    BY <1>11 DEF Lists
  <2>4. \A n \in admin'[a].names : n[1] \in crossed \/ Doomed(n[1])
    BY <2>2, <2>3
  <2>. QED
    BY <2>1, <2>4 DEF Crossings, Doomed, Past
<1>12. CASE Dies
  BY <1>12 DEF Dies, NoSwitch, Crossings
<1>13. CASE DayPasses \/ UNCHANGED vars
  BY <1>13 DEF DayPasses, vars, store, history, bounds, Crossings, Doomed, Past
<1>. QED
  BY <1>2, <1>3, <1>4, <1>5, <1>6, <1>7, <1>9, <1>10, <1>11, <1>12, <1>13 DEF Effect

\* The voice note of a message stays for as long as the message does.
LEMMA VoicesStep ==
  ASSUME TypeOK, Posts, Prunes, Crossings, Voices, Effect
  PROVE  Voices'
<1>0. /\ Guests \subseteq Requests
      /\ \A r \in rows : r.post \in Guests
      /\ \A q \in Requests : req[q].names \subseteq Guests
      /\ \A a \in Admins : \A n \in admin[a].names : n[1] \in Guests
  BY DEF TypeOK, ReqType, AdminType, Requests, Row
<1>. USE DEF SameAdmin, SameRequests, SameClock, Voices, RowsHaveTheirVoice
\* A step that gives no request a voice note to keep, and touches only those of posts
\* without a message.
<1>1. ASSUME rows' \subseteq rows, crossed \subseteq crossed',
             \A u \in Guests : req'[u] = req[u] \/ req'[u].pc # "insert" \/ ~req'[u].voice,
             \A u \in Guests \ crossed :
               \/ disk'[u] = disk[u]
               \/ /\ \A r \in rows' : r.post = u => ~r.voice
                  /\ req'[u].pc # "insert" \/ ~req'[u].voice
      PROVE  Voices'
  BY <1>0, <1>1
<1>2. ASSUME NEW p \in Guests, Comes(p) \/ Creates(p) \/ Drops(p) PROVE Voices'
  <2>1. \A r \in rows : r.post # p
    BY <1>2 DEF Comes, Creates, Drops, Posts, Early, Past
  <2>2. /\ rows' = rows /\ crossed \subseteq crossed'
        /\ req'[p].pc # "insert" \/ ~req'[p].voice
        /\ \A u \in Guests \ {p} : req'[u] = req[u] /\ disk'[u] = disk[u]
    BY <1>0, <1>2 DEF Comes, Creates, Drops, Only
  <2>. QED
    BY <1>1, <2>1, <2>2
<1>3. ASSUME NEW p \in Guests, Renames(p) PROVE Voices'
  <2>1. \A u \in Guests \ {p} : req'[u] = req[u] /\ disk'[u] = disk[u]
    BY <1>0, <1>3 DEF Renames, Only
  <2>2. rows' = rows /\ crossed' = crossed /\ disk'[p] = "full"
    BY <1>3 DEF Renames
  <2>. QED
    BY <1>0, <2>1, <2>2
<1>4. ASSUME NEW p \in Guests, Inserts(p) PROVE Voices'
  <2>1. \A u \in Guests \ {p} : req'[u] = req[u]
    BY <1>0, <1>4 DEF Inserts, Only
  <2>2. /\ crossed' = crossed /\ disk' = disk /\ req[p].pc = "insert" /\ req'[p].pc = "days"
    BY <1>4 DEF Inserts
  <2>3. PICK new : new.post = p /\ new.voice = req[p].voice /\ rows' = rows \cup {new}
    BY <1>4 DEF Inserts
  <2>. QED
    BY <1>0, <2>1, <2>2, <2>3
<1>5. ASSUME NEW q \in Requests, Sets(q) \/ Reads(q) \/ Selects(q) \/ Deletes(q) \/ GivesUp(q)
      PROVE  Voices'
  <2>1. \A u \in Guests : req'[u] = req[u] \/ req'[u].pc \notin {"copy", "insert"}
    BY <1>0, <1>5 DEF Sets, Reads, Selects, Deletes, GivesUp, Over, Only
  <2>2. disk' = disk /\ crossed' = crossed /\ rows' \subseteq rows
    BY <1>5 DEF Sets, Reads, Selects, Deletes, GivesUp
  <2>. QED
    BY <1>1, <2>1, <2>2
<1>6. ASSUME NEW q \in Requests, NEW p \in Guests, Removes(q, p) PROVE Voices'
  <2>1. Past(p) /\ NoRowOf(p)
    BY <1>6 DEF Removes, Prunes
  <2>2. \A u \in Guests : req'[u] = req[u] \/ req'[u].pc \notin {"copy", "insert"}
    BY <1>0, <1>6 DEF Removes, Over, Only
  <2>3. /\ crossed' = crossed /\ rows' = rows
        /\ \A u \in Guests \ {p} : disk'[u] = disk[u]
    BY <1>6 DEF Removes
  <2>4. req'[p].pc # "insert"
    BY <2>1, <2>2 DEF Past
  <2>. QED
    BY <1>1, <2>1, <2>2, <2>3, <2>4 DEF NoRowOf
<1>7. ASSUME NEW a \in Admins,
             \/ Enables(a) \/ Disables(a) \/ ForgetsToken(a) \/ Clears(a) \/ Lists(a)
             \/ FindsNothing(a) \/ ClearingFails(a)
      PROVE  Voices'
  <2>1. req' = req /\ disk' = disk /\ crossed \subseteq crossed' /\ rows' \subseteq rows
    BY <1>7 DEF Enables, Disables, ForgetsToken, Clears, Lists, FindsNothing, ClearingFails, Answers
  <2>. QED
    BY <1>1, <2>1
<1>8. ASSUME NEW a \in Admins, NEW n \in admin[a].names, TakesOne(a, n) \/ TakesLast(a, n)
      PROVE  Voices'
  <2>1. /\ req' = req /\ crossed' = crossed /\ rows' = rows /\ admin[a].pc = "sweep"
        /\ Takes(n)
    BY <1>8 DEF TakesOne, TakesLast, Answers
  <2>2. \A u \in Guests : disk'[u] = disk[u] \/ n[1] = u
    BY <2>1 DEF Takes
  <2>3. n[1] \in crossed \/ Doomed(n[1])
    BY <2>1 DEF Crossings
  <2>. QED
    BY <1>1, <2>1, <2>2, <2>3 DEF Doomed, Past
<1>9. CASE Dies
  <2>1. \A u \in Guests : req'[u].pc # "insert"
    BY <1>9 DEF Dies
  <2>. QED
    BY <1>1, <1>9, <2>1 DEF Dies
<1>10. CASE DayPasses \/ UNCHANGED vars
  BY <1>10 DEF DayPasses, vars, store, history, bounds
<1>. QED
  BY <1>2, <1>3, <1>4, <1>5, <1>6, <1>7, <1>8, <1>9, <1>10 DEF Effect

\* Every voice note on disk has a message, or somebody who is about to write one or to
\* remove the file: none is left behind, unless a crash or a failed clearing forgets it.
LEMMA OwnersStep ==
  ASSUME TypeOK, Posts, Prunes, Owners, Effect
  PROVE  Owners'
<1>0. /\ Guests \subseteq Requests
      /\ \A r \in rows : r.post \in Guests /\ r.at \in Int
      /\ \A q \in Requests : req[q].names \subseteq Guests /\ req[q].cutoff \in Int
      /\ crashes \in Nat
  BY BoundsAssumption DEF TypeOK, ReqType, AdminType, Requests, Row, Cutoff
<1>. USE DEF SameAdmin, SameRequests, SameClock
<1>1. CASE ~(crashes' = 0 /\ "clear" \notin failed')
  BY <1>1 DEF Owners
<1>2. CASE Dies
  BY <1>0, <1>2 DEF Dies, Owners
<1>3. ASSUME crashes' = crashes, failed \subseteq failed', crashes' = 0, "clear" \notin failed'
      PROVE  \A u \in Guests : disk[u] # "none" => Owned(u)
  BY <1>3 DEF Owners
\* A file whose owner is somebody else than the one who moves.
<1>4. ASSUME NEW u \in Guests, Owned(u), disk'[u] = disk[u],
             \A r \in rows : r.post = u /\ r.voice => r \in rows' \/ Owned(u)',
             \A q \in Requests :
               req'[q] = req[q] \/ (req[q].pc # "remove" /\ (q = u => req[q].pc \notin {"copy", "insert"})),
             admin' = admin
      PROVE  Owned(u)'
  <2>1. CASE \E r \in rows : r.post = u /\ r.voice
    BY <1>4, <2>1 DEF Owned
  <2>2. CASE req[u].pc = "copy" \/ (req[u].pc = "insert" /\ req[u].voice)
    BY <1>0, <1>4, <2>2 DEF Owned
  <2>3. CASE \E q \in Requests : req[q].pc = "remove" /\ u \in req[q].names
    BY <1>4, <2>3 DEF Owned
  <2>4. CASE \/ \E a \in Admins : admin[a].pc = "list"
             \/ \E a \in Admins : admin[a].pc = "sweep" /\ <<u, disk[u]>> \in admin[a].names
    BY <1>4, <2>4 DEF Owned
  <2>. QED
    BY <1>4, <2>1, <2>2, <2>3, <2>4 DEF Owned
<1>5. ASSUME NEW p \in Guests, Comes(p) \/ Creates(p) \/ Renames(p) \/ Drops(p) \/ Inserts(p),
             crashes' = 0, "clear" \notin failed'
      PROVE  Owners'
  <2>1. /\ admin' = admin /\ crashes' = crashes /\ failed \subseteq failed'
        /\ \A q \in Requests \ {p} : req'[q] = req[q]
        /\ req[p].pc # "remove"
        /\ rows \subseteq rows'
        /\ \A u \in Guests \ {p} : disk'[u] = disk[u]
    BY <1>0, <1>5 DEF Comes, Creates, Renames, Drops, Inserts, Only, Early
  <2>2. ASSUME NEW u \in Guests \ {p}, disk'[u] # "none" PROVE Owned(u)'
    BY <1>3, <1>4, <1>5, <2>1, <2>2
  <2>3. disk'[p] # "none" => Owned(p)'
    <3>1. CASE Comes(p)
      BY <3>1 DEF Comes, Posts
    <3>2. CASE Creates(p)
      BY <3>2 DEF Creates, Owned
    <3>3. CASE Renames(p)
      BY <3>3 DEF Renames, KeepsRest, Posts, Owned
    <3>4. CASE Drops(p)
      BY <3>4 DEF Drops, Posts
    <3>5. CASE Inserts(p)
      <4>1. CASE req[p].voice
        <5>1. PICK new : new.post = p /\ new.voice = req[p].voice /\ new \in rows'
          BY <3>5 DEF Inserts
        <5>. QED
          BY <4>1, <5>1 DEF Owned
      <4>2. CASE ~req[p].voice
        BY <3>5, <4>2 DEF Inserts, Posts
      <4>. QED
        BY <4>1, <4>2
    <3>. QED
      BY <1>5, <3>1, <3>2, <3>3, <3>4, <3>5
  <2>. QED
    BY <2>2, <2>3 DEF Owners
<1>6. ASSUME NEW q \in Requests, Sets(q) \/ Reads(q) \/ Selects(q) \/ GivesUp(q),
             crashes' = 0, "clear" \notin failed'
      PROVE  Owners'
  <2>1. /\ admin' = admin /\ crashes' = crashes /\ failed \subseteq failed'
        /\ \A u \in Requests \ {q} : req'[u] = req[u]
        /\ req[q].pc \notin {"remove", "copy", "insert"}
        /\ rows' = rows /\ disk' = disk
    BY <1>6 DEF Sets, Reads, Selects, GivesUp, Only
  <2>2. ASSUME NEW u \in Guests, disk'[u] # "none" PROVE Owned(u)'
    BY <1>3, <1>4, <1>6, <2>1, <2>2
  <2>. QED
    BY <2>2 DEF Owners
<1>7. ASSUME NEW q \in Requests, Deletes(q), crashes' = 0, "clear" \notin failed'
      PROVE  Owners'
  <2>1. /\ admin' = admin /\ crashes' = crashes /\ failed \subseteq failed'
        /\ \A u \in Requests \ {q} : req'[u] = req[u]
        /\ req[q].pc = "delete" /\ disk' = disk
        /\ rows' = {r \in rows : r.at >= req[q].cutoff}
        /\ req[q].names = {} \/ (req'[q].pc = "remove" /\ req'[q].names = req[q].names)
    BY <1>7 DEF Deletes, Only, KeepsRest
  <2>2. ASSUME NEW r \in rows, r.voice, r \notin rows' PROVE Owned(r.post)'
    <3>1. r.at < req[q].cutoff
      BY <1>0, <2>1, <2>2
    <3>2. r.post \in req[q].names
      BY <2>1, <2>2, <3>1 DEF Prunes
    <3>. QED
      BY <2>1, <3>2 DEF Owned
  <2>3. ASSUME NEW u \in Guests, disk'[u] # "none" PROVE Owned(u)'
    BY <1>3, <1>4, <1>7, <2>1, <2>2, <2>3
  <2>. QED
    BY <2>3 DEF Owners
<1>8. ASSUME NEW q \in Requests, NEW p \in Guests, Removes(q, p), crashes' = 0, "clear" \notin failed'
      PROVE  Owners'
  <2>1. /\ admin' = admin /\ crashes' = crashes /\ failed \subseteq failed' /\ rows' = rows
        /\ \A u \in Requests \ {q} : req'[u] = req[u]
        /\ req[q].pc = "remove"
        /\ disk'[p] = "none" /\ \A u \in Guests \ {p} : disk'[u] = disk[u]
        /\ req[q].names = {p} \/ (req'[q].pc = "remove" /\ req'[q].names = req[q].names \ {p})
    BY <1>8 DEF Removes, Only
  <2>2. ASSUME NEW u \in Guests \ {p}, disk'[u] # "none" PROVE Owned(u)'
    <3>1. Owned(u) /\ disk'[u] = disk[u]
      BY <1>3, <1>8, <2>1, <2>2
    <3>2. CASE \E v \in Requests : req[v].pc = "remove" /\ u \in req[v].names
      BY <2>1, <2>2, <3>2 DEF Owned
    <3>3. CASE ~\E v \in Requests : req[v].pc = "remove" /\ u \in req[v].names
      BY <1>0, <2>1, <3>1, <3>3 DEF Owned
    <3>. QED
      BY <3>2, <3>3
  <2>. QED
    BY <2>1, <2>2 DEF Owners
<1>9. ASSUME NEW a \in Admins,
             \/ Enables(a) \/ Disables(a) \/ ForgetsToken(a)
             \/ FindsNothing(a) \/ \E n : TakesOne(a, n) \/ TakesLast(a, n),
             crashes' = 0, "clear" \notin failed'
      PROVE  Owners'
  <2>1. /\ crashes' = crashes /\ failed \subseteq failed' /\ rows' = rows /\ req' = req
        /\ \A b \in Admins \ {a} : admin'[b] = admin[b]
    BY <1>9 DEF Enables, Disables, ForgetsToken, FindsNothing, TakesOne, TakesLast, Answers, OnlyAdmin
  <2>2. ASSUME NEW u \in Guests, disk'[u] # "none" PROVE Owned(u)'
    <3>1. disk'[u] = disk[u]
      BY <1>9, <2>2 DEF Enables, Disables, ForgetsToken, FindsNothing, TakesOne, TakesLast, Takes, Answers
    <3>2. Owned(u)
      BY <1>3, <1>9, <2>1, <2>2, <3>1
    <3>3. CASE admin[a].pc = "list"
      BY <1>9, <2>2, <3>3 DEF Enables, Disables, ForgetsToken, FindsNothing, TakesOne, TakesLast
    <3>4. ASSUME admin[a].pc = "sweep", <<u, disk[u]>> \in admin[a].names PROVE Owned(u)'
      <4>1. PICK n : TakesOne(a, n) \/ TakesLast(a, n)
        BY <1>9, <3>4 DEF Enables, Disables, ForgetsToken, FindsNothing
      <4>2. n # <<u, disk[u]>>
        BY <2>2, <4>1 DEF TakesOne, TakesLast, Takes
      <4>3. TakesOne(a, n)
        BY <3>4, <4>1, <4>2 DEF TakesLast
      <4>. QED
        BY <3>1, <3>4, <4>2, <4>3 DEF TakesOne, Owned
    <3>. QED
      BY <2>1, <3>1, <3>2, <3>3, <3>4 DEF Owned
  <2>. QED
    BY <2>2 DEF Owners
<1>10. ASSUME NEW a \in Admins, Clears(a), crashes' = 0, "clear" \notin failed'
       PROVE  Owners'
  <2>1. admin'[a].pc = "list"
    BY <1>10 DEF Clears
  <2>. QED
    BY <2>1 DEF Owners, Owned
<1>11. ASSUME NEW a \in Admins, Lists(a), crashes' = 0, "clear" \notin failed'
       PROVE  Owners'
  <2>1. /\ disk' = disk /\ admin'[a].pc = "sweep"
        /\ \A u \in Guests : disk[u] # "none" => <<u, disk[u]>> \in admin'[a].names
    BY <1>11 DEF Lists
  <2>. QED
    BY <2>1 DEF Owners, Owned
<1>12. ASSUME NEW a \in Admins, ClearingFails(a) PROVE Owners'
  BY <1>12 DEF ClearingFails, Owners
<1>13. CASE DayPasses \/ UNCHANGED vars
  BY <1>13 DEF DayPasses, vars, store, history, bounds, Owners, Owned
<1>. QED
  BY <1>1, <1>2, <1>5, <1>6, <1>7, <1>8, <1>9, <1>10, <1>11, <1>12, <1>13 DEF Effect

-----------------------------------------------------------------------------
(* The theorems.                                                           *)

\* The invariant holds in a new database.
LEMMA InitInv == Init => IInv
<1>. SUFFICES ASSUME Init PROVE IInv
  OBVIOUS
<1>. USE RequestsAssumption, BoundsAssumption
<1>1. /\ NoRequest \in ReqType /\ NoSwitch \in AdminType
      /\ NoRequest.pc = "idle" /\ NoRequest.barred = 0
      /\ NoSwitch.pc = "idle" /\ NoSwitch.upto = 0
  BY DEF NoRequest, NoSwitch, ReqType, AdminType, Code
<1>2. /\ [NoRequest EXCEPT !.pc = "days"] \in ReqType
      /\ [NoRequest EXCEPT !.pc = "days"].pc = "days"
      /\ [NoRequest EXCEPT !.pc = "days"].barred = 0
  BY <1>1 DEF ReqType
<1>3. /\ \A q \in Requests : req[q] \in ReqType /\ req[q].pc \in {"idle", "days"} /\ req[q].barred = 0
      /\ \A p \in Guests : req[p].pc = "idle"
      /\ \A a \in Admins : admin[a] = NoSwitch
      /\ Guests \subseteq Requests
  BY <1>1, <1>2 DEF Init, Requests
<1>4. TypeOK
  <2>1. req \in [Requests -> ReqType] /\ admin \in [Admins -> AdminType]
    BY <1>1, <1>3 DEF Init
  <2>2. disk \in [Guests -> {"none", "partial", "full"}] /\ rows \in SUBSET Row
    BY DEF Init
  <2>3. 0 \in Code /\ 0 \in 0 .. MaxClock /\ 0 \in 0 .. MaxCrashes
    BY DEF Code
  <2>4. enabled \in BOOLEAN
    BY DEF Init
  <2>5. /\ token = 0 /\ retention \in Days /\ clock = 0 /\ issued = 0 /\ switches = 0
        /\ crashes = 0 /\ failed = {} /\ crossed = {} /\ revoked = 0 /\ gone = {}
        /\ terms \in [Requests -> SUBSET Days]
    BY DEF Init
  <2>. QED
    BY ONLY <2>1, <2>2, <2>3, <2>4, <2>5 DEF TypeOK
<1>5. Counted
  <2>1. Enabling = {}
    BY <1>1, <1>3 DEF Enabling
  <2>2. IsFiniteSet({}) /\ Cardinality({}) = 0
    BY FS_EmptySet
  <2>. QED
    BY <2>1, <2>2 DEF Counted, Init
<1>6. Codes /\ OldCodesStayOut /\ Clearings /\ ClearedChatIsGone
  BY <1>1, <1>3 DEF Init, Codes, OldCodesStayOut, Accepted, Clearings, ClearedChatIsGone
<1>7. Posts /\ Prunes /\ Crossings /\ Voices /\ Owners
  BY <1>1, <1>3 DEF Init, Posts, Prunes, Crossings, Voices, RowsHaveTheirVoice, Owners
<1>. QED
  BY <1>4, <1>5, <1>6, <1>7 DEF IInv

\* Every step keeps it.
LEMMA NextInv == IInv /\ [Next]_vars => IInv'
<1>. SUFFICES ASSUME IInv, [Next]_vars PROVE IInv'
  OBVIOUS
<1>1. Effect
  BY StepEffect DEF IInv
<1>. QED
  BY <1>1, TypeStep, CountedStep, CodesStep, ClearingsStep, PostsStep, PrunesStep, CrossingsStep,
     VoicesStep, OwnersStep DEF IInv

\* The invariant of the chat holds in every reachable state.
THEOREM ChatInvariance == Spec => []IInv
BY InitInv, NextInv, PTL DEF Spec

\* Every reachable state has its type: no more codes are given out than the library was
\* switched.
THEOREM ChatTypeCorrect == Spec => []TypeOK
<1>1. IInv => TypeOK
  BY DEF IInv
<1>. QED
  BY <1>1, ChatInvariance, PTL

\* A disable that was answered keeps out whoever comes with a code of before, although
\* the switch and the code are checked and changed by separate statements.
THEOREM OldCodesAreKeptOut == Spec => []OldCodesStayOut
<1>1. IInv => OldCodesStayOut
  BY DEF IInv
<1>. QED
  BY <1>1, ChatInvariance, PTL

\* What was posted before a disable that ran to its end is gone for good.
THEOREM ClearedIsGone == Spec => []ClearedChatIsGone
<1>1. IInv => ClearedChatIsGone
  BY DEF IInv
<1>. QED
  BY <1>1, ChatInvariance, PTL

\* No message refers to a voice note that pruning, a failed post or a disable took away.
THEOREM MessagesKeepTheirVoice == Spec => []RowsHaveTheirVoice
<1>1. IInv => RowsHaveTheirVoice
  BY DEF IInv, Voices
<1>. QED
  BY <1>1, ChatInvariance, PTL

\* No voice note is left behind when everything has come to rest.
THEOREM NoVoiceIsLeftBehind == Spec => []NoOrphanVoice
<1>1. IInv => NoOrphanVoice
  <2>. SUFFICES ASSUME IInv, AllQuiet, crashes = 0, "clear" \notin failed,
                       NEW p \in Guests, disk[p] # "none"
                PROVE  \E r \in rows : r.post = p /\ r.voice
    BY DEF NoOrphanVoice
  <2>1. Owned(p)
    BY DEF IInv, Owners
  <2>2. \A q \in Requests : req[q].pc \in {"idle", "done", "days"}
    BY DEF AllQuiet, Quiet, Requests
  <2>3. \A a \in Admins : admin[a].pc = "idle"
    BY DEF AllQuiet
  <2>4. p \in Requests
    BY DEF Requests
  <2>. QED
    BY <2>1, <2>2, <2>3, <2>4 DEF Owned
<1>. QED
  BY <1>1, ChatInvariance, PTL

\* A prune deletes a message only when it is older than a retention that was in force since
\* the prune asked for it, or than the default when it could not read the setting.
THEOREM MessagesAreKept == Spec => KeptForRetention
<1>1. ASSUME IInv, [Next]_vars,
             NEW q \in Requests, req[q].pc = "delete", req'[q].pc # "delete",
             NEW r \in rows \ rows'
      PROVE  \E d \in terms[q] : r.at < clock - d
  <2>1. Effect
    BY <1>1, StepEffect DEF IInv
  <2>2. /\ r.at \in Int /\ req[q].cutoff \in Int /\ clock \in Int
        /\ Guests \subseteq Requests
    BY <1>1, BoundsAssumption DEF IInv, TypeOK, ReqType, Row, Cutoff, Requests
  <2>3. PICK d \in terms[q] : req[q].cutoff + d <= clock
    BY <1>1 DEF IInv, Prunes
  <2>11. d \in Int
    <3>1. d \in Days
      BY <1>1 DEF IInv, TypeOK
    <3>. QED
      BY <3>1, BoundsAssumption
  <2>4. rows' # rows /\ req'[q] # req[q]
    BY <1>1
  <2>. USE DEF SameRequests
  <2>5. ASSUME NEW p \in Guests, Comes(p) \/ Creates(p) \/ Renames(p) \/ Drops(p) \/ Inserts(p)
        PROVE  FALSE
    BY <1>1, <2>2, <2>5 DEF Comes, Creates, Renames, Drops, Inserts
  <2>6. ASSUME NEW u \in Requests, Sets(u) \/ Reads(u) \/ Selects(u) \/ GivesUp(u) PROVE FALSE
    BY <2>4, <2>6 DEF Sets, Reads, Selects, GivesUp
  <2>7. ASSUME NEW u \in Requests, Deletes(u) PROVE r.at < clock - d
    <3>1. u = q
      BY <2>4, <2>7 DEF Deletes, Only
    <3>2. r.at < req[q].cutoff
      BY <1>1, <2>2, <2>7, <3>1 DEF Deletes
    <3>. QED
      BY <2>2, <2>3, <2>11, <3>2
  <2>8. ASSUME NEW u \in Requests, NEW p \in Guests, Removes(u, p) PROVE FALSE
    BY <2>4, <2>8 DEF Removes
  <2>9. ASSUME NEW a \in Admins, NEW n,
             \/ Enables(a) \/ Disables(a) \/ ForgetsToken(a) \/ Clears(a) \/ Lists(a)
             \/ FindsNothing(a) \/ ClearingFails(a) \/ TakesOne(a, n) \/ TakesLast(a, n)
        PROVE  FALSE
    BY <2>4, <2>9 DEF Enables, Disables, ForgetsToken, Clears, Lists, FindsNothing, ClearingFails,
                      TakesOne, TakesLast, Answers
  <2>10. CASE DayPasses \/ Dies \/ UNCHANGED vars
    BY <2>4, <2>10 DEF DayPasses, Dies, vars, store
  <2>. QED
    BY <2>1, <2>5, <2>6, <2>7, <2>8, <2>9, <2>10 DEF Effect
<1>2. IInv /\ [Next]_vars
        => \A q \in Requests : req[q].pc = "delete" /\ req'[q].pc # "delete"
             => \A r \in rows \ rows' : \E d \in terms[q] : r.at < clock - d
  BY <1>1
<1>. QED
  BY <1>2, ChatInvariance, PTL DEF Spec, KeptForRetention
=============================================================================
