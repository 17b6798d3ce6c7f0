-------------------------- MODULE LibraryGuest_proofs --------------------------
(***************************************************************************)
(* Proofs about LibraryGuest, for any number of tabs, files, codes and     *)
(* faults: a page never highlights what was shown by the page whose stamp  *)
(* it compares with, and a form is refused only in a tab whose page has    *)
(* been outdated.                                                          *)
(*                                                                         *)
(* For the first: the listing is read before the stamp is taken, so that   *)
(* nothing that was shown is younger than the stamp of its page (Stamps).  *)
(* For the second: what a tab has asked with, and the token of the page it *)
(* shows, are the token of the jar, unless the jar's has changed meanwhile,*)
(* which every other tab was marked for (TokenIsKept). A token is only     *)
(* drawn for a tab that asked without one.                                 *)
(***************************************************************************)
EXTENDS LibraryGuest, TLAPS

CookieNames == {"code", "nick", "seen", "csrf"}
CookieType == [CookieNames -> Nat]
SetsType == UNION {[D -> Nat] : D \in SUBSET CookieNames}
Versions == Files \X Nat
TabType ==
  [pc : {"idle", "asked", "listed", "answered", "refused"}, route : Routes,
   sent : CookieType, code : Nat, rows : SUBSET Versions, sets : SetsType, page : BOOLEAN,
   token : Nat, form : Nat, stale : BOOLEAN, crossed : BOOLEAN]

GuestTypes ==
  /\ visit \in Visits
  /\ code \in Nat /\ codes \in Nat /\ time \in Nat /\ tokens \in Nat /\ faults \in Nat
  /\ tree \in [Files -> Nat] /\ saving \in [Files -> Nat]
  /\ jar \in CookieType
  /\ tab \in [Tabs -> TabType]
  /\ shown \in [1 .. MaxTime -> SUBSET Versions]

\* These cookies, and those that an answer sets, hold what has been given out.
Held(j) == j.code <= codes /\ j.nick <= 1 /\ j.seen <= time /\ j.csrf <= tokens
Given(s, lastCode, now, lastToken) ==
  /\ "code" \in DOMAIN s => s.code <= lastCode
  /\ "nick" \in DOMAIN s => s.nick <= 1
  /\ "seen" \in DOMAIN s => s.seen <= now
  /\ "csrf" \in DOMAIN s => s.csrf <= lastToken

Bounds ==
  /\ code <= codes /\ codes <= visit.codes
  /\ tokens <= visit.tokens /\ time <= MaxTime /\ faults <= visit.faults
  /\ \A f \in Files : tree[f] <= time /\ saving[f] <= time
  /\ Held(jar)
  /\ \A t \in Tabs : Held(tab[t].sent) /\ Given(tab[t].sets, codes, time, tokens)

\* Nothing that is shown is younger than the stamp of its page.
NotBefore(rows, s) == \A v \in rows : v[2] <= s
Stamps ==
  /\ \A s \in 1 .. MaxTime : NotBefore(shown[s], s)
  /\ \A t \in Tabs :
       /\ tab[t].pc = "listed" => NotBefore(tab[t].rows, time)
       /\ tab[t].page /\ "seen" \in DOMAIN tab[t].sets =>
            tab[t].sets.seen \in 1 .. MaxTime /\ NotBefore(tab[t].rows, tab[t].sets.seen)

\* The token of tab t is that of the jar, unless the tab has been marked.
TokenIsKept(t) ==
  /\ tab[t].form # Never /\ ~tab[t].stale => tab[t].form = jar.csrf
  /\ tab[t].pc # "idle" /\ ~tab[t].crossed => tab[t].sent.csrf = jar.csrf
  /\ tab[t].crossed => tab[t].stale
  /\ tab[t].pc = "refused" => tab[t].stale
  /\ tab[t].pc = "asked" /\ tab[t].route \in FormRoutes => tab[t].form # Never
  /\ tab[t].page => tab[t].pc = "answered"
  /\ "csrf" \in DOMAIN tab[t].sets =>
       /\ tab[t].pc = "answered" /\ tab[t].page
       /\ tab[t].sent.csrf = Never /\ tab[t].token = tab[t].sets.csrf
  /\ tab[t].page /\ "csrf" \notin DOMAIN tab[t].sets => tab[t].token = tab[t].sent.csrf

\* The inductive invariant.
GuestInv == GuestTypes /\ Bounds /\ Stamps /\ \A t \in Tabs : TokenIsKept(t)

-----------------------------------------------------------------------------
(* What the steps do. The steps with the same effect are taken together.   *)

\* Of the tabs, t alone moves.
OneTab(t) ==
  /\ tab' \in [Tabs -> TabType]
  /\ \A u \in Tabs \ {t} : tab'[u] = tab[u]

SamePage(t) == tab'[t].form = tab[t].form /\ tab'[t].stale = tab[t].stale
SameRequest(t) ==
  SamePage(t) /\ tab'[t].sent = tab[t].sent /\ tab'[t].crossed = tab[t].crossed
SameAnswer(t) == tab'[t].sets = tab[t].sets /\ tab'[t].page = tab[t].page

\* Time goes on, codes and tokens are given out.
Grows ==
  /\ codes' \in Nat /\ codes' >= codes /\ codes' <= visit.codes
  /\ code' \in Nat /\ code' <= codes'
  /\ time' \in Nat /\ time' >= time /\ time' <= MaxTime
  /\ tokens' \in Nat /\ tokens' >= tokens /\ tokens' <= visit.tokens
  /\ faults' \in Nat /\ faults' <= visit.faults
  /\ tree' \in [Files -> Nat] /\ saving' \in [Files -> Nat]
  /\ \A f \in Files : tree'[f] <= time' /\ saving'[f] <= time'
  /\ visit' = visit

\* The hub alone.
Elsewhere == Grows /\ UNCHANGED <<jar, tab, shown>>

\* Ask.
Asks(t) ==
  /\ OneTab(t) /\ SamePage(t)
  /\ tab'[t].pc = "asked" /\ tab'[t].sent = jar /\ ~tab'[t].crossed
  /\ tab'[t].route \in FormRoutes => tab[t].form # Never
  /\ ~tab'[t].page /\ DOMAIN tab'[t].sets = {}
  /\ Grows /\ UNCHANGED <<jar, shown>>

\* ListFiles.
Lists(t) ==
  /\ OneTab(t) /\ SameRequest(t) /\ SameAnswer(t)
  /\ tab[t].pc = "asked" /\ tab'[t].pc = "listed"
  /\ NotBefore(tab'[t].rows, time)
  /\ Grows /\ UNCHANGED <<time, jar, shown>>

\* An answer without a page.
Replies(t) ==
  /\ OneTab(t) /\ SameRequest(t)
  /\ tab[t].pc \in {"asked", "listed"} /\ tab'[t].pc = "answered"
  /\ tab'[t].page = tab[t].page
  /\ "csrf" \notin DOMAIN tab'[t].sets /\ Given(tab'[t].sets, codes', time', tokens')
  /\ Grows /\ UNCHANGED <<jar, shown>>

\* A page.
Displays(t) ==
  /\ OneTab(t) /\ SameRequest(t)
  /\ tab[t].pc \in {"asked", "listed"} /\ tab'[t].pc = "answered" /\ tab'[t].page
  /\ Given(tab'[t].sets, codes', time', tokens')
  /\ IF tab[t].sent.csrf = Never
       THEN "csrf" \in DOMAIN tab'[t].sets /\ tab'[t].token = tab'[t].sets.csrf
       ELSE "csrf" \notin DOMAIN tab'[t].sets /\ tab'[t].token = tab[t].sent.csrf
  /\ "seen" \in DOMAIN tab'[t].sets =>
       /\ tab[t].pc = "listed" /\ tab'[t].rows = tab[t].rows
       /\ tab'[t].sets.seen = time + 1 /\ time' = time + 1
  /\ Grows /\ UNCHANGED <<jar, shown>>

\* RefuseForm.
Refuses(t) ==
  /\ OneTab(t) /\ SameRequest(t) /\ SameAnswer(t)
  /\ tab[t].pc = "asked" /\ tab'[t].pc = "refused"
  /\ tab[t].route \in FormRoutes /\ ~TokenMatches(t)
  /\ Grows /\ UNCHANGED <<jar, shown>>

\* Tab t waits for nothing.
Rests(t) ==
  /\ tab'[t].pc = "idle" /\ ~tab'[t].page /\ DOMAIN tab'[t].sets = {}
  /\ ~tab'[t].crossed /\ tab'[t].sent = NoCookies

\* Tab u is told that its token is outdated.
Marked(u) ==
  /\ tab'[u].stale /\ tab'[u].crossed /\ SameAnswer(u)
  /\ tab'[u].sent = tab[u].sent /\ tab'[u].pc = tab[u].pc /\ tab'[u].route = tab[u].route
  /\ tab'[u].form = tab[u].form /\ tab'[u].token = tab[u].token /\ tab'[u].rows = tab[u].rows

\* The jar takes the cookies of the answer, and the other tabs are marked if need be.
TakesIn(t) ==
  /\ jar' \in CookieType
  /\ \A c \in CookieNames : jar'[c] = IF c \in DOMAIN tab[t].sets THEN tab[t].sets[c] ELSE jar[c]
  /\ \A u \in Tabs \ {t} : IF Outdates(t) THEN Marked(u) ELSE tab'[u] = tab[u]

\* Receive.
Receives(t) ==
  /\ tab' \in [Tabs -> TabType] /\ TakesIn(t) /\ Rests(t)
  /\ tab[t].pc = "answered"
  /\ IF tab[t].page
       THEN /\ tab'[t].form = tab[t].token
            /\ tab'[t].stale = (tab[t].crossed /\ "csrf" \notin DOMAIN tab[t].sets)
       ELSE SamePage(t)
  /\ shown' \in [1 .. MaxTime -> SUBSET Versions]
  /\ \A s \in 1 .. MaxTime :
       shown'[s] = IF tab[t].page /\ "seen" \in DOMAIN tab[t].sets /\ tab[t].sets.seen = s
                     THEN tab[t].rows ELSE shown[s]
  /\ Grows

\* Cut, of an answer of which the header has arrived.
CutShort(t) ==
  /\ tab' \in [Tabs -> TabType] /\ TakesIn(t) /\ Rests(t)
  /\ tab[t].pc \in {"answered", "refused"}
  /\ tab'[t].form = tab[t].form
  /\ tab'[t].stale = (Outdates(t) \/ tab[t].stale)
  /\ Grows /\ UNCHANGED shown

\* SeeRefusal.
Reloads(t) ==
  /\ OneTab(t) /\ Rests(t) /\ tab'[t].form = Never
  /\ Grows /\ UNCHANGED <<jar, shown>>

\* CookieExpires.
Expires(c) ==
  /\ tab' \in [Tabs -> TabType]
  /\ jar' \in CookieType
  /\ \A d \in CookieNames : jar'[d] = IF d = c THEN Never ELSE jar[d]
  /\ \A u \in Tabs : IF c = "csrf" THEN Marked(u) ELSE tab'[u] = tab[u]
  /\ Grows /\ UNCHANGED shown

\* Cut, of an answer that is lost, and the end of the process: some tabs stay as they were.
Losts ==
  /\ tab' \in [Tabs -> TabType]
  /\ \A u \in Tabs : tab'[u] = tab[u] \/ (Rests(u) /\ SamePage(u))
  /\ Grows /\ UNCHANGED <<jar, shown>>

GuestEffect ==
  \/ Elsewhere \/ Losts
  \/ \E t \in Tabs : \/ Asks(t) \/ Lists(t) \/ Replies(t) \/ Displays(t) \/ Refuses(t)
                     \/ Receives(t) \/ CutShort(t) \/ Reloads(t)
  \/ \E c \in CookieNames : Expires(c)

-----------------------------------------------------------------------------
(* The cookies and the tabs that the actions build.                        *)

\* What an answer may set.
LEMMA SetsFit ==
  /\ << >> \in SetsType /\ DOMAIN << >> = {}
  /\ \A n \in Nat : [seen |-> n] \in SetsType /\ DOMAIN [seen |-> n] = {"seen"}
  /\ \A n \in Nat : [nick |-> n] \in SetsType /\ DOMAIN [nick |-> n] = {"nick"}
  /\ \A n, m \in Nat : /\ [code |-> n, nick |-> m] \in SetsType
                       /\ DOMAIN [code |-> n, nick |-> m] = {"code", "nick"}
  /\ \A n, m, k \in Nat : /\ [code |-> n, nick |-> m, seen |-> k] \in SetsType
                          /\ DOMAIN [code |-> n, nick |-> m, seen |-> k] = {"code", "nick", "seen"}
<1>1. << >> \in [{} -> Nat]
  OBVIOUS
<1>2. ASSUME NEW n \in Nat PROVE [seen |-> n] \in [{"seen"} -> Nat]
  OBVIOUS
<1>3. ASSUME NEW n \in Nat PROVE [nick |-> n] \in [{"nick"} -> Nat]
  OBVIOUS
<1>4. ASSUME NEW n \in Nat, NEW m \in Nat
      PROVE  [code |-> n, nick |-> m] \in [{"code", "nick"} -> Nat]
  OBVIOUS
<1>5. ASSUME NEW n \in Nat, NEW m \in Nat, NEW k \in Nat
      PROVE  [code |-> n, nick |-> m, seen |-> k] \in [{"code", "nick", "seen"} -> Nat]
  OBVIOUS
<1>6. ASSUME NEW D \in SUBSET CookieNames, NEW s \in [D -> Nat] PROVE s \in SetsType /\ DOMAIN s = D
  BY DEF SetsType
<1>7. << >> \in SetsType /\ DOMAIN << >> = {}
  BY <1>1, <1>6
<1>8. \A n \in Nat : [seen |-> n] \in SetsType /\ DOMAIN [seen |-> n] = {"seen"}
  BY <1>2, <1>6 DEF CookieNames
<1>9. \A n \in Nat : [nick |-> n] \in SetsType /\ DOMAIN [nick |-> n] = {"nick"}
  BY <1>3, <1>6 DEF CookieNames
<1>10. \A n, m \in Nat : /\ [code |-> n, nick |-> m] \in SetsType
                         /\ DOMAIN [code |-> n, nick |-> m] = {"code", "nick"}
  BY <1>4, <1>6 DEF CookieNames
<1>11. \A n, m, k \in Nat :
         /\ [code |-> n, nick |-> m, seen |-> k] \in SetsType
         /\ DOMAIN [code |-> n, nick |-> m, seen |-> k] = {"code", "nick", "seen"}
  BY <1>5, <1>6 DEF CookieNames
<1>. QED
  BY <1>7, <1>8, <1>9, <1>10, <1>11

\* The cookie of the form token is added.
LEMMA TokenAdded ==
  ASSUME NEW s \in SetsType, NEW n \in Nat,
         NEW h, h = [c \in DOMAIN s \cup {"csrf"} |-> IF c = "csrf" THEN n ELSE s[c]]
  PROVE  /\ h \in SetsType /\ DOMAIN h = DOMAIN s \cup {"csrf"} /\ h.csrf = n
         /\ \A c \in DOMAIN s \ {"csrf"} : h[c] = s[c]
<1>1. PICK D \in SUBSET CookieNames : s \in [D -> Nat]
  BY DEF SetsType
<1>2. h \in [D \cup {"csrf"} -> Nat]
  BY <1>1
<1>3. h \in SetsType
  BY <1>2 DEF SetsType, CookieNames
<1>. QED
  BY <1>3

\* A tab that has asked for nothing yet.
LEMMA NewTabFits ==
  /\ NewTab \in TabType /\ NoCookies \in CookieType
  /\ NewTab.pc = "idle" /\ NewTab.sent = NoCookies /\ NewTab.sets = << >>
  /\ NewTab.page = FALSE /\ NewTab.form = Never /\ NewTab.stale = FALSE /\ NewTab.crossed = FALSE
<1>1. NoCookies \in CookieType
  BY DEF NoCookies, CookieType, CookieNames, Never
<1>2. PICK b \in BOOLEAN, e \in SetsType, z \in SUBSET Versions : b = FALSE /\ e = << >> /\ z = {}
  <2>1. FALSE \in BOOLEAN /\ << >> \in SetsType /\ {} \in SUBSET Versions
    BY SetsFit
  <2>. QED
    BY <2>1, Zenon
<1>3. PICK h : h = [pc |-> "idle", route |-> "library", sent |-> NoCookies, code |-> 0, rows |-> z,
                    sets |-> e, page |-> b, token |-> 0, form |-> 0, stale |-> b, crossed |-> b]
  OBVIOUS
<1>4. NewTab = h
  BY <1>2, <1>3 DEF NewTab, Never
<1>5. [pc |-> "idle", route |-> "library", sent |-> NoCookies, code |-> 0, rows |-> z,
       sets |-> e, page |-> b, token |-> 0, form |-> 0, stale |-> b, crossed |-> b] \in TabType
  BY <1>1 DEF TabType, Routes
<1>6. /\ h.pc = "idle" /\ h.sent = NoCookies /\ h.sets = e /\ h.page = b /\ h.form = 0
      /\ h.stale = b /\ h.crossed = b
  BY ONLY <1>3
<1>. QED
  BY <1>1, <1>2, <1>3, <1>4, <1>5, <1>6 DEF Never

\* A tab that goes on with a page.
LEMMA RestsFits ==
  ASSUME NEW f \in Nat, NEW b \in BOOLEAN
  PROVE  \E h \in TabType :
           /\ h = [NewTab EXCEPT !.form = f, !.stale = b]
           /\ h.pc = "idle" /\ h.page = FALSE /\ h.sets = << >>
           /\ DOMAIN h.sets = {} /\ h.crossed = FALSE /\ h.sent = NoCookies
           /\ h.form = f /\ h.stale = b
<1>1. PICK g \in TabType : g = NewTab
  BY NewTabFits
<1>2. PICK h : h = [g EXCEPT !.form = f, !.stale = b]
  OBVIOUS
<1>3. h \in TabType
  BY ONLY <1>2, g \in TabType, f \in Nat, b \in BOOLEAN DEF TabType
<1>4. /\ h.pc = g.pc /\ h.page = g.page /\ h.sets = g.sets /\ h.crossed = g.crossed
      /\ h.sent = g.sent /\ h.form = f /\ h.stale = b
  BY ONLY <1>2, g \in TabType DEF TabType
<1>5. h = [NewTab EXCEPT !.form = f, !.stale = b]
  BY <1>1, <1>2
<1>. QED
  BY <1>1, <1>3, <1>4, <1>5, NewTabFits, SetsFit

\* A tab that is marked.
LEMMA MarkFits ==
  ASSUME NEW g \in TabType
  PROVE  \E h \in TabType :
           /\ h = [g EXCEPT !.stale = TRUE, !.crossed = TRUE]
           /\ h.stale /\ h.crossed
           /\ h.pc = g.pc /\ h.route = g.route /\ h.sent = g.sent /\ h.rows = g.rows
           /\ h.sets = g.sets /\ h.page = g.page /\ h.token = g.token /\ h.form = g.form
<1>1. PICK b \in BOOLEAN : b = TRUE
  OBVIOUS
<1>2. PICK h : h = [g EXCEPT !.stale = b, !.crossed = b]
  OBVIOUS
<1>3. h \in TabType
  BY ONLY <1>2, g \in TabType, b \in BOOLEAN DEF TabType
<1>4. /\ h.stale = b /\ h.crossed = b
      /\ h.pc = g.pc /\ h.route = g.route /\ h.sent = g.sent /\ h.rows = g.rows
      /\ h.sets = g.sets /\ h.page = g.page /\ h.token = g.token /\ h.form = g.form
  BY ONLY <1>2, g \in TabType DEF TabType
<1>5. h = [g EXCEPT !.stale = TRUE, !.crossed = TRUE]
  BY <1>1, <1>2
<1>. QED
  BY <1>1, <1>3, <1>4, <1>5

-----------------------------------------------------------------------------
(* Each action has its effect.                                             *)

\* Steps that leave the hub alone, but for the clock and the tokens.
LEMMA SameGrows ==
  ASSUME GuestTypes, Bounds, UNCHANGED hubSide,
         time' = time \/ (time < visit.times /\ time' = time + 1),
         tokens' \in Nat, tokens' >= tokens, tokens' <= visit.tokens,
         faults' = faults \/ (faults < visit.faults /\ faults' = faults + 1)
  PROVE  Grows
<1>1. /\ visit.times \in Nat /\ visit.times <= MaxTime /\ MaxTime \in Nat
      /\ visit.codes \in Nat /\ visit.tokens \in Nat /\ visit.faults \in Nat
  BY GuestAssumption DEF GuestTypes
<1>2. /\ code \in Nat /\ codes \in Nat /\ time \in Nat /\ tokens \in Nat /\ faults \in Nat
      /\ tree \in [Files -> Nat] /\ saving \in [Files -> Nat]
      /\ \A f \in Files : tree[f] \in Nat /\ saving[f] \in Nat
  BY DEF GuestTypes
<1>3. /\ code <= codes /\ codes <= visit.codes /\ tokens <= visit.tokens /\ time <= MaxTime
      /\ faults <= visit.faults /\ \A f \in Files : tree[f] <= time /\ saving[f] <= time
  BY DEF Bounds
<1>4. /\ visit' = visit /\ code' = code /\ codes' = codes /\ tree' = tree /\ saving' = saving
  BY DEF hubSide
<1>5. time' \in Nat /\ time' >= time /\ time' <= MaxTime
  BY <1>1, <1>2, <1>3
<1>6. faults' \in Nat /\ faults' <= visit.faults
  BY <1>1, <1>2, <1>3
<1>7. \A f \in Files : tree'[f] <= time' /\ saving'[f] <= time'
  BY <1>2, <1>3, <1>4, <1>5
<1>. QED
  BY <1>2, <1>3, <1>4, <1>5, <1>6, <1>7 DEF Grows

\* The administrator switches, a save writes, renames, or deletes.
LEMMA SwitchIsElsewhere ==
  ASSUME GuestTypes, Bounds, HubSwitches
  PROVE  Elsewhere
<1>1. /\ visit.times \in Nat /\ visit.times <= MaxTime /\ MaxTime \in Nat
      /\ visit.codes \in Nat /\ visit.tokens \in Nat /\ visit.faults \in Nat
      /\ visit.files \subseteq Files
  BY GuestAssumption DEF GuestTypes
<1>2. /\ code \in Nat /\ codes \in Nat /\ time \in Nat /\ tokens \in Nat /\ faults \in Nat
      /\ tree \in [Files -> Nat] /\ saving \in [Files -> Nat]
      /\ \A f \in Files : tree[f] \in Nat /\ saving[f] \in Nat
  BY DEF GuestTypes
<1>3. /\ code <= codes /\ codes <= visit.codes /\ tokens <= visit.tokens /\ time <= MaxTime
      /\ faults <= visit.faults /\ \A f \in Files : tree[f] <= time /\ saving[f] <= time
  BY DEF Bounds
<1>4. CASE SwitchOn \/ SwitchOff
  BY <1>1, <1>2, <1>3, <1>4 DEF SwitchOn, SwitchOff, Elsewhere, Grows, Never
<1>5. ASSUME NEW f \in Files, WritePartial(f) PROVE Elsewhere
  <2>1. time' = time + 1 /\ time' \in Nat /\ time' <= MaxTime
    BY <1>1, <1>2, <1>5 DEF WritePartial
  <2>2. saving' \in [Files -> Nat] /\ \A g \in Files : tree[g] <= time' /\ saving'[g] <= time'
    BY <1>2, <1>3, <1>5, <2>1 DEF WritePartial
  <2>. QED
    BY <1>2, <1>3, <1>5, <2>1, <2>2 DEF WritePartial, Elsewhere, Grows
<1>6. ASSUME NEW f \in Files, Publish(f) \/ DeleteFile(f) PROVE Elsewhere
  <2>1. /\ tree' \in [Files -> Nat] /\ saving' \in [Files -> Nat]
        /\ \A g \in Files : tree'[g] <= time /\ saving'[g] <= time
    BY <1>2, <1>3, <1>6 DEF Publish, DeleteFile, Never
  <2>. QED
    BY <1>2, <1>3, <1>6, <2>1 DEF Publish, DeleteFile, Elsewhere, Grows
<1>. QED
  BY <1>1, <1>4, <1>5, <1>6 DEF HubSwitches

\* A tab asks, with the cookies of the jar.
LEMMA AskIsAsks ==
  ASSUME GuestTypes, Bounds, NEW t \in Tabs, NEW route \in Routes, NEW c \in 0 .. codes,
         Ask(t, route, c)
  PROVE  Asks(t)
<1>1. PICK g \in TabType : g = NewTab
  BY NewTabFits
<1>2. PICK o \in TabType : o = tab[t]
  BY DEF GuestTypes
<1>3. o.form \in Nat /\ o.stale \in BOOLEAN /\ jar \in CookieType /\ c \in Nat
  BY DEF TabType, GuestTypes
<1>4. PICK f \in Nat, b \in BOOLEAN, j \in CookieType : f = o.form /\ b = o.stale /\ j = jar
  BY <1>3
<1>5. PICK h : h = [g EXCEPT !.pc = "asked", !.route = route, !.sent = j, !.code = c, !.form = f,
                             !.stale = b]
  OBVIOUS
<1>6. tab' = [tab EXCEPT ![t] = h] /\ tab \in [Tabs -> TabType]
  BY <1>1, <1>2, <1>4, <1>5 DEF Ask, GuestTypes
<1>7. h \in TabType
  BY ONLY <1>3, <1>5, g \in TabType, f \in Nat, b \in BOOLEAN, j \in CookieType,
     route \in Routes DEF TabType
<1>8. /\ h.pc = "asked" /\ h.route = route /\ h.sent = j /\ h.form = f /\ h.stale = b
      /\ h.crossed = g.crossed /\ h.page = g.page /\ h.sets = g.sets
  BY ONLY <1>5, g \in TabType DEF TabType
<1>9. tab'[t] = h /\ OneTab(t)
  BY <1>6, <1>7 DEF OneTab
<1>10. ~h.crossed /\ ~h.page /\ DOMAIN h.sets = {}
  BY <1>1, <1>8, NewTabFits, SetsFit
<1>11. Grows
  BY SameGrows DEF Ask, Bounds, GuestTypes
<1>. QED
  BY <1>2, <1>4, <1>8, <1>9, <1>10, <1>11 DEF Asks, SamePage, Ask

\* The files are listed: no version is younger than now.
LEMMA ListIsLists ==
  ASSUME GuestTypes, Bounds, NEW t \in Tabs, ListFiles(t)
  PROVE  Lists(t)
<1>1. PICK g \in TabType : g = tab[t]
  BY DEF GuestTypes
<1>2. PICK r : r = {<<f, tree[f]>> : f \in {g1 \in Files : tree[g1] # Never}}
  OBVIOUS
<1>3. r \in SUBSET Versions /\ NotBefore(r, time)
  BY <1>2 DEF Versions, NotBefore, GuestTypes, Bounds
<1>4. PICK h : h = [g EXCEPT !.pc = "listed", !.rows = r]
  OBVIOUS
<1>5. h \in TabType
  BY ONLY <1>3, <1>4, g \in TabType DEF TabType
<1>6. /\ h.pc = "listed" /\ h.rows = r /\ h.sent = g.sent /\ h.form = g.form /\ h.stale = g.stale
      /\ h.crossed = g.crossed /\ h.sets = g.sets /\ h.page = g.page
  BY ONLY <1>4, g \in TabType DEF TabType
<1>7. tab' = [tab EXCEPT ![t] = h] /\ tab \in [Tabs -> TabType] /\ g.pc = "asked"
  BY <1>1, <1>2, <1>4 DEF ListFiles, Enters, GuestTypes
<1>8. tab'[t] = h /\ OneTab(t)
  BY <1>5, <1>7 DEF OneTab
<1>9. Grows
  BY SameGrows DEF ListFiles, GuestTypes, Bounds
<1>. QED
  BY <1>1, <1>3, <1>6, <1>7, <1>8, <1>9 DEF Lists, SameRequest, SamePage, SameAnswer, ListFiles

\* An answer without a page.
LEMMA AnswerIsReplies ==
  ASSUME GuestTypes, Bounds, NEW t \in Tabs, NEW s \in SetsType, tab[t].pc \in {"asked", "listed"},
         tab' = [tab EXCEPT ![t].pc = "answered", ![t].sets = s],
         "csrf" \notin DOMAIN s, Given(s, codes', time', tokens'), Grows, UNCHANGED <<jar, shown>>
  PROVE  Replies(t)
<1>1. PICK g \in TabType : g = tab[t]
  BY DEF GuestTypes
<1>2. PICK h : h = [g EXCEPT !.pc = "answered", !.sets = s]
  OBVIOUS
<1>3. h \in TabType
  BY ONLY <1>2, g \in TabType, s \in SetsType DEF TabType
<1>4. /\ h.pc = "answered" /\ h.sets = s /\ h.sent = g.sent /\ h.form = g.form
      /\ h.stale = g.stale /\ h.crossed = g.crossed /\ h.page = g.page
  BY ONLY <1>2, g \in TabType DEF TabType
<1>5. tab' = [tab EXCEPT ![t] = h] /\ tab \in [Tabs -> TabType]
  BY <1>1, <1>2 DEF GuestTypes
<1>6. tab'[t] = h /\ OneTab(t)
  BY <1>3, <1>5 DEF OneTab
<1>. QED
  BY <1>1, <1>4, <1>6 DEF Replies, SameRequest, SamePage

\* The handlers that answer without a page: redirects, errors, and "not found".
LEMMA HandlersReply ==
  ASSUME GuestTypes, Bounds, NEW t \in Tabs,
         \/ Join(t) \/ Unlock(t) \/ SetName(t) \/ LeaveLibrary(t) \/ ChatUnread(t)
         \/ Enters(t, "library") /\ Answers(t, << >>)
  PROVE  Replies(t)
<1>1. /\ code \in Nat /\ codes \in Nat /\ time \in Nat /\ tokens \in Nat /\ faults \in Nat
      /\ code <= codes /\ time <= MaxTime /\ tokens <= visit.tokens /\ codes <= visit.codes
  BY DEF GuestTypes, Bounds
<1>2. ASSUME NEW s \in SetsType, Answers(t, s), tab[t].pc = "asked", "csrf" \notin DOMAIN s,
             Given(s, codes, time, tokens)
      PROVE  Replies(t)
  <2>1. Grows
    BY <1>1, <1>2, SameGrows DEF Answers
  <2>2. Given(s, codes', time', tokens')
    BY <1>2 DEF Answers, hubSide
  <2>. QED
    BY <1>2, <2>1, <2>2, AnswerIsReplies DEF Answers
<1>3. CASE Enters(t, "library") /\ Answers(t, << >>)
  BY <1>2, <1>3, SetsFit DEF Given, Enters
<1>4. ASSUME Join(t) PROVE Replies(t)
  <2>1. CASE Answers(t, << >>)
    BY <1>2, <1>4, <2>1, SetsFit DEF Given, Enters, Join
  <2>2. CASE Answers(t, [code |-> code, nick |-> 0])
    <3>1. PICK s \in SetsType : s = [code |-> code, nick |-> 0] /\ DOMAIN s = {"code", "nick"}
      BY <1>1, SetsFit
    <3>2. s.code = code /\ s.nick = 0
      BY <3>1
    <3>. QED
      BY <1>1, <1>2, <1>4, <2>2, <3>1, <3>2 DEF Given, Enters, Join
  <2>. QED
    BY <1>4, <2>1, <2>2 DEF Join, Never
<1>5. ASSUME Unlock(t) PROVE Replies(t)
  <2>1. CASE Answers(t, << >>)
    BY <1>2, <1>5, <2>1, SetsFit DEF Given, Enters, Unlock
  <2>2. CASE Answers(t, [code |-> code, nick |-> 1])
    <3>1. PICK s \in SetsType : s = [code |-> code, nick |-> 1] /\ DOMAIN s = {"code", "nick"}
      BY <1>1, SetsFit
    <3>2. s.code = code /\ s.nick = 1
      BY <3>1
    <3>. QED
      BY <1>1, <1>2, <1>5, <2>2, <3>1, <3>2 DEF Given, Enters, Unlock
  <2>. QED
    BY <1>5, <2>1, <2>2 DEF Unlock
<1>6. ASSUME SetName(t) PROVE Replies(t)
  <2>1. CASE Answers(t, << >>)
    BY <1>2, <1>6, <2>1, SetsFit DEF Given, Enters, SetName
  <2>2. CASE Answers(t, [nick |-> 1])
    <3>1. PICK s \in SetsType : s = [nick |-> 1] /\ DOMAIN s = {"nick"}
      BY SetsFit
    <3>2. s.nick = 1
      BY <3>1
    <3>. QED
      BY <1>1, <1>2, <1>6, <2>2, <3>1, <3>2 DEF Given, Enters, SetName
  <2>. QED
    BY <1>6, <2>1, <2>2 DEF SetName
<1>7. ASSUME LeaveLibrary(t) PROVE Replies(t)
  <2>1. PICK s \in SetsType : /\ s = [code |-> 0, nick |-> 0, seen |-> 0]
                              /\ DOMAIN s = {"code", "nick", "seen"}
    BY SetsFit
  <2>2. s.code = 0 /\ s.nick = 0 /\ s.seen = 0
    BY <2>1
  <2>3. Answers(t, s) /\ tab[t].pc = "asked"
    BY <1>7, <2>1 DEF LeaveLibrary, Enters, Never
  <2>. QED
    BY <1>1, <1>2, <2>1, <2>2, <2>3 DEF Given
<1>8. ASSUME ChatUnread(t) PROVE Replies(t)
  <2>1. Grows
    BY <1>1, <1>8, SameGrows DEF ChatUnread
  <2>2. time + 1 \in Nat
    BY <1>1
  <2>3. PICK s \in SetsType : s = [seen |-> time + 1] /\ DOMAIN s = {"seen"}
    BY <2>2, SetsFit
  <2>4. s.seen = time + 1
    BY <2>3
  <2>5. Given(s, codes', time', tokens')
    BY <1>1, <1>8, <2>3, <2>4 DEF Given, ChatUnread
  <2>. QED
    BY <1>8, <2>1, <2>3, <2>5, AnswerIsReplies DEF ChatUnread
<1>. QED
  BY <1>3, <1>4, <1>5, <1>6, <1>7, <1>8

\* A page, with the token of the request or with a new one.
LEMMA RenderIsDisplays ==
  ASSUME GuestTypes, Bounds, NEW t \in Tabs, NEW s \in SetsType, NEW rows \in SUBSET Versions,
         tab[t].pc \in {"asked", "listed"}, Renders(t, rows, s), "csrf" \notin DOMAIN s,
         time' = time \/ (time < visit.times /\ time' = time + 1), faults' = faults,
         Given(s, codes, time', tokens'),
         "seen" \in DOMAIN s => /\ tab[t].pc = "listed" /\ rows = tab[t].rows
                                /\ s.seen = time + 1 /\ time' = time + 1
  PROVE  Displays(t)
<1>1. PICK g \in TabType : g = tab[t]
  BY DEF GuestTypes
<1>2. g.sent \in CookieType /\ g.sent.csrf \in Nat /\ g.sent.csrf <= tokens /\ tokens \in Nat
      /\ visit.tokens \in Nat
  BY <1>1, GuestAssumption DEF TabType, CookieType, CookieNames, GuestTypes, Bounds, Held
<1>3. PICK n \in Nat : n = FormToken(t)
  BY <1>1, <1>2 DEF FormToken
<1>4. IF g.sent.csrf = 0 THEN n = tokens + 1 ELSE n = g.sent.csrf
  BY <1>1, <1>3 DEF FormToken, Never
<1>5. PICK w \in SetsType :
        /\ w = IF n = g.sent.csrf THEN s
               ELSE [c \in DOMAIN s \cup {"csrf"} |-> IF c = "csrf" THEN n ELSE s[c]]
        /\ IF n = g.sent.csrf THEN w = s
           ELSE DOMAIN w = DOMAIN s \cup {"csrf"} /\ w.csrf = n /\ \A c \in DOMAIN s : w[c] = s[c]
  <2>1. PICK k : k = [c \in DOMAIN s \cup {"csrf"} |-> IF c = "csrf" THEN n ELSE s[c]]
    OBVIOUS
  <2>2. /\ k \in SetsType /\ DOMAIN k = DOMAIN s \cup {"csrf"} /\ k.csrf = n
        /\ \A c \in DOMAIN s \ {"csrf"} : k[c] = s[c]
    BY <2>1, TokenAdded
  <2>. QED
    BY <2>1, <2>2
<1>6. PICK b \in BOOLEAN : b = TRUE
  OBVIOUS
<1>7. PICK h : h = [g EXCEPT !.pc = "answered", !.page = b, !.rows = rows, !.token = n, !.sets = w]
  OBVIOUS
<1>8. h \in TabType
  BY ONLY <1>7, g \in TabType, b \in BOOLEAN, rows \in SUBSET Versions, n \in Nat, w \in SetsType
  DEF TabType
<1>9. /\ h.pc = "answered" /\ h.page = b /\ h.rows = rows /\ h.token = n /\ h.sets = w
      /\ h.sent = g.sent /\ h.form = g.form /\ h.stale = g.stale /\ h.crossed = g.crossed
  BY ONLY <1>7, g \in TabType DEF TabType
<1>10. tab' = [tab EXCEPT ![t] = h] /\ tab \in [Tabs -> TabType]
  BY <1>1, <1>3, <1>5, <1>6, <1>7 DEF Renders, GuestTypes
<1>11. tab'[t] = h /\ OneTab(t)
  BY <1>8, <1>10 DEF OneTab
<1>12. tokens' = (IF n > tokens THEN n ELSE tokens) /\ n <= visit.tokens /\ UNCHANGED hubSide
  BY <1>3 DEF Renders
<1>13. tokens' \in Nat /\ tokens' >= tokens /\ tokens' <= visit.tokens /\ n <= tokens'
  BY <1>2, <1>12 DEF Bounds
<1>14. Grows
  BY <1>12, <1>13, SameGrows
<1>15. "code" \in DOMAIN w => "code" \in DOMAIN s /\ w.code = s.code
  BY <1>5
<1>16. "nick" \in DOMAIN w => "nick" \in DOMAIN s /\ w.nick = s.nick
  BY <1>5
<1>17. "seen" \in DOMAIN w => "seen" \in DOMAIN s /\ w.seen = s.seen
  BY <1>5
<1>18. "csrf" \in DOMAIN w => w.csrf = n
  BY <1>5
<1>19. codes' = codes
  BY <1>12 DEF hubSide
<1>20. Given(w, codes', time', tokens')
  BY <1>13, <1>15, <1>16, <1>17, <1>18, <1>19 DEF Given
<1>21. IF g.sent.csrf = 0 THEN "csrf" \in DOMAIN w /\ n = w.csrf
       ELSE "csrf" \notin DOMAIN w /\ n = g.sent.csrf
  BY <1>2, <1>4, <1>5
<1>22. UNCHANGED <<jar, shown>>
  BY DEF Renders
<1>. QED
  BY <1>1, <1>6, <1>9, <1>11, <1>14, <1>17, <1>20, <1>21, <1>22
  DEF Displays, SameRequest, SamePage, Never

\* The forms for a stranger, and the list.
LEMMA PagesAreDisplays ==
  ASSUME GuestTypes, Bounds, NEW t \in Tabs, GreetStranger(t) \/ StampList(t)
  PROVE  Displays(t) \/ Replies(t)
<1>1. /\ code \in Nat /\ codes \in Nat /\ time \in Nat
  BY DEF GuestTypes
<1>2. ASSUME Enters(t, "library"), Renders(t, {}, << >>), UNCHANGED <<time, faults>>
      PROVE  Displays(t)
  <2>1. PICK s \in SetsType, z \in SUBSET Versions : s = << >> /\ z = {} /\ DOMAIN s = {}
    <3>1. << >> \in SetsType /\ {} \in SUBSET Versions /\ DOMAIN << >> = {}
      BY SetsFit
    <3>. QED
      BY <3>1, Zenon
  <2>2. Renders(t, z, s)
    BY <1>2, <2>1, Zenon
  <2>3. Given(s, codes, time', tokens') /\ "seen" \notin DOMAIN s /\ "csrf" \notin DOMAIN s
    BY <2>1 DEF Given
  <2>4. tab[t].pc = "asked"
    BY <1>2 DEF Enters
  <2>. QED
    BY <1>2, <2>2, <2>3, <2>4, RenderIsDisplays
<1>3. ASSUME StampList(t) PROVE Displays(t)
  <2>1. time + 1 \in Nat
    BY <1>1
  <2>2. PICK s \in SetsType : s = [seen |-> time + 1] /\ DOMAIN s = {"seen"}
    BY <2>1, SetsFit
  <2>3. s.seen = time + 1
    BY <2>2
  <2>4. tab[t].rows \in SUBSET Versions
    BY DEF GuestTypes, TabType
  <2>5. Renders(t, tab[t].rows, s)
    BY <1>3, <2>2 DEF StampList
  <2>6. /\ tab[t].pc = "listed" /\ time < visit.times /\ time' = time + 1 /\ faults' = faults
    BY <1>3 DEF StampList
  <2>7. Given(s, codes, time', tokens') /\ "csrf" \notin DOMAIN s
    BY <1>1, <2>2, <2>3, <2>6 DEF Given
  <2>. QED
    BY <2>3, <2>4, <2>5, <2>6, <2>7, RenderIsDisplays
<1>. QED
  BY <1>2, <1>3, HandlersReply DEF GreetStranger

\* A form is refused.
LEMMA RefuseIsRefuses ==
  ASSUME GuestTypes, Bounds, NEW t \in Tabs, RefuseForm(t)
  PROVE  Refuses(t)
<1>1. PICK g \in TabType : g = tab[t]
  BY DEF GuestTypes
<1>2. PICK h : h = [g EXCEPT !.pc = "refused"]
  OBVIOUS
<1>3. h \in TabType
  BY ONLY <1>2, g \in TabType DEF TabType
<1>4. /\ h.pc = "refused" /\ h.sets = g.sets /\ h.sent = g.sent /\ h.form = g.form
      /\ h.stale = g.stale /\ h.crossed = g.crossed /\ h.page = g.page
  BY ONLY <1>2, g \in TabType DEF TabType
<1>5. tab' = [tab EXCEPT ![t] = h] /\ tab \in [Tabs -> TabType]
  BY <1>1, <1>2 DEF GuestTypes, RefuseForm
<1>6. tab'[t] = h /\ OneTab(t)
  BY <1>3, <1>5 DEF OneTab
<1>7. Grows
  BY SameGrows DEF RefuseForm, GuestTypes, Bounds
<1>. QED
  BY <1>1, <1>4, <1>6, <1>7 DEF Refuses, SameRequest, SamePage, SameAnswer, RefuseForm

-----------------------------------------------------------------------------
(* The browser's side.                                                     *)

\* The tabs of us are marked, and no others.
LEMMA OutdateFits ==
  ASSUME GuestTypes, NEW us \in SUBSET Tabs, NEW o, o = Outdate(us)
  PROVE  /\ o \in [Tabs -> TabType]
         /\ \A u \in Tabs \ us : o[u] = tab[u]
         /\ \A u \in us : /\ o[u].stale /\ o[u].crossed
                          /\ o[u].pc = tab[u].pc /\ o[u].route = tab[u].route
                          /\ o[u].sent = tab[u].sent /\ o[u].rows = tab[u].rows
                          /\ o[u].sets = tab[u].sets /\ o[u].page = tab[u].page
                          /\ o[u].token = tab[u].token /\ o[u].form = tab[u].form
<1>1. \A u \in Tabs : tab[u] \in TabType
  BY DEF GuestTypes
<1>2. o = [u \in Tabs |-> IF u \in us THEN [tab[u] EXCEPT !.stale = TRUE, !.crossed = TRUE]
                          ELSE tab[u]]
  BY DEF Outdate
<1>3. ASSUME NEW u \in us
      PROVE  /\ o[u] \in TabType /\ o[u].stale /\ o[u].crossed
             /\ o[u].pc = tab[u].pc /\ o[u].route = tab[u].route
             /\ o[u].sent = tab[u].sent /\ o[u].rows = tab[u].rows
             /\ o[u].sets = tab[u].sets /\ o[u].page = tab[u].page
             /\ o[u].token = tab[u].token /\ o[u].form = tab[u].form
  <2>1. PICK g \in TabType : g = tab[u]
    BY <1>1
  <2>2. PICK h \in TabType :
          /\ h = [g EXCEPT !.stale = TRUE, !.crossed = TRUE]
          /\ h.stale /\ h.crossed
          /\ h.pc = g.pc /\ h.route = g.route /\ h.sent = g.sent /\ h.rows = g.rows
          /\ h.sets = g.sets /\ h.page = g.page /\ h.token = g.token /\ h.form = g.form
    BY MarkFits
  <2>3. o[u] = h
    BY <1>2, <2>1, <2>2
  <2>. QED
    BY <2>1, <2>2, <2>3
<1>4. \A u \in Tabs \ us : o[u] = tab[u]
  BY <1>2
<1>5. \A u \in Tabs : o[u] \in TabType
  BY <1>1, <1>3, <1>4
<1>. QED
  BY <1>2, <1>3, <1>4, <1>5

\* Tab t goes on with its page.
LEMMA StaysFits ==
  ASSUME NEW o \in [Tabs -> TabType], NEW t \in Tabs, NEW n, n = Stays(o, t)
  PROVE  /\ n \in [Tabs -> TabType]
         /\ \A u \in Tabs \ {t} : n[u] = o[u]
         /\ n[t].pc = "idle" /\ ~n[t].page /\ DOMAIN n[t].sets = {}
         /\ ~n[t].crossed /\ n[t].sent = NoCookies
         /\ n[t].form = o[t].form /\ n[t].stale = o[t].stale
<1>1. o[t].form \in Nat /\ o[t].stale \in BOOLEAN
  BY DEF TabType
<1>2. PICK f \in Nat, b \in BOOLEAN : f = o[t].form /\ b = o[t].stale
  BY <1>1
<1>3. PICK h \in TabType :
        /\ h = [NewTab EXCEPT !.form = f, !.stale = b]
        /\ h.pc = "idle" /\ h.page = FALSE /\ h.sets = << >>
        /\ DOMAIN h.sets = {} /\ h.crossed = FALSE /\ h.sent = NoCookies
        /\ h.form = f /\ h.stale = b
  BY RestsFits
<1>4. n = [o EXCEPT ![t] = h]
  BY <1>2, <1>3 DEF Stays
<1>. QED
  BY <1>2, <1>3, <1>4

\* The cookies that the jar takes.
LEMMA JarTakes ==
  ASSUME GuestTypes, NEW t \in Tabs, TakeCookies(t)
  PROVE  /\ jar' \in CookieType
         /\ \A c \in CookieNames :
              jar'[c] = IF c \in DOMAIN tab[t].sets THEN tab[t].sets[c] ELSE jar[c]
<1>1. jar \in CookieType /\ tab[t].sets \in SetsType
  BY DEF GuestTypes, TabType
<1>2. PICK D \in SUBSET CookieNames : tab[t].sets \in [D -> Nat]
  BY <1>1 DEF SetsType
<1>3. DOMAIN jar = CookieNames /\ \A c \in CookieNames : jar[c] \in Nat
  BY <1>1 DEF CookieType
<1>. QED
  BY <1>2, <1>3 DEF TakeCookies, CookieType

\* The answer arrives.
LEMMA ReceiveIsReceives ==
  ASSUME GuestTypes, Bounds, NEW t \in Tabs, Receive(t)
  PROVE  Receives(t)
<1>1. PICK us \in SUBSET Tabs : us = IF Outdates(t) THEN Tabs \ {t} ELSE {}
  OBVIOUS
<1>2. PICK o : o = Outdate(us)
  OBVIOUS
<1>3. o \in [Tabs -> TabType] /\ \A u \in Tabs \ us : o[u] = tab[u]
  BY <1>2, OutdateFits
<1>4. o[t] = tab[t]
  BY <1>1, <1>3
<1>5. tab' = IF ~tab[t].page THEN Stays(o, t)
             ELSE [o EXCEPT ![t] = [NewTab EXCEPT !.form = tab[t].token,
                     !.stale = tab[t].crossed /\ "csrf" \notin DOMAIN tab[t].sets]]
  BY <1>1, <1>2 DEF Receive
<1>6. /\ tab' \in [Tabs -> TabType] /\ Rests(t) /\ \A u \in Tabs \ {t} : tab'[u] = o[u]
      /\ IF tab[t].page
           THEN /\ tab'[t].form = tab[t].token
                /\ tab'[t].stale = (tab[t].crossed /\ "csrf" \notin DOMAIN tab[t].sets)
           ELSE SamePage(t)
  <2>1. CASE ~tab[t].page
    <3>1. tab' = Stays(o, t)
      BY <1>5, <2>1
    <3>. QED
      BY <1>3, <1>4, <2>1, <3>1, StaysFits DEF Rests, SamePage
  <2>2. CASE tab[t].page
    <3>1. PICK f \in Nat, b \in BOOLEAN :
            f = tab[t].token /\ b = (tab[t].crossed /\ "csrf" \notin DOMAIN tab[t].sets)
      BY DEF GuestTypes, TabType
    <3>2. PICK h \in TabType :
            /\ h = [NewTab EXCEPT !.form = f, !.stale = b]
            /\ h.pc = "idle" /\ h.page = FALSE /\ h.sets = << >>
            /\ DOMAIN h.sets = {} /\ h.crossed = FALSE /\ h.sent = NoCookies
            /\ h.form = f /\ h.stale = b
      BY RestsFits
    <3>3. tab' = [o EXCEPT ![t] = h]
      BY <1>5, <2>2, <3>1, <3>2
    <3>. QED
      BY <1>3, <2>2, <3>1, <3>2, <3>3 DEF Rests
  <2>. QED
    BY <2>1, <2>2
<1>7. \A u \in Tabs \ {t} : IF Outdates(t) THEN Marked(u) ELSE tab'[u] = tab[u]
  <2>1. ASSUME NEW u \in Tabs \ {t}, Outdates(t) PROVE Marked(u)
    <3>1. u \in us
      BY <1>1, <2>1
    <3>. QED
      BY <1>2, <1>6, <3>1, OutdateFits DEF Marked, SameAnswer
  <2>2. ASSUME NEW u \in Tabs \ {t}, ~Outdates(t) PROVE tab'[u] = tab[u]
    BY <1>1, <1>3, <1>6, <2>2
  <2>. QED
    BY <2>1, <2>2
<1>8. TakesIn(t)
  BY <1>7, JarTakes DEF TakesIn, Receive
<1>9. /\ shown' \in [1 .. MaxTime -> SUBSET Versions]
      /\ \A s \in 1 .. MaxTime :
           shown'[s] = IF tab[t].page /\ "seen" \in DOMAIN tab[t].sets /\ tab[t].sets.seen = s
                         THEN tab[t].rows ELSE shown[s]
  <2>1. shown \in [1 .. MaxTime -> SUBSET Versions] /\ tab[t].rows \in SUBSET Versions
    BY DEF GuestTypes, TabType
  <2>. QED
    BY <2>1 DEF Receive
<1>10. Grows
  BY SameGrows DEF Receive, GuestTypes, Bounds
<1>. QED
  BY <1>6, <1>8, <1>9, <1>10 DEF Receives, Receive

\* The answer is cut, or lost.
LEMMA CutIsShortOrLost ==
  ASSUME GuestTypes, Bounds, NEW t \in Tabs, Cut(t)
  PROVE  CutShort(t) \/ Losts
<1>1. Grows
  BY SameGrows DEF Cut, GuestTypes, Bounds
<1>2. tab \in [Tabs -> TabType]
  BY DEF GuestTypes
<1>3. CASE UNCHANGED jar /\ tab' = Stays(tab, t)
  <2>1. tab' \in [Tabs -> TabType] /\ \A u \in Tabs \ {t} : tab'[u] = tab[u]
    BY <1>2, <1>3, StaysFits
  <2>2. Rests(t) /\ SamePage(t)
    BY <1>2, <1>3, StaysFits DEF Rests, SamePage
  <2>. QED
    BY <1>1, <1>3, <2>1, <2>2 DEF Losts, Cut
<1>4. CASE TakeCookies(t) /\ tab' = Stays(Outdate(IF Outdates(t) THEN Tabs ELSE {}), t)
  <2>1. PICK us \in SUBSET Tabs : us = IF Outdates(t) THEN Tabs ELSE {}
    OBVIOUS
  <2>2. PICK o : o = Outdate(us)
    OBVIOUS
  <2>3. o \in [Tabs -> TabType] /\ \A u \in Tabs \ us : o[u] = tab[u]
    BY <2>2, OutdateFits
  <2>4. tab' = Stays(o, t)
    BY <1>4, <2>1, <2>2
  <2>5. /\ tab' \in [Tabs -> TabType] /\ \A u \in Tabs \ {t} : tab'[u] = o[u]
        /\ Rests(t) /\ tab'[t].form = o[t].form /\ tab'[t].stale = o[t].stale
    BY <2>3, <2>4, StaysFits DEF Rests
  <2>6. ASSUME NEW u \in Tabs, Outdates(t)
        PROVE  /\ o[u].stale /\ o[u].form = tab[u].form
               /\ u # t => Marked(u)
    <3>1. u \in us
      BY <2>1, <2>6
    <3>. QED
      BY <2>2, <2>5, <3>1, OutdateFits DEF Marked, SameAnswer
  <2>7. ASSUME NEW u \in Tabs, ~Outdates(t) PROVE o[u] = tab[u]
    BY <2>1, <2>3, <2>7
  <2>8. tab'[t].form = tab[t].form /\ tab'[t].stale = (Outdates(t) \/ tab[t].stale)
    <3>1. CASE Outdates(t)
      <4>1. o[t].stale /\ o[t].stale \in BOOLEAN /\ o[t].form = tab[t].form
        BY <2>3, <2>6, <3>1 DEF TabType
      <4>2. tab'[t].stale = TRUE
        BY <2>5, <4>1
      <4>. QED
        BY <2>5, <3>1, <4>1, <4>2
    <3>2. CASE ~Outdates(t)
      <4>1. o[t] = tab[t] /\ tab[t].stale \in BOOLEAN
        BY <2>7, <3>2 DEF GuestTypes, TabType
      <4>. QED
        BY <2>5, <3>2, <4>1
    <3>. QED
      BY <3>1, <3>2
  <2>9. TakesIn(t)
    BY <1>4, <2>5, <2>6, <2>7, JarTakes DEF TakesIn
  <2>. QED
    BY <1>1, <2>5, <2>8, <2>9 DEF CutShort, Cut
<1>. QED
  BY <1>3, <1>4 DEF Cut

\* The refusal is shown.
LEMMA RefusalIsReloads ==
  ASSUME GuestTypes, Bounds, NEW t \in Tabs, SeeRefusal(t)
  PROVE  Reloads(t)
<1>1. PICK h \in TabType : h = NewTab
  BY NewTabFits
<1>2. tab' = [tab EXCEPT ![t] = h] /\ tab \in [Tabs -> TabType]
  BY <1>1 DEF SeeRefusal, GuestTypes
<1>3. tab'[t] = h /\ OneTab(t)
  BY <1>2 DEF OneTab
<1>4. Rests(t) /\ tab'[t].form = Never
  BY <1>1, <1>3, NewTabFits, SetsFit DEF Rests
<1>5. Grows
  BY SameGrows DEF SeeRefusal, GuestTypes, Bounds
<1>. QED
  BY <1>3, <1>4, <1>5 DEF Reloads, SeeRefusal

\* A cookie expires.
LEMMA ExpiryIsExpires ==
  ASSUME GuestTypes, Bounds, NEW c \in CookieNames, CookieExpires(c)
  PROVE  Expires(c)
<1>1. PICK us \in SUBSET Tabs : us = IF c = "csrf" THEN Tabs ELSE {}
  OBVIOUS
<1>2. tab' = Outdate(us)
  BY <1>1 DEF CookieExpires
<1>3. tab' \in [Tabs -> TabType] /\ \A u \in Tabs \ us : tab'[u] = tab[u]
  BY <1>2, OutdateFits
<1>4. ASSUME NEW u \in Tabs PROVE IF c = "csrf" THEN Marked(u) ELSE tab'[u] = tab[u]
  <2>1. ASSUME u \in us PROVE Marked(u)
    BY <1>2, <2>1, OutdateFits DEF Marked, SameAnswer
  <2>. QED
    BY <1>1, <1>3, <2>1
<1>5. /\ jar' \in CookieType
      /\ \A d \in CookieNames : jar'[d] = IF d = c THEN Never ELSE jar[d]
  BY DEF CookieExpires, GuestTypes, CookieType, Never
<1>6. Grows
  BY SameGrows DEF CookieExpires, GuestTypes, Bounds
<1>. QED
  BY <1>3, <1>4, <1>5, <1>6 DEF Expires, CookieExpires

\* Every step has one of the effects.
LEMMA GuestSteps ==
  ASSUME GuestTypes, Bounds, GuestNext
  PROVE  GuestEffect
<1>1. ASSUME NEW t \in Tabs, NEW route \in Routes, NEW c \in 0 .. codes, Ask(t, route, c)
      PROVE  GuestEffect
  BY <1>1, AskIsAsks DEF GuestEffect
<1>2. CASE HubSwitches
  BY <1>2, SwitchIsElsewhere DEF GuestEffect
<1>3. ASSUME NEW t \in Tabs, Handles(t) PROVE GuestEffect
  <2>1. CASE GreetStranger(t) \/ StampList(t)
    BY <2>1, PagesAreDisplays DEF GuestEffect
  <2>2. CASE ListFiles(t)
    BY <2>2, ListIsLists DEF GuestEffect
  <2>3. CASE Join(t) \/ Unlock(t) \/ SetName(t) \/ LeaveLibrary(t)
    BY <2>3, HandlersReply DEF GuestEffect
  <2>. QED
    BY <1>3, <2>1, <2>2, <2>3 DEF Handles
<1>4. ASSUME NEW t \in Tabs, RefuseForm(t) PROVE GuestEffect
  BY <1>4, RefuseIsRefuses DEF GuestEffect
<1>5. ASSUME NEW t \in Tabs, ChatUnread(t) PROVE GuestEffect
  BY <1>5, HandlersReply DEF GuestEffect
<1>6. CASE GuestBrowses
  <2>1. ASSUME NEW t \in Tabs, Receive(t) \/ Cut(t) \/ SeeRefusal(t) PROVE GuestEffect
    BY <2>1, ReceiveIsReceives, CutIsShortOrLost, RefusalIsReloads DEF GuestEffect
  <2>2. ASSUME NEW c \in DOMAIN jar, CookieExpires(c) PROVE GuestEffect
    <3>1. c \in CookieNames
      BY DEF GuestTypes, CookieType
    <3>. QED
      BY <2>2, <3>1, ExpiryIsExpires DEF GuestEffect
  <2>. QED
    BY <1>6, <2>1, <2>2 DEF GuestBrowses
<1>. QED
  BY <1>1, <1>2, <1>3, <1>4, <1>5, <1>6 DEF GuestNext

-----------------------------------------------------------------------------
(* The effects keep the invariant.                                         *)

\* The first state.
LEMMA GuestInitInv ==
  ASSUME GuestInit
  PROVE  GuestInv
<1>1. visit \in Visits /\ visit.known \in BOOLEAN /\ MaxTime \in Nat
      /\ visit.codes \in Nat /\ visit.tokens \in Nat /\ visit.faults \in Nat
      /\ (visit.known => visit.codes >= 1 /\ visit.tokens >= 1)
  BY GuestAssumption DEF GuestInit
<1>2. PICK one \in Nat : one = IF visit.known THEN 1 ELSE 0
  BY <1>1
<1>3. one <= 1 /\ one <= visit.codes /\ one <= visit.tokens
  BY <1>1, <1>2
<1>4. PICK g \in CookieType : g = NoCookies
  BY NewTabFits
<1>5. PICK j : j = [g EXCEPT !.code = one, !.nick = one, !.csrf = one]
  OBVIOUS
<1>6. j \in CookieType
  BY ONLY <1>5, g \in CookieType, one \in Nat DEF CookieType, CookieNames
<1>7. j.code = one /\ j.nick = one /\ j.csrf = one /\ j.seen = g.seen
  BY ONLY <1>5, g \in CookieType DEF CookieType, CookieNames
<1>8. g.code = 0 /\ g.nick = 0 /\ g.seen = 0 /\ g.csrf = 0
  BY <1>4 DEF NoCookies, Never
<1>9. PICK b \in BOOLEAN : b = NewTab.stale
  BY NewTabFits
<1>10. PICK h \in TabType :
         /\ h = [NewTab EXCEPT !.form = one, !.stale = b]
         /\ h.pc = "idle" /\ h.page = FALSE /\ h.sets = << >>
         /\ DOMAIN h.sets = {} /\ h.crossed = FALSE /\ h.sent = NoCookies
         /\ h.form = one /\ h.stale = b
  BY RestsFits
<1>11. h = [NewTab EXCEPT !.form = one]
  <2>1. PICK n \in TabType : n = NewTab
    BY NewTabFits
  <2>2. [n EXCEPT !.form = one, !.stale = n.stale] = [n EXCEPT !.form = one]
    BY ONLY n \in TabType, one \in Nat DEF TabType
  <2>. QED
    BY <1>9, <1>10, <2>1, <2>2
<1>12. /\ code = one /\ codes = one /\ tokens = one /\ jar = j /\ tab = [t \in Tabs |-> h]
       /\ tree = [f \in Files |-> 0] /\ saving = [f \in Files |-> 0] /\ time = 0 /\ faults = 0
       /\ shown = [s \in 1 .. MaxTime |-> {}]
  BY <1>2, <1>4, <1>5, <1>11 DEF GuestInit, Never
<1>13. GuestTypes
  BY <1>1, <1>6, <1>12 DEF GuestTypes
<1>14. /\ Held(jar)
       /\ \A t \in Tabs : Held(tab[t].sent) /\ Given(tab[t].sets, codes, time, tokens)
  <2>1. /\ j.code <= one /\ j.nick <= 1 /\ j.seen <= 0 /\ j.csrf <= one
        /\ g.code <= one /\ g.nick <= 1 /\ g.seen <= 0 /\ g.csrf <= one
    BY <1>3, <1>7, <1>8
  <2>2. Held(j) /\ Held(g)
    BY <1>12, <2>1 DEF Held
  <2>3. ASSUME NEW t \in Tabs PROVE tab[t].sent = g /\ DOMAIN tab[t].sets = {}
    <3>1. tab[t] = h
      BY <1>12
    <3>. QED
      BY <1>4, <1>10, <3>1
  <2>4. \A t \in Tabs : Given(tab[t].sets, codes, time, tokens)
    BY <2>3 DEF Given
  <2>. QED
    BY <1>12, <2>2, <2>3, <2>4
<1>15. Bounds
  BY <1>1, <1>3, <1>12, <1>14 DEF Bounds
<1>16. Stamps
  BY <1>10, <1>12 DEF Stamps, NotBefore
<1>17. ASSUME NEW t \in Tabs PROVE TokenIsKept(t)
  <2>1. tab[t] = h
    BY <1>12
  <2>. QED
    BY <1>7, <1>10, <1>12, <2>1 DEF TokenIsKept
<1>. QED
  BY <1>13, <1>15, <1>16, <1>17 DEF GuestInv

\* Every effect lets the hub go on within its bounds.
LEMMA EffectsGrow ==
  ASSUME GuestEffect
  PROVE  Grows
BY DEF GuestEffect, Elsewhere, Losts, Asks, Lists, Replies, Displays, Refuses, Receives, CutShort,
       Reloads, Expires

\* The types.
LEMMA TypesKept ==
  ASSUME GuestTypes, GuestEffect
  PROVE  GuestTypes'
<1>1. Grows
  BY EffectsGrow
<1>2. jar' \in CookieType
  BY DEF GuestEffect, Elsewhere, Losts, Asks, Lists, Replies, Displays, Refuses, Receives,
         CutShort, Reloads, Expires, TakesIn, GuestTypes
<1>3. tab' \in [Tabs -> TabType]
  BY DEF GuestEffect, Elsewhere, Losts, Asks, Lists, Replies, Displays, Refuses, Receives,
         CutShort, Reloads, Expires, OneTab, GuestTypes
<1>4. shown' \in [1 .. MaxTime -> SUBSET Versions]
  BY DEF GuestEffect, Elsewhere, Losts, Asks, Lists, Replies, Displays, Refuses, Receives,
         CutShort, Reloads, Expires, GuestTypes
<1>. QED
  BY <1>1, <1>2, <1>3, <1>4 DEF GuestTypes, Grows

\* What has been given out stays given out.
LEMMA BoundsKept ==
  ASSUME GuestTypes, Bounds, GuestEffect
  PROVE  Bounds'
<1>1. Grows
  BY EffectsGrow
<1>2. /\ codes \in Nat /\ time \in Nat /\ tokens \in Nat
      /\ codes' \in Nat /\ time' \in Nat /\ tokens' \in Nat
      /\ codes' >= codes /\ time' >= time /\ tokens' >= tokens
  BY <1>1 DEF GuestTypes, Grows
<1>3. ASSUME NEW j \in CookieType, Held(j)
      PROVE  j.code <= codes' /\ j.nick <= 1 /\ j.seen <= time' /\ j.csrf <= tokens'
  BY <1>2, <1>3 DEF Held, CookieType, CookieNames
<1>4. ASSUME NEW s \in SetsType, Given(s, codes, time, tokens)
      PROVE  Given(s, codes', time', tokens')
  <2>1. \A c \in DOMAIN s : s[c] \in Nat
    BY DEF SetsType
  <2>. QED
    BY <1>2, <1>4, <2>1 DEF Given
<1>5. ASSUME NEW t \in Tabs, TakesIn(t) PROVE Held(jar)'
  <2>1. tab[t].sets \in SetsType /\ Given(tab[t].sets, codes, time, tokens)
    BY DEF GuestTypes, TabType, Bounds
  <2>2. Given(tab[t].sets, codes', time', tokens')
    BY <1>4, <2>1
  <2>3. jar.code <= codes' /\ jar.nick <= 1 /\ jar.seen <= time' /\ jar.csrf <= tokens'
    BY <1>3 DEF GuestTypes, Bounds
  <2>4. jar'.code <= codes' /\ jar'.nick <= 1 /\ jar'.seen <= time' /\ jar'.csrf <= tokens'
    BY <1>5, <2>2, <2>3 DEF TakesIn, CookieNames, Given
  <2>. QED
    BY <2>4 DEF Held
<1>6. ASSUME NEW c \in CookieNames, Expires(c) PROVE Held(jar)'
  <2>1. jar.code <= codes' /\ jar.nick <= 1 /\ jar.seen <= time' /\ jar.csrf <= tokens'
    BY <1>3 DEF GuestTypes, Bounds
  <2>2. jar'.code <= codes' /\ jar'.nick <= 1 /\ jar'.seen <= time' /\ jar'.csrf <= tokens'
    BY <1>2, <1>6, <2>1 DEF Expires, CookieNames, Never
  <2>. QED
    BY <2>2 DEF Held
<1>7. ASSUME jar' = jar PROVE Held(jar)'
  <2>1. jar.code <= codes' /\ jar.nick <= 1 /\ jar.seen <= time' /\ jar.csrf <= tokens'
    BY <1>3 DEF GuestTypes, Bounds
  <2>. QED
    BY <1>7, <2>1 DEF Held
<1>8. Held(jar)'
  BY <1>5, <1>6, <1>7
  DEF GuestEffect, Elsewhere, Losts, Asks, Lists, Replies, Displays, Refuses, Receives, CutShort,
      Reloads
<1>9. ASSUME NEW u \in Tabs
      PROVE  /\ \/ tab'[u].sent = tab[u].sent
                \/ tab'[u].sent = jar
                \/ tab'[u].sent = NoCookies
             /\ \/ tab'[u].sets = tab[u].sets
                \/ DOMAIN tab'[u].sets = {}
                \/ Given(tab'[u].sets, codes', time', tokens')
  BY DEF GuestEffect, Elsewhere, Losts, Asks, Lists, Replies, Displays, Refuses, Receives, CutShort,
         Reloads, Expires, OneTab, SameRequest, SameAnswer, Rests, TakesIn, Marked
<1>10. ASSUME NEW u \in Tabs
       PROVE  (Held(tab[u].sent) /\ Given(tab[u].sets, codes, time, tokens))'
  <2>1. /\ tab[u].sent \in CookieType /\ Held(tab[u].sent) /\ jar \in CookieType /\ Held(jar)
        /\ NoCookies \in CookieType /\ Held(NoCookies)
    BY <1>2, NewTabFits DEF GuestTypes, TabType, Bounds, Held, NoCookies, Never
  <2>2. \E j \in CookieType : Held(j) /\ tab'[u].sent = j
    BY <1>9, <2>1
  <2>3. /\ tab'[u].sent.code <= codes' /\ tab'[u].sent.nick <= 1
        /\ tab'[u].sent.seen <= time' /\ tab'[u].sent.csrf <= tokens'
    BY <1>3, <2>2
  <2>4. tab[u].sets \in SetsType /\ Given(tab[u].sets, codes, time, tokens)
    BY DEF GuestTypes, TabType, Bounds
  <2>5. Given(tab[u].sets, codes', time', tokens')
    BY <1>4, <2>4
  <2>6. Given(tab'[u].sets, codes', time', tokens')
    <3>1. CASE DOMAIN tab'[u].sets = {}
      BY <3>1 DEF Given
    <3>. QED
      BY <1>9, <2>5, <3>1
  <2>. QED
    BY <2>3, <2>6 DEF Held
<1>. QED
  BY <1>1, <1>8, <1>10 DEF Bounds, Grows

\* The stamp is taken after the listing, and the history gets the rows under that stamp.
LEMMA StampsKept ==
  ASSUME GuestTypes, Bounds, Stamps, \A t \in Tabs : TokenIsKept(t), GuestEffect
  PROVE  Stamps'
<1>1. Grows
  BY EffectsGrow
<1>2. time \in Nat /\ time' \in Nat /\ time' >= time /\ time' <= MaxTime /\ MaxTime \in Nat
  BY <1>1, GuestAssumption DEF GuestTypes, Grows
<1>3. ASSUME NEW u \in Tabs, NEW v \in tab[u].rows PROVE v[2] \in Nat
  BY DEF GuestTypes, TabType, Versions
<1>4. \A s \in 1 .. MaxTime : NotBefore(shown'[s], s)
  <2>1. ASSUME NEW t \in Tabs, Receives(t), NEW s \in 1 .. MaxTime PROVE NotBefore(shown'[s], s)
    BY <2>1 DEF Receives, Stamps
  <2>2. CASE shown' = shown
    BY <2>2 DEF Stamps
  <2>. QED
    BY <2>1, <2>2
    DEF GuestEffect, Elsewhere, Losts, Asks, Lists, Replies, Displays, Refuses, CutShort, Reloads,
        Expires
<1>5. ASSUME NEW u \in Tabs, tab'[u].pc = tab[u].pc, tab'[u].rows = tab[u].rows, SameAnswer(u)
      PROVE  /\ tab'[u].pc = "listed" => NotBefore(tab'[u].rows, time')
             /\ tab'[u].page /\ "seen" \in DOMAIN tab'[u].sets =>
                  tab'[u].sets.seen \in 1 .. MaxTime /\ NotBefore(tab'[u].rows, tab'[u].sets.seen)
  <2>1. tab[u].pc = "listed" => NotBefore(tab[u].rows, time')
    BY <1>2, <1>3 DEF Stamps, NotBefore
  <2>. QED
    BY <1>5, <2>1 DEF Stamps, SameAnswer
<1>6. ASSUME NEW u \in Tabs, tab'[u] = tab[u] \/ Marked(u)
      PROVE  /\ tab'[u].pc = "listed" => NotBefore(tab'[u].rows, time')
             /\ tab'[u].page /\ "seen" \in DOMAIN tab'[u].sets =>
                  tab'[u].sets.seen \in 1 .. MaxTime /\ NotBefore(tab'[u].rows, tab'[u].sets.seen)
  BY <1>5, <1>6 DEF Marked, SameAnswer
<1>7. ASSUME NEW u \in Tabs, tab'[u].pc # "listed", ~tab'[u].page
      PROVE  /\ tab'[u].pc = "listed" => NotBefore(tab'[u].rows, time')
             /\ tab'[u].page /\ "seen" \in DOMAIN tab'[u].sets =>
                  tab'[u].sets.seen \in 1 .. MaxTime /\ NotBefore(tab'[u].rows, tab'[u].sets.seen)
  BY <1>7
<1>8. ASSUME NEW t \in Tabs, Displays(t)
      PROVE  /\ tab'[t].pc = "listed" => NotBefore(tab'[t].rows, time')
             /\ tab'[t].page /\ "seen" \in DOMAIN tab'[t].sets =>
                  tab'[t].sets.seen \in 1 .. MaxTime /\ NotBefore(tab'[t].rows, tab'[t].sets.seen)
  <2>1. tab'[t].pc # "listed"
    BY <1>8 DEF Displays
  <2>2. ASSUME "seen" \in DOMAIN tab'[t].sets
        PROVE  tab'[t].sets.seen \in 1 .. MaxTime /\ NotBefore(tab'[t].rows, tab'[t].sets.seen)
    <3>1. tab[t].pc = "listed" /\ tab'[t].rows = tab[t].rows
          /\ tab'[t].sets.seen = time + 1 /\ time' = time + 1
      BY <1>8, <2>2 DEF Displays
    <3>2. NotBefore(tab[t].rows, time + 1)
      BY <1>2, <1>3, <3>1 DEF Stamps, NotBefore
    <3>3. time + 1 \in 1 .. MaxTime
      BY <1>2, <3>1
    <3>. QED
      BY <3>1, <3>2, <3>3
  <2>. QED
    BY <2>1, <2>2
<1>9. ASSUME NEW t \in Tabs, Lists(t)
      PROVE  /\ tab'[t].pc = "listed" => NotBefore(tab'[t].rows, time')
             /\ tab'[t].page /\ "seen" \in DOMAIN tab'[t].sets =>
                  tab'[t].sets.seen \in 1 .. MaxTime /\ NotBefore(tab'[t].rows, tab'[t].sets.seen)
  BY <1>9 DEF Lists, SameAnswer, TokenIsKept
<1>10. ASSUME NEW t \in Tabs,
              \/ Asks(t) \/ Replies(t) \/ Refuses(t) \/ Receives(t) \/ CutShort(t) \/ Reloads(t)
       PROVE  tab'[t].pc # "listed" /\ ~tab'[t].page
  BY <1>10 DEF Asks, Replies, Refuses, Receives, CutShort, Reloads, Rests, SameAnswer, TokenIsKept
<1>11. ASSUME NEW u \in Tabs
       PROVE  /\ tab'[u].pc = "listed" => NotBefore(tab'[u].rows, time')
              /\ tab'[u].page /\ "seen" \in DOMAIN tab'[u].sets =>
                   tab'[u].sets.seen \in 1 .. MaxTime /\ NotBefore(tab'[u].rows, tab'[u].sets.seen)
  <2>1. ASSUME NEW t \in Tabs \ {u},
               \/ Asks(t) \/ Lists(t) \/ Replies(t) \/ Displays(t) \/ Refuses(t)
               \/ Receives(t) \/ CutShort(t) \/ Reloads(t)
        PROVE  tab'[u] = tab[u] \/ Marked(u)
    BY <2>1 DEF Asks, Lists, Replies, Displays, Refuses, Receives, CutShort, Reloads, OneTab,
                TakesIn
  <2>2. CASE Losts
    BY <1>6, <1>7, <2>2 DEF Losts, Rests
  <2>3. CASE Elsewhere
    BY <1>6, <2>3 DEF Elsewhere
  <2>4. ASSUME NEW c \in CookieNames, Expires(c) PROVE tab'[u] = tab[u] \/ Marked(u)
    BY <2>4 DEF Expires
  <2>. QED
    BY <1>6, <1>7, <1>8, <1>9, <1>10, <2>1, <2>2, <2>3, <2>4 DEF GuestEffect
<1>. QED
  BY <1>4, <1>11 DEF Stamps

\* A tab that nothing happens to, under the same token.
LEMMA SameTabKeeps ==
  ASSUME NEW u \in Tabs, TokenIsKept(u), tab'[u] = tab[u], jar'.csrf = jar.csrf
  PROVE  TokenIsKept(u)'
BY DEF TokenIsKept

\* A tab that is marked, whatever the token.
LEMMA MarkedTabKeeps ==
  ASSUME NEW u \in Tabs, TokenIsKept(u), Marked(u)
  PROVE  TokenIsKept(u)'
BY DEF TokenIsKept, Marked, SameAnswer

\* A tab that goes on with its page, under the same token.
LEMMA RestingTabKeeps ==
  ASSUME NEW u \in Tabs, TokenIsKept(u), Rests(u), SamePage(u), jar'.csrf = jar.csrf
  PROVE  TokenIsKept(u)'
BY DEF TokenIsKept, Rests, SamePage

\* The other tabs when an answer is taken in: the token of the jar only changes when they
\* are marked.
LEMMA TakingInKeepsOthers ==
  ASSUME NEW t \in Tabs, NEW u \in Tabs \ {t}, TokenIsKept(t), TokenIsKept(u), TakesIn(t)
  PROVE  TokenIsKept(u)'
<1>1. CASE Outdates(t)
  BY <1>1, MarkedTabKeeps DEF TakesIn
<1>2. CASE ~Outdates(t)
  <2>1. "csrf" \notin DOMAIN tab[t].sets
    BY <1>2 DEF Outdates, TokenIsKept
  <2>2. jar'.csrf = jar.csrf
    BY <2>1 DEF TakesIn, CookieNames
  <2>. QED
    BY <1>2, <2>2, SameTabKeeps DEF TakesIn
<1>. QED
  BY <1>1, <1>2

\* The steps of tab t before the browser has the answer.
LEMMA RequestKeeps ==
  ASSUME GuestTypes, NEW t \in Tabs, TokenIsKept(t),
         Asks(t) \/ Lists(t) \/ Replies(t) \/ Displays(t) \/ Refuses(t) \/ Reloads(t)
  PROVE  TokenIsKept(t)'
<1>1. CASE Asks(t)
  BY <1>1 DEF Asks, SamePage, TokenIsKept
<1>2. CASE Lists(t)
  BY <1>2 DEF Lists, SameRequest, SamePage, SameAnswer, TokenIsKept
<1>3. CASE Replies(t)
  BY <1>3 DEF Replies, SameRequest, SamePage, TokenIsKept
<1>4. CASE Displays(t)
  BY <1>4 DEF Displays, SameRequest, SamePage, TokenIsKept
<1>5. CASE Refuses(t)
  <2>1. tab[t].stale
    BY <1>5 DEF Refuses, TokenMatches, TokenIsKept
  <2>. QED
    BY <1>5, <2>1 DEF Refuses, SameRequest, SamePage, SameAnswer, TokenIsKept
<1>6. CASE Reloads(t)
  BY <1>6 DEF Reloads, Rests, TokenIsKept
<1>. QED
  BY <1>1, <1>2, <1>3, <1>4, <1>5, <1>6

\* The tab whose answer is taken in.
LEMMA TakingInKeeps ==
  ASSUME NEW t \in Tabs, TokenIsKept(t), Receives(t) \/ CutShort(t)
  PROVE  TokenIsKept(t)'
<1>1. TakesIn(t) /\ Rests(t)
  BY DEF Receives, CutShort
<1>2. jar'.csrf = IF "csrf" \in DOMAIN tab[t].sets THEN tab[t].sets.csrf ELSE jar.csrf
  BY <1>1 DEF TakesIn, CookieNames
<1>3. ASSUME tab'[t].form # Never, ~tab'[t].stale PROVE tab'[t].form = jar'.csrf
  <2>1. CASE Receives(t) /\ tab[t].page
    BY <1>2, <1>3, <2>1 DEF Receives, TokenIsKept
  <2>2. CASE Receives(t) /\ ~tab[t].page
    BY <1>2, <1>3, <2>2 DEF Receives, SamePage, TokenIsKept
  <2>3. CASE CutShort(t)
    BY <1>2, <1>3, <2>3 DEF CutShort, Outdates, TokenIsKept
  <2>. QED
    BY <2>1, <2>2, <2>3
<1>. QED
  BY <1>1, <1>3 DEF Rests, TokenIsKept

\* All tabs.
LEMMA TokensKept ==
  ASSUME GuestTypes, \A t \in Tabs : TokenIsKept(t), GuestEffect, NEW u \in Tabs
  PROVE  TokenIsKept(u)'
<1>1. CASE Elsewhere
  BY <1>1, SameTabKeeps DEF Elsewhere
<1>2. CASE Losts
  BY <1>2, SameTabKeeps, RestingTabKeeps DEF Losts
<1>3. ASSUME NEW t \in Tabs,
             Asks(t) \/ Lists(t) \/ Replies(t) \/ Displays(t) \/ Refuses(t) \/ Reloads(t)
      PROVE  TokenIsKept(u)'
  <2>1. CASE t = u
    BY <1>3, <2>1, RequestKeeps
  <2>2. CASE t # u
    BY <1>3, <2>2, SameTabKeeps
    DEF Asks, Lists, Replies, Displays, Refuses, Reloads, OneTab
  <2>. QED
    BY <2>1, <2>2
<1>4. ASSUME NEW t \in Tabs, Receives(t) \/ CutShort(t) PROVE TokenIsKept(u)'
  <2>1. CASE t = u
    BY <1>4, <2>1, TakingInKeeps
  <2>2. CASE t # u
    BY <1>4, <2>2, TakingInKeepsOthers DEF Receives, CutShort
  <2>. QED
    BY <2>1, <2>2
<1>5. ASSUME NEW c \in CookieNames, Expires(c) PROVE TokenIsKept(u)'
  <2>1. CASE c = "csrf"
    BY <1>5, <2>1, MarkedTabKeeps DEF Expires
  <2>2. CASE c # "csrf"
    BY <1>5, <2>2, SameTabKeeps DEF Expires, CookieNames
  <2>. QED
    BY <2>1, <2>2
<1>. QED
  BY <1>1, <1>2, <1>3, <1>4, <1>5 DEF GuestEffect

\* The invariant is kept by every effect, hence by every step.
LEMMA EffectsKeepGuestInv ==
  ASSUME GuestInv, GuestEffect
  PROVE  GuestInv'
BY TypesKept, BoundsKept, StampsKept, TokensKept DEF GuestInv

\* The steps of the guest keep the invariant.
LEMMA GuestStepsKeep ==
  ASSUME GuestInv, [GuestNext]_guestVars
  PROVE  GuestInv'
<1>1. CASE GuestNext
  BY <1>1, GuestSteps, EffectsKeepGuestInv DEF GuestInv
<1>2. CASE UNCHANGED guestVars
  BY <1>2 DEF guestVars, GuestInv, GuestTypes, Bounds, Held, Stamps, NotBefore, TokenIsKept
<1>. QED
  BY <1>1, <1>2

-----------------------------------------------------------------------------
(* The theorems.                                                           *)

\* What the invariant says to a reader.
LEMMA GuestFacts ==
  ASSUME GuestInv
  PROVE  GuestTypeOK /\ HighlightsAreNews /\ FormsAreAccepted
<1>1. MaxTime \in Nat /\ time \in Nat /\ time <= MaxTime
  BY GuestAssumption DEF GuestInv, GuestTypes, Bounds
<1>2. GuestTypeOK
  <2>1. /\ code \in Nat /\ codes \in Nat /\ time \in Nat /\ tokens \in Nat /\ faults \in Nat
        /\ jar.code \in Nat /\ jar.nick \in Nat /\ jar.seen \in Nat /\ jar.csrf \in Nat
    BY DEF GuestInv, GuestTypes, CookieType, CookieNames
  <2>2. visit.codes \in Nat /\ visit.tokens \in Nat /\ visit.faults \in Nat
    BY GuestAssumption DEF GuestInv, GuestTypes
  <2>3. tree \in [Files -> 0 .. time] /\ saving \in [Files -> 0 .. time]
    BY <2>1 DEF GuestInv, GuestTypes, Bounds
  <2>4. /\ jar.code \in 0 .. codes /\ jar.nick \in {Never, 1}
        /\ jar.seen \in 0 .. time /\ jar.csrf \in 0 .. tokens
    BY <2>1 DEF GuestInv, Bounds, Held, Never
  <2>5. /\ code \in 0 .. codes /\ codes \in 0 .. visit.codes /\ time \in 0 .. MaxTime
        /\ tokens \in 0 .. visit.tokens /\ faults \in 0 .. visit.faults
    BY <1>1, <2>1, <2>2 DEF GuestInv, Bounds
  <2>6. \A t \in Tabs : tab[t].pc \in {"idle", "asked", "listed", "answered", "refused"}
    BY DEF GuestInv, GuestTypes, TabType
  <2>. QED
    BY <2>3, <2>4, <2>5, <2>6 DEF GuestTypeOK
<1>3. HighlightsAreNews
  <2>1. SUFFICES ASSUME NEW t \in Tabs, NEW v \in tab[t].rows, IsNew(v, tab[t].sent.seen)
                 PROVE  v \notin shown[tab[t].sent.seen]
    BY DEF HighlightsAreNews
  <2>2. tab[t].sent.seen \in Nat /\ tab[t].sent.seen <= time /\ v[2] \in Nat
    BY DEF GuestInv, GuestTypes, TabType, CookieType, CookieNames, Versions, Bounds, Held
  <2>3. tab[t].sent.seen \in 1 .. MaxTime /\ v[2] > tab[t].sent.seen
    BY <1>1, <2>1, <2>2 DEF IsNew, Never
  <2>. QED
    BY <2>2, <2>3 DEF GuestInv, Stamps, NotBefore
<1>4. FormsAreAccepted
  BY DEF GuestInv, TokenIsKept, FormsAreAccepted
<1>. QED
  BY <1>2, <1>3, <1>4

\* Every behaviour of the guest and the hub keeps the invariant.
THEOREM GuestInvariance == GuestSpec => []GuestInv
<1>1. GuestInit => GuestInv
  BY GuestInitInv
<1>2. GuestInv /\ [GuestNext]_guestVars => GuestInv'
  BY GuestStepsKeep
<1>. QED
  BY <1>1, <1>2, PTL DEF GuestSpec

\* The cookies, stamps, codes and tokens of any browser are ones that the hub gave out.
THEOREM GuestTypeCorrect == GuestSpec => []GuestTypeOK
<1>1. GuestInv => GuestTypeOK
  BY GuestFacts
<1>. QED
  BY <1>1, GuestInvariance, PTL

\* The list never highlights what was already shown by the page whose stamp it compares
\* with, however many tabs are loaded at once, and whatever answers are lost or late.
THEOREM HighlightsAreAlwaysNews == GuestSpec => []HighlightsAreNews
<1>1. GuestInv => HighlightsAreNews
  BY GuestFacts
<1>. QED
  BY <1>1, GuestInvariance, PTL

\* A form is refused only in a tab whose page was outdated, by the first page of another
\* tab that was on its way at the same time, or by the expiry of the cookie.
THEOREM FormsAreAlwaysAccepted == GuestSpec => []FormsAreAccepted
<1>1. GuestInv => FormsAreAccepted
  BY GuestFacts
<1>. QED
  BY <1>1, GuestInvariance, PTL
=============================================================================
