------------------------------ MODULE LibraryGuest ------------------------------
(***************************************************************************)
(* The library as a guest's browser has it: several tabs share one jar of     *)
(* cookies, and the answers to their requests may be lost, or arrive in        *)
(* another order than that in which they were made. libraryGet,               *)
(* libraryJoinGet, libraryUnlock, libraryLogout, librarySetNamePost, the       *)
(* cookies and the form tokens of middleware.go, and the listing.             *)
(*                                                                           *)
(* How the library is switched on and off, statement by statement, is the      *)
(* matter of LibraryChat; here it is off, or on with a code. Every event that   *)
(* leaves a time stamp takes a time of its own.                               *)
(***************************************************************************)
EXTENDS Integers, FiniteSets

CONSTANTS
  Tabs,    \* tabs of the browser
  Files,   \* names of files of the hub
  MaxTime, \* bound: time stamps that are taken
  Visits   \* bound: what a behaviour explores

\* A visit: the requests and files it has, whether the guest is known when it starts, and
\* bounds: how often the library is switched on, the form tokens and time stamps that are
\* drawn, and the faults: answers lost or cut, cookies that expire, failed reads.
ASSUME GuestAssumption ==
  /\ MaxTime \in Nat
  /\ \A v \in Visits : /\ v.files \subseteq Files /\ v.known \in BOOLEAN
                       /\ v.times \in 0 .. MaxTime
                       /\ {v.codes, v.tokens, v.faults} \subseteq Nat
                       /\ v.known => v.codes >= 1 /\ v.tokens >= 1

VARIABLES
  visit,
  code,   \* the code of the library, 0 when it is off
  codes,  \* how many codes there have been
  tree,   \* the files that a listing finds: the time of their last write, or Never
  saving, \* the .partial files: likewise
  time,
  tokens, \* how many form tokens there have been
  jar,    \* the cookies of the browser
  tab,
  shown,  \* history: the versions of files that were shown, by the stamp of the page
  faults

guestVars == <<visit, code, codes, tree, saving, time, tokens, jar, tab, shown, faults>>

Never == 0 \* also: no cookie

\* Cookies: the code, a display name, the list-seen stamp, the form token.
NoCookies == [code |-> Never, nick |-> Never, seen |-> Never, csrf |-> Never]
Routes == {"library", "join", "unlock", "set-name", "logout"}
FormRoutes == {"unlock", "set-name", "logout"}

\* A tab: what it has asked for, with which cookies and which form token, what the
\* answer holds and sets, the token of the page it shows, and as history whether that
\* token, or one on its way, was outdated by an answer to another tab or by its expiry.
NewTab ==
  [pc |-> "idle", route |-> "library", sent |-> NoCookies, code |-> Never, rows |-> {},
   sets |-> << >>, page |-> FALSE, token |-> Never, form |-> Never,
   stale |-> FALSE, crossed |-> FALSE]

GuestTypeOK ==
  /\ code \in 0 .. codes /\ codes \in 0 .. visit.codes
  /\ tree \in [Files -> 0 .. time] /\ saving \in [Files -> 0 .. time]
  /\ time \in 0 .. MaxTime /\ tokens \in 0 .. visit.tokens /\ faults \in 0 .. visit.faults
  /\ jar.code \in 0 .. codes /\ jar.nick \in {Never, 1}
  /\ jar.seen \in 0 .. time /\ jar.csrf \in 0 .. tokens
  /\ \A t \in Tabs : tab[t].pc \in {"idle", "asked", "listed", "answered", "refused"}

GuestInit ==
  /\ visit \in Visits
  /\ LET one == IF visit.known THEN 1 ELSE 0 IN
       /\ code = one /\ codes = one /\ tokens = one
       /\ jar = [NoCookies EXCEPT !.code = one, !.nick = one, !.csrf = one]
       /\ tab = [t \in Tabs |-> [NewTab EXCEPT !.form = one]]
  /\ tree = [f \in Files |-> Never] /\ saving = [f \in Files |-> Never]
  /\ time = 0
  /\ shown = [s \in 1 .. MaxTime |-> {}]
  /\ faults = 0

hubSide == <<visit, code, codes, tree, saving>>

-----------------------------------------------------------------------------
(* The hub meanwhile.                                                        *)

SwitchOn ==
  /\ codes < visit.codes
  /\ code' = codes + 1 /\ codes' = codes + 1
  /\ UNCHANGED <<visit, tree, saving, time, tokens, jar, tab, shown, faults>>

SwitchOff ==
  /\ code # 0 /\ code' = 0
  /\ UNCHANGED <<visit, codes, tree, saving, time, tokens, jar, tab, shown, faults>>

\* A save writes to its .partial file.
WritePartial(f) ==
  /\ time < visit.times /\ time' = time + 1
  /\ saving' = [saving EXCEPT ![f] = time + 1]
  /\ UNCHANGED <<visit, code, codes, tree, tokens, jar, tab, shown, faults>>

\* It renames it, which leaves the time of the last write.
Publish(f) ==
  /\ saving[f] # Never
  /\ tree' = [tree EXCEPT ![f] = saving[f]] /\ saving' = [saving EXCEPT ![f] = Never]
  /\ UNCHANGED <<visit, code, codes, time, tokens, jar, tab, shown, faults>>

DeleteFile(f) ==
  /\ tree[f] # Never /\ tree' = [tree EXCEPT ![f] = Never]
  /\ UNCHANGED <<visit, code, codes, saving, time, tokens, jar, tab, shown, faults>>

-----------------------------------------------------------------------------
(* A tab asks.                                                               *)

\* The guest opens the library or an invite link, or posts a form of the page.
Ask(t, route, c) ==
  /\ tab[t].pc = "idle" /\ route \in visit.routes
  /\ route \in FormRoutes => tab[t].form # Never
  /\ route \notin {"join", "unlock"} => c = Never
  /\ tab' = [tab EXCEPT ![t] = [NewTab EXCEPT
               !.pc = "asked", !.route = route, !.sent = jar, !.code = c, !.form = tab[t].form,
               !.stale = tab[t].stale]]
  /\ UNCHANGED <<hubSide, time, tokens, jar, shown, faults>>

-----------------------------------------------------------------------------
(* The handlers answer.                                                      *)

\* Mutant of FormToken: every page gets a token of its own.
FormTokenAlways(t) == tokens + 1

\* csrfToken: the token of the cookie, or a new one.
FormToken(t) == IF tab[t].sent.csrf # Never THEN tab[t].sent.csrf ELSE tokens + 1

\* An answer without a page, which sets these cookies: a redirect or an error.
Answers(t, sets) ==
  /\ tab' = [tab EXCEPT ![t].pc = "answered", ![t].sets = sets]
  /\ UNCHANGED <<hubSide, time, tokens, jar, shown, faults>>

\* render: a page with a form token, and its cookie if it is new.
Renders(t, rows, sets) ==
  /\ FormToken(t) <= visit.tokens
  /\ tokens' = IF FormToken(t) > tokens THEN FormToken(t) ELSE tokens
  /\ tab' = [tab EXCEPT ![t].pc = "answered", ![t].page = TRUE, ![t].rows = rows,
               ![t].token = FormToken(t),
               ![t].sets = IF FormToken(t) = tab[t].sent.csrf THEN sets
                           ELSE [c \in DOMAIN sets \cup {"csrf"} |->
                                   IF c = "csrf" THEN FormToken(t) ELSE sets[c]]]
  /\ UNCHANGED <<hubSide, jar, shown>>

\* requireCSRF, before the handlers of the posts.
TokenMatches(t) == tab[t].sent.csrf # Never /\ tab[t].sent.csrf = tab[t].form
RefuseForm(t) ==
  /\ tab[t].pc = "asked" /\ tab[t].route \in FormRoutes
  /\ ~TokenMatches(t)
  /\ tab' = [tab EXCEPT ![t].pc = "refused"]
  /\ UNCHANGED <<hubSide, time, tokens, jar, shown, faults>>

Enters(t, route) ==
  /\ tab[t].pc = "asked" /\ tab[t].route = route
  /\ route \in FormRoutes => TokenMatches(t)

\* ValidGuest.
Knows(t) == code # 0 /\ tab[t].sent.code = code

\* libraryGet of nobody it knows: not found, the form for the code, or for a name.
GreetStranger(t) ==
  /\ Enters(t, "library")
  /\ \/ code = 0 /\ Answers(t, << >>)
     \/ /\ code # 0 /\ ~(Knows(t) /\ tab[t].sent.nick # Never)
        /\ Renders(t, {}, << >>) /\ UNCHANGED <<time, faults>>

\* libraryGet: the files are listed, without the .partial ones.
ListFiles(t) ==
  /\ Enters(t, "library") /\ Knows(t) /\ tab[t].sent.nick # Never
  /\ tab' = [tab EXCEPT ![t].pc = "listed",
               ![t].rows = {<<f, tree[f]>> : f \in {g \in Files : tree[g] # Never}}]
  /\ UNCHANGED <<hubSide, time, tokens, jar, shown, faults>>

\* buildFileRowsFromEntries: the row of version v is highlighted.
IsNew(v, since) == since # Never /\ v[2] > since

\* Mutant of StampList: the stamp of the last visit is set again.
StampListAgain(t) ==
  /\ tab[t].pc = "listed"
  /\ time < visit.times /\ time' = time + 1
  /\ Renders(t, tab[t].rows,
       [seen |-> IF tab[t].sent.seen # Never THEN tab[t].sent.seen ELSE time + 1])
  /\ UNCHANGED faults

\* Then the stamp is taken and put into the header, the chat is read, and the page is
\* rendered; if the chat cannot be read an error is answered, under the same header.
StampList(t) ==
  /\ tab[t].pc = "listed"
  /\ time < visit.times /\ time' = time + 1
  /\ Renders(t, tab[t].rows, [seen |-> time + 1])
  /\ UNCHANGED faults

ChatUnread(t) ==
  /\ tab[t].pc = "listed" /\ faults < visit.faults /\ faults' = faults + 1
  /\ time < visit.times /\ time' = time + 1
  /\ tab' = [tab EXCEPT ![t].pc = "answered", ![t].sets = [seen |-> time + 1]]
  /\ UNCHANGED <<hubSide, tokens, jar, shown>>

\* libraryJoinGet: the invite link sets the code and forgets the name.
Join(t) ==
  /\ Enters(t, "join")
  /\ Answers(t, IF code # 0 /\ tab[t].code = code THEN [code |-> code, nick |-> Never] ELSE << >>)

\* libraryUnlock: the code and a name, which may be refused.
Unlock(t) ==
  /\ Enters(t, "unlock")
  /\ \/ Answers(t, << >>)
     \/ code # 0 /\ tab[t].code = code /\ Answers(t, [code |-> code, nick |-> 1])

\* librarySetNamePost, behind requireLibraryGuest.
SetName(t) ==
  /\ Enters(t, "set-name")
  /\ Answers(t, << >>) \/ (Knows(t) /\ Answers(t, [nick |-> 1]))

\* libraryLogout.
LeaveLibrary(t) ==
  /\ Enters(t, "logout")
  /\ Answers(t, [code |-> Never, nick |-> Never, seen |-> Never])

-----------------------------------------------------------------------------
(* The browser receives.                                                     *)

TakeCookies(t) ==
  jar' = [c \in DOMAIN jar |-> IF c \in DOMAIN tab[t].sets THEN tab[t].sets[c] ELSE jar[c]]

\* A page that was asked for without a token brings one: what others show is outdated.
Outdates(t) == tab[t].sent.csrf = Never /\ "csrf" \in DOMAIN tab[t].sets
Outdate(us) ==
  [u \in Tabs |-> IF u \in us THEN [tab[u] EXCEPT !.stale = TRUE, !.crossed = TRUE] ELSE tab[u]]

\* Among tabs, t goes on with the page it shows.
Stays(tabs, t) ==
  [tabs EXCEPT ![t] = [NewTab EXCEPT !.form = tabs[t].form, !.stale = tabs[t].stale]]

\* The answer arrives; a page replaces the one before.
Receive(t) ==
  /\ tab[t].pc = "answered"
  /\ TakeCookies(t)
  /\ LET others == Outdate(IF Outdates(t) THEN Tabs \ {t} ELSE {}) IN
       tab' = IF ~tab[t].page THEN Stays(others, t)
              ELSE [others EXCEPT ![t] = [NewTab EXCEPT !.form = tab[t].token,
                      !.stale = tab[t].crossed /\ "csrf" \notin DOMAIN tab[t].sets]]
  /\ shown' = IF tab[t].page /\ "seen" \in DOMAIN tab[t].sets
                THEN [shown EXCEPT ![tab[t].sets.seen] = tab[t].rows] ELSE shown
  /\ UNCHANGED <<hubSide, time, tokens, faults>>

\* Only its header arrives, or nothing does; the tab keeps its page.
Cut(t) ==
  /\ tab[t].pc \in {"answered", "refused"} /\ faults < visit.faults /\ faults' = faults + 1
  /\ \/ UNCHANGED jar /\ tab' = Stays(tab, t)
     \/ TakeCookies(t) /\ tab' = Stays(Outdate(IF Outdates(t) THEN Tabs ELSE {}), t)
  /\ UNCHANGED <<hubSide, time, tokens, shown>>

\* 403: "Refresh the page and try again."
SeeRefusal(t) ==
  /\ tab[t].pc = "refused"
  /\ tab' = [tab EXCEPT ![t] = NewTab]
  /\ UNCHANGED <<hubSide, time, tokens, jar, shown, faults>>

\* A cookie reaches its Max-Age. That of the form token is not renewed by visits.
CookieExpires(c) ==
  /\ jar[c] # Never /\ faults < visit.faults /\ faults' = faults + 1
  /\ jar' = [jar EXCEPT ![c] = Never]
  /\ tab' = Outdate(IF c = "csrf" THEN Tabs ELSE {})
  /\ UNCHANGED <<hubSide, time, tokens, shown>>

HubSwitches ==
  \/ SwitchOn \/ SwitchOff
  \/ \E f \in visit.files : WritePartial(f) \/ Publish(f) \/ DeleteFile(f)

Handles(t) ==
  \/ GreetStranger(t) \/ ListFiles(t) \/ StampList(t)
  \/ Join(t) \/ Unlock(t) \/ SetName(t) \/ LeaveLibrary(t)

GuestBrowses ==
  \/ \E t \in Tabs : Receive(t) \/ Cut(t) \/ SeeRefusal(t)
  \/ \E c \in DOMAIN jar : CookieExpires(c)

GuestNext ==
  \/ \E t \in Tabs, route \in Routes, c \in 0 .. codes : Ask(t, route, c)
  \/ HubSwitches
  \/ \E t \in Tabs : Handles(t) \/ RefuseForm(t) \/ ChatUnread(t)
  \/ GuestBrowses

GuestSpec == GuestInit /\ [][GuestNext]_guestVars

-----------------------------------------------------------------------------
(* Properties.                                                               *)

\* A page never highlights a version that was shown by the page whose stamp it compares
\* with, the last one whose answer the browser took.
HighlightsAreNews ==
  \A t \in Tabs : \A v \in tab[t].rows :
    IsNew(v, tab[t].sent.seen) => v \notin shown[tab[t].sent.seen]

\* A form is refused only if its page was loaded side by side with the first page of
\* another tab, or if the cookie of its token has expired: "Refresh the page and try
\* again" is not asked of a guest who merely uses several tabs.
FormsAreAccepted ==
  \A t \in Tabs :
    /\ tab[t].form # Never /\ ~tab[t].stale => tab[t].form = jar.csrf
    /\ tab[t].pc = "refused" => tab[t].stale

\* What the strip above the list promises: "files that changed since this visit will be
\* highlighted". A listed version that is not, in a browser that has a stamp, was shown
\* there before. (The code does not keep this.)
ChangesAreHighlighted ==
  [][\A t \in Tabs : tab[t].pc = "listed" /\ tab'[t].page /\ tab[t].sent.seen # Never =>
       \A v \in tab[t].rows : IsNew(v, tab[t].sent.seen) \/ \E s \in 1 .. MaxTime : v \in shown[s]]_guestVars
=============================================================================
