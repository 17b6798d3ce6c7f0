-------------------------------- MODULE MCHub --------------------------------
(* Hub on small instances: what each cast holds is said where it is defined. *)
EXTENDS Hub

CONSTANTS r1, r2, r3, r4, i1, i2, p1, p2, t1, t2, b1, b2

MCRequests == {r1, r2, r3, r4}
MCTokens == {t1, t2}
MCPasswords == {p1, p2}
MCRuns == {i1, i2}
MCTabs == {b1, b2}
MCNames == {"a", "a ", "b"}
MCTrim == [n \in MCNames |-> IF n = "a " THEN "a" ELSE n]
MCSteps == <<{"kv", "schema_migrations"}, {"sessions"}>>
Symmetry == Permutations({r1, r2, r3}) \cup Permutations(MCTabs)

Folder(a, blank, b) == ("a" :> a) @@ ("a " :> blank) @@ ("b" :> b)
Nothing == [is |-> Folder("missing", "missing", "missing"), forms |-> {}, runs |-> << >>, pages |-> {}]
OneFile == [Nothing EXCEPT !.is = Folder("file", "missing", "missing"), !.forms = {<<"a">>}]

NoVisit == [routes |-> {}, files |-> {}, known |-> FALSE, codes |-> 0, tokens |-> 1,
            times |-> 0, faults |-> 0]

Cast == [posts |-> {}, visits |-> {}, accounts |-> FALSE, scene |-> Nothing, visit |-> NoVisit,
         process |-> FALSE, ticks |-> 0]

\* Four posts at the limiter.
Crowd == [Cast EXCEPT !.posts = MCRequests, !.ticks = 5]
\* Three posts of the set-up and the sign-in form.
SignIns == [Cast EXCEPT !.posts = {r1, r2, r3}, !.accounts = TRUE]
\* One post, and three requests with its cookie or with none.
Sessions == [Cast EXCEPT !.posts = {r4}, !.visits = {r1, r2, r3}, !.accounts = TRUE, !.ticks = 2]
\* Two runs over an empty folder and a page that is read between them.
TwoRuns == [Cast EXCEPT !.scene = [Nothing EXCEPT !.runs = (i1 :> "scan") @@ (i2 :> "auto"), !.pages = {"page"}]]
\* One run over every kind of folder, and forms that are stale or repeat a name.
Folders ==
  {[Cast EXCEPT !.scene = [is |-> Folder(a, blank, b), forms |-> {<<"a", "a ", "b">>, <<"b", "b">>, <<"a ">>},
                           runs |-> i1 :> mode, pages |-> {}]] :
     a \in Verdicts, blank \in Verdicts, b \in {"file", "missing"}, mode \in {"scan", "auto", "pick"}}
\* A guest in two tabs: the list of one file, forms of first visits, a known guest's.
Guests ==
  {[Cast EXCEPT !.visit = v] : v \in {
     [NoVisit EXCEPT !.routes = {"library"}, !.files = {"f"}, !.known = TRUE, !.codes = 1,
        !.times = 3, !.faults = 1],
     [NoVisit EXCEPT !.routes = {"library", "logout"}, !.files = {"f"}, !.known = TRUE,
        !.codes = 1, !.times = 3],
     [NoVisit EXCEPT !.routes = {"library", "unlock"}, !.codes = 1, !.tokens = 2, !.faults = 1],
     [NoVisit EXCEPT !.routes = {"library", "join", "set-name"}, !.known = TRUE, !.codes = 2,
        !.times = 1]}}
\* A request, or posts at the limiter, or a run, or a guest, and the process around it.
Stops ==
  {[Cast EXCEPT !.posts = {r4}, !.visits = {r4}, !.accounts = TRUE, !.process = TRUE],
   [Cast EXCEPT !.posts = {r1, r2, r3}, !.process = TRUE]} \cup
  {[Cast EXCEPT !.process = TRUE, !.scene = [OneFile EXCEPT !.runs = i1 :> mode]] :
     mode \in {"scan", "auto"}} \cup
  {[Cast EXCEPT !.process = TRUE,
      !.visit = [NoVisit EXCEPT !.routes = {"library"}, !.known = TRUE, !.codes = 1, !.times = 1]]}

MCCasts == {Crowd, SignIns, Sessions, TwoRuns} \cup Folders \cup Stops \cup Guests
MCScenes == {c.scene : c \in MCCasts}
MCVisits == {c.visit : c \in MCCasts}
=============================================================================
