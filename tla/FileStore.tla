------------------------------- MODULE FileStore -------------------------------
(***************************************************************************)
(* What internal/files promises of the hub's folder, without .partial files,  *)
(* descriptors and inodes: a save puts a whole file under its name in one step  *)
(* or changes nothing, an import takes a name that nobody has, and a download    *)
(* sends the file as it was when it was opened.                                *)
(*                                                                           *)
(* Saves that are under way for the same name at the same time are excepted:   *)
(* one that succeeds leaves something under the name, which may be torn.        *)
(***************************************************************************)
EXTENDS Naturals

CONSTANTS Bases, MaxSuffix, Saves, Readers, Old, None, UploadMax, ImportMax

Names == Bases \X (0 .. MaxSuffix)
Size(kind) == IF kind = "upload" THEN UploadMax ELSE ImportMax
Blocks == 1 .. ImportMax + 1
Blank == [k \in Blocks |-> None]

\* The first n blocks are those of save w. A torn file has no contents to speak of.
Contents(w, n) == [k \in Blocks |-> IF k <= n THEN w ELSE None]
Torn == [k \in Blocks |-> "torn"]

VARIABLES
  shelf,   \* the contents of each name, None if there is no such file
  state,   \* the saves: idle, running, stored or failed
  goal,    \* the name and the kind of a running save
  clashed, \* saves that ran for the same name as another
  view     \* the downloads: the contents that were opened, and what was sent of them

storeVars == <<shelf, state, goal, clashed, view>>

Closed == [open |-> FALSE, holds |-> Blank, got |-> Blank, pos |-> 0]

StoreInit ==
  /\ shelf \in [Names -> {None, Contents(Old, 1)}]
  /\ state = [w \in Saves |-> "idle"]
  /\ goal = [w \in Saves |-> None]
  /\ clashed = {}
  /\ view = [r \in Readers |-> Closed]

Rivals(w, f) ==
  {u \in Saves \ {w} : state[u] = "running" /\ goal[u].name = f}

Begin(w, f, kind) ==
  /\ state[w] = "idle"
  /\ state' = [state EXCEPT ![w] = "running"]
  /\ goal' = [goal EXCEPT ![w] = [name |-> f, kind |-> kind]]
  /\ clashed' = IF Rivals(w, f) = {} THEN clashed ELSE clashed \cup Rivals(w, f) \cup {w}
  /\ UNCHANGED <<shelf, view>>

Ends(w, how) ==
  /\ state' = [state EXCEPT ![w] = how]
  /\ goal' = [goal EXCEPT ![w] = None]

\* Success: the whole file is there at once.
Store(w) ==
  /\ state[w] = "running" /\ w \notin clashed
  /\ goal[w].kind = "import" => shelf[goal[w].name] = None
  /\ \E n \in 0 .. Size(goal[w].kind) : shelf' = [shelf EXCEPT ![goal[w].name] = Contents(w, n)]
  /\ Ends(w, "stored")
  /\ UNCHANGED <<clashed, view>>

StoreTorn(w) ==
  /\ state[w] = "running" /\ w \in clashed
  /\ shelf' = [shelf EXCEPT ![goal[w].name] = Torn]
  /\ Ends(w, "stored")
  /\ UNCHANGED <<clashed, view>>

\* An error: nothing has changed.
Fail(w) ==
  /\ state[w] \in {"idle", "running"}
  /\ Ends(w, "failed")
  /\ UNCHANGED <<shelf, clashed, view>>

Fetch(r, f) ==
  /\ ~view[r].open /\ shelf[f] # None
  /\ view' = [view EXCEPT ![r] = [open |-> TRUE, holds |-> shelf[f], pos |-> 0,
                                  got |-> IF shelf[f] = Torn THEN Torn ELSE Blank]]
  /\ UNCHANGED <<shelf, state, goal, clashed>>

Send(r) ==
  /\ view[r].open /\ view[r].pos <= ImportMax
  /\ LET k == view[r].pos + 1 IN
       view' = [view EXCEPT ![r] = [@ EXCEPT !.pos = k, !.got[k] = view[r].holds[k]]]
  /\ UNCHANGED <<shelf, state, goal, clashed>>

Remove(f) ==
  /\ shelf[f] # None
  /\ shelf' = [shelf EXCEPT ![f] = None]
  /\ UNCHANGED <<state, goal, clashed, view>>

\* The process is killed: no file changes.
Killed ==
  /\ state' \in [Saves -> {"idle", "stored", "failed"}]
  /\ \A w \in Saves : state'[w] # state[w] => state'[w] = "failed" /\ state[w] # "stored"
  /\ goal' = [w \in Saves |-> None]
  /\ view' = [r \in Readers |-> Closed]
  /\ UNCHANGED <<shelf, clashed>>

StoreNext ==
  \/ \E w \in Saves :
       \/ \E f \in Names, kind \in {"upload", "import"} : Begin(w, f, kind)
       \/ Store(w) \/ StoreTorn(w) \/ Fail(w)
  \/ \E r \in Readers : Send(r) \/ \E f \in Names : Fetch(r, f)
  \/ \E f \in Names : Remove(f)
  \/ Killed

StoreSpec == StoreInit /\ [][StoreNext]_storeVars
=============================================================================
