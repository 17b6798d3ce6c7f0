-------------------------- MODULE HubFilesStore_proofs --------------------------
(***************************************************************************)
(* HubFiles implements FileStore, for any number of saves, files, downloads     *)
(* and blocks. The argument rests on the inductive invariant of HubFiles_proofs: *)
(* an inode that counts as a whole file stays one and is not written again, and   *)
(* the only inode that comes to count as one is what a rename has published.       *)
(***************************************************************************)
EXTENDS HubFilesStore, HubFiles_proofs

-----------------------------------------------------------------------------
(* Sound inodes.                                                             *)

\* The content of the file that was there before is never written.
LEMMA OldIsNotWritten ==
  ASSUME IInv, [Next]_vars
  PROVE  data'[Old] = data[Old]
<1>. USE ContentsAssumption
<1>1. ASSUME NEW u \in Saves, Create(u) PROVE data'[Old] = data[Old]
  <2>1. Opened(u) # Old
    BY Types DEF IInv, Opened
  <2>. QED
    BY <1>1, <2>1 DEF Create, IInv, TypeOK, Inodes
<1>2. ASSUME NEW u \in Saves, Copy(u) PROVE data'[Old] = data[Old]
  <2>1. save[u].fd \in Saves
    BY <1>2 DEF IInv, Private, Writing, Copy
  <2>. QED
    BY <1>2, <2>1 DEF Copy, IInv, TypeOK, Inodes
<1>3. (\A u \in Saves : ~Create(u) /\ ~Copy(u)) => data' = data
  BY DEF Next, Save, StartUpload, StartImport, StatFree, StatTaken, StatFails, Choose, CreateFails,
     CopyEnds, CopyFails, Rename, Undo, Open, Read, Delete, Crash, vars, tree, RestUnchanged
<1>. QED
  BY <1>1, <1>2, <1>3

\* The blocks of the inodes are functions of the block.
LEMMA DataFunctions ==
  ASSUME TypeOK, NEW i \in Inodes
  PROVE  data[i] \in [Blocks -> Inodes \cup {None}]
BY DEF TypeOK

\* A whole file stays whole, and stays as it is.
LEMMA SoundStays ==
  ASSUME IInv, [Next]_vars, NEW i \in Inodes, Sound(i)
  PROVE  Sound(i)' /\ data'[i] = data[i]
<1>. USE ContentsAssumption
<1>1. TypeOK'
  BY TypeStep DEF IInv
<1>2. CASE i = Old
  BY <1>2, OldIsNotWritten DEF Sound
<1>3. ASSUME NEW w \in Saves \ crossed, pub[w] = i, i # Old
      PROVE  Sound(i)' /\ data'[i] = data[i]
  <2>1. i \in Saves /\ save[w].pc = "ok"
    BY <1>3, Types DEF IInv, Unseen, Inodes
  <2>2. /\ \A f \in Files : part[f] # i
        /\ \A u \in Saves : Writing(u) => save[u].fd # i
        /\ \A u \in Saves : Fresh(u) => u # i
    BY <1>3, <2>1 DEF IInv, Published, Private
  <2>3. ~Active(w)
    BY <2>1 DEF Active
  <2>4. w \notin crossed' /\ pub'[w] = i
    <3>1. ASSUME NEW u \in Saves, NEW f \in Files, NEW kind, Choose(u, f, kind), u # w
          PROVE  w \notin crossed' /\ pub' = pub
      BY <1>3, <2>3, <3>1 DEF Choose
    <3>2. ASSUME NEW u \in Saves, NEW f \in Files, StartUpload(u, f)
          PROVE  w \notin crossed' /\ pub'[w] = i
      BY <1>3, <2>1, <3>1, <3>2 DEF StartUpload
    <3>3. ASSUME NEW u \in Saves, StatFree(u) PROVE w \notin crossed' /\ pub'[w] = i
      BY <1>3, <2>1, <3>1, <3>3, Types DEF StatFree, IInv
    <3>4. ASSUME NEW u \in Saves, Rename(u) PROVE w \notin crossed' /\ pub'[w] = i
      BY <1>3, <2>1, <3>4 DEF Rename, IInv, TypeOK
    <3>5. (\A u \in Saves : ~StatFree(u) /\ ~Rename(u) /\ \A f \in Files : ~StartUpload(u, f))
            => crossed' = crossed /\ pub' = pub
      BY DEF Next, Save, StartImport, StatTaken, StatFails, Create, Copy, CreateFails,
         CopyEnds, CopyFails, Undo, Open, Read, Delete, Crash, vars, tree, RestUnchanged
    <3>. QED
      BY <1>3, <3>2, <3>3, <3>4, <3>5
  <2>5. \A k \in Blocks : data'[i][k] = data[i][k]
    <3>1. ASSUME NEW u \in Saves, Creates(u) PROVE \A k \in Blocks : data'[i][k] = data[i][k]
      <4>1. Opened(u) # i
        BY <2>2, <3>1, Types DEF Opened, Creates, Fresh, IInv
      <4>. QED
        BY <2>1, <3>1, <4>1 DEF Creates
    <3>2. ASSUME NEW u \in Saves, Copies(u) PROVE \A k \in Blocks : data'[i][k] = data[i][k]
      BY <2>1, <2>2, <3>2 DEF Copies, Writing
    <3>3. (\A u \in Saves : ~Creates(u) /\ ~Copies(u)) => data' = data
      BY Effects DEF IInv, Asks, Chooses, Moves, Publishes, Undoes, Dies, Deletes, Opens, Reads,
         SameFiles, SameSaves
    <3>. QED
      BY <3>1, <3>2, <3>3
  <2>6. data'[i] = data[i]
    BY <1>1, <2>5 DEF IInv, TypeOK
  <2>. QED
    BY <1>3, <2>4, <2>6 DEF Sound
<1>. QED
  BY <1>2, <1>3 DEF Sound

\* A save that has crossed another stays so.
LEMMA CrossedGrows ==
  ASSUME IInv, [Next]_vars
  PROVE  \A w \in Saves : w \in crossed => w \in crossed'
BY Effects DEF IInv, Asks, Chooses, Creates, Copies, Moves, Publishes, Undoes, Dies, Deletes,
   Opens, Reads, SameSaves

\* Only a rename publishes.
LEMMA PubStays ==
  ASSUME IInv, [Next]_vars, NEW w \in Saves
  PROVE  pub'[w] = pub[w] \/ Publishes(w)
<1>1. ASSUME NEW u \in Saves, Publishes(u) PROVE pub'[w] = pub[w] \/ Publishes(w)
  BY <1>1 DEF Publishes
<1>2. (\A u \in Saves : ~Publishes(u)) => pub' = pub
  BY Effects DEF IInv, Asks, Chooses, Creates, Copies, Moves, Undoes, Dies, Deletes,
     Opens, Reads, SameFiles, SameSaves
<1>. QED
  BY <1>1, <1>2

\* An inode comes to be a whole file when a save without rivals renames it.
LEMMA SoundComes ==
  ASSUME IInv, [Next]_vars, NEW i, ~Sound(i), Sound(i)'
  PROVE  \E u \in Saves \ crossed : Publishes(u) /\ i = part[save[u].dest]
<1>1. PICK w \in Saves : w \notin crossed' /\ pub'[w] = i
  BY DEF Sound
<1>2. w \notin crossed /\ pub[w] # i
  BY <1>1, CrossedGrows DEF Sound
<1>. QED
  BY <1>1, <1>2, PubStays DEF Publishes

\* What has a name or a reader neither becomes a whole file nor stops being one.
LEMMA SeenStays ==
  ASSUME IInv, [Next]_vars, NEW i \in Inodes,
         (\E f \in Files : full[f] = i) \/ (\E r \in Readers : reader[r].fd = i)
  PROVE  /\ Sound(i)' <=> Sound(i)
         /\ Sound(i) => data'[i] = data[i]
<1>1. CASE Sound(i)
  BY <1>1, SoundStays
<1>2. CASE ~Sound(i)
  <2>1. SUFFICES ASSUME Sound(i)' PROVE FALSE
    BY <1>2
  <2>2. PICK u \in Saves : Publishes(u) /\ i = part[save[u].dest]
    BY <1>2, <2>1, SoundComes
  <2>3. save[u].dest \in Files /\ part[save[u].dest] # None
    BY <2>2, Types DEF IInv, Publishes
  <2>. QED
    BY <2>2, <2>3 DEF IInv, Unseen
<1>. QED
  BY <1>1, <1>2

-----------------------------------------------------------------------------
(* The abstract state, point by point.                                       *)

\* A name that keeps its inode keeps its contents.
LEMMA ShelfAt ==
  ASSUME IInv, [Next]_vars, NEW f \in Files, full'[f] = full[f]
  PROVE  Shelf'[f] = Shelf[f]
<1>1. CASE full[f] = None
  BY <1>1 DEF Shelf
<1>2. CASE full[f] # None
  <2>1. PICK i \in Inodes : i = full[f] /\ i # None
    BY <1>2 DEF IInv, TypeOK
  <2>2. /\ Sound(i)' <=> Sound(i)
        /\ Sound(i) => data'[i] = data[i]
    BY <2>1, SeenStays
  <2>3. Shelf[f] = IF Sound(i) THEN data[i] ELSE Torn
    BY <2>1 DEF Shelf, ContentsOf, Sound
  <2>4. Shelf'[f] = IF Sound(i)' THEN data'[i] ELSE Torn
    BY <2>1 DEF Shelf, ContentsOf, Sound, Torn
  <2>. QED
    BY <2>2, <2>3, <2>4
<1>. QED
  BY <1>1, <1>2

\* A download that does nothing sees nothing new.
LEMMA ViewAt ==
  ASSUME IInv, [Next]_vars, NEW r \in Readers, reader'[r] = reader[r]
  PROVE  View'[r] = View[r]
<1>1. CASE reader[r].fd = None
  BY <1>1 DEF View, Empty
<1>2. CASE reader[r].fd # None
  <2>1. PICK i \in Inodes : i = reader[r].fd /\ i # None
    BY <1>2 DEF IInv, TypeOK, ReaderType
  <2>2. /\ Sound(i)' <=> Sound(i)
        /\ Sound(i) => data'[i] = data[i]
    BY <2>1, SeenStays
  <2>3. View[r] = [open |-> TRUE, holds |-> IF Sound(i) THEN data[i] ELSE Torn,
                   pos |-> reader[r].pos, got |-> IF Sound(i) THEN reader[r].got ELSE Torn]
    BY <2>1 DEF View, ContentsOf, Sound
  <2>4. View'[r] = [open |-> TRUE, holds |-> IF Sound(i)' THEN data'[i] ELSE Torn,
                    pos |-> reader[r].pos, got |-> IF Sound(i)' THEN reader[r].got ELSE Torn]
    BY <2>1 DEF View, ContentsOf, Sound, Torn
  <2>. QED
    BY <2>2, <2>3, <2>4
<1>. QED
  BY <1>1, <1>2

\* The four are functions, before a step and after it.
LEMMA Domains ==
  /\ Shelf = [f \in Files |-> Shelf[f]] /\ Shelf' = [f \in Files |-> Shelf'[f]]
  /\ State = [w \in Saves |-> State[w]] /\ State' = [w \in Saves |-> State'[w]]
  /\ Goal = [w \in Saves |-> Goal[w]] /\ Goal' = [w \in Saves |-> Goal'[w]]
  /\ View = [r \in Readers |-> View[r]] /\ View' = [r \in Readers |-> View'[r]]
<1>1. Shelf = [f \in Files |-> Shelf[f]] /\ Shelf' = [f \in Files |-> Shelf'[f]]
  BY DEF Shelf
<1>2. State = [w \in Saves |-> State[w]] /\ State' = [w \in Saves |-> State'[w]]
  BY DEF State
<1>3. Goal = [w \in Saves |-> Goal[w]] /\ Goal' = [w \in Saves |-> Goal'[w]]
  BY DEF Goal
<1>4. View = [r \in Readers |-> View[r]] /\ View' = [r \in Readers |-> View'[r]]
  BY DEF View
<1>. QED
  BY <1>1, <1>2, <1>3, <1>4

\* No directory entry changes: neither does the shelf.
LEMMA ShelfSame ==
  ASSUME IInv, [Next]_vars, full' = full
  PROVE  Shelf' = Shelf
<1>1. \A f \in Files : Shelf'[f] = Shelf[f]
  BY ShelfAt
<1>. QED
  BY <1>1, Domains

\* No download moves: what they have seen stays.
LEMMA ViewSame ==
  ASSUME IInv, [Next]_vars, reader' = reader
  PROVE  View' = View
<1>1. \A r \in Readers : View'[r] = View[r]
  BY ViewAt
<1>. QED
  BY <1>1, Domains

\* The other saves stand where they stood.
LEMMA OthersSame ==
  ASSUME NEW u \in Saves, Others(u)
  PROVE  /\ \A w \in Saves \ {u} : State'[w] = State[w] /\ Goal'[w] = Goal[w]
         /\ State' = [State EXCEPT ![u] = State'[u]]
         /\ Goal' = [Goal EXCEPT ![u] = Goal'[u]]
<1>1. \A w \in Saves \ {u} : State'[w] = State[w]
  BY DEF Others, State, Active
<1>2. \A w \in Saves \ {u} : Goal'[w] = Goal[w]
  BY DEF Others, Goal, Active
<1>. QED
  BY <1>1, <1>2, Domains

\* Contents are never taken for the absence of a file, nor whole ones for torn ones.
LEMMA ShelfNotNone ==
  ASSUME IInv, NEW f \in Files, full[f] # None
  PROVE  /\ Shelf[f] # None
         /\ Shelf[f] = Torn <=> ~Sound(full[f])
<1>. USE MarksAssumption
<1>1. PICK i \in Inodes : i = full[f] /\ i # None
  BY DEF IInv, TypeOK
<1>2. 1 \in Blocks
  BY SizesAssumption DEF Blocks
<1>3. Torn \in [Blocks -> Inodes \cup {None, "torn"}] /\ Torn[1] = "torn"
  BY <1>2 DEF Torn
<1>4. data[i] \in [Blocks -> Inodes \cup {None}] /\ data[i][1] # "torn"
  BY <1>2, DataFunctions DEF IInv
<1>5. data[i] \in [Blocks -> Inodes \cup {None, "torn"}]
  BY <1>4
<1>6. Shelf[f] = IF Sound(i) THEN data[i] ELSE Torn
  BY <1>1 DEF Shelf, ContentsOf, Sound
<1>. QED
  BY <1>1, <1>3, <1>4, <1>5, <1>6

-----------------------------------------------------------------------------
(* Every step is a step of the store, or is not to be seen there.             *)

\* The steps of a save that nobody sees: it asks for a name, writes, or goes on.
LEMMA QuietStep ==
  ASSUME IInv, [Next]_vars, NEW u \in Saves,
         Asks(u) \/ Creates(u) \/ Copies(u) \/ Moves(u) \/ Undoes(u)
  PROVE  UNCHANGED Abstract!storeVars \/ Abstract!Fail(u)
<1>1. Others(u) /\ full' = full /\ reader' = reader /\ crossed' = crossed
  BY DEF Asks, Creates, Copies, Moves, Undoes, SameFiles
<1>2. Shelf' = Shelf /\ View' = View
  BY <1>1, ShelfSame, ViewSame
<1>3. \/ State'[u] = State[u] /\ Goal'[u] = Goal[u]
      \/ State[u] \in {"idle", "running"} /\ State'[u] = "failed" /\ Goal'[u] = None
  <2>1. CASE Asks(u)
    BY <2>1 DEF Asks, State, Goal, Active
  <2>2. CASE Creates(u)
    BY <2>2 DEF Creates, State, Goal, Active
  <2>3. CASE Copies(u)
    BY <2>3 DEF Copies, SameRest, State, Goal, Active
  <2>4. CASE Moves(u)
    BY <2>4 DEF Moves, SameRest, State, Goal, Active
  <2>5. CASE Undoes(u)
    BY <2>5 DEF Undoes, SameRest, State, Goal, Active
  <2>. QED
    BY <2>1, <2>2, <2>3, <2>4, <2>5
<1>4. CASE State'[u] = State[u] /\ Goal'[u] = Goal[u]
  <2>1. State' = State /\ Goal' = Goal
    BY <1>1, <1>4, OthersSame, Domains
  <2>. QED
    BY <1>1, <1>2, <2>1 DEF Abstract!storeVars
<1>5. CASE State[u] \in {"idle", "running"} /\ State'[u] = "failed" /\ Goal'[u] = None
  BY <1>1, <1>2, <1>5, OthersSame DEF Abstract!Fail, Abstract!Ends
<1>. QED
  BY <1>3, <1>4, <1>5

\* A save that has its destination has begun; its rivals are those that crossed tells of.
LEMMA BeginStep ==
  ASSUME IInv, [Next]_vars, NEW u \in Saves, Chooses(u)
  PROVE  \E f \in Files, kind \in {"upload", "import"} : Abstract!Begin(u, f, kind)
<1>. DEFINE f == save'[u].dest
            kind == save'[u].kind
<1>1. f \in Files /\ kind \in {"upload", "import"}
  <2>1. TypeOK'
    BY TypeStep DEF IInv
  <2>. QED
    BY <2>1 DEF TypeOK, SaveType
<1>2. Others(u) /\ Shelf' = Shelf /\ View' = View
  BY ShelfSame, ViewSame DEF Chooses, SameFiles
<1>3. State[u] = "idle" /\ State'[u] = "running" /\ Goal'[u] = [name |-> f, kind |-> kind]
  BY DEF Chooses, State, Goal, Active
<1>4. Abstract!Rivals(u, f) = {w \in Saves \ {u} : Active(w) /\ save[w].dest = f}
  <2>1. \A w \in Saves : State[w] = "running" <=> Active(w)
    BY DEF State, Active
  <2>2. \A w \in Saves : Active(w) => Goal[w].name = save[w].dest
    BY DEF Goal
  <2>. QED
    BY <2>1, <2>2 DEF Abstract!Rivals
<1>5. crossed' = IF Abstract!Rivals(u, f) = {} THEN crossed
                 ELSE crossed \cup Abstract!Rivals(u, f) \cup {u}
  BY <1>4 DEF Chooses, Choose
<1>6. Abstract!Begin(u, f, kind)
  BY <1>2, <1>3, <1>5, OthersSame DEF Abstract!Begin
<1>. QED
  BY <1>1, <1>6

\* A rename puts a whole file under the name at once, unless the save has a rival.
LEMMA StoreStep ==
  ASSUME IInv, [Next]_vars, NEW u \in Saves, Publishes(u)
  PROVE  Abstract!Store(u) \/ Abstract!StoreTorn(u)
<1>. USE ContentsAssumption
<1>. DEFINE f == save[u].dest
<1>0. PICK i \in Saves : i = part[f]
  BY Types DEF IInv, Publishes
<1>1. f \in Files /\ i # None
  BY Types DEF IInv
<1>2. Others(u) /\ View' = View /\ crossed' = crossed
  BY ViewSame DEF Publishes
<1>3. /\ State[u] = "running" /\ State'[u] = "stored"
      /\ Goal[u] = [name |-> f, kind |-> save[u].kind] /\ Goal'[u] = None
  BY DEF Publishes, State, Goal, Active
<1>4. \A g \in Files \ {f} : Shelf'[g] = Shelf[g]
  BY ShelfAt DEF Publishes
<1>5. Shelf' = [Shelf EXCEPT ![f] = Shelf'[f]]
  BY <1>4, Domains
<1>6. full'[f] = i /\ pub'[u] = i /\ data' = data
  BY <1>0 DEF Publishes
<1>7. CASE u \notin crossed
  <2>1. Sound(i)'
    BY <1>2, <1>6, <1>7 DEF Sound
  <2>2. Shelf'[f] = data[i]
    BY <1>1, <1>6, <2>1 DEF Shelf, ContentsOf, Sound
  <2>3. i = save[u].fd /\ Whole(i, u) /\ save[u].pos <= Limit(save[u].kind)
    BY <1>0, <1>7 DEF IInv, LoneWriting, Writing, Sized, Publishes
  <2>4. data[i] = [k \in Blocks |-> data[i][k]]
    BY <1>1 DEF IInv, TypeOK, Inodes
  <2>5. data[i] = Abstract!Contents(u, save[u].pos)
    BY <2>3, <2>4 DEF Whole, Abstract!Contents, Abstract!Blocks, Blocks
  <2>6. save[u].pos \in 0 .. Abstract!Size(save[u].kind)
    BY <2>3, Types, SizesAssumption DEF Limit, Abstract!Size, IInv
  <2>7. save[u].kind = "import" => Shelf[f] = None
    BY <1>1, <1>7 DEF IInv, FreeName, Publishes, Shelf
  <2>8. Abstract!Ends(u, "stored")
    BY <1>2, <1>3, OthersSame DEF Abstract!Ends
  <2>9. \E n \in 0 .. Abstract!Size(Goal[u].kind) :
          Shelf' = [Shelf EXCEPT ![Goal[u].name] = Abstract!Contents(u, n)]
    BY <1>3, <1>5, <2>2, <2>5, <2>6
  <2>10. State[u] = "running" /\ (Goal[u].kind = "import" => Shelf[Goal[u].name] = None)
    BY <1>3, <2>7
  <2>. QED
    BY <1>2, <1>7, <2>8, <2>9, <2>10 DEF Abstract!Store
<1>8. CASE u \in crossed
  <2>1. ~Sound(i)
    BY <1>0, <1>1 DEF IInv, Unseen, Published, Sound
  <2>2. ~Sound(i)'
    <3>1. SUFFICES ASSUME Sound(i)' PROVE FALSE
      OBVIOUS
    <3>2. PICK v \in Saves \ crossed : Publishes(v)
      BY <2>1, <3>1, SoundComes
    <3>3. v # u
      BY <1>8
    <3>4. save'[v] = save[v]
      BY <1>2, <3>3 DEF Others
    <3>. QED
      BY <3>2, <3>4 DEF Publishes
  <2>3. Shelf'[f] = Torn
    BY <1>1, <1>6, <2>2 DEF Shelf, ContentsOf, Sound, Torn
  <2>4. Abstract!Ends(u, "stored")
    BY <1>2, <1>3, OthersSame DEF Abstract!Ends
  <2>5. Torn = Abstract!Torn
    BY DEF Torn, Abstract!Torn, Blocks, Abstract!Blocks
  <2>. QED
    BY <1>2, <1>3, <1>5, <1>8, <2>3, <2>4, <2>5 DEF Abstract!StoreTorn
<1>. QED
  BY <1>7, <1>8

\* A download opens the file as it is now.
LEMMA FetchStep ==
  ASSUME IInv, [Next]_vars, NEW r \in Readers, Opens(r)
  PROVE  \E f \in Files : Abstract!Fetch(r, f)
<1>. USE ContentsAssumption, MarksAssumption
<1>1. PICK f \in Files : Open(r, f)
  BY DEF Opens
<1>2. PICK i \in Inodes : i = full[f] /\ i # None
  BY <1>1 DEF Open, IInv, TypeOK
<1>3. Shelf' = Shelf /\ State' = State /\ Goal' = Goal /\ crossed' = crossed
  <2>1. full' = full /\ save' = save /\ crossed' = crossed
    BY <1>1 DEF Open, tree
  <2>. QED
    BY <2>1, ShelfSame DEF State, Goal, Active
<1>4. \A q \in Readers \ {r} : View'[q] = View[q]
  BY ViewAt DEF Opens, OtherReaders
<1>5. reader'[r] = [fd |-> i, got |-> Empty, pos |-> 0] /\ reader[r].fd = None
  BY <1>1, <1>2 DEF Open, IInv, TypeOK
<1>6. /\ Sound(i)' <=> Sound(i)
      /\ Sound(i) => data'[i] = data[i]
  BY <1>2, SeenStays
<1>7. Shelf[f] = IF Sound(i) THEN data[i] ELSE Torn
  BY <1>2 DEF Shelf, ContentsOf, Sound
<1>8. View'[r] = [open |-> TRUE, holds |-> IF Sound(i)' THEN data'[i] ELSE Torn,
                  pos |-> 0, got |-> IF Sound(i)' THEN Empty ELSE Torn]
  <2>1. reader'[r].fd = i /\ reader'[r].pos = 0 /\ reader'[r].got = Empty
    BY <1>5
  <2>. QED
    BY <1>2, <2>1 DEF View, ContentsOf, Sound, Torn
<1>9. Shelf[f] # None /\ (Shelf[f] = Torn <=> ~Sound(i))
  BY <1>2, ShelfNotNone
<1>10. View'[r] = [open |-> TRUE, holds |-> Shelf[f], pos |-> 0,
                   got |-> IF Shelf[f] = Torn THEN Torn ELSE Empty]
  BY <1>6, <1>7, <1>8, <1>9
<1>11. ~View[r].open
  BY <1>5 DEF View
<1>12. View' = [View EXCEPT ![r] = View'[r]]
  BY <1>4, Domains
<1>13. Torn = Abstract!Torn /\ Empty = Abstract!Blank
  BY DEF Torn, Abstract!Torn, Blocks, Abstract!Blocks, Empty, Abstract!Blank
<1>14. Abstract!Fetch(r, f)
  BY <1>3, <1>9, <1>10, <1>11, <1>12, <1>13 DEF Abstract!Fetch
<1>. QED
  BY <1>14

\* It sends the next block of what it has opened.
LEMMA SendStep ==
  ASSUME IInv, [Next]_vars, NEW r \in Readers, Reads(r)
  PROVE  Abstract!Send(r)
<1>1. PICK i \in Inodes : i = reader[r].fd /\ i # None
  BY DEF Reads, IInv, TypeOK, ReaderType
<1>. DEFINE k == reader[r].pos + 1
<1>2. Shelf' = Shelf /\ State' = State /\ Goal' = Goal /\ crossed' = crossed
  <2>1. full' = full /\ save' = save /\ crossed' = crossed
    BY DEF Reads, SameSaves
  <2>. QED
    BY <2>1, ShelfSame DEF State, Goal, Active
<1>3. View' = [View EXCEPT ![r] = View'[r]]
  <2>1. \A q \in Readers \ {r} : View'[q] = View[q]
    BY ViewAt DEF Reads, OtherReaders
  <2>. QED
    BY <2>1, Domains
<1>4. /\ Sound(i)' <=> Sound(i)
      /\ data' = data /\ reader'[r].fd = i /\ reader'[r].pos = k
  BY <1>1, SeenStays DEF Reads, SameSaves
<1>5. k \in Blocks /\ reader[r].pos <= ImportMax
  BY Types, SizesAssumption DEF Reads, Blocks, IInv
<1>6. reader'[r].got = [reader[r].got EXCEPT ![k] = data[i][k]]
  <2>1. TypeOK'
    BY TypeStep DEF IInv
  <2>2. /\ reader[r].got \in [Blocks -> Inodes \cup {None}]
        /\ reader'[r].got \in [Blocks -> Inodes \cup {None}]
    BY <2>1 DEF IInv, TypeOK, ReaderType
  <2>3. \A b \in Blocks : reader'[r].got[b] = IF b = k THEN data[i][k] ELSE reader[r].got[b]
    BY <1>1 DEF Reads
  <2>. QED
    BY <2>2, <2>3
<1>7. PICK h, g :
        /\ h = (IF Sound(i) THEN data[i] ELSE Torn)
        /\ g = (IF Sound(i) THEN reader[r].got ELSE Torn)
  OBVIOUS
<1>8. View[r] = [open |-> TRUE, holds |-> h, pos |-> reader[r].pos, got |-> g]
  BY <1>1, <1>7 DEF View, ContentsOf, Sound
<1>9. View'[r] = [open |-> TRUE, holds |-> h, pos |-> k, got |-> [g EXCEPT ![k] = h[k]]]
  <2>1. View'[r] = [open |-> TRUE, holds |-> IF Sound(i) THEN data[i] ELSE Torn,
                    pos |-> k, got |-> IF Sound(i) THEN reader'[r].got ELSE Torn]
    BY <1>1, <1>4 DEF View, ContentsOf, Sound, Torn
  <2>2. Torn = [Torn EXCEPT ![k] = Torn[k]]
    BY <1>5 DEF Torn
  <2>3. (IF Sound(i) THEN reader'[r].got ELSE Torn) = [g EXCEPT ![k] = h[k]]
    BY <1>6, <1>7, <2>2
  <2>. QED
    BY <1>7, <2>1, <2>3
<1>10. View'[r] = [View[r] EXCEPT !.pos = k, !.got[k] = h[k]]
  <2>1. View[r].holds = h /\ View[r].pos = reader[r].pos /\ View[r].got = g
    BY <1>8
  <2>2. /\ View'[r].open = View[r].open /\ View'[r].holds = h /\ View'[r].pos = k
        /\ View'[r].got = [g EXCEPT ![k] = h[k]]
    BY <1>8, <1>9
  <2>3. /\ View[r] \in [open : BOOLEAN, holds : {h}, pos : {reader[r].pos, k},
                        got : {g, [g EXCEPT ![k] = h[k]]}]
        /\ View'[r] \in [open : BOOLEAN, holds : {h}, pos : {reader[r].pos, k},
                         got : {g, [g EXCEPT ![k] = h[k]]}]
    BY <1>8, <1>9
  <2>. QED
    BY ONLY ZenonT(30), <2>1, <2>2, <2>3
<1>11. View' = [View EXCEPT ![r] = [@ EXCEPT !.pos = k, !.got[k] = h[k]]]
  BY <1>3, <1>10, Domains
<1>12. /\ View[r].open /\ View[r].pos <= ImportMax
       /\ View[r].pos + 1 = k /\ View[r].holds[k] = h[k]
  BY <1>5, <1>8
<1>. QED
  BY <1>2, <1>11, <1>12 DEF Abstract!Send

\* A deleted name is gone from the shelf, and no other.
LEMMA RemoveStep ==
  ASSUME IInv, [Next]_vars, Deletes
  PROVE  UNCHANGED Abstract!storeVars \/ \E f \in Files : Abstract!Remove(f)
<1>1. State' = State /\ Goal' = Goal /\ crossed' = crossed /\ View' = View
  BY ViewSame DEF Deletes, SameSaves, State, Goal, Active
<1>2. CASE full' = full
  BY <1>1, <1>2, ShelfSame DEF Abstract!storeVars
<1>3. ASSUME NEW f \in Files, Delete(f) PROVE Abstract!Remove(f)
  <2>1. /\ full[f] # None /\ full'[f] = None
        /\ \A g \in Files \ {f} : full'[g] = full[g]
    BY <1>3 DEF Delete, IInv, TypeOK
  <2>2. Shelf'[f] = None /\ \A g \in Files \ {f} : Shelf'[g] = Shelf[g]
    <3>1. Shelf'[f] = None
      BY <2>1 DEF Shelf
    <3>2. \A g \in Files \ {f} : Shelf'[g] = Shelf[g]
      BY <2>1, ShelfAt
    <3>. QED
      BY <3>1, <3>2
  <2>3. Shelf' = [Shelf EXCEPT ![f] = None]
    BY <2>2, Domains
  <2>4. Shelf[f] # None
    BY <2>1, ShelfNotNone
  <2>. QED
    BY <1>1, <2>3, <2>4 DEF Abstract!Remove
<1>. QED
  BY <1>2, <1>3 DEF Deletes

\* The death of the process changes no file, and no save is running after it.
LEMMA KilledStep ==
  ASSUME IInv, [Next]_vars, Dies
  PROVE  Abstract!Killed
<1>1. Shelf' = Shelf /\ crossed' = crossed
  BY ShelfSame DEF Dies
<1>2. \A w \in Saves : /\ State'[w] \in {"idle", "stored", "failed"}
                       /\ State'[w] # State[w] => State'[w] = "failed" /\ State[w] # "stored"
  <2>1. \A w \in Saves : save'[w].pc \in {"idle", "ok", "err", "dead"}
    <3>1. TypeOK'
      BY TypeStep DEF IInv
    <3>. QED
      BY <3>1 DEF Dies, TypeOK, SaveType
  <2>. QED
    BY <2>1 DEF Dies, State, Active
<1>3. State' \in [Saves -> {"idle", "stored", "failed"}]
  BY <1>2, Domains
<1>4. Goal' = [w \in Saves |-> None]
  BY DEF Dies, Goal, Active
<1>5. View' = [r \in Readers |-> Abstract!Closed]
  <2>1. Empty = Abstract!Blank
    BY DEF Empty, Blocks, Abstract!Blocks, Abstract!Blank
  <2>2. \A r \in Readers : reader'[r].fd = None
    BY DEF Dies
  <2>. QED
    BY <2>1, <2>2 DEF View, Abstract!Closed, Empty
<1>. QED
  BY <1>1, <1>2, <1>3, <1>4, <1>5 DEF Abstract!Killed

\* Every step is one of the store, or leaves the store as it is.
LEMMA StepRefines ==
  ASSUME IInv, [Next]_vars
  PROVE  [Abstract!StoreNext]_Abstract!storeVars
<1>1. Files = Abstract!Names
  BY DEF Files, Abstract!Names
<1>2. ASSUME NEW u \in Saves, Asks(u) \/ Creates(u) \/ Copies(u) \/ Moves(u) \/ Undoes(u)
      PROVE  [Abstract!StoreNext]_Abstract!storeVars
  BY <1>2, QuietStep DEF Abstract!StoreNext
<1>3. ASSUME NEW u \in Saves, Chooses(u) PROVE Abstract!StoreNext
  BY <1>1, <1>3, BeginStep DEF Abstract!StoreNext
<1>4. ASSUME NEW u \in Saves, Publishes(u) PROVE Abstract!StoreNext
  BY <1>4, StoreStep DEF Abstract!StoreNext
<1>5. CASE Dies
  BY <1>5, KilledStep DEF Abstract!StoreNext
<1>6. CASE Deletes
  BY <1>1, <1>6, RemoveStep DEF Abstract!StoreNext
<1>7. ASSUME NEW r \in Readers, Opens(r) PROVE Abstract!StoreNext
  BY <1>1, <1>7, FetchStep DEF Abstract!StoreNext
<1>8. ASSUME NEW r \in Readers, Reads(r) PROVE Abstract!StoreNext
  BY <1>8, SendStep DEF Abstract!StoreNext
<1>9. TypeOK /\ Private
  BY DEF IInv
<1>. QED
  BY Effects, <1>2, <1>3, <1>4, <1>5, <1>6, <1>7, <1>8, <1>9

\* The store begins as the hub's folder does.
LEMMA InitRefines == Init => Abstract!StoreInit
<1>1. SUFFICES ASSUME Init PROVE Abstract!StoreInit
  OBVIOUS
<1>2. /\ full \in [Files -> {Old, None}] /\ crossed = {}
      /\ \A w \in Saves : save[w].pc = "idle"
      /\ \A r \in Readers : reader[r].fd = None
  BY <1>1 DEF Init
<1>3. data[Old] = Abstract!Contents(Old, 1) /\ Sound(Old)
  <2>1. data[Old] = [Empty EXCEPT ![1] = Old]
    BY <1>1 DEF Init, Inodes
  <2>2. [Empty EXCEPT ![1] = Old] = [k \in Blocks |-> IF k <= 1 THEN Old ELSE None]
    BY SizesAssumption DEF Empty, Blocks
  <2>. QED
    BY <2>1, <2>2 DEF Abstract!Contents, Blocks, Abstract!Blocks, Sound
<1>4. Shelf \in [Abstract!Names -> {None, Abstract!Contents(Old, 1)}]
  <2>1. \A f \in Files : Shelf[f] \in {None, Abstract!Contents(Old, 1)}
    <3>1. TAKE f \in Files
    <3>2. full[f] = Old \/ full[f] = None
      BY <1>2
    <3>. QED
      BY <1>3, <3>2 DEF Shelf, ContentsOf
  <2>. QED
    BY <2>1, Domains DEF Files, Abstract!Names
<1>5. State = [w \in Saves |-> "idle"] /\ Goal = [w \in Saves |-> None]
  BY <1>2 DEF State, Goal, Active
<1>6. View = [r \in Readers |-> Abstract!Closed]
  <2>1. Empty = Abstract!Blank
    BY DEF Empty, Blocks, Abstract!Blocks, Abstract!Blank
  <2>. QED
    BY <1>2, <2>1 DEF View, Abstract!Closed
<1>. QED
  BY <1>2, <1>4, <1>5, <1>6 DEF Abstract!StoreInit

\* The file tree keeps what the store promises, for any number of saves, downloads, names
\* and blocks: saveUploadWithLimit, ImportRegularFile, Remove and OpenRead, run at once and
\* cut short by crashes, never let anyone see a half-written file, replace one by an import
\* or change one under its reader, except for saves that met under one name.
THEOREM FilesAreKeptWhole == Spec => KeepsFilesWhole
<1>1. Init => Abstract!StoreInit
  BY InitRefines
<1>2. IInv /\ [Next]_vars => [Abstract!StoreNext]_Abstract!storeVars
  BY StepRefines
<1>. QED
  BY <1>1, <1>2, Invariance, PTL DEF Spec, KeepsFilesWhole, Abstract!StoreSpec
=============================================================================
