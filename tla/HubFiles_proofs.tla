---------------------------- MODULE HubFiles_proofs ----------------------------
(***************************************************************************)
(* Proofs about HubFiles, for any number of saves, files and blocks: a save *)
(* that shares its destination with no other save publishes exactly what it *)
(* was sent, and what a download has opened is never written again.         *)
(*                                                                          *)
(* The argument follows the inode. Private says which inode a save writes:  *)
(* an inode behind a .partial name is written only by saves whose           *)
(* destination is that name, and an inode that was never created is nowhere.*)
(* Alone says what crossed records: a save outside it has its destination   *)
(* for itself. From these, a lone save's inode is written by nobody else    *)
(* before its rename (LoneWriting) and after it (Published), and no reader  *)
(* has it before (Unseen).                                                  *)
(***************************************************************************)
EXTENDS HubFiles, TLAPS

\* The save has an open descriptor it may still write to or rename.
Writing(w) == save[w].pc \in {"copy", "rename"}

\* The save has not called os.Create yet.
Fresh(w) == save[w].pc \in {"idle", "stat", "create"}

Private ==
  /\ \A w \in Saves : Writing(w) => save[w].fd \in Saves
  /\ \A w \in Saves : Fresh(w) => /\ save[w].pos = 0 /\ save[w].fd = None /\ pub[w] = None
                                  /\ \A f \in Files : part[f] # w
                                  /\ \A u \in Saves : save[u].fd # w /\ pub[u] # w
  /\ \A f, g \in Files : part[f] # None /\ part[f] = part[g] => f = g
  /\ \A w \in Saves, f \in Files : Writing(w) /\ part[f] = save[w].fd => f = save[w].dest
  /\ \A u, w \in Saves : Writing(u) /\ Writing(w) /\ save[u].fd = save[w].fd
                           => save[u].dest = save[w].dest

Alone ==
  \A w \in Saves \ crossed : \A u \in Saves \ {w} :
    Active(w) /\ Active(u) => save[u].dest # save[w].dest

LoneWriting ==
  \A w \in Saves \ crossed :
    Writing(w) => part[save[w].dest] = save[w].fd /\ Whole(save[w].fd, w)

Published ==
  \A w \in Saves \ crossed : save[w].pc = "ok" =>
    /\ pub[w] \in Saves
    /\ Whole(pub[w], w)
    /\ \A f \in Files : part[f] # pub[w]
    /\ \A u \in Saves : Writing(u) => save[u].fd # pub[w]

\* What has passed the size check is within the limit.
Sized == \A w \in Saves : save[w].pc \in {"rename", "ok"} => save[w].pos <= Limit(save[w].kind)

\* The name that a lone import has chosen stays free until its rename.
FreeName ==
  \A w \in Saves \ crossed :
    save[w].kind = "import" /\ save[w].pc \in {"create", "copy", "rename"}
      => full[save[w].dest] = None

\* A .partial name has an active save that will rename or remove it.
Accounted ==
  crashes = 0 =>
    \A f \in Files : part[f] # None =>
      \E w \in Saves : save[w].dest = f /\ save[w].pc \in {"copy", "rename", "undo"}

\* What has no name but a .partial one, or was never created, has not been read.
Unseen ==
  /\ \A f \in Files : part[f] # None => /\ \A g \in Files : full[g] # part[f]
                                        /\ \A r \in Readers : reader[r].fd # part[f]
  /\ \A w \in Saves : Fresh(w) => /\ \A g \in Files : full[g] # w
                                  /\ \A r \in Readers : reader[r].fd # w
  /\ \A w \in Saves : pub[w] # None => save[w].pc = "ok"

IInv ==
  /\ TypeOK /\ Private /\ Alone /\ LoneWriting /\ Published /\ Sized /\ FreeName /\ Accounted
  /\ Unseen /\ DownloadIsOneFile

-----------------------------------------------------------------------------
(* Type correctness.                                                         *)

\* The choice of a destination keeps the types.
LEMMA ChooseType ==
  ASSUME TypeOK, NEW u \in Saves, NEW f \in Files, NEW kind \in {"upload", "import"},
         Choose(u, f, kind)
  PROVE  TypeOK'
<1>1. [save[u] EXCEPT !.pc = "create", !.dest = f, !.kind = kind] \in SaveType
  BY ZenonT(30) DEF TypeOK, SaveType
<1>2. save' \in [Saves -> SaveType]
  BY <1>1 DEF Choose, TypeOK
<1>3. crossed' \in SUBSET Saves
  BY DEF TypeOK, Choose
<1>. QED
  BY <1>2, <1>3 DEF TypeOK, Choose, tree, RestUnchanged

\* So does a step of the program counter.
LEMMA CounterType ==
  ASSUME TypeOK, NEW u \in Saves, NEW pc \in {"rename", "undo", "ok", "err", "dead"}
  PROVE  /\ [save[u] EXCEPT !.pc = pc] \in SaveType
         /\ [save EXCEPT ![u].pc = pc] \in [Saves -> SaveType]
<1>1. save[u] \in SaveType
  BY DEF TypeOK
<1>2. [save[u] EXCEPT !.pc = pc] \in SaveType
  BY <1>1 DEF SaveType
<1>3. [save EXCEPT ![u] = [save[u] EXCEPT !.pc = pc]] \in [Saves -> SaveType]
  BY <1>2 DEF TypeOK
<1>. QED
  BY <1>2, <1>3

\* Every step keeps the state in its domain.
LEMMA TypeStep ==
  ASSUME TypeOK, Private, [Next]_vars
  PROVE  TypeOK'
<1>. USE SizesAssumption
<1>1. \A w \in Saves : save[w].dest \in Files
  BY DEF TypeOK, SaveType
<1>2. ASSUME NEW u \in Saves, NEW f \in Files, StartUpload(u, f) PROVE TypeOK'
  BY <1>2, ChooseType DEF StartUpload
<1>3. ASSUME NEW u \in Saves, NEW b \in Bases, StartImport(u, b) PROVE TypeOK'
  <2>1. <<b, 0>> \in Files
    BY DEF Files
  <2>2. [save[u] EXCEPT !.pc = "stat", !.kind = "import", !.dest = <<b, 0>>] \in SaveType
    BY ZenonT(30), <2>1 DEF TypeOK, SaveType
  <2>3. save' \in [Saves -> SaveType]
    BY <1>3, <2>2 DEF TypeOK, StartImport
  <2>. QED
    BY <1>3, <2>3 DEF TypeOK, StartImport, tree, RestUnchanged
<1>4. ASSUME NEW u \in Saves, StatFree(u) PROVE TypeOK'
  BY <1>1, <1>4, ChooseType DEF StatFree
<1>5. ASSUME NEW u \in Saves, StatTaken(u) \/ StatFails(u) PROVE TypeOK'
  <2>1. ASSUME save[u].dest[2] < MaxSuffix,
               save' = [save EXCEPT ![u].dest = <<save[u].dest[1], save[u].dest[2] + 1>>]
        PROVE  save' \in [Saves -> SaveType]
    <3>1. <<save[u].dest[1], save[u].dest[2] + 1>> \in Files
      BY <1>1, <2>1 DEF Files
    <3>2. [save[u] EXCEPT !.dest = <<save[u].dest[1], save[u].dest[2] + 1>>] \in SaveType
      BY <3>1 DEF TypeOK, SaveType
    <3>. QED
      BY <2>1, <3>2 DEF TypeOK
  <2>2. ASSUME save' = [save EXCEPT ![u].pc = "err"] PROVE save' \in [Saves -> SaveType]
    BY <2>2, CounterType
  <2>3. save' \in [Saves -> SaveType]
    BY <1>5, <2>1, <2>2 DEF StatTaken, StatFails
  <2>. QED
    BY <1>5, <2>3 DEF TypeOK, StatTaken, StatFails, tree, RestUnchanged
<1>6. ASSUME NEW u \in Saves, Create(u) PROVE TypeOK'
  <2>1. Opened(u) \in Saves
    BY <1>1 DEF TypeOK, Opened
  <2>2. [save[u] EXCEPT !.pc = "copy", !.fd = Opened(u)] \in SaveType
    BY <2>1 DEF TypeOK, SaveType
  <2>3. save' \in [Saves -> SaveType]
    BY <1>6, <2>2 DEF TypeOK, Create
  <2>4. /\ part' \in [Files -> Saves \cup {None}]
        /\ data' \in [Inodes -> [Blocks -> Inodes \cup {None}]]
    BY <1>6, <2>1 DEF TypeOK, Create, Inodes, Empty
  <2>. QED
    BY <1>6, <2>3, <2>4 DEF TypeOK, Create, RestUnchanged
<1>7. ASSUME NEW u \in Saves, CreateFails(u) PROVE TypeOK'
  <2>1. save' \in [Saves -> SaveType]
    BY <1>7, CounterType DEF CreateFails
  <2>. QED
    BY <1>7, <2>1 DEF TypeOK, CreateFails, tree, RestUnchanged
<1>8. ASSUME NEW u \in Saves, Copy(u) PROVE TypeOK'
  <2>1. save' \in [Saves -> SaveType]
    BY <1>8 DEF TypeOK, Copy, SaveType, Limit
  <2>2. save[u].pos + 1 \in Blocks /\ save[u].fd \in Saves
    BY <1>8 DEF TypeOK, Copy, SaveType, Limit, Blocks, Private, Writing
  <2>3. data' \in [Inodes -> [Blocks -> Inodes \cup {None}]]
    BY <1>8, <2>2 DEF TypeOK, Copy, Inodes
  <2>. QED
    BY <1>8, <2>1, <2>3 DEF TypeOK, Copy, RestUnchanged
<1>9. ASSUME NEW u \in Saves, CopyEnds(u) PROVE TypeOK'
  <2>1. save' \in [Saves -> SaveType]
    BY <1>9, CounterType DEF CopyEnds
  <2>. QED
    BY <1>9, <2>1 DEF TypeOK, CopyEnds, tree, RestUnchanged
<1>10. ASSUME NEW u \in Saves, CopyFails(u) PROVE TypeOK'
  <2>1. save' \in [Saves -> SaveType]
    BY <1>10, CounterType DEF CopyFails
  <2>. QED
    BY <1>10, <2>1 DEF TypeOK, CopyFails, tree, RestUnchanged
<1>11. ASSUME NEW u \in Saves, Rename(u) PROVE TypeOK'
  <2>1. save' = [save EXCEPT ![u].pc = "ok"] \/ save' = [save EXCEPT ![u].pc = "undo"]
    BY <1>11 DEF Rename
  <2>2. save' \in [Saves -> SaveType]
    BY <2>1, CounterType
  <2>3. /\ full' \in [Files -> Inodes \cup {None}]
        /\ part' \in [Files -> Saves \cup {None}]
        /\ pub' \in [Saves -> Saves \cup {None}]
    BY <1>1, <1>11 DEF TypeOK, Rename, Inodes
  <2>. QED
    BY <1>11, <2>2, <2>3 DEF TypeOK, Rename, RestUnchanged
<1>12. ASSUME NEW u \in Saves, Undo(u) PROVE TypeOK'
  <2>1. save' \in [Saves -> SaveType]
    BY <1>12, CounterType DEF Undo
  <2>2. part' \in [Files -> Saves \cup {None}]
    BY <1>12 DEF TypeOK, Undo
  <2>. QED
    BY <1>12, <2>1, <2>2 DEF TypeOK, Undo, RestUnchanged
<1>13. ASSUME NEW r \in Readers, NEW f \in Files, Open(r, f) PROVE TypeOK'
  <2>1. [fd |-> full[f], got |-> Empty, pos |-> 0] \in ReaderType
    BY DEF TypeOK, ReaderType, Empty
  <2>2. reader' \in [Readers -> ReaderType]
    BY <1>13, <2>1 DEF TypeOK, Open
  <2>. QED
    BY <1>13, <2>2 DEF TypeOK, Open, tree
<1>14. ASSUME NEW r \in Readers, Read(r) PROVE TypeOK'
  <2>1. reader[r].pos + 1 \in Blocks /\ reader[r].pos + 1 \in 0 .. ImportMax + 1
    BY <1>14 DEF TypeOK, Read, ReaderType, Blocks
  <2>2. data[reader[r].fd][reader[r].pos + 1] \in Inodes \cup {None}
    BY <1>14, <2>1 DEF TypeOK, ReaderType, Read
  <2>3. [reader[r] EXCEPT !.pos = reader[r].pos + 1,
           !.got[reader[r].pos + 1] = data[reader[r].fd][reader[r].pos + 1]] \in ReaderType
    BY <2>1, <2>2 DEF TypeOK, ReaderType
  <2>4. reader' \in [Readers -> ReaderType]
    BY <1>14, <2>3 DEF TypeOK, Read
  <2>. QED
    BY <1>14, <2>4 DEF TypeOK, Read, tree
<1>15. ASSUME NEW f \in Files, Delete(f) PROVE TypeOK'
  BY <1>15 DEF TypeOK, Delete
<1>16. ASSUME Crash PROVE TypeOK'
  <2>1. save' \in [Saves -> SaveType]
    BY <1>16, CounterType DEF TypeOK, Crash
  <2>2. [fd |-> None, got |-> Empty, pos |-> 0] \in ReaderType
    BY DEF ReaderType, Empty
  <2>3. reader' \in [Readers -> ReaderType] /\ crashes' \in 0 .. MaxCrashes
    BY <1>16, <2>2 DEF TypeOK, Crash
  <2>. QED
    BY <1>16, <2>1, <2>3 DEF TypeOK, Crash, tree
<1>17. CASE UNCHANGED vars
  BY <1>17 DEF TypeOK, vars, tree
<1>. QED
  BY ONLY [Next]_vars, <1>2, <1>3, <1>4, <1>5, <1>6, <1>7, <1>8, <1>9, <1>10, <1>11, <1>12,
          <1>13, <1>14, <1>15, <1>16, <1>17
  DEF Next, Save

-----------------------------------------------------------------------------
(* What the steps do to the parts of the state that the invariant speaks of, *)
(* field by field. The steps with the same effect are taken together.        *)

Others(u) == \A w \in Saves \ {u} : save'[w] = save[w]

SameRest(u) ==
  save'[u].dest = save[u].dest /\ save'[u].fd = save[u].fd /\ save'[u].kind = save[u].kind

SameFiles == UNCHANGED <<full, part, data, pub, crashes, reader>>

\* StartImport, StatTaken, StatFails: u looks for a name, or gives up.
Asks(u) ==
  /\ save[u].pc \in {"idle", "stat"} /\ save'[u].pc \in {"stat", "err"}
  /\ save'[u].fd = save[u].fd /\ save'[u].pos = save[u].pos
  /\ Others(u) /\ SameFiles /\ crossed' = crossed

\* StartUpload, StatFree: u has its destination.
Chooses(u) ==
  /\ save[u].pc \in {"idle", "stat"} /\ save'[u].pc = "create"
  /\ save'[u].fd = save[u].fd /\ save'[u].pos = save[u].pos
  /\ save'[u].kind = "import" => full[save'[u].dest] = None
  /\ \A w \in Saves : w \in crossed => w \in crossed'
  /\ \A w \in Saves \ {u} :
       Active(w) /\ save[w].dest = save'[u].dest => w \in crossed' /\ u \in crossed'
  /\ Others(u) /\ SameFiles
  /\ Choose(u, save'[u].dest, save'[u].kind)

\* Create: u opens an inode of its own, or the one behind its .partial name.
Creates(u) ==
  /\ save[u].pc = "create" /\ save'[u].pc = "copy"
  /\ save'[u].fd = Opened(u) /\ Opened(u) \in Saves
  /\ save'[u].dest = save[u].dest /\ save'[u].pos = save[u].pos /\ save'[u].kind = save[u].kind
  /\ part'[save[u].dest] = Opened(u)
  /\ \A f \in Files \ {save[u].dest} : part'[f] = part[f]
  /\ \A k \in Blocks : data'[Opened(u)][k] = None
  /\ \A i \in Saves \ {Opened(u)}, k \in Blocks : data'[i][k] = data[i][k]
  /\ Others(u) /\ UNCHANGED <<full, pub, crossed, crashes, reader>>

\* Copy: u writes its next block.
Copies(u) ==
  /\ save[u].pc = "copy" /\ save'[u].pc = "copy"
  /\ save'[u].pos = save[u].pos + 1 /\ SameRest(u)
  /\ \A k \in Blocks :
       data'[save[u].fd][k] = IF k = save[u].pos + 1 THEN u ELSE data[save[u].fd][k]
  /\ \A i \in Saves \ {save[u].fd}, k \in Blocks : data'[i][k] = data[i][k]
  /\ Others(u) /\ UNCHANGED <<full, part, pub, crossed, crashes, reader>>

\* CreateFails, CopyEnds, CopyFails and a failed Rename: only u's counter moves.
Moves(u) ==
  /\ \/ save[u].pc = "create" /\ save'[u].pc = "err"
     \/ save[u].pc = "copy" /\ save'[u].pc = "rename" /\ save[u].pos <= Limit(save[u].kind)
     \/ save[u].pc \in {"copy", "rename"} /\ save'[u].pc = "undo"
  /\ save'[u].pos = save[u].pos /\ SameRest(u)
  /\ Others(u) /\ SameFiles /\ crossed' = crossed

\* A Rename that succeeds.
Publishes(u) ==
  /\ save[u].pc = "rename" /\ save'[u].pc = "ok"
  /\ save'[u].pos = save[u].pos /\ SameRest(u)
  /\ part[save[u].dest] # None
  /\ pub'[u] = part[save[u].dest] /\ \A w \in Saves \ {u} : pub'[w] = pub[w]
  /\ full'[save[u].dest] = part[save[u].dest] /\ part'[save[u].dest] = None
  /\ \A f \in Files \ {save[u].dest} : full'[f] = full[f] /\ part'[f] = part[f]
  /\ Others(u) /\ UNCHANGED <<data, crossed, crashes, reader>>

\* Undo: the .partial name goes.
Undoes(u) ==
  /\ save[u].pc = "undo" /\ save'[u].pc = "err"
  /\ save'[u].pos = save[u].pos /\ SameRest(u)
  /\ part'[save[u].dest] = None
  /\ \A f \in Files \ {save[u].dest} : part'[f] = part[f]
  /\ Others(u) /\ UNCHANGED <<full, data, pub, crossed, crashes, reader>>

\* Crash: no save is active any more.
Dies ==
  /\ \A w \in Saves :
       /\ save'[w].pc = save[w].pc \/ (save'[w].pc = "dead" /\ save[w].pc # "ok")
       /\ save'[w].pc \notin {"stat", "create", "copy", "rename", "undo"}
       /\ save'[w].pos = save[w].pos /\ SameRest(w)
  /\ \A r \in Readers : reader'[r].fd = None
  /\ crashes' > 0
  /\ UNCHANGED <<full, part, data, pub, crossed>>

SameSaves == UNCHANGED <<part, data, save, pub, crossed, crashes>>

OtherReaders(r) == \A q \in Readers \ {r} : reader'[q] = reader[q]

\* Open: the download has the inode, and has sent nothing.
Opens(r) ==
  /\ \E f \in Files : full[f] # None /\ reader'[r].fd = full[f] /\ Open(r, f)
  /\ reader'[r].pos = 0
  /\ OtherReaders(r) /\ SameSaves /\ full' = full

\* Read: the download has sent one more block.
Reads(r) ==
  /\ reader[r].fd # None
  /\ reader'[r].pos = reader[r].pos + 1 /\ reader[r].pos + 1 \in Blocks
  /\ reader'[r].fd = reader[r].fd
  /\ \A k \in Blocks : reader'[r].got[k] = IF k = reader[r].pos + 1 THEN data[reader[r].fd][k]
                                           ELSE reader[r].got[k]
  /\ OtherReaders(r) /\ SameSaves /\ full' = full

\* Delete, or nothing: a name goes.
Deletes ==
  /\ full' # full => \E f \in Files : Delete(f)
  /\ \A f \in Files : full'[f] = full[f] \/ full'[f] = None
  /\ SameSaves /\ reader' = reader

\* The types of single fields.
LEMMA Types ==
  ASSUME TypeOK
  PROVE  /\ \A w \in Saves : /\ save[w].dest \in Files /\ save[w].fd \in Saves \cup {None}
                             /\ save[w].pos \in Nat /\ pub[w] \in Saves \cup {None}
         /\ \A f \in Files : part[f] \in Saves \cup {None}
         /\ \A r \in Readers : reader[r].pos \in 0 .. ImportMax + 1
         /\ None \notin Saves
BY SizesAssumption, ContentsAssumption DEF TypeOK, SaveType, ReaderType

\* The choice of a destination.
LEMMA ChooseEffect ==
  ASSUME TypeOK, NEW u \in Saves, NEW f \in Files, NEW kind, Choose(u, f, kind),
         save[u].pc \in {"idle", "stat"}, kind = "import" => full[f] = None
  PROVE  Chooses(u)
<1>1. /\ save'[u].pc = "create" /\ save'[u].dest = f /\ save'[u].kind = kind
      /\ save'[u].fd = save[u].fd /\ save'[u].pos = save[u].pos
      /\ Others(u)
  BY DEF Choose, Others, TypeOK, SaveType
<1>2. \A w \in Saves : w \in crossed => w \in crossed'
  BY DEF Choose
<1>3. \A w \in Saves \ {u} : Active(w) /\ save[w].dest = f => w \in crossed' /\ u \in crossed'
  BY DEF Choose
<1>4. SameFiles
  BY DEF Choose, SameFiles, tree, RestUnchanged
<1>5. Choose(u, save'[u].dest, save'[u].kind)
  BY <1>1
<1>. QED
  BY <1>1, <1>2, <1>3, <1>4, <1>5 DEF Chooses

\* Every step has one of these effects.
LEMMA Effects ==
  ASSUME TypeOK, Private, [Next]_vars
  PROVE  \/ \E u \in Saves : \/ Asks(u) \/ Chooses(u) \/ Creates(u) \/ Copies(u)
                             \/ Moves(u) \/ Publishes(u) \/ Undoes(u)
         \/ Dies \/ Deletes
         \/ \E r \in Readers : Opens(r) \/ Reads(r)
<1>1. ASSUME NEW u \in Saves, NEW f \in Files, StartUpload(u, f) PROVE Chooses(u)
  BY <1>1, ChooseEffect DEF StartUpload
<1>2. ASSUME NEW u \in Saves, NEW b \in Bases, StartImport(u, b) PROVE Asks(u)
  BY <1>2 DEF StartImport, Asks, Others, SameFiles, TypeOK, SaveType, tree, RestUnchanged
<1>3. ASSUME NEW u \in Saves, StatFree(u) PROVE Chooses(u)
  BY <1>3, ChooseEffect, Types DEF StatFree
<1>4. ASSUME NEW u \in Saves, StatTaken(u) \/ StatFails(u) PROVE Asks(u)
  <2>1. \/ save' = [save EXCEPT ![u].dest = <<save[u].dest[1], save[u].dest[2] + 1>>]
        \/ save' = [save EXCEPT ![u].pc = "err"]
    BY <1>4 DEF StatTaken, StatFails
  <2>2. /\ Others(u) /\ save'[u].pc \in {"stat", "err"}
        /\ save'[u].fd = save[u].fd /\ save'[u].pos = save[u].pos
    BY <1>4, <2>1 DEF StatTaken, StatFails, Others, TypeOK, SaveType
  <2>. QED
    BY <1>4, <2>2 DEF StatTaken, StatFails, Asks, SameFiles, tree, RestUnchanged
<1>5. ASSUME NEW u \in Saves, Create(u) PROVE Creates(u)
  <2>1. Opened(u) \in Saves
    BY Types DEF Opened
  <2>2. /\ Others(u)
        /\ save'[u].pc = "copy" /\ save'[u].fd = Opened(u)
        /\ save'[u].dest = save[u].dest /\ save'[u].pos = save[u].pos
        /\ save'[u].kind = save[u].kind
    BY <1>5 DEF Create, Others, TypeOK, SaveType
  <2>3. /\ part'[save[u].dest] = Opened(u)
        /\ \A f \in Files \ {save[u].dest} : part'[f] = part[f]
    BY <1>5, Types DEF Create, TypeOK
  <2>4. /\ data'[Opened(u)] = Empty
        /\ \A i \in Saves \ {Opened(u)} : data'[i] = data[i]
    BY <1>5, <2>1 DEF Create, TypeOK, Inodes
  <2>. QED
    BY <1>5, <2>1, <2>2, <2>3, <2>4 DEF Create, Creates, Empty, RestUnchanged
<1>6. ASSUME NEW u \in Saves, CreateFails(u) PROVE Moves(u)
  BY <1>6 DEF CreateFails, Moves, Others, SameRest, SameFiles, TypeOK, SaveType, tree,
     RestUnchanged
<1>7. ASSUME NEW u \in Saves, Copy(u) PROVE Copies(u)
  <2>1. save[u].fd \in Saves
    BY <1>7 DEF Private, Writing, Copy
  <2>2. /\ Others(u) /\ SameRest(u)
        /\ save'[u].pc = "copy" /\ save'[u].pos = save[u].pos + 1
    BY <1>7 DEF Copy, Others, SameRest, TypeOK, SaveType
  <2>3. data' = [data EXCEPT ![save[u].fd] = [@ EXCEPT ![save[u].pos + 1] = u]]
    BY <1>7 DEF Copy
  <2>4. \A k \in Blocks :
          data'[save[u].fd][k] = IF k = save[u].pos + 1 THEN u ELSE data[save[u].fd][k]
    BY <2>1, <2>3 DEF TypeOK, Inodes
  <2>5. \A i \in Saves \ {save[u].fd} : data'[i] = data[i]
    BY <2>1, <2>3 DEF TypeOK, Inodes
  <2>. QED
    BY <1>7, <2>2, <2>4, <2>5 DEF Copy, Copies, RestUnchanged
<1>8. ASSUME NEW u \in Saves, CopyEnds(u) PROVE Moves(u)
  BY <1>8 DEF CopyEnds, Moves, Others, SameRest, SameFiles, TypeOK, SaveType, tree,
     RestUnchanged
<1>9. ASSUME NEW u \in Saves, CopyFails(u) PROVE Moves(u)
  BY <1>9 DEF CopyFails, Moves, Others, SameRest, SameFiles, TypeOK, SaveType, tree,
     RestUnchanged
<1>10. ASSUME NEW u \in Saves, Rename(u) PROVE Publishes(u) \/ Moves(u)
  <2>1. CASE save' = [save EXCEPT ![u].pc = "undo"] /\ UNCHANGED <<full, part, pub>>
    BY <1>10, <2>1 DEF Rename, Moves, Others, SameRest, SameFiles, TypeOK, SaveType,
       RestUnchanged
  <2>2. CASE /\ part[save[u].dest] # None
             /\ full' = [full EXCEPT ![save[u].dest] = part[save[u].dest]]
             /\ part' = [part EXCEPT ![save[u].dest] = None]
             /\ pub' = [pub EXCEPT ![u] = part[save[u].dest]]
             /\ save' = [save EXCEPT ![u].pc = "ok"]
    <3>1. /\ Others(u) /\ SameRest(u)
          /\ save'[u].pc = "ok" /\ save'[u].pos = save[u].pos
      BY <2>2 DEF Others, SameRest, TypeOK, SaveType
    <3>2. /\ pub'[u] = part[save[u].dest] /\ \A w \in Saves \ {u} : pub'[w] = pub[w]
          /\ full'[save[u].dest] = part[save[u].dest] /\ part'[save[u].dest] = None
          /\ \A f \in Files \ {save[u].dest} : full'[f] = full[f] /\ part'[f] = part[f]
      BY <2>2, Types DEF TypeOK
    <3>. QED
      BY <1>10, <2>2, <3>1, <3>2 DEF Rename, Publishes, RestUnchanged
  <2>. QED
    BY <1>10, <2>1, <2>2 DEF Rename
<1>11. ASSUME NEW u \in Saves, Undo(u) PROVE Undoes(u)
  <2>1. /\ part'[save[u].dest] = None
        /\ \A f \in Files \ {save[u].dest} : part'[f] = part[f]
    BY <1>11, Types DEF Undo, TypeOK
  <2>. QED
    BY <1>11, <2>1 DEF Undo, Undoes, Others, SameRest, TypeOK, SaveType, RestUnchanged
<1>12. ASSUME NEW r \in Readers, NEW f \in Files, Open(r, f) PROVE Opens(r)
  BY <1>12 DEF Open, Opens, OtherReaders, SameSaves, TypeOK, tree
<1>13. ASSUME NEW r \in Readers, Read(r) PROVE Reads(r)
  <2>1. reader[r].pos + 1 \in Blocks
    BY <1>13, Types, SizesAssumption DEF Read, Blocks
  <2>2. reader' = [reader EXCEPT ![r] =
                     [@ EXCEPT !.pos = reader[r].pos + 1,
                               !.got[reader[r].pos + 1] = data[reader[r].fd][reader[r].pos + 1]]]
    BY <1>13 DEF Read
  <2>3. OtherReaders(r) /\ reader'[r].pos = reader[r].pos + 1 /\ reader'[r].fd = reader[r].fd
    BY <2>2 DEF OtherReaders, TypeOK, ReaderType
  <2>4. \A k \in Blocks :
          reader'[r].got[k] = IF k = reader[r].pos + 1 THEN data[reader[r].fd][k]
                              ELSE reader[r].got[k]
    BY <2>1, <2>2 DEF TypeOK, ReaderType
  <2>. QED
    BY <1>13, <2>1, <2>3, <2>4 DEF Read, Reads, SameSaves, tree
<1>14. ASSUME NEW f \in Files, Delete(f) PROVE Deletes
  BY <1>14 DEF Delete, Deletes, SameSaves, TypeOK
<1>15. ASSUME Crash PROVE Dies
  <2>1. crashes' > 0
    BY <1>15, SizesAssumption DEF Crash, TypeOK
  <2>2. \A w \in Saves : save'[w] = IF Active(w) \/ save[w].pc = "stat"
                                      THEN [save[w] EXCEPT !.pc = "dead"] ELSE save[w]
    BY <1>15 DEF Crash
  <2>3. \A w \in Saves :
          /\ save'[w].pc = save[w].pc \/ (save'[w].pc = "dead" /\ save[w].pc # "ok")
          /\ save'[w].pc \notin {"stat", "create", "copy", "rename", "undo"}
          /\ save'[w].pos = save[w].pos /\ SameRest(w)
    BY <2>2 DEF TypeOK, SaveType, Active, SameRest
  <2>4. \A r \in Readers : reader'[r].fd = None
    BY <1>15 DEF Crash
  <2>. QED
    BY <1>15, <2>1, <2>3, <2>4 DEF Crash, Dies, tree
<1>16. ASSUME UNCHANGED vars PROVE Deletes
  BY <1>16 DEF vars, tree, Deletes, SameSaves
<1>. QED
  BY ONLY [Next]_vars, <1>1, <1>2, <1>3, <1>4, <1>5, <1>6, <1>7, <1>8, <1>9, <1>10, <1>11,
          <1>12, <1>13, <1>14, <1>15, <1>16
  DEF Next, Save

-----------------------------------------------------------------------------
(* Each part of the invariant is preserved.                                  *)

\* Inodes stay private: os.Create opens a new one, or the one behind the name.
LEMMA PrivateStep ==
  ASSUME TypeOK, Private, [Next]_vars
  PROVE  Private'
<1>1. ASSUME NEW u \in Saves, Asks(u) PROVE Private'
  BY <1>1, Types DEF Private, Writing, Fresh, Asks, Others, SameFiles
<1>2. ASSUME NEW u \in Saves, Chooses(u) PROVE Private'
  BY <1>2, Types DEF Private, Writing, Fresh, Chooses, Others, SameFiles
<1>3. ASSUME NEW u \in Saves, Creates(u) PROVE Private'
  BY <1>3, Types DEF Private, Writing, Fresh, Creates, Others, Opened
<1>4. ASSUME NEW u \in Saves, Copies(u) PROVE Private'
  BY <1>4, Types DEF Private, Writing, Fresh, Copies, Others, SameRest
<1>5. ASSUME NEW u \in Saves, Moves(u) PROVE Private'
  BY <1>5, Types DEF Private, Writing, Fresh, Moves, Others, SameRest, SameFiles
<1>6. ASSUME NEW u \in Saves, Publishes(u) PROVE Private'
  BY <1>6, Types DEF Private, Writing, Fresh, Publishes, Others, SameRest
<1>7. ASSUME NEW u \in Saves, Undoes(u) PROVE Private'
  BY <1>7, Types DEF Private, Writing, Fresh, Undoes, Others, SameRest
<1>8. ASSUME Dies PROVE Private'
  BY <1>8, Types DEF Private, Writing, Fresh, Dies, SameRest
<1>9. ASSUME Deletes PROVE Private'
  BY <1>9, Types DEF Private, Writing, Fresh, Deletes, SameSaves
<1>10. ASSUME NEW r \in Readers, Opens(r) PROVE Private'
  BY <1>10, Types DEF Private, Writing, Fresh, Opens, OtherReaders, SameSaves
<1>11. ASSUME NEW r \in Readers, Reads(r) PROVE Private'
  BY <1>11, Types DEF Private, Writing, Fresh, Reads, OtherReaders, SameSaves
<1>. QED
  BY Effects, <1>1, <1>2, <1>3, <1>4, <1>5, <1>6, <1>7, <1>8, <1>9, <1>10, <1>11

\* Whoever meets another save at its destination is recorded in crossed.
LEMMA AloneStep ==
  ASSUME TypeOK, Private, Alone, [Next]_vars
  PROVE  Alone'
<1>1. ASSUME NEW u \in Saves, Asks(u) PROVE Alone'
  BY <1>1, Types DEF Alone, Active, Asks, Others, SameFiles
<1>2. ASSUME NEW u \in Saves, Chooses(u) PROVE Alone'
  BY <1>2, Types DEF Alone, Active, Chooses, Others, SameFiles
<1>3. ASSUME NEW u \in Saves, Creates(u) PROVE Alone'
  BY <1>3, Types DEF Alone, Active, Creates, Others
<1>4. ASSUME NEW u \in Saves, Copies(u) PROVE Alone'
  BY <1>4, Types DEF Alone, Active, Copies, Others, SameRest
<1>5. ASSUME NEW u \in Saves, Moves(u) PROVE Alone'
  BY <1>5, Types DEF Alone, Active, Moves, Others, SameRest, SameFiles
<1>6. ASSUME NEW u \in Saves, Publishes(u) PROVE Alone'
  BY <1>6, Types DEF Alone, Active, Publishes, Others, SameRest
<1>7. ASSUME NEW u \in Saves, Undoes(u) PROVE Alone'
  BY <1>7, Types DEF Alone, Active, Undoes, Others, SameRest
<1>8. ASSUME Dies PROVE Alone'
  BY <1>8, Types DEF Alone, Active, Dies, SameRest
<1>9. ASSUME Deletes PROVE Alone'
  BY <1>9, Types DEF Alone, Active, Deletes, SameSaves
<1>10. ASSUME NEW r \in Readers, Opens(r) PROVE Alone'
  BY <1>10, Types DEF Alone, Active, Opens, OtherReaders, SameSaves
<1>11. ASSUME NEW r \in Readers, Reads(r) PROVE Alone'
  BY <1>11, Types DEF Alone, Active, Reads, OtherReaders, SameSaves
<1>. QED
  BY Effects, <1>1, <1>2, <1>3, <1>4, <1>5, <1>6, <1>7, <1>8, <1>9, <1>10, <1>11

\* The size check stands between the copy and the rename.
LEMMA SizedStep ==
  ASSUME TypeOK, Private, Sized, [Next]_vars
  PROVE  Sized'
<1>1. ASSUME NEW u \in Saves, Asks(u) PROVE Sized'
  BY <1>1, Types DEF Sized, Asks, Others, SameFiles
<1>2. ASSUME NEW u \in Saves, Chooses(u) PROVE Sized'
  BY <1>2, Types DEF Sized, Chooses, Others, SameFiles
<1>3. ASSUME NEW u \in Saves, Creates(u) PROVE Sized'
  BY <1>3, Types DEF Sized, Creates, Others
<1>4. ASSUME NEW u \in Saves, Copies(u) PROVE Sized'
  BY <1>4, Types DEF Sized, Copies, Others, SameRest
<1>5. ASSUME NEW u \in Saves, Moves(u) PROVE Sized'
  BY <1>5, Types DEF Sized, Moves, Others, SameRest, SameFiles
<1>6. ASSUME NEW u \in Saves, Publishes(u) PROVE Sized'
  BY <1>6, Types DEF Sized, Publishes, Others, SameRest
<1>7. ASSUME NEW u \in Saves, Undoes(u) PROVE Sized'
  BY <1>7, Types DEF Sized, Undoes, Others, SameRest
<1>8. ASSUME Dies PROVE Sized'
  BY <1>8, Types DEF Sized, Dies, SameRest
<1>9. ASSUME Deletes PROVE Sized'
  BY <1>9, Types DEF Sized, Deletes, SameSaves
<1>10. ASSUME NEW r \in Readers, Opens(r) PROVE Sized'
  BY <1>10, Types DEF Sized, Opens, OtherReaders, SameSaves
<1>11. ASSUME NEW r \in Readers, Reads(r) PROVE Sized'
  BY <1>11, Types DEF Sized, Reads, OtherReaders, SameSaves
<1>. QED
  BY Effects, <1>1, <1>2, <1>3, <1>4, <1>5, <1>6, <1>7, <1>8, <1>9, <1>10, <1>11

\* Only a rename fills a name, and a lone save's name is renamed to by no other.
LEMMA FreeNameStep ==
  ASSUME TypeOK, Private, Alone, FreeName, [Next]_vars
  PROVE  FreeName'
<1>1. ASSUME NEW u \in Saves, Asks(u) PROVE FreeName'
  BY <1>1, Types DEF FreeName, Alone, Active, Asks, Others, SameFiles
<1>2. ASSUME NEW u \in Saves, Chooses(u) PROVE FreeName'
  BY <1>2, Types DEF FreeName, Alone, Active, Chooses, Others, SameFiles
<1>3. ASSUME NEW u \in Saves, Creates(u) PROVE FreeName'
  BY <1>3, Types DEF FreeName, Alone, Active, Creates, Others
<1>4. ASSUME NEW u \in Saves, Copies(u) PROVE FreeName'
  BY <1>4, Types DEF FreeName, Alone, Active, Copies, Others, SameRest
<1>5. ASSUME NEW u \in Saves, Moves(u) PROVE FreeName'
  BY <1>5, Types DEF FreeName, Alone, Active, Moves, Others, SameRest, SameFiles
<1>6. ASSUME NEW u \in Saves, Publishes(u) PROVE FreeName'
  BY <1>6, Types DEF FreeName, Alone, Active, Publishes, Others, SameRest
<1>7. ASSUME NEW u \in Saves, Undoes(u) PROVE FreeName'
  BY <1>7, Types DEF FreeName, Alone, Active, Undoes, Others, SameRest
<1>8. ASSUME Dies PROVE FreeName'
  BY <1>8, Types DEF FreeName, Alone, Active, Dies, SameRest
<1>9. ASSUME Deletes PROVE FreeName'
  BY <1>9, Types DEF FreeName, Alone, Active, Deletes, SameSaves
<1>10. ASSUME NEW r \in Readers, Opens(r) PROVE FreeName'
  BY <1>10, Types DEF FreeName, Alone, Active, Opens, OtherReaders, SameSaves
<1>11. ASSUME NEW r \in Readers, Reads(r) PROVE FreeName'
  BY <1>11, Types DEF FreeName, Alone, Active, Reads, OtherReaders, SameSaves
<1>. QED
  BY Effects, <1>1, <1>2, <1>3, <1>4, <1>5, <1>6, <1>7, <1>8, <1>9, <1>10, <1>11

\* A .partial name that appears has its creator, and one whose saves end is gone.
LEMMA AccountedStep ==
  ASSUME TypeOK, Private, Accounted, [Next]_vars
  PROVE  Accounted'
<1>1. ASSUME NEW u \in Saves, Asks(u) PROVE Accounted'
  BY <1>1, Types DEF Accounted, Asks, Others, SameFiles
<1>2. ASSUME NEW u \in Saves, Chooses(u) PROVE Accounted'
  BY <1>2, Types DEF Accounted, Chooses, Others, SameFiles
<1>3. ASSUME NEW u \in Saves, Creates(u) PROVE Accounted'
  BY <1>3, Types DEF Accounted, Creates, Others
<1>4. ASSUME NEW u \in Saves, Copies(u) PROVE Accounted'
  BY <1>4, Types DEF Accounted, Copies, Others, SameRest
<1>5. ASSUME NEW u \in Saves, Moves(u) PROVE Accounted'
  BY <1>5, Types DEF Accounted, Moves, Others, SameRest, SameFiles
<1>6. ASSUME NEW u \in Saves, Publishes(u) PROVE Accounted'
  BY <1>6, Types DEF Accounted, Publishes, Others, SameRest
<1>7. ASSUME NEW u \in Saves, Undoes(u) PROVE Accounted'
  BY <1>7, Types DEF Accounted, Undoes, Others, SameRest
<1>8. ASSUME Dies PROVE Accounted'
  BY <1>8, Types DEF Accounted, Dies, SameRest
<1>9. ASSUME Deletes PROVE Accounted'
  BY <1>9, Types DEF Accounted, Deletes, SameSaves
<1>10. ASSUME NEW r \in Readers, Opens(r) PROVE Accounted'
  BY <1>10, Types DEF Accounted, Opens, OtherReaders, SameSaves
<1>11. ASSUME NEW r \in Readers, Reads(r) PROVE Accounted'
  BY <1>11, Types DEF Accounted, Reads, OtherReaders, SameSaves
<1>. QED
  BY Effects, <1>1, <1>2, <1>3, <1>4, <1>5, <1>6, <1>7, <1>8, <1>9, <1>10, <1>11

\* Nobody else writes, renames or removes the inode of a lone save.
LEMMA LoneWritingStep ==
  ASSUME TypeOK, Private, Alone, LoneWriting, [Next]_vars
  PROVE  LoneWriting'
<1>1. ASSUME NEW u \in Saves, Asks(u) PROVE LoneWriting'
  BY <1>1, Types DEF LoneWriting, Alone, Active, Writing, Whole, Asks, Others, SameFiles
<1>2. ASSUME NEW u \in Saves, Chooses(u) PROVE LoneWriting'
  BY <1>2, Types DEF LoneWriting, Alone, Active, Writing, Whole, Chooses, Others, SameFiles
<1>3. ASSUME NEW u \in Saves, Creates(u) PROVE LoneWriting'
  <2>. SUFFICES ASSUME NEW w \in Saves \ crossed, Writing(w)'
                PROVE  /\ part'[save'[w].dest] = save'[w].fd
                       /\ \A k \in Blocks :
                            data'[save'[w].fd][k] = IF k <= save'[w].pos THEN w ELSE None
    BY <1>3 DEF Creates, LoneWriting, Whole
  <2>1. CASE w = u
    BY <1>3, <2>1, SizesAssumption, Types DEF Creates, Whole, Blocks, Private, Fresh
  <2>2. CASE w # u
    <3>1. save'[w] = save[w] /\ Writing(w)
      BY <1>3, <2>2 DEF Creates, Others, Writing
    <3>2. save[u].dest # save[w].dest
      BY <1>3, <2>2, <3>1 DEF Alone, Active, Writing, Creates
    <3>3. part[save[w].dest] = save[w].fd /\ save[w].fd \in Saves /\ Whole(save[w].fd, w)
      BY <3>1 DEF LoneWriting, Private
    <3>4. save[w].fd # Opened(u)
      BY <1>3, <3>1, <3>2, <3>3, Types DEF Private, Fresh, Opened, Creates
    <3>. QED
      BY <1>3, <3>1, <3>2, <3>3, <3>4, Types DEF Creates, Whole
  <2>. QED
    BY <2>1, <2>2
<1>4. ASSUME NEW u \in Saves, Copies(u) PROVE LoneWriting'
  <2>. SUFFICES ASSUME NEW w \in Saves \ crossed, Writing(w)'
                PROVE  /\ part'[save'[w].dest] = save'[w].fd
                       /\ \A k \in Blocks :
                            data'[save'[w].fd][k] = IF k <= save'[w].pos THEN w ELSE None
    BY <1>4 DEF Copies, LoneWriting, Whole
  <2>1. CASE w = u
    <3>1. Whole(save[u].fd, u) /\ part[save[u].dest] = save[u].fd
      BY <1>4, <2>1 DEF LoneWriting, Writing, Copies
    <3>. QED
      BY <1>4, <2>1, <3>1, SizesAssumption, Types DEF Copies, SameRest, Whole, Blocks
  <2>2. CASE w # u
    <3>1. save'[w] = save[w] /\ Writing(w) /\ Writing(u)
      BY <1>4, <2>2 DEF Copies, Others, Writing
    <3>2. save[u].fd # save[w].fd
      BY <1>4, <2>2, <3>1 DEF Alone, Active, Writing, Private
    <3>3. part[save[w].dest] = save[w].fd /\ save[w].fd \in Saves /\ Whole(save[w].fd, w)
      BY <3>1 DEF LoneWriting, Private
    <3>. QED
      BY <1>4, <3>1, <3>2, <3>3 DEF Copies, Whole
  <2>. QED
    BY <2>1, <2>2
<1>5. ASSUME NEW u \in Saves, Moves(u) PROVE LoneWriting'
  BY <1>5, Types DEF LoneWriting, Alone, Active, Writing, Whole, Moves, Others, SameRest,
     SameFiles
<1>6. ASSUME NEW u \in Saves, Publishes(u) PROVE LoneWriting'
  BY <1>6, Types DEF LoneWriting, Alone, Active, Writing, Whole, Publishes, Others, SameRest
<1>7. ASSUME NEW u \in Saves, Undoes(u) PROVE LoneWriting'
  BY <1>7, Types DEF LoneWriting, Alone, Active, Writing, Whole, Undoes, Others, SameRest
<1>8. ASSUME Dies PROVE LoneWriting'
  BY <1>8, Types DEF LoneWriting, Alone, Active, Writing, Whole, Dies, SameRest
<1>9. ASSUME Deletes PROVE LoneWriting'
  BY <1>9, Types DEF LoneWriting, Alone, Active, Writing, Whole, Deletes, SameSaves
<1>10. ASSUME NEW r \in Readers, Opens(r) PROVE LoneWriting'
  BY <1>10, Types DEF LoneWriting, Alone, Active, Writing, Whole, Opens, OtherReaders, SameSaves
<1>11. ASSUME NEW r \in Readers, Reads(r) PROVE LoneWriting'
  BY <1>11, Types DEF LoneWriting, Alone, Active, Writing, Whole, Reads, OtherReaders, SameSaves
<1>. QED
  BY Effects, <1>1, <1>2, <1>3, <1>4, <1>5, <1>6, <1>7, <1>8, <1>9, <1>10, <1>11

\* Nobody writes an inode once a lone save has published it.
LEMMA PublishedStep ==
  ASSUME TypeOK, Private, Alone, LoneWriting, Published, [Next]_vars
  PROVE  Published'
<1>1. ASSUME NEW u \in Saves, Asks(u) PROVE Published'
  BY <1>1, Types DEF Published, LoneWriting, Private, Alone, Active, Writing, Fresh, Whole,
     Asks, Others, SameFiles
<1>2. ASSUME NEW u \in Saves, Chooses(u) PROVE Published'
  BY <1>2, Types DEF Published, LoneWriting, Private, Alone, Active, Writing, Fresh, Whole,
     Chooses, Others, SameFiles
<1>3. ASSUME NEW u \in Saves, Creates(u) PROVE Published'
  BY <1>3, Types DEF Published, LoneWriting, Private, Alone, Active, Writing, Fresh, Whole,
     Creates, Others, Opened
<1>4. ASSUME NEW u \in Saves, Copies(u) PROVE Published'
  BY <1>4, Types DEF Published, LoneWriting, Private, Alone, Active, Writing, Fresh, Whole,
     Copies, Others, SameRest
<1>5. ASSUME NEW u \in Saves, Moves(u) PROVE Published'
  BY <1>5, Types DEF Published, LoneWriting, Private, Alone, Active, Writing, Fresh, Whole,
     Moves, Others, SameRest, SameFiles
<1>6. ASSUME NEW u \in Saves, Publishes(u) PROVE Published'
  BY <1>6, Types DEF Published, LoneWriting, Private, Alone, Active, Writing, Fresh, Whole,
     Publishes, Others, SameRest
<1>7. ASSUME NEW u \in Saves, Undoes(u) PROVE Published'
  BY <1>7, Types DEF Published, LoneWriting, Private, Alone, Active, Writing, Fresh, Whole,
     Undoes, Others, SameRest
<1>8. ASSUME Dies PROVE Published'
  BY <1>8, Types DEF Published, LoneWriting, Private, Alone, Active, Writing, Fresh, Whole,
     Dies, SameRest
<1>9. ASSUME Deletes PROVE Published'
  BY <1>9, Types DEF Published, LoneWriting, Private, Alone, Active, Writing, Fresh, Whole,
     Deletes, SameSaves
<1>10. ASSUME NEW r \in Readers, Opens(r) PROVE Published'
  BY <1>10, Types DEF Published, LoneWriting, Private, Alone, Active, Writing, Fresh, Whole,
     Opens, OtherReaders, SameSaves
<1>11. ASSUME NEW r \in Readers, Reads(r) PROVE Published'
  BY <1>11, Types DEF Published, LoneWriting, Private, Alone, Active, Writing, Fresh, Whole,
     Reads, OtherReaders, SameSaves
<1>. QED
  BY Effects, <1>1, <1>2, <1>3, <1>4, <1>5, <1>6, <1>7, <1>8, <1>9, <1>10, <1>11

\* A download opens a published inode, and what is published leaves its .partial name.
LEMMA UnseenStep ==
  ASSUME TypeOK, Private, Unseen, [Next]_vars
  PROVE  Unseen'
<1>1. ASSUME NEW u \in Saves, Asks(u) PROVE Unseen'
  BY <1>1, Types DEF Unseen, Private, Writing, Fresh, Asks, Others, SameFiles
<1>2. ASSUME NEW u \in Saves, Chooses(u) PROVE Unseen'
  BY <1>2, Types DEF Unseen, Private, Writing, Fresh, Chooses, Others, SameFiles
<1>3. ASSUME NEW u \in Saves, Creates(u) PROVE Unseen'
  BY <1>3, Types DEF Unseen, Private, Writing, Fresh, Creates, Others, Opened
<1>4. ASSUME NEW u \in Saves, Copies(u) PROVE Unseen'
  BY <1>4, Types DEF Unseen, Private, Writing, Fresh, Copies, Others, SameRest
<1>5. ASSUME NEW u \in Saves, Moves(u) PROVE Unseen'
  BY <1>5, Types DEF Unseen, Private, Writing, Fresh, Moves, Others, SameRest, SameFiles
<1>6. ASSUME NEW u \in Saves, Publishes(u) PROVE Unseen'
  <2>1. part[save[u].dest] \in Saves /\ save[u].dest \in Files
    BY <1>6, Types DEF Publishes
  <2>2. \A f \in Files : part'[f] # None => /\ part'[f] = part[f] /\ f # save[u].dest
                                            /\ part[f] # part[save[u].dest]
    BY <1>6, <2>1 DEF Publishes, Private
  <2>3. \A g \in Files : full'[g] = full[g] \/ full'[g] = part[save[u].dest]
    BY <1>6, <2>1 DEF Publishes
  <2>4. \A f \in Files : part'[f] # None => /\ \A g \in Files : full'[g] # part'[f]
                                            /\ \A r \in Readers : reader'[r].fd # part'[f]
    BY <1>6, <2>2, <2>3 DEF Unseen, Publishes
  <2>5. \A w \in Saves : Fresh(w)' => Fresh(w) /\ part[save[u].dest] # w
    BY <1>6, <2>1 DEF Publishes, Others, Fresh, Private
  <2>6. \A w \in Saves : Fresh(w)' => /\ \A g \in Files : full'[g] # w
                                      /\ \A r \in Readers : reader'[r].fd # w
    BY <1>6, <2>3, <2>5 DEF Unseen, Publishes
  <2>7. \A w \in Saves : pub'[w] # None => save'[w].pc = "ok"
    BY <1>6 DEF Unseen, Publishes, Others
  <2>. QED
    BY <2>4, <2>6, <2>7 DEF Unseen
<1>7. ASSUME NEW u \in Saves, Undoes(u) PROVE Unseen'
  BY <1>7, Types DEF Unseen, Private, Writing, Fresh, Undoes, Others, SameRest
<1>8. ASSUME Dies PROVE Unseen'
  BY <1>8, Types DEF Unseen, Private, Writing, Fresh, Dies, SameRest
<1>9. ASSUME Deletes PROVE Unseen'
  BY <1>9, Types DEF Unseen, Private, Writing, Fresh, Deletes, SameSaves
<1>10. ASSUME NEW r \in Readers, Opens(r) PROVE Unseen'
  BY <1>10, Types DEF Unseen, Private, Writing, Fresh, Opens, OtherReaders, SameSaves
<1>11. ASSUME NEW r \in Readers, Reads(r) PROVE Unseen'
  BY <1>11, Types DEF Unseen, Private, Writing, Fresh, Reads, OtherReaders, SameSaves
<1>. QED
  BY Effects, <1>1, <1>2, <1>3, <1>4, <1>5, <1>6, <1>7, <1>8, <1>9, <1>10, <1>11

\* What a download has opened is never written again.
LEMMA DownloadIsOneFileStep ==
  ASSUME TypeOK, Private, Published, Unseen, DownloadIsOneFile, [Next]_vars
  PROVE  DownloadIsOneFile'
<1>1. ASSUME NEW u \in Saves, Asks(u) PROVE DownloadIsOneFile'
  BY <1>1, Types DEF DownloadIsOneFile, Unseen, Published, Whole, Fresh, Asks, Others, SameFiles
<1>2. ASSUME NEW u \in Saves, Chooses(u) PROVE DownloadIsOneFile'
  BY <1>2, Types DEF DownloadIsOneFile, Unseen, Published, Whole, Fresh, Chooses, Others,
     SameFiles
<1>3. ASSUME NEW u \in Saves, Creates(u) PROVE DownloadIsOneFile'
  BY <1>3, Types DEF DownloadIsOneFile, Unseen, Published, Whole, Fresh, Creates, Others
<1>4. ASSUME NEW u \in Saves, Copies(u) PROVE DownloadIsOneFile'
  BY <1>4, Types DEF DownloadIsOneFile, Unseen, Published, Whole, Fresh, Copies, Others,
     SameRest
<1>5. ASSUME NEW u \in Saves, Moves(u) PROVE DownloadIsOneFile'
  BY <1>5, Types DEF DownloadIsOneFile, Unseen, Published, Whole, Fresh, Moves, Others,
     SameRest, SameFiles
<1>6. ASSUME NEW u \in Saves, Publishes(u) PROVE DownloadIsOneFile'
  BY <1>6, Types DEF DownloadIsOneFile, Unseen, Published, Whole, Fresh, Publishes, Others,
     SameRest
<1>7. ASSUME NEW u \in Saves, Undoes(u) PROVE DownloadIsOneFile'
  BY <1>7, Types DEF DownloadIsOneFile, Unseen, Published, Whole, Fresh, Undoes, Others,
     SameRest
<1>8. ASSUME Dies PROVE DownloadIsOneFile'
  BY <1>8, Types DEF DownloadIsOneFile, Unseen, Published, Whole, Fresh, Dies, SameRest
<1>9. ASSUME Deletes PROVE DownloadIsOneFile'
  BY <1>9, Types DEF DownloadIsOneFile, Unseen, Published, Whole, Fresh, Deletes, SameSaves
<1>10. ASSUME NEW r \in Readers, Opens(r) PROVE DownloadIsOneFile'
  BY <1>10, Types DEF DownloadIsOneFile, Unseen, Published, Whole, Fresh, Opens, OtherReaders,
     SameSaves
<1>11. ASSUME NEW r \in Readers, Reads(r) PROVE DownloadIsOneFile'
  <2>. SUFFICES ASSUME NEW q \in Readers, NEW w \in Saves \ crossed, reader[q].fd # None,
                       reader[q].fd = pub[w], NEW k \in 1 .. reader'[q].pos
                PROVE  reader'[q].got[k] = IF k <= save[w].pos THEN w ELSE None
    BY <1>11 DEF DownloadIsOneFile, Reads, OtherReaders, SameSaves
  <2>1. CASE q # r
    BY <1>11, <2>1 DEF DownloadIsOneFile, Reads, OtherReaders
  <2>2. CASE q = r /\ k # reader[r].pos + 1
    <3>1. k \in 1 .. reader[r].pos /\ k \in Blocks
      BY <1>11, <2>2, Types, SizesAssumption DEF Reads, Blocks
    <3>. QED
      BY <1>11, <2>2, <3>1 DEF DownloadIsOneFile, Reads
  <2>3. CASE q = r /\ k = reader[r].pos + 1
    <3>1. Whole(pub[w], w)
      BY DEF Unseen, Published
    <3>. QED
      BY <1>11, <2>3, <3>1 DEF Reads, Whole
  <2>. QED
    BY <2>1, <2>2, <2>3
<1>. QED
  BY Effects, <1>1, <1>2, <1>3, <1>4, <1>5, <1>6, <1>7, <1>8, <1>9, <1>10, <1>11

-----------------------------------------------------------------------------
(* The theorems.                                                             *)

\* At the start no save has an inode, and nothing is open.
LEMMA InitIInv == Init => IInv
<1>. SUFFICES ASSUME Init PROVE IInv
  OBVIOUS
<1>. USE SizesAssumption, ContentsAssumption
<1>1. \A w \in Saves : /\ save[w].pc = "idle" /\ save[w].kind = "upload" /\ save[w].fd = None
                       /\ save[w].pos = 0 /\ pub[w] = None
  BY DEF Init
<1>2. /\ \A f \in Files : part[f] = None /\ full[f] \in {Old, None}
      /\ \A r \in Readers : reader[r].fd = None
  BY DEF Init
<1>3. TypeOK
  <2>1. save \in [Saves -> SaveType]
    BY DEF Init, SaveType
  <2>2. reader \in [Readers -> ReaderType]
    BY DEF Init, ReaderType, Empty
  <2>3. data \in [Inodes -> [Blocks -> Inodes \cup {None}]]
    BY DEF Init, Empty, Inodes
  <2>. QED
    BY <2>1, <2>2, <2>3 DEF Init, TypeOK, Inodes
<1>4. Private /\ Alone /\ LoneWriting /\ Published
  BY <1>1, <1>2 DEF Private, Alone, LoneWriting, Published, Writing, Fresh, Active
<1>5. Sized /\ FreeName /\ Accounted /\ Unseen /\ DownloadIsOneFile
  BY <1>1, <1>2 DEF Sized, FreeName, Accounted, Unseen, DownloadIsOneFile
<1>. QED
  BY <1>3, <1>4, <1>5 DEF IInv

\* The invariant is inductive.
LEMMA NextIInv == IInv /\ [Next]_vars => IInv'
BY TypeStep, PrivateStep, AloneStep, LoneWritingStep, PublishedStep, SizedStep, FreeNameStep,
   AccountedStep, UnseenStep, DownloadIsOneFileStep
DEF IInv

\* The inductive invariant holds in every reachable state.
THEOREM Invariance == Spec => []IInv
BY InitIInv, NextIInv, PTL DEF Spec

\* The state stays in its domain: in particular no save writes beyond the one
\* block more than the limit that tells it the source is too long.
THEOREM TypeCorrect == Spec => []TypeOK
BY Invariance, PTL DEF IInv

\* A save that shares its destination with no other publishes exactly what it
\* was sent, within the limit (saveUploadWithLimit).
THEOREM LoneSavesAreWhole == Spec => []LoneSaveIsWhole
<1>1. IInv => LoneSaveIsWhole
  BY DEF IInv, Published, Sized, LoneSaveIsWhole
<1>. QED
  BY <1>1, Invariance, PTL

\* No .partial outlives the saves unless the process crashed: every error path
\* of saveUploadWithLimit after os.Create removes it, and a rename moves it.
THEOREM NoPartialIsLeftBehind == Spec => []NoPartialLeftBehind
<1>1. IInv => NoPartialLeftBehind
  BY DEF IInv, Accounted, NoPartialLeftBehind, Active
<1>. QED
  BY <1>1, Invariance, PTL

\* A download of a lone save's file sends that file, whatever happens to its
\* name meanwhile (OpenRead).
THEOREM DownloadsAreOneFile == Spec => []DownloadIsOneFile
BY Invariance, PTL DEF IInv

\* An import that shares its destination with no other save takes a name that
\* no file has at the moment of its rename (UniqueDestName, ImportRegularFile).
THEOREM LoneImportsReplaceNothing == Spec => LoneImportReplacesNothing
<1>1. IInv /\ [Next]_vars =>
        [\A w \in Saves \ crossed :
           save[w].kind = "import" /\ save[w].pc = "rename" /\ save'[w].pc = "ok"
             => full[save[w].dest] = None]_vars
  BY DEF IInv, FreeName
<1>. QED
  BY <1>1, Invariance, PTL DEF Spec, LoneImportReplacesNothing
=============================================================================
