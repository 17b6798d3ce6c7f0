----------------------------- MODULE HubFilesStore -----------------------------
(***************************************************************************)
(* HubFiles keeps what FileStore promises: the mapping from directory entries, *)
(* inodes and program counters to whole files.                                *)
(***************************************************************************)
EXTENDS HubFiles

\* The mark of a torn file is no block, and None is no contents.
ASSUME MarksAssumption ==
  /\ "torn" \notin Inodes \cup {None}
  /\ None \notin [Blocks -> Inodes \cup {None, "torn"}]

\* The inodes that are whole files: what was there before, and what a save without
\* rivals has published. Nothing is said of the contents of others.
Sound(i) == i = Old \/ \E w \in Saves \ crossed : pub[w] = i

Torn == [k \in Blocks |-> "torn"]
ContentsOf(i) == IF Sound(i) THEN data[i] ELSE Torn

Shelf == [f \in Files |-> IF full[f] = None THEN None ELSE ContentsOf(full[f])]

State ==
  [w \in Saves |->
     IF save[w].pc \in {"idle", "stat"} THEN "idle"
     ELSE IF Active(w) THEN "running" ELSE IF save[w].pc = "ok" THEN "stored" ELSE "failed"]

Goal ==
  [w \in Saves |-> IF Active(w) THEN [name |-> save[w].dest, kind |-> save[w].kind] ELSE None]

View ==
  [r \in Readers |->
     IF reader[r].fd = None THEN [open |-> FALSE, holds |-> Empty, got |-> Empty, pos |-> 0]
     ELSE [open |-> TRUE, holds |-> ContentsOf(reader[r].fd), pos |-> reader[r].pos,
           got |-> IF Sound(reader[r].fd) THEN reader[r].got ELSE Torn]]

Abstract == INSTANCE FileStore WITH
  shelf <- Shelf, state <- State, goal <- Goal, clashed <- crossed, view <- View

\* The promise, kept by concurrent uploads, imports, downloads and deletions and across
\* crashes: every one of their steps is a step of the abstract store or is not to be seen
\* there. It fails if a file can be seen half-written, if a failed save leaves a trace, if
\* an import replaces a file, or if a download changes under its reader.
KeepsFilesWhole == Abstract!StoreSpec
=============================================================================
