------------------------------- MODULE HubFiles -------------------------------
(***************************************************************************)
(* The hub's file tree: internal/files (saveUploadWithLimit, UniqueDestName, *)
(* ImportRegularFile, Remove, OpenRead) as the HTTP handlers and the         *)
(* importer call it, concurrently and without a lock.                        *)
(*                                                                           *)
(* The file system is kept at the level of directory entries and inodes: an  *)
(* open file follows its inode, not its name. os.Create on a .partial that   *)
(* exists truncates and shares that inode; os.Rename moves whatever inode    *)
(* the name has at that moment.                                              *)
(*                                                                           *)
(* A file name is <<base, i>>: the base name for i = 0, and base_i as        *)
(* UniqueDestName derives it. Contents are blocks, each marked with the save *)
(* that wrote it; a size limit is a number of blocks.                        *)
(***************************************************************************)
EXTENDS Naturals

CONSTANTS
  Bases,      \* base names
  MaxSuffix,  \* bound: largest suffix UniqueDestName tries (99999 in the code)
  Saves,      \* calls of saveUploadWithLimit
  Readers,    \* downloads and previews
  Old,        \* the content of a file that was there before
  None,       \* no inode, no content
  UploadMax,  \* MaxUploadBytes, in blocks
  ImportMax,  \* MaxImportBytes, in blocks
  MaxDeletes, \* bound: number of deletions
  MaxCrashes  \* bound: number of crashes of the process

ASSUME SizesAssumption ==
  /\ MaxSuffix \in Nat
  /\ UploadMax \in Nat /\ ImportMax \in Nat
  /\ UploadMax <= ImportMax
  /\ MaxDeletes \in Nat /\ MaxCrashes \in Nat

ASSUME ContentsAssumption ==
  /\ Old \notin Saves
  /\ None \notin Saves \cup {Old}

Files == Bases \X (0 .. MaxSuffix)

\* Every save creates at most one inode, named after it.
Inodes == Saves \cup {Old}

\* io.LimitReader hands out one unit more than the limit, to detect excess.
Blocks == 1 .. ImportMax + 1

Limit(kind) == IF kind = "upload" THEN UploadMax ELSE ImportMax

VARIABLES
  full,    \* directory entry of each file: its inode, or None
  part,    \* directory entry of each file's name + ".partial"
  data,    \* blocks of each inode: the save that wrote it, None for a hole
  save,    \* the saves: program counter, destination, open inode, position
  pub,     \* the inode a save published with its rename
  crossed, \* saves during which another save had the same destination
  reader,  \* the downloads: open inode and the blocks sent so far
  deletes, crashes

tree == <<full, part, data>>
vars == <<tree, save, pub, crossed, reader, deletes, crashes>>

Empty == [k \in Blocks |-> None]

\* The save has chosen its destination and has not returned.
Active(w) == save[w].pc \in {"create", "copy", "rename", "undo"}

SaveType ==
  [pc : {"idle", "stat", "create", "copy", "rename", "undo", "ok", "err", "dead"},
   kind : {"upload", "import"}, dest : Files, fd : Saves \cup {None},
   pos : 0 .. ImportMax + 1]

ReaderType ==
  [fd : Inodes \cup {None}, got : [Blocks -> Inodes \cup {None}], pos : 0 .. ImportMax + 1]

TypeOK ==
  /\ full \in [Files -> Inodes \cup {None}]
  /\ part \in [Files -> Saves \cup {None}]
  /\ data \in [Inodes -> [Blocks -> Inodes \cup {None}]]
  /\ save \in [Saves -> SaveType]
  /\ pub \in [Saves -> Saves \cup {None}]
  /\ crossed \in SUBSET Saves
  /\ reader \in [Readers -> ReaderType]
  /\ deletes \in 0 .. MaxDeletes
  /\ crashes \in 0 .. MaxCrashes

\* Each file may be there already, one block long; nothing is in progress.
Init ==
  /\ full \in [Files -> {Old, None}]
  /\ part = [f \in Files |-> None]
  /\ data = [i \in Inodes |-> IF i = Old THEN [Empty EXCEPT ![1] = Old] ELSE Empty]
  /\ \E f \in Files :
       save = [w \in Saves |->
                 [pc |-> "idle", kind |-> "upload", dest |-> f, fd |-> None, pos |-> 0]]
  /\ pub = [w \in Saves |-> None]
  /\ crossed = {}
  /\ reader = [r \in Readers |-> [fd |-> None, got |-> Empty, pos |-> 0]]
  /\ deletes = 0
  /\ crashes = 0

-----------------------------------------------------------------------------
(* saveUploadWithLimit, and the choice of its destination.                   *)

RestUnchanged == UNCHANGED <<reader, deletes, crashes>>

\* w goes on with destination f; it crosses every save that is active on f.
Choose(w, f, kind) ==
  LET others == {u \in Saves \ {w} : Active(u) /\ save[u].dest = f} IN
  /\ save' = [save EXCEPT ![w] = [@ EXCEPT !.pc = "create", !.dest = f, !.kind = kind]]
  /\ crossed' = IF others = {} THEN crossed ELSE crossed \cup others \cup {w}
  /\ UNCHANGED <<tree, pub>>
  /\ RestUnchanged

\* SaveUpload: the name comes from the browser; a file of that name is replaced.
StartUpload(w, f) ==
  /\ save[w].pc = "idle"
  /\ Choose(w, f, "upload")

\* ImportRegularFile begins: UniqueDestName looks at the base name first.
StartImport(w, b) ==
  /\ save[w].pc = "idle"
  /\ save' = [save EXCEPT ![w] = [@ EXCEPT !.pc = "stat", !.kind = "import", !.dest = <<b, 0>>]]
  /\ UNCHANGED <<tree, pub, crossed>>
  /\ RestUnchanged

\* Mutant of StatFree: the name is taken without a look.
StatIgnored(w) ==
  /\ save[w].pc = "stat"
  /\ Choose(w, save[w].dest, "import")

\* os.Stat says that the candidate does not exist: it is the destination.
StatFree(w) ==
  /\ save[w].pc = "stat"
  /\ full[save[w].dest] = None
  /\ Choose(w, save[w].dest, "import")

\* The candidate exists: try the next suffix, or give up at the last one.
StatTaken(w) ==
  /\ save[w].pc = "stat"
  /\ full[save[w].dest] # None
  /\ \/ /\ save[w].dest[2] < MaxSuffix
        /\ save' = [save EXCEPT ![w].dest = <<save[w].dest[1], save[w].dest[2] + 1>>]
     \/ /\ save[w].dest[2] = MaxSuffix
        /\ save' = [save EXCEPT ![w].pc = "err"]
  /\ UNCHANGED <<tree, pub, crossed>>
  /\ RestUnchanged

\* The source is gone or too large, or os.Stat fails with another error: no name is taken.
StatFails(w) ==
  /\ save[w].pc = "stat"
  /\ save' = [save EXCEPT ![w].pc = "err"]
  /\ UNCHANGED <<tree, pub, crossed>>
  /\ RestUnchanged

\* The inode that os.Create(tmp) opens: an existing .partial is shared.
Opened(w) == IF part[save[w].dest] = None THEN w ELSE part[save[w].dest]

\* Mutant of Create: the file is opened without O_TRUNC.
CreateKeepsOld(w) ==
  /\ save[w].pc = "create"
  /\ part' = [part EXCEPT ![save[w].dest] = Opened(w)]
  /\ save' = [save EXCEPT ![w] = [@ EXCEPT !.pc = "copy", !.fd = Opened(w)]]
  /\ UNCHANGED <<full, data, pub, crossed>>
  /\ RestUnchanged

\* Mutant of Create: a file that exists is written in place.
CreateInPlace(w) ==
  LET i == IF full[save[w].dest] \in Saves THEN full[save[w].dest] ELSE Opened(w) IN
  /\ save[w].pc = "create"
  /\ part' = [part EXCEPT ![save[w].dest] = i]
  /\ data' = [data EXCEPT ![i] = Empty]
  /\ save' = [save EXCEPT ![w] = [@ EXCEPT !.pc = "copy", !.fd = i]]
  /\ UNCHANGED <<full, pub, crossed>>
  /\ RestUnchanged

\* os.Create(tmp) truncates what it opens.
Create(w) ==
  /\ save[w].pc = "create"
  /\ part' = [part EXCEPT ![save[w].dest] = Opened(w)]
  /\ data' = [data EXCEPT ![Opened(w)] = Empty]
  /\ save' = [save EXCEPT ![w] = [@ EXCEPT !.pc = "copy", !.fd = Opened(w)]]
  /\ UNCHANGED <<full, pub, crossed>>
  /\ RestUnchanged

\* EnsureDir or os.Create fails (a parent is a file, the disk is full): nothing
\* was created, and nothing is removed.
CreateFails(w) ==
  /\ save[w].pc = "create"
  /\ save' = [save EXCEPT ![w].pc = "err"]
  /\ UNCHANGED <<tree, pub, crossed>>
  /\ RestUnchanged

\* Mutant of Copy: no LimitReader.
CopyUnlimited(w) ==
  /\ save[w].pc = "copy"
  /\ data' = [data EXCEPT ![save[w].fd][save[w].pos + 1] = w]
  /\ save' = [save EXCEPT ![w].pos = @ + 1]
  /\ UNCHANGED <<full, part, pub, crossed>>
  /\ RestUnchanged

\* io.Copy writes the next block at this descriptor's own offset.
Copy(w) ==
  /\ save[w].pc = "copy"
  /\ save[w].pos <= Limit(save[w].kind)
  /\ data' = [data EXCEPT ![save[w].fd][save[w].pos + 1] = w]
  /\ save' = [save EXCEPT ![w].pos = @ + 1]
  /\ UNCHANGED <<full, part, pub, crossed>>
  /\ RestUnchanged

\* The source ends here, within the limit: close and go on to the rename.
CopyEnds(w) ==
  /\ save[w].pc = "copy"
  /\ save[w].pos <= Limit(save[w].kind)
  /\ save' = [save EXCEPT ![w].pc = "rename"]
  /\ UNCHANGED <<tree, pub, crossed>>
  /\ RestUnchanged

\* Mutant of CopyFails: the temporary file is not removed.
CopyFailsUncleaned(w) ==
  /\ save[w].pc = "copy"
  /\ save' = [save EXCEPT ![w].pc = "err"]
  /\ UNCHANGED <<tree, pub, crossed>>
  /\ RestUnchanged

\* The source fails (the browser went away, the disk is full), or n > maxBytes.
CopyFails(w) ==
  /\ save[w].pc = "copy"
  /\ save' = [save EXCEPT ![w].pc = "undo"]
  /\ UNCHANGED <<tree, pub, crossed>>
  /\ RestUnchanged

\* os.Rename(tmp, full): it moves the inode that the name tmp has now. It fails
\* when there is none, or when the name belongs to a directory.
Rename(w) ==
  /\ save[w].pc = "rename"
  /\ \/ /\ part[save[w].dest] # None
        /\ full' = [full EXCEPT ![save[w].dest] = part[save[w].dest]]
        /\ part' = [part EXCEPT ![save[w].dest] = None]
        /\ pub' = [pub EXCEPT ![w] = part[save[w].dest]]
        /\ save' = [save EXCEPT ![w].pc = "ok"]
     \/ /\ save' = [save EXCEPT ![w].pc = "undo"]
        /\ UNCHANGED <<full, part, pub>>
  /\ UNCHANGED <<data, crossed>>
  /\ RestUnchanged

\* os.Remove(tmp) on each of the error paths, then return the error.
Undo(w) ==
  /\ save[w].pc = "undo"
  /\ part' = [part EXCEPT ![save[w].dest] = None]
  /\ save' = [save EXCEPT ![w].pc = "err"]
  /\ UNCHANGED <<full, data, pub, crossed>>
  /\ RestUnchanged

Save(w) ==
  \/ \E f \in Files : StartUpload(w, f)
  \/ \E b \in Bases : StartImport(w, b)
  \/ StatFree(w) \/ StatTaken(w) \/ StatFails(w)
  \/ Create(w) \/ CreateFails(w) \/ Copy(w) \/ CopyEnds(w) \/ CopyFails(w)
  \/ Rename(w) \/ Undo(w)

-----------------------------------------------------------------------------
(* Downloads, deletions, and a crash of the process.                         *)

\* OpenRead: from here on the download follows the inode.
Open(r, f) ==
  /\ reader[r].fd = None
  /\ full[f] # None
  /\ reader' = [reader EXCEPT ![r] = [fd |-> full[f], got |-> Empty, pos |-> 0]]
  /\ UNCHANGED <<tree, save, pub, crossed, deletes, crashes>>

\* io.Copy to the browser, or ServeContent: send the next block.
Read(r) ==
  /\ reader[r].fd # None
  /\ reader[r].pos <= ImportMax
  /\ LET k == reader[r].pos + 1 IN
       reader' = [reader EXCEPT ![r] = [@ EXCEPT !.pos = k, !.got[k] = data[reader[r].fd][k]]]
  /\ UNCHANGED <<tree, save, pub, crossed, deletes, crashes>>

\* filesDelete: os.Remove of one name; an open download keeps its inode.
Delete(f) ==
  /\ deletes < MaxDeletes
  /\ full[f] # None
  /\ full' = [full EXCEPT ![f] = None]
  /\ deletes' = deletes + 1
  /\ UNCHANGED <<part, data, save, pub, crossed, reader, crashes>>

\* The process dies and is started again: saves and downloads are gone, the
\* file tree is as they left it. Nothing cleans up at the start.
Crash ==
  /\ crashes < MaxCrashes
  /\ crashes' = crashes + 1
  /\ save' = [w \in Saves |->
                IF Active(w) \/ save[w].pc = "stat"
                  THEN [save[w] EXCEPT !.pc = "dead"] ELSE save[w]]
  /\ reader' = [r \in Readers |-> [fd |-> None, got |-> Empty, pos |-> 0]]
  /\ UNCHANGED <<tree, pub, crossed, deletes>>

Next ==
  \/ \E w \in Saves : Save(w)
  \/ \E r \in Readers : Read(r) \/ \E f \in Files : Open(r, f)
  \/ \E f \in Files : Delete(f)
  \/ Crash

Spec == Init /\ [][Next]_vars

-----------------------------------------------------------------------------
(* Properties.                                                               *)

\* Inode i holds what save w was sent: its blocks, all of them, nothing else.
Whole(i, w) == \A k \in Blocks : data[i][k] = IF k <= save[w].pos THEN w ELSE None

\* A save that shared its destination with no other save while it ran, and that
\* reported success, published exactly what it was sent, within the size limit;
\* and the published file stays so, whoever saves, deletes or crashes later.
LoneSaveIsWhole ==
  \A w \in Saves \ crossed :
    save[w].pc = "ok" => Whole(pub[w], w) /\ save[w].pos <= Limit(save[w].kind)

\* Such an import takes a name that no file has at that moment.
LoneImportReplacesNothing ==
  [][\A w \in Saves \ crossed :
       save[w].kind = "import" /\ save[w].pc = "rename" /\ save'[w].pc = "ok"
         => full[save[w].dest] = None]_vars

\* Whatever the saves did to one another, no .partial outlives them, unless the
\* process crashed.
NoPartialLeftBehind ==
  (\A w \in Saves : ~Active(w)) /\ crashes = 0 => \A f \in Files : part[f] = None

\* A download sends the blocks of one save in order, although the file may be
\* replaced or deleted meanwhile, unless that save was crossed.
DownloadIsOneFile ==
  \A r \in Readers : \A w \in Saves \ crossed :
    reader[r].fd # None /\ reader[r].fd = pub[w]
      => \A k \in 1 .. reader[r].pos : reader[r].got[k] = IF k <= save[w].pos THEN w ELSE None

\* files.go:74 says that a save is "atomic via .partial": then success would
\* mean that the file is whole, for every save.
EverySaveIsWhole ==
  \A w \in Saves : save[w].pc = "ok" => Whole(pub[w], w)

\* import.go:11 says that UniqueDestName "picks a non-colliding filename": then
\* no import would replace a file.
ImportReplacesNothing ==
  [][\A w \in Saves :
       save[w].kind = "import" /\ save[w].pc = "rename" /\ save'[w].pc = "ok"
         => full[save[w].dest] = None]_vars
=============================================================================
