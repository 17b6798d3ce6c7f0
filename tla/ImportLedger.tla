------------------------------ MODULE ImportLedger ------------------------------
(***************************************************************************)
(* One run over the import folder, from its list of names to the record it   *)
(* leaves for the files page: scanWithMode, importSelectedNames, recordResult *)
(* and ReadLastScan of internal/importer/importer.go, with the rules of       *)
(* eligible.go and the two handlers that start a run by hand.                 *)
(*                                                                           *)
(* Runs of the watch loop, of the Scan button and of the file picker go on    *)
(* side by side and know nothing of each other. The record is five rows of    *)
(* kv, written by five statements and read by five others. Which name a copy  *)
(* gets in the hub is the matter of HubFiles.                                 *)
(***************************************************************************)
EXTENDS Integers, Sequences, FiniteSets, SequencesExt

CONSTANTS
  Runs,     \* runs over the import folder
  Pages,    \* files pages that are being built
  Names,    \* names in the folder and in the picker's form
  Trim,     \* strings.TrimSpace: a name without the blanks around it
  Scenes    \* bound: what the folder holds, the forms sent, the runs and pages that take place

\* What classifyImportFile makes of a name; "ignored" are dotfiles, system files
\* and .partial files, "missing" is a name that is not there.
Verdicts == {"file", "folder", "symlink", "ignored", "too large", "missing"}

\* A scene: what each name is, the forms that may be sent, the kind of each run, the pages.
\* A folder holds finitely many names.
ASSUME LedgerAssumption ==
  /\ Trim \in [Names -> Names]
  /\ \A n \in Names : Trim[Trim[n]] = Trim[n]
  /\ \A s \in Scenes :
       /\ s.is \in [Names -> Verdicts] /\ IsFiniteSet({n \in Names : s.is[n] # "missing"})
       /\ s.forms \subseteq Seq(Names)
       /\ DOMAIN s.runs \subseteq Runs
       /\ \A i \in DOMAIN s.runs : s.runs[i] \in {"scan", "auto", "pick"}
       /\ s.pages \subseteq Pages

VARIABLES
  scene,  \* the instance that is explored; the folder does not change
  run,    \* the runs
  ledger, \* the rows import_last_*
  page,   \* the pages: the row they read next and what they have read
  last    \* history: the run whose record the ledger holds, Mixed if it is of several

ledgerVars == <<scene, run, ledger, page, last>>

Mixed == "mixed"
Rows == <<"at", "imported", "skipped", "err", "mode">> \* as recordResult writes them
ReadOrder == <<"at", "imported", "skipped", "mode", "err">>
NoRecord == [at |-> "", imported |-> 0, skipped |-> 0, err |-> "", mode |-> ""]

\* The rows that run i writes. Its time stamp is told apart by the run.
RecordOf(i) ==
  [at |-> i, imported |-> run[i].imported, skipped |-> run[i].skipped,
   err |-> run[i].err, mode |-> run[i].mode]

Recording == {i \in Runs : run[i].pc = "record"}

LedgerInit ==
  /\ scene \in Scenes
  /\ run = [i \in Runs |-> [pc |-> "idle", row |-> 1, mode |-> "", asked |-> 0,
                            todo |-> << >>, tried |-> {}, copied |-> << >>, failed |-> {},
                            imported |-> 0, skipped |-> 0, err |-> "", alone |-> TRUE]]
  /\ ledger = NoRecord
  /\ page = [p \in Pages |-> [pc |-> 0, shown |-> NoRecord, of |-> Mixed]]
  /\ last = Mixed

-----------------------------------------------------------------------------
(* A run begins.                                                             *)

\* `asked` is history: how many names the run was given.
Begins(i, names) ==
  /\ run[i].pc = "idle"
  /\ run' = [run EXCEPT ![i].pc = "copy", ![i].mode = scene.runs[i],
                      ![i].asked = Len(names), ![i].todo = names]
  /\ UNCHANGED <<scene, ledger, page, last>>

\* os.ReadDir lists everything that is there.
Listing == SetToSeq({n \in Names : scene.is[n] # "missing"})

\* The Scan button, or a scan of the watch loop.
BeginScan(i) == scene.runs[i] # "pick" /\ Begins(i, Listing)

\* The names that were ticked, as the form holds them; it may be stale or repeat one.
BeginPick(i) == scene.runs[i] = "pick" /\ \E names \in scene.forms : Begins(i, names)

\* recordResult begins: with e as the error of run r. Who is recording at the same
\* time is not alone, and a page that is being read sees several records.
Records(i, r, e) ==
  /\ run' = [j \in Runs |->
       IF j = i THEN [r EXCEPT !.pc = "record", !.err = e, !.alone = Recording = {}]
       ELSE [run[j] EXCEPT !.alone = @ /\ j \notin Recording]]
  /\ page' = [p \in Pages |-> [page[p] EXCEPT !.of = Mixed]]
  /\ UNCHANGED <<scene, ledger, last>>

\* The folder cannot be read, or has come to overlap the hub's: a scan records it.
ScanRefused(i) ==
  /\ run[i].pc = "idle" /\ scene.runs[i] # "pick"
  /\ Records(i, [run[i] EXCEPT !.mode = scene.runs[i]], "unreadable")

-----------------------------------------------------------------------------
(* It takes one name after the other.                                        *)

\* The name as it is judged: the form's names are trimmed, those of a listing not.
Base(i) == LET n == Head(run[i].todo) IN IF run[i].mode = "pick" THEN Trim[n] ELSE n

\* Mutant of Eligible: a name that the form repeats is taken again.
EligibleAgain(i) == scene.is[Base(i)] = "file"

\* What classifyImportFile accepts; importSelectedNames takes a name once.
Eligible(i) ==
  /\ scene.is[Base(i)] = "file"
  /\ run[i].mode = "pick" => Base(i) \notin run[i].tried

\* importFilePath trims the name of the listing after it has been judged.
Source(i) == Trim[Base(i)]

Takes(i) == run[i].pc = "copy" /\ run[i].todo # << >>

Moves(i, r) ==
  /\ run' = [run EXCEPT ![i] = [r EXCEPT !.todo = Tail(@), !.tried = @ \cup {Base(i)}]]
  /\ UNCHANGED <<scene, ledger, page, last>>

SkipName(i) ==
  /\ Takes(i) /\ ~Eligible(i)
  /\ Moves(i, [run[i] EXCEPT !.skipped = @ + 1])

\* ImportRegularFile follows links, and refuses what classifyImportFile does.
CopyName(i) ==
  /\ Takes(i) /\ Eligible(i)
  /\ scene.is[Source(i)] \in {"file", "symlink"}
  /\ Moves(i, [run[i] EXCEPT !.imported = @ + 1, !.copied = Append(@, Source(i))])

\* Mutant of CopyNameFails: the failure is logged only.
CopyNameFailsUncounted(i) ==
  /\ Takes(i) /\ Eligible(i)
  /\ Moves(i, [run[i] EXCEPT !.failed = @ \cup {Source(i)}])

\* The file has gone, the disk is full: counted as skipped.
CopyNameFails(i) ==
  /\ Takes(i) /\ Eligible(i)
  /\ Moves(i, [run[i] EXCEPT !.skipped = @ + 1, !.failed = @ \cup {Source(i)}])

\* The context is looked at before each name: a closed browser or a stopped loop.
Cancelled(i) == Takes(i) /\ Records(i, run[i], "cancelled")

RunEnds(i) == run[i].pc = "copy" /\ run[i].todo = << >> /\ Records(i, run[i], "")

-----------------------------------------------------------------------------
(* It leaves its record, which a page reads.                                 *)

\* Mutant of RecordRow: the last row is forgotten.
RecordRowStopsEarly(i) ==
  /\ i \in Recording
  /\ LET n == run[i].row IN
       /\ ledger' = [ledger EXCEPT ![Rows[n]] = RecordOf(i)[Rows[n]]]
       /\ run' = [run EXCEPT ![i].row = n + 1,
                             ![i].pc = IF n = Len(Rows) - 1 THEN "done" ELSE @]
       /\ last' = IF n = Len(Rows) - 1 /\ run[i].alone THEN i ELSE Mixed
  /\ UNCHANGED <<scene, page>>

\* One upsert of recordResult.
RecordRow(i) ==
  /\ i \in Recording
  /\ LET n == run[i].row IN
       /\ ledger' = [ledger EXCEPT ![Rows[n]] = RecordOf(i)[Rows[n]]]
       /\ run' = [run EXCEPT ![i].row = n + 1, ![i].pc = IF n = Len(Rows) THEN "done" ELSE @]
       /\ last' = IF n = Len(Rows) /\ run[i].alone THEN i ELSE Mixed
  /\ UNCHANGED <<scene, page>>

\* A statement fails: the rows that follow keep what they hold. Nobody is told.
RecordRowFails(i) ==
  /\ i \in Recording
  /\ run' = [run EXCEPT ![i].pc = "done"]
  /\ last' = Mixed
  /\ UNCHANGED <<scene, ledger, page>>

\* ReadLastScan: one SELECT.
ReadRow(p) ==
  /\ p \in scene.pages /\ page[p].pc < Len(ReadOrder)
  /\ LET n == page[p].pc + 1 IN
       page' = [page EXCEPT ![p].pc = n, ![p].shown[ReadOrder[n]] = ledger[ReadOrder[n]],
                  ![p].of = IF n > 1 THEN @ ELSE IF Recording = {} THEN last ELSE Mixed]
  /\ UNCHANGED <<scene, run, ledger, last>>

\* A failed SELECT is taken for a missing row.
ReadRowFails(p) ==
  /\ p \in scene.pages /\ page[p].pc < Len(ReadOrder)
  /\ page' = [page EXCEPT ![p].pc = @ + 1, ![p].of = Mixed,
                ![p].shown[ReadOrder[page[p].pc + 1]] = NoRecord[ReadOrder[page[p].pc + 1]]]
  /\ UNCHANGED <<scene, run, ledger, last>>

LedgerStatement ==
  \/ \E i \in Runs : RecordRow(i)
  \/ \E p \in Pages : ReadRow(p)

LedgerFailure ==
  \/ \E i \in Runs : RecordRowFails(i)
  \/ \E p \in Pages : ReadRowFails(p)

FolderStep ==
  \E i \in DOMAIN scene.runs :
    \/ BeginScan(i) \/ BeginPick(i) \/ ScanRefused(i) \/ SkipName(i) \/ CopyName(i)
    \/ CopyNameFails(i) \/ Cancelled(i) \/ RunEnds(i)

LedgerNext == LedgerStatement \/ LedgerFailure \/ FolderStep

LedgerSpec == LedgerInit /\ [][LedgerNext]_ledgerVars

-----------------------------------------------------------------------------
(* Properties.                                                               *)

\* A page that was read while no run was writing, after a run that wrote alone and
\* to the end, shows that run's record and nothing of an earlier one.
PageShowsOneRun ==
  \A p \in Pages : page[p].pc = Len(ReadOrder) /\ page[p].of # Mixed
    => page[p].shown = RecordOf(page[p].of)

NoPadding(i) == run[i].mode = "pick" \/ \A n \in Names : scene.is[n] # "missing" => Trim[n] = n

\* A run that went through all its names accounts for each of them, one that the form
\* repeats included: it was imported or skipped. It has copied every file among them
\* exactly once, those apart whose copy failed, and has counted that as an import. (A scan
\* that meets a name with blanks around it copies the file of the trimmed name.)
EachFileOnce ==
  \A i \in Runs : run[i].pc \in {"record", "done"} /\ run[i].err = "" =>
    /\ run[i].imported + run[i].skipped = run[i].asked
    /\ run[i].imported = Len(run[i].copied)
    /\ NoPadding(i) =>
         /\ IsInjective(run[i].copied)
         /\ Range(run[i].copied) = {n \in run[i].tried : scene.is[n] = "file"} \ run[i].failed
=============================================================================
