-------------------------- MODULE ImportLedger_proofs --------------------------
(***************************************************************************)
(* Proofs about ImportLedger, for any number of runs, pages and names: a   *)
(* page that met nobody writing shows the record of one run, and a run has *)
(* copied each file once and counts what it has done.                      *)
(*                                                                         *)
(* The first follows who is writing (Alone): a run that began to record    *)
(* alone and is alone still has written the rows before its own. When it   *)
(* has written the last, the ledger is its record (Whole), and a page that *)
(* began after that reads from it as long as nobody records (Reading). The *)
(* second follows a run: the names it was given and has not come to differ *)
(* from those it has tried, unless the form repeats them (Plan), and then  *)
(* it is what it has tried that decides (Work).                            *)
(***************************************************************************)
EXTENDS ImportLedger, FiniteSetTheorems, FunctionTheorems, SequenceTheorems, TLAPS

Modes == {"scan", "auto", "pick"}
Errors == {"", "unreadable", "cancelled", "killed"}
Failures == {"unreadable", "cancelled", "killed"}

RunType ==
  [pc : {"idle", "copy", "record", "done"}, row : 1 .. 6, mode : Modes \cup {""}, asked : Nat,
   todo : Seq(Names), tried : SUBSET Names, copied : Seq(Names), failed : SUBSET Names,
   imported : Nat, skipped : Nat, err : Errors, alone : BOOLEAN]

RecordType ==
  [at : Runs \cup {""}, imported : Nat, skipped : Nat, err : Errors, mode : Modes \cup {""}]

PageType == [pc : 0 .. 5, shown : RecordType, of : Runs \cup {Mixed}]

LedgerTypes ==
  /\ scene \in Scenes
  /\ run \in [Runs -> RunType]
  /\ ledger \in RecordType
  /\ page \in [Pages -> PageType]

\* A run stands before the row it writes next.
InRow ==
  \A i \in Runs : /\ run[i].pc \in {"idle", "copy"} => run[i].row = 1
                  /\ run[i].pc = "record" => run[i].row \in 1 .. 5

\* Up to row n, the records a and b agree.
AgreeTo(order, n, a, b) == \A k \in 1 .. 5 : k <= n => a[order[k]] = b[order[k]]

\* Whoever records alone has written the rows before its own.
Alone ==
  \A i \in Recording : run[i].alone =>
    /\ Recording = {i}
    /\ AgreeTo(Rows, run[i].row - 1, ledger, RecordOf(i))

\* The ledger is the record of the run that wrote it last, alone and to the end.
Whole ==
  last # Mixed => last \in Runs /\ run[last].pc = "done" /\ ledger = RecordOf(last)

\* A page that is not mixed reads the ledger of the run that it began with.
Reading ==
  \A p \in Pages : page[p].of # Mixed =>
    /\ Recording = {} /\ page[p].of = last
    /\ AgreeTo(ReadOrder, page[p].pc, page[p].shown, ledger)

\* A run that has not begun.
Fresh ==
  \A i \in Runs : run[i].pc = "idle" =>
    /\ run[i].todo = << >> /\ run[i].copied = << >>
    /\ run[i].tried = {} /\ run[i].failed = {} /\ run[i].imported = 0
    /\ run[i].skipped = 0 /\ run[i].asked = 0

\* What a scan has before it is there, differs, and has not been tried.
Plan ==
  \A i \in Runs : run[i].mode # "pick" =>
    /\ IsInjective(run[i].todo)
    /\ \A k \in DOMAIN run[i].todo :
         run[i].todo[k] \notin run[i].tried /\ scene.is[run[i].todo[k]] # "missing"

\* Whatever a run was given is imported, skipped, or before it; it counts what it copied.
Counts ==
  \A i \in Runs :
    /\ run[i].imported + run[i].skipped + Len(run[i].todo) = run[i].asked
    /\ run[i].imported = Len(run[i].copied)
    /\ run[i].pc \in {"record", "done"} => run[i].err \in Failures \/ Len(run[i].todo) = 0

\* What EachFileOnce says of the files, at any time.
Copied(i) ==
  /\ IsInjective(run[i].copied)
  /\ Range(run[i].copied) = {n \in run[i].tried : scene.is[n] = "file"} \ run[i].failed
  /\ run[i].failed \subseteq run[i].tried
Work == \A i \in Runs : NoPadding(i) => Copied(i)

\* The inductive invariant.
LedgerInv ==
  /\ LedgerTypes /\ InRow
  /\ Alone /\ Whole /\ Reading
  /\ Fresh /\ Plan /\ Counts /\ Work

-----------------------------------------------------------------------------
(* What the steps do. The steps with the same effect are taken together.   *)

\* Of the runs, i alone moves.
OnlyRun(i) ==
  /\ run' \in [Runs -> RunType]
  /\ \A j \in Runs \ {i} : run'[j] = run[j]

\* What i has copied, and what it has left to do.
SameWork(i) ==
  /\ run'[i].tried = run[i].tried /\ run'[i].copied = run[i].copied
  /\ run'[i].failed = run[i].failed /\ run'[i].imported = run[i].imported
  /\ run'[i].skipped = run[i].skipped
SamePlan(i) ==
  /\ run'[i].mode = run[i].mode /\ run'[i].todo = run[i].todo /\ run'[i].asked = run[i].asked

SameRecord(i) ==
  /\ run'[i].imported = run[i].imported /\ run'[i].skipped = run[i].skipped
  /\ run'[i].err = run[i].err /\ run'[i].mode = run[i].mode

\* BeginScan, BeginPick.
Starts(i) ==
  /\ OnlyRun(i) /\ SameWork(i)
  /\ run[i].pc = "idle" /\ run'[i].pc = "copy" /\ run'[i].row = run[i].row
  /\ run'[i].mode \in Modes
  /\ run'[i].mode # "pick" => run'[i].todo = Listing
  /\ run'[i].asked = Len(run'[i].todo)
  /\ UNCHANGED <<scene, ledger, page, last>>

\* SkipName, CopyName, CopyNameFails.
TakesName(i) ==
  /\ OnlyRun(i)
  /\ run[i].pc = "copy" /\ run'[i].pc = "copy" /\ run'[i].row = run[i].row
  /\ run'[i].mode = run[i].mode /\ run'[i].asked = run[i].asked
  /\ run[i].todo # << >> /\ run'[i].todo = Tail(run[i].todo)
  /\ run'[i].tried = run[i].tried \cup {Base(i)}
  /\ \/ /\ ~Eligible(i) /\ run'[i].copied = run[i].copied
        /\ run'[i].failed = run[i].failed /\ run'[i].imported = run[i].imported
        /\ run'[i].skipped = run[i].skipped + 1
     \/ /\ Eligible(i) /\ run'[i].copied = Append(run[i].copied, Source(i))
        /\ run'[i].failed = run[i].failed /\ run'[i].imported = run[i].imported + 1
        /\ run'[i].skipped = run[i].skipped
     \/ /\ Eligible(i) /\ run'[i].copied = run[i].copied
        /\ run'[i].failed = run[i].failed \cup {Source(i)}
        /\ run'[i].imported = run[i].imported /\ run'[i].skipped = run[i].skipped + 1
  /\ UNCHANGED <<scene, ledger, page, last>>

\* ScanRefused, Cancelled, RunEnds: i begins to record.
Turns(i) ==
  /\ run' \in [Runs -> RunType] /\ page' \in [Pages -> PageType]
  /\ run[i].pc \in {"idle", "copy"} /\ run'[i].pc = "record" /\ run'[i].row = run[i].row
  /\ run'[i].alone = (Recording = {}) /\ SameWork(i)
  /\ run'[i].todo = run[i].todo /\ run'[i].asked = run[i].asked
  /\ run'[i].err \in Failures \/ Len(run[i].todo) = 0
  /\ run'[i].mode = run[i].mode \/ (run[i].pc = "idle" /\ run'[i].mode # "pick")
  /\ \A j \in Runs \ {i} :
       /\ run'[j].pc = run[j].pc /\ run'[j].row = run[j].row
       /\ SameWork(j) /\ SamePlan(j) /\ SameRecord(j)
       /\ run'[j].alone => run[j].alone /\ j \notin Recording
  /\ \A p \in Pages : page'[p].of = Mixed
  /\ UNCHANGED <<scene, ledger, last>>

\* RecordRow.
Writes(i) ==
  /\ OnlyRun(i) /\ SameWork(i) /\ SamePlan(i) /\ SameRecord(i)
  /\ i \in Recording /\ run'[i].row = run[i].row + 1 /\ run'[i].alone = run[i].alone
  /\ run'[i].pc = IF run[i].row = 5 THEN "done" ELSE "record"
  /\ ledger' \in RecordType
  /\ \A k \in 1 .. 5 :
       ledger'[Rows[k]] = IF k = run[i].row THEN RecordOf(i)[Rows[k]] ELSE ledger[Rows[k]]
  /\ last' = IF run[i].row = 5 /\ run[i].alone THEN i ELSE Mixed
  /\ UNCHANGED <<scene, page>>

\* RecordRowFails.
GivesUp(i) ==
  /\ OnlyRun(i) /\ SameWork(i) /\ SamePlan(i) /\ SameRecord(i)
  /\ i \in Recording /\ run'[i].pc = "done" /\ last' = Mixed
  /\ UNCHANGED <<scene, ledger, page>>

\* ReadRow, ReadRowFails.
Looks(p) ==
  /\ page' \in [Pages -> PageType]
  /\ \A q \in Pages \ {p} : page'[q] = page[q]
  /\ page[p].pc < 5 /\ page'[p].pc = page[p].pc + 1
  /\ \/ page'[p].of = Mixed
     \/ /\ page'[p].of = IF page[p].pc = 0 THEN last ELSE page[p].of
        /\ page[p].pc = 0 => Recording = {}
        /\ \A k \in 1 .. 5 : page'[p].shown[ReadOrder[k]] =
             IF k = page'[p].pc THEN ledger[ReadOrder[k]] ELSE page[p].shown[ReadOrder[k]]
  /\ UNCHANGED <<scene, run, ledger, last>>

\* The process is stopped or killed: its runs and pages are gone, the record stays.
Killed ==
  /\ run' \in [Runs -> RunType] /\ page' \in [Pages -> PageType]
  /\ \A i \in Runs :
       /\ run'[i].pc = IF run[i].pc \in {"copy", "record"} THEN "done" ELSE run[i].pc
       /\ run'[i].row = run[i].row /\ SameWork(i) /\ SamePlan(i)
       /\ run[i].pc = "done" => SameRecord(i)
       /\ run[i].pc \in {"copy", "record"} => run'[i].err = "killed"
  /\ last' = IF Recording = {} THEN last ELSE Mixed
  /\ \A p \in Pages : page'[p].of = Mixed
  /\ UNCHANGED <<scene, ledger>>

LedgerEffect ==
  \/ \E i \in Runs : Starts(i) \/ TakesName(i) \/ Turns(i) \/ Writes(i) \/ GivesUp(i)
  \/ \E p \in Pages : Looks(p)
  \/ Killed

\* A folder's listing has every name that is there once.
LEMMA ListingIsASet ==
  ASSUME scene \in Scenes
  PROVE  /\ Listing \in Seq(Names) /\ IsInjective(Listing)
         /\ \A k \in DOMAIN Listing : scene.is[Listing[k]] # "missing"
<1>. DEFINE There == {n \in Names : scene.is[n] # "missing"}
<1>1. IsFiniteSet(There)
  BY LedgerAssumption
<1>2. Cardinality(There) \in Nat /\ ExistsBijection(1 .. Cardinality(There), There)
  BY <1>1, FS_CardinalityType
<1>3. \E f \in [1 .. Cardinality(There) -> There] : IsInjective(f)
  BY <1>2, Fun_ExistsBij DEF Bijection, Injection
<1>4. Listing \in [1 .. Cardinality(There) -> There] /\ IsInjective(Listing)
  BY <1>3 DEF Listing, SetToSeq
<1>5. ASSUME NEW n \in Nat, NEW S, NEW f \in [1 .. n -> S] PROVE f \in Seq(S)
  OBVIOUS
<1>6. Listing \in Seq(There)
  BY <1>2, <1>4, <1>5
<1>7. Listing \in Seq(Names)
  BY <1>6, SeqMonotonic
<1>. QED
  BY <1>4, <1>7

\* What a run takes next is a name, and so is what it copies.
LEMMA NamesAreTaken ==
  ASSUME LedgerTypes, NEW i \in Runs, run[i].todo # << >>
  PROVE  Base(i) \in Names /\ Source(i) \in Names
<1>1. run[i].todo \in Seq(Names)
  BY DEF LedgerTypes, RunType
<1>2. Head(run[i].todo) \in Names
  BY <1>1, HeadTailProperties
<1>. QED
  BY <1>2, LedgerAssumption DEF Base, Source

\* A scan or a pick begins.
LEMMA BeginsStarts ==
  ASSUME LedgerTypes, NEW i \in DOMAIN scene.runs, NEW names \in Seq(Names),
         Begins(i, names), scene.runs[i] # "pick" => names = Listing
  PROVE  i \in Runs /\ Starts(i) /\ run'[i].mode = scene.runs[i]
<1>1. i \in Runs /\ scene.runs[i] \in Modes
  BY LedgerAssumption DEF LedgerTypes, Modes
<1>2. run[i] \in RunType
  BY <1>1 DEF LedgerTypes
<1>8. PICK n \in Nat : n = Len(names)
  BY LenProperties
<1>3. [run[i] EXCEPT !.pc = "copy", !.mode = scene.runs[i], !.asked = n, !.todo = names] \in RunType
  BY ONLY <1>1, <1>2, n \in Nat, names \in Seq(Names) DEF RunType
<1>4. run' = [run EXCEPT ![i] =
                [run[i] EXCEPT !.pc = "copy", !.mode = scene.runs[i], !.asked = n, !.todo = names]]
  BY <1>1, <1>2, <1>8 DEF Begins, LedgerTypes
<1>5. OnlyRun(i)
  BY <1>1, <1>3, <1>4 DEF LedgerTypes, OnlyRun
<1>6. run'[i] = [run[i] EXCEPT !.pc = "copy", !.mode = scene.runs[i], !.asked = n, !.todo = names]
  BY <1>1, <1>4 DEF LedgerTypes
<1>7. /\ run'[i].pc = "copy" /\ run'[i].row = run[i].row /\ run'[i].mode = scene.runs[i]
      /\ run'[i].todo = names /\ run'[i].tried = run[i].tried
      /\ run'[i].copied = run[i].copied /\ run'[i].failed = run[i].failed
      /\ run'[i].imported = run[i].imported /\ run'[i].skipped = run[i].skipped
      /\ run'[i].asked = n
  BY ONLY <1>2, <1>6 DEF RunType
<1>. QED
  BY <1>1, <1>5, <1>7, <1>8 DEF Starts, SameWork, Begins

\* A run takes a name: it skips it, copies it, or fails to.
LEMMA MovesGoes ==
  ASSUME LedgerTypes, NEW i \in Runs, SkipName(i) \/ CopyName(i) \/ CopyNameFails(i)
  PROVE  TakesName(i)
<1>1. run[i] \in RunType /\ run[i].todo # << >> /\ run[i].pc = "copy"
  BY DEF LedgerTypes, SkipName, CopyName, CopyNameFails, Takes
<1>2. Base(i) \in Names /\ Source(i) \in Names
  BY <1>1, NamesAreTaken
<1>3. /\ run[i].todo \in Seq(Names) /\ run[i].copied \in Seq(Names)
      /\ run[i].tried \in SUBSET Names /\ run[i].failed \in SUBSET Names
      /\ run[i].skipped \in Nat /\ run[i].imported \in Nat
  BY <1>1 DEF RunType
<1>8. /\ Tail(run[i].todo) \in Seq(Names) /\ run[i].tried \cup {Base(i)} \in SUBSET Names
      /\ run[i].failed \cup {Source(i)} \in SUBSET Names
  BY <1>1, <1>2, <1>3, HeadTailProperties
<1>9. Append(run[i].copied, Source(i)) \in Seq(Names)
  BY <1>2, <1>3, AppendProperties
<1>10. run[i].skipped + 1 \in Nat /\ run[i].imported + 1 \in Nat
  BY <1>3
<1>4. ASSUME NEW r \in RunType, r.todo = run[i].todo, r.tried = run[i].tried, Moves(i, r)
      PROVE  /\ OnlyRun(i) /\ UNCHANGED <<scene, ledger, page, last>>
             /\ run'[i] = [r EXCEPT !.todo = Tail(r.todo), !.tried = r.tried \cup {Base(i)}]
  <2>1. [r EXCEPT !.todo = Tail(r.todo), !.tried = r.tried \cup {Base(i)}] \in RunType
    BY <1>4, <1>8 DEF RunType
  <2>2. run' = [run EXCEPT ![i] = [r EXCEPT !.todo = Tail(r.todo), !.tried = r.tried \cup {Base(i)}]]
    BY <1>4 DEF Moves
  <2>. QED
    BY <1>4, <2>1, <2>2 DEF OnlyRun, Moves, LedgerTypes
<1>5. CASE SkipName(i)
  <2>1. [run[i] EXCEPT !.skipped = run[i].skipped + 1] \in RunType
    BY <1>1, <1>10 DEF RunType
  <2>2. PICK r \in RunType : r = [run[i] EXCEPT !.skipped = run[i].skipped + 1]
    BY <2>1
  <2>3. /\ r.pc = run[i].pc /\ r.row = run[i].row /\ r.mode = run[i].mode
        /\ r.todo = run[i].todo /\ r.tried = run[i].tried /\ r.copied = run[i].copied
        /\ r.failed = run[i].failed /\ r.imported = run[i].imported
        /\ r.skipped = run[i].skipped + 1 /\ r.asked = run[i].asked
    BY <1>1, <2>2 DEF RunType
  <2>4. Moves(i, r)
    BY <1>5, <2>2 DEF SkipName
  <2>5. OnlyRun(i) /\ UNCHANGED <<scene, ledger, page, last>>
        /\ run'[i] = [r EXCEPT !.todo = Tail(r.todo), !.tried = r.tried \cup {Base(i)}]
    BY <1>4, <2>3, <2>4
  <2>. QED
    BY ZenonT(30), <1>1, <1>5, <2>3, <2>5 DEF TakesName, SkipName, RunType
<1>6. CASE CopyName(i)
  <2>1. [run[i] EXCEPT !.imported = run[i].imported + 1, !.copied = Append(run[i].copied, Source(i))]
          \in RunType
    BY <1>1, <1>8, <1>9, <1>10 DEF RunType
  <2>2. PICK r \in RunType :
          r = [run[i] EXCEPT !.imported = run[i].imported + 1, !.copied = Append(run[i].copied, Source(i))]
    BY <2>1
  <2>3. /\ r.pc = run[i].pc /\ r.row = run[i].row /\ r.mode = run[i].mode
        /\ r.todo = run[i].todo /\ r.tried = run[i].tried
        /\ r.copied = Append(run[i].copied, Source(i))
        /\ r.failed = run[i].failed /\ r.imported = run[i].imported + 1
        /\ r.skipped = run[i].skipped /\ r.asked = run[i].asked
    BY <1>1, <2>2 DEF RunType
  <2>4. Moves(i, r)
    BY <1>6, <2>2 DEF CopyName
  <2>5. OnlyRun(i) /\ UNCHANGED <<scene, ledger, page, last>>
        /\ run'[i] = [r EXCEPT !.todo = Tail(r.todo), !.tried = r.tried \cup {Base(i)}]
    BY <1>4, <2>3, <2>4
  <2>. QED
    BY ZenonT(30), <1>1, <1>6, <2>3, <2>5 DEF TakesName, CopyName, RunType
<1>7. CASE CopyNameFails(i)
  <2>1. [run[i] EXCEPT !.skipped = run[i].skipped + 1, !.failed = run[i].failed \cup {Source(i)}]
          \in RunType
    BY <1>1, <1>8, <1>9, <1>10 DEF RunType
  <2>2. PICK r \in RunType :
          r = [run[i] EXCEPT !.skipped = run[i].skipped + 1, !.failed = run[i].failed \cup {Source(i)}]
    BY <2>1
  <2>3. /\ r.pc = run[i].pc /\ r.row = run[i].row /\ r.mode = run[i].mode
        /\ r.todo = run[i].todo /\ r.tried = run[i].tried /\ r.copied = run[i].copied
        /\ r.failed = run[i].failed \cup {Source(i)} /\ r.imported = run[i].imported
        /\ r.skipped = run[i].skipped + 1 /\ r.asked = run[i].asked
    BY <1>1, <2>2 DEF RunType
  <2>4. Moves(i, r)
    BY <1>7, <2>2 DEF CopyNameFails
  <2>5. OnlyRun(i) /\ UNCHANGED <<scene, ledger, page, last>>
        /\ run'[i] = [r EXCEPT !.todo = Tail(r.todo), !.tried = r.tried \cup {Base(i)}]
    BY <1>4, <2>3, <2>4
  <2>. QED
    BY ZenonT(30), <1>1, <1>7, <2>3, <2>5 DEF TakesName, CopyNameFails, RunType
<1>. QED
  BY <1>5, <1>6, <1>7

\* A run begins to record, with r as what it was until then.
LEMMA RecordsTurns ==
  ASSUME LedgerTypes, NEW i \in Runs, NEW r \in RunType, NEW e \in Errors, Records(i, r, e),
         run[i].pc \in {"idle", "copy"}, r.row = run[i].row, r.todo = run[i].todo,
         r.tried = run[i].tried, r.copied = run[i].copied, r.failed = run[i].failed,
         r.imported = run[i].imported, r.skipped = run[i].skipped, r.asked = run[i].asked,
         e \in Failures \/ Len(run[i].todo) = 0,
         r.mode = run[i].mode \/ (run[i].pc = "idle" /\ r.mode # "pick")
  PROVE  Turns(i)
<1>1. (Recording = {}) \in BOOLEAN /\ \A j \in Runs : (j \in Recording) \in BOOLEAN
  OBVIOUS
<1>2. [r EXCEPT !.pc = "record", !.err = e, !.alone = Recording = {}] \in RunType
  BY ONLY <1>1, r \in RunType, e \in Errors DEF RunType
<1>3. run'[i] = [r EXCEPT !.pc = "record", !.err = e, !.alone = Recording = {}]
  BY DEF Records
<1>4. ASSUME NEW j \in Runs \ {i}
      PROVE  /\ run'[j] \in RunType
             /\ run'[j].pc = run[j].pc /\ run'[j].row = run[j].row
             /\ SameWork(j) /\ SamePlan(j) /\ SameRecord(j)
             /\ run'[j].alone => run[j].alone /\ j \notin Recording
  <2>1. run[j] \in RunType /\ run[j].alone \in BOOLEAN
    BY DEF LedgerTypes, RunType
  <2>2. (run[j].alone /\ j \notin Recording) \in BOOLEAN
    BY <2>1
  <2>3. run'[j] = [run[j] EXCEPT !.alone = (run[j].alone /\ j \notin Recording)]
    BY DEF Records
  <2>4. PICK b \in BOOLEAN : b = (run[j].alone /\ j \notin Recording)
    BY <2>2
  <2>5. run'[j] = [run[j] EXCEPT !.alone = b]
    BY <2>3, <2>4
  <2>6. /\ [run[j] EXCEPT !.alone = b] \in RunType
        /\ run'[j].pc = run[j].pc /\ run'[j].row = run[j].row
        /\ SameWork(j) /\ SamePlan(j) /\ SameRecord(j)
        /\ run'[j].alone = b
    BY ONLY <2>1, <2>5, b \in BOOLEAN DEF RunType, SameWork, SamePlan, SameRecord
  <2>. QED
    BY <2>4, <2>5, <2>6
<1>5. run' \in [Runs -> RunType]
  <2>1. \A j \in Runs : run'[j] \in RunType
    BY <1>2, <1>3, <1>4
  <2>. QED
    BY <2>1 DEF Records
<1>6. page' \in [Pages -> PageType] /\ \A p \in Pages : page'[p].of = Mixed
  <2>1. ASSUME NEW p \in Pages
        PROVE  /\ [page[p] EXCEPT !.of = Mixed] \in PageType
               /\ [page[p] EXCEPT !.of = Mixed].of = Mixed
    BY DEF LedgerTypes, PageType
  <2>. QED
    BY <2>1 DEF Records
<1>7. /\ run'[i].pc = "record" /\ run'[i].row = r.row /\ run'[i].alone = (Recording = {})
      /\ run'[i].todo = r.todo /\ run'[i].mode = r.mode
      /\ run'[i].tried = r.tried /\ run'[i].copied = r.copied /\ run'[i].failed = r.failed
      /\ run'[i].imported = r.imported /\ run'[i].skipped = r.skipped /\ run'[i].asked = r.asked
      /\ run'[i].err = e
  BY <1>3 DEF RunType
<1>. QED
  BY ZenonT(30), <1>4, <1>5, <1>6, <1>7 DEF Turns, SameWork, Records

\* So do a scan that was refused, and a run that was cancelled or is through.
LEMMA TurnsToRecord ==
  ASSUME LedgerTypes, NEW i \in DOMAIN scene.runs, ScanRefused(i) \/ Cancelled(i) \/ RunEnds(i)
  PROVE  i \in Runs /\ Turns(i)
<1>1. i \in Runs /\ scene.runs[i] \in Modes
  BY LedgerAssumption DEF LedgerTypes, Modes
<1>2. run[i] \in RunType
  BY <1>1 DEF LedgerTypes
<1>3. CASE ScanRefused(i)
  <2>1. [run[i] EXCEPT !.mode = scene.runs[i]] \in RunType
    BY <1>1, <1>2 DEF RunType
  <2>2. PICK r \in RunType : r = [run[i] EXCEPT !.mode = scene.runs[i]]
    BY <2>1
  <2>3. /\ r.row = run[i].row /\ r.todo = run[i].todo /\ r.tried = run[i].tried
        /\ r.copied = run[i].copied /\ r.failed = run[i].failed
        /\ r.imported = run[i].imported /\ r.skipped = run[i].skipped
        /\ r.asked = run[i].asked /\ r.mode = scene.runs[i]
    BY <1>2, <2>2 DEF RunType
  <2>5. PICK e \in Errors : e = "unreadable"
    BY DEF Errors
  <2>6. e \in Failures
    BY <2>5 DEF Failures
  <2>4. Records(i, r, e) /\ run[i].pc = "idle" /\ scene.runs[i] # "pick"
    BY <1>3, <2>2, <2>5 DEF ScanRefused
  <2>. QED
    BY <1>1, <2>3, <2>4, <2>6, RecordsTurns
<1>4. CASE Cancelled(i)
  <2>1. PICK r \in RunType : r = run[i]
    BY <1>2
  <2>5. PICK e \in Errors : e = "cancelled"
    BY DEF Errors
  <2>2. Records(i, r, e) /\ run[i].pc = "copy" /\ e \in Failures
    BY <2>5, <1>4, <2>1 DEF Cancelled, Takes, Failures
  <2>. QED
    BY <1>1, <2>1, <2>2, RecordsTurns
<1>5. CASE RunEnds(i)
  <2>1. PICK r \in RunType : r = run[i]
    BY <1>2
  <2>5. PICK e \in Errors : e = ""
    BY DEF Errors
  <2>2. Records(i, r, e) /\ run[i].pc = "copy" /\ Len(run[i].todo) = 0
    BY <2>5, <1>5, <2>1 DEF RunEnds
  <2>. QED
    BY <1>1, <2>1, <2>2, RecordsTurns
<1>. QED
  BY <1>1, <1>3, <1>4, <1>5


\* The record of a run, row by row.
LEMMA RecordFits ==
  ASSUME LedgerTypes, NEW i \in Runs
  PROVE  /\ RecordOf(i) \in RecordType
         /\ RecordOf(i).at = i /\ RecordOf(i).imported = run[i].imported
         /\ RecordOf(i).skipped = run[i].skipped /\ RecordOf(i).err = run[i].err
         /\ RecordOf(i).mode = run[i].mode
<1>1. run[i] \in RunType
  BY DEF LedgerTypes
<1>2. /\ run[i].imported \in Nat /\ run[i].skipped \in Nat /\ run[i].err \in Errors
      /\ run[i].mode \in Modes \cup {""}
  BY <1>1 DEF RunType
<1>. QED
  BY ONLY <1>2, i \in Runs DEF RecordOf, RecordType

\* A row of a record is replaced by that of another.
LEMMA OneRow ==
  ASSUME NEW a \in RecordType, NEW b \in RecordType, NEW n \in 1 .. 5,
         NEW h, h = [a EXCEPT ![Rows[n]] = b[Rows[n]]]
  PROVE  /\ h \in RecordType
         /\ \A k \in 1 .. 5 : h[Rows[k]] = IF k = n THEN b[Rows[k]] ELSE a[Rows[k]]
<1>1. /\ Rows[1] = "at" /\ Rows[2] = "imported" /\ Rows[3] = "skipped" /\ Rows[4] = "err"
      /\ Rows[5] = "mode"
  BY DEF Rows
<1>2. n \in {1, 2, 3, 4, 5} /\ 1 .. 5 = {1, 2, 3, 4, 5}
  OBVIOUS
<1>3. CASE n = 1
  BY <1>1, <1>2, <1>3 DEF RecordType
<1>4. CASE n = 2
  BY <1>1, <1>2, <1>4 DEF RecordType
<1>5. CASE n = 3
  BY <1>1, <1>2, <1>5 DEF RecordType
<1>6. CASE n = 4
  BY <1>1, <1>2, <1>6 DEF RecordType
<1>7. CASE n = 5
  BY <1>1, <1>2, <1>7 DEF RecordType
<1>. QED
  BY <1>2, <1>3, <1>4, <1>5, <1>6, <1>7

\* The rows are read in another order.
LEMMA OneRowRead ==
  ASSUME NEW a \in RecordType, NEW b \in RecordType, NEW n \in 1 .. 5,
         NEW h, h = [a EXCEPT ![ReadOrder[n]] = b[ReadOrder[n]]]
  PROVE  /\ h \in RecordType
         /\ \A k \in 1 .. 5 : h[ReadOrder[k]] = IF k = n THEN b[ReadOrder[k]] ELSE a[ReadOrder[k]]
<1>1. /\ ReadOrder[1] = "at" /\ ReadOrder[2] = "imported" /\ ReadOrder[3] = "skipped"
      /\ ReadOrder[4] = "mode" /\ ReadOrder[5] = "err"
  BY DEF ReadOrder
<1>2. n \in {1, 2, 3, 4, 5} /\ 1 .. 5 = {1, 2, 3, 4, 5}
  OBVIOUS
<1>3. CASE n = 1
  BY <1>1, <1>2, <1>3 DEF RecordType
<1>4. CASE n = 2
  BY <1>1, <1>2, <1>4 DEF RecordType
<1>5. CASE n = 3
  BY <1>1, <1>2, <1>5 DEF RecordType
<1>6. CASE n = 4
  BY <1>1, <1>2, <1>6 DEF RecordType
<1>7. CASE n = 5
  BY <1>1, <1>2, <1>7 DEF RecordType
<1>. QED
  BY <1>2, <1>3, <1>4, <1>5, <1>6, <1>7

\* Records that agree in every row are the same.
LEMMA SameRows ==
  ASSUME NEW a \in RecordType, NEW b \in RecordType,
         AgreeTo(Rows, 5, a, b) \/ AgreeTo(ReadOrder, 5, a, b)
  PROVE  a = b
<1>1. /\ a.at = b.at /\ a.imported = b.imported /\ a.skipped = b.skipped /\ a.err = b.err
      /\ a.mode = b.mode
  <2>1. CASE AgreeTo(Rows, 5, a, b)
    BY <2>1 DEF AgreeTo, Rows
  <2>2. CASE AgreeTo(ReadOrder, 5, a, b)
    BY <2>2 DEF AgreeTo, ReadOrder
  <2>. QED
    BY <2>1, <2>2
<1>2. ASSUME NEW c \in RecordType
      PROVE  c = [at |-> c.at, imported |-> c.imported, skipped |-> c.skipped, err |-> c.err,
                  mode |-> c.mode]
  BY DEF RecordType
<1>. QED
  BY <1>1, <1>2

\* One upsert writes one row of the record.
LEMMA RowIsWritten ==
  ASSUME LedgerTypes, InRow, NEW i \in Runs, RecordRow(i)
  PROVE  Writes(i)
<1>1. run[i] \in RunType /\ run[i].pc = "record" /\ i \in Recording
  BY DEF LedgerTypes, RecordRow, Recording
<1>2. PICK n \in 1 .. 5 : n = run[i].row
  BY <1>1 DEF InRow
<1>3. Len(Rows) = 5
  BY DEF Rows
<1>4. RecordOf(i) \in RecordType /\ ledger \in RecordType
  BY RecordFits DEF LedgerTypes
<1>5. ledger' = [ledger EXCEPT ![Rows[n]] = RecordOf(i)[Rows[n]]]
  BY <1>2 DEF RecordRow
<1>6. /\ ledger' \in RecordType
      /\ \A k \in 1 .. 5 :
           ledger'[Rows[k]] = IF k = n THEN RecordOf(i)[Rows[k]] ELSE ledger[Rows[k]]
  <2>1. PICK a \in RecordType, b \in RecordType : a = ledger /\ b = RecordOf(i)
    BY <1>4
  <2>2. ledger' = [a EXCEPT ![Rows[n]] = b[Rows[n]]]
    BY <1>5, <2>1
  <2>3. ledger' \in RecordType
    BY <2>2, OneRow
  <2>4. \A k \in 1 .. 5 : ledger'[Rows[k]] = IF k = n THEN b[Rows[k]] ELSE a[Rows[k]]
    BY <2>2, OneRow
  <2>. QED
    BY <2>1, <2>3, <2>4
<1>7. PICK c \in {"record", "done"} : c = IF n = 5 THEN "done" ELSE "record"
  OBVIOUS
<1>8. run' = [run EXCEPT ![i] = [run[i] EXCEPT !.row = n + 1, !.pc = c]]
  <2>1. run' = [run EXCEPT ![i].row = n + 1, ![i].pc = IF n = 5 THEN "done" ELSE @]
    BY <1>2, <1>3 DEF RecordRow
  <2>2. run \in [Runs -> RunType]
    BY DEF LedgerTypes
  <2>3. CASE n = 5
    BY ONLY <1>1, <1>7, <2>1, <2>2, <2>3, i \in Runs DEF RunType
  <2>4. CASE n # 5
    BY ONLY <1>1, <1>7, <2>1, <2>2, <2>4, i \in Runs DEF RunType
  <2>. QED
    BY <2>3, <2>4
<1>9. [run[i] EXCEPT !.row = n + 1, !.pc = c] \in RunType
  <2>1. n + 1 \in 1 .. 6
    OBVIOUS
  <2>. QED
    BY ONLY <1>1, <2>1, c \in {"record", "done"} DEF RunType
<1>10. run'[i] = [run[i] EXCEPT !.row = n + 1, !.pc = c]
  BY <1>8 DEF LedgerTypes
<1>11. /\ run'[i].row = n + 1 /\ run'[i].pc = c
       /\ run'[i].alone = run[i].alone
       /\ SameWork(i) /\ SamePlan(i) /\ SameRecord(i)
  BY ONLY <1>1, <1>10 DEF RunType, SameWork, SamePlan, SameRecord
<1>12. OnlyRun(i)
  BY <1>8, <1>9 DEF OnlyRun, LedgerTypes
<1>13. last' = IF n = 5 /\ run[i].alone THEN i ELSE Mixed
  BY <1>2, <1>3 DEF RecordRow
<1>14. UNCHANGED <<scene, page>>
  BY DEF RecordRow
<1>. QED
  BY <1>1, <1>2, <1>6, <1>7, <1>11, <1>12, <1>13, <1>14 DEF Writes

\* One that fails ends the run.
LEMMA RowIsLost ==
  ASSUME LedgerTypes, NEW i \in Runs, RecordRowFails(i)
  PROVE  GivesUp(i)
<1>1. run[i] \in RunType
  BY DEF LedgerTypes
<1>2. run' = [run EXCEPT ![i] = [run[i] EXCEPT !.pc = "done"]]
  BY <1>1 DEF RecordRowFails, LedgerTypes
<1>3. [run[i] EXCEPT !.pc = "done"] \in RunType
  BY ONLY <1>1 DEF RunType
<1>4. run'[i] = [run[i] EXCEPT !.pc = "done"]
  BY <1>2 DEF LedgerTypes
<1>5. run'[i].pc = "done" /\ SameWork(i) /\ SamePlan(i) /\ SameRecord(i)
  BY ONLY <1>1, <1>4 DEF RunType, SameWork, SamePlan, SameRecord
<1>6. OnlyRun(i)
  BY <1>2, <1>3 DEF OnlyRun, LedgerTypes
<1>. QED
  BY <1>5, <1>6 DEF GivesUp, RecordRowFails

\* A page reads one row, or takes it for missing.
LEMMA RowIsRead ==
  ASSUME LedgerTypes, last \in Runs \cup {Mixed}, NEW p \in Pages, ReadRow(p) \/ ReadRowFails(p)
  PROVE  Looks(p)
<1>1. page[p] \in PageType /\ page \in [Pages -> PageType] /\ ledger \in RecordType
  BY DEF LedgerTypes
<1>2. page[p].pc \in 0 .. 4
  BY <1>1 DEF ReadRow, ReadRowFails, ReadOrder, PageType
<1>3. PICK n \in 1 .. 5 : n = page[p].pc + 1
  BY <1>2
<1>4. page[p].shown \in RecordType /\ page[p].of \in Runs \cup {Mixed} /\ NoRecord \in RecordType
  BY <1>1 DEF PageType, NoRecord, RecordType, Errors
<1>5. ASSUME NEW s \in RecordType, NEW o \in Runs \cup {Mixed},
             page' = [page EXCEPT ![p] = [page[p] EXCEPT !.pc = n, !.shown = s, !.of = o]]
      PROVE  /\ page' \in [Pages -> PageType] /\ \A q \in Pages \ {p} : page'[q] = page[q]
             /\ page'[p].pc = n /\ page'[p].shown = s /\ page'[p].of = o
  <2>1. PICK g \in PageType : g = page[p]
    BY <1>1
  <2>2. page'[p] = [g EXCEPT !.pc = n, !.shown = s, !.of = o]
    BY <1>1, <1>5, <2>1
  <2>3. page'[p] \in PageType /\ page'[p].pc = n /\ page'[p].shown = s /\ page'[p].of = o
    <3>1. n \in 0 .. 5
      OBVIOUS
    <3>2. page'[p] \in PageType
      BY <2>2, <3>1 DEF PageType
    <3>3. page'[p].pc = n
      BY <2>2 DEF PageType
    <3>4. page'[p].shown = s
      BY <2>2 DEF PageType
    <3>5. page'[p].of = o
      BY <2>2 DEF PageType
    <3>. QED
      BY <3>2, <3>3, <3>4, <3>5
  <2>. QED
    BY <1>1, <1>5, <2>3
<1>6. CASE ReadRow(p)
  <2>1. PICK o \in Runs \cup {Mixed} :
          o = IF n > 1 THEN page[p].of ELSE IF Recording = {} THEN last ELSE Mixed
    BY <1>4
  <2>2. PICK s \in RecordType : s = [page[p].shown EXCEPT ![ReadOrder[n]] = ledger[ReadOrder[n]]]
    BY <1>1, <1>4, OneRowRead
  <2>3. \A k \in 1 .. 5 : s[ReadOrder[k]] =
          IF k = n THEN ledger[ReadOrder[k]] ELSE page[p].shown[ReadOrder[k]]
    <3>1. PICK a \in RecordType, b \in RecordType : a = page[p].shown /\ b = ledger
      BY <1>1, <1>4
    <3>2. \A k \in 1 .. 5 : s[ReadOrder[k]] = IF k = n THEN b[ReadOrder[k]] ELSE a[ReadOrder[k]]
      BY <2>2, <3>1, OneRowRead
    <3>. QED
      BY <3>1, <3>2
  <2>4. page' = [page EXCEPT ![p] = [page[p] EXCEPT !.pc = n, !.shown = s, !.of = o]]
    BY <1>1, <1>3, <1>6, <2>1, <2>2 DEF ReadRow, PageType
  <2>5. /\ page' \in [Pages -> PageType] /\ \A q \in Pages \ {p} : page'[q] = page[q]
        /\ page'[p].pc = n /\ page'[p].shown = s /\ page'[p].of = o
    BY <1>5, <2>4
  <2>6. page'[p].of = Mixed \/ (page'[p].of = IF page[p].pc = 0 THEN last ELSE page[p].of)
    BY <1>2, <1>3, <2>1, <2>5
  <2>7. page'[p].of = Mixed \/ (page[p].pc = 0 => Recording = {})
    BY <1>2, <1>3, <2>1, <2>5
  <2>8. UNCHANGED <<scene, run, ledger, last>>
    BY <1>6 DEF ReadRow
  <2>9. \A k \in 1 .. 5 : page'[p].shown[ReadOrder[k]] =
          IF k = page'[p].pc THEN ledger[ReadOrder[k]] ELSE page[p].shown[ReadOrder[k]]
    BY <2>3, <2>5
  <2>. QED
    BY <1>2, <1>3, <2>5, <2>6, <2>7, <2>8, <2>9 DEF Looks
<1>7. CASE ReadRowFails(p)
  <2>2. PICK s \in RecordType : s = [page[p].shown EXCEPT ![ReadOrder[n]] = NoRecord[ReadOrder[n]]]
    BY <1>1, <1>4, OneRowRead
  <2>4. page' = [page EXCEPT ![p] = [page[p] EXCEPT !.pc = n, !.shown = s, !.of = Mixed]]
    BY <1>1, <1>3, <1>7, <2>2 DEF ReadRowFails, PageType
  <2>5. /\ page' \in [Pages -> PageType] /\ \A q \in Pages \ {p} : page'[q] = page[q]
        /\ page'[p].pc = n /\ page'[p].of = Mixed
    BY <1>4, <1>5, <2>4
  <2>. QED
    BY <1>2, <1>3, <1>7, <2>5 DEF Looks, ReadRowFails
<1>. QED
  BY <1>6, <1>7

\* Every step of the runs and pages has one of the effects.
LEMMA NextHasEffect ==
  ASSUME LedgerTypes, InRow, Whole, LedgerNext
  PROVE  LedgerEffect
<1>1. last \in Runs \cup {Mixed}
  BY DEF Whole
<1>2. CASE LedgerStatement
  BY <1>1, <1>2, RowIsWritten, RowIsRead DEF LedgerStatement, LedgerEffect
<1>3. CASE LedgerFailure
  BY <1>1, <1>3, RowIsLost, RowIsRead DEF LedgerFailure, LedgerEffect
<1>4. ASSUME NEW i \in DOMAIN scene.runs, BeginScan(i) \/ BeginPick(i) PROVE LedgerEffect
  <2>1. PICK names \in Seq(Names) : Begins(i, names) /\ (scene.runs[i] # "pick" => names = Listing)
    <3>1. CASE BeginScan(i)
      <4>1. Listing \in Seq(Names)
        BY ListingIsASet DEF LedgerTypes
      <4>. QED
        BY <3>1, <4>1 DEF BeginScan
    <3>2. CASE BeginPick(i)
      <4>1. scene.forms \subseteq Seq(Names)
        BY LedgerAssumption DEF LedgerTypes
      <4>. QED
        BY <3>2, <4>1 DEF BeginPick
    <3>. QED
      BY <1>4, <3>1, <3>2
  <2>2. i \in Runs /\ Starts(i)
    BY <2>1, BeginsStarts
  <2>. QED
    BY <2>2 DEF LedgerEffect
<1>5. ASSUME NEW i \in DOMAIN scene.runs, ScanRefused(i) \/ Cancelled(i) \/ RunEnds(i)
      PROVE  LedgerEffect
  BY <1>5, TurnsToRecord DEF LedgerEffect
<1>6. ASSUME NEW i \in DOMAIN scene.runs, SkipName(i) \/ CopyName(i) \/ CopyNameFails(i)
      PROVE  LedgerEffect
  <2>1. i \in Runs
    BY LedgerAssumption DEF LedgerTypes
  <2>. QED
    BY <1>6, <2>1, MovesGoes DEF LedgerEffect
<1>. QED
  BY <1>2, <1>3, <1>4, <1>5, <1>6 DEF LedgerNext, FolderStep

-----------------------------------------------------------------------------
(* Each part of the invariant is kept.                                     *)

\* The types are kept, and the rows are written in order.
LEMMA LedgerTypesKept ==
  ASSUME LedgerTypes, InRow, LedgerEffect
  PROVE  LedgerTypes' /\ InRow'
<1>1. LedgerTypes'
  BY DEF LedgerTypes, LedgerEffect, Starts, TakesName, Turns, Writes, GivesUp, Looks, Killed, OnlyRun
<1>2. \A i \in Runs : run[i].row \in 1 .. 6 /\ run'[i].row \in 1 .. 6
  BY <1>1 DEF LedgerTypes, RunType
<1>3. ASSUME NEW j \in Runs, Starts(j) \/ TakesName(j) \/ Turns(j) \/ Writes(j) \/ GivesUp(j),
             NEW i \in Runs
      PROVE  /\ run'[i].pc \in {"idle", "copy"} => run'[i].row = 1
             /\ run'[i].pc = "record" => run'[i].row \in 1 .. 5
  <2>1. CASE i = j
    BY <1>2, <1>3, <2>1 DEF InRow, Starts, TakesName, Turns, Writes, GivesUp, Recording
  <2>2. CASE i # j
    BY <1>2, <1>3, <2>2 DEF InRow, Starts, TakesName, Turns, Writes, GivesUp, OnlyRun
  <2>. QED
    BY <2>1, <2>2
<1>4. ASSUME NEW p \in Pages, Looks(p) PROVE InRow'
  BY <1>4 DEF InRow, Looks
<1>5. ASSUME Killed, NEW i \in Runs
      PROVE  /\ run'[i].pc \in {"idle", "copy"} => run'[i].row = 1
             /\ run'[i].pc = "record" => run'[i].row \in 1 .. 5
  <2>1. run'[i].row = run[i].row /\ run'[i].pc \notin {"copy", "record"}
        /\ (run'[i].pc = "idle" => run[i].pc = "idle")
    BY <1>5 DEF Killed
  <2>. QED
    BY <2>1 DEF InRow
<1>6. InRow'
  BY <1>3, <1>4, <1>5 DEF LedgerEffect, InRow
<1>. QED
  BY <1>1, <1>6

\* Who takes names or begins does not record; the records of others stay.
LEMMA NobodyRecords ==
  ASSUME LedgerTypes, NEW j \in Runs, Starts(j) \/ TakesName(j)
  PROVE  /\ Recording' = Recording /\ UNCHANGED <<scene, ledger, page, last>>
         /\ \A i \in Runs \ {j} : run'[i] = run[i] /\ RecordOf(i)' = RecordOf(i)
         /\ run[j].pc # "done" /\ j \notin Recording
<1>1. \A i \in Runs \ {j} : run'[i] = run[i]
  BY DEF Starts, TakesName, OnlyRun
<1>2. run[j].pc \in {"idle", "copy"} /\ run'[j].pc = "copy"
  BY DEF Starts, TakesName
<1>. QED
  BY <1>1, <1>2 DEF Recording, RecordOf, Starts, TakesName

\* A run whose counts do not change has the same record.
LEMMA RecordStays ==
  ASSUME NEW i \in Runs, SameRecord(i)
  PROVE  RecordOf(i)' = RecordOf(i)
BY DEF SameRecord, RecordOf

\* Whoever records alone stays the one who has written the rows so far.
LEMMA AloneKept ==
  ASSUME LedgerInv, LedgerEffect
  PROVE  Alone'
<1>1. SUFFICES ASSUME NEW i \in Recording', run'[i].alone
               PROVE  /\ Recording' = {i}
                      /\ AgreeTo(Rows, run'[i].row - 1, ledger', RecordOf(i)')
  BY DEF Alone, AgreeTo
<1>2. i \in Runs /\ run'[i].pc = "record"
  BY <1>1 DEF Recording
<1>3. LedgerTypes /\ InRow /\ LedgerTypes'
  BY LedgerTypesKept DEF LedgerInv
<1>4. \A j \in Runs : run[j].row \in 1 .. 6 /\ run'[j].row \in 1 .. 6
  BY <1>3 DEF LedgerTypes, RunType
<1>5. i \in Recording /\ run[i].alone => /\ Recording = {i}
                                        /\ AgreeTo(Rows, run[i].row - 1, ledger, RecordOf(i))
  BY DEF LedgerInv, Alone
<1>6. ASSUME NEW j \in Runs, Starts(j) \/ TakesName(j)
      PROVE  Recording' = {i} /\ AgreeTo(Rows, run'[i].row - 1, ledger', RecordOf(i)')
  BY <1>1, <1>2, <1>3, <1>5, <1>6, NobodyRecords
<1>7. ASSUME NEW j \in Runs, Turns(j)
      PROVE  Recording' = {i} /\ AgreeTo(Rows, run'[i].row - 1, ledger', RecordOf(i)')
  <2>1. i = j
    BY <1>1, <1>2, <1>7 DEF Turns, Recording
  <2>2. Recording = {} /\ run'[i].row = 1
    BY <1>1, <1>3, <1>7, <2>1 DEF Turns, InRow
  <2>3. Recording' = {i}
    BY <1>2, <1>7, <2>1, <2>2 DEF Turns, Recording
  <2>. QED
    BY <2>2, <2>3 DEF AgreeTo
<1>8. ASSUME NEW j \in Runs, Writes(j)
      PROVE  Recording' = {i} /\ AgreeTo(Rows, run'[i].row - 1, ledger', RecordOf(i)')
  <2>1. i = j
    BY <1>1, <1>2, <1>5, <1>8 DEF Writes, OnlyRun, Recording
  <2>2. run[i].row # 5 /\ run'[i].row = run[i].row + 1 /\ run[i].alone
    BY <1>1, <1>2, <1>8, <2>1 DEF Writes
  <2>3. Recording = {i} /\ AgreeTo(Rows, run[i].row - 1, ledger, RecordOf(i))
    BY <1>5, <1>8, <2>1, <2>2 DEF Writes
  <2>4. Recording' = {i}
    BY <1>2, <1>8, <2>1, <2>3 DEF Writes, OnlyRun, Recording
  <2>5. RecordOf(i)' = RecordOf(i)
    BY <1>2, <1>8, <2>1, RecordStays DEF Writes
  <2>6. \A k \in 1 .. 5 : k <= run'[i].row - 1 => ledger'[Rows[k]] = RecordOf(i)[Rows[k]]
    BY <1>2, <1>4, <1>8, <2>1, <2>2, <2>3 DEF Writes, AgreeTo
  <2>. QED
    BY <2>4, <2>5, <2>6 DEF AgreeTo
<1>9. ASSUME NEW j \in Runs, GivesUp(j)
      PROVE  Recording' = {i} /\ AgreeTo(Rows, run'[i].row - 1, ledger', RecordOf(i)')
  BY <1>1, <1>2, <1>5, <1>9 DEF GivesUp, OnlyRun, Recording
<1>10. ASSUME NEW p \in Pages, Looks(p)
       PROVE  Recording' = {i} /\ AgreeTo(Rows, run'[i].row - 1, ledger', RecordOf(i)')
  BY <1>1, <1>5, <1>10 DEF Looks, Recording, RecordOf
<1>11. ~Killed
  BY <1>2 DEF Killed
<1>. QED
  BY <1>6, <1>7, <1>8, <1>9, <1>10, <1>11 DEF LedgerEffect

\* The last to write alone and to the end leaves a ledger that is its record.
LEMMA WholeKept ==
  ASSUME LedgerInv, LedgerEffect
  PROVE  Whole'
<1>1. SUFFICES ASSUME last' # Mixed PROVE Whole'
  BY DEF Whole
<1>2. LedgerTypes /\ InRow /\ LedgerTypes'
  BY LedgerTypesKept DEF LedgerInv
<1>3. last # Mixed => last \in Runs /\ run[last].pc = "done" /\ ledger = RecordOf(last)
  BY DEF LedgerInv, Whole
<1>4. ASSUME last' = last, ledger' = ledger, run'[last].pc = "done", SameRecord(last)
      PROVE  Whole'
  BY <1>1, <1>3, <1>4, RecordStays DEF Whole, RecordOf
<1>5. ASSUME NEW j \in Runs, Starts(j) \/ TakesName(j) PROVE Whole'
  BY <1>1, <1>2, <1>3, <1>4, <1>5, NobodyRecords DEF SameRecord
<1>6. ASSUME NEW j \in Runs, Turns(j) PROVE Whole'
  BY <1>1, <1>3, <1>4, <1>6 DEF Turns
<1>7. ASSUME NEW j \in Runs, Writes(j) PROVE Whole'
  <2>1. last' = j /\ run[j].row = 5 /\ run[j].alone /\ j \in Recording
    BY <1>1, <1>7 DEF Writes
  <2>2. AgreeTo(Rows, 4, ledger, RecordOf(j))
    BY <2>1 DEF LedgerInv, Alone
  <2>3. AgreeTo(Rows, 5, ledger', RecordOf(j))
    BY <1>7, <2>1, <2>2 DEF Writes, AgreeTo
  <2>4. PICK a \in RecordType, b \in RecordType : a = ledger' /\ b = RecordOf(j)
    BY <1>2, <1>7, RecordFits DEF Writes
  <2>5. ledger' = RecordOf(j)
    BY <2>3, <2>4, SameRows
  <2>6. RecordOf(j)' = RecordOf(j)
    BY <1>7, RecordStays DEF Writes
  <2>7. run'[j].pc = "done"
    BY <1>7, <2>1 DEF Writes
  <2>. QED
    BY <2>1, <2>5, <2>6, <2>7 DEF Whole, RecordOf
<1>8. ASSUME NEW j \in Runs, GivesUp(j) PROVE Whole'
  BY <1>1, <1>8 DEF GivesUp
<1>9. ASSUME NEW p \in Pages, Looks(p) PROVE Whole'
  BY <1>1, <1>3, <1>4, <1>9 DEF Looks, SameRecord
<1>10. CASE Killed
  <2>1. last' = last /\ ledger' = ledger
    BY <1>1, <1>10 DEF Killed
  <2>2. run'[last].pc = "done" /\ SameRecord(last)
    BY <1>1, <1>3, <1>10, <2>1 DEF Killed
  <2>. QED
    BY <1>4, <2>1, <2>2
<1>. QED
  BY <1>5, <1>6, <1>7, <1>8, <1>9, <1>10 DEF LedgerEffect

\* A page goes on reading the record it began with, or is mixed.
LEMMA ReadingKept ==
  ASSUME LedgerInv, LedgerEffect
  PROVE  Reading'
<1>1. SUFFICES ASSUME NEW p \in Pages, page'[p].of # Mixed
               PROVE  /\ Recording' = {} /\ page'[p].of = last'
                      /\ AgreeTo(ReadOrder, page'[p].pc, page'[p].shown, ledger')
  BY DEF Reading, AgreeTo
<1>2. LedgerTypes
  BY DEF LedgerInv
<1>3. page[p].of # Mixed => /\ Recording = {} /\ page[p].of = last
                           /\ AgreeTo(ReadOrder, page[p].pc, page[p].shown, ledger)
  BY DEF LedgerInv, Reading
<1>4. ASSUME NEW j \in Runs, Starts(j) \/ TakesName(j)
      PROVE  /\ Recording' = {} /\ page'[p].of = last'
             /\ AgreeTo(ReadOrder, page'[p].pc, page'[p].shown, ledger')
  BY <1>1, <1>2, <1>3, <1>4, NobodyRecords
<1>5. ASSUME NEW j \in Runs, Turns(j) PROVE FALSE
  BY <1>1, <1>5 DEF Turns
<1>6. ASSUME NEW j \in Runs, Writes(j) \/ GivesUp(j) PROVE FALSE
  BY <1>1, <1>3, <1>6 DEF Writes, GivesUp
<1>7. ASSUME NEW q \in Pages, Looks(q)
      PROVE  /\ Recording' = {} /\ page'[p].of = last'
             /\ AgreeTo(ReadOrder, page'[p].pc, page'[p].shown, ledger')
  <2>1. Recording' = Recording /\ last' = last /\ ledger' = ledger
    BY <1>7 DEF Looks, Recording
  <2>2. CASE p # q
    BY <1>1, <1>3, <1>7, <2>1, <2>2 DEF Looks
  <2>3. CASE p = q
    <3>1. /\ page'[p].of = IF page[p].pc = 0 THEN last ELSE page[p].of
          /\ page[p].pc = 0 => Recording = {}
          /\ \A k \in 1 .. 5 : page'[p].shown[ReadOrder[k]] =
               IF k = page'[p].pc THEN ledger[ReadOrder[k]] ELSE page[p].shown[ReadOrder[k]]
          /\ page'[p].pc = page[p].pc + 1
      BY <1>1, <1>7, <2>3 DEF Looks
    <3>2. page[p].pc \in 0 .. 5
      BY <1>2 DEF LedgerTypes, PageType
    <3>3. CASE page[p].pc = 0
      BY <2>1, <3>1, <3>3 DEF AgreeTo
    <3>4. CASE page[p].pc # 0
      <4>1. Recording = {} /\ page'[p].of = last
        BY <1>1, <1>3, <3>1, <3>4
      <4>2. AgreeTo(ReadOrder, page[p].pc, page[p].shown, ledger)
        BY <1>1, <1>3, <3>1, <3>4
      <4>3. \A k \in 1 .. 5 : k <= page'[p].pc => k = page'[p].pc \/ k <= page[p].pc
        BY <3>1, <3>2
      <4>4. AgreeTo(ReadOrder, page'[p].pc, page'[p].shown, ledger)
        BY <3>1, <4>2, <4>3 DEF AgreeTo
      <4>. QED
        BY <2>1, <4>1, <4>4
    <3>. QED
      BY <3>3, <3>4
  <2>. QED
    BY <2>2, <2>3
<1>8. ~Killed
  BY <1>1 DEF Killed
<1>. QED
  BY <1>4, <1>5, <1>6, <1>7, <1>8 DEF LedgerEffect

\* A name is added to those copied.
LEMMA OneMore ==
  ASSUME NEW c \in Seq(Names), NEW n \in Names, IsInjective(c), n \notin Range(c)
  PROVE  /\ IsInjective(Append(c, n)) /\ Range(Append(c, n)) = Range(c) \cup {n}
         /\ Len(Append(c, n)) = Len(c) + 1
<1>1. PICK d \in Seq(Names) : d = Append(c, n)
  BY AppendProperties
<1>2. Len(c) \in Nat /\ DOMAIN c = 1 .. Len(c) /\ DOMAIN d = 1 .. Len(d)
  BY LenProperties
<1>3. /\ Len(d) = Len(c) + 1 /\ \A k \in 1 .. Len(c) : d[k] = c[k]
      /\ d[Len(c) + 1] = n
  BY <1>1, AppendProperties
<1>4. IsInjective(d)
  BY <1>2, <1>3 DEF IsInjective, Range
<1>5. Range(d) = Range(c) \cup {n}
  BY <1>2, <1>3 DEF Range
<1>. QED
  BY <1>1, <1>3, <1>4, <1>5

\* A name is taken off those to take.
LEMMA OneLess ==
  ASSUME NEW c \in Seq(Names), c # << >>, IsInjective(c)
  PROVE  /\ IsInjective(Tail(c)) /\ 1 \in DOMAIN c /\ Head(c) = c[1]
         /\ \A k \in DOMAIN Tail(c) :
              k + 1 \in DOMAIN c /\ Tail(c)[k] = c[k + 1] /\ c[k + 1] # Head(c)
<1>1. PICK d \in Seq(Names) : d = Tail(c)
  BY HeadTailProperties
<1>2. Len(c) \in Nat /\ DOMAIN c = 1 .. Len(c) /\ DOMAIN d = 1 .. Len(d) /\ Len(c) # 0
  BY LenProperties, EmptySeq
<1>3. Len(d) = Len(c) - 1 /\ \A k \in 1 .. Len(d) : d[k] = c[k + 1]
  BY <1>1, HeadTailProperties
<1>4. 1 \in DOMAIN c /\ Head(c) = c[1]
  BY <1>2
<1>5. \A k \in DOMAIN d : k + 1 \in DOMAIN c /\ d[k] = c[k + 1] /\ c[k + 1] # c[1]
  BY <1>2, <1>3 DEF IsInjective
<1>6. IsInjective(d)
  BY SMTT(30), <1>2, <1>3 DEF IsInjective
<1>. QED
  BY <1>1, <1>4, <1>5, <1>6

\* Nothing is done.
LEMMA NothingDone ==
  IsInjective(<< >>) /\ Range(<< >>) = {} /\ Len(<< >>) = 0 /\ DOMAIN << >> = {}
<1>1. DOMAIN << >> = {}
  OBVIOUS
<1>. QED
  BY <1>1 DEF IsInjective, Range

\* A run is through after the step only if it was before.
ThroughBefore(i) ==
  run'[i].pc \in {"record", "done"} /\ run'[i].err \notin Failures
    => run[i].pc \in {"record", "done"} /\ run[i].err \notin Failures

\* Neither was it begun by the step, nor did it do anything.
RunRests(i) ==
  SameWork(i) /\ SamePlan(i) /\ ThroughBefore(i) /\ (run'[i].pc = "idle" => run[i].pc = "idle")

\* The runs that a step leaves alone.
LEMMA LeftAlone ==
  ASSUME LedgerEffect, NEW i \in Runs
  PROVE  run'[i] = run[i] \/ Starts(i) \/ TakesName(i) \/ Turns(i) \/ RunRests(i)
<1>1. ASSUME NEW j \in Runs, Starts(j) \/ TakesName(j) \/ Writes(j) \/ GivesUp(j), j # i
      PROVE  run'[i] = run[i]
  BY <1>1 DEF Starts, TakesName, Writes, GivesUp, OnlyRun
<1>2. ASSUME NEW j \in Runs, Turns(j), j # i
      PROVE  RunRests(i)
  BY <1>2 DEF Turns, RunRests, ThroughBefore, SameRecord
<1>3. ASSUME Writes(i) \/ GivesUp(i)
      PROVE  RunRests(i)
  BY <1>3 DEF Writes, GivesUp, RunRests, ThroughBefore, SameRecord, Recording
<1>4. ASSUME Killed
      PROVE  RunRests(i)
  BY <1>4 DEF Killed, RunRests, ThroughBefore, SameRecord, Failures
<1>5. ASSUME NEW p \in Pages, Looks(p) PROVE run'[i] = run[i]
  BY <1>5 DEF Looks
<1>. QED
  BY <1>1, <1>2, <1>3, <1>4, <1>5 DEF LedgerEffect

\* A run that has not begun has done nothing.
LEMMA FreshKept ==
  ASSUME LedgerInv, LedgerEffect
  PROVE  Fresh'
<1>1. SUFFICES ASSUME NEW i \in Runs, run'[i].pc = "idle"
               PROVE  /\ run'[i].todo = << >> /\ run'[i].copied = << >>
                      /\ run'[i].tried = {} /\ run'[i].failed = {} /\ run'[i].imported = 0
                      /\ run'[i].skipped = 0 /\ run'[i].asked = 0
  BY DEF Fresh
<1>2. run[i].pc = "idle" => /\ run[i].todo = << >> /\ run[i].copied = << >>
                           /\ run[i].tried = {} /\ run[i].failed = {} /\ run[i].imported = 0
                           /\ run[i].skipped = 0 /\ run[i].asked = 0
  BY DEF LedgerInv, Fresh
<1>3. ~Starts(i) /\ ~TakesName(i) /\ ~Turns(i)
  BY <1>1 DEF Starts, TakesName, Turns
<1>. QED
  BY <1>1, <1>2, <1>3, LeftAlone DEF RunRests, SameWork, SamePlan

\* The folder does not change.
LEMMA SameScene == ASSUME LedgerEffect PROVE scene' = scene
BY DEF LedgerEffect, Starts, TakesName, Turns, Writes, GivesUp, Looks, Killed

\* A scan has each name before it once.
LEMMA PlanKept ==
  ASSUME LedgerInv, LedgerEffect
  PROVE  Plan'
<1>1. SUFFICES ASSUME NEW i \in Runs, run'[i].mode # "pick"
               PROVE  /\ IsInjective(run'[i].todo)
                      /\ \A k \in DOMAIN run'[i].todo :
                           /\ run'[i].todo[k] \notin run'[i].tried
                           /\ scene.is[run'[i].todo[k]] # "missing"
  BY SameScene DEF Plan
<1>2. LedgerTypes /\ Fresh
  BY DEF LedgerInv
<1>3. run[i].mode # "pick" =>
        /\ IsInjective(run[i].todo)
        /\ \A k \in DOMAIN run[i].todo :
             run[i].todo[k] \notin run[i].tried /\ scene.is[run[i].todo[k]] # "missing"
  BY DEF LedgerInv, Plan
<1>4. CASE Starts(i)
  <2>1. run'[i].todo = Listing /\ run'[i].tried = {}
    BY <1>1, <1>2, <1>4 DEF Starts, SameWork, Fresh
  <2>. QED
    BY <1>2, <2>1, ListingIsASet DEF LedgerTypes
<1>5. CASE TakesName(i)
  <2>1. run[i].mode # "pick" /\ run[i].todo # << >> /\ run[i].todo \in Seq(Names)
    BY <1>1, <1>2, <1>5 DEF TakesName, LedgerTypes, RunType
  <2>2. PICK c \in Seq(Names) : c = run[i].todo
    BY <2>1
  <2>3. /\ IsInjective(c) /\ c # << >>
        /\ \A k \in DOMAIN c : c[k] \notin run[i].tried /\ scene.is[c[k]] # "missing"
    BY <1>3, <2>1, <2>2
  <2>4. run'[i].todo = Tail(c) /\ run'[i].tried = run[i].tried \cup {Head(c)}
    BY <1>5, <2>1, <2>2 DEF TakesName, Base
  <2>. QED
    BY <2>3, <2>4, OneLess
<1>6. CASE Turns(i)
  <2>1. CASE run[i].pc = "idle"
    <3>1. run'[i].todo = << >>
      BY <1>2, <1>6, <2>1 DEF Turns, Fresh
    <3>. QED
      BY <3>1, NothingDone
  <2>2. CASE run[i].pc # "idle"
    BY <1>1, <1>3, <1>6, <2>2 DEF Turns, SameWork
  <2>. QED
    BY <2>1, <2>2
<1>7. CASE RunRests(i)
  BY <1>1, <1>3, <1>7 DEF RunRests, SameWork, SamePlan
<1>8. CASE run'[i] = run[i]
  BY <1>1, <1>3, <1>8
<1>. QED
  BY <1>4, <1>5, <1>6, <1>7, <1>8, LeftAlone

\* Without padding, what is judged is what is copied, and a name is taken once.
LEMMA TakenOnce ==
  ASSUME LedgerInv, NEW i \in Runs, run[i].pc = "copy", run[i].todo # << >>, NoPadding(i),
         scene.is[Base(i)] = "file"
  PROVE  /\ Source(i) = Base(i)
         /\ Eligible(i) <=> Base(i) \notin run[i].tried
<1>1. LedgerTypes /\ run[i].todo \in Seq(Names)
  BY DEF LedgerInv, LedgerTypes, RunType
<1>2. Head(run[i].todo) \in Names
  BY <1>1, HeadTailProperties
<1>3. CASE run[i].mode = "pick"
  BY <1>2, <1>3, LedgerAssumption DEF Base, Source, Eligible
<1>4. CASE run[i].mode # "pick"
  <2>1. Base(i) = Head(run[i].todo)
    BY <1>4 DEF Base
  <2>2. Source(i) = Base(i)
    BY <1>2, <1>4, <2>1 DEF Source, NoPadding
  <2>3. Base(i) \notin run[i].tried
    BY <1>1, <1>4, <2>1, OneLess DEF LedgerInv, Plan
  <2>. QED
    BY <1>4, <2>2, <2>3 DEF Eligible
<1>. QED
  BY <1>3, <1>4

\* What has been copied is what was tried and is a file, but for what failed.
LEMMA WorkKept ==
  ASSUME LedgerInv, LedgerEffect
  PROVE  Work'
<1>1. SUFFICES ASSUME NEW i \in Runs, NoPadding(i)'
               PROVE  Copied(i)'
  BY DEF Work
<1>2. LedgerTypes /\ Fresh /\ (NoPadding(i) => Copied(i)) /\ scene' = scene
  BY SameScene DEF LedgerInv, Work
<1>3. CASE Starts(i) \/ (Turns(i) /\ run[i].pc = "idle")
  <2>1. run'[i].copied = << >> /\ run'[i].tried = {} /\ run'[i].failed = {}
    BY <1>2, <1>3 DEF Starts, Turns, SameWork, Fresh
  <2>2. \A n : n \notin {m \in run'[i].tried : scene'.is[m] = "file"} \ run'[i].failed
    BY <2>1
  <2>. QED
    BY <2>1, <2>2, NothingDone DEF Copied
<1>4. ASSUME SameWork(i), run'[i].mode = run[i].mode PROVE Copied(i)'
  BY <1>1, <1>2, <1>4 DEF SameWork, NoPadding, Copied
<1>5. CASE Turns(i) /\ run[i].pc # "idle"
  BY <1>4, <1>5 DEF Turns
<1>6. CASE TakesName(i)
  <2>1. /\ run[i].pc = "copy" /\ run[i].todo # << >> /\ run'[i].mode = run[i].mode
        /\ run'[i].tried = run[i].tried \cup {Base(i)}
    BY <1>6 DEF TakesName
  <2>2. NoPadding(i) /\ Copied(i)
    BY <1>1, <1>2, <2>1 DEF NoPadding
  <2>3. /\ IsInjective(run[i].copied) /\ run[i].failed \subseteq run[i].tried
        /\ Range(run[i].copied) = {n \in run[i].tried : scene.is[n] = "file"} \ run[i].failed
    BY <2>2 DEF Copied
  <2>4. scene.is[Base(i)] = "file" =>
          Source(i) = Base(i) /\ (Eligible(i) <=> Base(i) \notin run[i].tried)
    BY <2>1, <2>2, TakenOnce
  <2>5. CASE ~Eligible(i) /\ run'[i].copied = run[i].copied /\ run'[i].failed = run[i].failed
    <3>1. {n \in run'[i].tried : scene.is[n] = "file"} = {n \in run[i].tried : scene.is[n] = "file"}
      BY <2>1, <2>4, <2>5
    <3>. QED
      BY <1>2, <2>1, <2>3, <2>5, <3>1 DEF Copied
  <2>6. CASE /\ Eligible(i) /\ run'[i].copied = Append(run[i].copied, Source(i))
             /\ run'[i].failed = run[i].failed
    <3>1. scene.is[Base(i)] = "file"
      BY <2>6 DEF Eligible
    <3>2. Source(i) = Base(i) /\ Base(i) \notin run[i].tried /\ Base(i) \in Names
      BY <1>2, <2>1, <2>4, <2>6, <3>1, NamesAreTaken
    <3>3. Base(i) \notin Range(run[i].copied) /\ Base(i) \notin run[i].failed
      BY <2>3, <3>2
    <3>4. run[i].copied \in Seq(Names)
      BY <1>2 DEF LedgerTypes, RunType
    <3>5. /\ IsInjective(run'[i].copied)
          /\ Range(run'[i].copied) = Range(run[i].copied) \cup {Base(i)}
      BY <2>3, <2>6, <3>2, <3>3, <3>4, OneMore
    <3>6. Range(run'[i].copied) = {n \in run'[i].tried : scene.is[n] = "file"} \ run'[i].failed
      BY <2>1, <2>3, <2>6, <3>1, <3>3, <3>5
    <3>. QED
      BY <1>2, <2>1, <2>3, <2>6, <3>5, <3>6 DEF Copied
  <2>7. CASE /\ Eligible(i) /\ run'[i].copied = run[i].copied
             /\ run'[i].failed = run[i].failed \cup {Source(i)}
    <3>1. scene.is[Base(i)] = "file"
      BY <2>7 DEF Eligible
    <3>2. Source(i) = Base(i) /\ Base(i) \notin run[i].tried
      BY <2>1, <2>4, <2>7, <3>1
    <3>3. Range(run'[i].copied) = {n \in run'[i].tried : scene.is[n] = "file"} \ run'[i].failed
      BY <2>1, <2>3, <2>7, <3>2
    <3>. QED
      BY <1>2, <2>1, <2>3, <2>7, <3>2, <3>3 DEF Copied
  <2>. QED
    BY <1>6, <2>5, <2>6, <2>7 DEF TakesName
<1>7. CASE RunRests(i)
  BY <1>4, <1>7 DEF RunRests, SamePlan
<1>8. CASE run'[i] = run[i]
  BY <1>4, <1>8 DEF SameWork
<1>. QED
  BY <1>3, <1>5, <1>6, <1>7, <1>8, LeftAlone

\* A name that is taken is counted, and what is copied is counted as imported.
LEMMA CountsKept ==
  ASSUME LedgerInv, LedgerEffect
  PROVE  Counts'
<1>1. SUFFICES ASSUME NEW i \in Runs
               PROVE  /\ run'[i].imported + run'[i].skipped + Len(run'[i].todo) = run'[i].asked
                      /\ run'[i].imported = Len(run'[i].copied)
                      /\ run'[i].pc \in {"record", "done"} => run'[i].err \in Failures \/ Len(run'[i].todo) = 0
  BY DEF Counts
<1>2. /\ run[i].imported + run[i].skipped + Len(run[i].todo) = run[i].asked
      /\ run[i].imported = Len(run[i].copied)
      /\ run[i].pc \in {"record", "done"} => run[i].err \in Failures \/ Len(run[i].todo) = 0
  BY DEF LedgerInv, Counts
<1>3. /\ run[i].todo \in Seq(Names) /\ run[i].copied \in Seq(Names)
      /\ run[i].imported \in Nat /\ run[i].skipped \in Nat
  BY DEF LedgerInv, LedgerTypes, RunType
<1>4. Len(run[i].todo) \in Nat
  BY <1>3, LenProperties
<1>5. CASE Starts(i)
  <2>1. run[i].imported = 0 /\ run[i].skipped = 0
    BY <1>5 DEF Starts, LedgerInv, Fresh
  <2>2. run'[i].todo \in Seq(Names)
    BY <1>5 DEF Starts, OnlyRun, RunType
  <2>3. Len(run'[i].todo) \in Nat
    BY <2>2, LenProperties
  <2>. QED
    BY <1>2, <1>5, <2>1, <2>3 DEF Starts, SameWork
<1>6. CASE TakesName(i)
  <2>1. Len(run'[i].todo) = Len(run[i].todo) - 1 /\ run'[i].asked = run[i].asked /\ run'[i].pc = "copy"
    BY <1>3, <1>6, HeadTailProperties DEF TakesName
  <2>2. Source(i) \in Names
    BY <1>6, NamesAreTaken DEF TakesName, LedgerInv
  <2>3. Len(Append(run[i].copied, Source(i))) = Len(run[i].copied) + 1
    BY <1>3, <2>2, AppendProperties
  <2>4. \/ run'[i].imported = run[i].imported /\ run'[i].skipped = run[i].skipped + 1
           /\ run'[i].copied = run[i].copied
        \/ run'[i].imported = run[i].imported + 1 /\ run'[i].skipped = run[i].skipped
           /\ run'[i].copied = Append(run[i].copied, Source(i))
    BY <1>6 DEF TakesName
  <2>5. run'[i].imported = Len(run'[i].copied)
    BY <1>2, <2>3, <2>4
  <2>6. run'[i].imported + run'[i].skipped = run[i].imported + run[i].skipped + 1
    <3>1. ASSUME NEW a \in Nat, NEW b \in Nat, NEW c, NEW d,
                 (c = a /\ d = b + 1) \/ (c = a + 1 /\ d = b)
          PROVE  c + d = a + b + 1
      BY <3>1
    <3>. QED
      BY <1>3, <2>4, <3>1
  <2>7. ASSUME NEW a \in Nat, NEW l \in Nat, NEW b, a + l = b PROVE a + 1 + (l - 1) = b
    BY <2>7
  <2>8. run[i].imported + run[i].skipped \in Nat
    BY <1>3
  <2>. QED
    BY <1>2, <1>4, <2>1, <2>5, <2>6, <2>7, <2>8
<1>7. CASE Turns(i)
  BY <1>2, <1>7 DEF Turns, SameWork
<1>8. CASE RunRests(i)
  BY <1>2, <1>8 DEF RunRests, ThroughBefore, SameWork, SamePlan
<1>9. CASE run'[i] = run[i]
  BY <1>2, <1>9
<1>. QED
  BY <1>5, <1>6, <1>7, <1>8, <1>9, LeftAlone

-----------------------------------------------------------------------------
(* The invariant, and what it says.                                        *)

\* A step, or the end of the process, keeps the invariant.
LEMMA LedgerStepInv ==
  ASSUME LedgerInv, LedgerNext \/ Killed \/ UNCHANGED ledgerVars
  PROVE  LedgerInv'
<1>1. CASE LedgerEffect
  BY <1>1, LedgerTypesKept, AloneKept, WholeKept, ReadingKept, FreshKept, PlanKept, CountsKept,
     WorkKept
     DEF LedgerInv
<1>2. CASE UNCHANGED ledgerVars
  <2>1. /\ (LedgerTypes /\ InRow /\ Alone /\ Whole /\ Reading /\ Fresh)'
        /\ (Plan /\ Work)'
    BY <1>2 DEF ledgerVars, LedgerInv, LedgerTypes, InRow, Alone, AgreeTo, Recording, RecordOf,
       Whole, Reading, Fresh, Plan, Work, Copied, NoPadding
  <2>2. Counts'
    BY <1>2 DEF ledgerVars, LedgerInv, Counts
  <2>. QED
    BY <2>1, <2>2 DEF LedgerInv
<1>. QED
  BY <1>1, <1>2, NextHasEffect DEF LedgerInv, LedgerEffect

\* At the start nothing has been done or written.
LEMMA LedgerInitInv == LedgerInit => LedgerInv
<1>1. SUFFICES ASSUME LedgerInit PROVE LedgerInv
  OBVIOUS
<1>2. ASSUME NEW i \in Runs
      PROVE  /\ run[i] \in RunType /\ run[i].pc = "idle" /\ run[i].row = 1 /\ run[i].todo = << >>
             /\ run[i].copied = << >> /\ run[i].tried = {} /\ run[i].failed = {}
             /\ run[i].imported = 0 /\ run[i].skipped = 0 /\ run[i].asked = 0
  <2>1. PICK b \in BOOLEAN, e \in Seq(Names), z \in SUBSET Names : b = TRUE /\ e = << >> /\ z = {}
    <3>1. TRUE \in BOOLEAN /\ << >> \in Seq(Names) /\ {} \in SUBSET Names
      OBVIOUS
    <3>. QED
      BY <3>1, Zenon
  <2>2. PICK h : h = [pc |-> "idle", row |-> 1, mode |-> "", asked |-> 0, todo |-> e, tried |-> z, copied |-> e,
                      failed |-> z, imported |-> 0, skipped |-> 0, err |-> "", alone |-> b]
    OBVIOUS
  <2>3. run[i] = h
    BY <1>1, <2>1, <2>2 DEF LedgerInit
  <2>4. [pc |-> "idle", row |-> 1, mode |-> "", asked |-> 0, todo |-> e, tried |-> z, copied |-> e,
         failed |-> z, imported |-> 0, skipped |-> 0, err |-> "", alone |-> b] \in RunType
    BY DEF RunType, Errors
  <2>5. /\ h.pc = "idle" /\ h.row = 1 /\ h.todo = e /\ h.copied = e /\ h.tried = z
        /\ h.failed = z /\ h.imported = 0 /\ h.skipped = 0 /\ h.asked = 0
    BY ONLY <2>2
  <2>. QED
    BY <2>1, <2>2, <2>3, <2>4, <2>5
<1>3. NoRecord \in RecordType
  BY DEF NoRecord, RecordType, Errors
<1>4. ASSUME NEW p \in Pages PROVE page[p] \in PageType /\ page[p].of = Mixed
  <2>1. page[p] = [pc |-> 0, shown |-> NoRecord, of |-> Mixed]
    BY <1>1 DEF LedgerInit
  <2>. QED
    BY <1>3, <2>1 DEF PageType
<1>5. LedgerTypes
  BY <1>1, <1>2, <1>3, <1>4 DEF LedgerTypes, LedgerInit
<1>6. InRow /\ Alone /\ Whole /\ Reading /\ Fresh
  BY <1>1, <1>2, <1>4 DEF LedgerInit, InRow, Alone, Recording, Whole, Reading, Fresh
<1>7. Plan
  BY <1>2, NothingDone DEF Plan
<1>8. Work
  <2>1. ASSUME NEW i \in Runs PROVE Copied(i)
    <3>1. \A n : n \notin {m \in run[i].tried : scene.is[m] = "file"} \ run[i].failed
      BY <1>2
    <3>. QED
      BY <1>2, <3>1, NothingDone DEF Copied
  <2>. QED
    BY <2>1 DEF Work
<1>9. Counts
  <2>1. ASSUME NEW c, c = << >> PROVE Len(c) = 0
    BY <2>1
  <2>2. ASSUME NEW i \in Runs
        PROVE  /\ run[i].imported + run[i].skipped + Len(run[i].todo) = run[i].asked
               /\ run[i].imported = Len(run[i].copied)
    <3>1. Len(run[i].todo) = 0 /\ Len(run[i].copied) = 0
      BY <1>2, <2>1
    <3>2. run[i].imported = 0 /\ run[i].skipped = 0 /\ run[i].asked = 0
      BY <1>2
    <3>. QED
      BY <3>1, <3>2
  <2>3. \A i \in Runs : run[i].pc = "idle"
    BY <1>2
  <2>. QED
    BY <2>2, <2>3 DEF Counts
<1>. QED
  BY <1>5, <1>6, <1>7, <1>8, <1>9 DEF LedgerInv

\* The inductive invariant holds in every behaviour.
THEOREM LedgerInvariance == LedgerSpec => []LedgerInv
<1>1. LedgerInv /\ [LedgerNext]_ledgerVars => LedgerInv'
  BY LedgerStepInv
<1>. QED
  BY <1>1, LedgerInitInv, PTL DEF LedgerSpec

\* It implies what the runs check.
LEMMA LedgerIsSound == LedgerInv => PageShowsOneRun /\ EachFileOnce
<1>1. SUFFICES ASSUME LedgerInv PROVE PageShowsOneRun /\ EachFileOnce
  OBVIOUS
<1>2. ASSUME NEW p \in Pages, page[p].pc = Len(ReadOrder), page[p].of # Mixed
      PROVE  page[p].shown = RecordOf(page[p].of)
  <2>1. Len(ReadOrder) = 5
    BY DEF ReadOrder
  <2>2. page[p].of = last /\ AgreeTo(ReadOrder, 5, page[p].shown, ledger)
    BY <1>1, <1>2, <2>1 DEF LedgerInv, Reading
  <2>3. ledger = RecordOf(last)
    BY <1>1, <1>2, <2>2 DEF LedgerInv, Whole
  <2>4. page[p].shown \in RecordType /\ ledger \in RecordType
    BY <1>1 DEF LedgerInv, LedgerTypes, PageType
  <2>5. page[p].shown = ledger
    BY <2>2, <2>4, SameRows
  <2>. QED
    BY <2>2, <2>3, <2>5
<1>3. ASSUME NEW i \in Runs, run[i].pc \in {"record", "done"}, run[i].err = ""
      PROVE  run[i].imported + run[i].skipped = run[i].asked /\ run[i].imported = Len(run[i].copied)
  <2>3. run[i].err \notin Failures
    BY <1>3 DEF Failures
  <2>1. /\ run[i].imported + run[i].skipped + Len(run[i].todo) = run[i].asked
        /\ run[i].imported = Len(run[i].copied) /\ Len(run[i].todo) = 0
    BY <1>1, <1>3, <2>3 DEF LedgerInv, Counts
  <2>2. run[i].imported \in Nat /\ run[i].skipped \in Nat /\ Len(run[i].todo) = 0
    BY <1>1, <2>1 DEF LedgerInv, LedgerTypes, RunType
  <2>. QED
    BY <2>1, <2>2
<1>4. EachFileOnce
  BY <1>1, <1>3 DEF LedgerInv, Work, Copied, EachFileOnce
<1>. QED
  BY <1>2, <1>4 DEF PageShowsOneRun

\* The last-run record of the files page: a page that was read while no run was writing,
\* after a run that wrote alone and to the end, shows that run's record.
THEOREM PagesShowOneRun == LedgerSpec => []PageShowsOneRun
BY LedgerInvariance, LedgerIsSound, PTL

\* A run copies every file among its names once, and what it imported and skipped adds up
\* to the names it was given, also when the form repeats a name or a copy fails.
THEOREM FilesAreCopiedOnce == LedgerSpec => []EachFileOnce
BY LedgerInvariance, LedgerIsSound, PTL
=============================================================================
