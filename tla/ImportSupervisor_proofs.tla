------------------------ MODULE ImportSupervisor_proofs ------------------------
(***************************************************************************)
(* Proofs about ImportSupervisor, for every value of its constants: any     *)
(* number of folders, files, handlers, timer goroutines and saves.          *)
(*                                                                          *)
(* The inductive invariant adds to TypeOK how the supervisor, the watch     *)
(* loop and the scanners are tied together (Structure) and what a scan      *)
(* holds (Listing); NoLostRestart, NoLostAutoCopy and Wanted (a scan that   *)
(* goes on was wanted) are inductive on top of these.                       *)
(***************************************************************************)
EXTENDS ImportSupervisor, TLAPS

\* A loop that has not ended belongs to a supervisor that watches its folder or
\* waits for it; the child context is live exactly while it watches; the
\* initial scan runs inside the loop, and the timer is armed only in its select.
Structure ==
  /\ ~LoopEnded => sup.pc \in {"watch", "drain", "drainOff"}
  /\ sup.pc \in {"watch", "drain", "drainOff"} => sup.dir \in Dirs
  /\ live <=> sup.pc = "watch"
  /\ scan[Initial].pc # "idle" => loop.pc = "scan"
  /\ loop.timer => loop.pc = "select"
  /\ \A s \in Scanners : scan[s].ctx => live /\ scan[s].dir = sup.dir

\* A running scan reads a saved folder, and lists only files that were written.
Listing ==
  \A s \in Scanners :
    /\ scan[s].pc # "idle" => scan[s].dir \in Dirs
    /\ scan[s].pc \in {"idle", "ctx", "auto", "list"} => scan[s].left = {}
    /\ \A n \in scan[s].left : ver[scan[s].dir][n] > 0

\* A scan that has passed the switch, and goes on, read it while it was on; if it has
\* been switched off since, the ping that will cancel the scan is on its way.
Wanted ==
  \A s \in Scanners :
    scan[s].ctx /\ scan[s].pc \in {"list", "next", "copy"} => kvAuto \/ PingPending

IInv == TypeOK /\ Structure /\ Listing /\ NoLostRestart /\ NoLostAutoCopy /\ Wanted

\* A scan that goes elsewhere, and the end of all their contexts, keep the type.
LEMMA GoesKeepsType ==
  ASSUME TypeOK, NEW s \in Scanners, NEW pc \in {"idle", "ctx", "auto", "list", "next", "copy"},
         Goto(s, pc)
  PROVE  scan' \in [Scanners -> ScanType]
<1>1. scan \in [Scanners -> ScanType]
  BY DEF TypeOK
<1>2. [scan[s] EXCEPT !.pc = pc] \in ScanType
  BY ONLY <1>1, pc \in {"idle", "ctx", "auto", "list", "next", "copy"}, s \in Scanners DEF ScanType
<1>. QED
  BY <1>1, <1>2 DEF Goto

LEMMA CancelledType ==
  ASSUME TypeOK
  PROVE  Cancelled \in [Scanners -> ScanType]
<1>1. \A s \in Scanners : scan[s] \in ScanType
  BY DEF TypeOK
<1>2. \A s \in Scanners : [scan[s] EXCEPT !.ctx = FALSE] \in ScanType
  BY ONLY <1>1 DEF ScanType
<1>. QED
  BY <1>2 DEF Cancelled

\* Every step keeps the state in its domain; a listed file has been written, so
\* the version a scan copies is one of 1 .. MaxVersion.
LEMMA TypeStep ==
  ASSUME TypeOK, Structure, Listing, [Next]_vars
  PROVE  TypeOK'
<1>. USE BoundsAssumption DEF TypeOK
<1>1. ASSUME NEW h \in Handlers, NEW d \in Paths, SaveDir(h, d) PROVE TypeOK'
  BY <1>1 DEF SaveDir, conf, env, hub
<1>2. ASSUME NEW h \in Handlers, NEW on \in BOOLEAN, SaveAuto(h, on) PROVE TypeOK'
  BY <1>2 DEF SaveAuto, conf, env, hub
<1>3. ASSUME NEW h \in Handlers, Ping(h) PROVE TypeOK'
  BY <1>3 DEF Ping, conf, env, hub
<1>4. ASSUME SupRead PROVE TypeOK'
  BY <1>4, DirsAssumption DEF SupRead, SupUnchanged, env, hub, SupType, Paths, Resolve
<1>5. ASSUME SupBegin PROVE TypeOK'
  <2>1. loop' \in LoopType
    BY <1>5 DEF SupBegin, LoopType, NoLoop
  <2>2. sup' \in SupType /\ live' \in BOOLEAN
    BY <1>5 DEF SupBegin, SupType
  <2>. QED
    BY <1>5, <2>1, <2>2 DEF SupBegin, SupUnchanged, env, hub
<1>6. ASSUME SupStop PROVE TypeOK'
  BY <1>6 DEF SupStop, SupUnchanged, env, hub, SupType
<1>7. ASSUME SupWake PROVE TypeOK'
  BY <1>7 DEF SupWake, SupUnchanged, env, hub, SupType
<1>8. ASSUME SupRestart PROVE TypeOK'
  <2>1. scan' = Cancelled /\ sup' \in SupType
    BY <1>8 DEF SupRestart, SupType
  <2>. QED
    BY <1>8, <2>1, CancelledType DEF SupRestart, SupUnchanged, env, hub
<1>9. ASSUME SupShutdown PROVE TypeOK'
  <2>1. scan' = Cancelled /\ sup' \in SupType
    BY <1>9 DEF SupShutdown, SupType
  <2>. QED
    BY <1>9, <2>1, CancelledType DEF SupShutdown, SupUnchanged, env, hub
<1>10. ASSUME SupLoopDied PROVE TypeOK'
  <2>1. scan' = Cancelled /\ sup' \in SupType
    BY <1>10 DEF SupLoopDied, SupType
  <2>. QED
    BY <1>10, <2>1, CancelledType DEF SupLoopDied, SupUnchanged, env, hub
<1>11. ASSUME SupDrained PROVE TypeOK'
  BY <1>11 DEF SupDrained, SupUnchanged, env, hub, SupType
<1>12. ASSUME SupRetry PROVE TypeOK'
  BY <1>12 DEF SupRetry, SupUnchanged, env, hub, SupType
<1>13. ASSUME LoopAdd PROVE TypeOK'
  BY <1>13 DEF LoopAdd, LoopUnchanged, conf, env, hub, LoopType
<1>14. ASSUME LoopAddFails PROVE TypeOK'
  BY <1>14 DEF LoopAddFails, LoopUnchanged, conf, env, hub, LoopType
<1>15. ASSUME LoopReadAuto PROVE TypeOK'
  BY <1>15 DEF LoopReadAuto, LoopUnchanged, conf, env, hub, IdleScan, LoopType, SupType, ScanType, Scanners
<1>16. ASSUME LoopScanned PROVE TypeOK'
  BY <1>16 DEF LoopScanned, LoopUnchanged, conf, env, hub, LoopType
<1>17. ASSUME LoopEvent PROVE TypeOK'
  BY <1>17 DEF LoopEvent, LoopUnchanged, conf, env, hub, LoopType
<1>18. ASSUME LoopDone PROVE TypeOK'
  BY <1>18 DEF LoopDone, LoopUnchanged, conf, env, hub, NoLoop, LoopType
<1>19. ASSUME NEW t \in Timers, TimerFires(t) PROVE TypeOK'
  BY ZenonT(40), <1>19 DEF TimerFires, LoopUnchanged, conf, env, hub, IdleScan, LoopType, SupType, ScanType, Scanners
<1>20. ASSUME NEW s \in Scanners, ScanStart(s) PROVE TypeOK'
  <2>1. scan' \in [Scanners -> ScanType]
    BY <1>20, GoesKeepsType DEF ScanStart
  <2>. QED
    BY <1>20, <2>1 DEF ScanStart, ScanUnchanged, conf, env, hub
<1>21. ASSUME NEW s \in Scanners, ScanReadAuto(s) PROVE TypeOK'
  <2>1. scan' \in [Scanners -> ScanType]
    BY <1>21, GoesKeepsType DEF ScanReadAuto
  <2>. QED
    BY <1>21, <2>1 DEF ScanReadAuto, ScanUnchanged, conf, env, hub
<1>22. ASSUME NEW s \in Scanners, ScanList(s) PROVE TypeOK'
  <2>1. scan' \in [Scanners -> ScanType]
    BY <1>22 DEF ScanList, ScanType, Goto
  <2>. QED
    BY <1>22, <2>1 DEF ScanList, ScanUnchanged, conf, env, hub
<1>23. ASSUME NEW s \in Scanners, ScanNext(s) PROVE TypeOK'
  BY <1>23 DEF ScanNext, ScanUnchanged, conf, env, hub, Goto, ScanType
<1>24. ASSUME NEW s \in Scanners, ScanCopy(s) PROVE TypeOK'
  BY <1>24 DEF ScanCopy, ScanUnchanged, conf, env, hub, Listing, ScanType
<1>25. ASSUME NEW d \in Dirs, NEW n \in Names, WriteFile(d, n) PROVE TypeOK'
  <2>1. loop \in LoopType
    OBVIOUS
  <2>2. loop' \in LoopType
    BY ONLY <1>25, <2>1 DEF WriteFile, LoopType
  <2>3. ver' \in [Dirs -> [Names -> 0 .. MaxVersion]]
    BY <1>25 DEF WriteFile
  <2>. QED
    BY <1>25, <2>2, <2>3 DEF WriteFile, EnvUnchanged, conf, hub
<1>26. ASSUME NEW d \in Dirs, Unplug(d) PROVE TypeOK'
  <2>1. loop \in LoopType
    OBVIOUS
  <2>2. loop' \in LoopType
    BY ONLY <1>26, <2>1 DEF Unplug, LoopType
  <2>3. there' \in SUBSET Dirs /\ plugs' \in 0 .. MaxPlugs
    BY <1>26 DEF Unplug
  <2>. QED
    BY <1>26, <2>2, <2>3 DEF Unplug, EnvUnchanged, conf, hub
<1>27. ASSUME NEW d \in Dirs, Plug(d) PROVE TypeOK'
  BY <1>27 DEF Plug, EnvUnchanged, conf, hub
<1>28. ASSUME Shutdown PROVE TypeOK'
  BY <1>28 DEF Shutdown, conf, env, hub
<1>29. CASE UNCHANGED vars
  BY <1>29 DEF vars, conf, env, hub
<1>. QED
  BY ONLY [Next]_vars, <1>1, <1>2, <1>3, <1>4, <1>5, <1>6, <1>7, <1>8, <1>9, <1>10, <1>11, <1>12, <1>13, <1>14, <1>15, <1>16, <1>17, <1>18, <1>19, <1>20, <1>21, <1>22, <1>23, <1>24, <1>25, <1>26, <1>27, <1>28, <1>29
  DEF Next, Admin, Supervisor, WatchLoop, Scan, Environment

\* The supervisor, the loop and the scanners stay tied together.
LEMMA StructureStep ==
  ASSUME TypeOK, Structure, [Next]_vars
  PROVE  Structure'
<1>. USE DEF TypeOK, Structure, LoopEnded
<1>1. ASSUME NEW h \in Handlers, NEW d \in Paths, SaveDir(h, d) PROVE Structure'
  BY <1>1 DEF SaveDir, conf, env, hub
<1>2. ASSUME NEW h \in Handlers, NEW on \in BOOLEAN, SaveAuto(h, on) PROVE Structure'
  BY <1>2 DEF SaveAuto, conf, env, hub
<1>3. ASSUME NEW h \in Handlers, Ping(h) PROVE Structure'
  BY <1>3 DEF Ping, conf, env, hub
<1>4. ASSUME SupRead PROVE Structure'
  BY <1>4 DEF SupRead, SupUnchanged, env, hub, SupType
<1>5. ASSUME SupBegin PROVE Structure'
  BY <1>5 DEF SupBegin, SupUnchanged, env, hub, SupType, LoopType, NoLoop
<1>6. ASSUME SupStop PROVE Structure'
  BY <1>6 DEF SupStop, SupUnchanged, env, hub, SupType
<1>7. ASSUME SupWake PROVE Structure'
  BY <1>7 DEF SupWake, SupUnchanged, env, hub, SupType
<1>8. ASSUME SupRestart PROVE Structure'
  BY <1>8 DEF SupRestart, SupUnchanged, env, hub, SupType, ScanType, Cancelled, Scanners
<1>9. ASSUME SupShutdown PROVE Structure'
  BY <1>9 DEF SupShutdown, SupUnchanged, env, hub, SupType, ScanType, Cancelled, Scanners
<1>10. ASSUME SupLoopDied PROVE Structure'
  BY <1>10 DEF SupLoopDied, SupUnchanged, env, hub, SupType, ScanType, Cancelled, Scanners
<1>11. ASSUME SupDrained PROVE Structure'
  BY <1>11 DEF SupDrained, SupUnchanged, env, hub, SupType
<1>12. ASSUME SupRetry PROVE Structure'
  BY <1>12 DEF SupRetry, SupUnchanged, env, hub, SupType
<1>13. ASSUME LoopAdd PROVE Structure'
  BY <1>13 DEF LoopAdd, LoopUnchanged, conf, env, hub, LoopType
<1>14. ASSUME LoopAddFails PROVE Structure'
  BY <1>14 DEF LoopAddFails, LoopUnchanged, conf, env, hub, LoopType
<1>15. ASSUME LoopReadAuto PROVE Structure'
  BY <1>15 DEF LoopReadAuto, LoopUnchanged, conf, env, hub, SupType, LoopType, ScanType, Scanners, IdleScan
<1>16. ASSUME LoopScanned PROVE Structure'
  BY <1>16 DEF LoopScanned, LoopUnchanged, conf, env, hub, LoopType
<1>17. ASSUME LoopEvent PROVE Structure'
  BY <1>17 DEF LoopEvent, LoopUnchanged, conf, env, hub, LoopType
<1>18. ASSUME LoopDone PROVE Structure'
  BY <1>18 DEF LoopDone, LoopUnchanged, conf, env, hub, LoopType, NoLoop
<1>19. ASSUME NEW t \in Timers, TimerFires(t) PROVE Structure'
  BY <1>19, ScannersAssumption DEF TimerFires, LoopUnchanged, conf, env, hub, SupType, LoopType, ScanType, Scanners, IdleScan
<1>20. ASSUME NEW s \in Scanners, ScanStart(s) PROVE Structure'
  BY <1>20 DEF ScanStart, ScanUnchanged, conf, env, hub, ScanType, Scanners, Goto, Alive
<1>21. ASSUME NEW s \in Scanners, ScanReadAuto(s) PROVE Structure'
  BY <1>21 DEF ScanReadAuto, ScanUnchanged, conf, env, hub, ScanType, Scanners, Goto
<1>22. ASSUME NEW s \in Scanners, ScanList(s) PROVE Structure'
  BY SMTT(30), <1>22 DEF ScanList, ScanUnchanged, conf, env, hub, ScanType, Scanners, Goto
<1>23. ASSUME NEW s \in Scanners, ScanNext(s) PROVE Structure'
  BY <1>23 DEF ScanNext, ScanUnchanged, conf, env, hub, ScanType, Scanners, Goto
<1>24. ASSUME NEW s \in Scanners, ScanCopy(s) PROVE Structure'
  BY <1>24 DEF ScanCopy, ScanUnchanged, conf, env, hub, ScanType, Scanners
<1>25. ASSUME NEW d \in Dirs, NEW n \in Names, WriteFile(d, n) PROVE Structure'
  BY <1>25 DEF WriteFile, EnvUnchanged, conf, hub, LoopType
<1>26. ASSUME NEW d \in Dirs, Unplug(d) PROVE Structure'
  BY <1>26 DEF Unplug, EnvUnchanged, conf, hub, LoopType
<1>27. ASSUME NEW d \in Dirs, Plug(d) PROVE Structure'
  BY <1>27 DEF Plug, EnvUnchanged, conf, hub
<1>28. ASSUME Shutdown PROVE Structure'
  BY <1>28 DEF Shutdown, conf, env, hub
<1>29. CASE UNCHANGED vars
  BY <1>29 DEF vars, conf, env, hub
<1>. QED
  BY ONLY [Next]_vars, <1>1, <1>2, <1>3, <1>4, <1>5, <1>6, <1>7, <1>8, <1>9, <1>10, <1>11, <1>12, <1>13, <1>14, <1>15, <1>16, <1>17, <1>18, <1>19, <1>20, <1>21, <1>22, <1>23, <1>24, <1>25, <1>26, <1>27, <1>28, <1>29
  DEF Next, Admin, Supervisor, WatchLoop, Scan, Environment

\* The end of a context leaves a scanner where it is, with what it has listed.
LEMMA CancelledKeepsListing ==
  ASSUME TypeOK
  PROVE  \A s \in Scanners : /\ Cancelled[s].pc = scan[s].pc
                             /\ Cancelled[s].dir = scan[s].dir
                             /\ Cancelled[s].left = scan[s].left
<1>1. \A s \in Scanners : scan[s] \in ScanType
  BY DEF TypeOK
<1>. QED
  BY ONLY <1>1 DEF Cancelled, ScanType

\* What a scan lists has been written, and versions only grow.
LEMMA ListingStep ==
  ASSUME TypeOK, Structure, Listing, [Next]_vars
  PROVE  Listing'
<1>. USE BoundsAssumption DEF TypeOK, Listing
<1>1. ASSUME NEW h \in Handlers, NEW d \in Paths, SaveDir(h, d) PROVE Listing'
  BY <1>1 DEF SaveDir, conf, env, hub
<1>2. ASSUME NEW h \in Handlers, NEW on \in BOOLEAN, SaveAuto(h, on) PROVE Listing'
  BY <1>2 DEF SaveAuto, conf, env, hub
<1>3. ASSUME NEW h \in Handlers, Ping(h) PROVE Listing'
  BY <1>3 DEF Ping, conf, env, hub
<1>4. ASSUME SupRead PROVE Listing'
  BY <1>4 DEF SupRead, SupUnchanged, env, hub
<1>5. ASSUME SupBegin PROVE Listing'
  BY <1>5 DEF SupBegin, SupUnchanged, env, hub
<1>6. ASSUME SupStop PROVE Listing'
  BY <1>6 DEF SupStop, SupUnchanged, env, hub
<1>7. ASSUME SupWake PROVE Listing'
  BY <1>7 DEF SupWake, SupUnchanged, env, hub
<1>8. ASSUME SupRestart PROVE Listing'
  <2>1. scan' = Cancelled /\ ver' = ver
    BY ONLY <1>8 DEF SupRestart, SupUnchanged, env
  <2>. QED
    BY ONLY Listing, <2>1, CancelledKeepsListing, TypeOK DEF Listing
<1>9. ASSUME SupShutdown PROVE Listing'
  <2>1. scan' = Cancelled /\ ver' = ver
    BY ONLY <1>9 DEF SupShutdown, SupUnchanged, env
  <2>. QED
    BY ONLY Listing, <2>1, CancelledKeepsListing, TypeOK DEF Listing
<1>10. ASSUME SupLoopDied PROVE Listing'
  <2>1. scan' = Cancelled /\ ver' = ver
    BY ONLY <1>10 DEF SupLoopDied, SupUnchanged, env
  <2>. QED
    BY ONLY Listing, <2>1, CancelledKeepsListing, TypeOK DEF Listing
<1>11. ASSUME SupDrained PROVE Listing'
  BY <1>11 DEF SupDrained, SupUnchanged, env, hub
<1>12. ASSUME SupRetry PROVE Listing'
  BY <1>12 DEF SupRetry, SupUnchanged, env, hub
<1>13. ASSUME LoopAdd PROVE Listing'
  BY <1>13 DEF LoopAdd, LoopUnchanged, conf, env, hub
<1>14. ASSUME LoopAddFails PROVE Listing'
  BY <1>14 DEF LoopAddFails, LoopUnchanged, conf, env, hub
<1>15. ASSUME LoopReadAuto PROVE Listing'
  BY <1>15 DEF LoopReadAuto, LoopUnchanged, conf, env, hub, ScanType, SupType, IdleScan, Structure, LoopEnded, Scanners
<1>16. ASSUME LoopScanned PROVE Listing'
  BY <1>16 DEF LoopScanned, LoopUnchanged, conf, env, hub
<1>17. ASSUME LoopEvent PROVE Listing'
  BY <1>17 DEF LoopEvent, LoopUnchanged, conf, env, hub
<1>18. ASSUME LoopDone PROVE Listing'
  BY <1>18 DEF LoopDone, LoopUnchanged, conf, env, hub
<1>19. ASSUME NEW t \in Timers, TimerFires(t) PROVE Listing'
  BY <1>19 DEF TimerFires, LoopUnchanged, conf, env, hub, ScanType, SupType, IdleScan, Structure, LoopEnded, Scanners
<1>20. ASSUME NEW s \in Scanners, ScanStart(s) PROVE Listing'
  BY <1>20 DEF ScanStart, ScanUnchanged, conf, env, hub, ScanType, Goto
<1>21. ASSUME NEW s \in Scanners, ScanReadAuto(s) PROVE Listing'
  BY <1>21 DEF ScanReadAuto, ScanUnchanged, conf, env, hub, ScanType, Goto
<1>22. ASSUME NEW s \in Scanners, ScanList(s) PROVE Listing'
  BY <1>22 DEF ScanList, ScanUnchanged, conf, env, hub, ScanType, Goto
<1>23. ASSUME NEW s \in Scanners, ScanNext(s) PROVE Listing'
  BY <1>23 DEF ScanNext, ScanUnchanged, conf, env, hub, ScanType, Goto
<1>24. ASSUME NEW s \in Scanners, ScanCopy(s) PROVE Listing'
  BY <1>24 DEF ScanCopy, ScanUnchanged, conf, env, hub, ScanType
<1>25. ASSUME NEW d \in Dirs, NEW n \in Names, WriteFile(d, n) PROVE Listing'
  BY <1>25 DEF WriteFile, EnvUnchanged, conf, hub, ScanType
<1>26. ASSUME NEW d \in Dirs, Unplug(d) PROVE Listing'
  BY <1>26 DEF Unplug, EnvUnchanged, conf, hub
<1>27. ASSUME NEW d \in Dirs, Plug(d) PROVE Listing'
  BY <1>27 DEF Plug, EnvUnchanged, conf, hub
<1>28. ASSUME Shutdown PROVE Listing'
  BY <1>28 DEF Shutdown, conf, env, hub
<1>29. CASE UNCHANGED vars
  BY <1>29 DEF vars, conf, env, hub
<1>. QED
  BY ONLY [Next]_vars, <1>1, <1>2, <1>3, <1>4, <1>5, <1>6, <1>7, <1>8, <1>9, <1>10, <1>11, <1>12, <1>13, <1>14, <1>15, <1>16, <1>17, <1>18, <1>19, <1>20, <1>21, <1>22, <1>23, <1>24, <1>25, <1>26, <1>27, <1>28, <1>29
  DEF Next, Admin, Supervisor, WatchLoop, Scan, Environment

\* A change of the folder leaves a ping behind until the supervisor has read it.
LEMMA NoLostRestartStep ==
  ASSUME TypeOK, NoLostRestart, [Next]_vars
  PROVE  NoLostRestart'
<1>. USE DEF TypeOK, NoLostRestart, PingPending, Resolve
<1>1. ASSUME NEW h \in Handlers, NEW d \in Paths, SaveDir(h, d) PROVE NoLostRestart'
  BY <1>1 DEF SaveDir, conf, env, hub
<1>2. ASSUME NEW h \in Handlers, NEW on \in BOOLEAN, SaveAuto(h, on) PROVE NoLostRestart'
  BY <1>2 DEF SaveAuto, conf, env, hub
<1>3. ASSUME NEW h \in Handlers, Ping(h) PROVE NoLostRestart'
  BY <1>3 DEF Ping, conf, env, hub
<1>4. ASSUME SupRead PROVE NoLostRestart'
  BY <1>4 DEF SupRead, SupUnchanged, env, hub, SupType
<1>5. ASSUME SupBegin PROVE NoLostRestart'
  BY <1>5 DEF SupBegin, SupUnchanged, env, hub, SupType
<1>6. ASSUME SupStop PROVE NoLostRestart'
  BY <1>6 DEF SupStop, SupUnchanged, env, hub, SupType
<1>7. ASSUME SupWake PROVE NoLostRestart'
  BY <1>7 DEF SupWake, SupUnchanged, env, hub, SupType
<1>8. ASSUME SupRestart PROVE NoLostRestart'
  BY <1>8 DEF SupRestart, SupUnchanged, env, hub, SupType
<1>9. ASSUME SupShutdown PROVE NoLostRestart'
  BY <1>9 DEF SupShutdown, SupUnchanged, env, hub, SupType
<1>10. ASSUME SupLoopDied PROVE NoLostRestart'
  BY <1>10 DEF SupLoopDied, SupUnchanged, env, hub, SupType
<1>11. ASSUME SupDrained PROVE NoLostRestart'
  BY <1>11 DEF SupDrained, SupUnchanged, env, hub, SupType
<1>12. ASSUME SupRetry PROVE NoLostRestart'
  BY <1>12 DEF SupRetry, SupUnchanged, env, hub, SupType
<1>13. ASSUME LoopAdd PROVE NoLostRestart'
  BY <1>13 DEF LoopAdd, LoopUnchanged, conf, env, hub
<1>14. ASSUME LoopAddFails PROVE NoLostRestart'
  BY <1>14 DEF LoopAddFails, LoopUnchanged, conf, env, hub
<1>15. ASSUME LoopReadAuto PROVE NoLostRestart'
  BY <1>15 DEF LoopReadAuto, LoopUnchanged, conf, env, hub
<1>16. ASSUME LoopScanned PROVE NoLostRestart'
  BY <1>16 DEF LoopScanned, LoopUnchanged, conf, env, hub
<1>17. ASSUME LoopEvent PROVE NoLostRestart'
  BY <1>17 DEF LoopEvent, LoopUnchanged, conf, env, hub
<1>18. ASSUME LoopDone PROVE NoLostRestart'
  BY <1>18 DEF LoopDone, LoopUnchanged, conf, env, hub
<1>19. ASSUME NEW t \in Timers, TimerFires(t) PROVE NoLostRestart'
  BY <1>19 DEF TimerFires, LoopUnchanged, conf, env, hub
<1>20. ASSUME NEW s \in Scanners, ScanStart(s) PROVE NoLostRestart'
  BY <1>20 DEF ScanStart, ScanUnchanged, conf, env, hub
<1>21. ASSUME NEW s \in Scanners, ScanReadAuto(s) PROVE NoLostRestart'
  BY <1>21 DEF ScanReadAuto, ScanUnchanged, conf, env, hub
<1>22. ASSUME NEW s \in Scanners, ScanList(s) PROVE NoLostRestart'
  BY <1>22 DEF ScanList, ScanUnchanged, conf, env, hub
<1>23. ASSUME NEW s \in Scanners, ScanNext(s) PROVE NoLostRestart'
  BY <1>23 DEF ScanNext, ScanUnchanged, conf, env, hub
<1>24. ASSUME NEW s \in Scanners, ScanCopy(s) PROVE NoLostRestart'
  BY <1>24 DEF ScanCopy, ScanUnchanged, conf, env, hub
<1>25. ASSUME NEW d \in Dirs, NEW n \in Names, WriteFile(d, n) PROVE NoLostRestart'
  BY <1>25 DEF WriteFile, EnvUnchanged, conf, hub
<1>26. ASSUME NEW d \in Dirs, Unplug(d) PROVE NoLostRestart'
  BY <1>26 DEF Unplug, EnvUnchanged, conf, hub
<1>27. ASSUME NEW d \in Dirs, Plug(d) PROVE NoLostRestart'
  BY <1>27 DEF Plug, EnvUnchanged, conf, hub
<1>28. ASSUME Shutdown PROVE NoLostRestart'
  BY <1>28 DEF Shutdown, conf, env, hub
<1>29. CASE UNCHANGED vars
  BY <1>29 DEF vars, conf, env, hub
<1>. QED
  BY ONLY [Next]_vars, <1>1, <1>2, <1>3, <1>4, <1>5, <1>6, <1>7, <1>8, <1>9, <1>10, <1>11, <1>12, <1>13, <1>14, <1>15, <1>16, <1>17, <1>18, <1>19, <1>20, <1>21, <1>22, <1>23, <1>24, <1>25, <1>26, <1>27, <1>28, <1>29
  DEF Next, Admin, Supervisor, WatchLoop, Scan, Environment

\* The same for the auto-copy switch, read by the loop when it starts.
LEMMA NoLostAutoCopyStep ==
  ASSUME TypeOK, NoLostAutoCopy, [Next]_vars
  PROVE  NoLostAutoCopy'
<1>. USE DEF TypeOK, NoLostAutoCopy, PingPending
<1>1. ASSUME NEW h \in Handlers, NEW d \in Paths, SaveDir(h, d) PROVE NoLostAutoCopy'
  BY <1>1 DEF SaveDir, conf, env, hub
<1>2. ASSUME NEW h \in Handlers, NEW on \in BOOLEAN, SaveAuto(h, on) PROVE NoLostAutoCopy'
  BY <1>2 DEF SaveAuto, conf, env, hub
<1>3. ASSUME NEW h \in Handlers, Ping(h) PROVE NoLostAutoCopy'
  BY <1>3 DEF Ping, conf, env, hub
<1>4. ASSUME SupRead PROVE NoLostAutoCopy'
  BY <1>4 DEF SupRead, SupUnchanged, env, hub, SupType
<1>5. ASSUME SupBegin PROVE NoLostAutoCopy'
  BY <1>5 DEF SupBegin, SupUnchanged, env, hub, SupType, LoopType, NoLoop
<1>6. ASSUME SupStop PROVE NoLostAutoCopy'
  BY <1>6 DEF SupStop, SupUnchanged, env, hub, SupType
<1>7. ASSUME SupWake PROVE NoLostAutoCopy'
  BY <1>7 DEF SupWake, SupUnchanged, env, hub, SupType
<1>8. ASSUME SupRestart PROVE NoLostAutoCopy'
  BY <1>8 DEF SupRestart, SupUnchanged, env, hub, SupType
<1>9. ASSUME SupShutdown PROVE NoLostAutoCopy'
  BY <1>9 DEF SupShutdown, SupUnchanged, env, hub, SupType
<1>10. ASSUME SupLoopDied PROVE NoLostAutoCopy'
  BY <1>10 DEF SupLoopDied, SupUnchanged, env, hub, SupType
<1>11. ASSUME SupDrained PROVE NoLostAutoCopy'
  BY <1>11 DEF SupDrained, SupUnchanged, env, hub, SupType
<1>12. ASSUME SupRetry PROVE NoLostAutoCopy'
  BY <1>12 DEF SupRetry, SupUnchanged, env, hub, SupType
<1>13. ASSUME LoopAdd PROVE NoLostAutoCopy'
  BY <1>13 DEF LoopAdd, LoopUnchanged, conf, env, hub, LoopType
<1>14. ASSUME LoopAddFails PROVE NoLostAutoCopy'
  BY <1>14 DEF LoopAddFails, LoopUnchanged, conf, env, hub, LoopType
<1>15. ASSUME LoopReadAuto PROVE NoLostAutoCopy'
  BY <1>15 DEF LoopReadAuto, LoopUnchanged, conf, env, hub, LoopType
<1>16. ASSUME LoopScanned PROVE NoLostAutoCopy'
  BY <1>16 DEF LoopScanned, LoopUnchanged, conf, env, hub, LoopType
<1>17. ASSUME LoopEvent PROVE NoLostAutoCopy'
  BY <1>17 DEF LoopEvent, LoopUnchanged, conf, env, hub, LoopType
<1>18. ASSUME LoopDone PROVE NoLostAutoCopy'
  BY <1>18 DEF LoopDone, LoopUnchanged, conf, env, hub, LoopType, NoLoop
<1>19. ASSUME NEW t \in Timers, TimerFires(t) PROVE NoLostAutoCopy'
  BY <1>19 DEF TimerFires, LoopUnchanged, conf, env, hub, LoopType
<1>20. ASSUME NEW s \in Scanners, ScanStart(s) PROVE NoLostAutoCopy'
  BY <1>20 DEF ScanStart, ScanUnchanged, conf, env, hub
<1>21. ASSUME NEW s \in Scanners, ScanReadAuto(s) PROVE NoLostAutoCopy'
  BY <1>21 DEF ScanReadAuto, ScanUnchanged, conf, env, hub
<1>22. ASSUME NEW s \in Scanners, ScanList(s) PROVE NoLostAutoCopy'
  BY <1>22 DEF ScanList, ScanUnchanged, conf, env, hub
<1>23. ASSUME NEW s \in Scanners, ScanNext(s) PROVE NoLostAutoCopy'
  BY <1>23 DEF ScanNext, ScanUnchanged, conf, env, hub
<1>24. ASSUME NEW s \in Scanners, ScanCopy(s) PROVE NoLostAutoCopy'
  BY <1>24 DEF ScanCopy, ScanUnchanged, conf, env, hub
<1>25. ASSUME NEW d \in Dirs, NEW n \in Names, WriteFile(d, n) PROVE NoLostAutoCopy'
  BY <1>25 DEF WriteFile, EnvUnchanged, conf, hub, LoopType
<1>26. ASSUME NEW d \in Dirs, Unplug(d) PROVE NoLostAutoCopy'
  BY <1>26 DEF Unplug, EnvUnchanged, conf, hub, LoopType
<1>27. ASSUME NEW d \in Dirs, Plug(d) PROVE NoLostAutoCopy'
  BY <1>27 DEF Plug, EnvUnchanged, conf, hub
<1>28. ASSUME Shutdown PROVE NoLostAutoCopy'
  BY <1>28 DEF Shutdown, conf, env, hub
<1>29. CASE UNCHANGED vars
  BY <1>29 DEF vars, conf, env, hub
<1>. QED
  BY ONLY [Next]_vars, <1>1, <1>2, <1>3, <1>4, <1>5, <1>6, <1>7, <1>8, <1>9, <1>10, <1>11, <1>12, <1>13, <1>14, <1>15, <1>16, <1>17, <1>18, <1>19, <1>20, <1>21, <1>22, <1>23, <1>24, <1>25, <1>26, <1>27, <1>28, <1>29
  DEF Next, Admin, Supervisor, WatchLoop, Scan, Environment

\* A scan reads the switch on its way; only a restart takes the ping of a running loop,
\* and cancels the loop's scans with it.
LEMMA WantedStep ==
  ASSUME TypeOK, Structure, Wanted, [Next]_vars
  PROVE  Wanted'
<1>. USE DEF TypeOK, Wanted, PingPending
<1>1. ASSUME NEW h \in Handlers, NEW d \in Paths, SaveDir(h, d) PROVE Wanted'
  BY <1>1 DEF SaveDir, conf, env, hub
<1>2. ASSUME NEW h \in Handlers, NEW on \in BOOLEAN, SaveAuto(h, on) PROVE Wanted'
  BY <1>2 DEF SaveAuto, conf, env, hub
<1>3. ASSUME NEW h \in Handlers, Ping(h) PROVE Wanted'
  BY <1>3 DEF Ping, conf, env, hub
<1>4. ASSUME SupRead PROVE Wanted'
  BY <1>4 DEF SupRead, SupUnchanged, env, hub, SupType
<1>5. ASSUME SupBegin PROVE Wanted'
  BY <1>5 DEF SupBegin, SupUnchanged, env, hub, SupType
<1>6. ASSUME SupStop PROVE Wanted'
  BY <1>6 DEF SupStop, SupUnchanged, env, hub, SupType
<1>7. ASSUME SupWake PROVE Wanted'
  BY <1>7 DEF SupWake, SupUnchanged, env, hub, SupType, Structure
<1>8. ASSUME SupRestart PROVE Wanted'
  BY <1>8 DEF SupRestart, SupUnchanged, env, hub, SupType, ScanType, Cancelled
<1>9. ASSUME SupShutdown PROVE Wanted'
  BY <1>9 DEF SupShutdown, SupUnchanged, env, hub, SupType, ScanType, Cancelled
<1>10. ASSUME SupLoopDied PROVE Wanted'
  BY <1>10 DEF SupLoopDied, SupUnchanged, env, hub, SupType, ScanType, Cancelled
<1>11. ASSUME SupDrained PROVE Wanted'
  BY <1>11 DEF SupDrained, SupUnchanged, env, hub, SupType
<1>12. ASSUME SupRetry PROVE Wanted'
  BY <1>12 DEF SupRetry, SupUnchanged, env, hub, SupType
<1>13. ASSUME LoopAdd PROVE Wanted'
  BY <1>13 DEF LoopAdd, LoopUnchanged, conf, env, hub
<1>14. ASSUME LoopAddFails PROVE Wanted'
  BY <1>14 DEF LoopAddFails, LoopUnchanged, conf, env, hub
<1>15. ASSUME LoopReadAuto PROVE Wanted'
  BY <1>15 DEF LoopReadAuto, LoopUnchanged, conf, env, hub, ScanType, IdleScan, Scanners
<1>16. ASSUME LoopScanned PROVE Wanted'
  BY <1>16 DEF LoopScanned, LoopUnchanged, conf, env, hub
<1>17. ASSUME LoopEvent PROVE Wanted'
  BY <1>17 DEF LoopEvent, LoopUnchanged, conf, env, hub
<1>18. ASSUME LoopDone PROVE Wanted'
  BY <1>18 DEF LoopDone, LoopUnchanged, conf, env, hub
<1>19. ASSUME NEW t \in Timers, TimerFires(t) PROVE Wanted'
  BY <1>19 DEF TimerFires, LoopUnchanged, conf, env, hub, ScanType, IdleScan, Scanners
<1>20. ASSUME NEW s \in Scanners, ScanStart(s) PROVE Wanted'
  BY <1>20 DEF ScanStart, ScanUnchanged, conf, env, hub, ScanType, Goto
<1>21. ASSUME NEW s \in Scanners, ScanReadAuto(s) PROVE Wanted'
  BY <1>21 DEF ScanReadAuto, ScanUnchanged, conf, env, hub, ScanType, Goto
<1>22. ASSUME NEW s \in Scanners, ScanList(s) PROVE Wanted'
  BY <1>22 DEF ScanList, ScanUnchanged, conf, env, hub, ScanType, Goto
<1>23. ASSUME NEW s \in Scanners, ScanNext(s) PROVE Wanted'
  BY SMTT(30), <1>23 DEF ScanNext, ScanUnchanged, conf, env, hub, ScanType, Goto
<1>24. ASSUME NEW s \in Scanners, ScanCopy(s) PROVE Wanted'
  BY <1>24 DEF ScanCopy, ScanUnchanged, conf, env, hub, ScanType
<1>25. ASSUME NEW d \in Dirs, NEW n \in Names, WriteFile(d, n) PROVE Wanted'
  BY <1>25 DEF WriteFile, EnvUnchanged, conf, hub
<1>26. ASSUME NEW d \in Dirs, Unplug(d) PROVE Wanted'
  BY <1>26 DEF Unplug, EnvUnchanged, conf, hub
<1>27. ASSUME NEW d \in Dirs, Plug(d) PROVE Wanted'
  BY <1>27 DEF Plug, EnvUnchanged, conf, hub
<1>28. ASSUME Shutdown PROVE Wanted'
  BY <1>28 DEF Shutdown, conf, env, hub
<1>29. CASE UNCHANGED vars
  BY <1>29 DEF vars, conf, env, hub
<1>. QED
  BY ONLY [Next]_vars, <1>1, <1>2, <1>3, <1>4, <1>5, <1>6, <1>7, <1>8, <1>9, <1>10, <1>11, <1>12, <1>13, <1>14, <1>15, <1>16, <1>17, <1>18, <1>19, <1>20, <1>21, <1>22, <1>23, <1>24, <1>25, <1>26, <1>27, <1>28, <1>29
  DEF Next, Admin, Supervisor, WatchLoop, Scan, Environment

\* The invariant holds at the start, whatever the kv table holds then.
LEMMA InitIInv == Init => IInv
<1>. SUFFICES ASSUME Init PROVE IInv
  OBVIOUS
<1>. USE DEF Init
<1>1. TypeOK
  <2>1. sup \in SupType /\ loop \in LoopType
    BY DEF SupType, LoopType, Paths, NoLoop
  <2>2. scan \in [Scanners -> ScanType]
    BY DEF ScanType, Paths, IdleScan
  <2>3. ver \in [Dirs -> [Names -> 0 .. MaxVersion]]
    BY BoundsAssumption
  <2>4. req \in [Handlers -> {"idle", "ping"}]
    OBVIOUS
  <2>5. /\ saves \in 0 .. MaxSaves /\ plugs \in 0 .. MaxPlugs /\ faults \in 0 .. MaxFaults
        /\ got \in SUBSET (Dirs \X Names \X (1 .. MaxVersion)) /\ again \in SUBSET got
    BY BoundsAssumption
  <2>6. kvDir \in Dirs \cup {NoDir} /\ kvAuto \in BOOLEAN /\ there \in SUBSET Dirs
    OBVIOUS
  <2>7. token \in BOOLEAN /\ up \in BOOLEAN /\ live \in BOOLEAN
    OBVIOUS
  <2>. QED
    BY ONLY <2>1, <2>2, <2>3, <2>4, <2>5, <2>6, <2>7 DEF TypeOK
<1>2. Structure /\ Listing
  BY DEF Structure, Listing, LoopEnded, NoLoop, IdleScan, Scanners
<1>3. NoLostRestart /\ NoLostAutoCopy
  BY DEF NoLostRestart, NoLostAutoCopy
<1>4. Wanted
  BY DEF Wanted, IdleScan
<1>. QED
  BY <1>1, <1>2, <1>3, <1>4 DEF IInv

\* Every step of the supervisor, the watch loop and the handlers keeps it.
LEMMA NextIInv == IInv /\ [Next]_vars => IInv'
  BY TypeStep, StructureStep, ListingStep, NoLostRestartStep, NoLostAutoCopyStep, WantedStep DEF IInv

\* The inductive invariant holds in every reachable state: the running watch loop,
\* the pending restart and the stored settings are never out of step for good.
THEOREM Invariance == Spec => []IInv
  BY InitIInv, NextIInv, PTL DEF Spec

\* Every reachable state is in the declared domain: in particular the stored
\* watch folder is never one that ValidatePaths refuses.
THEOREM TypeCorrect == Spec => []TypeOK
<1>1. IInv => TypeOK
  BY DEF IInv
<1>. QED
  BY <1>1, Invariance, PTL

\* No saved folder is lost between the kv row and the supervisor, for any
\* number of concurrent requests and any interleaving of the save, the ping and
\* the supervisor's own read and select.
THEOREM RestartNeverLost == Spec => []NoLostRestart
<1>1. IInv => NoLostRestart
  BY DEF IInv
<1>. QED
  BY <1>1, Invariance, PTL

\* The same for the auto-copy switch.
THEOREM AutoCopyNeverLost == Spec => []NoLostAutoCopy
<1>1. IInv => NoLostAutoCopy
  BY DEF IInv
<1>. QED
  BY <1>1, Invariance, PTL

\* A goroutine with a live context belongs to the loop being supervised.
THEOREM LiveScansAreCurrent == Spec => []LiveScansOfCurrentLoop
<1>1. IInv => LiveScansOfCurrentLoop
  BY DEF IInv, Structure, LiveScansOfCurrentLoop
<1>. QED
  BY <1>1, Invariance, PTL

\* A watch loop starts only after the one before has ended, its initial scan
\* included.
THEOREM LoopsDoNotOverlap == Spec => OneLoopAtATime
<1>1. IInv /\ [Next]_vars
        => [loop'.pc = "add" /\ loop.pc # "add" => LoopEnded /\ scan[Initial].pc = "idle"]_vars
  <2>. SUFFICES ASSUME IInv, [Next]_vars, loop'.pc = "add", loop.pc # "add"
               PROVE  LoopEnded /\ scan[Initial].pc = "idle"
    OBVIOUS
  <2>1. SupBegin
    BY DEF IInv, TypeOK, LoopType, Next, vars, conf, env, hub, NoLoop,
       Admin, SaveDir, SaveAuto, Ping,
       Supervisor, SupUnchanged, SupRead, SupStop, SupWake, SupRestart, SupShutdown,
       SupLoopDied, SupDrained, SupRetry,
       WatchLoop, LoopAdd, LoopAddFails, LoopReadAuto, LoopScanned, LoopEvent, LoopDone,
       TimerFires, Scan, ScanStart, ScanReadAuto, ScanList, ScanNext, ScanCopy, ScanUnchanged,
       Environment, WriteFile, Unplug, Plug, Shutdown
  <2>. QED
    BY <2>1 DEF IInv, Structure, SupBegin, LoopEnded
<1>. QED
  BY <1>1, Invariance, PTL DEF Spec, OneLoopAtATime

\* A copy begins in one way only: at the head of the loop over the entries, where the
\* context is looked at.
LEMMA CopyBegins ==
  ASSUME TypeOK, [Next]_vars, NEW s \in Scanners, scan[s].pc = "next", scan'[s].pc = "copy"
  PROVE  scan[s].ctx
<1>0. /\ scan \in [Scanners -> ScanType]
      /\ Initial \in Scanners /\ Timers \subseteq Scanners
      /\ scan' # scan
  BY DEF TypeOK, Scanners
<1>1. ScanNext(s)
  <2>1. CASE Supervisor
    <3>1. scan' = scan \/ scan' = Cancelled
      BY <2>1 DEF Supervisor, SupRead, SupBegin, SupStop, SupWake,
         SupRestart, SupShutdown, SupLoopDied, SupDrained, SupRetry
    <3>2. scan'[s].pc = scan[s].pc
      BY <1>0, <3>1 DEF ScanType, Cancelled
    <3>. QED
      BY <3>2
  <2>2. CASE WatchLoop
    <3>1. scan' = scan \/ LoopReadAuto
      BY <2>2 DEF WatchLoop, LoopAdd, LoopAddFails, LoopScanned, LoopEvent, LoopDone
    <3>2. scan'[s] = scan[s] \/ scan'[s].pc = "list"
      BY <1>0, <3>1 DEF LoopReadAuto, IdleScan
    <3>. QED
      BY <3>2
  <2>3. ASSUME NEW t \in Timers, TimerFires(t) PROVE ScanNext(s)
    <3>1. scan'[s] = scan[s] \/ scan'[s].pc = "ctx"
      BY <1>0, <2>3 DEF TimerFires, IdleScan
    <3>. QED
      BY <3>1
  <2>4. ASSUME NEW r \in Scanners, Scan(r) PROVE ScanNext(s)
    <3>1. CASE r = s
      BY <2>4, <3>1 DEF Scan, ScanStart, ScanReadAuto, ScanList, ScanCopy
    <3>2. CASE r # s
      <4>1. scan'[s] = scan[s]
        BY <1>0, <2>4, <3>2
        DEF Scan, Goto, ScanStart, ScanReadAuto, ScanList, ScanNext, ScanCopy
      <4>. QED
        BY <4>1
    <3>. QED
      BY <3>1, <3>2
  <2>5. CASE Admin \/ Environment \/ UNCHANGED vars
    BY <1>0, <2>5 DEF Admin, SaveDir, SaveAuto, Ping, Environment, EnvUnchanged, WriteFile,
       Unplug, Plug, Shutdown, vars
  <2>. QED
    BY <2>1, <2>2, <2>3, <2>4, <2>5 DEF Next
<1>. QED
  BY <1>1 DEF TypeOK, ScanType, ScanNext, Alive

\* No copy of a file begins from a folder the supervisor has left.
THEOREM OldFoldersAreLeftAlone == Spec => NoCopyBegunFromOldFolder
<1>1. IInv /\ [Next]_vars
        => [\A s \in Scanners : scan[s].pc = "next" /\ scan'[s].pc = "copy"
              => sup.pc = "watch" /\ sup.dir = scan[s].dir]_vars
  BY CopyBegins DEF IInv, Structure
<1>. QED
  BY <1>1, Invariance, PTL DEF Spec, NoCopyBegunFromOldFolder

\* A switch that has been turned off stops the copying, however the form, the ping, the
\* restart and the timers interleave.
THEOREM SwitchedOffCopiesNothing == Spec => NoCopyAfterSwitchOff
<1>1. IInv /\ [Next]_vars
        => [\A s \in Scanners : scan[s].pc = "next" /\ scan'[s].pc = "copy"
              => kvAuto \/ PingPending]_vars
  BY CopyBegins DEF IInv, Wanted
<1>. QED
  BY <1>1, Invariance, PTL DEF Spec, NoCopyAfterSwitchOff
=============================================================================
