--------------------------- MODULE ImportSupervisor ---------------------------
(***************************************************************************)
(* The background import of internal/importer/importer.go: Supervisor, the  *)
(* fsnotify watch loop it starts for the configured folder (runWatchLoop),  *)
(* the debounced auto-copy goroutines that loop leaves behind, and the two  *)
(* admin forms of internal/server/server.go that change the configuration   *)
(* and ping the supervisor over a channel of capacity one.                  *)
(*                                                                          *)
(* Processes: HTTP handlers, the supervisor, the current watch loop, and    *)
(* scanners (the loop's own initial scan, and the goroutines of             *)
(* time.AfterFunc, which outlive the loop that scheduled them).             *)
(*                                                                          *)
(* Data kept: which folder, which file name and which version of the file.  *)
(* Time is not modelled: a timer that is armed may fire at any later step.  *)
(***************************************************************************)
EXTENDS Naturals

CONSTANTS
  Dirs,       \* folders an administrator may save as the watch folder
  NoDir,      \* the empty path: nothing is configured
  Overlap,    \* folders overlapping files/, which ValidatePaths refuses
  FlagDir,    \* value of -import / HUBABOX_IMPORT, NoDir when it is not given
  Names,      \* names of files in an import folder
  Handlers,   \* HTTP handler goroutines serving the admin's import forms
  Timers,     \* debounce goroutines that can be running at the same time
  Initial,    \* the scan runWatchLoop makes before it starts to select
  MaxSaves,   \* bound: number of times the admin saves a form
  MaxVersion, \* bound: number of times one file is written
  MaxPlugs,   \* bound: number of times a folder appears or goes away
  MaxFaults   \* bound: number of failed imports and failed watcher starts

\* The configured paths are distinguishable from no path at all, and the
\* UI form (ValidatePaths in filesImportConfigPost) stores no overlapping one.
ASSUME DirsAssumption ==
  /\ NoDir \notin Dirs \cup Overlap
  /\ Dirs \cap Overlap = {}
  /\ FlagDir \in Dirs \cup Overlap \cup {NoDir}

ASSUME ScannersAssumption == Initial \notin Timers

ASSUME BoundsAssumption ==
  /\ MaxSaves \in Nat
  /\ MaxVersion \in Nat
  /\ MaxPlugs \in Nat
  /\ MaxFaults \in Nat

Scanners == Timers \cup {Initial}

Paths == Dirs \cup Overlap \cup {NoDir}

VARIABLES
  kvDir,   \* kv row import_watch_dir
  kvAuto,  \* kv row import_auto_copy
  req,     \* per handler: "idle", or "ping" between the save and the ping
  token,   \* the one buffered element of importRestart is there
  up,      \* runCtx is not cancelled
  sup,     \* the supervisor goroutine: program counter and local path
  live,    \* the supervisor has not called cancel() on the current loop
  loop,    \* the current watch loop goroutine
  scan,    \* the goroutines that are, or may be, inside scanWithMode
  there,   \* folders that exist now (a USB stick that is plugged in)
  ver,     \* version of each file in each folder, 0 when there is none
  got,     \* <<folder, name, version>> copied into the hub at least once
  again,   \* those copied more than once
  saves, plugs, faults

conf == <<kvDir, kvAuto, req, token, saves>>
env  == <<there, ver, plugs>>
hub  == <<got, again>>
vars == <<conf, up, sup, live, loop, scan, env, hub, faults>>

(***************************************************************************)
(* ResolveImportDir: the flag wins over the stored path.                    *)
(***************************************************************************)
Resolve == IF FlagDir # NoDir THEN FlagDir ELSE kvDir

\* ctx.Err() == nil for the context scanner s was started with.
Alive(s) == up /\ scan[s].ctx

\* The states of the watch loop in which its select is reached or behind it.
LoopEnded == loop.pc \in {"none", "ended"}

IdleScan(d) == [pc |-> "idle", ctx |-> FALSE, dir |-> d, left |-> {}]

SupType ==
  [pc : {"top", "read", "idle", "watch", "drain", "drainOff", "retry", "off"}, dir : Paths]

LoopType ==
  [pc : {"none", "add", "auto", "scan", "select", "ended"},
   watch : BOOLEAN, lost : BOOLEAN, event : BOOLEAN, timer : BOOLEAN, auto : BOOLEAN]

ScanType ==
  [pc : {"idle", "ctx", "auto", "list", "next", "copy"},
   ctx : BOOLEAN, dir : Paths, left : SUBSET Names]

TypeOK ==
  /\ kvDir \in Dirs \cup {NoDir}
  /\ kvAuto \in BOOLEAN
  /\ req \in [Handlers -> {"idle", "ping"}]
  /\ token \in BOOLEAN
  /\ up \in BOOLEAN
  /\ sup \in SupType
  /\ live \in BOOLEAN
  /\ loop \in LoopType
  /\ scan \in [Scanners -> ScanType]
  /\ there \in SUBSET Dirs
  /\ ver \in [Dirs -> [Names -> 0 .. MaxVersion]]
  /\ got \in SUBSET (Dirs \X Names \X (1 .. MaxVersion))
  /\ again \in SUBSET got
  /\ saves \in 0 .. MaxSaves
  /\ plugs \in 0 .. MaxPlugs
  /\ faults \in 0 .. MaxFaults

\* `lost` is history: the folder has gone away while this loop was watching it.
NoLoop ==
  [pc |-> "none", watch |-> FALSE, lost |-> FALSE, event |-> FALSE, timer |-> FALSE, auto |-> FALSE]

\* The process starts over whatever an earlier run left in the kv table.
Init ==
  /\ kvDir \in Dirs \cup {NoDir}
  /\ kvAuto \in BOOLEAN
  /\ req = [h \in Handlers |-> "idle"]
  /\ token = FALSE
  /\ up = TRUE
  /\ sup = [pc |-> "top", dir |-> NoDir]
  /\ live = FALSE
  /\ loop = NoLoop
  /\ scan = [s \in Scanners |-> IdleScan(NoDir)]
  /\ there \in SUBSET Dirs
  /\ ver = [d \in Dirs |-> [n \in Names |-> 0]]
  /\ got = {}
  /\ again = {}
  /\ saves = 0
  /\ plugs = 0
  /\ faults = 0

-----------------------------------------------------------------------------
(* The admin forms: the kv write, then the ping, with anything in between.  *)

\* Mutant of SaveDir: the path is not checked against files/.
SaveDirUnvalidated(h, d) ==
  /\ req[h] = "idle"
  /\ saves < MaxSaves
  /\ kvDir' = d
  /\ req' = [req EXCEPT ![h] = "ping"]
  /\ saves' = saves + 1
  /\ UNCHANGED <<kvAuto, token, up, sup, live, loop, scan, env, hub, faults>>

\* filesImportConfigPost: an empty path clears the row; another one is saved
\* only when it does not overlap files/ (ValidatePaths) and exists
\* (ValidateImportDirAccessible).
SaveDir(h, d) ==
  /\ req[h] = "idle"
  /\ saves < MaxSaves
  /\ d \in there \cup {NoDir}
  /\ kvDir' = d
  /\ req' = [req EXCEPT ![h] = "ping"]
  /\ saves' = saves + 1
  /\ UNCHANGED <<kvAuto, token, up, sup, live, loop, scan, env, hub, faults>>

\* Mutant of SaveAuto: the running watcher is not told.
SaveAutoQuietly(h, on) ==
  /\ req[h] = "idle"
  /\ saves < MaxSaves
  /\ kvAuto' = on
  /\ saves' = saves + 1
  /\ UNCHANGED <<kvDir, req, token, up, sup, live, loop, scan, env, hub, faults>>

\* filesImportAutoPost.
SaveAuto(h, on) ==
  /\ req[h] = "idle"
  /\ saves < MaxSaves
  /\ kvAuto' = on
  /\ req' = [req EXCEPT ![h] = "ping"]
  /\ saves' = saves + 1
  /\ UNCHANGED <<kvDir, token, up, sup, live, loop, scan, env, hub, faults>>

\* Mutant of Ping: a channel without a buffer takes the element only while the
\* supervisor is in a select that receives from it.
PingUnbuffered(h) ==
  /\ req[h] = "ping"
  /\ req' = [req EXCEPT ![h] = "idle"]
  /\ token' = (token \/ sup.pc \in {"idle", "watch"})
  /\ UNCHANGED <<kvDir, kvAuto, saves, up, sup, live, loop, scan, env, hub, faults>>

\* pingImportRestart: the send is dropped when the element is still there.
Ping(h) ==
  /\ req[h] = "ping"
  /\ req' = [req EXCEPT ![h] = "idle"]
  /\ token' = TRUE
  /\ UNCHANGED <<kvDir, kvAuto, saves, up, sup, live, loop, scan, env, hub, faults>>

-----------------------------------------------------------------------------
(* Supervisor.                                                              *)

SupUnchanged == UNCHANGED <<kvDir, kvAuto, req, saves, up, env, hub, faults>>

\* Mutant of Cancelled: the goroutines were given a context nobody cancels.
NotCancelled == scan

\* cancel(): the context of the loop and of everything it started is done.
Cancelled == [s \in Scanners |-> [scan[s] EXCEPT !.ctx = FALSE]]

\* The head of the for loop: read the configured path into the local p.
SupRead ==
  /\ sup.pc = "top"
  /\ up
  /\ sup' = [pc |-> "read", dir |-> Resolve]
  /\ UNCHANGED <<token, live, loop, scan>>
  /\ SupUnchanged

\* No path, or one ValidatePaths refuses: idle. Otherwise start a watch loop.
SupBegin ==
  /\ sup.pc = "read"
  /\ IF sup.dir \in Dirs
       THEN /\ sup' = [sup EXCEPT !.pc = "watch"]
            /\ live' = TRUE
            /\ loop' = [NoLoop EXCEPT !.pc = "add"]
       ELSE /\ sup' = [sup EXCEPT !.pc = "idle"]
            /\ UNCHANGED <<live, loop>>
  /\ UNCHANGED <<token, scan>>
  /\ SupUnchanged

\* Mutant of SupStop: the select of the idle state does not listen to runCtx.
SupStopNotIdle ==
  /\ sup.pc \in {"top", "retry"}
  /\ ~up
  /\ sup' = [sup EXCEPT !.pc = "off"]
  /\ UNCHANGED <<token, live, loop, scan>>
  /\ SupUnchanged

\* runCtx.Done() at the head, in an idle select, or during the 5 s pause.
SupStop ==
  /\ sup.pc \in {"top", "idle", "retry"}
  /\ ~up
  /\ sup' = [sup EXCEPT !.pc = "off"]
  /\ UNCHANGED <<token, live, loop, scan>>
  /\ SupUnchanged

\* <-restart while no loop runs.
SupWake ==
  /\ sup.pc = "idle"
  /\ token
  /\ token' = FALSE
  /\ sup' = [sup EXCEPT !.pc = "top"]
  /\ UNCHANGED <<live, loop, scan>>
  /\ SupUnchanged

\* <-restart while a loop runs: cancel it, then wait for it.
SupRestart ==
  /\ sup.pc = "watch"
  /\ token
  /\ token' = FALSE
  /\ sup' = [sup EXCEPT !.pc = "drain"]
  /\ live' = FALSE
  /\ scan' = Cancelled
  /\ UNCHANGED loop
  /\ SupUnchanged

\* <-runCtx.Done() while a loop runs.
SupShutdown ==
  /\ sup.pc = "watch"
  /\ ~up
  /\ sup' = [sup EXCEPT !.pc = "drainOff"]
  /\ live' = FALSE
  /\ scan' = Cancelled
  /\ UNCHANGED <<token, loop>>
  /\ SupUnchanged

\* Mutant of SupLoopDied: no second attempt before the next saved form.
SupLoopDiedForGood ==
  /\ sup.pc = "watch"
  /\ LoopEnded
  /\ sup' = [sup EXCEPT !.pc = "idle"]
  /\ live' = FALSE
  /\ scan' = Cancelled
  /\ UNCHANGED <<token, loop>>
  /\ SupUnchanged

\* <-done: the loop ended by itself; pause 5 s before the next attempt.
SupLoopDied ==
  /\ sup.pc = "watch"
  /\ LoopEnded
  /\ sup' = [sup EXCEPT !.pc = "retry"]
  /\ live' = FALSE
  /\ scan' = Cancelled
  /\ UNCHANGED <<token, loop>>
  /\ SupUnchanged

\* Mutant of SupDrained: cancel() without waiting for the loop.
SupNotDrained ==
  /\ sup.pc \in {"drain", "drainOff"}
  /\ sup' = [sup EXCEPT !.pc = IF sup.pc = "drain" THEN "top" ELSE "off"]
  /\ UNCHANGED <<token, live, loop, scan>>
  /\ SupUnchanged

\* <-done after a cancel.
SupDrained ==
  /\ sup.pc \in {"drain", "drainOff"}
  /\ LoopEnded
  /\ sup' = [sup EXCEPT !.pc = IF sup.pc = "drain" THEN "top" ELSE "off"]
  /\ UNCHANGED <<token, live, loop, scan>>
  /\ SupUnchanged

\* time.After(5 s) fires.
SupRetry ==
  /\ sup.pc = "retry"
  /\ sup' = [sup EXCEPT !.pc = "top"]
  /\ UNCHANGED <<token, live, loop, scan>>
  /\ SupUnchanged

Supervisor ==
  \/ SupRead \/ SupBegin \/ SupStop \/ SupWake \/ SupRestart
  \/ SupShutdown \/ SupLoopDied \/ SupDrained \/ SupRetry

-----------------------------------------------------------------------------
(* runWatchLoop.                                                            *)

LoopUnchanged == UNCHANGED <<conf, up, sup, live, env, hub>>

\* NewWatcher and w.Add succeed: the folder is watched from here on.
LoopAdd ==
  /\ loop.pc = "add"
  /\ sup.dir \in there
  /\ loop' = [loop EXCEPT !.pc = "auto", !.watch = TRUE]
  /\ UNCHANGED <<scan, faults>>
  /\ LoopUnchanged

\* The folder is not there, or the watcher cannot be created.
LoopAddFails ==
  /\ loop.pc = "add"
  /\ \/ sup.dir \notin there /\ faults' = faults
     \/ faults < MaxFaults /\ faults' = faults + 1
  /\ loop' = [loop EXCEPT !.pc = "ended"]
  /\ UNCHANGED scan
  /\ LoopUnchanged

\* ReadImportAutoCopy, once, when the loop starts.
LoopReadAuto ==
  /\ loop.pc = "auto"
  /\ loop' = [loop EXCEPT !.pc = IF kvAuto THEN "scan" ELSE "select", !.auto = kvAuto]
  /\ scan' = IF kvAuto
               THEN [scan EXCEPT ![Initial] = [IdleScan(sup.dir) EXCEPT !.pc = "list", !.ctx = live]]
               ELSE scan
  /\ UNCHANGED faults
  /\ LoopUnchanged

\* The initial scan returned; its error is only logged.
LoopScanned ==
  /\ loop.pc = "scan"
  /\ scan[Initial].pc = "idle"
  /\ loop' = [loop EXCEPT !.pc = "select"]
  /\ UNCHANGED <<scan, faults>>
  /\ LoopUnchanged

\* Mutant of LoopEvent: an event that comes while a scan runs is thought to be
\* covered by that scan.
LoopEventUnlessScanning ==
  /\ loop.pc = "select"
  /\ loop.event
  /\ loop' = [loop EXCEPT !.event = FALSE,
                          !.timer = @ \/ \A t \in Timers : scan[t].pc = "idle"]
  /\ UNCHANGED <<scan, faults>>
  /\ LoopUnchanged

\* <-w.Events: schedule() stops the armed timer and arms a new one.
LoopEvent ==
  /\ loop.pc = "select"
  /\ loop.event
  /\ loop' = [loop EXCEPT !.event = FALSE, !.timer = TRUE]
  /\ UNCHANGED <<scan, faults>>
  /\ LoopUnchanged

\* <-ctx.Done(): stop the timer, close the watcher. A goroutine the timer has
\* already started is not waited for.
LoopDone ==
  /\ loop.pc = "select"
  /\ ~(up /\ live)
  /\ loop' = [NoLoop EXCEPT !.pc = "ended", !.auto = loop.auto]
  /\ UNCHANGED <<scan, faults>>
  /\ LoopUnchanged

\* The debounce timer fires: its function runs in a goroutine of its own.
TimerFires(t) ==
  /\ loop.timer
  /\ scan[t].pc = "idle"
  /\ loop' = [loop EXCEPT !.timer = FALSE]
  /\ scan' = [scan EXCEPT ![t] = [IdleScan(sup.dir) EXCEPT !.pc = "ctx", !.ctx = live]]
  /\ UNCHANGED faults
  /\ LoopUnchanged

WatchLoop ==
  \/ LoopAdd \/ LoopAddFails \/ LoopReadAuto \/ LoopScanned \/ LoopEvent \/ LoopDone

-----------------------------------------------------------------------------
(* The debounced function and scanWithMode.                                 *)

ScanUnchanged == UNCHANGED <<conf, up, sup, live, loop, env>>

Goto(s, pc) == scan' = [scan EXCEPT ![s].pc = pc]

\* if ctx.Err() != nil { return }
ScanStart(s) ==
  /\ scan[s].pc = "ctx"
  /\ Goto(s, IF Alive(s) THEN "auto" ELSE "idle")
  /\ UNCHANGED <<hub, faults>>
  /\ ScanUnchanged

\* Mutant of ScanReadAuto: the switch counts only when the loop starts.
ScanReadAutoUnread(s) ==
  /\ scan[s].pc = "auto"
  /\ Goto(s, "list")
  /\ UNCHANGED <<hub, faults>>
  /\ ScanUnchanged

\* if !ReadImportAutoCopy(db) { return }
ScanReadAuto(s) ==
  /\ scan[s].pc = "auto"
  /\ Goto(s, IF kvAuto THEN "list" ELSE "idle")
  /\ UNCHANGED <<hub, faults>>
  /\ ScanUnchanged

\* os.ReadDir: the names to import are fixed here; an error ends the scan.
ScanList(s) ==
  /\ scan[s].pc = "list"
  /\ \/ /\ scan[s].dir \in there
        /\ scan' = [scan EXCEPT ![s].pc = "next",
                                ![s].left = {n \in Names : ver[scan[s].dir][n] > 0}]
     \/ /\ scan[s].dir \notin there
        /\ Goto(s, "idle")
  /\ UNCHANGED <<hub, faults>>
  /\ ScanUnchanged

\* Mutant of ScanNext: the context is checked before the scan only.
ScanNextUnchecked(s) ==
  /\ scan[s].pc = "next"
  /\ IF scan[s].left # {}
       THEN Goto(s, "copy")
       ELSE scan' = [scan EXCEPT ![s].pc = "idle"]
  /\ UNCHANGED <<hub, faults>>
  /\ ScanUnchanged

\* The head of the loop over the entries: the context is looked at only here.
ScanNext(s) ==
  /\ scan[s].pc = "next"
  /\ IF scan[s].left # {} /\ Alive(s)
       THEN Goto(s, "copy")
       ELSE scan' = [scan EXCEPT ![s].pc = "idle", ![s].left = {}]
  /\ UNCHANGED <<hub, faults>>
  /\ ScanUnchanged

\* ImportRegularFile on one entry. It copies whatever is there, copied before
\* or not; an entry that is gone, or whose copy fails, is counted as skipped.
ScanCopy(s) ==
  /\ scan[s].pc = "copy"
  /\ \E n \in scan[s].left :
       LET d == scan[s].dir
           f == <<d, n, ver[d][n]>>
       IN
       /\ scan' = [scan EXCEPT ![s].pc = "next", ![s].left = @ \ {n}]
       /\ \/ /\ d \in there
             /\ got' = got \cup {f}
             /\ again' = again \cup ({f} \cap got)
             /\ UNCHANGED faults
          \/ /\ \/ d \notin there /\ UNCHANGED faults
                \/ faults < MaxFaults /\ faults' = faults + 1
             /\ UNCHANGED hub
  /\ ScanUnchanged

Scan(s) == ScanStart(s) \/ ScanReadAuto(s) \/ ScanList(s) \/ ScanNext(s) \/ ScanCopy(s)

-----------------------------------------------------------------------------
(* The folders, and the shutdown of the process.                            *)

EnvUnchanged == UNCHANGED <<conf, up, sup, live, scan, hub, faults>>

\* Somebody writes a file; fsnotify queues an event when the folder is watched.
WriteFile(d, n) ==
  /\ d \in there
  /\ ver[d][n] < MaxVersion
  /\ ver' = [ver EXCEPT ![d][n] = @ + 1]
  /\ loop' = [loop EXCEPT !.event = @ \/ (loop.watch /\ sup.dir = d)]
  /\ UNCHANGED <<there, plugs>>
  /\ EnvUnchanged

\* The folder goes away. fsnotify drops the watch with a last event, and does
\* not close its channels: the watch loop keeps selecting.
Unplug(d) ==
  /\ d \in there
  /\ plugs < MaxPlugs
  /\ plugs' = plugs + 1
  /\ there' = there \ {d}
  /\ loop' = IF loop.watch /\ sup.dir = d
               THEN [loop EXCEPT !.watch = FALSE, !.lost = TRUE, !.event = TRUE]
               ELSE loop
  /\ UNCHANGED ver
  /\ EnvUnchanged

Plug(d) ==
  /\ d \in Dirs \ there
  /\ plugs < MaxPlugs
  /\ plugs' = plugs + 1
  /\ there' = there \cup {d}
  /\ UNCHANGED <<ver, loop>>
  /\ EnvUnchanged

\* runCtx is cancelled (run.go).
Shutdown ==
  /\ up
  /\ up' = FALSE
  /\ UNCHANGED <<conf, sup, live, loop, scan, env, hub, faults>>

Environment ==
  \/ Shutdown
  \/ \E d \in Dirs : Unplug(d) \/ Plug(d) \/ \E n \in Names : WriteFile(d, n)

Admin ==
  \E h \in Handlers :
    \/ \E d \in Paths : SaveDir(h, d)
    \/ \E on \in BOOLEAN : SaveAuto(h, on)
    \/ Ping(h)

Next ==
  \/ Admin
  \/ Supervisor
  \/ WatchLoop
  \/ \E t \in Timers : TimerFires(t)
  \/ \E s \in Scanners : Scan(s)
  \/ Environment

(***************************************************************************)
(* Every goroutine that can take a step eventually takes it, a running      *)
(* timer fires, and select does not pass over a ready case for ever (Go     *)
(* picks among ready cases at random). Nothing is assumed of the            *)
(* administrator, the folders or the moment of the shutdown.                *)
(***************************************************************************)
Fairness ==
  /\ \A h \in Handlers : WF_vars(Ping(h))
  /\ WF_vars(SupRead) /\ WF_vars(SupBegin) /\ WF_vars(SupStop) /\ WF_vars(SupWake)
  /\ WF_vars(SupRestart) /\ WF_vars(SupShutdown) /\ WF_vars(SupLoopDied)
  /\ WF_vars(SupDrained) /\ WF_vars(SupRetry)
  /\ WF_vars(WatchLoop) /\ WF_vars(LoopDone)
  /\ WF_vars(\E t \in Timers : TimerFires(t))
  /\ \A s \in Scanners : WF_vars(Scan(s))

Spec == Init /\ [][Next]_vars /\ Fairness

-----------------------------------------------------------------------------
(* Properties.                                                              *)

PingPending == token \/ \E h \in Handlers : req[h] = "ping"

\* Whenever the supervisor acts on, or waits with, a folder other than
\* the configured one, a restart is on its way to it: the non-blocking send of
\* pingImportRestart never loses the last change.
NoLostRestart ==
  sup.pc \in {"read", "idle", "watch"} /\ sup.dir # Resolve => PingPending

\* The same for the auto-copy switch: a loop that skipped (or made) its initial
\* scan under the other setting is about to be replaced.
NoLostAutoCopy ==
  sup.pc = "watch" /\ loop.pc \in {"scan", "select"} /\ loop.auto # kvAuto => PingPending

\* A goroutine that still has a live context belongs to the loop the supervisor
\* is running and to its folder.
LiveScansOfCurrentLoop ==
  \A s \in Scanners : scan[s].ctx => sup.pc = "watch" /\ scan[s].dir = sup.dir

\* The supervisor starts a watch loop only when the one before has ended, and
\* with it the initial scan that loop runs: `<-done` is never skipped.
OneLoopAtATime ==
  [][loop'.pc = "add" /\ loop.pc # "add" => LoopEnded /\ scan[Initial].pc = "idle"]_vars

\* No file is begun from a folder that the supervisor no longer watches: a
\* cancelled scan finishes the copy it is at and stops there.
NoCopyBegunFromOldFolder ==
  [][\A s \in Scanners :
       scan[s].pc = "next" /\ scan'[s].pc = "copy"
         => sup.pc = "watch" /\ sup.dir = scan[s].dir]_vars

\* Once auto-copy is switched off and the supervisor has taken the ping of the
\* form up, no scan begins another copy: neither the new loop's initial scan, nor
\* the timers it arms, nor a scan of the old loop that had read the switch before.
NoCopyAfterSwitchOff ==
  [][\A s \in Scanners :
       scan[s].pc = "next" /\ scan'[s].pc = "copy" => kvAuto \/ PingPending]_vars

\* A folder that stays configured and stays there ends up watched by the running
\* loop: after lost pings, failed starts, and after it was away when the loop wanted
\* to watch it. (Not when it went away under the loop: ReturnedFolderIsWatched.)
SavedFolderIsWatched ==
  \A d \in Dirs :
    <>[](up /\ Resolve = d /\ d \in there /\ ~loop.lost)
      => <>[](sup.pc = "watch" /\ sup.dir = d /\ loop.pc = "select" /\ loop.watch)

\* With auto-copy on, the newest version of every file in the watched folder is
\* eventually in the hub, whatever the order of writes, events, timers, saves and
\* returns of the folder. (With the same exception.)
NewestVersionImported ==
  \A d \in Dirs, n \in Names :
    <>[](up /\ kvAuto /\ Resolve = d /\ d \in there /\ ~loop.lost /\ faults = 0)
      => <>[](ver[d][n] > 0 => <<d, n, ver[d][n]>> \in got)

\* After the process is told to stop, the supervisor returns and so do the
\* goroutines it started.
ShutdownQuiesces ==
  ~up ~> sup.pc = "off" /\ LoopEnded /\ \A s \in Scanners : scan[s].pc = "idle"

\* The form says "Automatically copy every new file" (files.html.tmpl:77,
\* README.md:28): then a file that did not change would be copied once.
AutoCopyOnlyNew == again = {}

\* importer.go:405 names an unplugged USB stick as a reason for the loop to end
\* and be retried: then a folder that has come back would be watched again.
ReturnedFolderIsWatched ==
  \A d \in Dirs : <>[](up /\ Resolve = d /\ d \in there) => <>[](loop.watch)
=============================================================================
