# hubaBox: specifications of the hub

hubaBox is one Go binary that serves files on a local network: an administrator
uploads, imports and shares files; guests with a code read them in the *public
library* and chat there. This directory holds TLA+ modules for the concurrent
parts of `src/hubabox-proj`, the TLC configurations that check them on small
instances, and proofs that TLAPS checks for every instance.

Paths below are relative to `src/hubabox-proj`.

Contents: 1 the system · 2 the modules · 3 the runs · 4 fairness · 5 the proofs ·
6 where the code and its texts disagree · 7 what is assumed and left out · 8 the plan.

## 1. The system

| Component | Code | State | Operations | What makes it correct |
|---|---|---|---|---|
| Background import | `internal/importer/importer.go`, the import forms of `internal/server/server.go` | kv rows `import_watch_dir`, `import_auto_copy`; the restart channel (one element); one watch loop with its debounce timer; the goroutines of fired timers | supervisor, watch loop, scans, two forms with their ping | no saved setting is lost; one loop at a time; nothing is copied from a folder that is no longer watched, nor after the switch went off; the newest version of each file arrives; a shutdown ends it all |
| File tree | `internal/files/files.go`, `import.go` | `files/`: names, `.partial` names, contents; open descriptors | upload, import, download, delete | a file is published whole or not at all; no debris; an import replaces nothing; a download is one file |
| Public library | `internal/library`, `internal/server/library_handlers.go`, `middleware.go` | kv rows `library_enabled`, `library_token`; the guest's cookies: code, name, form token | enable, disable, code check, join, name, leave, list | an old code never works again; a guest with several tabs is not turned away |
| What's-new strip | `library_handlers.go` | the list-seen cookie | list, stamp | a change is highlighted until it was shown, and not again |
| Library chat | `internal/librarychat`, `internal/server/library_chat_handlers.go` | table `library_chat_messages`, `library_chat_audio/`, kv row of the retention | post (text or voice), page view, prune, clear, retention form | each row has its voice note and each voice note its row; what is cleared is gone; nothing is pruned before some retention in force allows it, and in the end everything is |
| Rate limiter | `internal/server/ratelimit.go` | the attempts per route and address, in memory | one check per post | at most *max* posts in a window; no refusal without cause |
| Administrator and sessions | `internal/auth/auth.go`; set-up, login, logout, start page and `requireAdmin` in `internal/server` | kv row of the password, table `sessions`, cookies | set-up, sign-in, sign-out, check, purge | a stored password is not set up again; whoever has a session knew the password; an ended session opens nothing; a session in force stays |
| Manual import and last-run record | `scanWithMode`, `importSelectedNames`, `recordResult` of `importer.go`, `eligible.go`, `filesImportScanPost`, `filesImportPickPost` | five kv rows on the last run | scan now, pick files, record, show | each file once and the counts add up; the page shows one run |
| Life cycle | `cmd/hubabox/run.go`, `main_unix.go`, `main_windows.go` | listener, contexts, database handle, service state | start, ready, drain, close, Windows service control | Running only when bound; handlers get their drain |
| Database and migrations | `internal/db` | SQLite file, one connection, `schema_migrations` | open, migrate, close | a recorded migration is complete |
| Path and name rules | `files/path.go`, `library/nick.go` | none | pure functions | a relative path never leaves its root |
| Browser scripts | `web/static/js` | recorder, polling, insight panels | timers and answers | a late answer does not overwrite a newer one |
| Network share, insight, mDNS, configuration, printers, templates | `internal/lanshare`, `filemeta`, `mdns`, `config`, `printers`, `server/web` | none, or the operating system's | input and output | |

The components meet in four places. The HTTP handlers run concurrently, one
goroutine per request, and share the file system *without any lock* and the
database through *one connection*: each SQL statement is atomic, but the code uses
no transaction in the handlers, so two statements are two steps. The import
supervisor is told of a saved form through a channel with room for one element and a
send that gives up when it is full. And the importer writes into the same tree as
the uploads, through the same function `saveUploadWithLimit`. Finally, all of them live
in one process, which may be stopped or killed at any of their steps: what is in the
database and in the file system stays, what is in memory (the limiter's attempts, the
handlers) goes, and after a stop the database is closed under whatever is still at work.

The hard behaviours are therefore: a ping that comes between two selects; goroutines that outlive
the loop that made them (`time.AfterFunc`); a name that was free, or a check that passed, some steps
earlier; two savers with one `.partial`; rows and files that change in separate steps, with a
failure or a crash between them; a clock read before a lock, or before the directory that it is
meant to stamp; answers of the hub that are lost or overtake one another in a browser with several
tabs. `PROJECT.json` lists each of them with its line and the property that watches it (`hazards`).

## 2. The modules

| Module | Models | Checked in | Proofs |
|---|---|---|---|
| `ImportSupervisor` | the background import | `MCImportSupervisor` | `ImportSupervisor_proofs` |
| `HubFiles` | the file tree | `MCHubFiles` | `HubFiles_proofs` |
| `FileStore`, `HubFilesStore` | an atomic store of whole files, and the mapping by which `HubFiles` implements it | `MCHubFiles` | `HubFilesStore_proofs` |
| `LibraryChat` | the library's switch and code, the chat, its retention | `MCLibraryChat` | `LibraryChat_proofs` |
| `LibraryGuest` | the browser of a guest: cookies, form tokens, what's new | `MCLibraryGuest`, `MCHub` | `LibraryGuest_proofs` |
| `RateLimiter` | the sliding window | `MCHub` | `AdminAuth_proofs` |
| `AdminAuth` | the administrator's account and sessions, behind the limiter | `MCHub` | `AdminAuth_proofs` |
| `ImportLedger` | runs over the import folder and the record of the last one | `MCHub` | `ImportLedger_proofs` |
| `Lifecycle` | start, migrations, drain, end of the process | `MCHub` | `Hub_proofs` |
| `Hub` | `LibraryGuest`, `RateLimiter`, `AdminAuth`, `ImportLedger` and `Lifecycle` in one process | `MCHub` | `Hub_proofs` |

Operators are named after the functions, fields and messages they stand for.
Some modules hold *mutants* of an action (`ScanNextUnchecked` of `ScanNext`): the same
action with a plausible bug. They are no part of `Next`; each documents a
change of the code that the property named with it in `PROJECT.json` detects.

### ImportSupervisor

Processes: the handlers of the two import forms, the supervisor, the current watch
loop, and the *scanners*: the initial scan, which runs inside the loop, and the timer
goroutines. A program counter stands between any two operations that others can see:
the kv write and the ping of a handler; the supervisor's read of the folder and its
`select`; the watch loop's `w.Add`, its read of the switch, its scan and its
`select`; a scan's look at its context, at the switch, its `ReadDir`, and each entry.
`sup.dir` is the local variable `p`, the folder the running loop was given.

A context is one bit per goroutine, cleared by `cancel()` (`Cancelled`), and `up` is
`runCtx`. The channel is the bit `token`: `Ping` sets it, whether it was set or not.
A file is its version number; `got` collects which versions have been copied,
`again` those that were copied more than once. The debounce time and the five
seconds are not measured: an armed timer may fire at any step. fsnotify is external:
a write to a watched folder queues an event (events of the same folder are merged,
since the loop treats all of them alike), and a folder that goes away loses its watch
while the watcher's channels stay open. `loop.lost` is history: that has happened to the
running loop.

### HubFiles

Names and contents are kept apart, as a file system does. `full` and `part` map a file
name, and its `.partial`, to an inode; `data` maps an inode to blocks, each marked
with the save that wrote it. `Create` opens the inode behind the `.partial` name if
there is one and truncates it, `Copy` writes at the save's own offset, `Rename` moves
whatever inode the name has at that moment, `Undo` removes whatever has that name.
This is where concurrent saves of one name meet. A download keeps the inode it opened.
An import looks for a free name step by step (`StatTaken`, `StatFree`) before it
saves, and may give up on the way (`StatFails`: its source has gone, or `os.Stat` fails). `LimitReader` hands out one unit more than the limit; so may `Copy`.

`crossed` is a history variable: the saves during which another active save had the same
destination. It plays no part in any guard. The properties whose name begins with
`Lone` are about the saves outside it.

### FileStore and HubFilesStore

`FileStore` is what `internal/files` promises, without `.partial` names, descriptors and
inodes: a shelf maps each name to the contents of a whole file. A save that succeeds puts
them there in one step (`Store`); one that fails changes nothing; an import takes a name
that is free at that step; a download sends the contents that were on the shelf when it
began. Two saves that run for one name at the same time are the exception the code makes
(section 6): what they leave is *torn*, and nothing is said of torn contents.

`HubFilesStore` maps the state of `HubFiles` to it: a name has the contents of its inode if
the inode is *sound* (it was there before, or a save without rivals published it) and is
torn otherwise; a save is running from the choice of its destination to its end. `Create`,
`Copy`, `StatTaken`, `Undo` and the like map to stuttering, `Rename` to `Store`.
`KeepsFilesWhole` is the abstract specification under this mapping.

### LibraryChat

Every SQL statement and every file operation of `libraryChatPost`, `libraryGet`,
`PruneOlderThan`, `ClearAll`, `Enable`, `Disable` and the retention form is a step.
A post checks the switch (`CheckEnabled`), then the code (`CheckCode`); it saves its
voice note (`VoiceCreate`, `VoiceMove`), inserts its row, and prunes. A prune reads the
retention, selects the names of the voice notes, deletes the rows and removes the files
one by one. Enabling and disabling are two statements; clearing deletes the rows, lists
the directory and removes what it found. A voice note is named after its post (the code
draws 16 random bytes), the clock counts days, codes are numbered, code 0 is no code.
Posts may fail at each of these operations; which ones do is chosen by `Failing`.

History variables: `crossed` (posts that were saving a voice note while a clearing
passed), `terms` (for each prune, the retentions that were in force since it asked for the
setting; the default alone if its question failed), `revoked` and `gone` (codes and posts that
a completed disable has done away with).

### LibraryGuest

One browser: `jar` holds the cookies that its tabs share (`code`, `nick`, `seen`, `csrf`),
`tab` each tab's request, the answer on its way, and the page it shows with its form token.
`Ask` sends the cookies of that moment. `Handles` is the handler of the route; only the list
takes two steps, because other saves and deletions may come between its `ReadDir`
and its stamp. An answer may be taken, cut (its cookies arrive, its body does not) or lost;
answers to two tabs may arrive in either order. Cookies may expire. Files are written and
published in two steps, as `saveUploadWithLimit` does, and carry the time of the *last write*.
`shown` is history: which versions the browser has shown, by the stamp of the page.

### RateLimiter and AdminAuth

`Arrive` reads the clock, `Allow` and `Refuse` are what `allow` does under the mutex with that
reading. Requests may enter in another order than that of their readings, up to `Lag` ticks late.
The slice of times that the code keeps for a key is the set of the posts that were let through, each
with its reading. A post that passed goes on in `AdminAuth`: each of its steps is one SQL statement
(or, for `JudgeSession`, the comparison with a clock that is read after the row). `ValidateSession`
is therefore three steps: `ReadSession`, `JudgeSession`, `ForgetSession`. `AuthFails` is a failing
statement; the code passes over failures of `DeleteExpiredSessions` and answers a failed sign-out as
if it had worked. Tokens are never drawn twice. bcrypt is the comparison of passwords. `late` and
`over` are history: whether there was a password, or the session had ended, when the request
*began*.

### ImportLedger

A run (the Scan button, the file picker or the watch loop) has its list of names and takes
one after the other: `SkipName`, `CopyName`, `CopyNameFails`. `importSelectedNames` trims the
names of the form and takes each once; a scan does neither, but `importFilePath` trims what it
opens, so that the file `"a "` stands for `"a"` there. A scene is what each name of the folder is
(finitely many are there), and which forms, runs and pages take place. `LedgerStatement` is one of the five
statements that write the record or of the five reads of a page. Runs, and the statements of
their records, interleave freely. `last` says whose record the five rows are, and `asked` how many names a run was given; both
are history.

### Lifecycle and Hub

`phase` is how far `runWithReady` has come; each migration is a transaction of its
`CREATE TABLE`s and of the row in `schema_migrations`. `Listen` binds the address, `Serve` then
starts the goroutine that serves and calls `ready`; a start may be stopped or killed between the
two. The mutant of `CreateTable` makes each statement durable by itself and in any order, the
row before the tables included: it is the loss of the transaction *and* of the order of
`migrate.go:66-81`. `Drained` is the return of `Shutdown`: no
handler is at work, or `drain` has run out. Under Windows (`service`) `shutdownGrace` gives up
after `grace` and the process exits whatever it is doing (`GraceOver`). `Crash` may happen
at any phase.

`Hub` is one process. Requests begin only while it serves, and runs of the watch loop, which
starts before the listener and outlives it, wherever the database is open; statements succeed only while the
database is open and fail afterwards (`AuthFails`, `LedgerFailure`); `Busy` is what `Shutdown`
waits for: requests, those at the limiter included, pages, tabs and the runs started by hand,
and not the watch loop's runs. `ProcessGone` is what the end of the
process does to everybody else: handlers and runs end where they are, tabs wait for answers
that will not come, and the limiter's attempts are forgotten (a post that was waiting or had
passed is then *lost*). Each step of `Hub` is a step of
one part that leaves the others alone, or a step of the process.

## 3. The runs

| Run | What it asks | States |
|---|---|---|
| `import_safety` | two administrators save the folder and the switch at any moment, among them paths that overlap `files/`; the folder comes and goes; a copy or a watcher may fail | 2.6 million |
| `import_liveness` | the same system with one administrator, under fairness and with a folder that leaves and comes back: saved folder watched, newest version copied, quiet after shutdown | 0.5 million |
| `import_unplugged` | violated: a folder that returns is watched again | |
| `import_copies` | violated: an unchanged file is copied once | |
| `files` | two saves (upload or import), one download, one deletion, one crash, on two names; do they implement the store of whole files? | 0.5 million |
| `files_same_name` | violated: every successful save is whole | |
| `files_import_collides` | violated: no import replaces a file | |
| `chat_switch` | two guests; the library is switched on, off and on; one kind of operation fails; one crash | 0.8 million |
| `chat_retention` | one guest, one change of setting after another, hourly prunes, days pass, the library is switched off; a read of the setting may fail; no crash | 1.1 million |
| `chat_disable` | violated: a disabled library has no messages | |
| `hub` | posts at the limiter, sign-ins, sessions, import runs, a guest with two tabs, and the process around them | 0.55 million |
| `library_whats_new` | violated: every change since the last visit is highlighted | |

What the passing runs show:

- **import_safety.** `NoLostRestart` and `NoLostAutoCopy`: whenever the supervisor acts
  on another folder, or the loop on another switch, than the stored one, a ping is on
  its way. With an unbuffered channel this fails. `LiveScansOfCurrentLoop`,
  `OneLoopAtATime` and `NoCopyBegunFromOldFolder`: a cancelled goroutine finishes at most
  the file it is at, and the next loop begins only when the last one has returned.
  `NoCopyAfterSwitchOff`: once the switch is off and the supervisor has taken up the ping of the
  form, no copy begins, neither by the new loop nor by a scan or timer goroutine of the old one
  that had found the switch on.
- **import_liveness.** `SavedFolderIsWatched` requires the watch itself (`loop.watch`), not only a
  loop that selects: the folder may be away when it is saved, or leave between two loops, and is
  watched when it is back. The one exception is a folder that goes away under the loop that watches
  it (`loop.lost`); that case is `import_unplugged`. `NewestVersionImported` covers the order that worries most: a
  write while a scan has already listed the folder, while the timer is being replaced,
  or while the loop restarts. It assumes that no copy fails, as nothing retries one.
- **files.** For saves that do not share their destination: published contents are
  exactly what was sent, within the limit, also after a crash left a `.partial` that a
  later save takes over; an import replaces nothing; a download is one file although its
  name is replaced or deleted. For all saves: without a crash no `.partial` remains.
  `KeepsFilesWhole` says all of that at once and more: every step of every save, download,
  deletion and crash is a step of `FileStore` or invisible there, so no other order
  of events can be seen from outside.
- **chat_switch.** (The clock stands still in this run, so its prunes find nothing that has
  expired; `chat_retention` is about those.) No voice note without a row when everything has come to rest
  (unless a crash or a failed clearing left it); what a completed disable cleared is gone;
  a code that a completed disable revoked lets nobody in again, although switch and code
  are read and written in separate statements.
- **chat_retention.** No row without its voice note, in any order of prunes, posts and
  clearings. What a prune deletes is older than *some* retention in force since the prune asked:
  the code computes the cutoff before the DELETE, so a prune whose setting is raised meanwhile
  still goes by the lower one, and the property holds it to one of the two. A prune whose read of
  the setting failed goes by the default of seven days, and only that one does; that it may then
  delete what the administrator wanted to keep is what the code does. Every expired
  message goes. The run has no crash (with one it would not end within minutes);
  `MessagesKeepTheirVoice` in section 5 covers crashes.
- **hub**, limiter. At most *max* posts pass in a window that is shorter than the
  nominal one by the time a request can wait for the mutex. This bound is tight: with
  the nominal window the property fails for `Lag` = 1. The wait is microseconds and the
  window a minute, so this is no defect, but it is what the code guarantees. A post is
  refused only when *max* others were let through (`RefusedOnlyWhenFull`), never because of
  refused ones.
- **hub**, account. `SetupOnlyOnce`: set-ups that run together may both store (the check and
  the upsert are two statements), but one that begins after the first has stored never
  does. `SessionsKnowThePassword` follows the passwords through that race.
  `NoEntryAfterTheEnd`: a session that had run out or was signed out when a request began does
  not let it in, whichever of the three clock readings and two deletions come in between;
  `SessionsStayInForce`: purge (`<`) and check (`After`) do not take one that is in force.
- **hub**, runs. `EachFileOnce` over every kind of folder entry and over forms that are stale,
  repeat a name or pad it: each file once, and imported and skipped add up to the names that the
  run was given. `PageShowsOneRun`: a page read while nobody writes, after a run
  that recorded alone, shows that run whole. Runs that end together leave a mixture, as the code
  has no transaction there; the property says exactly when it does not.
- **hub**, guest. `HighlightsAreNews`: no version is highlighted again once the page whose stamp
  is compared has shown it, in whatever order tabs are answered. `FormsAreAccepted`: "Refresh
  the page and try again" comes only to a tab loaded side by side with another's first page,
  or after the token's cookie has expired.
- **hub**, process. `RecordedMigrationsAreComplete` with a crash, a stop or a failure at any
  statement of a migration; `RunningMeansListening`, with a step between the binding and `ready`; `HandlersGetTheirDrain`: after a stop a
  handler loses its database only when the drain was over. Nothing of the kind holds for
  the Windows service, whose patience (20 s, `main_windows.go:79`) is shorter than the drain
  (25 s, `run.go`): `GraceOver` is in the model, and the process may exit under its requests. The
  properties of account and record hold nevertheless.

Bounds. Two saves, two handlers, two guests are the smallest numbers at which actors of
one kind interfere, and the properties speak of one or two of them at a time. One watch
folder with the unset path and an overlapping one gives every kind of change (set,
clear, refuse, set again); `MaxSaves` = 2 lets a second form arrive while the first one's
restart is under way, `MaxVersion` = 2 (liveness) a write after a scan's listing,
`MaxPlugs` = 2 (liveness) a folder that leaves and returns, `MaxPlugs` and `MaxFaults` = 1
(safety) one loss and one failure at any moment. No watcher or copy fails in the
liveness run: with a failure and two plugs it would not end within minutes. `ImportMax` = 2
blocks over `UploadMax` = 1 distinguishes the two limits, and a third block exceeds both.
`MaxSuffix` = 1 makes an import find a taken name, find a free one, and give up.
Three switches are on, off, on; two days of clock are one more than the default
retention of the run.

`hub` has a *cast* in each behaviour (`Casts` of `MCHub`), so that what is independent is not
multiplied: `Crowd` (four posts, two routes, a window of three ticks, two let through),
`SignIns` (three posts of both forms with two passwords), `Sessions` (one sign-in, three
requests with its cookie or none, expiry after one tick), `TwoRuns` (an empty folder, two
runs, a page: two records that interleave), `Folders` (one run over each kind of entry under
a name, its padded twin, and another), `Guests` (a list with a file that is rewritten; first
visits; a guest who joins, takes a name and leaves), and `Stops`, in which a request, posts at
the limiter, a run or a guest are at work while the process starts twice and may stop or
crash at each step. Three posts are needed for two rival set-ups and a sign-in between them; two
tabs for cookies that overtake each other; two migrations, one with two tables, for a step
that is recorded too early. What depends on two parts of different casts at once (a limiter
under a guest's posts, say) is not explored; the theorems of section 5 cover all parts of the
hub for any casts.

Symmetry is used for saves, guests, posts and tabs, which differ only
by name, and only in runs without liveness properties. `CHECK_DEADLOCK FALSE` is set
throughout because all bounded behaviours end.

## 4. Fairness

- *Import*: weak fairness of each operation of the supervisor, the watch loop, each scan,
  the ping of a handler that has saved its form, and the firing of an armed timer.
  These are runnable goroutines and timers, which the Go runtime schedules; none of their
  operations waits for anything but what its guard says. `LoopDone` has a condition of
  its own: when `ctx.Done()` and an event are both ready, `select` draws at random and
  so does not pass over either for ever. Nothing is assumed about the
  administrator, about folders, or about when the process is told to stop.
- *Chat*: weak fairness of a prune that has begun and of the maintenance loop's ticker,
  and of a switch that has begun. These wait for no browser. Nobody has to post.
- *Files, hub*: none; a browser may stop sending, and the process may be killed, at any
  time. Only safety is claimed.

## 5. The proofs

TLAPS proves, for any constants that satisfy the modules' assumptions:

| Theorem | States |
|---|---|
| `ImportSupervisor_proofs!TypeCorrect` | `[]TypeOK` |
| `RestartNeverLost`, `AutoCopyNeverLost` | `[]NoLostRestart`, `[]NoLostAutoCopy` |
| `LiveScansAreCurrent` | `[]LiveScansOfCurrentLoop` |
| `LoopsDoNotOverlap` | `OneLoopAtATime` |
| `OldFoldersAreLeftAlone` | `NoCopyBegunFromOldFolder` |
| `SwitchedOffCopiesNothing` | `NoCopyAfterSwitchOff` |
| `HubFiles_proofs!TypeCorrect` | `[]TypeOK` |
| `LoneSavesAreWhole` | `[]LoneSaveIsWhole` |
| `NoPartialIsLeftBehind` | `[]NoPartialLeftBehind` |
| `DownloadsAreOneFile` | `[]DownloadIsOneFile` |
| `LoneImportsReplaceNothing` | `LoneImportReplacesNothing` |
| `HubFilesStore_proofs!FilesAreKeptWhole` | `KeepsFilesWhole`: `HubFiles` implements `FileStore` |
| `LibraryChat_proofs!ChatTypeCorrect` | `[]TypeOK` |
| `OldCodesAreKeptOut`, `ClearedIsGone` | `[]OldCodesStayOut`, `[]ClearedChatIsGone` |
| `MessagesKeepTheirVoice`, `NoVoiceIsLeftBehind` | `[]RowsHaveTheirVoice`, `[]NoOrphanVoice` |
| `MessagesAreKept` | `KeptForRetention`: what a prune deletes is older than a retention in force since it asked, or than the default if it could not read the setting |
| `AdminAuth_proofs!LateRequestsStayOut`, `SessionsKnow` | `[]NoEntryAfterTheEnd`, `[]SessionsKnowThePassword` of the account alone |
| `SetupHappensOnce`, `SessionsLast` | `SetupOnlyOnce`, `SessionsStayInForce` of the account alone |
| `LimitIsKept`, `RefusalsHaveCause` | `[]AtMostMaxInWindow`, `RefusedOnlyWhenFull` of the limiter alone |
| `ImportLedger_proofs!PagesShowOneRun`, `FilesAreCopiedOnce` | `[]PageShowsOneRun`, `[]EachFileOnce` of the runs alone |
| `LibraryGuest_proofs!HighlightsAreAlwaysNews`, `FormsAreAlwaysAccepted` | `[]HighlightsAreNews`, `[]FormsAreAccepted` of the browser alone |
| `GuestTypeCorrect` | cookies hold only what the hub gave out |
| `Hub_proofs!HubKeepsLateRequestsOut`, `HubSessionsKnow`, `HubSetupHappensOnce`, `HubSessionsLast`, `HubLimitIsKept`, `HubRefusalsHaveCause`, `HubPagesShowOneRun`, `HubFilesAreCopiedOnce`, `HubHighlightsAreNews`, `HubFormsAreAccepted` | the same ten in the composed hub, across starts, stops and crashes |
| `HubRecordsCompleteMigrations` | `[]RecordedMigrationsAreComplete` |
| `HubRunningMeansListening` | `[]RunningMeansListening` |
| `HubDrainIsGiven` | `[]HandlersGetTheirDrain` |
| `HubTypesAreCorrect` | `[]HubTypeOK` |

So every invariant and every action property of the passing runs holds for any number of
handlers, folders, files, timer goroutines, saves, downloads, blocks, guests, administrators, tabs,
posts, passwords, tokens, runs, pages, days, crashes, starts and steps of the schema, as far as
the constants satisfy the assumptions named below.

**ImportSupervisor.** The assumptions are that the empty path is no folder, that
refused folders are not allowed ones, that the initial scan is no timer goroutine, and
that bounds are naturals. The properties are not inductive: from a state in which a
loop runs while the supervisor is idle, a step can start a second one. `Structure` says
how the goroutines are tied together: a loop that has not ended has a supervisor that
watches it or waits for it; the context is live exactly while it watches; the initial
scan runs only inside the loop; a timer is armed only in the loop's select; a live
scanner has the current folder. `Wanted` says that a live scan beyond its check of the switch
has the switch on, or a ping on its way (for `NoCopyAfterSwitchOff`). `Listing` says that what a scan still has to copy was
written (needed for the type of `got`). The conjunction with the two ping properties
is `IInv`. Each conjunct has a lemma with one step per action; the action properties
follow from `IInv` and one step.

**HubFiles.** The assumptions are the order of the two limits and that `Old` and `None`
are no saves. `LoneSaveIsWhole` is not inductive as it says nothing of who may still
write to a published inode. The proof follows the inode:

- `Private`: an inode behind a `.partial` name is written only by saves with that
  destination; no two names share one; an inode that was not created yet is nowhere.
- `Alone`: a save outside `crossed` has its destination for itself while it is active.
- `LoneWriting`: hence a lone save's inode is the one behind its own `.partial` and holds
  what the save has written so far, because whoever writes to it, truncates it, renames
  or removes it would have to have the same destination.
- `Published`: after the rename the inode has no `.partial` name and no writer.
- `Unseen`: what has a `.partial` name, or was never created, is not published and not
  open in a download.
- `Sized`, `FreeName`, `Accounted`: the limit, the import's free name, and the active
  save that answers for each `.partial`.

The steps of `Next` are first reduced to eleven *effects*, field by field (lemma
`Effects`); each conjunct is then preserved by each effect.

**HubFilesStore.** Besides the assumptions of `HubFiles`, `MarksAssumption`: the mark of torn
contents is no block and `None` is no contents. The proof uses the invariant of `HubFiles` and two
facts about a step: what is sound stays sound and keeps its blocks (`SoundStays`: nobody
writes to a published inode of a lone save), and only the rename of a lone save makes
something sound (`SoundComes`). Each effect of a step is then matched with its abstract
action: the rename with `Store` or, for a save with rivals, with `StoreTorn`.

**AdminAuth.** `AuthAssumption`: `None` is no password and no token, and the two routes are
keys of the limiter. The invariant is `AuthInv`:

- `Known`: a token that was not drawn has no row, and what a request has read of its session
  is still true or the row is gone. This carries the reading over the gap between
  `ReadSession` and `JudgeSession`.
- `Late`: a request that began after the end of its session is in one of a few places,
  from none of which it is admitted; if it is about to judge, what it read has run out.
- `Forms`: a post carries its form's password; a late set-up is not at the statement that stores.
- `Owned`: the password in force was stored by a set-up that began before there was one, and
  every sign-in that passed knew it, unless two such set-ups had different passwords.

The lemmas are about `AuthStep`, which is wider than `AuthNext`: it also has the end of the
process. `Hub_proofs` shows that every step of `Hub` is one for the account, so that the
same lemmas give the theorems about the composition without a look at its other parts.

**RateLimiter** (in `AdminAuth_proofs`). `LimiterAssumption`: limit, window, lag and clock are
naturals, the first two not zero, and the lag is shorter than the window. A post that was let
through is either still kept, or was too old for a later post of its key and is too old for whoever
reads the clock after that (`Counted`); a post that waits has read the clock at most `Lag` ticks ago
(`Prompt`). Hence at the moment of `Allow` all posts of the window that ends now, shortened by
`Lag`, are among those that the post finds, and it finds fewer than *max*. The set of all posts let
through is kept finite, so that its parts can be counted; the induction is over steps, not over
counts.

**LibraryChat.** `RequestsAssumption` and `BoundsAssumption`: guests, retention forms and the
maintenance loop differ, retentions are at least one day, bounds are naturals. The steps are first
reduced to their effects (`StepEffect`), as in `HubFiles`. The invariant `IInv` has, beside the
types and the properties:

- `Codes`, `Counted`: codes are given out in order, and the one in force is newer than all
  that a disable has removed or is about to remove, unless the deletion of the code failed.
- `Clearings`: the posts that a clearing found finished stay so; after its DELETE they have no
  row, and after its listing a file of theirs is on its list.
- `Posts`: a post has no row before its INSERT, at most one after it, and no file before its form.
- `Prunes`: the cutoff of a prune is not later than one of its `terms` allows, and the names that
  it has selected are those of the rows that its DELETE will take, although posts come in between
  the two: a new row is not older than the cutoff.
- `Crossings`: a clearing lists the files of posts whose rows are gone, and those of the
  posts it crossed. With `Prunes` this gives `Voices`: nobody takes the file of a row.
- `Owners`: each file has a row, or somebody who is bound to write one or to remove it. At rest
  there is nobody but the row, which is `NoOrphanVoice`.

**ImportLedger.** `LedgerAssumption`: trimming twice is trimming once; a scene has known verdicts,
finitely many names, and forms, runs and pages of the declared sets. For the page: a run that
records alone has written the rows before its own (`Alone`), so the ledger is its record when it
has written the last (`Whole`), and a page that began then reads from it until somebody
records (`Reading`). For the copies: what a scan has before it differs and was not tried
yet (`Plan`); a form may repeat a name, but only a name that was not tried is copied, so that
what was copied is determined by what was tried (`Work`). What was imported, skipped and is still
to do adds up to what the run was asked for (`Counts`).

**LibraryGuest.** `GuestAssumption`: a visit has bounds that are naturals, and a guest who is known
from the start has been given a code and a token. `Bounds`: no cookie holds a code, a stamp
or a token that was not given out. `Stamps`: nothing on a page is younger than its stamp, because
the directory is read first; a version that is highlighted is younger than the stamp with which it
is compared. `TokenIsKept`: what a tab has asked with, and the token of its page, are the token
of the jar unless the tab has been marked when the jar changed; a token is drawn only for a tab
that asked without one.

**Hub.** Each step of `Hub` is a step of each part, a step that leaves the part alone, or the end of
the process as that part sees it: handlers end (`Stops`), attempts are forgotten (`Forgets`), runs
are killed (`Killed`), answers are lost (`Losts`). The parts' invariants are proved for these
steps too, so the theorems carry over.

*The process.* `LifecycleAssumption`: the steps are sets of tables, the times are naturals.
`LifeInv` says what a start has to show in each phase (`Progress`: all earlier
steps are recorded while one is under way, all of them once the database is open), that
the row is the last thing a transaction does (`Transaction`), and that what is recorded has
its tables (`Recorded`). The first is needed because `DBOpen` is reached only through the last
commit.

*The drain.* `HandlersGetTheirDrain` needs two facts. Only `Drained` leads from a stop to the close
of the database, when nobody is at work or the drain is over. And nobody comes to be at work once
the listener is closed (`NobodyComes`): whoever sends a statement or an answer then had begun
before. This is shown part by part with the invariants of `ImportLedger` and `LibraryGuest`.

*The types.* `HubTypeOK` also says that no run is recording while the next start opens and migrates
the database (`Quiet`): the process that it belonged to is gone.

Only model-checked: the four liveness properties `SavedFolderIsWatched`,
`NewestVersionImported`, `ShutdownQuiesces` and `ExpiredChatGoes`, because
fairness and `ENABLED` are out of the prover's reach. The properties that are expected to fail
have counterexamples, and nothing is proved about them.

## 6. Where the code and its texts disagree

Six runs are expected to end with a counterexample. Each states what a comment, a log
message or a page says:

- `files_same_name`: `internal/files/files.go:74` calls a save "atomic via .partial". Two uploads of
  one name share that `.partial`: the first rename publishes the inode that the second
  is still writing to. The rename of the second then fails, and the save that has reported
  success has published blocks of the other.
- `files_import_collides`: `internal/files/import.go:11` says that `UniqueDestName` picks a non-colliding
  name. It looks, and does not reserve: in the trace an upload takes the name before the import
  renames.
- `chat_disable`: `internal/server/server.go:884` reports that all chat was removed. A post that passed
  its check before stores its message after the clearing, where it waits for the
  library to be enabled again.
- `import_unplugged`: `internal/importer/importer.go:405` expects an unplugged stick to end the watch loop.
  fsnotify keeps its channels open, the loop selects on, and the returned folder
  is not watched until a form is saved.
- `import_copies`: `files.html.tmpl:77` and the repository's `README.md:28` say that every *new* file is
  copied. Every event makes a scan copy all names again, each under a fresh suffix.

- `library_whats_new`: `library_handlers.go:294` promises that next time "files that changed since
  this visit will be highlighted". The list is read first and the stamp taken after it; a
  save carries the time of its last write, which precedes its rename. A file that is renamed
  after the listing but was written before the stamp was never shown and never is new.

Beside these, the repository's `README.md:72` says that Ctrl+C and **Stop** of the Windows service
alike give the requests "a 25s drain"; the service itself gives up after 20 s (section 3,
`hub`). No run is about it; `HandlersGetTheirDrain` speaks of the drain alone.

## 7. Assumptions, and what is left out

- POSIX semantics of `rename` and `unlink`. On Windows an open file can refuse both.
- A crash ends the process, not the machine: what was written stays written.
- `os.Remove` succeeds. Database errors are modelled everywhere but in `ImportSupervisor`; in
  `LibraryChat` at most `MaxFailing` kinds of operation fail in one behaviour.
- The clock does not go back. A row's time stamp and its insertion are one step.
- One administrator switches the library at a time. (Two can leave it on without a code:
  the delete of one's `Disable` may follow the insert of the other's `Enable`.)
- Sizes, times, names, MIME types, formatting, the limit on listed messages, cookies'
  encoding and request parsing are abstracted. What a browser leaves out of a cross-site
  request (SameSite) is not modelled.
- Events of `LibraryGuest` that leave a time stamp have different times.
- A file whose own name ends in `.partial` is not modelled: the code accepts one, does not list
  it, and takes it for the temporary file of the shorter name.
- The map of addresses in the rate limiter never shrinks; memory is not modelled.

**Not modelled.** *Path and name rules*: they are about characters, and every module takes names
from small sets; `eligible.go` is modelled by its verdicts. *Browser scripts*: the recorder,
the polling and the insight panels have no module. *Network share*: every command to the
operating system is best effort and leaves no state here. *File insight and previews*: they
read one open file. *Discovery, configuration, printers*: input and output at the start.
*Templates, styles, packaging*: presentation.

## 8. The plan

Done: all modules of section 2, the refinement of `FileStore`, the composition, the proofs of
section 5.

Next, in this order:

1. `BrowserChat`: polling and recording with late answers, as a client of `LibraryChat`.
2. `ImportSupervisor` and `HubFiles` in `Hub`: the goroutines that outlive the closing of the
   database, and runs whose copies are saves.
3. An abstract specification of the chat (messages that are whole or gone) for `LibraryChat` to
   implement, as `FileStore` is for `HubFiles`; most of the refinement is in `Voices` and `Owners`.

Runs stay within minutes: two actors of each kind, one failure, one crash.
