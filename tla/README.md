# A TLA+ verification of flush

flush is a BitTorrent client for GTK: a session around libtorrent (`src/daemon_session.cpp`),
its user interface, and a library `mlib` (`mlib/mlib`) with the parts that are hard to get
right: protected configuration files, an asynchronous file system, a directory watcher and a
dispatcher of signals between threads. This directory holds TLA+ models of that logic, the TLC
configurations that check them, and eight modules of TLAPS proofs.

Paths below are relative to the root of the repository (`PROJECT.json`, which maps every definition
to its lines, puts another `src/` before them).

## 1. The system

One process runs three kinds of threads, and one lock orders most of what they do:

* the **main loop** of GTK runs the callbacks of the user interface, of timers, of D-Bus and of
  signals. It holds the GDK lock while it handles a GTK event;
* the **messages thread** (`Daemon_session::operator()`) takes alerts from libtorrent and
  hands them to the main loop. It holds the GDK lock while it looks at the session;
* **helper threads**: the directory watcher, the asynchronous file system.

Threads talk to the main loop through `m::gtk::Dispatcher` (an idle source that exists while there
are signals, needs the GDK lock) or `Glib::Dispatcher` (a pipe, needs no lock). A dialog runs a main
loop of its own, in which everything else goes on.

### Inventory

| component | state it keeps | operations | what is hard | what makes it correct |
|---|---|---|---|---|
| protected configuration files, `mlib/mlib/fs.cpp:40-100` | a file and its `.new` twin | `start_reading`, `start_writing`, `end_writing`, erase | crashes at every step, also of the recovery itself; data not flushed, and a directory that never is | a completed write is never lost, or only with the directory entries that name it; a reader finds the old or the new version |
| session: saving and stop, `src/daemon_session.cpp` | `torrents`, serial numbers, `pending_torrent_resume_data`, two stop flags | add, remove, save, alerts, `stop()` | answers arrive late, for torrents removed or added again; the stop waits for a counter | the counter is exact; the stop comes, and only when all was written |
| asynchronous file system, `mlib/mlib/async_fs.cpp` | queue of tasks, `started`, `paused`, a semaphore | `add_task`, pause, resume, destructor | a thread that ends by itself while others add work; destruction | one thread; each task once, in order; quiet after a pause |
| directory watcher and automatic loading, `mlib/mlib/fs_watcher.cpp` | inotify watch, pipe, queue of files | set, unset, get, events | settings change while files are under way; join under a lock | each file loaded once its directory names it, with its settings |
| signal dispatcher, `mlib/mlib/gtk/dispatcher.cpp` | queue of signals, an idle source | emit, `emission_cb`, destructor | handlers that run main loops, emit again or destroy the dispatcher | no lost wakeup, no use after destruction |
| temporary actions, `src/daemon_session.cpp` | the action, its torrents, a timer | begin, complete, cancel, interrupt | torrents change, go and come back meanwhile | an action undoes what it did and nothing else |
| automatic cleaning, `src/daemon_session.cpp:987-1087` | time of seeding of each torrent | count, limit by time, ratio and number | limits that overlap; choice by position in a sorted list; pauses shorter than a minute | the stricter limit applies; the youngest stay; a pause never counts |
| store of torrents, `src/daemon_session.cpp` | a directory per torrent | add, load, save, remove, automatic loading | every file operation may fail, the program may die; others change the watched directory, which automatic loading knows by names | what was added can be loaded again; a dropped file is not lost; nothing is left over |
| settings of the daemon, `src/daemon_settings.cpp`, with IP filter and statistics | `daemon.conf`; what libtorrent and the watcher do | read (all versions), `set_settings`, edit, command, reset, save | a copy is edited while other things change the original; units, overflow, old versions | what the settings say is in force; a restart finds what was saved |
| settings of the client, `src/client_settings.cpp`, `mlib/mlib/gtk/tree_view.hh` | `client.conf`; columns of the lists | read, gather, save, arrange | renamed and unknown options and columns | the list is arranged as it was saved |
| main window and icon, `src/main_window.cpp` | shown, iconified, hints for the window manager, two kinds of icon | show, hide, minimise, close, indicator comes and goes | who decides at which moment whether the window leaves the lists | the user can always get at the program |
| what is chosen for a torrent and its downloaded files, `src/add_torrent_dialog.cpp`, `src/torrent_files_view.cpp`, `src/daemon_settings.cpp:1039-1722`, `src/daemon_session.cpp` | a dialog with rows of files and trackers; `torrent.conf`; what the session has loaded; the files on the disk | edit, add, save, read (all versions), change, finish, copy, remove with the data | paths that must make a tree; options left out of the file; work done later by another thread, in the order asked for | rows summarise the files; a restart restores what was saved; the end is told once; files are copied before they go |
| list of torrents, `src/torrents_view.cpp`, the categories and the widgets with details and options | copies of the session's torrents, rows, selection, revisions of the options | redraw, filter, select, operate, remove, edit options and trackers | the session changes behind; GTK calls back in the middle of a redrawing; only what is newer is copied | rows, numbers and options show what is known; nobody asks about what was removed |
| application messages, `src/application.cpp` | a queue, a dialog, a static dispatcher | `add_message`, show, response, destruction | any thread reports; destroyed by another thread | no message forgotten, each shown once, in order |
| program instance and D-Bus, `src/main.cpp`, `src/application.cpp` | name on the bus, the link to it, options under way | start, hand over, signals, close | two instances at once, one of which starts, closes, dies or does not answer | the link leads to the owner; what a process tells its user is true; a signal ends it |
| daemon facade and proxy | none | forwarding | | |
| creation of torrents, `src/create_torrent_dialog.cpp` | a window, its file, a thread that hashes, a flag | choose, start, cancel, close | nobody joins the thread; the program may close meanwhile; main loops in main loops | what the user is told of the file is true; Cancel ends it |
| dialogs that ask for a file or a link, log | none | | | left out |
| `mlib/base`, libtorrent, SQLite wrappers | none | conversions | | left out |
| `dbus-c++` | vendored | | | left out |

### How they interact

The session owns the watcher and two dispatchers. Its messages thread emits
`torrent_resume_data_signal` and `torrent_finished_signal`; the main loop handles
them. It calls the protected files to write what libtorrent answered, and the asynchronous file
system to copy or delete data. The watcher emits a signal whose handler is
`auto_load_torrents()`, which calls the store (`add_torrent`). A temporary action changes torrents
through the same functions as the user. The automatic cleaning pauses and removes torrents while the window
displays them. `stop()` first undoes the temporary action, then asks for
all resume data; the answer that brings the counter to zero sets `stop_messages_thread`, and the
messages thread then destroys the application. The windows read settings from the daemon and the client,
edit copies, and write them back; a second process reaches the application through the bus.

## 2. The modules

    AtomicFile  <-- implemented by --  ConfigFile        MCConfigFile       FileProofs
                                       AsyncFs           MCAsyncFs          FileProofs
    Mailbox     <-- implemented by --  Dispatcher        MCDispatcher       EventProofs
                                       FsWatcher         MCFsWatcher        EventProofs
    Mailbox     <-- implemented by --  MessageQueue                         ProgramProofs
       MessageQueue <-- Program    <-- CreateTorrent     MCProgram          ProgramProofs
                                       DaemonSession     MCDaemonSession    DaemonSessionProofs
                                       TemporaryAction   MCTemporaryAction  TemporaryActionProofs
    FileTree     <-- TorrentDialog
    TorrentStore, TorrentDialog    <-- TorrentData       MCTorrentData      TorrentDataProofs
    AutoClean    <-- TorrentOptions
    TorrentOptions, CategoriesView <-- TorrentsView      MCTorrentsView     TorrentsViewProofs
    ClientSettings <-- Settings    <-- MainWindow        MCSettings         SettingsProofs

An arrow `<--` without words means EXTENDS. The two abstract modules are the interfaces between the others.
`DaemonSession`, `TorrentData`
and `TemporaryAction` write a file in one step because `ConfigFile` implements `AtomicFile` (in these three the program may die, but the system does not,
so that the file never goes back); `TorrentData` gives files to a queue of tasks because `AsyncFs` executes them in order;
`DaemonSession` and `FsWatcher` keep the emissions of a signal in a queue because `Dispatcher`
implements `Mailbox`.

**ConfigFile.** The names `main` (the file) and `tmp` (its `.new` twin) lead to inodes, and an inode has contents (`data`), abstracted to
the number of the version written or `Broken`. `pc` is the step of the one writer (the
GDK lock admits one): copy back an interrupted commit (`start_writing`), open and
write the twin, flush it, remove, rename (`end_writing`). At every step there may be an exception, a crash of the program, or a
crash of the system (`PowerLoss`). That loses what is not on the disk: of the contents, all that was not flushed since (`stored`); of the
directory, what the system has not written yet (`earlier` are the directories that the disk may still hold, `WriteBack` makes them fewer), since
`sync_file()` (`fs.cpp:1057-1070`) flushes the file and nobody flushes the directory. So the removal and the renaming of `end_writing()` (`:87-90`) may be
undone after the writing was reported. What is assumed of the file system is that changes of the directory reach the disk in the order in
which they are made, as with a journal. `Synced` tells a caller that calls `sync_file` (all but
the metadata of a magnet link, `src/daemon_types.cpp:264`). `CanErase` is the resume data.
`AtomicFile` is a file that is replaced in one step behind a cache: `acked` is what was reported, `lasting` are the reports that a crash of the system may
go back to (`Lose`).

**DaemonSession.** `requests` (calls of `save_resume_data()` libtorrent has not answered), `alerts`
(posted, not taken), `held` (taken by the messages thread) and the two signal queues are the
stations of an answer; `pending_torrent_resume_data` is the counter in the code. Each callback
of the main loop, and each locked region of the messages thread, is one action. A torrent that is
removed and added again has a new serial number; its handle may outlive it. The ghost `excused` names the torrents
whose last writing failed or that were changed after `stop()`.

**AsyncFs.** Regions under the mutex are steps, except the last of the thread, where the
mutex is a variable because the destructor may run as soon as the semaphore is posted. Between
`started = true` and the existence of the thread the caller is outside the mutex (`client`).

**FsWatcher.** Events are queued by the kernel, read by the thread in batches, put into
`new_files` and signalled under the GDK lock; `main` is the step of the main loop and holds that
lock whenever it is not `"idle"`. A directory is named by the version of the settings that asked
for it, so that a file loaded with other settings is seen.

**Dispatcher.** The `Emission_handler` objects are explicit (`Handlers`), so that a source left
by a destroyed dispatcher is a different object from the next one, and a source that is being called is not
called again, as in GLib.

**TemporaryAction.** Torrents are running or paused; the ghost `chosen` is what they would be without
temporary actions, `touched` those that others changed during one. Serial numbers tell a torrent
from a later one with the same identifier.

**AutoClean.** The torrents of the session with what the cleaning depends on: status, pause, whether they are counted as
seeding, for how long (up to `MaxTime`), whether the ratio is reached. What the session does to torrents are operators on
that function, so that `TorrentsView` can use them behind the back of the window. Sorting is not stable, so a
list sorted by time is any such list (`Sorted`).

**CategoriesView, TorrentOptions.** The categories beside the list: which are selected (`items`), whether they, their names and their
numbers are shown, and what is written in them (`labels`), which only those handlers write that find them visible. The options of
the torrents in the daemon (`settings`, with the revisions it numbers) and the widget that copies what is newer
(`options`), with its list of trackers and the chooser of a directory, which runs a main loop. The ghost `same` says that the torrent
was not removed and added again since it was read.

**TorrentsView.** `torrents` and `infos` are the copies of the session the window displays (`infos` those that the
last redrawing found), `rows` what GTK shows, `selected`, the buttons (`actions`), and the widgets with the details and
the files of the selected torrent. A redrawing has steps: each selected row that is erased makes GTK
call `on_row_changed_cb()`. The question before a removal runs a main loop (`dialog`).

**Settings, ClientSettings, MainWindow.** One field for each way of treating a field: `listen_random_port` (its default depends on the version of the
config), `pex` (an extension that cannot be taken out of libtorrent), `download_rate_limit` (KB/s, bytes/s and `int`, with a
type `Speed` of few bits), the IP filter (rules edited without a check), automatic loading (`is`, switched off with its directory),
automatic cleaning (two options until 0.5), one statistic. `libtorrent` and `watching` are what is in force; `window` and `dialog`
are copies the user edits; `config` and `client_config` are the files; `saved` and `excused` are ghosts.
`ClientSettings` has the options of the client by kinds and the columns of the list; `MainWindow` has the window
and its icons, which follow the settings and put the columns and the size into them.

**TorrentStore.** `dirs`, `copy` and `conf` are the directory of each torrent on the disk and the
two files in it; `session` is what is loaded. A job (add, remove, start) goes step by step,
and every file operation has a second alternative in which it fails. `Exit` is the
death of the program at any step as well as its proper end. Torrents come by link, from a file the user opens, or from the
watched directory. There `file` says whose `*.torrent` file a name leads to, and others change that at any step (`Drop`, `TakeAway`). Automatic loading finds the name (`Stat`), reads what it leads to then (`Add`, `AddDuplicate`, `GiveUp`), or finds that it has gone, which `add_torrent()`
ends without an error (`AddGone`, `daemon_session.cpp:504-515`), and deletes in the end what the name leads to by then (`DeleteLoadedFile`, `:907-925`). The ghost `dropped` are the files others put there,
but for those that came when the name was about to be deleted unread (`TooLate`).

**FileTree, TorrentDialog.** Paths are sequences of names. `create` is the tree `m::fs` builds, or none; `Copyable` and `Removable` are what its `cp()` and
`rm()` do; `Rows` is what the widget computes for a directory from its children, with a recursive function as the code recurses. The dialog
has the chosen files with a `revision`, and the widget the paths of the revision `displayed`; entering a path moves all that is below.

**TorrentData.** Every step of the store with what it does to the data: `asked` is what `add_torrent()` was called with, `written` the options in
`torrent.conf` (only those that differ from the defaults are written), `data` what the session has loaded. `alerts` are ends
of downloads to be handled, `tasks` what the thread for files has to copy or remove, `later` the removal that is queued when the
directory of the torrent has gone; `downloads` and `copies` are the files on the disk. Ghosts: `saved` is what was saved last, `mixed`
the torrents added while their old files wait for their removal. `OldConfigs` are files of versions before 0.9 and what they mean; `IsOld`
says which options these versions wrote.

**MessageQueue, Program.** A thread that has read the warning function is at `"add"`, and after it has
released the mutex at `"signal"`; `signals` is the pipe. The Application is destroyed by another
thread, between any two of these steps. `Program` puts this Application into the process `First`, from `main()` to its end,
among other processes that start by hand, with options or from a browser: `owner` and `link` are the name on the bus and the link that
leads to it, `calls` the options sent, `handling` what the main loop has taken from D-Bus or the signal's pipe before it gets the GTK
lock. The other process is not followed any more once it has become the owner. A failed assertion starts the program anew
with a window that shows the error (`"explaining"`), in a process that has no Application.

**CreateTorrent.** In the process `First`: `create` is the window and what the user does with it, `worker` the step of the thread that
adds the files, hashes the pieces, asks after each whether it is cancelled (`is_cancel`), and writes the `file`, which is truncated when it
is opened. It needs the GTK lock for all it shows, and the main thread keeps that once it has left its main loop. While a file chooser or a
message runs an inner loop the outer one does not end (`Nested`). The ghost `outcome` is what the user was told.

## 3. What is checked

Every run ends in less than five minutes; all are listed in `PROJECT.json` with their properties,
and for each property of a passing run there is a mutant of a mapped definition that breaks it.
The map there names the source of each definition: a type invariant stands for the members that its class declares, an initial state
for a constructor, and a next-state relation, where one exists, for the code that connects the handlers or declares the operations.

| run | instance | distinct states | shows |
|---|---|---|---|
| `ConfigFile_crash` | 4 writes, flushed, with erasures, all crashes, 6 changes of the directory not on the disk | 251 028 | `CommittedSurvives`: the next start finds what had been reported as written in the directory it finds, a cut recovery copy excepted; `ImplementsAtomicFile`: each step is one of an atomically replaced file behind a cache |
| `DaemonSession` | 1 magnet torrent, added twice, failing disk, changes after `stop()` | 149 443 | the counter is exact (`PendingIsOutstanding`), the stop waits for it (`StopsWhenAllAnswered`) and comes (`StopEnds`), and a stopped session has saved all changes (`ChangesSaved`) |
| `AsyncFs` | 2 callers, 2 threads, 2 groups, 4 tasks | 5 428 | `PausedGroupIsQuiet`: a group reported quiet stays so while paused; `TasksExecuted`, `CloseEnds`: the tasks are executed, the destructor returns |
| `FsWatcher` | 2 changes, 3 files, 2 unread events, the directory may be moved | 44 771 | `LoadedWithOwnSettings`, `NothingMissed`, `FilesLoaded`: each file is loaded, once, as the directory it appeared in asks for |
| `FsWatcher_join` | 1 change, 1 file | 49 | violates `UnsetReturns` |
| `Dispatcher` | 2 handlers, 6 signals | 311 | `NoUseAfterDestroy`; `ImplementsMailbox`: signals are received once, in order, and in the end |
| `TemporaryAction` | 2 torrents, each added twice, 2 actions | 63 454 | `LeavesNoTrace`: an action undoes what it did; `StoppedAsChosen`: nothing of it is on the disk after a stop |
| `TorrentsView` | 2 torrents with the window, 3 (and links) without it, times up to 2 | 474 447 | while the session cleans itself: `SelectionIsKnown`, `WindowIsTrue` (rows, categories, widgets), `OptionsAreTrue`, `OwnRemovalsAreKnown`; of the cleaning: `LimitKeepsTheYoungest`, `PausesAreNotCounted` |
| `TorrentsView_aborts` | 2 torrents, removed as soon as they seed | until then | violates `NoLogicalError` |
| `Settings` | six configs of the daemon and four of the client, of several versions, two rules, a `Speed` of 3 bits; behaviours concerned with two topics at a time | 129 903 | `SettingsInForce`, `WatcherFollowsSettings`: what they say is in force; `ClosingSaves`, `RestartKeepsSettings`: nothing is lost; `Reachable`: nor is the window |
| `TorrentData` | 2 torrents, one of which has more than its directory; two files; torrents left by three older versions; one name in the watched directory | 214 540 | the disk: `AddedSurvives`, `NothingLost`, `NoLeftovers`; the dialog: `RowsSummarise`; `torrent.conf`: `RestartKeepsTorrent`, `ToldOnce`; the files: `CopyFindsFiles` |
| `Program` | 2 processes, 2 sessions of the user, 2 threads, 2 messages, the creation of a torrent | 94 750 | `LinkLeadsToOwner`, `AnswersAreTrue`, `OutcomeIsTrue`; `ImplementsMailbox`: messages are shown once and in order; `SignalEnds`, `CancelEnds` |

### Why these bounds are enough

* *ConfigFile*: four versions reach every combination of old, new, broken and absent in both
  files, and leave room for an interrupted commit, a crash of its recovery, and a write after that. A write changes the directory three times, so
  six changes are two writes, both reported and none on the disk. The proof has no bound.
* *DaemonSession*: the identifier is what torrents share, so one identifier with two serial numbers
  has the stale answers. Two alerts at once
  are enough for one of a removed and one of a present torrent. The proof has no bound, and covers the stop that waits for several torrents.
* *AsyncFs*: a second thread slot is needed to see two threads, two callers to see a race for
  `start()`, two groups to pause one that is not at work.
* *FsWatcher*: two changes give a directory that is left, one entered and left again; three files
  put one before, between and behind them.
* *Dispatcher*: with two handlers a new one can exist while an old one, disconnected, is still in the middle of its
  call; six signals fill the queue while handlers are nested.
* *TemporaryAction*: an action, another one that replaces it, and a torrent added again in each.
* *TorrentsView*: the window treats torrents alike and one by one, so two show a selection of none, one and several. A limit on the number
  needs one torrent within and two beyond it; these three nobody looks at (`UntouchedOtherwise`). The times 0, 1, 2 lie below, at and
  beyond the limits. The parts of the window share the list of torrents and little else, so one is used at a time, with settings of the cleaning that remove torrents
  at once (`SmallWhenUsed`): the widgets with details under two filters; the categories and the rows with nothing selected;
  the options with all torrents shown, one of them changed, at most twice (and never beyond `MaxRevision`), and no question open.
  `WithoutGhosts` leaves out of the state what only the properties of the cleaning remember, where these are not at stake, and what
  the rows display, where the options are: nothing else reads those variables. The proofs have none of these bounds.
* *Settings*: the fields of the settings do not depend on each other but in pairs (a filter and its switch, a limit and the dialog), so
  `FewUsed` keeps behaviours in which at most two topics differ from their defaults, of the daemon or of the client and the window (a changed total goes with no other). With three bits,
  a limit of 2 KB/s (4 bytes) overflows as 2^21 KB/s do with 32. The old configs are from before and after each change of the format.
* *TorrentData*: torrents interact only through the job, so two show all of it, and a job knows one name of the watched directory, under which the
  two take turns. Either both are like any other (`Plain`), with unbounded
  operations and all failures, one of them perhaps from a link; or one is alone (`Alone`) with one topic in which it differs from the
  defaults (`Rich`), or downloaded, in the order of its files, copied and removed. Then no file fails to be removed, there is one
  task of each kind, and one dialog with `MaxEdits` entered paths. `ThreadSteps` lets the thread for files go on between the jobs
  of the main loop only, except those that look at the files: elsewhere its steps commute with the loop's. The proofs have none of these bounds.
* *Program*: two processes are one that owns and one that comes; a second session makes a link that leads to a bus that is gone. Two messages are one
  shown and one waiting, two threads one that adds and one that finds the queue empty. `OneTopic` keeps apart what meets only in the
  end of the process: a torrent is created while there is no other process and at most one other message; an error is
  explained, and two threads or messages are used, without another process. The proofs have no bound.

`SYMMETRY` is used only where the properties are invariants or, in `TorrentsView`, about single steps in which torrents are alike.
`CHECK_DEADLOCK FALSE` is set where the system really stops: a destroyed dispatcher, ended processes, an aborted program or
one whose main loop waits for good. In the other runs a deadlock would be reported.

### Fairness

* `DaemonSession!Fairness`: libtorrent answers each `save_resume_data()`, as its documentation
  promises (one alert per call), the messages thread is scheduled, and the main loop comes to its idle
  sources. Nothing is assumed about the user or about news of libtorrent.
* `AsyncFs!Fairness`: threads that exist are scheduled and callers return from `start()`. Nothing makes a
  caller resume; `TasksExecuted` speaks of behaviours in which pauses end.
* `FsWatcher!FairSpec`: the thread and the main loop are scheduled. `FilesLoaded` has the premise that
  the main loop is idle again and again, because of the deadlock described below.
* `Dispatcher!FairDispatcherSpec`: the main loop calls its sources and handlers return.
* `CreateTorrent!CreateSpec`, with `Program!ProgramFairness`: every process that lives goes on, its threads and its main loop run, a call of D-Bus is answered or times out
  after 25 s, the daemon stops in the end (`StopEnds` of `DaemonSession`), the thread that hashes goes on, **and the user closes what is in the way**: dialogs of messages,
  warnings, file choosers and the window of an error. That is an assumption about the environment, without which the second message is rightly not shown, and a program asked
  to end waits for its inner main loop (`Quit /\ ~Nested`). Nothing makes anybody start or close a program, press Cancel, send a signal or end a session.

All fairness is weak.

## 4. Where the code and its words part

Two runs state what the code says of itself and are violated by what it does; they are the findings of `PROJECT.json`:

1. `FsWatcher_join`: `unset_watching_directory()` joins the thread under the GDK lock the thread needs
   to emit its signal (`fs_watcher.cpp:382` and `:315`).
2. `TorrentsView_aborts`: the failure of rechecking is taken to be unreachable (`torrents_view.cpp:845`), but a torrent
   that the automatic cleaning has removed since the list was drawn makes it fail, and the program aborts.

Further properties are stated in the modules and refuted by TLC with the constants named here; they
belong to no run, since each is a single short counterexample:

* `ConfigFile!ProtectedFromCrashes`: `start_writing()` repairs an interrupted commit by copying `.new` over the file *in place*
  (`fs.cpp:78`). A crash in the copy leaves a partial file, which `start_reading()` prefers to the intact `.new`.
  All other properties of `ConfigFile` name this exception (`Torn`). With `Synced = FALSE` `CommittedSurvives` fails for the
  metadata of a magnet link, which is renamed without a flush;
* `ConfigFile!NeverStepsBack`: the directory is never flushed, so a crash of the system may undo the renaming (`fs.cpp:87-90`), and a
  version that was reported as written is an older one again;
* `ConfigFile!TmpReadOnlyAfterInterruption` (`CanErase = TRUE`): resume data that was erased is read again
  from a `.new` left by an older interruption (`daemon_settings.cpp:1732`);
* `DaemonSession!ResumeDataIsOwn`: resume data is matched by identifier only (`daemon_session.cpp:2176`); data
  asked of a removed torrent is saved for the one added again;
* `DaemonSession!NoLogicalError` (magnets): metadata handled after its torrent was removed is treated as a logical error;
* `DaemonSession!FinishedByItself`: a torrent added again is finished by the message of the removed one;
* `AsyncFs!PauseIsSignalled`: `paused_signal` is not emitted when a pause finds the thread just ending;
* `TorrentStore!OnlyLoadedIsDeleted`: what automatic loading deletes as the loaded `*.torrent` file (`daemon_session.cpp:907-912`) is what has its
  name by then. When `load_file()` finds that the file has gone (`:504-515`), `add_torrent()` ends as if all was well; a file that is put there again, or
  in the place of the one that was read, is deleted unread, before the watcher has told of it. `NothingLost` is about all other files;
* `FsWatcher!SurvivesDeletion` (`Leaves <- MayBeDeleted`): `inotify_rm_watch()` fails when the directory is gone;
* `MessageQueue!NoMessageTooLate`: a thread that read the warning function before the Application reset it
  reports to a destroyed object; so does a callback of a signal, or of D-Bus (`application.cpp:287`), that waited for
  the GDK lock while the object was destroyed;
* `Program!ErrorsAreTrue`: a process that has given up after 25 s tells its user that it failed, though its options may still
  be processed by an Application that was busy.

What else the models made visible, without a property of its own:

* The files of a magnet link that was removed and added again are shown with rows of the old one when both have the same revision
  (`torrent_files_view.cpp:653`), and a row without a state is a logical error (`:918`): `Report` and the widget in `TorrentsView`.
* A rule of the IP filter is edited without the check (`ip_filter.cpp:290-305`): the program aborts when the filter is switched on with it,
  and the rule is silently dropped when it is read. The comment at `daemon_settings.cpp:783` says that a broken filter is not loaded at all;
  only the invalid rule is skipped.
* The random port of configs before 0.7 is overwritten by the default of old configs (`daemon_settings.cpp:511-515` and `:729-731`), and the first
  start of the program gives `listen_random_port = false` although the constructor says true.
* Dialogs survive `close()`: what is accepted in them later is in force and not saved, though the comment at `main_window.cpp:1039` says that
  the user cannot influence the session any more. `excused` names it in `ClosingSaves`.
* `pex` is added to libtorrent again when it is switched on a second time, and stays in force until the next start when it is switched off.
* Automatic loading is switched off for good, and saved so, when its directory is missing for a moment (`Settings!NoticeGone`, `Start`).
* Rate limits from 2^21 KB/s overflow the `int` of libtorrent and mean none.
* `sort_column` of configs before 0.4 is not renamed with the columns: such a list is not sorted any more.
* The icon switched off in the settings window while the window is minimised into it leaves the program without either (`switched_off` in
  `Reachable`). Pressing OK tells the settings to show an icon before it is made: an update due in the same turn of the main loop aborts
  (`AbortInUpdate`).
* The comment at `application.cpp:322-330` says that options of another process are detached from the call; they are processed in it. A
  process without options that finds the owner closing ends without a word and with success.
* A finished torrent whose copying was asked for is saved with the flag off: when the program dies before the thread for files has come to
  it, it is never copied. An end of download that is handled after more files have been selected copies only some of them, and switches
  the flag off too (`daemon_session.cpp:1197-1245`). There, `interested_files` is only reserved and then indexed (`:1206-1209`), which is undefined.
* A torrent that is added again while its old files wait for their removal loses what it has downloaded by then (`mixed`).
* `Download_settings(const std::string&)` leaves `sequential_download` without a value (`common.cpp:217`).
* The files chosen for a magnet link are lost when its `*.torrent` could not be saved.
* The widget of the options keeps the old settings of a torrent that was removed and added again between two updates (`same` in
  `OptionsAreTrue`). A directory chosen while the torrent was filtered out or removed is lost, with a warning. Cells of trackers can be edited, without effect.
* A file chooser of the creation that is open when the program closes delays its end, and then writes into the settings of a destroyed
  Application (`IntoSettings`); a creation that is finished after that fails an assertion (`CreatedTooLate`). Cancel after the last
  question is ignored, and a failed writing leaves a cut `*.torrent`.

## 5. What is proved

The proofs hold for every value of the constants, under the `ASSUME`s of the modules. These state types, that placeholders are no values,
and the few facts the code relies on: a unit of 1024 divides 2^32, limits found in old configs are none or at least one
unit and within range, and a `client.conf` of an older version is one libconfig can have read and that version can have written: options have the types the
code asks for, a column is there once, and the paths of versions before 0.4, which are read without a check, are absolute (`SettingsAssumption`, `IsClientFile`); no column is called by a name that was given
up (`ClientSettingsAssumption`); the files of a torrent make a tree, and "none" is among the directories
(`DialogAssumption`), and a `torrent.conf` of an older version has the options that version wrote (`DataAssumption`). Every invariant and every
action property of a passing run has its theorem. Bounds are arbitrary, and
sets of torrents, threads or processes may be infinite except in `DaemonSession`, which counts.

| module | theorems, of which the properties of runs are | inductive invariant |
|---|---|---|
| `FileProofs` (ConfigFile) | `CommittedNeverLost`: `CommittedSurvives`; `AtomicReplacement`: `ImplementsAtomicFile`; both assume `Synced` | whichever directory the disk holds, what a reader would choose in it is complete on the disk, and at least as new as what had been reported then (`Kept`); what each step knows of the two inodes (`InStep`); an inode is written only when no directory that may come back leads a reader to it, but for recoveries (`NewInodes`, `Superseded`). Needed because `CommittedSurvives` speaks of the directory that is seen, and a crash brings back one of those in `earlier` |
| `FileProofs` (AsyncFs) | `PauseCorrect`: `PausedGroupIsQuiet`; and `OneThreadAlways`, `ExecutedInOrder`, `DestroyedLast` | who holds the mutex, one thread or one call of `start()` per `started`, the numbering of the queue after the executed tasks, what the waiting destructor may rely on |
| `EventProofs` (Dispatcher) | `DestroyedUntouched`: `NoUseAfterDestroy`; `DispatcherIsMailbox`: the steps of `ImplementsMailbox`; and `WakeupNeverLost` | the one connected source is the one the dispatcher knows (`Wired`); the queue holds the numbers after the last one delivered (`Numbered`) |
| `EventProofs` (FsWatcher) | `OwnSettings`: `LoadedWithOwnSettings`; `NoTorrentMissed`: `NothingMissed` | whatever waits in the events, the batch or the queue is of the directory watched last, since the thread ends only when there are no events and new settings come only with an empty queue; each file that appeared waits somewhere or was loaded (`Accounted`) |
| `DaemonSessionProofs` | `PendingCorrect`, `StopCorrect`, `SavedCorrect`: `PendingIsOutstanding`, `StopsWhenAllAnswered`, `ChangesSaved` | the thread holds an alert only while it delivers it; the counter is the number of answers; once it is zero in the stop no request can be added; a changed torrent has an answer under way once the stop has asked. The bulk is counting: how appending to a queue and taking its head change the number of resume alerts in it |
| `TemporaryActionProofs` | `NoTraceLeft`: `LeavesNoTrace`; `ChosenIsSaved`: `StoppedAsChosen`; and `OwnTimer` | serial numbers of remembered torrents are not in the future; every torrent of the action is in the state the action gave it, unless touched since; what is on the disk, and what will be written, once the stop has undone the action |
| `TorrentDataProofs` (TorrentStore) | `AddedTorrentsSurvive`, `DroppedTorrentsAreKept`, `NothingLeftOver`, and `SessionStored` | a torrent being created or erased is promised to nobody and its files are still there (`Expendable`); what each step of adding achieved (`Progress`); the files that will be deleted are of the torrent being added, or of stored ones (`Doomed`), where nothing is assumed of what others do with the names; a torrent without a known link has its copy (`PlainHasCopy`); which directories the job accounts for (`Accounted`) |
| `TorrentDataProofs` (TorrentData) | `DataSurvives`, `DataNotLost`, `DataNotLeftOver`: `AddedSurvives`, `NothingLost`, `NoLeftovers` with the data; `FilesAreCopied`: `CopyFindsFiles` | the above holds from torrents of old versions too, since each step maps to one of the store; what a torrent has is on the disk where no removal waits for it, and no removal comes before a copy of the same torrent (`FilesInv`) |
| `TorrentDataProofs` (torrent.conf) | `RestartKeeps`: `RestartKeepsTorrent`; `NotToldAgain`: `ToldOnce` | what is read from the file means what was saved, and the last end of a download that was saved is the one loaded, or was revoked (`KeptInv`); settings are for all files or for none, in the dialog and in what was asked (`DialogInv`, `AskedInv`); the session has loaded all it has (`LoadedInv`) |
| `TorrentDataProofs` (TorrentDialog) | `RowsAreRight`: `RowsSummarise` | the files displayed are those of the dialog, what is chosen has their paths or the torrent's own, and the rows are computed of both (`IsShown`); it needs what the operators of `FileTree` compute, for any files: the lemmas `CreateIs`, `NormalizeType`, `RowsAre` |
| `TorrentsViewProofs` | `SelectedAreKnown`, `WindowCorrect`, `OwnRemovalsCorrect`, `OptionsCorrect`: `SelectionIsKnown`, `WindowIsTrue`, `OwnRemovalsAreKnown`, `OptionsAreTrue` | rows go before the information about them and are as the last information and setting had it, also between the steps of a redrawing; the labels agree while they can be seen; the widgets speak of the selected torrent or of none; torrents removed here are neither known nor selected; remembered revisions are never newer than the daemon's |
| `TorrentsViewProofs` (AutoClean) | `YoungestKept`: `LimitKeepsTheYoungest`; `PausesNotCounted`: `PausesAreNotCounted`; and `StricterApplies` | a torrent paused since the last count is not taken for one that was seeding then; a sorted list of the seeding torrents is a bijection, so that cutting it keeps exactly as many as the limit; no torrent of the session is among the deleted |
| `SettingsProofs` | `InForceCorrect`: `SettingsInForce`; `WatcherCorrect`: `WatcherFollowsSettings`; `ClosingSavesCorrect`, `RestartKeepsCorrect`, `ReachableCorrect`: `ClosingSaves`, `RestartKeepsSettings`, `Reachable` | what was saved last is what the config found means, through the arithmetic of kilobytes and of an `int` that wraps; libtorrent follows what differs (`DaemonInv`); the window has an icon just when the client's settings ask for it (`WindowInv`); the client's settings, and those the file found means, have each column at most once, and the list of the window is an arrangement of all its columns, one of them shown (`ListInv`). It needs what is read from a file that was written (`WrittenIsRead`) and how `load_settings()` arranges a list (`LoadKeepsOrder`) |
| `ProgramProofs` | `OwnerIsFound`, `AnswersCorrect`: `LinkLeadsToOwner`, `AnswersAreTrue`; and `NothingForgottenEver` | one owner, and the link is that of its bus; options sent and not processed are of a process that waits or has given up; what was processed and what was answered go together |
| `ProgramProofs` (CreateTorrent, MessageQueue) | `OutcomeCorrect`: `OutcomeIsTrue`; `ProgramIsMailbox`: the steps of `ImplementsMailbox`; and `NothingForgotten`, `QueueIsMailbox` for a queue without a process | while the thread can be cancelled the file is the old one (`Unfinished`); `NoMessageForgotten` with the types; for the mailbox, the queue holds the numbers after the last one shown |

Each module also has its type invariant as a theorem (`TypeCorrect` and the like). `AtomicReplacement`, `DispatcherIsMailbox`, `QueueIsMailbox` and `ProgramIsMailbox` are refinements:
initial states map to initial states, and each step to a step of the abstract module or a stutter. `OneThread`, `InOrder`, `NoThreadAfterClose`
of `AsyncFs`, `NoLostWakeup` of `Dispatcher`, `OneTimer` of `TemporaryAction`, `SessionIsStored` of `TorrentStore`, `StricterLimitApplies` of `AutoClean` and
`NoMessageForgotten` of `MessageQueue` are in no run, being proved. TLC evaluates the assumptions
in the instances of the runs.

**Induction over data.** `load_settings()` places the saved columns one by one (a `FoldRight`), `create` inserts the files into a tree
and `normalize` takes the components of a path one by one (`FoldLeft`), and a row is computed from those below it (`Rows`). The library's theorems about such
definitions take an operator, which the provers cannot instantiate. Its theorems about well-founded relations take a *set*: with
`NatLessThanWellFounded` and `WFMin` a set of numbers has a least member (`LeastExists`), and a set that has 0 and each successor up to `n`
has all of them (`Induction`). From that:

* a fold is a recursive function over sets of indices, and `FoldExists` shows that such a function exists, from partial ones on
  `1..n`; its values are then followed step by step, with what they keep stated as a set (`CreateIs`, `NormalizeType`, `ColumnsAreLoaded`);
* when `create(files)` is a tree, no path of a file is a beginning of another's, and the tree has the files and the beginnings of their paths (`CreateIs`);
* after some columns `load_settings()` has those that are still known in front, as they were saved and in the order they were saved in, with nothing
  between them (`LoadKeepsOrder`);
* the recursive function of the rows exists because the summary of a tree, stated without recursion, is one (`RowStepIs`); it is
  the only one because two would differ first at a longest path (`RowsAre`).

Only model-checked:

* all liveness (`StopEnds`, `TasksExecuted`, `CloseEnds`, `FilesLoaded`, `SignalEnds`, `CancelEnds`), and the fair part of
  `ImplementsMailbox`, whose steps are proved: the prover does not reason about fairness and `ENABLED`;
* the two violations, and the counterexamples of section 4, which are behaviours of small instances.

## 6. Bounds in the models

| bound | module | limits |
|---|---|---|
| `MaxVersion`, `MaxEarlier` | ConfigFile | writes started; changes of the directory that are not on the disk |
| `MaxSerial` | DaemonSession, TemporaryAction | times one identifier is added |
| `MaxPending` | DaemonSession | answers awaited when one more is requested |
| `MaxAlerts` | DaemonSession | alerts on their way when libtorrent posts news |
| `MaxTasks`, `Threads` | AsyncFs | tasks added; slots for threads |
| `MaxChanges`, `MaxFiles`, `MaxUnread` | FsWatcher | changes of the settings; files; events not read |
| `MaxSignals` | Dispatcher | signals emitted |
| `MaxActions` | TemporaryAction | temporary actions |
| `MaxTime` | AutoClean | times of seeding told apart |
| `MaxRevision` | TorrentOptions | revisions of the settings and the trackers of a torrent beyond which nobody changes them |
| `MaxBytes` | Settings | bytes transferred, over all sessions |
| `MaxSpeed`, `Kilobyte` | Settings | the width of `Speed`; a unit small enough for it |
| `MaxEdits` | TorrentDialog | paths entered in one dialog |
| `Texts`, `Places`, `Trackers` | TorrentDialog | what the user may enter |
| `OldConfigs` | TorrentData | files left by older versions |
| `MaxMessages` | MessageQueue | messages reported |
| `MaxSessions` | Program | sessions of the user after the first |

## 7. What is abstracted or left out

* The contents of files, torrents and messages are numbers or members of small sets. libconfig and
  bencode trees and encodings do not appear, paths only in `FileTree` and its users.
* libtorrent, GLib, GTK, D-Bus, inotify and the file system are modelled as far as this code uses them (marked external).
  In `DaemonSession` libtorrent answers requests in any order with success or failure.
* `TorrentStore`, `DaemonSession`, `TemporaryAction` and `Settings` have the death of the program, not that of the system. That would also lose the unflushed copy of a
  `*.torrent` file, which `ConfigFile` shows for unflushed files in general, and bring back older settings, as there.
* File systems that write changes of a directory to the disk out of order are not modelled; nor are directories torn by a crash.
* In the watched directory: the links a name may be, and a file that changes while it is read (`GiveUp` covers what comes of it, a file that is no torrent).
* A config that cannot be read at all is not modelled: it is replaced by defaults in memory, and by the next save on the disk.
* `Program` ends processes with their session and does not follow the Application of another owner. Undefined behaviour of a
  callback that comes too late is the end of the process (`Abort`). Two displays, or two buses at once, are left out; a
  `TODO` in `main.cpp` admits that case.
* After the closing the icon is taken to be insensitive, as the comment at `main_window.cpp:1043` says, and dialogs to be modal to their parents.
* `download_to` may come out empty of the file chooser; this is not modelled.
* Of the data of torrents: names and their encodings, sequential download in `torrent.conf`, and the statistics of a torrent. Files are downloaded
  whole, and what the thread for files cannot copy or remove is only reported, as in the code.
* In the creation of torrents: the size of the pieces, the trackers and the comment, which are copied into the file and change nothing, and the
  directories the choosers start in.
* Titles, tooltips, toolbars and the status bar repeat what the session holds. Notifications only show.
* The dialogs that ask for a file or for a link, and the log, are not modelled.
* The daemon facade forwards, but for `process_torrents()` and the questions about one torrent, which are in `TorrentsView`;
  `dbus-c++` is vendored.

## 8. What could follow

1. **Proofs**: of the compositions below; of what is left for one system, only liveness, which this prover does not reach.
2. **Composition**: `DaemonSession` over `Mailbox` instances instead of its signal queues, and the store and the watcher
   together: a file dropped into the directory is in the end stored or still there.
3. **Models**: the dialogs that ask for a file or a link; the statistics and the encodings of names in `torrent.conf`.
