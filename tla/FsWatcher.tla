------------------------------ MODULE FsWatcher ------------------------------
(***************************************************************************)
(* The watcher of a directory (mlib/mlib/fs_watcher.cpp) and the automatic *)
(* loading of torrents by which the session of the daemon uses it          *)
(* (auto_load_torrents() and set_settings() of src/daemon_session.cpp).    *)
(*                                                                         *)
(* A thread reads the events of inotify, puts the new files into a queue   *)
(* and emits a signal under the GDK lock; the main loop, which holds that  *)
(* lock while it handles a signal, takes the files from the queue.  When   *)
(* the settings change it stops the thread and joins it.                   *)
(*                                                                         *)
(* A directory is named by the version of the settings that told to watch  *)
(* it: it may be the same one as before, to be loaded in another way.      *)
(***************************************************************************)
EXTENDS Naturals, Sequences

CONSTANTS None,        \* no version
          MaxChanges,  \* bound: how often the settings change
          MaxFiles,    \* bound: how many files appear
          MaxUnread,   \* bound: events that inotify has queued
          Leaves       \* subset of {"moved", "deleted"}: the directory may be

ASSUME FsWatcherAssumption ==
    /\ {MaxChanges, MaxFiles, MaxUnread} \subseteq Nat
    /\ None \notin Nat
    /\ Leaves \subseteq {"moved", "deleted"}

VARIABLES version,            \* of the settings of automatic loading
          is,                 \* is it on?
          watching_directory, \* version, or None
          watch,              \* version the kernel has a watch for, or None
          events,             \* the events inotify has queued
          connection,         \* the pipe: is there a byte for the thread?
          thread,             \* the step of the thread, "none" without one
          named,              \* the directory it believes to watch
          batch,              \* the events it has read
          new_files,
          new_file_signal,    \* emissions the main loop has not handled
          main,               \* the step of the main loop; "idle": the GDK
                              \* lock is free
          change,             \* what set_settings() is about to set, if it runs
          files,              \* ghost: number of files that have appeared ...
          appeared,           \* ghost: ... with the version they belong to
          left,               \* ghost: versions whose directory was moved
          loaded              \* ghost: files loaded, with the settings used

settings == <<version, is>>
kernel == <<watch, events>>
worker == <<thread, named, batch>>
ghosts == <<files, appeared, left, loaded>>
vars == <<settings, watching_directory, kernel, connection, worker, new_files,
          new_file_signal, main, change, ghosts>>

Versions == 0..MaxChanges
Files == 1..MaxFiles
Events == [file : Files \cup {0}, dir : Versions] \* 0: the directory itself
Paths == [file : Files \cup {0}, dir : Versions, named : Versions]

TypeOK == /\ version \in Versions /\ is \in BOOLEAN
          /\ watching_directory \in Versions \cup {None}
          /\ watch \in Versions \cup {None}
          /\ events \in Seq(Events)
          /\ connection \in BOOLEAN
          /\ thread \in {"none", "wait", "process", "signal"}
          /\ named \in Versions
          /\ batch \in Seq(Events)
          /\ new_files \in Seq(Paths)
          /\ new_file_signal \in Nat
          /\ main \in {"idle", "drain", "join", "reset", "aborted"}
          /\ change \in {"none", "on", "off"}
          /\ files \in 0..MaxFiles
          /\ appeared \subseteq [file : Files, dir : Versions]
          /\ left \subseteq Versions
          /\ loaded \subseteq [file : Files, dir : Versions, named : Versions,
                               version : Versions]

(* The session has been started with automatic loading on. *)
Init == /\ version = 0 /\ is = TRUE
        /\ watching_directory = 0 /\ watch = 0 /\ named = 0
        /\ events = <<>> /\ batch = <<>> /\ new_files = <<>>
        /\ connection = FALSE
        /\ thread = "wait"
        /\ new_file_signal = 0
        /\ main = "idle" /\ change = "none"
        /\ files = 0 /\ appeared = {} /\ left = {} /\ loaded = {}

-----------------------------------------------------------------------------
(* The directory, seen through inotify. *)

(* A file is closed after writing, moved or linked into the directory. *)
FileAppears ==
    /\ main # "aborted"
    /\ watch # None /\ files < MaxFiles /\ Len(events) < MaxUnread
    /\ files' = files + 1
    /\ appeared' = appeared \cup {[file |-> files', dir |-> watch]}
    /\ events' = Append(events, [file |-> files', dir |-> watch])
    /\ UNCHANGED <<settings, watching_directory, watch, connection, worker,
                   new_files, new_file_signal, main, change, left, loaded>>

(* The directory is moved or deleted; with a deleted one goes its watch. *)
DirectoryLeaves(how) ==
    /\ main # "aborted"
    /\ watch # None /\ watch \notin left /\ Len(events) < MaxUnread
    /\ left' = left \cup {watch}
    /\ events' = Append(events, [file |-> 0, dir |-> watch])
    /\ watch' = IF how = "deleted" THEN None ELSE watch
    /\ UNCHANGED <<settings, watching_directory, connection, worker, new_files,
                   new_file_signal, main, change, files, appeared, loaded>>

-----------------------------------------------------------------------------
(* The thread. *)

(* Mutant: the byte in the pipe has the priority. *)
MutWait ==
    /\ thread = "wait" /\ main # "aborted"
    /\ IF connection
       THEN /\ thread' = "none" /\ connection' = FALSE
            /\ UNCHANGED <<events, batch>>
       ELSE /\ events # <<>>
            /\ batch' = events /\ events' = <<>> /\ thread' = "process"
            /\ UNCHANGED connection
    /\ UNCHANGED <<settings, watching_directory, watch, named, new_files,
                   new_file_signal, main, change, ghosts>>

(* wait_for_with_owning(fd, true): the byte in the pipe ends the thread only
   when there are no events; otherwise it reads those that fit in its buffer. *)
Wait ==
    /\ thread = "wait" /\ main # "aborted"
    /\ IF events # <<>>
       THEN \E n \in DOMAIN events :
                /\ batch' = SubSeq(events, 1, n)
                /\ events' = SubSeq(events, n + 1, Len(events))
                /\ thread' = "process"
                /\ UNCHANGED connection
       ELSE /\ connection
            /\ connection' = FALSE
            /\ thread' = "none"
            /\ UNCHANGED <<events, batch>>
    /\ UNCHANGED <<settings, watching_directory, watch, named, new_files,
                   new_file_signal, main, change, ghosts>>

(* Mutant: only the first event of those read is looked at. *)
MutPush ==
    /\ thread = "process" /\ main # "aborted"
    /\ new_files' = Append(new_files, [file |-> Head(batch).file,
                                       dir |-> Head(batch).dir, named |-> named])
    /\ batch' = <<>>
    /\ thread' = "signal"
    /\ UNCHANGED <<settings, watching_directory, kernel, connection, named,
                   new_file_signal, main, change, ghosts>>

(* process_event(): first the file is put into the queue, ... *)
Push ==
    /\ thread = "process" /\ main # "aborted"
    /\ new_files' = Append(new_files, [file |-> Head(batch).file,
                                       dir |-> Head(batch).dir, named |-> named])
    /\ batch' = Tail(batch)
    /\ thread' = "signal"
    /\ UNCHANGED <<settings, watching_directory, kernel, connection, named,
                   new_file_signal, main, change, ghosts>>

(* ... then the signal is emitted, under the GDK lock. *)
Signal ==
    /\ thread = "signal" /\ main = "idle"
    /\ new_file_signal' = new_file_signal + 1
    /\ thread' = IF batch = <<>> THEN "wait" ELSE "process"
    /\ UNCHANGED <<settings, watching_directory, kernel, connection, named, batch,
                   new_files, main, change, ghosts>>

-----------------------------------------------------------------------------
(* The main loop. *)

(* unset_watching_directory() up to the join; what comes after it is the step
   `joined'.  inotify_rm_watch() of a watch that is gone is an error, and
   MLIB_E() aborts the program. *)
Unset(joined) ==
    IF watch = None
    THEN main' = "aborted" /\ UNCHANGED <<watch, connection>>
    ELSE main' = joined /\ watch' = None /\ connection' = TRUE

(* set_settings() with other settings of automatic loading. *)
ChangeSettings(on) ==
    /\ main = "idle" /\ version < MaxChanges
    /\ change' = on
    /\ IF watching_directory = None
       THEN main' = "drain" /\ UNCHANGED <<watch, connection>>
       ELSE Unset("join")
    /\ UNCHANGED <<settings, watching_directory, events, worker, new_files,
                   new_file_signal, ghosts>>

(* The handler of the signal: auto_load_torrents(). *)
OnNewFile ==
    /\ main = "idle" /\ new_file_signal > 0
    /\ new_file_signal' = new_file_signal - 1
    /\ main' = "drain"
    /\ UNCHANGED <<settings, watching_directory, kernel, connection, worker,
                   new_files, change, ghosts>>

(* auto_load_torrents() takes a file from the queue and loads it ... *)
Load ==
    /\ main = "drain" /\ new_files # <<>> /\ Head(new_files).file # 0
    /\ LET path == Head(new_files)
       IN loaded' = loaded \cup {[file |-> path.file, dir |-> path.dir,
                                  named |-> path.named, version |-> version]}
    /\ new_files' = Tail(new_files)
    /\ UNCHANGED <<settings, watching_directory, kernel, connection, worker,
                   new_file_signal, main, change, files, appeared, left>>

(* ... or learns that the directory has gone, and stops watching it: *)
DirectoryGone ==
    /\ main = "drain" /\ new_files # <<>> /\ Head(new_files).file = 0
    /\ IF watching_directory = None
       THEN /\ new_files' = <<>> /\ is' = FALSE
            /\ UNCHANGED <<main, watch, connection>>
       ELSE /\ new_files' = Tail(new_files)
            /\ Unset("reset")
            /\ UNCHANGED is
    /\ UNCHANGED <<version, watching_directory, events, worker, new_file_signal,
                   change, ghosts>>

(* the rest of the queue is thrown away and automatic loading is off. *)
Reset ==
    /\ main = "reset" /\ thread = "none"
    /\ watching_directory' = None
    /\ new_files' = <<>>
    /\ is' = FALSE
    /\ main' = "drain"
    /\ UNCHANGED <<version, kernel, connection, worker, new_file_signal, change,
                   ghosts>>

(* set_settings() joins the thread, ... *)
Join ==
    /\ main = "join" /\ thread = "none"
    /\ watching_directory' = None
    /\ main' = "drain"
    /\ UNCHANGED <<settings, kernel, connection, worker, new_files,
                   new_file_signal, change, ghosts>>

Drained == main = "drain" /\ new_files = <<>>

(* Mutant: set_settings() takes the new settings without asking first whether
   torrents are left in the queue. *)
MutApply ==
    /\ main = "drain" /\ change # "none"
    /\ version' = version + 1
    /\ change' = "none" /\ main' = "idle"
    /\ new_files' = <<>>
    /\ IF change = "on"
       THEN /\ is' = TRUE
            /\ watching_directory' = version' /\ watch' = version'
            /\ named' = version' /\ thread' = "wait"
       ELSE /\ is' = FALSE
            /\ UNCHANGED <<watching_directory, watch, named, thread>>
    /\ UNCHANGED <<events, connection, batch, new_file_signal, ghosts>>

(* ... loads what is left in the queue with the old settings, takes the new
   ones, and starts to watch, unless inotify refuses the directory.  The files
   that were in it before, which load_torrents_from_auto_load_dir() loads with
   the new settings in this very step, have no events and are not counted. *)
Apply ==
    /\ Drained /\ change # "none"
    /\ version' = version + 1
    /\ change' = "none" /\ main' = "idle"
    /\ \/ /\ change = "on"
          /\ is' = TRUE
          /\ watching_directory' = version' /\ watch' = version'
          /\ named' = version' /\ thread' = "wait"
       \/ /\ is' = FALSE
          /\ UNCHANGED <<watching_directory, watch, named, thread>>
    /\ UNCHANGED <<events, connection, batch, new_files, new_file_signal, ghosts>>

Handled ==
    /\ Drained /\ change = "none"
    /\ main' = "idle"
    /\ UNCHANGED <<settings, watching_directory, kernel, connection, worker,
                   new_files, new_file_signal, change, ghosts>>

-----------------------------------------------------------------------------
Thread == Wait \/ Push \/ Signal
Main == OnNewFile \/ Load \/ DirectoryGone \/ Reset \/ Join \/ Apply \/ Handled

Next == \/ FileAppears
        \/ \E how \in Leaves : DirectoryLeaves(how)
        \/ \E on \in {"on", "off"} : ChangeSettings(on)
        \/ Thread
        \/ Main

Spec == Init /\ [][Next]_vars

(* The thread is scheduled and the main loop runs. *)
FairSpec == Spec /\ WF_vars(Thread) /\ WF_vars(Main)

-----------------------------------------------------------------------------
(* Properties. *)

(* A torrent is loaded from the directory where it appeared and with the
   settings that told to watch that directory, however the settings change
   between the event and the loading. *)
LoadedWithOwnSettings ==
    \A l \in loaded : l.named = l.dir /\ l.version = l.dir

(* No torrent is missed when the settings change: what appeared in the old
   directory while it was watched has been loaded when the new settings are
   in force, except what was in a directory that has been moved. *)
NothingMissed ==
    main # "aborted" =>
        \A a \in appeared : a.dir < version /\ a.dir \notin left =>
            \E l \in loaded : l.file = a.file

(* A torrent that appears is loaded, sooner or later, unless its directory is
   moved or the main loop comes to a standstill (which it may, see below). *)
FilesLoaded ==
    []<>(main = "idle") =>
        \A f \in Files :
            files >= f ~> \/ \E l \in loaded : l.file = f
                         \/ \E a \in appeared : a.file = f /\ a.dir \in left

(* unset_watching_directory() "takes the directory off" and returns. *)
UnsetReturns == main \in {"join", "reset"} ~> main \in {"idle", "aborted"}

(* "If the directory was moved or deleted, the empty path is put into the
   queue": deleting it is an expected event and does not end the program. *)
SurvivesDeletion == main # "aborted"
=============================================================================
