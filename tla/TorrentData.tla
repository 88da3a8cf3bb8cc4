----------------------------- MODULE TorrentData -----------------------------
(***************************************************************************)
(* What the torrents of TorrentStore are: what the user chooses for them   *)
(* in the dialog (TorrentDialog) and later, how that is kept in            *)
(* torrent.conf (src/daemon_settings.cpp), and their downloaded files,     *)
(* which another thread copies and removes in the order asked for          *)
(* (AsyncFs) while the session goes on (src/daemon_session.cpp).  Every    *)
(* step of the store is here with what it does to the data.                *)
(***************************************************************************)
EXTENDS TorrentStore, TorrentDialog

CONSTANTS OldConfigs  \* torrent.conf of older versions, and what they mean

VARIABLES asked,     \* what add_torrent() was called with
          written,   \* the options in torrent.conf ...
          data,      \* ... and what the session has loaded
          downloads, \* the files in the directory of the downloads ...
          copies,    \* ... and in that of finished torrents
          alerts,    \* torrents whose end of download is to be handled
          tasks,     \* what the thread for files has to do ...
          later,     \* ... and what it gets when the removal has ended
          saved,     \* ghost: what was saved last, -1 when announced since
          mixed      \* ghost: added while its files wait for their removal

dataVars == <<dialog, asked, written, data, downloads, copies, alerts, tasks,
              later, saved, mixed>>

Nothing == <<>>

TypeOfData ==
    /\ \A t \in Torrents : /\ (data[t] # Nothing) <=> Loaded(t)
                           /\ (conf[t] # "none") <=> (written[t] # Nothing)
                           /\ data[t] # Nothing =>
                                 data[t].have \in SUBSET DOMAIN data[t].files
    /\ alerts \in SUBSET Torrents /\ mixed \in SUBSET Torrents
    /\ Len(later) \in 0 .. 1

DataInit ==
    /\ dialog = Closed /\ asked = Nothing
    /\ data = [t \in Torrents |-> Nothing]
    /\ downloads = [t \in Torrents |-> {}] /\ copies = downloads
    /\ alerts = {} /\ tasks = <<>> /\ later = <<>> /\ mixed = {}

(* A new installation, or an older version of the program has left a torrent. *)
NewInit == /\ Init /\ DataInit
           /\ written = [t \in Torrents |-> Nothing] /\ saved = written

OldInit ==
    /\ DataInit
    /\ \E t \in Torrents, old \in OldConfigs :
          LET Left(value, none) == [other \in Torrents |->
                                      IF other = t THEN value ELSE none]
          IN  /\ dirs = {t}
              /\ copy = Left("good", "none") /\ conf = Left("plain", "none")
              /\ written = Left(old.config, Nothing)
              /\ saved = Left(old.means, Nothing)
    /\ session = [t \in Torrents |-> "none"]
    /\ job = "off" /\ torrent = NoTorrent /\ how = "file" /\ todo = {}
    /\ file = [n \in Names |-> NoTorrent]
    /\ promised = {} /\ dropped = {} /\ spoilt = FALSE

-----------------------------------------------------------------------------
(* torrent.conf *)

(* What Torrent_settings(torrent) takes from a torrent. *)
Settings(torrent_data) ==
    [paused |-> torrent_data.paused, files |-> torrent_data.files,
     trackers |-> torrent_data.trackers, copy |-> torrent_data.copy,
     to |-> torrent_data.to, last |-> torrent_data.last]

(* ... and what add_torrent_to_config() makes of what it was asked. *)
NewSettings(new, link) ==
    [paused |-> ~new.start,
     files |-> IF new.files # <<>> THEN new.files
               ELSE [i \in DOMAIN (IF link THEN <<>> ELSE TorrentFiles) |-> NoSettings],
     trackers |-> IF new.trackers # <<>> THEN new.trackers[1] ELSE TorrentTrackers,
     copy |-> new.to # "", to |-> new.to, last |-> -1]

(* An empty path is no option. *)
Given(options, path, empty) ==
    [option \in DOMAIN options \ {o \in {path} : options[o] = empty} |->
        options[option]]

(* Mutant: the new paths of the files are not written. *)
MutWritten(settings) ==
    Given([version |-> "0.9", is_paused |-> settings.paused,
           copy_when_finished |-> settings.copy,
           copy_when_finished_to |-> settings.to,
           files |-> [i \in DOMAIN settings.files |->
                         [download |-> settings.files[i].download,
                          priority |-> settings.files[i].priority]],
           trackers |-> settings.trackers,
           bytes_done_on_last_torrent_finish |-> settings.last],
          "copy_when_finished_to", "")

(* Torrent_settings::write_config() *)
Written(settings) ==
    Given([version |-> "0.9", is_paused |-> settings.paused,
           copy_when_finished |-> settings.copy,
           copy_when_finished_to |-> settings.to,
           files |-> [i \in DOMAIN settings.files |->
                         Given(settings.files[i], "path", Root)],
           trackers |-> settings.trackers,
           bytes_done_on_last_torrent_finish |-> settings.last],
          "copy_when_finished_to", "")

(* Torrent_settings(download_path), when torrent.conf cannot be read. *)
Defaults == [paused |-> TRUE, files |-> <<>>, trackers |-> <<>>,
             copy |-> FALSE, to |-> "", last |-> -1]

Option(config, option, default) ==
    IF option \in DOMAIN config THEN config[option] ELSE default

(* What versions before 0.9 have left, and what they meant: whether to download
   each file (before 0.2) or a group for each, and where to copy the files in the
   end (by another name before 0.4).  None of them counted what it had told. *)
IsOld(old) ==
    LET config == old.config
        Has(option) == option \in DOMAIN config
        means == [paused |-> config.is_paused,
                  files |-> [i \in DOMAIN TorrentFiles |->
                      IF Has("files_priorities")
                      THEN [NoSettings EXCEPT !.download = config.files_priorities[i]]
                      ELSE [option \in DOMAIN NoSettings |->
                               Option(config.files[i], option, NoSettings[option])]],
                  trackers |-> Option(config, "trackers", TorrentTrackers),
                  copy |-> \/ Has("copy_on_finished_path")
                           \/ Has("copy_when_finished_to") /\ config.copy_when_finished,
                  to |-> Option(config, "copy_when_finished_to",
                                Option(config, "copy_on_finished_path", "")),
                  last |-> -2]
    IN  /\ {"version", "is_paused"} \subseteq DOMAIN config /\ config.version # "0.9"
        /\ ~Has("bytes_done_on_last_torrent_finish")
        /\ Has("files_priorities") <=> ~Has("files")
        /\ DOMAIN TorrentFiles = DOMAIN (IF Has("files") THEN config.files
                                                         ELSE config.files_priorities)
        /\ Has("copy_on_finished_path") =>
              /\ ~Has("copy_when_finished_to") /\ config.copy_on_finished_path # ""
        /\ Has("copy_when_finished_to") =>
              /\ config.copy_when_finished_to # ""
              /\ Has("copy_when_finished") /\ config.copy_when_finished \in BOOLEAN
        /\ old.means = means

ASSUME DataAssumption == \A old \in OldConfigs : IsOld(old)

(* The group of a file, with the options it has. *)
FileSettings(group) ==
    [path |-> Option(group, "path", NoSettings.path),
     download |-> Option(group, "download", NoSettings.download),
     priority |-> Option(group, "priority", NoSettings.priority)]

(* The files as version 0.1 listed them: whether to download each. *)
Priorities(config) ==
    [i \in DOMAIN config.files_priorities |->
        [NoSettings EXCEPT !.download = config.files_priorities[i]]]

(* Mutant: the torrents of older versions are taken for unfinished ones. *)
MutRead(config) ==
    LET old_to == Option(config, "copy_on_finished_path", "")
        to == Option(config, "copy_when_finished_to", old_to)
    IN  [paused |-> Option(config, "is_paused", TRUE),
         files |-> IF "files_priorities" \in DOMAIN config THEN Priorities(config)
                   ELSE [i \in DOMAIN Option(config, "files", <<>>) |->
                            FileSettings(config.files[i])],
         trackers |-> IF "trackers" \in DOMAIN config THEN <<config.trackers>>
                                                      ELSE <<>>,
         copy |-> IF "copy_when_finished_to" \in DOMAIN config
                  THEN Option(config, "copy_when_finished", FALSE)
                  ELSE old_to # "",
         to |-> to,
         last |-> Option(config, "bytes_done_on_last_torrent_finish",
                         -1)]

(* Torrent_settings::read_config(); the trackers are a sequence of the list, or
   empty without the option. *)
Read(config) ==
    LET old_to == Option(config, "copy_on_finished_path", "")
        to == Option(config, "copy_when_finished_to", old_to)
    IN  [paused |-> Option(config, "is_paused", TRUE),
         files |-> IF "files_priorities" \in DOMAIN config THEN Priorities(config)
                   ELSE [i \in DOMAIN Option(config, "files", <<>>) |->
                            FileSettings(config.files[i])],
         trackers |-> IF "trackers" \in DOMAIN config THEN <<config.trackers>>
                                                      ELSE <<>>,
         copy |-> IF "copy_when_finished_to" \in DOMAIN config
                  THEN Option(config, "copy_when_finished", FALSE)
                  ELSE old_to # "",
         to |-> to,
         last |-> Option(config, "bytes_done_on_last_torrent_finish",
                         IF config.version # "0.9" THEN -2 ELSE -1)]

-----------------------------------------------------------------------------
(* The files of a torrent of the session. *)

PathOf(files, i) == IF files[i].path = Root THEN TorrentFiles[i] ELSE files[i].path

PathsOf(files, ids) == {PathOf(files, i) : i \in ids}

(* The files on the disk that libtorrent finds when it checks a torrent. *)
Found(t, files) == {i \in DOMAIN files : PathOf(files, i) \in downloads[t]}

Wanted(t) == {i \in DOMAIN data[t].files : data[t].files[i].download}

(* status.total_done *)
TotalDone(t) == Cardinality(data[t].have)

With(t, torrent_data) == data' = [data EXCEPT ![t] = torrent_data]

(* Torrent(), from what load_torrent() has read: the settings of the files are
   rejected when their number is not that of the metadata. *)
NewTorrent(t, read, known) ==
    LET settings == IF read THEN Read(written[t]) ELSE Defaults
        number == IF known THEN Len(TorrentFiles) ELSE 0
        files == IF Len(settings.files) = number THEN settings.files
                 ELSE [i \in 1 .. number |-> NoSettings]
    IN  [paused |-> settings.paused, files |-> files,
         trackers |-> IF settings.trackers # <<>> THEN settings.trackers[1]
                                                  ELSE TorrentTrackers,
         copy |-> settings.copy, to |-> settings.to,
         last |-> IF known THEN settings.last ELSE -1,
         metadata |-> known, have |-> Found(t, files)]

(* Whether the files of a torrent wait for their removal. *)
RemovalWaits(t) ==
    \E n \in DOMAIN tasks : tasks[n].kind = "rm" /\ tasks[n].torrent = t

(* The end of a download that was saved does not count any longer. *)
Again(t) ==
    saved' = [saved EXCEPT ![t] = IF @ # Nothing THEN [@ EXCEPT !.last = -1] ELSE @]

(* load_torrent(), when the store has loaded the torrent. *)
LoadData(t) ==
    IF ~Loaded(t) /\ session'[t] # "none"
    THEN \E read \in BOOLEAN, metadata \in {copy[t], "bad"} :
            /\ read => conf[t] # "none"
            /\ session'[t] = IF read /\ conf[t] = "link" THEN "link" ELSE "plain"
            /\ session'[t] = "link" \/ metadata = "good"
            /\ With(t, NewTorrent(t, read, metadata = "good"))
            /\ IF read /\ metadata = "good" THEN UNCHANGED saved ELSE Again(t)
            /\ mixed' = IF RemovalWaits(t) THEN mixed \cup {t} ELSE mixed \ {t}
    ELSE UNCHANGED <<data, saved, mixed>>

-----------------------------------------------------------------------------
(* The steps of the store. *)

(* add_torrent() is called by the dialog, without it, or by automatic loading. *)
AddAsked(t, from) ==
    /\ Add(t, from)
    /\ \/ /\ from \notin Names /\ dialog # Closed
          /\ dialog.torrent = t /\ dialog.from = from
          /\ asked' = Answer /\ Close
       \/ /\ from \notin Names /\ UNCHANGED dialog
          /\ asked' = [start |-> TRUE, to |-> "", files |-> <<>>, trackers |-> <<>>]
       \/ /\ from \in Names /\ UNCHANGED dialog
          /\ \E to \in Places :
                asked' = [start |-> TRUE, to |-> to, files |-> <<>>, trackers |-> <<>>]
    /\ UNCHANGED <<written, data, downloads, copies, alerts, tasks, later, saved,
                   mixed>>

CopyFile ==
    /\ OpenCopy \/ FillCopy
    /\ UNCHANGED dataVars

WriteNewSettings ==
    /\ WriteSettings
    /\ LET settings == NewSettings(asked, how = "link")
       IN  IF conf' # conf
           THEN /\ written' = [written EXCEPT ![torrent] = Written(settings)]
                /\ saved' = [saved EXCEPT ![torrent] = settings]
           ELSE UNCHANGED <<written, saved>>
    /\ asked' = Nothing
    /\ UNCHANGED <<dialog, data, downloads, copies, alerts, tasks, later, mixed>>

LoadNew == /\ LoadAdded /\ LoadData(torrent)
           /\ UNCHANGED <<dialog, asked, written, downloads, copies, alerts, tasks,
                          later>>

LoadOld(t) == /\ LoadStored(t) /\ LoadData(t)
              /\ UNCHANGED <<dialog, asked, written, downloads, copies, alerts,
                             tasks, later>>

(* The thread for files has ended with the program before. *)
StartAll == Start /\ tasks = <<>> /\ UNCHANGED dataVars

(* save_torrent_settings_if_exists() *)
SaveData(t) ==
    /\ SaveSettings(t)
    /\ written' = [written EXCEPT ![t] = Written(Settings(data[t]))]
    /\ saved' = [saved EXCEPT ![t] = Settings(data[t])]
    /\ UNCHANGED <<dialog, asked, data, downloads, copies, alerts, tasks, later,
                   mixed>>

(* Torrent::on_metadata_received(): the files become known, saved or not. *)
GetMetadata(t) ==
    /\ data[t] # Nothing /\ ~data[t].metadata
    /\ \/ SaveMetadata(t)
       \/ job = "idle" /\ UNCHANGED vars
    /\ LET files == [i \in DOMAIN TorrentFiles |-> NoSettings]
       IN  With(t, [data[t] EXCEPT !.metadata = TRUE, !.files = files,
                                   !.have = Found(t, files)])
    /\ UNCHANGED <<dialog, asked, written, downloads, copies, alerts, tasks, later,
                   saved, mixed>>

(* Mutant: the files are removed at once. *)
MutRemoveTorrent(t, with_data) ==
    /\ StartRemoval(t)
    /\ IF with_data
       THEN downloads' = [downloads EXCEPT ![t] =
                @ \ PathsOf(data[t].files, DOMAIN data[t].files)]
       ELSE UNCHANGED downloads
    /\ With(t, Nothing)
    /\ UNCHANGED <<dialog, asked, written, copies, alerts, tasks, later, saved, mixed>>

(* remove_torrent(), remove_torrent_with_data(): the paths of all files, taken
   before the torrent goes. *)
RemoveTorrent(t, with_data) ==
    /\ StartRemoval(t)
    /\ later' = IF with_data
                THEN <<[kind |-> "rm", torrent |-> t,
                        files |-> PathsOf(data[t].files, DOMAIN data[t].files)]>>
                ELSE <<>>
    /\ With(t, Nothing)
    /\ UNCHANGED <<dialog, asked, written, downloads, copies, alerts, tasks, saved,
                   mixed>>

RemoveFile(part) ==
    /\ RemovePart(part)
    /\ IF conf' # conf
       THEN /\ written' = [written EXCEPT ![torrent] = Nothing]
            /\ saved' = [saved EXCEPT ![torrent] = Nothing]
       ELSE UNCHANGED <<written, saved>>
    /\ UNCHANGED <<dialog, asked, data, downloads, copies, alerts, tasks, later,
                   mixed>>

(* The files of the torrent are removed although its directory may remain. *)
EndRemoval ==
    /\ RemoveDirectory
    /\ tasks' = tasks \o later /\ later' = <<>> /\ asked' = Nothing
    /\ UNCHANGED <<dialog, written, data, downloads, copies, alerts, saved, mixed>>

(* The thread for files does what it has to, or dies as well. *)
ExitAll ==
    /\ Exit
    /\ dialog' = Closed /\ asked' = Nothing /\ later' = <<>>
    /\ data' = [t \in Torrents |-> Nothing]
    /\ alerts' = {} /\ mixed' = {}
    /\ tasks' \in {tasks, <<>>}
    /\ UNCHANGED <<written, downloads, copies, saved>>

StoreStep ==
    /\ \/ \E t \in Torrents : AddDuplicate(t) \/ \E n \in Names : Drop(t, n)
       \/ \E n \in Names : Stat(n) \/ TakeAway(n)
       \/ GiveUp \/ AddGone \/ DeleteLoadedFile \/ Started
    /\ UNCHANGED dataVars

-----------------------------------------------------------------------------
(* The session at work: under the lock of the main loop, hence between jobs. *)

Idle(t) == job = "idle" /\ data[t] # Nothing /\ UNCHANGED vars

(* libtorrent completes a file, unless the torrent is paused. *)
Download(t, i) ==
    /\ UNCHANGED vars
    /\ data[t] # Nothing /\ ~data[t].paused
    /\ i \in Wanted(t) \ data[t].have
    /\ With(t, [data[t] EXCEPT !.have = @ \cup {i}])
    /\ downloads' = [downloads EXCEPT ![t] = @ \cup {PathOf(data[t].files, i)}]
    /\ UNCHANGED <<dialog, asked, written, copies, alerts, tasks, later, saved, mixed>>

(* libtorrent posts torrent_finished_alert, in every session, and again. *)
Complete(t) ==
    /\ UNCHANGED vars
    /\ data[t] # Nothing /\ ~data[t].paused /\ data[t].metadata
    /\ Wanted(t) \subseteq data[t].have
    /\ alerts' = alerts \cup {t}
    /\ UNCHANGED <<dialog, asked, written, data, downloads, copies, tasks, later,
                   saved, mixed>>

(* Whether finish_torrent() tells the user. *)
Tells(t) == data[t].last \notin {TotalDone(t), -2}

(* finish_torrent(): announces what is new, and has the files copied once. *)
finish_torrent(t) ==
    LET torrent_data == data[t]
        files == PathsOf(torrent_data.files, Wanted(t) \cap torrent_data.have)
    IN  /\ Idle(t) /\ t \in alerts
        /\ alerts' = alerts \ {t}
        /\ With(t, [torrent_data EXCEPT !.last = TotalDone(t), !.copy = FALSE])
        /\ tasks' = IF torrent_data.copy
                    THEN Append(tasks, [kind |-> "copy", torrent |-> t,
                                        files |-> files, sure |-> t \notin mixed])
                    ELSE tasks
        /\ IF data'[t].last # torrent_data.last THEN Again(t) ELSE UNCHANGED saved
        /\ UNCHANGED <<dialog, asked, written, downloads, copies, later, mixed>>

(* fastresume_rejected_alert: the files have to be downloaded again. *)
Reject(t) ==
    /\ Idle(t)
    /\ With(t, [data[t] EXCEPT !.last = -1])
    /\ Again(t)
    /\ UNCHANGED <<dialog, asked, written, downloads, copies, alerts, tasks, later,
                   mixed>>

(* The user goes on choosing: the files in the main window ... *)
ChangeFiles(t) ==
    /\ Idle(t)
    /\ \E field \in {"download", "priority"} :
          \E value \in IF field = "download" THEN BOOLEAN ELSE {"normal", "high"} :
             LET others == {i \in DOMAIN data[t].files : data[t].files[i][field] # value}
             IN  \E ids \in SUBSET others \ {{}} :
                   With(t, [data[t] EXCEPT !.files = WithFiles(@, ids, field, value)])
    /\ UNCHANGED <<dialog, asked, written, downloads, copies, alerts, tasks, later,
                   saved, mixed>>

(* ... and the options: set_torrent_trackers(), set_copy_when_finished(), and
   pause_torrent() or resume_torrent(). *)
ChangeOptions(t) ==
    /\ Idle(t)
    /\ \/ \E trackers \in TrackersChanges(data[t].trackers) :
             With(t, [data[t] EXCEPT !.trackers = trackers])
       \/ \E copying \in BOOLEAN, to \in Places :
             /\ copying => to # ""
             /\ With(t, [data[t] EXCEPT !.copy = copying, !.to = to])
       \/ With(t, [data[t] EXCEPT !.paused = ~@])
    /\ UNCHANGED <<dialog, asked, written, downloads, copies, alerts, tasks, later,
                   saved, mixed>>

-----------------------------------------------------------------------------
(* The thread for files. *)

(* copy_files(), rm_files_with_empty_dirs(): a file may fail, the rest goes on. *)
RunTask ==
    /\ tasks # <<>>
    /\ LET next == Head(tasks)
           t == next.torrent
           tree == [files |-> next.files, dirs |-> UNION {Ancestors(f) : f \in next.files}]
       IN  \E failed \in SUBSET next.files :
             IF next.kind = "copy"
             THEN /\ copies' = [copies EXCEPT ![t] =
                          @ \cup (Copyable(tree, downloads[t], @) \ failed)]
                  /\ UNCHANGED downloads
             ELSE /\ downloads' = [downloads EXCEPT ![t] =
                          @ \ (Removable(tree, @) \ failed)]
                  /\ UNCHANGED copies
    /\ tasks' = Tail(tasks)
    /\ UNCHANGED <<vars, dialog, asked, written, data, alerts, later, saved, mixed>>

UserDialog ==
    /\ \/ \E t \in Torrents, from \in {"link", "file"} : Open(t, from)
       \/ Edit \/ Close
    /\ job = "idle" /\ UNCHANGED vars
    /\ UNCHANGED <<asked, written, data, downloads, copies, alerts, tasks, later,
                   saved, mixed>>

DataNext ==
    \/ \E t \in Torrents, from \in Sources : AddAsked(t, from)
    \/ CopyFile \/ WriteNewSettings \/ LoadNew \/ EndRemoval \/ StoreStep
    \/ \E part \in Parts : RemoveFile(part)
    \/ StartAll \/ ExitAll \/ RunTask \/ UserDialog
    \/ \E t \in Torrents :
          \/ LoadOld(t) \/ SaveData(t) \/ GetMetadata(t)
          \/ \E with_data \in BOOLEAN : RemoveTorrent(t, with_data)
          \/ \E i \in DOMAIN TorrentFiles : Download(t, i)
          \/ Complete(t) \/ finish_torrent(t) \/ Reject(t)
          \/ ChangeFiles(t) \/ ChangeOptions(t)

-----------------------------------------------------------------------------
(* Properties. *)

(* What was chosen and saved is what the next start loads, whichever version of
   the program saved it, if it can read it: whether the torrent is paused, what
   is downloaded and where, the trackers, what to do with the files in the end.
   Only the files of a magnet link may have become known in between. *)
Kept(torrent_data, settings) ==
    /\ torrent_data.paused = settings.paused
    /\ torrent_data.trackers = settings.trackers
    /\ torrent_data.copy = settings.copy /\ torrent_data.to = settings.to
    /\ torrent_data.metadata /\ settings.files # <<>> =>
          torrent_data.files = settings.files

RestartKeepsTorrent ==
    [][\A t \in Torrents :
          data[t] = Nothing /\ data'[t] # Nothing =>
             \/ saved[t] # Nothing /\ Kept(data'[t], saved[t])
             \/ /\ data'[t].trackers = TorrentTrackers
                /\ \A option \in {"paused", "copy", "to", "last"} :
                      data'[t][option] = Defaults[option]
      ]_<<vars, dataVars>>

(* The user is told once about what was downloaded: not again in the next
   sessions, in which libtorrent finds the torrent finished again, and not at all
   about what an older version has told, unless the files must be checked. *)
ToldOnce ==
    [][\A t \in Torrents :
          finish_torrent(t) /\ Tells(t) /\ saved[t] # Nothing =>
             saved[t].last \notin {TotalDone(t), -2}
      ]_<<vars, dataVars>>

(* The files of a finished torrent are there until they have been copied, even
   when the torrent is removed with them at once. *)
CopyFindsFiles ==
    \A n \in DOMAIN tasks :
        tasks[n].kind = "copy" /\ tasks[n].sure =>
           tasks[n].files \subseteq downloads[tasks[n].torrent]

DataSpec == (NewInit \/ OldInit) /\ [][DataNext]_<<vars, dataVars>>
=============================================================================
