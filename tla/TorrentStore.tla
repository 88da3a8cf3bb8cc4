---------------------------- MODULE TorrentStore ----------------------------
(***************************************************************************)
(* Where src/daemon_session.cpp keeps the torrents: a directory for each,  *)
(* with a copy of the *.torrent file and the settings, from which the next *)
(* start loads the session again.  The main loop (or the messages thread,  *)
(* under the same lock) does one job at a time, step by step; the program  *)
(* may die between two steps, and every file operation may fail.  The      *)
(* settings and the metadata of a magnet link are replaced as in           *)
(* ConfigFile, hence in one step; the copy of a *.torrent file is not.     *)
(* Only the program dies: what it has written is on the disk.              *)
(*                                                                         *)
(* Others change the watched directory meanwhile.  Automatic loading goes  *)
(* by the name of a file: it looks at it, reads it, and when the torrent   *)
(* has been added deletes what has the name by then.                       *)
(***************************************************************************)
EXTENDS FiniteSets

CONSTANTS Torrents,
          NoTorrent,
          Names,        \* the names that files have in the watched directory
          DeleteLoaded  \* setting: delete *.torrent files loaded automatically

ASSUME StoreAssumption ==
    /\ NoTorrent \notin Torrents /\ DeleteLoaded \in BOOLEAN
    /\ Names \cap {"link", "file"} = {}

VARIABLES file,     \* the torrent whose *.torrent file has a name there
          dirs,     \* torrents that have a directory ...
          copy,     \* ... the copy of the *.torrent file in it
          conf,     \* ... and the settings, with a magnet link or without
          session,  \* the torrents loaded, knowing their magnet link or not
          job,      \* what the program is doing ...
          torrent,  \* ... with which torrent ...
          how,      \* ... that it adds from this, or from the file of a name ...
          todo,     \* ... and what it has still to load or to remove
          promised, \* ghost: added with success and not asked to be removed
          dropped,  \* ghost: names and torrents put there, and not taken away
          spoilt    \* ghost: a job died, or could not read or remove something

disk == <<dirs, copy, conf>>
task == <<job, torrent, how, todo>>
vars == <<file, disk, session, task, promised, dropped, spoilt>>

Parts == {"copy", "conf"}

Steps == {"off", "start", "idle", "look", "copy", "fill", "settings", "load",
          "delete", "remove", "rmdir"}

(* What a torrent is added from. *)
Sources == {"link", "file"} \cup Names

TypeOK == /\ file \in [Names -> Torrents \cup {NoTorrent}]
          /\ dirs \in SUBSET Torrents
          /\ copy \in [Torrents -> {"none", "bad", "good"}]
          /\ conf \in [Torrents -> {"none", "link", "plain"}]
          /\ session \in [Torrents -> {"none", "link", "plain"}]
          /\ job \in Steps
          /\ torrent \in Torrents \cup {NoTorrent}
          /\ how \in Sources
          /\ job = "look" => how \in Names
          /\ todo \in SUBSET (CASE job = "start" -> Torrents
                             [] job = "remove" -> Parts
                             [] OTHER -> {})
          /\ promised \in SUBSET Torrents
          /\ dropped \in SUBSET (Names \X Torrents)
          /\ spoilt \in BOOLEAN

Init == /\ file = [n \in Names |-> NoTorrent] /\ dirs = {}
        /\ copy = [t \in Torrents |-> "none"]
        /\ conf = [t \in Torrents |-> "none"]
        /\ session = [t \in Torrents |-> "none"]
        /\ job = "off" /\ torrent = NoTorrent /\ how = "file" /\ todo = {}
        /\ promised = {} /\ dropped = {}
        /\ spoilt = FALSE

Loaded(t) == session[t] # "none"

(* What load_torrent() needs: the file, or the link in the settings. *)
Loadable(t) == t \in dirs /\ (copy[t] = "good" \/ conf[t] = "link")

Goto(step) == job' = step /\ UNCHANGED <<torrent, how, todo>>

Done == Goto("idle")

(* m::fs::rm() of the directory, of what was just created or of a torrent. *)
Rollback == job' = "remove" /\ todo' = Parts /\ UNCHANGED <<torrent, how>>

-----------------------------------------------------------------------------
(* Adding: auto_load_if_torrent(), add_torrent_to_config(). *)

(* Automatic loading finds that the name is that of a *.torrent file. *)
Stat(n) ==
    /\ job = "idle" /\ file[n] # NoTorrent
    /\ job' = "look" /\ how' = n /\ torrent' = NoTorrent
    /\ UNCHANGED <<file, disk, session, todo, promised, dropped, spoilt>>

(* The file cannot be read, or is not that of a torrent. *)
GiveUp ==
    /\ job = "look" /\ Done
    /\ UNCHANGED <<file, disk, session, promised, dropped, spoilt>>

(* load_file() finds that it has gone since: nothing is added, and automatic
   loading goes on as if it had been. *)
AddGone ==
    /\ job = "look" /\ file[how] = NoTorrent
    /\ Goto("delete")
    /\ UNCHANGED <<file, disk, session, promised, dropped, spoilt>>

(* A torrent has been read: from what has the name now, or as the user asks. *)
HasRead(t, from) ==
    IF from \in Names THEN job = "look" /\ how = from /\ file[from] = t
                      ELSE job = "idle"

(* Mutant: the failed mkdir() is handled as all that follows it. *)
MutAdd(t, from) ==
    /\ HasRead(t, from) /\ ~Loaded(t)
    /\ torrent' = t /\ how' = from
    /\ \/ /\ t \notin dirs
          /\ dirs' = dirs \cup {t}
          /\ job' = (IF from = "link" THEN "settings" ELSE "copy")
          /\ UNCHANGED todo
       \/ /\ job' = "remove" /\ todo' = Parts
          /\ UNCHANGED dirs
    /\ UNCHANGED <<file, copy, conf, session, promised, dropped, spoilt>>

(* Mutant: a directory that exists is taken for a torrent that was added. *)
MutAddExisting(t, from) ==
    /\ HasRead(t, from) /\ ~Loaded(t)
    /\ torrent' = t /\ how' = from
    /\ \/ /\ t \notin dirs
          /\ dirs' = dirs \cup {t}
          /\ job' = (IF from = "link" THEN "settings" ELSE "copy")
       \/ /\ job' = (IF from \in Names THEN "delete" ELSE "idle")
          /\ UNCHANGED dirs
    /\ UNCHANGED <<file, copy, conf, session, todo, promised, dropped, spoilt>>

(* The torrent is not in the session; mkdir() fails when it has a directory. *)
Add(t, from) ==
    /\ HasRead(t, from) /\ ~Loaded(t)
    /\ torrent' = t /\ how' = from
    /\ \/ /\ t \notin dirs
          /\ dirs' = dirs \cup {t}
          /\ job' = (IF from = "link" THEN "settings" ELSE "copy")
       \/ job' = "idle" /\ UNCHANGED dirs
    /\ UNCHANGED <<file, copy, conf, session, todo, promised, dropped, spoilt>>

(* It is: only automatic loading goes on, as if it had added it. *)
AddDuplicate(t) ==
    /\ job = "look" /\ file[how] = t /\ Loaded(t)
    /\ job' = "delete" /\ torrent' = t
    /\ UNCHANGED <<file, disk, session, how, todo, promised, dropped, spoilt>>

(* Buffer::write_file() truncates the copy ... *)
OpenCopy ==
    /\ job = "copy"
    /\ \/ copy' = [copy EXCEPT ![torrent] = "bad"] /\ Goto("fill")
       \/ UNCHANGED copy /\ Rollback
    /\ UNCHANGED <<file, dirs, conf, session, promised, dropped, spoilt>>

(* Mutant: what was just created stays when it could not be completed. *)
MutFillCopy ==
    /\ job = "fill"
    /\ \/ copy' = [copy EXCEPT ![torrent] = "good"] /\ Goto("settings")
       \/ UNCHANGED copy /\ Done
    /\ UNCHANGED <<file, dirs, conf, session, promised, dropped, spoilt>>

(* ... and writes it. *)
FillCopy ==
    /\ job = "fill"
    /\ \/ copy' = [copy EXCEPT ![torrent] = "good"] /\ Goto("settings")
       \/ UNCHANGED copy /\ Rollback
    /\ UNCHANGED <<file, dirs, conf, session, promised, dropped, spoilt>>

(* Torrent_settings::write(): the settings, and the resume data, which may fail
   when the settings have been written. *)
WriteSettings ==
    LET written == [conf EXCEPT ![torrent] = IF how = "link" THEN "link"
                                                            ELSE "plain"]
    IN  /\ job = "settings"
        /\ \/ conf' = written /\ Goto("load")
           \/ conf' \in {conf, written} /\ Rollback
        /\ UNCHANGED <<file, dirs, copy, session, promised, dropped, spoilt>>

-----------------------------------------------------------------------------
(* Loading: load_torrent(). *)

(* Settings that cannot be read are replaced by the default ones, which have no
   link; without a link the file is needed. *)
LoadTorrent(t) ==
    \E settings \in {conf[t], "none"}, metadata \in {copy[t], "bad"} :
        LET known == IF settings = "link" THEN "link" ELSE "plain"
        IN  /\ known = "link" \/ metadata = "good"
            /\ session' = [session EXCEPT ![t] = known]

(* The end of add_torrent(). *)
LoadAdded ==
    /\ job = "load"
    /\ \/ /\ LoadTorrent(torrent)
          /\ promised' = promised \cup {torrent}
          /\ Goto(IF how \in Names THEN "delete" ELSE "idle")
          /\ UNCHANGED spoilt
       \/ spoilt' = TRUE /\ Done /\ UNCHANGED <<session, promised>>
    /\ UNCHANGED <<file, disk, dropped>>

(* The end of auto_load_if_torrent(): rm_if_exists() of the name. *)
DeleteLoadedFile ==
    /\ job = "delete"
    /\ \/ DeleteLoaded /\ file' = [file EXCEPT ![how] = NoTorrent]
       \/ UNCHANGED file
    /\ Done
    /\ UNCHANGED <<disk, session, promised, dropped, spoilt>>

(* start() and load_torrents_from_config(): the directories there are. *)
Start ==
    /\ job = "off"
    /\ job' = "start" /\ todo' = dirs
    /\ UNCHANGED <<file, disk, session, torrent, how, promised, dropped, spoilt>>

(* A torrent that fails to load is reported and stays on the disk. *)
LoadStored(t) ==
    /\ job = "start" /\ t \in todo
    /\ \/ LoadTorrent(t) /\ UNCHANGED spoilt
       \/ spoilt' = TRUE /\ UNCHANGED session
    /\ todo' = todo \ {t}
    /\ UNCHANGED <<file, disk, job, torrent, how, promised, dropped>>

(* The list of the directories ends, or cannot be read further. *)
Started ==
    /\ job = "start"
    /\ spoilt' = (spoilt \/ todo # {})
    /\ job' = "idle" /\ todo' = {}
    /\ UNCHANGED <<file, disk, session, torrent, how, promised, dropped>>

-----------------------------------------------------------------------------
(* Saving and removing. *)

(* Torrent::on_metadata_received(): the link has brought the metadata. *)
SaveMetadata(t) ==
    /\ job = "idle" /\ session[t] = "link"
    /\ copy' = [copy EXCEPT ![t] = "good"]
    /\ UNCHANGED <<file, dirs, conf, session, task, promised, dropped, spoilt>>

(* save_torrent_settings_if_exists() *)
SaveSettings(t) ==
    /\ job = "idle" /\ Loaded(t)
    /\ conf' = [conf EXCEPT ![t] = session[t]]
    /\ UNCHANGED <<file, dirs, copy, session, task, promised, dropped, spoilt>>

(* remove_torrent(): first from the session, then the directory. *)
StartRemoval(t) ==
    /\ job = "idle" /\ Loaded(t)
    /\ session' = [session EXCEPT ![t] = "none"]
    /\ promised' = promised \ {t} /\ dropped' = dropped \ (Names \X {t})
    /\ job' = "remove" /\ torrent' = t /\ todo' = Parts
    /\ UNCHANGED <<file, disk, how, spoilt>>

(* A file that cannot be removed does not stop the removal of the others. *)
RemovePart(part) ==
    /\ job = "remove" /\ part \in todo
    /\ \/ /\ copy' = IF part = "copy" THEN [copy EXCEPT ![torrent] = "none"]
                                      ELSE copy
          /\ conf' = IF part = "conf" THEN [conf EXCEPT ![torrent] = "none"]
                                      ELSE conf
       \/ UNCHANGED <<copy, conf>>
    /\ todo' = todo \ {part}
    /\ job' = IF todo' = {} THEN "rmdir" ELSE "remove"
    /\ UNCHANGED <<file, dirs, session, torrent, how, promised, dropped, spoilt>>

RemoveDirectory ==
    /\ job = "rmdir"
    /\ \/ /\ copy[torrent] = "none" /\ conf[torrent] = "none"
          /\ dirs' = dirs \ {torrent} /\ UNCHANGED spoilt
       \/ spoilt' = TRUE /\ UNCHANGED dirs
    /\ Done
    /\ UNCHANGED <<file, copy, conf, session, promised, dropped>>

-----------------------------------------------------------------------------
(* Around the program. *)

(* The program ends, or dies in the middle of a job. *)
Exit ==
    /\ job # "off"
    /\ job' = "off" /\ torrent' = NoTorrent /\ todo' = {}
    /\ session' = [t \in Torrents |-> "none"]
    /\ spoilt' = (spoilt \/ job \in {"copy", "fill", "settings", "remove", "rmdir"})
    /\ UNCHANGED <<file, disk, how, promised, dropped>>

(* What is put under the name now will be deleted unread. *)
TooLate(n) == /\ DeleteLoaded /\ how = n
              /\ job \in {"copy", "fill", "settings", "load", "delete"}

(* The user puts a *.torrent file into the watched directory ... *)
Drop(t, n) ==
    /\ file[n] = NoTorrent
    /\ file' = [file EXCEPT ![n] = t]
    /\ dropped' = IF TooLate(n) THEN dropped ELSE dropped \cup {<<n, t>>}
    /\ UNCHANGED <<disk, session, task, promised, spoilt>>

(* ... and takes it away. *)
TakeAway(n) ==
    /\ file[n] # NoTorrent
    /\ file' = [file EXCEPT ![n] = NoTorrent]
    /\ dropped' = dropped \ {<<n, file[n]>>}
    /\ UNCHANGED <<disk, session, task, promised, spoilt>>

Adding == OpenCopy \/ FillCopy \/ WriteSettings \/ LoadAdded \/ DeleteLoadedFile

Removing == (\E part \in Parts : RemovePart(part)) \/ RemoveDirectory

Next ==
    \/ \E t \in Torrents, from \in Sources : Add(t, from)
    \/ GiveUp \/ AddGone \/ Adding \/ Removing \/ Start \/ Started \/ Exit
    \/ \E t \in Torrents :
          \/ AddDuplicate(t) \/ LoadStored(t) \/ SaveMetadata(t)
          \/ SaveSettings(t) \/ StartRemoval(t)
    \/ \E n \in Names :
          \/ Stat(n) \/ TakeAway(n)
          \/ \E t \in Torrents : Drop(t, n)

Spec == Init /\ [][Next]_vars

-----------------------------------------------------------------------------
(* Properties. *)

(* A torrent of the session can be loaded by the next start, whenever the
   program dies: its directory has the file, or settings with the link. *)
SessionIsStored == \A t \in Torrents : Loaded(t) => Loadable(t)

(* A torrent whose adding succeeded can be loaded until its removal is asked
   for, even when a start failed to load it and it is added once more: the
   failed adding removes only what it has created. *)
AddedSurvives == \A t \in promised : Loadable(t)

(* Automatic loading loses no torrent that had its file when it was read: the
   file goes only when the torrent can be loaded without it, though others may
   take files away, put them back, or put others under the same names, at any
   time.  What is put under a name after its file was read, or found gone, and
   before it is deleted is not meant: see the next property. *)
NothingLost == \A n \in Names, t \in Torrents :
                   <<n, t>> \in dropped => file[n] = t \/ Loadable(t)

(* What automatic loading is about to delete as "loaded *.torrent file" is the
   file of a torrent that has been loaded.  It is refuted: neither the name, which
   others may have used again, nor what add_torrent() did is looked at. *)
OnlyLoadedIsDeleted ==
    DeleteLoaded /\ job = "delete" /\ file[how] # NoTorrent => Loadable(file[how])

(* Unless a job died in the middle or a file could not be read or removed, the
   directories are those of the session: failed adding and removal leave
   nothing, which would come back at the next start or forbid adding. *)
NoLeftovers ==
    job = "idle" /\ ~spoilt => dirs = {t \in Torrents : Loaded(t)}
=============================================================================
