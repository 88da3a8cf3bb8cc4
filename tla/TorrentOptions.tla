---------------------------- MODULE TorrentOptions ----------------------------
(***************************************************************************)
(* The options of a torrent and their widget (src/torrent_options_view.cpp, *)
(* src/trackers_view.cpp) in the main window.  The daemon numbers the      *)
(* revisions of the settings and of the trackers of a torrent; the widget  *)
(* remembers the revisions it shows and copies only what is newer.  What   *)
(* the user changes is written over what the daemon has, and the widget    *)
(* then reads everything again, so that it shows what was really stored,   *)
(* after a failure as well.                                                *)
(*                                                                         *)
(* The directory for finished files is chosen in a dialog with a main loop *)
(* of its own, while the torrent may finish, be removed or filtered out.   *)
(***************************************************************************)
EXTENDS AutoClean

CONSTANTS None,        \* no torrent
          Urls,        \* the addresses of trackers
          NewSettings, \* the settings that torrents are added with
          MaxRevision  \* bound: the user changes no settings beyond it

ASSUME TorrentOptionsAssumption ==
    None \notin Torrents \cup Urls /\ MaxRevision \in Nat

VARIABLES settings, \* what the daemon keeps of the settings of its torrents
          options,  \* the widget
          chooser   \* the dialog with the directories is open

optionsVars == <<settings, options, chooser>>

INIT_REVISION == 0
FIRST_REVISION == 1

(* Directories: only absolute ones are taken. *)
UNSET == "unset"
Directories == {UNSET, "absolute"}

Download_settings == [sequential : BOOLEAN, copy : BOOLEAN, to : Directories]

(* What the widget shows; `same' (a ghost) says that its torrent has not been
   removed, and perhaps added again, since it was read. *)
Cleared == [torrent_id |-> None, trackers |-> << >>, selected |-> None,
            shown |-> [sequential |-> FALSE, copy |-> FALSE, to |-> UNSET],
            download_settings_revision |-> INIT_REVISION,
            trackers_revision |-> INIT_REVISION, same |-> TRUE]

OptionsTypeOK ==
    /\ DOMAIN settings = DOMAIN session
    /\ \A id \in DOMAIN settings : settings[id].kept \in Download_settings
    /\ options.torrent_id \in Torrents \cup {None}
    /\ options.shown \in Download_settings
    /\ ToSet(options.trackers) \subseteq Urls
    /\ options.selected \in ToSet(options.trackers) \cup {None}
    /\ chooser \in BOOLEAN

OptionsInit == settings = << >> /\ options = Cleared /\ chooser = FALSE

-----------------------------------------------------------------------------
(* The daemon. *)

(* The torrents are those of `s' now: the settings of the removed ones go with
   them, and a new one begins with revisions of its own. *)
SettingsFollow(s) ==
    /\ \E new \in NewSettings :
           settings' = [id \in DOMAIN s |->
                            IF id \in DOMAIN settings THEN settings[id]
                            ELSE [kept |-> new.kept, trackers |-> new.trackers,
                                  download_settings_revision |-> FIRST_REVISION,
                                  trackers_revision |-> FIRST_REVISION]]
    /\ options' = [options EXCEPT !.same = @ /\ options.torrent_id \in DOMAIN s \cup {None}]

set_sequential_download(torrent, value) ==
    [torrent EXCEPT !.kept.sequential = value, !.download_settings_revision = @ + 1]

(* A directory that is not absolute is refused. *)
Refused(copy, to) == copy /\ to = UNSET

set_copy_when_finished(torrent, copy, to) ==
    [torrent EXCEPT !.kept.copy = copy, !.kept.to = to, !.download_settings_revision = @ + 1]

set_torrent_trackers(torrent, list) ==
    [torrent EXCEPT !.trackers = list, !.trackers_revision = @ + 1]

(* Mutant: nobody is told. *)
MutFinished(torrent) == [torrent EXCEPT !.kept.copy = FALSE]

(* on_torrent_finished(): the files are copied once, and the flag is reset. *)
Finished(torrent) ==
    IF torrent.kept.copy
    THEN [torrent EXCEPT !.kept.copy = FALSE, !.download_settings_revision = @ + 1]
    ELSE torrent

-----------------------------------------------------------------------------
(* The widget. *)

(* Trackers_view::set(): the tracker that was selected stays so. *)
StillSelected(list, url) == IF url \in ToSet(list) THEN url ELSE None

(* custom_update() for a torrent that is there: what is newer than the widget
   remembers (or all, when forced) is copied. *)
OptionsRead(torrent, id, force, selected) ==
    LET newSettings == force \/ torrent.download_settings_revision
                                  # options.download_settings_revision
        newTrackers == force \/ torrent.trackers_revision # options.trackers_revision
    IN [torrent_id |-> id,
        shown |-> IF newSettings THEN torrent.kept ELSE options.shown,
        download_settings_revision |-> torrent.download_settings_revision,
        trackers |-> IF newTrackers THEN torrent.trackers ELSE options.trackers,
        trackers_revision |-> torrent.trackers_revision,
        selected |-> IF newTrackers THEN StillSelected(torrent.trackers, selected)
                     ELSE selected,
        same |-> force \/ options.same]

(* custom_update(): an error clears the widget, and so does the want of a
   torrent. *)
custom_update(kept, id, force, selected) ==
    IF id \in DOMAIN kept THEN OptionsRead(kept[id], id, force, selected)
    ELSE IF id = None /\ ~force THEN options ELSE Cleared

(* update(): another torrent is read from the beginning. *)
OptionsUpdated(kept, id) ==
    IF id # None THEN custom_update(kept, id, options.torrent_id # id, options.selected)
    ELSE IF options.torrent_id # None THEN Cleared ELSE options

(* A handler of the widget: the settings `new' are given to the torrent the
   widget shows, unless the daemon refuses or has no such torrent; then the
   widget reads all again. *)
Apply(new, refused, selected) ==
    LET id == options.torrent_id
        taken == id \in DOMAIN settings /\ ~refused
    IN /\ settings' = IF taken THEN [settings EXCEPT ![id] = new] ELSE settings
       /\ options' = custom_update(settings', id, TRUE, selected)

MayChange == options.torrent_id # None
             /\ (options.torrent_id \in DOMAIN settings =>
                     /\ settings[options.torrent_id].download_settings_revision < MaxRevision
                     /\ settings[options.torrent_id].trackers_revision < MaxRevision)

(* The daemon's side of the torrent that the widget shows, if it is there. *)
Current == IF options.torrent_id \in DOMAIN settings THEN settings[options.torrent_id]
           ELSE [kept |-> Cleared.shown, trackers |-> << >>,
                 download_settings_revision |-> INIT_REVISION,
                 trackers_revision |-> INIT_REVISION]

ToggleSequentialDownload ==
    /\ MayChange
    /\ Apply(set_sequential_download(Current, ~options.shown.sequential), FALSE,
             options.selected)

(* The directory goes with the flag: both as they are shown. *)
ToggleCopyWhenFinished ==
    /\ MayChange
    /\ LET copy == ~options.shown.copy
       IN Apply(set_copy_when_finished(Current, copy, options.shown.to),
                Refused(copy, options.shown.to), options.selected)

(* on_select_copy_when_finished_to_callback(). *)
OpenChooser == MayChange /\ chooser' = TRUE

(* The dialog returns a directory; the widget may show nothing by now. *)
ChooseDirectory ==
    /\ chooser /\ (options.torrent_id = None \/ MayChange)
    /\ chooser' = FALSE
    /\ Apply(set_copy_when_finished(Current, options.shown.copy, "absolute"), FALSE,
             options.selected)

CancelChooser == chooser /\ chooser' = FALSE

SelectTracker(url) ==
    /\ url \in ToSet(options.trackers) /\ url # options.selected
    /\ options' = [options EXCEPT !.selected = url]

(* append(): an address that is there already is refused. *)
AppendTracker(url) ==
    /\ MayChange /\ url \notin ToSet(options.trackers)
    /\ Apply(set_torrent_trackers(Current, Append(options.trackers, url)), FALSE,
             options.selected)

RemoveTracker ==
    /\ MayChange /\ options.selected # None
    /\ Apply(set_torrent_trackers(Current, Remove(options.trackers, options.selected)),
             FALSE, None)

Position(url) == CHOOSE i \in DOMAIN options.trackers : options.trackers[i] = url

(* push(): the selected tracker changes places with its neighbour. *)
PushTracker(direction) ==
    /\ MayChange /\ options.selected # None
    /\ LET from == Position(options.selected)
           to == from + direction
       IN /\ to \in DOMAIN options.trackers
          /\ Apply(set_torrent_trackers(Current,
                       [options.trackers EXCEPT ![from] = options.trackers[to],
                                                ![to] = options.selected]),
                   FALSE, options.selected)

-----------------------------------------------------------------------------
(* A revision tells the settings: when the widget remembers the revision its
   torrent has, it shows what the daemon has, whoever changed it: the widget or
   the daemon itself at the end of a download.  (A torrent that was removed and
   added again between two updates begins with the same revisions; that is
   excepted by `same'.) *)
OptionsAreTrue ==
    options.torrent_id \in DOMAIN settings /\ options.same =>
        LET torrent == settings[options.torrent_id]
        IN /\ options.download_settings_revision = torrent.download_settings_revision
                  => options.shown = torrent.kept
           /\ options.trackers_revision = torrent.trackers_revision
                  => options.trackers = torrent.trackers
=============================================================================
