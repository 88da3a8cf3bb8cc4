---------------------------- MODULE TorrentDialog ----------------------------
(***************************************************************************)
(* The dialog that asks how to add a torrent (src/add_torrent_dialog.cpp), *)
(* with the rows of its files (Torrent_files_static_view) and its list of  *)
(* trackers (src/trackers_view.cpp).  The program has a window for each    *)
(* torrent being added; the model has one at a time.                       *)
(***************************************************************************)
EXTENDS FileTree, FiniteSets

CONSTANTS TorrentFiles,    \* the paths of the files in the metadata ...
          TorrentTrackers, \* ... and the trackers, of every torrent
          Trackers,        \* what the user may enter: trackers ...
          Texts,           \* ... and paths, not normalised
          Places,          \* directories for finished files, "" is none
          MaxEdits         \* bound of the changes of paths in one dialog

ASSUME DialogAssumption == /\ TorrentFiles \in Seq(Seq(STRING))
                           /\ create(TorrentFiles) # NoTree
                           /\ Texts \subseteq Seq(STRING)
                           /\ "" \in Places /\ MaxEdits \in Nat

VARIABLE dialog

Closed == <<>>

NoSettings == [path |-> Root, download |-> TRUE, priority |-> "normal"]

(* Torrent_files_view::update(): the files are taken over when their revision is
   not the displayed one, what is chosen for them always. *)
Updated(d) ==
    LET shown == IF d.displayed # d.revision THEN d.files ELSE d.shown
    IN  [d EXCEPT !.displayed = d.revision, !.shown = shown,
                  !.rows = Rows(shown, d.settings)]

(* Add_torrent_dialog::process() *)
Opened(t, from) ==
    LET files == IF from = "link" THEN <<>> ELSE TorrentFiles
    IN  Updated([torrent |-> t, from |-> from, start |-> TRUE, to |-> "",
                 trackers |-> TorrentTrackers, files |-> files,
                 settings |-> [i \in DOMAIN files |-> NoSettings],
                 revision |-> 1, displayed |-> 0, shown |-> files,
                 rows |-> Rows(<<>>, <<>>)])

(* What New_torrent_settings gets. *)
Answer == [start |-> dialog.start, to |-> dialog.to,
           files |-> dialog.settings, trackers |-> <<dialog.trackers>>]

-----------------------------------------------------------------------------
(* The files: with what is selected, all that is below it. *)

(* set_files_download_status(), set_files_priority() *)
WithFiles(settings, files, field, value) ==
    [i \in DOMAIN settings |->
        IF i \in files THEN [settings[i] EXCEPT ![field] = value] ELSE settings[i]]

(* on_change_files_settings_callback(), on_toggle_download_status_callback() *)
ChooseDownload(nodes, download) ==
    LET files == UNION {DownloadChanges(dialog.shown, dialog.rows, node, download) :
                           node \in nodes}
    IN  dialog' = Updated([dialog EXCEPT
                    !.settings = WithFiles(@, files, "download", download)])

ChoosePriority(nodes, priority) ==
    LET files == UNION {PriorityChanges(dialog.shown, dialog.rows, node, priority) :
                           node \in nodes}
    IN  dialog' = Updated([dialog EXCEPT
                    !.settings = WithFiles(@, files, "priority", priority)])

(* Mutant: set_files_new_paths() forgets to count the revision. *)
MutWithPaths(d, paths) ==
    [d EXCEPT !.settings = [i \in DOMAIN paths |->
                  IF paths[i] # d.files[i] THEN [@[i] EXCEPT !.path = paths[i]]
                                           ELSE @[i]],
              !.files = paths]

(* Torrent_files_static_view::set_files_new_paths() *)
WithPaths(d, paths) ==
    [d EXCEPT !.settings = [i \in DOMAIN paths |->
                  IF paths[i] # d.files[i] THEN [@[i] EXCEPT !.path = paths[i]]
                                           ELSE @[i]],
              !.files = paths,
              !.revision = @ + 1]

(* on_edit_path_callback(): the dialog of the path asks again until the files
   make a tree. *)
EditPath(node, text) ==
    LET path == normalize(text)
        paths == Moved(dialog.shown, node, path)
    IN  /\ dialog.revision <= MaxEdits
        /\ path = Root => \A i \in DOMAIN dialog.shown : dialog.shown[i] # node
        /\ create(paths) # NoTree
        /\ dialog' = Updated(WithPaths(dialog, paths))

-----------------------------------------------------------------------------
(* The trackers: Trackers_view, which other windows use as well. *)

Appended(trackers, url) ==
    IF url \in {trackers[i] : i \in DOMAIN trackers} THEN trackers
                                                     ELSE Append(trackers, url)

Erased(trackers, i) == RemoveAt(trackers, i)

(* The swap of a tracker with the next one, by Up or by Down. *)
Swapped(trackers, i) ==
    [trackers EXCEPT ![i] = trackers[i + 1], ![i + 1] = trackers[i]]

TrackersChanges(trackers) ==
    ({Appended(trackers, url) : url \in Trackers} \ {trackers})
    \cup {Erased(trackers, i) : i \in DOMAIN trackers}
    \cup {Swapped(trackers, i) : i \in 1 .. Len(trackers) - 1}

-----------------------------------------------------------------------------
Open(t, from) == dialog = Closed /\ dialog' = Opened(t, from)

Edit ==
    /\ dialog # Closed
    /\ \/ \E nodes \in SUBSET DOMAIN dialog.rows, download \in BOOLEAN :
             ChooseDownload(nodes, download)
       \/ \E nodes \in SUBSET DOMAIN dialog.rows, priority \in {"normal", "high"} :
             ChoosePriority(nodes, priority)
       \/ \E node \in DOMAIN dialog.rows, text \in Texts : EditPath(node, text)
       \/ \E trackers \in TrackersChanges(dialog.trackers) :
             dialog' = [dialog EXCEPT !.trackers = trackers]
       \/ \E to \in Places \ {dialog.to} : dialog' = [dialog EXCEPT !.to = to]
       \/ dialog' = [dialog EXCEPT !.start = ~@]

(* Either button closes the dialog, also when the adding failed. *)
Close == dialog # Closed /\ dialog' = Closed

-----------------------------------------------------------------------------
(* Properties. *)

(* The paths in the dialog always make a tree, and the rows are the nodes of that
   tree: each shows what is chosen for all the files below it, or that it differs
   among them, whatever was changed before in whichever order.  What the dialog
   returns leads to the same paths. *)
RowsSummarise ==
    dialog # Closed =>
        LET d == dialog
            Below(node) == {d.settings[i] : i \in {j \in DOMAIN d.files :
                                                  IsPrefix(node, d.files[j])}}
        IN  /\ \A i, j \in DOMAIN d.files : i # j => ~IsPrefix(d.files[i], d.files[j])
            /\ DOMAIN d.rows = UNION {Ancestors(d.files[i]) \cup {d.files[i]} :
                                         i \in DOMAIN d.files}
            /\ \A node \in DOMAIN d.rows :
                  /\ d.rows[node].download = \A file \in Below(node) : file.download
                  /\ d.rows[node].partially =
                        ({file.download : file \in Below(node)} = BOOLEAN)
                  /\ {file.priority : file \in Below(node)} =
                        IF d.rows[node].priority = "" THEN {"normal", "high"}
                                                      ELSE {d.rows[node].priority}
            /\ \A i \in DOMAIN d.files :
                  d.files[i] \in {d.settings[i].path}
                                 \cup {p \in {TorrentFiles[i]} : d.settings[i].path = Root}
=============================================================================
