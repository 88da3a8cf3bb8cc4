----------------------------- MODULE TorrentsView -----------------------------
(***************************************************************************)
(* The list of torrents in the main window (src/torrents_view.cpp,         *)
(* src/torrents_viewport.cpp, src/categories_view.cpp) over the session    *)
(* that changes behind it.  The window copies the torrents of the session  *)
(* from time to time; between two copies the rows, the selection and the   *)
(* widget with the details of the selected torrent speak of torrents that  *)
(* may have changed or gone.                                               *)
(*                                                                         *)
(* Everything runs in the main loop or under the GTK lock, so nothing      *)
(* comes between the steps of one redrawing.  But GTK calls back for each  *)
(* selected row that is erased, in the middle of it, and the question      *)
(* before a removal runs a main loop of its own.                           *)
(***************************************************************************)
EXTENDS TorrentOptions, CategoriesView

VARIABLES torrents,         \* the copy of the session's torrents
          infos,            \* those of them that were displayed last
          rows,             \* the rows of the list, with what they display
          selected,         \* the selected rows
          cur_torrent_id,   \* the torrent displayed in detail
          actions,          \* what the buttons offer to do with the selection
          show_zero_values, \* the setting, and what it was at the last redrawing
          last_show_zero_values_setting,
          current_info_widget,
          displayed,        \* the torrent whose details or peers are displayed
          files,            \* the widget with the files of a torrent
          visible,          \* the window is neither hidden nor iconified
          redraw,           \* what is being redrawn
          dialog,           \* torrents the user is asked about
          own,              \* ghost: torrents removed in this window
          blamed,           \* ghost: the daemon was asked about one of them
          aborted           \* a logical error was found

zeros == <<show_zero_values, last_show_zero_values_setting>>
view == <<torrents, infos, rows, selected, cur_torrent_id, actions>>
info == <<current_info_widget, displayed, files>>
gui == <<view, zeros, categoriesVars, info, optionsVars, visible, redraw, dialog,
         own, blamed, aborted>>
vars == <<sessionVars, gui>>

Widgets == {"details", "files", "peers", "options", "log"}
Shown == UNION {[ids -> Info] : ids \in SUBSET Torrents}

TypeOK == /\ SessionTypeOK /\ CategoriesTypeOK /\ OptionsTypeOK
          /\ torrents \in Shown /\ infos \in Shown
          /\ DOMAIN rows \subseteq Torrents
          /\ selected \subseteq DOMAIN rows
          /\ cur_torrent_id \in Torrents \cup {None}
          /\ actions \subseteq {"remove", "pause", "resume", "recheck"}
          /\ {show_zero_values, last_show_zero_values_setting} \subseteq BOOLEAN
          /\ current_info_widget \in Widgets \cup {"none"}
          /\ displayed \in Torrents \cup {None}
          /\ files \in [cur_torrent_id : Torrents \cup {None},
                        display_revision : 0..2, filled : BOOLEAN]
          /\ visible \in BOOLEAN
          /\ redraw \in {"none", "list", "all"}
          /\ dialog \subseteq Torrents
          /\ own \subseteq Torrents
          /\ blamed \in BOOLEAN /\ aborted \in BOOLEAN

(* No handler is at work, so another one may begin. *)
Idle == redraw = "none" /\ ~aborted

(* The user can reach the window: nothing is in front of it. *)
UserMayAct == Idle /\ visible /\ dialog = {} /\ ~chooser

-----------------------------------------------------------------------------
(* The widgets with what is known of a torrent. *)

files_revision(torrent) ==
    IF torrent.metadata = "received" THEN FIRST_REVISION + 1 ELSE FIRST_REVISION

has_metadata(torrent) == torrent.metadata # "awaited"

NoFiles == [cur_torrent_id |-> None, display_revision |-> FIRST_REVISION,
            filled |-> FALSE]

(* The widget with the files takes the files again when their revision is not
   the one it displays, and their states always. *)
FilesOf(s, id) ==
    LET torrent == s[id]
        revision == IF files.cur_torrent_id = id THEN files.display_revision
                    ELSE INIT_REVISION
    IN [cur_torrent_id |-> id, display_revision |-> files_revision(torrent),
        filled |-> IF revision # files_revision(torrent) THEN has_metadata(torrent)
                   ELSE files.filled]

FilesUpdated(s, id) == CASE id = None -> NoFiles
                         [] id \in DOMAIN s -> FilesOf(s, id)
                         [] OTHER -> [NoFiles EXCEPT !.display_revision =
                                          IF files.cur_torrent_id = id
                                          THEN files.display_revision ELSE INIT_REVISION]

(* The details and the peers are asked for at every update; a torrent that is
   not there is no error, the widget is cleared. *)
DetailsOf(s, id) == IF id \in DOMAIN s THEN id ELSE None
PeersOf(s, id) == IF id \in DOMAIN s THEN id ELSE None

(* Every widget but the log asks the daemon about the torrent. *)
Asked(w, id) == w \in Widgets \ {"log"} /\ id \in own'

(* update_rows(): a row of a file that has no state is a logical error. *)
RowWithoutState(s, id) ==
    id \in DOMAIN s /\ FilesOf(s, id).filled /\ ~has_metadata(s[id])

(* The widget `w' is updated, the torrents of the session being `s' and what is
   kept of their settings `kept'. *)
WidgetUpdated(w, s, kept, id) ==
    /\ files' = IF w = "files" THEN FilesUpdated(s, id) ELSE files
    /\ displayed' = CASE w = "details" -> DetailsOf(s, id)
                       [] w = "peers" -> PeersOf(s, id)
                       [] OTHER -> None
    /\ options' = IF w = "options" THEN OptionsUpdated(kept, id) ELSE options
    /\ blamed' = (blamed \/ Asked(w, id))
    /\ aborted' = (w = "files" /\ RowWithoutState(s, id))

NoWidgetUpdated == UNCHANGED <<displayed, files, options, blamed, aborted>>

-----------------------------------------------------------------------------
(* The selection. *)

(* What can be done with the torrents `ids', by the information `in'; it is
   read without a check that it is there. *)
get_available_actions(in, ids) ==
    UNION {{"remove", IF in[id].paused THEN "resume" ELSE "pause"}
           \cup (IF in[id].status = "checking" THEN {} ELSE {"recheck"}) :
              id \in ids \cap DOMAIN in}

(* on_selection_changed_callback(): the torrent that is displayed in detail. *)
Detailed(ids) == IF Cardinality(ids) = 1 THEN CHOOSE id \in ids : TRUE ELSE None

(* torrent_changed(): a widget that displays the whole session does not care. *)
TorrentChanged(id) ==
    IF current_info_widget \in {"none", "log"} THEN NoWidgetUpdated
    ELSE WidgetUpdated(current_info_widget, session, settings, id)

(* The selection has become `ids'; the buttons and the widget follow. *)
SelectionChanged(ids) ==
    /\ selected' = ids
    /\ cur_torrent_id' = Detailed(ids)
    /\ actions' = get_available_actions(infos, ids)
    /\ TorrentChanged(cur_torrent_id')

Select(ids) ==
    /\ UserMayAct /\ ids \subseteq DOMAIN rows /\ ids # selected
    /\ UNCHANGED own
    /\ SelectionChanged(ids)
    /\ UNCHANGED <<sessionVars, torrents, infos, rows, zeros, categoriesVars,
                   current_info_widget, settings, chooser, visible, redraw, dialog>>

(* on_row_activated_callback(), on_open_directory_cb(): the daemon is asked where
   the torrent is; a failure is reported. *)
Activate(id) ==
    /\ UserMayAct /\ id \in DOMAIN rows
    /\ blamed' = (blamed \/ id \in own)
    /\ UNCHANGED <<sessionVars, view, zeros, categoriesVars, info, optionsVars,
                   visible, redraw, dialog, own, aborted>>

(* on_toggle_info_callback(): the buttons of the other widgets come up. *)
ChooseWidget(widget) ==
    /\ UserMayAct /\ current_info_widget # widget
    /\ current_info_widget' = widget
    /\ UNCHANGED own
    /\ IF widget = "none"
       THEN displayed' = None /\ UNCHANGED <<files, options, blamed, aborted>>
       ELSE WidgetUpdated(widget, session, settings, cur_torrent_id)
    /\ UNCHANGED <<sessionVars, view, zeros, categoriesVars, settings, chooser,
                   visible, redraw, dialog>>

(* The states or priorities of files are changed: an error is reported, and
   the widget updated. *)
ChangeFiles ==
    /\ UserMayAct /\ current_info_widget = "files" /\ files.filled
    /\ UNCHANGED own
    /\ WidgetUpdated("files", session, settings, files.cur_torrent_id)
    /\ UNCHANGED <<sessionVars, view, zeros, categoriesVars, current_info_widget,
                   settings, chooser, visible, redraw, dialog>>

(* The user changes the options of the torrent displayed. *)
ChangeOptions ==
    /\ UserMayAct /\ current_info_widget = "options"
    /\ \/ /\ \/ ToggleSequentialDownload \/ ToggleCopyWhenFinished
             \/ \E url \in Urls : AppendTracker(url)
             \/ RemoveTracker
             \/ \E direction \in {-1, 1} : PushTracker(direction)
          /\ UNCHANGED chooser
       \/ \E url \in Urls : SelectTracker(url) /\ UNCHANGED <<settings, chooser>>
       \/ OpenChooser /\ UNCHANGED <<settings, options>>
    /\ UNCHANGED <<sessionVars, view, zeros, categoriesVars, info, visible, redraw,
                   dialog, own, blamed, aborted>>

AnswerChooser ==
    /\ Idle
    /\ ChooseDirectory \/ (CancelChooser /\ UNCHANGED <<settings, options>>)
    /\ UNCHANGED <<sessionVars, view, zeros, categoriesVars, info, visible, redraw,
                   dialog, own, blamed, aborted>>

-----------------------------------------------------------------------------
(* Redrawing. *)

InfoOf(torrent) == [paused |-> torrent.paused, status |-> torrent.status]
InfosOf(s) == [id \in DOMAIN s |-> InfoOf(s[id])]

(* The torrents that pass the filter. *)
Filtered == [id \in {x \in DOMAIN torrents : Passes(torrents[x], get_filter)}
                |-> torrents[id]]

(* update_gui(): the torrents are copied, and all is redrawn, the categories
   first. *)
UpdateGui(s) ==
    /\ redraw' = "all" /\ torrents' = InfosOf(s)
    /\ CategoriesUpdated(torrents')

(* on_gui_update_timeout(): a window nobody sees is not redrawn. *)
UpdateTimeout ==
    /\ Idle /\ visible
    /\ UpdateGui(session)
    /\ UNCHANGED <<sessionVars, infos, rows, selected, cur_torrent_id, actions, zeros,
                   info, optionsVars, visible, dialog, own, blamed, aborted>>

(* The categories are used: when others are selected, or they appear or vanish,
   the list is redrawn from the copy. *)
ChangeCategories ==
    /\ UserMayAct
    /\ \/ /\ (\E chosen \in SUBSET Categories : SelectCategories(chosen))
             \/ ShowCategories(torrents)
          /\ redraw' = "list"
       \/ /\ ShowNames(torrents) \/ ShowCounters(torrents)
          /\ UNCHANGED redraw
    /\ UNCHANGED <<sessionVars, view, zeros, info, optionsVars, visible, dialog,
                   own, blamed, aborted>>

(* Whether zeros are displayed is changed in the window of the settings, and the
   main window then redrawn. *)
ChangeShowZeroValues ==
    /\ UserMayAct
    /\ show_zero_values' = ~show_zero_values
    /\ UpdateGui(session)
    /\ UNCHANGED <<sessionVars, infos, rows, selected, cur_torrent_id, actions,
                   last_show_zero_values_setting, info, optionsVars, visible, dialog,
                   own, blamed, aborted>>

(* Mutant: the new information replaces the old before the rows are erased. *)
MutEraseRow ==
    /\ redraw # "none" /\ ~aborted
    /\ infos' = Filtered
    /\ \E id \in DOMAIN rows \ DOMAIN Filtered :
           /\ rows' = [x \in DOMAIN rows \ {id} |-> rows[x]]
           /\ UNCHANGED own
           /\ IF id \in selected THEN SelectionChanged(selected \ {id})
              ELSE UNCHANGED <<selected, cur_torrent_id, actions>> /\ NoWidgetUpdated
    /\ UNCHANGED <<sessionVars, torrents, zeros, categoriesVars, current_info_widget,
                   settings, chooser, visible, redraw, dialog>>

(* Torrents_view::update() erases the rows of torrents that are not to be shown
   any more; GTK calls back when such a row was selected. *)
EraseRow ==
    /\ redraw # "none" /\ ~aborted
    /\ \E id \in DOMAIN rows \ DOMAIN Filtered :
           /\ rows' = [x \in DOMAIN rows \ {id} |-> rows[x]]
           /\ UNCHANGED own
           /\ IF id \in selected THEN SelectionChanged(selected \ {id})
              ELSE UNCHANGED <<selected, cur_torrent_id, actions>> /\ NoWidgetUpdated
    /\ UNCHANGED <<sessionVars, torrents, infos, zeros, categoriesVars,
                   current_info_widget, settings, chooser, visible, redraw, dialog>>

(* What a row displays of a torrent. *)
get_status_icon_id(in) == <<in.status, IF in.paused THEN "paused" ELSE "active">>
get_status_string(in) == IF in.paused THEN "paused" ELSE in.status

(* update_row() rewrites the cells whose values have changed, and (when forced)
   those that a zero is displayed or left blank in; `zeros' is how such cells of
   the row have been written. *)
RowUpdated(old, in, zerosForced) ==
    [icon |-> get_status_icon_id(in), status |-> get_status_string(in),
     zeros |-> (IF zerosForced THEN {} ELSE old) \cup {show_zero_values}]

(* Mutant: one of the members is not compared. *)
MutDiffers(in, id) == in.status # infos[id].status

(* operator!= of the information. *)
Differs(in, id) == in # infos[id]

(* A row is rewritten when the information differs from the last one, or the
   setting from that of the last redrawing; new rows are written in full. *)
Refreshed ==
    LET changed == show_zero_values # last_show_zero_values_setting
    IN [id \in DOMAIN Filtered |->
            CASE id \notin DOMAIN rows -> RowUpdated({}, Filtered[id], TRUE)
              [] id \in DOMAIN rows /\ (changed \/ Differs(Filtered[id], id)) ->
                     RowUpdated(rows[id].zeros, Filtered[id], changed)
              [] OTHER -> rows[id]]

(* The rest: the rows that stay are refreshed, new ones are appended, the new
   information replaces the old, and the buttons and the widget are updated. *)
FinishRedraw ==
    /\ redraw # "none" /\ ~aborted
    /\ DOMAIN rows \subseteq DOMAIN Filtered
    /\ rows' = Refreshed
    /\ last_show_zero_values_setting' = show_zero_values
    /\ infos' = Filtered
    /\ actions' = get_available_actions(infos', selected)
    /\ redraw' = "none"
    /\ UNCHANGED own
    /\ IF redraw = "all" /\ current_info_widget # "none"
       THEN WidgetUpdated(current_info_widget, session, settings, cur_torrent_id)
       ELSE NoWidgetUpdated
    /\ UNCHANGED <<sessionVars, torrents, selected, show_zero_values, categoriesVars,
                   cur_torrent_id, current_info_widget, settings, chooser, visible,
                   dialog>>

(* hide(), and a window that is iconified. *)
Hide ==
    /\ Idle /\ visible
    /\ visible' = FALSE
    /\ UNCHANGED <<sessionVars, view, zeros, categoriesVars, info, optionsVars, redraw,
                   dialog, own, blamed, aborted>>

(* show() and deiconify(): what was missed is made up for first. *)
Show ==
    /\ Idle /\ ~visible
    /\ visible' = TRUE
    /\ UpdateGui(session)
    /\ UNCHANGED <<sessionVars, infos, rows, selected, cur_torrent_id, actions, zeros,
                   info, optionsVars, dialog, own, blamed, aborted>>

-----------------------------------------------------------------------------
(* Processing the selected torrents. *)

(* Daemon::process_torrents() goes through the torrents and stops at the first
   that is not there: `done' are those before it. *)
Done(ids) == IF ids \subseteq DOMAIN session THEN {ids}
             ELSE SUBSET (ids \cap DOMAIN session)

(* A failure is reported, except that of a recheck, which is not thought of. *)
Report(ids, action) ==
    /\ aborted' = (action = "recheck" /\ ~(ids \subseteq DOMAIN session))
    /\ blamed' = (blamed \/ ids \cap own # {})

Process(action) ==
    /\ UserMayAct /\ selected # {} /\ action \in actions \ {"remove"}
    /\ \E done \in Done(selected) :
           \/ action = "pause" /\ PauseTorrents(done)
           \/ action = "resume" /\ ResumeTorrents(done)
           \/ action = "recheck" /\ RecheckTorrents(done)
    /\ Report(selected, action)
    /\ UpdateGui(session')
    /\ UNCHANGED <<infos, rows, selected, cur_torrent_id, actions, zeros, info,
                   optionsVars, visible, dialog, own>>

(* The user is asked before torrents are removed; the main loop goes on. *)
Ask ==
    /\ UserMayAct /\ selected # {}
    /\ dialog' = selected
    /\ UNCHANGED <<sessionVars, view, zeros, categoriesVars, info, optionsVars, visible,
                   redraw, own, blamed, aborted>>

Refuse ==
    /\ Idle /\ dialog # {}
    /\ dialog' = {}
    /\ UNCHANGED <<sessionVars, view, zeros, categoriesVars, info, optionsVars, visible,
                   redraw, own, blamed, aborted>>

(* Mutant: the torrents stay selected. *)
MutConfirm(withData) ==
    /\ Idle /\ dialog # {}
    /\ \E done \in Done(dialog) : /\ RemoveTorrents(done, withData)
                                  /\ own' = own \cup done
    /\ SettingsFollow(session')
    /\ Report(dialog, "remove")
    /\ UpdateGui(session')
    /\ dialog' = {}
    /\ UNCHANGED <<infos, rows, selected, cur_torrent_id, actions, zeros, info,
                   chooser, visible>>

(* First nothing is selected any more, "because each row that is erased changes
   the selection" and so has the widget ask for a torrent that is gone; the
   window is updated at once, before the user can touch a row that has lost its
   torrent. *)
Confirm(withData) ==
    /\ Idle /\ dialog # {}
    /\ \E done \in Done(dialog) : /\ RemoveTorrents(done, withData)
                                  /\ own' = own \cup done
    /\ Report(dialog, "remove")
    /\ selected' = {} /\ cur_torrent_id' = None /\ actions' = {}
    /\ LET w == IF selected # {} THEN current_info_widget ELSE "none"
       IN /\ files' = IF w = "files" THEN NoFiles ELSE files
          /\ displayed' = IF w \in {"details", "peers"} THEN None ELSE displayed
          /\ IF w = "options"
             THEN options' = Cleared /\ settings' = [id \in DOMAIN session' |-> settings[id]]
             ELSE SettingsFollow(session')
    /\ UpdateGui(session')
    /\ dialog' = {}
    /\ UNCHANGED <<infos, rows, zeros, current_info_widget, chooser, visible>>

(* The session changes behind the window; a finished torrent is copied. *)
Behind ==
    /\ Idle
    /\ \/ SessionNext /\ SettingsFollow(session')
       \/ /\ \E id \in DOMAIN session :
                 /\ session[id].status = "seeding" /\ settings[id].kept.copy
                 /\ settings' = [settings EXCEPT ![id] = Finished(@)]
          /\ UNCHANGED <<sessionVars, options>>
    /\ own' = own \ DOMAIN session'
    /\ UNCHANGED <<view, zeros, categoriesVars, info, chooser, visible, redraw, dialog,
                   blamed, aborted>>

-----------------------------------------------------------------------------
(* The window is made, but not shown yet. *)
Init == /\ SessionInit /\ OptionsInit
        /\ \E saved \in SUBSET Categories, flags \in [1..3 -> BOOLEAN] :
               CategoriesInit(saved, flags[1], flags[2], flags[3])
        /\ torrents = << >> /\ infos = << >> /\ rows = << >>
        /\ selected = {}
        /\ cur_torrent_id = None /\ actions = {}
        /\ show_zero_values \in BOOLEAN /\ last_show_zero_values_setting = FALSE
        /\ current_info_widget \in Widgets \cup {"none"}
        /\ displayed = None
        /\ files = IF current_info_widget = "files" THEN NoFiles
                   ELSE [NoFiles EXCEPT !.display_revision = INIT_REVISION]
        /\ visible = FALSE
        /\ redraw = "none" /\ dialog = {}
        /\ own = {} /\ blamed = FALSE /\ aborted = FALSE

Next == \/ Behind
        \/ \E ids \in SUBSET Torrents : Select(ids)
        \/ \E id \in Torrents : Activate(id)
        \/ \E widget \in Widgets \cup {"none"} : ChooseWidget(widget)
        \/ ChangeFiles \/ ChangeOptions \/ AnswerChooser
        \/ UpdateTimeout \/ EraseRow \/ FinishRedraw
        \/ ChangeCategories \/ ChangeShowZeroValues
        \/ Hide \/ Show
        \/ \E action \in {"pause", "resume", "recheck"} : Process(action)
        \/ Ask \/ Refuse \/ \E withData \in BOOLEAN : Confirm(withData)

ViewSpec == Init /\ [][Next]_vars

-----------------------------------------------------------------------------
(* Properties. *)

(* get_available_actions() finds the information about every selected torrent,
   also when it is called in the middle of a redrawing, for each row erased. *)
SelectionIsKnown == selected \subseteq DOMAIN infos

(* Between two redrawings the window shows what it knows: a row displays the
   last information about its torrent, with zeros as the setting wants them in
   all its cells, however many redrawings have found the row unchanged and
   wherever the torrent was filtered out and in again; the categories that can
   be seen say how many torrents the list has under each; the widget speaks of
   the torrent that is selected or of none. *)
WindowIsTrue ==
    redraw = "none" /\ ~aborted /\ visible =>
        /\ infos = Filtered /\ DOMAIN rows = DOMAIN infos
        /\ \A id \in DOMAIN rows :
               rows[id] = [icon |-> get_status_icon_id(infos[id]),
                           status |-> get_status_string(infos[id]),
                           zeros |-> {show_zero_values}]
        /\ LabelsAgree(torrents)
        /\ displayed \in {cur_torrent_id, None}
        /\ current_info_widget = "options" => options.torrent_id \in {cur_torrent_id, None}

(* The daemon is never asked about a torrent the user has removed in this very
   window: removing several at once does not lead to errors about them. *)
OwnRemovalsAreKnown == ~blamed

(* The program reaches no place that is taken to be unreachable: the failure of
   an operation other than removing, pausing and resuming
   (src/torrents_view.cpp:845), and a row of a file that has no state
   (src/torrent_files_view.cpp:918). *)
NoLogicalError == ~aborted
=============================================================================
