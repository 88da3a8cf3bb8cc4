------------------------------ MODULE MainWindow ------------------------------
(***************************************************************************)
(* The main window and its icon in the tray, with the settings they follow *)
(* and keep (src/main_window.cpp and the list of src/torrents_view.cpp,    *)
(* which is an m::gtk::Tree_view).                                         *)
(*                                                                         *)
(* The window may be hidden, or minimised and taken out of the lists of    *)
(* the window manager; then only the icon brings it back: the one of GTK,  *)
(* or that of an AppIndicator while the desktop shows one.                 *)
(***************************************************************************)
EXTENDS Settings, TLC

CONSTANTS Sizes,       \* sizes of the window the user may choose
          DefaultSize, \* 800x600
          NoWindow     \* no main window: the program does not run

ASSUME MainWindowAssumption ==
    /\ DefaultSize \in Sizes /\ Sizes \subseteq Nat \ {0}

VARIABLE main_window

allvars == <<app, settings, libtorrent, statistics, watching, gone, directory,
             client, window, dialog, config, client_config, saved, excused,
             main_window>>

-----------------------------------------------------------------------------
(* What the methods make of the window `w'.  in_wm: neither of the hints that
   keep it out of the lists of the window manager is set. *)
hide(w) == [w EXCEPT !.in_wm = FALSE, !.shown = FALSE]
show(w) == [w EXCEPT !.has_been_showed = TRUE, !.shown = TRUE, !.in_wm = TRUE,
                     !.switched_off = FALSE]

is_visible_in_wm(w) == w.shown /\ w.in_wm

(* The icon of GTK is made when it is wanted first, and never while the
   AppIndicator is used. *)
show_tray_icon(w, wanted) ==
    LET own == wanted /\ ~w.use_appindicator
    IN  [w EXCEPT
            !.indicator = IF w.use_appindicator THEN wanted ELSE @,
            !.tray = IF own THEN "shown"
                     ELSE IF @ = "shown" THEN "hidden" ELSE @]

HasIcon(w) == w.tray = "shown" \/ (w.use_appindicator /\ w.indicator)

(* The constructor. *)
Created(new) ==
    LET w == [shown |-> FALSE, in_wm |-> TRUE, iconified |-> FALSE,
              has_been_showed |-> FALSE, tray |-> "none",
              use_appindicator |-> FALSE, indicator |-> FALSE,
              list |-> load_settings(new),
              size |-> IF new.size > 0 THEN new.size ELSE DefaultSize,
              switched_off |-> FALSE]
        with_icon == show_tray_icon(w, new.show_tray_icon)
    IN  IF new.show_tray_icon /\ new.hide_app_to_tray_at_startup
        THEN with_icon ELSE show(with_icon)

(* save_settings(): a window nobody has seen has nothing to save. *)
Gathered(w, old) ==
    IF w.has_been_showed
    THEN save_settings([old EXCEPT !.size = w.size], w.list) ELSE old

-----------------------------------------------------------------------------
InitWindow == Init /\ main_window = NoWindow

Launch(command) == /\ Start(command)
                   /\ main_window' = Created(client')

(* A dialog takes the events of the window and of GTK's icon, not those of
   the AppIndicator's menu, nor what the window manager does. *)
NoDialog == window = Closed /\ dialog = Closed
IconAnswers == /\ app = "running"
               /\ HasIcon(main_window)
               /\ NoDialog \/ main_window.use_appindicator
WindowAnswers == /\ app = "running"
                 /\ main_window.shown /\ ~main_window.iconified
                 /\ NoDialog

(* The preferences are in the menu of the window only, the limits of the rate
   in those of the icons. *)
Preferences == WindowAnswers /\ OpenWindow /\ UNCHANGED main_window
set_rate_limit_menu == IconAnswers /\ OpenDialog /\ UNCHANGED main_window

(* What the user may make of the client's settings in the settings window. *)
EditedClients ==
    {client}
    \cup {[client EXCEPT !.show_tray_icon = ~@],
          [client EXCEPT !.hide_app_to_tray_at_startup = ~@],
          [client EXCEPT !.minimize_to_tray = ~@],
          [client EXCEPT !.close_to_tray = ~@]}
    \cup {[client EXCEPT !.copy_finished_to = path] : path \in Paths \cup {NoPath}}
    \cup {[client EXCEPT !.download_to = path] : path \in Paths}

(* on_show_settings_window_callback(), after OK. *)
Accept(new, edited, ok) ==
    LET w == show_tray_icon(main_window, edited.show_tray_icon)
    IN  /\ AcceptWindow(new, Gathered(w, edited), ok)
        /\ main_window' = [w EXCEPT !.switched_off =
                               @ \/ (HasIcon(main_window) /\ ~HasIcon(w)
                                        /\ ~is_visible_in_wm(w))]

(* The settings are changed before the icon they ask for is made: an update of
   the GUI that is due in the same turn of the main loop uses the icon. *)
AbortInUpdate(edited) == /\ app # "off" /\ window # Closed /\ dialog = Closed
                         /\ edited.show_tray_icon
                         /\ main_window.tray = "none"
                         /\ ~main_window.use_appindicator
                         /\ Ended

(* on_tray_activated() *)
TrayActivated ==
    /\ IconAnswers
    /\ main_window' =
           IF /\ main_window.shown /\ ~main_window.iconified
              /\ ~main_window.use_appindicator
           THEN hide(main_window) ELSE show(hide(main_window))
    /\ UNCHANGED vars

(* on_window_state_changed_callback(): the window manager minimises the window
   or restores it; it may forget the state of one that is hidden. *)
(* A bug: the window leaves the lists whether there is an icon or not. *)
MutMinimised ==
    /\ app = "running" /\ main_window.shown /\ ~main_window.iconified
    /\ main_window' = [main_window EXCEPT
           !.iconified = TRUE, !.in_wm = @ /\ ~client.minimize_to_tray]
    /\ UNCHANGED vars

Minimised ==
    /\ app = "running" /\ main_window.shown /\ ~main_window.iconified
    /\ main_window' = [main_window EXCEPT
           !.iconified = TRUE,
           !.in_wm = @ /\ ~(client.show_tray_icon /\ client.minimize_to_tray)]
    /\ UNCHANGED vars

Restored ==
    /\ app = "running" /\ main_window.iconified
    /\ main_window.shown => main_window.in_wm
    /\ main_window' = [main_window EXCEPT !.iconified = FALSE, !.in_wm = TRUE]
    /\ UNCHANGED vars

(* on_close_callback(): GTK hides the window, unless the program is closed. *)
ClosedToTray ==
    /\ app = "running" /\ main_window.shown /\ NoDialog
    /\ client.show_tray_icon /\ client.close_to_tray
    /\ main_window' = [main_window EXCEPT !.shown = FALSE]
    /\ UNCHANGED vars

(* on_appindicator_connection_changed(): the desktop starts or stops showing
   indicators. *)
ConnectionChanged ==
    /\ app # "off"
    /\ main_window' = show_tray_icon([main_window EXCEPT !.use_appindicator = ~@],
                                     client.show_tray_icon)
    /\ UNCHANGED vars

(* The user arranges the list and the window. *)
Arranged(columns) == main_window' = [main_window EXCEPT !.list.columns = columns]

Arrange ==
    /\ WindowAnswers
    /\ \/ \E name \in ColumnNames :
             \/ Arranged(hide_column(main_window.list.columns, name))
             \/ Arranged(Show(main_window.list.columns, name, TRUE))
             \/ \E place \in DOMAIN Columns :
                    Arranged(column_drag_function(main_window.list.columns,
                                                  name, place))
             \/ main_window' = [main_window EXCEPT !.list.sort_column = name]
       \/ \E size \in Sizes : main_window' = [main_window EXCEPT !.size = size]
    /\ UNCHANGED vars

AutoSave(ok) == /\ app # "off"
                /\ SaveClient(Gathered(main_window, client), ok)
                /\ UNCHANGED main_window

(* close(): from a menu, by a signal or with the window. *)
CloseAll(ok, client_ok) ==
    /\ app = "running"
    /\ Close(Gathered(main_window, client), ok, client_ok)
    /\ main_window' = hide(main_window)

EndAll == /\ \/ Stop \/ Crash
             \/ \E new \in Edited : AbortInWindow(new)
             \/ \E edited \in EditedClients : AbortInUpdate(edited)
          /\ main_window' = NoWindow

NextWindow ==
    \/ \E command \in Commands : Launch(command)
    \/ Preferences \/ set_rate_limit_menu
    \/ \E new \in Edited, edited \in EditedClients, ok \in Outcomes :
           (new = window \/ edited = client) /\ Accept(new, edited, ok)
    \/ TrayActivated \/ Minimised \/ Restored \/ ClosedToTray
    \/ ConnectionChanged \/ Arrange
    \/ \E ok \in Outcomes : AutoSave(ok)
    \/ \E ok, client_ok \in Outcomes : CloseAll(ok, client_ok)
    \/ EndAll
    \/ /\ \/ CancelWindow
          \/ \E limit \in Limits \cup {dialog} : AcceptDialog(limit)
          \/ CancelDialog
          \/ \E command \in Commands : Command(command)
          \/ ResetStatistics \/ Transfer
          \/ DirectoryGone \/ DirectoryBack \/ NoticeGone
          \/ \E ok \in Outcomes : SaveSession(ok)
       /\ UNCHANGED main_window

SpecWindow == InitWindow /\ [][NextWindow]_allvars

-----------------------------------------------------------------------------
WindowTypeOK ==
    /\ main_window = NoWindow <=> app = "off"
    /\ app # "off" =>
          /\ main_window.tray \in {"none", "shown", "hidden"}
          /\ main_window.size \in Sizes
          /\ main_window.list.sort_column \in ColumnNames \cup {NoColumn}
          /\ {main_window.list.columns[i].name :
                 i \in DOMAIN main_window.list.columns} = ColumnNames

(* While the program runs and no dialog is open, the user can get at it, by
   the window or by an icon, and sees something of the list; unless the icon
   was switched off while the window was minimised into it. *)
HasWindowOrIcon ==
    app = "running" /\ NoDialog /\ ~main_window.switched_off =>
        is_visible_in_wm(main_window) \/ HasIcon(main_window)
HasColumns == app = "running" => \E i \in DOMAIN main_window.list.columns :
                                    main_window.list.columns[i].visible
Reachable == HasWindowOrIcon /\ HasColumns

(* The list is arranged as it was saved: the columns that are still known in
   their order, the others after them; and the window has its size.  A column
   that was given another name is not found to sort by. *)
ListAsRead ==
    LET columns == client.columns
        known == {i \in DOMAIN columns : columns[i].name \in ColumnNames}
        list == main_window.list
    IN  /\ \A i \in known : \E j \in DOMAIN list.columns :
               /\ list.columns[j].name = columns[i].name
               /\ {list.columns[k].name : k \in 1..(j - 1)}
                      = {columns[k].name : k \in {k \in known : k < i}}
               /\ (\E k \in known : columns[k].visible) =>
                      list.columns[j].visible = columns[i].visible
        /\ client.sort_column \in ColumnNames \cup {NoColumn} =>
               list.sort_column = client.sort_column
        /\ client.size > 0 => main_window.size = client.size

(* The program starts with the settings, the arrangement of the list and the
   size of the window that were saved last, by this version or an older one. *)
RestartKeepsSettings ==
    [][/\ KeepsSettings
       /\ app = "off" /\ app' = "running" => ListAsRead']_allvars
=============================================================================
