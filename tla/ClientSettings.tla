---------------------------- MODULE ClientSettings ----------------------------
(***************************************************************************)
(* The settings of the client and the file they are kept in, client.conf   *)
(* (src/client_settings.cpp), and the columns of a list that are among     *)
(* them (mlib/mlib/gtk/tree_view.hh): which are shown, in which order, and *)
(* by which one the list is sorted.                                        *)
(*                                                                         *)
(* Of the options there is one of each kind: switches, a number with a     *)
(* minimum, the size of a window, a path that may be missing and one that  *)
(* may not, and the columns of the list of torrents.                       *)
(***************************************************************************)
EXTENDS Integers, SequencesExt

CONSTANTS Columns,     \* the columns of the list, as they come by default
          Paths,       \* absolute paths
          NoPath,      \* the empty path
          BadPaths,    \* strings that are no absolute path
          DefaultPath, \* ~/downloads
          MinInterval  \* the least interval between two updates

(* The settings of a column.  Its name is a string; those that are told apart
   here are listed, the provers do not take a literal for one. *)
NoColumn == ""
Names == STRING \cup {NoColumn, "status_icon", "payload_download_speed",
                      "payload_upload_speed"}
Column_settings == [name : Names, visible : BOOLEAN]

(* Two columns had other names before 0.4. *)
NewName(name) == CASE name = "download_payload_speed" -> "payload_download_speed"
                   [] name = "upload_payload_speed" -> "payload_upload_speed"
                   [] OTHER -> name

ASSUME ClientSettingsAssumption ==
    /\ Columns \in Seq(Column_settings) /\ Columns # <<>>
    /\ \A i, j \in DOMAIN Columns :
          Columns[i].name = Columns[j].name => i = j
    /\ \A i \in DOMAIN Columns : NewName(Columns[i].name) = Columns[i].name
    /\ NoPath \notin Paths /\ NoPath \notin BadPaths
    /\ (Paths \cup {DefaultPath}) \cap BadPaths = {}
    /\ MinInterval \in Nat /\ MinInterval <= 1000

(* The version of the program is 0.9; a file without one is from 0.0. *)
CurrentVersion == 9

ColumnNames == {Columns[i].name : i \in DOMAIN Columns}

Client_settings ==
    [show_tray_icon : BOOLEAN, hide_app_to_tray_at_startup : BOOLEAN,
     minimize_to_tray : BOOLEAN, close_to_tray : BOOLEAN,
     update_interval : Int, size : Nat,
     columns : Seq(Column_settings), sort_column : Names,
     download_to : Paths \cup {DefaultPath},
     copy_finished_to : Paths \cup {NoPath}]

DefaultClient ==
    [show_tray_icon |-> TRUE, hide_app_to_tray_at_startup |-> TRUE,
     minimize_to_tray |-> TRUE, close_to_tray |-> TRUE,
     update_interval |-> 1000, size |-> 0,
     columns |-> <<>>, sort_column |-> NoColumn,
     download_to |-> DefaultPath, copy_finished_to |-> NoPath]

-----------------------------------------------------------------------------
(* A file is a record of the options it has. *)
Option(file, name, default) ==
    IF name \in DOMAIN file THEN file[name] ELSE default

read_column_config(column) == [column EXCEPT !.name = NewName(@)]

(* The columns of the list; before 0.5 there was no icon of the status, which
   has to come first. *)
read_columns(file) ==
    IF "columns" \notin DOMAIN file THEN <<>>
    ELSE (IF file.version < 5
          THEN <<[name |-> "status_icon", visible |-> TRUE]>> ELSE <<>>)
         \o [i \in DOMAIN file.columns |-> read_column_config(file.columns[i])]

(* Up to 0.3 an option of the window was misspelt. *)
read_size(file) == Option(file, "height", Option(file, "heigth", 0))

(* A path has to be absolute. *)
checked_path(path, otherwise) == IF path \in BadPaths THEN otherwise ELSE path

(* Before 0.4 paths were in the encoding of the locale and not checked. *)
read_path(file, name, default, otherwise) ==
    LET path == Option(file, name, default)
    IN  IF file.version < 4 THEN path ELSE checked_path(path, otherwise)

read_client_config(file) ==
    [show_tray_icon |-> Option(file, "show_tray_icon", TRUE),
     hide_app_to_tray_at_startup |->
         Option(file, "hide_main_window_to_tray_at_startup", TRUE),
     minimize_to_tray |-> Option(file, "minimize_to_tray", TRUE),
     close_to_tray |-> Option(file, "close_to_tray", TRUE),
     update_interval |->
         LET interval == Option(file, "update_interval", 1000)
         IN  IF interval < MinInterval THEN MinInterval ELSE interval,
     size |-> read_size(file),
     columns |-> read_columns(file),
     sort_column |-> Option(file, "sort_column", NoColumn),
     download_to |-> read_path(file, "download_to", DefaultPath, DefaultPath),
     copy_finished_to |-> read_path(file, "copy_finished_to", NoPath, NoPath)]

(* What is not set is not written. *)
ClientOptions == {"version", "show_tray_icon",
                  "hide_main_window_to_tray_at_startup", "minimize_to_tray",
                  "close_to_tray", "update_interval", "height", "columns",
                  "sort_column", "download_to", "copy_finished_to"}
OptionValues == BOOLEAN \cup Int \cup Names
                    \cup Seq(Column_settings)
                    \cup Paths \cup {DefaultPath}
Unset(client) ==
    (IF client.size > 0 THEN {} ELSE {"height"})
    \cup (IF client.sort_column # NoColumn THEN {} ELSE {"sort_column"})
    \cup (IF client.copy_finished_to # NoPath THEN {} ELSE {"copy_finished_to"})

write_client_config(client) ==
    [option \in ClientOptions \ Unset(client) |->
        CASE option = "version" -> CurrentVersion
          [] option = "hide_main_window_to_tray_at_startup" ->
                 client.hide_app_to_tray_at_startup
          [] option = "height" -> client.size
          [] OTHER -> client[option]]

(* The files of any version: an option has its type, libconfig has an entry of
   a group once, and the versions that did not check a path wrote none that is
   not absolute. *)
OptionOf(name) ==
    CASE name = "version" -> 0..CurrentVersion
      [] name = "update_interval" -> Int
      [] name \in {"height", "heigth"} -> Nat
      [] name = "columns" -> Seq(Column_settings)
      [] name = "sort_column" -> Names
      [] name = "download_to" -> Paths \cup BadPaths \cup {DefaultPath}
      [] name = "copy_finished_to" -> Paths \cup BadPaths
      [] OTHER -> BOOLEAN

IsClientFile(file) ==
    /\ "version" \in DOMAIN file
    /\ \A name \in DOMAIN file : file[name] \in OptionOf(name)
    /\ file.version < 4 =>
          \A name \in DOMAIN file \cap {"download_to", "copy_finished_to"} :
              file[name] \notin BadPaths
    /\ LET columns == read_columns(file)
       IN  \A i, j \in DOMAIN columns : columns[i].name = columns[j].name => i = j

-----------------------------------------------------------------------------
(* The list as it is shown: its columns, in order, and the one it is sorted
   by.  A column of zero width comes after them, and stays there. *)
Show(columns, name, visible) ==
    [i \in DOMAIN columns |->
        IF columns[i].name = name THEN [columns[i] EXCEPT !.visible = visible]
                                  ELSE columns[i]]

check_columns_visibility(columns, preferred) ==
    IF \E i \in DOMAIN columns : columns[i].visible THEN columns
    ELSE Show(columns, preferred, TRUE)

(* GTK moves a column from one place to another. *)
Place(columns, name) == CHOOSE i \in DOMAIN columns : columns[i].name = name
Moved(columns, from, to) ==
    [i \in DOMAIN columns |->
        CASE i = to -> columns[from]
          [] from <= i /\ i < to -> columns[i + 1]
          [] to < i /\ i <= from -> columns[i - 1]
          [] OTHER -> columns[i]]

(* Columns the settings know are moved to the start, the last one first. *)
load_column(column, columns) ==
    IF column.name \notin ColumnNames THEN columns
    ELSE Moved(Show(columns, column.name, column.visible),
               Place(columns, column.name), 1)

load_settings(client) ==
    [columns |-> check_columns_visibility(
                     FoldRight(load_column, client.columns, Columns),
                     Columns[1].name),
     sort_column |-> IF client.sort_column \in ColumnNames
                     THEN client.sort_column ELSE NoColumn]

save_settings(client, list) ==
    [client EXCEPT !.columns = list.columns, !.sort_column = list.sort_column]

hide_column(columns, name) ==
    check_columns_visibility(Show(columns, name, FALSE), name)

(* Every order of the columns can be reached by dragging one at a time. *)
column_drag_function(columns, name, place) ==
    Moved(columns, Place(columns, name), place)
=============================================================================
