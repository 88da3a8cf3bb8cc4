------------------------------ MODULE MCSettings ------------------------------
(* The instance of MainWindow, and with it of Settings, for TLC. *)
EXTENDS MainWindow

CONSTANTS good, bad, folder, relative

AllRules == {good, bad}
NoRules == {bad}

(* With a Speed of three bits a limit of 2 KB is 4 bytes, one too many. *)
SomeLimits == {-1, 1, 2}

(* Configs of 0.4, 0.6 and 0.8, and one of this version. *)
SomeFiles ==
    {[DefaultConfig EXCEPT !.version = 4, !.auto_delete = TRUE,
                           !.with_data = with_data, !.ip_filter = {good}] :
        with_data \in BOOLEAN}
    \cup {[DefaultConfig EXCEPT !.version = 6, !.port_is_zero = TRUE,
                                !.pex = FALSE, !.total = 1],
          [DefaultConfig EXCEPT !.version = 8, !.listen_random_port = FALSE,
                                !.ip_filter = {good},
                                !.download_rate_limit = 2],
          [DefaultConfig EXCEPT !.version = 8, !.listen_random_port = FALSE,
                                !.is = TRUE, !.clean = "PAUSE"],
          [DefaultConfig EXCEPT !.version = CurrentVersion,
                                !.listen_random_port = FALSE]}

Column(name, visible) == [name |-> name, visible |-> visible]
SomeColumns == <<Column("status_icon", TRUE),
                 Column("payload_download_speed", TRUE)>>

(* What the client has mostly saved when it has been used; and client configs
   of 0.3 and 0.4, and one that knows another column. *)
Usual == [DefaultClient EXCEPT !.hide_app_to_tray_at_startup = FALSE,
                               !.columns = SomeColumns, !.size = DefaultSize]
SomeClientFiles ==
    {write_client_config(Usual),
     [version |-> 3, heigth |-> DefaultSize,
      hide_main_window_to_tray_at_startup |-> FALSE,
      sort_column |-> "download_payload_speed",
      columns |-> <<Column("download_payload_speed", FALSE)>>],
     [version |-> 4, close_to_tray |-> FALSE, copy_finished_to |-> relative,
      columns |-> <<Column("payload_download_speed", TRUE)>>],
     [version |-> 9, update_interval |-> 1,
      hide_main_window_to_tray_at_startup |-> FALSE,
      columns |-> <<Column("payload_download_speed", FALSE),
                    Column("another", TRUE), Column("status_icon", FALSE)>>]}

(* Each behaviour has to do with some of the settings only. *)
If(used, topic) == IF used THEN {topic} ELSE {}
UsedIn(s) ==
    If(s.listen_random_port, "port") \cup If(~s.pex, "pex")
    \cup If(s.download_rate_limit # Unlimited, "rate")
    \cup If(s.ip_filter_enabled \/ s.ip_filter # {}, "filter")
    \cup If(s.is, "is") \cup If(s.clean # "NONE", "clean")
UsedInClient(c) ==
    If(c.columns = <<>>, "fresh")
    \cup If(c.hide_app_to_tray_at_startup /\ c.columns # <<>>, "hide")
    \cup If(~c.show_tray_icon, "show") \cup If(~c.minimize_to_tray, "minimize")
    \cup If(~c.close_to_tray, "close")
    \cup If(c.download_to # DefaultPath \/ c.copy_finished_to # NoPath, "paths")
    \cup If(c.columns \notin {<<>>, SomeColumns} \/ c.sort_column # NoColumn,
            "list")
    \cup If(c.size \notin {0, DefaultSize}, "size")
UsedInWindow ==
    If(app = "running" /\ (main_window.iconified \/ ~main_window.shown),
       "window")
    \cup If(main_window.use_appindicator, "indicator")
    \cup If(main_window.list.columns # SomeColumns
                \/ main_window.list.sort_column # NoColumn, "list")
    \cup If(main_window.size # DefaultSize, "size")
OfDaemon ==
    UsedIn(saved.of)
    \cup (IF window = Closed THEN {} ELSE UsedIn(window))
    \cup (IF app = "off" THEN {} ELSE UsedIn(get_settings))
    \cup If(dialog \notin {Closed, Unlimited}, "rate")
    \cup If(saved.total + statistics.transferred # 0, "total")
OfClient ==
    (IF app = "off" THEN {} ELSE UsedInWindow \cup UsedInClient(client))
    \cup UsedInClient(FoundClient(client_config))
FewUsed ==
    LET daemon == OfDaemon
        others == OfClient
    IN  \/ others = {} /\ Cardinality(daemon) <= IF "total" \in daemon THEN 1 ELSE 2
        \/ /\ daemon = {} /\ directory /\ dialog = Closed
           /\ config # NoFile
           /\ Cardinality(others) <= 2
           /\ others \cap {"list", "size", "paths"} # {} =>
                 /\ Cardinality(others \ {"fresh"}) = 1
                 /\ app # "off" =>
                       \/ main_window.list.columns = SomeColumns
                       \/ main_window.list.sort_column = NoColumn
=============================================================================
