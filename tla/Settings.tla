------------------------------ MODULE Settings ------------------------------
(***************************************************************************)
(* The settings of the program through their life: read from the files of  *)
(* this or of an older version, put in force by the session of the daemon, *)
(* shown and changed by the settings window, the dialog of the rate limit  *)
(* and the command line, lost with the directory they name, and saved      *)
(* every now and then and when the program is closed                       *)
(* (src/daemon_settings.cpp, src/daemon_session.cpp,                       *)
(* src/client_settings.cpp, src/settings_window.cpp, src/main_window.cpp   *)
(* and src/application.cpp).                                               *)
(*                                                                         *)
(* A dialog runs a main loop of its own: while it is open everything else  *)
(* goes on, the closing of the program included.  The settings window      *)
(* changes a copy of the daemon's settings that was taken when it opened.  *)
(***************************************************************************)
EXTENDS ClientSettings, FiniteSets

CONSTANTS Rules,     \* rules of the IP filter
          BadRules,  \* those with an address that is none
          Limits,    \* rate limits the user may choose, in KB/s
          OldFiles,  \* configs of older versions that may be found
          OldClientFiles, \* and files of the client's settings
          NoFile,    \* no config
          Closed,    \* a dialog that is not open
          Kilobyte,  \* bytes in a kilobyte
          MaxSpeed,  \* the greatest value of the type Speed
          MaxBytes,  \* bound: bytes transferred, in all
          DiskFails  \* whether the writing of a file may fail

Unlimited == -1
Speed == (-MaxSpeed - 1)..MaxSpeed

Auto_clean_type == {"NONE", "PAUSE", "REMOVE", "REMOVE_WITH_DATA"}

(* Daemon_settings and the fields that tell the others apart: `is' is that of
   the automatic loading, `clean' the type of the automatic cleaning. *)
Daemon_settings == [listen_random_port : BOOLEAN, pex : BOOLEAN,
                    download_rate_limit : Speed,
                    ip_filter_enabled : BOOLEAN, ip_filter : SUBSET Rules,
                    is : BOOLEAN, clean : Auto_clean_type]

(* A config: the options, those of older versions too, and the statistics. *)
Config == [version : 0..CurrentVersion, listen_random_port : BOOLEAN,
           port_is_zero : BOOLEAN, pex : BOOLEAN, download_rate_limit : Int,
           ip_filter_enabled : BOOLEAN, ip_filter : SUBSET Rules,
           is : BOOLEAN, clean : Auto_clean_type, auto_delete : BOOLEAN,
           with_data : BOOLEAN, total : Nat]

ASSUME SettingsAssumption ==
    /\ BadRules \subseteq Rules
    /\ Kilobyte \in Nat \ {0} /\ MaxSpeed \in Nat /\ MaxBytes \in Nat
    /\ (2 * (MaxSpeed + 1)) % Kilobyte = 0
    /\ Limits \subseteq Speed /\ \A limit \in Limits : limit >= Unlimited
    /\ OldFiles \subseteq Config
    /\ \A file \in OldFiles :
          file.download_rate_limit \in {Unlimited} \cup Kilobyte..MaxSpeed
    /\ \A file \in OldClientFiles : IsClientFile(file)
    /\ NoFile \notin Config \cup OldClientFiles
    /\ \A options \in SUBSET ClientOptions :
          NoFile \notin [options -> OptionValues]
    /\ Closed \notin Daemon_settings /\ Closed \notin Speed
    /\ DiskFails \in BOOLEAN

VARIABLES app,           \* "off", "running" or "stopping"
          settings,      \* priv->settings of the session, and its rate limit
          libtorrent,    \* what libtorrent works with
          statistics,    \* bytes of the earlier sessions and of this one
          watching,      \* does the watcher watch the directory?
          gone,          \* has it a message that the directory is gone?
          directory,     \* is there a directory to load from?
          client,        \* Client_settings
          window,        \* the copy the settings window changes, or Closed
          dialog,        \* the limit its dialog shows, or Closed
          config,        \* daemon.conf
          client_config, \* client.conf
          saved,         \* ghost: the settings and the total last saved
          excused        \* ghost: changed or not written since the closing

vars == <<app, settings, libtorrent, statistics, watching, gone, directory,
          client, window, dialog, config, client_config, saved, excused>>

-----------------------------------------------------------------------------
(* The limit of the rate: kilobytes in an int32_t for the program, bytes for
   libtorrent, to which nothing above zero is no limit. *)
Wrapped(n) == ((n + MaxSpeed + 1) % (2 * (MaxSpeed + 1))) - (MaxSpeed + 1)
get_lt_rate_limit(rate) ==
    IF rate = Unlimited THEN Unlimited ELSE Wrapped(rate * Kilobyte)
get_rate_limit_from_lt(rate) ==
    IF rate = Unlimited THEN Unlimited ELSE rate \div Kilobyte
set_rate_limit(rate) ==
    LET bytes == get_lt_rate_limit(rate)
    IN  IF bytes > 0 THEN bytes ELSE Unlimited

get_rate_limit == get_rate_limit_from_lt(libtorrent.rate)

get_settings ==
    [listen_random_port |-> settings.listen_random_port,
     pex |-> settings.pex, download_rate_limit |-> get_rate_limit,
     ip_filter_enabled |-> settings.ip_filter_enabled,
     ip_filter |-> settings.ip_filter, is |-> settings.is,
     clean |-> settings.clean]

(* total_download of Session_status. *)
Total == statistics.total + statistics.transferred + statistics.download

-----------------------------------------------------------------------------
(* The configs.  A rule that is none is left out. *)
read_ip_filter_settings(filter) == filter \ BadRules

(* Before 0.5 two switches said whether torrents are removed. *)
read_auto_delete_settings(file) ==
    CASE ~file.auto_delete -> "NONE"
      [] file.auto_delete /\ ~file.with_data -> "REMOVE"
      [] file.auto_delete /\ file.with_data -> "REMOVE_WITH_DATA"

DefaultConfig ==
    [version |-> 1, listen_random_port |-> TRUE, port_is_zero |-> FALSE,
     pex |-> TRUE, download_rate_limit |-> Unlimited,
     ip_filter_enabled |-> FALSE, ip_filter |-> {}, is |-> FALSE,
     clean |-> "NONE", auto_delete |-> FALSE, with_data |-> FALSE, total |-> 0]

(* That a port of zero stood for a random one in the configs before 0.7 is
   read, too, but overwritten at the end. *)
read_config(file) ==
    LET filter == read_ip_filter_settings(file.ip_filter)
    IN  [listen_random_port |-> file.version >= 7 /\ file.listen_random_port,
         pex |-> file.pex,
         download_rate_limit |->
             IF file.download_rate_limit < Unlimited THEN Unlimited
             ELSE get_rate_limit_from_lt(file.download_rate_limit),
         ip_filter_enabled |-> \/ file.version >= 9 /\ file.ip_filter_enabled
                               \/ file.version < 9 /\ filter # {},
         ip_filter |-> filter,
         is |-> file.is,
         clean |-> IF file.version < 5 THEN read_auto_delete_settings(file)
                                       ELSE file.clean]

(* A bug: the limit is written as it is shown. *)
MutWriteConfig(new, total) ==
    [version |-> CurrentVersion,
     listen_random_port |-> new.listen_random_port, port_is_zero |-> FALSE,
     pex |-> new.pex, download_rate_limit |-> new.download_rate_limit,
     ip_filter_enabled |-> new.ip_filter_enabled, ip_filter |-> new.ip_filter,
     is |-> new.is, clean |-> new.clean,
     auto_delete |-> FALSE, with_data |-> FALSE, total |-> total]

write_config(new, total) ==
    [version |-> CurrentVersion,
     listen_random_port |-> new.listen_random_port, port_is_zero |-> FALSE,
     pex |-> new.pex,
     download_rate_limit |-> get_lt_rate_limit(new.download_rate_limit),
     ip_filter_enabled |-> new.ip_filter_enabled, ip_filter |-> new.ip_filter,
     is |-> new.is, clean |-> new.clean,
     auto_delete |-> FALSE, with_data |-> FALSE, total |-> total]

(* The command line: a limit that is not given is -2. *)
invalid_speed_value == -2
Commands == Limits \cup {invalid_speed_value}
process_cmd_options(old, command) ==
    IF command = invalid_speed_value THEN old
    ELSE [old EXCEPT !.download_rate_limit = command]

Found == IF config = NoFile THEN DefaultConfig ELSE config
FoundClient(file) == IF file = NoFile THEN DefaultClient
                                      ELSE read_client_config(file)

Outcomes == IF DiskFails THEN BOOLEAN ELSE {TRUE}

(* What is done while the program is closing does not have to be saved. *)
Excuse(what) ==
    excused' = IF app = "stopping" THEN excused \cup what ELSE {}

-----------------------------------------------------------------------------
(* What set_settings() makes of the settings `old' and of what libtorrent
   works with.  An extension stays once it was added, and the directory is
   looked for only when the automatic loading is switched on. *)
(* A bug: only the rules are compared. *)
MutDifferentFilter(old, new) == old.ip_filter # new.ip_filter

DifferentFilter(old, new) == \/ old.ip_filter_enabled # new.ip_filter_enabled
                             \/ old.ip_filter # new.ip_filter
FilterOf(new) == IF new.ip_filter_enabled THEN new.ip_filter ELSE {}

set_settings(old, lt, new, init) ==
    LET is == new.is /\ (old.is \/ directory)
        another_rate == new.download_rate_limit
                            # get_rate_limit_from_lt(lt.rate)
    IN  /\ settings' = [listen_random_port |-> new.listen_random_port,
                        pex |-> new.pex,
                        ip_filter_enabled |-> new.ip_filter_enabled,
                        ip_filter |-> new.ip_filter,
                        is |-> is, clean |-> new.clean]
        /\ libtorrent' =
               [random_port |->
                    IF old.listen_random_port # new.listen_random_port \/ init
                    THEN new.listen_random_port ELSE lt.random_port,
                pex |-> lt.pex \/ (new.pex /\ (~old.pex \/ init)),
                rate |-> IF another_rate \/ init
                         THEN set_rate_limit(new.download_rate_limit)
                         ELSE lt.rate,
                filter |-> IF DifferentFilter(old, new) THEN FilterOf(new)
                                                        ELSE lt.filter]
        /\ watching' = IF new.is = old.is THEN watching ELSE is
        /\ gone' = (gone /\ new.is = old.is)

(* A rule that is none makes libtorrent throw what nobody catches. *)
SettingsThrow(new) == /\ DifferentFilter(settings, new)
                      /\ FilterOf(new) \cap BadRules # {}

(* Of the process nothing is left. *)
NoSettings == [listen_random_port |-> TRUE, pex |-> TRUE,
               ip_filter_enabled |-> FALSE, ip_filter |-> {},
               is |-> FALSE, clean |-> "NONE"]
NoLibtorrent == [random_port |-> FALSE, pex |-> FALSE, rate |-> Unlimited,
                 filter |-> {}]

Ended == /\ app' = "off"
         /\ settings' = NoSettings /\ libtorrent' = NoLibtorrent
         /\ statistics' = [total |-> 0, transferred |-> 0, download |-> 0]
         /\ watching' = FALSE /\ gone' = FALSE
         /\ client' = DefaultClient
         /\ window' = Closed /\ dialog' = Closed
         /\ excused' = {}
         /\ UNCHANGED <<directory, config, client_config, saved>>

(* save_session(), as far as the config goes. *)
SaveConfig(ok) ==
    IF ok THEN /\ config' = write_config(get_settings, Total)
               /\ saved' = [of |-> get_settings, total |-> Total]
          ELSE UNCHANGED <<config, saved>>

(* Application::save_settings() *)
SaveClientConfig(new, ok) ==
    client_config' = IF ok THEN write_client_config(new) ELSE client_config

-----------------------------------------------------------------------------
(* What the user of the version that wrote a config has chosen; that the port
   was a random one before 0.7 is not kept, and before 0.9 a filter was in force
   when it had rules. *)
ChosenBefore(file) ==
    [of |-> [listen_random_port |-> file.version >= 7
                                        /\ file.listen_random_port,
             pex |-> file.pex,
             download_rate_limit |->
                 get_rate_limit_from_lt(file.download_rate_limit),
             ip_filter_enabled |-> IF file.version < 9
                                   THEN file.ip_filter \ BadRules # {} ELSE file.ip_filter_enabled,
             ip_filter |-> file.ip_filter, is |-> file.is,
             clean |-> IF file.version >= 5 THEN file.clean
                       ELSE IF ~file.auto_delete THEN "NONE"
                       ELSE IF file.with_data THEN "REMOVE_WITH_DATA"
                       ELSE "REMOVE"],
     total |-> file.total]

Init == /\ app = "off"
        /\ settings = NoSettings /\ libtorrent = NoLibtorrent
        /\ statistics = [total |-> 0, transferred |-> 0, download |-> 0]
        /\ watching = FALSE /\ gone = FALSE /\ directory \in BOOLEAN
        /\ client = DefaultClient
        /\ client_config \in OldClientFiles \cup {NoFile}
        /\ window = Closed /\ dialog = Closed
        /\ config \in OldFiles \cup {NoFile}
        /\ saved = ChosenBefore(Found)
        /\ excused = {}

(* The constructors of the session and of the application, and start(): the
   config is read and put in force; a limit of the command line comes last,
   as the settings that are got and set again with it. *)
Start(command) ==
    /\ app = "off"
    /\ app' = "running"
    /\ set_settings(NoSettings, NoLibtorrent,
                    process_cmd_options(read_config(Found), command), TRUE)
    /\ statistics' = [total |-> Found.total, transferred |-> 0, download |-> 0]
    /\ client' = FoundClient(client_config)
    /\ UNCHANGED <<directory, window, dialog, config, client_config, saved,
                   excused>>

(* on_show_settings_window_callback(); below a dialog the menu is dead. *)
OpenWindow == /\ app = "running"
              /\ window = Closed /\ dialog = Closed
              /\ window' = get_settings
              /\ UNCHANGED <<app, settings, libtorrent, statistics, watching,
                             gone, directory, client, dialog, config,
                             client_config, saved, excused>>

(* Rules are checked when they are added, but not when they are edited. *)
EditedFilters == SUBSET Rules

(* What the user may make of the copy, one field at a time. *)
Edited ==
    IF window = Closed THEN {} ELSE
    {window}
    \cup {[window EXCEPT !.listen_random_port = ~@],
          [window EXCEPT !.pex = ~@], [window EXCEPT !.is = ~@],
          [window EXCEPT !.ip_filter_enabled = ~@]}
    \cup {[window EXCEPT !.download_rate_limit = limit] : limit \in Limits}
    \cup {[window EXCEPT !.ip_filter = filter] : filter \in EditedFilters}
    \cup {[window EXCEPT !.clean = type] : type \in Auto_clean_type}

(* OK: the settings of the client are changed in place, those of the daemon
   set, and then the former are saved. *)
AcceptWindow(new, value, ok) ==
    /\ app # "off" /\ window # Closed /\ dialog = Closed
    /\ ~SettingsThrow(new)
    /\ client' = value
    /\ set_settings(settings, libtorrent, new, FALSE)
    /\ SaveClientConfig(value, ok)
    /\ window' = Closed
    /\ Excuse({"daemon"} \cup (IF ok THEN {} ELSE {"client"}))
    /\ UNCHANGED <<app, statistics, directory, dialog, config, saved>>

AbortInWindow(new) == /\ app # "off" /\ window # Closed /\ dialog = Closed
                      /\ SettingsThrow(new)
                      /\ Ended

CancelWindow == /\ app # "off" /\ window # Closed /\ dialog = Closed
                /\ window' = Closed
                /\ UNCHANGED <<app, settings, libtorrent, statistics, watching,
                               gone, directory, client, dialog, config,
                               client_config, saved, excused>>

(* Change_rate_limit_dialog::run(): the icon in the tray has it, too, while
   the settings window is open. *)
OpenDialog == /\ app = "running"
              /\ dialog = Closed
              /\ dialog' = get_rate_limit
              /\ UNCHANGED <<app, settings, libtorrent, statistics, watching,
                             gone, directory, client, window, config,
                             client_config, saved, excused>>

AcceptDialog(limit) ==
    /\ app # "off" /\ dialog # Closed
    /\ libtorrent' = [libtorrent EXCEPT !.rate = set_rate_limit(limit)]
    /\ dialog' = Closed
    /\ Excuse({"daemon"})
    /\ UNCHANGED <<app, settings, statistics, watching, gone, directory,
                   client, window, config, client_config, saved>>

CancelDialog == /\ app # "off" /\ dialog # Closed
                /\ dialog' = Closed
                /\ UNCHANGED <<app, settings, libtorrent, statistics, watching,
                               gone, directory, client, window, config,
                               client_config, saved, excused>>

(* dbus_cmd_options(): another process hands its command over. *)
Command(command) ==
    /\ app = "running"
    /\ set_settings(settings, libtorrent,
                    process_cmd_options(get_settings, command), FALSE)
    /\ UNCHANGED <<app, statistics, directory, client, window, dialog, config,
                   client_config, saved, excused>>

(* Statistics_window::run() and Daemon_statistics::reset() *)
ResetStatistics ==
    /\ app # "off"
    /\ statistics' = [total |-> 0, transferred |-> statistics.transferred,
                      download |-> -statistics.transferred]
    /\ Excuse({"daemon"})
    /\ UNCHANGED <<app, settings, libtorrent, watching, gone, directory,
                   client, window, dialog, config, client_config, saved>>

(* libtorrent transfers something; a paused session may still do. *)
Transfer == /\ app # "off"
            /\ statistics.total + statistics.transferred < MaxBytes
            /\ statistics' = [statistics EXCEPT !.transferred = @ + 1]
            /\ Excuse({"daemon"})
            /\ UNCHANGED <<app, settings, libtorrent, watching, gone,
                           directory, client, window, dialog, config,
                           client_config, saved>>

(* The directory is deleted or moved away, and the watcher told so; one of
   its name may be made again. *)
DirectoryGone == /\ directory
                 /\ directory' = FALSE
                 /\ gone' = watching
                 /\ UNCHANGED <<app, settings, libtorrent, statistics,
                                watching, client, window, dialog, config,
                                client_config, saved, excused>>

DirectoryBack == /\ ~directory
                 /\ directory' = TRUE
                 /\ UNCHANGED <<app, settings, libtorrent, statistics,
                                watching, gone, client, window, dialog, config,
                                client_config, saved, excused>>

(* Bugs: the settings go on saying that torrents are loaded; the signal is
   left connected when the program is closing. *)
MutKeepsLoading == /\ app = "running"
                   /\ gone
                   /\ gone' = FALSE /\ watching' = FALSE
                   /\ UNCHANGED <<app, settings, libtorrent, statistics,
                                  directory, client, window, dialog, config,
                                  client_config, saved, excused>>

MutLeftConnected == /\ app # "off"
                    /\ gone
                    /\ gone' = FALSE /\ watching' = FALSE
                    /\ settings' = [settings EXCEPT !.is = FALSE]
                    /\ UNCHANGED <<app, libtorrent, statistics, directory,
                                   client, window, dialog, config,
                                   client_config, saved, excused>>

(* auto_load_torrents(), when it is told that the directory is gone.  The
   signal is disconnected when the program is closing. *)
NoticeGone == /\ app = "running"
              /\ gone
              /\ gone' = FALSE /\ watching' = FALSE
              /\ settings' = [settings EXCEPT !.is = FALSE]
              /\ UNCHANGED <<app, libtorrent, statistics, directory, client,
                             window, dialog, config, client_config, saved,
                             excused>>

(* on_save_session_callback() *)
SaveSession(ok) == /\ app = "running"
                   /\ SaveConfig(ok)
                   /\ UNCHANGED <<app, settings, libtorrent, statistics,
                                  watching, gone, directory, client, window,
                                  dialog, client_config, excused>>

(* Main_window::on_save_settings_timeout(); `gathered' are the settings with
   what the main window shows. *)
SaveClient(gathered, ok) ==
    /\ app # "off"
    /\ client' = gathered
    /\ SaveClientConfig(gathered, ok)
    /\ Excuse(IF ok THEN {} ELSE {"client"})
    /\ UNCHANGED <<app, settings, libtorrent, statistics, watching, gone,
                   directory, window, dialog, config, saved>>

(* Application::close(): the window is hidden, not its dialogs, and saves the
   settings of the client; then the session is stopped. *)
Close(gathered, ok, client_ok) ==
    /\ app = "running"
    /\ app' = "stopping"
    /\ client' = gathered
    /\ SaveClientConfig(gathered, client_ok)
    /\ SaveConfig(ok)
    /\ excused' = (IF ok THEN {} ELSE {"daemon"})
                      \cup (IF client_ok THEN {} ELSE {"client"})
    /\ UNCHANGED <<settings, libtorrent, statistics, watching, gone, directory,
                   window, dialog>>

(* Application::stop(): the session has stopped, the dialogs are destroyed
   with their parent. *)
Stop == /\ app = "stopping"
        /\ Ended

Crash == /\ app # "off"
         /\ Ended

-----------------------------------------------------------------------------
DaemonTypeOK ==
    /\ app \in {"off", "running", "stopping"}
    /\ settings \in [listen_random_port : BOOLEAN, pex : BOOLEAN,
                     ip_filter_enabled : BOOLEAN, ip_filter : SUBSET Rules,
                     is : BOOLEAN, clean : Auto_clean_type]
    /\ libtorrent \in [random_port : BOOLEAN, pex : BOOLEAN,
                       rate : Nat \cup {Unlimited}, filter : SUBSET Rules]
    /\ statistics \in [total : Nat, transferred : Nat, download : Int]
    /\ Total \in Nat
    /\ {watching, gone, directory} \subseteq BOOLEAN
    /\ window \in Daemon_settings \cup {Closed}
    /\ dialog \in Speed \cup {Closed}
    /\ config \in Config \cup {NoFile}
    /\ saved \in [of : Daemon_settings, total : Nat]
    /\ excused \subseteq {"daemon", "client"}
TypeOK == DaemonTypeOK /\ client \in Client_settings

(* libtorrent works with what the settings say: the port, the filter, the
   extension of peer exchange when it is wanted; and with no rule that is
   none, though the window may put one into a filter that is switched off. *)
SettingsInForce ==
    app # "off" =>
        /\ libtorrent.random_port = settings.listen_random_port
        /\ settings.pex => libtorrent.pex
        /\ libtorrent.filter = FilterOf(settings)
        /\ libtorrent.filter \cap BadRules = {}

(* Torrents are loaded from a directory just as long as the settings say so:
   whichever window set them, and whenever the directory has gone, which the
   watcher notices then, another one of its name notwithstanding. *)
WatcherFollowsSettings == /\ settings.is <=> watching
                          /\ watching /\ ~gone => directory

(* Since the program was told to close, what it has is what it has saved, up
   to what its windows change later and what could not be written: the comment
   at before_stopping_sholder says that nothing else changes the session. *)
DaemonSaved == app = "stopping" /\ "daemon" \notin excused =>
                   saved = [of |-> get_settings, total |-> Total]
ClientSaved == app = "stopping" /\ "client" \notin excused =>
                   FoundClient(client_config) = client
ClosingSaves == DaemonSaved /\ ClientSaved

(* The program starts with the settings and the total that were saved last,
   by this version or by an older one: but for a limit of the command line,
   rules that are none, and a directory that is not there.  The settings of
   the client that are saved are read as they were. *)
SavedAsRead ==
    /\ Total = saved.total
    /\ \A name \in {"listen_random_port", "pex", "ip_filter_enabled", "clean"} :
          get_settings[name] = saved.of[name]
    /\ get_settings.ip_filter = saved.of.ip_filter \ BadRules
    /\ get_settings.is <=> saved.of.is /\ directory
KeepsDaemonSettings ==
    /\ app = "off" /\ app' = "running" => SavedAsRead'
    /\ Start(invalid_speed_value) => get_rate_limit' = saved.of.download_rate_limit
KeepsClientSettings ==
    client_config' # client_config => FoundClient(client_config') = client'
KeepsSettings == KeepsDaemonSettings /\ KeepsClientSettings
=============================================================================
