---------------------------- MODULE SettingsProofs ----------------------------
(***************************************************************************)
(* Proofs about the settings of the program and its main window, for any   *)
(* rules, limits, sizes and files of older versions: what is set is in     *)
(* force, torrents are loaded as the settings say, what is saved is what   *)
(* the program starts with, through all conversions of a limit and with    *)
(* the columns of the list in their order, and the user can get at the     *)
(* window.                                                                 *)
(***************************************************************************)
EXTENDS MainWindow, WellFoundedInduction, TLAPS

-----------------------------------------------------------------------------
(* The limits of the rate. *)

(* A rate libtorrent keeps is none, or a whole number of kilobytes at least. *)
IsRate(rate) == rate \in {Unlimited} \cup Kilobyte..MaxSpeed

LEMMA Constants == /\ Kilobyte \in Nat \ {0} /\ MaxSpeed \in Nat
                   /\ (2 * (MaxSpeed + 1)) % Kilobyte = 0
                   /\ Unlimited = -1
BY SettingsAssumption DEF SettingsAssumption, Unlimited

(* What does not overflow is as it was. *)
LEMMA NotWrapped == \A n \in 0..MaxSpeed : Wrapped(n) = n
<1> SUFFICES ASSUME NEW n \in 0..MaxSpeed PROVE Wrapped(n) = n
  OBVIOUS
<1> DEFINE m == 2 * (MaxSpeed + 1)
           k == n + MaxSpeed + 1
<1>1. m \in Nat \ {0} /\ k \in Nat /\ k < m
  BY Constants
<1> HIDE DEF m, k
<1>2. k % m = k
  BY <1>1
<1> QED
  BY <1>2, Constants DEF Wrapped, m, k

LEMMA WrappedRange == \A n \in Int : Wrapped(n) \in Speed
<1> SUFFICES ASSUME NEW n \in Int PROVE Wrapped(n) \in Speed
  OBVIOUS
<1> DEFINE m == 2 * (MaxSpeed + 1)
           k == n + MaxSpeed + 1
<1>1. m \in Nat \ {0} /\ k \in Int
  BY Constants
<1> HIDE DEF m, k
<1>2. k % m \in 0..(m - 1)
  BY <1>1
<1> QED
  BY <1>2, Constants DEF Wrapped, m, k, Speed

(* Wrapping takes no limit from between two kilobytes: their number in a turn
   of the type is a whole one. *)
LEMMA WrappedLimit ==
  \A limit \in Int : Wrapped(limit * Kilobyte) > 0 => Wrapped(limit * Kilobyte) >= Kilobyte
<1> SUFFICES ASSUME NEW limit \in Int, Wrapped(limit * Kilobyte) > 0
             PROVE  Wrapped(limit * Kilobyte) >= Kilobyte
  OBVIOUS
<1> DEFINE m == 2 * (MaxSpeed + 1)
           k == limit * Kilobyte + MaxSpeed + 1
           turns == k \div m
           parts == m \div Kilobyte
           whole == limit - turns * parts
<1>1. m \in Nat \ {0} /\ k \in Int /\ Kilobyte \in Nat \ {0} /\ m % Kilobyte = 0
  BY Constants
<1>2. Wrapped(limit * Kilobyte) = (k % m) - (MaxSpeed + 1)
  BY DEF Wrapped
<1>3. k = m * turns + (k % m) /\ turns \in Int /\ k % m \in Int
  <2> HIDE DEF m, k
  <2> QED
    BY <1>1
<1>4. m = Kilobyte * parts /\ parts \in Int
  <2> HIDE DEF m, k
  <2> QED
    BY <1>1
<1>5. Wrapped(limit * Kilobyte) = limit * Kilobyte - m * turns
  <2> HIDE DEF turns
  <2> QED
    BY <1>2, <1>3, Constants
<1>6. whole \in Int /\ Wrapped(limit * Kilobyte) = whole * Kilobyte
  <2> HIDE DEF m, k, turns, parts
  <2>1. m * turns = (turns * parts) * Kilobyte /\ turns * parts \in Int
    BY <1>1, <1>3, <1>4
  <2>2. limit * Kilobyte - (turns * parts) * Kilobyte = (limit - turns * parts) * Kilobyte
    BY <1>1, <2>1
  <2> QED
    BY <1>5, <2>1, <2>2
<1> HIDE DEF whole
<1>7. whole >= 1
  BY <1>1, <1>6
<1> QED
  BY <1>1, <1>6, <1>7

(* Whatever limit is set, libtorrent gets a rate. *)
LEMMA RateIsSet == \A limit \in Int : IsRate(set_rate_limit(limit))
<1> SUFFICES ASSUME NEW limit \in Int PROVE IsRate(set_rate_limit(limit))
  OBVIOUS
<1> DEFINE bytes == get_lt_rate_limit(limit)
<1>1. set_rate_limit(limit) = IF bytes > 0 THEN bytes ELSE Unlimited
  BY DEF set_rate_limit
<1>2. bytes = Unlimited \/ bytes = Wrapped(limit * Kilobyte)
  BY DEF get_lt_rate_limit
<1>3. CASE bytes > 0 /\ bytes = Wrapped(limit * Kilobyte)
  <2>1. bytes \in Speed /\ bytes >= Kilobyte
    BY <1>3, WrappedRange, WrappedLimit, Constants
  <2> QED
    BY <1>1, <1>3, <2>1, Constants DEF IsRate, Speed
<1>4. CASE ~(bytes > 0)
  BY <1>1, <1>4 DEF IsRate
<1> QED
  BY <1>2, <1>3, <1>4, Constants

(* From libtorrent to the program and back nothing is lost but the rest of a
   kilobyte, whether the limit goes through a file or is set again. *)
LEMMA RateIsKept ==
  ASSUME NEW rate, IsRate(rate)
  PROVE  LET limit == get_rate_limit_from_lt(rate)
         IN  /\ limit \in Speed /\ limit >= Unlimited
             /\ get_rate_limit_from_lt(set_rate_limit(limit)) = limit
             /\ IsRate(get_lt_rate_limit(limit))
             /\ get_rate_limit_from_lt(get_lt_rate_limit(limit)) = limit
<1> DEFINE limit == get_rate_limit_from_lt(rate)
<1>1. CASE rate = Unlimited
  <2>1. limit = Unlimited /\ get_lt_rate_limit(limit) = Unlimited
        /\ set_rate_limit(limit) = Unlimited
    BY <1>1, Constants DEF get_rate_limit_from_lt, get_lt_rate_limit, set_rate_limit
  <2> QED
    BY <1>1, <2>1, Constants DEF IsRate, Speed
<1>2. CASE rate \in Kilobyte..MaxSpeed
  <2> DEFINE bytes == limit * Kilobyte
  <2>1. rate # Unlimited /\ rate \in Nat /\ Kilobyte \in Nat \ {0}
    BY <1>2, Constants
  <2>2. limit = rate \div Kilobyte
    BY <2>1 DEF get_rate_limit_from_lt
  <2>3. limit \in Nat /\ limit >= 1 /\ limit <= rate
    BY <1>2, <2>1, <2>2
  <2>4. bytes \in Kilobyte..MaxSpeed
    <3>1. rate = Kilobyte * limit + (rate % Kilobyte) /\ rate % Kilobyte \in Nat
      BY <2>1, <2>2
    <3> HIDE DEF limit
    <3>2. bytes = Kilobyte * limit /\ bytes \in Int
      BY <2>1, <2>3
    <3>3. bytes >= Kilobyte
      <4>1. \A n \in Nat \ {0} : Kilobyte * n >= Kilobyte
        BY <2>1
      <4> QED
        BY <2>3, <3>2, <4>1
    <3> HIDE DEF bytes
    <3>4. bytes <= rate
      BY <2>1, <3>1, <3>2
    <3> QED
      BY <1>2, <2>1, <3>2, <3>3, <3>4, Constants
  <2> HIDE DEF bytes
  <2>5. Wrapped(bytes) = bytes /\ bytes > 0 /\ bytes # Unlimited
    BY <2>4, NotWrapped, Constants
  <2>6. limit # Unlimited
    BY <2>3, Constants
  <2>7. get_lt_rate_limit(limit) = bytes /\ set_rate_limit(limit) = bytes
    BY <2>5, <2>6 DEF get_lt_rate_limit, set_rate_limit, bytes
  <2>8. bytes \div Kilobyte = limit
    <3> HIDE DEF limit
    <3> QED
      BY <2>1, <2>3 DEF bytes
  <2>9. get_rate_limit_from_lt(bytes) = limit
    BY <2>5, <2>8 DEF get_rate_limit_from_lt
  <2>10. limit \in Speed /\ limit >= Unlimited
    BY <1>2, <2>1, <2>3, Constants DEF Speed
  <2> QED
    BY <2>4, <2>7, <2>9, <2>10 DEF IsRate
<1> QED
  BY <1>1, <1>2 DEF IsRate

-----------------------------------------------------------------------------
(* The inductive invariant of the daemon's settings: the last saved are those
   in the file that is found. *)
DaemonInv ==
    /\ DaemonTypeOK
    /\ IsRate(libtorrent.rate) /\ IsRate(Found.download_rate_limit)
    /\ saved = ChosenBefore(Found)
    /\ app = "off" => settings = NoSettings
    /\ SettingsInForce /\ WatcherFollowsSettings /\ DaemonSaved

(* What the steps of the main window are to the settings. *)
SettingsNext ==
    \/ \E command \in Commands : Start(command)
    \/ OpenWindow \/ CancelWindow \/ OpenDialog \/ CancelDialog
    \/ \E new \in Edited : \E value, ok : AcceptWindow(new, value, ok)
    \/ \E limit \in Limits \cup {dialog} : AcceptDialog(limit)
    \/ \E command \in Commands : Command(command)
    \/ ResetStatistics \/ Transfer
    \/ DirectoryGone \/ DirectoryBack \/ NoticeGone
    \/ \E ok \in Outcomes : SaveSession(ok)
    \/ \E gathered, ok : SaveClient(gathered, ok)
    \/ \E gathered, client_ok : \E ok \in Outcomes : Close(gathered, ok, client_ok)
    \/ Ended
    \/ UNCHANGED vars

LEMMA WindowMoves == [NextWindow]_allvars => SettingsNext
<1> SUFFICES ASSUME [NextWindow]_allvars PROVE SettingsNext
  OBVIOUS
<1>1. ASSUME \/ TrayActivated \/ Minimised \/ Restored \/ ClosedToTray
             \/ ConnectionChanged \/ Arrange \/ UNCHANGED allvars
      PROVE  UNCHANGED vars
  BY <1>1 DEF TrayActivated, Minimised, Restored, ClosedToTray, ConnectionChanged, Arrange,
              vars, allvars
<1>2. ASSUME \E command \in Commands : Launch(command) PROVE SettingsNext
  BY <1>2 DEF Launch, SettingsNext
<1>3. ASSUME Preferences \/ set_rate_limit_menu PROVE SettingsNext
  BY <1>3 DEF Preferences, set_rate_limit_menu, SettingsNext
<1>4. ASSUME NEW new \in Edited, NEW edited \in EditedClients, NEW ok \in Outcomes,
             Accept(new, edited, ok)
      PROVE  SettingsNext
  BY <1>4 DEF Accept, SettingsNext
<1>5. ASSUME \E ok \in Outcomes : AutoSave(ok) PROVE SettingsNext
  BY <1>5 DEF AutoSave, SettingsNext
<1>6. ASSUME \E ok, client_ok \in Outcomes : CloseAll(ok, client_ok) PROVE SettingsNext
  BY <1>6 DEF CloseAll, SettingsNext
<1>7. ASSUME EndAll PROVE SettingsNext
  <2>1. Ended
    BY <1>7 DEF EndAll, Stop, Crash, AbortInWindow, AbortInUpdate
  <2> QED
    BY <2>1 DEF SettingsNext
<1>8. ASSUME \/ CancelWindow
             \/ \E limit \in Limits \cup {dialog} : AcceptDialog(limit)
             \/ CancelDialog
             \/ \E command \in Commands : Command(command)
             \/ ResetStatistics \/ Transfer
             \/ DirectoryGone \/ DirectoryBack \/ NoticeGone
             \/ \E ok \in Outcomes : SaveSession(ok)
      PROVE  SettingsNext
  BY <1>8 DEF SettingsNext
<1> QED
  BY <1>1, <1>2, <1>3, <1>4, <1>5, <1>6, <1>7, <1>8 DEF NextWindow, SettingsNext

-----------------------------------------------------------------------------
(* set_settings() *)
SettingsKept == [listen_random_port : BOOLEAN, pex : BOOLEAN,
                 ip_filter_enabled : BOOLEAN, ip_filter : SUBSET Rules,
                 is : BOOLEAN, clean : Auto_clean_type]
LibtorrentKept == [random_port : BOOLEAN, pex : BOOLEAN,
                   rate : Nat \cup {Unlimited}, filter : SUBSET Rules]

LEMMA NothingKept == NoSettings \in SettingsKept /\ NoLibtorrent \in LibtorrentKept
                     /\ IsRate(NoLibtorrent.rate)
BY DEF NoSettings, NoLibtorrent, SettingsKept, LibtorrentKept, Auto_clean_type, IsRate

LEMMA SetType ==
  ASSUME NEW old \in SettingsKept, NEW lt \in LibtorrentKept, NEW new \in Daemon_settings,
         NEW init \in BOOLEAN, {watching, gone, directory} \subseteq BOOLEAN,
         IsRate(lt.rate), set_settings(old, lt, new, init)
  PROVE  /\ settings' \in SettingsKept
         /\ libtorrent' \in LibtorrentKept /\ IsRate(libtorrent'.rate)
         /\ {watching', gone'} \subseteq BOOLEAN
<1> DEFINE is == new.is /\ (old.is \/ directory)
<1>1. is \in BOOLEAN /\ new.is \in BOOLEAN /\ old.is \in BOOLEAN
  BY DEF SettingsKept, Daemon_settings
<1> HIDE DEF is
<1>2. settings' \in SettingsKept
  <2>1. settings' = [listen_random_port |-> new.listen_random_port,
                     pex |-> new.pex,
                     ip_filter_enabled |-> new.ip_filter_enabled,
                     ip_filter |-> new.ip_filter,
                     is |-> is, clean |-> new.clean]
    BY DEF set_settings, is
  <2> QED
    BY <1>1, <2>1 DEF SettingsKept, Daemon_settings
<1>3. libtorrent' \in LibtorrentKept /\ IsRate(libtorrent'.rate)
  <2> DEFINE another_rate == new.download_rate_limit # get_rate_limit_from_lt(lt.rate)
             port == IF old.listen_random_port # new.listen_random_port \/ init
                     THEN new.listen_random_port ELSE lt.random_port
             pex == lt.pex \/ (new.pex /\ (~old.pex \/ init))
             rate == IF another_rate \/ init THEN set_rate_limit(new.download_rate_limit)
                     ELSE lt.rate
             filter == IF DifferentFilter(old, new) THEN FilterOf(new) ELSE lt.filter
  <2>1. libtorrent' = [random_port |-> port, pex |-> pex, rate |-> rate, filter |-> filter]
    BY DEF set_settings
  <2>2. port \in BOOLEAN /\ pex \in BOOLEAN
    BY DEF LibtorrentKept, Daemon_settings
  <2>3. filter \in SUBSET Rules
    BY DEF LibtorrentKept, Daemon_settings, FilterOf
  <2>4. new.download_rate_limit \in Int
    BY Constants DEF Daemon_settings, Speed
  <2>5. IsRate(rate)
    BY <2>4, RateIsSet
  <2> HIDE DEF port, pex, rate, filter
  <2>6. rate \in Nat \cup {Unlimited}
    BY <2>5, Constants DEF IsRate
  <2> QED
    BY <2>1, <2>2, <2>3, <2>5, <2>6 DEF LibtorrentKept
<1>4. {watching', gone'} \subseteq BOOLEAN
  BY <1>1 DEF set_settings, is
<1> QED
  BY <1>2, <1>3, <1>4

(* libtorrent follows what differs, and the rest was in force already. *)
InForce(kept, lt) ==
    /\ lt.random_port = kept.listen_random_port
    /\ kept.pex => lt.pex
    /\ lt.filter = FilterOf(kept)
    /\ lt.filter \cap BadRules = {}

LEMMA SetInForce ==
  ASSUME NEW old, NEW lt, NEW new, NEW init \in BOOLEAN, set_settings(old, lt, new, init),
         \/ InForce(old, lt)
         \/ init /\ old = NoSettings /\ lt = NoLibtorrent,
         DifferentFilter(old, new) => FilterOf(new) \cap BadRules = {}
  PROVE  InForce(settings', libtorrent')
<1>1. /\ settings'.listen_random_port = new.listen_random_port
      /\ settings'.pex = new.pex /\ FilterOf(settings') = FilterOf(new)
  BY DEF set_settings, FilterOf
<1>2. /\ libtorrent'.random_port =
             IF old.listen_random_port # new.listen_random_port \/ init
             THEN new.listen_random_port ELSE lt.random_port
      /\ libtorrent'.pex = (lt.pex \/ (new.pex /\ (~old.pex \/ init)))
      /\ libtorrent'.filter = IF DifferentFilter(old, new) THEN FilterOf(new) ELSE lt.filter
  BY DEF set_settings
<1>3. ~DifferentFilter(old, new) => FilterOf(new) = FilterOf(old)
  BY DEF DifferentFilter, FilterOf
<1>4. FilterOf(NoSettings) = {} /\ NoLibtorrent.filter = {}
  BY DEF FilterOf, NoSettings, NoLibtorrent
<1>5. lt.filter = FilterOf(old) /\ lt.filter \cap BadRules = {}
  BY <1>4 DEF InForce
<1>6. libtorrent'.filter = FilterOf(new) /\ libtorrent'.filter \cap BadRules = {}
  BY <1>2, <1>3, <1>5
<1>7. libtorrent'.random_port = new.listen_random_port
  BY <1>2 DEF InForce
<1>8. new.pex => libtorrent'.pex
  BY <1>2 DEF InForce
<1> QED
  BY <1>1, <1>6, <1>7, <1>8 DEF InForce

LEMMA SetWatched ==
  ASSUME NEW old \in SettingsKept, NEW lt, NEW new \in Daemon_settings, NEW init,
         {watching, gone, directory} \subseteq BOOLEAN,
         UNCHANGED directory, old.is <=> watching, watching /\ ~gone => directory,
         set_settings(old, lt, new, init)
  PROVE  WatcherFollowsSettings'
<1> DEFINE is == new.is /\ (old.is \/ directory)
<1>1. old.is \in BOOLEAN /\ new.is \in BOOLEAN
  BY DEF SettingsKept, Daemon_settings
<1>2. /\ settings'.is = is
      /\ watching' = IF new.is = old.is THEN watching ELSE is
      /\ gone' = (gone /\ new.is = old.is)
  BY DEF set_settings
<1> QED
  BY <1>1, <1>2 DEF WatcherFollowsSettings

-----------------------------------------------------------------------------
(* What is read, got and commanded. *)
LEMMA GotType ==
  ASSUME settings \in SettingsKept, IsRate(libtorrent.rate)
  PROVE  get_settings \in Daemon_settings
<1>1. get_rate_limit \in Speed
  BY RateIsKept DEF get_rate_limit
<1> QED
  BY <1>1 DEF get_settings, SettingsKept, Daemon_settings

LEMMA FoundType ==
  ASSUME config \in Config \cup {NoFile}
  PROVE  Found \in Config /\ (config # NoFile => Found = config)
<1>1. DefaultConfig \in Config
  BY Constants DEF DefaultConfig, Config, CurrentVersion, Auto_clean_type
<1> QED
  BY <1>1 DEF Found

LEMMA ReadType ==
  ASSUME NEW file \in Config, IsRate(file.download_rate_limit)
  PROVE  LET read == read_config(file)
             chosen == ChosenBefore(file).of
         IN  /\ read \in Daemon_settings /\ chosen \in Daemon_settings
             /\ read.ip_filter = chosen.ip_filter \ BadRules
             /\ \A name \in {"listen_random_port", "pex", "ip_filter_enabled", "clean",
                             "is", "download_rate_limit"} : read[name] = chosen[name]
<1> DEFINE rate == get_rate_limit_from_lt(file.download_rate_limit)
           filter == file.ip_filter \ BadRules
           clean == IF file.version < 5 THEN read_auto_delete_settings(file) ELSE file.clean
           enabled == IF file.version < 9 THEN filter # {} ELSE file.ip_filter_enabled
           port == file.version >= 7 /\ file.listen_random_port
           read == [listen_random_port |-> port, pex |-> file.pex,
                    download_rate_limit |-> rate, ip_filter_enabled |-> enabled,
                    ip_filter |-> filter, is |-> file.is, clean |-> clean]
           chosen == [listen_random_port |-> port, pex |-> file.pex,
                      download_rate_limit |-> rate, ip_filter_enabled |-> enabled,
                      ip_filter |-> file.ip_filter, is |-> file.is, clean |-> clean]
<1>1. /\ file.version \in 0..9 /\ file.ip_filter \in SUBSET Rules
      /\ file.listen_random_port \in BOOLEAN /\ file.pex \in BOOLEAN
      /\ file.ip_filter_enabled \in BOOLEAN /\ file.is \in BOOLEAN
      /\ file.clean \in Auto_clean_type
      /\ file.auto_delete \in BOOLEAN /\ file.with_data \in BOOLEAN
  BY DEF Config, CurrentVersion
<1>2. rate \in Speed /\ ~(file.download_rate_limit < Unlimited)
  BY RateIsKept, Constants DEF IsRate
<1>3. clean \in Auto_clean_type
  BY <1>1 DEF read_auto_delete_settings, Auto_clean_type
<1>4. /\ port \in BOOLEAN /\ enabled \in BOOLEAN /\ filter \in SUBSET Rules
  BY <1>1
<1>5. read_config(file) = read
  <2>1. (\/ file.version >= 9 /\ file.ip_filter_enabled
         \/ file.version < 9 /\ filter # {}) = enabled
    <3>1. file.version >= 9 <=> ~(file.version < 9)
      BY <1>1
    <3>2. (file.version >= 9 /\ file.ip_filter_enabled) \in BOOLEAN
      BY <1>1
    <3> HIDE DEF filter
    <3>3. CASE file.version < 9
      BY <3>1, <3>3, Zenon
    <3>4. CASE ~(file.version < 9)
      BY <1>1, <3>1, <3>4, Zenon
    <3> QED
      BY <3>3, <3>4
  <2> QED
    BY <1>2, <2>1 DEF read_config, read_ip_filter_settings
<1>6. ChosenBefore(file).of = chosen
  <2>1. (IF file.version >= 5 THEN file.clean
         ELSE IF ~file.auto_delete THEN "NONE"
         ELSE IF file.with_data THEN "REMOVE_WITH_DATA" ELSE "REMOVE") = clean
    BY <1>1 DEF read_auto_delete_settings
  <2>2. (IF file.version < 9 THEN file.ip_filter \ BadRules # {}
         ELSE file.ip_filter_enabled) = enabled
    OBVIOUS
  <2> HIDE DEF clean, enabled
  <2> QED
    BY <2>1, <2>2 DEF ChosenBefore
<1> HIDE DEF rate, filter, clean, enabled, port
<1>7. read \in Daemon_settings /\ chosen \in Daemon_settings
  BY <1>1, <1>2, <1>3, <1>4 DEF Daemon_settings
<1>8. /\ read.ip_filter = chosen.ip_filter \ BadRules
      /\ \A name \in {"listen_random_port", "pex", "ip_filter_enabled", "clean",
                      "is", "download_rate_limit"} : read[name] = chosen[name]
  BY DEF filter
<1> QED
  BY <1>5, <1>6, <1>7, <1>8

LEMMA CommandType ==
  ASSUME NEW old \in Daemon_settings, NEW command \in Commands
  PROVE  LET new == process_cmd_options(old, command)
         IN  /\ new \in Daemon_settings
             /\ \A name \in {"listen_random_port", "pex", "ip_filter_enabled", "clean"} :
                    new[name] = old[name]
             /\ FilterOf(new) = FilterOf(old) /\ new.is = old.is
             /\ new.ip_filter = old.ip_filter
             /\ new.ip_filter_enabled = old.ip_filter_enabled
             /\ command = invalid_speed_value => new = old
<1>1. CASE command = invalid_speed_value
  BY <1>1 DEF process_cmd_options
<1>2. CASE command # invalid_speed_value
  <2>1. command \in Speed
    BY <1>2, SettingsAssumption DEF Commands, SettingsAssumption
  <2>2. process_cmd_options(old, command) = [old EXCEPT !.download_rate_limit = command]
    BY <1>2 DEF process_cmd_options
  <2> QED
    BY <1>2, <2>1, <2>2 DEF Daemon_settings, FilterOf
<1> QED
  BY <1>1, <1>2

(* What is written is what the next start finds to have been chosen. *)
LEMMA WrittenType ==
  ASSUME settings \in SettingsKept, IsRate(libtorrent.rate), Total \in Nat
  PROVE  LET file == write_config(get_settings, Total)
         IN  /\ file \in Config /\ IsRate(file.download_rate_limit)
             /\ ChosenBefore(file) = [of |-> get_settings, total |-> Total]
<1> DEFINE got == get_settings
           bytes == get_lt_rate_limit(got.download_rate_limit)
           file == write_config(got, Total)
<1>1. got \in Daemon_settings /\ got.download_rate_limit = get_rate_limit_from_lt(libtorrent.rate)
  BY GotType DEF get_settings, get_rate_limit
<1>2. IsRate(bytes) /\ get_rate_limit_from_lt(bytes) = got.download_rate_limit
  BY <1>1, RateIsKept
<1>3. bytes \in Int
  BY <1>2, Constants DEF IsRate
<1> HIDE DEF got, bytes
<1>4. file = [version |-> 9,
              listen_random_port |-> got.listen_random_port, port_is_zero |-> FALSE,
              pex |-> got.pex, download_rate_limit |-> bytes,
              ip_filter_enabled |-> got.ip_filter_enabled, ip_filter |-> got.ip_filter,
              is |-> got.is, clean |-> got.clean,
              auto_delete |-> FALSE, with_data |-> FALSE, total |-> Total]
  BY DEF write_config, CurrentVersion, bytes
<1>5. file \in Config
  BY <1>1, <1>3, <1>4 DEF Config, CurrentVersion, Daemon_settings
<1>6. got = [listen_random_port |-> got.listen_random_port, pex |-> got.pex,
             download_rate_limit |-> got.download_rate_limit,
             ip_filter_enabled |-> got.ip_filter_enabled, ip_filter |-> got.ip_filter,
             is |-> got.is, clean |-> got.clean]
  BY <1>1 DEF Daemon_settings
<1>7. ChosenBefore(file) = [of |-> got, total |-> Total]
  <2>1. /\ file.version = 9 /\ file.total = Total
        /\ file.download_rate_limit = bytes
        /\ file.listen_random_port = got.listen_random_port /\ file.pex = got.pex
        /\ file.ip_filter_enabled = got.ip_filter_enabled
        /\ file.ip_filter = got.ip_filter /\ file.is = got.is /\ file.clean = got.clean
    BY <1>4
  <2>2. got.listen_random_port \in BOOLEAN
    BY <1>1 DEF Daemon_settings
  <2> HIDE DEF file
  <2>3. (file.version >= 7 /\ file.listen_random_port) = got.listen_random_port
    BY <2>1, <2>2
  <2> QED
    BY <1>2, <1>6, <2>1, <2>3 DEF ChosenBefore
<1> QED
  BY <1>2, <1>4, <1>5, <1>7 DEF got

-----------------------------------------------------------------------------
(* The steps. *)
LEMMA SameGot ==
  ASSUME UNCHANGED <<settings, libtorrent>>
  PROVE  get_settings' = get_settings /\ get_rate_limit' = get_rate_limit
BY DEF get_settings, get_rate_limit

LEMMA SameTotal == UNCHANGED statistics => Total' = Total
BY DEF Total

LEMMA SameFound ==
  UNCHANGED config => Found' = Found /\ ChosenBefore(Found)' = ChosenBefore(Found)
<1>1. UNCHANGED config => Found' = Found
  BY DEF Found
<1> QED
  BY <1>1

(* What is saved since the closing stays so as long as nothing else changes. *)
LEMMA SavedStays ==
  ASSUME DaemonSaved, UNCHANGED saved,
         app' = "stopping" =>
             \/ app = "stopping" /\ UNCHANGED <<settings, libtorrent, statistics>>
                /\ excused \subseteq excused'
             \/ "daemon" \in excused'
  PROVE  DaemonSaved'
BY SameGot, SameTotal DEF DaemonSaved

(* The daemon keeps its settings, and the files stay. *)
LEMMA DaemonFrame ==
  ASSUME DaemonInv, UNCHANGED <<settings, libtorrent, statistics, watching, gone, directory,
                                config, saved>>,
         app # "off", app' \in {"running", "stopping"},
         excused' \subseteq {"daemon", "client"},
         window' \in Daemon_settings \cup {Closed}, dialog' \in Speed \cup {Closed},
         DaemonSaved'
  PROVE  DaemonInv'
<1>1. DaemonTypeOK'
  BY SameTotal DEF DaemonInv, DaemonTypeOK
<1>2. IsRate(libtorrent'.rate) /\ IsRate(Found'.download_rate_limit)
      /\ saved' = ChosenBefore(Found)'
  BY SameFound DEF DaemonInv
<1>3. SettingsInForce'
  BY DEF DaemonInv, SettingsInForce, FilterOf
<1>4. WatcherFollowsSettings'
  BY DEF DaemonInv, WatcherFollowsSettings
<1> QED
  BY <1>1, <1>2, <1>3, <1>4 DEF DaemonInv

(* set_settings() with settings of the right type and a filter of rules. *)
LEMMA SetFrame ==
  ASSUME DaemonInv, NEW new \in Daemon_settings,
         app # "off", app' \in {"running", "stopping"},
         set_settings(settings, libtorrent, new, FALSE),
         DifferentFilter(settings, new) => FilterOf(new) \cap BadRules = {},
         UNCHANGED <<statistics, directory, config, saved>>,
         excused' \subseteq {"daemon", "client"},
         window' \in Daemon_settings \cup {Closed}, dialog' \in Speed \cup {Closed},
         app' = "stopping" => "daemon" \in excused'
  PROVE  DaemonInv'
<1>1. /\ settings \in SettingsKept /\ libtorrent \in LibtorrentKept
      /\ IsRate(libtorrent.rate) /\ {watching, gone, directory} \subseteq BOOLEAN
      /\ settings.is <=> watching
      /\ watching /\ ~gone => directory
      /\ InForce(settings, libtorrent)
      /\ FALSE \in BOOLEAN
  BY DEF DaemonInv, DaemonTypeOK, SettingsKept, LibtorrentKept, WatcherFollowsSettings,
         SettingsInForce, InForce
<1>2. /\ settings' \in SettingsKept
      /\ libtorrent' \in LibtorrentKept /\ IsRate(libtorrent'.rate)
      /\ {watching', gone'} \subseteq BOOLEAN
  BY <1>1, SetType
<1>3. SettingsInForce'
  <2>1. InForce(settings', libtorrent')
    BY <1>1, SetInForce
  <2> QED
    BY <2>1 DEF InForce, SettingsInForce
<1>4. WatcherFollowsSettings'
  BY <1>1, SetWatched
<1>5. DaemonSaved'
  BY DEF DaemonSaved
<1>6. DaemonTypeOK'
  BY <1>2, SameTotal DEF DaemonInv, DaemonTypeOK, SettingsKept, LibtorrentKept
<1>7. IsRate(Found'.download_rate_limit) /\ saved' = ChosenBefore(Found)'
  BY SameFound DEF DaemonInv
<1> QED
  BY <1>2, <1>3, <1>4, <1>5, <1>6, <1>7 DEF DaemonInv

LEMMA DaemonInit == InitWindow => DaemonInv
<1> SUFFICES ASSUME InitWindow PROVE DaemonInv
  OBVIOUS
<1> USE DEF InitWindow, Init
<1>1. config \in Config \cup {NoFile} /\ IsRate(Found.download_rate_limit)
  <2>1. CASE config \in OldFiles
    BY <2>1, SettingsAssumption DEF SettingsAssumption, Found, IsRate
  <2>2. CASE config = NoFile
    BY <2>2 DEF Found, DefaultConfig, IsRate
  <2> QED
    BY <2>1, <2>2
<1>2. saved = ChosenBefore(Found) /\ saved \in [of : Daemon_settings, total : Nat]
  <2>1. Found \in Config /\ Found.total \in Nat
    BY <1>1, FoundType DEF Config
  <2>2. ChosenBefore(Found).of \in Daemon_settings
    BY <1>1, <2>1, ReadType
  <2>3. ChosenBefore(Found) = [of |-> ChosenBefore(Found).of, total |-> Found.total]
    BY DEF ChosenBefore
  <2> QED
    BY <2>1, <2>2, <2>3
<1>3. settings \in SettingsKept /\ libtorrent \in LibtorrentKept /\ IsRate(libtorrent.rate)
  BY NothingKept
<1>4. Total \in Nat /\ statistics \in [total : Nat, transferred : Nat, download : Int]
  BY DEF Total
<1>5. DaemonTypeOK
  BY <1>1, <1>2, <1>3, <1>4 DEF DaemonTypeOK, SettingsKept, LibtorrentKept
<1>6. SettingsInForce /\ WatcherFollowsSettings /\ DaemonSaved
  BY DEF SettingsInForce, WatcherFollowsSettings, DaemonSaved, NoSettings
<1> QED
  BY <1>1, <1>2, <1>3, <1>5, <1>6 DEF DaemonInv

(* The start: the config that is found is read, checked and put in force. *)
LEMMA StartStep ==
  ASSUME DaemonInv, NEW command \in Commands, Start(command)
  PROVE  DaemonInv' /\ KeepsDaemonSettings
<1> DEFINE read == read_config(Found)
           new == process_cmd_options(read, command)
<1>1. /\ app = "off" /\ app' = "running" /\ settings = NoSettings
      /\ set_settings(NoSettings, NoLibtorrent, new, TRUE)
      /\ statistics' = [total |-> Found.total, transferred |-> 0, download |-> 0]
      /\ UNCHANGED <<directory, window, dialog, config, saved, excused>>
      /\ TRUE \in BOOLEAN
  BY DEF Start, DaemonInv
<1>2. /\ {watching, gone, directory} \subseteq BOOLEAN
      /\ config \in Config \cup {NoFile}
      /\ ~watching
  <2>1. WatcherFollowsSettings /\ NoSettings.is = FALSE
    BY DEF DaemonInv, NoSettings
  <2> QED
    BY <1>1, <2>1 DEF DaemonInv, DaemonTypeOK, WatcherFollowsSettings
<1>3. Found \in Config /\ Found.total \in Nat
  BY <1>2, FoundType DEF Config
<1>4. /\ read \in Daemon_settings /\ read.ip_filter = saved.of.ip_filter \ BadRules
      /\ \A name \in {"listen_random_port", "pex", "ip_filter_enabled", "clean",
                      "is", "download_rate_limit"} : read[name] = saved.of[name]
      /\ saved.total = Found.total /\ IsRate(Found.download_rate_limit)
  <2>1. saved = ChosenBefore(Found) /\ IsRate(Found.download_rate_limit)
    BY DEF DaemonInv
  <2>2. ChosenBefore(Found).total = Found.total
    BY DEF ChosenBefore
  <2> QED
    BY <1>3, <2>1, <2>2, ReadType
<1>5. saved.of \in Daemon_settings /\ saved.of.is \in BOOLEAN
  BY DEF DaemonInv, DaemonTypeOK, Daemon_settings
<1>6. /\ new \in Daemon_settings /\ new.ip_filter = read.ip_filter /\ new.is = read.is
      /\ \A name \in {"listen_random_port", "pex", "ip_filter_enabled", "clean"} :
             new[name] = read[name]
      /\ command = invalid_speed_value => new = read
  BY <1>4, CommandType
<1> HIDE DEF new, read
<1>7. /\ settings' \in SettingsKept
      /\ libtorrent' \in LibtorrentKept /\ IsRate(libtorrent'.rate)
      /\ {watching', gone'} \subseteq BOOLEAN
  BY <1>1, <1>2, <1>6, NothingKept, SetType
<1>8. SettingsInForce'
  <2>1. FilterOf(new) \cap BadRules = {}
    BY <1>4, <1>6 DEF FilterOf
  <2>2. InForce(settings', libtorrent')
    BY <1>1, <2>1, SetInForce
  <2> QED
    BY <2>2 DEF InForce, SettingsInForce
<1>9. WatcherFollowsSettings'
  <2>1. NoSettings.is <=> watching
    BY <1>2 DEF NoSettings
  <2> QED
    BY <1>1, <1>2, <1>6, <2>1, NothingKept, SetWatched
<1>10. Total' = Found.total /\ Total' \in Nat
       /\ statistics' \in [total : Nat, transferred : Nat, download : Int]
  BY <1>1, <1>3 DEF Total
<1>11. DaemonTypeOK'
  BY <1>1, <1>7, <1>10 DEF DaemonInv, DaemonTypeOK, SettingsKept, LibtorrentKept
<1>12. IsRate(Found'.download_rate_limit) /\ saved' = ChosenBefore(Found)'
  BY <1>1, SameFound DEF DaemonInv
<1>13. DaemonInv'
  BY <1>1, <1>7, <1>8, <1>9, <1>11, <1>12 DEF DaemonInv, DaemonSaved
<1>14. SavedAsRead'
  <2>1. /\ settings' = [listen_random_port |-> new.listen_random_port, pex |-> new.pex,
                        ip_filter_enabled |-> new.ip_filter_enabled,
                        ip_filter |-> new.ip_filter,
                        is |-> new.is /\ (NoSettings.is \/ directory), clean |-> new.clean]
    BY <1>1 DEF set_settings
  <2>2. /\ settings'.ip_filter = new.ip_filter
        /\ settings'.is <=> new.is /\ directory
        /\ settings'.listen_random_port = new.listen_random_port
        /\ settings'.pex = new.pex /\ settings'.clean = new.clean
        /\ settings'.ip_filter_enabled = new.ip_filter_enabled
    BY <1>2, <2>1 DEF NoSettings
  <2>3. /\ \A name \in {"listen_random_port", "pex", "ip_filter_enabled", "clean",
                        "ip_filter", "is"} : get_settings'[name] = settings'[name]
    BY DEF get_settings
  <2>4. saved' = saved /\ directory' = directory
    BY <1>1
  <2>5. \A name \in {"listen_random_port", "pex", "ip_filter_enabled", "clean"} :
            get_settings'[name] = saved'.of[name]
    BY <1>4, <1>6, <2>2, <2>3, <2>4
  <2>6. get_settings'.ip_filter = saved'.of.ip_filter \ BadRules
    BY <1>4, <1>6, <2>2, <2>3, <2>4
  <2>7. get_settings'.is <=> saved'.of.is /\ directory'
    <3>1. get_settings'.is = settings'.is /\ new.is = saved.of.is
      BY <1>4, <1>6, <2>3
    <3> QED
      BY <2>2, <2>4, <3>1
  <2> QED
    BY <1>4, <1>10, <2>4, <2>5, <2>6, <2>7 DEF SavedAsRead
<1>15. ASSUME Start(invalid_speed_value)
       PROVE  get_rate_limit' = saved.of.download_rate_limit
  <2>1. set_settings(NoSettings, NoLibtorrent,
                     process_cmd_options(read, invalid_speed_value), TRUE)
    BY <1>15 DEF Start, read
  <2>2. process_cmd_options(read, invalid_speed_value) = read
    BY DEF process_cmd_options
  <2>3. libtorrent'.rate = set_rate_limit(read.download_rate_limit)
    BY <2>1, <2>2 DEF set_settings
  <2>4. read.download_rate_limit = get_rate_limit_from_lt(Found.download_rate_limit)
    <3>1. Found.download_rate_limit >= Unlimited
      BY <1>4, Constants DEF IsRate
    <3>2. Found.download_rate_limit \in Int /\ Unlimited \in Int
      BY <1>4, Constants DEF IsRate
    <3> QED
      BY <3>1, <3>2 DEF read, read_config
  <2> QED
    BY <1>4, <2>3, <2>4, RateIsKept DEF get_rate_limit
<1> QED
  BY <1>13, <1>14, <1>15 DEF KeepsDaemonSettings

(* Nothing is left of the process but the files. *)
LEMMA EndStep == ASSUME DaemonInv, Ended PROVE DaemonInv'
<1>1. /\ app' = "off" /\ settings' = NoSettings /\ libtorrent' = NoLibtorrent
      /\ statistics' = [total |-> 0, transferred |-> 0, download |-> 0]
      /\ watching' = FALSE /\ gone' = FALSE /\ window' = Closed /\ dialog' = Closed
      /\ excused' = {} /\ UNCHANGED <<directory, config, saved>>
  BY DEF Ended
<1>2. settings' \in SettingsKept /\ libtorrent' \in LibtorrentKept
      /\ IsRate(libtorrent'.rate)
  BY <1>1, NothingKept
<1>3. Total' \in Nat /\ statistics' \in [total : Nat, transferred : Nat, download : Int]
  BY <1>1 DEF Total
<1>4. DaemonTypeOK'
  BY <1>1, <1>2, <1>3 DEF DaemonInv, DaemonTypeOK, SettingsKept, LibtorrentKept
<1>5. IsRate(Found'.download_rate_limit) /\ saved' = ChosenBefore(Found)'
  BY <1>1, SameFound DEF DaemonInv
<1>6. SettingsInForce' /\ WatcherFollowsSettings' /\ DaemonSaved'
  BY <1>1 DEF SettingsInForce, WatcherFollowsSettings, DaemonSaved, NoSettings
<1> QED
  BY <1>1, <1>2, <1>4, <1>5, <1>6 DEF DaemonInv

(* The copy in the window. *)
LEMMA EditedType ==
  ASSUME window \in Daemon_settings \cup {Closed}, NEW new \in Edited
  PROVE  new \in Daemon_settings
<1>1. window \in Daemon_settings
  BY DEF Edited
<1>2. ASSUME NEW limit \in Limits
      PROVE  [window EXCEPT !.download_rate_limit = limit] \in Daemon_settings
  <2>1. limit \in Speed
    BY SettingsAssumption DEF SettingsAssumption
  <2> QED
    BY <1>1, <2>1 DEF Daemon_settings
<1>3. ASSUME NEW filter \in EditedFilters
      PROVE  [window EXCEPT !.ip_filter = filter] \in Daemon_settings
  BY <1>1 DEF EditedFilters, Daemon_settings
<1>4. ASSUME NEW type \in Auto_clean_type
      PROVE  [window EXCEPT !.clean = type] \in Daemon_settings
  BY <1>1 DEF Daemon_settings
<1>5. /\ [window EXCEPT !.listen_random_port = ~@] \in Daemon_settings
      /\ [window EXCEPT !.pex = ~@] \in Daemon_settings
      /\ [window EXCEPT !.is = ~@] \in Daemon_settings
      /\ [window EXCEPT !.ip_filter_enabled = ~@] \in Daemon_settings
  BY <1>1 DEF Daemon_settings
<1> QED
  BY <1>1, <1>2, <1>3, <1>4, <1>5 DEF Edited

LEMMA CommandStep ==
  ASSUME DaemonInv, NEW command \in Commands, Command(command)
  PROVE  DaemonInv'
<1> DEFINE new == process_cmd_options(get_settings, command)
<1>1. settings \in SettingsKept /\ IsRate(libtorrent.rate)
  BY DEF DaemonInv, DaemonTypeOK, SettingsKept
<1>2. get_settings \in Daemon_settings
  BY <1>1, GotType
<1>3. /\ new \in Daemon_settings /\ new.ip_filter = settings.ip_filter
      /\ new.ip_filter_enabled = settings.ip_filter_enabled
  BY <1>2, CommandType DEF get_settings
<1>4. ~DifferentFilter(settings, new)
  BY <1>3 DEF DifferentFilter
<1>5. /\ app = "running" /\ set_settings(settings, libtorrent, new, FALSE)
      /\ UNCHANGED <<app, statistics, directory, window, dialog, config, saved, excused>>
  BY DEF Command
<1> HIDE DEF new
<1> QED
  BY <1>3, <1>4, <1>5, SetFrame DEF DaemonInv, DaemonTypeOK

LEMMA AcceptStep ==
  ASSUME DaemonInv, NEW new \in Edited, NEW value, NEW ok, AcceptWindow(new, value, ok)
  PROVE  DaemonInv'
<1>1. new \in Daemon_settings
  BY EditedType DEF DaemonInv, DaemonTypeOK
<1>2. /\ app # "off" /\ set_settings(settings, libtorrent, new, FALSE)
      /\ UNCHANGED <<app, statistics, directory, dialog, config, saved>>
      /\ window' = Closed
      /\ DifferentFilter(settings, new) => FilterOf(new) \cap BadRules = {}
  BY DEF AcceptWindow, SettingsThrow
<1>3. /\ excused' \subseteq {"daemon", "client"}
      /\ app' = "stopping" => "daemon" \in excused'
  BY <1>2 DEF AcceptWindow, Excuse, DaemonInv, DaemonTypeOK
<1>4. app' \in {"running", "stopping"} /\ dialog' \in Speed \cup {Closed}
  BY <1>2 DEF DaemonInv, DaemonTypeOK
<1> QED
  BY <1>1, <1>2, <1>3, <1>4, SetFrame

LEMMA DialogStep ==
  ASSUME DaemonInv, NEW limit \in Limits \cup {dialog}, AcceptDialog(limit)
  PROVE  DaemonInv'
<1>1. limit \in Int
  <2>1. Limits \subseteq Speed /\ dialog \in Speed
    BY SettingsAssumption DEF SettingsAssumption, AcceptDialog, DaemonInv, DaemonTypeOK
  <2> QED
    BY <2>1, Constants DEF Speed
<1>2. IsRate(set_rate_limit(limit))
  BY <1>1, RateIsSet
<1>3. /\ app # "off" /\ dialog' = Closed
      /\ libtorrent' = [libtorrent EXCEPT !.rate = set_rate_limit(limit)]
      /\ UNCHANGED <<app, settings, statistics, watching, gone, directory, window, config,
                     saved>>
      /\ libtorrent \in LibtorrentKept
  BY DEF AcceptDialog, DaemonInv, DaemonTypeOK, LibtorrentKept
<1>4. /\ libtorrent' \in LibtorrentKept /\ IsRate(libtorrent'.rate)
      /\ libtorrent'.random_port = libtorrent.random_port
      /\ libtorrent'.pex = libtorrent.pex /\ libtorrent'.filter = libtorrent.filter
  <2>1. set_rate_limit(limit) \in Nat \cup {Unlimited}
    BY <1>2, Constants DEF IsRate
  <2> QED
    BY <1>2, <1>3, <2>1 DEF LibtorrentKept
<1>5. /\ excused' \subseteq {"daemon", "client"}
      /\ app' = "stopping" => "daemon" \in excused'
  BY <1>3 DEF AcceptDialog, Excuse, DaemonInv, DaemonTypeOK
<1>6. DaemonTypeOK'
  BY <1>3, <1>4, <1>5, SameTotal DEF DaemonInv, DaemonTypeOK, LibtorrentKept
<1>7. SettingsInForce'
  BY <1>3, <1>4 DEF DaemonInv, SettingsInForce, FilterOf
<1>8. WatcherFollowsSettings'
  BY <1>3 DEF DaemonInv, WatcherFollowsSettings
<1>9. DaemonSaved'
  BY <1>5 DEF DaemonSaved
<1>10. IsRate(Found'.download_rate_limit) /\ saved' = ChosenBefore(Found)'
  BY <1>3, SameFound DEF DaemonInv
<1> QED
  BY <1>3, <1>4, <1>6, <1>7, <1>8, <1>9, <1>10 DEF DaemonInv

(* Bytes are transferred, or counted anew. *)
LEMMA StatisticsStep ==
  ASSUME DaemonInv, ResetStatistics \/ Transfer
  PROVE  DaemonInv'
<1>1. /\ app # "off" /\ excused' = IF app = "stopping" THEN excused \cup {"daemon"} ELSE {}
      /\ UNCHANGED <<app, settings, libtorrent, watching, gone, directory, window, dialog,
                     config, saved>>
  BY DEF ResetStatistics, Transfer, Excuse
<1>2. Total' \in Nat /\ statistics' \in [total : Nat, transferred : Nat, download : Int]
  <2>1. /\ statistics \in [total : Nat, transferred : Nat, download : Int]
        /\ statistics.total + statistics.transferred + statistics.download \in Nat
    BY DEF DaemonInv, DaemonTypeOK, Total
  <2>2. \/ statistics' = [total |-> 0, transferred |-> statistics.transferred,
                          download |-> -statistics.transferred]
        \/ statistics' = [statistics EXCEPT !.transferred = @ + 1]
    BY DEF ResetStatistics, Transfer
  <2>3. CASE statistics' = [total |-> 0, transferred |-> statistics.transferred,
                              download |-> -statistics.transferred]
    BY <2>1, <2>3 DEF Total
  <2>4. CASE statistics' = [statistics EXCEPT !.transferred = @ + 1]
    BY <2>1, <2>4 DEF Total
  <2> QED
    BY <2>2, <2>3, <2>4
<1>3. DaemonTypeOK'
  BY <1>1, <1>2 DEF DaemonInv, DaemonTypeOK
<1>4. SettingsInForce'
  BY <1>1 DEF DaemonInv, SettingsInForce, FilterOf
<1>5. WatcherFollowsSettings' /\ DaemonSaved'
  BY <1>1 DEF DaemonInv, WatcherFollowsSettings, DaemonSaved
<1>6. IsRate(Found'.download_rate_limit) /\ saved' = ChosenBefore(Found)'
  BY <1>1, SameFound DEF DaemonInv
<1> QED
  BY <1>1, <1>3, <1>4, <1>5, <1>6 DEF DaemonInv

(* The directory goes, comes back, or is given up. *)
LEMMA DirectoryStep ==
  ASSUME DaemonInv, DirectoryGone \/ DirectoryBack \/ NoticeGone
  PROVE  DaemonInv' /\ (app = "off" => app' = "off")
<1>1. UNCHANGED <<app, libtorrent, statistics, window, dialog, config, saved, excused>>
  BY DEF DirectoryGone, DirectoryBack, NoticeGone
<1>2. {watching, gone, directory} \subseteq BOOLEAN /\ settings \in SettingsKept
      /\ settings.is \in BOOLEAN
  BY DEF DaemonInv, DaemonTypeOK, SettingsKept
<1>3. /\ settings' = settings \/ (app = "running"
                                  /\ settings' = [settings EXCEPT !.is = FALSE])
      /\ {watching', gone', directory'} \subseteq BOOLEAN
  BY <1>2 DEF DirectoryGone, DirectoryBack, NoticeGone
<1>4. /\ settings' \in SettingsKept
      /\ \A name \in {"listen_random_port", "pex", "ip_filter_enabled", "ip_filter"} :
             settings'[name] = settings[name]
      /\ app # "running" => settings' = settings
  BY <1>2, <1>3 DEF SettingsKept
<1>5. DaemonTypeOK'
  BY <1>1, <1>3, <1>4, SameTotal DEF DaemonInv, DaemonTypeOK, SettingsKept
<1>6. SettingsInForce'
  BY <1>1, <1>4 DEF DaemonInv, SettingsInForce, FilterOf
<1>7. WatcherFollowsSettings'
  <2>1. CASE DirectoryGone \/ DirectoryBack
    BY <2>1 DEF DaemonInv, WatcherFollowsSettings, DirectoryGone, DirectoryBack
  <2>2. CASE NoticeGone
    <3>1. settings'.is = FALSE /\ watching' = FALSE
      BY <1>2, <2>2 DEF NoticeGone, SettingsKept
    <3> QED
      BY <3>1 DEF WatcherFollowsSettings
  <2> QED
    BY <2>1, <2>2
<1>8. DaemonSaved'
  BY <1>1, <1>4, SavedStays DEF DaemonInv, DaemonTypeOK
<1>9. IsRate(Found'.download_rate_limit) /\ saved' = ChosenBefore(Found)'
  BY <1>1, SameFound DEF DaemonInv
<1> QED
  BY <1>1, <1>4, <1>5, <1>6, <1>7, <1>8, <1>9 DEF DaemonInv

(* The session saves, now and then or at the closing. *)
LEMMA SaveStep ==
  ASSUME DaemonInv, NEW ok \in BOOLEAN, app # "off", app' \in {"running", "stopping"},
         SaveConfig(ok),
         UNCHANGED <<settings, libtorrent, statistics, watching, gone, directory, window,
                     dialog>>,
         excused' \subseteq {"daemon", "client"},
         app' = "stopping" => (ok \/ "daemon" \in excused')
  PROVE  DaemonInv'
<1>1. settings \in SettingsKept /\ IsRate(libtorrent.rate) /\ Total \in Nat
  BY DEF DaemonInv, DaemonTypeOK, SettingsKept
<1>2. get_settings' = get_settings /\ Total' = Total
  BY SameGot, SameTotal
<1>3. CASE ok
  <2>1. config' = write_config(get_settings, Total)
        /\ saved' = [of |-> get_settings, total |-> Total]
    BY <1>3 DEF SaveConfig
  <2>2. /\ config' \in Config /\ IsRate(config'.download_rate_limit)
        /\ saved' = ChosenBefore(config')
    BY <1>1, <2>1, WrittenType
  <2>3. Found' = config'
    BY <2>2, SettingsAssumption DEF Found, SettingsAssumption
  <2>4. saved' \in [of : Daemon_settings, total : Nat]
    BY <1>1, <2>1, GotType
  <2>5. DaemonTypeOK'
    BY <1>2, <2>2, <2>4 DEF DaemonInv, DaemonTypeOK
  <2>6. SettingsInForce' /\ WatcherFollowsSettings'
    BY DEF DaemonInv, SettingsInForce, FilterOf, WatcherFollowsSettings
  <2>7. DaemonSaved'
    BY <1>2, <2>1 DEF DaemonSaved
  <2> QED
    BY <2>2, <2>3, <2>5, <2>6, <2>7 DEF DaemonInv
<1>4. CASE ~ok
  <2>1. UNCHANGED <<config, saved>>
    BY <1>4 DEF SaveConfig
  <2>2. DaemonSaved'
    BY <1>4 DEF DaemonSaved
  <2>3. window' \in Daemon_settings \cup {Closed} /\ dialog' \in Speed \cup {Closed}
    BY DEF DaemonInv, DaemonTypeOK
  <2> QED
    BY <2>1, <2>2, <2>3, DaemonFrame
<1> QED
  BY <1>3, <1>4

LEMMA DaemonStep == DaemonInv /\ [NextWindow]_allvars => DaemonInv' /\ KeepsDaemonSettings
<1> SUFFICES ASSUME DaemonInv, [NextWindow]_allvars
             PROVE  DaemonInv' /\ KeepsDaemonSettings
  OBVIOUS
<1>1. SettingsNext
  BY WindowMoves
<1>2. invalid_speed_value \in Commands
  BY DEF Commands
<1>3. Outcomes \subseteq BOOLEAN
  BY DEF Outcomes
<1>4. ASSUME app # "off" \/ app' = "off" PROVE KeepsDaemonSettings
  <2>1. ~(app = "off" /\ app' = "running")
    BY <1>4
  <2>2. ~Start(invalid_speed_value)
    BY <1>4 DEF Start
  <2> QED
    BY <2>1, <2>2 DEF KeepsDaemonSettings
<1>5. ASSUME NEW command \in Commands, Start(command)
      PROVE  DaemonInv' /\ KeepsDaemonSettings
  BY <1>5, StartStep
<1>6. ASSUME OpenWindow \/ CancelWindow \/ OpenDialog \/ CancelDialog
      PROVE  DaemonInv' /\ app # "off"
  <2>1. /\ UNCHANGED <<app, settings, libtorrent, statistics, watching, gone, directory,
                       config, saved, excused>>
        /\ app # "off"
    BY <1>6 DEF OpenWindow, CancelWindow, OpenDialog, CancelDialog
  <2>2. get_settings \in Daemon_settings /\ get_rate_limit \in Speed
    BY GotType DEF DaemonInv, DaemonTypeOK, SettingsKept, get_settings, Daemon_settings
  <2>3. window' \in Daemon_settings \cup {Closed} /\ dialog' \in Speed \cup {Closed}
    BY <1>6, <2>2 DEF OpenWindow, CancelWindow, OpenDialog, CancelDialog, DaemonInv,
                      DaemonTypeOK
  <2>4. DaemonSaved'
    BY <2>1, SavedStays DEF DaemonInv
  <2>5. app' \in {"running", "stopping"} /\ excused' \subseteq {"daemon", "client"}
    BY <2>1 DEF DaemonInv, DaemonTypeOK
  <2> QED
    BY <2>1, <2>3, <2>4, <2>5, DaemonFrame
<1>7. ASSUME \/ \E new \in Edited : \E value, ok : AcceptWindow(new, value, ok)
             \/ \E limit \in Limits \cup {dialog} : AcceptDialog(limit)
             \/ \E command \in Commands : Command(command)
             \/ ResetStatistics \/ Transfer
      PROVE  DaemonInv' /\ app # "off"
  <2>1. app # "off"
    BY <1>7 DEF AcceptWindow, AcceptDialog, Command, ResetStatistics, Transfer
  <2> QED
    BY <1>7, <2>1, AcceptStep, DialogStep, CommandStep, StatisticsStep
<1>8. ASSUME DirectoryGone \/ DirectoryBack \/ NoticeGone
      PROVE  DaemonInv' /\ (app = "off" => app' = "off")
  BY <1>8, DirectoryStep
<1>9. ASSUME NEW ok \in Outcomes, SaveSession(ok) PROVE DaemonInv' /\ app # "off"
  <2>1. /\ app = "running" /\ app' = "running" /\ SaveConfig(ok) /\ ok \in BOOLEAN
        /\ UNCHANGED <<settings, libtorrent, statistics, watching, gone, directory, window,
                       dialog, excused>>
    BY <1>3, <1>9 DEF SaveSession
  <2>2. excused' \subseteq {"daemon", "client"}
    BY <2>1 DEF DaemonInv, DaemonTypeOK
  <2> QED
    BY <2>1, <2>2, SaveStep
<1>10. ASSUME NEW gathered, NEW ok, SaveClient(gathered, ok)
       PROVE  DaemonInv' /\ app # "off"
  <2>1. /\ app # "off"
        /\ UNCHANGED <<app, settings, libtorrent, statistics, watching, gone, directory,
                       window, dialog, config, saved>>
        /\ excused' \subseteq {"daemon", "client"}
        /\ app = "stopping" => excused \subseteq excused'
    BY <1>10 DEF SaveClient, Excuse, DaemonInv, DaemonTypeOK
  <2>2. DaemonSaved'
    BY <2>1, SavedStays DEF DaemonInv
  <2>3. /\ window' \in Daemon_settings \cup {Closed} /\ dialog' \in Speed \cup {Closed}
        /\ app' \in {"running", "stopping"}
    BY <2>1 DEF DaemonInv, DaemonTypeOK
  <2> QED
    BY <2>1, <2>2, <2>3, DaemonFrame
<1>11. ASSUME NEW gathered, NEW client_ok, NEW ok \in Outcomes,
              Close(gathered, ok, client_ok)
       PROVE  DaemonInv' /\ app # "off"
  <2>1. /\ app = "running" /\ app' = "stopping" /\ SaveConfig(ok) /\ ok \in BOOLEAN
        /\ UNCHANGED <<settings, libtorrent, statistics, watching, gone, directory, window,
                       dialog>>
        /\ excused' \subseteq {"daemon", "client"}
        /\ ok \/ "daemon" \in excused'
    BY <1>3, <1>11 DEF Close
  <2> QED
    BY <2>1, SaveStep
<1>12. ASSUME Ended PROVE DaemonInv' /\ app' = "off"
  BY <1>12, EndStep DEF Ended
<1>13. ASSUME UNCHANGED vars PROVE DaemonInv' /\ (app = "off" => app' = "off")
  <2>1. UNCHANGED <<app, settings, libtorrent, statistics, watching, gone, directory, client,
                    window, dialog, config, client_config, saved, excused>>
    BY <1>13 DEF vars
  <2>2. DaemonTypeOK'
    BY <2>1, SameTotal DEF DaemonInv, DaemonTypeOK
  <2>3. SettingsInForce' /\ WatcherFollowsSettings'
    BY <2>1 DEF DaemonInv, SettingsInForce, FilterOf, WatcherFollowsSettings
  <2>4. DaemonSaved'
    BY <2>1, SavedStays DEF DaemonInv
  <2>5. IsRate(Found'.download_rate_limit) /\ saved' = ChosenBefore(Found)'
    BY <2>1, SameFound DEF DaemonInv
  <2> QED
    BY <2>1, <2>2, <2>3, <2>4, <2>5 DEF DaemonInv
<1> QED
  BY <1>1, <1>4, <1>5, <1>6, <1>7, <1>8, <1>9, <1>10, <1>11, <1>12, <1>13 DEF SettingsNext

-----------------------------------------------------------------------------
(* The main window has the icon that the settings of the client ask for; who
   cannot see the window has the icon. *)
WindowFields == {"shown", "in_wm", "iconified", "has_been_showed", "tray",
                 "use_appindicator", "indicator", "list", "size", "switched_off"}

IsWindow(w) == /\ DOMAIN w = WindowFields
               /\ w.tray \in {"none", "shown", "hidden"}
               /\ w.use_appindicator \in BOOLEAN

InReach(w) == ~w.switched_off => is_visible_in_wm(w) \/ HasIcon(w)

WindowInv ==
    /\ DOMAIN client = DOMAIN DefaultClient
    /\ app # "off" => /\ IsWindow(main_window)
                      /\ HasIcon(main_window) <=> client.show_tray_icon
    /\ app = "running" => InReach(main_window)

LEMMA ClientFields ==
  DOMAIN DefaultClient = {"show_tray_icon", "hide_app_to_tray_at_startup",
                          "minimize_to_tray", "close_to_tray", "update_interval", "size",
                          "columns", "sort_column", "download_to", "copy_finished_to"}
BY DEF DefaultClient

(* show_tray_icon() *)
LEMMA IconShown ==
  ASSUME NEW w, IsWindow(w), NEW wanted
  PROVE  LET shown == show_tray_icon(w, wanted)
         IN  /\ IsWindow(shown)
             /\ HasIcon(shown) <=> wanted
             /\ \A name \in WindowFields \ {"tray", "indicator"} : shown[name] = w[name]
<1> DEFINE own == wanted /\ ~w.use_appindicator
           indicator == IF w.use_appindicator THEN wanted ELSE w.indicator
           tray == IF own THEN "shown" ELSE IF w.tray = "shown" THEN "hidden" ELSE w.tray
           half == [w EXCEPT !.indicator = indicator]
           shown == [half EXCEPT !.tray = tray]
<1>1. show_tray_icon(w, wanted) = shown
  BY DEF show_tray_icon
<1>2. tray \in {"none", "shown", "hidden"} /\ (tray = "shown" <=> own)
  BY DEF IsWindow
<1>3. w.use_appindicator => (indicator <=> wanted)
  OBVIOUS
<1> HIDE DEF own, indicator, tray
<1>4. /\ DOMAIN shown = WindowFields /\ shown.tray = tray /\ shown.indicator = indicator
      /\ \A name \in WindowFields \ {"tray", "indicator"} : shown[name] = w[name]
  BY DEF IsWindow, WindowFields
<1> HIDE DEF shown
<1>5. shown.use_appindicator = w.use_appindicator
  BY <1>4 DEF WindowFields
<1>6. IsWindow(shown)
  BY <1>2, <1>4, <1>5 DEF IsWindow
<1>7. HasIcon(shown) <=> wanted
  BY <1>2, <1>3, <1>4, <1>5 DEF HasIcon, IsWindow, own
<1> QED
  BY <1>1, <1>4, <1>6, <1>7

(* show() and hide() leave the icon alone. *)
LEMMA WindowShown ==
  ASSUME NEW w, IsWindow(w)
  PROVE  /\ IsWindow(show(w)) /\ IsWindow(hide(w))
         /\ is_visible_in_wm(show(w))
         /\ HasIcon(show(w)) <=> HasIcon(w)
         /\ HasIcon(hide(w)) <=> HasIcon(w)
BY DEF show, hide, IsWindow, WindowFields, is_visible_in_wm, HasIcon

LEMMA CreatedType ==
  ASSUME NEW new
  PROVE  /\ IsWindow(Created(new)) /\ InReach(Created(new))
         /\ HasIcon(Created(new)) <=> new.show_tray_icon
<1> DEFINE w == [shown |-> FALSE, in_wm |-> TRUE, iconified |-> FALSE,
                 has_been_showed |-> FALSE, tray |-> "none",
                 use_appindicator |-> FALSE, indicator |-> FALSE,
                 list |-> load_settings(new),
                 size |-> IF new.size > 0 THEN new.size ELSE DefaultSize,
                 switched_off |-> FALSE]
           with_icon == show_tray_icon(w, new.show_tray_icon)
<1>1. IsWindow(w)
  BY DEF IsWindow, WindowFields
<1>2. Created(new) = IF new.show_tray_icon /\ new.hide_app_to_tray_at_startup
                     THEN with_icon ELSE show(with_icon)
  BY DEF Created
<1> HIDE DEF w
<1>3. IsWindow(with_icon) /\ (HasIcon(with_icon) <=> new.show_tray_icon)
  BY <1>1, IconShown
<1> HIDE DEF with_icon
<1> QED
  BY <1>2, <1>3, WindowShown DEF InReach

(* What the window adds to the settings of the client. *)
LEMMA GatheredType ==
  ASSUME NEW w, NEW old, DOMAIN old = DOMAIN DefaultClient
  PROVE  /\ DOMAIN Gathered(w, old) = DOMAIN DefaultClient
         /\ Gathered(w, old).show_tray_icon = old.show_tray_icon
BY ClientFields DEF Gathered, save_settings

LEMMA EditedClientType ==
  ASSUME DOMAIN client = DOMAIN DefaultClient, NEW edited \in EditedClients
  PROVE  DOMAIN edited = DOMAIN DefaultClient
BY ClientFields DEF EditedClients

LEMMA WindowInit == InitWindow => WindowInv
BY DEF InitWindow, Init, WindowInv

LEMMA WindowStep == DaemonInv /\ WindowInv /\ [NextWindow]_allvars => WindowInv'
<1> SUFFICES ASSUME DaemonInv, WindowInv, [NextWindow]_allvars PROVE WindowInv'
  OBVIOUS
<1>1. app \in {"off", "running", "stopping"}
  BY DEF DaemonInv, DaemonTypeOK
<1>2. ASSUME NEW command \in Commands, Launch(command) PROVE WindowInv'
  <2>1. /\ app' = "running" /\ client' = FoundClient(client_config)
        /\ main_window' = Created(client')
    BY <1>2 DEF Launch, Start
  <2>2. DOMAIN client' = DOMAIN DefaultClient
    BY <2>1, ClientFields DEF FoundClient, read_client_config
  <2> QED
    BY <2>1, <2>2, CreatedType DEF WindowInv
<1>3. ASSUME NEW new \in Edited, NEW edited \in EditedClients, NEW ok \in Outcomes,
             Accept(new, edited, ok)
      PROVE  WindowInv'
  <2> DEFINE w == show_tray_icon(main_window, edited.show_tray_icon)
             off == w.switched_off \/ (HasIcon(main_window) /\ ~HasIcon(w)
                                           /\ ~is_visible_in_wm(w))
  <2>1. /\ app # "off" /\ app' = app /\ client' = Gathered(w, edited)
        /\ main_window' = [w EXCEPT !.switched_off = off]
    BY <1>3 DEF Accept, AcceptWindow
  <2>2. DOMAIN client' = DOMAIN DefaultClient
        /\ client'.show_tray_icon = edited.show_tray_icon
    BY <2>1, EditedClientType, GatheredType DEF WindowInv
  <2>3. IsWindow(main_window)
    BY <2>1 DEF WindowInv
  <2>4. /\ IsWindow(w) /\ (HasIcon(w) <=> edited.show_tray_icon)
        /\ \A name \in WindowFields \ {"tray", "indicator"} : w[name] = main_window[name]
    BY <2>3, IconShown
  <2> HIDE DEF w, off
  <2>5. /\ IsWindow(main_window') /\ main_window'.switched_off = off
        /\ HasIcon(main_window') <=> HasIcon(w)
        /\ is_visible_in_wm(main_window') <=> is_visible_in_wm(w)
    <3>1. /\ DOMAIN main_window' = WindowFields /\ main_window'.switched_off = off
          /\ \A name \in WindowFields \ {"switched_off"} : main_window'[name] = w[name]
      BY <2>1, <2>4 DEF IsWindow, WindowFields
    <3>2. /\ main_window'.tray = w.tray /\ main_window'.indicator = w.indicator
          /\ main_window'.use_appindicator = w.use_appindicator
          /\ main_window'.shown = w.shown /\ main_window'.in_wm = w.in_wm
      BY <3>1 DEF WindowFields
    <3> QED
      BY <2>4, <3>1, <3>2 DEF IsWindow, HasIcon, is_visible_in_wm
  <2>6. /\ w.switched_off = main_window.switched_off
        /\ is_visible_in_wm(w) <=> is_visible_in_wm(main_window)
    BY <2>4 DEF WindowFields, is_visible_in_wm
  <2>7. app' = "running" => InReach(main_window')
    BY <2>1, <2>5, <2>6 DEF InReach, WindowInv, off
  <2> QED
    BY <2>1, <2>2, <2>4, <2>5, <2>7 DEF WindowInv
<1>4. CASE TrayActivated
  <2>1. /\ app = "running" /\ app' = app /\ client' = client /\ HasIcon(main_window)
        /\ \/ main_window' = hide(main_window)
           \/ main_window' = show(hide(main_window))
    BY <1>4 DEF TrayActivated, IconAnswers, vars
  <2>2. IsWindow(main_window)
    BY <2>1 DEF WindowInv
  <2>3. IsWindow(main_window') /\ (HasIcon(main_window') <=> HasIcon(main_window))
    BY <2>1, <2>2, WindowShown
  <2> QED
    BY <2>1, <2>3 DEF WindowInv, InReach
<1>5. ASSUME Minimised \/ Restored \/ ClosedToTray
      PROVE  WindowInv'
  <2>1. app = "running" /\ app' = app /\ client' = client
    BY <1>5 DEF Minimised, Restored, ClosedToTray, vars
  <2>2. IsWindow(main_window) /\ (HasIcon(main_window) <=> client.show_tray_icon)
        /\ InReach(main_window)
    BY <2>1 DEF WindowInv
  <2>3. IsWindow(main_window') /\ (HasIcon(main_window') <=> HasIcon(main_window))
        /\ main_window'.switched_off = main_window.switched_off
    BY <1>5, <2>2 DEF Minimised, Restored, ClosedToTray, IsWindow, WindowFields, HasIcon
  <2>4. is_visible_in_wm(main_window) =>
            is_visible_in_wm(main_window') \/ client.show_tray_icon
    BY <1>5, <2>2 DEF Minimised, Restored, ClosedToTray, IsWindow, WindowFields,
                      is_visible_in_wm
  <2> QED
    BY <2>1, <2>2, <2>3, <2>4 DEF WindowInv, InReach
<1>6. CASE ConnectionChanged
  <2> DEFINE w == [main_window EXCEPT !.use_appindicator = ~@]
  <2>1. /\ app # "off" /\ app' = app /\ client' = client
        /\ main_window' = show_tray_icon(w, client.show_tray_icon)
    BY <1>6 DEF ConnectionChanged, vars
  <2>2. IsWindow(main_window) /\ (HasIcon(main_window) <=> client.show_tray_icon)
    BY <2>1 DEF WindowInv
  <2>3. IsWindow(w) /\ w.shown = main_window.shown /\ w.in_wm = main_window.in_wm
        /\ w.switched_off = main_window.switched_off
    BY <2>2 DEF IsWindow, WindowFields
  <2> HIDE DEF w
  <2>4. IsWindow(main_window') /\ (HasIcon(main_window') <=> client.show_tray_icon)
        /\ main_window'.shown = w.shown /\ main_window'.in_wm = w.in_wm
        /\ main_window'.switched_off = w.switched_off
    BY <2>1, <2>3, IconShown DEF WindowFields
  <2> QED
    BY <2>1, <2>2, <2>3, <2>4 DEF WindowInv, InReach, is_visible_in_wm
<1>7. CASE Arrange
  <2>1. app = "running" /\ app' = app /\ client' = client
    BY <1>7 DEF Arrange, WindowAnswers, vars
  <2>2. IsWindow(main_window) /\ (HasIcon(main_window) <=> client.show_tray_icon)
        /\ InReach(main_window)
    BY <2>1 DEF WindowInv
  <2>3. \/ \E columns : main_window' = [main_window EXCEPT !.list.columns = columns]
        \/ \E name : main_window' = [main_window EXCEPT !.list.sort_column = name]
        \/ \E size : main_window' = [main_window EXCEPT !.size = size]
    BY <1>7 DEF Arrange, Arranged
  <2>4. /\ DOMAIN main_window' = WindowFields
        /\ \A name \in WindowFields \ {"list", "size"} : main_window'[name] = main_window[name]
    BY <2>2, <2>3 DEF IsWindow, WindowFields
  <2>5. IsWindow(main_window') /\ (HasIcon(main_window') <=> HasIcon(main_window))
        /\ InReach(main_window')
    BY <2>2, <2>4 DEF IsWindow, WindowFields, HasIcon, InReach, is_visible_in_wm
  <2> QED
    BY <2>1, <2>2, <2>5 DEF WindowInv
<1>8. ASSUME NEW ok, AutoSave(ok) PROVE WindowInv'
  <2>1. /\ app # "off" /\ app' = app /\ main_window' = main_window
        /\ client' = Gathered(main_window, client)
    BY <1>8 DEF AutoSave, SaveClient
  <2>2. DOMAIN client' = DOMAIN DefaultClient
        /\ client'.show_tray_icon = client.show_tray_icon
    BY <2>1, GatheredType DEF WindowInv
  <2> QED
    BY <2>1, <2>2 DEF WindowInv
<1>9. ASSUME NEW ok, NEW client_ok, CloseAll(ok, client_ok) PROVE WindowInv'
  <2>1. /\ app = "running" /\ app' = "stopping" /\ main_window' = hide(main_window)
        /\ client' = Gathered(main_window, client)
    BY <1>9 DEF CloseAll, Close
  <2>2. DOMAIN client' = DOMAIN DefaultClient
        /\ client'.show_tray_icon = client.show_tray_icon
    BY <2>1, GatheredType DEF WindowInv
  <2>3. IsWindow(hide(main_window)) /\ (HasIcon(hide(main_window)) <=> HasIcon(main_window))
    BY <2>1, WindowShown DEF WindowInv
  <2> QED
    BY <2>1, <2>2, <2>3 DEF WindowInv
<1>10. CASE EndAll
  <2>1. Ended
    BY <1>10 DEF EndAll, Stop, Crash, AbortInWindow, AbortInUpdate
  <2> QED
    BY <2>1 DEF Ended, WindowInv
<1>11. ASSUME \/ Preferences \/ set_rate_limit_menu \/ UNCHANGED allvars
              \/ /\ \/ CancelWindow
                    \/ \E limit \in Limits \cup {dialog} : AcceptDialog(limit)
                    \/ CancelDialog
                    \/ \E command \in Commands : Command(command)
                    \/ ResetStatistics \/ Transfer
                    \/ DirectoryGone \/ DirectoryBack \/ NoticeGone
                    \/ \E ok \in Outcomes : SaveSession(ok)
                 /\ UNCHANGED main_window
       PROVE  WindowInv'
  <2>1. UNCHANGED <<app, client, main_window>>
    BY <1>11 DEF Preferences, set_rate_limit_menu, OpenWindow, OpenDialog, CancelWindow,
                 AcceptDialog, CancelDialog, Command, ResetStatistics, Transfer,
                 DirectoryGone, DirectoryBack, NoticeGone, SaveSession, allvars
  <2> QED
    BY <2>1 DEF WindowInv
<1> QED
  BY <1>2, <1>3, <1>4, <1>5, <1>6, <1>7, <1>8, <1>9, <1>10, <1>11 DEF NextWindow

-----------------------------------------------------------------------------
(* Induction, over sets of numbers: the library's theorems about it take an
   operator, which the provers cannot instantiate, but its facts about
   well-founded relations take a set. *)
LEMMA LeastExists ==
  ASSUME NEW T \in SUBSET Nat, T # {} PROVE \E x \in T : \A y \in T : x <= y
<1> DEFINE Less == {p \in Nat \X Nat : p[1] < p[2]}
<1>1. IsWellFoundedOn(Less, Nat)
  BY NatLessThanWellFounded DEF OpToRel
<1>2. PICK x \in T : \A y \in T : ~(<<y, x>> \in Less)
  BY <1>1, WFMin
<1>3. ASSUME NEW y \in T PROVE x <= y
  <2>1. <<y, x>> \in Nat \X Nat /\ <<y, x>>[1] = y /\ <<y, x>>[2] = x
    OBVIOUS
  <2>2. ~(y < x)
    BY <1>2, <2>1
  <2> QED
    BY <2>2
<1> QED
  BY <1>3

LEMMA Induction ==
  ASSUME NEW S, 0 \in S, \A n \in Nat : n \in S => n + 1 \in S
  PROVE  Nat \subseteq S
<1> DEFINE T == Nat \ S
<1> SUFFICES ASSUME T # {} PROVE FALSE
  OBVIOUS
<1>1. PICK x \in T : \A y \in T : x <= y
  BY LeastExists
<1>2. x # 0 /\ x \in Nat /\ x \notin S
  OBVIOUS
<1>3. x - 1 \in Nat /\ x - 1 \in S
  BY <1>1, <1>2
<1> QED
  BY <1>2, <1>3

(* The same, down from a number. *)
LEMMA InductionDown ==
  ASSUME NEW n \in Nat, NEW S, n + 1 \in S, \A k \in 1..n : k + 1 \in S => k \in S
  PROVE  1..(n + 1) \subseteq S
<1> DEFINE T == {i \in Nat : i > n \/ n + 1 - i \in S}
<1>1. 0 \in T
  OBVIOUS
<1>2. ASSUME NEW i \in Nat, i \in T PROVE i + 1 \in T
  <2>1. CASE i + 1 > n
    BY <2>1
  <2>2. CASE i + 1 <= n
    <3>1. n - i \in 1..n /\ n + 1 - i \in S /\ (n - i) + 1 = n + 1 - i
      BY <1>2, <2>2
    <3>2. n - i \in S /\ n + 1 - (i + 1) = n - i
      BY <3>1
    <3> QED
      BY <3>2
  <2> QED
    BY <2>1, <2>2
<1> HIDE DEF T
<1>3. Nat \subseteq T
  BY <1>1, <1>2, Induction
<1>4. ASSUME NEW k \in 1..(n + 1) PROVE k \in S
  <2>1. CASE k = n + 1
    BY <2>1
  <2>2. CASE k \in 1..n
    <3>1. n + 1 - k \in Nat /\ n + 1 - k <= n /\ n + 1 - (n + 1 - k) = k
      BY <2>2
    <3> QED
      BY <1>3, <3>1 DEF T
  <2> QED
    BY <2>1, <2>2
<1> QED
  BY <1>4

-----------------------------------------------------------------------------
(* The fold over the columns of the settings, from the last one. *)
Least(s) == CHOOSE x \in s : \A y \in s : x <= y
LoadStep(columns, f, s) ==
    IF s = {} THEN Columns
    ELSE load_column(columns[Least(s)], f[s \ {Least(s)}])

LEMMA LeastIs ==
  ASSUME NEW k \in Nat, NEW n \in Nat, NEW s \in SUBSET (k..n), s # {}
  PROVE  /\ Least(s) \in s /\ \A y \in s : Least(s) <= y
         /\ s \ {Least(s)} \subseteq (k + 1)..n
<1>1. \E x \in s : \A y \in s : x <= y
  <2>1. s \in SUBSET Nat
    OBVIOUS
  <2> QED
    BY <2>1, LeastExists
<1>2. Least(s) \in s /\ \A y \in s : Least(s) <= y
  BY <1>1 DEF Least
<1>3. ASSUME NEW y \in s \ {Least(s)} PROVE y \in (k + 1)..n
  <2>1. y \in k..n /\ Least(s) \in k..n /\ Least(s) <= y /\ y # Least(s)
    BY <1>2
  <2> QED
    BY <2>1
<1> QED
  BY <1>2, <1>3

LEMMA FoldExists ==
  ASSUME NEW n \in Nat, NEW columns
  PROVE  \E f : f = [s \in SUBSET (1..n) |-> LoadStep(columns, f, s)]
<1> DEFINE Right(f, k) == \A s \in SUBSET (k..n) : f[s] = LoadStep(columns, f, s)
           K == {k \in 1..(n + 1) : \E f : Right(f, k)}
<1>1. n + 1 \in K
  <2> DEFINE f == [s \in {{}} |-> Columns]
  <2>1. ASSUME NEW s \in SUBSET ((n + 1)..n) PROVE f[s] = LoadStep(columns, f, s)
    <3>1. s = {}
      OBVIOUS
    <3> QED
      BY <3>1 DEF LoadStep
  <2> HIDE DEF f
  <2>2. Right(f, n + 1) /\ n + 1 \in 1..(n + 1)
    BY <2>1
  <2> QED
    BY <2>2
<1>2. ASSUME NEW k \in 1..n, k + 1 \in K PROVE k \in K
  <2>1. PICK f : Right(f, k + 1)
    BY <1>2
  <2> DEFINE g == [s \in SUBSET (1..n) |->
                      IF s \subseteq (k + 1)..n THEN f[s] ELSE LoadStep(columns, f, s)]
  <2>2. ASSUME NEW s \in SUBSET (k..n) PROVE g[s] = LoadStep(columns, g, s)
    <3>1. s \in SUBSET (1..n)
      OBVIOUS
    <3>2. g[s] = LoadStep(columns, f, s)
      BY <2>1, <3>1
    <3>3. CASE s = {}
      BY <3>2, <3>3 DEF LoadStep
    <3>4. CASE s # {}
      <4> DEFINE rest == s \ {Least(s)}
      <4>1. rest \subseteq (k + 1)..n
        BY <3>4, LeastIs
      <4>2. rest \in SUBSET (1..n)
        BY <3>1
      <4>3. g[rest] = f[rest]
        BY <4>1, <4>2
      <4> HIDE DEF g
      <4> QED
        BY <3>2, <3>4, <4>3 DEF LoadStep
    <3> QED
      BY <3>3, <3>4
  <2> HIDE DEF g
  <2>3. Right(g, k)
    BY <2>2
  <2> QED
    BY <2>3
<1> HIDE DEF K
<1>3. 1 \in K
  BY <1>1, <1>2, InductionDown
<1>4. PICK f : Right(f, 1)
  BY <1>3 DEF K
<1> DEFINE g == [s \in SUBSET (1..n) |-> f[s]]
<1>5. ASSUME NEW s \in SUBSET (1..n) PROVE f[s] = LoadStep(columns, g, s)
  <2>1. f[s] = LoadStep(columns, f, s)
    BY <1>4
  <2>2. s \ {Least(s)} \in SUBSET (1..n)
    OBVIOUS
  <2>3. g[s \ {Least(s)}] = f[s \ {Least(s)}]
    BY <2>2
  <2> HIDE DEF g
  <2> QED
    BY <2>1, <2>3 DEF LoadStep
<1>6. g = [s \in SUBSET (1..n) |-> LoadStep(columns, g, s)]
  BY <1>5
<1> HIDE DEF g
<1> QED
  BY <1>6

-----------------------------------------------------------------------------
(* The columns of a list: those there are, each once. *)
OneOfEach(columns) ==
    \A i, j \in DOMAIN columns : columns[i].name = columns[j].name => i = j
IsList(columns) ==
    /\ columns \in [1..Len(Columns) -> Column_settings]
    /\ {columns[i].name : i \in 1..Len(Columns)} = ColumnNames
    /\ OneOfEach(columns)
Shown(columns) == \E i \in DOMAIN columns : columns[i].visible

LEMMA DefaultList == IsList(Columns) /\ Len(Columns) \in Nat \ {0}
<1>1. Columns \in Seq(Column_settings) /\ Columns # <<>> /\ OneOfEach(Columns)
  BY ClientSettingsAssumption DEF ClientSettingsAssumption, Column_settings, OneOfEach
<1>2. Len(Columns) \in Nat \ {0} /\ DOMAIN Columns = 1..Len(Columns)
      /\ Columns \in [1..Len(Columns) -> Column_settings]
  BY <1>1
<1> QED
  BY <1>1, <1>2 DEF IsList, ColumnNames

LEMMA ShowIsList ==
  ASSUME NEW columns, IsList(columns), NEW name, NEW visible \in BOOLEAN
  PROVE  LET shown == Show(columns, name, visible)
         IN  /\ IsList(shown)
             /\ \A i \in 1..Len(Columns) :
                   /\ shown[i].name = columns[i].name
                   /\ columns[i].name = name => shown[i].visible = visible
                   /\ columns[i].name # name => shown[i] = columns[i]
<1> DEFINE shown == Show(columns, name, visible)
           D == 1..Len(Columns)
<1>1. columns \in [D -> Column_settings]
  BY DEF IsList
<1>2. shown \in [D -> Column_settings]
  <2>1. ASSUME NEW i \in D
        PROVE  (IF columns[i].name = name THEN [columns[i] EXCEPT !.visible = visible]
                                          ELSE columns[i]) \in Column_settings
    BY <1>1 DEF Column_settings
  <2> QED
    BY <1>1, <2>1 DEF Show
<1>3. ASSUME NEW i \in D
      PROVE  /\ shown[i].name = columns[i].name
             /\ columns[i].name = name => shown[i].visible = visible
             /\ columns[i].name # name => shown[i] = columns[i]
  <2>1. columns[i] \in Column_settings /\ DOMAIN columns = D
    BY <1>1
  <2>2. shown[i] = IF columns[i].name = name THEN [columns[i] EXCEPT !.visible = visible]
                                             ELSE columns[i]
    BY <2>1 DEF Show
  <2> QED
    BY <2>1, <2>2 DEF Column_settings
<1> HIDE DEF shown
<1>4. {shown[i].name : i \in D} = {columns[i].name : i \in D}
  BY <1>3
<1>5. OneOfEach(shown)
  <2>1. DOMAIN shown = D /\ DOMAIN columns = D
    BY <1>1, <1>2
  <2> QED
    BY <1>3, <2>1 DEF IsList, OneOfEach
<1> QED
  BY <1>2, <1>3, <1>4, <1>5 DEF IsList, shown

LEMMA PlaceIs ==
  ASSUME NEW columns, IsList(columns), NEW name \in ColumnNames
  PROVE  /\ Place(columns, name) \in 1..Len(Columns)
         /\ columns[Place(columns, name)].name = name
<1>1. DOMAIN columns = 1..Len(Columns)
  BY DEF IsList
<1>2. \E i \in DOMAIN columns : columns[i].name = name
  BY <1>1 DEF IsList
<1> QED
  BY <1>1, <1>2 DEF Place

(* What is moved is the same columns in another order. *)
LEMMA MovedIsList ==
  ASSUME NEW columns, IsList(columns),
         NEW from \in 1..Len(Columns), NEW to \in 1..Len(Columns)
  PROVE  /\ IsList(Moved(columns, from, to))
         /\ Shown(columns) => Shown(Moved(columns, from, to))
<1> DEFINE moved == Moved(columns, from, to)
           D == 1..Len(Columns)
           p(i) == IF i = to THEN from
                   ELSE IF from <= i /\ i < to THEN i + 1
                   ELSE IF to < i /\ i <= from THEN i - 1 ELSE i
           q(i) == IF i = from THEN to
                   ELSE IF from < i /\ i <= to THEN i - 1
                   ELSE IF to <= i /\ i < from THEN i + 1 ELSE i
<1>1. columns \in [D -> Column_settings] /\ DOMAIN columns = D
  BY DEF IsList
<1>2. Len(Columns) \in Nat
  BY DefaultList
<1>3. \A i \in D : p(i) \in D /\ q(i) \in D /\ p(q(i)) = i /\ q(p(i)) = i
  BY <1>2
<1>4. moved = [i \in D |-> columns[p(i)]]
  <2>1. ASSUME NEW i \in D
        PROVE  (CASE i = to -> columns[from]
                  [] from <= i /\ i < to -> columns[i + 1]
                  [] to < i /\ i <= from -> columns[i - 1]
                  [] OTHER -> columns[i]) = columns[p(i)]
    BY <1>2
  <2> QED
    BY <1>1, <2>1 DEF Moved
<1> HIDE DEF p, q, moved
<1>5. moved \in [D -> Column_settings] /\ DOMAIN moved = D
  BY <1>1, <1>3, <1>4
<1>6. \A i \in D : moved[i] = columns[p(i)] /\ moved[q(i)] = columns[i]
  BY <1>3, <1>4
<1>7. {moved[i].name : i \in D} = {columns[i].name : i \in D}
  <2>1. ASSUME NEW i \in D PROVE \E j \in D : moved[i].name = columns[j].name
    BY <1>3, <1>6
  <2>2. ASSUME NEW i \in D PROVE \E j \in D : moved[j].name = columns[i].name
    BY <1>3, <1>6
  <2> DEFINE A == {moved[i].name : i \in D}
             B == {columns[i].name : i \in D}
  <2> HIDE DEF D
  <2>3. A \subseteq B
    BY <2>1
  <2>4. B \subseteq A
    BY <2>2
  <2> QED
    BY <2>3, <2>4
<1>8. OneOfEach(moved)
  <2>1. ASSUME NEW i \in D, NEW j \in D, moved[i].name = moved[j].name PROVE i = j
    <3>1. columns[p(i)].name = columns[p(j)].name
      BY <1>6, <2>1
    <3>2. p(i) = p(j)
      BY <1>1, <1>3, <3>1 DEF IsList, OneOfEach
    <3> QED
      BY <1>3, <3>2
  <2> QED
    BY <1>5, <2>1 DEF OneOfEach
<1>9. Shown(columns) => Shown(moved)
  BY <1>1, <1>3, <1>5, <1>6 DEF Shown
<1> QED
  BY <1>5, <1>7, <1>8, <1>9 DEF IsList, moved

LEMMA CheckedIsList ==
  ASSUME NEW columns, IsList(columns), NEW name \in ColumnNames
  PROVE  LET checked == check_columns_visibility(columns, name)
         IN  IsList(checked) /\ Shown(checked)
<1> DEFINE shown == Show(columns, name, TRUE)
<1>1. CASE Shown(columns)
  BY <1>1 DEF check_columns_visibility, Shown
<1>2. CASE ~Shown(columns)
  <2>1. check_columns_visibility(columns, name) = shown
    BY <1>2 DEF check_columns_visibility, Shown
  <2>2. IsList(shown) /\ \A i \in 1..Len(Columns) :
                             columns[i].name = name => shown[i].visible = TRUE
    <3>1. TRUE \in BOOLEAN
      OBVIOUS
    <3> QED
      BY <3>1, ShowIsList
  <2>3. \E i \in 1..Len(Columns) : columns[i].name = name
    BY PlaceIs
  <2>4. DOMAIN shown = 1..Len(Columns)
    BY <2>2 DEF IsList
  <2> HIDE DEF shown
  <2>5. Shown(shown)
    BY <2>2, <2>3, <2>4 DEF Shown
  <2> QED
    BY <2>1, <2>2, <2>5
<1> QED
  BY <1>1, <1>2

(* The columns of the settings from the k-th on that are known: they come
   first in the list, in their order, as they were saved. *)
Known(columns) == {i \in DOMAIN columns : columns[i].name \in ColumnNames}
Before(columns, k, i) == {columns[m].name : m \in {m \in Known(columns) : k <= m /\ m < i}}
NamesBefore(list, j) == {list[m].name : m \in 1..(j - 1)}
InOrder(list, columns, k) ==
    \A i \in Known(columns) :
        i >= k => \E j \in 1..Len(Columns) :
                      list[j] = columns[i] /\ NamesBefore(list, j) = Before(columns, k, i)

LEMMA LoadKeepsOrder ==
  ASSUME NEW list, IsList(list), NEW columns \in Seq(Column_settings), OneOfEach(columns),
         NEW k \in 1..Len(columns), InOrder(list, columns, k + 1)
  PROVE  LET loaded == load_column(columns[k], list)
         IN  IsList(loaded) /\ InOrder(loaded, columns, k)
<1> DEFINE loaded == load_column(columns[k], list)
           N == Len(Columns)
           name == columns[k].name
           shown == Show(list, name, columns[k].visible)
           p == Place(list, name)
<1>1. /\ N \in Nat \ {0} /\ list \in [1..N -> Column_settings]
      /\ DOMAIN columns = 1..Len(columns) /\ Len(columns) \in Nat
      /\ \A i \in 1..Len(columns) : columns[i] \in Column_settings
  BY DefaultList DEF IsList
<1>2. CASE name \notin ColumnNames
  <2>1. loaded = list
    BY <1>2 DEF load_column
  <2>2. k \notin Known(columns)
    BY <1>2 DEF Known
  <2>3. ASSUME NEW i \in Known(columns), i >= k
        PROVE  i >= k + 1 /\ Before(columns, k, i) = Before(columns, k + 1, i)
    <3>1. \A m \in Known(columns) : m \in Nat /\ m # k
      BY <1>1, <2>2 DEF Known
    <3>2. \A m \in Known(columns) : k <= m <=> k + 1 <= m
      BY <3>1
    <3> QED
      BY <2>3, <3>2 DEF Before
  <2> QED
    BY <2>1, <2>3 DEF InOrder
<1>3. CASE name \in ColumnNames
  <2>1. loaded = Moved(shown, p, 1)
    BY <1>3 DEF load_column
  <2>2. p \in 1..N /\ list[p].name = name
    BY <1>3, PlaceIs
  <2>3. /\ IsList(shown)
        /\ \A i \in 1..N : /\ shown[i].name = list[i].name
                           /\ list[i].name = name => shown[i].visible = columns[k].visible
                           /\ list[i].name # name => shown[i] = list[i]
    <3>1. columns[k].visible \in BOOLEAN
      BY <1>1 DEF Column_settings
    <3> QED
      BY <3>1, ShowIsList
  <2>4. shown \in [1..N -> Column_settings] /\ DOMAIN shown = 1..N
    BY <2>3 DEF IsList
  <2>5. IsList(loaded)
    BY <1>1, <2>1, <2>2, <2>3, MovedIsList
  <2>6. /\ loaded[1] = shown[p]
        /\ \A m \in 1..N : 1 < m /\ m <= p => loaded[m] = shown[m - 1]
        /\ \A m \in 1..N : m > p => loaded[m] = shown[m]
    <3>1. loaded = [i \in 1..N |-> CASE i = 1 -> shown[p]
                                     [] p <= i /\ i < 1 -> shown[i + 1]
                                     [] 1 < i /\ i <= p -> shown[i - 1]
                                     [] OTHER -> shown[i]]
      BY <2>1, <2>4 DEF Moved
    <3> QED
      BY <1>1, <2>2, <3>1
  <2>7. shown[p] = columns[k]
    <3>1. /\ shown[p] \in Column_settings /\ columns[k] \in Column_settings /\ shown[p].name = columns[k].name
          /\ shown[p].visible = columns[k].visible
      BY <1>1, <2>2, <2>3, <2>4
    <3> QED
      BY <3>1 DEF Column_settings
  <2> HIDE DEF loaded, shown, p, N
  <2>8. ASSUME NEW i \in Known(columns), i >= k
        PROVE  \E j \in 1..N : loaded[j] = columns[i]
                                   /\ NamesBefore(loaded, j) = Before(columns, k, i)
    <3>1. CASE i = k
      <4>1. NamesBefore(loaded, 1) = {}
        BY DEF NamesBefore
      <4>2. Before(columns, k, k) = {}
        <5>1. ~ \E m \in Known(columns) : k <= m /\ m < k
          BY <1>1 DEF Known
        <5> QED
          BY <5>1 DEF Before
      <4> QED
        BY <1>1, <2>6, <2>7, <3>1, <4>1, <4>2
    <3>2. CASE i # k
      <4>1. i \in 1..Len(columns) /\ i >= k + 1 /\ columns[i].name # name
        BY <1>1, <2>8, <3>2 DEF Known, OneOfEach
      <4>2. PICK j \in 1..N : list[j] = columns[i] /\ NamesBefore(list, j) = Before(columns, k + 1, i)
        BY <4>1 DEF InOrder, N
      <4>3. name \notin Before(columns, k + 1, i)
        <5>1. ASSUME NEW m \in Known(columns), k + 1 <= m PROVE columns[m].name # name
          BY <1>1, <5>1 DEF Known, OneOfEach
        <5> QED
          BY <5>1 DEF Before
      <4>4. j < p
        <5>1. j # p
          BY <2>2, <4>1, <4>2
        <5>2. ~(p < j)
          <6>1. SUFFICES ASSUME p < j PROVE name \in NamesBefore(list, j)
            BY <4>2, <4>3
          <6>2. p \in 1..(j - 1)
            BY <1>1, <2>2, <6>1
          <6> QED
            BY <2>2, <6>2 DEF NamesBefore
        <5> QED
          BY <1>1, <2>2, <5>1, <5>2
      <4>5. j + 1 \in 1..N /\ loaded[j + 1] = columns[i]
        <5>1. j + 1 \in 1..N /\ 1 < j + 1 /\ j + 1 <= p /\ (j + 1) - 1 = j
          BY <1>1, <2>2, <4>4
        <5>2. loaded[j + 1] = shown[j]
          BY <2>6, <5>1
        <5>3. shown[j] = list[j]
          BY <2>3, <4>1, <4>2
        <5> QED
          BY <4>2, <5>1, <5>2, <5>3
      <4>6. NamesBefore(loaded, j + 1) = {name} \cup NamesBefore(list, j)
        <5>1. \A m \in 1..j : m \in 1..N /\ m <= p
          BY <1>1, <2>2, <4>4
        <5>2. loaded[1].name = name
          BY <2>6, <2>7
        <5>3. ASSUME NEW m \in 1..j, m # 1
              PROVE  m - 1 \in 1..(j - 1) /\ loaded[m].name = list[m - 1].name
          <6>1. m - 1 \in 1..(j - 1) /\ 1 < m /\ m - 1 \in 1..N
            BY <5>1, <5>3
          <6> QED
            BY <2>3, <2>6, <5>1, <6>1
        <5>4. ASSUME NEW m \in 1..(j - 1)
              PROVE  m + 1 \in 1..j /\ loaded[m + 1].name = list[m].name
          <6>1. m + 1 \in 1..j /\ m + 1 # 1 /\ (m + 1) - 1 = m
            OBVIOUS
          <6> QED
            BY <5>3, <6>1
        <5>5. NamesBefore(loaded, j + 1) = {loaded[m].name : m \in 1..j}
          BY DEF NamesBefore
        <5>6. 1 \in 1..j
          OBVIOUS
        <5> DEFINE A == {loaded[m].name : m \in 1..j}
                   B == {list[m].name : m \in 1..(j - 1)}
        <5>7. A \subseteq {name} \cup B
          BY <5>2, <5>3
        <5>8. {name} \cup B \subseteq A
          BY <5>2, <5>4, <5>6
        <5> QED
          BY <5>5, <5>7, <5>8 DEF NamesBefore
      <4>7. Before(columns, k, i) = {name} \cup Before(columns, k + 1, i)
        <5>1. k \in Known(columns) /\ k <= k /\ k < i /\ k \in Nat
          BY <1>1, <1>3, <4>1 DEF Known
        <5>2. \A m \in Known(columns) : k <= m <=> m = k \/ k + 1 <= m
          BY <1>1 DEF Known
        <5> DEFINE A == {columns[m].name : m \in {m \in Known(columns) : k <= m /\ m < i}}
                   B == {columns[m].name : m \in {m \in Known(columns) : k + 1 <= m /\ m < i}}
        <5>3. A \subseteq {name} \cup B
          BY <5>2
        <5>4. {name} \cup B \subseteq A
          BY <5>1, <5>2
        <5> QED
          BY <5>3, <5>4 DEF Before
      <4> QED
        BY <4>2, <4>5, <4>6, <4>7
    <3> QED
      BY <3>1, <3>2
  <2> QED
    BY <2>5, <2>8 DEF InOrder, N, loaded
<1> QED
  BY <1>2, <1>3

(* The fold over the columns of the settings, which goes from the last one on. *)
LEMMA ColumnsAreLoaded ==
  ASSUME NEW from, from.columns \in Seq(Column_settings), OneOfEach(from.columns)
  PROVE  \E list : /\ IsList(list) /\ InOrder(list, from.columns, 1)
                   /\ load_settings(from).columns =
                          check_columns_visibility(list, Columns[1].name)
<1> DEFINE columns == from.columns
           n == Len(columns)
           f == CHOOSE f : f = [s \in SUBSET (DOMAIN columns) |-> LoadStep(columns, f, s)]
<1>1. load_settings(from).columns =
          check_columns_visibility(f[DOMAIN columns], Columns[1].name)
  BY DEF load_settings, FoldRight, MapThenFoldSet, Min, LoadStep, Least
<1>2. n \in Nat /\ DOMAIN columns = 1..n
  OBVIOUS
<1>3. f = [s \in SUBSET (1..n) |-> LoadStep(columns, f, s)]
  <2>1. \E g : g = [s \in SUBSET (1..n) |-> LoadStep(columns, g, s)]
    BY <1>2, FoldExists
  <2> QED
    BY <1>2, <2>1
<1> HIDE DEF f
<1> DEFINE K == {k \in 1..(n + 1) : /\ IsList(f[k..n]) /\ InOrder(f[k..n], columns, k)}
<1>4. n + 1 \in K
  <2>1. (n + 1)..n = {} /\ {} \in SUBSET (1..n)
    BY <1>2
  <2>2. f[{}] = LoadStep(columns, f, {})
    BY <1>3, <2>1
  <2>3. f[(n + 1)..n] = Columns
    BY <2>1, <2>2 DEF LoadStep
  <2>4. ~ \E i \in Known(columns) : i >= n + 1
    BY <1>2 DEF Known
  <2>5. InOrder(Columns, columns, n + 1)
    BY <2>4 DEF InOrder
  <2> QED
    BY <1>2, <2>3, <2>5, DefaultList
<1>5. ASSUME NEW k \in 1..n, k + 1 \in K PROVE k \in K
  <2>1. k..n # {} /\ k..n \in SUBSET (1..n) /\ k \in k..n /\ k \in Nat
    BY <1>2
  <2>2. Least(k..n) = k
    <3> DEFINE s == k..n
    <3>1. s \in SUBSET (k..n) /\ s # {} /\ k \in s /\ n \in Nat
      BY <1>2, <2>1
    <3> HIDE DEF s
    <3>2. Least(s) \in s /\ Least(s) <= k
      BY <2>1, <3>1, LeastIs
    <3> QED
      BY <2>1, <3>2 DEF s
  <2>3. (k..n) \ {k} = (k + 1)..n
    BY <1>2
  <2>4. f[k..n] = LoadStep(columns, f, k..n)
    BY <1>3, <2>1
  <2>5. f[k..n] = load_column(columns[k], f[(k + 1)..n])
    BY <2>1, <2>2, <2>3, <2>4 DEF LoadStep
  <2>6. k \in 1..Len(columns) /\ columns \in Seq(Column_settings) /\ OneOfEach(columns)
    OBVIOUS
  <2> DEFINE list == f[(k + 1)..n]
  <2>7. IsList(list) /\ InOrder(list, columns, k + 1)
    BY <1>5
  <2> HIDE DEF list
  <2>8. IsList(load_column(columns[k], list)) /\ InOrder(load_column(columns[k], list), columns, k)
    BY <2>6, <2>7, LoadKeepsOrder
  <2> QED
    BY <1>2, <2>5, <2>8 DEF list
<1> HIDE DEF K
<1>6. 1 \in K
  <2> HIDE DEF n
  <2>1. 1..(n + 1) \subseteq K
    BY <1>2, <1>4, <1>5, InductionDown
  <2> QED
    BY <1>2, <2>1
<1> QED
  BY <1>1, <1>2, <1>6 DEF K

(* The list as it is loaded: all of its columns, one at least to be seen, and
   those the settings know in their order. *)
LEMMA SettingsAreLoaded ==
  ASSUME NEW from, from.columns \in Seq(Column_settings), OneOfEach(from.columns)
  PROVE  LET list == load_settings(from)
             columns == from.columns
             known == Known(columns)
         IN  /\ IsList(list.columns) /\ Shown(list.columns)
             /\ \A i \in known : \E j \in DOMAIN list.columns :
                   /\ list.columns[j].name = columns[i].name
                   /\ {list.columns[k].name : k \in 1..(j - 1)}
                          = {columns[k].name : k \in {k \in known : k < i}}
                   /\ (\E k \in known : columns[k].visible) =>
                          list.columns[j].visible = columns[i].visible
<1> DEFINE columns == from.columns
           loaded == load_settings(from).columns
           first == Columns[1].name
<1>1. PICK list : /\ IsList(list) /\ InOrder(list, columns, 1)
                  /\ loaded = check_columns_visibility(list, first)
  BY ColumnsAreLoaded
<1>2. first \in ColumnNames
  BY DefaultList DEF IsList
<1>3. IsList(loaded) /\ Shown(loaded)
  BY <1>1, <1>2, CheckedIsList
<1> HIDE DEF loaded, first
<1>4. DOMAIN list = 1..Len(Columns) /\ DOMAIN loaded = 1..Len(Columns) /\ Len(Columns) \in Nat
  BY <1>1, <1>3, DefaultList DEF IsList
<1>5. \A m \in 1..Len(Columns) : loaded[m].name = list[m].name
  <2>1. CASE Shown(list)
    BY <1>1, <2>1 DEF Shown, check_columns_visibility
  <2>2. CASE ~Shown(list)
    <3> DEFINE shown == Show(list, first, TRUE)
    <3>1. loaded = shown
      BY <1>1, <2>2 DEF Shown, check_columns_visibility
    <3>2. list \in [1..Len(Columns) -> Column_settings]
      BY <1>1 DEF IsList
    <3>3. \A m \in 1..Len(Columns) : shown[m].name = list[m].name
      BY <1>4, <3>2 DEF Show, Column_settings
    <3> QED
      BY <3>1, <3>3
  <2> QED
    BY <2>1, <2>2
<1>6. ASSUME NEW i \in Known(columns)
      PROVE  \E j \in DOMAIN loaded :
                 /\ loaded[j].name = columns[i].name
                 /\ {loaded[k].name : k \in 1..(j - 1)}
                        = {columns[k].name : k \in {k \in Known(columns) : k < i}}
                 /\ (\E k \in Known(columns) : columns[k].visible) =>
                        loaded[j].visible = columns[i].visible
  <2>1. \A k \in Known(columns) : k \in Nat /\ k >= 1
    BY DEF Known
  <2>2. PICK j \in 1..Len(Columns) : list[j] = columns[i] /\ NamesBefore(list, j) = Before(columns, 1, i)
    BY <1>1, <2>1 DEF InOrder
  <2>3. loaded[j].name = columns[i].name
    BY <1>5, <2>2
  <2>4. {loaded[k].name : k \in 1..(j - 1)} = NamesBefore(list, j)
    <3>1. \A k \in 1..(j - 1) : k \in 1..Len(Columns)
      BY <1>4
    <3> QED
      BY <1>5, <3>1 DEF NamesBefore
  <2>5. Before(columns, 1, i) = {columns[k].name : k \in {k \in Known(columns) : k < i}}
    BY <2>1 DEF Before
  <2>6. ASSUME NEW k \in Known(columns), columns[k].visible
        PROVE  loaded[j].visible = columns[i].visible
    <3>1. \E m \in 1..Len(Columns) : list[m] = columns[k]
      BY <1>1, <2>1 DEF InOrder
    <3>2. Shown(list)
      BY <1>4, <2>6, <3>1 DEF Shown
    <3>3. loaded = list
      BY <1>1, <3>2 DEF Shown, check_columns_visibility
    <3> QED
      BY <2>2, <3>3
  <2> QED
    BY <1>4, <2>2, <2>3, <2>4, <2>5, <2>6
<1> QED
  BY <1>3, <1>6 DEF loaded

-----------------------------------------------------------------------------
(* The settings of the client, and the file they are kept in. *)
IsClient(c) ==
    /\ c \in Client_settings /\ c.update_interval >= MinInterval
    /\ OneOfEach(c.columns)
    /\ \A i \in DOMAIN c.columns : NewName(c.columns[i].name) = c.columns[i].name

LEMMA NewNames ==
  \A name \in Names : NewName(name) \in Names /\ NewName(NewName(name)) = NewName(name)
<1> SUFFICES ASSUME NEW name \in Names, NEW new, new = NewName(name)
             PROVE  new \in Names /\ NewName(new) = new
  OBVIOUS
<1>1. CASE new = "payload_download_speed" \/ new = "payload_upload_speed"
  BY <1>1 DEF NewName, Names
<1>2. CASE new \notin {"payload_download_speed", "payload_upload_speed"}
  <2>1. new = name
    BY <1>2 DEF NewName
  <2> QED
    BY <2>1
<1> QED
  BY <1>1, <1>2

LEMMA DefaultIsClient == IsClient(DefaultClient)
<1>1. <<>> \in Seq(Column_settings) /\ DOMAIN <<>> = {}
  OBVIOUS
<1>2. DefaultClient \in Client_settings
  BY <1>1 DEF DefaultClient, Client_settings, Names
<1>3. DefaultClient.update_interval >= MinInterval
  BY ClientSettingsAssumption DEF ClientSettingsAssumption, DefaultClient
<1>4. DefaultClient.columns = <<>>
  BY DEF DefaultClient
<1> QED
  BY <1>1, <1>2, <1>3, <1>4 DEF IsClient, OneOfEach

LEMMA ColumnsRead ==
  ASSUME NEW file, IsClientFile(file)
  PROVE  /\ read_columns(file) \in Seq(Column_settings)
         /\ \A i \in DOMAIN read_columns(file) :
               NewName(read_columns(file)[i].name) = read_columns(file)[i].name
<1> DEFINE read == [i \in DOMAIN file.columns |-> read_column_config(file.columns[i])]
           icon == <<[name |-> "status_icon", visible |-> TRUE]>>
           first == IF file.version < 5 THEN icon ELSE <<>>
           Good(columns) == /\ columns \in Seq(Column_settings)
                            /\ \A i \in DOMAIN columns : NewName(columns[i].name) = columns[i].name
<1>1. CASE "columns" \notin DOMAIN file
  BY <1>1 DEF read_columns
<1>2. CASE "columns" \in DOMAIN file
  <2>1. file.columns \in Seq(Column_settings)
    <3>1. file["columns"] \in OptionOf("columns")
      BY <1>2 DEF IsClientFile
    <3> QED
      BY <3>1 DEF OptionOf, Column_settings
  <2>2. ASSUME NEW i \in DOMAIN file.columns
        PROVE  /\ read_column_config(file.columns[i]) \in Column_settings
               /\ read_column_config(file.columns[i]).name = NewName(file.columns[i].name)
               /\ file.columns[i].name \in Names
    <3>1. file.columns[i] \in Column_settings
      BY <2>1
    <3>2. file.columns[i].name \in Names /\ NewName(file.columns[i].name) \in Names
      BY <3>1, NewNames DEF Column_settings
    <3> QED
      BY <3>1, <3>2 DEF read_column_config, Column_settings
  <2>3. Good(read)
    <3>1. DOMAIN file.columns = 1..Len(file.columns) /\ Len(file.columns) \in Nat
      BY <2>1
    <3>2. read \in [1..Len(file.columns) -> Column_settings]
      BY <2>2, <3>1
    <3>3. read \in Seq(Column_settings)
      BY <3>1, <3>2
    <3>4. \A i \in DOMAIN read : NewName(read[i].name) = read[i].name
      BY <2>2, NewNames
    <3> QED
      BY <3>3, <3>4
  <2>4. Good(first)
    <3>1. Good(<<>>)
      OBVIOUS
    <3>2. Good(icon)
      <4>1. icon \in Seq(Column_settings) /\ DOMAIN icon = {1} /\ icon[1].name = "status_icon"
        <5>1. [name |-> "status_icon", visible |-> TRUE] \in Column_settings
          BY DEF Column_settings, Names
        <5> QED
          BY <5>1
      <4>2. NewName("status_icon") = "status_icon"
        BY DEF NewName
      <4>3. \A i \in DOMAIN icon : icon[i].name = "status_icon"
        BY <4>1
      <4> HIDE DEF icon
      <4> QED
        BY <4>1, <4>2, <4>3
    <3> HIDE DEF icon, Good
    <3> QED
      BY <3>1, <3>2
  <2>5. read_columns(file) = first \o read
    BY <1>2 DEF read_columns
  <2> HIDE DEF first, read
  <2>6. Good(first \o read)
    <3>1. first \o read \in Seq(Column_settings)
      BY <2>3, <2>4
    <3>2. ASSUME NEW i \in DOMAIN (first \o read)
          PROVE  \/ \E j \in DOMAIN first : (first \o read)[i] = first[j]
                 \/ \E j \in DOMAIN read : (first \o read)[i] = read[j]
      BY <2>3, <2>4
    <3> QED
      BY <2>3, <2>4, <3>1, <3>2
  <2> QED
    BY <2>5, <2>6
<1> QED
  BY <1>1, <1>2

LEMMA ReadIsClient ==
  ASSUME NEW file, IsClientFile(file) PROVE IsClient(read_client_config(file))
<1> DEFINE c == read_client_config(file)
<1>1. \A name \in DOMAIN file : file[name] \in OptionOf(name)
  BY DEF IsClientFile
<1>2. \A name \in {"show_tray_icon", "hide_main_window_to_tray_at_startup",
                   "minimize_to_tray", "close_to_tray"} :
          Option(file, name, TRUE) \in BOOLEAN
  BY <1>1 DEF Option, OptionOf
<1>3. Option(file, "update_interval", 1000) \in Int
  BY <1>1 DEF Option, OptionOf
<1>4. read_size(file) \in Nat
  BY <1>1 DEF read_size, Option, OptionOf
<1>5. Option(file, "sort_column", NoColumn) \in Names
  <2>1. "sort_column" \in DOMAIN file => file["sort_column"] \in Names
    BY <1>1 DEF OptionOf
  <2>2. NoColumn \in Names
    BY DEF Names
  <2> QED
    BY <2>1, <2>2 DEF Option
<1>6. read_columns(file) \in Seq(Column_settings)
  BY ColumnsRead
<1>7. read_path(file, "download_to", DefaultPath, DefaultPath) \in Paths \cup {DefaultPath}
  <2>1. "download_to" \in DOMAIN file =>
            file["download_to"] \in Paths \cup BadPaths \cup {DefaultPath}
    BY <1>1 DEF OptionOf
  <2>2. file.version < 4 /\ "download_to" \in DOMAIN file => file["download_to"] \notin BadPaths
    BY DEF IsClientFile
  <2> QED
    BY <2>1, <2>2 DEF read_path, checked_path, Option
<1>8. read_path(file, "copy_finished_to", NoPath, NoPath) \in Paths \cup {NoPath}
  <2>1. "copy_finished_to" \in DOMAIN file => file["copy_finished_to"] \in Paths \cup BadPaths
    BY <1>1 DEF OptionOf
  <2>2. file.version < 4 /\ "copy_finished_to" \in DOMAIN file =>
            file["copy_finished_to"] \notin BadPaths
    BY DEF IsClientFile
  <2> QED
    BY <2>1, <2>2 DEF read_path, checked_path, Option
<1>9. c.update_interval \in Int /\ c.update_interval >= MinInterval
  BY <1>3, ClientSettingsAssumption DEF ClientSettingsAssumption, read_client_config
<1>10. c \in Client_settings
  <2>1. c.update_interval = LET interval == Option(file, "update_interval", 1000)
                            IN  IF interval < MinInterval THEN MinInterval ELSE interval
    BY DEF read_client_config
  <2> QED
    BY <1>2, <1>4, <1>5, <1>6, <1>7, <1>8, <1>9 DEF read_client_config, Client_settings, Column_settings
<1>11. c.columns = read_columns(file)
  BY DEF read_client_config
<1>12. OneOfEach(read_columns(file))
  BY DEF IsClientFile, OneOfEach
<1> QED
  BY <1>9, <1>10, <1>11, <1>12, ColumnsRead DEF IsClient

(* What is written is read as it was. *)
LEMMA WrittenIsRead ==
  ASSUME NEW c, IsClient(c)
  PROVE  /\ read_client_config(write_client_config(c)) = c
         /\ \E options \in SUBSET ClientOptions :
                write_client_config(c) \in [options -> OptionValues]
<1> DEFINE file == write_client_config(c)
           always == {"version", "show_tray_icon", "hide_main_window_to_tray_at_startup",
                      "minimize_to_tray", "close_to_tray", "update_interval", "columns",
                      "download_to"}
<1>1. /\ always \subseteq DOMAIN file /\ DOMAIN file \subseteq ClientOptions
      /\ "height" \in DOMAIN file <=> c.size > 0
      /\ "sort_column" \in DOMAIN file <=> c.sort_column # NoColumn
      /\ "copy_finished_to" \in DOMAIN file <=> c.copy_finished_to # NoPath
  <2>1. DOMAIN file = ClientOptions \ Unset(c)
    BY DEF write_client_config
  <2>2. /\ Unset(c) \subseteq {"height", "sort_column", "copy_finished_to"}
        /\ "height" \in Unset(c) <=> ~(c.size > 0)
        /\ "sort_column" \in Unset(c) <=> c.sort_column = NoColumn
        /\ "copy_finished_to" \in Unset(c) <=> c.copy_finished_to = NoPath
    BY DEF Unset
  <2> QED
    BY <2>1, <2>2 DEF ClientOptions
<1>2. ASSUME NEW option \in DOMAIN file
      PROVE  file[option] = CASE option = "version" -> CurrentVersion
                              [] option = "hide_main_window_to_tray_at_startup" ->
                                     c.hide_app_to_tray_at_startup
                              [] option = "height" -> c.size
                              [] OTHER -> c[option]
  BY DEF write_client_config
<1>3. file = [option \in DOMAIN file |-> file[option]]
  BY DEF write_client_config
<1> HIDE DEF file
<1>4. /\ c.size > 0 => file["height"] = c.size
      /\ c.sort_column # NoColumn => file["sort_column"] = c.sort_column
      /\ c.copy_finished_to # NoPath => file["copy_finished_to"] = c.copy_finished_to
  BY <1>1, <1>2
<1>7. /\ c \in Client_settings /\ c.size \in Nat /\ c.columns \in Seq(Column_settings)
      /\ c.update_interval \in Int /\ c.update_interval >= MinInterval /\ MinInterval \in Int
      /\ c.sort_column \in Names
      /\ c.download_to \in Paths \cup {DefaultPath}
      /\ c.copy_finished_to \in Paths \cup {NoPath}
      /\ {c.show_tray_icon, c.hide_app_to_tray_at_startup, c.minimize_to_tray,
          c.close_to_tray} \subseteq BOOLEAN
  BY ClientSettingsAssumption DEF ClientSettingsAssumption, IsClient, Client_settings
<1>8. /\ file.version = CurrentVersion /\ file.columns = c.columns
      /\ file.update_interval = c.update_interval /\ file.download_to = c.download_to
      /\ file.show_tray_icon = c.show_tray_icon
      /\ file.hide_main_window_to_tray_at_startup = c.hide_app_to_tray_at_startup
      /\ file.minimize_to_tray = c.minimize_to_tray /\ file.close_to_tray = c.close_to_tray
  BY <1>1, <1>2
<1>9. read_columns(file) = c.columns
  <2>1. "columns" \in DOMAIN file /\ ~(file.version < 5)
    BY <1>1, <1>8 DEF CurrentVersion
  <2> DEFINE read == [i \in DOMAIN c.columns |-> read_column_config(c.columns[i])]
  <2>2. ASSUME NEW i \in DOMAIN c.columns PROVE read_column_config(c.columns[i]) = c.columns[i]
    <3>1. c.columns[i] \in Column_settings /\ NewName(c.columns[i].name) = c.columns[i].name
      BY <1>7 DEF IsClient
    <3> QED
      BY <3>1 DEF read_column_config, Column_settings
  <2>3. read = c.columns
    <3>1. c.columns = [i \in DOMAIN c.columns |-> c.columns[i]]
      BY <1>7
    <3> QED
      BY <2>2, <3>1
  <2>4. <<>> \o c.columns = c.columns
    BY <1>7
  <2>5. read_columns(file) = <<>> \o read
    BY <1>8, <2>1 DEF read_columns
  <2> HIDE DEF read
  <2> QED
    BY <2>3, <2>4, <2>5
<1>10. read_size(file) = c.size
  <2>1. "heigth" \notin DOMAIN file
    BY <1>1 DEF ClientOptions
  <2> QED
    BY <1>1, <1>4, <1>7, <2>1 DEF read_size, Option
<1>11. /\ Option(file, "show_tray_icon", TRUE) = c.show_tray_icon
       /\ Option(file, "hide_main_window_to_tray_at_startup", TRUE)
              = c.hide_app_to_tray_at_startup
       /\ Option(file, "minimize_to_tray", TRUE) = c.minimize_to_tray
       /\ Option(file, "close_to_tray", TRUE) = c.close_to_tray
       /\ Option(file, "update_interval", 1000) = c.update_interval
       /\ Option(file, "sort_column", NoColumn) = c.sort_column
  BY <1>1, <1>4, <1>8 DEF Option
<1>12. ~(file.version < 4)
  BY <1>8 DEF CurrentVersion
<1>13. read_path(file, "download_to", DefaultPath, DefaultPath) = c.download_to
  <2>1. c.download_to \notin BadPaths
    BY <1>7, ClientSettingsAssumption DEF ClientSettingsAssumption
  <2>2. Option(file, "download_to", DefaultPath) = c.download_to
    BY <1>1, <1>4, <1>8 DEF Option
  <2> QED
    BY <1>12, <2>1, <2>2 DEF read_path, checked_path
<1>14. read_path(file, "copy_finished_to", NoPath, NoPath) = c.copy_finished_to
  <2>1. c.copy_finished_to \notin BadPaths
    BY <1>7, ClientSettingsAssumption DEF ClientSettingsAssumption
  <2>2. Option(file, "copy_finished_to", NoPath) = c.copy_finished_to
    BY <1>1, <1>4 DEF Option
  <2> QED
    BY <1>12, <2>1, <2>2 DEF read_path, checked_path
<1>15. read_client_config(file) = c
  <2>1. read_client_config(file) =
            [show_tray_icon |-> c.show_tray_icon,
             hide_app_to_tray_at_startup |-> c.hide_app_to_tray_at_startup,
             minimize_to_tray |-> c.minimize_to_tray, close_to_tray |-> c.close_to_tray,
             update_interval |-> c.update_interval, size |-> c.size,
             columns |-> c.columns, sort_column |-> c.sort_column,
             download_to |-> c.download_to, copy_finished_to |-> c.copy_finished_to]
    <3>1. (LET interval == Option(file, "update_interval", 1000)
           IN  IF interval < MinInterval THEN MinInterval ELSE interval) = c.update_interval
      BY <1>7, <1>11
    <3> QED
      BY <1>9, <1>10, <1>11, <1>13, <1>14, <3>1, Zenon DEF read_client_config
  <2> QED
    BY <1>7, <2>1 DEF Client_settings
<1>16. file \in [DOMAIN file -> OptionValues] /\ DOMAIN file \in SUBSET ClientOptions
  <2>1. DOMAIN file \in SUBSET ClientOptions
    BY <1>1
  <2>2. ASSUME NEW name \in always PROVE file[name] \in OptionValues
    <3>1. CurrentVersion \in Int
      BY DEF CurrentVersion
    <3> QED
      BY <1>7, <1>8, <3>1 DEF OptionValues
  <2>3. ASSUME NEW name \in DOMAIN file \cap {"height", "sort_column", "copy_finished_to"}
        PROVE  file[name] \in OptionValues
    BY <1>1, <1>4, <1>7 DEF OptionValues
  <2>4. \A name \in DOMAIN file : file[name] \in OptionValues
    BY <1>1, <2>2, <2>3 DEF ClientOptions
  <2> QED
    BY <1>3, <2>1, <2>4
<1> QED
  BY <1>15, <1>16 DEF file

(* The list of the window, and its size. *)
HasList(w) == /\ IsList(w.list.columns) /\ Shown(w.list.columns)
              /\ DOMAIN w.list = {"columns", "sort_column"}
              /\ w.list.sort_column \in ColumnNames \cup {NoColumn}
              /\ w.size \in Nat \ {0}

(* The inductive invariant of the client's settings: those in the file that is
   found are settings, too, and the window shows all columns, some of them. *)
ListInv ==
    /\ IsClient(client) /\ IsClient(FoundClient(client_config))
    /\ app # "off" => HasList(main_window)
    /\ ClientSaved

LEMMA GatheredIsClient ==
  ASSUME NEW w, HasList(w), NEW old, IsClient(old)
  PROVE  IsClient(Gathered(w, old))
<1>1. CASE ~w.has_been_showed
  BY <1>1 DEF Gathered
<1>2. CASE w.has_been_showed
  <2> DEFINE new == Gathered(w, old)
             columns == w.list.columns
  <2>1. new = [[old EXCEPT !.size = w.size]
                   EXCEPT !.columns = columns, !.sort_column = w.list.sort_column]
    BY <1>2 DEF Gathered, save_settings
  <2>2. columns \in Seq(Column_settings) /\ OneOfEach(columns)
        /\ \A i \in DOMAIN columns : columns[i].name \in ColumnNames
    BY DefaultList DEF HasList, IsList
  <2>3. \A name \in ColumnNames : name \in Names /\ NewName(name) = name
    <3>1. \A i \in DOMAIN Columns : Columns[i] \in Column_settings
                                        /\ NewName(Columns[i].name) = Columns[i].name
      BY ClientSettingsAssumption DEF ClientSettingsAssumption
    <3> QED
      BY <3>1 DEF ColumnNames, Column_settings
  <2>4. w.size \in Nat /\ w.list.sort_column \in Names
    BY <2>3 DEF HasList, Names
  <2> HIDE DEF columns
  <2>5. /\ new \in Client_settings /\ new.columns = columns
        /\ new.update_interval = old.update_interval
    BY <2>1, <2>2, <2>4 DEF IsClient, Client_settings
  <2> HIDE DEF new
  <2> QED
    BY <2>2, <2>3, <2>5 DEF IsClient, new
<1> QED
  BY <1>1, <1>2

LEMMA EditedIsClient ==
  ASSUME IsClient(client), NEW edited \in EditedClients PROVE IsClient(edited)
<1>1. /\ edited \in Client_settings /\ edited.columns = client.columns
      /\ edited.update_interval = client.update_interval
  BY DEF EditedClients, IsClient, Client_settings
<1> QED
  BY <1>1 DEF IsClient

LEMMA CreatedHasList ==
  ASSUME NEW new, IsClient(new)
  PROVE  /\ HasList(Created(new)) /\ Created(new).list = load_settings(new)
         /\ new.size > 0 => Created(new).size = new.size
<1> DEFINE w == [shown |-> FALSE, in_wm |-> TRUE, iconified |-> FALSE,
                 has_been_showed |-> FALSE, tray |-> "none",
                 use_appindicator |-> FALSE, indicator |-> FALSE,
                 list |-> load_settings(new),
                 size |-> IF new.size > 0 THEN new.size ELSE DefaultSize,
                 switched_off |-> FALSE]
           with_icon == show_tray_icon(w, new.show_tray_icon)
<1>1. /\ IsWindow(w) /\ w.list = load_settings(new)
      /\ w.size = IF new.size > 0 THEN new.size ELSE DefaultSize
  BY DEF IsWindow, WindowFields
<1>2. Created(new) = IF new.show_tray_icon /\ new.hide_app_to_tray_at_startup
                     THEN with_icon ELSE show(with_icon)
  BY DEF Created
<1> HIDE DEF w
<1>3. /\ IsWindow(with_icon)
      /\ \A name \in WindowFields \ {"tray", "indicator"} : with_icon[name] = w[name]
  BY <1>1, IconShown
<1> HIDE DEF with_icon
<1>4. Created(new).list = w.list /\ Created(new).size = w.size
  BY <1>2, <1>3 DEF show, IsWindow, WindowFields
<1>5. new.size \in Nat /\ DefaultSize \in Nat \ {0}
  BY MainWindowAssumption DEF MainWindowAssumption, IsClient, Client_settings
<1>6. IsList(load_settings(new).columns) /\ Shown(load_settings(new).columns)
  BY SettingsAreLoaded DEF IsClient, Client_settings
<1>7. /\ DOMAIN load_settings(new) = {"columns", "sort_column"}
      /\ load_settings(new).sort_column \in ColumnNames \cup {NoColumn}
  BY DEF load_settings
<1> QED
  BY <1>1, <1>4, <1>5, <1>6, <1>7 DEF HasList

LEMMA FoundIsClient ==
  /\ \A file \in OldClientFiles \cup {NoFile} : IsClient(FoundClient(file))
  /\ \A c : IsClient(c) => FoundClient(write_client_config(c)) = c
<1>1. ASSUME NEW file \in OldClientFiles \cup {NoFile} PROVE IsClient(FoundClient(file))
  BY DefaultIsClient, ReadIsClient, SettingsAssumption DEF FoundClient, SettingsAssumption
<1>2. ASSUME NEW c, IsClient(c) PROVE FoundClient(write_client_config(c)) = c
  <2>1. write_client_config(c) # NoFile
    <3>1. PICK options \in SUBSET ClientOptions :
                   write_client_config(c) \in [options -> OptionValues]
      BY <1>2, WrittenIsRead
    <3>2. NoFile \notin [options -> OptionValues]
      BY SettingsAssumption DEF SettingsAssumption
    <3> QED
      BY <3>1, <3>2
  <2> QED
    BY <1>2, <2>1, WrittenIsRead DEF FoundClient
<1> QED
  BY <1>1, <1>2

LEMMA ListInit == InitWindow => ListInv
<1> SUFFICES ASSUME InitWindow PROVE ListInv
  OBVIOUS
<1>1. client = DefaultClient /\ app = "off" /\ client_config \in OldClientFiles \cup {NoFile}
  BY DEF InitWindow, Init
<1> QED
  BY <1>1, DefaultIsClient, FoundIsClient DEF ListInv, ClientSaved

(* The settings of the client are saved, or not. *)
LEMMA ClientStep ==
  ASSUME ListInv, NEW value, NEW ok, IsClient(value), client' = value,
         SaveClientConfig(value, ok), app' # "off", HasList(main_window'),
         app' = "stopping" => ok \/ "client" \in excused'
  PROVE  ListInv' /\ KeepsClientSettings
<1>1. CASE ok
  <2>1. client_config' = write_client_config(value)
    BY <1>1 DEF SaveClientConfig
  <2>2. FoundClient(client_config') = client'
    BY <2>1, FoundIsClient
  <2> QED
    BY <2>2 DEF ListInv, ClientSaved, KeepsClientSettings
<1>2. CASE ~ok
  <2>1. client_config' = client_config
    BY <1>2 DEF SaveClientConfig
  <2> QED
    BY <1>2, <2>1 DEF ListInv, ClientSaved, KeepsClientSettings
<1> QED
  BY <1>1, <1>2

(* The user arranges the list. *)
LEMMA ArrangeStep ==
  ASSUME IsWindow(main_window), HasList(main_window), Arrange
  PROVE  HasList(main_window')
<1> DEFINE columns == main_window.list.columns
<1>1. IsList(columns) /\ Shown(columns)
  BY DEF HasList
<1>2. DOMAIN Columns = 1..Len(Columns)
  BY DefaultList DEF IsList
<1>3. ASSUME NEW new, IsList(new), Shown(new), Arranged(new) PROVE HasList(main_window')
  BY <1>3 DEF Arranged, HasList, IsWindow, WindowFields
<1> HIDE DEF columns
<1>4. ASSUME NEW name \in ColumnNames
      PROVE  IsList(hide_column(columns, name)) /\ Shown(hide_column(columns, name))
  <2> DEFINE hidden == Show(columns, name, FALSE)
  <2>1. IsList(hidden)
    <3>1. FALSE \in BOOLEAN
      OBVIOUS
    <3> QED
      BY <1>1, <3>1, ShowIsList
  <2> HIDE DEF hidden
  <2>2. IsList(check_columns_visibility(hidden, name))
        /\ Shown(check_columns_visibility(hidden, name))
    BY <2>1, CheckedIsList
  <2> QED
    BY <2>2 DEF hide_column, hidden
<1>5. ASSUME NEW name \in ColumnNames
      PROVE  IsList(Show(columns, name, TRUE)) /\ Shown(Show(columns, name, TRUE))
  <2> DEFINE shown == Show(columns, name, TRUE)
  <2>1. TRUE \in BOOLEAN
    OBVIOUS
  <2>2. IsList(shown)
    BY <1>1, <2>1, ShowIsList
  <2>3. columns \in [1..Len(Columns) -> Column_settings]
    BY <1>1 DEF IsList
  <2>4. PICK i \in 1..Len(Columns) : columns[i].visible
    BY <1>1, <2>3 DEF Shown
  <2>5. shown[i].visible
    BY <2>3, <2>4 DEF Show, Column_settings
  <2> QED
    BY <2>2, <2>3, <2>4, <2>5 DEF IsList, Shown
<1>6. ASSUME NEW name \in ColumnNames, NEW place \in DOMAIN Columns
      PROVE  IsList(column_drag_function(columns, name, place))
             /\ Shown(column_drag_function(columns, name, place))
  BY <1>1, <1>2, PlaceIs, MovedIsList DEF column_drag_function
<1>7. ASSUME NEW name \in ColumnNames, main_window' = [main_window EXCEPT !.list.sort_column = name]
      PROVE  HasList(main_window')
  BY <1>7 DEF HasList, IsWindow, WindowFields
<1>8. ASSUME NEW size \in Sizes, main_window' = [main_window EXCEPT !.size = size]
      PROVE  HasList(main_window')
  <2>1. size \in Nat \ {0}
    BY MainWindowAssumption DEF MainWindowAssumption
  <2> QED
    BY <1>8, <2>1 DEF HasList, IsWindow, WindowFields
<1> QED
  BY <1>3, <1>4, <1>5, <1>6, <1>7, <1>8 DEF Arrange, columns

LEMMA ListStep ==
  DaemonInv /\ WindowInv /\ ListInv /\ [NextWindow]_allvars =>
      /\ ListInv' /\ KeepsClientSettings
      /\ app = "off" /\ app' = "running" => ListAsRead'
<1> SUFFICES ASSUME DaemonInv, WindowInv, ListInv, [NextWindow]_allvars
             PROVE  /\ ListInv' /\ KeepsClientSettings
                    /\ app = "off" /\ app' = "running" => ListAsRead'
  OBVIOUS
<1> DEFINE Goal == ListInv' /\ KeepsClientSettings
<1>1. app \in {"off", "running", "stopping"}
  BY DEF DaemonInv, DaemonTypeOK
<1>2. ASSUME NEW command \in Commands, Launch(command)
      PROVE  Goal /\ ListAsRead'
  <2> DEFINE new == FoundClient(client_config)
             list == load_settings(new)
  <2>1. /\ app' = "running" /\ client' = new /\ client_config' = client_config
        /\ main_window' = Created(new)
    BY <1>2 DEF Launch, Start
  <2>2. IsClient(new) /\ new.columns \in Seq(Column_settings) /\ OneOfEach(new.columns)
    BY DEF ListInv, IsClient, Client_settings
  <2> HIDE DEF new
  <2>3. HasList(main_window') /\ main_window'.list = list
        /\ (new.size > 0 => main_window'.size = new.size)
    BY <2>1, <2>2, CreatedHasList
  <2>4. Goal
    BY <2>1, <2>2, <2>3 DEF ListInv, ClientSaved, KeepsClientSettings, new
  <2>5. \A i \in Known(new.columns) : \E j \in DOMAIN list.columns :
            /\ list.columns[j].name = new.columns[i].name
            /\ {list.columns[k].name : k \in 1..(j - 1)}
                   = {new.columns[k].name : k \in {k \in Known(new.columns) : k < i}}
            /\ (\E k \in Known(new.columns) : new.columns[k].visible) =>
                   list.columns[j].visible = new.columns[i].visible
    BY <2>2, SettingsAreLoaded
  <2>6. new.sort_column \in ColumnNames \cup {NoColumn} => list.sort_column = new.sort_column
    BY DEF load_settings
  <2> HIDE DEF list
  <2>7. ListAsRead'
    BY <2>1, <2>3, <2>5, <2>6 DEF ListAsRead, Known
  <2> QED
    BY <2>4, <2>7
<1>3. ASSUME NEW new \in Edited, NEW edited \in EditedClients, NEW ok \in Outcomes,
             Accept(new, edited, ok)
      PROVE  Goal /\ app # "off"
  <2> DEFINE w == show_tray_icon(main_window, edited.show_tray_icon)
             value == Gathered(w, edited)
             off == w.switched_off \/ (HasIcon(main_window) /\ ~HasIcon(w)
                                           /\ ~is_visible_in_wm(w))
  <2>1. /\ app # "off" /\ app' = app /\ client' = value /\ SaveClientConfig(value, ok)
        /\ main_window' = [w EXCEPT !.switched_off = off]
        /\ app' = "stopping" => ok \/ "client" \in excused'
    BY <1>3 DEF Accept, AcceptWindow, Excuse
  <2>2. IsWindow(main_window) /\ HasList(main_window)
    BY <2>1 DEF WindowInv, ListInv
  <2>3. /\ IsWindow(w)
        /\ \A name \in WindowFields \ {"tray", "indicator"} : w[name] = main_window[name]
    BY <2>2, IconShown
  <2> HIDE DEF w, off
  <2>4. HasList(w) /\ HasList(main_window')
    BY <2>1, <2>2, <2>3 DEF HasList, IsWindow, WindowFields
  <2>5. IsClient(value)
    BY <2>4, EditedIsClient, GatheredIsClient DEF ListInv
  <2> HIDE DEF value
  <2> QED
    BY <2>1, <2>4, <2>5, ClientStep
<1>4. ASSUME TrayActivated \/ Minimised \/ Restored \/ ClosedToTray \/ ConnectionChanged
      PROVE  Goal /\ app # "off"
  <2>1. /\ app # "off" /\ UNCHANGED <<app, client, client_config, excused>>
    BY <1>4 DEF TrayActivated, IconAnswers, Minimised, Restored, ClosedToTray,
                ConnectionChanged, vars
  <2>2. IsWindow(main_window) /\ HasList(main_window)
    BY <2>1 DEF WindowInv, ListInv
  <2>3. HasList(main_window')
    <3>1. CASE ConnectionChanged
      <4> DEFINE w == [main_window EXCEPT !.use_appindicator = ~@]
      <4>1. main_window' = show_tray_icon(w, client.show_tray_icon)
        BY <3>1 DEF ConnectionChanged
      <4>2. IsWindow(w) /\ w.list = main_window.list /\ w.size = main_window.size
        BY <2>2 DEF IsWindow, WindowFields
      <4> HIDE DEF w
      <4>3. main_window'.list = w.list /\ main_window'.size = w.size
        BY <4>1, <4>2, IconShown DEF WindowFields
      <4> QED
        BY <2>2, <4>2, <4>3 DEF HasList
    <3>2. CASE TrayActivated \/ Minimised \/ Restored \/ ClosedToTray
      <4>1. main_window'.list = main_window.list /\ main_window'.size = main_window.size
        BY <2>2, <3>2 DEF TrayActivated, Minimised, Restored, ClosedToTray, show, hide,
                          IsWindow, WindowFields
      <4> QED
        BY <2>2, <4>1 DEF HasList
    <3> QED
      BY <1>4, <3>1, <3>2
  <2> QED
    BY <2>1, <2>3 DEF ListInv, ClientSaved, KeepsClientSettings
<1>5. CASE Arrange
  <2>1. /\ app = "running" /\ UNCHANGED <<app, client, client_config, excused>>
    BY <1>5 DEF Arrange, WindowAnswers, vars
  <2>2. IsWindow(main_window) /\ HasList(main_window)
    BY <2>1 DEF WindowInv, ListInv
  <2>3. HasList(main_window')
    BY <1>5, <2>2, ArrangeStep
  <2> QED
    BY <2>1, <2>3 DEF ListInv, ClientSaved, KeepsClientSettings
<1>6. ASSUME NEW ok \in Outcomes, AutoSave(ok) PROVE Goal /\ app # "off"
  <2> DEFINE value == Gathered(main_window, client)
  <2>1. /\ app # "off" /\ app' = app /\ main_window' = main_window /\ client' = value
        /\ SaveClientConfig(value, ok)
        /\ app' = "stopping" => ok \/ "client" \in excused'
    BY <1>6 DEF AutoSave, SaveClient, Excuse
  <2>2. HasList(main_window')
    BY <2>1 DEF ListInv
  <2>3. IsClient(value)
    BY <2>1, GatheredIsClient DEF ListInv
  <2> HIDE DEF value
  <2> QED
    BY <2>1, <2>2, <2>3, ClientStep
<1>7. ASSUME NEW ok \in Outcomes, NEW client_ok \in Outcomes, CloseAll(ok, client_ok)
      PROVE  Goal /\ app # "off"
  <2> DEFINE value == Gathered(main_window, client)
  <2>1. /\ app = "running" /\ app' = "stopping" /\ main_window' = hide(main_window)
        /\ client' = value /\ SaveClientConfig(value, client_ok)
        /\ client_ok \/ "client" \in excused'
    BY <1>7 DEF CloseAll, Close
  <2>2. IsWindow(main_window) /\ HasList(main_window)
    BY <2>1 DEF WindowInv, ListInv
  <2>3. HasList(main_window')
    BY <2>1, <2>2 DEF hide, HasList, IsWindow, WindowFields
  <2>4. IsClient(value)
    BY <2>2, GatheredIsClient DEF ListInv
  <2> HIDE DEF value
  <2> QED
    BY <2>1, <2>3, <2>4, ClientStep
<1>8. CASE EndAll
  <2>1. app' = "off" /\ client' = DefaultClient /\ client_config' = client_config
    BY <1>8 DEF EndAll, Stop, Crash, AbortInWindow, AbortInUpdate, Ended
  <2> QED
    BY <2>1, DefaultIsClient DEF ListInv, ClientSaved, KeepsClientSettings
<1>9. ASSUME \/ Preferences \/ set_rate_limit_menu \/ UNCHANGED allvars
             \/ /\ \/ CancelWindow
                   \/ \E limit \in Limits \cup {dialog} : AcceptDialog(limit)
                   \/ CancelDialog
                   \/ \E command \in Commands : Command(command)
                   \/ ResetStatistics \/ Transfer
                   \/ DirectoryGone \/ DirectoryBack \/ NoticeGone
                   \/ \E ok \in Outcomes : SaveSession(ok)
                /\ UNCHANGED main_window
      PROVE  Goal /\ app' = app
  <2>1. /\ UNCHANGED <<app, client, client_config, main_window>>
        /\ app = "stopping" => excused \subseteq excused'
    BY <1>9 DEF Preferences, set_rate_limit_menu, OpenWindow, OpenDialog, CancelWindow,
                AcceptDialog, CancelDialog, Command, ResetStatistics, Transfer,
                DirectoryGone, DirectoryBack, NoticeGone, SaveSession, Excuse, allvars
  <2> QED
    BY <2>1 DEF ListInv, ClientSaved, KeepsClientSettings
<1> QED
  BY <1>2, <1>3, <1>4, <1>5, <1>6, <1>7, <1>8, <1>9 DEF NextWindow

-----------------------------------------------------------------------------
(* The settings of the daemon and of the client keep their invariants, and the
   window has its icon and shows its columns. *)
THEOREM SettingsInvAlways == SpecWindow => [](DaemonInv /\ WindowInv /\ ListInv)
BY DaemonInit, DaemonStep, WindowInit, WindowStep, ListInit, ListStep, PTL DEF SpecWindow

(* The variables that belong to the daemon keep their types; what libtorrent is
   given as a limit fits its type, whatever the user types. *)
THEOREM DaemonTypeCorrect == SpecWindow => []DaemonTypeOK
<1>1. DaemonInv => DaemonTypeOK
  BY DEF DaemonInv
<1> QED
  BY <1>1, SettingsInvAlways, PTL

(* libtorrent works with what the settings say, though only what differs is
   handed over, and with no rule that is none. *)
THEOREM InForceCorrect == SpecWindow => []SettingsInForce
<1>1. DaemonInv => SettingsInForce
  BY DEF DaemonInv
<1> QED
  BY <1>1, SettingsInvAlways, PTL

(* Torrents are loaded from a directory just as long as the settings say so. *)
THEOREM WatcherCorrect == SpecWindow => []WatcherFollowsSettings
<1>1. DaemonInv => WatcherFollowsSettings
  BY DEF DaemonInv
<1> QED
  BY <1>1, SettingsInvAlways, PTL

(* Since the program was told to close, what it has is what it has saved: the
   settings and the total of the daemon, and the settings of the client, up to
   what its windows change later and what could not be written. *)
THEOREM ClosingSavesCorrect == SpecWindow => []ClosingSaves
<1>1. DaemonInv /\ ListInv => ClosingSaves
  BY DEF DaemonInv, ListInv, ClosingSaves
<1> QED
  BY <1>1, SettingsInvAlways, PTL

(* The program starts with what was saved last, by this version or an older one:
   the settings of the daemon, with a limit of the rate that comes through its
   conversions unchanged, its total, the settings of the client, and the columns
   of the list in the order they had. *)
THEOREM RestartKeepsCorrect == SpecWindow => RestartKeepsSettings
<1> DEFINE Keeps == /\ KeepsSettings
                    /\ app = "off" /\ app' = "running" => ListAsRead'
<1>1. DaemonInv /\ WindowInv /\ ListInv /\ [NextWindow]_allvars => Keeps
  BY DaemonStep, ListStep DEF KeepsSettings
<1>2. SpecWindow => [][Keeps]_allvars
  BY <1>1, SettingsInvAlways, PTL DEF SpecWindow
<1> QED
  BY <1>2 DEF RestartKeepsSettings

(* The user can get at a program that runs, by its window or by an icon, unless
   the icon was switched off on purpose, and the list in the window always shows
   some column. *)
THEOREM ReachableCorrect == SpecWindow => []Reachable
<1>1. WindowInv /\ ListInv => Reachable
  BY DEF WindowInv, InReach, HasWindowOrIcon, ListInv, HasList, Shown, HasColumns, Reachable
<1> QED
  BY <1>1, SettingsInvAlways, PTL
=============================================================================
