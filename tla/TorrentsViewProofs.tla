-------------------------- MODULE TorrentsViewProofs --------------------------
(***************************************************************************)
(* Proofs about the main window over its session, for any torrents and any *)
(* settings of the automatic cleaning: the window shows what it knows, and *)
(* asks the daemon about no torrent that was removed in it; the options it *)
(* shows are those their revision stands for; the automatic cleaning       *)
(* counts no pauses and keeps the youngest torrents.                       *)
(***************************************************************************)
EXTENDS TorrentsView, FiniteSetTheorems, TLAPS

-----------------------------------------------------------------------------
(* The inductive invariant. *)

(* A torrent that has been paused since the time was counted is not taken for
   one that was seeding then. *)
SessionInv == /\ SessionTypeOK
              /\ IsFiniteSet(DOMAIN session)
              /\ \A id \in interrupted \cap DOMAIN session : ~session[id].seeding

(* The list: rows go before the information about them, and are written as the
   last information and the setting at the last redrawing had it. *)
ListInv ==
    /\ selected \subseteq DOMAIN rows /\ DOMAIN rows \subseteq DOMAIN infos
    /\ cur_torrent_id = Detailed(selected)
    /\ \A id \in DOMAIN rows :
           rows[id] = [icon |-> get_status_icon_id(infos[id]),
                       status |-> get_status_string(infos[id]),
                       zeros |-> {last_show_zero_values_setting}]
    /\ redraw = "none" =>
           /\ infos = Filtered /\ DOMAIN rows = DOMAIN infos
           /\ visible => last_show_zero_values_setting = show_zero_values
    /\ redraw \in {"none", "list", "all"}

(* The rows of the categories. *)
LabelsInv ==
    /\ show_names \in BOOLEAN /\ show_counters \in BOOLEAN
    /\ labels.has_only_name => labels.named = TRUE /\ labels.counters = << >>
    /\ visible => LabelsAgree(torrents)

(* The widget speaks of the torrent that is selected, or of none. *)
WidgetInv ==
    /\ displayed \in (IF current_info_widget \in {"details", "peers"}
                      THEN {cur_torrent_id, None} ELSE {None})
    /\ current_info_widget = "files" => files.cur_torrent_id \in {cur_torrent_id, None}
    /\ current_info_widget = "options" => options.torrent_id \in {cur_torrent_id, None}

(* Torrents removed in this window are neither known nor selected. *)
OwnInv == /\ own \subseteq Torrents
          /\ own \cap (DOMAIN session \cup DOMAIN torrents \cup selected \cup dialog) = {}
          /\ ~blamed

(* The daemon keeps settings of all torrents of the session. *)
SettingsInv == DOMAIN settings = DOMAIN session

IsKept(torrent) ==
    /\ DOMAIN torrent = {"kept", "trackers", "download_settings_revision",
                         "trackers_revision"}
    /\ torrent.download_settings_revision \in Nat
    /\ torrent.trackers_revision \in Nat

(* The widget of the options remembers no revision that the daemon has not had
   yet, and the settings it shows are those of the revision it remembers. *)
OptionsInv ==
    /\ DOMAIN settings \subseteq Torrents
    /\ \A id \in DOMAIN settings : IsKept(settings[id])
    /\ DOMAIN options = DOMAIN Cleared
    /\ options.same \in BOOLEAN
    /\ options.download_settings_revision \in Nat /\ options.trackers_revision \in Nat
    /\ options.same => options.torrent_id \in DOMAIN settings \cup {None}
    /\ options.torrent_id \in DOMAIN settings /\ options.same =>
           LET torrent == settings[options.torrent_id]
           IN /\ options.download_settings_revision <= torrent.download_settings_revision
              /\ options.trackers_revision <= torrent.trackers_revision
    /\ OptionsAreTrue

Inv == /\ SessionInv /\ ListInv /\ LabelsInv /\ WidgetInv /\ OwnInv
       /\ SettingsInv /\ OptionsInv

-----------------------------------------------------------------------------
(* The session. *)

LEMMA MinOfTwo == \A a, b \in Nat : Min({a, b}) = IF a <= b THEN a ELSE b
BY DEF Min

LEMMA NewTorrentType == \A magnet \in BOOLEAN : NewTorrent(magnet) \in Torrent
BY AutoCleanAssumption DEF NewTorrent, Torrent, AutoCleanAssumption

(* Some torrents are changed, and the others stay as they are. *)
LEMMA SessionChanged ==
  ASSUME SessionInv, UNCHANGED clean, deleted' \subseteq Torrents,
         interrupted' \subseteq Torrents,
         DOMAIN session' \subseteq DOMAIN session,
         \A id \in DOMAIN session' :
             /\ session'[id] \in Torrent
             /\ id \in interrupted' => ~session'[id].seeding
  PROVE  SessionInv'
BY FS_Subset DEF SessionInv, SessionTypeOK

LEMMA PausedType ==
  ASSUME NEW s, NEW ids, \A id \in DOMAIN s : s[id] \in Torrent
  PROVE  /\ DOMAIN Paused(s, ids) = DOMAIN s
         /\ \A id \in DOMAIN s :
                /\ Paused(s, ids)[id] \in Torrent
                /\ Paused(s, ids)[id].time_seeding = s[id].time_seeding
                /\ Paused(s, ids)[id].seeding = (s[id].seeding /\ id \notin ids)
BY DEF Paused, Torrent

LEMMA RemovedType ==
  ASSUME NEW s, NEW ids
  PROVE  /\ DOMAIN Removed(s, ids) = DOMAIN s \ ids
         /\ \A id \in DOMAIN s \ ids : Removed(s, ids)[id] = s[id]
BY DEF Removed

LEMMA PauseStep ==
  ASSUME SessionInv, NEW ids \in SUBSET Torrents, PauseTorrents(ids) PROVE SessionInv'
<1>1. session' = Paused(session, ids) /\ interrupted' = interrupted \cup ids
      /\ UNCHANGED <<clean, deleted>>
  BY DEF PauseTorrents
<1>2. DOMAIN session' = DOMAIN session
      /\ \A id \in DOMAIN session : /\ session'[id] \in Torrent
                                    /\ session'[id].seeding = (session[id].seeding /\ id \notin ids)
  BY <1>1, PausedType DEF SessionInv, SessionTypeOK
<1> QED
  BY <1>1, <1>2, SessionChanged DEF SessionInv, SessionTypeOK

LEMMA ResumeStep == ASSUME SessionInv, NEW ids, ResumeTorrents(ids) PROVE SessionInv'
<1>1. session' = Resumed(session, ids) /\ UNCHANGED <<clean, deleted, interrupted>>
  BY DEF ResumeTorrents
<1>2. DOMAIN session' = DOMAIN session
      /\ \A id \in DOMAIN session : /\ session'[id] \in Torrent
                                    /\ session'[id].seeding = session[id].seeding
  BY <1>1 DEF Resumed, SessionInv, SessionTypeOK, Torrent
<1> QED
  BY <1>1, <1>2, SessionChanged DEF SessionInv, SessionTypeOK

LEMMA RecheckStep == ASSUME SessionInv, NEW ids, RecheckTorrents(ids) PROVE SessionInv'
<1>1. session' = Rechecked(session, ids) /\ UNCHANGED <<clean, deleted, interrupted>>
  BY DEF RecheckTorrents
<1>2. DOMAIN session' = DOMAIN session
      /\ \A id \in DOMAIN session : /\ session'[id] \in Torrent
                                    /\ session'[id].seeding = session[id].seeding
  BY <1>1 DEF Rechecked, SessionInv, SessionTypeOK, Torrent
<1> QED
  BY <1>1, <1>2, SessionChanged DEF SessionInv, SessionTypeOK

LEMMA RemoveStep ==
  ASSUME SessionInv, NEW ids \in SUBSET Torrents, NEW withData, RemoveTorrents(ids, withData)
  PROVE  SessionInv'
<1>1. session' = Removed(session, ids) /\ interrupted' = interrupted \ ids
      /\ deleted' \subseteq deleted \cup ids /\ UNCHANGED clean
  BY DEF RemoveTorrents
<1>2. DOMAIN session' \subseteq DOMAIN session
      /\ \A id \in DOMAIN session' : session'[id] = session[id]
  BY <1>1 DEF Removed
<1>3. deleted' \subseteq Torrents /\ interrupted' \subseteq interrupted
  BY <1>1 DEF SessionInv, SessionTypeOK
<1>4. \A id \in DOMAIN session' : /\ session'[id] \in Torrent
                                  /\ id \in interrupted' => ~session'[id].seeding
  BY <1>2, <1>3 DEF SessionInv, SessionTypeOK
<1>5. UNCHANGED clean /\ interrupted' \subseteq Torrents
  BY <1>1, <1>3 DEF SessionInv, SessionTypeOK
<1> QED
  BY <1>2, <1>3, <1>4, <1>5, SessionChanged

(* The statistics. *)
LEMMA CountedType ==
  ASSUME SessionInv, NEW time_diff \in {0, 1}
  PROVE  /\ DOMAIN Counted(time_diff) = DOMAIN session
         /\ \A id \in DOMAIN session :
                /\ Counted(time_diff)[id] \in Torrent
                /\ Counted(time_diff)[id].seeding = IsSeeding(session[id])
                /\ Counted(time_diff)[id].shared = session[id].shared
                /\ ~session[id].seeding =>
                       Counted(time_diff)[id].time_seeding = session[id].time_seeding
<1>1. DOMAIN Counted(time_diff) = DOMAIN session
  BY DEF Counted
<1>2. ASSUME NEW id \in DOMAIN session
      PROVE  /\ Counted(time_diff)[id] \in Torrent
             /\ Counted(time_diff)[id].seeding = IsSeeding(session[id])
             /\ Counted(time_diff)[id].shared = session[id].shared
             /\ ~session[id].seeding =>
                    Counted(time_diff)[id].time_seeding = session[id].time_seeding
  <2> DEFINE torrent == session[id]
             added == IF torrent.seeding /\ IsSeeding(torrent) THEN time_diff ELSE 0
             time == Min({torrent.time_seeding + added, MaxTime})
  <2>1. torrent \in Torrent
    BY DEF SessionInv, SessionTypeOK
  <2>2. Counted(time_diff)[id] = [torrent EXCEPT !.time_seeding = time,
                                                 !.seeding = IsSeeding(torrent)]
    BY <2>1 DEF Counted, Torrent
  <2>3. IsSeeding(torrent) \in BOOLEAN
    BY <2>1 DEF IsSeeding, Torrent
  <2>4. MaxTime \in Nat /\ torrent.time_seeding \in 0..MaxTime /\ added \in Nat
    BY <2>1, AutoCleanAssumption DEF Torrent, AutoCleanAssumption
  <2>5. time \in 0..MaxTime
    BY <2>4, MinOfTwo
  <2>6. ~torrent.seeding => time = torrent.time_seeding
    BY <2>4, MinOfTwo
  <2> HIDE DEF torrent, time
  <2>7. /\ Counted(time_diff)[id] \in Torrent
        /\ Counted(time_diff)[id].seeding = IsSeeding(torrent)
        /\ Counted(time_diff)[id].shared = torrent.shared
        /\ Counted(time_diff)[id].time_seeding = time
    BY <2>1, <2>2, <2>3, <2>5 DEF Torrent
  <2> QED
    BY <2>6, <2>7 DEF torrent
<1> QED
  BY <1>1, <1>2

LEMMA CleanedType ==
  ASSUME NEW s, \A id \in DOMAIN s : s[id] \in Torrent
  PROVE  /\ DOMAIN CleanedByLimits(s) = DOMAIN s \ (WithType(s, REMOVE)
                                                      \cup WithType(s, REMOVE_WITH_DATA))
         /\ \A id \in DOMAIN CleanedByLimits(s) :
                /\ CleanedByLimits(s)[id] \in Torrent
                /\ CleanedByLimits(s)[id].time_seeding = s[id].time_seeding
                /\ CleanedByLimits(s)[id].seeding = (s[id].seeding /\ id \notin WithType(s, PAUSE))
<1> DEFINE gone == WithType(s, REMOVE) \cup WithType(s, REMOVE_WITH_DATA)
           left == Removed(s, gone)
<1>1. DOMAIN left = DOMAIN s \ gone /\ \A id \in DOMAIN s \ gone : left[id] = s[id]
  BY RemovedType
<1>2. CleanedByLimits(s) = Paused(left, WithType(s, PAUSE))
  BY DEF CleanedByLimits
<1> HIDE DEF gone, left
<1>3. \A id \in DOMAIN left : left[id] \in Torrent
  BY <1>1
<1> QED
  BY <1>1, <1>2, <1>3, PausedType DEF gone

(* What the automatic cleaning leaves of the torrents `within', beyond being
   those that are too many. *)
LEMMA LeftType ==
  ASSUME NEW within, \A id \in DOMAIN within : within[id] \in Torrent,
         NEW beyond, NEW type
  PROVE  LET left == IF beyond = {} THEN within ELSE Cleaned(within, beyond, type)
         IN /\ DOMAIN left \subseteq DOMAIN within
            /\ \A id \in DOMAIN left :
                   /\ left[id] \in Torrent
                   /\ left[id].time_seeding = within[id].time_seeding
                   /\ left[id].seeding = (within[id].seeding /\ id \notin beyond)
<1>1. CASE beyond = {}
  BY <1>1 DEF Torrent
<1>2. CASE beyond # {} /\ type = PAUSE
  BY <1>2, PausedType DEF Cleaned
<1>3. CASE beyond # {} /\ type # PAUSE
  <2>1. Cleaned(within, beyond, type) = Removed(within, beyond)
    BY <1>3 DEF Cleaned
  <2>2. DOMAIN Removed(within, beyond) = DOMAIN within \ beyond
        /\ \A id \in DOMAIN within \ beyond : Removed(within, beyond)[id] = within[id]
    BY RemovedType
  <2>3. \A id \in DOMAIN within : within[id].seeding \in BOOLEAN
    BY DEF Torrent
  <2> QED
    BY <1>3, <2>1, <2>2, <2>3
<1> QED
  BY <1>1, <1>2, <1>3

(* The torrents beyond the limit are some of those in order. *)
LEMMA OrderType ==
  ASSUME NEW s, NEW order \in Sorted(s)
  PROVE  /\ order \in [1..Cardinality(Seeding(s)) -> Seeding(s)]
         /\ \A i, j \in DOMAIN order : i # j => order[i] # order[j]
         /\ \A i, j \in DOMAIN order :
                i < j => s[order[i]].time_seeding <= s[order[j]].time_seeding
BY DEF Sorted, SetToSeqs

LEMMA OrderLength ==
  ASSUME NEW s, IsFiniteSet(Seeding(s)), NEW order \in Sorted(s)
  PROVE  Len(order) = Cardinality(Seeding(s))
<1>1. Cardinality(Seeding(s)) \in Nat
  BY FS_CardinalityType
<1>2. order \in Seq(Seeding(s)) /\ DOMAIN order = 1..Cardinality(Seeding(s))
  BY <1>1, OrderType
<1> QED
  BY <1>1, <1>2

LEMMA BeyondType ==
  ASSUME SessionTypeOK, NEW s, IsFiniteSet(Seeding(s)), NEW order \in Sorted(s)
  PROVE  /\ Beyond(order) = {order[i] : i \in clean.max_seeding_torrents + 1
                                            .. Cardinality(Seeding(s))}
         /\ Beyond(order) \subseteq Seeding(s)
<1>1. Cardinality(Seeding(s)) \in Nat
  BY FS_CardinalityType
<1>2. clean.max_seeding_torrents \in Nat
  BY AutoCleanAssumption DEF SessionTypeOK, AutoCleanAssumption
<1>3. Beyond(order) = {order[i] : i \in clean.max_seeding_torrents + 1
                                            .. Cardinality(Seeding(s))}
  BY OrderLength DEF Beyond
<1>4. \A i \in clean.max_seeding_torrents + 1 .. Cardinality(Seeding(s)) :
          order[i] \in Seeding(s)
  BY <1>1, <1>2, OrderType
<1> QED
  BY <1>3, <1>4

LEMMA UpdateStep ==
  ASSUME SessionInv, NEW time_diff \in {0, 1}, UpdateStatistics(time_diff)
  PROVE  /\ SessionInv'
         /\ DOMAIN session' \subseteq DOMAIN session
         /\ \A id \in DOMAIN session' :
                session'[id].time_seeding = Counted(time_diff)[id].time_seeding
<1> DEFINE counted == Counted(time_diff)
           within == CleanedByLimits(counted)
<1>1. PICK order \in Sorted(within) :
          LET beyond == IF TooMany(within) THEN Beyond(order) ELSE {}
          IN /\ session' = IF beyond = {} THEN within
                           ELSE Cleaned(within, beyond, clean.max_seeding_torrents_type)
             /\ deleted' = deleted \cup WithType(counted, REMOVE_WITH_DATA)
                           \cup (IF clean.max_seeding_torrents_type = REMOVE_WITH_DATA
                                 THEN beyond ELSE {})
  BY DEF UpdateStatistics
<1> DEFINE beyond == IF TooMany(within) THEN Beyond(order) ELSE {}
<1>2. /\ session' = IF beyond = {} THEN within
                    ELSE Cleaned(within, beyond, clean.max_seeding_torrents_type)
      /\ deleted' \subseteq deleted \cup WithType(counted, REMOVE_WITH_DATA) \cup beyond
  BY <1>1
<1>3. DOMAIN counted = DOMAIN session /\ \A id \in DOMAIN counted : counted[id] \in Torrent
  BY CountedType
<1>4. DOMAIN within \subseteq DOMAIN counted
      /\ \A id \in DOMAIN within : /\ within[id] \in Torrent
                                   /\ within[id].time_seeding = counted[id].time_seeding
  BY <1>3, CleanedType
<1>5. beyond \subseteq Seeding(within)
  <2>1. IsFiniteSet(Seeding(within))
    BY <1>3, <1>4, FS_Subset DEF Seeding, SessionInv
  <2>2. order \in Sorted(within) /\ SessionTypeOK
    BY DEF SessionInv
  <2> HIDE DEF within
  <2> QED
    BY <2>1, <2>2, BeyondType
<1> HIDE DEF counted, within, beyond
<1>6. DOMAIN session' \subseteq DOMAIN within
      /\ \A id \in DOMAIN session' : /\ session'[id] \in Torrent
                                     /\ session'[id].time_seeding = within[id].time_seeding
  BY <1>2, <1>4, LeftType
<1>7. deleted' \subseteq Torrents
  <2>1. WithType(counted, REMOVE_WITH_DATA) \subseteq DOMAIN counted
        /\ Seeding(within) \subseteq DOMAIN within
    BY DEF WithType, Seeding
  <2> QED
    BY <1>2, <1>3, <1>4, <1>5, <2>1 DEF SessionInv, SessionTypeOK
<1>8. interrupted' = {} /\ UNCHANGED clean
  BY DEF UpdateStatistics
<1>9. SessionInv'
  BY <1>3, <1>4, <1>6, <1>7, <1>8, SessionChanged
<1> QED
  BY <1>3, <1>4, <1>6, <1>9 DEF counted

LEMMA SessionStep == ASSUME SessionInv, SessionNext PROVE SessionInv'
<1>1. ASSUME NEW id \in Torrents, NEW magnet \in BOOLEAN, Add(id, magnet) PROVE SessionInv'
  <2>1. /\ id \notin DOMAIN session
        /\ session' = [x \in DOMAIN session \cup {id} |->
                           IF x = id THEN NewTorrent(magnet) ELSE session[x]]
        /\ deleted' = deleted \ {id} /\ UNCHANGED <<clean, interrupted>>
    BY <1>1 DEF Add
  <2>2. IsFiniteSet(DOMAIN session')
    BY <2>1, FS_AddElement DEF SessionInv
  <2>3. \A x \in DOMAIN session' : /\ session'[x] \in Torrent
                                   /\ x = id => ~session'[x].seeding
    BY <2>1, NewTorrentType DEF SessionInv, SessionTypeOK, NewTorrent
  <2> QED
    BY <2>1, <2>2, <2>3 DEF SessionInv, SessionTypeOK
<1>2. ASSUME NEW id \in Torrents, Progress(id) PROVE SessionInv'
  <2>1. DOMAIN session' = DOMAIN session /\ UNCHANGED <<clean, deleted, interrupted>>
    BY <1>2 DEF Progress
  <2>2. \A x \in DOMAIN session : /\ session'[x] \in Torrent
                                  /\ session'[x].seeding = session[x].seeding
    <3>1. PICK new : /\ session' = [session EXCEPT ![id] = new]
                     /\ \/ new = [session[id] EXCEPT !.status = "seeding"]
                        \/ new = [session[id] EXCEPT !.shared = TRUE]
                        \/ new = [session[id] EXCEPT !.metadata = "received"]
      BY <1>2 DEF Progress
    <3>2. session[id] \in Torrent
      BY <1>2 DEF Progress, SessionInv, SessionTypeOK
    <3>3. new \in Torrent /\ new.seeding = session[id].seeding
      BY <3>1, <3>2 DEF Torrent
    <3> QED
      BY <3>1, <3>3 DEF SessionInv, SessionTypeOK
  <2> QED
    BY <2>1, <2>2, SessionChanged DEF SessionInv, SessionTypeOK
<1>3. CASE PauseTorrents(DOMAIN session)
  BY <1>3, PauseStep DEF SessionInv, SessionTypeOK
<1>4. CASE ResumeTorrents(DOMAIN session)
  BY <1>4, ResumeStep
<1>5. ASSUME NEW time_diff \in {0, 1}, UpdateStatistics(time_diff) PROVE SessionInv'
  BY <1>5, UpdateStep
<1> QED
  BY <1>1, <1>2, <1>3, <1>4, <1>5 DEF SessionNext


-----------------------------------------------------------------------------
(* The limit on the number of torrents that are seeding. *)

LEMMA OrderImage ==
  ASSUME NEW s, IsFiniteSet(Seeding(s)), NEW order \in Sorted(s), NEW m \in Nat,
         m <= Cardinality(Seeding(s))
  PROVE  IsFiniteSet({order[i] : i \in 1..m}) /\ Cardinality({order[i] : i \in 1..m}) = m
<1> DEFINE image == {order[i] : i \in 1..m}
           part == [i \in 1..m |-> order[i]]
<1>1. Cardinality(Seeding(s)) \in Nat
  BY FS_CardinalityType
<1>2. \A i, j \in 1..m : order[i] = order[j] => i = j
  BY <1>1, OrderType
<1>3. part \in Bijection(1..m, image)
  BY <1>2 DEF Bijection, Injection, Surjection, IsInjective
<1>4. IsFiniteSet(1..m) /\ Cardinality(1..m) = m
  BY FS_Interval
<1> QED
  BY <1>3, <1>4, FS_Bijection DEF ExistsBijection

(* Every torrent that is seeding has a place in the order. *)
LEMMA OrderOnto ==
  ASSUME NEW s, IsFiniteSet(Seeding(s)), NEW order \in Sorted(s)
  PROVE  Seeding(s) = {order[i] : i \in 1..Cardinality(Seeding(s))}
<1> DEFINE n == Cardinality(Seeding(s))
           image == {order[i] : i \in 1..n}
<1>1. n \in Nat /\ n <= Cardinality(Seeding(s))
  BY FS_CardinalityType
<1>2. Cardinality(image) = n
  <2> HIDE DEF n
  <2> QED
    BY <1>1, OrderImage
<1>3. image \subseteq Seeding(s)
  BY OrderType
<1> QED
  BY <1>2, <1>3, FS_Subset

LEMMA MaxOfTypes ==
  ASSUME NEW types \in SUBSET Auto_clean_type, NONE \in types
  PROVE  Max(types) \in types /\ \A type \in types : Max(types) >= type
<1>1. \E x \in types : \A y \in types : x >= y
  <2>1. types \subseteq {0, 1, 2, 3} /\ 0 \in types
    BY DEF Auto_clean_type, NONE, REMOVE_WITH_DATA
  <2> QED
    BY <2>1
<1> QED
  BY <1>1 DEF Max

(* A torrent below the limits on the time and on the ratio is left alone. *)
LEMMA WithinLimits ==
  ASSUME SessionInv, NEW time_diff \in {0, 1}, NEW id \in SeedingBefore,
         ~OverLimit(id, Counted(time_diff)[id].time_seeding)
  PROVE  id \in Seeding(CleanedByLimits(Counted(time_diff)))
<1> DEFINE counted == Counted(time_diff)
           types == {NONE} \cup Demands(counted[id])
<1>1. id \in DOMAIN counted /\ counted[id].seeding /\ counted[id].shared = session[id].shared
      /\ DOMAIN counted = DOMAIN session /\ \A x \in DOMAIN counted : counted[x] \in Torrent
  BY CountedType DEF SeedingBefore
<1> HIDE DEF counted
<1>2. clean.max_seeding_time_type \in Auto_clean_type /\ clean.max_ratio_type \in Auto_clean_type
  BY AutoCleanAssumption DEF SessionInv, SessionTypeOK, AutoCleanAssumption
<1>3. types = {NONE}
  BY <1>1, <1>2 DEF Demands, OverLimit, counted
<1>4. CleanType(counted[id]) = NONE
  BY <1>3, MaxOfTypes DEF CleanType, Auto_clean_type, NONE, REMOVE_WITH_DATA
<1>5. \A type \in {PAUSE, REMOVE, REMOVE_WITH_DATA} : id \notin WithType(counted, type)
  BY <1>4 DEF WithType, NONE, PAUSE, REMOVE, REMOVE_WITH_DATA
<1>6. id \in DOMAIN CleanedByLimits(counted) /\ CleanedByLimits(counted)[id].seeding
  BY <1>1, <1>5, CleanedType
<1> QED
  BY <1>6 DEF Seeding, counted

LEMMA LimitStep ==
  ASSUME SessionInv, NEW time_diff \in {0, 1},
         clean.max_seeding_torrents_type # NONE, UpdateStatistics(time_diff)
  PROVE  LET stay == {id \in DOMAIN session' : session'[id].seeding}
             time(id) == Counted(time_diff)[id].time_seeding
             cleaned == {id \in SeedingBefore \ stay : ~OverLimit(id, time(id))}
         IN /\ Cardinality(stay) <= clean.max_seeding_torrents
            /\ cleaned # {} => Cardinality(stay) = clean.max_seeding_torrents
            /\ \A id \in cleaned, other \in stay : time(other) <= time(id)
<1> DEFINE counted == Counted(time_diff)
           within == CleanedByLimits(counted)
           stay == {id \in DOMAIN session' : session'[id].seeding}
           time(id) == counted[id].time_seeding
           cleaned == {id \in SeedingBefore \ stay : ~OverLimit(id, time(id))}
           n == Cardinality(Seeding(within))
           limit == clean.max_seeding_torrents
<1>1. PICK order \in Sorted(within) :
          LET beyond == IF TooMany(within) THEN Beyond(order) ELSE {}
          IN session' = IF beyond = {} THEN within
                        ELSE Cleaned(within, beyond, clean.max_seeding_torrents_type)
  BY DEF UpdateStatistics
<1> DEFINE beyond == IF TooMany(within) THEN Beyond(order) ELSE {}
<1>2. session' = IF beyond = {} THEN within
                 ELSE Cleaned(within, beyond, clean.max_seeding_torrents_type)
  BY <1>1
<1>3. DOMAIN counted = DOMAIN session /\ \A id \in DOMAIN counted : counted[id] \in Torrent
  BY CountedType
<1>4. DOMAIN within \subseteq DOMAIN counted
      /\ \A id \in DOMAIN within : /\ within[id] \in Torrent
                                   /\ within[id].time_seeding = time(id)
  BY <1>3, CleanedType
<1>5. /\ IsFiniteSet(DOMAIN within) /\ IsFiniteSet(Seeding(within))
      /\ Seeding(within) \subseteq DOMAIN within
  BY <1>3, <1>4, FS_Subset DEF Seeding, SessionInv
<1>6. \A id \in SeedingBefore : ~OverLimit(id, time(id)) => id \in Seeding(within)
  BY WithinLimits
<1>7. order \in Sorted(within)
  OBVIOUS
<1> HIDE DEF counted, within
<1>8. n \in Nat /\ limit \in Nat
  BY <1>5, FS_CardinalityType, AutoCleanAssumption
     DEF SessionInv, SessionTypeOK, AutoCleanAssumption
<1>9. stay = Seeding(within) \ beyond
  <2>1. /\ DOMAIN session' \subseteq DOMAIN within
        /\ \A id \in DOMAIN session' :
               session'[id].seeding = (within[id].seeding /\ id \notin beyond)
    <3> HIDE DEF beyond
    <3> QED
      BY <1>2, <1>4, LeftType
  <2>2. \A id \in DOMAIN within \ beyond : id \in DOMAIN session'
    BY <1>2 DEF Cleaned, Paused, Removed
  <2> QED
    BY <2>1, <2>2 DEF Seeding
<1>10. cleaned \subseteq beyond
  BY <1>6, <1>9
<1>11. CASE ~TooMany(within)
  <2>1. beyond = {} /\ cleaned = {}
    BY <1>10, <1>11
  <2>2. Cardinality(DOMAIN within) <= limit
    BY <1>5, <1>8, <1>11, FS_CardinalityType DEF TooMany
  <2>3. stay \subseteq DOMAIN within
    BY <1>5, <1>9
  <2>4. Cardinality(stay) <= Cardinality(DOMAIN within) /\ Cardinality(stay) \in Nat
    BY <1>5, <2>3, FS_Subset, FS_CardinalityType
  <2>5. Cardinality(stay) <= limit
    BY <1>5, <1>8, <2>2, <2>4, FS_CardinalityType
  <2> QED
    BY <2>1, <2>5 DEF counted
<1>12. CASE TooMany(within)
  <2>1. beyond = {order[i] : i \in limit + 1 .. n}
    <3>1. SessionTypeOK
      BY DEF SessionInv
    <3> QED
      BY <1>5, <1>7, <1>12, <3>1, BeyondType
  <2>2. Seeding(within) = {order[i] : i \in 1..n}
    BY <1>5, <1>7, OrderOnto
  <2>3. \A i, j \in 1..n : /\ order[i] = order[j] => i = j
                           /\ i < j => time(order[i]) <= time(order[j])
                           /\ time(order[i]) \in Nat
    <3>1. DOMAIN order = 1..n /\ \A i \in 1..n : order[i] \in DOMAIN within
      BY <1>5, <1>7, OrderType
    <3>2. \A i, j \in 1..n :
              i < j => within[order[i]].time_seeding <= within[order[j]].time_seeding
      BY <1>7, <3>1, OrderType
    <3>3. \A id \in DOMAIN within : time(id) = within[id].time_seeding /\ time(id) \in Nat
      BY <1>4, AutoCleanAssumption DEF Torrent, AutoCleanAssumption
    <3>4. \A i, j \in 1..n : order[i] = order[j] => i = j
      BY <1>7, <3>1, OrderType
    <3> QED
      BY <3>1, <3>2, <3>3, <3>4
  <2> DEFINE m == IF n <= limit THEN n ELSE limit
  <2>4. stay = {order[i] : i \in 1..m}
    <3>1. ASSUME NEW i \in 1..m PROVE order[i] \in Seeding(within) \ beyond
      <4>1. i \in 1..n /\ i <= limit
        BY <1>8
      <4>2. \A j \in limit + 1 .. n : order[j] # order[i]
        BY <1>8, <2>3, <4>1
      <4> QED
        BY <2>1, <2>2, <4>1, <4>2
    <3>2. ASSUME NEW id \in Seeding(within) \ beyond PROVE \E i \in 1..m : id = order[i]
      <4>1. PICK i \in 1..n : id = order[i]
        BY <2>2
      <4>2. i \notin limit + 1 .. n
        BY <2>1, <3>2, <4>1
      <4>3. i \in 1..m
        BY <1>8, <4>2
      <4> QED
        BY <4>1, <4>3
    <3> HIDE DEF m
    <3> QED
      BY <1>9, <3>1, <3>2
  <2>5. m \in Nat /\ m <= n /\ m <= limit
    BY <1>8
  <2>6. Cardinality(stay) = m
    <3> HIDE DEF m
    <3> QED
      BY <1>5, <1>7, <2>4, <2>5, OrderImage
  <2>7. cleaned # {} => m = limit
    <3>1. cleaned # {} => limit + 1 .. n # {}
      BY <1>10, <2>1
    <3> QED
      BY <1>8, <3>1
  <2>8. ASSUME NEW id \in cleaned, NEW other \in stay PROVE time(other) <= time(id)
    <3>1. PICK i \in limit + 1 .. n : id = order[i]
      BY <1>10, <2>1
    <3>2. PICK j \in 1..m : other = order[j]
      BY <2>4
    <3>3. i \in 1..n /\ j \in 1..n /\ j < i
      BY <1>8, <2>5
    <3> QED
      BY <2>3, <3>1, <3>2, <3>3
  <2> QED
    BY <2>5, <2>6, <2>7, <2>8 DEF counted
<1> QED
  BY <1>11, <1>12

LEMMA PausesStep ==
  ASSUME SessionInv, NEW time_diff \in {0, 1}, UpdateStatistics(time_diff),
         NEW id \in interrupted \cap DOMAIN session'
  PROVE  session'[id].time_seeding = session[id].time_seeding
<1>1. id \in DOMAIN session /\ session'[id].time_seeding = Counted(time_diff)[id].time_seeding
  BY UpdateStep
<1>2. ~session[id].seeding
  BY <1>1 DEF SessionInv
<1> QED
  BY <1>1, <1>2, CountedType


-----------------------------------------------------------------------------
(* The session under the window. *)

LEMMA DoneType == \A ids : \A done \in Done(ids) : done \subseteq ids \cap DOMAIN session
BY DEF Done

LEMMA ProcessedDomain ==
  ASSUME NEW ids, PauseTorrents(ids) \/ ResumeTorrents(ids) \/ RecheckTorrents(ids)
  PROVE  DOMAIN session' = DOMAIN session
BY DEF PauseTorrents, ResumeTorrents, RecheckTorrents, Paused, Resumed, Rechecked

(* Every step of the window is one of the session or leaves that alone. *)
LEMMA SessionMoves ==
  ASSUME [Next]_vars
  PROVE  \/ SessionNext \/ UNCHANGED sessionVars
         \/ \E done \in SUBSET DOMAIN session :
                \/ PauseTorrents(done) \/ ResumeTorrents(done) \/ RecheckTorrents(done)
                \/ \E withData \in BOOLEAN : RemoveTorrents(done, withData)
<1>1. CASE Behind
  BY <1>1 DEF Behind
<1>2. ASSUME NEW action, Process(action)
      PROVE  \E done \in SUBSET DOMAIN session :
                 PauseTorrents(done) \/ ResumeTorrents(done) \/ RecheckTorrents(done)
  <2>1. PICK done \in Done(selected) :
            PauseTorrents(done) \/ ResumeTorrents(done) \/ RecheckTorrents(done)
    BY <1>2 DEF Process
  <2> QED
    BY <2>1, DoneType
<1>3. ASSUME NEW withData \in BOOLEAN, Confirm(withData)
      PROVE  \E done \in SUBSET DOMAIN session : RemoveTorrents(done, withData)
  <2>1. PICK done \in Done(dialog) : RemoveTorrents(done, withData)
    BY <1>3 DEF Confirm
  <2> QED
    BY <2>1, DoneType
<1>4. ASSUME \/ \E ids \in SUBSET Torrents : Select(ids)
             \/ \E id \in Torrents : Activate(id)
             \/ \E widget \in Widgets \cup {"none"} : ChooseWidget(widget)
             \/ ChangeFiles \/ ChangeOptions \/ AnswerChooser
             \/ UpdateTimeout \/ EraseRow \/ FinishRedraw
             \/ ChangeCategories \/ ChangeShowZeroValues
             \/ Hide \/ Show \/ Ask \/ Refuse \/ UNCHANGED vars
      PROVE  UNCHANGED sessionVars
  BY <1>4 DEF Select, Activate, ChooseWidget, ChangeFiles, ChangeOptions, AnswerChooser,
              UpdateTimeout, EraseRow, FinishRedraw, ChangeCategories,
              ChangeShowZeroValues, Hide, Show, Ask, Refuse, vars
<1> QED
  BY <1>1, <1>2, <1>3, <1>4 DEF Next

LEMMA SessionInvStep == SessionInv /\ [Next]_vars => SessionInv'
<1> SUFFICES ASSUME SessionInv, [Next]_vars PROVE SessionInv'
  OBVIOUS
<1>1. DOMAIN session \subseteq Torrents
  BY DEF SessionInv, SessionTypeOK
<1>2. CASE UNCHANGED sessionVars
  BY <1>2 DEF sessionVars, SessionInv, SessionTypeOK
<1>3. ASSUME NEW done \in SUBSET DOMAIN session, PauseTorrents(done) PROVE SessionInv'
  BY <1>1, <1>3, PauseStep
<1>4. ASSUME NEW done \in SUBSET DOMAIN session, NEW withData \in BOOLEAN,
             RemoveTorrents(done, withData)
      PROVE  SessionInv'
  BY <1>1, <1>4, RemoveStep
<1> QED
  BY <1>2, <1>3, <1>4, ResumeStep, RecheckStep, SessionStep, SessionMoves

-----------------------------------------------------------------------------
(* The limits on the time and on the ratio. *)

LEMMA StricterStep ==
  ASSUME SessionInv, deleted \cap DOMAIN session = {}, NEW time_diff \in {0, 1},
         UpdateStatistics(time_diff), NEW id \in SeedingBefore,
         Demands(Counted(time_diff)[id]) \ {NONE} # {}
  PROVE  LET demands == Demands(Counted(time_diff)[id])
         IN /\ id \in DOMAIN session' <=> demands \subseteq {NONE, PAUSE}
            /\ id \in DOMAIN session' => session'[id].paused
            /\ id \in deleted' <=> REMOVE_WITH_DATA \in demands
<1> DEFINE counted == Counted(time_diff)
           demands == Demands(counted[id])
           within == CleanedByLimits(counted)
<1>1. PICK order \in Sorted(within) :
          LET beyond == IF TooMany(within) THEN Beyond(order) ELSE {}
          IN /\ session' = IF beyond = {} THEN within
                           ELSE Cleaned(within, beyond, clean.max_seeding_torrents_type)
             /\ deleted' = deleted \cup WithType(counted, REMOVE_WITH_DATA)
                           \cup (IF clean.max_seeding_torrents_type = REMOVE_WITH_DATA
                                 THEN beyond ELSE {})
  BY DEF UpdateStatistics
<1> DEFINE beyond == IF TooMany(within) THEN Beyond(order) ELSE {}
<1>2. /\ session' = IF beyond = {} THEN within
                    ELSE Cleaned(within, beyond, clean.max_seeding_torrents_type)
      /\ deleted' \subseteq deleted \cup WithType(counted, REMOVE_WITH_DATA) \cup beyond
      /\ deleted \cup WithType(counted, REMOVE_WITH_DATA) \subseteq deleted'
  BY <1>1
<1>3. /\ DOMAIN counted = DOMAIN session /\ \A x \in DOMAIN counted : counted[x] \in Torrent
      /\ id \in DOMAIN counted /\ counted[id].seeding /\ id \notin deleted
  BY CountedType DEF SeedingBefore
<1>4. beyond \subseteq Seeding(within)
  <2>1. IsFiniteSet(Seeding(within))
    BY <1>3, CleanedType, FS_Subset DEF Seeding, SessionInv
  <2>2. order \in Sorted(within) /\ SessionTypeOK
    BY DEF SessionInv
  <2> HIDE DEF within
  <2> QED
    BY <2>1, <2>2, BeyondType
<1>5. demands \subseteq Auto_clean_type
  BY AutoCleanAssumption DEF Demands, SessionInv, SessionTypeOK, AutoCleanAssumption
<1> DEFINE type == CleanType(counted[id])
<1>6. type \in {NONE} \cup demands /\ \A y \in {NONE} \cup demands : type >= y
  <2>1. {NONE} \cup demands \in SUBSET Auto_clean_type
    BY <1>5 DEF Auto_clean_type, NONE, REMOVE_WITH_DATA
  <2> HIDE DEF demands
  <2>2. type = Max({NONE} \cup demands)
    BY DEF CleanType, demands
  <2> QED
    BY <2>1, <2>2, MaxOfTypes
<1>7. \A other : id \in WithType(counted, other) <=> other = type
  BY <1>3 DEF WithType, Seeding
<1>8. demands \ {NONE} # {}
  OBVIOUS
<1> HIDE DEF counted, demands, within, beyond, type
<1>9. /\ type \in {PAUSE, REMOVE, REMOVE_WITH_DATA}
      /\ type = PAUSE <=> demands \subseteq {NONE, PAUSE}
      /\ type = REMOVE_WITH_DATA <=> REMOVE_WITH_DATA \in demands
  <2>1. demands \subseteq {0, 1, 2, 3} /\ type \in {0, 1, 2, 3}
    BY <1>5, <1>6 DEF Auto_clean_type, NONE, REMOVE_WITH_DATA
  <2>2. PICK some \in demands : some # 0
    BY <1>8 DEF NONE
  <2>3. type >= some /\ some \in {1, 2, 3}
    BY <1>6, <2>1, <2>2
  <2>4. type \in {1, 2, 3} /\ type \in demands
    BY <1>6, <2>1, <2>3 DEF NONE
  <2>5. type = 1 => demands \subseteq {0, 1}
    BY <1>6, <2>1
  <2>6. 3 \in demands => type = 3
    BY <1>6, <2>1
  <2> QED
    BY <2>4, <2>5, <2>6 DEF NONE, PAUSE, REMOVE, REMOVE_WITH_DATA
<1>10. CASE type = PAUSE
  <2>1. type # REMOVE /\ type # REMOVE_WITH_DATA
    BY <1>10 DEF PAUSE, REMOVE, REMOVE_WITH_DATA
  <2>2. id \in DOMAIN within /\ ~within[id].seeding /\ within[id].paused
    <3>1. id \notin WithType(counted, REMOVE) \cup WithType(counted, REMOVE_WITH_DATA)
          /\ id \in WithType(counted, PAUSE)
      BY <1>7, <1>10, <2>1
    <3>2. counted[id] \in Torrent
      BY <1>3
    <3> QED
      BY <1>3, <3>1, <3>2 DEF within, CleanedByLimits, Paused, Removed, Torrent
  <2>3. id \notin beyond
    BY <1>4, <2>2 DEF Seeding
  <2>4. id \in DOMAIN session' /\ session'[id] = within[id]
    BY <1>2, <2>2, <2>3 DEF Cleaned, Paused, Removed
  <2>5. id \notin deleted'
    BY <1>2, <1>3, <1>7, <2>1, <2>3
  <2> QED
    BY <1>9, <1>10, <2>1, <2>2, <2>4, <2>5 DEF demands, counted
<1>11. CASE type \in {REMOVE, REMOVE_WITH_DATA}
  <2>1. type # PAUSE
    BY <1>11 DEF PAUSE, REMOVE, REMOVE_WITH_DATA
  <2>2. id \notin DOMAIN within
    BY <1>7, <1>11 DEF within, CleanedByLimits, Paused, Removed
  <2>3. id \notin DOMAIN session' /\ id \notin beyond
    BY <1>2, <1>4, <2>2 DEF Cleaned, Paused, Removed, Seeding
  <2>4. id \in deleted' <=> type = REMOVE_WITH_DATA
    BY <1>2, <1>3, <1>7, <2>3
  <2> QED
    BY <1>9, <2>1, <2>3, <2>4 DEF demands, counted
<1> QED
  BY <1>9, <1>10, <1>11

(* A torrent of the session is none of those deleted with their data. *)
DeletedInv == deleted \cap DOMAIN session = {}

LEMMA DeletedStep == SessionInv /\ DeletedInv /\ [Next]_vars => DeletedInv'
<1> SUFFICES ASSUME SessionInv, DeletedInv, [Next]_vars PROVE DeletedInv'
  OBVIOUS
<1> USE DEF DeletedInv
<1>1. CASE DOMAIN session' = DOMAIN session /\ UNCHANGED deleted
  BY <1>1
<1>2. ASSUME NEW ids, PauseTorrents(ids) \/ ResumeTorrents(ids) \/ RecheckTorrents(ids)
      PROVE  DeletedInv'
  <2>1. UNCHANGED deleted
    BY <1>2 DEF PauseTorrents, ResumeTorrents, RecheckTorrents
  <2> QED
    BY <1>1, <1>2, <2>1, ProcessedDomain
<1>3. ASSUME NEW ids, NEW withData, RemoveTorrents(ids, withData) PROVE DeletedInv'
  <2>1. DOMAIN session' = DOMAIN session \ ids /\ deleted' \subseteq deleted \cup ids
    BY <1>3 DEF RemoveTorrents, Removed
  <2> QED
    BY <2>1
<1>4. ASSUME NEW id, NEW magnet, Add(id, magnet) PROVE DeletedInv'
  <2>1. DOMAIN session' = DOMAIN session \cup {id} /\ deleted' = deleted \ {id}
    BY <1>4 DEF Add
  <2> QED
    BY <2>1
<1>5. ASSUME NEW id \in Torrents, Progress(id) PROVE DeletedInv'
  BY <1>1, <1>5 DEF Progress
<1>6. ASSUME NEW time_diff \in {0, 1}, UpdateStatistics(time_diff) PROVE DeletedInv'
  <2> DEFINE counted == Counted(time_diff)
             within == CleanedByLimits(counted)
  <2>1. PICK order \in Sorted(within) :
            LET beyond == IF TooMany(within) THEN Beyond(order) ELSE {}
            IN /\ session' = IF beyond = {} THEN within
                             ELSE Cleaned(within, beyond, clean.max_seeding_torrents_type)
               /\ deleted' = deleted \cup WithType(counted, REMOVE_WITH_DATA)
                             \cup (IF clean.max_seeding_torrents_type = REMOVE_WITH_DATA
                                   THEN beyond ELSE {})
    BY <1>6 DEF UpdateStatistics
  <2> DEFINE beyond == IF TooMany(within) THEN Beyond(order) ELSE {}
  <2>2. DOMAIN within \subseteq DOMAIN session \ WithType(counted, REMOVE_WITH_DATA)
    BY CountedType, CleanedType
  <2> HIDE DEF within, counted
  <2>3. DOMAIN session' \subseteq DOMAIN within
    BY <2>1 DEF Cleaned, Paused, Removed
  <2>4. clean.max_seeding_torrents_type = REMOVE_WITH_DATA =>
            DOMAIN session' = DOMAIN within \ beyond
    BY <2>1 DEF Cleaned, Removed, PAUSE, REMOVE_WITH_DATA
  <2>5. deleted' = deleted \cup WithType(counted, REMOVE_WITH_DATA)
                   \cup (IF clean.max_seeding_torrents_type = REMOVE_WITH_DATA
                         THEN beyond ELSE {})
    BY <2>1
  <2> HIDE DEF beyond
  <2> QED
    BY <2>2, <2>3, <2>4, <2>5
<1>7. CASE UNCHANGED sessionVars
  BY <1>1, <1>7 DEF sessionVars
<1>8. CASE SessionNext
  BY <1>2, <1>4, <1>5, <1>6, <1>8 DEF SessionNext
<1> QED
  BY <1>2, <1>3, <1>7, <1>8, SessionMoves

-----------------------------------------------------------------------------
(* The list. *)

LEMMA DetailedType == Detailed({}) = None /\ \A ids : Detailed(ids) \in ids \cup {None}
<1>1. Detailed({}) = None
  BY FS_EmptySet DEF Detailed
<1>2. ASSUME NEW ids, Cardinality(ids) = 1 PROVE ids # {}
  BY <1>2, FS_EmptySet
<1> QED
  BY <1>1, <1>2 DEF Detailed

LEMMA FilteredType == DOMAIN Filtered \subseteq DOMAIN torrents
BY DEF Filtered

(* A redrawing begins: the rows are as they were, and nothing more is selected
   than was before. *)
LEMMA RedrawBegins ==
  ASSUME ListInv, redraw' \in {"list", "all"},
         UNCHANGED <<infos, rows, last_show_zero_values_setting>>,
         UNCHANGED <<selected, cur_torrent_id>> \/ (selected' = {} /\ cur_torrent_id' = None)
  PROVE  ListInv'
BY DetailedType DEF ListInv

(* The list is left as it is. *)
LEMMA ListKept ==
  ASSUME ListInv,
         UNCHANGED <<infos, rows, selected, cur_torrent_id, redraw, torrents, items,
                     categories_visible, show_zero_values, last_show_zero_values_setting>>,
         visible' => visible
  PROVE  ListInv'
BY DEF ListInv, Filtered, get_filter

LEMMA RowsRefreshed ==
  ASSUME ListInv
  PROVE  /\ DOMAIN Refreshed = DOMAIN Filtered
         /\ \A id \in DOMAIN Filtered :
                Refreshed[id] = [icon |-> get_status_icon_id(Filtered[id]),
                                 status |-> get_status_string(Filtered[id]),
                                 zeros |-> {show_zero_values}]
<1>1. DOMAIN Refreshed = DOMAIN Filtered
  BY DEF Refreshed
<1>2. ASSUME NEW id \in DOMAIN Filtered
      PROVE  Refreshed[id] = [icon |-> get_status_icon_id(Filtered[id]),
                              status |-> get_status_string(Filtered[id]),
                              zeros |-> {show_zero_values}]
  <2> DEFINE changed == show_zero_values # last_show_zero_values_setting
  <2>1. CASE id \notin DOMAIN rows
    BY <2>1 DEF Refreshed, RowUpdated
  <2>2. CASE id \in DOMAIN rows
    <3>1. rows[id] = [icon |-> get_status_icon_id(infos[id]),
                      status |-> get_status_string(infos[id]),
                      zeros |-> {last_show_zero_values_setting}]
      BY <2>2 DEF ListInv
    <3>2. Refreshed[id] = IF changed \/ Filtered[id] # infos[id]
                          THEN RowUpdated(rows[id].zeros, Filtered[id], changed)
                          ELSE rows[id]
      BY <2>2 DEF Refreshed, Differs
    <3> QED
      BY <3>1, <3>2 DEF RowUpdated
  <2> QED
    BY <2>1, <2>2
<1> QED
  BY <1>1, <1>2

LEMMA ListStep == ListInv /\ [Next]_vars => ListInv'
<1> SUFFICES ASSUME ListInv, [Next]_vars PROVE ListInv'
  OBVIOUS
<1>1. ASSUME \/ Behind \/ \E id \in Torrents : Activate(id)
             \/ \E widget \in Widgets \cup {"none"} : ChooseWidget(widget)
             \/ ChangeFiles \/ ChangeOptions \/ AnswerChooser
             \/ Hide \/ Ask \/ Refuse \/ UNCHANGED vars
      PROVE  ListInv'
  <2>1. /\ UNCHANGED <<infos, rows, selected, cur_torrent_id, redraw, torrents, items,
                       categories_visible, show_zero_values,
                       last_show_zero_values_setting>>
        /\ visible' => visible
    BY <1>1 DEF Behind, Activate, ChooseWidget, ChangeFiles, ChangeOptions, AnswerChooser,
                Hide, Ask, Refuse, vars, gui, view, zeros, categoriesVars
  <2> QED
    BY <2>1, ListKept
<1>2. ASSUME \/ UpdateTimeout \/ ChangeShowZeroValues \/ Show
             \/ \E action \in {"pause", "resume", "recheck"} : Process(action)
             \/ \E withData \in BOOLEAN : Confirm(withData)
      PROVE  ListInv'
  <2>1. /\ redraw' = "all" /\ UNCHANGED <<infos, rows, last_show_zero_values_setting>>
        /\ \/ UNCHANGED <<selected, cur_torrent_id>>
           \/ selected' = {} /\ cur_torrent_id' = None
    BY <1>2 DEF UpdateTimeout, ChangeShowZeroValues, Show, Process, Confirm, UpdateGui, zeros
  <2> QED
    BY <2>1, RedrawBegins
<1>3. CASE ChangeCategories
  <2>1. CASE redraw' = "list"
    BY <1>3, <2>1, RedrawBegins DEF ChangeCategories, view, zeros
  <2>2. CASE redraw' # "list"
    <3>1. UNCHANGED <<redraw, items, categories_visible>>
      BY <1>3, <2>2 DEF ChangeCategories, ShowNames, ShowCounters
    <3> QED
      BY <1>3, <3>1, ListKept DEF ChangeCategories, view, zeros
  <2> QED
    BY <2>1, <2>2
<1>4. ASSUME NEW ids, Select(ids) PROVE ListInv'
  <2>1. /\ ids \subseteq DOMAIN rows /\ selected' = ids /\ cur_torrent_id' = Detailed(ids)
        /\ UNCHANGED <<infos, rows, redraw, torrents, items, categories_visible,
                       show_zero_values, last_show_zero_values_setting, visible>>
    BY <1>4 DEF Select, SelectionChanged, zeros, categoriesVars
  <2> QED
    BY <2>1 DEF ListInv, Filtered, get_filter
<1>5. CASE EraseRow
  <2>1. PICK id \in DOMAIN rows \ DOMAIN Filtered :
            /\ rows' = [x \in DOMAIN rows \ {id} |-> rows[x]]
            /\ IF id \in selected
               THEN selected' = selected \ {id} /\ cur_torrent_id' = Detailed(selected \ {id})
               ELSE UNCHANGED <<selected, cur_torrent_id>>
    BY <1>5 DEF EraseRow, SelectionChanged
  <2>2. redraw # "none" /\ UNCHANGED <<infos, last_show_zero_values_setting, redraw>>
    BY <1>5 DEF EraseRow, zeros
  <2>3. cur_torrent_id' = Detailed(selected') /\ selected' \subseteq DOMAIN rows \ {id}
    <3>1. CASE id \in selected
      <4>1. selected' = selected \ {id} /\ cur_torrent_id' = Detailed(selected \ {id})
        BY <2>1, <3>1
      <4> QED
        BY <4>1 DEF ListInv
    <3>2. CASE id \notin selected
      BY <2>1, <3>2 DEF ListInv
    <3> QED
      BY <3>1, <3>2
  <2> QED
    BY <2>1, <2>2, <2>3 DEF ListInv
<1>6. CASE FinishRedraw
  <2>1. /\ DOMAIN rows \subseteq DOMAIN Filtered /\ rows' = Refreshed /\ infos' = Filtered
        /\ last_show_zero_values_setting' = show_zero_values /\ redraw' = "none"
        /\ UNCHANGED <<selected, cur_torrent_id, show_zero_values, torrents, items,
                       categories_visible>>
    BY <1>6 DEF FinishRedraw, categoriesVars
  <2>2. Filtered' = Filtered
    BY <2>1 DEF Filtered, get_filter
  <2>3. DOMAIN rows' = DOMAIN infos' /\ selected' \subseteq DOMAIN rows'
    BY <2>1, RowsRefreshed DEF ListInv
  <2>4. \A id \in DOMAIN rows' :
            rows'[id] = [icon |-> get_status_icon_id(infos'[id]),
                         status |-> get_status_string(infos'[id]),
                         zeros |-> {last_show_zero_values_setting'}]
    BY <2>1, RowsRefreshed
  <2> QED
    BY <2>1, <2>2, <2>3, <2>4 DEF ListInv, get_status_icon_id, get_status_string
<1> QED
  BY <1>1, <1>2, <1>3, <1>4, <1>5, <1>6 DEF Next

-----------------------------------------------------------------------------
(* The categories. *)

LEMMA LabelsStep == LabelsInv /\ [Next]_vars => LabelsInv'
<1> SUFFICES ASSUME LabelsInv, [Next]_vars PROVE LabelsInv'
  OBVIOUS
<1>1. ASSUME \/ Behind \/ \E ids \in SUBSET Torrents : Select(ids)
             \/ \E id \in Torrents : Activate(id)
             \/ \E widget \in Widgets \cup {"none"} : ChooseWidget(widget)
             \/ ChangeFiles \/ ChangeOptions \/ AnswerChooser \/ EraseRow \/ FinishRedraw
             \/ Hide \/ Ask \/ Refuse \/ UNCHANGED vars
      PROVE  LabelsInv'
  <2>1. UNCHANGED <<categoriesVars, torrents>> /\ (visible' => visible)
    BY <1>1 DEF Behind, Select, Activate, ChooseWidget, ChangeFiles, ChangeOptions,
                AnswerChooser, EraseRow, FinishRedraw, Hide, Ask, Refuse, vars, gui, view
  <2> QED
    BY <2>1 DEF LabelsInv, LabelsAgree, categoriesVars
<1>2. ASSUME \/ UpdateTimeout \/ ChangeShowZeroValues \/ Show
             \/ \E action \in {"pause", "resume", "recheck"} : Process(action)
             \/ \E withData \in BOOLEAN : Confirm(withData)
      PROVE  LabelsInv'
  <2>1. CategoriesUpdated(torrents')
    BY <1>2 DEF UpdateTimeout, ChangeShowZeroValues, Show, Process, Confirm, UpdateGui
  <2> QED
    BY <2>1 DEF CategoriesUpdated, Updated, LabelsInv, LabelsAgree
<1>3. CASE ChangeCategories
  <2>1. UNCHANGED <<torrents, visible>>
    BY <1>3 DEF ChangeCategories, view
  <2>2. ASSUME NEW chosen, SelectCategories(chosen) PROVE LabelsInv'
    BY <2>1, <2>2 DEF SelectCategories, LabelsInv, LabelsAgree
  <2>3. CASE ShowCategories(torrents)
    BY <2>1, <2>3 DEF ShowCategories, SettingsChanged, Updated, LabelsInv, LabelsAgree
  <2>4. CASE ShowNames(torrents)
    BY <2>1, <2>4 DEF ShowNames, SettingsChanged, Updated, LabelsInv, LabelsAgree
  <2>5. CASE ShowCounters(torrents)
    BY <2>1, <2>5 DEF ShowCounters, SettingsChanged, Updated, LabelsInv, LabelsAgree
  <2> QED
    BY <1>3, <2>2, <2>3, <2>4, <2>5 DEF ChangeCategories
<1> QED
  BY <1>1, <1>2, <1>3 DEF Next


-----------------------------------------------------------------------------
(* The options. *)

LEMMA NoneIsNoTorrent == None \notin Torrents
BY TorrentOptionsAssumption DEF TorrentOptionsAssumption

LEMMA ClearedType == /\ Cleared.torrent_id = None /\ Cleared.same = TRUE
                     /\ Cleared.download_settings_revision = 0
                     /\ Cleared.trackers_revision = 0
                     /\ DOMAIN Cleared = {"torrent_id", "trackers", "selected", "shown",
                                          "download_settings_revision",
                                          "trackers_revision", "same"}
BY DEF Cleared, INIT_REVISION

(* The widget shows nothing, or exactly what the daemon has. *)
LEMMA OptionsFresh ==
  ASSUME DOMAIN settings' \subseteq Torrents,
         \A id \in DOMAIN settings' : IsKept(settings'[id]),
         \/ options' = Cleared
         \/ \E id \in DOMAIN settings' : \E selection :
                options' = OptionsRead(settings'[id], id, TRUE, selection)
  PROVE  OptionsInv'
<1>0. 0 \in Nat /\ \A n \in Nat : n <= n
  OBVIOUS
<1>1. CASE options' = Cleared
  <2>1. /\ options'.torrent_id = None /\ options'.same = TRUE
        /\ options'.download_settings_revision = 0 /\ options'.trackers_revision = 0
        /\ DOMAIN options' = DOMAIN Cleared
    BY <1>1, ClearedType
  <2>2. None \notin DOMAIN settings'
    BY NoneIsNoTorrent
  <2> HIDE <1>1
  <2>3. OptionsAreTrue'
    BY <2>1, <2>2 DEF OptionsAreTrue
  <2>4. options'.same \in BOOLEAN
    BY <2>1
  <2> QED
    BY <1>0, <2>1, <2>2, <2>3, <2>4 DEF OptionsInv
<1>2. ASSUME NEW id \in DOMAIN settings', NEW selection,
             options' = OptionsRead(settings'[id], id, TRUE, selection)
      PROVE  OptionsInv'
  <2>1. /\ options'.torrent_id = id /\ options'.same = TRUE
        /\ options'.shown = settings'[id].kept /\ options'.trackers = settings'[id].trackers
        /\ options'.download_settings_revision = settings'[id].download_settings_revision
        /\ options'.trackers_revision = settings'[id].trackers_revision
        /\ DOMAIN options' = DOMAIN Cleared
    BY <1>2, ClearedType DEF OptionsRead
  <2> HIDE <1>2
  <2>2. /\ settings'[id].download_settings_revision \in Nat
        /\ settings'[id].trackers_revision \in Nat
    BY DEF IsKept
  <2>3. OptionsAreTrue'
    BY <2>1 DEF OptionsAreTrue
  <2>4. options'.same \in BOOLEAN
    BY <2>1
  <2> QED
    BY <1>0, <2>1, <2>2, <2>3, <2>4 DEF OptionsInv
<1> QED
  BY <1>1, <1>2

(* An update of the widget. *)
LEMMA OptionsRefreshed ==
  ASSUME OptionsInv, NEW id, UNCHANGED settings,
         options' = OptionsUpdated(settings, id)
  PROVE  OptionsInv'
<1>0. None \notin DOMAIN settings
  BY NoneIsNoTorrent DEF OptionsInv
<1>1. CASE id \notin DOMAIN settings
  <2>1. options' \in {options, Cleared}
    BY <1>1 DEF OptionsUpdated, custom_update
  <2>2. CASE options' = options
    BY <2>2 DEF OptionsInv, OptionsAreTrue
  <2> QED
    BY <2>1, <2>2, OptionsFresh DEF OptionsInv
<1>2. CASE id \in DOMAIN settings /\ options.torrent_id # id
  <2>1. options' = OptionsRead(settings'[id], id, TRUE, options.selected)
    BY <1>0, <1>2 DEF OptionsUpdated, custom_update
  <2> QED
    BY <1>2, <2>1, OptionsFresh DEF OptionsInv
<1>3. CASE id \in DOMAIN settings /\ options.torrent_id = id
  <2> DEFINE torrent == settings[id]
  <2>1. options' = OptionsRead(torrent, id, FALSE, options.selected)
    BY <1>0, <1>3 DEF OptionsUpdated, custom_update
  <2>2. /\ options'.torrent_id = id /\ options'.same = options.same
        /\ options'.shown = IF torrent.download_settings_revision
                                 # options.download_settings_revision
                            THEN torrent.kept ELSE options.shown
        /\ options'.trackers = IF torrent.trackers_revision # options.trackers_revision
                               THEN torrent.trackers ELSE options.trackers
        /\ options'.download_settings_revision = torrent.download_settings_revision
        /\ options'.trackers_revision = torrent.trackers_revision
        /\ DOMAIN options' = DOMAIN Cleared
    BY <2>1, ClearedType DEF OptionsRead, OptionsInv
  <2>3. options.same => /\ options'.shown = torrent.kept
                        /\ options'.trackers = torrent.trackers
    BY <1>3, <2>2 DEF OptionsInv, OptionsAreTrue
  <2>4. IsKept(torrent)
    BY <1>3 DEF OptionsInv
  <2> QED
    BY <1>3, <2>2, <2>3, <2>4 DEF OptionsInv, OptionsAreTrue, IsKept
<1> QED
  BY <1>1, <1>2, <1>3

(* A change by the user is read again. *)
LEMMA OptionsApplied ==
  ASSUME OptionsInv, NEW new, NEW refused, NEW selection,
         options.torrent_id \in DOMAIN settings => IsKept(new),
         Apply(new, refused, selection)
  PROVE  /\ OptionsInv' /\ options'.torrent_id \in {options.torrent_id, None}
         /\ DOMAIN settings' = DOMAIN settings
<1> DEFINE id == options.torrent_id
<1>1. settings' = settings \/ (id \in DOMAIN settings /\ settings' = [settings EXCEPT ![id] = new])
  BY DEF Apply
<1>2. options' = custom_update(settings', id, TRUE, selection)
  BY DEF Apply
<1> HIDE DEF id
<1>3. options' = IF id \in DOMAIN settings'
                 THEN OptionsRead(settings'[id], id, TRUE, selection) ELSE Cleared
  BY <1>2 DEF custom_update
<1>4. DOMAIN settings' \subseteq Torrents /\ \A x \in DOMAIN settings' : IsKept(settings'[x])
  BY <1>1 DEF OptionsInv, id
<1>5. OptionsInv'
  BY <1>3, <1>4, OptionsFresh
<1>6. options'.torrent_id \in {id, None}
  BY <1>3, ClearedType DEF OptionsRead
<1>7. DOMAIN settings' = DOMAIN settings
  BY <1>1
<1> QED
  BY <1>5, <1>6, <1>7 DEF id

LEMMA EditsType ==
  ASSUME NEW torrent, IsKept(torrent)
  PROVE  /\ \A value : IsKept(set_sequential_download(torrent, value))
         /\ \A copy, to : IsKept(set_copy_when_finished(torrent, copy, to))
         /\ \A list : IsKept(set_torrent_trackers(torrent, list))
BY DEF IsKept, set_sequential_download, set_copy_when_finished, set_torrent_trackers

(* All that the user may do with the widget. *)
LEMMA OptionsChanged ==
  ASSUME OptionsInv,
         \/ ToggleSequentialDownload \/ ToggleCopyWhenFinished \/ ChooseDirectory
         \/ \E url \in Urls : AppendTracker(url)
         \/ RemoveTracker
         \/ \E direction \in {-1, 1} : PushTracker(direction)
  PROVE  /\ OptionsInv' /\ options'.torrent_id \in {options.torrent_id, None}
         /\ DOMAIN settings' = DOMAIN settings
<1>1. options.torrent_id \in DOMAIN settings => IsKept(Current)
  BY DEF OptionsInv, Current
<1>2. PICK new, refused, selection :
          /\ Apply(new, refused, selection)
          /\ \/ \E value : new = set_sequential_download(Current, value)
             \/ \E copy, to : new = set_copy_when_finished(Current, copy, to)
             \/ \E list : new = set_torrent_trackers(Current, list)
  <2>1. CASE ToggleSequentialDownload
    BY <2>1 DEF ToggleSequentialDownload
  <2>2. CASE ToggleCopyWhenFinished
    BY <2>2 DEF ToggleCopyWhenFinished
  <2>3. CASE ChooseDirectory
    BY <2>3 DEF ChooseDirectory
  <2>4. ASSUME NEW url \in Urls, AppendTracker(url)
        PROVE  \E list, refused, selection :
                   Apply(set_torrent_trackers(Current, list), refused, selection)
    BY <2>4 DEF AppendTracker
  <2>5. CASE RemoveTracker
    BY <2>5 DEF RemoveTracker
  <2>6. ASSUME NEW direction \in {-1, 1}, PushTracker(direction)
        PROVE  \E list, refused, selection :
                   Apply(set_torrent_trackers(Current, list), refused, selection)
    BY <2>6 DEF PushTracker
  <2> QED
    BY <2>1, <2>2, <2>3, <2>4, <2>5, <2>6
<1>3. options.torrent_id \in DOMAIN settings => IsKept(new)
  BY <1>1, <1>2, EditsType
<1> QED
  BY <1>2, <1>3, OptionsApplied

(* The torrents of the session have changed. *)
LEMMA OptionsFollow ==
  ASSUME OptionsInv, NEW s, DOMAIN s \subseteq Torrents, SettingsFollow(s)
  PROVE  OptionsInv' /\ options'.torrent_id = options.torrent_id
<1>1. /\ DOMAIN settings' = DOMAIN s
      /\ \A id \in DOMAIN s : /\ IsKept(settings'[id])
                              /\ id \in DOMAIN settings => settings'[id] = settings[id]
  BY DEF SettingsFollow, OptionsInv, IsKept, FIRST_REVISION
<1>2. options' = [options EXCEPT !.same = @ /\ options.torrent_id \in DOMAIN s \cup {None}]
  BY DEF SettingsFollow
<1>3. /\ DOMAIN options' = DOMAIN options
      /\ options'.same = (options.same /\ options.torrent_id \in DOMAIN s \cup {None})
      /\ options'.torrent_id = options.torrent_id
      /\ options'.shown = options.shown /\ options'.trackers = options.trackers
      /\ options'.download_settings_revision = options.download_settings_revision
      /\ options'.trackers_revision = options.trackers_revision
  BY <1>2, ClearedType DEF OptionsInv
<1>4. None \notin DOMAIN s
  BY NoneIsNoTorrent
<1>5. options'.same /\ options'.torrent_id \in DOMAIN settings' =>
          settings'[options.torrent_id] = settings[options.torrent_id]
          /\ options.torrent_id \in DOMAIN settings
  BY <1>1, <1>3, <1>4 DEF OptionsInv
<1> QED
  BY <1>1, <1>3, <1>5 DEF OptionsInv, OptionsAreTrue

LEMMA OptionsWhenFinished ==
  ASSUME OptionsInv, NEW id \in DOMAIN settings, UNCHANGED options,
         settings' = [settings EXCEPT ![id] = Finished(@)]
  PROVE  OptionsInv'
<1>1. IsKept(settings[id])
  BY DEF OptionsInv
<1>2. /\ DOMAIN settings' = DOMAIN settings
      /\ settings'[id] = Finished(settings[id])
      /\ \A x \in DOMAIN settings \ {id} : settings'[x] = settings[x]
  BY DEF OptionsInv
<1>3. /\ IsKept(settings'[id])
      /\ settings'[id].trackers = settings[id].trackers
      /\ settings'[id].trackers_revision = settings[id].trackers_revision
      /\ \/ settings'[id] = settings[id]
         \/ settings'[id].download_settings_revision
                = settings[id].download_settings_revision + 1
  BY <1>1, <1>2 DEF Finished, IsKept
<1>4. \A x \in DOMAIN settings' : IsKept(settings'[x])
  BY <1>2, <1>3 DEF OptionsInv
<1>5. CASE options.torrent_id # id \/ ~options.same
  BY <1>2, <1>4, <1>5 DEF OptionsInv, OptionsAreTrue
<1>6. CASE options.torrent_id = id /\ options.same
  <2>1. /\ options.download_settings_revision <= settings[id].download_settings_revision
        /\ options.trackers_revision <= settings[id].trackers_revision
        /\ options.download_settings_revision \in Nat
        /\ options.download_settings_revision = settings[id].download_settings_revision
               => options.shown = settings[id].kept
        /\ options.trackers_revision = settings[id].trackers_revision
               => options.trackers = settings[id].trackers
    BY <1>6 DEF OptionsInv, OptionsAreTrue
  <2> QED
    BY <1>1, <1>2, <1>3, <1>4, <1>6, <2>1 DEF OptionsInv, OptionsAreTrue, IsKept
<1> QED
  BY <1>5, <1>6

(* What a step does to the widgets: one of them may be updated. *)
LEMMA WidgetMoves ==
  ASSUME \/ \E ids \in SUBSET Torrents : Select(ids)
         \/ \E widget \in Widgets \cup {"none"} : ChooseWidget(widget)
         \/ ChangeFiles \/ EraseRow \/ FinishRedraw
  PROVE  /\ UNCHANGED <<settings, own>>
         /\ \/ /\ NoWidgetUpdated /\ UNCHANGED current_info_widget
               /\ UNCHANGED cur_torrent_id \/ current_info_widget \in {"none", "log"}
            \/ /\ current_info_widget' = "none" /\ displayed' = None
               /\ UNCHANGED <<files, options, blamed, cur_torrent_id>>
            \/ /\ WidgetUpdated(current_info_widget', session, settings, cur_torrent_id')
            \/ /\ WidgetUpdated("files", session, settings, files.cur_torrent_id)
               /\ current_info_widget = "files"
               /\ UNCHANGED <<cur_torrent_id, current_info_widget>>
<1>1. ASSUME NEW ids, SelectionChanged(ids), UNCHANGED <<settings, own, current_info_widget>>
      PROVE  \/ /\ NoWidgetUpdated
                /\ current_info_widget \in {"none", "log"}
             \/ WidgetUpdated(current_info_widget', session, settings, cur_torrent_id')
  BY <1>1 DEF SelectionChanged, TorrentChanged
<1>2. ASSUME NEW ids, Select(ids)
      PROVE  SelectionChanged(ids) /\ UNCHANGED <<settings, own, current_info_widget>>
  BY <1>2 DEF Select
<1>3. CASE EraseRow
  <2>1. UNCHANGED <<settings, own, current_info_widget>>
    BY <1>3 DEF EraseRow
  <2>2. \/ UNCHANGED cur_torrent_id /\ NoWidgetUpdated
        \/ \E ids : SelectionChanged(ids)
    BY <1>3 DEF EraseRow
  <2> QED
    BY <1>1, <2>1, <2>2
<1>4. ASSUME NEW widget, ChooseWidget(widget)
      PROVE  /\ UNCHANGED <<settings, own, cur_torrent_id>>
             /\ \/ /\ current_info_widget' = "none" /\ displayed' = None
                   /\ UNCHANGED <<files, options, blamed>>
                \/ WidgetUpdated(current_info_widget', session, settings, cur_torrent_id')
  BY <1>4 DEF ChooseWidget, view
<1>5. CASE ChangeFiles
  BY <1>5 DEF ChangeFiles, view
<1>6. CASE FinishRedraw
  BY <1>6 DEF FinishRedraw
<1> QED
  BY <1>1, <1>2, <1>3, <1>4, <1>5, <1>6

LEMMA OptionsStep ==
  SessionInv /\ SessionInv' /\ SettingsInv /\ OptionsInv /\ [Next]_vars => OptionsInv'
<1> SUFFICES ASSUME SessionInv, SessionInv', SettingsInv, OptionsInv, [Next]_vars
             PROVE  OptionsInv'
  OBVIOUS
<1>1. CASE UNCHANGED <<settings, options>>
  BY <1>1 DEF OptionsInv, OptionsAreTrue
<1>2. DOMAIN session' \subseteq Torrents
  BY DEF SessionInv, SessionTypeOK
<1>3. ASSUME \/ \E id \in Torrents : Activate(id)
             \/ UpdateTimeout \/ ChangeCategories \/ ChangeShowZeroValues \/ Hide \/ Show
             \/ \E action \in {"pause", "resume", "recheck"} : Process(action)
             \/ Ask \/ Refuse \/ UNCHANGED vars
      PROVE  UNCHANGED <<settings, options>>
  BY <1>3 DEF Activate, UpdateTimeout, ChangeCategories, ChangeShowZeroValues, Hide, Show,
              Process, Ask, Refuse, vars, gui, optionsVars
<1>4. ASSUME \/ \E ids \in SUBSET Torrents : Select(ids)
             \/ \E widget \in Widgets \cup {"none"} : ChooseWidget(widget)
             \/ ChangeFiles \/ EraseRow \/ FinishRedraw
      PROVE  OptionsInv'
  <2>1. UNCHANGED settings
    BY <1>4, WidgetMoves
  <2>2. ASSUME NEW w, NEW id, WidgetUpdated(w, session, settings, id) PROVE OptionsInv'
    <3>1. options' = OptionsUpdated(settings, id) \/ UNCHANGED options
      BY <2>2 DEF WidgetUpdated
    <3> QED
      BY <1>1, <2>1, <3>1, OptionsRefreshed
  <2> QED
    BY <1>1, <1>4, <2>1, <2>2, WidgetMoves DEF NoWidgetUpdated
<1>5. CASE ChangeOptions
  <2>1. ASSUME NEW url \in Urls, SelectTracker(url), UNCHANGED settings PROVE OptionsInv'
    <3>1. options' = [options EXCEPT !.selected = url]
      BY <2>1 DEF SelectTracker
    <3>2. /\ DOMAIN options' = DOMAIN options
          /\ options'.same = options.same
          /\ options'.torrent_id = options.torrent_id
          /\ options'.shown = options.shown /\ options'.trackers = options.trackers
          /\ options'.download_settings_revision = options.download_settings_revision
          /\ options'.trackers_revision = options.trackers_revision
      BY <3>1, ClearedType DEF OptionsInv
    <3> QED
      BY <2>1, <3>2 DEF OptionsInv, OptionsAreTrue
  <2> QED
    BY <1>1, <1>5, <2>1, OptionsChanged DEF ChangeOptions
<1>6. CASE AnswerChooser
  BY <1>1, <1>6, OptionsChanged DEF AnswerChooser
<1>7. CASE Behind
  <2>1. ASSUME NEW id \in DOMAIN session, settings[id].kept.copy, UNCHANGED options,
               settings' = [settings EXCEPT ![id] = Finished(@)]
        PROVE  OptionsInv'
    <3>1. CASE id \in DOMAIN settings
      BY <2>1, <3>1, OptionsWhenFinished
    <3>2. CASE id \notin DOMAIN settings
      BY <2>1, <3>2 DEF OptionsInv, OptionsAreTrue
    <3> QED
      BY <3>1, <3>2
  <2> QED
    BY <1>2, <1>7, <2>1, OptionsFollow DEF Behind
<1>8. ASSUME NEW withData, Confirm(withData) PROVE OptionsInv'
  <2>1. CASE SettingsFollow(session')
    BY <1>2, <2>1, OptionsFollow
  <2>2. CASE options' = Cleared /\ settings' = [id \in DOMAIN session' |-> settings[id]]
    <3>1. DOMAIN session' \subseteq DOMAIN settings
      <4>1. PICK done \in Done(dialog) : RemoveTorrents(done, withData)
        BY <1>8 DEF Confirm
      <4>2. session' = Removed(session, done)
        BY <4>1 DEF RemoveTorrents
      <4> QED
        BY <4>2 DEF Removed, SettingsInv
    <3>2. DOMAIN settings' \subseteq Torrents
      BY <2>2, <3>1 DEF OptionsInv
    <3>3. \A id \in DOMAIN settings' : IsKept(settings'[id])
      BY <2>2, <3>1 DEF OptionsInv
    <3> QED
      BY <2>2, <3>2, <3>3, OptionsFresh
  <2> QED
    BY <1>8, <2>1, <2>2 DEF Confirm
<1> QED
  BY <1>3, <1>4, <1>5, <1>6, <1>7, <1>8, <1>1 DEF Next

LEMMA SettingsStep ==
  SettingsInv /\ OptionsInv /\ [Next]_vars => SettingsInv'
<1> SUFFICES ASSUME SettingsInv, OptionsInv, [Next]_vars PROVE SettingsInv'
  OBVIOUS
<1>1. ASSUME \/ \E id \in Torrents : Activate(id)
             \/ UpdateTimeout \/ ChangeCategories \/ ChangeShowZeroValues \/ Hide \/ Show
             \/ Ask \/ Refuse \/ UNCHANGED vars
      PROVE  UNCHANGED <<session, settings>>
  BY <1>1 DEF Activate, UpdateTimeout, ChangeCategories, ChangeShowZeroValues, Hide, Show,
              Ask, Refuse, vars, gui, optionsVars, sessionVars
<1>2. ASSUME \/ \E ids \in SUBSET Torrents : Select(ids)
             \/ \E widget \in Widgets \cup {"none"} : ChooseWidget(widget)
             \/ ChangeFiles \/ EraseRow \/ FinishRedraw
      PROVE  UNCHANGED <<session, settings>>
  BY <1>2 DEF Select, ChooseWidget, ChangeFiles, EraseRow, FinishRedraw, sessionVars
<1>3. CASE ChangeOptions \/ AnswerChooser
  <2>1. UNCHANGED session
    BY <1>3 DEF ChangeOptions, AnswerChooser, sessionVars
  <2>2. DOMAIN settings' = DOMAIN settings
    BY <1>3, OptionsChanged DEF ChangeOptions, AnswerChooser
  <2> QED
    BY <2>1, <2>2 DEF SettingsInv
<1>4. ASSUME NEW action, Process(action) PROVE SettingsInv'
  <2>1. PICK done : PauseTorrents(done) \/ ResumeTorrents(done) \/ RecheckTorrents(done)
    BY <1>4 DEF Process
  <2>2. UNCHANGED settings
    BY <1>4 DEF Process, optionsVars
  <2> QED
    BY <2>1, <2>2, ProcessedDomain DEF SettingsInv
<1>5. CASE Behind
  <2>1. CASE SettingsFollow(session')
    BY <2>1 DEF SettingsFollow, SettingsInv
  <2>2. CASE \E id : settings' = [settings EXCEPT ![id] = Finished(@)] /\ UNCHANGED session
    BY <2>2 DEF SettingsInv
  <2> QED
    BY <1>5, <2>1, <2>2 DEF Behind, sessionVars
<1>6. ASSUME NEW withData, Confirm(withData) PROVE SettingsInv'
  BY <1>6 DEF Confirm, SettingsFollow, SettingsInv
<1> QED
  BY <1>1, <1>2, <1>3, <1>4, <1>5, <1>6 DEF Next, SettingsInv

-----------------------------------------------------------------------------
(* The widgets. *)

LEMMA UpdatedType ==
  ASSUME NEW w, NEW s, NEW kept, NEW id, WidgetUpdated(w, s, kept, id)
  PROVE  /\ displayed' \in (IF w \in {"details", "peers"} THEN {id, None} ELSE {None})
         /\ w = "files" => files'.cur_torrent_id \in {id, None}
         /\ w = "options" => options'.torrent_id \in {id, None}
         /\ id \notin own' => (blamed' <=> blamed)
<1>1. displayed' \in (IF w \in {"details", "peers"} THEN {id, None} ELSE {None})
  BY DEF WidgetUpdated, DetailsOf, PeersOf
<1>2. w = "files" => files'.cur_torrent_id \in {id, None}
  BY DEF WidgetUpdated, FilesUpdated, FilesOf, NoFiles
<1>3. ASSUME w = "options" PROVE options'.torrent_id \in {id, None}
  <2>1. options' = OptionsUpdated(kept, id)
    BY <1>3 DEF WidgetUpdated
  <2> QED
    BY <2>1, ClearedType DEF OptionsUpdated, custom_update, OptionsRead
<1>4. id \notin own' => (blamed' <=> blamed)
  BY DEF WidgetUpdated, Asked
<1> QED
  BY <1>1, <1>2, <1>3, <1>4

LEMMA WidgetStep == SessionInv' /\ ListInv /\ OptionsInv /\ WidgetInv /\ [Next]_vars => WidgetInv'
<1> SUFFICES ASSUME SessionInv', ListInv, OptionsInv, WidgetInv, [Next]_vars PROVE WidgetInv'
  OBVIOUS
<1>1. ASSUME \/ \E id \in Torrents : Activate(id)
             \/ UpdateTimeout \/ ChangeCategories \/ ChangeShowZeroValues \/ Hide \/ Show
             \/ \E action \in {"pause", "resume", "recheck"} : Process(action)
             \/ Ask \/ Refuse \/ UNCHANGED vars
      PROVE  WidgetInv'
  <2>1. UNCHANGED <<info, options, cur_torrent_id>>
    BY <1>1 DEF Activate, UpdateTimeout, ChangeCategories, ChangeShowZeroValues, Hide, Show,
                Process, Ask, Refuse, vars, gui, optionsVars, view
  <2> QED
    BY <2>1 DEF info, WidgetInv
<1>2. ASSUME \/ \E ids \in SUBSET Torrents : Select(ids)
             \/ \E widget \in Widgets \cup {"none"} : ChooseWidget(widget)
             \/ ChangeFiles \/ EraseRow \/ FinishRedraw
      PROVE  WidgetInv'
  BY <1>2, WidgetMoves, UpdatedType DEF NoWidgetUpdated, WidgetInv
<1>3. CASE ChangeOptions \/ AnswerChooser
  <2>1. UNCHANGED <<info, cur_torrent_id>>
    BY <1>3 DEF ChangeOptions, AnswerChooser, view
  <2>2. ASSUME NEW url, SelectTracker(url) PROVE options'.torrent_id = options.torrent_id
    BY <2>2, ClearedType DEF SelectTracker, OptionsInv
  <2>3. options'.torrent_id \in {options.torrent_id, None}
    BY <1>3, <2>2, OptionsChanged DEF ChangeOptions, AnswerChooser
  <2> QED
    BY <2>1, <2>3 DEF info, WidgetInv
<1>4. CASE Behind
  <2>1. UNCHANGED <<info, cur_torrent_id>>
    BY <1>4 DEF Behind, view
  <2>2. options'.torrent_id = options.torrent_id
    BY <1>4, OptionsFollow DEF Behind, SessionInv, SessionTypeOK
  <2> QED
    BY <2>1, <2>2 DEF info, WidgetInv
<1>5. ASSUME NEW withData, Confirm(withData) PROVE WidgetInv'
  <2>1. DOMAIN session' \subseteq Torrents
    BY DEF SessionInv, SessionTypeOK
  <2>2. cur_torrent_id' = None /\ UNCHANGED current_info_widget
    BY <1>5 DEF Confirm
  <2>3. CASE selected = {}
    <3>1. cur_torrent_id = None
      BY <2>3, DetailedType DEF ListInv
    <3>2. UNCHANGED <<files, displayed>> /\ SettingsFollow(session')
      BY <1>5, <2>3 DEF Confirm
    <3>3. options'.torrent_id = options.torrent_id
      BY <2>1, <3>2, OptionsFollow
    <3> QED
      BY <2>2, <3>1, <3>2, <3>3 DEF WidgetInv
  <2>4. CASE selected # {}
    <3>1. /\ current_info_widget = "files" => files' = NoFiles
          /\ displayed' = IF current_info_widget \in {"details", "peers"} THEN None
                          ELSE displayed
          /\ current_info_widget = "options" => options' = Cleared
      BY <1>5, <2>4 DEF Confirm
    <3> QED
      BY <2>2, <3>1, ClearedType DEF WidgetInv, NoFiles
  <2> QED
    BY <2>3, <2>4
<1> QED
  BY <1>1, <1>2, <1>3, <1>4, <1>5 DEF Next

-----------------------------------------------------------------------------
(* The torrents removed in the window. *)

LEMMA CurrentIsNotOwn == ListInv /\ OwnInv => cur_torrent_id \notin own /\ None \notin own
BY DetailedType, NoneIsNoTorrent DEF ListInv, OwnInv

LEMMA RowsAreNotOwn == ListInv /\ OwnInv /\ redraw = "none" => DOMAIN rows \cap own = {}
BY FilteredType DEF ListInv, OwnInv

LEMMA OwnStep ==
  SessionInv /\ ListInv /\ ListInv' /\ WidgetInv /\ OwnInv /\ [Next]_vars => OwnInv'
<1> SUFFICES ASSUME SessionInv, ListInv, ListInv', WidgetInv, OwnInv, [Next]_vars
             PROVE  OwnInv'
  OBVIOUS
<1>1. ASSUME ChangeCategories \/ Hide \/ Refuse \/ ChangeOptions \/ AnswerChooser \/ UNCHANGED vars
      PROVE  OwnInv'
  <2>1. UNCHANGED <<session, torrents, selected, own, blamed>> /\ dialog' \subseteq dialog
    BY <1>1 DEF ChangeCategories, Hide, Refuse, ChangeOptions, AnswerChooser, vars, gui,
                view, sessionVars
  <2> QED
    BY <2>1 DEF OwnInv
<1>2. CASE UpdateTimeout \/ ChangeShowZeroValues \/ Show
  <2>1. /\ torrents' = InfosOf(session)
        /\ UNCHANGED <<session, selected, own, blamed, dialog>>
    BY <1>2 DEF UpdateTimeout, ChangeShowZeroValues, Show, UpdateGui, sessionVars
  <2> QED
    BY <2>1 DEF OwnInv, InfosOf
<1>3. ASSUME NEW id \in Torrents, Activate(id) PROVE OwnInv'
  <2>1. id \in DOMAIN rows /\ redraw = "none" /\ (blamed' <=> blamed \/ id \in own)
        /\ UNCHANGED <<session, torrents, selected, own, dialog>>
    BY <1>3 DEF Activate, UserMayAct, Idle, sessionVars, view
  <2> QED
    BY <2>1, RowsAreNotOwn DEF OwnInv
<1>4. ASSUME NEW action, Process(action) PROVE OwnInv'
  <2>1. PICK done : PauseTorrents(done) \/ ResumeTorrents(done) \/ RecheckTorrents(done)
    BY <1>4 DEF Process
  <2>2. /\ torrents' = InfosOf(session') /\ (blamed' <=> blamed \/ selected \cap own # {})
        /\ UNCHANGED <<selected, own, dialog>>
    BY <1>4 DEF Process, Report, UpdateGui
  <2> QED
    BY <2>1, <2>2, ProcessedDomain DEF OwnInv, InfosOf
<1>5. CASE Ask
  BY <1>5 DEF Ask, OwnInv, sessionVars, view
<1>6. ASSUME NEW withData, Confirm(withData) PROVE OwnInv'
  <2>1. PICK done \in Done(dialog) : RemoveTorrents(done, withData) /\ own' = own \cup done
    BY <1>6 DEF Confirm
  <2>2. /\ selected' = {} /\ dialog' = {} /\ (blamed' <=> blamed \/ dialog \cap own # {})
        /\ torrents' = InfosOf(session')
    BY <1>6 DEF Confirm, Report, UpdateGui
  <2>3. DOMAIN session' = DOMAIN session \ done /\ done \subseteq Torrents
    BY <2>1, DoneType DEF RemoveTorrents, Removed, SessionInv, SessionTypeOK
  <2> QED
    BY <2>1, <2>2, <2>3 DEF OwnInv, InfosOf
<1>7. CASE Behind
  <2>1. own' = own \ DOMAIN session' /\ UNCHANGED <<torrents, selected, dialog, blamed>>
    BY <1>7 DEF Behind, view
  <2> QED
    BY <2>1 DEF OwnInv
<1>8. ASSUME \/ \E ids \in SUBSET Torrents : Select(ids)
             \/ \E widget \in Widgets \cup {"none"} : ChooseWidget(widget)
             \/ ChangeFiles \/ EraseRow \/ FinishRedraw
      PROVE  OwnInv'
  <2>1. selected' \cap own = {}
    <3>1. ASSUME NEW ids, Select(ids) PROVE selected' \subseteq DOMAIN rows /\ redraw = "none"
      BY <3>1 DEF Select, SelectionChanged, UserMayAct, Idle
    <3>2. ASSUME \/ \E widget \in Widgets \cup {"none"} : ChooseWidget(widget)
                 \/ ChangeFiles \/ EraseRow \/ FinishRedraw
          PROVE  selected' \subseteq selected
      BY <3>2 DEF ChooseWidget, ChangeFiles, EraseRow, FinishRedraw, SelectionChanged, view
    <3> QED
      BY <1>8, <3>1, <3>2, RowsAreNotOwn DEF OwnInv
  <2>2. UNCHANGED <<session, torrents, dialog, own>>
    BY <1>8 DEF Select, ChooseWidget, ChangeFiles, EraseRow, FinishRedraw, sessionVars, view
  <2>3. OwnInv /\ cur_torrent_id' \notin own' /\ None \notin own'
    BY <2>1, <2>2, DetailedType, CurrentIsNotOwn DEF ListInv
  <2>4. current_info_widget = "files" => files.cur_torrent_id \notin own'
    BY <2>2, CurrentIsNotOwn DEF WidgetInv
  <2>5. blamed' <=> blamed
    BY <1>8, <2>3, <2>4, WidgetMoves, UpdatedType DEF NoWidgetUpdated
  <2> QED
    BY <2>1, <2>2, <2>5 DEF OwnInv
<1> QED
  BY <1>1, <1>2, <1>3, <1>4, <1>5, <1>6, <1>7, <1>8 DEF Next

-----------------------------------------------------------------------------
LEMMA InitInv == Init => Inv
<1> SUFFICES ASSUME Init PROVE Inv
  OBVIOUS
<1>1. /\ session = << >> /\ clean \in Cleanings /\ deleted = {} /\ interrupted = {}
      /\ settings = << >> /\ options = Cleared
      /\ torrents = << >> /\ infos = << >> /\ rows = << >> /\ selected = {}
      /\ cur_torrent_id = None /\ displayed = None /\ dialog = {} /\ own = {}
      /\ blamed = FALSE /\ redraw = "none" /\ visible = FALSE
  BY DEF Init, SessionInit, OptionsInit
<1>2. DOMAIN << >> = {}
  OBVIOUS
<1>3. SessionInv
  BY <1>1, <1>2, FS_EmptySet DEF SessionInv, SessionTypeOK
<1>4. ListInv
  <2>1. DOMAIN Filtered = {} /\ Filtered = [id \in {} |-> torrents[id]]
    BY <1>1, <1>2 DEF Filtered
  <2>2. Filtered = << >>
    <3>1. [id \in {} |-> torrents[id]] = << >>
      OBVIOUS
    <3> QED
      BY <2>1, <3>1
  <2> QED
    BY <1>1, <1>2, <2>2, DetailedType DEF ListInv
<1>5. LabelsInv
  <2>1. PICK saved \in SUBSET Categories, flags \in [1..3 -> BOOLEAN] :
            CategoriesInit(saved, flags[1], flags[2], flags[3])
    BY DEF Init
  <2>2. flags[2] \in BOOLEAN /\ flags[3] \in BOOLEAN
    OBVIOUS
  <2> QED
    BY <1>1, <2>1, <2>2 DEF CategoriesInit, LabelsInv
<1>6. WidgetInv
  BY <1>1, ClearedType DEF Init, NoFiles, WidgetInv
<1>7. OwnInv
  BY <1>1, <1>2 DEF OwnInv
<1>8. SettingsInv /\ OptionsInv
  BY <1>1, <1>2, ClearedType, NoneIsNoTorrent
     DEF SettingsInv, OptionsInv, OptionsAreTrue, Cleared, INIT_REVISION
<1> QED
  BY <1>3, <1>4, <1>5, <1>6, <1>7, <1>8 DEF Inv

LEMMA InvStep == Inv /\ [Next]_vars => Inv'
BY SessionInvStep, ListStep, LabelsStep, WidgetStep, OwnStep, SettingsStep, OptionsStep DEF Inv

(* The parts of the invariant hold together at every moment. *)
THEOREM InvAlways == ViewSpec => []Inv
BY InitInv, InvStep, PTL DEF ViewSpec

-----------------------------------------------------------------------------
(* What the invariant says of the window. *)

(* get_available_actions() finds the information about every selected torrent,
   in the middle of a redrawing as well: rows are erased before it goes. *)
THEOREM SelectedAreKnown == ViewSpec => []SelectionIsKnown
<1>1. Inv => SelectionIsKnown
  BY DEF Inv, ListInv, SelectionIsKnown
<1> QED
  BY <1>1, InvAlways, PTL

(* Between two redrawings a window that can be seen shows what it knows, in the
   rows, beside the categories and in the widget of the selected torrent. *)
THEOREM WindowCorrect == ViewSpec => []WindowIsTrue
<1>1. Inv => WindowIsTrue
  <2> SUFFICES ASSUME Inv, redraw = "none", visible
               PROVE  WindowIsTrue
    BY DEF WindowIsTrue
  <2>1. /\ infos = Filtered /\ DOMAIN rows = DOMAIN infos
        /\ \A id \in DOMAIN rows :
               rows[id] = [icon |-> get_status_icon_id(infos[id]),
                           status |-> get_status_string(infos[id]),
                           zeros |-> {show_zero_values}]
    BY DEF Inv, ListInv
  <2>2. LabelsAgree(torrents)
    BY DEF Inv, LabelsInv
  <2>3. /\ displayed \in {cur_torrent_id, None}
        /\ current_info_widget = "options" => options.torrent_id \in {cur_torrent_id, None}
    BY DEF Inv, WidgetInv
  <2> QED
    BY <2>1, <2>2, <2>3 DEF WindowIsTrue
<1> QED
  BY <1>1, InvAlways, PTL

(* A torrent that was removed in this window is neither in its list nor
   selected nor shown by a widget, so that nobody asks the daemon about it. *)
THEOREM OwnRemovalsCorrect == ViewSpec => []OwnRemovalsAreKnown
<1>1. Inv => OwnRemovalsAreKnown
  BY DEF Inv, OwnInv, OwnRemovalsAreKnown
<1> QED
  BY <1>1, InvAlways, PTL

(* The revisions tell the options and the trackers apart: remembering the one
   the daemon has, the widget shows what the daemon has. *)
THEOREM OptionsCorrect == ViewSpec => []OptionsAreTrue
<1>1. Inv => OptionsAreTrue
  BY DEF Inv, OptionsInv
<1> QED
  BY <1>1, InvAlways, PTL

(* The limit on the number of seeding torrents keeps as many as it allows, and
   the ones that have been seeding for the shortest time. *)
THEOREM YoungestKept == ViewSpec => LimitKeepsTheYoungest
<1>1. Inv /\ [Next]_vars =>
        [\A time_diff \in {0, 1} :
            clean.max_seeding_torrents_type # NONE /\ UpdateStatistics(time_diff) =>
            LET stay == {id \in DOMAIN session' : session'[id].seeding}
                time(id) == Counted(time_diff)[id].time_seeding
                cleaned == {id \in SeedingBefore \ stay : ~OverLimit(id, time(id))}
            IN /\ Cardinality(stay) <= clean.max_seeding_torrents
               /\ cleaned # {} => Cardinality(stay) = clean.max_seeding_torrents
               /\ \A id \in cleaned, other \in stay : time(other) <= time(id)
        ]_sessionVars
  BY LimitStep DEF Inv
<1> QED
  BY <1>1, InvAlways, PTL DEF ViewSpec, LimitKeepsTheYoungest

(* A torrent beyond the limits on the time and on the ratio is treated as the
   stricter of the two says: it goes unless both are content with a pause, and
   its data goes exactly when one of them asks for that. *)
THEOREM StricterApplies == ViewSpec => StricterLimitApplies
<1>1. Init => DeletedInv
  BY DEF Init, SessionInit, DeletedInv
<1>2. Inv /\ DeletedInv /\ [Next]_vars => DeletedInv'
  BY DeletedStep DEF Inv
<1>3. Inv /\ DeletedInv /\ [Next]_vars =>
        [\A id \in SeedingBefore, time_diff \in {0, 1} :
            UpdateStatistics(time_diff) =>
                LET tooLong == Counted(time_diff)[id].time_seeding >= clean.max_seeding_time
                    demands == (IF tooLong THEN {clean.max_seeding_time_type} ELSE {})
                               \cup (IF session[id].shared THEN {clean.max_ratio_type} ELSE {})
                IN demands \ {NONE} # {} =>
                       /\ id \in DOMAIN session' <=> demands \subseteq {NONE, PAUSE}
                       /\ id \in DOMAIN session' => session'[id].paused
                       /\ id \in deleted' <=> REMOVE_WITH_DATA \in demands
        ]_sessionVars
  <2> SUFFICES ASSUME Inv, DeletedInv, NEW id \in SeedingBefore, NEW time_diff \in {0, 1},
                      UpdateStatistics(time_diff)
               PROVE  LET tooLong == Counted(time_diff)[id].time_seeding >= clean.max_seeding_time
                          demands == (IF tooLong THEN {clean.max_seeding_time_type} ELSE {})
                                     \cup (IF session[id].shared THEN {clean.max_ratio_type} ELSE {})
                      IN demands \ {NONE} # {} =>
                             /\ id \in DOMAIN session' <=> demands \subseteq {NONE, PAUSE}
                             /\ id \in DOMAIN session' => session'[id].paused
                             /\ id \in deleted' <=> REMOVE_WITH_DATA \in demands
    OBVIOUS
  <2>1. Demands(Counted(time_diff)[id]) =
           (IF Counted(time_diff)[id].time_seeding >= clean.max_seeding_time
            THEN {clean.max_seeding_time_type} ELSE {})
           \cup (IF session[id].shared THEN {clean.max_ratio_type} ELSE {})
    BY CountedType DEF Demands, SeedingBefore, Inv
  <2> QED
    BY <2>1, StricterStep DEF Inv, DeletedInv
<1> QED
  BY <1>1, <1>2, <1>3, InvAlways, PTL DEF ViewSpec, StricterLimitApplies

(* The time of a torrent that was paused since the last count is not counted. *)
THEOREM PausesNotCounted == ViewSpec => PausesAreNotCounted
<1>1. Inv /\ [Next]_vars =>
        [\A time_diff \in {0, 1} : interrupted # {} /\ UpdateStatistics(time_diff) =>
            \A id \in interrupted \cap DOMAIN session' :
                session'[id].time_seeding = session[id].time_seeding
        ]_sessionVars
  BY PausesStep DEF Inv
<1> QED
  BY <1>1, InvAlways, PTL DEF ViewSpec, PausesAreNotCounted

=============================================================================
