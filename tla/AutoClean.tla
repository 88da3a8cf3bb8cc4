------------------------------ MODULE AutoClean ------------------------------
(***************************************************************************)
(* Automatic cleaning: once a minute the daemon session adds up the time   *)
(* its torrents have been seeding, and then pauses or removes those that   *)
(* have been seeding for too long, have been shared enough, or are too     *)
(* many (on_update_torrents_statistics_callback() and automate() of        *)
(* src/daemon_session.cpp).  Nobody is asked, and nobody is told.          *)
(*                                                                         *)
(* The operations of the session are operators on its torrents, so that    *)
(* TorrentsView can compose them with the window that shows the torrents.  *)
(***************************************************************************)
EXTENDS Integers, FiniteSets, FiniteSetsExt, SequencesExt

CONSTANTS Torrents,  \* identifiers of torrents
          Cleanings, \* the settings the session may be started with
          MaxTime,   \* bound: longer times of seeding are not told apart
          Magnets    \* whether torrents are added as magnet links, too

(* Auto_clean_type: a greater one is stricter. *)
NONE == 0
PAUSE == 1
REMOVE == 2
REMOVE_WITH_DATA == 3
Auto_clean_type == NONE..REMOVE_WITH_DATA

ASSUME AutoCleanAssumption ==
    /\ MaxTime \in Nat
    /\ Cleanings \subseteq [max_seeding_time : Nat,
                            max_seeding_time_type : Auto_clean_type,
                            max_ratio_type : Auto_clean_type,
                            max_seeding_torrents : Nat,
                            max_seeding_torrents_type : Auto_clean_type]
    /\ Magnets \in BOOLEAN

VARIABLES session,     \* the torrents of the session: identifier -> torrent
          clean,       \* its settings of automatic cleaning
          deleted,     \* torrents whose data was deleted with them
          interrupted  \* ghost: torrents paused since the time was counted

sessionVars == <<session, clean, deleted, interrupted>>

(* What is kept of a torrent.  Seeding stands for uploading as well, checking
   for all that is not complete; `shared' says that the greatest share ratio
   has been reached. *)
Torrent == [status : {"checking", "seeding"}, paused : BOOLEAN,
            seeding : BOOLEAN, time_seeding : 0..MaxTime, shared : BOOLEAN,
            metadata : {"file", "awaited", "received"}]

SessionTypeOK == /\ DOMAIN session \subseteq Torrents
                 /\ \A id \in DOMAIN session : session[id] \in Torrent
                 /\ clean \in Cleanings
                 /\ deleted \subseteq Torrents
                 /\ interrupted \subseteq Torrents

SessionInit == /\ session = << >>
               /\ clean \in Cleanings
               /\ deleted = {} /\ interrupted = {}

-----------------------------------------------------------------------------
(* What the operations make of the torrents `s'. *)

NewTorrent(magnet) ==
    [status |-> "checking", paused |-> FALSE, seeding |-> FALSE, shared |-> FALSE,
     time_seeding |-> 0, metadata |-> IF magnet THEN "awaited" ELSE "file"]

(* Mutant: the torrent is still taken for one that is seeding. *)
MutPaused(s, ids) == [id \in DOMAIN s |-> IF id \notin ids THEN s[id]
                                          ELSE [s[id] EXCEPT !.paused = TRUE]]

(* pause_torrent(). *)
Paused(s, ids) ==
    [id \in DOMAIN s |-> IF id \notin ids THEN s[id]
                         ELSE [s[id] EXCEPT !.paused = TRUE, !.seeding = FALSE]]

Resumed(s, ids) == [id \in DOMAIN s |-> IF id \notin ids THEN s[id]
                                        ELSE [s[id] EXCEPT !.paused = FALSE]]

(* A torrent without metadata is left alone. *)
Rechecked(s, ids) ==
    [id \in DOMAIN s |-> IF id \notin ids \/ s[id].metadata = "awaited" THEN s[id]
                         ELSE [s[id] EXCEPT !.status = "checking"]]

Removed(s, ids) == [id \in DOMAIN s \ ids |-> s[id]]

(* auto_clean_torrent(), of several torrents. *)
Cleaned(s, ids, type) == IF type = PAUSE THEN Paused(s, ids) ELSE Removed(s, ids)

-----------------------------------------------------------------------------
(* The statistics and the automatic cleaning. *)

IsSeeding(torrent) == torrent.status = "seeding" /\ ~torrent.paused

(* The beginning of on_update_torrents_statistics_callback(): a torrent counts
   that was seeding the last time and is seeding now. *)
Counted(time_diff) ==
    [id \in DOMAIN session |->
        LET torrent == session[id]
            added == IF torrent.seeding /\ IsSeeding(torrent) THEN time_diff ELSE 0
        IN [torrent EXCEPT !.time_seeding = Min({@ + added, MaxTime}),
                           !.seeding = IsSeeding(torrent)]]

Seeding(s) == {id \in DOMAIN s : s[id].seeding}

(* What the limits on the time and on the ratio ask for. *)
Demands(torrent) ==
    (IF torrent.time_seeding >= clean.max_seeding_time
     THEN {clean.max_seeding_time_type} ELSE {})
    \cup (IF torrent.shared THEN {clean.max_ratio_type} ELSE {})

(* set_if_stricter(), for both. *)
CleanType(torrent) == Max({NONE} \cup Demands(torrent))

WithType(s, type) == {id \in Seeding(s) : CleanType(s[id]) = type}

CleanedByLimits(s) ==
    Paused(Removed(s, WithType(s, REMOVE) \cup WithType(s, REMOVE_WITH_DATA)),
           WithType(s, PAUSE))

(* The orders std::sort() may leave the seeding torrents in. *)
Sorted(s) == {order \in SetToSeqs(Seeding(s)) :
                 \A i, j \in DOMAIN order :
                     i < j => s[order[i]].time_seeding <= s[order[j]].time_seeding}

(* Mutant: the positions are counted from one. *)
MutBeyond(order) == {order[i] : i \in clean.max_seeding_torrents + 2 .. Len(order)}

(* The torrents beyond the limit on their number. *)
Beyond(order) == {order[i] : i \in clean.max_seeding_torrents + 1 .. Len(order)}

TooMany(s) == /\ clean.max_seeding_torrents_type # NONE
              /\ Cardinality(DOMAIN s) > clean.max_seeding_torrents

(* on_update_torrents_statistics_callback() with automate(). *)
UpdateStatistics(time_diff) ==
    /\ interrupted' = {}
    /\ UNCHANGED clean
    /\ LET counted == Counted(time_diff)
           within == CleanedByLimits(counted)
       IN \E order \in Sorted(within) :
              LET beyond == IF TooMany(within) THEN Beyond(order) ELSE {}
              IN /\ session' = IF beyond = {} THEN within
                               ELSE Cleaned(within, beyond, clean.max_seeding_torrents_type)
                 /\ deleted' = deleted \cup WithType(counted, REMOVE_WITH_DATA)
                               \cup (IF clean.max_seeding_torrents_type = REMOVE_WITH_DATA
                                     THEN beyond ELSE {})

-----------------------------------------------------------------------------
(* What else happens to the session. *)

Add(id, magnet) ==
    /\ id \notin DOMAIN session
    /\ magnet => Magnets
    /\ session' = [x \in DOMAIN session \cup {id} |->
                       IF x = id THEN NewTorrent(magnet) ELSE session[x]]
    /\ deleted' = deleted \ {id}
    /\ UNCHANGED <<clean, interrupted>>

(* The torrents `ids' are paused, by the user, by D-Bus or for a time. *)
PauseTorrents(ids) ==
    /\ session' = Paused(session, ids)
    /\ interrupted' = interrupted \cup ids
    /\ UNCHANGED <<clean, deleted>>

ResumeTorrents(ids) ==
    /\ session' = Resumed(session, ids)
    /\ UNCHANGED <<clean, deleted, interrupted>>

RecheckTorrents(ids) ==
    /\ session' = Rechecked(session, ids)
    /\ UNCHANGED <<clean, deleted, interrupted>>

RemoveTorrents(ids, withData) ==
    /\ session' = Removed(session, ids)
    /\ deleted' = IF withData THEN deleted \cup ids ELSE deleted
    /\ interrupted' = interrupted \ ids
    /\ UNCHANGED clean

(* libtorrent: a torrent is complete, has been shared enough (when there is a
   limit on that), or its metadata has come. *)
Progress(id) ==
    /\ id \in DOMAIN session /\ ~session[id].paused
    /\ LET torrent == session[id] IN
       \/ /\ torrent.status = "checking" /\ torrent.metadata # "awaited"
          /\ session' = [session EXCEPT ![id].status = "seeding"]
       \/ /\ torrent.status = "seeding" /\ ~torrent.shared
          /\ clean.max_ratio_type # NONE
          /\ session' = [session EXCEPT ![id].shared = TRUE]
       \/ /\ torrent.metadata = "awaited"
          /\ session' = [session EXCEPT ![id].metadata = "received"]
    /\ UNCHANGED <<clean, deleted, interrupted>>

(* All that changes the session apart from the window. *)
SessionNext ==
    \/ \E id \in Torrents : \/ \E magnet \in BOOLEAN : Add(id, magnet)
                            \/ Progress(id)
    \/ DOMAIN session # {} /\ \/ PauseTorrents(DOMAIN session)
                              \/ ResumeTorrents(DOMAIN session)
    \/ \E time_diff \in {0, 1} : UpdateStatistics(time_diff)

Spec == SessionInit /\ [][SessionNext]_sessionVars

-----------------------------------------------------------------------------
(* Properties. *)

(* The torrents that were seeding when the limits were checked, with the time
   each had been counted by then. *)
SeedingBefore == {id \in DOMAIN session : IsSeeding(session[id])}
OverLimit(id, time) ==
    \/ clean.max_seeding_time_type # NONE /\ time >= clean.max_seeding_time
    \/ clean.max_ratio_type # NONE /\ session[id].shared

(* The limit on the number of seeding torrents keeps exactly as many as it
   allows, and those that have been seeding for the shortest time: what it
   cleans has been seeding at least as long as whatever stays, and it cleans
   nothing while there is room. *)
LimitKeepsTheYoungest ==
    [][\A time_diff \in {0, 1} :
        clean.max_seeding_torrents_type # NONE /\ UpdateStatistics(time_diff) =>
        LET stay == {id \in DOMAIN session' : session'[id].seeding}
            time(id) == Counted(time_diff)[id].time_seeding
            cleaned == {id \in SeedingBefore \ stay : ~OverLimit(id, time(id))}
        IN /\ Cardinality(stay) <= clean.max_seeding_torrents
           /\ cleaned # {} => Cardinality(stay) = clean.max_seeding_torrents
           /\ \A id \in cleaned, other \in stay : time(other) <= time(id)
      ]_sessionVars

(* A torrent beyond both the limit on the time and the one on the ratio is
   treated as the stricter of the two demands: data is deleted exactly when
   one of them says so, and a torrent stays, paused, only when none removes. *)
StricterLimitApplies ==
    [][\A id \in SeedingBefore, time_diff \in {0, 1} :
        UpdateStatistics(time_diff) =>
            LET tooLong == Counted(time_diff)[id].time_seeding >= clean.max_seeding_time
                demands == (IF tooLong THEN {clean.max_seeding_time_type} ELSE {})
                           \cup (IF session[id].shared THEN {clean.max_ratio_type} ELSE {})
            IN demands \ {NONE} # {} =>
                   /\ id \in DOMAIN session' <=> demands \subseteq {NONE, PAUSE}
                   /\ id \in DOMAIN session' => session'[id].paused
                   /\ id \in deleted' <=> REMOVE_WITH_DATA \in demands
      ]_sessionVars

(* Time during which a torrent was paused is never counted as seeding, however
   short the pause was and although the time is counted only once a minute. *)
PausesAreNotCounted ==
    [][\A time_diff \in {0, 1} : interrupted # {} /\ UpdateStatistics(time_diff) =>
        \A id \in interrupted \cap DOMAIN session' :
            session'[id].time_seeding = session[id].time_seeding
      ]_sessionVars
=============================================================================
