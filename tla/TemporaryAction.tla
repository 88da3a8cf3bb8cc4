--------------------------- MODULE TemporaryAction ---------------------------
(***************************************************************************)
(* Pausing or resuming a group of torrents for some time                   *)
(* (process_torrents_temporary() of src/daemon_session.cpp): the session   *)
(* remembers which torrents it has changed and changes them back when a    *)
(* timer expires, when the action is completed early, when another one     *)
(* begins and when the session stops.  Meanwhile torrents are added,       *)
(* removed, paused and resumed, and their settings saved.                  *)
(*                                                                         *)
(* Each action is a callback of the main loop.  The saving of settings,    *)
(* which DaemonSession models in detail, is one step here.                 *)
(***************************************************************************)
EXTENDS Naturals, FiniteSets

CONSTANTS Ids,        \* identifiers of torrents
          MaxSerial,  \* bound: how often one identifier is added
          MaxActions  \* bound: how many temporary actions are begun

ASSUME TemporaryActionAssumption == {MaxSerial, MaxActions} \subseteq Nat

VARIABLES torrents,                  \* serial number, 0: not in the session
          torrents_serial_numbers,   \* given last
          paused,                    \* torrents that are paused
          downloads,                 \* torrents that are not complete
          temporary_action,
          temporary_action_torrents, \* the torrents it has changed
          timers,                    \* how many timers are running
          session_stopping,
          saved,                     \* torrents that are paused on disk
          unsaved,                   \* torrents stop() waits to have saved
          stopped,                   \* the program has ended
          begun,                     \* number of temporary actions
          chosen,     \* ghost: torrents that are to be paused, apart from
                      \* a temporary action
          touched,    \* ghost: torrents changed by others during the action
          late        \* ghost: torrents paused or resumed after stop()

session == <<torrents, torrents_serial_numbers, downloads>>
temporary == <<temporary_action, temporary_action_torrents, timers, begun>>
disk == <<saved, unsaved>>
ghosts == <<chosen, touched, late>>
vars == <<session, paused, temporary, session_stopping, disk, stopped, ghosts>>

FullIds == [id : Ids, serial : 1..MaxSerial]

TypeOK == /\ torrents \in [Ids -> 0..MaxSerial]
          /\ torrents_serial_numbers \in [Ids -> 0..MaxSerial]
          /\ paused \subseteq Ids /\ downloads \subseteq Ids
          /\ temporary_action \in {"none", "resume", "pause"}
          /\ temporary_action_torrents \subseteq FullIds
          /\ timers \in Nat
          /\ session_stopping \in BOOLEAN
          /\ saved \subseteq Ids /\ unsaved \subseteq Ids
          /\ stopped \in BOOLEAN
          /\ begun \in 0..MaxActions
          /\ chosen \subseteq Ids /\ touched \subseteq Ids /\ late \subseteq Ids

Init == /\ torrents = [id \in Ids |-> 0]
        /\ torrents_serial_numbers = [id \in Ids |-> 0]
        /\ paused = {} /\ downloads = {}
        /\ temporary_action = "none"
        /\ temporary_action_torrents = {}
        /\ timers = 0
        /\ session_stopping = FALSE
        /\ saved = {} /\ unsaved = {}
        /\ stopped = FALSE
        /\ begun = 0
        /\ chosen = {} /\ touched = {} /\ late = {}

(* Until the last answer has come: after stop() a dialog that is still open, in
   its own main loop, may change the session. *)
UserMayAct == ~stopped

InSession == {id \in Ids : torrents[id] # 0}

is_belong_to(id, group) == \/ group = "all"
                           \/ group = "downloads" /\ id \in downloads
                           \/ group = "uploads" /\ id \notin downloads

Group(group) == {id \in InSession : is_belong_to(id, group)}

(* The set `in', with `ids' joining it or leaving it. *)
Put(in, ids, join) == IF join THEN in \cup ids ELSE in \ ids

-----------------------------------------------------------------------------
(* The torrents. *)

(* A new torrent, paused or running, with its settings on disk. *)
AddTorrent(id, pause, download) ==
    /\ UserMayAct
    /\ torrents[id] = 0 /\ torrents_serial_numbers[id] < MaxSerial
    /\ torrents_serial_numbers' = [torrents_serial_numbers EXCEPT ![id] = @ + 1]
    /\ torrents' = [torrents EXCEPT ![id] = torrents_serial_numbers'[id]]
    /\ downloads' = Put(downloads, {id}, download)
    /\ paused' = Put(paused, {id}, pause)
    /\ saved' = Put(saved, {id}, pause)
    /\ chosen' = Put(chosen, {id}, pause)
    /\ UNCHANGED <<temporary, session_stopping, unsaved, stopped, touched, late>>

RemoveTorrent(id) ==
    /\ UserMayAct
    /\ id \in InSession
    /\ torrents' = [torrents EXCEPT ![id] = 0]
    /\ downloads' = downloads \ {id}
    /\ paused' = paused \ {id}
    /\ saved' = saved \ {id} /\ unsaved' = unsaved \ {id}
    /\ chosen' = chosen \ {id} /\ touched' = touched \ {id} /\ late' = late \ {id}
    /\ UNCHANGED <<torrents_serial_numbers, temporary, session_stopping, stopped>>

(* A download is completed, or more files of a torrent are wanted. *)
Progress(id) ==
    /\ ~stopped /\ id \in InSession
    /\ downloads' = Put(downloads, {id}, id \notin downloads)
    /\ UNCHANGED <<torrents, torrents_serial_numbers, paused, temporary,
                   session_stopping, disk, stopped, ghosts>>

LateAlso(ids) == IF session_stopping THEN late \cup ids ELSE late

(* Torrents are paused or resumed for good. *)
Choose(ids, pause) ==
    /\ ids # {}
    /\ paused' = Put(paused, ids, pause)
    /\ chosen' = Put(chosen, ids, pause)
    /\ touched' = touched \cup ids
    /\ late' = LateAlso(ids)
    /\ UNCHANGED <<session, temporary, session_stopping, disk, stopped>>

(* pause_torrent() and resume_torrent(), of one torrent; the former also when
   it has been seeding for long enough. *)
ProcessTorrent(id, pause) ==
    /\ UserMayAct /\ id \in InSession
    /\ Choose({id}, pause)

(* stop_torrents() and start_torrents(). *)
ProcessGroup(group, pause) ==
    /\ UserMayAct
    /\ Choose(Group(group), pause)

-----------------------------------------------------------------------------
(* The temporary action. *)

(* Mutant: the torrents are remembered without their serial numbers. *)
MutChanged == {id \in InSession : \E full \in temporary_action_torrents : full.id = id}

(* The torrents changed by the action that are still in the session. *)
Changed == {id \in InSession :
                [id |-> id, serial |-> torrents[id]] \in temporary_action_torrents}

(* What rollback_temporary_action() makes of the torrents. *)
RolledBack == IF temporary_action = "none" THEN paused
              ELSE Put(paused, Changed, temporary_action = "resume")

(* A torrent that others have changed in the meantime: whatever the rollback
   makes of it is what it will be. *)
ChosenAfter(now) ==
    (chosen \ (Changed \cap touched)) \cup (now \cap Changed \cap touched)

Interrupted == /\ temporary_action' = "none"
               /\ temporary_action_torrents' = {}
               /\ timers' = IF temporary_action = "none" THEN timers ELSE timers - 1
               /\ UNCHANGED begun

(* interrupt_temporary_action(true): the action is completed early, by the
   user, by its timer or by the stop. *)
Complete == /\ paused' = RolledBack
            /\ chosen' = ChosenAfter(paused')
            /\ touched' = {}
            /\ late' = LateAlso(Changed)
            /\ Interrupted

UserCompletes ==
    /\ UserMayAct /\ temporary_action # "none"
    /\ Complete
    /\ UNCHANGED <<session, session_stopping, disk, stopped>>

(* interrupt_temporary_action(false): the torrents stay as they are. *)
Cancel ==
    /\ UserMayAct /\ temporary_action # "none"
    /\ Interrupted
    /\ chosen' = Put(chosen, Changed \ touched, temporary_action = "pause")
    /\ touched' = {}
    /\ UNCHANGED <<session, paused, session_stopping, disk, stopped, late>>

(* on_temporary_action_expired_cb(). *)
Expire ==
    /\ ~stopped /\ timers > 0
    /\ IF temporary_action = "none"
       THEN timers' = timers - 1 /\ UNCHANGED <<temporary_action, begun, paused,
                                                temporary_action_torrents, ghosts>>
       ELSE Complete
    /\ UNCHANGED <<session, session_stopping, disk, stopped>>

(* process_torrents_temporary(): it completes the action under way, and then
   changes the torrents of the group that are not yet as they shall be. *)
ProcessTemporary(action, group) ==
    /\ UserMayAct /\ begun < MaxActions
    /\ begun' = begun + 1
    /\ LET now == RolledBack
           ids == {id \in Group(group) : id \in now <=> action = "resume"}
       IN /\ temporary_action_torrents' =
                 {[id |-> id, serial |-> torrents[id]] : id \in ids}
          /\ paused' = Put(now, ids, action = "pause")
          /\ temporary_action' = IF ids = {} THEN "none" ELSE action
          /\ timers' = timers - (IF temporary_action = "none" THEN 0 ELSE 1)
                              + (IF ids = {} THEN 0 ELSE 1)
          /\ chosen' = ChosenAfter(now)
          /\ late' = LateAlso(Changed \cup ids)
    /\ touched' = {}
    /\ UNCHANGED <<session, session_stopping, disk, stopped>>

-----------------------------------------------------------------------------
(* Saving and stopping. *)

(* The settings of a torrent are written, with is_paused as it is now. *)
Save(id) ==
    /\ ~stopped /\ id \in InSession
    /\ saved' = Put(saved, {id}, id \in paused)
    /\ unsaved' = unsaved \ {id}
    /\ UNCHANGED <<session, paused, temporary, session_stopping, stopped, ghosts>>

(* Mutant: the session stops with the temporary action still in force. *)
MutStop ==
    /\ ~stopped /\ ~session_stopping
    /\ session_stopping' = TRUE
    /\ unsaved' = InSession
    /\ UNCHANGED <<session, paused, temporary, saved, stopped, ghosts>>

(* stop(): "it may be considered that the time has expired". *)
Stop ==
    /\ ~stopped /\ ~session_stopping
    /\ session_stopping' = TRUE
    /\ Complete
    /\ unsaved' = InSession
    /\ UNCHANGED <<session, saved, stopped>>

End ==
    /\ ~stopped /\ session_stopping /\ unsaved = {}
    /\ stopped' = TRUE
    /\ UNCHANGED <<session, paused, temporary, session_stopping, disk, ghosts>>

Ended == stopped /\ UNCHANGED vars

-----------------------------------------------------------------------------
Groups == {"all", "downloads", "uploads"}

Next ==
    \/ \E id \in Ids : \/ \E pause, download \in BOOLEAN :
                              AddTorrent(id, pause, download)
                       \/ RemoveTorrent(id) \/ Progress(id) \/ Save(id)
                       \/ \E pause \in BOOLEAN : ProcessTorrent(id, pause)
    \/ \E group \in Groups : \/ \E pause \in BOOLEAN : ProcessGroup(group, pause)
                             \/ \E action \in {"resume", "pause"} :
                                    ProcessTemporary(action, group)
    \/ UserCompletes \/ Cancel \/ Expire
    \/ Stop \/ End \/ Ended

Spec == Init /\ [][Next]_vars

-----------------------------------------------------------------------------
(* Properties. *)

(* A temporary action leaves no trace: a torrent that is not under it (because
   it is over, the torrent does not belong to it, is a new one with an old
   identifier, or was changed by somebody else) is paused or not as it was
   chosen apart from temporary actions, and one that is under it differs. *)
LeavesNoTrace ==
    \A id \in InSession :
        (id \in paused <=> id \in chosen)
            <=> id \notin (IF temporary_action = "none" THEN {} ELSE Changed \ touched)

(* There is one timer while an action is under way and none otherwise: no
   action is ended by the timer of an earlier one. *)
OneTimer == timers = IF temporary_action = "none" THEN 0 ELSE 1

(* A program that has ended by stop() has no temporary state on disk: a torrent
   is saved as it was chosen, unless it was paused or resumed after stop(). *)
StoppedAsChosen ==
    stopped => \A id \in InSession \ late : id \in saved <=> id \in chosen
=============================================================================
