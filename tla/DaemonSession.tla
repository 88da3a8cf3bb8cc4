---------------------------- MODULE DaemonSession ----------------------------
(***************************************************************************)
(* The session of the daemon (src/daemon_session.cpp): the torrents, the   *)
(* thread that takes the messages of libtorrent, the signals by which it   *)
(* hands them over to the GTK main loop, the saving of the torrents'       *)
(* settings and the stop of the session.                                   *)
(*                                                                         *)
(* To save a torrent the session asks libtorrent for its resume data; the  *)
(* answer comes later, as an alert, and the settings are written when it   *)
(* has reached the main loop.  Meanwhile the torrent may have been removed *)
(* and added again.  stop() asks for the data of every torrent, and the    *)
(* messages thread ends the program when the last answer has been written. *)
(*                                                                         *)
(* Everything that runs under the GDK lock is one action: the callbacks of *)
(* the main loop and the locked regions of the messages thread.            *)
(***************************************************************************)
EXTENDS Naturals, FiniteSets, SequencesExt

CONSTANTS Ids,        \* identifiers (info hashes) of torrents
          MagnetIds,  \* those that are added by a magnet link
          NoId,       \* the info hash of a handle whose torrent is gone
          MaxSerial,  \* bound: how often one identifier is added
          MaxPending, \* bound: answers awaited when one more is asked for
          MaxAlerts,  \* bound: alerts on their way when libtorrent posts news
          LateOps,    \* may an open dialog change the session after stop()?
          DiskFails   \* may the writing of settings fail?

ASSUME DaemonSessionAssumption ==
    /\ MagnetIds \subseteq Ids /\ NoId \notin Ids
    /\ IsFiniteSet(Ids)
    /\ {MaxSerial, MaxPending, MaxAlerts} \subseteq Nat
    /\ {LateOps, DiskFails} \subseteq BOOLEAN

VARIABLES
    torrents,                \* serial number of the torrent, 0: not in session
    torrents_serial_numbers, \* the serial number given last
    session_stopping,
    stop_messages_thread,
    pending_torrent_resume_data,
    torrent_resume_data_signal, \* emissions the main loop has not handled
    torrent_finished_signal,
    unfinished, \* torrents finish_torrent() has something to do for
    changed,    \* torrents whose settings differ from those on disk
    excused,    \* ghost: torrents whose last writing failed, and those changed
                \* after stop() had asked for their data
    resume,     \* serial number of the torrent whose data is on disk, 0: none
    requests,   \* libtorrent: save_resume_data() calls not answered yet
    alerts,     \* libtorrent: the queue of alerts
    awaiting,   \* libtorrent: magnet torrents without metadata
    thread,     \* the step of the messages thread
    held,       \* the alert it has popped
    app         \* "running", "stopped", or "aborted" by a logical error

session == <<torrents, torrents_serial_numbers, unfinished, changed, excused,
             resume>>
stopping == <<session_stopping, stop_messages_thread>>
signals == <<torrent_resume_data_signal, torrent_finished_signal>>
libtorrent == <<requests, alerts, awaiting>>
messages == <<thread, held>>
vars == <<session, stopping, pending_torrent_resume_data, signals, libtorrent,
          messages, app>>

Serials == 1..MaxSerial
ResumeAlerts == {"resume_data", "resume_data_failed"}
AlertTypes == ResumeAlerts \cup {"torrent_finished", "metadata_received",
                                 "fastresume_rejected"}
FullIds == [id : Ids, serial : Serials]
Alerts == [type : AlertTypes, id : Ids \cup {NoId}, serial : Serials]
Nothing == [type |-> "none"]

TypeOK ==
    /\ torrents \in [Ids -> 0..MaxSerial]
    /\ torrents_serial_numbers \in [Ids -> 0..MaxSerial]
    /\ session_stopping \in BOOLEAN
    /\ stop_messages_thread \in BOOLEAN
    /\ pending_torrent_resume_data \in Nat
    /\ torrent_resume_data_signal \in Seq(Alerts)
    /\ torrent_finished_signal \in Seq(Alerts)
    /\ unfinished \subseteq Ids
    /\ changed \subseteq Ids /\ excused \subseteq Ids
    /\ resume \in [Ids -> 0..MaxSerial]
    /\ requests \in Seq(FullIds)
    /\ alerts \in Seq(Alerts)
    /\ awaiting \subseteq Ids
    /\ thread \in {"check", "wait", "pop", "deliver", "leave", "done"}
    /\ held \in Alerts \cup {Nothing}
    /\ app \in {"running", "stopped", "aborted"}

(* The session starts without torrents; start() adds those of the earlier
   session by the same AddTorrent. *)
Init ==
    /\ torrents = [id \in Ids |-> 0]
    /\ torrents_serial_numbers = [id \in Ids |-> 0]
    /\ session_stopping = FALSE
    /\ stop_messages_thread = FALSE
    /\ pending_torrent_resume_data = 0
    /\ torrent_resume_data_signal = <<>>
    /\ torrent_finished_signal = <<>>
    /\ unfinished = {}
    /\ changed = {} /\ excused = {}
    /\ resume = [id \in Ids |-> 0]
    /\ requests = <<>>
    /\ alerts = <<>>
    /\ awaiting = {}
    /\ thread = "check"
    /\ held = Nothing
    /\ app = "running"

Running == app = "running"
UserMayAct == Running /\ (session_stopping => LateOps)

InSession == {id \in Ids : torrents[id] # 0}
FullId(id) == [id |-> id, serial |-> torrents[id]]

(* What info_hash() of the handle in an alert gives: a handle does not keep
   its torrent alive. *)
HandleIds(alert) == IF alert.id = NoId THEN {NoId}
                    ELSE IF torrents[alert.id] = alert.serial THEN {alert.id}
                    ELSE {alert.id, NoId}

Exists(id) == id \in InSession

-----------------------------------------------------------------------------
(* The users of the session: the windows, D-Bus, automatic loading. *)

AddTorrent(id) ==
    /\ UserMayAct
    /\ ~Exists(id)
    /\ torrents_serial_numbers[id] < MaxSerial
    /\ torrents_serial_numbers' = [torrents_serial_numbers EXCEPT ![id] = @ + 1]
    /\ torrents' = [torrents EXCEPT ![id] = torrents_serial_numbers'[id]]
    /\ unfinished' = unfinished \cup {id}
    /\ resume' = [resume EXCEPT ![id] = 0]
    /\ awaiting' = awaiting \cup ({id} \cap MagnetIds)
    /\ UNCHANGED <<changed, excused, stopping, pending_torrent_resume_data,
                   signals, requests, alerts, messages, app>>

(* remove_torrent(): out of the session, then out of the configuration. *)
RemoveTorrent(id) ==
    /\ UserMayAct
    /\ Exists(id)
    /\ torrents' = [torrents EXCEPT ![id] = 0]
    /\ unfinished' = unfinished \ {id}
    /\ changed' = changed \ {id} /\ excused' = excused \ {id}
    /\ resume' = [resume EXCEPT ![id] = 0]
    /\ awaiting' = awaiting \ {id}
    /\ UNCHANGED <<torrents_serial_numbers, stopping, pending_torrent_resume_data,
                   signals, requests, alerts, messages, app>>

(* The settings of a torrent change; rechecking it, or asking for a copy of
   its files, also makes its next finish an event. *)
ChangeTorrent(id) ==
    /\ UserMayAct
    /\ Exists(id)
    /\ changed' = changed \cup {id}
    /\ excused' = IF session_stopping THEN excused \cup {id} ELSE excused
    /\ unfinished' \in {unfinished, unfinished \cup {id}}
    /\ UNCHANGED <<torrents, torrents_serial_numbers, resume, stopping,
                   pending_torrent_resume_data, signals, libtorrent, messages, app>>

-----------------------------------------------------------------------------
(* Saving and stopping. *)

(* schedule_torrent_settings_saving() for every torrent of the session. *)
save_session ==
    /\ requests' = requests \o SetToSeq({FullId(id) : id \in InSession})
    /\ pending_torrent_resume_data' =
           pending_torrent_resume_data + Cardinality(InSession)

(* Mutant: the stop does not wait for the answers. *)
MutStoppedAtOnce ==
    stop_messages_thread' = (stop_messages_thread \/ session_stopping')

set_stopped_state_if_needed ==
    stop_messages_thread' = (\/ stop_messages_thread
                             \/ session_stopping' /\ pending_torrent_resume_data' = 0)

(* The timer that saves the session every now and then. *)
on_save_session_callback ==
    /\ Running /\ ~session_stopping
    /\ pending_torrent_resume_data < MaxPending
    /\ save_session
    /\ UNCHANGED <<session, stopping, signals, alerts, awaiting, messages, app>>

(* Mutant: the session is stopped without being saved. *)
MutStop ==
    /\ Running /\ ~session_stopping
    /\ session_stopping' = TRUE
    /\ UNCHANGED <<requests, pending_torrent_resume_data>>
    /\ set_stopped_state_if_needed
    /\ UNCHANGED <<session, signals, alerts, awaiting, messages, app>>

(* stop() disconnects the handlers of before_stopping_sholder, among them that
   of torrent_finished_signal. *)
stop ==
    /\ Running /\ ~session_stopping
    /\ session_stopping' = TRUE
    /\ save_session
    /\ set_stopped_state_if_needed
    /\ UNCHANGED <<session, signals, alerts, awaiting, messages, app>>

(* save_torrent_settings_if_exists(): the settings are written and the resume
   data too, or erased when libtorrent had none to give. *)
save_torrent_settings_if_exists(data) ==
    \/ /\ Exists(data.id)
       /\ changed' = changed \ {data.id}
       /\ excused' = excused \ {data.id}
       /\ resume' = [resume EXCEPT ![data.id] =
                         IF data.type = "resume_data" THEN data.serial ELSE 0]
    \/ /\ Exists(data.id) /\ DiskFails
       /\ excused' = excused \cup {data.id}
       /\ UNCHANGED <<changed, resume>>
    \/ /\ ~Exists(data.id)
       /\ UNCHANGED <<changed, excused, resume>>

(* Mutant: the answer about a torrent that is gone is not counted off. *)
MutResumeDataCallback ==
    /\ Running
    /\ torrent_resume_data_signal # <<>>
    /\ save_torrent_settings_if_exists(Head(torrent_resume_data_signal))
    /\ torrent_resume_data_signal' = Tail(torrent_resume_data_signal)
    /\ pending_torrent_resume_data' =
           IF Exists(Head(torrent_resume_data_signal).id)
           THEN pending_torrent_resume_data - 1 ELSE pending_torrent_resume_data
    /\ UNCHANGED session_stopping
    /\ set_stopped_state_if_needed
    /\ UNCHANGED <<torrents, torrents_serial_numbers, unfinished,
                   torrent_finished_signal, libtorrent, messages, app>>

(* Mutant: nobody looks whether this was the last answer. *)
MutNoStopCheck ==
    /\ Running
    /\ torrent_resume_data_signal # <<>>
    /\ save_torrent_settings_if_exists(Head(torrent_resume_data_signal))
    /\ torrent_resume_data_signal' = Tail(torrent_resume_data_signal)
    /\ pending_torrent_resume_data' = pending_torrent_resume_data - 1
    /\ UNCHANGED <<torrents, torrents_serial_numbers, unfinished, stopping,
                   torrent_finished_signal, libtorrent, messages, app>>

on_torrent_resume_data_callback ==
    /\ Running
    /\ torrent_resume_data_signal # <<>>
    /\ save_torrent_settings_if_exists(Head(torrent_resume_data_signal))
    /\ torrent_resume_data_signal' = Tail(torrent_resume_data_signal)
    /\ pending_torrent_resume_data' = pending_torrent_resume_data - 1
    /\ UNCHANGED session_stopping
    /\ set_stopped_state_if_needed
    /\ UNCHANGED <<torrents, torrents_serial_numbers, unfinished,
                   torrent_finished_signal, libtorrent, messages, app>>

(* finish_torrent() of the torrent with the identifier of the handle: it tells
   the user, copies the files, and schedules a saving if it did anything. *)
finish_torrent(id) ==
    IF id \in unfinished
    THEN /\ pending_torrent_resume_data < MaxPending
         /\ unfinished' = unfinished \ {id}
         /\ changed' = changed \cup {id}
         /\ requests' = Append(requests, FullId(id))
         /\ pending_torrent_resume_data' = pending_torrent_resume_data + 1
    ELSE UNCHANGED <<unfinished, changed, requests, pending_torrent_resume_data>>

on_torrent_finished_callback ==
    /\ Running
    /\ torrent_finished_signal # <<>>
    /\ torrent_finished_signal' = Tail(torrent_finished_signal)
    /\ \E id \in HandleIds(Head(torrent_finished_signal)) :
           IF ~session_stopping /\ Exists(id)
           THEN finish_torrent(id)
           ELSE UNCHANGED <<unfinished, changed, requests,
                            pending_torrent_resume_data>>
    /\ UNCHANGED <<torrents, torrents_serial_numbers, excused, resume, stopping,
                   torrent_resume_data_signal, alerts, awaiting, messages, app>>

-----------------------------------------------------------------------------
(* libtorrent. *)

Alert(type, full) == [type |-> type, id |-> full.id, serial |-> full.serial]

(* It answers the requests in any order; whether it has resume data depends on
   what it is doing with the torrent, and it has none without metadata. *)
AnswerRequest ==
    /\ Running
    /\ \E i \in DOMAIN requests, type \in ResumeAlerts :
           /\ type = "resume_data" => requests[i].id \notin awaiting
           /\ requests' = RemoveAt(requests, i)
           /\ alerts' = Append(alerts, Alert(type, requests[i]))
    /\ UNCHANGED <<session, stopping, pending_torrent_resume_data, signals,
                   awaiting, messages, app>>

(* Its own news about a torrent; stop() has paused it. *)
PostAlert(id, type) ==
    /\ Running /\ ~session_stopping
    /\ Exists(id)
    /\ Len(alerts) + Len(torrent_finished_signal) < MaxAlerts
    /\ type = "metadata_received" <=> id \in awaiting
    /\ awaiting' = awaiting \ {id}
    /\ alerts' = Append(alerts, Alert(type, FullId(id)))
    /\ UNCHANGED <<session, stopping, pending_torrent_resume_data, signals,
                   requests, messages, app>>

-----------------------------------------------------------------------------
(* The messages thread. *)

(* It looks at the flag, ... *)
CheckStop ==
    /\ Running
    /\ thread = "check"
    /\ thread' = IF stop_messages_thread THEN "leave" ELSE "wait"
    /\ UNCHANGED <<session, stopping, pending_torrent_resume_data, signals,
                   libtorrent, held, app>>

(* ... waits for an alert with a timeout, ... *)
WaitForAlert ==
    /\ Running
    /\ thread = "wait"
    /\ thread' = IF alerts = <<>> THEN "check" ELSE "pop"
    /\ UNCHANGED <<session, stopping, pending_torrent_resume_data, signals,
                   libtorrent, held, app>>

(* ... and takes the alerts one by one until there is none.  It asks the
   handle of a resume data alert for the identifier before it locks GDK. *)
PopAlert ==
    /\ Running
    /\ thread = "pop"
    /\ IF alerts = <<>>
       THEN /\ thread' = "check"
            /\ UNCHANGED <<alerts, held>>
       ELSE /\ thread' = "deliver"
            /\ alerts' = Tail(alerts)
            /\ IF Head(alerts).type \in ResumeAlerts
               THEN \E id \in HandleIds(Head(alerts)) :
                        held' = [Head(alerts) EXCEPT !.id = id]
               ELSE held' = Head(alerts)
    /\ UNCHANGED <<session, stopping, pending_torrent_resume_data, signals,
                   requests, awaiting, app>>

Delivered == /\ Running
             /\ thread = "deliver"
             /\ thread' = "pop"
             /\ held' = Nothing
             /\ UNCHANGED <<torrents, torrents_serial_numbers, changed, excused, resume,
                            stopping, pending_torrent_resume_data, libtorrent>>

DeliverResumeData ==
    /\ Delivered
    /\ held.type \in ResumeAlerts
    /\ torrent_resume_data_signal' = Append(torrent_resume_data_signal, held)
    /\ UNCHANGED <<unfinished, torrent_finished_signal, app>>

DeliverFinished ==
    /\ Delivered
    /\ held.type = "torrent_finished"
    /\ torrent_finished_signal' = Append(torrent_finished_signal, held)
    /\ UNCHANGED <<unfinished, torrent_resume_data_signal, app>>

(* The metadata is stored with the torrent; without the torrent the handler
   ends in MLIB_LE(), which aborts the program. *)
DeliverMetadata ==
    /\ Delivered
    /\ held.type = "metadata_received"
    /\ \E id \in HandleIds(held) :
           app' = IF Exists(id) THEN app ELSE "aborted"
    /\ UNCHANGED <<unfinished, signals>>

(* The data has to be checked again, so that finishing becomes news. *)
DeliverRejected ==
    /\ Delivered
    /\ held.type = "fastresume_rejected"
    /\ \E id \in HandleIds(held) :
           unfinished' = unfinished \cup ({id} \cap InSession)
    /\ UNCHANGED <<signals, app>>

(* It has seen the flag: it stops the application and ends. *)
StopApplication ==
    /\ Running
    /\ thread = "leave"
    /\ thread' = "done"
    /\ app' = "stopped"
    /\ UNCHANGED <<session, stopping, pending_torrent_resume_data, signals,
                   libtorrent, held>>

Ended == /\ ~Running
         /\ UNCHANGED vars

-----------------------------------------------------------------------------
MessagesThread ==
    \/ CheckStop \/ WaitForAlert \/ PopAlert
    \/ DeliverResumeData \/ DeliverFinished \/ DeliverMetadata \/ DeliverRejected
    \/ StopApplication

Next ==
    \/ \E id \in Ids : AddTorrent(id) \/ RemoveTorrent(id) \/ ChangeTorrent(id)
    \/ on_save_session_callback \/ stop
    \/ on_torrent_resume_data_callback \/ on_torrent_finished_callback
    \/ AnswerRequest
    \/ \E id \in Ids, type \in AlertTypes \ ResumeAlerts : PostAlert(id, type)
    \/ MessagesThread
    \/ Ended

Spec == Init /\ [][Next]_vars

(* libtorrent answers, the messages thread is scheduled, and the main loop
   comes to the signal's idle source. *)
Fairness == /\ WF_vars(AnswerRequest)
            /\ WF_vars(MessagesThread)
            /\ WF_vars(on_torrent_resume_data_callback)

FairSpec == Spec /\ Fairness

-----------------------------------------------------------------------------
(* Properties. *)

ResumeAlertsIn(queue) == {i \in DOMAIN queue : queue[i].type \in ResumeAlerts}

(* The answers that are on their way to on_torrent_resume_data_callback(). *)
Outstanding == Len(requests)
               + Cardinality(ResumeAlertsIn(alerts))
               + (IF held.type \in ResumeAlerts THEN 1 ELSE 0)
               + Len(torrent_resume_data_signal)

(* The counter on which the stop depends is exactly the number of answers on
   their way, wherever they are between libtorrent and the main loop, with
   savings by the timer, by finish_torrent() and by stop() in any order. *)
PendingIsOutstanding == pending_torrent_resume_data = Outstanding

(* The messages thread is told to stop the application only when the session
   is stopping and no answer is left that would be lost with the program. *)
StopsWhenAllAnswered ==
    stop_messages_thread => session_stopping /\ Outstanding = 0

(* A program that ended by stop() has all settings of its torrents on disk,
   but for those whose last writing failed and those that were changed after
   stop(): each other change was made before some answer was written. *)
ChangesSaved == app = "stopped" => changed \subseteq excused

(* Once the session is stopping, the program ends. *)
StopEnds == session_stopping ~> ~Running

-----------------------------------------------------------------------------
(* What the comments of the code promise and the code does not keep. *)

(* on_torrent_finished_callback(): a message about a torrent that is no longer
   there "is no longer relevant".  The handler of the metadata of a magnet
   link treats it as a logical error. *)
NoLogicalError == app # "aborted"

(* save_torrent_settings_if_exists() saves the settings "if such a torrent
   still exists": the resume data on disk is that of the torrent itself, not of
   one with the same identifier that was removed in the meantime. *)
ResumeDataIsOwn ==
    \A id \in Ids : resume[id] # 0 => resume[id] = torrents[id]

(* on_torrent_finished_callback() ignores messages of torrents that do not
   exist any more: a torrent is finished by its own message. *)
FinishedByItself ==
    [][\A id \in unfinished \ unfinished' : Exists(id) /\ Exists(id)' =>
           /\ torrent_finished_signal # <<>>
           /\ Head(torrent_finished_signal).serial = torrents[id]]_vars
=============================================================================
