------------------------ MODULE TemporaryActionProofs ------------------------
(* Proofs about temporary actions, for any set of torrents, however often they
   are added again and however many actions are begun. *)
EXTENDS TemporaryAction, TLAPS

-----------------------------------------------------------------------------
(* The inductive invariant. *)

(* A torrent that is added has a serial number that no remembered one has. *)
SerialsInv ==
    /\ \A id \in Ids : torrents[id] <= torrents_serial_numbers[id]
    /\ \A full \in temporary_action_torrents :
           full.serial <= torrents_serial_numbers[full.id]

(* The torrents under the action are as it has made them. *)
ActionInv ==
    /\ temporary_action = "none" => temporary_action_torrents = {}
    /\ \A id \in Changed \ touched : id \in paused <=> temporary_action = "pause"

(* LeavesNoTrace, given that nothing is remembered without an action. *)
TraceInv ==
    \A id \in InSession : (id \in paused <=> id \in chosen) <=> id \notin Changed \ touched

IInv == TypeOK /\ SerialsInv /\ ActionInv /\ TraceInv /\ OneTimer

-----------------------------------------------------------------------------
(* Rolling back gives every torrent the state that was chosen for it. *)
LEMMA RollbackCorrect ==
  ASSUME IInv
  PROVE  \A id \in InSession : id \in RolledBack <=> id \in ChosenAfter(RolledBack)
<1> SUFFICES ASSUME NEW id \in InSession
             PROVE  id \in RolledBack <=> id \in ChosenAfter(RolledBack)
  OBVIOUS
<1>1. CASE id \notin Changed
  <2>1. id \in RolledBack <=> id \in paused
    BY <1>1 DEF RolledBack, Put
  <2>2. id \in ChosenAfter(RolledBack) <=> id \in chosen
    BY <1>1 DEF ChosenAfter
  <2> QED
    BY <1>1, <2>1, <2>2 DEF IInv, TraceInv
<1>2. CASE id \in Changed \cap touched
  BY <1>2 DEF ChosenAfter
<1>3. CASE id \in Changed \ touched
  <2>1. temporary_action \in {"resume", "pause"}
    BY <1>3 DEF IInv, TypeOK, ActionInv, Changed
  <2>2. id \in RolledBack <=> temporary_action = "resume"
    BY <1>3, <2>1 DEF RolledBack, Put
  <2>3. id \in ChosenAfter(RolledBack) <=> id \in chosen
    BY <1>3 DEF ChosenAfter
  <2>4. id \in paused <=> temporary_action = "pause"
    BY <1>3 DEF IInv, ActionInv
  <2>5. ~(id \in paused <=> id \in chosen)
    BY <1>3 DEF IInv, TraceInv
  <2> QED
    BY <2>1, <2>2, <2>3, <2>4, <2>5
<1> QED
  BY <1>1, <1>2, <1>3

LEMMA RolledBackType == TypeOK => /\ RolledBack \subseteq Ids
                                  /\ \A now : now \subseteq Ids => ChosenAfter(now) \subseteq Ids
BY DEF TypeOK, RolledBack, Put, Changed, InSession, ChosenAfter

LEMMA InitIInv == Init => IInv
<1> SUFFICES ASSUME Init PROVE IInv
  OBVIOUS
<1> USE TemporaryActionAssumption DEF TemporaryActionAssumption
<1>1. TypeOK
  <2>1. 0 \in 0..MaxSerial /\ 0 \in 0..MaxActions
    OBVIOUS
  <2>2. [id \in Ids |-> 0] \in [Ids -> 0..MaxSerial]
    BY <2>1
  <2> QED
    BY <2>1, <2>2 DEF Init, TypeOK
<1>2. InSession = {}
  BY DEF Init, InSession
<1>3. SerialsInv
  BY DEF Init, SerialsInv
<1>4. ActionInv /\ TraceInv /\ OneTimer
  BY <1>2 DEF Init, ActionInv, TraceInv, OneTimer, Changed
<1> QED
  BY <1>1, <1>3, <1>4 DEF IInv

-----------------------------------------------------------------------------
(* The steps, by what they do to the torrents and to the action. *)

LEMMA AddStep ==
  ASSUME IInv, NEW id \in Ids, NEW pause \in BOOLEAN, NEW download \in BOOLEAN,
         AddTorrent(id, pause, download)
  PROVE  IInv'
<1> DEFINE serial == torrents_serial_numbers[id] + 1
<1>1. /\ torrents[id] = 0 /\ serial \in 1..MaxSerial
      /\ torrents_serial_numbers' = [torrents_serial_numbers EXCEPT ![id] = serial]
      /\ torrents' = [torrents EXCEPT ![id] = serial]
      /\ UNCHANGED <<temporary_action, temporary_action_torrents, timers, touched>>
  BY TemporaryActionAssumption
     DEF AddTorrent, IInv, TypeOK, temporary, TemporaryActionAssumption
<1> HIDE DEF serial
<1>2. TypeOK'
  BY <1>1 DEF AddTorrent, IInv, TypeOK, Put, temporary
<1>3. SerialsInv'
  <2>1. \A j \in Ids : torrents'[j] <= torrents_serial_numbers'[j]
    BY <1>1 DEF IInv, TypeOK, SerialsInv
  <2>2. \A full \in temporary_action_torrents :
            /\ full.id \in Ids /\ full.serial \in Nat
            /\ full.serial <= torrents_serial_numbers[full.id]
    BY DEF IInv, TypeOK, SerialsInv, FullIds
  <2>3. \A j \in Ids : /\ torrents_serial_numbers[j] \in Nat
                       /\ torrents_serial_numbers'[j] \in Nat
                       /\ torrents_serial_numbers[j] <= torrents_serial_numbers'[j]
    BY <1>1 DEF IInv, TypeOK, serial
  <2>4. \A full \in temporary_action_torrents :
            full.serial <= torrents_serial_numbers'[full.id]
    BY <2>2, <2>3
  <2> QED
    BY <1>1, <2>1, <2>4 DEF SerialsInv
<1>4. [id |-> id, serial |-> serial] \notin temporary_action_torrents
  BY <1>1 DEF IInv, TypeOK, SerialsInv, serial
<1>5. InSession' = InSession \cup {id} /\ id \notin InSession
  BY <1>1 DEF IInv, TypeOK, InSession
<1>6. Changed' = Changed /\ id \notin Changed
  <2>1. \A j \in Ids : torrents'[j] = IF j = id THEN serial ELSE torrents[j]
    BY <1>1 DEF IInv, TypeOK
  <2> QED
    BY <1>1, <1>4, <1>5, <2>1 DEF Changed, InSession
<1>7. \A j \in InSession : /\ j \in paused' <=> j \in paused
                           /\ j \in chosen' <=> j \in chosen
  BY <1>5 DEF AddTorrent, Put
<1>8. id \in paused' <=> id \in chosen'
  BY DEF AddTorrent, Put
<1>9. ActionInv'
  BY <1>1, <1>6, <1>7, Zenon DEF IInv, ActionInv, Changed
<1>10. TraceInv'
  BY <1>1, <1>5, <1>6, <1>7, <1>8, Zenon DEF IInv, TraceInv
<1> QED
  BY <1>1, <1>2, <1>3, <1>9, <1>10 DEF IInv, OneTimer

LEMMA RemoveStep ==
  ASSUME IInv, NEW id \in Ids, RemoveTorrent(id) PROVE IInv'
<1>1. /\ torrents' = [torrents EXCEPT ![id] = 0]
      /\ UNCHANGED <<torrents_serial_numbers, temporary_action,
                     temporary_action_torrents, timers>>
      /\ paused' = paused \ {id} /\ chosen' = chosen \ {id} /\ touched' = touched \ {id}
  BY DEF RemoveTorrent, temporary
<1>2. TypeOK'
  <2>1. torrents' \in [Ids -> 0..MaxSerial]
    BY <1>1, TemporaryActionAssumption DEF IInv, TypeOK, TemporaryActionAssumption
  <2> QED
    BY <1>1, <2>1 DEF RemoveTorrent, IInv, TypeOK, temporary
<1>3. SerialsInv'
  BY <1>1 DEF IInv, TypeOK, SerialsInv
<1>4. InSession' = InSession \ {id}
  BY <1>1 DEF IInv, TypeOK, InSession
<1>5. Changed' = Changed \ {id}
  BY <1>1, <1>4 DEF IInv, TypeOK, Changed, InSession
<1>6. ActionInv' /\ TraceInv'
  BY <1>1, <1>4, <1>5 DEF IInv, ActionInv, TraceInv
<1> QED
  BY <1>1, <1>2, <1>3, <1>6 DEF IInv, OneTimer

(* A step that changes neither the torrents nor the action. *)
LEMMA ActionKept ==
  ASSUME IInv, TypeOK',
         UNCHANGED <<torrents, torrents_serial_numbers, temporary_action,
                     temporary_action_torrents, timers>>,
         \/ UNCHANGED <<paused, chosen, touched>>
         \/ \E ids, pause : /\ paused' = Put(paused, ids, pause)
                            /\ chosen' = Put(chosen, ids, pause)
                            /\ touched' = touched \cup ids
  PROVE  IInv'
<1>1. InSession' = InSession /\ Changed' = Changed
  BY DEF InSession, Changed
<1>2. SerialsInv' /\ OneTimer'
  BY DEF IInv, SerialsInv, OneTimer
<1>3. CASE UNCHANGED <<paused, chosen, touched>>
  BY <1>1, <1>2, <1>3 DEF IInv, ActionInv, TraceInv
<1>4. ASSUME NEW ids, NEW pause, paused' = Put(paused, ids, pause),
             chosen' = Put(chosen, ids, pause), touched' = touched \cup ids
      PROVE  IInv'
  <2>1. \A id \in ids : id \in paused' <=> id \in chosen'
    BY <1>4 DEF Put
  <2>2. \A id : id \notin ids => /\ id \in paused' <=> id \in paused
                                 /\ id \in chosen' <=> id \in chosen
    BY <1>4 DEF Put
  <2>3. ActionInv' /\ TraceInv'
    BY <1>1, <1>4, <2>1, <2>2 DEF IInv, ActionInv, TraceInv
  <2> QED
    BY <1>2, <2>3 DEF IInv
<1> QED
  BY <1>3, <1>4

(* A step that ends the action. *)
LEMMA ActionEnds ==
  ASSUME IInv, TypeOK',
         UNCHANGED <<torrents, torrents_serial_numbers>>,
         temporary_action' = "none", temporary_action_torrents' = {}, timers' = 0,
         \A id \in InSession : id \in paused' <=> id \in chosen'
  PROVE  IInv'
<1>1. InSession' = InSession /\ Changed' = {}
  BY DEF InSession, Changed
<1>2. SerialsInv' /\ OneTimer'
  BY DEF IInv, SerialsInv, OneTimer
<1>3. ActionInv' /\ TraceInv'
  BY <1>1 DEF ActionInv, TraceInv
<1> QED
  BY <1>2, <1>3 DEF IInv

LEMMA CompleteStep ==
  ASSUME IInv, Complete, TypeOK', UNCHANGED <<torrents, torrents_serial_numbers>>
  PROVE  IInv'
<1>1. \A id \in InSession : id \in paused' <=> id \in chosen'
  BY RollbackCorrect DEF Complete
<1>2. /\ temporary_action' = "none" /\ temporary_action_torrents' = {}
      /\ timers' = 0
  BY DEF Complete, Interrupted, IInv, OneTimer
<1> QED
  BY <1>1, <1>2, ActionEnds

LEMMA CompleteType ==
  ASSUME IInv, Complete
  PROVE  /\ paused' \subseteq Ids /\ chosen' \subseteq Ids /\ touched' \subseteq Ids
         /\ temporary_action' = "none" /\ temporary_action_torrents' = {}
         /\ timers' \in Nat
         /\ late' \subseteq Ids
         /\ UNCHANGED begun
<1>1. paused' \subseteq Ids /\ chosen' \subseteq Ids
  BY RolledBackType DEF Complete, IInv
<1>2. late' \subseteq Ids
  BY DEF Complete, LateAlso, Changed, InSession, IInv, TypeOK
<1> QED
  BY <1>1, <1>2 DEF Complete, Interrupted, IInv, OneTimer

LEMMA CancelStep == ASSUME IInv, Cancel PROVE IInv'
<1>1. /\ temporary_action' = "none" /\ temporary_action_torrents' = {}
      /\ timers' = 0
      /\ temporary_action # "none"
  BY DEF Cancel, Interrupted, IInv, OneTimer
<1>2. chosen' = Put(chosen, Changed \ touched, temporary_action = "pause")
  BY DEF Cancel
<1>3. chosen' \subseteq Ids
  BY <1>2 DEF IInv, TypeOK, Put, Changed, InSession
<1>4. TypeOK'
  <2>1. touched' \subseteq Ids /\ late' \subseteq Ids
    BY Zenon DEF Cancel, IInv, TypeOK
  <2>2. UNCHANGED <<torrents, torrents_serial_numbers, downloads, paused,
                    session_stopping, saved, unsaved, stopped, begun>>
    BY Zenon DEF Cancel, Interrupted, session, disk
  <2>3. temporary_action' \in {"none", "resume", "pause"} /\ timers' \in Nat
        /\ temporary_action_torrents' \subseteq FullIds
    BY <1>1
  <2> QED
    BY <1>3, <2>1, <2>2, <2>3, Zenon DEF IInv, TypeOK
<1>5. \A id \in InSession : id \in paused <=> id \in chosen'
  BY <1>2 DEF IInv, ActionInv, TraceInv, Put
<1> QED
  BY <1>1, <1>4, <1>5, ActionEnds DEF Cancel, session

LEMMA ProcessTemporaryStep ==
  ASSUME IInv, NEW action \in {"resume", "pause"}, NEW group \in Groups,
         ProcessTemporary(action, group)
  PROVE  IInv'
<1> DEFINE now == RolledBack
           ids == {id \in Group(group) : id \in now <=> action = "resume"}
<1>1. /\ temporary_action_torrents' =
             {[id |-> id, serial |-> torrents[id]] : id \in ids}
      /\ paused' = Put(now, ids, action = "pause")
      /\ temporary_action' = IF ids = {} THEN "none" ELSE action
      /\ timers' = timers - (IF temporary_action = "none" THEN 0 ELSE 1)
                          + (IF ids = {} THEN 0 ELSE 1)
      /\ chosen' = ChosenAfter(now)
      /\ touched' = {}
      /\ UNCHANGED <<torrents, torrents_serial_numbers, downloads, session_stopping,
                     saved, unsaved, stopped>>
      /\ late' = LateAlso(Changed \cup ids)
      /\ begun < MaxActions /\ begun' = begun + 1
  BY DEF ProcessTemporary, session, disk
<1>2. ids \subseteq InSession /\ \A id \in ids : id \in now <=> action = "resume"
  BY DEF Group
<1>3. now \subseteq Ids /\ ChosenAfter(now) \subseteq Ids
  BY RolledBackType DEF IInv
<1>4. \A id \in InSession : id \in now <=> id \in ChosenAfter(now)
  BY RollbackCorrect
<1> HIDE DEF now, ids
<1>5. InSession \subseteq Ids /\ \A id \in InSession : torrents[id] \in 1..MaxSerial
  BY DEF InSession, IInv, TypeOK
<1>6. timers' = IF temporary_action' = "none" THEN 0 ELSE 1
  BY <1>1 DEF IInv, OneTimer
<1>7. TypeOK'
  <2>1. temporary_action_torrents' \subseteq FullIds
    BY <1>1, <1>2, <1>5 DEF FullIds
  <2>2. paused' \subseteq Ids
    BY <1>1, <1>2, <1>3, <1>5 DEF Put
  <2>3. begun' \in 0..MaxActions
    BY <1>1, TemporaryActionAssumption DEF IInv, TypeOK, TemporaryActionAssumption
  <2>4. late' \subseteq Ids
    BY <1>1, <1>2, <1>5 DEF LateAlso, Changed, IInv, TypeOK
  <2>5. chosen' \subseteq Ids /\ touched' \subseteq Ids
    BY <1>1, <1>3
  <2>6. timers' \in Nat /\ temporary_action' \in {"none", "resume", "pause"}
    BY <1>1, <1>6
  <2>7. UNCHANGED <<torrents, torrents_serial_numbers, downloads, session_stopping,
                    saved, unsaved, stopped>>
    BY <1>1
  <2> QED
    BY <2>1, <2>2, <2>3, <2>4, <2>5, <2>6, <2>7 DEF IInv, TypeOK
<1>8. InSession' = InSession /\ Changed' = ids
  BY <1>1, <1>2 DEF InSession, Changed
<1>9. SerialsInv'
  BY <1>1, <1>2, <1>5 DEF IInv, SerialsInv
<1>10. ActionInv' /\ TraceInv'
  <2>1. \A id \in ids : id \in paused' <=> action = "pause"
    BY <1>1 DEF Put
  <2>2. \A id \in ids : id \in chosen' <=> action = "resume"
    BY <1>1, <1>2, <1>4
  <2>3. \A id \in InSession \ ids : id \in paused' <=> id \in chosen'
    BY <1>1, <1>4 DEF Put
  <2>4. ids # {} => temporary_action' = action
    BY <1>1
  <2>5. ids = {} => temporary_action_torrents' = {}
    BY <1>1
  <2> QED
    BY <1>1, <1>8, <2>1, <2>2, <2>3, <2>4, <2>5 DEF ActionInv, TraceInv
<1> QED
  BY <1>6, <1>7, <1>9, <1>10 DEF IInv, OneTimer

-----------------------------------------------------------------------------
LEMMA Step == IInv /\ [Next]_vars => IInv'
<1> SUFFICES ASSUME IInv, [Next]_vars PROVE IInv'
  OBVIOUS
<1>1. ASSUME NEW id \in Ids, NEW pause \in BOOLEAN, NEW download \in BOOLEAN,
             AddTorrent(id, pause, download)
      PROVE  IInv'
  BY <1>1, AddStep
<1>2. ASSUME NEW id \in Ids, RemoveTorrent(id) PROVE IInv'
  BY <1>2, RemoveStep
<1>3. ASSUME NEW id \in Ids, Progress(id) PROVE IInv'
  <2>1. TypeOK'
    BY <1>3 DEF Progress, IInv, TypeOK, Put, temporary, disk, ghosts
  <2> QED
    BY <1>3, <2>1, ActionKept DEF Progress, temporary, ghosts
<1>4. ASSUME NEW id \in Ids, Save(id) PROVE IInv'
  <2>1. TypeOK'
    BY <1>4 DEF Save, IInv, TypeOK, Put, session, temporary, ghosts
  <2> QED
    BY <1>4, <2>1, ActionKept DEF Save, session, temporary, ghosts
<1>5. ASSUME NEW ids \in SUBSET Ids, NEW pause \in BOOLEAN, Choose(ids, pause) PROVE IInv'
  <2>1. /\ paused' = Put(paused, ids, pause) /\ chosen' = Put(chosen, ids, pause)
        /\ touched' = touched \cup ids /\ late' = LateAlso(ids)
        /\ UNCHANGED <<torrents, torrents_serial_numbers, downloads, temporary_action,
                       temporary_action_torrents, timers, begun, session_stopping,
                       saved, unsaved, stopped>>
    BY <1>5 DEF Choose, session, temporary, disk
  <2>2. late' \subseteq Ids /\ touched' \subseteq Ids
    BY <2>1 DEF LateAlso, IInv, TypeOK
  <2>3. paused' \subseteq Ids /\ chosen' \subseteq Ids
    BY <2>1 DEF Put, IInv, TypeOK
  <2>4. TypeOK'
    BY <2>1, <2>2, <2>3 DEF IInv, TypeOK
  <2>5. \E js, hold : /\ paused' = Put(paused, js, hold)
                      /\ chosen' = Put(chosen, js, hold)
                      /\ touched' = touched \cup js
    BY <2>1
  <2> QED
    BY <2>1, <2>4, <2>5, ActionKept
<1>6. ASSUME NEW id \in Ids, NEW pause \in BOOLEAN, ProcessTorrent(id, pause) PROVE IInv'
  BY <1>5, <1>6 DEF ProcessTorrent
<1>7. ASSUME NEW group \in Groups, NEW pause \in BOOLEAN, ProcessGroup(group, pause)
      PROVE  IInv'
  <2>1. Group(group) \in SUBSET Ids
    BY DEF Group, InSession
  <2> QED
    BY <1>5, <1>7, <2>1 DEF ProcessGroup
<1>8. ASSUME NEW group \in Groups, NEW action \in {"resume", "pause"},
             ProcessTemporary(action, group)
      PROVE  IInv'
  BY <1>8, ProcessTemporaryStep
<1>9. CASE UserCompletes
  <2>1. TypeOK'
    BY <1>9, CompleteType DEF UserCompletes, IInv, TypeOK, session, disk
  <2> QED
    BY <1>9, <2>1, CompleteStep DEF UserCompletes, session
<1>10. CASE Cancel
  BY <1>10, CancelStep
<1>11. CASE Expire
  <2>1. temporary_action # "none" /\ Complete
    BY <1>11 DEF Expire, IInv, OneTimer
  <2>2. TypeOK'
    BY <1>11, <2>1, CompleteType DEF Expire, IInv, TypeOK, session, disk
  <2> QED
    BY <1>11, <2>1, <2>2, CompleteStep DEF Expire, session
<1>12. CASE Stop
  <2>1. InSession \subseteq Ids
    BY DEF InSession
  <2>2. TypeOK'
    BY <1>12, <2>1, CompleteType DEF Stop, IInv, TypeOK, session
  <2> QED
    BY <1>12, <2>2, CompleteStep DEF Stop, session
<1>13. CASE End
  <2>1. TypeOK'
    BY <1>13 DEF End, IInv, TypeOK, session, temporary, disk, ghosts
  <2> QED
    BY <1>13, <2>1, ActionKept DEF End, session, temporary, ghosts
<1>14. CASE UNCHANGED vars
  <2>1. TypeOK'
    BY <1>14 DEF vars, IInv, TypeOK, session, temporary, disk, ghosts
  <2> QED
    BY <1>14, <2>1, ActionKept DEF vars, session, temporary, ghosts
<1> QED
  BY <1>1, <1>2, <1>3, <1>4, <1>6, <1>7, <1>8, <1>9, <1>10, <1>11, <1>12, <1>13,
     <1>14, Zenon DEF Next, Ended

-----------------------------------------------------------------------------
(* What is on disk when the session has stopped. *)

(* Since stop(), every torrent that has been under an action is a late one, and
   what has been written of the others is what was chosen. *)
SavedInv ==
    /\ session_stopping =>
           /\ Changed \subseteq late
           /\ \A id \in InSession \ (late \cup unsaved) : id \in saved <=> id \in chosen
    /\ stopped => session_stopping /\ unsaved = {}

(* A step that changes neither the torrents of the session nor what is on disk
   or waits to be. *)
LEMMA SavedKept ==
  ASSUME SavedInv, InSession' = InSession, UNCHANGED <<session_stopping, disk, stopped>>,
         session_stopping => /\ Changed' \subseteq late'
                             /\ late \subseteq late'
                             /\ \A id \in InSession \ late' : id \in chosen' <=> id \in chosen
  PROVE  SavedInv'
BY DEF SavedInv, disk

LEMMA SavedByChoice ==
  ASSUME SavedInv, NEW ids, NEW pause, Choose(ids, pause)
  PROVE  SavedInv'
<1>1. InSession' = InSession /\ Changed' = Changed
  BY DEF Choose, InSession, Changed, session, temporary
<1>2. \A id : id \notin ids => (id \in chosen' <=> id \in chosen)
  BY DEF Choose, Put
<1>3. late' = LateAlso(ids) /\ UNCHANGED <<session_stopping, disk, stopped>>
  BY DEF Choose
<1>4. session_stopping => late' = late \cup ids
  BY <1>3 DEF LateAlso
<1>5. session_stopping => Changed \subseteq late
  BY DEF SavedInv
<1> QED
  BY <1>1, <1>2, <1>3, <1>4, <1>5, SavedKept

(* What rolling back writes down as chosen concerns only torrents of the action. *)
LEMMA ChosenAfterOthers ==
  ASSUME NEW now, NEW id, id \notin Changed
  PROVE  id \in ChosenAfter(now) <=> id \in chosen
BY DEF ChosenAfter

LEMMA SavedByCompletion ==
  ASSUME SavedInv, Complete, UNCHANGED <<session, session_stopping, disk, stopped>>
  PROVE  SavedInv'
<1>1. InSession' = InSession /\ Changed' = {}
  BY DEF Complete, Interrupted, InSession, Changed, session
<1>2. late' = LateAlso(Changed) /\ chosen' = ChosenAfter(paused')
  BY DEF Complete
<1>3. session_stopping => late' = late \cup Changed
  BY <1>2 DEF LateAlso
<1>4. \A id : id \notin Changed => (id \in chosen' <=> id \in chosen)
  BY <1>2, ChosenAfterOthers
<1> QED
  BY <1>1, <1>3, <1>4, SavedKept

LEMMA SavedStep == IInv /\ SavedInv /\ [Next]_vars => SavedInv'
<1> SUFFICES ASSUME IInv, SavedInv, [Next]_vars PROVE SavedInv'
  OBVIOUS
<1>1. ASSUME NEW id \in Ids, NEW pause \in BOOLEAN, NEW download \in BOOLEAN,
             AddTorrent(id, pause, download)
      PROVE  SavedInv'
  <2>1. InSession' = InSession \cup {id} /\ Changed' = Changed
    <3> DEFINE serial == torrents_serial_numbers[id] + 1
    <3>1. /\ torrents[id] = 0 /\ serial \in 1..MaxSerial
          /\ torrents' = [torrents EXCEPT ![id] = serial]
          /\ UNCHANGED temporary_action_torrents
      BY <1>1, TemporaryActionAssumption
         DEF AddTorrent, IInv, TypeOK, temporary, TemporaryActionAssumption
    <3>2. [id |-> id, serial |-> serial] \notin temporary_action_torrents
      BY <3>1 DEF IInv, TypeOK, SerialsInv
    <3> HIDE DEF serial
    <3>3. \A j \in Ids : torrents'[j] = IF j = id THEN serial ELSE torrents[j]
      BY <3>1 DEF IInv, TypeOK
    <3>4. InSession' = InSession \cup {id} /\ id \notin InSession
      BY <3>1, <3>3 DEF InSession
    <3> QED
      BY <3>1, <3>2, <3>3, <3>4 DEF Changed, InSession
  <2>2. /\ UNCHANGED <<session_stopping, unsaved, stopped, late>> /\ ~stopped
        /\ \A j : j # id => /\ j \in saved' <=> j \in saved
                            /\ j \in chosen' <=> j \in chosen
        /\ id \in saved' <=> id \in chosen'
    BY <1>1 DEF AddTorrent, UserMayAct, Put
  <2> QED
    BY <2>1, <2>2 DEF SavedInv
<1>2. ASSUME NEW id \in Ids, RemoveTorrent(id) PROVE SavedInv'
  <2>1. InSession' = InSession \ {id} /\ Changed' = Changed \ {id}
    <3>1. \A j \in Ids : torrents'[j] = IF j = id THEN 0 ELSE torrents[j]
      BY <1>2 DEF RemoveTorrent, IInv, TypeOK
    <3>2. InSession' = InSession \ {id}
      BY <3>1 DEF InSession
    <3>3. UNCHANGED temporary_action_torrents
      BY <1>2 DEF RemoveTorrent, temporary
    <3> QED
      BY <3>1, <3>2, <3>3 DEF Changed, InSession
  <2>2. /\ UNCHANGED <<session_stopping, stopped>> /\ ~stopped
        /\ saved' = saved \ {id} /\ unsaved' = unsaved \ {id}
        /\ chosen' = chosen \ {id} /\ late' = late \ {id}
    BY <1>2 DEF RemoveTorrent, UserMayAct
  <2> QED
    BY <2>1, <2>2 DEF SavedInv
<1>3. ASSUME NEW id \in Ids, Progress(id) PROVE SavedInv'
  <2>1. InSession' = InSession /\ Changed' = Changed
        /\ UNCHANGED <<chosen, late, session_stopping, disk, stopped>>
    BY <1>3 DEF Progress, InSession, Changed, temporary, ghosts
  <2> QED
    BY <2>1, SavedKept DEF SavedInv
<1>4. ASSUME NEW id \in Ids, Save(id) PROVE SavedInv'
  <2>1. InSession' = InSession /\ Changed' = Changed
    BY <1>4 DEF Save, InSession, Changed, session, temporary
  <2>2. /\ UNCHANGED <<session_stopping, stopped, late, chosen, paused>>
        /\ ~stopped /\ id \in InSession
        /\ unsaved' = unsaved \ {id}
        /\ \A j : j # id => (j \in saved' <=> j \in saved)
        /\ id \in saved' <=> id \in paused
    BY <1>4 DEF Save, Put, ghosts
  <2>3. session_stopping /\ id \notin late => (id \in paused <=> id \in chosen)
    BY <2>2 DEF SavedInv, IInv, TraceInv
  <2> QED
    BY <2>1, <2>2, <2>3 DEF SavedInv
<1>5. ASSUME NEW group \in Groups, NEW action \in {"resume", "pause"},
             ProcessTemporary(action, group)
      PROVE  SavedInv'
  <2> DEFINE now == RolledBack
             ids == {id \in Group(group) : id \in now <=> action = "resume"}
  <2>1. /\ temporary_action_torrents' =
               {[id |-> id, serial |-> torrents[id]] : id \in ids}
        /\ chosen' = ChosenAfter(now) /\ late' = LateAlso(Changed \cup ids)
        /\ UNCHANGED <<torrents, session_stopping, disk, stopped>>
    BY <1>5 DEF ProcessTemporary, session
  <2>2. ids \subseteq InSession
    BY DEF Group
  <2> HIDE DEF now, ids
  <2>3. InSession' = InSession /\ Changed' = ids
    BY <2>1, <2>2 DEF InSession, Changed
  <2>4. session_stopping => late' = late \cup Changed \cup ids
    BY <2>1 DEF LateAlso
  <2>5. \A id : id \notin Changed => (id \in chosen' <=> id \in chosen)
    BY <2>1, ChosenAfterOthers
  <2> QED
    BY <2>1, <2>3, <2>4, <2>5, SavedKept
<1>6. CASE Cancel
  <2>1. InSession' = InSession /\ Changed' = {}
        /\ UNCHANGED <<late, session_stopping, disk, stopped>>
    BY <1>6 DEF Cancel, Interrupted, InSession, Changed, session
  <2>2. \A id : id \notin Changed => (id \in chosen' <=> id \in chosen)
    BY <1>6 DEF Cancel, Put
  <2>3. session_stopping => Changed \subseteq late
    BY DEF SavedInv
  <2> QED
    BY <2>1, <2>2, <2>3, SavedKept
<1>7. CASE Expire
  <2>1. temporary_action # "none" /\ Complete
    BY <1>7 DEF Expire, IInv, OneTimer
  <2> QED
    BY <1>7, <2>1, SavedByCompletion DEF Expire
<1>8. CASE Stop
  <2>1. InSession' = InSession /\ Changed' = {} /\ unsaved' = InSession /\ ~stopped'
    BY <1>8 DEF Stop, Complete, Interrupted, InSession, Changed, session
  <2> QED
    BY <2>1 DEF SavedInv
<1>9. CASE End
  <2>1. /\ InSession' = InSession /\ Changed' = Changed
        /\ UNCHANGED <<chosen, late, session_stopping, disk>>
        /\ session_stopping /\ unsaved = {}
    BY <1>9 DEF End, InSession, Changed, session, temporary, ghosts
  <2> QED
    BY <2>1 DEF SavedInv, disk
<1>10. CASE UNCHANGED vars
  <2>1. InSession' = InSession /\ Changed' = Changed
        /\ UNCHANGED <<chosen, late, session_stopping, disk, stopped>>
    BY <1>10 DEF vars, InSession, Changed, session, temporary, ghosts
  <2> QED
    BY <2>1, SavedKept DEF SavedInv
<1>11. ASSUME NEW id \in Ids, NEW pause \in BOOLEAN, ProcessTorrent(id, pause)
       PROVE  SavedInv'
  BY <1>11, SavedByChoice DEF ProcessTorrent
<1>12. ASSUME NEW group \in Groups, NEW pause \in BOOLEAN, ProcessGroup(group, pause)
       PROVE  SavedInv'
  BY <1>12, SavedByChoice DEF ProcessGroup
<1>13. CASE UserCompletes
  BY <1>13, SavedByCompletion DEF UserCompletes
<1> QED
  BY <1>1, <1>2, <1>3, <1>4, <1>5, <1>6, <1>7, <1>8, <1>9, <1>10, <1>11, <1>12,
     <1>13, Zenon DEF Next, Ended

-----------------------------------------------------------------------------
THEOREM InvAlways == Spec => []IInv
BY InitIInv, Step, PTL DEF Spec

(* Type correctness. *)
THEOREM TypeCorrect == Spec => []TypeOK
<1>1. IInv => TypeOK
  BY DEF IInv
<1> QED
  BY InvAlways, <1>1, PTL

(* No temporary action leaves a trace when it is over, and while it is under
   way it is seen in the torrents it has changed and in no other. *)
THEOREM NoTraceLeft == Spec => []LeavesNoTrace
<1>1. IInv => LeavesNoTrace
  BY DEF IInv, TraceInv, ActionInv, LeavesNoTrace, Changed
<1> QED
  BY InvAlways, <1>1, PTL

(* Every action has a timer of its own. *)
THEOREM OwnTimer == Spec => []OneTimer
<1>1. IInv => OneTimer
  BY DEF IInv
<1> QED
  BY InvAlways, <1>1, PTL

(* A program that has stopped has left on disk what was chosen for its torrents,
   and no trace of a temporary action. *)
THEOREM ChosenIsSaved == Spec => []StoppedAsChosen
<1>1. Init => SavedInv
  BY DEF Init, SavedInv
<1>2. SavedInv => StoppedAsChosen
  BY DEF SavedInv, StoppedAsChosen
<1> QED
  BY InitIInv, Step, <1>1, SavedStep, <1>2, PTL DEF Spec
=============================================================================
