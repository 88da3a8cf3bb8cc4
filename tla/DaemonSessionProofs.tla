------------------------- MODULE DaemonSessionProofs -------------------------
(* Proofs about the session of the daemon, for any set of torrents, however
   often they are added again, and any number of requests and alerts. *)
EXTENDS DaemonSession, FiniteSetTheorems, SequenceTheorems, TLAPS

-----------------------------------------------------------------------------
(* Lemmas about sequences. *)

(* A sequence made of a finite set is as long as the set is large. *)
LEMMA SetToSeqLength ==
  ASSUME NEW S, IsFiniteSet(S)
  PROVE  /\ SetToSeq(S) \in Seq(S)
         /\ Len(SetToSeq(S)) = Cardinality(S)
<1> DEFINE n == Cardinality(S)
<1>1. n \in Nat /\ ExistsBijection(1..n, S)
  BY FS_CardinalityType
<1>2. \E f \in [1..n -> S] : IsInjective(f)
  BY <1>1, Zenon DEF ExistsBijection, Bijection, Injection
<1>3. SetToSeq(S) \in [1..n -> S]
  BY <1>2, Zenon DEF SetToSeq
<1> HIDE DEF n
<1> QED
  BY <1>1, <1>3 DEF n

(* Removing an element makes a sequence one shorter. *)
LEMMA RemoveAtLength ==
  ASSUME NEW S, NEW s \in Seq(S), NEW i \in DOMAIN s
  PROVE  /\ RemoveAt(s, i) \in Seq(S)
         /\ Len(RemoveAt(s, i)) = Len(s) - 1
<1>1. i \in 1..Len(s) /\ Len(s) \in Nat
  BY LenProperties
<1>2. /\ SubSeq(s, 1, i - 1) \in Seq(S)
      /\ Len(SubSeq(s, 1, i - 1)) = i - 1
  BY <1>1, SubSeqProperties, ElementOfSeq
<1>3. /\ SubSeq(s, i + 1, Len(s)) \in Seq(S)
      /\ Len(SubSeq(s, i + 1, Len(s))) = Len(s) - i
  BY <1>1, SubSeqProperties, ElementOfSeq
<1> DEFINE before == SubSeq(s, 1, i - 1)
           after == SubSeq(s, i + 1, Len(s))
<1>4. before \o after \in Seq(S) /\ Len(before \o after) = Len(before) + Len(after)
  BY <1>2, <1>3, ConcatProperties
<1>5. Len(before) + Len(after) = Len(s) - 1
  BY <1>1, <1>2, <1>3
<1> QED
  BY <1>4, <1>5, Zenon DEF RemoveAt

(* The resume data alerts of a queue are finitely many ... *)
LEMMA ResumeAlertsFinite ==
  ASSUME NEW queue \in Seq(Alerts)
  PROVE  /\ IsFiniteSet(ResumeAlertsIn(queue))
         /\ Cardinality(ResumeAlertsIn(queue)) \in Nat
<1>1. DOMAIN queue = 1..Len(queue) /\ Len(queue) \in Nat
  BY LenProperties
<1>2. IsFiniteSet(1..Len(queue))
  BY <1>1, FS_Interval
<1>3. ResumeAlertsIn(queue) \in SUBSET (1..Len(queue))
  BY <1>1 DEF ResumeAlertsIn
<1> QED
  BY <1>2, <1>3, FS_Subset, FS_CardinalityType

(* ... one more when such an alert joins it, ... *)
LEMMA ResumeAlertsAppend ==
  ASSUME NEW queue \in Seq(Alerts), NEW a \in Alerts
  PROVE  Cardinality(ResumeAlertsIn(Append(queue, a))) =
             Cardinality(ResumeAlertsIn(queue))
             + (IF a.type \in ResumeAlerts THEN 1 ELSE 0)
<1> DEFINE n == Len(queue)
           S == ResumeAlertsIn(queue)
<1>1. DOMAIN queue = 1..n /\ n \in Nat
  BY LenProperties
<1>2. /\ DOMAIN Append(queue, a) = 1..(n + 1)
      /\ \A i \in 1..n : Append(queue, a)[i] = queue[i]
      /\ Append(queue, a)[n + 1] = a
  BY <1>1
<1>3. ResumeAlertsIn(Append(queue, a)) =
          S \cup (IF a.type \in ResumeAlerts THEN {n + 1} ELSE {})
  BY <1>1, <1>2 DEF ResumeAlertsIn
<1>4. n + 1 \notin S
  BY <1>1 DEF ResumeAlertsIn
<1>5. IsFiniteSet(S) /\ Cardinality(S) \in Nat
  BY ResumeAlertsFinite
<1> HIDE DEF n, S
<1>6. CASE a.type \in ResumeAlerts
  <2>1. ResumeAlertsIn(Append(queue, a)) = S \cup {n + 1}
    BY <1>3, <1>6
  <2> QED
    BY <2>1, <1>4, <1>5, <1>6, FS_AddElement DEF S
<1>7. CASE a.type \notin ResumeAlerts
  <2>1. ResumeAlertsIn(Append(queue, a)) = S
    BY <1>3, <1>7
  <2> QED
    BY <2>1, <1>5, <1>7 DEF S
<1> QED
  BY <1>6, <1>7

(* ... and one less when such an alert leaves it at the head. *)
LEMMA ResumeAlertsTail ==
  ASSUME NEW queue \in Seq(Alerts), queue # <<>>
  PROVE  Cardinality(ResumeAlertsIn(queue)) =
             Cardinality(ResumeAlertsIn(Tail(queue)))
             + (IF Head(queue).type \in ResumeAlerts THEN 1 ELSE 0)
<1> DEFINE n == Len(queue)
           S == ResumeAlertsIn(queue) \ {1}
           T == ResumeAlertsIn(Tail(queue))
           f == [i \in T |-> i + 1]
<1>1. DOMAIN queue = 1..n /\ n \in Nat /\ n >= 1
  BY LenProperties, EmptySeq
<1>2. /\ Tail(queue) \in Seq(Alerts)
      /\ DOMAIN Tail(queue) = 1..(n - 1)
      /\ \A i \in 1..(n - 1) : Tail(queue)[i] = queue[i + 1]
      /\ Head(queue) = queue[1]
  BY <1>1, HeadTailProperties, LenProperties
<1>3. f \in Bijection(T, S)
  <2>1. T \in SUBSET (1..(n - 1))
    BY <1>2 DEF ResumeAlertsIn
  <2>2. f \in [T -> S]
    BY <1>1, <1>2, <2>1 DEF ResumeAlertsIn
  <2>3. IsInjective(f)
    BY <1>1, <2>1 DEF IsInjective
  <2>4. \A s \in S : \E t \in T : f[t] = s
    <3> SUFFICES ASSUME NEW s \in S PROVE s - 1 \in T /\ f[s - 1] = s
      BY Zenon
    <3>1. s \in 2..n /\ queue[s].type \in ResumeAlerts
      BY <1>1 DEF ResumeAlertsIn
    <3>2. s - 1 \in 1..(n - 1) /\ (s - 1) + 1 = s
      BY <1>1, <3>1
    <3>3. s - 1 \in T
      BY <1>2, <3>1, <3>2 DEF ResumeAlertsIn
    <3> QED
      BY <3>2, <3>3
  <2> QED
    BY <2>2, <2>3, <2>4, Zenon DEF Bijection, Injection, Surjection
<1>4. IsFiniteSet(T) /\ Cardinality(T) \in Nat
  BY <1>2, ResumeAlertsFinite
<1>5. IsFiniteSet(S) /\ Cardinality(S) = Cardinality(T)
  <2>1. ExistsBijection(T, S)
    BY <1>3, Zenon DEF ExistsBijection
  <2> HIDE DEF S, T
  <2> QED
    BY <2>1, <1>4, FS_Bijection
<1>6. 1 \in ResumeAlertsIn(queue) <=> Head(queue).type \in ResumeAlerts
  BY <1>1, <1>2 DEF ResumeAlertsIn
<1>7. IsFiniteSet(ResumeAlertsIn(queue)) /\ Cardinality(ResumeAlertsIn(queue)) \in Nat
  BY ResumeAlertsFinite
<1>8. Cardinality(S) = IF 1 \in ResumeAlertsIn(queue)
                       THEN Cardinality(ResumeAlertsIn(queue)) - 1
                       ELSE Cardinality(ResumeAlertsIn(queue))
  BY <1>7, FS_RemoveElement
<1> HIDE DEF S, T
<1> QED
  BY <1>4, <1>5, <1>6, <1>7, <1>8 DEF T

-----------------------------------------------------------------------------
(* Type correctness. *)

(* The messages thread holds an alert only while it delivers it. *)
HeldInDelivery == thread = "deliver" \/ held = Nothing

LEMMA FullIdTyped == ASSUME TypeOK, NEW id \in InSession PROVE FullId(id) \in FullIds
BY DaemonSessionAssumption
   DEF DaemonSessionAssumption, TypeOK, InSession, FullId, FullIds, Serials

LEMMA RequestsTyped ==
  ASSUME TypeOK
  PROVE  LET S == {FullId(id) : id \in InSession}
         IN  /\ SetToSeq(S) \in Seq(FullIds)
             /\ Len(SetToSeq(S)) = Cardinality(InSession)
             /\ Cardinality(InSession) \in Nat
             /\ IsFiniteSet(S)
<1> DEFINE S == {FullId(id) : id \in InSession}
           f == [id \in InSession |-> FullId(id)]
<1>1. InSession \in SUBSET Ids /\ IsFiniteSet(Ids)
  BY DaemonSessionAssumption DEF DaemonSessionAssumption, InSession
<1>2. IsFiniteSet(InSession) /\ Cardinality(InSession) \in Nat
  BY <1>1, FS_Subset, FS_CardinalityType
<1>3. \A id \in InSession : FullId(id) \in FullIds
  BY FullIdTyped
<1>4. f \in Bijection(InSession, S)
  <2>1. \A i, j \in InSession : FullId(i) = FullId(j) => i = j
    BY DEF FullId
  <2>2. f \in [InSession -> S] /\ IsInjective(f)
    BY <2>1 DEF IsInjective
  <2>3. f \in Surjection(InSession, S)
    BY <2>2 DEF Surjection
  <2> QED
    BY <2>2, <2>3, Zenon DEF Bijection, Injection
<1>5. IsFiniteSet(S) /\ Cardinality(S) = Cardinality(InSession)
  <2>1. ExistsBijection(InSession, S)
    BY <1>4, Zenon DEF ExistsBijection
  <2> HIDE DEF S
  <2> QED
    BY <2>1, <1>2, FS_Bijection
<1>6. S \subseteq FullIds
  BY <1>3
<1> HIDE DEF S
<1>7. SetToSeq(S) \in Seq(S) /\ Len(SetToSeq(S)) = Cardinality(S)
  BY <1>5, SetToSeqLength
<1>8. SetToSeq(S) \in Seq(FullIds)
  BY <1>6, <1>7, SeqMonotonic
<1> QED
  BY <1>2, <1>5, <1>7, <1>8 DEF S

(* The answer to a request is an alert; what is popped stays one. *)
LEMMA AlertTyped ==
  /\ \A full \in FullIds, type \in AlertTypes : Alert(type, full) \in Alerts
  /\ \A full \in FullIds, type \in AlertTypes : Alert(type, full).type = type
BY DEF Alert, Alerts, FullIds

LEMMA NothingIsNoAlert == Nothing.type \notin ResumeAlerts
BY DEF Nothing, ResumeAlerts

Inv == TypeOK /\ HeldInDelivery /\ PendingIsOutstanding /\ StopsWhenAllAnswered

LEMMA MaxSerialNat == MaxSerial \in Nat
BY DaemonSessionAssumption DEF DaemonSessionAssumption

LEMMA InvInit == Init => Inv
<1> SUFFICES ASSUME Init PROVE Inv
  OBVIOUS
<1>1. TypeOK
  <2>1. /\ torrents \in [Ids -> 0..MaxSerial]
        /\ torrents_serial_numbers \in [Ids -> 0..MaxSerial]
        /\ resume \in [Ids -> 0..MaxSerial]
    BY MaxSerialNat DEF Init
  <2>2. /\ alerts \in Seq(Alerts) /\ requests \in Seq(FullIds)
        /\ torrent_resume_data_signal \in Seq(Alerts)
        /\ torrent_finished_signal \in Seq(Alerts)
    BY DEF Init
  <2> QED
    BY <2>1, <2>2 DEF Init, TypeOK
<1>2. Outstanding = 0
  <2>1. ResumeAlertsIn(<<>>) = {} /\ Cardinality({}) = 0
    BY FS_EmptySet DEF ResumeAlertsIn
  <2>2. Cardinality(ResumeAlertsIn(alerts)) = 0
    BY <2>1 DEF Init
  <2>3. Len(requests) = 0 /\ Len(torrent_resume_data_signal) = 0
    BY DEF Init
  <2>4. held.type \notin ResumeAlerts
    BY NothingIsNoAlert DEF Init
  <2> QED
    BY <2>2, <2>3, <2>4 DEF Outstanding
<1> QED
  BY <1>1, <1>2 DEF Init, Inv, HeldInDelivery, PendingIsOutstanding, StopsWhenAllAnswered

-----------------------------------------------------------------------------
(* The types are kept. *)

LEMMA EventTyped ==
  ASSUME TypeOK
  PROVE  /\ \A i \in DOMAIN requests : requests[i] \in FullIds
         /\ alerts # <<>> => Head(alerts) \in Alerts /\ Tail(alerts) \in Seq(Alerts)
         /\ torrent_resume_data_signal # <<>> =>
                /\ Head(torrent_resume_data_signal) \in Alerts
                /\ Tail(torrent_resume_data_signal) \in Seq(Alerts)
         /\ torrent_finished_signal # <<>> =>
                /\ Head(torrent_finished_signal) \in Alerts
                /\ Tail(torrent_finished_signal) \in Seq(Alerts)
<1> USE DEF TypeOK
<1>1. \A i \in DOMAIN requests : requests[i] \in FullIds
  BY LenProperties, ElementOfSeq
<1> QED
  BY <1>1, HeadTailProperties

LEMMA IdOfAlert ==
  ASSUME NEW a \in Alerts, NEW id \in HandleIds(a)
  PROVE  [a EXCEPT !.id = id] \in Alerts /\ [a EXCEPT !.id = id].type = a.type
BY DEF HandleIds, Alerts

(* The parts of Outstanding. *)
InAlerts == Cardinality(ResumeAlertsIn(alerts))
InHand == IF held.type \in ResumeAlerts THEN 1 ELSE 0

LEMMA OutstandingParts ==
  ASSUME TypeOK
  PROVE  /\ Len(requests) \in Nat /\ InAlerts \in Nat /\ InHand \in Nat
         /\ Len(torrent_resume_data_signal) \in Nat
         /\ Outstanding = Len(requests) + InAlerts + InHand
                          + Len(torrent_resume_data_signal)
         /\ torrent_resume_data_signal # <<>> =>
                Len(torrent_resume_data_signal) >= 1
<1>1. /\ requests \in Seq(FullIds) /\ torrent_resume_data_signal \in Seq(Alerts)
      /\ alerts \in Seq(Alerts)
  BY DEF TypeOK
<1>2. InAlerts \in Nat
  BY <1>1, ResumeAlertsFinite DEF InAlerts
<1> QED
  BY <1>1, <1>2, LenProperties, EmptySeq DEF InAlerts, InHand, Outstanding

LEMMA TypeStep ==
  ASSUME Inv, [Next]_vars
  PROVE  TypeOK' /\ HeldInDelivery'
<1> USE DEF Inv, TypeOK, HeldInDelivery
<1>1. ASSUME NEW id \in Ids, AddTorrent(id) PROVE TypeOK' /\ HeldInDelivery'
  BY <1>1, MaxSerialNat DEF AddTorrent, UserMayAct, stopping, signals, messages
<1>2. ASSUME NEW id \in Ids, RemoveTorrent(id) PROVE TypeOK' /\ HeldInDelivery'
  BY <1>2, MaxSerialNat DEF RemoveTorrent, stopping, signals, messages
<1>3. ASSUME NEW id \in Ids, ChangeTorrent(id) PROVE TypeOK' /\ HeldInDelivery'
  BY <1>3 DEF ChangeTorrent, stopping, signals, libtorrent, messages
<1>4. ASSUME save_session
      PROVE  requests' \in Seq(FullIds) /\ pending_torrent_resume_data' \in Nat
  BY <1>4, RequestsTyped, ConcatProperties DEF save_session
<1>5. CASE on_save_session_callback
  BY <1>4, <1>5 DEF on_save_session_callback, session, stopping, signals, messages
<1>6. CASE stop
  BY <1>4, <1>6 DEF stop, session, signals, messages, set_stopped_state_if_needed
<1>7. CASE on_torrent_resume_data_callback
  <2> USE <1>7 DEF on_torrent_resume_data_callback
  <2> DEFINE data == Head(torrent_resume_data_signal)
  <2>1. data \in Alerts /\ torrent_resume_data_signal' \in Seq(Alerts)
    BY EventTyped
  <2>2. /\ changed' \subseteq Ids /\ excused' \subseteq Ids
        /\ resume' \in [Ids -> 0..MaxSerial]
    <3>1. data.serial \in 0..MaxSerial /\ 0 \in 0..MaxSerial
      BY <2>1, MaxSerialNat DEF Alerts, Serials
    <3>2. Exists(data.id) => data.id \in Ids
      BY DEF Exists, InSession
    <3>3. changed' \subseteq Ids /\ excused' \subseteq Ids
      BY <3>2 DEF save_torrent_settings_if_exists
    <3>4. resume' = resume \/ \E v \in 0..MaxSerial : resume' = [resume EXCEPT ![data.id] = v]
      BY <3>1 DEF save_torrent_settings_if_exists
    <3> QED
      BY <3>3, <3>4
  <2>3. pending_torrent_resume_data' \in Nat
    BY OutstandingParts DEF PendingIsOutstanding
  <2>4. stop_messages_thread' \in BOOLEAN
    BY DEF set_stopped_state_if_needed
  <2> QED
    BY <2>1, <2>2, <2>3, <2>4 DEF libtorrent, messages
<1>8. CASE on_torrent_finished_callback
  <2> USE <1>8 DEF on_torrent_finished_callback
  <2>1. torrent_finished_signal' \in Seq(Alerts)
    BY EventTyped
  <2>2. /\ unfinished' \subseteq Ids /\ changed' \subseteq Ids
        /\ requests' \in Seq(FullIds) /\ pending_torrent_resume_data' \in Nat
    <3>1. CASE \E id : Exists(id) /\ finish_torrent(id)
      <4>1. PICK id : Exists(id) /\ finish_torrent(id)
        BY <3>1
      <4>2. id \in Ids /\ FullId(id) \in FullIds
        BY <4>1, FullIdTyped DEF Exists, InSession
      <4>3. CASE id \in unfinished
        <5>1. /\ requests' = Append(requests, FullId(id))
              /\ pending_torrent_resume_data' = pending_torrent_resume_data + 1
              /\ unfinished' = unfinished \ {id} /\ changed' = changed \cup {id}
          BY <4>1, <4>3 DEF finish_torrent
        <5>2. requests' \in Seq(FullIds)
          BY <4>2, <5>1
        <5> QED
          BY <4>2, <5>1, <5>2
      <4>4. CASE id \notin unfinished
        BY <4>1, <4>4 DEF finish_torrent
      <4> QED
        BY <4>3, <4>4
    <3>2. CASE UNCHANGED <<unfinished, changed, requests, pending_torrent_resume_data>>
      BY <3>2
    <3> QED
      BY <3>1, <3>2
  <2> QED
    BY <2>1, <2>2 DEF stopping, messages
<1>9. CASE AnswerRequest
  <2> USE <1>9 DEF AnswerRequest
  <2>1. PICK i \in DOMAIN requests, type \in ResumeAlerts :
            /\ requests' = RemoveAt(requests, i)
            /\ alerts' = Append(alerts, Alert(type, requests[i]))
    BY Zenon
  <2>2. requests' \in Seq(FullIds)
    BY <2>1, RemoveAtLength
  <2>3. Alert(type, requests[i]) \in Alerts
    BY <2>1, EventTyped, AlertTyped DEF AlertTypes
  <2>4. alerts' \in Seq(Alerts)
    BY <2>1, <2>3
  <2> QED
    BY <2>2, <2>4 DEF session, stopping, signals, messages
<1>10. ASSUME NEW id \in Ids, NEW type \in AlertTypes \ ResumeAlerts, PostAlert(id, type)
       PROVE  TypeOK' /\ HeldInDelivery'
  <2> USE <1>10 DEF PostAlert
  <2>1. Alert(type, FullId(id)) \in Alerts
    BY FullIdTyped, AlertTyped DEF Exists
  <2>2. alerts' \in Seq(Alerts)
    BY <2>1
  <2> QED
    BY <2>2 DEF session, stopping, signals, messages
<1>11. CASE CheckStop
  BY <1>11 DEF CheckStop, session, stopping, signals, libtorrent
<1>12. CASE WaitForAlert
  BY <1>12 DEF WaitForAlert, session, stopping, signals, libtorrent
<1>13. CASE PopAlert
  <2> USE <1>13 DEF PopAlert
  <2>1. CASE alerts = <<>>
    BY <2>1 DEF session, stopping, signals
  <2>2. CASE alerts # <<>>
    <3>1. Head(alerts) \in Alerts /\ alerts' \in Seq(Alerts)
      BY <2>2, EventTyped
    <3>2. held' \in Alerts
      BY <2>2, <3>1, IdOfAlert
    <3> QED
      BY <2>2, <3>1, <3>2 DEF session, stopping, signals
  <2> QED
    BY <2>1, <2>2
<1>14. CASE DeliverResumeData
  <2>1. held \in Alerts
    BY <1>14, NothingIsNoAlert DEF DeliverResumeData
  <2>2. torrent_resume_data_signal' \in Seq(Alerts)
    BY <1>14, <2>1 DEF DeliverResumeData
  <2> QED
    BY <1>14, <2>2 DEF DeliverResumeData, Delivered, stopping, libtorrent
<1>15. CASE DeliverFinished
  <2>1. held \in Alerts
    BY <1>15 DEF DeliverFinished, Nothing
  <2>2. torrent_finished_signal' \in Seq(Alerts)
    BY <1>15, <2>1 DEF DeliverFinished
  <2> QED
    BY <1>15, <2>2 DEF DeliverFinished, Delivered, stopping, libtorrent
<1>16. CASE DeliverMetadata
  BY <1>16 DEF DeliverMetadata, Delivered, stopping, signals, libtorrent
<1>17. CASE DeliverRejected
  BY <1>17 DEF DeliverRejected, Delivered, stopping, signals, libtorrent, InSession
<1>18. CASE StopApplication
  BY <1>18 DEF StopApplication, session, stopping, signals, libtorrent
<1>19. CASE Ended \/ UNCHANGED vars
  BY <1>19 DEF Ended, vars, session, stopping, signals, libtorrent, messages
<1> QED
  BY <1>1, <1>2, <1>3, <1>5, <1>6, <1>7, <1>8, <1>9, <1>10, <1>11, <1>12, <1>13,
     <1>14, <1>15, <1>16, <1>17, <1>18, <1>19 DEF Next, MessagesThread

-----------------------------------------------------------------------------
(* The counter is kept. *)

(* Nothing is asked for once the session is stopping. *)
NoNewRequests == session_stopping => pending_torrent_resume_data' <= pending_torrent_resume_data

(* A step that leaves the answers on their way alone. *)
LEMMA SameOutstanding ==
  ASSUME UNCHANGED <<requests, alerts, held, torrent_resume_data_signal>>
  PROVE  Outstanding' = Outstanding
BY DEF Outstanding, ResumeAlertsIn

LEMMA SavedOutstanding ==
  ASSUME TypeOK, save_session, UNCHANGED <<alerts, held, torrent_resume_data_signal>>
  PROVE  /\ Len(requests') = Len(requests) + Cardinality(InSession)
         /\ Cardinality(InSession) \in Nat
         /\ pending_torrent_resume_data' =
                pending_torrent_resume_data + Cardinality(InSession)
<1> DEFINE S == {FullId(id) : id \in InSession}
<1>1. /\ SetToSeq(S) \in Seq(FullIds)
      /\ Len(SetToSeq(S)) = Cardinality(InSession)
      /\ Cardinality(InSession) \in Nat
  BY RequestsTyped
<1>2. requests \in Seq(FullIds) /\ requests' = requests \o SetToSeq(S)
  BY DEF TypeOK, save_session
<1> HIDE DEF S
<1>3. Len(requests') = Len(requests) + Len(SetToSeq(S))
  BY <1>1, <1>2, ConcatProperties
<1> QED
  BY <1>1, <1>3 DEF save_session

LEMMA SumGrows ==
  ASSUME NEW a \in Nat, NEW b \in Nat, NEW c \in Nat, NEW d \in Nat, NEW n \in Nat
  PROVE  (a + b + c + d) + n = (a + n) + b + c + d
OBVIOUS

LEMMA CountStep ==
  ASSUME Inv, TypeOK', HeldInDelivery', [Next]_vars
  PROVE  PendingIsOutstanding' /\ NoNewRequests
<1> DEFINE Goal == PendingIsOutstanding' /\ NoNewRequests
<1> SUFFICES Goal
  OBVIOUS
<1>0. /\ pending_torrent_resume_data \in Nat
      /\ pending_torrent_resume_data = Outstanding
      /\ TypeOK /\ HeldInDelivery
  BY DEF Inv, TypeOK, PendingIsOutstanding
<1>a. Outstanding' = Len(requests') + InAlerts' + InHand'
                     + Len(torrent_resume_data_signal')
  BY DEF Outstanding, InAlerts, InHand
<1>1. CASE UNCHANGED <<requests, alerts, held, torrent_resume_data_signal,
                       pending_torrent_resume_data>>
  BY <1>0, <1>1, SameOutstanding DEF PendingIsOutstanding, NoNewRequests
<1>2. ASSUME save_session, ~session_stopping,
             UNCHANGED <<alerts, held, torrent_resume_data_signal>>
      PROVE  Goal
  <2>1. InAlerts' = InAlerts /\ InHand' = InHand
    BY <1>2 DEF InAlerts, InHand, ResumeAlertsIn
  <2>2. /\ Len(requests') = Len(requests) + Cardinality(InSession)
        /\ Cardinality(InSession) \in Nat
        /\ pending_torrent_resume_data' =
               pending_torrent_resume_data + Cardinality(InSession)
    BY <1>0, <1>2, SavedOutstanding
  <2>3. torrent_resume_data_signal' = torrent_resume_data_signal
    BY <1>2
  <2>4. /\ Len(requests) \in Nat /\ InAlerts \in Nat /\ InHand \in Nat
        /\ Len(torrent_resume_data_signal) \in Nat
        /\ Outstanding = Len(requests) + InAlerts + InHand
                         + Len(torrent_resume_data_signal)
    BY <1>0, OutstandingParts
  <2>5. Outstanding + Cardinality(InSession)
          = (Len(requests) + Cardinality(InSession)) + InAlerts + InHand
            + Len(torrent_resume_data_signal)
    BY <2>2, <2>4, SumGrows
  <2>6. Outstanding' = Outstanding + Cardinality(InSession)
    BY <1>a, <2>1, <2>2, <2>3, <2>5, Zenon
  <2>7. pending_torrent_resume_data' = Outstanding'
    BY <1>0, <2>2, <2>6, Zenon
  <2> QED
    BY <1>2, <2>7 DEF PendingIsOutstanding, NoNewRequests
<1>3. CASE on_torrent_resume_data_callback
  <2>1. /\ torrent_resume_data_signal # <<>>
        /\ torrent_resume_data_signal' = Tail(torrent_resume_data_signal)
        /\ pending_torrent_resume_data' = pending_torrent_resume_data - 1
        /\ UNCHANGED <<requests, alerts, held>>
    BY <1>3 DEF on_torrent_resume_data_callback, libtorrent, messages
  <2>2. Len(torrent_resume_data_signal') = Len(torrent_resume_data_signal) - 1
    BY <1>0, <2>1, HeadTailProperties DEF TypeOK
  <2>3. InAlerts' = InAlerts /\ InHand' = InHand
    BY <2>1 DEF InAlerts, InHand, ResumeAlertsIn
  <2> QED
    BY <1>0, <1>a, <2>1, <2>2, <2>3, OutstandingParts
       DEF PendingIsOutstanding, NoNewRequests
<1>4. CASE on_torrent_finished_callback
  <2>1. UNCHANGED <<alerts, held, torrent_resume_data_signal>>
    BY <1>4 DEF on_torrent_finished_callback, messages
  <2>2. CASE \E id : finish_torrent(id) /\ ~session_stopping /\ id \in unfinished
                    /\ Exists(id)
    <3>1. PICK id : /\ requests' = Append(requests, FullId(id))
                    /\ pending_torrent_resume_data' = pending_torrent_resume_data + 1
                    /\ Exists(id)
      BY <2>2 DEF finish_torrent
    <3>2. FullId(id) \in FullIds
      BY <1>0, <3>1, FullIdTyped DEF Exists
    <3>3. Len(requests') = Len(requests) + 1
      BY <1>0, <3>1, <3>2 DEF TypeOK
    <3>4. InAlerts' = InAlerts /\ InHand' = InHand
      BY <2>1 DEF InAlerts, InHand, ResumeAlertsIn
    <3>5. ~session_stopping
      BY <2>2
    <3> QED
      BY <1>0, <1>a, <2>1, <3>1, <3>3, <3>4, <3>5, OutstandingParts
         DEF PendingIsOutstanding, NoNewRequests
  <2>3. CASE UNCHANGED <<requests, pending_torrent_resume_data>>
    BY <1>1, <2>1, <2>3
  <2>4. \/ UNCHANGED <<requests, pending_torrent_resume_data>>
        \/ \E id : finish_torrent(id) /\ ~session_stopping /\ id \in unfinished
                  /\ Exists(id)
    BY <1>4 DEF on_torrent_finished_callback, finish_torrent
  <2> QED
    BY <2>2, <2>3, <2>4
<1>5. CASE AnswerRequest
  <2>1. PICK i \in DOMAIN requests, type \in ResumeAlerts :
            /\ requests' = RemoveAt(requests, i)
            /\ alerts' = Append(alerts, Alert(type, requests[i]))
    BY <1>5, Zenon DEF AnswerRequest
  <2>2. /\ Alert(type, requests[i]) \in Alerts
        /\ Alert(type, requests[i]).type \in ResumeAlerts
    BY <1>0, <2>1, EventTyped, AlertTyped DEF AlertTypes
  <2>3. InAlerts' = InAlerts + 1
    BY <1>0, <2>1, <2>2, ResumeAlertsAppend DEF InAlerts, TypeOK
  <2>4. Len(requests') = Len(requests) - 1
    BY <1>0, <2>1, RemoveAtLength DEF TypeOK
  <2>5. UNCHANGED <<held, torrent_resume_data_signal, pending_torrent_resume_data>>
    BY <1>5 DEF AnswerRequest, signals, messages
  <2>6. InHand' = InHand
    BY <2>5 DEF InHand
  <2> QED
    BY <1>0, <1>a, <2>3, <2>4, <2>5, <2>6, OutstandingParts
       DEF PendingIsOutstanding, NoNewRequests
<1>6. ASSUME NEW id \in Ids, NEW type \in AlertTypes \ ResumeAlerts, PostAlert(id, type)
      PROVE  Goal
  <2>1. /\ alerts' = Append(alerts, Alert(type, FullId(id)))
        /\ Exists(id)
        /\ UNCHANGED <<requests, held, torrent_resume_data_signal,
                       pending_torrent_resume_data>>
    BY <1>6 DEF PostAlert, signals, messages
  <2>2. /\ Alert(type, FullId(id)) \in Alerts
        /\ Alert(type, FullId(id)).type \notin ResumeAlerts
    BY <1>0, <2>1, FullIdTyped, AlertTyped DEF Exists
  <2>3. InAlerts' = InAlerts
    <3>1. alerts \in Seq(Alerts)
      BY <1>0 DEF TypeOK
    <3>2. InAlerts' = InAlerts + 0 /\ InAlerts \in Nat
      BY <1>0, <2>1, <2>2, <3>1, ResumeAlertsAppend, OutstandingParts DEF InAlerts
    <3> QED
      BY <3>2
  <2>4. InHand' = InHand
    BY <2>1 DEF InHand
  <2> QED
    BY <1>0, <1>a, <2>1, <2>3, <2>4, OutstandingParts
       DEF PendingIsOutstanding, NoNewRequests
<1>7. CASE PopAlert
  <2>1. UNCHANGED <<requests, torrent_resume_data_signal, pending_torrent_resume_data>>
    BY <1>7 DEF PopAlert, signals
  <2>2. CASE alerts = <<>>
    BY <1>1, <1>7, <2>1, <2>2 DEF PopAlert
  <2>3. CASE alerts # <<>>
    <3>1. InHand = 0
      BY <1>0, <1>7, NothingIsNoAlert DEF PopAlert, HeldInDelivery, InHand
    <3>2. held'.type = Head(alerts).type
      BY <1>0, <1>7, <2>3, EventTyped, IdOfAlert DEF PopAlert
    <3>3. alerts' = Tail(alerts)
      BY <1>7, <2>3 DEF PopAlert
    <3>4. InAlerts = InAlerts' + InHand'
      BY <1>0, <2>3, <3>2, <3>3, ResumeAlertsTail DEF TypeOK, InAlerts, InHand
    <3>5. InAlerts' \in Nat /\ InHand' \in Nat
      <4>1. alerts' \in Seq(Alerts)
        BY DEF TypeOK
      <4> QED
        BY <4>1, ResumeAlertsFinite DEF InAlerts, InHand
    <3> QED
      BY <1>0, <1>a, <2>1, <3>1, <3>4, <3>5, OutstandingParts
         DEF PendingIsOutstanding, NoNewRequests
  <2> QED
    BY <2>2, <2>3
<1>8. CASE DeliverResumeData
  <2>1. /\ torrent_resume_data_signal' = Append(torrent_resume_data_signal, held)
        /\ held.type \in ResumeAlerts
        /\ held' = Nothing
        /\ UNCHANGED <<requests, alerts, pending_torrent_resume_data>>
    BY <1>8 DEF DeliverResumeData, Delivered, libtorrent
  <2>2. held \in Alerts
    BY <1>0, <2>1, NothingIsNoAlert DEF TypeOK
  <2>3. Len(torrent_resume_data_signal') = Len(torrent_resume_data_signal) + 1
    BY <1>0, <2>1, <2>2 DEF TypeOK
  <2>4. InHand = 1 /\ InHand' = 0 /\ InAlerts' = InAlerts
    BY <2>1, NothingIsNoAlert DEF InHand, InAlerts, ResumeAlertsIn
  <2> QED
    BY <1>0, <1>a, <2>1, <2>3, <2>4, OutstandingParts
       DEF PendingIsOutstanding, NoNewRequests
<1>9. ASSUME Delivered, held.type \notin ResumeAlerts, UNCHANGED torrent_resume_data_signal
      PROVE  Goal
  <2>1. held' = Nothing /\ UNCHANGED <<requests, alerts, pending_torrent_resume_data>>
    BY <1>9 DEF Delivered, libtorrent
  <2>2. InHand = 0 /\ InHand' = 0 /\ InAlerts' = InAlerts
    BY <1>9, <2>1, NothingIsNoAlert DEF InHand, InAlerts, ResumeAlertsIn
  <2> QED
    BY <1>0, <1>a, <1>9, <2>1, <2>2, OutstandingParts
       DEF PendingIsOutstanding, NoNewRequests
<1> HIDE DEF Goal
<1>10. CASE on_save_session_callback
  BY <1>2, <1>10 DEF on_save_session_callback, signals, messages
<1>11. CASE stop
  BY <1>2, <1>11 DEF stop, signals, messages
<1>12. CASE DeliverFinished
  BY <1>9, <1>12 DEF DeliverFinished, ResumeAlerts
<1>13. CASE DeliverMetadata
  BY <1>9, <1>13 DEF DeliverMetadata, ResumeAlerts, signals
<1>14. CASE DeliverRejected
  BY <1>9, <1>14 DEF DeliverRejected, ResumeAlerts, signals
<1>15. ASSUME NEW id \in Ids, AddTorrent(id) \/ RemoveTorrent(id) \/ ChangeTorrent(id)
       PROVE  Goal
  BY <1>1, <1>15
     DEF AddTorrent, RemoveTorrent, ChangeTorrent, signals, libtorrent, messages
<1>16. CASE CheckStop \/ WaitForAlert \/ StopApplication
  BY <1>1, <1>16 DEF CheckStop, WaitForAlert, StopApplication, signals, libtorrent
<1>17. CASE Ended \/ UNCHANGED vars
  BY <1>1, <1>17 DEF Ended, vars, signals, libtorrent, messages
<1> QED
  BY <1>3, <1>4, <1>5, <1>6, <1>7, <1>8, <1>10, <1>11, <1>12, <1>13, <1>14, <1>15,
     <1>16, <1>17 DEF Next, MessagesThread

-----------------------------------------------------------------------------
(* The flag that ends the messages thread is kept. *)
LEMMA StopStep ==
  ASSUME Inv, [Next]_vars, TypeOK', PendingIsOutstanding', NoNewRequests
  PROVE  StopsWhenAllAnswered'
<1>1. /\ pending_torrent_resume_data = Outstanding
      /\ pending_torrent_resume_data' = Outstanding'
      /\ pending_torrent_resume_data \in Nat /\ pending_torrent_resume_data' \in Nat
      /\ stop_messages_thread => session_stopping /\ Outstanding = 0
  BY DEF Inv, PendingIsOutstanding, StopsWhenAllAnswered, TypeOK
<1>2. session_stopping => session_stopping'
  BY DEF Next, MessagesThread, AddTorrent, RemoveTorrent, ChangeTorrent,
         on_save_session_callback, stop, on_torrent_resume_data_callback,
         on_torrent_finished_callback, AnswerRequest, PostAlert, CheckStop,
         WaitForAlert, PopAlert, DeliverResumeData, DeliverFinished,
         DeliverMetadata, DeliverRejected, Delivered, StopApplication, Ended,
         vars, stopping
<1>3. stop_messages_thread' =>
          \/ stop_messages_thread
          \/ session_stopping' /\ pending_torrent_resume_data' = 0
  BY DEF Next, MessagesThread, AddTorrent, RemoveTorrent, ChangeTorrent,
         on_save_session_callback, stop, on_torrent_resume_data_callback,
         on_torrent_finished_callback, AnswerRequest, PostAlert, CheckStop,
         WaitForAlert, PopAlert, DeliverResumeData, DeliverFinished,
         DeliverMetadata, DeliverRejected, Delivered, StopApplication, Ended,
         vars, stopping, set_stopped_state_if_needed
<1> QED
  BY <1>1, <1>2, <1>3 DEF NoNewRequests, StopsWhenAllAnswered

THEOREM InvAlways == Spec => []Inv
<1>1. Inv /\ [Next]_vars => Inv'
  BY TypeStep, CountStep, StopStep DEF Inv
<1> QED
  BY InvInit, <1>1, PTL DEF Spec

(* Every variable of the session always has its type: above all, the counter
   of awaited answers, which is unsigned in the code, is never decremented at
   zero. *)
THEOREM TypeCorrect == Spec => []TypeOK
BY InvAlways, PTL DEF Inv

(* The counter of awaited answers is the number of answers on their way. *)
THEOREM PendingCorrect == Spec => []PendingIsOutstanding
BY InvAlways, PTL DEF Inv

(* The program is told to end only when the session is stopping and every
   answer has been written. *)
THEOREM StopCorrect == Spec => []StopsWhenAllAnswered
BY InvAlways, PTL DEF Inv
-----------------------------------------------------------------------------
(* What was changed is saved. *)

(* A sequence made of a finite set has all of its elements. *)
LEMMA SetToSeqCovers ==
  ASSUME NEW S, IsFiniteSet(S), NEW e \in S
  PROVE  \E i \in DOMAIN SetToSeq(S) : SetToSeq(S)[i] = e
<1> DEFINE n == Cardinality(S)
           f == SetToSeq(S)
<1>1. n \in Nat /\ ExistsBijection(1..n, S)
  BY FS_CardinalityType
<1>2. \E g \in [1..n -> S] : IsInjective(g)
  BY <1>1, Zenon DEF ExistsBijection, Bijection, Injection
<1>3. f \in [1..n -> S] /\ IsInjective(f)
  BY <1>2, Zenon DEF SetToSeq
<1>4. IsFiniteSet(1..n) /\ Cardinality(1..n) = n
  BY <1>1, FS_Interval
<1> HIDE DEF n, f
<1>5. f \in Injection(1..n, S)
  BY <1>3, Zenon DEF Injection
<1>6. f \in Surjection(1..n, S)
  BY <1>4, <1>5, FS_Injection DEF n
<1> QED
  BY <1>3, <1>6 DEF Surjection, f

(* Removing an element leaves the others. *)
LEMMA RemoveAtKeeps ==
  ASSUME NEW S, NEW s \in Seq(S), NEW i \in DOMAIN s, NEW j \in DOMAIN s, i # j
  PROVE  \E k \in DOMAIN RemoveAt(s, i) : RemoveAt(s, i)[k] = s[j]
<1>1. i \in 1..Len(s) /\ j \in 1..Len(s) /\ Len(s) \in Nat
  BY LenProperties
<1> DEFINE before == SubSeq(s, 1, i - 1)
           after == SubSeq(s, i + 1, Len(s))
<1>2. /\ before \in Seq(S) /\ Len(before) = i - 1
      /\ \A k \in 1..(i - 1) : before[k] = s[k]
  BY <1>1, SubSeqProperties, ElementOfSeq
<1>3. /\ after \in Seq(S) /\ Len(after) = Len(s) - i
      /\ \A k \in 1..(Len(s) - i) : after[k] = s[i + k]
  BY <1>1, SubSeqProperties, ElementOfSeq
<1> HIDE DEF before, after
<1>4. /\ before \o after \in Seq(S)
      /\ Len(before \o after) = Len(before) + Len(after)
      /\ \A k \in 1..(Len(before) + Len(after)) :
             (before \o after)[k] = IF k <= Len(before) THEN before[k]
                                    ELSE after[k - Len(before)]
  BY <1>2, <1>3, ConcatProperties
<1>5. RemoveAt(s, i) = before \o after
  BY DEF RemoveAt, before, after
<1>a. Len(before) + Len(after) = Len(s) - 1
  BY <1>1, <1>2, <1>3
<1> DEFINE c == before \o after
<1>b. c \in Seq(S) /\ Len(c) = Len(s) - 1
  BY <1>4, <1>a
<1> HIDE DEF c
<1>c. DOMAIN c = 1..(Len(s) - 1)
  BY <1>b, LenProperties
<1>6. DOMAIN (before \o after) = 1..(Len(s) - 1)
  BY <1>c DEF c
<1>7. CASE j < i
  <2>a. j \in 1..(i - 1) /\ j \in 1..(Len(s) - 1) /\ j <= i - 1
    BY <1>1, <1>7
  <2>b. j \in 1..(Len(before) + Len(after)) /\ j <= Len(before)
    BY <1>2, <1>a, <2>a
  <2>c. (before \o after)[j] = before[j]
    BY <1>4, <2>b
  <2>1. j \in 1..(Len(s) - 1) /\ (before \o after)[j] = s[j]
    BY <1>2, <2>a, <2>c
  <2> QED
    BY <1>5, <1>6, <2>1
<1>8. CASE j > i
  <2> DEFINE k == j - 1
  <2>1. k \in 1..(Len(s) - 1) /\ ~(k <= i - 1) /\ k - (i - 1) \in 1..(Len(s) - i)
        /\ i + (k - (i - 1)) = j
    BY <1>1, <1>8
  <2>2. (before \o after)[k] = after[k - (i - 1)]
    BY <1>2, <1>4, <1>a, <2>1
  <2>3. after[k - (i - 1)] = s[j]
    BY <1>3, <2>1
  <2> QED
    BY <1>5, <1>6, <2>1, <2>2, <2>3
<1> QED
  BY <1>1, <1>7, <1>8, i # j

(* An answer about this very torrent is on its way, ... *)
Own(e, id) == e.id = id /\ e.serial = torrents[id]
Awaited(id) ==
    \/ \E i \in DOMAIN requests : Own(requests[i], id)
    \/ \E i \in DOMAIN alerts : alerts[i].type \in ResumeAlerts /\ Own(alerts[i], id)
    \/ held.type \in ResumeAlerts /\ Own(held, id)
    \/ \E i \in DOMAIN torrent_resume_data_signal : Own(torrent_resume_data_signal[i], id)

(* ... when the session is stopping, if something is left to be saved. *)
SavedOrAwaited ==
    /\ changed \subseteq InSession
    /\ session_stopping => \A id \in changed \ excused : Awaited(id)
    /\ thread = "leave" \/ app = "stopped" => stop_messages_thread

LEMMA AwaitedKept ==
  ASSUME NEW id, Awaited(id), torrents'[id] = torrents[id],
         UNCHANGED <<requests, alerts, held, torrent_resume_data_signal>>
  PROVE  Awaited(id)'
BY DEF Awaited, Own

LEMMA StopAwaits ==
  ASSUME TypeOK, changed \subseteq InSession, stop
  PROVE  \A id \in changed' : Awaited(id)'
<1> DEFINE S == {FullId(id) : id \in InSession}
           q == SetToSeq(S)
<1> SUFFICES ASSUME NEW id \in changed' PROVE Awaited(id)'
  OBVIOUS
<1>1. id \in InSession /\ torrents'[id] = torrents[id]
  BY DEF stop, session
<1>2. FullId(id) \in S
  BY <1>1
<1>3. IsFiniteSet(S)
  BY RequestsTyped
<1>4. q \in Seq(FullIds) /\ requests \in Seq(FullIds) /\ requests' = requests \o q
  BY RequestsTyped DEF TypeOK, stop, save_session
<1> HIDE DEF S
<1>5. PICK i \in DOMAIN q : q[i] = FullId(id)
  BY <1>2, <1>3, SetToSeqCovers
<1> HIDE DEF q
<1>6. /\ i \in 1..Len(q) /\ Len(q) \in Nat /\ Len(requests) \in Nat
      /\ DOMAIN requests' = 1..(Len(requests) + Len(q))
      /\ \A k \in 1..(Len(requests) + Len(q)) :
             requests'[k] = IF k <= Len(requests) THEN requests[k]
                            ELSE q[k - Len(requests)]
  BY <1>4, <1>5, ConcatProperties, LenProperties
<1>7. /\ Len(requests) + i \in DOMAIN requests'
      /\ requests'[Len(requests) + i] = FullId(id)
  <2>1. /\ Len(requests) + i \in 1..(Len(requests) + Len(q))
        /\ ~(Len(requests) + i <= Len(requests))
        /\ (Len(requests) + i) - Len(requests) = i
    BY <1>6
  <2> QED
    BY <1>5, <1>6, <2>1
<1> QED
  BY <1>1, <1>7 DEF Awaited, Own, FullId

LEMMA SavedStep ==
  ASSUME Inv, SavedOrAwaited, [Next]_vars, session_stopping,
         NEW id \in changed \ excused, id \in changed' \ excused'
  PROVE  Awaited(id)'
<1>0. Awaited(id) /\ id \in InSession /\ TypeOK /\ HeldInDelivery
  BY DEF SavedOrAwaited, Inv
<1>a. torrents \in [Ids -> 0..MaxSerial] /\ id \in Ids /\ torrents[id] # 0
  BY <1>0 DEF TypeOK, InSession
<1>1. CASE UNCHANGED <<torrents, requests, alerts, held, torrent_resume_data_signal>>
  BY <1>0, <1>1, AwaitedKept
<1>2. ASSUME NEW x \in Ids, AddTorrent(x) PROVE Awaited(id)'
  <2>1. x # id
    BY <1>0, <1>2 DEF AddTorrent, Exists
  <2>2. torrents'[id] = torrents[id]
    BY <1>2, <1>a, <2>1 DEF AddTorrent
  <2> QED
    BY <1>0, <1>2, <2>2, AwaitedKept DEF AddTorrent, signals, messages
<1>3. ASSUME NEW x \in Ids, RemoveTorrent(x) PROVE Awaited(id)'
  <2>1. x # id
    BY <1>3 DEF RemoveTorrent
  <2>2. torrents'[id] = torrents[id]
    BY <1>3, <1>a, <2>1 DEF RemoveTorrent
  <2> QED
    BY <1>0, <1>3, <2>2, AwaitedKept DEF RemoveTorrent, signals, libtorrent, messages
<1>4. CASE on_torrent_resume_data_callback
  <2> DEFINE q == torrent_resume_data_signal
  <2>1. /\ q # <<>> /\ q' = Tail(q) /\ q \in Seq(Alerts)
        /\ UNCHANGED <<torrents, requests, alerts, held>>
        /\ save_torrent_settings_if_exists(Head(q))
    BY <1>0, <1>4 DEF on_torrent_resume_data_callback, libtorrent, messages, TypeOK
  <2>2. ~Own(Head(q), id)
    BY <1>0, <2>1 DEF Own, save_torrent_settings_if_exists, Exists
  <2>3. CASE \E i \in DOMAIN q : Own(q[i], id)
    <3>1. PICK i \in DOMAIN q : Own(q[i], id)
      BY <2>3
    <3>2. i \in 1..Len(q) /\ Len(q) \in Nat
      BY <2>1, LenProperties
    <3>3. Head(q) = q[1] /\ i # 1
      BY <2>1, <2>2, <3>1, HeadTailProperties
    <3>4. /\ DOMAIN Tail(q) = 1..(Len(q) - 1)
          /\ \A k \in 1..(Len(q) - 1) : Tail(q)[k] = q[k + 1]
      BY <2>1, <3>2, HeadTailProperties, LenProperties
    <3>5. i - 1 \in DOMAIN q' /\ q'[i - 1] = q[i]
      BY <2>1, <3>2, <3>3, <3>4
    <3> QED
      BY <2>1, <3>1, <3>5 DEF Awaited, Own
  <2>4. CASE ~\E i \in DOMAIN q : Own(q[i], id)
    BY <1>0, <2>1, <2>4 DEF Awaited, Own
  <2> QED
    BY <2>3, <2>4
<1>5. CASE AnswerRequest
  <2>1. PICK i \in DOMAIN requests, type \in ResumeAlerts :
            /\ requests' = RemoveAt(requests, i)
            /\ alerts' = Append(alerts, Alert(type, requests[i]))
    BY <1>5, Zenon DEF AnswerRequest
  <2>2. UNCHANGED <<torrents, held, torrent_resume_data_signal>>
    BY <1>5 DEF AnswerRequest, session, signals, messages
  <2>3. alerts \in Seq(Alerts) /\ requests \in Seq(FullIds)
    BY <1>0 DEF TypeOK
  <2>4. /\ DOMAIN alerts' = 1..(Len(alerts) + 1) /\ Len(alerts) \in Nat
        /\ \A k \in 1..Len(alerts) : alerts'[k] = alerts[k]
        /\ alerts'[Len(alerts) + 1] = Alert(type, requests[i])
    BY <2>1, <2>3
  <2>5. ASSUME NEW j \in DOMAIN requests, Own(requests[j], id) PROVE Awaited(id)'
    <3>1. CASE j = i
      <4>1. Len(alerts) + 1 \in DOMAIN alerts'
        BY <2>4
      <4>2. LET a == alerts'[Len(alerts) + 1]
            IN a.type \in ResumeAlerts /\ a.id = id /\ a.serial = torrents'[id]
        BY <2>2, <2>4, <2>5, <3>1 DEF Alert, Own
      <4> QED
        BY <4>1, <4>2 DEF Awaited, Own
    <3>2. CASE j # i
      <4>1. \E k \in DOMAIN requests' : requests'[k] = requests[j]
        BY <2>1, <2>3, <3>2, RemoveAtKeeps
      <4> QED
        BY <2>2, <2>5, <4>1 DEF Awaited, Own
    <3> QED
      BY <3>1, <3>2
  <2>6. ASSUME NEW j \in DOMAIN alerts, alerts[j].type \in ResumeAlerts, Own(alerts[j], id)
        PROVE  Awaited(id)'
    <3>1. j \in DOMAIN alerts' /\ alerts'[j] = alerts[j]
      BY <2>3, <2>4, LenProperties
    <3> QED
      BY <2>2, <2>6, <3>1 DEF Awaited, Own
  <2>7. CASE \/ held.type \in ResumeAlerts /\ Own(held, id)
             \/ \E k \in DOMAIN torrent_resume_data_signal :
                    Own(torrent_resume_data_signal[k], id)
    BY <2>2, <2>7 DEF Awaited, Own
  <2> QED
    BY <1>0, <2>5, <2>6, <2>7 DEF Awaited
<1>6. CASE PopAlert
  <2>1. UNCHANGED <<torrents, requests, torrent_resume_data_signal>>
    BY <1>6 DEF PopAlert, session, signals
  <2>2. CASE alerts = <<>>
    BY <1>0, <1>6, <2>1, <2>2, AwaitedKept DEF PopAlert
  <2>3. CASE alerts # <<>>
    <3>1. alerts \in Seq(Alerts) /\ alerts' = Tail(alerts) /\ Head(alerts) \in Alerts
      BY <1>0, <1>6, <2>3, EventTyped DEF PopAlert, TypeOK
    <3>2. held.type \notin ResumeAlerts
      BY <1>0, <1>6, NothingIsNoAlert DEF PopAlert, HeldInDelivery
    <3>3. ASSUME NEW i \in DOMAIN alerts, alerts[i].type \in ResumeAlerts, Own(alerts[i], id)
          PROVE  Awaited(id)'
      <4>1. /\ i \in 1..Len(alerts) /\ Len(alerts) \in Nat /\ Head(alerts) = alerts[1]
            /\ DOMAIN Tail(alerts) = 1..(Len(alerts) - 1)
            /\ \A k \in 1..(Len(alerts) - 1) : Tail(alerts)[k] = alerts[k + 1]
        BY <2>3, <3>1, HeadTailProperties, LenProperties
      <4>2. CASE i = 1
        <5>1. PICK x \in HandleIds(Head(alerts)) : held' = [Head(alerts) EXCEPT !.id = x]
          BY <1>6, <2>3, <3>3, <4>1, <4>2 DEF PopAlert
        <5>2. x = id
          BY <3>3, <4>1, <4>2, <5>1, <1>a, DaemonSessionAssumption
             DEF HandleIds, Own, DaemonSessionAssumption
        <5>3. held' = Head(alerts)
          BY <3>1, <3>3, <4>1, <4>2, <5>1, <5>2 DEF Own, Alerts
        <5> QED
          BY <2>1, <3>3, <4>1, <4>2, <5>3 DEF Awaited, Own
      <4>3. CASE i # 1
        <5>1. i - 1 \in DOMAIN alerts' /\ alerts'[i - 1] = alerts[i]
          BY <3>1, <4>1, <4>3
        <5> QED
          BY <2>1, <3>3, <5>1 DEF Awaited, Own
      <4> QED
        BY <4>2, <4>3
    <3>4. CASE \/ \E i \in DOMAIN requests : Own(requests[i], id)
               \/ \E i \in DOMAIN torrent_resume_data_signal :
                      Own(torrent_resume_data_signal[i], id)
      BY <2>1, <3>4 DEF Awaited, Own
    <3> QED
      BY <1>0, <3>2, <3>3, <3>4 DEF Awaited
  <2> QED
    BY <2>2, <2>3
<1>7. CASE DeliverResumeData
  <2> DEFINE q == torrent_resume_data_signal
  <2>1. /\ q' = Append(q, held) /\ held' = Nothing /\ held \in Alerts
        /\ UNCHANGED <<torrents, requests, alerts>>
    BY <1>0, <1>7, NothingIsNoAlert DEF DeliverResumeData, Delivered, libtorrent, TypeOK
  <2>2. /\ q \in Seq(Alerts) /\ Len(q) \in Nat /\ DOMAIN q = 1..Len(q)
        /\ DOMAIN q' = 1..(Len(q) + 1) /\ q'[Len(q) + 1] = held
        /\ \A k \in 1..Len(q) : q'[k] = q[k]
    <3>1. q \in Seq(Alerts)
      BY <1>0 DEF TypeOK
    <3> QED
      BY <2>1, <3>1
  <2>3. CASE Own(held, id)
    <3>1. Len(q) + 1 \in DOMAIN q'
      BY <2>2
    <3> QED
      BY <2>1, <2>2, <2>3, <3>1 DEF Awaited, Own
  <2>4. CASE \E i \in DOMAIN q : Own(q[i], id)
    <3>1. PICK i \in DOMAIN q : Own(q[i], id)
      BY <2>4
    <3>2. i \in DOMAIN q' /\ q'[i] = q[i]
      BY <2>2
    <3> QED
      BY <2>1, <3>1, <3>2 DEF Awaited, Own
  <2>5. CASE \/ \E i \in DOMAIN requests : Own(requests[i], id)
             \/ \E i \in DOMAIN alerts : alerts[i].type \in ResumeAlerts /\ Own(alerts[i], id)
    BY <2>1, <2>5 DEF Awaited, Own
  <2> QED
    BY <1>0, <2>3, <2>4, <2>5 DEF Awaited
<1>8. ASSUME Delivered, held.type \notin ResumeAlerts, UNCHANGED torrent_resume_data_signal
      PROVE  Awaited(id)'
  BY <1>0, <1>8 DEF Delivered, libtorrent, Awaited, Own
<1>9. CASE DeliverFinished
  BY <1>8, <1>9 DEF DeliverFinished, ResumeAlerts
<1>10. CASE DeliverMetadata
  BY <1>8, <1>10 DEF DeliverMetadata, ResumeAlerts, signals
<1>11. CASE DeliverRejected
  BY <1>8, <1>11 DEF DeliverRejected, ResumeAlerts, signals
<1>12. CASE on_torrent_finished_callback
  BY <1>1, <1>12 DEF on_torrent_finished_callback, messages
<1>13. ASSUME NEW x \in Ids, ChangeTorrent(x) PROVE Awaited(id)'
  BY <1>1, <1>13 DEF ChangeTorrent, signals, libtorrent, messages
<1>14. CASE CheckStop \/ WaitForAlert \/ StopApplication
  BY <1>1, <1>14 DEF CheckStop, WaitForAlert, StopApplication, session, signals, libtorrent
<1>15. CASE Ended \/ UNCHANGED vars
  BY <1>1, <1>15 DEF Ended, vars, session, signals, libtorrent, messages
<1>16. ASSUME NEW x \in Ids, NEW type, PostAlert(x, type) PROVE FALSE
  BY <1>16 DEF PostAlert
<1>17. ~on_save_session_callback /\ ~stop
  BY DEF on_save_session_callback, stop
<1> QED
  BY <1>2, <1>3, <1>4, <1>5, <1>6, <1>7, <1>9, <1>10, <1>11, <1>12, <1>13, <1>14,
     <1>15, <1>16, <1>17 DEF Next, MessagesThread

(* Nothing new has to be saved once the session is stopping. *)
LEMMA NothingNewToSave ==
  ASSUME [Next]_vars, session_stopping
  PROVE  changed' \ excused' \subseteq changed \ excused
<1>1. CASE on_torrent_resume_data_callback
  BY <1>1 DEF on_torrent_resume_data_callback, save_torrent_settings_if_exists
<1>2. CASE on_torrent_finished_callback
  BY <1>2 DEF on_torrent_finished_callback
<1>3. ASSUME NEW id \in Ids, AddTorrent(id) \/ RemoveTorrent(id) \/ ChangeTorrent(id)
      PROVE  changed' \ excused' \subseteq changed \ excused
  BY <1>3 DEF AddTorrent, RemoveTorrent, ChangeTorrent
<1>4. CASE UNCHANGED <<changed, excused>>
  BY <1>4
<1>5. CASE MessagesThread \/ AnswerRequest \/ Ended \/ UNCHANGED vars
           \/ on_save_session_callback \/ stop
           \/ \E id \in Ids, type \in AlertTypes \ ResumeAlerts : PostAlert(id, type)
  BY <1>4, <1>5
     DEF MessagesThread, CheckStop, WaitForAlert, PopAlert, DeliverResumeData,
         DeliverFinished, DeliverMetadata, DeliverRejected, Delivered,
         StopApplication, AnswerRequest, Ended, vars, session, on_save_session_callback,
         stop, PostAlert
<1> QED
  BY <1>1, <1>2, <1>3, <1>5 DEF Next

(* Only a torrent of the session can have been changed. *)
LEMMA ChangedStep ==
  ASSUME Inv, changed \subseteq InSession, [Next]_vars
  PROVE  changed' \subseteq InSession'
<1>0. changed \subseteq Ids /\ torrents \in [Ids -> 0..MaxSerial]
      /\ torrents_serial_numbers \in [Ids -> 0..MaxSerial] /\ MaxSerial \in Nat
  BY MaxSerialNat DEF Inv, TypeOK
<1>1. ASSUME NEW id \in Ids, AddTorrent(id) PROVE changed' \subseteq InSession'
  BY <1>0, <1>1 DEF AddTorrent, InSession
<1>2. ASSUME NEW id \in Ids, RemoveTorrent(id) PROVE changed' \subseteq InSession'
  BY <1>0, <1>2 DEF RemoveTorrent, InSession
<1>3. ASSUME NEW id \in Ids, ChangeTorrent(id) PROVE changed' \subseteq InSession'
  BY <1>3 DEF ChangeTorrent, InSession, Exists
<1>4. CASE on_torrent_resume_data_callback
  BY <1>4 DEF on_torrent_resume_data_callback, save_torrent_settings_if_exists, InSession
<1>5. CASE on_torrent_finished_callback
  BY <1>5 DEF on_torrent_finished_callback, finish_torrent, InSession, Exists
<1>6. CASE MessagesThread \/ AnswerRequest \/ Ended \/ UNCHANGED vars
           \/ on_save_session_callback \/ stop
           \/ \E id \in Ids, type \in AlertTypes \ ResumeAlerts : PostAlert(id, type)
  <2>1. UNCHANGED <<changed, torrents>>
    BY <1>6
       DEF MessagesThread, CheckStop, WaitForAlert, PopAlert, DeliverResumeData,
           DeliverFinished, DeliverMetadata, DeliverRejected, Delivered,
           StopApplication, AnswerRequest, Ended, vars, session, on_save_session_callback,
           stop, PostAlert
  <2> QED
    BY <2>1 DEF InSession
<1> QED
  BY <1>1, <1>2, <1>3, <1>4, <1>5, <1>6 DEF Next

(* The messages thread leaves only because it was told to. *)
LEMMA LeaveStep ==
  ASSUME [Next]_vars, thread = "leave" \/ app = "stopped" => stop_messages_thread
  PROVE  (thread = "leave" \/ app = "stopped" => stop_messages_thread)'
<1>1. stop_messages_thread => stop_messages_thread'
  BY DEF Next, MessagesThread, AddTorrent, RemoveTorrent, ChangeTorrent,
         on_save_session_callback, stop, on_torrent_resume_data_callback,
         on_torrent_finished_callback, AnswerRequest, PostAlert, CheckStop,
         WaitForAlert, PopAlert, DeliverResumeData, DeliverFinished,
         DeliverMetadata, DeliverRejected, Delivered, StopApplication, Ended,
         vars, stopping, set_stopped_state_if_needed
<1>2. (thread = "leave" \/ app = "stopped")' =>
          thread = "leave" \/ app = "stopped" \/ stop_messages_thread
  <2>1. CASE CheckStop
    BY <2>1 DEF CheckStop
  <2>2. CASE WaitForAlert \/ PopAlert \/ StopApplication
    BY <2>2 DEF WaitForAlert, PopAlert, StopApplication
  <2>3. CASE DeliverResumeData \/ DeliverFinished \/ DeliverMetadata \/ DeliverRejected
    <3>1. thread' = "pop"
      BY <2>3 DEF DeliverResumeData, DeliverFinished, DeliverMetadata, DeliverRejected,
                  Delivered
    <3>2. app' = "stopped" => app = "stopped"
      <4>1. app' \in {app, "aborted"}
        BY <2>3 DEF DeliverResumeData, DeliverFinished, DeliverMetadata, DeliverRejected
      <4> QED
        BY <4>1
    <3> QED
      BY <3>1, <3>2
  <2>4. CASE UNCHANGED <<thread, app>>
    BY <2>4
  <2>5. CASE \/ \E id \in Ids : AddTorrent(id) \/ RemoveTorrent(id) \/ ChangeTorrent(id)
             \/ on_save_session_callback \/ stop \/ on_torrent_resume_data_callback
             \/ on_torrent_finished_callback \/ AnswerRequest
             \/ \E id \in Ids, type \in AlertTypes \ ResumeAlerts : PostAlert(id, type)
             \/ Ended \/ UNCHANGED vars
    BY <2>4, <2>5
       DEF AddTorrent, RemoveTorrent, ChangeTorrent, on_save_session_callback, stop,
           on_torrent_resume_data_callback, on_torrent_finished_callback,
           AnswerRequest, PostAlert, Ended, vars, messages
  <2> QED
    BY <2>1, <2>2, <2>3, <2>5 DEF Next, MessagesThread
<1> QED
  BY <1>1, <1>2

LEMMA SavedOrAwaitedStep ==
  ASSUME Inv, SavedOrAwaited, [Next]_vars
  PROVE  SavedOrAwaited'
<1>1. changed' \subseteq InSession'
  BY ChangedStep DEF SavedOrAwaited
<1>2. (thread = "leave" \/ app = "stopped" => stop_messages_thread)'
  BY LeaveStep DEF SavedOrAwaited
<1>3. ASSUME session_stopping', NEW id \in changed' \ excused' PROVE Awaited(id)'
  <2>1. CASE session_stopping
    BY <1>3, <2>1, NothingNewToSave, SavedStep
  <2>2. CASE ~session_stopping
    <3>1. stop
      BY <1>3, <2>2
         DEF Next, MessagesThread, AddTorrent, RemoveTorrent, ChangeTorrent,
             on_save_session_callback, on_torrent_resume_data_callback,
             on_torrent_finished_callback, AnswerRequest, PostAlert, CheckStop,
             WaitForAlert, PopAlert, DeliverResumeData, DeliverFinished,
             DeliverMetadata, DeliverRejected, Delivered, StopApplication, Ended,
             vars, stopping
    <3> QED
      BY <1>3, <3>1, StopAwaits DEF Inv, SavedOrAwaited
  <2> QED
    BY <2>1, <2>2
<1> QED
  BY <1>1, <1>2, <1>3 DEF SavedOrAwaited

(* When no answer is outstanding, none is awaited. *)
LEMMA NoneAwaited ==
  ASSUME TypeOK, Outstanding = 0
  PROVE  \A id : ~Awaited(id)
<1>1. Len(requests) = 0 /\ InAlerts = 0 /\ InHand = 0 /\ Len(torrent_resume_data_signal) = 0
  BY OutstandingParts
<1>2. /\ requests \in Seq(FullIds) /\ torrent_resume_data_signal \in Seq(Alerts)
      /\ alerts \in Seq(Alerts)
  BY DEF TypeOK
<1>3. DOMAIN requests = {} /\ DOMAIN torrent_resume_data_signal = {}
  BY <1>1, <1>2
<1>4. ResumeAlertsIn(alerts) = {}
  BY <1>1, <1>2, ResumeAlertsFinite, FS_EmptySet DEF InAlerts
<1>5. held.type \notin ResumeAlerts
  BY <1>1 DEF InHand
<1> QED
  BY <1>3, <1>4, <1>5 DEF Awaited, ResumeAlertsIn

(* A program that has ended by stop() has saved what was changed, for any
   torrents: while the session is stopping, what is not saved is awaited. *)
THEOREM SavedCorrect == Spec => []ChangesSaved
<1>1. Init => SavedOrAwaited
  BY DEF Init, SavedOrAwaited, InSession
<1>2. Inv /\ SavedOrAwaited /\ [Next]_vars => SavedOrAwaited'
  BY SavedOrAwaitedStep
<1>3. Inv /\ SavedOrAwaited => ChangesSaved
  <2> SUFFICES ASSUME Inv, SavedOrAwaited, app = "stopped" PROVE changed \subseteq excused
    BY DEF ChangesSaved
  <2>1. session_stopping /\ Outstanding = 0 /\ TypeOK
    BY DEF SavedOrAwaited, Inv, StopsWhenAllAnswered
  <2> QED
    BY <2>1, NoneAwaited DEF SavedOrAwaited
<1> QED
  BY <1>1, <1>2, <1>3, InvAlways, PTL DEF Spec
=============================================================================
