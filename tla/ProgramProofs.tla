---------------------------- MODULE ProgramProofs ----------------------------
(***************************************************************************)
(* Any number of processes, threads, messages and sessions.  Of the queue  *)
(* of messages: none is forgotten, and they are shown once, in order.  Of  *)
(* the processes: whoever runs an Application is the owner and the link    *)
(* leads to it, and the answers about options are true.  Of the creation   *)
(* of a torrent: what the user is told at its end is true.                 *)
(***************************************************************************)
EXTENDS CreateTorrent, SequenceTheorems, TLAPS

-----------------------------------------------------------------------------
(* The queue of messages.  NoMessageForgotten is inductive with the types:  *)
(* only who finds the queue empty signals, and only a dialog or a signal on *)
(* its way ever leaves messages in the queue.                               *)

(* The queue holds the messages added and not shown, in order. *)
Numbered ==
    /\ life = "destroyed" => messages = <<>>
    /\ life # "destroyed" =>
           /\ added = shown + Len(messages)
           /\ \A i \in 1..Len(messages) : messages[i] = shown + i

IInv == TypeOK /\ NoMessageForgotten /\ Numbered

(* What its process does to the queue besides: it ends, it uses an Application
   that is no more, or it announces a torrent that has been created. *)
Dies == /\ life' = "destroyed" /\ messages' = <<>> /\ dialog' = FALSE
        /\ UNCHANGED <<signals, thread, main, added, shown>>

Overtaken == /\ life = "destroyed" /\ main' = "failed"
             /\ UNCHANGED <<life, messages, dialog, signals, thread, added, shown>>

Announced == /\ life = "running" /\ added < MaxMessages
             /\ added' = added + 1 /\ messages' = Append(messages, added')
             /\ signals' = IF messages = <<>> THEN signals + 1 ELSE signals
             /\ UNCHANGED <<life, dialog, thread, main, shown>>

QueueStep == [Next]_vars \/ Dies \/ Overtaken \/ Announced

LEMMA InitIInv == Init => IInv
<1> SUFFICES ASSUME Init PROVE IInv
  OBVIOUS
<1>1. TypeOK
  <2>1. <<>> \in Seq(1..MaxMessages)
    BY EmptySeq
  <2>2. 0 \in 0..MaxMessages
    BY QueueAssumption DEF QueueAssumption
  <2> QED
    BY <2>1, <2>2 DEF Init, TypeOK
<1> QED
  BY <1>1 DEF Init, IInv, NoMessageForgotten, Numbered

(* The head and the tail of the queue, as ShowNextMessage takes them. *)
LEMMA ShowType ==
  ASSUME TypeOK, ShowNextMessage
  PROVE  /\ messages' \in Seq(1..MaxMessages) /\ dialog' \in BOOLEAN
         /\ shown' \in 0..MaxMessages
         /\ messages' # <<>> => dialog'
<1>1. CASE messages = <<>>
  BY <1>1 DEF TypeOK, ShowNextMessage
<1>2. CASE messages # <<>>
  <2>1. Head(messages) \in 1..MaxMessages /\ Tail(messages) \in Seq(1..MaxMessages)
    BY <1>2, HeadTailProperties DEF TypeOK
  <2>2. Head(messages) \in 0..MaxMessages
    BY <2>1, QueueAssumption DEF QueueAssumption
  <2> QED
    BY <1>2, <2>1, <2>2 DEF ShowNextMessage
<1> QED
  BY <1>1, <1>2

LEMMA ShowNumbered ==
  ASSUME TypeOK, Numbered, life = "running", ShowNextMessage, UNCHANGED <<life, added>>
  PROVE  Numbered'
<1>1. CASE messages = <<>>
  BY <1>1 DEF ShowNextMessage, Numbered
<1>2. CASE messages # <<>>
  <2>1. Len(messages) \in Nat \ {0} /\ Head(messages) = messages[1]
    BY <1>2 DEF TypeOK
  <2>2. shown' = shown + 1
    BY <1>2, <2>1 DEF ShowNextMessage, Numbered
  <2>3. /\ Len(messages') = Len(messages) - 1
        /\ \A i \in 1..Len(messages') : messages'[i] = messages[i + 1]
    BY <1>2, <2>1 DEF ShowNextMessage, TypeOK
  <2>4. ASSUME NEW i \in 1..Len(messages') PROVE messages'[i] = shown' + i
    <3>1. i + 1 \in 1..Len(messages)
      BY <2>1, <2>3
    <3> QED
      BY <2>2, <2>3, <3>1 DEF Numbered, TypeOK
  <2> QED
    BY <2>1, <2>2, <2>3, <2>4 DEF Numbered, TypeOK
<1> QED
  BY <1>1, <1>2

LEMMA StepTypeOK == TypeOK /\ QueueStep => TypeOK'
<1> SUFFICES ASSUME TypeOK, QueueStep PROVE TypeOK'
  OBVIOUS
<1> USE QueueAssumption DEF QueueAssumption
<1>1. CASE Connect
  BY <1>1 DEF TypeOK, Connect
<1>2. ASSUME NEW t \in Threads, Warn(t) PROVE TypeOK'
  BY <1>2 DEF TypeOK, Warn
<1>3. ASSUME NEW t \in Threads, AddMessage(t) PROVE TypeOK'
  <2>1. added' \in 1..MaxMessages
    BY <1>3 DEF TypeOK, AddMessage
  <2>2. messages' \in Seq(1..MaxMessages)
    BY <1>3, <2>1 DEF TypeOK, AddMessage
  <2> QED
    BY <1>3, <2>1, <2>2 DEF TypeOK, AddMessage
<1>4. ASSUME NEW t \in Threads, AddTooLate(t) PROVE TypeOK'
  BY <1>4 DEF TypeOK, AddTooLate
<1>5. ASSUME NEW t \in Threads, Signal(t) PROVE TypeOK'
  BY <1>5 DEF TypeOK, Signal
<1>6. CASE ReadSignal
  BY <1>6 DEF TypeOK, ReadSignal
<1>7. CASE OnMessage
  <2>1. CASE dialog
    BY <1>7, <2>1 DEF TypeOK, OnMessage
  <2>2. CASE ~dialog
    BY <1>7, <2>2, ShowType DEF TypeOK, OnMessage
  <2> QED
    BY <2>1, <2>2
<1>8. CASE OnMessageTooLate
  BY <1>8 DEF TypeOK, OnMessageTooLate
<1>9. CASE OnResponse
  BY <1>9, ShowType DEF TypeOK, OnResponse
<1>10. CASE Destroy
  BY <1>10, EmptySeq DEF TypeOK, Destroy
<1>11. CASE UNCHANGED vars
  BY <1>11 DEF TypeOK, vars
<1>12. CASE Dies
  BY <1>12, EmptySeq DEF TypeOK, Dies
<1>13. CASE Overtaken
  BY <1>13 DEF TypeOK, Overtaken
<1>14. CASE Announced
  <2>1. added' \in 1..MaxMessages
    BY <1>14 DEF TypeOK, Announced
  <2>2. messages' \in Seq(1..MaxMessages)
    BY <1>14, <2>1 DEF TypeOK, Announced
  <2> QED
    BY <1>14, <2>1, <2>2 DEF TypeOK, Announced
<1> QED
  BY <1>1, <1>2, <1>3, <1>4, <1>5, <1>6, <1>7, <1>8, <1>9, <1>10, <1>11, <1>12,
     <1>13, <1>14
  DEF QueueStep, Next, MainLoop, Thread

(* A signal is taken only when what it stands for is looked at. *)
LEMMA StepForgotten == TypeOK /\ NoMessageForgotten /\ QueueStep => NoMessageForgotten'
<1> SUFFICES ASSUME TypeOK, NoMessageForgotten, QueueStep PROVE NoMessageForgotten'
  OBVIOUS
<1>1. CASE Connect
  BY <1>1 DEF NoMessageForgotten, Connect
<1>2. ASSUME NEW t \in Threads, Warn(t) PROVE NoMessageForgotten'
  BY <1>2 DEF TypeOK, NoMessageForgotten, Warn
<1>3. ASSUME NEW t \in Threads, AddMessage(t) PROVE NoMessageForgotten'
  <2>1. CASE messages = <<>>
    <3>1. thread'[t] = "signal"
      BY <1>3, <2>1 DEF TypeOK, AddMessage
    <3> QED
      BY <3>1 DEF NoMessageForgotten
  <2>2. CASE messages # <<>>
    BY <1>3, <2>2 DEF TypeOK, NoMessageForgotten, AddMessage
  <2> QED
    BY <2>1, <2>2
<1>4. ASSUME NEW t \in Threads, AddTooLate(t) PROVE NoMessageForgotten'
  BY <1>4 DEF NoMessageForgotten, AddTooLate
<1>5. ASSUME NEW t \in Threads, Signal(t) PROVE NoMessageForgotten'
  BY <1>5 DEF TypeOK, NoMessageForgotten, Signal
<1>6. CASE ReadSignal
  BY <1>6 DEF TypeOK, NoMessageForgotten, ReadSignal
<1>7. CASE OnMessage
  <2>1. CASE dialog
    BY <1>7, <2>1 DEF NoMessageForgotten, OnMessage
  <2>2. CASE ~dialog
    BY <1>7, <2>2, ShowType DEF NoMessageForgotten, OnMessage
  <2> QED
    BY <2>1, <2>2
<1>8. CASE OnMessageTooLate
  BY <1>8 DEF NoMessageForgotten, OnMessageTooLate
<1>9. CASE OnResponse
  BY <1>9, ShowType DEF NoMessageForgotten, OnResponse
<1>10. CASE Destroy
  BY <1>10 DEF NoMessageForgotten, Destroy
<1>11. CASE UNCHANGED vars
  BY <1>11 DEF NoMessageForgotten, vars
<1>12. CASE Dies \/ Overtaken
  BY <1>12 DEF NoMessageForgotten, Dies, Overtaken
<1>13. CASE Announced
  BY <1>13 DEF TypeOK, NoMessageForgotten, Announced
<1> QED
  BY <1>1, <1>2, <1>3, <1>4, <1>5, <1>6, <1>7, <1>8, <1>9, <1>10, <1>11, <1>12,
     <1>13
  DEF QueueStep, Next, MainLoop, Thread

LEMMA AddNumbered ==
  ASSUME TypeOK, Numbered, life # "destroyed", added' = added + 1,
         messages' = Append(messages, added'), UNCHANGED <<life, shown>>
  PROVE  Numbered'
<1>1. /\ Len(messages') = Len(messages) + 1
      /\ \A i \in 1..Len(messages) : messages'[i] = messages[i]
      /\ messages'[Len(messages) + 1] = added + 1
  BY DEF TypeOK
<1>2. added = shown + Len(messages)
  BY DEF Numbered
<1>3. Len(messages) \in Nat /\ shown \in Nat
  BY DEF TypeOK
<1>4. ASSUME NEW i \in 1..Len(messages') PROVE messages'[i] = shown' + i
  <2>1. CASE i = Len(messages) + 1
    BY <1>1, <1>2, <1>3, <2>1
  <2>2. CASE i # Len(messages) + 1
    <3>1. i \in 1..Len(messages)
      BY <1>1, <1>3, <2>2
    <3> QED
      BY <1>1, <3>1 DEF Numbered
  <2> QED
    BY <2>1, <2>2
<1> QED
  BY <1>1, <1>2, <1>3, <1>4 DEF Numbered

LEMMA StepNumbered == TypeOK /\ Numbered /\ QueueStep => Numbered'
<1> SUFFICES ASSUME TypeOK, Numbered, QueueStep PROVE Numbered'
  OBVIOUS
<1>1. ASSUME UNCHANGED <<life, messages, added, shown>> PROVE Numbered'
  BY <1>1 DEF Numbered
<1>2. CASE Connect
  BY <1>2 DEF Numbered, Connect
<1>3. ASSUME NEW t \in Threads, AddMessage(t) PROVE Numbered'
  BY <1>3, AddNumbered DEF AddMessage
<1>4. CASE OnMessage
  <2>1. CASE dialog
    BY <1>1, <1>4, <2>1 DEF OnMessage
  <2>2. CASE ~dialog
    BY <1>4, <2>2, ShowNumbered DEF OnMessage
  <2> QED
    BY <2>1, <2>2
<1>5. CASE OnResponse
  BY <1>5, ShowNumbered DEF OnResponse
<1>6. CASE Destroy \/ Dies
  BY <1>6 DEF Numbered, Destroy, Dies
<1>7. ASSUME NEW t \in Threads, Warn(t) \/ AddTooLate(t) \/ Signal(t) PROVE Numbered'
  BY <1>1, <1>7 DEF Warn, AddTooLate, Signal
<1>8. CASE ReadSignal \/ OnMessageTooLate \/ Overtaken \/ UNCHANGED vars
  BY <1>1, <1>8 DEF ReadSignal, OnMessageTooLate, Overtaken, vars
<1>9. CASE Announced
  BY <1>9, AddNumbered DEF Announced
<1> QED
  BY <1>2, <1>3, <1>4, <1>5, <1>6, <1>7, <1>8, <1>9
  DEF QueueStep, Next, MainLoop, Thread

(* A message shown is a message received from the mailbox. *)
LEMMA ShowReceives ==
  ASSUME IInv, life = "running", ShowNextMessage, UNCHANGED life
  PROVE  [Box!Next]_Box!vars
<1>1. CASE messages = <<>>
  BY <1>1 DEF ShowNextMessage, Box!vars
<1>2. CASE messages # <<>>
  BY <1>2 DEF ShowNextMessage, Box!Next, Box!Receive
<1> QED
  BY <1>1, <1>2

LEMMA StepQueue == IInv /\ QueueStep => IInv' /\ [Box!Next]_Box!vars
<1> SUFFICES ASSUME IInv, QueueStep PROVE [Box!Next]_Box!vars
  BY StepTypeOK, StepForgotten, StepNumbered DEF IInv
<1>1. CASE Connect
  BY <1>1 DEF Connect, Box!vars
<1>2. ASSUME NEW t \in Threads, AddMessage(t) PROVE Box!Next
  <2>1. added' = shown + Len(messages) + 1
    BY <1>2 DEF AddMessage, IInv, Numbered
  <2> QED
    BY <1>2, <2>1 DEF AddMessage, Box!Next, Box!Send
<1>3. CASE OnMessage
  <2>1. CASE dialog
    BY <1>3, <2>1 DEF OnMessage, Box!vars
  <2>2. CASE ~dialog
    BY <1>3, <2>2, ShowReceives DEF OnMessage
  <2> QED
    BY <2>1, <2>2
<1>4. CASE OnResponse
  BY <1>4, ShowReceives DEF OnResponse
<1>5. CASE Destroy \/ Dies
  <2>1. CASE life = "destroyed"
    BY <1>5, <2>1 DEF Destroy, Dies, IInv, Numbered, Box!vars
  <2>2. CASE life # "destroyed"
    BY <1>5, <2>2 DEF Destroy, Dies, Box!Next, Box!Close
  <2> QED
    BY <2>1, <2>2
<1>6. ASSUME NEW t \in Threads, Warn(t) \/ AddTooLate(t) \/ Signal(t)
      PROVE  UNCHANGED Box!vars
  BY <1>6 DEF Warn, AddTooLate, Signal, Box!vars
<1>7. CASE ReadSignal \/ OnMessageTooLate \/ Overtaken \/ UNCHANGED vars
  BY <1>7 DEF ReadSignal, OnMessageTooLate, Overtaken, vars, Box!vars
<1>8. CASE Announced
  <2>1. added' = shown + Len(messages) + 1
    BY <1>8 DEF Announced, IInv, Numbered
  <2> QED
    BY <1>8, <2>1 DEF Announced, Box!Next, Box!Send
<1> QED
  BY <1>1, <1>2, <1>3, <1>4, <1>5, <1>6, <1>7, <1>8
  DEF QueueStep, Next, MainLoop, Thread

-----------------------------------------------------------------------------
(* The theorems about the queue of any process. *)

LEMMA Invariance == Spec => []IInv
<1>1. IInv /\ [Next]_vars => IInv'
  BY StepQueue DEF QueueStep
<1> QED
  BY InitIInv, <1>1, PTL DEF Spec

(* The variables keep their types. *)
THEOREM TypeCorrect == Spec => []TypeOK
<1>1. IInv => TypeOK
  BY DEF IInv
<1> QED
  BY Invariance, <1>1, PTL

(* A message that waits without a dialog has a signal on its way, though
   add_message() signals only for an empty queue. *)
THEOREM NothingForgotten == Spec => []NoMessageForgotten
<1>1. IInv => NoMessageForgotten
  BY DEF IInv
<1> QED
  BY Invariance, <1>1, PTL

(* Whatever the threads do, the queue takes only the steps of a mailbox:
   messages are shown once and in the order of their adding. *)
THEOREM QueueIsMailbox == Spec => Box!Init /\ [][Box!Next]_Box!vars
<1>1. Init => Box!Init
  BY DEF Init, Box!Init
<1>2. IInv /\ [Next]_vars => [Box!Next]_Box!vars
  BY StepQueue DEF QueueStep
<1> QED
  BY Invariance, <1>1, <1>2, PTL DEF Spec

-----------------------------------------------------------------------------
(* The processes.  Only one of them owns the name on the bus from the time    *)
(* it gets it to its end; options that were sent and not processed are those  *)
(* of a process that waits, or has given up waiting.                          *)

Owning == {"named", "unlinked", "constructing", "starting", "running", "quit",
           "leaving"}
Linked == {"constructing", "starting", "running", "quit"}
Unprocessed == {"off", "connected", "named", "unlinked", "constructing", "starting",
                "passing", "rejected", "nothing"}
Done == {"ok", "running", "quit", "leaving", "ended"}

Sound(p) ==
    /\ stage[p] \in Owning => owner = p
    /\ stage[p] \in Linked => link = bus
    /\ p \in calls \/ handling = p =>
           /\ stage[p] \in {"waiting", "failed", "crashed", "explaining"}
           /\ executed[p] = "no"
    /\ ~(p \in calls /\ handling = p)
    /\ executed[p] \in {"no", "kept"}
    /\ stage[p] \in Unprocessed => executed[p] = "no"
    /\ stage[p] \in Done /\ options[p] => executed[p] = "kept"

PInv == RoleTypeOK /\ \A p \in Processes : Sound(p)

LEMMA InitPInv == ProgramInit => PInv
<1> SUFFICES ASSUME ProgramInit PROVE PInv
  OBVIOUS
<1>1. None \notin Processes /\ 0 \in 0..MaxSessions
  BY ProgramAssumption DEF ProgramAssumption, Processes
<1>2. RoleTypeOK
  BY <1>1 DEF ProgramInit, RoleTypeOK, Ends
<1>3. \A p \in Processes : Sound(p)
  BY <1>1 DEF ProgramInit, Sound, Owning, Linked, Unprocessed, Done
<1> QED
  BY <1>2, <1>3 DEF PInv

(* Options that are processed for the first time are kept. *)
LEMMA ProcessedOnce ==
  ASSUME NEW p \in Processes, RoleTypeOK, executed[p] = "no"
  PROVE  Processed(p, FALSE) = [executed EXCEPT ![p] = "kept"]
  BY DEF Processed, RoleTypeOK

(* What a step does not touch of a process stays sound. *)
LEMMA OthersSound ==
  ASSUME NEW q, Sound(q), UNCHANGED <<stage[q], executed[q], options[q]>>,
         q \in calls' => q \in calls, UNCHANGED handling \/ handling' # q,
         stage[q] \in Owning => UNCHANGED <<owner, link, bus>>
  PROVE  Sound(q)'
  BY DEF Sound, Owning, Linked

(* The end of processes: nothing is left of their ownership and of the options
   sent to them, and who waits for their answer is told of an error. *)
LEMMA GoneKeeps ==
  ASSUME PInv, NEW ps \in SUBSET Processes,
         NEW end \in {"failed", "crashed", "ended", "explaining"}, Gone(ps, end),
         end = "ended" => \A p \in ps : stage[p] \in Done,
         \A p \in Processes \ ps : stage[p] \in Owning => UNCHANGED <<link, bus>>,
         link' \in 0..MaxSessions \cup {None}, bus' \in 0..MaxSessions,
         UNCHANGED <<kind, options, handling, pipe, stopping, executed>>
  PROVE  PInv'
<1>1. RoleTypeOK'
  BY DEF Gone, PInv, RoleTypeOK, Ends
<1>2. ASSUME NEW p \in Processes PROVE Sound(p)'
  <2>0. Sound(p) /\ calls' \subseteq calls
    BY DEF Gone, PInv
  <2>1. CASE p \in ps
    <3>1. stage'[p] = end
      BY <2>1 DEF Gone
    <3> QED
      BY <2>0, <2>1, <3>1 DEF Sound, Owning, Linked, Unprocessed, Done
  <2>2. CASE p \notin ps /\ owner \in ps /\ stage[p] = "waiting"
    <3>1. stage'[p] = "failed"
      BY <2>2 DEF Gone
    <3> QED
      BY <2>0, <2>2, <3>1 DEF Sound, Owning, Linked, Unprocessed, Done
  <2>3. CASE p \notin ps /\ ~(owner \in ps /\ stage[p] = "waiting")
    <3>1. stage'[p] = stage[p]
      BY <2>3 DEF Gone
    <3>2. stage[p] \in Owning => UNCHANGED owner
      BY <2>0, <2>3 DEF Gone, Sound
    <3> QED
      BY <2>0, <2>3, <3>1, <3>2 DEF Sound, Owning, Linked
  <2> QED
    BY <2>1, <2>2, <2>3
<1> QED
  BY <1>1, <1>2 DEF PInv

(* From the start of a process to its role. *)
LEMMA ServingSound == ASSUME PInv, NEW p \in Processes,
  Serving(p) \/ \E k \in {"gui", "pass", "console"}, o \in BOOLEAN : Launch(p, k, o)
  PROVE PInv'
<1> USE DEF PInv
<1>0. Sound(p)
  OBVIOUS
<1>1. ASSUME NEW k \in {"gui", "pass", "console"}, NEW o \in BOOLEAN, Launch(p, k, o)
      PROVE  PInv'
  <2>1. RoleTypeOK'
    BY <1>1 DEF Launch, RoleTypeOK, Ends
  <2>2. Sound(p)'
    BY <1>0, <1>1 DEF Launch, RoleTypeOK, Sound, Owning, Linked, Unprocessed, Done
  <2>3. ASSUME NEW q \in Processes \ {p} PROVE Sound(q)'
    BY <1>1, OthersSound DEF Launch, RoleTypeOK
  <2> QED
    BY <2>1, <2>2, <2>3
<1>2. CASE RequestName(p)
  <2>1. RoleTypeOK'
    BY <1>2 DEF RequestName, RoleTypeOK, Ends
  <2>2. Sound(p)'
    BY <1>0, <1>2 DEF RequestName, RoleTypeOK, Sound, Owning, Linked, Unprocessed, Done
  <2>3. ASSUME NEW q \in Processes \ {p} PROVE Sound(q)'
    <3>1. stage[q] \in Owning => UNCHANGED owner
      BY <1>2, ProgramAssumption DEF RequestName, Sound, ProgramAssumption, Processes
    <3> QED
      BY <1>2, <3>1, OthersSound DEF RequestName, RoleTypeOK
  <2> QED
    BY <2>1, <2>2, <2>3
<1>3. CASE HasName(p)
  <2>1. RoleTypeOK'
    BY <1>3 DEF HasName, At, RoleTypeOK, Ends
  <2>2. Sound(p)'
    BY <1>0, <1>3 DEF HasName, At, RoleTypeOK, Sound, Owning, Linked, Unprocessed, Done
  <2>3. ASSUME NEW q \in Processes \ {p} PROVE Sound(q)'
    BY <1>3, OthersSound DEF HasName, At, RoleTypeOK
  <2> QED
    BY <2>1, <2>2, <2>3
<1>4. CASE Pass(p)
  <2>1. RoleTypeOK'
    BY <1>4 DEF Pass, At, RoleTypeOK, Ends
  <2>2. Sound(p)'
    BY <1>0, <1>4 DEF Pass, At, RoleTypeOK, Sound, Owning, Linked, Unprocessed, Done
  <2>3. ASSUME NEW q \in Processes \ {p} PROVE Sound(q)'
    BY <1>4, OthersSound DEF Pass, At, RoleTypeOK
  <2> QED
    BY <2>1, <2>2, <2>3
<1>5. CASE TimeOut(p)
  <2>1. RoleTypeOK'
    BY <1>5 DEF TimeOut, At, RoleTypeOK, Ends
  <2>2. Sound(p)'
    BY <1>0, <1>5 DEF TimeOut, At, RoleTypeOK, Sound, Owning, Linked, Unprocessed, Done
  <2>3. ASSUME NEW q \in Processes \ {p} PROVE Sound(q)'
    BY <1>5, OthersSound DEF TimeOut, At, RoleTypeOK
  <2> QED
    BY <2>1, <2>2, <2>3
<1>6. CASE RemoveOldLink(p)
  <2>1. RoleTypeOK'
    BY <1>6 DEF RemoveOldLink, At, RoleTypeOK, Ends
  <2>2. Sound(p)'
    BY <1>0, <1>6 DEF RemoveOldLink, At, RoleTypeOK, Sound, Owning, Linked, Unprocessed, Done
  <2>3. ASSUME NEW q \in Processes \ {p} PROVE Sound(q)'
    <3>1. stage[q] \notin Owning
      BY <1>0, <1>6 DEF RemoveOldLink, At, Sound, Owning
    <3> QED
      BY <1>6, <3>1, OthersSound DEF RemoveOldLink, At, RoleTypeOK
  <2> QED
    BY <2>1, <2>2, <2>3
<1>7. CASE CreateLink(p)
  <2>0. ASSUME NEW q \in Processes \ {p} PROVE stage[q] \notin Owning
    BY <1>0, <1>7 DEF CreateLink, At, Sound, Owning
  <2>1. CASE link # None
    BY <1>7, <2>0, <2>1, GoneKeeps DEF CreateLink, RoleTypeOK
  <2>2. CASE link = None /\ p = First
    <3>1. RoleTypeOK'
      BY <1>7, <2>2 DEF CreateLink, At, RoleTypeOK, Ends
    <3>2. Sound(p)'
      BY <1>0, <1>7, <2>2
      DEF CreateLink, At, RoleTypeOK, Sound, Owning, Linked, Unprocessed, Done
    <3>3. ASSUME NEW q \in Processes \ {p} PROVE Sound(q)'
      BY <1>7, <2>0, <2>2, OthersSound DEF CreateLink, At, RoleTypeOK
    <3> QED
      BY <3>1, <3>2, <3>3
  <2>3. CASE link = None /\ p # First
    <3>0. executed' = IF options[p] THEN [executed EXCEPT ![p] = "kept"] ELSE executed
      BY <1>0, <1>7, <2>3, ProcessedOnce DEF CreateLink, At, Sound, Unprocessed
    <3>1. RoleTypeOK'
      BY <1>7, <2>3, <3>0 DEF CreateLink, At, RoleTypeOK, Ends
    <3>2. Sound(p)'
      BY <1>0, <1>7, <2>3, <3>0
      DEF CreateLink, At, RoleTypeOK, Sound, Owning, Linked, Unprocessed, Done
    <3>3. ASSUME NEW q \in Processes \ {p} PROVE Sound(q)'
      BY <1>7, <2>0, <2>3, <3>0, OthersSound DEF CreateLink, At, RoleTypeOK
    <3> QED
      BY <3>1, <3>2, <3>3
  <2> QED
    BY <2>1, <2>2, <2>3
<1>8. CASE TakeOptions(p)
  <2>1. RoleTypeOK'
    BY <1>8 DEF TakeOptions, RoleTypeOK, Ends
  <2>2. Sound(p)'
    BY <1>0, <1>8
    DEF TakeOptions, Looping, RoleTypeOK, Sound, Owning, Linked, Unprocessed, Done
  <2>3. ASSUME NEW q \in Processes \ {p} PROVE Sound(q)'
    BY <1>8, OthersSound DEF TakeOptions, RoleTypeOK
  <2> QED
    BY <2>1, <2>2, <2>3
<1>9. CASE Serve(p)
  <2>0. executed' = [executed EXCEPT ![p] = "kept"]
    BY <1>0, <1>9, ProcessedOnce DEF Serve, Sound
  <2>1. RoleTypeOK'
    BY <1>9, <2>0 DEF Serve, Answered, RoleTypeOK, Ends
  <2>2. Sound(p)'
    BY <1>0, <1>9, <2>0
    DEF Serve, Answered, RoleTypeOK, Sound, Owning, Linked, Unprocessed, Done
  <2>3. ASSUME NEW q \in Processes \ {p} PROVE Sound(q)'
    BY <1>9, <2>0, OthersSound DEF Serve, Answered, RoleTypeOK
  <2> QED
    BY <2>1, <2>2, <2>3
<1> QED
  BY <1>1, <1>2, <1>3, <1>4, <1>5, <1>6, <1>7, <1>8, <1>9 DEF Serving

(* The process with the Application that is followed. *)
FirstStep ==
    \/ Constructed \/ Started \/ FailToStart
    \/ dbus_cmd_options \/ dbus_cmd_options_too_late
    \/ Signalled \/ close \/ Closing \/ Quit
    \/ Abort \/ error_function \/ on_error_window_ok_button_callback
    \/ Loop \/ \E t \in Threads : Report(t) \/ OtherThread(t)

LEMMA FirstSound == PInv /\ FirstStep => PInv'
<1> SUFFICES ASSUME PInv, FirstStep PROVE PInv'
  OBVIOUS
<1> USE DEF PInv
<1>0. First \in Processes /\ Sound(First)
  BY DEF Processes
<1>1. CASE Constructed
  <2>1. RoleTypeOK'
    BY <1>1 DEF Constructed, At, RoleTypeOK, Ends
  <2>2. Sound(First)'
    BY <1>0, <1>1 DEF Constructed, At, RoleTypeOK, Sound, Owning, Linked, Unprocessed, Done
  <2>3. ASSUME NEW q \in Processes \ {First} PROVE Sound(q)'
    BY <1>1, OthersSound DEF Constructed, At, RoleTypeOK
  <2> QED
    BY <2>1, <2>2, <2>3
<1>2. CASE Started
  <2>0. executed' = IF options[First] THEN [executed EXCEPT ![First] = "kept"]
                                      ELSE executed
    BY <1>0, <1>2, ProcessedOnce DEF Started, At, Sound, Unprocessed
  <2>1. RoleTypeOK'
    BY <1>2, <2>0 DEF Started, At, RoleTypeOK, Ends
  <2>2. Sound(First)'
    BY <1>0, <1>2, <2>0
    DEF Started, At, RoleTypeOK, Sound, Owning, Linked, Unprocessed, Done
  <2>3. ASSUME NEW q \in Processes \ {First} PROVE Sound(q)'
    BY <1>2, <2>0, OthersSound DEF Started, At, RoleTypeOK
  <2> QED
    BY <2>1, <2>2, <2>3
<1>3. CASE FailToStart
  <2>1. ASSUME NEW q \in Processes \ {First} PROVE stage[q] \notin Owning
    BY <1>0, <1>3 DEF FailToStart, Sound, Owning
  <2> QED
    BY <1>0, <1>3, <2>1, GoneKeeps DEF FailToStart, RoleTypeOK
<1>4. ASSUME dbus_cmd_options, NEW p \in Processes, handling = p PROVE PInv'
  <2>0. Sound(p)
    OBVIOUS
  <2>1. handling' \notin Processes
    BY <1>4, ProgramAssumption DEF dbus_cmd_options, ProgramAssumption, Processes
  <2>2. CASE stopping
    <3>1. /\ stage' = [stage EXCEPT ![p] = IF stage[p] = "waiting" THEN "rejected"
                                           ELSE stage[p]]
          /\ executed' = executed
      BY <1>4, <2>0, <2>2, ProcessedOnce DEF dbus_cmd_options, Answered, Sound, RoleTypeOK
    <3>2. RoleTypeOK'
      BY <1>4, <3>1 DEF dbus_cmd_options, RoleTypeOK, Ends
    <3>3. Sound(p)'
      BY <1>4, <2>0, <2>1, <2>2, <3>1
      DEF dbus_cmd_options, RoleTypeOK, Sound, Owning, Linked, Unprocessed, Done
    <3>4. ASSUME NEW q \in Processes \ {p} PROVE Sound(q)'
      BY <1>4, <2>1, <3>1, OthersSound DEF dbus_cmd_options, RoleTypeOK
    <3> QED
      BY <3>2, <3>3, <3>4
  <2>3. CASE ~stopping
    <3>1. /\ stage' = [stage EXCEPT ![p] = IF stage[p] = "waiting" THEN "ok"
                                           ELSE stage[p]]
          /\ executed' = [executed EXCEPT ![p] = "kept"]
      BY <1>4, <2>0, <2>3, ProcessedOnce DEF dbus_cmd_options, Answered, Sound, RoleTypeOK
    <3>2. RoleTypeOK'
      BY <1>4, <3>1 DEF dbus_cmd_options, RoleTypeOK, Ends
    <3>3. Sound(p)'
      BY <1>4, <2>0, <2>1, <2>3, <3>1
      DEF dbus_cmd_options, RoleTypeOK, Sound, Owning, Linked, Unprocessed, Done
    <3>4. ASSUME NEW q \in Processes \ {p} PROVE Sound(q)'
      BY <1>4, <2>1, <3>1, OthersSound DEF dbus_cmd_options, RoleTypeOK
    <3> QED
      BY <3>2, <3>3, <3>4
  <2> QED
    BY <2>2, <2>3
<1>5. CASE TakeSignal \/ on_close_signal_cb
  <2>1. RoleTypeOK'
    BY <1>5 DEF TakeSignal, on_close_signal_cb, RoleTypeOK
  <2>2. ASSUME NEW q \in Processes PROVE Sound(q)'
    <3>1. handling' # q
      BY <1>5, ProgramAssumption
      DEF TakeSignal, on_close_signal_cb, ProgramAssumption, Processes
    <3> QED
      BY <1>5, <3>1, OthersSound DEF TakeSignal, on_close_signal_cb
  <2> QED
    BY <2>1, <2>2
<1>6. CASE Signalled \/ close
  <2>1. RoleTypeOK'
    BY <1>6 DEF Signalled, close, RoleTypeOK
  <2>2. \A q \in Processes : Sound(q)'
    BY <1>6, OthersSound DEF Signalled, close
  <2> QED
    BY <2>1, <2>2
<1>7. CASE Quit
  <2>1. RoleTypeOK'
    BY <1>7 DEF Quit, At, RoleTypeOK, Ends
  <2>2. Sound(First)'
    BY <1>0, <1>7 DEF Quit, At, RoleTypeOK, Sound, Owning, Linked, Unprocessed, Done
  <2>3. ASSUME NEW q \in Processes \ {First} PROVE Sound(q)'
    BY <1>7, OthersSound DEF Quit, At, RoleTypeOK
  <2> QED
    BY <2>1, <2>2, <2>3
<1>8. CASE RemoveLink
  <2>0. ASSUME NEW q \in Processes \ {First} PROVE stage[q] \notin Owning
    BY <1>0, <1>8 DEF RemoveLink, At, Sound, Owning
  <2>1. RoleTypeOK'
    BY <1>8 DEF RemoveLink, At, RoleTypeOK, Ends
  <2>2. Sound(First)'
    BY <1>0, <1>8
    DEF RemoveLink, At, RoleTypeOK, Sound, Owning, Linked, Unprocessed, Done
  <2>3. ASSUME NEW q \in Processes \ {First} PROVE Sound(q)'
    BY <1>8, <2>0, OthersSound DEF RemoveLink, At, RoleTypeOK
  <2> QED
    BY <2>1, <2>2, <2>3
<1>9. CASE Exit \/ Abort \/ error_function
  BY <1>0, <1>9, GoneKeeps DEF Exit, Abort, error_function, Done, RoleTypeOK
<1>10. CASE on_error_window_ok_button_callback
  <2>1. RoleTypeOK'
    BY <1>10 DEF on_error_window_ok_button_callback, At, RoleTypeOK, Ends
  <2>2. Sound(First)'
    BY <1>0, <1>10 DEF on_error_window_ok_button_callback, At, RoleTypeOK, Sound, Owning, Linked, Unprocessed, Done
  <2>3. ASSUME NEW q \in Processes \ {First} PROVE Sound(q)'
    BY <1>10, OthersSound DEF on_error_window_ok_button_callback, At, RoleTypeOK
  <2> QED
    BY <2>1, <2>2, <2>3
<1>11. CASE stop \/ Loop \/ dbus_cmd_options_too_late
            \/ \E t \in Threads : Report(t) \/ OtherThread(t)
  <2>1. UNCHANGED programVars
    BY <1>11 DEF stop, Loop, dbus_cmd_options_too_late, Report, OtherThread
  <2>2. RoleTypeOK'
    BY <2>1 DEF programVars, RoleTypeOK
  <2>3. \A q \in Processes : Sound(q)'
    BY <2>1, OthersSound DEF programVars
  <2> QED
    BY <2>2, <2>3
<1> QED
  BY <1>1, <1>2, <1>3, <1>4, <1>5, <1>6, <1>7, <1>8, <1>9, <1>10, <1>11
  DEF FirstStep, Closing, dbus_cmd_options

LEMMA StepPInv == PInv /\ [ProgramNext]_allVars => PInv'
<1> SUFFICES ASSUME PInv, [ProgramNext]_allVars PROVE PInv'
  OBVIOUS
<1>1. ASSUME NEW p \in Processes, Crash(p) PROVE PInv'
  BY <1>1, GoneKeeps DEF Crash, PInv, RoleTypeOK
<1>2. CASE NewSession
  <2>1. ASSUME NEW p \in Processes, stage[p] \in Owning PROVE Alive(p)
    BY <2>1 DEF Alive, Ends, Owning
  <2>2. bus' \in 0..MaxSessions
    BY <1>2, ProgramAssumption DEF NewSession, PInv, RoleTypeOK, ProgramAssumption
  <2> QED
    BY <1>2, <2>1, <2>2, GoneKeeps DEF NewSession, PInv, RoleTypeOK
<1>3. CASE UNCHANGED allVars
  <2>1. RoleTypeOK'
    BY <1>3 DEF allVars, programVars, PInv, RoleTypeOK
  <2>2. \A q \in Processes : Sound(q)'
    BY <1>3, OthersSound DEF allVars, programVars, PInv
  <2> QED
    BY <2>1, <2>2 DEF PInv
<1> QED
  BY <1>1, <1>2, <1>3, ServingSound, FirstSound DEF ProgramNext, FirstStep

-----------------------------------------------------------------------------
(* The creation of a torrent in the process that is followed.                 *)

(* Until its end a creation has told nothing, and has left the file alone before
   it is opened; the file is complete when it is written. *)
Unfinished ==
    /\ worker \in {"adding", "hashing", "progress", "hashed", "cancelled"} =>
           file = "old" /\ outcome = "nothing"
    /\ worker \in {"opened", "wrong"} => outcome = "nothing"
    /\ worker = "written" => file = "new" /\ outcome = "nothing"

CInv == CreateTypeOK /\ Unfinished /\ OutcomeIsTrue

LEMMA InitCInv == CreateInit => CInv
  BY DEF CreateInit, CInv, CreateTypeOK, Unfinished, OutcomeIsTrue

LEMMA StepCInv == CInv /\ [CreateNext]_everything => CInv'
<1> SUFFICES ASSUME CInv, [CreateNext]_everything PROVE CInv'
  OBVIOUS
<1> USE DEF CInv, CreateTypeOK, Unfinished, OutcomeIsTrue
<1>1. CASE UNCHANGED createVars
  BY <1>1 DEF createVars
<1>2. CASE Lost
  BY <1>2 DEF Lost
<1>3. CASE Elsewhere \/ AssertionFails
  BY <1>1, <1>2, <1>3 DEF Elsewhere, AssertionFails
<1>4. ASSUME UNCHANGED <<worker, file, outcome>>, create' \in {"closed", "open",
                 "selecting", "asking", "saving", "hashing", "warning", "warned", "failed"},
             files' \in BOOLEAN, is_cancel' \in BOOLEAN
      PROVE  CInv'
  BY <1>4
<1>5. CASE \/ on_create_callback \/ on_select_callback \/ Selected
           \/ on_ok_button_callback \/ on_close_callback
           \/ on_cancel_button_callback \/ Dismiss \/ CloseWarning
  BY <1>4, <1>5
  DEF on_create_callback, on_select_callback, Selected, on_ok_button_callback,
      on_close_callback, on_cancel_button_callback, Dismiss, CloseWarning,
      WithApplication, Back
<1>6. CASE Progress_dialog
  BY <1>6 DEF Progress_dialog
<1>7. CASE check_added_file \/ HashPiece \/ set_hash_progress
  BY <1>7 DEF check_added_file, HashPiece, set_hash_progress, Works
<1>8. CASE OpenFile \/ WriteFile
  BY <1>8 DEF OpenFile, WriteFile, Works
<1>9. CASE Created \/ CreatedTooLate \/ Cancelled
  BY <1>9 DEF Created, CreatedTooLate, Cancelled, Works
<1>10. CASE CreatingFailed \/ WarningClosed
  BY <1>10 DEF CreatingFailed, WarningClosed, Works
<1>11. CASE UNCHANGED everything
  BY <1>1, <1>11 DEF everything
<1> QED
  BY <1>3, <1>5, <1>6, <1>7, <1>8, <1>9, <1>10, <1>11 DEF CreateNext, Window, Worker

(* A creation does nothing to the processes but to let the one it runs in fail,
   and nothing to the queue but to add a message. *)
LEMMA GoneQueue == ASSUME NEW ps, NEW end, Gone(ps, end) PROVE QueueStep
  BY DEF Gone, QueueStep, Dies, vars

LEMMA ProgramQueue == [ProgramNext]_allVars => QueueStep
<1> SUFFICES ASSUME [ProgramNext]_allVars PROVE QueueStep
  OBVIOUS
<1>1. CASE UNCHANGED vars
  BY <1>1 DEF QueueStep
<1>2. ASSUME NEW p \in Processes, CreateLink(p) PROVE QueueStep
  BY <1>1, <1>2, GoneQueue DEF CreateLink
<1>3. ASSUME NEW p \in Processes,
             \/ \E k \in {"gui", "pass", "console"}, o \in BOOLEAN : Launch(p, k, o)
             \/ RequestName(p) \/ HasName(p) \/ Pass(p) \/ TimeOut(p)
             \/ RemoveOldLink(p) \/ TakeOptions(p) \/ Serve(p)
      PROVE  QueueStep
  BY <1>1, <1>3
  DEF Launch, RequestName, HasName, Pass, TimeOut, RemoveOldLink, TakeOptions, Serve
<1>4. CASE FailToStart \/ Exit \/ Abort \/ error_function \/ NewSession
           \/ \E p \in Processes : Crash(p)
  BY <1>4, GoneQueue DEF FailToStart, Exit, Abort, error_function, NewSession, Crash
<1>5. CASE \/ Started \/ dbus_cmd_options \/ Signalled \/ close \/ TakeSignal
           \/ on_close_signal_cb \/ Quit \/ RemoveLink
           \/ on_error_window_ok_button_callback
  BY <1>1, <1>5
  DEF Started, dbus_cmd_options, Signalled, close, TakeSignal, on_close_signal_cb, Quit,
      RemoveLink, on_error_window_ok_button_callback
<1>6. CASE dbus_cmd_options_too_late
  BY <1>6 DEF dbus_cmd_options_too_late, QueueStep, Overtaken
<1>7. CASE Constructed \/ stop \/ Loop \/ \E t \in Threads : Report(t) \/ OtherThread(t)
  BY <1>7 DEF Constructed, stop, Loop, Report, OtherThread, QueueStep, Next
<1>8. CASE UNCHANGED allVars
  BY <1>1, <1>8 DEF allVars
<1> QED
  BY <1>2, <1>3, <1>4, <1>5, <1>6, <1>7, <1>8 DEF ProgramNext, Serving, Closing

LEMMA CreateElsewhere ==
  ASSUME [CreateNext]_everything
  PROVE  \/ [ProgramNext]_allVars
         \/ UNCHANGED programVars /\ (Overtaken \/ Announced)
         \/ AssertionFails
<1>1. CASE UNCHANGED allVars
  BY <1>1
<1>2. CASE Elsewhere
  BY <1>2 DEF Elsewhere
<1>3. CASE Selected \/ Progress_dialog
  <2>1. IntoSettings
    BY <1>3 DEF Selected, Progress_dialog
  <2> QED
    BY <1>1, <2>1 DEF IntoSettings, Overtaken
<1>4. CASE \/ on_create_callback \/ on_select_callback \/ on_ok_button_callback
           \/ on_close_callback \/ on_cancel_button_callback \/ Dismiss \/ CloseWarning
  BY <1>1, <1>4
  DEF on_create_callback, on_select_callback, on_ok_button_callback,
      on_close_callback, on_cancel_button_callback, Dismiss, CloseWarning
<1>5. CASE \/ check_added_file \/ HashPiece \/ set_hash_progress \/ OpenFile
           \/ WriteFile \/ CreatedTooLate \/ Cancelled \/ CreatingFailed \/ WarningClosed
  BY <1>1, <1>5
  DEF check_added_file, HashPiece, set_hash_progress, OpenFile, WriteFile,
      CreatedTooLate, Cancelled, CreatingFailed, WarningClosed
<1>6. CASE Created
  BY <1>6 DEF Created, Announced
<1>7. CASE UNCHANGED everything
  BY <1>1, <1>7 DEF everything
<1> QED
  BY <1>2, <1>3, <1>4, <1>5, <1>6, <1>7 DEF CreateNext, Window, Worker

LEMMA CreateQueue == [CreateNext]_everything => QueueStep
<1> SUFFICES ASSUME [CreateNext]_everything PROVE QueueStep
  OBVIOUS
<1>1. AssertionFails => QueueStep
  BY GoneQueue DEF AssertionFails
<1> QED
  BY <1>1, CreateElsewhere, ProgramQueue DEF QueueStep

LEMMA CreatePInv == PInv /\ [CreateNext]_everything => PInv'
<1> SUFFICES ASSUME PInv, [CreateNext]_everything PROVE PInv'
  OBVIOUS
<1>1. CASE AssertionFails
  <2>1. First \in Processes
    BY DEF Processes
  <2> QED
    BY <1>1, <2>1, GoneKeeps DEF AssertionFails, PInv, RoleTypeOK
<1>2. CASE UNCHANGED programVars
  <2>1. RoleTypeOK'
    BY <1>2 DEF programVars, PInv, RoleTypeOK
  <2>2. \A q \in Processes : Sound(q)'
    BY <1>2, OthersSound DEF programVars, PInv
  <2> QED
    BY <2>1, <2>2 DEF PInv
<1> QED
  BY <1>1, <1>2, CreateElsewhere, StepPInv

-----------------------------------------------------------------------------
(* The theorems about the processes, with all that may go on in them.         *)

LEMMA AllInvariant == CreateSpec => [](IInv /\ PInv /\ CInv)
<1>1. CreateInit => IInv /\ PInv /\ CInv
  BY InitIInv, InitPInv, InitCInv DEF CreateInit, ProgramInit
<1>2. IInv /\ PInv /\ CInv /\ [CreateNext]_everything => (IInv /\ PInv /\ CInv)'
  BY CreateQueue, StepQueue, CreatePInv, StepCInv
<1> QED
  BY <1>1, <1>2, PTL DEF CreateSpec

(* All variables keep their types. *)
THEOREM ProgramTypeCorrect == CreateSpec => [](ProgramTypeOK /\ CreateTypeOK)
<1>1. IInv /\ PInv /\ CInv => ProgramTypeOK /\ CreateTypeOK
  BY DEF IInv, PInv, CInv, ProgramTypeOK
<1> QED
  BY AllInvariant, <1>1, PTL

(* Whoever runs an Application has the name and the link, whatever those before
   it have left behind, and however often the session ends. *)
THEOREM OwnerIsFound == CreateSpec => []LinkLeadsToOwner
<1>1. PInv => LinkLeadsToOwner
  BY DEF PInv, Sound, LinkLeadsToOwner, Owning, Linked
<1> QED
  BY AllInvariant, <1>1, PTL

(* Options that were accepted are processed once, and those rejected never. *)
THEOREM AnswersCorrect == CreateSpec => []AnswersAreTrue
<1>1. PInv => AnswersAreTrue
  BY DEF PInv, Sound, AnswersAreTrue, Unprocessed, Done
<1> QED
  BY AllInvariant, <1>1, PTL

(* A creation that ended without a word after Cancel has left the file alone,
   and one that is called created is complete. *)
THEOREM OutcomeCorrect == CreateSpec => []OutcomeIsTrue
<1>1. CInv => OutcomeIsTrue
  BY DEF CInv
<1> QED
  BY AllInvariant, <1>1, PTL

(* No message is forgotten, whatever becomes of the process. *)
THEOREM NothingForgottenEver == CreateSpec => []NoMessageForgotten
<1>1. IInv => NoMessageForgotten
  BY DEF IInv
<1> QED
  BY AllInvariant, <1>1, PTL

(* The steps that ImplementsMailbox is about are those of a mailbox, or do
   nothing to it; that the mailbox is emptied is left to TLC. *)
THEOREM ProgramIsMailbox == CreateSpec => Box!Init /\ [][Box!Next]_Box!vars
<1>1. CreateInit => Box!Init
  BY DEF CreateInit, ProgramInit, Init, Box!Init
<1>2. IInv /\ [CreateNext]_everything => [Box!Next]_Box!vars
  BY CreateQueue, StepQueue
<1> QED
  BY AllInvariant, <1>1, <1>2, PTL DEF CreateSpec
==============================================================================
