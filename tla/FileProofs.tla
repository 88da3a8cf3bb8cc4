----------------------------- MODULE FileProofs -----------------------------
(***************************************************************************)
(* Proofs about the two ways files are written: the asynchronous file      *)
(* system, for any number of callers, threads, groups and tasks, and the   *)
(* crash protection of configuration files, for any number of writes,      *)
(* crashes and erasures.                                                   *)
(***************************************************************************)
EXTENDS AsyncFs, ConfigFile, TLAPS

-----------------------------------------------------------------------------
(***************************************************************************)
(* The asynchronous file system.                                           *)
(***************************************************************************)

(* The inductive invariant. *)

(* The mutex is held across steps only by a thread that wakes the destructor. *)
Holding == \A t \in Threads : thread[t] = "wake" <=> mutex = t

(* The destructor is woken by the last thread, and only then goes on. *)
Closing == /\ closer # "open" => Starting = {}
           /\ waiting <=> closer = "wait"
           /\ waiting => started \/ mutex # Free
           /\ mutex # Free => ~started
           /\ closer \in {"lock", "closed"} => ~started
           /\ closer = "closed" => mutex = Free

HandsInv == Holding /\ OneThread /\ Closing

Popping == \E t \in Threads : thread[t] = "pop"

(* The identifier of the task before the first of the queue. *)
Done == IF Popping THEN Len(executed) - 1 ELSE Len(executed)

(* The queue holds the tasks that were added and not removed, in order. *)
QueueInv == /\ \A t \in Threads : thread[t] \in {"work", "pop"} => tasks # <<>>
            /\ Popping => executed # <<>>
            /\ last_task_id = Done + Len(tasks)
            /\ \A i \in 1..Len(tasks) : tasks[i].id = Done + i

QuietInv == /\ PausedGroupIsQuiet
            /\ quiet # {} => paused

AsyncInv == TypeOK /\ HandsInv /\ QueueInv /\ InOrder /\ QuietInv

-----------------------------------------------------------------------------
LEMMA InitAsyncInv == Init => AsyncInv
<1> SUFFICES ASSUME Init PROVE AsyncInv
  OBVIOUS
<1>1. TypeOK
  <2>1. last_task_id \in 0..MaxTasks
    BY AsyncFsAssumption DEF Init, AsyncFsAssumption
  <2>2. tasks \in Seq(Tasks) /\ executed \in Seq(1..MaxTasks)
    BY DEF Init
  <2> QED
    BY <2>1, <2>2 DEF Init, TypeOK
<1>2. HandsInv
  <2>1. Holding
    BY AsyncFsAssumption DEF Init, Holding, AsyncFsAssumption
  <2>2. Looking = {} /\ Starting = {}
    BY DEF Init, Looking, Starting
  <2>3. OneThread
    BY <2>2, Zenon DEF Init, OneThread
  <2>4. Closing
    BY <2>2 DEF Init, Closing
  <2> QED
    BY <2>1, <2>3, <2>4 DEF HandsInv
<1>3. QueueInv
  BY DEF Init, QueueInv, Done, Popping
<1>4. InOrder /\ QuietInv
  BY DEF Init, InOrder, QuietInv, PausedGroupIsQuiet
<1> QED
  BY <1>1, <1>2, <1>3, <1>4 DEF AsyncInv

(* The types, given that there is something to remove from the queue. *)
LEMMA TypeStep == TypeOK /\ QueueInv /\ [Next]_vars => TypeOK'
<1> SUFFICES ASSUME TypeOK, QueueInv, [Next]_vars PROVE TypeOK'
  OBVIOUS
<1> USE AsyncFsAssumption DEF AsyncFsAssumption, TypeOK
<1>1. ASSUME NEW c \in Clients, NEW g \in Groups, AddTask(c, g) PROVE TypeOK'
  <2>1. last_task_id' \in 0..MaxTasks /\ [id |-> last_task_id', group |-> g] \in Tasks
    BY <1>1 DEF AddTask, Tasks
  <2>2. tasks' \in Seq(Tasks)
    BY <1>1, <2>1 DEF AddTask
  <2>3. client' \in [Clients -> {"idle", "start"}] /\ started' \in BOOLEAN
    BY <1>1 DEF AddTask
  <2> QED
    BY <1>1, <2>1, <2>2, <2>3 DEF AddTask
<1>2. ASSUME NEW c \in Clients, Start(c) PROVE TypeOK'
  BY <1>2 DEF Start
<1>3. ASSUME NEW c \in Clients, NEW g \in Groups, Pause(c, g) PROVE TypeOK'
  BY <1>3 DEF Pause
<1>4. ASSUME NEW c \in Clients, Resume(c) PROVE TypeOK'
  BY <1>4 DEF Resume
<1>5. ASSUME NEW t \in Threads, ThreadStep(t) PROVE TypeOK'
  <2>1. CASE Leave(t)
    BY <2>1 DEF Leave
  <2>2. CASE Wake(t)
    BY <2>2 DEF Wake
  <2>3. CASE Exit(t)
    BY <2>3 DEF Exit
  <2>4. CASE Take(t)
    BY <2>4 DEF Take
  <2>5. CASE Execute(t)
    <3>1. Head(tasks) \in Tasks
      BY <2>5 DEF Execute, QueueInv
    <3>2. Head(tasks).id \in 1..MaxTasks
      BY <3>1 DEF Tasks
    <3> QED
      BY <2>5, <3>2 DEF Execute
  <2>6. CASE Pop(t)
    <3>1. Tail(tasks) \in Seq(Tasks)
      BY <2>6 DEF Pop, QueueInv
    <3> QED
      BY <2>6, <3>1 DEF Pop
  <2> QED
    BY <1>5, <2>1, <2>2, <2>3, <2>4, <2>5, <2>6 DEF ThreadStep
<1>6. CASE Close
  BY <1>6 DEF Close
<1>7. CASE Closed
  BY <1>7 DEF Closed
<1>8. CASE UNCHANGED vars
  BY <1>8 DEF vars
<1> QED
  BY <1>1, <1>2, <1>3, <1>4, <1>5, <1>6, <1>7, <1>8, Zenon DEF Next, Ended

(* At most one thread looks at the queue, and `started' tells of it. *)
LEMMA HandsStep == TypeOK /\ HandsInv /\ [Next]_vars => HandsInv'
<1> SUFFICES ASSUME TypeOK, HandsInv, [Next]_vars PROVE HandsInv'
  OBVIOUS
<1> USE AsyncFsAssumption
    DEF AsyncFsAssumption, TypeOK, HandsInv, Holding, OneThread, Closing,
        Looking, Starting
<1>1. ASSUME NEW c \in Clients, NEW g \in Groups, AddTask(c, g) PROVE HandsInv'
  BY <1>1 DEF AddTask, Calls
<1>2. ASSUME NEW c \in Clients, Start(c) PROVE HandsInv'
  BY <1>2 DEF Start
<1>3. ASSUME NEW c \in Clients, NEW g \in Groups, Pause(c, g) PROVE HandsInv'
  BY <1>3 DEF Pause
<1>4. ASSUME NEW c \in Clients, Resume(c) PROVE HandsInv'
  BY <1>4 DEF Resume, Calls
<1>5. ASSUME NEW t \in Threads, ThreadStep(t) PROVE HandsInv'
  <2>1. CASE Leave(t)
    <3>1. \A u \in Threads : thread'[u] = IF u = t THEN "wake" ELSE thread[u]
      BY <2>1 DEF Leave
    <3>2. Looking = {t} /\ Starting = {}
      BY <2>1 DEF Leave
    <3>3. Looking' = {} /\ Starting' = {}
      <4>1. Looking' \subseteq Looking \ {t}
        BY <3>1
      <4> QED
        BY <2>1, <3>2, <4>1 DEF Leave
    <3>4. Holding'
      BY <2>1, <3>1 DEF Leave
    <3>5. OneThread'
      BY <2>1, <3>3 DEF Leave
    <3>6. Closing'
      BY <2>1, <3>3 DEF Leave
    <3> QED
      BY <3>4, <3>5, <3>6 DEF HandsInv
  <2>2. CASE Wake(t)
    <3>1. mutex = t /\ mutex # Free /\ closer = "wait"
      BY <2>2 DEF Wake
    <3>2. ~started /\ Starting = {}
      BY <2>2, <3>1 DEF Wake
    <3>3. Closing'
      BY <2>2, <3>1, <3>2 DEF Wake
    <3>4. Holding' /\ OneThread'
      BY <2>2 DEF Wake
    <3> QED
      BY <3>3, <3>4 DEF HandsInv
  <2>3. CASE Exit(t)
    BY <2>3 DEF Exit
  <2>4. CASE Take(t)
    BY <2>4 DEF Take
  <2>5. CASE Execute(t)
    BY <2>5 DEF Execute
  <2>6. CASE Pop(t)
    BY <2>6 DEF Pop
  <2> QED
    BY <1>5, <2>1, <2>2, <2>3, <2>4, <2>5, <2>6 DEF ThreadStep
<1>6. CASE Close
  BY <1>6 DEF Close
<1>7. CASE Closed
  BY <1>7 DEF Closed
<1>8. CASE UNCHANGED vars
  BY <1>8 DEF vars
<1> QED
  BY <1>1, <1>2, <1>3, <1>4, <1>5, <1>6, <1>7, <1>8, Zenon DEF Next, Ended

(* A step that leaves the queue and what was executed alone. *)
LEMMA QueueKept ==
  ASSUME QueueInv, InOrder, UNCHANGED <<tasks, last_task_id, executed>>,
         Popping' <=> Popping,
         \A t \in Threads : thread'[t] \in {"work", "pop"} => tasks # <<>>
  PROVE  QueueInv' /\ InOrder'
<1>1. Done' = Done
  BY DEF Done
<1> QED
  BY <1>1 DEF QueueInv, InOrder

(* The tasks are executed in the order in which they were added. *)
LEMMA QueueStep ==
  TypeOK /\ HandsInv /\ QueueInv /\ InOrder /\ [Next]_vars => QueueInv' /\ InOrder'
<1> SUFFICES ASSUME TypeOK, HandsInv, QueueInv, InOrder, [Next]_vars
             PROVE  QueueInv' /\ InOrder'
  OBVIOUS
<1>1. ASSUME NEW c \in Clients, NEW g \in Groups, AddTask(c, g)
      PROVE  QueueInv' /\ InOrder'
  <2>1. /\ UNCHANGED <<thread, executed>>
        /\ last_task_id' = last_task_id + 1
        /\ tasks' = Append(tasks, [id |-> last_task_id + 1, group |-> g])
    BY <1>1 DEF AddTask
  <2>2. Done' = Done /\ Done \in Nat
    BY <2>1 DEF Done, Popping, TypeOK, QueueInv
  <2>3. /\ Len(tasks') = Len(tasks) + 1 /\ Len(tasks) \in Nat
        /\ \A i \in 1..Len(tasks) : tasks'[i] = tasks[i]
        /\ tasks'[Len(tasks) + 1].id = last_task_id + 1
        /\ tasks' # <<>>
    <3> DEFINE new == [id |-> last_task_id + 1, group |-> g]
    <3>1. new.id = last_task_id + 1
      OBVIOUS
    <3>2. tasks \in Seq(Tasks) /\ tasks' = Append(tasks, new)
      BY <2>1 DEF TypeOK
    <3> HIDE DEF new
    <3>3. /\ Len(tasks') = Len(tasks) + 1 /\ Len(tasks) \in Nat
          /\ \A i \in 1..Len(tasks) : tasks'[i] = tasks[i]
          /\ tasks'[Len(tasks) + 1] = new
      BY <3>2
    <3>4. tasks' # <<>>
      BY <3>3
    <3> QED
      BY <3>1, <3>3, <3>4
  <2>4. last_task_id = Done + Len(tasks)
    BY DEF QueueInv
  <2>5. \A i \in 1..Len(tasks') : tasks'[i].id = Done + i
    <3> SUFFICES ASSUME NEW i \in 1..Len(tasks') PROVE tasks'[i].id = Done + i
      BY <2>2
    <3>1. \A k \in 1..Len(tasks) : tasks[k].id = Done + k
      BY DEF QueueInv
    <3>2. CASE i \in 1..Len(tasks)
      BY <2>3, <3>1, <3>2
    <3>3. CASE i = Len(tasks) + 1
      BY <2>2, <2>3, <2>4, <3>3
    <3>4. i \in 1..Len(tasks) \/ i = Len(tasks) + 1
      BY <2>3
    <3> QED
      BY <3>2, <3>3, <3>4
  <2> QED
    BY <2>1, <2>2, <2>3, <2>4, <2>5 DEF QueueInv, InOrder, Popping
<1>2. ASSUME NEW c \in Clients, Start(c) PROVE QueueInv' /\ InOrder'
  <2>1. PICK t \in Threads : thread[t] = "none" /\ thread' = [thread EXCEPT ![t] = "look"]
    BY <1>2 DEF Start
  <2>2. \A u \in Threads : thread'[u] # thread[u] =>
            thread[u] = "none" /\ thread'[u] = "look"
    BY <2>1 DEF TypeOK
  <2>3. Popping' <=> Popping
    BY <2>2 DEF Popping
  <2>4. \A u \in Threads : thread'[u] \in {"work", "pop"} => tasks # <<>>
    BY <2>2 DEF QueueInv
  <2> QED
    BY <1>2, <2>3, <2>4, QueueKept DEF Start
<1>3. ASSUME NEW c \in Clients, NEW g \in Groups, Pause(c, g)
      PROVE  QueueInv' /\ InOrder'
  BY <1>3, QueueKept DEF Pause, QueueInv, Popping
<1>4. ASSUME NEW c \in Clients, Resume(c) PROVE QueueInv' /\ InOrder'
  BY <1>4, QueueKept DEF Resume, QueueInv, Popping
<1>5. ASSUME NEW t \in Threads, Leave(t) \/ Wake(t) \/ Exit(t) \/ Take(t)
      PROVE  QueueInv' /\ InOrder'
  <2>1. \A u \in Threads : \/ thread'[u] = thread[u]
                           \/ /\ thread[u] \in {"look", "wake"}
                              /\ thread'[u] # "pop"
                              /\ thread'[u] = "work" => tasks # <<>>
    BY <1>5 DEF Leave, Wake, Exit, Take, TypeOK
  <2>2. Popping' <=> Popping
    BY <2>1 DEF Popping
  <2>3. \A u \in Threads : thread'[u] \in {"work", "pop"} => tasks # <<>>
    BY <2>1 DEF QueueInv
  <2> QED
    BY <1>5, <2>2, <2>3, QueueKept DEF Leave, Wake, Exit, Take
<1>6. ASSUME NEW t \in Threads, Execute(t) PROVE QueueInv' /\ InOrder'
  <2>1. /\ UNCHANGED <<tasks, last_task_id>>
        /\ executed' = Append(executed, Head(tasks).id)
        /\ tasks # <<>>
    BY <1>6 DEF Execute, QueueInv
  <2>2. ~Popping /\ Popping'
    BY <1>6 DEF Execute, Popping, HandsInv, OneThread, Looking, TypeOK
  <2>3. Head(tasks).id = Len(executed) + 1 /\ Len(executed) \in Nat
    BY <2>1, <2>2 DEF QueueInv, Done, TypeOK
  <2>4. Done' = Done /\ executed' # <<>>
    BY <2>1, <2>2, <2>3 DEF Done, TypeOK
  <2>5. InOrder'
    BY <2>1, <2>3 DEF InOrder, TypeOK
  <2> QED
    BY <2>1, <2>4, <2>5 DEF QueueInv
<1>7. ASSUME NEW t \in Threads, Pop(t) PROVE QueueInv' /\ InOrder'
  <2>1. /\ UNCHANGED <<executed, last_task_id>>
        /\ tasks' = Tail(tasks)
        /\ tasks # <<>> /\ executed # <<>>
    BY <1>7 DEF Pop, QueueInv, Popping
  <2>2. \A u \in Threads : u # t => thread'[u] \notin {"work", "pop"}
    BY <1>7 DEF Pop, HandsInv, OneThread, Looking, TypeOK
  <2>3. thread'[t] = "look"
    BY <1>7 DEF Pop, TypeOK
  <2>4. Popping /\ ~Popping'
    BY <1>7, <2>2, <2>3 DEF Pop, Popping
  <2>5. Done' = Done + 1 /\ Done \in Nat
    BY <2>1, <2>4 DEF Done, TypeOK
  <2>6. /\ Len(tasks') = Len(tasks) - 1 /\ Len(tasks) \in Nat
        /\ \A i \in 1..Len(tasks') : tasks'[i] = tasks[i + 1]
    BY <2>1 DEF TypeOK
  <2>7. last_task_id' = Done' + Len(tasks')
    BY <2>1, <2>5, <2>6 DEF QueueInv
  <2>8. ASSUME NEW i \in 1..Len(tasks') PROVE tasks'[i].id = Done' + i
    <3>1. i + 1 \in 1..Len(tasks)
      BY <2>6
    <3>2. tasks[i + 1].id = Done + (i + 1)
      BY <3>1 DEF QueueInv
    <3> QED
      BY <2>5, <2>6, <3>2
  <2> QED
    BY <2>1, <2>2, <2>3, <2>4, <2>7, <2>8 DEF QueueInv, InOrder
<1>8. CASE Close
  BY <1>8, QueueKept DEF Close, QueueInv, Popping
<1>9. CASE Closed
  BY <1>9, QueueKept DEF Closed, QueueInv, Popping
<1>10. CASE UNCHANGED vars
  BY <1>10, QueueKept DEF vars, QueueInv, Popping
<1> QED
  BY <1>1, <1>2, <1>3, <1>4, <1>5, <1>6, <1>7, <1>8, <1>9, <1>10, Zenon
     DEF Next, ThreadStep, Ended

(* While the system is paused no task is taken, and that at work is of another
   group. *)
LEMMA QuietStep ==
  TypeOK /\ HandsInv /\ QueueInv /\ QuietInv /\ [Next]_vars => QuietInv'
<1> SUFFICES ASSUME TypeOK, HandsInv, QueueInv, QuietInv, [Next]_vars
             PROVE  QuietInv'
  OBVIOUS
<1> USE DEF QuietInv, PausedGroupIsQuiet, TypeOK
<1>1. ASSUME NEW c \in Clients, NEW g \in Groups, AddTask(c, g) PROVE QuietInv'
  <2>1. tasks # <<>> => Head(tasks') = Head(tasks)
    BY <1>1 DEF AddTask
  <2> QED
    BY <1>1, <2>1 DEF AddTask, QueueInv
<1>2. ASSUME NEW c \in Clients, Start(c) PROVE QuietInv'
  BY <1>2 DEF Start
<1>3. ASSUME NEW c \in Clients, NEW g \in Groups, Pause(c, g) PROVE QuietInv'
  <2>1. ASSUME NEW t \in Threads, thread[t] = "work"
        PROVE  started /\ tasks # <<>>
    BY <2>1 DEF HandsInv, OneThread, Looking, QueueInv
  <2> QED
    BY <1>3, <2>1 DEF Pause, GroupStatus
<1>4. ASSUME NEW c \in Clients, Resume(c) PROVE QuietInv'
  BY <1>4 DEF Resume
<1>5. ASSUME NEW t \in Threads, ThreadStep(t) PROVE QuietInv'
  <2>1. CASE Leave(t)
    BY <2>1 DEF Leave
  <2>2. CASE Wake(t)
    BY <2>2 DEF Wake
  <2>3. CASE Exit(t)
    BY <2>3 DEF Exit
  <2>4. CASE Take(t)
    BY <2>4 DEF Take
  <2>5. CASE Execute(t)
    BY <2>5 DEF Execute
  <2>6. CASE Pop(t)
    BY <2>6 DEF Pop, HandsInv, OneThread, Looking
  <2> QED
    BY <1>5, <2>1, <2>2, <2>3, <2>4, <2>5, <2>6 DEF ThreadStep
<1>6. CASE Close
  BY <1>6 DEF Close
<1>7. CASE Closed
  BY <1>7 DEF Closed
<1>8. CASE UNCHANGED vars
  BY <1>8 DEF vars
<1> QED
  BY <1>1, <1>2, <1>3, <1>4, <1>5, <1>6, <1>7, <1>8, Zenon DEF Next, Ended

THEOREM AsyncInvAlways == Spec => []AsyncInv
<1>1. AsyncInv /\ [Next]_vars => AsyncInv'
  BY TypeStep, HandsStep, QueueStep, QuietStep DEF AsyncInv
<1> QED
  BY InitAsyncInv, <1>1, PTL DEF Spec

-----------------------------------------------------------------------------
(* Type correctness. *)
THEOREM TypeCorrect == Spec => []TypeOK
<1>1. AsyncInv => TypeOK
  BY DEF AsyncInv
<1> QED
  BY AsyncInvAlways, <1>1, PTL

(* Never two threads, never none while `started' says that there is one. *)
THEOREM OneThreadAlways == Spec => []OneThread
<1>1. AsyncInv => OneThread
  BY DEF AsyncInv, HandsInv
<1> QED
  BY AsyncInvAlways, <1>1, PTL

(* Each task is executed once, in the order of add_task(). *)
THEOREM ExecutedInOrder == Spec => []InOrder
<1>1. AsyncInv => InOrder
  BY DEF AsyncInv
<1> QED
  BY AsyncInvAlways, <1>1, PTL

(* What pause_and_get_group_status() answers can be relied on. *)
THEOREM PauseCorrect == Spec => []PausedGroupIsQuiet
<1>1. AsyncInv => PausedGroupIsQuiet
  BY DEF AsyncInv, QuietInv
<1> QED
  BY AsyncInvAlways, <1>1, PTL

(* The object is destroyed after its last thread. *)
THEOREM DestroyedLast == Spec => []NoThreadAfterClose
<1>1. AsyncInv => NoThreadAfterClose
  <2> SUFFICES ASSUME AsyncInv, closer = "closed", NEW t \in Threads PROVE thread[t] = "none"
    BY DEF NoThreadAfterClose, Alive
  <2>1. thread[t] # "wake"
    BY AsyncFsAssumption DEF AsyncInv, HandsInv, Holding, Closing, AsyncFsAssumption
  <2>2. t \notin Looking
    BY DEF AsyncInv, HandsInv, OneThread, Closing
  <2> QED
    BY <2>1, <2>2 DEF AsyncInv, TypeOK, Looking
<1> QED
  BY AsyncInvAlways, <1>1, PTL

-----------------------------------------------------------------------------
(***************************************************************************)
(* Configuration files.                                                    *)
(***************************************************************************)

(* Nothing is newer than the write that is on or was the last one ... *)
RecentDirectory(d) == /\ d.main # Absent => d.main <= version /\ d.main # d.tmp
                      /\ d.tmp # Absent => d.tmp <= version
                      /\ d.committed # Absent => d.committed <= version

RecentContents(i) == /\ data[i] # Broken => data[i] <= version
                     /\ stored[i] # Broken => stored[i] <= version

Recent == /\ \A d \in OnDisk : RecentDirectory(d)
          /\ \A i \in Inodes : RecentContents(i)

(* ... and the inodes it may create are new on the disk too. *)
Unused(i) == /\ data[i] = Broken /\ stored[i] = Broken
             /\ \A d \in OnDisk : d.main # i /\ d.tmp # i

NewInodes == /\ \A i \in Inodes : i > version => Unused(i)
             /\ pc = "open" /\ tmp = Absent => Unused(version)

(* A copy is made in a new inode ... *)
Copying == /\ main = version /\ tmp # Absent
           /\ data[main] = Broken
           /\ {main, tmp} \subseteq recovered
           /\ \A d \in Range(earlier) : d.main # main /\ d.tmp # main

(* ... and end_writing() is reached with a complete temporary file. *)
InStep == /\ pc = "copy" => Copying
          /\ pc = "open" => ~ReadsTmp
          /\ pc = "write" => tmp # Absent
          /\ pc \in {"commit", "rename"} =>
                 tmp # Absent /\ data[tmp] = version /\ (Synced => stored[tmp] = version)
          /\ pc = "rename" => main = Absent

(* A temporary file that is about to be written over was the one to read in a
   directory the disk may hold only if it has been copied. *)
Superseded == main # Absent /\ tmp # Absent =>
                  \A d \in OnDisk : Chosen(d) = tmp => tmp \in recovered

ConfigInv == ConfigTypeOK /\ Recent /\ NewInodes /\ InStep /\ Superseded

AtLeast(c, v) == c # Absent /\ v # Broken => v >= c

(* What a reader of inode i obtains after a crash of the system: the version
   committed last or a newer one, if i is not part of a recovery. *)
HoldsIn(i, c) == /\ i # Absent
                 /\ AtLeast(c, data[i]) /\ AtLeast(c, stored[i])
                 /\ i \notin recovered => data[i] # Broken /\ stored[i] = data[i]

Holds(d) == d.committed # Absent => HoldsIn(Chosen(d), d.committed)

(* The steps of a writer that flushes keep what was committed, in every
   directory that the disk may hold, and copy nothing older. *)
Kept == /\ \A d \in OnDisk : Holds(d)
        /\ pc = "copy" => AtLeast(committed, data[tmp])

ConfigInvKept == ConfigInv /\ Kept

-----------------------------------------------------------------------------
(* The directories that the disk may hold: a step adds the present one to
   them, or none. *)

LEMMA PresentOnDisk == Directory \in OnDisk
BY DEF OnDisk

LEMMA DirectoryType == ConfigTypeOK => Directory \in Directories
BY DEF ConfigTypeOK, Directory, Directories

LEMMA DirectoryAdded ==
  ASSUME earlier \in Seq(Directories), Directory \in Directories, DirectoryChanges
  PROVE  /\ earlier' \in Seq(Directories)
         /\ Range(earlier') = OnDisk
<1>1. /\ earlier' = Append(earlier, Directory)
      /\ Len(earlier) \in Nat
  BY DEF DirectoryChanges
<1>2. /\ Len(earlier') = Len(earlier) + 1
      /\ \A k \in 1..Len(earlier) : earlier'[k] = earlier[k]
      /\ earlier'[Len(earlier) + 1] = Directory
  BY <1>1
<1>3. earlier' \in Seq(Directories)
  BY <1>1
<1>4. DOMAIN earlier = 1..Len(earlier) /\ DOMAIN earlier' = 1..Len(earlier')
  BY <1>3
<1>5. ASSUME NEW d \in Range(earlier') PROVE d \in OnDisk
  <2>1. PICK k \in 1..Len(earlier') : d = earlier'[k]
    BY <1>5, <1>4 DEF Range
  <2>2. CASE k = Len(earlier) + 1
    BY <2>1, <2>2, <1>2 DEF OnDisk
  <2>3. CASE k # Len(earlier) + 1
    <3>1. k \in 1..Len(earlier)
      BY <2>3, <1>1, <1>2
    <3> QED
      BY <2>1, <3>1, <1>2, <1>4 DEF OnDisk, Range
  <2> QED
    BY <2>2, <2>3
<1>6. ASSUME NEW d \in OnDisk PROVE d \in Range(earlier')
  <2>1. CASE d = Directory
    <3>1. Len(earlier) + 1 \in 1..Len(earlier')
      BY <1>1, <1>2
    <3> QED
      BY <3>1, <2>1, <1>2, <1>4 DEF Range
  <2>2. CASE d \in Range(earlier)
    <3>1. PICK k \in 1..Len(earlier) : d = earlier[k]
      BY <2>2, <1>4 DEF Range
    <3>2. k \in 1..Len(earlier')
      BY <1>1, <1>2
    <3> QED
      BY <3>1, <3>2, <1>2, <1>4 DEF Range
  <2> QED
    BY <2>1, <2>2, <1>6 DEF OnDisk
<1> QED
  BY <1>3, <1>5, <1>6

LEMMA DirectoryWritten ==
  ASSUME earlier \in Seq(Directories), NEW n \in 1..Len(earlier),
         earlier' = SubSeq(earlier, n + 1, Len(earlier))
  PROVE  /\ earlier' \in Seq(Directories)
         /\ Range(earlier') \subseteq Range(earlier)
<1>1. /\ Len(earlier) \in Nat
      /\ Len(earlier') = Len(earlier) - n
      /\ \A k \in 1..(Len(earlier) - n) : earlier'[k] = earlier[n + k]
  OBVIOUS
<1>2. earlier' \in Seq(Directories)
  OBVIOUS
<1>3. DOMAIN earlier = 1..Len(earlier) /\ DOMAIN earlier' = 1..Len(earlier')
  BY <1>2
<1>4. ASSUME NEW d \in Range(earlier') PROVE d \in Range(earlier)
  <2>1. PICK k \in 1..(Len(earlier) - n) : d = earlier'[k]
    BY <1>4, <1>1, <1>3 DEF Range
  <2>2. n + k \in 1..Len(earlier)
    BY <1>1
  <2> QED
    BY <2>1, <2>2, <1>1, <1>3 DEF Range
<1> QED
  BY <1>2, <1>4

LEMMA NothingEarlier == earlier' = <<>> => OnDisk' = {Directory'}
<1> SUFFICES ASSUME earlier' = <<>> PROVE OnDisk' = {Directory'}
  OBVIOUS
<1>1. Range(earlier') = {}
  BY DEF Range
<1> QED
  BY <1>1 DEF OnDisk

(* The step that adds the directory, the step that does not change it, and
   the two steps of the system. *)
OnDiskStep == /\ earlier' \in Seq(Directories)
              /\ OnDisk' \subseteq OnDisk \cup {Directory'}
              /\ Range(earlier') \subseteq OnDisk

LEMMA OnDiskStepped ==
  ASSUME ConfigTypeOK, [ConfigNext]_configVars
  PROVE  OnDiskStep
<1>1. Directory \in Directories /\ earlier \in Seq(Directories)
  BY DirectoryType DEF ConfigTypeOK
<1>2. CASE DirectoryChanges
  BY <1>1, <1>2, DirectoryAdded DEF OnDiskStep, OnDisk
<1>3. CASE UNCHANGED earlier
  BY <1>1, <1>3 DEF OnDiskStep, OnDisk
<1>4. CASE WriteBack
  <2>1. PICK n \in 1..Len(earlier) : earlier' = SubSeq(earlier, n + 1, Len(earlier))
    BY <1>4 DEF WriteBack
  <2> QED
    BY <2>1, <1>1, DirectoryWritten DEF OnDiskStep, OnDisk
<1>5. CASE PowerLoss
  <2>1. earlier' = <<>>
    BY <1>5 DEF PowerLoss
  <2>2. Range(earlier') = {}
    BY <2>1 DEF Range
  <2> QED
    BY <2>1, <2>2 DEF OnDiskStep, OnDisk
<1>6. CASE \/ StartRecovery \/ FinishRecovery \/ StartWriting \/ CreateTmp \/ TruncateTmp
           \/ WriteTmp \/ RemoveMain \/ Rename \/ Erase \/ Interrupt \/ UNCHANGED configVars
  <2>1. DirectoryChanges \/ UNCHANGED earlier
    BY <1>6 DEF StartRecovery, FinishRecovery, StartWriting, CreateTmp, TruncateTmp, WriteTmp,
                RemoveMain, Rename, Erase, Interrupt, configVars
  <2> QED
    BY <2>1, <1>2, <1>3
<1> QED
  BY <1>4, <1>5, <1>6 DEF ConfigNext

(* A crash of the system leaves a directory that was on the disk, and inodes
   with what they contained or may have contained. *)
LEMMA PowerLossStep ==
  ASSUME ConfigTypeOK, PowerLoss
  PROVE  /\ Directory' \in OnDisk /\ OnDisk' = {Directory'}
         /\ data' \in [Inodes -> Contents] /\ stored' = data'
         /\ \A i \in Inodes : /\ data'[i] \in {data[i], stored[i], Broken}
                              /\ data[i] = stored[i] => data'[i] = data[i]
         /\ pc' = "idle" /\ version' = version /\ recovered' = recovered
<1>1. PICK d \in OnDisk :
         \E old, torn \in SUBSET Unflushed :
         /\ main' = d.main /\ tmp' = d.tmp /\ committed' = d.committed
         /\ earlier' = <<>>
         /\ data' = [i \in Inodes |-> IF i \in torn THEN Broken
                                      ELSE IF i \in old THEN stored[i] ELSE data[i]]
         /\ stored' = data'
         /\ pc' = "idle"
         /\ UNCHANGED <<version, recovered>>
  BY DEF PowerLoss
<1>2. PICK old \in SUBSET Unflushed, torn \in SUBSET Unflushed :
         data' = [i \in Inodes |-> IF i \in torn THEN Broken
                                  ELSE IF i \in old THEN stored[i] ELSE data[i]]
  BY <1>1
<1>3. d \in Directories
  <2>1. \A e \in Range(earlier) : e \in Directories
    BY DEF ConfigTypeOK, Range
  <2> QED
    BY <2>1, DirectoryType DEF OnDisk
<1>4. Directory' = d
  BY <1>1, <1>3 DEF Directory, Directories
<1>5. /\ data' \in [Inodes -> Contents]
      /\ \A i \in Inodes : /\ data'[i] \in {data[i], stored[i], Broken}
                           /\ data[i] = stored[i] => data'[i] = data[i]
  BY <1>2 DEF ConfigTypeOK, Contents, Unflushed
<1> QED
  BY <1>1, <1>4, <1>5, NothingEarlier

-----------------------------------------------------------------------------
(* What the steps preserve, whatever the caller and the crashes do. *)

LEMMA ConfigTypeStep ==
  ASSUME ConfigTypeOK, InStep, [ConfigNext]_configVars
  PROVE  ConfigTypeOK'
<1> USE ConfigFileAssumption DEF ConfigFileAssumption
<1>1. earlier' \in Seq(Directories)
  BY OnDiskStepped DEF OnDiskStep
<1>2. Directory \in Directories
  BY DirectoryType
<1> USE <1>1 DEF ConfigTypeOK, InStep, Inodes, Contents, Steps
<1>3. CASE StartRecovery
  <2>1. version' \in Inodes /\ main' \in Inodes /\ tmp \in Inodes
    BY <1>3 DEF StartRecovery, ReadsTmp
  <2>2. recovered' \subseteq Inodes
    BY <1>3, <2>1 DEF StartRecovery
  <2> QED
    BY <1>3, <2>1, <2>2 DEF StartRecovery
<1>4. CASE FinishRecovery
  BY <1>4 DEF FinishRecovery, Copying
<1>5. CASE StartWriting
  BY <1>5 DEF StartWriting
<1>6. CASE CreateTmp
  BY <1>6 DEF CreateTmp
<1>7. CASE TruncateTmp
  BY <1>7 DEF TruncateTmp
<1>8. CASE WriteTmp
  BY <1>8 DEF WriteTmp
<1>9. CASE RemoveMain
  BY <1>9 DEF RemoveMain
<1>10. CASE Rename
  BY <1>10 DEF Rename
<1>11. CASE Erase
  BY <1>11 DEF Erase
<1>12. CASE Interrupt
  BY <1>12 DEF Interrupt
<1>13. CASE WriteBack
  BY <1>13 DEF WriteBack
<1>14. CASE PowerLoss
  <2>1. Directory' \in Directories
    <3>1. \A e \in Range(earlier) : e \in Directories
      BY DEF Range
    <3> QED
      BY <3>1, <1>2, <1>14, PowerLossStep DEF OnDisk
  <2>2. /\ main' \in Inodes \cup {Absent} /\ tmp' \in Inodes \cup {Absent}
        /\ committed' \in Nat \cup {Absent}
    BY <2>1 DEF Directory, Directories
  <2>3. /\ data' \in [Inodes -> Contents] /\ stored' = data'
        /\ pc' = "idle" /\ version' = version /\ recovered' = recovered
    BY <1>14, PowerLossStep
  <2>4. clean' \in BOOLEAN
    BY <1>14 DEF PowerLoss
  <2> QED
    BY <2>2, <2>3, <2>4
<1>15. CASE UNCHANGED configVars
  BY <1>15 DEF configVars
<1> QED
  BY <1>3, <1>4, <1>5, <1>6, <1>7, <1>8, <1>9, <1>10,
     <1>11, <1>12, <1>13, <1>14, <1>15 DEF ConfigNext

LEMMA OnDiskType == ConfigTypeOK => \A d \in OnDisk : d \in Directories
<1> SUFFICES ASSUME ConfigTypeOK, NEW d \in OnDisk PROVE d \in Directories
  OBVIOUS
<1>1. \A e \in Range(earlier) : e \in Directories
  BY DEF ConfigTypeOK, Range
<1> QED
  BY <1>1, DirectoryType DEF OnDisk

LEMMA RecentStep ==
  ASSUME ConfigInv, ConfigTypeOK', [ConfigNext]_configVars
  PROVE  Recent'
<1> USE ConfigFileAssumption DEF ConfigFileAssumption
<1> USE DEF ConfigTypeOK, Inodes, Contents
<1> ConfigTypeOK
  BY DEF ConfigInv
<1>1. /\ main # Absent => main <= version /\ main # tmp
      /\ tmp # Absent => tmp <= version
      /\ committed # Absent => committed <= version
  BY PresentOnDisk DEF ConfigInv, Recent, RecentDirectory, Directory
<1>2. \A i \in Inodes : RecentContents(i)
  BY DEF ConfigInv, Recent
<1>3. InStep /\ (pc = "open" /\ tmp = Absent => main # version)
  BY PresentOnDisk DEF ConfigInv, NewInodes, Unused, Directory
<1>4. version <= version'
  BY DEF ConfigNext, configVars, StartRecovery, FinishRecovery, StartWriting, CreateTmp,
         TruncateTmp, WriteTmp, RemoveMain, Rename, Erase, Interrupt, WriteBack, PowerLoss
<1>5. /\ main' # Absent => main' <= version' /\ main' # tmp'
      /\ tmp' # Absent => tmp' <= version'
      /\ committed' # Absent => committed' <= version'
  <2> USE <1>1
  <2>1. CASE StartRecovery
    BY <2>1 DEF StartRecovery
  <2>2. CASE FinishRecovery
    BY <2>2 DEF FinishRecovery
  <2>3. CASE StartWriting
    BY <2>3 DEF StartWriting
  <2>4. CASE CreateTmp
    BY <2>4, <1>3 DEF CreateTmp
  <2>5. CASE TruncateTmp
    BY <2>5 DEF TruncateTmp
  <2>6. CASE WriteTmp
    BY <2>6 DEF WriteTmp
  <2>7. CASE RemoveMain
    BY <2>7 DEF RemoveMain
  <2>8. CASE Rename
    BY <2>8, <1>3 DEF Rename, InStep
  <2>9. CASE Erase
    BY <2>9 DEF Erase
  <2>10. CASE Interrupt
    BY <2>10 DEF Interrupt
  <2>11. CASE WriteBack
    BY <2>11 DEF WriteBack
  <2>12. CASE PowerLoss
    <3>1. Directory' \in OnDisk /\ version' = version
      BY <2>12, PowerLossStep
    <3>2. RecentDirectory(Directory')
      BY <3>1 DEF ConfigInv, Recent
    <3> QED
      BY <3>1, <3>2 DEF RecentDirectory, Directory
  <2>13. CASE UNCHANGED configVars
    BY <2>13 DEF configVars
  <2> QED
    BY <2>1, <2>2, <2>3, <2>4, <2>5, <2>6, <2>7, <2>8,
       <2>9, <2>10, <2>11, <2>12, <2>13 DEF ConfigNext
<1>6. ASSUME NEW d \in OnDisk' PROVE RecentDirectory(d)'
  <2>1. CASE d \in OnDisk
    <3>1. RecentDirectory(d) /\ d \in Directories
      BY <2>1, OnDiskType DEF ConfigInv, Recent
    <3> QED
      BY <3>1, <1>4 DEF RecentDirectory, Directories
  <2>2. CASE d = Directory'
    BY <2>2, <1>5 DEF RecentDirectory, Directory
  <2> QED
    BY <2>1, <2>2, OnDiskStepped DEF ConfigInv, OnDiskStep
<1>7. ASSUME NEW i \in Inodes PROVE RecentContents(i)'
  <2> USE <1>2, <1>4 DEF RecentContents
  <2>1. CASE StartRecovery
    BY <2>1 DEF StartRecovery
  <2>2. CASE FinishRecovery
    BY <2>2, <1>3 DEF FinishRecovery, InStep, Copying
  <2>3. CASE StartWriting
    BY <2>3 DEF StartWriting
  <2>4. CASE CreateTmp
    BY <2>4 DEF CreateTmp
  <2>5. CASE TruncateTmp
    BY <2>5 DEF TruncateTmp
  <2>6. CASE WriteTmp
    BY <2>6 DEF WriteTmp
  <2>7. CASE RemoveMain
    BY <2>7 DEF RemoveMain
  <2>8. CASE Rename
    BY <2>8 DEF Rename
  <2>9. CASE Erase
    BY <2>9 DEF Erase
  <2>10. CASE Interrupt
    BY <2>10 DEF Interrupt
  <2>11. CASE WriteBack
    BY <2>11 DEF WriteBack
  <2>12. CASE PowerLoss
    <3>1. /\ data'[i] \in {data[i], stored[i], Broken} /\ stored'[i] = data'[i]
          /\ version' = version
      BY <2>12, PowerLossStep
    <3> QED
      BY <3>1
  <2>13. CASE UNCHANGED configVars
    BY <2>13 DEF configVars
  <2> QED
    BY <2>1, <2>2, <2>3, <2>4, <2>5, <2>6, <2>7, <2>8,
       <2>9, <2>10, <2>11, <2>12, <2>13 DEF ConfigNext
<1> QED
  BY <1>6, <1>7 DEF Recent, Inodes

LEMMA NewInodesStep ==
  ASSUME ConfigInv, ConfigTypeOK', Recent', [ConfigNext]_configVars
  PROVE  NewInodes'
<1> USE ConfigFileAssumption DEF ConfigFileAssumption
<1> USE DEF ConfigTypeOK, Inodes, Contents
<1> ConfigTypeOK
  BY DEF ConfigInv
<1>1. /\ main # Absent => main <= version
      /\ tmp # Absent => tmp <= version
  BY PresentOnDisk DEF ConfigInv, Recent, RecentDirectory, Directory
<1>2. InStep /\ \A i \in Inodes : i > version => data[i] = Broken /\ stored[i] = Broken
  BY DEF ConfigInv, NewInodes, Unused
<1>3. ASSUME NEW i \in Inodes, i > version' PROVE Unused(i)'
  <2>1. data'[i] = Broken /\ stored'[i] = Broken
    <3> USE <1>1, <1>2, <1>3
    <3>1. CASE StartRecovery
      BY <3>1 DEF StartRecovery
    <3>2. CASE FinishRecovery
      BY <3>2 DEF FinishRecovery, InStep, Copying
    <3>3. CASE StartWriting
      BY <3>3 DEF StartWriting
    <3>4. CASE CreateTmp
      BY <3>4 DEF CreateTmp
    <3>5. CASE TruncateTmp
      BY <3>5 DEF TruncateTmp
    <3>6. CASE WriteTmp
      BY <3>6 DEF WriteTmp, InStep
    <3>7. CASE RemoveMain
      BY <3>7 DEF RemoveMain
    <3>8. CASE Rename
      BY <3>8 DEF Rename
    <3>9. CASE Erase
      BY <3>9 DEF Erase
    <3>10. CASE Interrupt
      BY <3>10 DEF Interrupt
    <3>11. CASE WriteBack
      BY <3>11 DEF WriteBack
    <3>12. CASE PowerLoss
      BY <3>12, PowerLossStep
    <3>13. CASE UNCHANGED configVars
      BY <3>13 DEF configVars
    <3> QED
      BY <3>1, <3>2, <3>3, <3>4, <3>5, <3>6, <3>7, <3>8,
         <3>9, <3>10, <3>11, <3>12, <3>13 DEF ConfigNext
  <2>2. ASSUME NEW d \in OnDisk' PROVE d.main # i /\ d.tmp # i
    <3>1. RecentDirectory(d)'
      BY DEF Recent
    <3> QED
      BY <3>1, <1>3 DEF RecentDirectory
  <2> QED
    BY <2>1, <2>2 DEF Unused
<1>4. ASSUME NEW i \in Inodes, Unused(i), UNCHANGED <<main, tmp, committed, data, stored>>
      PROVE  Unused(i)'
  <2>1. Directory' = Directory
    BY <1>4 DEF Directory
  <2>2. \A d \in OnDisk' : d \in OnDisk
    BY <2>1, PresentOnDisk, OnDiskStepped DEF OnDiskStep
  <2> QED
    BY <1>4, <2>2 DEF Unused
<1>5. ASSUME (pc = "open" /\ tmp = Absent)' PROVE Unused(version)'
  <2> USE <1>5
  <2>1. CASE StartRecovery
    BY <2>1 DEF StartRecovery
  <2>2. CASE FinishRecovery
    BY <2>2, <1>2 DEF FinishRecovery, InStep, Copying
  <2>3. CASE StartWriting
    <3>1. version' \in Inodes /\ version' > version
      BY <2>3 DEF StartWriting
    <3>2. Unused(version')
      BY <3>1 DEF ConfigInv, NewInodes
    <3> QED
      BY <3>1, <3>2, <1>4, <2>3 DEF StartWriting, Unused
  <2>4. CASE CreateTmp
    BY <2>4 DEF CreateTmp
  <2>5. CASE TruncateTmp
    BY <2>5 DEF TruncateTmp
  <2>6. CASE WriteTmp
    BY <2>6 DEF WriteTmp
  <2>7. CASE RemoveMain
    BY <2>7 DEF RemoveMain
  <2>8. CASE Rename
    BY <2>8 DEF Rename
  <2>9. CASE Erase
    BY <2>9 DEF Erase
  <2>10. CASE Interrupt
    BY <2>10 DEF Interrupt
  <2>11. CASE WriteBack
    <3>1. Unused(version)
      BY <2>11 DEF WriteBack, ConfigInv, NewInodes
    <3> QED
      BY <3>1, <1>4, <2>11 DEF WriteBack, Unused
  <2>12. CASE PowerLoss
    BY <2>12, PowerLossStep
  <2>13. CASE UNCHANGED configVars
    <3>1. Unused(version)
      BY <2>13 DEF configVars, ConfigInv, NewInodes
    <3> QED
      BY <3>1, <1>4, <2>13 DEF configVars, Unused
  <2> QED
    BY <2>1, <2>2, <2>3, <2>4, <2>5, <2>6, <2>7, <2>8,
       <2>9, <2>10, <2>11, <2>12, <2>13 DEF ConfigNext
<1> QED
  BY <1>3, <1>5 DEF NewInodes, Inodes

LEMMA InStepStep ==
  ASSUME ConfigInv, ConfigTypeOK', [ConfigNext]_configVars
  PROVE  InStep'
<1> USE ConfigFileAssumption DEF ConfigFileAssumption
<1> USE DEF ConfigTypeOK, Inodes, Contents
<1> ConfigTypeOK /\ InStep
  BY DEF ConfigInv
<1> USE DEF InStep, ReadsTmp
<1>1. CASE StartRecovery
  <2>1. /\ pc' = "copy" /\ main' = version' /\ tmp' = tmp /\ tmp # Absent
        /\ {main', tmp} \subseteq recovered' /\ data' = data /\ committed' = committed
        /\ version' = version + 1 /\ version' \in Inodes /\ version' > version
    BY <1>1 DEF StartRecovery
  <2>2. Unused(version')
    BY <2>1 DEF ConfigInv, NewInodes
  <2>3. data'[main'] = Broken
    BY <2>1, <2>2 DEF Unused
  <2>4. \A d \in Range(earlier') : d.main # main' /\ d.tmp # main'
    BY <2>1, <2>2, OnDiskStepped DEF OnDiskStep, Unused
  <2> QED
    BY <2>1, <2>3, <2>4 DEF Copying
<1>2. CASE FinishRecovery
  BY <1>2 DEF FinishRecovery, Copying
<1>3. CASE StartWriting
  BY <1>3 DEF StartWriting
<1>4. CASE CreateTmp
  BY <1>4 DEF CreateTmp
<1>5. CASE TruncateTmp
  BY <1>5 DEF TruncateTmp
<1>6. CASE WriteTmp
  BY <1>6 DEF WriteTmp
<1>7. CASE RemoveMain
  BY <1>7 DEF RemoveMain
<1>8. CASE Rename
  BY <1>8 DEF Rename
<1>9. CASE Erase
  BY <1>9 DEF Erase
<1>10. CASE Interrupt
  BY <1>10 DEF Interrupt
<1>11. CASE WriteBack
  <2>1. Copying => Copying'
    <3>1. PICK n \in 1..Len(earlier) : earlier' = SubSeq(earlier, n + 1, Len(earlier))
      BY <1>11 DEF WriteBack
    <3>2. Range(earlier') \subseteq Range(earlier)
      BY <3>1, DirectoryWritten
    <3>3. \A d \in Range(earlier') : d \in Range(earlier)
      BY <3>2
    <3> QED
      BY <3>3, <1>11 DEF WriteBack, Copying
  <2> QED
    BY <2>1, <1>11 DEF WriteBack
<1>12. CASE PowerLoss
  BY <1>12, PowerLossStep
<1>13. CASE UNCHANGED configVars
  <2>1. Copying => Copying'
    BY <1>13 DEF configVars, Copying
  <2> QED
    BY <2>1, <1>13 DEF configVars
<1> QED
  BY <1>1, <1>2, <1>3, <1>4, <1>5, <1>6, <1>7, <1>8,
     <1>9, <1>10, <1>11, <1>12, <1>13 DEF ConfigNext

LEMMA SupersededStep ==
  ASSUME ConfigInv, ConfigTypeOK', Recent', [ConfigNext]_configVars
  PROVE  Superseded'
<1> SUFFICES ASSUME main' # Absent, tmp' # Absent,
                    NEW d \in OnDisk', Chosen(d) = tmp'
             PROVE  tmp' \in recovered'
  BY DEF Superseded, Chosen
<1> USE ConfigFileAssumption DEF ConfigFileAssumption
<1> USE DEF ConfigTypeOK, Inodes
<1> ConfigTypeOK /\ InStep
  BY DEF ConfigInv
<1>1. d # Directory'
  <2>1. main' # tmp'
    <3>1. Directory' \in OnDisk'
      BY DEF OnDisk
    <3>2. RecentDirectory(Directory)'
      BY <3>1 DEF Recent
    <3> QED
      BY <3>2 DEF RecentDirectory, Directory
  <2>2. Chosen(Directory') = main'
    BY DEF Chosen, Directory
  <2> QED
    BY <2>1, <2>2
<1>2. d \in OnDisk
  BY <1>1, OnDiskStepped DEF OnDiskStep
<1>3. main # Absent /\ tmp # Absent /\ Chosen(d) = tmp => tmp \in recovered
  BY <1>2 DEF ConfigInv, Superseded
<1> USE DEF InStep
<1>4. CASE StartRecovery
  BY <1>4 DEF StartRecovery
<1>5. CASE FinishRecovery
  BY <1>3, <1>5 DEF FinishRecovery, Copying
<1>6. CASE StartWriting
  BY <1>3, <1>6 DEF StartWriting
<1>7. CASE CreateTmp
  <2>1. Unused(version)
    BY <1>7 DEF CreateTmp, ConfigInv, NewInodes
  <2>2. Chosen(d) # version
    BY <2>1, <1>2 DEF Chosen, Unused
  <2> QED
    BY <2>2, <1>7 DEF CreateTmp
<1>8. CASE TruncateTmp
  BY <1>3, <1>8 DEF TruncateTmp
<1>9. CASE WriteTmp
  BY <1>3, <1>9 DEF WriteTmp
<1>10. CASE RemoveMain
  BY <1>10 DEF RemoveMain
<1>11. CASE Rename
  BY <1>11 DEF Rename
<1>12. CASE Erase
  BY <1>12 DEF Erase
<1>13. CASE Interrupt
  BY <1>3, <1>13 DEF Interrupt
<1>14. CASE WriteBack
  BY <1>3, <1>14 DEF WriteBack
<1>15. CASE PowerLoss
  BY <1>15, <1>1, PowerLossStep
<1>16. CASE UNCHANGED configVars
  BY <1>3, <1>16 DEF configVars
<1> QED
  BY <1>4, <1>5, <1>6, <1>7, <1>8, <1>9, <1>10, <1>11,
     <1>12, <1>13, <1>14, <1>15, <1>16 DEF ConfigNext

LEMMA ConfigInvInductive == ConfigSpec => []ConfigInv
<1>1. ConfigInit => ConfigInv
  <2> SUFFICES ASSUME ConfigInit PROVE ConfigInv
    OBVIOUS
  <2> USE ConfigFileAssumption DEF ConfigFileAssumption
  <2>1. main = Absent \/ main = 0
    BY DEF ConfigInit
  <2>2. 0 \in Inodes
    BY DEF Inodes
  <2>3. /\ data \in [Inodes -> Contents] /\ stored = data
        /\ \A i \in Inodes : data[i] = IF i = 0 THEN 0 ELSE Broken
    BY DEF ConfigInit, Contents
  <2>4. ConfigTypeOK
    BY <2>1, <2>2, <2>3 DEF ConfigInit, ConfigTypeOK, Steps, Inodes
  <2>5. \A d \in OnDisk : d = Directory
    BY DEF ConfigInit, OnDisk, Range
  <2>6. Recent
    <3>1. RecentDirectory(Directory)
      BY <2>1 DEF ConfigInit, RecentDirectory, Directory
    <3>2. \A i \in Inodes : RecentContents(i)
      BY <2>3 DEF ConfigInit, RecentContents
    <3> QED
      BY <3>1, <3>2, <2>5 DEF Recent
  <2>7. NewInodes
    <3>1. ASSUME NEW i \in Inodes, i > version PROVE Unused(i)
      <4>1. i # 0
        BY <3>1 DEF ConfigInit
      <4> QED
        BY <4>1, <2>1, <2>3, <2>5 DEF ConfigInit, Unused, Directory, Inodes
    <3> QED
      BY <3>1 DEF NewInodes, ConfigInit
  <2>8. InStep /\ Superseded
    BY DEF ConfigInit, InStep, Superseded
  <2> QED
    BY <2>4, <2>6, <2>7, <2>8 DEF ConfigInv
<1>2. ConfigInv /\ [ConfigNext]_configVars => ConfigInv'
  <2> SUFFICES ASSUME ConfigInv, [ConfigNext]_configVars PROVE ConfigInv'
    OBVIOUS
  <2>1. ConfigTypeOK'
    BY ConfigTypeStep DEF ConfigInv
  <2>2. Recent'
    BY <2>1, RecentStep
  <2>3. NewInodes' /\ InStep' /\ Superseded'
    BY <2>1, <2>2, NewInodesStep, InStepStep, SupersededStep
  <2> QED
    BY <2>1, <2>2, <2>3 DEF ConfigInv
<1> QED
  BY <1>1, <1>2, PTL DEF ConfigSpec

(* Every variable always has its type. *)
THEOREM ConfigTypeCorrect == ConfigSpec => []ConfigTypeOK
BY ConfigInvInductive, PTL DEF ConfigInv

LEMMA KeptStep ==
  ASSUME Synced, ConfigInvKept, ConfigInv', [ConfigNext]_configVars
  PROVE  Kept'
<1> USE ConfigFileAssumption DEF ConfigFileAssumption
<1> ConfigTypeOK /\ InStep
  BY DEF ConfigInv, ConfigInvKept
<1>1. \A d \in OnDisk : Holds(d) /\ RecentDirectory(d) /\ d \in Directories
  BY OnDiskType DEF ConfigInvKept, Kept, ConfigInv, Recent
<1>2. RecentDirectory(Directory) /\ Holds(Directory) /\ Directory \in Directories
  BY <1>1, PresentOnDisk
(* A directory the disk may hold leads to the same or to something newer. *)
<1>3. ASSUME NEW d \in OnDisk, d.committed # Absent
      PROVE  HoldsIn(Chosen(d), d.committed)'
  <2> Chosen(d) \in Inodes /\ d.committed \in Nat
    BY <1>1, <1>3 DEF Holds, HoldsIn, Chosen, Directories
  <2> SUFFICES ASSUME NEW i \in Inodes, NEW c \in Nat, i = Chosen(d), c = d.committed
               PROVE  HoldsIn(i, c)'
    BY DEF HoldsIn, AtLeast, Chosen
  <2>1. HoldsIn(i, c) /\ c <= version /\ i # Absent
    BY <1>1, <1>3 DEF Holds, HoldsIn, RecentDirectory
  <2> USE <2>1 DEF HoldsIn, AtLeast, ConfigTypeOK
  <2>2. CASE StartRecovery
    BY <2>2 DEF StartRecovery
  <2>3. CASE FinishRecovery
    <3>1. i = main => c = committed
      BY <2>3 DEF FinishRecovery, InStep, Copying, OnDisk, Directory, Chosen
    <3>2. main \in recovered /\ AtLeast(committed, data[tmp]) /\ tmp \in Inodes
      BY <2>3 DEF FinishRecovery, InStep, Copying, ConfigInvKept, Kept
    <3> QED
      BY <3>1, <3>2, <2>3 DEF FinishRecovery
  <2>4. CASE StartWriting
    BY <2>4 DEF StartWriting
  <2>5. CASE CreateTmp
    BY <2>5 DEF CreateTmp
  <2>6. CASE TruncateTmp
    <3>1. i = tmp => tmp \in recovered
      BY <2>6 DEF TruncateTmp, InStep, ReadsTmp, ConfigInvKept, ConfigInv, Superseded
    <3> QED
      BY <3>1, <2>6 DEF TruncateTmp
  <2>7. CASE WriteTmp
    BY <2>7 DEF WriteTmp, Inodes
  <2>8. CASE RemoveMain
    BY <2>8 DEF RemoveMain
  <2>9. CASE Rename
    BY <2>9 DEF Rename
  <2>10. CASE Erase
    BY <2>10 DEF Erase
  <2>11. CASE Interrupt
    BY <2>11 DEF Interrupt
  <2>12. CASE WriteBack
    BY <2>12 DEF WriteBack
  <2>13. CASE PowerLoss
    <3>1. /\ data'[i] \in {data[i], stored[i], Broken} /\ stored' = data'
          /\ data[i] = stored[i] => data'[i] = data[i]
          /\ recovered' = recovered
      BY <2>13, PowerLossStep
    <3> QED
      BY <3>1
  <2>14. CASE UNCHANGED configVars
    BY <2>14 DEF configVars
  <2> QED
    BY <2>2, <2>3, <2>4, <2>5, <2>6, <2>7, <2>8, <2>9,
       <2>10, <2>11, <2>12, <2>13, <2>14 DEF ConfigNext
<1>4. ASSUME Directory' \in OnDisk PROVE Holds(Directory)'
  BY <1>3, <1>4 DEF Holds
(* The directory that the step makes leads to a version newer than what is
   reported, or to the one it led to before. *)
<1>5. Holds(Directory)'
  <2> SUFFICES ASSUME committed' # Absent
               PROVE  HoldsIn(Chosen(Directory), Directory.committed)'
    BY DEF Holds, Directory
  <2>1. CASE UNCHANGED <<main, tmp, committed>>
    <3>1. Directory' = Directory
      BY <2>1 DEF Directory
    <3> QED
      BY <3>1, <1>4, PresentOnDisk DEF Holds, Directory
  <2>2. CASE PowerLoss
    BY <2>2, <1>4, PowerLossStep DEF Holds, Directory
  <2>3. CASE StartRecovery
    <3>1. /\ main' = version' /\ data' = data /\ stored' = stored /\ main' \in recovered'
          /\ version' \in Inodes /\ version' > version
      BY <2>3 DEF StartRecovery, ConfigTypeOK, Inodes
    <3>2. Unused(main')
      BY <3>1 DEF ConfigInvKept, ConfigInv, NewInodes
    <3>3. Chosen(Directory)' = main' /\ main' # Absent
      BY <3>1 DEF Chosen, Directory, Inodes
    <3> QED
      BY <3>1, <3>2, <3>3 DEF HoldsIn, AtLeast, Unused
  <2>4. CASE CreateTmp
    <3>1. committed # Absent /\ committed' = committed
      BY <2>4 DEF CreateTmp
    <3>2. HoldsIn(Chosen(Directory), committed)
      BY <3>1, <1>2 DEF Holds, Directory
    <3>3. main # Absent
      BY <2>4, <3>2 DEF CreateTmp, HoldsIn, Chosen, Directory
    <3>4. Chosen(Directory)' = Chosen(Directory)
      BY <2>4, <3>3 DEF CreateTmp, Chosen, Directory
    <3>5. Directory.committed' = committed
      BY <3>1 DEF Directory
    <3> QED
      BY <3>2, <3>4, <3>5, <2>4 DEF CreateTmp, HoldsIn, AtLeast
  <2>5. CASE RemoveMain
    <3>1. Chosen(Directory)' = tmp /\ Directory.committed' = committed
      BY <2>5 DEF RemoveMain, Chosen, Directory
    <3>2. tmp # Absent /\ data'[tmp] = version /\ stored'[tmp] = version
      BY <2>5 DEF RemoveMain, InStep
    <3>3. committed # Absent => committed <= version
      BY <1>2 DEF RecentDirectory, Directory
    <3> QED
      BY <3>1, <3>2, <3>3 DEF HoldsIn, AtLeast, ConfigTypeOK, Inodes
  <2>6. CASE Rename
    <3>1. tmp # Absent /\ data'[tmp] = version /\ stored'[tmp] = version
      BY <2>6 DEF Rename, InStep
    <3>2. Chosen(Directory)' = tmp /\ Directory.committed' = version
      BY <2>6, <3>1 DEF Rename, Chosen, Directory
    <3> QED
      BY <3>1, <3>2 DEF HoldsIn, AtLeast, ConfigTypeOK, Inodes
  <2>7. CASE Erase
    BY <2>7 DEF Erase
  <2> QED
    BY <2>1, <2>2, <2>3, <2>4, <2>5, <2>6, <2>7
       DEF ConfigNext, FinishRecovery, StartWriting, TruncateTmp, WriteTmp, Interrupt,
           WriteBack, configVars
<1>6. (pc = "copy" => AtLeast(committed, data[tmp]))'
  <2> SUFFICES ASSUME pc' = "copy" PROVE AtLeast(committed, data[tmp])'
    OBVIOUS
  <2>1. CASE StartRecovery
    <3>1. Chosen(Directory) = tmp /\ Directory.committed = committed
      BY <2>1 DEF StartRecovery, ReadsTmp, Chosen, Directory
    <3>2. AtLeast(committed, data[tmp])
      BY <3>1, <1>2 DEF Holds, HoldsIn, AtLeast
    <3> QED
      BY <3>2, <2>1 DEF StartRecovery, AtLeast
  <2>2. CASE WriteBack \/ UNCHANGED configVars
    <3>1. pc = "copy" /\ data' = data /\ tmp' = tmp /\ committed' = committed
      BY <2>2 DEF WriteBack, configVars
    <3> QED
      BY <3>1 DEF ConfigInvKept, Kept, AtLeast
  <2> QED
    BY <2>1, <2>2, PowerLossStep
       DEF ConfigNext, FinishRecovery, StartWriting, CreateTmp, TruncateTmp, WriteTmp,
           RemoveMain, Rename, Erase, Interrupt, ConfigTypeOK
<1> QED
  BY <1>3, <1>5, <1>6, OnDiskStepped DEF Kept, Holds, OnDiskStep

LEMMA KeptAlways == ASSUME Synced PROVE ConfigSpec => []ConfigInvKept
<1>1. ConfigInit => Kept
  <2> SUFFICES ASSUME ConfigInit PROVE Kept
    OBVIOUS
  <2> USE ConfigFileAssumption DEF ConfigFileAssumption
  <2>1. \A d \in OnDisk : d = Directory
    BY DEF ConfigInit, OnDisk, Range
  <2>2. Holds(Directory)
    <3>1. committed # Absent => main = 0 /\ committed = 0
      BY DEF ConfigInit
    <3>2. 0 \in Inodes /\ data[0] = 0 /\ stored[0] = 0
      BY DEF ConfigInit, Inodes
    <3> QED
      BY <3>1, <3>2 DEF Holds, HoldsIn, AtLeast, Chosen, Directory
  <2> QED
    BY <2>1, <2>2 DEF Kept, ConfigInit
<1>2. Kept /\ ConfigInv /\ ConfigInv' /\ [ConfigNext]_configVars => Kept'
  BY KeptStep DEF ConfigInvKept
<1> QED
  BY <1>1, <1>2, ConfigInvInductive, PTL DEF ConfigSpec, ConfigInvKept

(* What start_reading() leads to, name by name. *)
LEMMA LoadedIs == Loaded = Obtained(IF main = Absent THEN tmp ELSE main)
BY DEF Loaded, Chosen, Directory

(* A caller that flushes the temporary file never loses a version whose write
   was reported as successful in a directory that the disk has got, unless a
   crash strikes the copy that repairs an interrupted commit: start_writing(),
   sync_file() and end_writing() protect the file. *)
THEOREM CommittedNeverLost == ASSUME Synced PROVE ConfigSpec => []CommittedSurvives
<1>1. ConfigInvKept => CommittedSurvives
  <2> SUFFICES ASSUME ConfigInvKept, committed # Absent, ~Torn, pc # "copy"
               PROVE  Intact
    BY DEF CommittedSurvives
  <2> DEFINE i == Chosen(Directory)
  <2>1. HoldsIn(i, committed)
    BY PresentOnDisk DEF ConfigInvKept, Kept, Holds, Directory
  <2>2. i \in Inodes
    BY <2>1, DirectoryType DEF HoldsIn, Chosen, Directories, ConfigInvKept, ConfigInv
  <2>3. data[i] # Broken
    BY <2>1, <2>2 DEF HoldsIn, Torn, Loaded, Obtained
  <2> QED
    BY <2>1, <2>2, <2>3
       DEF HoldsIn, AtLeast, Intact, Loaded, Obtained, ConfigInvKept, ConfigInv, ConfigTypeOK,
           Contents
<1> QED
  BY <1>1, KeptAlways, PTL

LEMMA LastingStep ==
  ASSUME ConfigTypeOK
  PROVE  /\ DirectoryChanges => Lasting' = Lasting \cup {committed'}
         /\ UNCHANGED <<earlier, committed>> => Lasting' = Lasting
         /\ WriteBack => Lasting' \subseteq Lasting /\ committed' \in Lasting'
         /\ PowerLoss => committed' \in Lasting /\ Lasting' = {committed'}
         /\ committed \in Lasting
<1>1. Directory \in Directories /\ earlier \in Seq(Directories)
  BY DirectoryType DEF ConfigTypeOK
<1>2. /\ Lasting = {d.committed : d \in Range(earlier)} \cup {committed}
      /\ Lasting' = {d.committed : d \in Range(earlier')} \cup {committed'}
  <2>1. /\ Directory.committed = committed
        /\ Directory'.committed = committed'
    BY DEF Directory
  <2>2. /\ OnDisk = Range(earlier) \cup {Directory}
        /\ OnDisk' = Range(earlier') \cup {Directory'}
    BY DEF OnDisk
  <2>3. ASSUME NEW E, NEW D PROVE {d.committed : d \in E \cup {D}} =
                                  {d.committed : d \in E} \cup {D.committed}
    OBVIOUS
  <2> QED
    BY <2>1, <2>2, <2>3 DEF Lasting
<1>3. ASSUME DirectoryChanges PROVE Lasting' = Lasting \cup {committed'}
  <2>1. Range(earlier') = OnDisk
    BY <1>1, <1>3, DirectoryAdded
  <2> QED
    BY <2>1, <1>2 DEF Lasting
<1>4. ASSUME WriteBack PROVE Lasting' \subseteq Lasting
  <2>1. PICK n \in 1..Len(earlier) : earlier' = SubSeq(earlier, n + 1, Len(earlier))
    BY <1>4 DEF WriteBack
  <2>2. Range(earlier') \subseteq Range(earlier)
    BY <2>1, <1>1, DirectoryWritten
  <2>3. committed' = committed
    BY <1>4 DEF WriteBack
  <2> QED
    BY <2>2, <2>3, <1>2
<1>5. ASSUME PowerLoss PROVE committed' \in Lasting /\ Lasting' = {committed'}
  <2>1. Directory' \in OnDisk /\ OnDisk' = {Directory'}
    BY <1>5, PowerLossStep
  <2>2. Directory'.committed = committed'
    BY DEF Directory
  <2> QED
    BY <2>1, <2>2 DEF Lasting
<1>6. UNCHANGED <<earlier, committed>> => Lasting' = Lasting
  BY <1>2
<1> QED
  BY <1>2, <1>3, <1>4, <1>5, <1>6

LEMMA RefinedStep ==
  ASSUME ConfigInvKept, ConfigInvKept', [ConfigNext]_configVars, ~Torn, ~Torn'
  PROVE  [File!Next]_File!vars
<1> USE ConfigFileAssumption DEF ConfigFileAssumption
<1> ConfigTypeOK /\ InStep /\ ConfigTypeOK' /\ InStep'
  BY DEF ConfigInv, ConfigInvKept
<1> DEFINE Read == IF main = Absent THEN tmp ELSE main
<1>1. /\ Value = IF pc = "copy" /\ data[tmp] # Broken THEN data[tmp] ELSE Obtained(Read)
      /\ Value' = (IF pc = "copy" /\ data[tmp] # Broken THEN data[tmp] ELSE Obtained(Read))'
  <2>1. Loaded = Obtained(Read) /\ Loaded' = Obtained(Read)'
    BY DEF Loaded, Chosen, Directory
  <2> QED
    BY <2>1 DEF Value
<1>2. RecentDirectory(Directory) /\ Recent'
  BY PresentOnDisk DEF ConfigInv, ConfigInvKept, Recent
<1>3. main # Absent => main # tmp
  BY <1>2 DEF RecentDirectory, Directory
<1>4. ASSUME UNCHANGED <<Value, committed, version>>, DirectoryChanges \/ UNCHANGED earlier
      PROVE  [File!Next]_File!vars
  <2>1. Lasting' = Lasting
    BY <1>4, LastingStep
  <2> QED
    BY <1>4, <2>1 DEF File!vars
<1>5. ASSUME Value' \notin {Absent} PROVE Value' \in 0..version'
  <2>1. \A i \in Inodes : data'[i] # Broken => data'[i] \in 0..version'
    BY <1>2 DEF Recent, RecentContents, ConfigTypeOK, Contents
  <2> QED
    BY <1>1, <1>5, <2>1 DEF Obtained, ConfigTypeOK, InStep, Copying
<1>6. CASE StartRecovery
  <2>1. main = Absent /\ tmp # Absent /\ tmp' = tmp /\ data' = data
        /\ main' # Absent /\ data'[main'] = Broken /\ pc # "copy" /\ pc' = "copy"
    BY <1>6 DEF StartRecovery, ReadsTmp, InStep, Copying, Inodes, ConfigTypeOK
  <2>2. Value' = Value
    BY <1>1, <2>1 DEF Obtained
  <2>3. Lasting' = Lasting
    BY <1>6, LastingStep DEF StartRecovery
  <2> QED
    BY <1>6, <2>2, <2>3 DEF StartRecovery, File!Next, File!Begin
<1>7. CASE StartWriting
  <2>1. Value' = Value
    BY <1>1, <1>7 DEF StartWriting, Obtained
  <2>2. Lasting' = Lasting
    BY <1>7, LastingStep DEF StartWriting
  <2> QED
    BY <1>7, <2>1, <2>2 DEF StartWriting, File!Next, File!Begin
<1>8. CASE FinishRecovery
  <2>1. Value' = Value
    BY <1>1, <1>8 DEF FinishRecovery, Obtained, InStep, Copying, ConfigTypeOK
  <2> QED
    BY <1>8, <2>1, <1>4 DEF FinishRecovery
<1>9. CASE CreateTmp
  <2>1. CASE main # Absent
    <3>1. Value' = Value
      BY <1>1, <1>9, <2>1 DEF CreateTmp, Obtained
    <3> QED
      BY <1>9, <3>1, <1>4 DEF CreateTmp
  <2>2. CASE main = Absent
    <3>1. Unused(version)
      BY <1>9 DEF CreateTmp, ConfigInvKept, ConfigInv, NewInodes
    <3>2. Value = Absent /\ Value' = Absent
      BY <1>1, <1>9, <2>2, <3>1 DEF CreateTmp, Obtained, Unused
    <3> QED
      BY <1>9, <3>2, <1>4 DEF CreateTmp
  <2> QED
    BY <2>1, <2>2
<1>10. CASE TruncateTmp
  <2>1. Value' = Value
    BY <1>1, <1>3, <1>10 DEF TruncateTmp, Obtained, InStep, ReadsTmp, ConfigTypeOK
  <2> QED
    BY <1>10, <2>1, <1>4 DEF TruncateTmp
<1>11. CASE WriteTmp
  <2>1. CASE main # Absent
    <3>1. Value' = Value
      BY <1>1, <1>3, <1>11, <2>1 DEF WriteTmp, Obtained, InStep, ConfigTypeOK
    <3> QED
      BY <1>11, <3>1, <1>4 DEF WriteTmp
  <2>2. CASE main = Absent
    <3>1. Value' = version
      BY <1>1, <1>11, <2>2 DEF WriteTmp, Obtained, InStep, ConfigTypeOK, Inodes
    <3>2. Lasting' = Lasting
      BY <1>11, LastingStep DEF WriteTmp
    <3> QED
      BY <1>11, <3>1, <3>2 DEF WriteTmp, File!Next, File!Store
  <2> QED
    BY <2>1, <2>2
<1>12. CASE RemoveMain
  <2>1. Value' = version
    BY <1>1, <1>12 DEF RemoveMain, Obtained, InStep, ConfigTypeOK, Inodes
  <2>2. Lasting' = Lasting
    BY <1>12, LastingStep DEF RemoveMain
  <2> QED
    BY <1>12, <2>1, <2>2 DEF RemoveMain, File!Next, File!Store
<1>13. CASE Rename
  <2>1. Value = version /\ Value' = version
    BY <1>1, <1>13 DEF Rename, Obtained, InStep, ConfigTypeOK, Inodes
  <2>2. Lasting' = Lasting \cup {committed'}
    BY <1>13, LastingStep DEF Rename
  <2> QED
    BY <1>13, <2>1, <2>2 DEF Rename, File!Next, File!Ack
<1>14. CASE Erase
  <2>1. Lasting' = Lasting \cup {committed'} /\ committed' = Absent /\ version' = version
    BY <1>14, LastingStep DEF Erase
  <2> QED
    BY <2>1, <1>5 DEF File!Next, File!Erase
<1>15. CASE Interrupt
  <2>1. CASE pc # "copy"
    <3>1. Value' = Value
      BY <1>1, <1>15, <2>1 DEF Interrupt, Obtained
    <3> QED
      BY <1>15, <3>1, <1>4 DEF Interrupt
  <2>2. CASE pc = "copy"
    <3>1. main # Absent /\ data[main] = Broken /\ main \in recovered
      BY <2>2 DEF InStep, Copying, ConfigTypeOK, Inodes
    <3>2. Torn'
      BY <3>1, <1>15 DEF Interrupt, Torn, Loaded, Obtained, Chosen, Directory
    <3> QED
      BY <3>2
  <2> QED
    BY <2>1, <2>2
<1>16. CASE WriteBack
  <2>1. Value' = Value
    BY <1>1, <1>16 DEF WriteBack, Obtained
  <2>2. Lasting' \subseteq Lasting /\ committed \in Lasting'
    BY <1>16, LastingStep DEF WriteBack
  <2> QED
    BY <1>16, <2>1, <2>2 DEF WriteBack, File!Next, File!WriteBack
<1>17. CASE PowerLoss
  <2>1. /\ committed' \in Lasting /\ Lasting' = {committed'}
        /\ version' = version /\ pc' = "idle"
    BY <1>17, LastingStep, PowerLossStep
  <2>2. ASSUME committed' # Absent PROVE Value' \in committed'..version
    <3>1. HoldsIn(Chosen(Directory), committed)'
      BY <2>2 DEF ConfigInvKept, Kept, Holds, OnDisk, Directory
    <3>2. (Chosen(Directory) = Read)'
      BY DEF Chosen, Directory
    <3>3. Value' # Absent
      BY <1>1, <2>1, <3>1, <3>2 DEF HoldsIn, Torn, Loaded, Obtained, ConfigTypeOK, Contents
    <3>4. Value' >= committed'
      BY <1>1, <2>1, <2>2, <3>1, <3>2, <3>3 DEF HoldsIn, AtLeast, Obtained
    <3> QED
      BY <1>5, <2>1, <2>2, <3>3, <3>4 DEF ConfigTypeOK
  <2> QED
    BY <2>1, <2>2, <1>5 DEF File!Next, File!Lose
<1>18. CASE UNCHANGED configVars
  <2>1. Value' = Value
    BY <1>1, <1>18 DEF configVars, Obtained
  <2> QED
    BY <1>18, <2>1, <1>4 DEF configVars
<1> QED
  BY <1>6, <1>7, <1>8, <1>9, <1>10, <1>11, <1>12, <1>13, <1>14, <1>15, <1>16, <1>17, <1>18
     DEF ConfigNext

LEMMA RefinedInit == ConfigInit => File!Init
<1> SUFFICES ASSUME ConfigInit PROVE File!Init
  OBVIOUS
<1> USE ConfigFileAssumption DEF ConfigFileAssumption
<1>1. main \in {Absent, 0} /\ committed = main /\ version = 0 /\ tmp = Absent /\ pc # "copy"
  BY DEF ConfigInit
<1>2. data[0] = 0
  BY DEF ConfigInit, Inodes
<1>3. Value = main
  BY <1>1, <1>2, LoadedIs DEF Value, Obtained
<1>4. Lasting = {committed}
  <2>1. \A d \in OnDisk : d = Directory
    BY DEF ConfigInit, OnDisk, Range
  <2> QED
    BY <2>1, PresentOnDisk DEF Lasting, Directory
<1> QED
  BY <1>1, <1>3, <1>4 DEF File!Init

(* With a caller that flushes, the pair start_writing() .. end_writing()
   replaces the file in one step, which a crash of the system may undo as a
   whole; cut recovery copies are excepted. *)
THEOREM AtomicReplacement == ASSUME Synced PROVE ConfigSpec => ImplementsAtomicFile
<1>1. ConfigInvKept /\ ConfigInvKept' /\ [ConfigNext]_configVars
          => [File!Next \/ Torn \/ Torn']_File!vars
  BY RefinedStep
<1> QED
  BY RefinedInit, <1>1, KeptAlways, PTL DEF ConfigSpec, ImplementsAtomicFile
=============================================================================
