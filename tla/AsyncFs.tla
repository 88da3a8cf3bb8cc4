------------------------------- MODULE AsyncFs -------------------------------
(***************************************************************************)
(* The asynchronous file system (mlib/mlib/async_fs.cpp): a queue of file  *)
(* operations and a thread that is started when there is something to do   *)
(* and ends when the queue is empty or the system is paused.               *)
(*                                                                         *)
(* The regions under the mutex are single steps, except for the last one   *)
(* of the thread, in which it wakes the destructor: there the mutex is a   *)
(* variable.  Between setting `started' and the existence of the thread    *)
(* the caller is outside the mutex, and so is the thread while it works.   *)
(***************************************************************************)
EXTENDS Naturals, Sequences

CONSTANTS Clients,  \* threads that call add_task(), resume() and pause
          Threads,  \* bound: slots for threads started by start()
          Groups,   \* groups of tasks
          MaxTasks, \* bound: how many tasks are added
          Free      \* the mutex is not locked

ASSUME AsyncFsAssumption == MaxTasks \in Nat /\ Free \notin Threads

VARIABLES started, paused,
          tasks,         \* queue of the tasks, with that being executed
          last_task_id,
          waiting,       \* is the semaphore of wait() in the queue `waitings'?
          mutex,
          client,        \* "idle", or "start": to call start() outside the mutex
          thread,        \* the step of each thread, "none" if there is none
          closer,        \* the step of the destructor
          executed,      \* ghost: identifiers of the tasks executed, in order
          signalled,     \* ghost: paused_signal was emitted since the last pause
          quiet          \* ghost: groups of which pause said they are not at work

vars == <<started, paused, tasks, last_task_id, waiting, mutex, client, thread,
          closer, executed, signalled, quiet>>

Tasks == [id : 1..MaxTasks, group : Groups]

TypeOK == /\ started \in BOOLEAN /\ paused \in BOOLEAN
          /\ tasks \in Seq(Tasks)
          /\ last_task_id \in 0..MaxTasks
          /\ waiting \in BOOLEAN
          /\ mutex \in Threads \cup {Free}
          /\ client \in [Clients -> {"idle", "start"}]
          /\ thread \in [Threads -> {"none", "look", "work", "pop", "wake"}]
          /\ closer \in {"open", "wait", "lock", "closed"}
          /\ executed \in Seq(1..MaxTasks)
          /\ signalled \in BOOLEAN
          /\ quiet \subseteq Groups

Init == /\ started = FALSE /\ paused = FALSE
        /\ tasks = <<>>
        /\ last_task_id = 0
        /\ waiting = FALSE
        /\ mutex = Free
        /\ client = [c \in Clients |-> "idle"]
        /\ thread = [t \in Threads |-> "none"]
        /\ closer = "open"
        /\ executed = <<>>
        /\ signalled = FALSE
        /\ quiet = {}

-----------------------------------------------------------------------------
(* The callers. *)

(* A call in a thread that is not in another one, and while the object lives;
   it is destroyed "when certainly nobody will use it any more". *)
Calls(c) == client[c] = "idle" /\ closer = "open" /\ mutex = Free

AddTask(c, group) ==
    /\ Calls(c)
    /\ last_task_id < MaxTasks
    /\ last_task_id' = last_task_id + 1
    /\ tasks' = Append(tasks, [id |-> last_task_id', group |-> group])
    /\ IF ~started /\ ~paused
       THEN started' = TRUE /\ client' = [client EXCEPT ![c] = "start"]
       ELSE UNCHANGED <<started, client>>
    /\ UNCHANGED <<paused, waiting, mutex, thread, closer, executed, signalled,
                   quiet>>

(* start() creates the thread. *)
Start(c) ==
    /\ client[c] = "start"
    /\ client' = [client EXCEPT ![c] = "idle"]
    /\ \E t \in Threads : /\ thread[t] = "none"
                          /\ thread' = [thread EXCEPT ![t] = "look"]
    /\ UNCHANGED <<started, paused, tasks, last_task_id, waiting, mutex, closer,
                   executed, signalled, quiet>>

(* Mutant: a thread that is executing a task does not count. *)
MutGroupStatus(group) == /\ \E t \in Threads : thread[t] = "look"
                         /\ tasks # <<>> /\ Head(tasks).group = group

(* What pause_and_get_group_status(group) returns. *)
GroupStatus(group) == started /\ tasks # <<>> /\ Head(tasks).group = group

Pause(c, group) ==
    /\ Calls(c)
    /\ paused' = TRUE
    /\ signalled' = (signalled /\ paused)
    /\ quiet' = IF GroupStatus(group) THEN quiet ELSE quiet \cup {group}
    /\ UNCHANGED <<started, tasks, last_task_id, waiting, mutex, client, thread,
                   closer, executed>>

(* Mutant: the tasks that were added during the pause are forgotten. *)
MutLazyResume(c) ==
    /\ Calls(c) /\ paused
    /\ paused' = FALSE
    /\ quiet' = {}
    /\ UNCHANGED <<started, tasks, last_task_id, waiting, mutex, client, thread,
                   closer, executed, signalled>>

Resume(c) ==
    /\ Calls(c) /\ paused
    /\ paused' = FALSE
    /\ quiet' = {}
    /\ IF ~started /\ tasks # <<>>
       THEN started' = TRUE /\ client' = [client EXCEPT ![c] = "start"]
       ELSE UNCHANGED <<started, client>>
    /\ UNCHANGED <<tasks, last_task_id, waiting, mutex, thread, closer, executed,
                   signalled>>

-----------------------------------------------------------------------------
(* The thread. *)

(* It finds no task, or the system paused: it clears `started', emits
   paused_signal, and goes on to wake the destructor under the mutex. *)
Leave(t) ==
    /\ thread[t] = "look" /\ mutex = Free
    /\ tasks = <<>> \/ paused
    /\ started' = FALSE
    /\ signalled' = (signalled \/ paused)
    /\ mutex' = t
    /\ thread' = [thread EXCEPT ![t] = "wake"]
    /\ UNCHANGED <<paused, tasks, last_task_id, waiting, client, closer, executed,
                   quiet>>

(* sem_post() for the semaphore in the queue, if there is one ... *)
Wake(t) ==
    /\ thread[t] = "wake" /\ waiting
    /\ waiting' = FALSE
    /\ closer' = "lock"
    /\ UNCHANGED <<started, paused, tasks, last_task_id, mutex, client, thread,
                   executed, signalled, quiet>>

(* Mutant: the thread ends without waking the destructor. *)
MutExit(t) ==
    /\ thread[t] = "wake"
    /\ mutex' = Free
    /\ thread' = [thread EXCEPT ![t] = "none"]
    /\ UNCHANGED <<started, paused, tasks, last_task_id, waiting, client, closer,
                   executed, signalled, quiet>>

(* ... and the end of the thread, which unlocks the mutex. *)
Exit(t) ==
    /\ thread[t] = "wake" /\ ~waiting
    /\ mutex' = Free
    /\ thread' = [thread EXCEPT ![t] = "none"]
    /\ UNCHANGED <<started, paused, tasks, last_task_id, waiting, client, closer,
                   executed, signalled, quiet>>

(* It copies the first task ... *)
Take(t) ==
    /\ thread[t] = "look" /\ mutex = Free
    /\ tasks # <<>> /\ ~paused
    /\ thread' = [thread EXCEPT ![t] = "work"]
    /\ UNCHANGED <<started, paused, tasks, last_task_id, waiting, mutex, client,
                   closer, executed, signalled, quiet>>

(* ... executes it; an error is reported to the user ... *)
Execute(t) ==
    /\ thread[t] = "work"
    /\ executed' = Append(executed, Head(tasks).id)
    /\ thread' = [thread EXCEPT ![t] = "pop"]
    /\ UNCHANGED <<started, paused, tasks, last_task_id, waiting, mutex, client,
                   closer, signalled, quiet>>

(* ... and only then removes it from the queue. *)
Pop(t) ==
    /\ thread[t] = "pop" /\ mutex = Free
    /\ tasks' = Tail(tasks)
    /\ thread' = [thread EXCEPT ![t] = "look"]
    /\ UNCHANGED <<started, paused, last_task_id, waiting, mutex, client, closer,
                   executed, signalled, quiet>>

-----------------------------------------------------------------------------
(* The destructor. *)

(* wait(): the semaphore joins the queue if a thread is started. *)
Close ==
    /\ closer = "open" /\ mutex = Free
    /\ \A c \in Clients : client[c] = "idle"
    /\ closer' = IF started THEN "wait" ELSE "lock"
    /\ waiting' = started
    /\ UNCHANGED <<started, paused, tasks, last_task_id, mutex, client, thread,
                   executed, signalled, quiet>>

(* The woken destructor locks the mutex once more before the object goes. *)
Closed ==
    /\ closer = "lock" /\ mutex = Free
    /\ closer' = "closed"
    /\ UNCHANGED <<started, paused, tasks, last_task_id, waiting, mutex, client,
                   thread, executed, signalled, quiet>>

Ended == closer = "closed" /\ UNCHANGED vars

-----------------------------------------------------------------------------
ThreadStep(t) == \/ Leave(t) \/ Wake(t) \/ Exit(t)
                 \/ Take(t) \/ Execute(t) \/ Pop(t)

Next == \/ \E c \in Clients : \/ Start(c) \/ Resume(c)
                              \/ \E g \in Groups : AddTask(c, g) \/ Pause(c, g)
        \/ \E t \in Threads : ThreadStep(t)
        \/ Close \/ Closed \/ Ended

Spec == Init /\ [][Next]_vars

(* Threads are scheduled, and a caller comes to the end of its call. *)
Fairness == /\ \A c \in Clients : WF_vars(Start(c))
            /\ \A t \in Threads : WF_vars(ThreadStep(t))
            /\ WF_vars(Closed)

FairSpec == Spec /\ Fairness

-----------------------------------------------------------------------------
(* Properties. *)

Alive == {t \in Threads : thread[t] # "none"}
Starting == {c \in Clients : client[c] = "start"}
Looking == {t \in Threads : thread[t] \in {"look", "work", "pop"}}

(* Never more than one thread works on the queue, and none is missing:
   `started' is set exactly while there is a thread that will look at the
   queue again or a caller that is about to create it. *)
OneThread == /\ started <=> Looking # {} \/ Starting # {}
             /\ Looking = {} \/ Starting = {}
             /\ \A t, u \in Looking : t = u
             /\ \A c, d \in Starting : c = d

(* Every task is executed once, in the order of the calls to add_task(), with
   pauses at any moment. *)
InOrder == \A i \in DOMAIN executed : executed[i] = i

(* After pause_and_get_group_status() has said that no task of the group is
   executed, none is until the system is resumed. *)
PausedGroupIsQuiet ==
    \A t \in Threads : thread[t] = "work" => Head(tasks).group \notin quiet

(* When the object is destroyed, no thread is left that would use it, not even
   to unlock the mutex. *)
NoThreadAfterClose == closer = "closed" => Alive = {}

(* However often the system was paused and resumed before: when it is not
   paused any more, every task that was added is executed. *)
TasksExecuted ==
    <>[]~paused =>
        \A i \in 1..MaxTasks :
            last_task_id >= i ~> i \in {executed[k] : k \in DOMAIN executed}

(* The destructor does not hang. *)
CloseEnds == closer # "open" ~> closer = "closed"

(* The comment at pause_and_get_group_status(): "as soon as the system is
   paused, the signal is emitted". *)
PauseIsSignalled == paused /\ ~started => signalled
=============================================================================
