---------------------------- MODULE MessageQueue ----------------------------
(***************************************************************************)
(* The messages to the user, src/application.cpp.  Any thread reports a    *)
(* message; it is queued, and the main loop, woken by a Glib::Dispatcher   *)
(* (a pipe), shows one dialog at a time.  The pipe is written only for a   *)
(* message that finds the queue empty.  The Application is destroyed by    *)
(* the messages thread of the session, under the GTK lock, which the main  *)
(* loop does not hold when it begins to handle what it read in the pipe.   *)
(***************************************************************************)
EXTENDS Naturals, Sequences

CONSTANTS Threads,
          MaxMessages  \* bound: how many messages are reported

ASSUME QueueAssumption == MaxMessages \in Nat

VARIABLES life,      \* of the Application
          messages,  \* the queue, of messages numbered from 1
          dialog,    \* a message_dialog is open
          signals,   \* in the pipe of message_signal
          thread,    \* what each thread does: "add" is having read the
                     \* warning function of the Application
          main,      \* what the main loop does with a signal
          added,     \* ghost: number of messages queued ...
          shown      \* ghost: ... and of that shown last

vars == <<life, messages, dialog, signals, thread, main, added, shown>>

TypeOK == /\ life \in {"starting", "running", "destroyed"}
          /\ messages \in Seq(1..MaxMessages)
          /\ dialog \in BOOLEAN
          /\ signals \in Nat
          /\ thread \in [Threads -> {"idle", "add", "signal", "failed"}]
          /\ main \in {"idle", "called", "failed"}
          /\ added \in 0..MaxMessages /\ shown \in 0..MaxMessages

Init == /\ life = "starting"
        /\ messages = <<>> /\ dialog = FALSE /\ signals = 0
        /\ thread = [t \in Threads |-> "idle"]
        /\ main = "idle"
        /\ added = 0 /\ shown = 0

(* The end of the constructor: the signal is connected.  Messages come from
   its beginning on. *)
Connect ==
    /\ life = "starting"
    /\ life' = "running"
    /\ UNCHANGED <<messages, dialog, signals, thread, main, added, shown>>

(* m::warning() reads WARNING_FUNCTION; the Application resets it at its end,
   and what comes later goes to the standard error. *)
Warn(t) ==
    /\ thread[t] = "idle" /\ life # "destroyed" /\ added < MaxMessages
    /\ thread' = [thread EXCEPT ![t] = "add"]
    /\ UNCHANGED <<life, messages, dialog, signals, main, added, shown>>

(* Mutant: the newest message comes first. *)
MutAddFirst(t) ==
    /\ thread[t] = "add" /\ life # "destroyed" /\ added < MaxMessages
    /\ added' = added + 1
    /\ messages' = <<added'>> \o messages
    /\ thread' = [thread EXCEPT ![t] = IF messages = <<>> THEN "signal" ELSE "idle"]
    /\ UNCHANGED <<life, dialog, signals, main, shown>>

(* add_message(), under the mutex of the queue. *)
AddMessage(t) ==
    /\ thread[t] = "add" /\ life # "destroyed" /\ added < MaxMessages
    /\ added' = added + 1
    /\ messages' = Append(messages, added')
    /\ thread' = [thread EXCEPT ![t] = IF messages = <<>> THEN "signal" ELSE "idle"]
    /\ UNCHANGED <<life, dialog, signals, main, shown>>

(* get_application() finds no Application: its assertion fails. *)
AddTooLate(t) ==
    /\ thread[t] = "add" /\ life = "destroyed"
    /\ thread' = [thread EXCEPT ![t] = "failed"]
    /\ UNCHANGED <<life, messages, dialog, signals, main, added, shown>>

(* Its end, without the mutex; the dispatcher is static. *)
Signal(t) ==
    /\ thread[t] = "signal"
    /\ signals' = signals + 1
    /\ thread' = [thread EXCEPT ![t] = "idle"]
    /\ UNCHANGED <<life, messages, dialog, main, added, shown>>

(* The main loop reads the pipe and calls on_message_callback(), if that is
   connected still; it runs after the constructor. *)
ReadSignal ==
    /\ main = "idle" /\ signals > 0 /\ life # "starting"
    /\ signals' = signals - 1
    /\ main' = IF life = "running" THEN "called" ELSE "idle"
    /\ UNCHANGED <<life, messages, dialog, thread, added, shown>>

(* show_next_message() *)
ShowNextMessage ==
    IF messages = <<>>
    THEN dialog' = FALSE /\ UNCHANGED <<messages, shown>>
    ELSE /\ dialog' = TRUE
         /\ shown' = Head(messages)
         /\ messages' = Tail(messages)

(* on_message_callback(), when it has the GTK lock. *)
OnMessage ==
    /\ main = "called" /\ life = "running"
    /\ IF dialog THEN UNCHANGED <<messages, dialog, shown>> ELSE ShowNextMessage
    /\ main' = "idle"
    /\ UNCHANGED <<life, signals, thread, added>>

(* The Application has been destroyed while the callback waited for the lock:
   it uses an object that is no more. *)
OnMessageTooLate ==
    /\ main = "called" /\ life = "destroyed"
    /\ main' = "failed"
    /\ UNCHANGED <<life, messages, dialog, signals, thread, added, shown>>

(* on_message_response_callback(): the user closes the dialog. *)
OnResponse ==
    /\ dialog /\ life = "running" /\ main # "failed"
    /\ ShowNextMessage
    /\ UNCHANGED <<life, signals, thread, main, added>>

(* stop(), by the messages thread of the session: signals are disconnected,
   the warning function is reset, the messages and the window are gone. *)
Destroy ==
    /\ life = "running"
    /\ life' = "destroyed" /\ messages' = <<>> /\ dialog' = FALSE
    /\ UNCHANGED <<signals, thread, main, added, shown>>

MainLoop == ReadSignal \/ OnMessage \/ OnMessageTooLate

Thread(t) == AddMessage(t) \/ AddTooLate(t) \/ Signal(t)

Next == \/ Connect \/ MainLoop \/ OnResponse \/ Destroy
        \/ \E t \in Threads : Warn(t) \/ Thread(t)

Spec == Init /\ [][Next]_vars

(* The threads and the main loop run, and the user closes the dialogs. *)
FairSpec == /\ Spec
            /\ WF_vars(Connect) /\ WF_vars(MainLoop) /\ WF_vars(OnResponse)
            /\ \A t \in Threads : WF_vars(Thread(t))

-----------------------------------------------------------------------------
(* Properties. *)

(* No message waits that nothing will show: without a dialog whose end shows
   the next, a signal is on its way, though only messages that found the queue
   empty were signalled. *)
NoMessageForgotten ==
    life # "destroyed" /\ messages # <<>> /\ ~dialog =>
        \/ signals > 0 \/ main = "called"
        \/ \E t \in Threads : thread[t] = "signal"

Box == INSTANCE Mailbox WITH queue <- messages, received <- shown,
                             closed <- life = "destroyed"

(* The queue is a mailbox: messages are shown once and in order, whichever
   threads they come from, and all of them while the Application lives. *)
ImplementsMailbox == Box!Spec

(* Promised by the assertion of get(), and not kept: no thread reports a
   message to an Application that is no more. *)
NoMessageTooLate == \A t \in Threads : thread[t] # "failed"
=============================================================================
