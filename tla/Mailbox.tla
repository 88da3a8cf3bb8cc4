------------------------------- MODULE Mailbox -------------------------------
(***************************************************************************)
(* What m::gtk::Dispatcher (mlib/mlib/gtk/dispatcher.hpp) promises those   *)
(* who hand signals over to the main loop: every signal is received once,  *)
(* in the order of sending, until the mailbox is closed.  The signal       *)
(* variables of DaemonSession and FsWatcher are such mailboxes.            *)
(***************************************************************************)
EXTENDS Naturals, Sequences

VARIABLES queue,    \* signals sent and not received, numbered from 1
          received, \* the number of the signal received last
          closed

vars == <<queue, received, closed>>

Init == queue = <<>> /\ received = 0 /\ closed = FALSE

Send == /\ ~closed
        /\ queue' = Append(queue, received + Len(queue) + 1)
        /\ UNCHANGED <<received, closed>>

Receive == /\ ~closed /\ queue # <<>>
           /\ received' = Head(queue)
           /\ queue' = Tail(queue)
           /\ UNCHANGED closed

Close == /\ ~closed
         /\ closed' = TRUE
         /\ queue' = <<>>
         /\ UNCHANGED received

Next == Send \/ Receive \/ Close

Spec == Init /\ [][Next]_vars /\ WF_vars(Receive)
=============================================================================
