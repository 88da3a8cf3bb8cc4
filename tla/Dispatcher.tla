----------------------------- MODULE Dispatcher -----------------------------
(***************************************************************************)
(* The signal dispatcher of mlib/mlib/gtk/dispatcher.cpp: signals emitted  *)
(* in any thread are emitted again in the main loop, by an idle source     *)
(* that exists only while there are signals.  A handler may do whatever it *)
(* likes: run a main loop of its own, emit the same signal, or destroy the *)
(* dispatcher; the source outlives it and must not touch it then.          *)
(***************************************************************************)
EXTENDS Naturals, Sequences

CONSTANTS Handlers,   \* addresses of Emission_handler objects
          Null,
          MaxSignals  \* bound: how many signals are emitted

ASSUME DispatcherAssumption == Null \notin Handlers /\ MaxSignals \in Nat

VARIABLES alive,      \* the dispatcher has not been destroyed
          handler,    \* of the source it knows of
          emiters,    \* the signals that wait, by their number
          source,     \* the step of the source of each Emission_handler
          connected,
          emitted,    \* ghost: number of signals emitted ...
          delivered   \* ghost: ... and number of that handled last

dispatcherVars == <<alive, handler, emiters, source, connected, emitted, delivered>>

DispatcherTypeOK == /\ alive \in BOOLEAN
                    /\ handler \in Handlers \cup {Null}
                    /\ emiters \in Seq(1..MaxSignals)
                    /\ source \in [Handlers -> {"none", "idle", "loop", "emit"}]
                    /\ connected \in [Handlers -> BOOLEAN]
                    /\ emitted \in 0..MaxSignals /\ delivered \in 0..MaxSignals

DispatcherInit == /\ alive = TRUE
                  /\ handler = Null
                  /\ emiters = <<>>
                  /\ source = [h \in Handlers |-> "none"]
                  /\ connected = [h \in Handlers |-> FALSE]
                  /\ emitted = 0 /\ delivered = 0

(* schedule_emission(), with the GDK lock: in another thread, or in the main
   loop, also in a handler and in the main loops that it runs. *)
Emit ==
    /\ alive /\ emitted < MaxSignals
    /\ emitted' = emitted + 1
    /\ emiters' = Append(emiters, emitted')
    /\ IF handler = Null
       THEN \E h \in Handlers :
                /\ source[h] = "none"
                /\ handler' = h
                /\ source' = [source EXCEPT ![h] = "idle"]
                /\ connected' = [connected EXCEPT ![h] = TRUE]
       ELSE UNCHANGED <<handler, source, connected>>
    /\ UNCHANGED <<alive, delivered>>

(* Mutant: the source goes on after the dispatcher was destroyed. *)
MutDestroy ==
    /\ alive
    /\ alive' = FALSE
    /\ emiters' = <<>> /\ handler' = Null
    /\ UNCHANGED <<source, connected, emitted, delivered>>

(* The destructor. *)
Destroy ==
    /\ alive
    /\ alive' = FALSE
    /\ emiters' = <<>> /\ handler' = Null
    /\ connected' = [h \in Handlers |-> connected[h] /\ h # handler]
    /\ UNCHANGED <<source, emitted, delivered>>

(* The main loop, or one run by a handler, calls emission_cb().  GLib does not
   call a source that is being called. *)
Call(h) ==
    /\ source[h] = "idle"
    /\ source' = [source EXCEPT ![h] = "loop"]
    /\ UNCHANGED <<alive, handler, emiters, connected, emitted, delivered>>

(* Mutant: the signal leaves the queue when its handlers have returned. *)
MutTake(h) ==
    /\ source[h] = "loop" /\ connected[h] /\ emiters # <<>>
    /\ delivered' = Head(emiters)
    /\ source' = [source EXCEPT ![h] = "emit"]
    /\ UNCHANGED <<alive, handler, emiters, connected, emitted>>

(* It takes the first signal and calls those who are connected to it. *)
Take(h) ==
    /\ source[h] = "loop" /\ connected[h] /\ emiters # <<>>
    /\ delivered' = Head(emiters)
    /\ emiters' = Tail(emiters)
    /\ source' = [source EXCEPT ![h] = "emit"]
    /\ UNCHANGED <<alive, handler, connected, emitted>>

Return(h) ==
    /\ source[h] = "emit"
    /\ source' = [source EXCEPT ![h] = "loop"]
    /\ UNCHANGED <<alive, handler, emiters, connected, emitted, delivered>>

(* The end of emission_cb(): the handler is deleted and the source removed. *)
Finish(h) ==
    /\ source[h] = "loop"
    /\ ~connected[h] \/ emiters = <<>>
    /\ handler' = IF connected[h] THEN Null ELSE handler
    /\ source' = [source EXCEPT ![h] = "none"]
    /\ connected' = [connected EXCEPT ![h] = FALSE]
    /\ UNCHANGED <<alive, emiters, emitted, delivered>>

Source(h) == Call(h) \/ Take(h) \/ Return(h) \/ Finish(h)

DispatcherNext == Emit \/ Destroy \/ \E h \in Handlers : Source(h)

DispatcherSpec == DispatcherInit /\ [][DispatcherNext]_dispatcherVars

(* The main loop runs and handlers return. *)
FairDispatcherSpec == DispatcherSpec /\ \A h \in Handlers : WF_dispatcherVars(Source(h))

-----------------------------------------------------------------------------
(* Properties. *)

Sources == {h \in Handlers : source[h] # "none"}

(* No signal waits without a source that will come to it, and never do two
   sources take signals, whatever the handlers do: `handler' is the source
   while there is one. *)
NoLostWakeup ==
    /\ alive => Sources = {handler} \ {Null}
    /\ emiters # <<>> => handler # Null

(* The source looks at the dispatcher only while that exists. *)
NoUseAfterDestroy == \A h \in Sources : connected[h] => alive

Box == INSTANCE Mailbox WITH queue <- emiters, received <- delivered,
                             closed <- ~alive

(* The dispatcher is a mailbox: signals are received once and in order, and
   those sent are received. *)
ImplementsMailbox == Box!Spec
=============================================================================
