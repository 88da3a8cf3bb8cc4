----------------------------- MODULE MCDispatcher -----------------------------
(* Values of the constants of Dispatcher for TLC. *)
EXTENDS Dispatcher

CONSTANTS h1, h2

TwoHandlers == {h1, h2}
=============================================================================
