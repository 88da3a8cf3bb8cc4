----------------------------- MODULE MCFsWatcher -----------------------------
(* Values of the constants of FsWatcher for TLC. *)
EXTENDS FsWatcher

Stays == {}
MayMove == {"moved"}
MayBeDeleted == {"deleted"}
=============================================================================
