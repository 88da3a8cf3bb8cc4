---------------------------- MODULE MCConfigFile ----------------------------
(* Values of the constants of ConfigFile for TLC. *)
EXTENDS ConfigFile

(* The program was run before, or it starts for the first time. *)
FromEarlierRun == {Absent, 0}
=============================================================================
