----------------------------- MODULE AtomicFile -----------------------------
(***************************************************************************)
(* What the pair start_reading / start_writing .. end_writing of           *)
(* mlib/mlib/fs.hpp promises its callers: a configuration file that is     *)
(* replaced in one step.  A reader finds the old version or the new one,   *)
(* never something in between, and a version whose writing has been        *)
(* reported as successful is not lost when the program stops.  The system  *)
(* writes the replacement to the disk later: its crash may bring back an   *)
(* older state of the file, as a whole.                                    *)
(***************************************************************************)
EXTENDS Naturals

CONSTANT Absent   \* the reader obtains nothing

VARIABLES value,  \* the version a reader would obtain now
          acked,  \* the version of the last write reported as successful
          newest, \* the version written last or being written
          lasting \* the reports that a crash of the system may go back to

vars == <<value, acked, newest, lasting>>

Init == /\ value \in {Absent, 0}
        /\ acked = value
        /\ newest = 0
        /\ lasting = {acked}

(* A version newer than all before it is about to be written. *)
Begin == /\ newest' = newest + 1
         /\ UNCHANGED <<value, acked, lasting>>

(* The write takes effect. *)
Store == /\ value' = newest
         /\ UNCHANGED <<acked, newest, lasting>>

(* The write that took effect is reported as successful. *)
Ack == /\ value = newest
       /\ acked' = value
       /\ lasting' = lasting \cup {value}
       /\ UNCHANGED <<value, newest>>

(* The file is removed; what an unfinished write left may take its place. *)
Erase == /\ acked' = Absent
         /\ lasting' = lasting \cup {Absent}
         /\ value' \in 0..newest \cup {Absent}
         /\ UNCHANGED newest

(* The disk gets to a later state, at most to the present one. *)
WriteBack == /\ lasting' \subseteq lasting /\ acked \in lasting'
             /\ UNCHANGED <<value, acked, newest>>

(* A crash of the system: the file is again what was reported at one of the
   times the disk may be at, or a newer version that has been completed. *)
Lose == /\ acked' \in lasting
        /\ lasting' = {acked'}
        /\ IF acked' = Absent THEN value' \in 0..newest \cup {Absent}
                              ELSE value' \in acked'..newest
        /\ UNCHANGED newest

Next == Begin \/ Store \/ Ack \/ Erase \/ WriteBack \/ Lose

Spec == Init /\ [][Next]_vars
=============================================================================
