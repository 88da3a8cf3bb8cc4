-------------------------- MODULE MCTemporaryAction --------------------------
(* Values of the constants of TemporaryAction for TLC. *)
EXTENDS TemporaryAction, TLC

CONSTANTS t1, t2

TwoTorrents == {t1, t2}

Symmetry == Permutations(TwoTorrents)
=============================================================================
