--------------------------- MODULE MCDaemonSession ---------------------------
(* Values of the constants of DaemonSession for TLC. *)
EXTENDS DaemonSession, TLC

CONSTANT t1   \* a torrent

OneTorrent == {t1}

=============================================================================
