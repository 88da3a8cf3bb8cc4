------------------------------ MODULE MCProgram ------------------------------
(* Values of the constants of Program for TLC. *)
EXTENDS CreateTorrent

CONSTANTS t1, t2, p0, p1

TwoThreads == {t1, t2}
OneOther == {p1}

(* A torrent is created while there is no other process, which knows nothing of
   the window, and at most one message besides.  An error is shown while there
   is none or it ends, and two threads or messages are only without one. *)
OneTopic ==
    /\ create' # "closed" \/ outcome' # "nothing" =>
           /\ \A p \in Others : stage'[p] = "off"
           /\ ~options'[First] /\ thread'[t2] = "idle"
           /\ added' <= IF outcome' = "created" THEN 2 ELSE 1
    /\ create = "closed" /\ create' = "open" => outcome = "nothing"
    /\ stage'[First] = "explaining" =>
           \A p \in Others : stage'[p] \in Ends \cup {"off"}
    /\ added' > 1 \/ thread'[t2] # "idle" => \A p \in Others : stage'[p] = "off"
==============================================================================
