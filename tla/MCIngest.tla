------------------------------ MODULE MCIngest ------------------------------
(* Ingest on small instances: two releases of one service, and a change. *)
EXTENDS Ingest, TLC

CONSTANTS i1, i2, i3, ch1, slot

Pipeline ==
    {[id |-> i1, chain |-> ch1, slot |-> slot, time |-> 1],
     [id |-> i2, chain |-> None, slot |-> slot, time |-> 2],
     [id |-> i3, chain |-> ch1, slot |-> None, time |-> 0]}

Symmetry == Permutations(Handlers)
=============================================================================
