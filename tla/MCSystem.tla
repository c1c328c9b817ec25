------------------------------ MODULE MCSystem ------------------------------
(* Instances of MediaSystem for TLC: a clean original and an infected one. *)
EXTENDS MediaSystem, TLC

CONSTANTS h1, h2, r1, r2, first, virus

RightChecksum == [s \in Objects |-> {s}]

Each(fs) == [k \in Faults |-> IF k \in fs THEN 1 ELSE 0]
NoFaults == Each({})
OneCrash == Each({"crash"})
=============================================================================
