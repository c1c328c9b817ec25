--------------------------- MODULE PipelinePromise ---------------------------
(***************************************************************************)
(* What the media pipeline promises the course about one upload: the       *)
(* resource passes the scan, perhaps a conversion, and ends ready or       *)
(* failed; it never goes back.                                             *)
(***************************************************************************)

VARIABLE stage

Init == stage = "scanning"

Convert == stage = "scanning" /\ stage' = "converting"

Settle == /\ stage \in {"scanning", "converting"}
          /\ stage' \in {"ready", "failed"}

Next == Convert \/ Settle

Spec == Init /\ [][Next]_stage /\ WF_stage(Settle)
=============================================================================
