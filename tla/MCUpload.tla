------------------------------ MODULE MCUpload ------------------------------
(* Instances of MediaUpload for TLC: two sessions for one resource. *)
EXTENDS MediaUpload, TLC

CONSTANTS r1, r2, first, second

\* The client declares the checksum of the file it uploads.
RightChecksum == [s \in Objects |-> {s}]
=============================================================================
