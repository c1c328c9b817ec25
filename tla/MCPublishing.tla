---------------------------- MODULE MCPublishing ----------------------------
(* Instances of CoursePublishing for TLC. *)
EXTENDS CoursePublishing, TLC

CONSTANTS r1, r2, module1, unit1, resource1

\* One module with one unit with one resource.
Chain == (module1 :> Null) @@ (unit1 :> module1) @@ (resource1 :> unit1)

\* Titles of modules and units stay as they are, and at most one of the requests
\* is an edit: two edits only meet in the row that both write.  The third version
\* is for the retry of a draft that was left half copied, and the second is the one
\* whose text the editor empties.
FewEdits ==
    /\ \A r \in Requests : cmem[r].op = "update" => cmem[r].node \in Resources
    /\ \A r \in Requests : cmem[r].face = "hidden" => cmem[r].node \in Resources
    /\ \A r \in Requests : cmem[r].op = "clear" => cmem[r].version = 2
    /\ status[3] # "none" => ~overlapped
    /\ Cardinality({r \in Requests : cpc[r] \in {"row", "status", "write", "writeMeta"}}) < 2

Symmetry == Permutations(Requests)
=============================================================================
