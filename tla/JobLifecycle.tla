---------------------------- MODULE JobLifecycle ----------------------------
(***************************************************************************)
(* What the row of a media job promises whoever reads it: the life cycle   *)
(* that internal/media/domain/media.go and job_lifecycle.go give to the    *)
(* statuses, without queue, handlers or faults.                            *)
(***************************************************************************)
EXTENDS Naturals

CONSTANTS Jobs, MaxAttempts

VARIABLE row

Set(j, status, attempts) ==
    row' = [row EXCEPT ![j] = [status |-> status, attempts |-> attempts]]

Init == \A j \in Jobs : row[j].status \in {"none", "pending"} /\ row[j].attempts = 0

Create(j) == row[j].status = "none" /\ Set(j, "pending", 0)

\* A start counts an attempt; a job whose worker died is started again.
Start(j) == /\ row[j].status \in {"pending", "processing"}
            /\ Set(j, "processing", row[j].attempts + 1)

Succeed(j) == row[j].status = "processing" /\ Set(j, "done", row[j].attempts)

Retry(j) == /\ row[j].status = "processing"
            /\ row[j].attempts < MaxAttempts
            /\ Set(j, "pending", row[j].attempts)

\* Out of attempts, or a permanent failure that spends them all.
GiveUp(j) == /\ row[j].status = "processing"
             /\ \E n \in {row[j].attempts, MaxAttempts} :
                   n >= MaxAttempts /\ Set(j, "dead_letter", n)

\* "done" and "dead_letter" have no way out.
Next == \E j \in Jobs :
            Create(j) \/ Start(j) \/ Succeed(j) \/ Retry(j) \/ GiveUp(j)

Spec == Init /\ [][Next]_row
=============================================================================
