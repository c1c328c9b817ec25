----------------------------- MODULE MediaStore -----------------------------
(***************************************************************************)
(* The data the media pipeline keeps for ONE resource: the rows of         *)
(* Postgres (resources, media_assets, media_jobs), the task asynq keeps in *)
(* Redis for each job, and what each single SQL statement of               *)
(* internal/media/postgres/media_repository.go does to those rows.  Rows   *)
(* of different resources are never read or written together, so one       *)
(* resource is enough.  When the teacher deletes it, ON DELETE CASCADE     *)
(* takes the rows that refer to it; tasks and objects stay.                *)
(*                                                                         *)
(* Here and in the other modules a definition F_Something that precedes F  *)
(* is F with a plausible bug; no specification uses it.  It shows that the *)
(* properties notice when the code is wrong.                               *)
(***************************************************************************)
EXTENDS Naturals

CONSTANTS
    CleanObjects,    \* uploaded files that are what they claim and carry no virus
    WrongTypeObjects,\* files whose real content is not of the kind of the resource
    InfectedObjects, \* files of the right type in which clamav finds a virus
    Null,            \* no storage key, no checksum
    MaxAttempts      \* defaultMaxAttempts of job_lifecycle.go

Objects == CleanObjects \cup WrongTypeObjects \cup InfectedObjects

ASSUME StoreAssumption ==
    /\ MaxAttempts \in Nat \ {0}
    /\ CleanObjects \cap (WrongTypeObjects \cup InfectedObjects) = {}
    /\ WrongTypeObjects \cap InfectedObjects = {}
    /\ Null \notin Objects

-----------------------------------------------------------------------------
(* Rows *)

\* "video" stands for video and audio, "image" for image, pdf and file (to a
\* "file" every content is allowed: it has no WrongTypeObjects).
Kinds == {"video", "presentation", "image"}

JobTypes == {"scan", "transcode", "convert"}

JobStatus == {"none", "pending", "processing", "done", "dead_letter"}

\* A row of media_jobs; status "none" is the row that does not exist.
JobRow == [status: JobStatus, attempts: Nat]

NoJob == [status |-> "none", attempts |-> 0]

\* A row of media_assets.  The SHA256 of an object is the object itself, so
\* a declared checksum is the object the client says it sent.
AssetRow == [kind: Kinds,
             key:  Objects \cup {Null},
             sum:  Objects \cup {Null},
             hls:  BOOLEAN,       \* hls_manifest_key is set
             pdf:  BOOLEAN]       \* converted_pdf_key is set

NoAsset == [kind |-> "image", key |-> Null, sum |-> Null,
            hls |-> FALSE, pdf |-> FALSE]

ProcessingStatus == {"pending", "processing", "ready", "failed"}

\* A row of resources: title stands for every column the teacher edits.
ResourceRow == [status: ProcessingStatus,
                media:  BOOLEAN,  \* media_asset_id is set
                title:  Nat]

\* The resource that was deleted.
NoResource == [status |-> "none", media |-> FALSE, title |-> 0]

-----------------------------------------------------------------------------
(* Statements *)

CreatedJob_Queued == [status |-> "queued", attempts |-> 0]

CreatedJob == [status |-> "pending", attempts |-> 0]

\* UPDATE ... WHERE id: it finds no row and is no error when the row is gone.
Updated_Upsert(row, none, new) == new

Updated(row, none, new) == IF row = none THEN none ELSE new

\* original_storage_key is not among the columns UpdateAsset writes.
UpdatedAsset_WithKey(old, a) == Updated(old, NoAsset, a)

UpdatedAsset(old, a) == Updated(old, NoAsset, [a EXCEPT !.key = old.key])

\* setResourceProcessingStatus writes back the row it read with a new status.
UpdatedResource(row, goal) ==
    [row EXCEPT !.status = goal, !.media = (row.media \/ goal = "ready")]

Terminal(status) == status \in {"done", "dead_letter"}

\* The status MarkJobFailed gives a job whose handler counts n attempts.
FailedStatus_Failed(n) == IF n >= MaxAttempts THEN "failed" ELSE "pending"
FailedStatus_Never(n) == "pending"
FailedStatus_OneMore(n) == IF n > MaxAttempts THEN "dead_letter" ELSE "pending"

FailedStatus(n) == IF n >= MaxAttempts THEN "dead_letter" ELSE "pending"

\* What enqueueNextAfterScan enqueues for each kind of asset.
NextJob(kind) ==
    CASE kind = "video"        -> "transcode"
      [] kind = "presentation" -> "convert"
      [] OTHER                 -> "scan"     \* nothing follows the scan

HasNextJob(kind) == kind \in {"video", "presentation"}

-----------------------------------------------------------------------------
(* What happens to the workers, or beside them: a process dies, a delivery
   times out or goes back to the queue; a statement, a publication or another
   call fails; the teacher edits the resource. *)

Faults == {"crash", "timeout", "requeue", "db", "redis", "tool", "edit"}

-----------------------------------------------------------------------------
(* asynq: one task per published job *)

TaskState == {"none", "queued", "active", "lost", "completed", "archived"}

Task == [state: TaskState, retried: Nat]

NoTask == [state |-> "none", retried |-> 0]

NewTask == [state |-> "queued", retried |-> 0]

MaxRetry_OneShort == MaxAttempts - 2

MaxRetry == MaxAttempts - 1

\* A delivery that failed: asynq retries it or, its retries spent, archives it.
FailedTask(tk) ==
    IF tk.retried < MaxRetry
    THEN [state |-> "queued", retried |-> tk.retried + 1]
    ELSE [tk EXCEPT !.state = "archived"]
=============================================================================
