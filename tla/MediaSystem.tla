----------------------------- MODULE MediaSystem -----------------------------
(***************************************************************************)
(* The whole pipeline of one resource: the API processes of MediaUpload    *)
(* and the workers of MediaWorker on the same rows, queue and bucket.  The *)
(* teacher may upload a new original while the workers process the last,   *)
(* and may delete the resource under all of them.                          *)
(***************************************************************************)
EXTENDS MediaStore

CONSTANTS
    Handlers, Limit,                         \* as in MediaWorker
    Requests, Kind, Declarations, MaxFaults  \* as in MediaUpload

ASSUME SystemAssumption ==
    /\ Limit \in [Faults -> Nat]
    /\ Kind \in Kinds
    /\ Declarations \in [Objects -> SUBSET (Objects \cup {Null})]
    /\ MaxFaults \in Nat

VARIABLES
    jobs, asset, tasks, published, store,    \* shared
    resource, derived, pc, mem, owned, edPc, edRow, spent,
    uploads, multipart, parts, granted, expired, truncated, opening, rpc,
    rmem, faults

\* MediaWorker and MediaUpload, with the lemmas proved about them.
Worker == INSTANCE MediaJobsProofs WITH Uploads <- {}
Upload == INSTANCE MediaUploadProofs WITH present <- (resource # NoResource)

common    == <<jobs, asset, tasks, published, store>>
workerOwn == <<derived, pc, mem, owned, edPc, edRow, spent>>
uploadOwn == <<uploads, multipart, parts, granted, expired, truncated,
               opening, rpc, rmem, faults>>
sysVars   == <<common, resource, workerOwn, uploadOwn>>

Init ==
    /\ resource = Worker!NoRow
    /\ Upload!Init
    /\ derived = {}
    /\ pc = [h \in Handlers |-> "idle"]
    /\ mem = [h \in Handlers |-> Worker!NoMemory]
    /\ owned = [h \in Handlers |-> FALSE]
    /\ edPc = "idle"
    /\ edRow = Worker!NoRow
    /\ spent = [f \in Faults |-> 0]

WorkerStep == Worker!Next /\ UNCHANGED uploadOwn

\* The upload reads of the row whether it is there, and may delete it.
UploadStep ==
    /\ resource' \in {resource, NoResource}
    /\ UNCHANGED workerOwn
    /\ Upload!Next

Next == WorkerStep \/ UploadStep

Spec == Init /\ [][Next]_sysVars

-----------------------------------------------------------------------------
(* Properties *)

SystemTypeOK == Worker!TypeOK /\ Upload!UploadTypeOK

\* Whatever the teacher uploads while a scan runs, is retried or is delivered
\* again, the original of a resource shown as ready is one that the scan
\* accepted, and so is the source of every derived file as long as the
\* resource is there.
ReadyOriginalIsClean ==
    /\ resource.status = "ready" => asset.key \in CleanObjects
    /\ derived # {} /\ resource # NoResource => asset.key \in CleanObjects

\* Two sources enqueue jobs of the asset, the confirmations of its uploads and
\* the deliveries of its scan: no job is ever published twice.
EveryJobPublishedOnce == \A j \in JobTypes : published[j] <= 1

\* The rows of a resource stand or fall together.  While it is there, a task
\* finds its job and the job its asset; once it is deleted, no request and no
\* handler that was at work, and none of the tasks still in the queue, brings
\* a row of it back.
RowsStandOrFall ==
    IF resource # NoResource
    THEN \A j \in JobTypes :
             tasks[j].state # "none" => jobs[j] # NoJob /\ asset # NoAsset
    ELSE /\ asset = NoAsset
         /\ \A j \in JobTypes : jobs[j] = NoJob
         /\ \A s \in Objects : uploads[s] = Upload!NoUpload

-----------------------------------------------------------------------------
(* Claims of the repository that this code does not keep *)

\* processor.go:141-143: a checksum mismatch says that what arrived is not what
\* the client declared; an intact clean original is not deleted for it.
IntactIsKept ==
    [][\A s \in CleanObjects :
           s \in store /\ uploads[s].sum \in {Null, s} => s \in store']_sysVars
=============================================================================
