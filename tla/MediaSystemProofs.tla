-------------------------- MODULE MediaSystemProofs --------------------------
(***************************************************************************)
(* Safety of the whole pipeline: what the confirmations of the uploads and *)
(* the handlers of the jobs guarantee together, for any number of each and *)
(* of faults.  Every invariant of a part is kept by the steps of that part *)
(* (a lemma of its own module); here it is kept by those of the other, as  *)
(* long as the resource is there.  When it is gone so are its rows, and    *)
(* neither part brings one back.                                           *)
(***************************************************************************)
EXTENDS MediaSystem, TLAPS

Inv ==
    /\ Worker!TypeOK /\ Worker!PublishInv
    /\ resource # NoResource => Worker!RowsInv /\ Worker!CleanInv
    /\ Upload!TypeInv /\ Upload!GoneInv /\ Upload!ScanInv

\* Both parts are about the same rows, tasks and objects.
LEMMA Same ==
    /\ Worker!Objects = Objects   /\ Upload!Objects = Objects
    /\ Worker!JobTypes = JobTypes /\ Upload!JobTypes = JobTypes
    /\ Worker!JobRow = JobRow     /\ Upload!JobRow = JobRow
    /\ Worker!AssetRow = AssetRow /\ Upload!AssetRow = AssetRow
    /\ Worker!Task = Task         /\ Upload!Task = Task
    /\ Worker!NoJob = NoJob       /\ Upload!NoJob = NoJob
    /\ Worker!NoAsset = NoAsset   /\ Upload!NoAsset = NoAsset
    /\ Worker!Faults = Faults     /\ Upload!Kinds = Kinds
    /\ Worker!NoResource = NoResource /\ Worker!NoRow # NoResource
<1>1. Worker!Objects = Objects /\ Upload!Objects = Objects
  BY DEF Worker!Objects, Upload!Objects, Objects
<1>2. Worker!Kinds = Kinds /\ Upload!Kinds = Kinds
  BY DEF Worker!Kinds, Upload!Kinds, Kinds
<1>3. Worker!JobTypes = JobTypes /\ Upload!JobTypes = JobTypes
  BY DEF Worker!JobTypes, Upload!JobTypes, JobTypes
<1>4. Worker!JobRow = JobRow /\ Upload!JobRow = JobRow
  BY DEF Worker!JobRow, Upload!JobRow, JobRow, Worker!JobStatus, Upload!JobStatus, JobStatus
<1>5. Worker!AssetRow = AssetRow /\ Upload!AssetRow = AssetRow
  BY <1>1, <1>2 DEF Worker!AssetRow, Upload!AssetRow, AssetRow
<1>6. Worker!Task = Task /\ Upload!Task = Task
  BY DEF Worker!Task, Upload!Task, Task, Worker!TaskState, Upload!TaskState, TaskState
<1>7. Worker!NoJob = NoJob /\ Upload!NoJob = NoJob
  BY DEF Worker!NoJob, Upload!NoJob, NoJob
<1>8. Worker!NoAsset = NoAsset /\ Upload!NoAsset = NoAsset
  BY DEF Worker!NoAsset, Upload!NoAsset, NoAsset
<1>9. Worker!Faults = Faults
  BY DEF Worker!Faults, Faults
<1>10. Worker!NoResource = NoResource
  BY DEF Worker!NoResource, NoResource
<1>11. Worker!NoRow # NoResource
  <2>1. Worker!NoRow.status = "pending" /\ NoResource.status = "none"
    BY DEF Worker!NoRow, NoResource
  <2>2. QED
    BY <2>1
<1>12. QED
  BY <1>1, <1>2, <1>3, <1>4, <1>5, <1>6, <1>7, <1>8, <1>9, <1>10, <1>11

\* What the lemmas of the two parts assume of their constants.
LEMMA Constants ==
    /\ Limit \in [Worker!Faults -> Nat]
    /\ Kind \in Upload!Kinds
    /\ Declarations \in [Upload!Objects -> SUBSET (Upload!Objects \cup {Null})]
  BY Same, SystemAssumption

-----------------------------------------------------------------------------
(* A step of the worker *)

\* It keeps the rows of a resource that is there, and does not delete it.
LEMMA WorkerWhileThere ==
    ASSUME Inv, WorkerStep, resource # NoResource
    PROVE  /\ resource' # NoResource /\ Worker!RowsInv' /\ Worker!CleanInv'
           /\ asset'.key = asset.key /\ (asset' = NoAsset <=> asset = NoAsset)
           /\ \A j \in JobTypes : jobs[j] # NoJob => jobs'[j] # NoJob
           /\ jobs' # jobs => asset # NoAsset
<1>1. /\ Worker!TypeOK /\ Worker!RowsInv /\ Worker!PublishInv /\ Worker!CleanInv
      /\ [Worker!Next]_Worker!vars
  BY DEF Inv, WorkerStep
<1>2. Worker!RowsInv'
  BY <1>1, Worker!RowsNext, StoreAssumption, SystemAssumption, Same, Constants
<1>3. Worker!CleanInv'
  BY <1>1, Worker!CleanNext, StoreAssumption, SystemAssumption, Same, Constants
<1>4. asset'.key = asset.key /\ (asset' = NoAsset <=> asset = NoAsset)
  BY <1>1, Worker!AssetStays, StoreAssumption, SystemAssumption, Same, Constants
<1>5. Worker!JobsStay /\ (jobs' # jobs => asset # NoAsset)
  BY <1>1, Worker!JobsKept, StoreAssumption, SystemAssumption, Same, Constants
<1>6. resource' # NoResource
  BY <1>2, Same DEF Worker!RowsInv
<1>7. QED
  BY <1>2, <1>3, <1>4, <1>5, <1>6, Same DEF Worker!JobsStay

\* It writes no row of one that is gone.
LEMMA WorkerOnceGone ==
    ASSUME Inv, WorkerStep, resource = NoResource
    PROVE  UNCHANGED <<jobs, asset, resource>>
<1>1. /\ Worker!TypeOK /\ asset = NoAsset /\ \A j \in JobTypes : jobs[j] = NoJob
      /\ [Worker!Next]_Worker!vars
  BY Same DEF Inv, WorkerStep, Upload!GoneInv
<1>2. UNCHANGED Worker!rows
  BY <1>1, Worker!GoneNext, StoreAssumption, SystemAssumption, Same, Constants
<1>3. QED
  BY <1>2 DEF Worker!rows

\* It keeps the invariants of the worker.
LEMMA WorkerKeepsWorker ==
    ASSUME Inv, WorkerStep
    PROVE  /\ Worker!TypeOK' /\ Worker!PublishInv'
           /\ resource' # NoResource => Worker!RowsInv' /\ Worker!CleanInv'
           /\ published'["scan"] = published["scan"]
<1>1. /\ Worker!TypeOK /\ Worker!PublishInv
      /\ resource # Worker!NoResource \/ asset = Worker!NoAsset
      /\ [Worker!Next]_Worker!vars
  BY Same DEF Inv, WorkerStep, Upload!GoneInv
<1>2. Worker!TypeOK'
  BY <1>1, Worker!TypeNext, StoreAssumption, SystemAssumption, Same, Constants
<1>3. Worker!PublishInv'
  BY <1>1, Worker!PublishNext, StoreAssumption, SystemAssumption, Same, Constants
<1>4. published'["scan"] = published["scan"]
  BY <1>1, Worker!ScanKept, StoreAssumption, SystemAssumption, Same, Constants
<1>5. resource' # NoResource => Worker!RowsInv' /\ Worker!CleanInv'
  BY WorkerWhileThere, WorkerOnceGone
<1>6. QED
  BY <1>2, <1>3, <1>4, <1>5

\* It keeps those of the upload: it undoes nothing a confirmation relies on.
LEMMA WorkerKeepsUpload ==
    ASSUME Inv, WorkerStep
    PROVE  Upload!TypeInv' /\ Upload!GoneInv' /\ Upload!ScanInv'
<1>w. /\ Worker!TypeOK' /\ published'["scan"] = published["scan"]
      /\ resource' = NoResource <=> resource = NoResource
      /\ asset'.key = asset.key /\ (asset' = NoAsset <=> asset = NoAsset)
      /\ \A j \in JobTypes : jobs[j] # NoJob => jobs'[j] # NoJob
      /\ jobs' # jobs => asset # NoAsset /\ resource # NoResource
  BY WorkerKeepsWorker, WorkerWhileThere, WorkerOnceGone
<1>u. /\ UNCHANGED uploadOwn
      /\ Upload!UploadTypeOK /\ Upload!AssetInv /\ Upload!GoneInv /\ Upload!ScanInv
      /\ \A s \in Objects : opening[s] \in {"none", "opened"} => uploads[s] = Upload!NoUpload
      /\ \A r \in Requests : Upload!Shape(r)
  BY Same DEF Inv, WorkerStep, Upload!TypeInv
<1> USE DEF uploadOwn
<1>1. Upload!UploadTypeOK'
  BY <1>w, <1>u, Same DEF Worker!TypeOK, Upload!UploadTypeOK
<1>2. Upload!AssetInv'
  BY <1>w, <1>u, Same DEF Upload!AssetInv
<1>3. \A r \in Requests : Upload!Shape(r)'
  BY <1>w, <1>u, Same DEF Upload!Shape
<1>4. Upload!ScanInv'
  <2>1. "scan" \in JobTypes
    BY DEF JobTypes
  <2>2. QED
    BY <1>w, <1>u, <2>1, Same DEF Upload!ScanInv
<1>5. Upload!GoneInv'
  BY <1>w, <1>u, Same DEF Upload!GoneInv
<1>6. QED
  BY <1>1, <1>2, <1>3, <1>4, <1>5, <1>u, Same DEF Upload!TypeInv

-----------------------------------------------------------------------------
(* A step of the upload *)

\* A step of the upload, as the worker sees it.
UploadMoves == /\ [Upload!Next]_Upload!upVars
               /\ resource' \in {resource, NoResource}
               /\ UNCHANGED workerOwn

\* It keeps the invariants of the upload.
LEMMA UploadKeepsUpload ==
    ASSUME Inv, UploadMoves
    PROVE  Upload!TypeInv' /\ Upload!GoneInv' /\ Upload!ScanInv'
<1>1. /\ Upload!TypeInv /\ Upload!GoneInv /\ Upload!ScanInv /\ [Upload!Next]_Upload!upVars
  BY DEF Inv, UploadMoves
<1>2. Upload!TypeInv'
  BY <1>1, Upload!TypeNext, StoreAssumption, SystemAssumption, Same, Constants
<1>3. Upload!GoneInv'
  BY <1>1, Upload!GoneNext, StoreAssumption, SystemAssumption, Same, Constants
<1>4. Upload!ScanInv'
  BY <1>1, Upload!ScanNext, StoreAssumption, SystemAssumption, Same, Constants
<1>5. QED
  BY <1>2, <1>3, <1>4

\* What it does to the rows and tasks that the worker reads, if the resource
\* is there after it.
LEMMA UploadEffect ==
    ASSUME Inv, UploadMoves, resource' # NoResource
    PROVE  /\ resource' = resource
           /\ \A j \in JobTypes : jobs[j] # NoJob => jobs'[j] # NoJob
           /\ \A j \in JobTypes \ {"scan"} :
                  jobs'[j] = jobs[j] /\ tasks'[j] = tasks[j] /\ published'[j] = published[j]
           /\ tasks'["scan"] # tasks["scan"] => jobs["scan"] # NoJob
           /\ asset' # asset =>
                  asset' # NoAsset /\ (asset # NoAsset => asset'.key = asset.key)
<1>1. /\ Upload!TypeInv /\ Upload!ScanInv /\ [Upload!Next]_Upload!upVars
      /\ resource' = resource
  BY DEF Inv, UploadMoves
<1>2. Upload!Beside \/ \E r \in Requests : Upload!Confirms(r)
  BY <1>1, Upload!UploadSorts, StoreAssumption, SystemAssumption, Same, Constants
     DEF Upload!Deletes
<1>3. /\ jobs \in [JobTypes -> JobRow] /\ tasks \in [JobTypes -> Task]
      /\ published \in [JobTypes -> Nat]
  BY <1>1, Same DEF Upload!TypeInv, Upload!UploadTypeOK
<1>4. Upload!CreatedJob # NoJob
  BY DEF Upload!CreatedJob, NoJob
<1>5. CASE Upload!Beside
  BY <1>1, <1>5 DEF Upload!Beside, Upload!shared
<1>6. ASSUME NEW r \in Requests, Upload!Confirms(r)
      PROVE  /\ \A j \in JobTypes : jobs[j] # NoJob => jobs'[j] # NoJob
             /\ \A j \in JobTypes \ {"scan"} :
                    jobs'[j] = jobs[j] /\ tasks'[j] = tasks[j] /\ published'[j] = published[j]
             /\ tasks'["scan"] # tasks["scan"] => jobs["scan"] # NoJob
             /\ asset' # asset =>
                    asset' # NoAsset /\ (asset # NoAsset => asset'.key = asset.key)
  <2>1. CASE UNCHANGED <<jobs, tasks, published>>
    BY <1>6, <2>1, Same
       DEF Upload!Confirms, Upload!Asks, Upload!Sees, Upload!Closes, Upload!Catalogs,
           Upload!CreatesScan, Upload!PublishesScan
  <2>2. CASE Upload!CreatesScan(r)
    BY <1>3, <1>4, <2>2, Same DEF Upload!CreatesScan
  <2>3. CASE Upload!PublishesScan(r)
    <3>1. jobs["scan"] # NoJob
      BY <1>1, <2>3, Same DEF Upload!PublishesScan, Upload!ScanInv
    <3>2. QED
      BY <1>3, <2>3, <3>1 DEF Upload!PublishesScan
  <2>4. QED
    BY <1>6, <2>1, <2>2, <2>3
       DEF Upload!Confirms, Upload!Asks, Upload!Sees, Upload!Closes, Upload!Catalogs
<1>7. QED
  BY <1>1, <1>2, <1>5, <1>6

\* Whatever it does, it publishes no job but the scan.
LEMMA UploadPublishes ==
    ASSUME Inv, UploadMoves
    PROVE  \A j \in JobTypes \ {"scan"} : published'[j] = published[j]
<1>1. CASE resource' # NoResource
  BY <1>1, UploadEffect
<1>2. CASE resource' = NoResource
  <2>1. Upload!TypeInv /\ published \in [JobTypes -> Nat] /\ [Upload!Next]_Upload!upVars
    BY Same DEF Inv, UploadMoves, Upload!TypeInv, Upload!UploadTypeOK
  <2>2. Upload!Beside \/ Upload!Deletes \/ \E r \in Requests : Upload!Confirms(r)
    BY <2>1, Upload!UploadSorts, StoreAssumption, SystemAssumption, Same, Constants
  <2>3. \/ published' = published
        \/ published' = [published EXCEPT !["scan"] = published["scan"] + 1]
    BY <2>2 DEF Upload!Beside, Upload!shared, Upload!Deletes, Upload!Confirms, Upload!Asks,
       Upload!Sees, Upload!Closes, Upload!Catalogs, Upload!CreatesScan, Upload!PublishesScan
  <2>4. QED
    BY <2>1, <2>3
<1>3. QED
  BY <1>1, <1>2

\* It keeps the invariants of the worker: a new asset finds every handler idle,
\* and a new original of the asset keeps the key of the first.
LEMMA UploadKeepsWorker ==
    ASSUME Inv, UploadMoves, resource' # NoResource
    PROVE  Worker!RowsInv' /\ Worker!CleanInv'
<1> USE DEF workerOwn
<1>o. UNCHANGED workerOwn
  BY DEF UploadMoves
<1>u. /\ Upload!TypeInv' /\ resource' = resource
      /\ \A j \in JobTypes : jobs[j] # NoJob => jobs'[j] # NoJob
      /\ \A j \in JobTypes \ {"scan"} :
             jobs'[j] = jobs[j] /\ tasks'[j] = tasks[j] /\ published'[j] = published[j]
      /\ tasks'["scan"] # tasks["scan"] => jobs["scan"] # NoJob
      /\ asset' # asset =>
             asset' # NoAsset /\ (asset # NoAsset => asset'.key = asset.key)
  BY UploadKeepsUpload, UploadEffect
<1>w. /\ Worker!TypeOK /\ Worker!RowsInv /\ Worker!CleanInv
      /\ Upload!TypeInv /\ Upload!ScanInv
  BY <1>u DEF Inv
<1>m. \A h \in Handlers : mem[h].job \in JobTypes
  BY <1>w, Same DEF Worker!TypeOK, Worker!Memory
<1>1. Worker!RowsInv'
  <2>1. asset' # NoAsset => asset'.key \in Objects
    BY <1>u, Same DEF Upload!TypeInv, Upload!AssetInv
  <2>2. asset # NoAsset => asset' # NoAsset
    BY <1>u
  <2>3. ASSUME NEW j \in JobTypes, tasks'[j].state # "none"
        PROVE  jobs'[j] # NoJob /\ asset' # NoAsset
    <3>1. jobs[j] # NoJob /\ asset # NoAsset
      <4>1. CASE tasks'[j] = tasks[j]
        BY <1>w, <2>3, <4>1, Same DEF Worker!RowsInv
      <4>2. CASE tasks'[j] # tasks[j]
        BY <1>u, <1>w, <4>2, Same DEF Upload!ScanInv
      <4>3. QED
        BY <4>1, <4>2
    <3>2. QED
      BY <1>u, <2>2, <3>1
  <2>4. ASSUME NEW h \in Handlers
        PROVE  /\ pc'[h] # "idle" => jobs'[mem'[h].job] # NoJob /\ asset' # NoAsset
               /\ pc'[h] = "idle" => mem'[h] = Worker!NoMemory /\ ~owned'[h]
    BY <1>o, <1>u, <1>w, <1>m, <2>2, Same DEF Worker!RowsInv
  <2>5. QED
    BY <2>1, <2>3, <2>4, Same DEF Worker!RowsInv
<1>2. Worker!CleanInv'
  <2>1. CASE asset'.key = asset.key
    BY <1>o, <1>u, <1>w, <2>1, Same
       DEF Worker!CleanInv, Worker!SharedClean, Worker!HandlerClean, Worker!IsClean
  <2>2. CASE asset'.key # asset.key
    <3>1. asset = NoAsset /\ asset.key \notin CleanObjects
      <4>1. asset = NoAsset
        BY <1>u, <2>2
      <4>2. QED
        BY <4>1, StoreAssumption DEF NoAsset, Objects
    <3>2. \A h \in Handlers : pc[h] = "idle" /\ mem[h] = Worker!NoMemory
      BY <1>w, <3>1, Same DEF Worker!RowsInv
    <3>3. /\ Worker!NoMemory.doc = Worker!NoAsset /\ Worker!NoMemory.job = "scan"
          /\ Worker!NoMemory.goal = "pending" /\ Worker!NoMemory.row.status = "pending"
      BY DEF Worker!NoMemory, Worker!NoRow
    <3>4. \A h \in Handlers : Worker!HandlerClean(h)'
      BY <1>o, <3>2, <3>3 DEF Worker!HandlerClean, Worker!WithDoc, Worker!PastScan
    <3>5. Worker!SharedClean'
      BY <1>o, <1>u, <1>w, <3>1, Same DEF Worker!CleanInv, Worker!SharedClean, Worker!IsClean
    <3>6. QED
      BY <3>4, <3>5 DEF Worker!CleanInv
  <2>3. QED
    BY <2>1, <2>2
<1>3. QED
  BY <1>1, <1>2

\* It keeps the types of the worker, and the jobs it publishes but once.
LEMMA UploadKeepsJobs ==
    ASSUME Inv, UploadMoves
    PROVE  Worker!TypeOK' /\ Worker!PublishInv'
<1>1. /\ UNCHANGED workerOwn /\ resource' \in {resource, NoResource}
      /\ Worker!TypeOK /\ Worker!PublishInv /\ Upload!TypeInv'
      /\ \A j \in JobTypes \ {"scan"} : published'[j] = published[j]
      /\ resource' # NoResource =>
             resource' = resource /\ \A j \in JobTypes \ {"scan"} : jobs'[j] = jobs[j]
  BY UploadKeepsUpload, UploadEffect, UploadPublishes DEF Inv, UploadMoves
<1> USE DEF workerOwn
<1>2. Worker!TypeOK'
  BY <1>1, Same DEF Upload!TypeInv, Upload!UploadTypeOK, Worker!TypeOK
<1>3. Worker!PublishInv'
  BY <1>1, Same DEF Worker!PublishInv, Worker!Next_Of
<1>4. QED
  BY <1>2, <1>3

-----------------------------------------------------------------------------
(* The pipeline *)

\* At the beginning there is no asset, and the handlers are idle.
LEMMA SystemInit == Init => Inv
<1> SUFFICES ASSUME Init PROVE Inv
  OBVIOUS
<1>r. resource # NoResource
  BY Same DEF Init
<1>1. Upload!TypeInv /\ Upload!GoneInv
  BY Upload!TypeInit, Upload!GoneInit, StoreAssumption, SystemAssumption, Same, Constants
     DEF Init
<1>2. Upload!ScanInv
  BY Upload!ScanInit, StoreAssumption, SystemAssumption, Same, Constants DEF Init
<1>3. /\ asset = NoAsset /\ \A j \in JobTypes : tasks[j] = NoTask /\ published[j] = 0
      /\ resource = Worker!NoRow /\ derived = {} /\ edPc = "idle" /\ edRow = Worker!NoRow
      /\ spent = [f \in Faults |-> 0]
      /\ pc = [h \in Handlers |-> "idle"] /\ mem = [h \in Handlers |-> Worker!NoMemory]
      /\ owned = [h \in Handlers |-> FALSE]
  BY Same DEF Init, Upload!Init, Upload!NoTask, NoTask
<1>4. Worker!NoRow \in Worker!ResourceRow /\ Worker!NoMemory \in Worker!Memory
  BY Worker!RowTypes, StoreAssumption, SystemAssumption, Same, Constants
<1>5. Worker!TypeOK
  BY <1>1, <1>3, <1>4, Same
     DEF Upload!TypeInv, Upload!UploadTypeOK, Worker!TypeOK, Worker!PC
<1>6. Worker!RowsInv
  BY <1>3, Same DEF Worker!RowsInv, NoTask
<1>7. Worker!PublishInv
  BY <1>3, Same DEF Worker!PublishInv, Worker!Enqueuing
<1>8. Worker!CleanInv
  BY <1>3, Same
     DEF Worker!CleanInv, Worker!SharedClean, Worker!HandlerClean, Worker!WithDoc,
         Worker!PastScan, Worker!NoRow, Worker!NoMemory, NoTask
<1>9. QED
  BY <1>1, <1>2, <1>5, <1>6, <1>7, <1>8 DEF Inv

\* Both parts keep the whole invariant.
LEMMA SystemNext == Inv /\ [Next]_sysVars => Inv'
<1> SUFFICES ASSUME Inv, [Next]_sysVars PROVE Inv'
  OBVIOUS
<1>1. CASE WorkerStep
  BY <1>1, WorkerKeepsWorker, WorkerKeepsUpload DEF Inv
<1>2. CASE UploadMoves
  BY <1>2, UploadKeepsUpload, UploadKeepsWorker, UploadKeepsJobs DEF Inv
<1>3. CASE UNCHANGED sysVars
  BY <1>2, <1>3 DEF UploadMoves, sysVars, common, uploadOwn, Upload!upVars
<1>4. QED
  BY <1>1, <1>2, <1>3 DEF Next, UploadStep, UploadMoves

\* The invariant of the pipeline.
LEMMA InvHolds == Spec => []Inv
  BY SystemInit, SystemNext, PTL DEF Spec

\* Every row, task and memory of both parts always has its type.
THEOREM TypeCorrect == Spec => []SystemTypeOK
<1>1. Inv => SystemTypeOK
  BY DEF Inv, SystemTypeOK, Upload!TypeInv
<1>2. QED
  BY <1>1, InvHolds, PTL

\* Two sources enqueue the jobs of an asset: CompleteUpload its scan, and the
\* deliveries of the scan what follows it.  No job is published twice, however
\* many of them run at once, fail or are delivered again.
THEOREM JobsPublishedOnce == Spec => []EveryJobPublishedOnce
<1>1. Inv => EveryJobPublishedOnce
  BY Same DEF Inv, EveryJobPublishedOnce, Worker!PublishInv, Upload!ScanInv
<1>2. QED
  BY <1>1, InvHolds, PTL

\* As long as the resource is there, a task finds its job and the job its
\* asset, whoever published it.  Once the teacher deletes it, neither the
\* confirmations and deliveries that were at work nor the tasks that are still
\* queued bring one of its rows back.
THEOREM RowsStandOrFallTogether == Spec => []RowsStandOrFall
<1>1. Inv => RowsStandOrFall
  <2> SUFFICES ASSUME Inv PROVE RowsStandOrFall
    OBVIOUS
  <2>1. CASE resource # NoResource
    BY <2>1, Same DEF Inv, RowsStandOrFall, Worker!RowsInv
  <2>2. CASE resource = NoResource
    BY <2>2, Same DEF Inv, RowsStandOrFall, Upload!GoneInv
  <2>3. QED
    BY <2>1, <2>2
<1>2. QED
  BY <1>1, InvHolds, PTL

\* The original of a resource shown as ready, and of every derived file, is one
\* that the scan accepted, though the teacher uploads others while the scan
\* runs, is retried or is delivered again.
THEOREM ReadyIsClean == Spec => []ReadyOriginalIsClean
<1>1. Inv => ReadyOriginalIsClean
  <2>1. NoResource.status = "none"
    BY DEF NoResource
  <2>2. QED
    BY <2>1
       DEF Inv, ReadyOriginalIsClean, Worker!CleanInv, Worker!SharedClean, Worker!IsClean
<1>2. QED
  BY <1>1, InvHolds, PTL
=============================================================================
