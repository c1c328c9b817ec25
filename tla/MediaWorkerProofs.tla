------------------------- MODULE MediaWorkerProofs --------------------------
(***************************************************************************)
(* Safety of the media worker for any number of handlers, any set of       *)
(* uploads and any number of faults of each sort.                          *)
(***************************************************************************)
EXTENDS MediaWorker, TLAPS

-----------------------------------------------------------------------------
(* Types *)

\* Every row, task and memory the steps build has its type.
LEMMA RowTypes ==
    /\ NoJob \in JobRow /\ CreatedJob \in JobRow
    /\ NoTask \in Task /\ NewTask \in Task
    /\ NoAsset \in AssetRow /\ NoRow \in ResourceRow /\ NoMemory \in Memory
<1>1. NoJob \in JobRow /\ CreatedJob \in JobRow
  BY DEF NoJob, CreatedJob, JobRow, JobStatus
<1>2. NoTask \in Task /\ NewTask \in Task
  BY DEF NoTask, NewTask, Task, TaskState
<1>3. NoAsset \in AssetRow
  BY DEF NoAsset, AssetRow, Kinds
<1>4. NoRow \in ResourceRow
  BY DEF NoRow, ResourceRow, ProcessingStatus
<1>5. NoMemory \in Memory
  BY <1>3, <1>4 DEF NoMemory, Memory, JobTypes, ProcessingStatus
<1>6. QED
  BY <1>1, <1>2, <1>3, <1>4, <1>5

\* The operators that compute a row or a task from another keep its type.
LEMMA StepTypes ==
    /\ \A tk \in Task : FailedTask(tk) \in Task
    /\ \A old, a \in AssetRow : UpdatedAsset(old, a) \in AssetRow
    /\ \A r \in ResourceRow, g \in ProcessingStatus :
            UpdatedResource(r, g) \in ResourceRow
    /\ \A n \in Nat : FailedStatus(n) \in JobStatus
    /\ \A k \in Kinds : NextJob(k) \in JobTypes
    /\ \A n \in Nat : RejectedAttempts(n) \in Nat
<1>1. \A tk \in Task : FailedTask(tk) \in Task
  BY DEF FailedTask, Task, TaskState
<1>2. \A old, a \in AssetRow : UpdatedAsset(old, a) \in AssetRow
  BY DEF UpdatedAsset, Updated, AssetRow
<1>3. \A r \in ResourceRow, g \in ProcessingStatus :
            UpdatedResource(r, g) \in ResourceRow
  BY DEF UpdatedResource, ResourceRow
<1>4. \A n \in Nat : FailedStatus(n) \in JobStatus
  BY DEF FailedStatus, JobStatus
<1>5. \A k \in Kinds : NextJob(k) \in JobTypes
  BY DEF NextJob, JobTypes, Kinds
<1>6. \A n \in Nat : RejectedAttempts(n) \in Nat
  BY StoreAssumption DEF RejectedAttempts
<1>7. QED
  BY <1>1, <1>2, <1>3, <1>4, <1>5, <1>6

LEMMA TypeInit == Init => TypeOK
<1> SUFFICES ASSUME Init PROVE TypeOK
  OBVIOUS
<1>1. asset \in AssetRow /\ asset.key \in Objects
  BY WorkerAssumption DEF Init
<1>2. QED
  BY <1>1, RowTypes DEF Init, TypeOK, JobTypes, PC

\* Every step of a handler, of asynq and of the teacher keeps the types.
LEMMA TypeNext == TypeOK /\ [Next]_vars => TypeOK'
<1> SUFFICES ASSUME TypeOK, [Next]_vars PROVE TypeOK'
  OBVIOUS
<1> USE DEF TypeOK, rows, queue, bucket, editor
<1>f. ASSUME NEW f \in Faults, Spend(f) PROVE spent' \in [Faults -> Nat]
  BY <1>f DEF Spend
<1>o. ASSUME NEW f \in Faults, NEW ok \in BOOLEAN, Outcome(f, ok)
      PROVE  spent' \in [Faults -> Nat]
  BY <1>o, <1>f DEF Outcome
<1>g. ASSUME NEW h \in Handlers, NEW l \in PC, Go(h, l)
      PROVE  pc' \in [Handlers -> PC]
  BY <1>g DEF Go
<1>l. ASSUME NEW h \in Handlers, Leave(h)
      PROVE  /\ pc' \in [Handlers -> PC]
             /\ mem' \in [Handlers -> Memory]
             /\ owned' \in [Handlers -> BOOLEAN]
  BY <1>l, RowTypes DEF Leave, PC
<1>t. ASSUME NEW j \in JobTypes, NEW tk \in Task, SetTask(j, tk)
      PROVE  tasks' \in [JobTypes -> Task]
  BY <1>t DEF SetTask
<1>s. ASSUME NEW j \in JobTypes, NEW st \in TaskState
      PROVE  [tasks[j] EXCEPT !.state = st] \in Task
  BY DEF Task
<1>m. \A h \in Handlers :
        /\ mem[h].job \in JobTypes /\ mem[h].attempts \in Nat
        /\ mem[h].doc \in AssetRow /\ mem[h].row \in ResourceRow
        /\ mem[h].goal \in ProcessingStatus
  BY DEF Memory
<1>u. ASSUME NEW h \in Handlers, NEW ok \in BOOLEAN, NEW st \in JobStatus,
             NEW n \in Nat, UpdateJob(h, ok, st, n)
      PROVE  jobs' \in [JobTypes -> JobRow]
  <2>1. Updated(jobs[mem[h].job], NoJob, [status |-> st, attempts |-> n]) \in JobRow
    BY RowTypes DEF Updated, JobRow
  <2>2. QED
    BY <1>u, <1>m, <2>1 DEF UpdateJob, Written
<1>1. ASSUME NEW h \in Handlers, HandlerStep(h) PROVE TypeOK'
  <2>1. CASE Load(h)
    <3>1. spent' \in [Faults -> Nat] /\ pc' \in [Handlers -> PC]
      BY <2>1, <1>o, <1>g DEF Load, AfterLoad, PC, Faults
    <3>2. mem' \in [Handlers -> Memory]
      BY <2>1 DEF Load, Memory, JobRow
    <3>3. QED
      BY <2>1, <3>1, <3>2 DEF Load
  <2>2. CASE MarkJobProcessing(h)
    <3>1. spent' \in [Faults -> Nat] /\ pc' \in [Handlers -> PC]
      BY <2>2, <1>o, <1>g DEF MarkJobProcessing, PC, Faults
    <3>2. mem' \in [Handlers -> Memory]
      BY <2>2, <1>m DEF MarkJobProcessing, Memory
    <3>3. jobs' \in [JobTypes -> JobRow]
      BY <2>2, <1>u, <1>m DEF MarkJobProcessing, JobStatus
    <3>4. QED
      BY <2>2, <3>1, <3>2, <3>3 DEF MarkJobProcessing
  <2>3. CASE LoadAsset(h)
    <3>1. spent' \in [Faults -> Nat] /\ pc' \in [Handlers -> PC]
      BY <2>3, <1>o, <1>g DEF LoadAsset, PC, Faults
    <3>2. mem' \in [Handlers -> Memory]
      <4>1. [mem[h] EXCEPT !.doc = asset, !.goal = "processing"] \in Memory
        BY DEF Memory, ProcessingStatus
      <4>2. QED
        BY <2>3, <4>1 DEF LoadAsset
    <3>3. QED
      BY <2>3, <3>1, <3>2 DEF LoadAsset
  <2>4. CASE FindResource(h)
    <3>1. spent' \in [Faults -> Nat] /\ pc' \in [Handlers -> PC]
      BY <2>4, <1>o, <1>g DEF FindResource, AfterResource, PC, Faults
    <3>2. mem' \in [Handlers -> Memory]
      <4>1. resource # NoResource => [mem[h] EXCEPT !.row = resource] \in Memory
        BY DEF Memory
      <4>2. \/ mem' = mem
            \/ /\ resource # NoResource
               /\ mem' = [mem EXCEPT ![h] = [mem[h] EXCEPT !.row = resource]]
        BY <2>4 DEF FindResource
      <4>3. QED
        BY <4>1, <4>2
    <3>3. QED
      BY <2>4, <3>1, <3>2 DEF FindResource
  <2>5. CASE PutResource(h)
    <3>1. spent' \in [Faults -> Nat] /\ pc' \in [Handlers -> PC]
      BY <2>5, <1>o, <1>g DEF PutResource, AfterResource, PC, Faults
    <3>2. resource' \in ResourceRow \cup {NoResource}
      BY <2>5, <1>m, StepTypes DEF PutResource, Written, Updated
    <3>3. mem' \in [Handlers -> Memory]
      BY <2>5, RowTypes DEF PutResource, Memory
    <3>4. QED
      BY <2>5, <3>1, <3>2, <3>3 DEF PutResource
  <2>6. CASE Download(h)
    <3>1. spent' \in [Faults -> Nat]
      BY <2>6, <1>f DEF Download, Faults
    <3>2. pc' \in [Handlers -> PC]
      BY <2>6, <1>g, <1>m DEF Download, PC, JobTypes
    <3>3. QED
      BY <2>6, <3>1, <3>2 DEF Download
  <2>r. ASSUME Reject(h)
        PROVE  /\ spent' \in [Faults -> Nat] /\ pc' \in [Handlers -> PC]
               /\ mem' \in [Handlers -> Memory] /\ store' \subseteq Objects
    <3>1. spent' \in [Faults -> Nat]
      BY <2>r, <1>o DEF Reject, Faults
    <3>2. pc' \in [Handlers -> PC]
      BY <2>r, <1>g DEF Reject, PC
    <3>3. mem' \in [Handlers -> Memory]
      BY <2>r, <1>m, StepTypes DEF Reject, Memory
    <3>4. store' \subseteq Objects
      BY <2>r DEF Reject, Written
    <3>5. QED
      BY <3>1, <3>2, <3>3, <3>4
  <2>7. CASE Inspect(h)
    <3>1. CASE Reject(h)
      BY <2>7, <3>1, <2>r DEF Inspect
    <3>2. CASE ~Mismatch(mem[h].doc) /\ Go(h, "sumRow") /\ UNCHANGED <<store, spent>>
               /\ mem' = [mem EXCEPT ![h].doc.sum = mem[h].doc.key]
      <4>1. mem[h].doc.key \in Objects \cup {Null} /\ mem[h].doc \in AssetRow
        BY <2>7, <3>2, <1>m DEF Inspect, AssetRow
      <4>2. mem' \in [Handlers -> Memory]
        BY <3>2, <4>1 DEF Memory, AssetRow
      <4>3. QED
        BY <2>7, <3>2, <4>2, <1>g DEF Inspect, PC
    <3>3. QED
      BY <2>7, <3>1, <3>2 DEF Inspect
  <2>8. CASE UpdateAsset(h)
    <3>1. spent' \in [Faults -> Nat] /\ pc' \in [Handlers -> PC]
      BY <2>8, <1>o, <1>g DEF UpdateAsset, PC, Faults
    <3>2. mem' \in [Handlers -> Memory]
      BY <2>8 DEF UpdateAsset, Memory, ProcessingStatus
    <3>3. asset' \in AssetRow
      BY <2>8, <1>m, StepTypes DEF UpdateAsset, Written
    <3>4. QED
      BY <2>8, <3>1, <3>2, <3>3 DEF UpdateAsset
  <2>9. CASE ScanVirus(h)
    <3>1. CASE Reject(h)
      BY <2>9, <3>1, <2>r DEF ScanVirus
    <3>2. CASE /\ Go(h, AfterClean(mem[h].doc.kind))
               /\ mem' = [mem EXCEPT ![h].goal = "ready"]
               /\ UNCHANGED <<store, spent>>
      <4>1. mem' \in [Handlers -> Memory]
        BY <3>2 DEF Memory, ProcessingStatus
      <4>2. pc' \in [Handlers -> PC]
        BY <3>2, <1>g DEF AfterClean, PC
      <4>3. QED
        BY <2>9, <3>2, <4>1, <4>2 DEF ScanVirus
    <3>3. CASE Spend("tool") /\ Go(h, "failing") /\ UNCHANGED <<store, mem>>
      BY <2>9, <3>3, <1>f, <1>g DEF ScanVirus, PC, Faults
    <3>4. QED
      BY <2>9, <3>1, <3>2, <3>3 DEF ScanVirus
  <2>10. CASE FindNextJob(h)
    <3>1. spent' \in [Faults -> Nat] /\ pc' \in [Handlers -> PC]
      BY <2>10, <1>o, <1>g DEF FindNextJob, AfterFind, PC, Faults
    <3>2. QED
      BY <2>10, <3>1 DEF FindNextJob
  <2>11. CASE CreateNextJob(h)
    <3>1. spent' \in [Faults -> Nat] /\ pc' \in [Handlers -> PC]
      BY <2>11, <1>o, <1>g DEF CreateNextJob, PC, Faults
    <3>2. jobs' \in [JobTypes -> JobRow]
      BY <2>11, RowTypes DEF CreateNextJob, Written
    <3>3. QED
      BY <2>11, <3>1, <3>2 DEF CreateNextJob
  <2>12. CASE PublishNextJob(h)
    <3>1. spent' \in [Faults -> Nat] /\ pc' \in [Handlers -> PC]
      BY <2>12, <1>o, <1>g DEF PublishNextJob, PC, Faults
    <3>2. Next_Of(h) \in JobTypes
      BY <1>m, StepTypes DEF Next_Of, AssetRow
    <3>3. tasks' \in [JobTypes -> Task] /\ published' \in [JobTypes -> Nat]
      BY <2>12, <3>2, <1>t, RowTypes DEF PublishNextJob
    <3>4. QED
      BY <2>12, <3>1, <3>3 DEF PublishNextJob
  <2>13. CASE UploadDerived(h)
    <3>1. spent' \in [Faults -> Nat] /\ pc' \in [Handlers -> PC]
      BY <2>13, <1>o, <1>g DEF UploadDerived, AfterUpload, DerivedFiles, PC, Faults
    <3>2. mem' \in [Handlers -> Memory]
      <4>1. WithManifest(mem[h].doc, pc[h]) \in AssetRow
        BY <1>m DEF WithManifest, AssetRow
      <4>2. [mem[h] EXCEPT !.doc = WithManifest(mem[h].doc, pc[h]),
                           !.goal = "ready"] \in Memory
        BY <4>1, <1>m DEF Memory, ProcessingStatus
      <4>3. CASE mem' = mem
        BY <4>3
      <4>4. CASE mem' = [mem EXCEPT ![h] =
                  [mem[h] EXCEPT !.doc = WithManifest(mem[h].doc, pc[h]),
                                 !.goal = "ready"]]
        BY <4>2, <4>4
      <4>5. QED
        BY <2>13, <4>3, <4>4 DEF UploadDerived
    <3>3. derived' \subseteq DerivedFiles
      BY <2>13 DEF UploadDerived, Written
    <3>4. QED
      BY <2>13, <3>1, <3>2, <3>3 DEF UploadDerived
  <2>14. CASE MarkJobDone(h)
    <3>1. spent' \in [Faults -> Nat] /\ pc' \in [Handlers -> PC]
      BY <2>14, <1>o, <1>g DEF MarkJobDone, PC, Faults
    <3>2. jobs' \in [JobTypes -> JobRow]
      BY <2>14, <1>u, <1>m DEF MarkJobDone, JobStatus
    <3>3. QED
      BY <2>14, <3>1, <3>2 DEF MarkJobDone
  <2>15. CASE MarkJobFailed(h)
    <3>1. spent' \in [Faults -> Nat] /\ pc' \in [Handlers -> PC]
      BY <2>15, <1>o, <1>g DEF MarkJobFailed, PC, Faults
    <3>2. mem' \in [Handlers -> Memory]
      BY <2>15 DEF MarkJobFailed, Memory, ProcessingStatus
    <3>3. jobs' \in [JobTypes -> JobRow]
      BY <2>15, <1>u, <1>m, StepTypes DEF MarkJobFailed
    <3>4. QED
      BY <2>15, <3>1, <3>2, <3>3 DEF MarkJobFailed
  <2>16. CASE Finish(h)
    <3>1. tasks' \in [JobTypes -> Task]
      BY <2>16, <1>t, <1>s, <1>m, StepTypes DEF Finish, TaskState
    <3>2. QED
      BY <2>16, <3>1, <1>l DEF Finish
  <2>17. QED
    BY <1>1, <2>1, <2>2, <2>3, <2>4, <2>5, <2>6, <2>7, <2>8, <2>9, <2>10,
       <2>11, <2>12, <2>13, <2>14, <2>15, <2>16 DEF HandlerStep
<1>2. ASSUME NEW h \in Handlers, NEW j \in JobTypes, Deliver(h, j) PROVE TypeOK'
  <2>1. tasks' \in [JobTypes -> Task] /\ pc' \in [Handlers -> PC]
    BY <1>2, <1>t, <1>s, <1>g DEF Deliver, TaskState, PC
  <2>2. mem' \in [Handlers -> Memory] /\ owned' \in [Handlers -> BOOLEAN]
    BY <1>2 DEF Deliver, Memory
  <2>3. QED
    BY <1>2, <2>1, <2>2 DEF Deliver
<1>3. ASSUME NEW j \in JobTypes, RecoverLost(j) PROVE TypeOK'
  BY <1>3, <1>t, StepTypes DEF RecoverLost
<1>4. ASSUME NEW h \in Handlers, Crash(h) PROVE TypeOK'
  <2>1. tasks' \in [JobTypes -> Task] /\ spent' \in [Faults -> Nat]
    BY <1>4, <1>t, <1>s, <1>m, <1>f DEF Crash, TaskState, Faults
  <2>2. QED
    BY <1>4, <2>1, <1>l DEF Crash
<1>5. ASSUME NEW h \in Handlers, Timeout(h) PROVE TypeOK'
  <2>1. tasks' \in [JobTypes -> Task] /\ spent' \in [Faults -> Nat]
    BY <1>5, <1>t, <1>m, <1>f, StepTypes DEF Timeout, Faults
  <2>2. QED
    BY <1>5, <2>1 DEF Timeout
<1>6. ASSUME NEW h \in Handlers, Requeue(h) PROVE TypeOK'
  <2>1. tasks' \in [JobTypes -> Task] /\ spent' \in [Faults -> Nat]
    BY <1>6, <1>t, <1>s, <1>m, <1>f DEF Requeue, TaskState, Faults
  <2>2. QED
    BY <1>6, <2>1 DEF Requeue
<1>7. ASSUME NEW h \in Handlers, Vanish(h) PROVE TypeOK'
  BY <1>7, <1>l DEF Vanish
<1>8. CASE BeginEdit
  BY <1>8, <1>f DEF BeginEdit, Faults
<1>9. CASE EndEdit
  <2>1. resource' \in ResourceRow \cup {NoResource}
    BY <1>9 DEF EndEdit, Updated, ResourceRow, Faults
  <2>2. QED
    BY <1>9, <2>1, RowTypes DEF EndEdit
<1>10. CASE UNCHANGED vars
  BY <1>10 DEF vars
<1>11. QED
  BY <1>1, <1>2, <1>3, <1>4, <1>5, <1>6, <1>7, <1>8, <1>9, <1>10 DEF Next, Rest

\* The rows, the tasks and the memories of the handlers always have the types
\* the Go structs and the columns give them.
THEOREM TypeCorrect == Spec => []TypeOK
<1>1. QED
  BY TypeInit, TypeNext, PTL DEF Spec

-----------------------------------------------------------------------------
(* Acceptance: the inductive invariant behind ReadyOnlyIfAccepted *)

SumOk(a) == a.sum \in {Null, a.key}

\* A copy of the asset judges the original as the row itself does.
Agrees(a) == /\ a.key = asset.key
             /\ a.kind = asset.kind
             /\ SumOk(a) <=> SumOk(asset)

\* The steps of a handler that has read the asset.
WithDoc == {"getRes", "putRes", "download", "inspect", "sumRow", "clam",
            "findNext", "createNext", "publish", "playlist", "segments",
            "pdf", "hlsRow"}

\* The steps after the scan found the file clean.
PastScan == {"findNext", "createNext", "publish", "playlist", "segments",
             "pdf", "hlsRow"}

HandlerInv(h) ==
    /\ mem[h].doc = NoAsset \/ Agrees(mem[h].doc)
    /\ pc[h] \in WithDoc => mem[h].doc # NoAsset
    /\ pc[h] \in {"sumRow", "clam"} =>
           SumOk(asset) /\ asset.key \notin WrongTypeObjects
    /\ \/ pc[h] \in PastScan
       \/ mem[h].job # "scan"
       \/ mem[h].goal = "ready"
       \/ mem[h].row.status = "ready"
       => Accepted(asset)

SharedInv ==
    /\ asset.key \in Objects
    /\ \A j \in JobTypes :
           j # "scan" /\ tasks[j].state # "none" => Accepted(asset)
    /\ resource.status = "ready" => Accepted(asset)
    /\ edRow.status = "ready" => Accepted(asset)
    /\ derived # {} => Accepted(asset)
    /\ Accepted(asset) => asset.key \in store

AcceptInv == SharedInv /\ \A h \in Handlers : HandlerInv(h)
LEMMA AcceptInit == Init => AcceptInv
  BY WorkerAssumption, StoreAssumption
     DEF Init, AcceptInv, SharedInv, HandlerInv, WithDoc, PastScan, NoMemory,
         NoRow, NoTask, Accepted

\* No step changes which original the asset has nor whether it is acceptable:
\* a handler writes back a copy that agrees with the row.
LEMMA AcceptStable ==
    ASSUME TypeOK, AcceptInv, [Next]_vars
    PROVE  /\ asset'.key = asset.key /\ asset'.kind = asset.kind
           /\ SumOk(asset') <=> SumOk(asset)
           /\ Accepted(asset') <=> Accepted(asset)
<1>1. CASE \E h \in Handlers : UpdateAsset(h)
  <2>1. PICK h \in Handlers : UpdateAsset(h)
    BY <1>1
  <2>2. Agrees(mem[h].doc)
    BY <2>1 DEF UpdateAsset, AcceptInv, HandlerInv, WithDoc
  <2>3. asset \in AssetRow /\ mem[h].doc \in AssetRow
    BY <2>1 DEF TypeOK, Memory
  <2>4. asset' = asset \/ asset' = UpdatedAsset(asset, mem[h].doc)
    BY <2>1 DEF UpdateAsset, Written
  <2>5. asset' = asset \/ asset' = mem[h].doc
    BY <2>2, <2>3, <2>4 DEF UpdatedAsset, Updated, Agrees, AssetRow
  <2>6. QED
    BY <2>2, <2>5 DEF Agrees, SumOk, Accepted
<1>2. CASE ~ \E h \in Handlers : UpdateAsset(h)
  <2>1. asset' = asset
    BY <1>2 DEF Next, HandlerStep, Load, MarkJobProcessing, LoadAsset,
        FindResource, PutResource, Download, Inspect, ScanVirus, FindNextJob,
        CreateNextJob, PublishNextJob, UploadDerived, MarkJobDone,
        MarkJobFailed, Finish, Deliver, RecoverLost, Crash, Timeout, Requeue,
        Vanish, BeginEdit, EndEdit, Rest, vars, rows
  <2>2. QED
    BY <2>1
<1>3. QED
  BY <1>1, <1>2

\* A step that leaves a handler alone keeps what is known of it.
LEMMA HandlerKept ==
    ASSUME TypeOK, AcceptInv, [Next]_vars, NEW h \in Handlers,
           pc'[h] = pc[h], mem'[h] = mem[h]
    PROVE  HandlerInv(h)'
  BY AcceptStable DEF AcceptInv, HandlerInv, Agrees

\* A handler that ends has nothing to answer for.
LEMMA HandlerLeft ==
    ASSUME TypeOK, AcceptInv, [Next]_vars, NEW h \in Handlers, Leave(h)
    PROVE  \A i \in Handlers : HandlerInv(i)'
<1>1. \A i \in Handlers \ {h} : pc'[i] = pc[i] /\ mem'[i] = mem[i]
  BY DEF Leave, TypeOK
<1>2. pc'[h] = "idle" /\ mem'[h] = NoMemory
  BY DEF Leave, TypeOK
<1>3. HandlerInv(h)'
  BY <1>2 DEF HandlerInv, NoMemory, NoRow, WithDoc, PastScan
<1>4. QED
  BY <1>1, <1>3, HandlerKept

\* Steps that touch neither the handlers nor what SharedInv speaks of.
LEMMA SharedKept ==
    ASSUME TypeOK, AcceptInv, [Next]_vars,
           UNCHANGED <<tasks, resource, edRow, derived, store>>
    PROVE  SharedInv'
  BY AcceptStable DEF AcceptInv, SharedInv

\* Where a handler goes after the two statements of the resource.
LEMMA AfterResourceSteps ==
    \A g \in ProcessingStatus :
        /\ AfterResource(g, FALSE) \in {"errored", "failing"}
        /\ AfterResource(g, TRUE) \in {"errored", "closing", "download"}
  BY DEF AfterResource, ProcessingStatus

\* One step of a handler keeps what is known of that handler and of the rows.
LEMMA AcceptHandler ==
    ASSUME TypeOK, AcceptInv, [Next]_vars, NEW h \in Handlers, HandlerStep(h)
    PROVE  AcceptInv'
<1> USE DEF rows, queue, bucket, editor
<1>m. /\ mem \in [Handlers -> Memory] /\ pc \in [Handlers -> PC]
      /\ mem[h] \in Memory /\ mem[h].doc \in AssetRow
      /\ mem[h].row \in ResourceRow /\ asset \in AssetRow
  BY DEF TypeOK, Memory
<1>a. SharedInv /\ HandlerInv(h)
  BY DEF AcceptInv
<1>s. /\ asset'.key = asset.key /\ asset'.kind = asset.kind
      /\ SumOk(asset') <=> SumOk(asset)
      /\ Accepted(asset') <=> Accepted(asset)
  BY AcceptStable
<1>k. asset.key \in Objects /\ asset.key # Null
  BY <1>a, StoreAssumption DEF SharedInv
<1>d. Agrees(asset) /\ asset # NoAsset
  BY <1>k DEF Agrees, NoAsset
<1>1. CASE Load(h)
  <2>1. \A i \in Handlers \ {h} : pc'[i] = pc[i] /\ mem'[i] = mem[i]
    BY <1>1, <1>m DEF Load, Go
  <2>2. /\ pc'[h] \in {"errored", "succeeded", "mark"}
        /\ mem'[h].doc = mem[h].doc
        /\ mem'[h].job = mem[h].job
        /\ mem'[h].goal = mem[h].goal
        /\ mem'[h].row = mem[h].row
    BY <1>1, <1>m DEF Load, Go, Memory, AfterLoad
  <2>3. HandlerInv(h)'
    BY <2>2, <1>m, <1>a, <1>k, <1>d, <1>s
       DEF HandlerInv, Agrees, WithDoc, PastScan
  <2>4. SharedInv'
    BY <1>1, SharedKept DEF Load
  <2>5. QED
    BY <2>1, <2>3, <2>4, HandlerKept DEF AcceptInv
<1>2. CASE MarkJobProcessing(h)
  <2>1. \A i \in Handlers \ {h} : pc'[i] = pc[i] /\ mem'[i] = mem[i]
    BY <1>2, <1>m DEF MarkJobProcessing, Go
  <2>2. /\ pc'[h] \in {"asset", "errored"}
        /\ mem'[h].doc = mem[h].doc
        /\ mem'[h].job = mem[h].job
        /\ mem'[h].goal = mem[h].goal
        /\ mem'[h].row = mem[h].row
    BY <1>2, <1>m DEF MarkJobProcessing, Go, Memory
  <2>3. HandlerInv(h)'
    BY <2>2, <1>m, <1>a, <1>k, <1>d, <1>s
       DEF HandlerInv, Agrees, WithDoc, PastScan
  <2>4. SharedInv'
    BY <1>2, SharedKept DEF MarkJobProcessing
  <2>5. QED
    BY <2>1, <2>3, <2>4, HandlerKept DEF AcceptInv
<1>3. CASE LoadAsset(h)
  <2>1. \A i \in Handlers \ {h} : pc'[i] = pc[i] /\ mem'[i] = mem[i]
    BY <1>3, <1>m DEF LoadAsset, Go
  <2>2. /\ pc'[h] \in {"failing", "getRes", "download"}
        /\ \/ pc'[h] = "failing" /\ mem' = mem
           \/ mem'[h].doc = asset /\ mem'[h].goal = "processing"
        /\ mem'[h].job = mem[h].job
        /\ mem'[h].row = mem[h].row
    <3>1. PICK ok \in BOOLEAN :
             /\ Go(h, IF ~ok THEN "failing"
                      ELSE IF mem[h].job = "scan" THEN "getRes" ELSE "download")
             /\ mem' = IF ok THEN [mem EXCEPT ![h] =
                          [mem[h] EXCEPT !.doc = asset, !.goal = "processing"]]
                       ELSE mem
      BY <1>3 DEF LoadAsset
    <3>2. CASE ok
      BY <3>1, <3>2, <1>m DEF Go, Memory
    <3>3. CASE ~ok
      BY <3>1, <3>3, <1>m DEF Go
    <3>4. QED
      BY <3>2, <3>3
  <2>3. HandlerInv(h)'
    BY <2>2, <1>m, <1>a, <1>k, <1>d, <1>s
       DEF HandlerInv, Agrees, WithDoc, PastScan
  <2>4. SharedInv'
    BY <1>3, SharedKept DEF LoadAsset
  <2>5. QED
    BY <2>1, <2>3, <2>4, HandlerKept DEF AcceptInv
<1>4. CASE FindResource(h)
  <2>1. \A i \in Handlers \ {h} : pc'[i] = pc[i] /\ mem'[i] = mem[i]
    BY <1>4, <1>m DEF FindResource, Go
  <2>2. /\ pc[h] = "getRes" /\ pc'[h] \in {"putRes", "errored", "failing"}
        /\ mem'[h].row \in {resource, mem[h].row}
        /\ mem'[h].doc = mem[h].doc
        /\ mem'[h].job = mem[h].job
        /\ mem'[h].goal = mem[h].goal
    <3>1. pc[h] = "getRes" /\ pc'[h] \in {"putRes", "errored", "failing"}
      BY <1>4, <1>m, AfterResourceSteps DEF FindResource, Go, Memory
    <3>2. mem'[h] \in {mem[h], [mem[h] EXCEPT !.row = resource]}
      BY <1>4, <1>m DEF FindResource
    <3>3. mem[h] \in Memory
      BY <1>m
    <3>4. QED
      BY ONLY <3>1, <3>2, <3>3 DEF Memory
  <2>r. resource.status = "ready" => Accepted(asset)
    BY <1>a DEF SharedInv
  <2>3. HandlerInv(h)'
    BY <2>2, <2>r, <1>m, <1>a, <1>k, <1>d, <1>s
       DEF HandlerInv, Agrees, WithDoc, PastScan
  <2>4. SharedInv'
    BY <1>4, SharedKept DEF FindResource
  <2>5. QED
    BY <2>1, <2>3, <2>4, HandlerKept DEF AcceptInv
<1>5. CASE PutResource(h)
  <2>1. \A i \in Handlers \ {h} : pc'[i] = pc[i] /\ mem'[i] = mem[i]
    BY <1>5, <1>m DEF PutResource, Go
  <2>2. /\ pc[h] = "putRes" /\ pc'[h] \in {"download", "closing", "errored", "failing"}
        /\ mem'[h].doc = mem[h].doc
        /\ mem'[h].job = mem[h].job
        /\ mem'[h].goal = mem[h].goal
        /\ mem'[h].row = NoRow
    <3>1. pc[h] = "putRes" /\ pc'[h] \in {"download", "closing", "errored", "failing"}
      BY <1>5, <1>m DEF PutResource, Go, Memory, AfterResource
    <3>2. mem'[h] = [mem[h] EXCEPT !.row = NoRow]
      BY <1>5, <1>m DEF PutResource
    <3>3. mem[h] \in Memory
      BY <1>m
    <3>4. QED
      BY ONLY <3>1, <3>2, <3>3 DEF Memory
  <2>3. HandlerInv(h)'
    BY <2>2, <1>m, <1>a, <1>k, <1>d, <1>s
       DEF HandlerInv, Agrees, WithDoc, PastScan, NoRow
  <2>4. SharedInv'
    <3>1. \/ resource' = resource
          \/ resource' = UpdatedResource(mem[h].row, mem[h].goal)
      BY <1>5 DEF PutResource, Written, Updated
    <3>2. resource'.status = "ready" => Accepted(asset)
      BY <3>1, <1>m, <1>a
         DEF SharedInv, HandlerInv, UpdatedResource, ResourceRow
    <3>3. QED
      BY <1>5, <3>2, <1>a, <1>s DEF PutResource, SharedInv
  <2>5. QED
    BY <2>1, <2>3, <2>4, HandlerKept DEF AcceptInv
<1>6. CASE Download(h)
  <2>1. \A i \in Handlers \ {h} : pc'[i] = pc[i] /\ mem'[i] = mem[i]
    BY <1>6, <1>m DEF Download, Go
  <2>2. /\ pc[h] = "download"
        /\ \/ pc'[h] \in {"inspect", "failing"}
           \/ pc'[h] \in {"playlist", "pdf"} /\ mem[h].job # "scan"
        /\ mem'[h].doc = mem[h].doc
        /\ mem'[h].job = mem[h].job
        /\ mem'[h].goal = mem[h].goal
        /\ mem'[h].row = mem[h].row
    <3>1. mem' = mem /\ pc[h] = "download"
      BY <1>6 DEF Download
    <3>2. CASE Go(h, "failing")
      BY <3>1, <3>2, <1>m DEF Go
    <3>3. CASE Go(h, CASE mem[h].job = "scan"      -> "inspect"
                       [] mem[h].job = "transcode" -> "playlist"
                       [] mem[h].job = "convert"   -> "pdf")
      BY <3>1, <3>3, <1>m DEF Go, Memory, JobTypes
    <3>4. QED
      BY <1>6, <3>1, <3>2, <3>3 DEF Download
  <2>3. HandlerInv(h)'
    BY <2>2, <1>m, <1>a, <1>k, <1>d, <1>s
       DEF HandlerInv, Agrees, WithDoc, PastScan
  <2>4. SharedInv'
    BY <1>6, SharedKept DEF Download
  <2>5. QED
    BY <2>1, <2>3, <2>4, HandlerKept DEF AcceptInv
<1>7. CASE Inspect(h)
  <2>1. \A i \in Handlers \ {h} : pc'[i] = pc[i] /\ mem'[i] = mem[i]
    BY <1>7, <1>m DEF Inspect, Go, Reject
  <2>2. /\ pc[h] = "inspect" /\ mem'[h].job = mem[h].job
        /\ mem'[h].goal = mem[h].goal
        /\ mem'[h].row = mem[h].row
        /\ \/ pc'[h] = "failing" /\ mem'[h].doc = mem[h].doc
           \/ /\ pc'[h] = "sumRow" /\ ~Mismatch(mem[h].doc)
              /\ mem'[h].doc = [mem[h].doc EXCEPT !.sum = mem[h].doc.key]
    BY <1>7, <1>m DEF Inspect, Go, Memory, Reject
  <2>3. HandlerInv(h)'
    BY <2>2, <1>m, <1>a, <1>k, <1>d, <1>s
       DEF HandlerInv, Agrees, WithDoc, PastScan, Mismatch, SumOk, AssetRow, NoAsset
  <2>4. SharedInv'
    <3>1. \/ store' = store
          \/ store' = store \ {mem[h].doc.key} /\ Mismatch(mem[h].doc)
      BY <1>7 DEF Inspect, Reject, Written
    <3>2. Mismatch(mem[h].doc) => ~Accepted(asset)
      BY <1>7, <1>a, StoreAssumption
         DEF Inspect, HandlerInv, WithDoc, Agrees, Mismatch, SumOk, Accepted
    <3>3. QED
      BY <1>7, <3>1, <3>2, <1>a, <1>s DEF Inspect, SharedInv
  <2>5. QED
    BY <2>1, <2>3, <2>4, HandlerKept DEF AcceptInv
<1>8. CASE UpdateAsset(h)
  <2>1. \A i \in Handlers \ {h} : pc'[i] = pc[i] /\ mem'[i] = mem[i]
    BY <1>8, <1>m DEF UpdateAsset, Go
  <2>2. /\ \/ pc[h] = "sumRow" /\ pc'[h] \in {"failing", "clam"} /\ mem'[h].goal = mem[h].goal
           \/ pc[h] = "hlsRow" /\ pc'[h] \in {"failing", "getRes"}
        /\ mem'[h].doc = mem[h].doc
        /\ mem'[h].job = mem[h].job
        /\ mem'[h].row = mem[h].row
    <3>1. CASE pc[h] = "sumRow"
      <4>1. pc'[h] \in {"failing", "clam"}
        BY <1>8, <3>1, <1>m DEF UpdateAsset, Go
      <4>2. mem' = [mem EXCEPT ![h] = [mem[h] EXCEPT !.goal = mem[h].goal]]
        BY <1>8, <3>1 DEF UpdateAsset
      <4>3. QED
        BY <3>1, <4>1, <4>2, <1>m DEF Memory
    <3>2. CASE pc[h] = "hlsRow"
      <4>1. pc'[h] \in {"failing", "getRes"}
        BY <1>8, <3>2, <1>m DEF UpdateAsset, Go
      <4>2. mem' = [mem EXCEPT ![h] = [mem[h] EXCEPT !.goal = "ready"]]
        BY <1>8, <3>2 DEF UpdateAsset
      <4>3. QED
        BY <3>2, <4>1, <4>2, <1>m DEF Memory
    <3>3. QED
      BY <1>8, <3>1, <3>2 DEF UpdateAsset
  <2>3. HandlerInv(h)'
    BY <2>2, <1>m, <1>a, <1>k, <1>d, <1>s
       DEF HandlerInv, Agrees, WithDoc, PastScan
  <2>4. SharedInv'
    BY <1>8, SharedKept DEF UpdateAsset
  <2>5. QED
    BY <2>1, <2>3, <2>4, HandlerKept DEF AcceptInv
<1>9. CASE ScanVirus(h)
  <2>1. \A i \in Handlers \ {h} : pc'[i] = pc[i] /\ mem'[i] = mem[i]
    BY <1>9, <1>m DEF ScanVirus, Go, Reject
  <2>2. /\ pc[h] = "clam"
        /\ \/ pc'[h] = "failing" /\ mem'[h].goal = mem[h].goal
           \/ pc'[h] \in {"findNext", "getRes"} /\ mem[h].doc.key \notin InfectedObjects
        /\ mem'[h].doc = mem[h].doc
        /\ mem'[h].job = mem[h].job
        /\ mem'[h].row = mem[h].row
    <3>1. CASE Reject(h)
      <4>1. pc[h] = "clam" /\ pc'[h] = "failing"
        BY <1>9, <3>1, <1>m DEF ScanVirus, Reject, Go
      <4>2. QED
        BY <3>1, <4>1, <1>m DEF Reject, Memory
    <3>2. CASE /\ mem[h].doc.key \notin InfectedObjects
               /\ Go(h, AfterClean(mem[h].doc.kind))
               /\ mem' = [mem EXCEPT ![h].goal = "ready"]
      <4>1. pc[h] = "clam" /\ pc'[h] \in {"findNext", "getRes"}
        BY <1>9, <3>2, <1>m DEF ScanVirus, AfterClean, Go
      <4>2. QED
        BY <3>2, <4>1, <1>m DEF Memory
    <3>3. CASE Go(h, "failing") /\ mem' = mem
      BY <1>9, <3>3, <1>m DEF ScanVirus, Go
    <3>4. QED
      BY <1>9, <3>1, <3>2, <3>3 DEF ScanVirus
  <2>3. HandlerInv(h)'
    BY <2>2, <1>m, <1>a, <1>k, <1>d, <1>s
       DEF HandlerInv, Agrees, WithDoc, PastScan, SumOk, Accepted, Objects
  <2>4. SharedInv'
    <3>1. \/ store' = store
          \/ /\ store' = store \ {mem[h].doc.key}
             /\ mem[h].doc.key \in InfectedObjects
      BY <1>9 DEF ScanVirus, Reject, Written
    <3>2. mem[h].doc.key = asset.key
      BY <1>9, <1>a DEF ScanVirus, HandlerInv, WithDoc, Agrees
    <3>3. QED
      BY <1>9, <3>1, <3>2, <1>a, <1>s, StoreAssumption
         DEF ScanVirus, SharedInv, Accepted
  <2>5. QED
    BY <2>1, <2>3, <2>4, HandlerKept DEF AcceptInv
<1>10. CASE FindNextJob(h)
  <2>1. \A i \in Handlers \ {h} : pc'[i] = pc[i] /\ mem'[i] = mem[i]
    BY <1>10, <1>m DEF FindNextJob, Go
  <2>2. /\ pc[h] = "findNext" /\ pc'[h] \in {"createNext", "closing", "failing"}
        /\ mem'[h].doc = mem[h].doc
        /\ mem'[h].job = mem[h].job
        /\ mem'[h].goal = mem[h].goal
        /\ mem'[h].row = mem[h].row
    BY <1>10, <1>m DEF FindNextJob, Go, Memory, AfterFind
  <2>3. HandlerInv(h)'
    BY <2>2, <1>m, <1>a, <1>k, <1>d, <1>s
       DEF HandlerInv, Agrees, WithDoc, PastScan
  <2>4. SharedInv'
    BY <1>10, SharedKept DEF FindNextJob
  <2>5. QED
    BY <2>1, <2>3, <2>4, HandlerKept DEF AcceptInv
<1>11. CASE CreateNextJob(h)
  <2>1. \A i \in Handlers \ {h} : pc'[i] = pc[i] /\ mem'[i] = mem[i]
    BY <1>11, <1>m DEF CreateNextJob, Go
  <2>2. /\ pc[h] = "createNext" /\ pc'[h] \in {"publish", "failing"}
        /\ mem'[h].doc = mem[h].doc
        /\ mem'[h].job = mem[h].job
        /\ mem'[h].goal = mem[h].goal
        /\ mem'[h].row = mem[h].row
    BY <1>11, <1>m DEF CreateNextJob, Go, Memory
  <2>3. HandlerInv(h)'
    BY <2>2, <1>m, <1>a, <1>k, <1>d, <1>s
       DEF HandlerInv, Agrees, WithDoc, PastScan
  <2>4. SharedInv'
    BY <1>11, SharedKept DEF CreateNextJob
  <2>5. QED
    BY <2>1, <2>3, <2>4, HandlerKept DEF AcceptInv
<1>12. CASE PublishNextJob(h)
  <2>1. \A i \in Handlers \ {h} : pc'[i] = pc[i] /\ mem'[i] = mem[i]
    BY <1>12, <1>m DEF PublishNextJob, Go
  <2>2. /\ pc[h] = "publish" /\ pc'[h] \in {"closing", "failing"}
        /\ mem'[h].doc = mem[h].doc
        /\ mem'[h].job = mem[h].job
        /\ mem'[h].goal = mem[h].goal
        /\ mem'[h].row = mem[h].row
    BY <1>12, <1>m DEF PublishNextJob, Go, Memory
  <2>3. HandlerInv(h)'
    BY <2>2, <1>m, <1>a, <1>k, <1>d, <1>s
       DEF HandlerInv, Agrees, WithDoc, PastScan
  <2>4. SharedInv'
    <3>1. Accepted(asset)
      BY <1>12, <1>a DEF PublishNextJob, HandlerInv, PastScan
    <3>2. QED
      BY <1>12, <3>1, <1>a, <1>s DEF PublishNextJob, SharedInv
  <2>5. QED
    BY <2>1, <2>3, <2>4, HandlerKept DEF AcceptInv
<1>13. CASE UploadDerived(h)
  <2>1. \A i \in Handlers \ {h} : pc'[i] = pc[i] /\ mem'[i] = mem[i]
    BY <1>13, <1>m DEF UploadDerived, Go
  <2>2. /\ pc[h] \in PastScan /\ pc'[h] \in {"segments", "hlsRow", "getRes", "failing"}
        /\ mem'[h].doc \in {mem[h].doc, WithManifest(mem[h].doc, pc[h])}
        /\ mem'[h].job = mem[h].job
        /\ mem'[h].row = mem[h].row
    BY <1>13, <1>m DEF UploadDerived, Go, Memory, AfterUpload, DerivedFiles, PastScan
  <2>3. HandlerInv(h)'
    BY <2>2, <1>m, <1>a, <1>k, <1>d, <1>s
       DEF HandlerInv, Agrees, WithDoc, PastScan, WithManifest, SumOk, AssetRow, NoAsset
  <2>4. SharedInv'
    <3>1. Accepted(asset)
      BY <2>2, <1>a DEF HandlerInv
    <3>2. QED
      BY <1>13, <3>1, <1>a, <1>s DEF UploadDerived, SharedInv
  <2>5. QED
    BY <2>1, <2>3, <2>4, HandlerKept DEF AcceptInv
<1>14. CASE MarkJobDone(h)
  <2>1. \A i \in Handlers \ {h} : pc'[i] = pc[i] /\ mem'[i] = mem[i]
    BY <1>14, <1>m DEF MarkJobDone, Go
  <2>2. /\ pc'[h] \in {"succeeded", "errored"}
        /\ mem'[h].doc = mem[h].doc
        /\ mem'[h].job = mem[h].job
        /\ mem'[h].goal = mem[h].goal
        /\ mem'[h].row = mem[h].row
    BY <1>14, <1>m DEF MarkJobDone, Go, Memory
  <2>3. HandlerInv(h)'
    BY <2>2, <1>m, <1>a, <1>k, <1>d, <1>s
       DEF HandlerInv, Agrees, WithDoc, PastScan
  <2>4. SharedInv'
    BY <1>14, SharedKept DEF MarkJobDone
  <2>5. QED
    BY <2>1, <2>3, <2>4, HandlerKept DEF AcceptInv
<1>15. CASE MarkJobFailed(h)
  <2>1. \A i \in Handlers \ {h} : pc'[i] = pc[i] /\ mem'[i] = mem[i]
    BY <1>15, <1>m DEF MarkJobFailed, Go
  <2>2. /\ mem'[h].goal = "failed"
        /\ pc'[h] \in {"getRes", "errored"}
        /\ pc'[h] = "getRes" => mem[h].doc # NoAsset
        /\ mem'[h].doc = mem[h].doc
        /\ mem'[h].job = mem[h].job
        /\ mem'[h].row = mem[h].row
    BY <1>15, <1>m DEF MarkJobFailed, Go, Memory
  <2>3. HandlerInv(h)'
    BY <2>2, <1>m, <1>a, <1>k, <1>d, <1>s
       DEF HandlerInv, Agrees, WithDoc, PastScan
  <2>4. SharedInv'
    BY <1>15, SharedKept DEF MarkJobFailed
  <2>5. QED
    BY <2>1, <2>3, <2>4, HandlerKept DEF AcceptInv
<1>16. CASE Finish(h)
  <2>1. \A j \in JobTypes : tasks'[j].state # "none" =>
            tasks[j].state # "none" \/ j = mem[h].job
    BY <1>16 DEF Finish, SetTask, TypeOK
  <2>2. SharedInv'
    BY <1>16, <1>a, <2>1, AcceptStable DEF Finish, SharedInv, HandlerInv
  <2>3. QED
    BY <1>16, <2>2, HandlerLeft DEF Finish, AcceptInv
<1>17. QED
  BY <1>1, <1>2, <1>3, <1>4, <1>5, <1>6, <1>7, <1>8, <1>9, <1>10,
     <1>11, <1>12, <1>13, <1>14, <1>15, <1>16 DEF HandlerStep

\* Whatever happens keeps the originals and their acceptance in agreement.
LEMMA AcceptNext == TypeOK /\ AcceptInv /\ [Next]_vars => AcceptInv'
<1> SUFFICES ASSUME TypeOK, AcceptInv, [Next]_vars PROVE AcceptInv'
  OBVIOUS
<1> USE DEF rows, queue, bucket, editor
<1>s. /\ Accepted(asset') <=> Accepted(asset)
      /\ SharedInv /\ \A h \in Handlers : HandlerInv(h)
  BY AcceptStable DEF AcceptInv
<1>t. ASSUME NEW h \in Handlers, NEW tk, SetTask(mem[h].job, tk)
      PROVE  \A j \in JobTypes : tasks'[j].state # "none" =>
                 tasks[j].state # "none" \/ j = mem[h].job
  BY <1>t DEF SetTask, TypeOK
<1>1. ASSUME NEW h \in Handlers, HandlerStep(h) PROVE AcceptInv'
  BY <1>1, AcceptHandler
<1>2. ASSUME NEW h \in Handlers, NEW j \in JobTypes, Deliver(h, j)
      PROVE  AcceptInv'
  <2>1. \A i \in Handlers \ {h} : pc'[i] = pc[i] /\ mem'[i] = mem[i]
    BY <1>2 DEF Deliver, Go, TypeOK
  <2>2. /\ pc'[h] = "load" /\ mem'[h].job = j /\ mem'[h].doc = mem[h].doc
        /\ mem'[h].goal = mem[h].goal /\ mem'[h].row = mem[h].row
    BY <1>2 DEF Deliver, Go, TypeOK, Memory
  <2>3. j # "scan" => Accepted(asset)
    BY <1>2, <1>s DEF Deliver, SharedInv
  <2>4. HandlerInv(h)'
    BY <2>2, <2>3, <1>s, AcceptStable
       DEF HandlerInv, Agrees, WithDoc, PastScan
  <2>5. \A i \in JobTypes : tasks'[i].state # "none" => tasks[i].state # "none"
    BY <1>2 DEF Deliver, SetTask, TypeOK
  <2>6. SharedInv'
    BY <1>2, <2>5, <1>s, AcceptStable DEF Deliver, SharedInv
  <2>7. QED
    BY <2>1, <2>4, <2>6, HandlerKept DEF AcceptInv
<1>3. ASSUME NEW j \in JobTypes, RecoverLost(j) PROVE AcceptInv'
  <2>1. \A i \in JobTypes : tasks'[i].state # "none" => tasks[i].state # "none"
    BY <1>3 DEF RecoverLost, SetTask, TypeOK
  <2>2. SharedInv'
    BY <1>3, <2>1, <1>s, AcceptStable DEF RecoverLost, SharedInv
  <2>3. QED
    BY <1>3, <2>2, HandlerKept DEF RecoverLost, AcceptInv
<1>4. ASSUME NEW h \in Handlers, Crash(h) PROVE AcceptInv'
  <2>1. SharedInv'
    BY <1>4, <1>t, <1>s, AcceptStable DEF Crash, SharedInv, HandlerInv
  <2>2. QED
    BY <1>4, <2>1, HandlerLeft DEF Crash, AcceptInv
<1>5. ASSUME NEW h \in Handlers, Timeout(h) \/ Requeue(h) PROVE AcceptInv'
  <2>1. SharedInv'
    BY <1>5, <1>t, <1>s, AcceptStable DEF Timeout, Requeue, SharedInv, HandlerInv
  <2>2. QED
    BY <1>5, <2>1, HandlerKept DEF Timeout, Requeue, AcceptInv
<1>6. ASSUME NEW h \in Handlers, Vanish(h) PROVE AcceptInv'
  <2>1. SharedInv'
    BY <1>6, SharedKept DEF Vanish
  <2>2. QED
    BY <1>6, <2>1, HandlerLeft DEF Vanish, AcceptInv
<1>7. CASE BeginEdit
  <2>1. SharedInv'
    BY <1>7, <1>s, AcceptStable DEF BeginEdit, SharedInv
  <2>2. QED
    BY <1>7, <2>1, HandlerKept DEF BeginEdit, AcceptInv
<1>8. CASE EndEdit
  <2>1. resource'.status = "ready" => edRow.status = "ready"
    BY <1>8 DEF EndEdit, Updated, NoResource, TypeOK, ResourceRow
  <2>2. SharedInv'
    BY <1>8, <2>1, <1>s, AcceptStable DEF EndEdit, SharedInv, NoRow
  <2>3. QED
    BY <1>8, <2>2, HandlerKept DEF EndEdit, AcceptInv
<1>9. CASE UNCHANGED vars
  <2>1. SharedInv'
    BY <1>9, SharedKept DEF vars
  <2>2. QED
    BY <1>9, <2>1, HandlerKept DEF vars, AcceptInv
<1>10. QED
  BY <1>1, <1>2, <1>3, <1>4, <1>5, <1>6, <1>7, <1>8, <1>9 DEF Next, Rest

\* AcceptInv is inductive, and implies the three properties of acceptance.
LEMMA AcceptCorrect == Spec => []AcceptInv
<1>1. QED
  BY TypeCorrect, AcceptInit, AcceptNext, PTL DEF Spec

\* Whatever crashes, fails, expires or is edited meanwhile, a resource is
\* ready only if its original passed every check of the scan and is stored.
THEOREM ReadyIsAccepted == Spec => []ReadyOnlyIfAccepted
<1>1. AcceptInv => ReadyOnlyIfAccepted
  BY DEF AcceptInv, SharedInv, ReadyOnlyIfAccepted
<1>2. QED
  BY <1>1, AcceptCorrect, PTL

\* No derived file of a rejected original ever reaches the bucket.
THEOREM DerivedIsAccepted == Spec => []DerivedOnlyIfAccepted
<1>1. AcceptInv => DerivedOnlyIfAccepted
  BY DEF AcceptInv, SharedInv, DerivedOnlyIfAccepted
<1>2. QED
  BY <1>1, AcceptCorrect, PTL

\* The worker never deletes an original that the scan accepts.
THEOREM AcceptedStays == Spec => []AcceptedIsKept
<1>1. AcceptInv => AcceptedIsKept
  BY DEF AcceptInv, SharedInv, AcceptedIsKept
<1>2. QED
  BY <1>1, AcceptCorrect, PTL

=============================================================================
