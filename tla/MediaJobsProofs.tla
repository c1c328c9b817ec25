--------------------------- MODULE MediaJobsProofs ---------------------------
(***************************************************************************)
(* What the handlers of the worker do to the jobs, to the tasks and to the *)
(* derived files, for any number of handlers and of faults: no task is     *)
(* published twice, no manifest is shown before its files, no job leaves   *)
(* its life cycle, and the course shows what the jobs came to.             *)
(***************************************************************************)
EXTENDS MediaWorkerProofs

-----------------------------------------------------------------------------
(* What each step of a handler changes *)

\* The rows a handler writes to are there.
Standing(h) == jobs[mem[h].job] # NoJob /\ asset # NoAsset /\ resource # NoResource

\* The resource is there, a task has its job and its job the asset, as has
\* every running handler.
RowsInv ==
    /\ resource # NoResource
    /\ asset # NoAsset => asset.key \in Objects
    /\ \A j \in JobTypes : tasks[j].state # "none" => jobs[j] # NoJob /\ asset # NoAsset
    /\ \A h \in Handlers :
           /\ pc[h] # "idle" => jobs[mem[h].job] # NoJob /\ asset # NoAsset
           /\ pc[h] = "idle" => mem[h] = NoMemory /\ ~owned[h]

\* A running handler finds its rows.
LEMMA Stands ==
    ASSUME RowsInv, NEW h \in Handlers, pc[h] # "idle"
    PROVE  Standing(h)
  BY DEF RowsInv, Standing

\* A step of one handler leaves what the others hold alone.
Mine(h) ==
    \A i \in Handlers \ {h} : pc'[i] = pc[i] /\ mem'[i] = mem[i] /\ owned'[i] = owned[i]

\* The job and the files a handler works on do not change in its memory.
SameWork(h) == mem'[h].job = mem[h].job /\ mem'[h].doc = mem[h].doc

\* The fields of what a handler holds.
LEMMA MemoryFields ==
    ASSUME TypeOK, NEW h \in Handlers
    PROVE  /\ mem[h] \in Memory
           /\ mem[h].job \in JobTypes /\ mem[h].attempts \in Nat
           /\ mem[h].doc \in AssetRow /\ mem[h].row \in ResourceRow
           /\ mem[h].goal \in ProcessingStatus
           /\ jobs[mem[h].job] \in JobRow
           /\ Next_Of(h) \in JobTypes
           /\ HasNextJob(mem[h].doc.kind) => Next_Of(h) # "scan"
  BY DEF TypeOK, Memory, Next_Of, NextJob, JobTypes, AssetRow, Kinds, HasNextJob

\* The job is read, and found open or closed.
LEMMA LoadEffect ==
    ASSUME TypeOK, NEW h \in Handlers, Load(h)
    PROVE  /\ Mine(h) /\ SameWork(h) /\ UNCHANGED <<rows, queue, bucket, owned, editor>>
           /\ pc[h] = "load" /\ pc'[h] \in {"mark", "errored", "succeeded"}
           /\ pc'[h] = "mark" => jobs[mem[h].job].status \in {"pending", "processing"}
           /\ mem'[h].attempts = jobs[mem[h].job].attempts
           /\ mem'[h].goal = mem[h].goal /\ mem'[h].row = mem[h].row
<1>1. mem' = [mem EXCEPT ![h] = [mem[h] EXCEPT !.attempts = jobs[mem[h].job].attempts]]
  BY DEF Load
<1>2. /\ mem'[h] = [mem[h] EXCEPT !.attempts = jobs[mem[h].job].attempts]
      /\ Mine(h) /\ pc[h] = "load" /\ UNCHANGED <<rows, queue, bucket, owned, editor>>
      /\ pc'[h] \in {AfterLoad(jobs[mem[h].job]), "errored"}
  BY <1>1 DEF Load, Go, Mine, TypeOK
<1>3. /\ AfterLoad(jobs[mem[h].job]) \in {"mark", "errored", "succeeded"}
      /\ AfterLoad(jobs[mem[h].job]) = "mark" =>
            jobs[mem[h].job].status \in {"pending", "processing"}
  BY MemoryFields DEF AfterLoad, Terminal, JobRow, JobStatus
<1>4. QED
  BY <1>2, <1>3, MemoryFields DEF SameWork, Memory

\* The row of a job is written, if it is there.
LEMMA UpdateJobEffect ==
    ASSUME TypeOK, NEW h \in Handlers, NEW ok \in BOOLEAN, NEW status, NEW n,
           UpdateJob(h, ok, status, n)
    PROVE  /\ jobs[mem[h].job] = NoJob => jobs' = jobs
           /\ \/ jobs' = jobs /\ (~ok \/ ~Standing(h))
              \/ jobs' = [jobs EXCEPT ![mem[h].job] = [status |-> status, attempts |-> n]]
<1> DEFINE new == [status |-> status, attempts |-> n]
<1>1. \/ jobs' = jobs /\ ~ok
      \/ jobs' = [jobs EXCEPT ![mem[h].job] = Updated(jobs[mem[h].job], NoJob, new)]
  BY DEF UpdateJob, Written
<1>2. CASE jobs[mem[h].job] = NoJob
  BY <1>1, <1>2 DEF Updated, Standing, TypeOK
<1>3. CASE jobs[mem[h].job] # NoJob
  BY <1>1, <1>3 DEF Updated
<1>4. QED
  BY <1>2, <1>3

\* An attempt is counted.
LEMMA MarkEffect ==
    ASSUME TypeOK, NEW h \in Handlers, MarkJobProcessing(h)
    PROVE  /\ Mine(h) /\ SameWork(h)
           /\ UNCHANGED <<asset, resource, queue, bucket, owned, editor>>
           /\ pc[h] = "mark" /\ pc'[h] \in {"asset", "errored"}
           /\ mem'[h].attempts = mem[h].attempts + 1
           /\ mem'[h].goal = mem[h].goal /\ mem'[h].row = mem[h].row
           /\ jobs[mem[h].job] = NoJob => jobs' = jobs
           /\ \/ jobs' = jobs /\ (pc'[h] = "errored" \/ ~Standing(h))
              \/ jobs' = [jobs EXCEPT ![mem[h].job] =
                             [status |-> "processing", attempts |-> mem[h].attempts + 1]]
<1>1. /\ mem' = [mem EXCEPT ![h] = [mem[h] EXCEPT !.attempts = mem[h].attempts + 1]]
      /\ pc[h] = "mark" /\ UNCHANGED <<asset, resource, queue, bucket, owned, editor>>
      /\ pc'[h] \in {"asset", "errored"}
      /\ jobs[mem[h].job] = NoJob => jobs' = jobs
      /\ \/ jobs' = jobs /\ (pc'[h] = "errored" \/ ~Standing(h))
         \/ jobs' = [jobs EXCEPT ![mem[h].job] =
                        [status |-> "processing", attempts |-> mem[h].attempts + 1]]
  BY UpdateJobEffect DEF MarkJobProcessing, Go, TypeOK
<1>2. Mine(h) /\ mem'[h] = [mem[h] EXCEPT !.attempts = mem[h].attempts + 1]
  BY <1>1 DEF Mine, TypeOK, MarkJobProcessing, Go
<1>3. QED
  BY <1>1, <1>2, MemoryFields DEF SameWork, Memory

\* The asset is read.
LEMMA LoadAssetEffect ==
    ASSUME TypeOK, NEW h \in Handlers, LoadAsset(h)
    PROVE  /\ Mine(h) /\ UNCHANGED <<rows, queue, bucket, owned, editor>>
           /\ pc[h] = "asset"
           /\ mem'[h].job = mem[h].job /\ mem'[h].attempts = mem[h].attempts
           /\ mem'[h].row = mem[h].row
           /\ \/ pc'[h] = "failing" /\ mem'[h].doc = mem[h].doc /\ mem'[h].goal = mem[h].goal
              \/ /\ pc'[h] = IF mem[h].job = "scan" THEN "getRes" ELSE "download"
                 /\ mem'[h].doc = asset /\ mem'[h].goal = "processing"
<1>1. /\ pc[h] = "asset" /\ UNCHANGED <<rows, queue, bucket, owned, editor>>
      /\ \/ pc'[h] = "failing" /\ mem' = mem
         \/ /\ pc'[h] = IF mem[h].job = "scan" THEN "getRes" ELSE "download"
            /\ mem' = [mem EXCEPT ![h] =
                          [mem[h] EXCEPT !.doc = asset, !.goal = "processing"]]
      /\ \A i \in Handlers \ {h} : pc'[i] = pc[i]
  BY DEF LoadAsset, Go, TypeOK
<1>2. CASE pc'[h] = "failing" /\ mem' = mem
  BY <1>1, <1>2 DEF Mine
<1>3. CASE /\ pc'[h] = IF mem[h].job = "scan" THEN "getRes" ELSE "download"
           /\ mem' = [mem EXCEPT ![h] =
                          [mem[h] EXCEPT !.doc = asset, !.goal = "processing"]]
  <2>1. Mine(h) /\ mem'[h] = [mem[h] EXCEPT !.doc = asset, !.goal = "processing"]
    BY <1>1, <1>3 DEF Mine, TypeOK
  <2>2. mem[h] \in Memory
    BY MemoryFields
  <2>3. /\ mem'[h].job = mem[h].job /\ mem'[h].attempts = mem[h].attempts
        /\ mem'[h].row = mem[h].row
        /\ mem'[h].doc = asset /\ mem'[h].goal = "processing"
    BY ONLY <2>1, <2>2 DEF Memory
  <2>4. QED
    BY <1>1, <1>3, <2>1, <2>3
<1>4. QED
  BY <1>1, <1>2, <1>3

\* The row of the resource is read.
LEMMA FindResourceEffect ==
    ASSUME TypeOK, NEW h \in Handlers, FindResource(h)
    PROVE  /\ Mine(h) /\ SameWork(h) /\ UNCHANGED <<rows, queue, bucket, owned, editor>>
           /\ pc[h] = "getRes" /\ pc'[h] \in {"putRes", "errored", "failing"}
           /\ pc'[h] = "failing" => mem[h].goal # "failed"
           /\ mem'[h].attempts = mem[h].attempts /\ mem'[h].goal = mem[h].goal
           /\ \/ pc'[h] = "putRes" /\ mem'[h].row = resource
              \/ pc'[h] # "putRes" /\ mem'[h].row = mem[h].row
<1>1. /\ \/ pc'[h] = "putRes" /\ mem' = [mem EXCEPT ![h] = [mem[h] EXCEPT !.row = resource]]
         \/ pc'[h] = AfterResource(mem[h].goal, FALSE) /\ mem' = mem
      /\ pc[h] = "getRes" /\ UNCHANGED <<rows, queue, bucket, owned, editor>>
      /\ \A i \in Handlers \ {h} : pc'[i] = pc[i]
  BY DEF FindResource, Go, TypeOK
<1>2. /\ AfterResource(mem[h].goal, FALSE) \in {"errored", "failing"}
      /\ AfterResource(mem[h].goal, FALSE) = "failing" => mem[h].goal # "failed"
  BY DEF AfterResource
<1>3. CASE pc'[h] = AfterResource(mem[h].goal, FALSE) /\ mem' = mem
  BY <1>1, <1>2, <1>3 DEF Mine, SameWork
<1>4. CASE pc'[h] = "putRes" /\ mem' = [mem EXCEPT ![h] = [mem[h] EXCEPT !.row = resource]]
  <2>1. Mine(h) /\ mem'[h] = [mem[h] EXCEPT !.row = resource]
    BY <1>1, <1>4 DEF Mine, TypeOK
  <2>2. QED
    BY <1>1, <1>4, <2>1, MemoryFields DEF SameWork, Memory
<1>5. QED
  BY <1>1, <1>3, <1>4

\* The row of the resource is written.
LEMMA PutResourceEffect ==
    ASSUME TypeOK, NEW h \in Handlers, PutResource(h)
    PROVE  /\ Mine(h) /\ SameWork(h) /\ UNCHANGED <<jobs, asset, queue, bucket, owned, editor>>
           /\ pc[h] = "putRes" /\ pc'[h] \in {"errored", "failing", "closing", "download"}
           /\ pc'[h] = "errored" <=> mem[h].goal = "failed"
           /\ pc'[h] = "closing" => mem[h].goal = "ready"
           /\ mem'[h].attempts = mem[h].attempts /\ mem'[h].goal = mem[h].goal
           /\ mem'[h].row = NoRow
           /\ resource = NoResource <=> resource' = NoResource
           /\ \/ resource' = UpdatedResource(mem[h].row, mem[h].goal)
              \/ resource' = resource /\ (pc'[h] \in {"errored", "failing"} \/ ~Standing(h))
<1> DEFINE new == UpdatedResource(mem[h].row, mem[h].goal)
<1>1. /\ mem' = [mem EXCEPT ![h] = [mem[h] EXCEPT !.row = NoRow]]
      /\ pc[h] = "putRes" /\ UNCHANGED <<jobs, asset, queue, bucket, owned, editor>>
      /\ \/ /\ pc'[h] = AfterResource(mem[h].goal, TRUE)
            /\ resource' = Updated(resource, NoResource, new)
         \/ /\ pc'[h] = AfterResource(mem[h].goal, FALSE)
            /\ resource' \in {resource, Updated(resource, NoResource, new)}
      /\ \A i \in Handlers \ {h} : pc'[i] = pc[i]
  BY DEF PutResource, Go, TypeOK, Written
<1>2. Mine(h) /\ mem'[h] = [mem[h] EXCEPT !.row = NoRow]
  BY <1>1 DEF Mine, TypeOK
<1>3. new \in ResourceRow /\ NoResource \notin ResourceRow
  BY MemoryFields DEF UpdatedResource, ResourceRow, NoResource, ProcessingStatus
<1> HIDE DEF new
<1>4. /\ Updated(resource, NoResource, new) = IF resource = NoResource THEN resource ELSE new
      /\ Updated(resource, NoResource, new) = NoResource <=> resource = NoResource
  BY <1>3 DEF Updated
<1>5. /\ resource = NoResource <=> resource' = NoResource
      /\ \/ resource' = new
         \/ resource' = resource /\ (pc'[h] \in {"errored", "failing"} \/ ~Standing(h))
  BY <1>1, <1>4 DEF Standing, AfterResource
<1>6. QED
  BY <1>1, <1>2, <1>5, MemoryFields DEF SameWork, Memory, AfterResource, new

\* The original is fetched, and the files derived from it are made.
LEMMA DownloadEffect ==
    ASSUME TypeOK, NEW h \in Handlers, Download(h)
    PROVE  /\ Mine(h) /\ mem' = mem /\ UNCHANGED <<rows, queue, bucket, owned, editor>>
           /\ pc[h] = "download"
           /\ \/ pc'[h] = "failing"
              \/ pc'[h] = "inspect" /\ mem[h].job = "scan"
              \/ pc'[h] \in {"playlist", "pdf"} /\ mem[h].job # "scan"
<1>1. /\ mem' = mem /\ pc[h] = "download" /\ UNCHANGED <<rows, queue, bucket, owned, editor>>
      /\ mem[h].job \in {"scan", "transcode", "convert"}
  BY MemoryFields DEF Download, JobTypes
<1>2. CASE Go(h, "failing")
  BY <1>1, <1>2 DEF Go, Mine, TypeOK
<1>3. CASE Go(h, CASE mem[h].job = "scan"      -> "inspect"
                   [] mem[h].job = "transcode" -> "playlist"
                   [] mem[h].job = "convert"   -> "pdf")
  BY <1>1, <1>3 DEF Go, Mine, TypeOK
<1>4. QED
  BY <1>2, <1>3 DEF Download

\* An original is rejected for good.
LEMMA RejectEffect ==
    ASSUME TypeOK, NEW h \in Handlers, Reject(h), owned' = owned
    PROVE  /\ Mine(h) /\ SameWork(h) /\ pc'[h] = "failing"
           /\ mem'[h].goal = mem[h].goal /\ mem'[h].row = mem[h].row
           /\ mem'[h].attempts = MaxAttempts
<1>1. mem' = [mem EXCEPT ![h] = [mem[h] EXCEPT !.attempts = MaxAttempts]]
  BY DEF Reject, RejectedAttempts
<1>2. /\ Mine(h) /\ pc'[h] = "failing"
      /\ mem'[h] = [mem[h] EXCEPT !.attempts = MaxAttempts]
  BY <1>1 DEF Reject, Go, Mine, TypeOK
<1>3. QED
  BY <1>2, MemoryFields DEF SameWork, Memory

\* The type and the checksum of the original are compared.
LEMMA InspectEffect ==
    ASSUME TypeOK, NEW h \in Handlers, Inspect(h)
    PROVE  /\ Mine(h) /\ UNCHANGED <<rows, queue, derived, owned, editor>>
           /\ pc[h] = "inspect" /\ mem'[h].job = mem[h].job
           /\ mem'[h].goal = mem[h].goal /\ mem'[h].row = mem[h].row
           /\ \/ /\ pc'[h] = "failing" /\ mem'[h].doc = mem[h].doc
                 /\ mem'[h].attempts = MaxAttempts
              \/ /\ pc'[h] = "sumRow" /\ ~Mismatch(mem[h].doc)
                 /\ mem'[h].doc = [mem[h].doc EXCEPT !.sum = mem[h].doc.key]
                 /\ mem'[h].attempts = mem[h].attempts
<1>1. /\ pc[h] = "inspect" /\ UNCHANGED <<rows, queue, derived, owned, editor>>
  BY DEF Inspect
<1>2. CASE Reject(h)
  BY <1>1, <1>2, RejectEffect DEF SameWork
<1>3. CASE /\ ~Mismatch(mem[h].doc) /\ Go(h, "sumRow")
           /\ mem' = [mem EXCEPT ![h].doc.sum = mem[h].doc.key]
  <2>1. mem' = [mem EXCEPT ![h] =
                   [mem[h] EXCEPT !.doc = [mem[h].doc EXCEPT !.sum = mem[h].doc.key]]]
    BY <1>3
  <2>2. /\ Mine(h) /\ pc'[h] = "sumRow"
        /\ mem'[h] = [mem[h] EXCEPT !.doc = [mem[h].doc EXCEPT !.sum = mem[h].doc.key]]
    BY <1>1, <1>3, <2>1 DEF Go, Mine, TypeOK
  <2>3. QED
    BY <1>1, <1>3, <2>2, MemoryFields DEF Memory
<1>4. QED
  BY <1>2, <1>3 DEF Inspect

\* The row of the asset is written back.
LEMMA UpdateAssetEffect ==
    ASSUME TypeOK, NEW h \in Handlers, UpdateAsset(h)
    PROVE  /\ Mine(h) /\ SameWork(h)
           /\ UNCHANGED <<jobs, resource, queue, bucket, owned, editor>>
           /\ pc[h] \in {"sumRow", "hlsRow"}
           /\ \/ pc'[h] = "failing"
              \/ pc[h] = "sumRow" /\ pc'[h] = "clam"
              \/ pc[h] = "hlsRow" /\ pc'[h] = "getRes"
           /\ mem'[h].attempts = mem[h].attempts /\ mem'[h].row = mem[h].row
           /\ pc[h] = "sumRow" => mem'[h].goal = mem[h].goal
           /\ asset' \in {asset, UpdatedAsset(asset, mem[h].doc)}
<1>1. /\ UNCHANGED <<jobs, resource, queue, bucket, owned, editor>>
      /\ asset' \in {asset, UpdatedAsset(asset, mem[h].doc)}
      /\ mem' = [mem EXCEPT ![h] = [mem[h] EXCEPT !.goal =
                     IF pc[h] = "hlsRow" THEN "ready" ELSE mem[h].goal]]
      /\ Mine(h) /\ pc[h] \in {"sumRow", "hlsRow"}
      /\ \/ pc'[h] = "failing"
         \/ pc[h] = "sumRow" /\ pc'[h] = "clam"
         \/ pc[h] = "hlsRow" /\ pc'[h] = "getRes"
  BY DEF UpdateAsset, Written, Go, Mine, TypeOK
<1>2. mem'[h] = [mem[h] EXCEPT !.goal = IF pc[h] = "hlsRow" THEN "ready" ELSE mem[h].goal]
  BY <1>1 DEF TypeOK
<1>3. QED
  BY <1>1, <1>2, MemoryFields DEF SameWork, Memory

\* The original is scanned for viruses.
LEMMA ScanVirusEffect ==
    ASSUME TypeOK, NEW h \in Handlers, ScanVirus(h)
    PROVE  /\ Mine(h) /\ SameWork(h) /\ UNCHANGED <<rows, queue, derived, owned, editor>>
           /\ pc[h] = "clam" /\ mem'[h].row = mem[h].row
           /\ \/ /\ pc'[h] = "failing" /\ mem'[h].goal = mem[h].goal
                 /\ mem'[h].attempts \in {mem[h].attempts, MaxAttempts}
              \/ /\ pc'[h] = AfterClean(mem[h].doc.kind) /\ mem'[h].goal = "ready"
                 /\ mem[h].doc.key \notin InfectedObjects
                 /\ mem'[h].attempts = mem[h].attempts
<1>1. pc[h] = "clam" /\ UNCHANGED <<rows, queue, derived, owned, editor>>
  BY DEF ScanVirus
<1>2. CASE Reject(h)
  BY <1>1, <1>2, RejectEffect
<1>3. CASE /\ mem[h].doc.key \notin InfectedObjects
           /\ Go(h, AfterClean(mem[h].doc.kind))
           /\ mem' = [mem EXCEPT ![h].goal = "ready"]
  <2>1. /\ Mine(h) /\ pc'[h] = AfterClean(mem[h].doc.kind)
        /\ mem'[h] = [mem[h] EXCEPT !.goal = "ready"]
    BY <1>1, <1>3 DEF Go, Mine, TypeOK
  <2>2. QED
    BY <1>1, <1>3, <2>1, MemoryFields DEF SameWork, Memory
<1>4. CASE Go(h, "failing") /\ mem' = mem
  BY <1>1, <1>4 DEF Go, Mine, SameWork, TypeOK
<1>5. QED
  BY <1>2, <1>3, <1>4 DEF ScanVirus

\* The next job is looked for.
LEMMA FindNextEffect ==
    ASSUME TypeOK, NEW h \in Handlers, FindNextJob(h)
    PROVE  /\ Mine(h) /\ mem' = mem /\ UNCHANGED <<rows, queue, bucket, owned, editor>>
           /\ pc[h] = "findNext" /\ pc'[h] \in {"createNext", "closing", "failing"}
  BY DEF FindNextJob, AfterFind, Go, Mine, TypeOK

\* The row of the next job is created, if nobody did before.
LEMMA CreateNextEffect ==
    ASSUME TypeOK, NEW h \in Handlers, CreateNextJob(h)
    PROVE  /\ Mine(h) /\ mem' = mem
           /\ UNCHANGED <<asset, resource, queue, bucket, owned, editor>>
           /\ pc[h] = "createNext" /\ pc'[h] \in {"publish", "failing"}
           /\ \/ jobs' = jobs /\ pc'[h] = "failing"
              \/ /\ jobs[Next_Of(h)] = NoJob /\ asset # NoAsset
                 /\ jobs' = [jobs EXCEPT ![Next_Of(h)] = CreatedJob]
  BY DEF CreateNextJob, Written, Go, Mine, TypeOK

\* The next job is published.
LEMMA PublishNextEffect ==
    ASSUME TypeOK, NEW h \in Handlers, PublishNextJob(h)
    PROVE  /\ Mine(h) /\ mem' = mem /\ UNCHANGED <<rows, bucket, owned, editor>>
           /\ pc[h] = "publish" /\ pc'[h] \in {"closing", "failing"}
           /\ \/ UNCHANGED queue
              \/ /\ tasks' = [tasks EXCEPT ![Next_Of(h)] = NewTask]
                 /\ published' = [published EXCEPT ![Next_Of(h)] = published[Next_Of(h)] + 1]
  BY DEF PublishNextJob, SetTask, Go, Mine, TypeOK

\* A derived file is uploaded.
LEMMA UploadDerivedEffect ==
    ASSUME TypeOK, NEW h \in Handlers, UploadDerived(h)
    PROVE  /\ Mine(h) /\ UNCHANGED <<rows, queue, store, owned, editor>>
           /\ pc[h] \in {"playlist", "segments", "pdf"}
           /\ mem'[h].job = mem[h].job /\ mem'[h].attempts = mem[h].attempts
           /\ mem'[h].row = mem[h].row
           /\ derived \subseteq derived' /\ derived' \subseteq derived \cup {pc[h]}
           /\ \/ /\ pc'[h] = "failing" /\ mem'[h].doc = mem[h].doc
                 /\ mem'[h].goal = mem[h].goal
              \/ /\ pc'[h] = AfterUpload(pc[h]) /\ pc[h] \in derived'
                 /\ mem'[h].doc = WithManifest(mem[h].doc, pc[h])
                 /\ mem'[h].goal = "ready"
<1>1. /\ UNCHANGED <<rows, queue, store, owned, editor>>
      /\ pc[h] \in {"playlist", "segments", "pdf"}
      /\ \A i \in Handlers \ {h} : pc'[i] = pc[i]
      /\ derived \subseteq derived' /\ derived' \subseteq derived \cup {pc[h]}
      /\ \/ pc'[h] = "failing" /\ mem' = mem
         \/ /\ pc'[h] = AfterUpload(pc[h]) /\ pc[h] \in derived'
            /\ mem' = [mem EXCEPT ![h] =
                          [mem[h] EXCEPT !.doc = WithManifest(mem[h].doc, pc[h]),
                                         !.goal = "ready"]]
  BY DEF UploadDerived, DerivedFiles, Written, Go, TypeOK
<1>2. CASE pc'[h] = "failing" /\ mem' = mem
  BY <1>1, <1>2 DEF Mine
<1>3. CASE /\ pc'[h] = AfterUpload(pc[h]) /\ pc[h] \in derived'
           /\ mem' = [mem EXCEPT ![h] =
                          [mem[h] EXCEPT !.doc = WithManifest(mem[h].doc, pc[h]),
                                         !.goal = "ready"]]
  <2>1. /\ Mine(h)
        /\ mem'[h] = [mem[h] EXCEPT !.doc = WithManifest(mem[h].doc, pc[h]),
                                    !.goal = "ready"]
    BY <1>1, <1>3 DEF Mine, TypeOK
  <2>2. mem[h] \in Memory
    BY MemoryFields
  <2>3. /\ mem'[h].job = mem[h].job /\ mem'[h].attempts = mem[h].attempts
        /\ mem'[h].row = mem[h].row
        /\ mem'[h].doc = WithManifest(mem[h].doc, pc[h]) /\ mem'[h].goal = "ready"
    BY ONLY <2>1, <2>2 DEF Memory
  <2>4. QED
    BY <1>1, <1>3, <2>1, <2>3
<1>4. QED
  BY <1>1, <1>2, <1>3

\* The job is closed as done.
LEMMA DoneEffect ==
    ASSUME TypeOK, NEW h \in Handlers, MarkJobDone(h)
    PROVE  /\ Mine(h) /\ mem' = mem
           /\ UNCHANGED <<asset, resource, queue, bucket, owned, editor>>
           /\ pc[h] = "closing" /\ pc'[h] \in {"succeeded", "errored"}
           /\ jobs[mem[h].job] = NoJob => jobs' = jobs
           /\ \/ jobs' = jobs /\ (pc'[h] = "errored" \/ ~Standing(h))
              \/ jobs' = [jobs EXCEPT ![mem[h].job] =
                             [status |-> "done", attempts |-> mem[h].attempts]]
  BY UpdateJobEffect DEF MarkJobDone, Go, Mine, TypeOK

\* The job goes back to pending or is dead.
LEMMA FailedEffect ==
    ASSUME TypeOK, NEW h \in Handlers, MarkJobFailed(h)
    PROVE  /\ Mine(h) /\ SameWork(h)
           /\ UNCHANGED <<asset, resource, queue, bucket, owned, editor>>
           /\ pc[h] = "failing" /\ pc'[h] \in {"getRes", "errored"}
           /\ pc'[h] = "getRes" => mem[h].doc # NoAsset
           /\ mem'[h].attempts = mem[h].attempts /\ mem'[h].row = mem[h].row
           /\ mem'[h].goal = "failed"
           /\ jobs[mem[h].job] = NoJob => jobs' = jobs
           /\ \/ jobs' = jobs /\ (pc'[h] = "errored" \/ ~Standing(h))
              \/ jobs' = [jobs EXCEPT ![mem[h].job] =
                             [status |-> FailedStatus(mem[h].attempts),
                              attempts |-> mem[h].attempts]]
<1>1. /\ UNCHANGED <<asset, resource, queue, bucket, owned, editor>>
      /\ mem' = [mem EXCEPT ![h] = [mem[h] EXCEPT !.goal = "failed"]]
      /\ Mine(h) /\ pc[h] = "failing" /\ pc'[h] \in {"getRes", "errored"}
      /\ pc'[h] = "getRes" => mem[h].doc # NoAsset
      /\ jobs[mem[h].job] = NoJob => jobs' = jobs
      /\ \/ jobs' = jobs /\ (pc'[h] = "errored" \/ ~Standing(h))
         \/ jobs' = [jobs EXCEPT ![mem[h].job] =
                        [status |-> FailedStatus(mem[h].attempts),
                         attempts |-> mem[h].attempts]]
  BY UpdateJobEffect DEF MarkJobFailed, Go, Mine, TypeOK
<1>2. mem'[h] = [mem[h] EXCEPT !.goal = "failed"]
  BY <1>1 DEF TypeOK
<1>3. QED
  BY <1>1, <1>2, MemoryFields DEF SameWork, Memory

\* A goroutine ends, by itself or with its process.
Ends(h) ==
    /\ Mine(h) /\ pc'[h] = "idle" /\ mem'[h] = NoMemory /\ ~owned'[h]
    /\ UNCHANGED <<rows, published, bucket, editor>>
    /\ \/ UNCHANGED tasks
       \/ \E tk \in Task : /\ tk.state # "none" /\ owned[h]
                           /\ tasks' = [tasks EXCEPT ![mem[h].job] = tk]

\* That is what finishing, crashing and vanishing do.
LEMMA EndEffect ==
    ASSUME TypeOK, NEW h \in Handlers, Finish(h) \/ Crash(h) \/ Vanish(h)
    PROVE  Ends(h)
<1>1. /\ Mine(h) /\ pc'[h] = "idle" /\ mem'[h] = NoMemory /\ ~owned'[h]
      /\ UNCHANGED <<rows, published, bucket, editor>>
  BY DEF Finish, Crash, Vanish, Leave, Mine, TypeOK, queue
<1>2. ASSUME NEW st \in TaskState \ {"none"}
      PROVE  LET tk == [tasks[mem[h].job] EXCEPT !.state = st]
             IN  tk \in Task /\ tk.state # "none"
  BY MemoryFields DEF TypeOK, Task
<1>3. FailedTask(tasks[mem[h].job]) \in Task /\ FailedTask(tasks[mem[h].job]).state # "none"
  BY MemoryFields DEF TypeOK, Task, FailedTask, TaskState
<1>4. CASE UNCHANGED tasks
  BY <1>1, <1>4 DEF Ends
<1>5. CASE /\ owned[h]
           /\ \E st \in {"completed", "lost"} :
                  tasks' = [tasks EXCEPT ![mem[h].job] =
                               [tasks[mem[h].job] EXCEPT !.state = st]]
  BY <1>1, <1>2, <1>5 DEF Ends, TaskState
<1>6. CASE /\ owned[h]
           /\ tasks' = [tasks EXCEPT ![mem[h].job] = FailedTask(tasks[mem[h].job])]
  BY <1>1, <1>3, <1>6 DEF Ends
<1>7. QED
  BY <1>4, <1>5, <1>6 DEF Finish, Crash, Vanish, SetTask, queue

\* No job disappears.
JobsStay == \A j \in JobTypes : jobs[j] # NoJob => jobs'[j] # NoJob

\* A deleted resource does not come back.
StillGone == resource = NoResource <=> resource' = NoResource

\* A step of a running handler that leaves the queue alone.
Works(h) ==
    /\ Mine(h) /\ StillGone /\ pc[h] # "idle" /\ pc'[h] # "idle"
    /\ mem'[h].job = mem[h].job /\ owned' = owned
    /\ asset' \in {asset, UpdatedAsset(asset, mem[h].doc)}
    /\ JobsStay /\ UNCHANGED queue
    /\ jobs' # jobs => jobs[mem[h].job] # NoJob \/ asset # NoAsset

\* The publication of the job that follows the scan.
Enqueues(h) ==
    /\ Mine(h) /\ mem' = mem /\ UNCHANGED <<rows, bucket, owned, editor>>
    /\ pc[h] = "publish" /\ pc'[h] \in {"closing", "failing"}
    /\ tasks' = [tasks EXCEPT ![Next_Of(h)] = NewTask]
    /\ published' = [published EXCEPT ![Next_Of(h)] = published[Next_Of(h)] + 1]

\* The row that a handler writes for its job is one that exists.
LEMMA WrittenJob ==
    ASSUME TypeOK, NEW h \in Handlers, NEW n \in Nat,
           NEW status \in JobStatus \ {"none"},
           jobs' = [jobs EXCEPT ![mem[h].job] = [status |-> status, attempts |-> n]]
    PROVE  JobsStay
  BY DEF JobsStay, NoJob, TypeOK

\* Every step of a handler is of one of three sorts.
LEMMA HandlerSorts ==
    ASSUME TypeOK, NEW h \in Handlers, HandlerStep(h)
    PROVE  Works(h) \/ Enqueues(h) \/ (Ends(h) /\ Finish(h))
<1> USE DEF rows, queue, bucket, editor, StillGone
<1>m. /\ mem[h].attempts \in Nat /\ mem[h].attempts + 1 \in Nat
      /\ FailedStatus(mem[h].attempts) \in JobStatus \ {"none"}
      /\ {"processing", "done"} \subseteq JobStatus \ {"none"}
  BY MemoryFields DEF FailedStatus, JobStatus
<1>j. jobs' = jobs => JobsStay
  BY DEF JobsStay
<1>1. CASE Load(h)
  BY <1>1, <1>j, LoadEffect DEF Works, SameWork
<1>2. CASE MarkJobProcessing(h)
  BY <1>2, <1>j, <1>m, MarkEffect, WrittenJob DEF Works, SameWork
<1>3. CASE LoadAsset(h)
  BY <1>3, <1>j, LoadAssetEffect DEF Works
<1>4. CASE FindResource(h)
  BY <1>4, <1>j, FindResourceEffect DEF Works, SameWork
<1>5. CASE PutResource(h)
  BY <1>5, <1>j, PutResourceEffect DEF Works, SameWork
<1>6. CASE Download(h)
  BY <1>6, <1>j, DownloadEffect DEF Works
<1>7. CASE Inspect(h)
  BY <1>7, <1>j, InspectEffect DEF Works
<1>8. CASE UpdateAsset(h)
  BY <1>8, <1>j, UpdateAssetEffect DEF Works, SameWork
<1>9. CASE ScanVirus(h)
  BY <1>9, <1>j, ScanVirusEffect DEF Works, SameWork, AfterClean
<1>10. CASE FindNextJob(h)
  BY <1>10, <1>j, FindNextEffect DEF Works
<1>11. CASE CreateNextJob(h)
  <2>1. JobsStay
    BY <1>11, <1>j, CreateNextEffect DEF JobsStay, TypeOK
  <2>2. QED
    BY <1>11, <2>1, CreateNextEffect DEF Works
<1>12. CASE PublishNextJob(h)
  BY <1>12, <1>j, PublishNextEffect DEF Works, Enqueues
<1>13. CASE UploadDerived(h)
  BY <1>13, <1>j, UploadDerivedEffect DEF Works, AfterUpload
<1>14. CASE MarkJobDone(h)
  BY <1>14, <1>j, <1>m, DoneEffect, WrittenJob DEF Works
<1>15. CASE MarkJobFailed(h)
  BY <1>15, <1>j, <1>m, FailedEffect, WrittenJob DEF Works, SameWork
<1>16. CASE Finish(h)
  BY <1>16, EndEffect
<1>17. QED
  BY <1>1, <1>2, <1>3, <1>4, <1>5, <1>6, <1>7, <1>8, <1>9, <1>10, <1>11, <1>12,
     <1>13, <1>14, <1>15, <1>16 DEF HandlerStep

\* asynq gives a queued task to an idle handler.
Delivers(h, j) ==
    /\ Mine(h) /\ pc[h] = "idle" /\ pc'[h] = "load" /\ owned'[h]
    /\ mem'[h] = [mem[h] EXCEPT !.job = j]
    /\ tasks[j].state = "queued"
    /\ tasks' = [tasks EXCEPT ![j] = [state |-> "active", retried |-> tasks[j].retried]]
    /\ UNCHANGED <<rows, published, bucket, editor>>

\* That is what asynq's delivery does.
LEMMA DeliverEffect ==
    ASSUME TypeOK, NEW h \in Handlers, NEW j \in JobTypes, Deliver(h, j)
    PROVE  Delivers(h, j)
<1>1. mem' = [mem EXCEPT ![h] = [mem[h] EXCEPT !.job = j]]
  BY DEF Deliver
<1>2. [tasks[j] EXCEPT !.state = "active"] = [state |-> "active", retried |-> tasks[j].retried]
  BY DEF TypeOK, Task
<1>3. QED
  BY <1>1, <1>2 DEF Deliver, Delivers, SetTask, Go, Mine, TypeOK

\* asynq takes back the task of a handler or of a dead process, or the teacher
\* edits, while the handlers go on.
Aside ==
    /\ UNCHANGED <<jobs, asset, published, bucket, pc, mem>>
    /\ \A i \in Handlers : owned'[i] => owned[i]
    /\ owned' # owned => Limit["timeout"] # 0 \/ Limit["requeue"] # 0
    /\ StillGone
    /\ resource'.status \in {resource.status, edRow.status}
    /\ edRow'.status \in {edRow.status, resource.status, "pending"}
    /\ \/ UNCHANGED tasks
       \/ \E j \in JobTypes, tk \in Task :
              /\ tk.state # "none"
              /\ tasks' = [tasks EXCEPT ![j] = tk]
              /\ \/ tasks[j].state = "lost"
                 \/ \E h \in Handlers : owned[h] /\ ~owned'[h] /\ mem[h].job = j

\* Every step of the worker is a step of a handler, a delivery, or aside.
LEMMA StepSorts ==
    ASSUME TypeOK, [Next]_vars
    PROVE  \/ \E h \in Handlers : HandlerStep(h)
           \/ \E h \in Handlers : Ends(h) /\ (Crash(h) \/ Vanish(h))
           \/ \E h \in Handlers, j \in JobTypes : Delivers(h, j)
           \/ Aside
<1> USE DEF rows, queue, bucket, editor, StillGone
<1>f. ASSUME NEW j \in JobTypes
      PROVE  /\ FailedTask(tasks[j]) \in Task /\ FailedTask(tasks[j]).state # "none"
             /\ LET tk == [tasks[j] EXCEPT !.state = "queued"]
                IN  tk \in Task /\ tk.state # "none"
  BY DEF TypeOK, Task, FailedTask, TaskState
<1>1. ASSUME NEW h \in Handlers, NEW j \in JobTypes, Deliver(h, j) PROVE Delivers(h, j)
  BY <1>1, DeliverEffect
<1>2. ASSUME NEW j \in JobTypes, RecoverLost(j) PROVE Aside
  BY <1>2, <1>f DEF RecoverLost, Aside, SetTask
<1>3. ASSUME NEW h \in Handlers, Timeout(h) \/ Requeue(h) PROVE Aside
  <2>1. /\ mem[h].job \in JobTypes /\ owned[h] /\ ~owned'[h]
        /\ \A i \in Handlers : owned'[i] => owned[i]
        /\ Limit["timeout"] # 0 \/ Limit["requeue"] # 0
    BY <1>3, MemoryFields, WorkerAssumption DEF Timeout, Requeue, Spend, TypeOK, Faults
  <2>2. CASE Timeout(h)
    BY <2>1, <2>2, <1>f DEF Timeout, Aside, SetTask
  <2>3. CASE Requeue(h)
    BY <2>1, <2>3, <1>f DEF Requeue, Aside, SetTask
  <2>4. QED
    BY <1>3, <2>2, <2>3
<1>4. ASSUME BeginEdit \/ UNCHANGED vars PROVE Aside
  BY <1>4 DEF BeginEdit, vars, Aside
<1>e. ASSUME EndEdit PROVE Aside
  <2> DEFINE new == [edRow EXCEPT !.title = spent["edit"]]
  <2>1. /\ resource' = Updated(resource, NoResource, new) /\ edRow' = NoRow
        /\ UNCHANGED <<jobs, asset, queue, bucket, pc, mem, owned>>
    BY <1>e DEF EndEdit
  <2>2. /\ new.status = edRow.status /\ new.status # NoResource.status
        /\ NoRow.status = "pending"
    BY DEF TypeOK, ResourceRow, ProcessingStatus, NoRow, NoResource
  <2> HIDE DEF new
  <2>3. StillGone /\ resource'.status \in {resource.status, edRow.status}
    BY <2>1, <2>2 DEF Updated
  <2>4. QED
    BY <2>1, <2>2, <2>3 DEF Aside
<1>5. ASSUME NEW h \in Handlers, Crash(h) \/ Vanish(h) PROVE Ends(h)
  BY <1>5, EndEffect
<1>6. QED
  BY <1>1, <1>2, <1>3, <1>4, <1>e, <1>5 DEF Next, Rest

-----------------------------------------------------------------------------
(* No job is published twice *)

\* Handlers that are about to enqueue the job that follows the scan.
Enqueuing == {"findNext", "createNext", "publish"}

\* One task per job: the UNIQUE key lets one handler alone past the INSERT,
\* and the handler that publishes is the one that inserted.
PublishInv ==
    /\ \A h \in Handlers : pc[h] \in Enqueuing => HasNextJob(mem[h].doc.kind)
    /\ \A j \in JobTypes \ {"scan"} :
           /\ published[j] <= 1
           /\ jobs[j] = NoJob /\ resource # NoResource => published[j] = 0
           /\ \A h \in Handlers :
                  pc[h] = "publish" /\ Next_Of(h) = j =>
                      /\ resource # NoResource => jobs[j] # NoJob
                      /\ published[j] = 0
                      /\ \A i \in Handlers \ {h} : pc[i] # "publish" \/ Next_Of(i) # j

\* A step after which the handler is not about to publish.
Plain(h) ==
    /\ Mine(h) /\ StillGone /\ published' = published /\ JobsStay
    /\ pc'[h] # "publish"
    /\ pc'[h] \in Enqueuing => HasNextJob(mem'[h].doc.kind)

\* The INSERT of the next job, and the way to its publication.
Creates(h) ==
    /\ Mine(h) /\ mem' = mem /\ published' = published /\ resource' = resource
    /\ pc[h] = "createNext" /\ pc'[h] \in {"publish", "failing"}
    /\ jobs[Next_Of(h)] = NoJob /\ asset # NoAsset
    /\ jobs' = [jobs EXCEPT ![Next_Of(h)] = CreatedJob]

\* Every step of a handler is plain, inserts, or publishes.
LEMMA PublishSorts ==
    ASSUME TypeOK, PublishInv, NEW h \in Handlers, HandlerStep(h)
    PROVE  Plain(h) \/ Creates(h) \/ Enqueues(h)
<1>s. Works(h) \/ Enqueues(h) \/ Ends(h)
  BY HandlerSorts
<1>e. Ends(h) => Plain(h)
  BY DEF Ends, Plain, StillGone, JobsStay, rows, Enqueuing
<1>w. Works(h) => Mine(h) /\ StillGone /\ published' = published /\ JobsStay
  BY DEF Works, queue
<1>l. ASSUME Works(h), pc'[h] \notin Enqueuing PROVE Plain(h)
  BY <1>w, <1>l DEF Plain, Enqueuing
<1>1. CASE FindNextJob(h)
  <2>1. HasNextJob(mem'[h].doc.kind) /\ pc'[h] # "publish" /\ Mine(h)
    BY <1>1, FindNextEffect DEF PublishInv, Enqueuing
  <2>2. published' = published /\ JobsStay /\ StillGone
    BY <1>1, FindNextEffect DEF JobsStay, StillGone, rows, queue
  <2>3. QED
    BY <2>1, <2>2 DEF Plain
<1>2. CASE CreateNextJob(h)
  <2>1. CASE jobs' = jobs /\ pc'[h] = "failing"
    BY <1>2, <2>1, CreateNextEffect DEF Plain, StillGone, Enqueuing, JobsStay, queue
  <2>2. CASE /\ jobs[Next_Of(h)] = NoJob /\ asset # NoAsset
             /\ jobs' = [jobs EXCEPT ![Next_Of(h)] = CreatedJob]
    BY <1>2, <2>2, CreateNextEffect DEF Creates, queue
  <2>3. QED
    BY <1>2, <2>1, <2>2, CreateNextEffect
<1>3. CASE ScanVirus(h)
  <2>1. \/ pc'[h] = "failing"
        \/ pc'[h] = AfterClean(mem[h].doc.kind) /\ mem'[h].doc = mem[h].doc
    BY <1>3, ScanVirusEffect DEF SameWork
  <2>2. /\ pc'[h] \in {"failing", "findNext", "getRes"}
        /\ pc'[h] = "findNext" => HasNextJob(mem'[h].doc.kind)
    BY <2>1 DEF AfterClean
  <2>3. Mine(h) /\ StillGone /\ published' = published /\ JobsStay
    BY <1>3, ScanVirusEffect DEF JobsStay, StillGone, rows, queue
  <2>4. QED
    BY <2>2, <2>3 DEF Plain, Enqueuing
<1>4. CASE Load(h) \/ MarkJobProcessing(h) \/ LoadAsset(h) \/ FindResource(h)
  <2>1. pc'[h] \notin Enqueuing /\ pc[h] # "publish"
    BY <1>4, LoadEffect, MarkEffect, LoadAssetEffect, FindResourceEffect DEF Enqueuing
  <2>2. QED
    BY <2>1, <1>s, <1>e, <1>l DEF Enqueues
<1>5. CASE PutResource(h) \/ Download(h) \/ Inspect(h) \/ UpdateAsset(h)
  <2>1. pc'[h] \notin Enqueuing /\ pc[h] # "publish"
    BY <1>5, PutResourceEffect, DownloadEffect, InspectEffect, UpdateAssetEffect
       DEF Enqueuing
  <2>2. QED
    BY <2>1, <1>s, <1>e, <1>l DEF Enqueues
<1>6. CASE PublishNextJob(h) \/ UploadDerived(h) \/ MarkJobDone(h) \/ MarkJobFailed(h)
  <2>1. pc'[h] \notin Enqueuing
    BY <1>6, PublishNextEffect, UploadDerivedEffect, DoneEffect, FailedEffect
       DEF Enqueuing, AfterUpload
  <2>2. QED
    BY <2>1, <1>s, <1>e, <1>l
<1>7. CASE Finish(h)
  BY <1>7, <1>e, EndEffect
<1>8. QED
  BY <1>1, <1>2, <1>3, <1>4, <1>5, <1>6, <1>7 DEF HandlerStep

\* A plain step publishes nothing and lets nobody publish.
LEMMA PlainPublish ==
    ASSUME TypeOK, PublishInv, NEW h \in Handlers, Plain(h)
    PROVE  PublishInv'
<1>1. /\ \A i \in Handlers \ {h} : pc'[i] = pc[i] /\ mem'[i] = mem[i]
      /\ published' = published /\ pc'[h] # "publish"
      /\ pc'[h] \in Enqueuing => HasNextJob(mem'[h].doc.kind)
      /\ \A j \in JobTypes : jobs[j] # NoJob => jobs'[j] # NoJob
      /\ resource' # NoResource => resource # NoResource
  BY DEF Plain, Mine, JobsStay, StillGone
<1>2. \A i \in Handlers : pc'[i] \in Enqueuing => HasNextJob(mem'[i].doc.kind)
  BY <1>1 DEF PublishInv
<1>3. ASSUME NEW j \in JobTypes \ {"scan"}
      PROVE  /\ published'[j] <= 1
             /\ jobs'[j] = NoJob /\ resource' # NoResource => published'[j] = 0
  BY <1>1 DEF PublishInv
<1>4. ASSUME NEW j \in JobTypes \ {"scan"}, NEW k \in Handlers,
             pc'[k] = "publish", Next_Of(k)' = j
      PROVE  /\ resource' # NoResource => jobs'[j] # NoJob
             /\ published'[j] = 0
             /\ \A i \in Handlers \ {k} : pc'[i] # "publish" \/ Next_Of(i)' # j
  BY <1>1, <1>4 DEF PublishInv, Next_Of
<1>5. QED
  BY <1>2, <1>3, <1>4 DEF PublishInv

\* The INSERT succeeds for one handler alone.
LEMMA CreatePublish ==
    ASSUME TypeOK, PublishInv, resource # NoResource \/ asset = NoAsset,
           NEW h \in Handlers, Creates(h)
    PROVE  PublishInv'
<1> DEFINE n == Next_Of(h)
<1>n. n \in JobTypes \ {"scan"} /\ HasNextJob(mem[h].doc.kind)
  BY MemoryFields DEF Creates, PublishInv, Enqueuing
<1>1. /\ \A i \in Handlers \ {h} : pc'[i] = pc[i]
      /\ published' = published /\ mem' = mem /\ jobs[n] = NoJob
      /\ resource # NoResource /\ resource' = resource
      /\ pc'[h] \in {"publish", "failing"}
      /\ \A j \in JobTypes : jobs'[j] = IF j = n THEN CreatedJob ELSE jobs[j]
  BY DEF Creates, Mine, TypeOK
<1>2. CreatedJob # NoJob /\ \A i \in Handlers : Next_Of(i)' = Next_Of(i)
  BY <1>1 DEF CreatedJob, NoJob, Next_Of
<1>3. \A i \in Handlers : pc'[i] \in Enqueuing => HasNextJob(mem'[i].doc.kind)
  BY <1>1, <1>n DEF PublishInv, Enqueuing
<1> HIDE DEF n
<1>4. ASSUME NEW j \in JobTypes \ {"scan"}
      PROVE  /\ published'[j] <= 1
             /\ jobs'[j] = NoJob /\ resource' # NoResource => published'[j] = 0
  BY <1>1, <1>2 DEF PublishInv
<1>5. ASSUME NEW j \in JobTypes \ {"scan"}, NEW k \in Handlers,
             pc'[k] = "publish", Next_Of(k)' = j
      PROVE  /\ resource' # NoResource => jobs'[j] # NoJob
             /\ published'[j] = 0
             /\ \A i \in Handlers \ {k} : pc'[i] # "publish" \/ Next_Of(i)' # j
  <2>1. Next_Of(h) = n
    BY DEF n
  <2>2. \A i \in Handlers : pc[i] # "publish" \/ Next_Of(i) # n
    BY <1>1, <1>n DEF PublishInv
  <2>3. CASE k = h
    BY <1>1, <1>2, <1>5, <1>n, <2>1, <2>2, <2>3 DEF PublishInv
  <2>4. CASE k # h
    <3>1. pc[k] = "publish" /\ Next_Of(k) = j /\ j # n
      BY <1>1, <1>2, <1>5, <2>2, <2>4
    <3>2. QED
      BY <1>1, <1>2, <2>1, <2>4, <3>1 DEF PublishInv
  <2>5. QED
    BY <2>3, <2>4
<1>6. QED
  BY <1>3, <1>4, <1>5 DEF PublishInv

\* The handler that inserted the row publishes its task, the first.
LEMMA EnqueuePublish ==
    ASSUME TypeOK, PublishInv, NEW h \in Handlers, Enqueues(h)
    PROVE  PublishInv'
<1> DEFINE n == Next_Of(h)
<1>n. /\ n \in JobTypes \ {"scan"} /\ published[n] = 0
      /\ resource # NoResource => jobs[n] # NoJob
      /\ \A i \in Handlers \ {h} : pc[i] # "publish" \/ Next_Of(i) # n
  BY MemoryFields DEF Enqueues, PublishInv, Enqueuing
<1>1. /\ \A i \in Handlers \ {h} : pc'[i] = pc[i]
      /\ mem' = mem /\ jobs' = jobs /\ resource' = resource /\ pc'[h] \notin Enqueuing
      /\ \A j \in JobTypes : published'[j] = IF j = n THEN 1 ELSE published[j]
  BY <1>n DEF Enqueues, Mine, TypeOK, rows, Enqueuing
<1>2. \A i \in Handlers : Next_Of(i)' = Next_Of(i)
  BY <1>1 DEF Next_Of
<1>3. \A i \in Handlers : pc'[i] \in Enqueuing => HasNextJob(mem'[i].doc.kind)
  BY <1>1 DEF PublishInv
<1> HIDE DEF n
<1>4. ASSUME NEW j \in JobTypes \ {"scan"}
      PROVE  /\ published'[j] <= 1
             /\ jobs'[j] = NoJob /\ resource' # NoResource => published'[j] = 0
  BY <1>1, <1>n DEF PublishInv
<1>5. ASSUME NEW j \in JobTypes \ {"scan"}, NEW k \in Handlers,
             pc'[k] = "publish", Next_Of(k)' = j
      PROVE  /\ resource' # NoResource => jobs'[j] # NoJob
             /\ published'[j] = 0
             /\ \A i \in Handlers \ {k} : pc'[i] # "publish" \/ Next_Of(i)' # j
  BY <1>1, <1>2, <1>5, <1>n DEF PublishInv, Enqueuing
<1>6. QED
  BY <1>3, <1>4, <1>5 DEF PublishInv

\* Deliveries and what happens beside the handlers publish nothing.
LEMMA PublishNext ==
    ASSUME TypeOK, PublishInv, resource # NoResource \/ asset = NoAsset, [Next]_vars
    PROVE  PublishInv'
<1>1. ASSUME NEW h \in Handlers, HandlerStep(h) PROVE PublishInv'
  BY <1>1, PublishSorts, PlainPublish, CreatePublish, EnqueuePublish
<1>2. ASSUME NEW h \in Handlers, Ends(h) \/ \E j \in JobTypes : Delivers(h, j)
      PROVE  PublishInv'
  <2>1. Plain(h)
    BY <1>2 DEF Ends, Delivers, Plain, StillGone, JobsStay, rows, Enqueuing
  <2>2. QED
    BY <2>1, PlainPublish
<1>3. CASE Aside
  BY <1>3 DEF Aside, StillGone, PublishInv, Next_Of
<1>4. QED
  BY <1>1, <1>2, <1>3, StepSorts

\* The worker does not publish the scan.
LEMMA ScanKept ==
    ASSUME TypeOK, PublishInv, [Next]_vars
    PROVE  published'["scan"] = published["scan"]
<1>1. ASSUME NEW h \in Handlers, Enqueues(h) PROVE published'["scan"] = published["scan"]
  <2>1. Next_Of(h) # "scan"
    BY <1>1, MemoryFields DEF Enqueues, PublishInv, Enqueuing
  <2>2. QED
    BY <1>1, <2>1 DEF Enqueues, TypeOK, JobTypes
<1>2. QED
  BY <1>1, StepSorts, HandlerSorts DEF Works, Ends, Delivers, Aside, queue

-----------------------------------------------------------------------------
(* The rows a delivery needs are there *)

\* No step gives the asset another original or another kind of row.
LEMMA AssetStays ==
    ASSUME TypeOK, RowsInv, [Next]_vars
    PROVE  /\ asset'.key = asset.key
           /\ asset # NoAsset => asset' # NoAsset
           /\ asset = NoAsset => asset' = NoAsset
<1>1. ASSUME NEW h \in Handlers, Works(h)
      PROVE  asset' \in {asset, UpdatedAsset(asset, mem[h].doc)} /\ asset # NoAsset
  BY <1>1 DEF Works, RowsInv
<1>2. ASSUME NEW h \in Handlers
      PROVE  UpdatedAsset(asset, mem[h].doc).key = asset.key
  BY MemoryFields DEF UpdatedAsset, Updated, AssetRow, TypeOK
<1>3. asset # NoAsset => asset.key # Null
  BY StoreAssumption DEF RowsInv
<1>4. NoAsset.key = Null
  BY DEF NoAsset
<1>5. CASE asset' = asset
  BY <1>5
<1>6. ASSUME NEW h \in Handlers, Enqueues(h) \/ Ends(h) PROVE asset' = asset
  BY <1>6 DEF Enqueues, Ends, rows
<1>7. ASSUME NEW h \in Handlers, NEW j \in JobTypes, Delivers(h, j) PROVE asset' = asset
  BY <1>7 DEF Delivers, rows
<1>8. Aside => asset' = asset
  BY DEF Aside
<1>9. asset' = asset \/ \E h \in Handlers : Works(h)
  BY <1>6, <1>7, <1>8, StepSorts, HandlerSorts
<1>10. ASSUME NEW h \in Handlers, Works(h), asset' # asset
       PROVE  asset'.key = asset.key /\ asset # NoAsset
  BY <1>1, <1>2, <1>10
<1>11. QED
  BY <1>3, <1>4, <1>5, <1>9, <1>10

\* No job disappears, and jobs are only written for an asset that exists.
LEMMA JobsKept ==
    ASSUME TypeOK, RowsInv, [Next]_vars
    PROVE  JobsStay /\ (jobs' # jobs => asset # NoAsset)
<1>1. jobs' = jobs => JobsStay
  BY DEF JobsStay
<1>2. ASSUME NEW h \in Handlers, HandlerStep(h) \/ Ends(h)
      PROVE  JobsStay /\ (jobs' # jobs => asset # NoAsset)
  BY <1>1, <1>2, HandlerSorts DEF Works, Enqueues, Ends, RowsInv, rows
<1>3. QED
  BY <1>1, <1>2, StepSorts DEF Delivers, Aside, rows

\* A step of a handler keeps the rows and its own job.
LEMMA RowsHandler ==
    ASSUME TypeOK, RowsInv, PublishInv, [Next]_vars, NEW h \in Handlers,
           Works(h) \/ Enqueues(h)
    PROVE  RowsInv'
<1>a. /\ asset'.key = asset.key
      /\ asset # NoAsset => asset' # NoAsset
      /\ asset = NoAsset => asset' = NoAsset
  BY AssetStays
<1>1. /\ \A i \in Handlers \ {h} : pc'[i] = pc[i] /\ mem'[i] = mem[i] /\ owned'[i] = owned[i]
      /\ mem'[h].job = mem[h].job /\ pc[h] # "idle" /\ pc'[h] # "idle"
      /\ \A j \in JobTypes : jobs[j] # NoJob => jobs'[j] # NoJob
      /\ mem[h].job \in JobTypes /\ resource' # NoResource
  BY MemoryFields DEF Works, Enqueues, Mine, JobsStay, StillGone, RowsInv, rows
<1>2. \A i \in Handlers : /\ pc'[i] # "idle" => jobs'[mem'[i].job] # NoJob /\ asset' # NoAsset
                          /\ pc'[i] = "idle" => mem'[i] = NoMemory /\ ~owned'[i]
  BY <1>1, <1>a, MemoryFields DEF RowsInv
<1>3. ASSUME NEW j \in JobTypes, tasks'[j].state # "none"
      PROVE  jobs'[j] # NoJob /\ asset' # NoAsset
  <2>1. CASE Works(h)
    BY <2>1, <1>1, <1>3, <1>a DEF Works, RowsInv, queue
  <2>2. CASE Enqueues(h)
    <3>1. Next_Of(h) # "scan" /\ Next_Of(h) \in JobTypes /\ jobs[Next_Of(h)] # NoJob
      <4>1. resource # NoResource
        BY DEF RowsInv
      <4>2. QED
        BY <2>2, <4>1, MemoryFields DEF Enqueues, PublishInv, Enqueuing
    <3>2. tasks[j].state # "none" \/ j = Next_Of(h)
      BY <2>2, <1>3 DEF Enqueues, TypeOK
    <3>3. asset # NoAsset
      BY <1>1 DEF RowsInv
    <3>4. QED
      BY <3>1, <3>2, <3>3, <1>1, <1>a DEF RowsInv
  <2>3. QED
    BY <2>1, <2>2
<1>4. QED
  BY <1>1, <1>2, <1>3, <1>a DEF RowsInv

\* Every step keeps the rows that the tasks and the handlers refer to.
LEMMA RowsNext == TypeOK /\ RowsInv /\ PublishInv /\ [Next]_vars => RowsInv'
<1> SUFFICES ASSUME TypeOK, RowsInv, PublishInv, [Next]_vars PROVE RowsInv'
  OBVIOUS
<1>1. ASSUME NEW h \in Handlers, HandlerStep(h), ~Ends(h) PROVE RowsInv'
  BY <1>1, HandlerSorts, RowsHandler
<1>2. ASSUME NEW h \in Handlers, Ends(h) PROVE RowsInv'
  <2>1. /\ \A i \in Handlers \ {h} : pc'[i] = pc[i] /\ mem'[i] = mem[i] /\ owned'[i] = owned[i]
        /\ pc'[h] = "idle" /\ mem'[h] = NoMemory /\ ~owned'[h] /\ mem[h].job \in JobTypes
        /\ jobs' = jobs /\ asset' = asset /\ resource' = resource
        /\ \A j \in JobTypes : tasks'[j].state # "none" =>
               tasks[j].state # "none" \/ (owned[h] /\ j = mem[h].job)
    BY <1>2, MemoryFields DEF Ends, Mine, rows, TypeOK
  <2>2. QED
    BY <2>1, MemoryFields DEF RowsInv
<1>3. ASSUME NEW h \in Handlers, NEW j \in JobTypes, Delivers(h, j) PROVE RowsInv'
  <2>1. /\ \A i \in Handlers \ {h} : pc'[i] = pc[i] /\ mem'[i] = mem[i] /\ owned'[i] = owned[i]
        /\ pc'[h] = "load" /\ mem'[h].job = j
        /\ jobs' = jobs /\ asset' = asset /\ resource' = resource /\ tasks[j].state # "none"
        /\ \A k \in JobTypes : tasks'[k].state # "none" => tasks[k].state # "none"
    BY <1>3, MemoryFields DEF Delivers, Mine, rows, TypeOK, Memory
  <2>2. QED
    BY <2>1, MemoryFields DEF RowsInv
<1>4. CASE Aside
  <2>1. /\ jobs' = jobs /\ asset' = asset /\ pc' = pc /\ mem' = mem
        /\ \A i \in Handlers : owned'[i] => owned[i]
        /\ resource' # NoResource
    BY <1>4 DEF Aside, StillGone, RowsInv
  <2>2. \A j \in JobTypes : tasks'[j].state # "none" =>
            \/ tasks[j].state # "none"
            \/ \E h \in Handlers : owned[h] /\ mem[h].job = j
    BY <1>4 DEF Aside, TypeOK
  <2>3. QED
    BY <2>1, <2>2 DEF RowsInv
<1>5. QED
  BY <1>1, <1>2, <1>3, <1>4, StepSorts

\* At the beginning the scan is published and nobody is at work.
LEMMA RowsInit == Init => RowsInv /\ PublishInv
<1> SUFFICES ASSUME Init PROVE RowsInv /\ PublishInv
  OBVIOUS
<1>1. asset.key \in Objects /\ asset # NoAsset /\ resource # NoResource
  BY WorkerAssumption, StoreAssumption DEF Init, NoAsset, NoRow, NoResource
<1>2. RowsInv
  BY <1>1 DEF Init, RowsInv, JobTypes, NoTask, CreatedJob, NoJob
<1>3. PublishInv
  BY DEF Init, PublishInv, Enqueuing, JobTypes
<1>4. QED
  BY <1>2, <1>3

\* EnqueueJob publishes one task per job, however many deliveries of the scan
\* interleave its find, its insert and its publication.
THEOREM PublishesOnce == Spec => []PublishedOnce
<1> DEFINE Inv == TypeOK /\ RowsInv /\ PublishInv /\ published["scan"] = 1
<1>1. Init => Inv
  BY TypeInit, RowsInit DEF Init, JobTypes
<1>2. Inv /\ [Next]_vars => Inv'
  BY TypeNext, RowsNext, PublishNext, ScanKept DEF RowsInv
<1>3. Inv => PublishedOnce
  BY DEF PublishInv, PublishedOnce
<1>4. QED
  BY <1>1, <1>2, <1>3, PTL DEF Spec

\* No handler that was at work when the resource went brings a row back.
LEMMA GoneNext ==
    ASSUME TypeOK, resource = NoResource, asset = NoAsset,
           \A j \in JobTypes : jobs[j] = NoJob, [Next]_vars
    PROVE  UNCHANGED rows
<1> USE DEF rows
<1>1. ASSUME NEW h \in Handlers, Works(h) PROVE UNCHANGED rows
  BY <1>1, MemoryFields DEF Works, StillGone, UpdatedAsset, Updated
<1>2. ASSUME NEW h \in Handlers, Enqueues(h) \/ Ends(h) PROVE UNCHANGED rows
  BY <1>2 DEF Enqueues, Ends
<1>3. Aside => UNCHANGED rows
  BY DEF Aside, StillGone
<1>4. QED
  BY <1>1, <1>2, <1>3, StepSorts, HandlerSorts DEF Delivers

-----------------------------------------------------------------------------
(* The manifest is shown after its files *)

\* What asset.hls announces, in the row or in a copy of it.
Complete == {"playlist", "segments"} \subseteq derived

ManifestInv ==
    /\ asset.hls => Complete
    /\ \A h \in Handlers : /\ mem[h].doc.hls => Complete
                           /\ pc[h] = "segments" => "playlist" \in derived

\* A step that only moves copies of the asset.
Copies(h) ==
    /\ Mine(h) /\ derived' = derived /\ pc'[h] # "segments"
    /\ asset'.hls => asset.hls \/ mem[h].doc.hls
    /\ mem'[h].doc.hls => asset.hls \/ mem[h].doc.hls

\* Only the upload of a derived file is more than that.
LEMMA CopySorts ==
    ASSUME TypeOK, NEW h \in Handlers, HandlerStep(h)
    PROVE  Copies(h) \/ UploadDerived(h)
<1> USE DEF rows, queue, bucket, editor
<1>1. CASE Load(h) \/ MarkJobProcessing(h)
  BY <1>1, LoadEffect, MarkEffect DEF Copies, SameWork
<1>2. CASE LoadAsset(h) \/ FindResource(h) \/ PutResource(h)
  BY <1>2, LoadAssetEffect, FindResourceEffect, PutResourceEffect DEF Copies, SameWork
<1>3. CASE Download(h) \/ ScanVirus(h)
  BY <1>3, DownloadEffect, ScanVirusEffect DEF Copies, SameWork, AfterClean
<1>4. CASE Inspect(h)
  <2>1. mem'[h].doc.hls = mem[h].doc.hls
    BY <1>4, InspectEffect, MemoryFields DEF AssetRow
  <2>2. QED
    BY <1>4, <2>1, InspectEffect DEF Copies
<1>5. CASE UpdateAsset(h)
  <2>1. asset'.hls \in {asset.hls, mem[h].doc.hls}
    BY <1>5, UpdateAssetEffect, MemoryFields DEF UpdatedAsset, Updated, AssetRow
  <2>2. Mine(h) /\ derived' = derived /\ pc'[h] # "segments" /\ mem'[h].doc = mem[h].doc
    BY <1>5, UpdateAssetEffect DEF SameWork
  <2>3. QED
    BY <2>1, <2>2 DEF Copies
<1>6. CASE FindNextJob(h) \/ CreateNextJob(h) \/ PublishNextJob(h)
  BY <1>6, FindNextEffect, CreateNextEffect, PublishNextEffect DEF Copies
<1>7. CASE MarkJobDone(h) \/ MarkJobFailed(h)
  BY <1>7, DoneEffect, FailedEffect DEF Copies, SameWork
<1>8. CASE Finish(h)
  BY <1>8, EndEffect DEF Ends, Copies, NoMemory, NoAsset
<1>9. QED
  BY <1>1, <1>2, <1>3, <1>4, <1>5, <1>6, <1>7, <1>8 DEF HandlerStep

\* Every step keeps the files a manifest refers to, and shows none too early.
LEMMA ManifestNext == TypeOK /\ ManifestInv /\ [Next]_vars => ManifestInv'
<1> SUFFICES ASSUME TypeOK, ManifestInv, [Next]_vars PROVE ManifestInv'
  OBVIOUS
<1>1. ASSUME NEW h \in Handlers, Copies(h) PROVE ManifestInv'
  BY <1>1 DEF Copies, Mine, ManifestInv, Complete
<1>2. ASSUME NEW h \in Handlers, UploadDerived(h) PROVE ManifestInv'
  <2>1. /\ \A i \in Handlers \ {h} : pc'[i] = pc[i] /\ mem'[i] = mem[i]
        /\ derived \subseteq derived' /\ asset' = asset
    BY <1>2, UploadDerivedEffect DEF Mine, rows
  <2>2. /\ mem'[h].doc.hls => Complete'
        /\ pc'[h] = "segments" => "playlist" \in derived'
    <3>1. CASE pc'[h] = "failing" /\ mem'[h].doc = mem[h].doc
      BY <2>1, <3>1 DEF ManifestInv, Complete
    <3>2. CASE /\ pc[h] = "segments" /\ pc'[h] = AfterUpload(pc[h])
               /\ pc[h] \in derived'
      BY <2>1, <3>2 DEF ManifestInv, Complete, AfterUpload
    <3>3. CASE /\ pc[h] \in {"playlist", "pdf"} /\ pc'[h] = AfterUpload(pc[h])
               /\ pc[h] \in derived' /\ mem'[h].doc = WithManifest(mem[h].doc, pc[h])
      BY <2>1, <3>3 DEF ManifestInv, Complete, AfterUpload, WithManifest
    <3>4. QED
      BY <1>2, <3>1, <3>2, <3>3, UploadDerivedEffect
  <2>3. QED
    BY <2>1, <2>2 DEF ManifestInv, Complete
<1>3. ASSUME NEW h \in Handlers, Ends(h) \/ \E j \in JobTypes : Delivers(h, j)
      PROVE  Copies(h)
  <2>1. CASE Ends(h)
    BY <2>1 DEF Ends, Copies, NoMemory, NoAsset, rows, bucket
  <2>2. ASSUME NEW j \in JobTypes, Delivers(h, j) PROVE Copies(h)
    <3>1. mem'[h].doc = mem[h].doc
      BY <2>2, MemoryFields DEF Delivers, Memory
    <3>2. QED
      BY <2>2, <3>1 DEF Delivers, Copies, rows, bucket
  <2>3. QED
    BY <1>3, <2>1, <2>2
<1>4. CASE Aside
  BY <1>4 DEF Aside, ManifestInv, Complete, bucket
<1>5. QED
  BY <1>1, <1>2, <1>3, <1>4, StepSorts, CopySorts

\* The row names a manifest only when the playlist and every segment it lists
\* are in the bucket, whatever fails or is delivered again in between.
THEOREM ManifestIsComplete == Spec => []ManifestComplete
<1>1. Init => ManifestInv
  BY WorkerAssumption DEF Init, ManifestInv, NoMemory, NoAsset
<1>2. ManifestInv => ManifestComplete
  BY DEF ManifestInv, Complete, ManifestComplete
<1>3. QED
  BY <1>1, <1>2, TypeCorrect, ManifestNext, PTL DEF Spec

-----------------------------------------------------------------------------
(* Nothing unclean is shown, even while the declared checksum changes *)

IsClean == asset.key \in CleanObjects

\* Weaker than HandlerInv: it says nothing of the declared checksum, which a
\* new upload of the same resource replaces.
HandlerClean(h) ==
    /\ mem[h].doc = NoAsset \/ mem[h].doc.key = asset.key
    /\ pc[h] \in WithDoc => mem[h].doc # NoAsset
    /\ pc[h] \in {"sumRow", "clam"} => asset.key \notin WrongTypeObjects
    /\ \/ pc[h] \in PastScan
       \/ mem[h].job # "scan"
       \/ mem[h].goal = "ready"
       \/ mem[h].row.status = "ready"
       => IsClean

SharedClean ==
    /\ \A j \in JobTypes : j # "scan" /\ tasks[j].state # "none" => IsClean
    /\ resource.status = "ready" => IsClean
    /\ edRow.status = "ready" => IsClean
    /\ derived # {} => IsClean

CleanInv == SharedClean /\ \A h \in Handlers : HandlerClean(h)

\* A step of a handler keeps what is known of that handler.
LEMMA CleanHandler ==
    ASSUME TypeOK, RowsInv, CleanInv, asset'.key = asset.key,
           NEW h \in Handlers, HandlerStep(h)
    PROVE  HandlerClean(h)'
<1> USE DEF rows, queue, bucket, editor
<1>k. /\ HandlerClean(h) /\ (IsClean' <=> IsClean)
      /\ resource.status = "ready" => IsClean
      /\ mem[h].doc \in AssetRow /\ mem[h].row \in ResourceRow
  BY MemoryFields DEF CleanInv, SharedClean, IsClean
<1>1. CASE Load(h) \/ MarkJobProcessing(h)
  BY <1>1, <1>k, LoadEffect, MarkEffect
     DEF HandlerClean, WithDoc, PastScan, SameWork
<1>2. CASE LoadAsset(h)
  <2>1. asset # NoAsset
    BY <1>2, LoadAssetEffect DEF RowsInv
  <2>2. QED
    BY <1>2, <1>k, <2>1, LoadAssetEffect DEF HandlerClean, WithDoc, PastScan
<1>3. CASE FindResource(h)
  BY <1>3, <1>k, FindResourceEffect
     DEF HandlerClean, WithDoc, PastScan, SameWork
<1>4. CASE PutResource(h)
  BY <1>4, <1>k, PutResourceEffect
     DEF HandlerClean, WithDoc, PastScan, SameWork, NoRow
<1>5. CASE Download(h)
  BY <1>5, <1>k, DownloadEffect
     DEF HandlerClean, WithDoc, PastScan
<1>6. CASE Inspect(h)
  <2>1. /\ mem[h].doc # NoAsset /\ mem[h].doc.key = asset.key /\ asset.key # Null
        /\ pc[h] = "inspect"
    BY <1>6, <1>k, InspectEffect, StoreAssumption DEF HandlerClean, WithDoc, RowsInv
  <2>2. CASE pc'[h] = "failing" /\ mem'[h].doc = mem[h].doc
    BY <1>6, <1>k, <2>1, <2>2, InspectEffect DEF HandlerClean, WithDoc, PastScan
  <2>3. CASE /\ pc'[h] = "sumRow" /\ ~Mismatch(mem[h].doc)
             /\ mem'[h].doc = [mem[h].doc EXCEPT !.sum = mem[h].doc.key]
    <3>1. mem'[h].doc.key = asset'.key /\ mem'[h].doc # NoAsset
      BY <1>k, <2>1, <2>3 DEF AssetRow, NoAsset
    <3>2. asset'.key \notin WrongTypeObjects
      BY <2>1, <2>3 DEF Mismatch
    <3>3. QED
      BY <1>6, <1>k, <2>3, <3>1, <3>2, InspectEffect DEF HandlerClean, PastScan
  <2>4. QED
    BY <1>6, <2>2, <2>3, InspectEffect
<1>7. CASE UpdateAsset(h)
  <2>1. pc[h] = "hlsRow" => IsClean
    BY <1>k DEF HandlerClean, PastScan
  <2>2. QED
    BY <1>7, <1>k, <2>1, UpdateAssetEffect DEF HandlerClean, WithDoc, PastScan, SameWork
<1>8. CASE ScanVirus(h)
  <2>1. /\ mem[h].doc # NoAsset /\ mem[h].doc.key = asset.key /\ asset.key \in Objects
        /\ asset.key \notin WrongTypeObjects
    BY <1>8, <1>k, ScanVirusEffect DEF HandlerClean, WithDoc, RowsInv
  <2>2. mem[h].doc.key \notin InfectedObjects => IsClean
    BY <2>1 DEF IsClean, Objects
  <2>3. AfterClean(mem[h].doc.kind) \in {"findNext", "getRes"}
    BY DEF AfterClean
  <2>4. QED
    BY <1>8, <1>k, <2>1, <2>2, <2>3, ScanVirusEffect
       DEF HandlerClean, WithDoc, PastScan, SameWork
<1>9. CASE FindNextJob(h) \/ CreateNextJob(h) \/ PublishNextJob(h)
  BY <1>9, <1>k, FindNextEffect, CreateNextEffect, PublishNextEffect
     DEF HandlerClean, WithDoc, PastScan
<1>10. CASE UploadDerived(h)
  <2>1. IsClean /\ mem[h].doc # NoAsset /\ mem[h].doc.key = asset.key
    BY <1>10, <1>k, UploadDerivedEffect DEF HandlerClean, WithDoc, PastScan
  <2>2. /\ WithManifest(mem[h].doc, pc[h]) # NoAsset
        /\ WithManifest(mem[h].doc, pc[h]).key = asset.key
    BY <1>k, <2>1 DEF WithManifest, AssetRow, NoAsset
  <2>3. QED
    BY <1>10, <1>k, <2>1, <2>2, UploadDerivedEffect DEF HandlerClean, AfterUpload
<1>11. CASE MarkJobDone(h) \/ MarkJobFailed(h)
  BY <1>11, <1>k, DoneEffect, FailedEffect
     DEF HandlerClean, WithDoc, PastScan, SameWork
<1>12. CASE Finish(h)
  BY <1>12, EndEffect DEF Ends, HandlerClean, NoMemory, NoRow, WithDoc, PastScan
<1>13. QED
  BY <1>1, <1>2, <1>3, <1>4, <1>5, <1>6, <1>7, <1>8, <1>9, <1>10, <1>11, <1>12
     DEF HandlerStep

\* A step of a handler shows nothing that is not clean.
LEMMA CleanShared ==
    ASSUME TypeOK, CleanInv, asset'.key = asset.key, NEW h \in Handlers, HandlerStep(h)
    PROVE  SharedClean'
<1> USE DEF rows, queue, bucket, editor
<1>k. /\ HandlerClean(h) /\ SharedClean /\ (IsClean' <=> IsClean)
  BY DEF CleanInv, IsClean
<1>1. CASE PutResource(h)
  <2>1. resource'.status = "ready" => IsClean
    BY <1>1, <1>k, PutResourceEffect, MemoryFields
       DEF HandlerClean, SharedClean, UpdatedResource, ResourceRow
  <2>2. QED
    BY <1>1, <1>k, <2>1, PutResourceEffect DEF SharedClean
<1>2. CASE PublishNextJob(h)
  BY <1>2, <1>k, PublishNextEffect DEF SharedClean, HandlerClean, PastScan
<1>3. CASE UploadDerived(h)
  BY <1>3, <1>k, UploadDerivedEffect DEF SharedClean, HandlerClean, PastScan
<1>4. CASE Finish(h)
  <2>1. \A j \in JobTypes : tasks'[j].state # "none" =>
            tasks[j].state # "none" \/ j = mem[h].job
    BY <1>4, EndEffect DEF Ends, TypeOK
  <2>2. QED
    BY <1>4, <1>k, <2>1, EndEffect DEF Ends, SharedClean, HandlerClean
<1>u. UNCHANGED <<tasks, resource, edRow, derived>> => SharedClean'
  BY <1>k DEF SharedClean
<1>5. CASE Load(h) \/ MarkJobProcessing(h) \/ LoadAsset(h) \/ FindResource(h)
  <2>1. UNCHANGED <<tasks, resource, edRow, derived>>
    BY <1>5, LoadEffect, MarkEffect, LoadAssetEffect, FindResourceEffect
  <2>2. QED
    BY <1>u, <2>1
<1>6. CASE Download(h) \/ Inspect(h) \/ UpdateAsset(h) \/ ScanVirus(h)
  <2>1. UNCHANGED <<tasks, resource, edRow, derived>>
    BY <1>6, DownloadEffect, InspectEffect, UpdateAssetEffect, ScanVirusEffect
  <2>2. QED
    BY <1>u, <2>1
<1>7. CASE FindNextJob(h) \/ CreateNextJob(h) \/ MarkJobDone(h) \/ MarkJobFailed(h)
  <2>1. UNCHANGED <<tasks, resource, edRow, derived>>
    BY <1>7, FindNextEffect, CreateNextEffect, DoneEffect, FailedEffect
  <2>2. QED
    BY <1>u, <2>1
<1>8. QED
  BY <1>1, <1>2, <1>3, <1>4, <1>5, <1>6, <1>7 DEF HandlerStep

\* Only a clean original is converted or shown as ready, whatever its
\* declared checksum was.
LEMMA CleanNext == TypeOK /\ RowsInv /\ CleanInv /\ [Next]_vars => CleanInv'
<1> SUFFICES ASSUME TypeOK, RowsInv, CleanInv, [Next]_vars PROVE CleanInv'
  OBVIOUS
<1>k. /\ asset'.key = asset.key /\ (IsClean' <=> IsClean)
      /\ SharedClean /\ \A h \in Handlers : HandlerClean(h)
  BY AssetStays DEF CleanInv, IsClean
<1>o. ASSUME NEW h \in Handlers, Mine(h), HandlerClean(h)'
      PROVE  \A i \in Handlers : HandlerClean(i)'
  BY <1>k, <1>o DEF Mine, HandlerClean
<1>1. ASSUME NEW h \in Handlers, HandlerStep(h) PROVE CleanInv'
  <2>1. Mine(h)
    BY <1>1, HandlerSorts DEF Works, Enqueues, Ends
  <2>2. QED
    BY <1>1, <1>k, <1>o, <2>1, CleanHandler, CleanShared DEF CleanInv
<1>2. ASSUME NEW h \in Handlers, Ends(h) PROVE CleanInv'
  <2>1. HandlerClean(h)'
    BY <1>2 DEF Ends, HandlerClean, NoMemory, NoRow, WithDoc, PastScan
  <2>2. \A j \in JobTypes : tasks'[j].state # "none" =>
            tasks[j].state # "none" \/ j = mem[h].job
    BY <1>2 DEF Ends, TypeOK
  <2>3. SharedClean'
    BY <1>2, <1>k, <2>2 DEF Ends, SharedClean, HandlerClean, rows, bucket, editor
  <2>4. QED
    BY <1>2, <1>o, <2>1, <2>3 DEF Ends, CleanInv
<1>3. ASSUME NEW h \in Handlers, NEW j \in JobTypes, Delivers(h, j) PROVE CleanInv'
  <2>1. /\ mem'[h].job = j /\ mem'[h].doc = mem[h].doc /\ mem'[h].goal = mem[h].goal
        /\ mem'[h].row = mem[h].row /\ pc'[h] = "load"
    BY <1>3, MemoryFields DEF Delivers, Memory
  <2>2. j # "scan" => IsClean
    BY <1>3, <1>k DEF Delivers, SharedClean
  <2>3. HandlerClean(h)'
    BY <1>k, <2>1, <2>2 DEF HandlerClean, WithDoc, PastScan
  <2>4. \A i \in JobTypes : tasks'[i].state # "none" => tasks[i].state # "none"
    BY <1>3 DEF Delivers, TypeOK
  <2>5. SharedClean'
    BY <1>3, <1>k, <2>4 DEF Delivers, SharedClean, rows, bucket, editor
  <2>6. QED
    BY <1>3, <1>o, <2>3, <2>5 DEF Delivers, CleanInv
<1>4. CASE Aside
  <2>1. /\ \A h \in Handlers : HandlerClean(h)'
        /\ derived' = derived
    BY <1>4, <1>k DEF Aside, HandlerClean, bucket
  <2>2. \A j \in JobTypes : j # "scan" /\ tasks'[j].state # "none" => IsClean
    BY <1>4, <1>k DEF Aside, SharedClean, HandlerClean, TypeOK
  <2>3. resource'.status = "ready" \/ edRow'.status = "ready" => IsClean
    BY <1>4, <1>k DEF Aside, SharedClean
  <2>4. QED
    BY <1>k, <2>1, <2>2, <2>3 DEF CleanInv, SharedClean
<1>5. QED
  BY <1>1, <1>2, <1>3, <1>4, StepSorts

-----------------------------------------------------------------------------
(* The row of a job follows its life cycle *)

\* No goroutine goes on after asynq gave its task away.
NoOutliving == Limit["timeout"] = 0 /\ Limit["requeue"] = 0

\* One delivery at a time runs a job.
RunInv ==
    /\ \A h \in Handlers : pc[h] # "idle" =>
           /\ owned[h] /\ tasks[mem[h].job].state = "active"
           /\ \A i \in Handlers \ {h} : pc[i] # "idle" => mem[i].job # mem[h].job
    /\ \A j \in JobTypes \ {"scan"} : published[j] = 0 => tasks[j].state = "none"

\* Steps of a handler whose attempt is counted and not closed yet.
AtWork(h) ==
    \/ pc[h] \in {"asset", "download", "inspect", "sumRow", "clam", "findNext",
                  "createNext", "publish", "playlist", "segments", "pdf",
                  "hlsRow", "closing", "failing"}
    \/ pc[h] \in {"getRes", "putRes"} /\ mem[h].goal # "failed"

\* The attempts in memory are those of the row, but for a rejected original.
CountInv(h) ==
    /\ pc[h] = "mark" => /\ jobs[mem[h].job].status \in {"pending", "processing"}
                         /\ jobs[mem[h].job].attempts = mem[h].attempts
    /\ AtWork(h) => /\ jobs[mem[h].job].status = "processing"
                    /\ \/ jobs[mem[h].job].attempts = mem[h].attempts
                       \/ pc[h] = "failing" /\ mem[h].attempts = MaxAttempts

LifeInv == RunInv /\ \A h \in Handlers : CountInv(h)

\* While a handler runs a job, it alone writes the row.
LEMMA RunNext ==
    ASSUME NoOutliving, TypeOK, RowsInv, PublishInv, RunInv, [Next]_vars
    PROVE  RunInv'
<1>1. ASSUME NEW h \in Handlers, Works(h) PROVE RunInv'
  <2>1. /\ \A i \in Handlers : /\ pc'[i] # "idle" => pc[i] # "idle"
                               /\ mem'[i].job = mem[i].job /\ owned'[i] = owned[i]
        /\ tasks' = tasks /\ published' = published
    BY <1>1 DEF Works, Mine, queue
  <2>2. QED
    BY <2>1 DEF RunInv
<1>2. ASSUME NEW h \in Handlers, Enqueues(h) PROVE RunInv'
  <2> DEFINE n == Next_Of(h)
  <2>1. n \in JobTypes \ {"scan"} /\ published[n] = 0
    BY <1>2, MemoryFields DEF Enqueues, PublishInv, Enqueuing
  <2>2. tasks[n].state = "none"
    BY <2>1 DEF RunInv
  <2>3. /\ \A i \in Handlers : /\ pc'[i] # "idle" => pc[i] # "idle"
                               /\ mem'[i].job = mem[i].job /\ owned'[i] = owned[i]
        /\ \A j \in JobTypes \ {n} : tasks'[j] = tasks[j] /\ published'[j] = published[j]
        /\ published'[n] = 1
    BY <1>2, <2>1 DEF Enqueues, Mine, TypeOK
  <2> HIDE DEF n
  <2>4. \A i \in Handlers : pc[i] # "idle" => mem[i].job # n /\ mem[i].job \in JobTypes
    BY <2>2, MemoryFields DEF RunInv
  <2>5. QED
    BY <2>1, <2>3, <2>4 DEF RunInv
<1>3. ASSUME NEW h \in Handlers, Ends(h) PROVE RunInv'
  <2>1. /\ \A i \in Handlers \ {h} : pc'[i] = pc[i] /\ mem'[i] = mem[i] /\ owned'[i] = owned[i]
        /\ pc'[h] = "idle" /\ published' = published
        /\ tasks' = tasks \/ /\ pc[h] # "idle"
                             /\ \A j \in JobTypes \ {mem[h].job} : tasks'[j] = tasks[j]
    BY <1>3 DEF Ends, Mine, RowsInv, TypeOK
  <2>2. QED
    BY <2>1, MemoryFields DEF RunInv
<1>4. ASSUME NEW h \in Handlers, NEW k \in JobTypes, Delivers(h, k) PROVE RunInv'
  <2>1. /\ \A i \in Handlers \ {h} : pc'[i] = pc[i] /\ mem'[i] = mem[i] /\ owned'[i] = owned[i]
        /\ mem'[h].job = k /\ owned'[h] /\ published' = published
        /\ \A j \in JobTypes \ {k} : tasks'[j] = tasks[j]
        /\ tasks[k].state = "queued" /\ tasks'[k].state = "active"
    BY <1>4, MemoryFields DEF Delivers, Mine, TypeOK, Memory
  <2>2. \A i \in Handlers : pc[i] # "idle" => mem[i].job # k
    BY <2>1 DEF RunInv
  <2>3. QED
    BY <2>1, <2>2, MemoryFields DEF RunInv
<1>5. CASE Aside
  <2>1. /\ pc' = pc /\ mem' = mem /\ owned' = owned /\ published' = published
    BY <1>5 DEF Aside, NoOutliving
  <2>2. \A j \in JobTypes : tasks'[j] = tasks[j] \/ tasks[j].state = "lost"
    BY <1>5, <2>1 DEF Aside, TypeOK
  <2>3. QED
    BY <2>1, <2>2, MemoryFields DEF RunInv
<1>6. QED
  BY <1>1, <1>2, <1>3, <1>4, <1>5, StepSorts, HandlerSorts

\* What one step may do to the row of a job, as JobLifecycle says it.
Moves(h) ==
    \/ jobs' = jobs
    \/ \E j \in JobTypes : jobs[j] = NoJob /\ jobs' = [jobs EXCEPT ![j] = CreatedJob]
    \/ /\ \E status \in JobStatus, n \in Nat :
              jobs' = [jobs EXCEPT ![mem[h].job] = [status |-> status, attempts |-> n]]
       /\ \/ Lifecycle!Start(mem[h].job) \/ Lifecycle!Succeed(mem[h].job)
          \/ Lifecycle!Retry(mem[h].job) \/ Lifecycle!GiveUp(mem[h].job)

\* A step of a handler keeps the count, and moves the row as the life cycle
\* allows.
LEMMA CountHandler ==
    ASSUME TypeOK, RowsInv, NEW h \in Handlers, CountInv(h), HandlerStep(h)
    PROVE  CountInv(h)' /\ Moves(h)
<1> USE DEF rows, queue, bucket, editor
<1>m. /\ mem[h].job \in JobTypes /\ mem[h].attempts \in Nat
      /\ jobs[mem[h].job] \in JobRow /\ jobs \in [JobTypes -> JobRow]
      /\ MaxAttempts \in Nat
  BY MemoryFields, StoreAssumption DEF TypeOK
<1>k. ASSUME jobs' = jobs, mem'[h].job = mem[h].job, mem'[h].attempts = mem[h].attempts,
             AtWork(h), pc[h] # "failing", pc'[h] # "mark"
      PROVE  CountInv(h)' /\ Moves(h)
  BY <1>k DEF CountInv, Moves
<1>z. ASSUME ~AtWork(h)', pc'[h] # "mark" PROVE CountInv(h)'
  BY <1>z DEF CountInv
<1>1. CASE Load(h)
  <2>1. /\ ~AtWork(h)' /\ jobs' = jobs /\ mem'[h].job = mem[h].job
        /\ mem'[h].attempts = jobs[mem[h].job].attempts
        /\ pc'[h] = "mark" => jobs[mem[h].job].status \in {"pending", "processing"}
    BY <1>1, LoadEffect DEF AtWork, SameWork
  <2>2. QED
    BY <2>1 DEF CountInv, Moves
<1>2. CASE MarkJobProcessing(h)
  <2>1. /\ mem'[h].job = mem[h].job /\ mem'[h].attempts = mem[h].attempts + 1
        /\ pc'[h] \in {"asset", "errored"} /\ pc[h] = "mark"
        /\ \/ jobs' = jobs /\ pc'[h] = "errored"
           \/ jobs' = [jobs EXCEPT ![mem[h].job] =
                          [status |-> "processing", attempts |-> mem[h].attempts + 1]]
    BY <1>2, MarkEffect, Stands DEF SameWork
  <2>2. CASE jobs' = jobs /\ pc'[h] = "errored"
    BY <2>1, <2>2, <1>z DEF Moves, AtWork
  <2>3. CASE jobs' = [jobs EXCEPT ![mem[h].job] =
                          [status |-> "processing", attempts |-> mem[h].attempts + 1]]
    <3>1. CountInv(h)'
      BY <1>m, <2>1, <2>3 DEF CountInv
    <3>2. Lifecycle!Start(mem[h].job)
      BY <1>m, <2>1, <2>3 DEF CountInv, Lifecycle!Start, Lifecycle!Set
    <3>3. "processing" \in JobStatus /\ mem[h].attempts + 1 \in Nat
      BY <1>m DEF JobStatus
    <3>4. QED
      BY <2>3, <3>1, <3>2, <3>3 DEF Moves
  <2>4. QED
    BY <2>1, <2>2, <2>3
<1>3. CASE LoadAsset(h)
  BY <1>3, <1>k, LoadAssetEffect DEF AtWork
<1>4. CASE FindResource(h)
  <2>1. /\ pc[h] = "getRes" /\ pc'[h] \in {"putRes", "errored", "failing"}
        /\ pc'[h] = "failing" => mem[h].goal # "failed"
        /\ jobs' = jobs /\ mem'[h].job = mem[h].job
        /\ mem'[h].attempts = mem[h].attempts /\ mem'[h].goal = mem[h].goal
    BY <1>4, FindResourceEffect DEF SameWork
  <2>2. CASE mem[h].goal # "failed"
    BY <2>1, <2>2, <1>k DEF AtWork
  <2>3. CASE mem[h].goal = "failed"
    BY <2>1, <2>3, <1>z DEF AtWork, Moves
  <2>4. QED
    BY <2>2, <2>3
<1>5. CASE PutResource(h)
  <2>1. /\ pc[h] = "putRes" /\ pc'[h] \in {"errored", "failing", "closing", "download"}
        /\ pc'[h] = "errored" <=> mem[h].goal = "failed"
        /\ jobs' = jobs /\ mem'[h].job = mem[h].job
        /\ mem'[h].attempts = mem[h].attempts
    BY <1>5, PutResourceEffect DEF SameWork
  <2>2. CASE mem[h].goal # "failed"
    BY <2>1, <2>2, <1>k DEF AtWork
  <2>3. CASE mem[h].goal = "failed"
    BY <2>1, <2>3, <1>z DEF AtWork, Moves
  <2>4. QED
    BY <2>2, <2>3
<1>6. CASE Download(h)
  BY <1>6, <1>k, DownloadEffect DEF AtWork
<1>7. CASE Inspect(h) \/ ScanVirus(h)
  <2>1. /\ pc[h] \in {"inspect", "clam"} /\ jobs' = jobs /\ mem'[h].job = mem[h].job
        /\ pc'[h] \in {"failing", "sumRow", "findNext", "getRes"}
        /\ \/ mem'[h].attempts = mem[h].attempts
           \/ pc'[h] = "failing" /\ mem'[h].attempts = MaxAttempts
    BY <1>7, InspectEffect, ScanVirusEffect DEF SameWork, AfterClean
  <2>2. QED
    BY <2>1 DEF CountInv, AtWork, Moves
<1>8. CASE UpdateAsset(h)
  BY <1>8, <1>k, UpdateAssetEffect DEF AtWork, SameWork
<1>9. CASE FindNextJob(h)
  BY <1>9, <1>k, FindNextEffect DEF AtWork
<1>10. CASE PublishNextJob(h)
  BY <1>10, <1>k, PublishNextEffect DEF AtWork
<1>11. CASE CreateNextJob(h)
  <2>1. /\ mem' = mem /\ pc[h] = "createNext" /\ pc'[h] \in {"publish", "failing"}
        /\ \/ jobs' = jobs
           \/ /\ jobs[Next_Of(h)] = NoJob
              /\ jobs' = [jobs EXCEPT ![Next_Of(h)] = CreatedJob]
    BY <1>11, CreateNextEffect
  <2>2. Next_Of(h) \in JobTypes /\ jobs[mem[h].job] # NoJob
    BY <2>1, MemoryFields DEF RowsInv
  <2>3. jobs'[mem[h].job] = jobs[mem[h].job]
    BY <2>1, <2>2, <1>m
  <2>4. QED
    BY <2>1, <2>2, <2>3 DEF CountInv, AtWork, Moves
<1>12. CASE UploadDerived(h)
  BY <1>12, <1>k, UploadDerivedEffect DEF AtWork, AfterUpload
<1>13. CASE MarkJobDone(h)
  <2>1. /\ ~AtWork(h)' /\ pc'[h] # "mark" /\ pc[h] = "closing"
        /\ \/ jobs' = jobs
           \/ jobs' = [jobs EXCEPT ![mem[h].job] =
                          [status |-> "done", attempts |-> mem[h].attempts]]
    BY <1>13, DoneEffect DEF AtWork
  <2>2. /\ jobs[mem[h].job].status = "processing"
        /\ jobs[mem[h].job].attempts = mem[h].attempts
    BY <2>1 DEF CountInv, AtWork
  <2>3. "done" \in JobStatus
    BY DEF JobStatus
  <2>4. QED
    BY <2>1, <2>2, <2>3, <1>m, <1>z DEF Moves, Lifecycle!Succeed, Lifecycle!Set
<1>14. CASE MarkJobFailed(h)
  <2>1. /\ ~AtWork(h)' /\ pc'[h] # "mark" /\ pc[h] = "failing"
        /\ \/ jobs' = jobs
           \/ jobs' = [jobs EXCEPT ![mem[h].job] =
                          [status |-> FailedStatus(mem[h].attempts),
                           attempts |-> mem[h].attempts]]
    BY <1>14, FailedEffect DEF AtWork
  <2>2. /\ jobs[mem[h].job].status = "processing"
        /\ mem[h].attempts \in {jobs[mem[h].job].attempts, MaxAttempts}
    BY <2>1 DEF CountInv, AtWork
  <2>3. {"pending", "dead_letter"} \subseteq JobStatus
    BY DEF JobStatus
  <2>4. CASE jobs' = jobs
    BY <2>1, <2>4, <1>z DEF Moves
  <2>5. CASE /\ mem[h].attempts >= MaxAttempts
             /\ jobs' = [jobs EXCEPT ![mem[h].job] =
                            [status |-> "dead_letter", attempts |-> mem[h].attempts]]
    BY <2>1, <2>2, <2>3, <2>5, <1>m, <1>z DEF Moves, Lifecycle!GiveUp, Lifecycle!Set
  <2>6. CASE /\ mem[h].attempts < MaxAttempts
             /\ jobs' = [jobs EXCEPT ![mem[h].job] =
                            [status |-> "pending", attempts |-> mem[h].attempts]]
    <3>1. mem[h].attempts = jobs[mem[h].job].attempts
      BY <2>2, <2>6, <1>m
    <3>2. Lifecycle!Retry(mem[h].job)
      BY <2>2, <2>6, <3>1 DEF Lifecycle!Retry, Lifecycle!Set
    <3>3. QED
      BY <2>1, <2>3, <2>6, <3>2, <1>m, <1>z DEF Moves
  <2>7. QED
    BY <2>1, <2>4, <2>5, <2>6, <1>m DEF FailedStatus
<1>15. CASE Finish(h)
  <2>1. pc'[h] = "idle" /\ jobs' = jobs
    BY <1>15, EndEffect DEF Ends
  <2>2. QED
    BY <2>1, <1>z DEF AtWork, Moves
<1>16. QED
  BY <1>1, <1>2, <1>3, <1>4, <1>5, <1>6, <1>7, <1>8, <1>9, <1>10, <1>11, <1>12,
     <1>13, <1>14, <1>15 DEF HandlerStep

\* A step of a handler moves no row that another handler runs.
LEMMA OthersKept ==
    ASSUME TypeOK, RowsInv, RunInv, NEW h \in Handlers, Moves(h), pc[h] # "idle",
           NEW i \in Handlers \ {h}, pc[i] # "idle"
    PROVE  jobs'[mem[i].job] = jobs[mem[i].job]
<1>1. /\ mem[i].job \in JobTypes /\ jobs[mem[i].job] # NoJob
      /\ mem[i].job # mem[h].job /\ jobs \in [JobTypes -> JobRow]
  BY MemoryFields DEF RowsInv, RunInv, TypeOK
<1>2. CASE \E status \in JobStatus, n \in Nat :
              jobs' = [jobs EXCEPT ![mem[h].job] = [status |-> status, attempts |-> n]]
  BY <1>1, <1>2
<1>3. QED
  BY <1>1, <1>2 DEF Moves

\* The count is right while one delivery at a time runs each job.
LEMMA LifeNext ==
    ASSUME NoOutliving, TypeOK, RowsInv, PublishInv, LifeInv, [Next]_vars
    PROVE  LifeInv' /\ [Lifecycle!Next]_jobs
<1>r. RunInv' /\ RunInv
  BY RunNext DEF LifeInv
<1>1. ASSUME NEW h \in Handlers, HandlerStep(h)
      PROVE  (\A i \in Handlers : CountInv(i)') /\ [Lifecycle!Next]_jobs
  <2>1. CountInv(h)' /\ Moves(h)
    BY <1>1, CountHandler DEF LifeInv
  <2>2. Mine(h) /\ (pc[h] # "idle" \/ jobs' = jobs)
    BY <1>1, HandlerSorts DEF Works, Enqueues, Ends, rows
  <2>3. ASSUME NEW i \in Handlers \ {h} PROVE CountInv(i)'
    <3>1. pc'[i] = pc[i] /\ mem'[i] = mem[i]
      BY <2>2 DEF Mine
    <3>2. pc[i] # "idle" => jobs'[mem[i].job] = jobs[mem[i].job]
      BY <1>r, <2>1, <2>2, OthersKept
    <3>3. QED
      BY <3>1, <3>2 DEF CountInv, AtWork, LifeInv
  <2>4. [Lifecycle!Next]_jobs
    <3>1. ASSUME NEW j \in JobTypes, jobs[j] = NoJob, jobs' = [jobs EXCEPT ![j] = CreatedJob]
          PROVE  Lifecycle!Create(j)
      BY <3>1 DEF Lifecycle!Create, Lifecycle!Set, NoJob, CreatedJob
    <3>2. QED
      BY <2>1, <3>1, MemoryFields DEF Moves, Lifecycle!Next
  <2>5. QED
    BY <2>1, <2>3, <2>4
<1>2. ASSUME NEW h \in Handlers, Ends(h) \/ \E j \in JobTypes : Delivers(h, j)
      PROVE  (\A i \in Handlers : CountInv(i)') /\ jobs' = jobs
  <2>1. Mine(h) /\ pc'[h] \in {"idle", "load"} /\ jobs' = jobs
    BY <1>2 DEF Ends, Delivers, rows
  <2>2. QED
    BY <2>1 DEF LifeInv, CountInv, AtWork, Mine
<1>3. ASSUME Aside
      PROVE  (\A i \in Handlers : CountInv(i)') /\ jobs' = jobs
  BY <1>3 DEF Aside, LifeInv, CountInv, AtWork
<1>4. QED
  BY <1>r, <1>1, <1>2, <1>3, StepSorts DEF LifeInv

\* The rows, the tasks and the handlers at the start.
LEMMA JobsInit == Init => RowsInv /\ PublishInv /\ LifeInv
<1>1. Init => LifeInv
  BY DEF Init, LifeInv, RunInv, CountInv, AtWork, JobTypes, NoTask
<1>2. QED
  BY <1>1, RowsInit

\* While no goroutine outlives its delivery, crashes, failed statements and
\* redeliveries move the row of a job only along JobLifecycle: an attempt is
\* counted once per start, a closed job stays closed.
THEOREM LifecycleFollowed ==
    ASSUME Limit["timeout"] = 0, Limit["requeue"] = 0
    PROVE  Spec => FollowsLifecycle
<1> DEFINE Inv == TypeOK /\ RowsInv /\ PublishInv /\ LifeInv
<1>n. NoOutliving
  BY DEF NoOutliving
<1>1. Init => Inv /\ Lifecycle!Init
  <2>1. Init => Lifecycle!Init
    BY DEF Init, Lifecycle!Init, JobTypes, NoJob, CreatedJob
  <2>2. QED
    BY <2>1, TypeInit, JobsInit
<1>2. Inv /\ [Next]_vars => Inv' /\ [Lifecycle!Next]_jobs
  BY <1>n, TypeNext, RowsNext, PublishNext, LifeNext DEF RowsInv
<1>3. QED
  BY <1>1, <1>2, PTL DEF Spec, FollowsLifecycle, Lifecycle!Spec

-----------------------------------------------------------------------------
(* The two counters of attempts agree *)

\* Processes live and Postgres answers; the tools, the bucket and Redis may fail.
OnlyTools == NoOutliving /\ Limit["crash"] = 0 /\ Limit["db"] = 0

\* A job that asynq may deliver: dead, or started as often as it was retried.
Waits(row, tk) ==
    \/ row.status = "dead_letter"
    \/ row.status = "pending" /\ row.attempts = tk.retried

TaskInv(j) ==
    /\ tasks[j].state # "lost"
    /\ tasks[j].state = "none" => jobs[j] \in {NoJob, CreatedJob}
    /\ tasks[j].state = "queued" => Waits(jobs[j], tasks[j])
    /\ tasks[j].state = "archived" => jobs[j].status = "dead_letter"

\* Between the two counts the row is one attempt ahead of the task.
RetryInv(h) ==
    LET row == jobs[mem[h].job]
        tk  == tasks[mem[h].job]
    IN  /\ pc[h] = "load" => Waits(row, tk)
        /\ pc[h] = "mark" => row.status = "pending" /\ row.attempts = tk.retried
        /\ AtWork(h) => row.attempts = tk.retried + 1
        /\ pc[h] \in {"getRes", "putRes"} /\ mem[h].goal = "failed" =>
               row.status = "dead_letter"
        /\ pc[h] = "errored" =>
               \/ row.status = "dead_letter"
               \/ /\ row.status = "pending" /\ row.attempts = tk.retried + 1
                  /\ row.attempts < MaxAttempts

AgreeInv == /\ \A j \in JobTypes : TaskInv(j)
            /\ \A h \in Handlers : RetryInv(h)

\* A statement of Postgres cannot fail.
LEMMA Answered ==
    ASSUME OnlyTools, TypeOK, NEW ok \in BOOLEAN, Outcome("db", ok)
    PROVE  ok
  BY WorkerAssumption DEF OnlyTools, Outcome, Spend, TypeOK, Faults

\* A handler that goes on keeps its job and its task in step.
LEMMA RetryHandler ==
    ASSUME OnlyTools, TypeOK, RowsInv, NEW h \in Handlers, CountInv(h), RetryInv(h),
           HandlerStep(h), Works(h)
    PROVE  RetryInv(h)'
<1> USE DEF rows, queue, bucket, editor
<1>m. /\ mem[h].job \in JobTypes /\ mem[h].attempts \in Nat
      /\ jobs[mem[h].job] \in JobRow /\ jobs \in [JobTypes -> JobRow]
      /\ jobs[mem[h].job] # NoJob
      /\ mem'[h].job = mem[h].job /\ tasks' = tasks
      /\ tasks[mem[h].job].retried \in Nat /\ MaxAttempts \in Nat
  BY MemoryFields, StoreAssumption DEF TypeOK, Works, Task, RowsInv
<1>k. ASSUME jobs' = jobs, AtWork(h), AtWork(h)'
      PROVE  RetryInv(h)'
  BY <1>m, <1>k DEF RetryInv, AtWork
<1>1. CASE Load(h)
  <2>1. /\ jobs' = jobs /\ pc[h] = "load"
        /\ pc'[h] = AfterLoad(jobs[mem[h].job])
    BY <1>1, Answered DEF Load, Go, TypeOK
  <2>2. jobs[mem[h].job].status \in {"dead_letter", "pending"}
    BY <2>1 DEF RetryInv, Waits
  <2>3. /\ pc'[h] = IF jobs[mem[h].job].status = "dead_letter" THEN "succeeded" ELSE "mark"
        /\ ~AtWork(h)'
    BY <2>1, <2>2 DEF AfterLoad, Terminal, AtWork
  <2>4. QED
    BY <1>m, <2>1, <2>3 DEF RetryInv, Waits
<1>2. CASE MarkJobProcessing(h)
  <2>1. /\ pc[h] = "mark" /\ pc'[h] = "asset"
        /\ jobs' = [jobs EXCEPT ![mem[h].job] =
                       [status |-> "processing", attempts |-> mem[h].attempts + 1]]
    BY <1>2, <1>m, Answered
       DEF MarkJobProcessing, UpdateJob, Updated, Written, Go, TypeOK
  <2>2. mem[h].attempts = tasks[mem[h].job].retried
    BY <2>1 DEF CountInv, RetryInv
  <2>3. QED
    BY <1>m, <2>1, <2>2 DEF RetryInv
<1>3. CASE LoadAsset(h) \/ Download(h) \/ Inspect(h)
  <2>1. jobs' = jobs /\ AtWork(h) /\ AtWork(h)'
    BY <1>3, LoadAssetEffect, DownloadEffect, InspectEffect DEF AtWork
  <2>2. QED
    BY <1>k, <2>1
<1>4. CASE FindResource(h)
  <2>1. /\ pc[h] = "getRes" /\ pc'[h] \in {"putRes", "errored", "failing"}
        /\ pc'[h] = "failing" => mem[h].goal # "failed"
        /\ pc'[h] = "errored" => mem[h].goal = "failed"
        /\ jobs' = jobs /\ mem'[h].goal = mem[h].goal
    BY <1>4, FindResourceEffect, Answered DEF FindResource, Go, TypeOK, RowsInv
  <2>2. CASE mem[h].goal # "failed"
    BY <2>1, <2>2, <1>k DEF AtWork
  <2>3. CASE mem[h].goal = "failed"
    BY <2>1, <2>3, <1>m DEF AtWork, RetryInv
  <2>4. QED
    BY <2>2, <2>3
<1>5. CASE PutResource(h)
  <2>1. /\ pc[h] = "putRes" /\ pc'[h] \in {"errored", "failing", "closing", "download"}
        /\ pc'[h] = "errored" <=> mem[h].goal = "failed"
        /\ jobs' = jobs
    BY <1>5, PutResourceEffect
  <2>2. CASE mem[h].goal # "failed"
    BY <2>1, <2>2, <1>k DEF AtWork
  <2>3. CASE mem[h].goal = "failed"
    BY <2>1, <2>3, <1>m DEF AtWork, RetryInv
  <2>4. QED
    BY <2>2, <2>3
<1>6. CASE UpdateAsset(h)
  <2>1. /\ jobs' = jobs /\ pc[h] \in {"sumRow", "hlsRow"}
        /\ pc'[h] \in {"failing", "clam"} \/ (pc'[h] = "getRes" /\ mem'[h].goal = "ready")
    <3>1. CASE pc[h] = "hlsRow"
      BY <1>6, <3>1, UpdateAssetEffect, MemoryFields DEF UpdateAsset, TypeOK, Memory
    <3>2. CASE pc[h] = "sumRow"
      BY <1>6, <3>2, UpdateAssetEffect
    <3>3. QED
      BY <1>6, <3>1, <3>2, UpdateAssetEffect
  <2>2. QED
    BY <1>k, <2>1 DEF AtWork
<1>7. CASE ScanVirus(h)
  <2>1. /\ jobs' = jobs /\ pc[h] = "clam"
        /\ pc'[h] = "failing" \/ (pc'[h] \in {"findNext", "getRes"} /\ mem'[h].goal = "ready")
    BY <1>7, ScanVirusEffect DEF AfterClean
  <2>2. QED
    BY <1>k, <2>1 DEF AtWork
<1>8. CASE FindNextJob(h) \/ PublishNextJob(h)
  <2>1. jobs' = jobs /\ AtWork(h) /\ AtWork(h)'
    BY <1>8, FindNextEffect, PublishNextEffect DEF AtWork
  <2>2. QED
    BY <1>k, <2>1
<1>9. CASE CreateNextJob(h)
  <2>1. /\ pc[h] = "createNext" /\ pc'[h] \in {"publish", "failing"}
        /\ \/ jobs' = jobs
           \/ /\ jobs[Next_Of(h)] = NoJob
              /\ jobs' = [jobs EXCEPT ![Next_Of(h)] = CreatedJob]
    BY <1>9, CreateNextEffect
  <2>2. jobs'[mem[h].job] = jobs[mem[h].job]
    BY <2>1, <1>m, MemoryFields
  <2>3. QED
    BY <1>m, <2>1, <2>2 DEF RetryInv, AtWork
<1>10. CASE UploadDerived(h)
  <2>1. /\ jobs' = jobs /\ pc[h] \in {"playlist", "segments", "pdf"}
        /\ pc'[h] \in {"failing", "segments", "hlsRow"}
              \/ (pc'[h] = "getRes" /\ mem'[h].goal = "ready")
    BY <1>10, UploadDerivedEffect DEF AfterUpload
  <2>2. QED
    BY <1>k, <2>1 DEF AtWork
<1>11. CASE MarkJobDone(h)
  <2>1. pc'[h] = "succeeded"
    BY <1>11, Answered DEF MarkJobDone, Go, TypeOK
  <2>2. QED
    BY <2>1 DEF RetryInv, AtWork
<1>12. CASE MarkJobFailed(h)
  <2>1. /\ pc[h] = "failing" /\ mem'[h].goal = "failed"
        /\ pc'[h] \in {"getRes", "errored"}
        /\ pc'[h] = "getRes" => FailedStatus(mem[h].attempts) = "dead_letter"
        /\ jobs' = [jobs EXCEPT ![mem[h].job] =
                       [status |-> FailedStatus(mem[h].attempts),
                        attempts |-> mem[h].attempts]]
    BY <1>12, <1>m, Answered, FailedEffect
       DEF MarkJobFailed, UpdateJob, Updated, Written, Go, TypeOK
  <2>2. /\ jobs[mem[h].job].attempts = tasks[mem[h].job].retried + 1
        /\ mem[h].attempts \in {jobs[mem[h].job].attempts, MaxAttempts}
    BY <2>1 DEF RetryInv, CountInv, AtWork
  <2>3. CASE mem[h].attempts >= MaxAttempts
    <3>1. jobs'[mem[h].job].status = "dead_letter"
      BY <1>m, <2>1, <2>3 DEF FailedStatus
    <3>2. QED
      BY <1>m, <2>1, <3>1 DEF RetryInv, AtWork
  <2>4. CASE mem[h].attempts < MaxAttempts
    <3>1. /\ jobs'[mem[h].job] = [status |-> "pending", attempts |-> mem[h].attempts]
          /\ pc'[h] = "errored"
      BY <1>m, <2>1, <2>4 DEF FailedStatus
    <3>2. mem[h].attempts = tasks[mem[h].job].retried + 1
      BY <1>m, <2>2, <2>4
    <3>3. QED
      BY <1>m, <2>4, <3>1, <3>2 DEF RetryInv, AtWork
  <2>5. QED
    BY <1>m, <2>3, <2>4
<1>13. CASE Finish(h)
  BY <1>13, EndEffect DEF Ends, Works
<1>14. QED
  BY <1>1, <1>2, <1>3, <1>4, <1>5, <1>6, <1>7, <1>8, <1>9, <1>10, <1>11, <1>12,
     <1>13 DEF HandlerStep

\* What a step does to one job leaves the other handlers and tasks in step.
LEMMA RetryKept ==
    ASSUME NEW i \in Handlers, RetryInv(i), pc'[i] = pc[i], mem'[i] = mem[i],
           pc[i] # "idle" => /\ jobs'[mem[i].job] = jobs[mem[i].job]
                             /\ tasks'[mem[i].job] = tasks[mem[i].job]
    PROVE  RetryInv(i)'
  BY DEF RetryInv, AtWork

\* asynq retries a job as often as Postgres counts attempts.
LEMMA AgreeNext ==
    ASSUME OnlyTools, TypeOK, RowsInv, PublishInv, LifeInv, AgreeInv, [Next]_vars
    PROVE  AgreeInv'
<1>a. /\ RunInv /\ \A h \in Handlers : CountInv(h) /\ RetryInv(h)
      /\ \A j \in JobTypes : TaskInv(j)
      /\ jobs \in [JobTypes -> JobRow] /\ tasks \in [JobTypes -> Task]
      /\ \A h \in Handlers : mem[h].job \in JobTypes
  BY MemoryFields DEF LifeInv, AgreeInv, TypeOK
<1>1. ASSUME NEW h \in Handlers, HandlerStep(h), Works(h) PROVE AgreeInv'
  <2>1. Moves(h) /\ RetryInv(h)' /\ pc[h] # "idle" /\ tasks' = tasks
    BY <1>1, <1>a, CountHandler, RetryHandler DEF Works, queue
  <2>2. ASSUME NEW i \in Handlers \ {h} PROVE RetryInv(i)'
    <3>1. pc'[i] = pc[i] /\ mem'[i] = mem[i]
      BY <1>1 DEF Works, Mine
    <3>2. QED
      BY <1>a, <2>1, <3>1, OthersKept, RetryKept
  <2>3. ASSUME NEW j \in JobTypes PROVE TaskInv(j)'
    <3>1. CASE jobs'[j] = jobs[j]
      BY <1>a, <2>1, <3>1 DEF TaskInv
    <3>2. CASE jobs[j] = NoJob /\ jobs'[j] = CreatedJob
      BY <1>a, <2>1, <3>2 DEF TaskInv, RowsInv
    <3>3. CASE j = mem[h].job
      BY <1>a, <2>1, <3>3 DEF TaskInv, RunInv
    <3>4. QED
      BY <1>a, <2>1, <3>1, <3>2, <3>3 DEF Moves
  <2>4. QED
    BY <2>1, <2>2, <2>3 DEF AgreeInv
<1>2. ASSUME NEW h \in Handlers, Enqueues(h) PROVE AgreeInv'
  <2> DEFINE n == Next_Of(h)
  <2>r. resource # NoResource
    BY DEF RowsInv
  <2>1. n \in JobTypes \ {"scan"} /\ published[n] = 0 /\ jobs[n] # NoJob
    BY <1>2, <2>r, MemoryFields DEF Enqueues, PublishInv, Enqueuing
  <2>2. tasks[n].state = "none"
    BY <1>a, <2>1 DEF RunInv
  <2>3. jobs[n] = CreatedJob
    BY <1>a, <2>1, <2>2 DEF TaskInv
  <2>4. /\ mem' = mem /\ jobs' = jobs /\ pc[h] = "publish"
        /\ pc'[h] \in {"closing", "failing"}
        /\ \A i \in Handlers \ {h} : pc'[i] = pc[i]
        /\ \A j \in JobTypes : tasks'[j] = IF j = n THEN NewTask ELSE tasks[j]
    BY <1>2, <1>a DEF Enqueues, Mine, rows
  <2> HIDE DEF n
  <2>5. \A i \in Handlers : pc[i] # "idle" => tasks'[mem[i].job] = tasks[mem[i].job]
    BY <1>a, <2>2, <2>4 DEF RunInv
  <2>6. \A i \in Handlers \ {h} : RetryInv(i)'
    BY <1>a, <2>4, <2>5, RetryKept
  <2>7. RetryInv(h)'
    BY <1>a, <2>4, <2>5 DEF RetryInv, AtWork
  <2>8. ASSUME NEW j \in JobTypes PROVE TaskInv(j)'
    BY <1>a, <2>3, <2>4 DEF TaskInv, Waits, NewTask, CreatedJob
  <2>9. QED
    BY <2>6, <2>7, <2>8 DEF AgreeInv
<1>3. ASSUME NEW h \in Handlers, Finish(h) PROVE AgreeInv'
  <2>j. PICK j \in JobTypes : j = mem[h].job
    BY <1>a
  <2>1. Ends(h) /\ pc[h] \in {"succeeded", "errored"}
    BY <1>3, EndEffect DEF Finish
  <2>2. /\ owned[h] /\ j \in JobTypes /\ tasks[j].retried \in Nat
        /\ MaxAttempts \in Nat \ {0} /\ jobs[j] \in JobRow
    BY <1>a, <2>j, <2>1, StoreAssumption DEF RunInv, Task
  <2>3. /\ jobs' = jobs /\ pc'[h] = "idle"
        /\ \A i \in Handlers \ {h} : pc'[i] = pc[i] /\ mem'[i] = mem[i]
        /\ \A k \in JobTypes \ {j} : tasks'[k] = tasks[k]
        /\ tasks'[j] = IF pc[h] = "succeeded" THEN [tasks[j] EXCEPT !.state = "completed"]
                       ELSE FailedTask(tasks[j])
    BY <1>3, <1>a, <2>j, <2>1, <2>2 DEF Finish, SetTask, Ends, Mine, rows
  <2>4. ASSUME NEW i \in Handlers \ {h} PROVE RetryInv(i)'
    BY <1>a, <2>j, <2>1, <2>3, RetryKept DEF RunInv
  <2>5. RetryInv(h)'
    BY <2>3 DEF RetryInv, AtWork
  <2>6. TaskInv(j)'
    <3>1. CASE pc[h] = "succeeded"
      <4>1. tasks'[j].state = "completed"
        BY <1>a, <2>2, <2>3, <3>1 DEF Task
      <4>2. QED
        BY <4>1 DEF TaskInv
    <3>2. CASE pc[h] = "errored"
      <4>1. \/ jobs[j].status = "dead_letter"
            \/ /\ jobs[j].status = "pending" /\ jobs[j].attempts = tasks[j].retried + 1
               /\ jobs[j].attempts < MaxAttempts
        BY <1>a, <2>j, <3>2 DEF RetryInv
      <4>2. tasks'[j] = FailedTask(tasks[j])
        BY <2>3, <3>2
      <4>3. CASE tasks[j].retried < MaxRetry
        <5>1. tasks'[j] = [state |-> "queued", retried |-> tasks[j].retried + 1]
          BY <4>2, <4>3 DEF FailedTask
        <5>2. QED
          BY <2>3, <4>1, <5>1 DEF TaskInv, Waits
      <4>4. CASE ~(tasks[j].retried < MaxRetry)
        <5>1. tasks'[j].state = "archived"
          BY <1>a, <2>2, <4>2, <4>4 DEF FailedTask, Task
        <5>2. jobs[j].status = "dead_letter"
          BY <2>2, <4>1, <4>4 DEF MaxRetry
        <5>3. QED
          BY <2>3, <5>1, <5>2 DEF TaskInv
      <4>5. QED
        BY <4>3, <4>4
    <3>3. QED
      BY <2>1, <3>1, <3>2
  <2>7. \A k \in JobTypes \ {j} : TaskInv(k)'
    BY <1>a, <2>3 DEF TaskInv
  <2>8. QED
    BY <2>4, <2>5, <2>6, <2>7 DEF AgreeInv
<1>4. ASSUME NEW h \in Handlers, NEW k \in JobTypes, Delivers(h, k) PROVE AgreeInv'
  <2>1. /\ \A i \in Handlers \ {h} : pc'[i] = pc[i] /\ mem'[i] = mem[i]
        /\ pc'[h] = "load" /\ mem'[h].job = k /\ jobs' = jobs
        /\ \A j \in JobTypes \ {k} : tasks'[j] = tasks[j]
        /\ tasks[k].state = "queued"
        /\ tasks'[k] = [state |-> "active", retried |-> tasks[k].retried]
    BY <1>4, <1>a, MemoryFields DEF Delivers, Mine, Memory, rows
  <2>2. \A i \in Handlers \ {h} : RetryInv(i)'
    BY <1>a, <2>1, RetryKept DEF RunInv
  <2>3. RetryInv(h)'
    BY <1>a, <2>1 DEF RetryInv, AtWork, TaskInv, Waits
  <2>4. \A j \in JobTypes : TaskInv(j)'
    BY <1>a, <2>1 DEF TaskInv
  <2>5. QED
    BY <2>2, <2>3, <2>4 DEF AgreeInv
<1>5. CASE Aside
  <2>1. /\ pc' = pc /\ mem' = mem /\ owned' = owned /\ jobs' = jobs
    BY <1>5 DEF Aside, OnlyTools, NoOutliving
  <2>2. tasks' = tasks
    BY <1>5, <1>a, <2>1 DEF Aside, TaskInv
  <2>3. QED
    BY <1>a, <2>1, <2>2 DEF AgreeInv, TaskInv, RetryInv, AtWork
<1>6. ASSUME NEW h \in Handlers PROVE ~Crash(h) /\ ~Vanish(h)
  BY <1>a, WorkerAssumption DEF Crash, Vanish, Spend, RunInv, OnlyTools, TypeOK, Faults
<1>7. ASSUME NEW h \in Handlers, HandlerStep(h) PROVE AgreeInv'
  BY <1>1, <1>2, <1>3, <1>7, HandlerSorts
<1>8. QED
  BY <1>4, <1>5, <1>6, <1>7, StepSorts

\* At the start no attempt is counted on either side.
LEMMA AgreeInit == Init => AgreeInv
  BY DEF Init, AgreeInv, TaskInv, RetryInv, AtWork, JobTypes, Waits, NewTask, NoTask,
     CreatedJob, NoJob

\* While the processes live and Postgres answers, asynq archives a job only
\* after Postgres says dead_letter: no exhausted job misses its last status.
THEOREM ArchivedIsDead ==
    ASSUME Limit["timeout"] = 0, Limit["requeue"] = 0, Limit["crash"] = 0, Limit["db"] = 0
    PROVE  Spec => []ArchivedOnlyIfDead
<1> DEFINE Inv == TypeOK /\ RowsInv /\ PublishInv /\ LifeInv /\ AgreeInv
<1>n. NoOutliving /\ OnlyTools
  BY DEF NoOutliving, OnlyTools
<1>1. Init => Inv
  BY TypeInit, JobsInit, AgreeInit
<1>2. Inv /\ [Next]_vars => Inv'
  BY <1>n, TypeNext, RowsNext, PublishNext, LifeNext, AgreeNext DEF RowsInv
<1>3. Inv => ArchivedOnlyIfDead
  BY DEF AgreeInv, TaskInv, ArchivedOnlyIfDead
<1>4. QED
  BY <1>1, <1>2, <1>3, PTL DEF Spec

-----------------------------------------------------------------------------
(* At rest the course shows what the jobs say *)

\* Redis answers too and nobody edits; the tools and the bucket may fail.
Undisturbed == OnlyTools /\ Limit["redis"] = 0 /\ Limit["edit"] = 0

\* The job whose end makes the resource ready.
Final == IF HasNextJob(asset.kind) THEN NextJob(asset.kind) ELSE "scan"

Converting == Final # "scan" /\ jobs[Final] # NoJob

\* The conversion exists from the end of the scan on, and only then.
ChainInv ==
    /\ jobs["scan"] # NoJob /\ tasks["scan"].state # "none"
    /\ \A j \in JobTypes :
           /\ jobs[j] # NoJob => j \in {"scan", Final} /\ jobs[j].status # "none"
           /\ tasks[j].state = "completed" => Terminal(jobs[j].status)
    /\ Converting => jobs["scan"].status \in {"processing", "done"}
    /\ Final # "scan" /\ jobs["scan"].status = "done" => tasks[Final].state # "none"

\* The status of the resource, when no handler is about to write it.
ShownInv ==
    /\ jobs[Final].status = "done" => resource.status = "ready"
    /\ resource.status = "ready" =>
           /\ jobs[Final].status \in {"processing", "done"}
           /\ asset.kind = "video" => asset.hls
    /\ resource.status = "failed" => \E j \in JobTypes : jobs[j].status = "dead_letter"
    /\ \A j \in JobTypes : jobs[j].status = "dead_letter" /\ tasks[j].state # "active" =>
           resource.status = "failed"

\* Which job a handler runs at each step, on which original.
PlaceInv(h) ==
    /\ AtWork(h) /\ pc[h] # "asset" =>
           mem[h].doc.kind = asset.kind /\ mem[h].doc.key = asset.key
    /\ pc[h] \in {"inspect", "sumRow", "clam", "findNext", "createNext", "publish"} =>
           mem[h].job = "scan"
    /\ pc[h] \in {"playlist", "segments", "hlsRow"} => mem[h].job = "transcode"
    /\ pc[h] = "pdf" => mem[h].job = "convert"
    /\ pc[h] = "hlsRow" => mem[h].doc.hls

\* What a handler has brought about when it comes to the end of its job.
ScanInv(h) ==
    pc[h] # "idle" /\ mem[h].job = "scan" /\ Final # "scan" =>
        /\ jobs[Final] # NoJob => pc[h] \in {"publish", "closing", "succeeded"}
        /\ pc[h] \in {"publish", "closing"} => jobs[Final] # NoJob
        /\ pc[h] = "closing" => tasks[Final].state # "none"

EndInv(h) ==
    /\ pc[h] \in {"getRes", "putRes"} /\ mem[h].goal = "ready" =>
           mem[h].job = Final /\ (asset.kind = "video" => asset.hls)
    /\ pc[h] # "idle" /\ mem[h].job = Final =>
           /\ pc[h] = "closing" => resource.status = "ready"
           /\ resource.status = "ready" => pc[h] \in {"closing", "succeeded"}
    /\ pc[h] \in {"load", "succeeded", "errored"} /\ jobs[mem[h].job].status = "dead_letter"
           => resource.status = "failed"
    /\ pc[h] = "succeeded" => Terminal(jobs[mem[h].job].status)

RestInv == /\ edPc = "idle" /\ ChainInv /\ ShownInv
           /\ \A h \in Handlers : PlaceInv(h) /\ ScanInv(h) /\ EndInv(h)

\* What the proofs above have of an undisturbed worker.
Ordered == /\ Undisturbed /\ TypeOK /\ RowsInv /\ PublishInv /\ LifeInv /\ AgreeInv
           /\ RestInv

\* The last job of each kind of upload.
LEMMA FinalJob ==
    ASSUME TypeOK
    PROVE  /\ Final \in JobTypes
           /\ Final # "scan" <=> HasNextJob(asset.kind)
           /\ Final # "scan" => Final = NextJob(asset.kind)
           /\ asset.kind = "video" <=> Final = "transcode"
  BY DEF TypeOK, AssetRow, Kinds, Final, HasNextJob, NextJob, JobTypes

\* A running handler has its job, and its job has no other.
LEMMA Running ==
    ASSUME Ordered, NEW h \in Handlers, pc[h] # "idle"
    PROVE  /\ mem[h].job \in {"scan", Final} /\ mem[h].job \in JobTypes
           /\ jobs[mem[h].job] # NoJob
           /\ tasks[mem[h].job].state = "active" /\ owned[h] /\ Standing(h)
           /\ \A i \in Handlers \ {h} : pc[i] # "idle" => mem[i].job # mem[h].job
           /\ AtWork(h) => jobs[mem[h].job].status = "processing"
  BY Stands, MemoryFields
     DEF Ordered, RowsInv, RestInv, ChainInv, LifeInv, RunInv, CountInv

\* Before its job is over, a handler runs the last job, or the last is not there
\* yet: nothing is shown, and no one else is about to show anything.
LEMMA Early ==
    ASSUME Ordered, NEW h \in Handlers,
           pc[h] \notin {"idle", "publish", "closing", "succeeded"}
    PROVE  /\ \/ mem[h].job = Final
              \/ mem[h].job = "scan" /\ Final # "scan" /\ jobs[Final] = NoJob
           /\ resource.status # "ready"
           /\ \A i \in Handlers \ {h} : pc[i] # "idle" => mem[i].job # Final
           /\ AtWork(h) => /\ jobs[Final].status # "done" /\ resource.status # "failed"
                           /\ \A j \in JobTypes : jobs[j].status # "dead_letter"
<1> USE DEF Ordered, RestInv
<1>1. \/ mem[h].job = Final
      \/ mem[h].job = "scan" /\ Final # "scan" /\ jobs[Final] = NoJob
  BY Running DEF ScanInv
<1>2. resource.status # "ready"
  BY <1>1 DEF EndInv, ShownInv, NoJob
<1>3. \A i \in Handlers \ {h} : pc[i] # "idle" => mem[i].job # Final
  BY <1>1, Running
<1>4. ASSUME AtWork(h), NEW j \in JobTypes PROVE jobs[j].status # "dead_letter"
  <2>1. jobs[mem[h].job].status = "processing"
    BY <1>4, Running
  <2>2. CASE j \in {"scan", Final}
    BY <1>1, <2>1, <2>2, Running DEF ChainInv, Converting, NoJob
  <2>3. CASE j \notin {"scan", Final}
    BY <1>4, <2>3 DEF ChainInv, NoJob
  <2>4. QED
    BY <2>2, <2>3
<1>5. AtWork(h) => jobs[Final].status # "done" /\ resource.status # "failed"
  BY <1>1, <1>4, Running DEF ShownInv, NoJob
<1>6. QED
  BY <1>1, <1>2, <1>3, <1>4, <1>5

\* A handler goes on, short of the end of its job, and touches nothing.
LEMMA RestGoesOn ==
    ASSUME Ordered, NEW h \in Handlers, Mine(h),
           UNCHANGED <<jobs, asset, resource, tasks, edPc>>, mem'[h].job = mem[h].job,
           pc[h] \notin {"idle", "publish", "closing", "succeeded"},
           pc'[h] \notin {"idle", "load", "publish", "closing", "succeeded", "errored"},
           PlaceInv(h)',
           pc'[h] \in {"getRes", "putRes"} /\ mem'[h].goal = "ready" =>
               mem[h].job = Final /\ (asset.kind = "video" => asset.hls)
    PROVE  RestInv'
<1> USE DEF Ordered, RestInv
<1>1. Final' = Final
  BY DEF Final
<1>2. ScanInv(h)' /\ EndInv(h)'
  BY <1>1, Early DEF ScanInv, EndInv
<1>3. ASSUME NEW i \in Handlers \ {h} PROVE PlaceInv(i)' /\ ScanInv(i)' /\ EndInv(i)'
  BY <1>1, <1>3 DEF Mine, PlaceInv, AtWork, ScanInv, EndInv
<1>4. ChainInv' /\ ShownInv'
  BY <1>1 DEF ChainInv, Converting, ShownInv
<1>5. QED
  BY <1>2, <1>3, <1>4

\* A handler writes the row of its job and nothing else.
LEMMA RestJob ==
    ASSUME Ordered, NEW h \in Handlers, Mine(h), pc[h] # "idle",
           UNCHANGED <<asset, resource, tasks, edPc>>,
           NEW row \in JobRow, row.status # "none",
           jobs' = [jobs EXCEPT ![mem[h].job] = row],
           jobs[mem[h].job].status \in {"pending", "processing"},
           mem[h].job = "scan" /\ Converting => row.status \in {"processing", "done"},
           mem[h].job = "scan" /\ Final # "scan" /\ row.status = "done" =>
               tasks[Final].state # "none",
           mem[h].job = Final /\ row.status = "done" => resource.status = "ready",
           mem[h].job = Final /\ resource.status = "ready" =>
               row.status \in {"processing", "done"},
           PlaceInv(h)', ScanInv(h)', EndInv(h)'
    PROVE  RestInv'
<1> USE DEF Ordered, RestInv
<1>j. PICK j \in JobTypes : j = mem[h].job
  BY Running
<1>1. Final' = Final /\ Final \in JobTypes
  BY FinalJob DEF Final
<1>2. /\ jobs'[j] = row /\ jobs'[j] # NoJob /\ jobs[j] # NoJob
      /\ \A k \in JobTypes \ {j} : jobs'[k] = jobs[k]
      /\ tasks[j].state = "active" /\ jobs[j].status \in {"pending", "processing"}
  BY <1>j, Running DEF TypeOK, NoJob
<1>3. ChainInv'
  BY <1>j, <1>1, <1>2, FinalJob DEF ChainInv, Converting, JobTypes
<1>4. ShownInv'
  <2>1. resource.status = "failed" => \E k \in JobTypes : jobs'[k].status = "dead_letter"
    BY <1>2 DEF ShownInv
  <2>2. QED
    BY <1>j, <1>1, <1>2, <2>1 DEF ShownInv
<1>5. ASSUME NEW i \in Handlers \ {h} PROVE PlaceInv(i)' /\ ScanInv(i)' /\ EndInv(i)'
  <2>1. pc'[i] = pc[i] /\ mem'[i] = mem[i]
    BY DEF Mine
  <2>2. pc[i] # "idle" => jobs'[mem[i].job] = jobs[mem[i].job]
    BY <1>j, <1>2, Running
  <2>3. QED
    BY <1>1, <1>2, <2>1, <2>2 DEF PlaceInv, AtWork, ScanInv, EndInv
<1>6. QED
  BY <1>3, <1>4, <1>5

\* The steps that read, or work on files, and leave all rows alone.
LEMMA RestReads ==
    ASSUME Ordered, NEW h \in Handlers,
           \/ LoadAsset(h) \/ FindResource(h) \/ Download(h) \/ Inspect(h)
           \/ ScanVirus(h) \/ FindNextJob(h) \/ UploadDerived(h)
    PROVE  RestInv'
<1> USE DEF rows, queue, bucket, editor
<1>i. TypeOK /\ OnlyTools /\ PlaceInv(h) /\ ScanInv(h) /\ EndInv(h)
  BY DEF Ordered, Undisturbed, RestInv
<1>g. ASSUME Mine(h), UNCHANGED <<jobs, asset, resource, tasks, edPc>>,
             mem'[h].job = mem[h].job, pc[h] \notin {"idle", "publish", "closing", "succeeded"},
             pc'[h] \notin {"idle", "load", "publish", "closing", "succeeded", "errored"},
             PlaceInv(h)',
             pc'[h] \in {"getRes", "putRes"} /\ mem'[h].goal = "ready" =>
                 mem[h].job = Final /\ (asset.kind = "video" => asset.hls)
      PROVE  RestInv'
  BY <1>g, RestGoesOn
<1>1. CASE LoadAsset(h)
  <2>1. /\ Mine(h) /\ pc[h] = "asset" /\ mem'[h].job = mem[h].job
        /\ UNCHANGED <<jobs, asset, resource, tasks, edPc>>
        /\ pc'[h] \in {"getRes", "download"}
        /\ mem'[h].doc = asset /\ mem'[h].goal = "processing"
    <3>1. pc[h] = "asset" /\ asset # NoAsset
      BY <1>1, Running DEF LoadAsset, Standing
    <3>2. pc'[h] \in {"getRes", "download"}
      BY <1>1, <1>i, <3>1, Answered DEF LoadAsset, Go, TypeOK
    <3>3. QED
      BY <1>1, <1>i, <3>1, <3>2, LoadAssetEffect
  <2>2. QED
    BY <1>g, <2>1 DEF PlaceInv
<1>2. CASE FindResource(h)
  <2>1. /\ Mine(h) /\ SameWork(h) /\ pc[h] = "getRes" /\ pc'[h] = "putRes"
        /\ mem'[h].goal = mem[h].goal /\ UNCHANGED <<jobs, asset, resource, tasks, edPc>>
    <3>1. pc[h] = "getRes" /\ resource # NoResource
      BY <1>2, Running DEF FindResource, Standing
    <3>2. pc'[h] = "putRes"
      BY <1>2, <1>i, <3>1, Answered DEF FindResource, Go, TypeOK
    <3>3. QED
      BY <1>2, <1>i, <3>1, <3>2, FindResourceEffect
  <2>2. QED
    BY <1>g, <1>i, <2>1 DEF PlaceInv, EndInv, AtWork, SameWork
<1>3. CASE Download(h)
  <2>1. /\ Mine(h) /\ mem' = mem /\ pc[h] = "download"
        /\ UNCHANGED <<jobs, asset, resource, tasks, edPc>>
        /\ \/ pc'[h] = "failing"
           \/ pc'[h] = "inspect" /\ mem[h].job = "scan"
           \/ pc'[h] = "playlist" /\ mem[h].job = "transcode"
           \/ pc'[h] = "pdf" /\ mem[h].job = "convert"
    <3>1. mem[h].job \in {"scan", "transcode", "convert"} /\ pc \in [Handlers -> PC]
      BY <1>i, MemoryFields DEF JobTypes, TypeOK
    <3>2. \/ pc'[h] = "failing"
          \/ pc'[h] = CASE mem[h].job = "scan"      -> "inspect"
                        [] mem[h].job = "transcode" -> "playlist"
                        [] mem[h].job = "convert"   -> "pdf"
      BY <1>3, <3>1 DEF Download, Go
    <3>3. QED
      BY <1>3, <1>i, <3>1, <3>2, DownloadEffect
  <2>2. QED
    BY <1>g, <1>i, <2>1 DEF PlaceInv, AtWork
<1>4. CASE Inspect(h)
  <2>1. /\ Mine(h) /\ pc[h] = "inspect" /\ pc'[h] \in {"failing", "sumRow"}
        /\ mem'[h].job = mem[h].job /\ UNCHANGED <<jobs, asset, resource, tasks, edPc>>
    BY <1>4, <1>i, InspectEffect
  <2>2. mem'[h].doc.key = mem[h].doc.key /\ mem'[h].doc.kind = mem[h].doc.kind
    BY <1>4, <1>i, InspectEffect, MemoryFields DEF AssetRow
  <2>3. QED
    BY <1>g, <1>i, <2>1, <2>2 DEF PlaceInv, AtWork
<1>5. CASE ScanVirus(h)
  <2>1. /\ Mine(h) /\ SameWork(h) /\ pc[h] = "clam"
        /\ UNCHANGED <<jobs, asset, resource, tasks, edPc>>
        /\ pc'[h] = "failing" \/ pc'[h] = AfterClean(mem[h].doc.kind)
    BY <1>5, <1>i, ScanVirusEffect
  <2>2. /\ mem[h].job = "scan"
        /\ mem[h].doc.kind = asset.kind /\ mem[h].doc.key = asset.key
    BY <1>i, <2>1 DEF PlaceInv, AtWork
  <2>3. /\ pc'[h] \in {"failing", "findNext", "getRes"}
        /\ pc'[h] = "getRes" => Final = "scan" /\ asset.kind # "video"
    BY <1>i, <2>1, <2>2, FinalJob DEF AfterClean, HasNextJob
  <2>4. QED
    BY <1>g, <1>i, <2>1, <2>2, <2>3 DEF PlaceInv, AtWork, SameWork
<1>6. CASE FindNextJob(h)
  <2>1. /\ Mine(h) /\ mem' = mem /\ pc[h] = "findNext"
        /\ UNCHANGED <<jobs, asset, resource, tasks, edPc>>
        /\ pc'[h] = AfterFind(jobs[Next_Of(h)])
    BY <1>6, <1>i, FindNextEffect, Answered DEF FindNextJob, Go, TypeOK
  <2>2. /\ mem[h].job = "scan" /\ mem[h].doc.kind = asset.kind /\ mem[h].doc.key = asset.key
        /\ HasNextJob(asset.kind)
    BY <1>i, <2>1 DEF PlaceInv, AtWork, Ordered, PublishInv, Enqueuing
  <2>3. Final # "scan" /\ Final = Next_Of(h)
    BY <1>i, <2>2, FinalJob DEF Next_Of
  <2>4. pc'[h] = "createNext"
    BY <1>i, <2>1, <2>2, <2>3 DEF ScanInv, AfterFind
  <2>5. QED
    BY <1>g, <1>i, <2>1, <2>2, <2>4 DEF PlaceInv, AtWork
<1>7. CASE UploadDerived(h)
  <2>1. /\ Mine(h) /\ pc[h] \in {"playlist", "segments", "pdf"} /\ mem'[h].job = mem[h].job
        /\ UNCHANGED <<jobs, asset, resource, tasks, edPc>>
        /\ \/ pc'[h] = "failing" /\ mem'[h].doc = mem[h].doc
           \/ pc'[h] = AfterUpload(pc[h]) /\ mem'[h].doc = WithManifest(mem[h].doc, pc[h])
    BY <1>7, <1>i, UploadDerivedEffect
  <2>2. /\ mem[h].doc.kind = asset.kind /\ mem[h].doc.key = asset.key
        /\ mem[h].doc \in AssetRow
    BY <1>i, <2>1, MemoryFields DEF PlaceInv, AtWork
  <2>3. /\ mem'[h].doc.kind = asset.kind /\ mem'[h].doc.key = asset.key
        /\ pc'[h] = "hlsRow" => mem'[h].doc.hls
        /\ \/ pc'[h] = "failing"
           \/ pc[h] # "pdf" /\ pc'[h] \in {"segments", "hlsRow"}
           \/ pc[h] = "pdf" /\ pc'[h] = "getRes"
    BY <2>1, <2>2 DEF AfterUpload, WithManifest, AssetRow
  <2>4. pc[h] = "pdf" => mem[h].job = Final /\ asset.kind # "video"
    BY <1>i, <2>1, Running, FinalJob DEF PlaceInv
  <2>5. QED
    BY <1>g, <1>i, <2>1, <2>3, <2>4 DEF PlaceInv, AtWork
<1>8. QED
  BY <1>1, <1>2, <1>3, <1>4, <1>5, <1>6, <1>7

\* The job is read: what is dead was shown as failed before its task came again.
LEMMA RestLoad == ASSUME Ordered, NEW h \in Handlers, Load(h) PROVE RestInv'
<1> USE DEF rows, queue, bucket, editor
<1>i. /\ TypeOK /\ OnlyTools /\ RestInv /\ PlaceInv(h) /\ ScanInv(h) /\ EndInv(h)
      /\ RetryInv(h)
  BY DEF Ordered, Undisturbed, RestInv, AgreeInv
<1>1. /\ Mine(h) /\ mem'[h].job = mem[h].job /\ pc[h] = "load"
      /\ UNCHANGED <<jobs, asset, resource, tasks, edPc>>
      /\ pc'[h] = AfterLoad(jobs[mem[h].job])
  BY <1>i, LoadEffect, Answered DEF Load, Go, SameWork, TypeOK
<1>2. jobs[mem[h].job].status \in {"pending", "dead_letter"}
  BY <1>i, <1>1 DEF RetryInv, Waits
<1>3. pc'[h] = IF jobs[mem[h].job].status = "dead_letter" THEN "succeeded" ELSE "mark"
  BY <1>1, <1>2 DEF AfterLoad, Terminal
<1>4. /\ PlaceInv(h)' /\ Final' = Final
      /\ resource.status # "ready" /\ (mem[h].job = Final \/ jobs[Final] = NoJob)
  BY <1>1, <1>3, Early DEF PlaceInv, AtWork, Final
<1>5. ScanInv(h)' /\ EndInv(h)'
  BY <1>i, <1>1, <1>3, <1>4 DEF ScanInv, EndInv, Terminal
<1>6. ASSUME NEW i \in Handlers \ {h} PROVE PlaceInv(i)' /\ ScanInv(i)' /\ EndInv(i)'
  BY <1>i, <1>1, <1>4 DEF RestInv, Mine, PlaceInv, AtWork, ScanInv, EndInv
<1>7. ChainInv' /\ ShownInv'
  BY <1>i, <1>1, <1>4 DEF RestInv, ChainInv, Converting, ShownInv
<1>8. QED
  BY <1>i, <1>1, <1>4, <1>5, <1>6, <1>7 DEF RestInv

\* The job starts, ends well, or fails.
LEMMA RestWritesJob ==
    ASSUME Ordered, NEW h \in Handlers,
           MarkJobProcessing(h) \/ MarkJobDone(h) \/ MarkJobFailed(h)
    PROVE  RestInv'
<1> USE DEF rows, queue, bucket, editor
<1>i. /\ TypeOK /\ OnlyTools /\ RestInv /\ PlaceInv(h) /\ ScanInv(h) /\ EndInv(h)
      /\ RetryInv(h) /\ CountInv(h)
  BY DEF Ordered, Undisturbed, RestInv, AgreeInv, LifeInv
<1>m. /\ mem[h].job \in JobTypes /\ mem[h].attempts \in Nat /\ mem[h].attempts + 1 \in Nat
      /\ jobs \in [JobTypes -> JobRow]
  BY <1>i, MemoryFields DEF TypeOK
<1>f. Final' = Final /\ Final \in JobTypes
  <2>1. asset' = asset
    BY DEF MarkJobProcessing, MarkJobDone, MarkJobFailed
  <2>2. QED
    BY <1>i, <2>1, FinalJob DEF Final
<1>1. CASE MarkJobProcessing(h)
  <2> DEFINE row == [status |-> "processing", attempts |-> mem[h].attempts + 1]
  <2>1. /\ Mine(h) /\ mem'[h].job = mem[h].job /\ pc[h] = "mark" /\ pc'[h] = "asset"
        /\ UNCHANGED <<asset, resource, tasks, edPc>>
        /\ jobs' = [jobs EXCEPT ![mem[h].job] = row]
    <3>1. pc[h] = "mark" /\ pc'[h] = "asset"
      BY <1>1, <1>i, Answered DEF MarkJobProcessing, Go, TypeOK
    <3>2. QED
      BY <1>1, <1>i, <3>1, MarkEffect, Running DEF SameWork
  <2>2. /\ row \in JobRow /\ row.status = "processing"
        /\ jobs[mem[h].job].status \in {"pending", "processing"}
    BY <1>i, <1>m, <2>1 DEF JobRow, JobStatus, CountInv
  <2>3. /\ resource.status # "ready"
        /\ mem[h].job = Final \/ (mem[h].job = "scan" /\ Final # "scan" /\ jobs[Final] = NoJob)
    BY <2>1, Early
  <2>4. jobs'[Final] = IF mem[h].job = Final THEN row ELSE jobs[Final]
    BY <1>f, <1>m, <2>1
  <2> HIDE DEF row
  <2>5. PlaceInv(h)' /\ ScanInv(h)' /\ EndInv(h)'
    BY <1>f, <2>1, <2>3, <2>4 DEF PlaceInv, AtWork, ScanInv, EndInv
  <2>6. QED
    BY <2>1, <2>2, <2>3, <2>5, RestJob
<1>2. CASE MarkJobDone(h)
  <2> DEFINE row == [status |-> "done", attempts |-> mem[h].attempts]
  <2>1. /\ Mine(h) /\ mem' = mem /\ pc[h] = "closing" /\ pc'[h] = "succeeded"
        /\ UNCHANGED <<asset, resource, tasks, edPc>>
        /\ jobs' = [jobs EXCEPT ![mem[h].job] = row]
    <3>1. pc[h] = "closing" /\ pc'[h] = "succeeded"
      BY <1>2, <1>i, Answered DEF MarkJobDone, Go, TypeOK
    <3>2. QED
      BY <1>2, <1>i, <3>1, DoneEffect, Running
  <2>2. /\ row \in JobRow /\ row.status = "done" /\ jobs'[mem[h].job] = row
        /\ jobs[mem[h].job].status = "processing"
    BY <1>i, <1>m, <2>1 DEF JobRow, JobStatus, CountInv, AtWork
  <2> HIDE DEF row
  <2>3. PlaceInv(h)' /\ ScanInv(h)' /\ EndInv(h)'
    BY <1>f, <2>1, <2>2 DEF PlaceInv, AtWork, ScanInv, EndInv, Terminal
  <2>4. /\ mem[h].job = Final => resource.status = "ready"
        /\ mem[h].job = "scan" /\ Final # "scan" => tasks[Final].state # "none"
    BY <1>i, <2>1 DEF ScanInv, EndInv
  <2>5. QED
    BY <2>1, <2>2, <2>3, <2>4, RestJob
<1>3. CASE MarkJobFailed(h)
  <2> DEFINE row == [status |-> FailedStatus(mem[h].attempts), attempts |-> mem[h].attempts]
  <2>1. /\ Mine(h) /\ mem'[h].job = mem[h].job /\ mem'[h].goal = "failed"
        /\ pc[h] = "failing" /\ UNCHANGED <<asset, resource, tasks, edPc>>
        /\ jobs' = [jobs EXCEPT ![mem[h].job] = row]
        /\ pc'[h] = IF row.status = "dead_letter" /\ mem[h].doc # NoAsset
                    THEN "getRes" ELSE "errored"
    <3>1. PICK ok \in BOOLEAN :
             /\ Outcome("db", ok) /\ pc[h] = "failing"
             /\ UpdateJob(h, ok, FailedStatus(mem[h].attempts), mem[h].attempts)
             /\ Go(h, IF ok /\ FailedStatus(mem[h].attempts) = "dead_letter"
                         /\ mem[h].doc # NoAsset
                      THEN "getRes" ELSE "errored")
      BY <1>3 DEF MarkJobFailed
    <3>2. QED
      BY <1>3, <1>i, <3>1, FailedEffect, UpdateJobEffect, Answered, Running
         DEF SameWork, Go, TypeOK
  <2>2. /\ row \in JobRow /\ row.status \in {"pending", "dead_letter"}
        /\ jobs'[mem[h].job] = row /\ jobs[mem[h].job].status = "processing"
    BY <1>i, <1>m, <2>1 DEF JobRow, JobStatus, CountInv, AtWork, FailedStatus
  <2>3. /\ resource.status # "ready"
        /\ mem[h].job = Final \/ (mem[h].job = "scan" /\ Final # "scan" /\ jobs[Final] = NoJob)
    BY <2>1, Early
  <2>4. jobs'[Final] = IF mem[h].job = Final THEN row ELSE jobs[Final]
    BY <1>f, <1>m, <2>1
  <2> HIDE DEF row
  <2>5. mem[h].doc # NoAsset
    <3>1. mem[h].doc.key = asset.key /\ asset # NoAsset
      BY <1>i, <2>1 DEF PlaceInv, AtWork, Ordered, RowsInv
    <3>2. asset.key # Null
      BY <3>1, StoreAssumption DEF Ordered, RowsInv
    <3>3. QED
      BY <3>1, <3>2 DEF NoAsset
  <2>6. PlaceInv(h)' /\ ScanInv(h)' /\ EndInv(h)'
    BY <1>f, <2>1, <2>2, <2>3, <2>4, <2>5 DEF PlaceInv, AtWork, ScanInv, EndInv
  <2>7. QED
    BY <2>1, <2>2, <2>3, <2>6, RestJob DEF Converting
<1>4. QED
  BY <1>1, <1>2, <1>3

\* The status of the resource is written, by the last job or by one that starts
\* or fails before it.
LEMMA RestWritesResource ==
    ASSUME Ordered, NEW h \in Handlers, PutResource(h) PROVE RestInv'
<1> USE DEF rows, queue, bucket, editor
<1>i. /\ TypeOK /\ OnlyTools /\ RestInv /\ PlaceInv(h) /\ ScanInv(h) /\ EndInv(h)
      /\ RetryInv(h)
  BY DEF Ordered, Undisturbed, RestInv, AgreeInv
<1>1. /\ Mine(h) /\ SameWork(h) /\ mem'[h].goal = mem[h].goal
      /\ UNCHANGED <<jobs, asset, tasks, edPc>>
      /\ pc[h] = "putRes" /\ pc'[h] = AfterResource(mem[h].goal, TRUE)
      /\ resource' = UpdatedResource(mem[h].row, mem[h].goal)
  <2>1. pc[h] = "putRes" /\ Standing(h)
    BY Running DEF PutResource
  <2>2. /\ pc'[h] = AfterResource(mem[h].goal, TRUE)
        /\ resource' = UpdatedResource(mem[h].row, mem[h].goal)
    BY <1>i, <2>1, Answered DEF PutResource, Written, Go, TypeOK, Updated, Standing
  <2>3. QED
    BY <1>i, <2>1, <2>2, PutResourceEffect
<1>2. resource'.status = mem[h].goal
  BY <1>i, <1>1, MemoryFields DEF UpdatedResource, ResourceRow
<1>3. pc'[h] = IF mem[h].goal = "failed" THEN "errored"
               ELSE IF mem[h].goal = "ready" THEN "closing" ELSE "download"
  BY <1>1 DEF AfterResource
<1>4. /\ mem[h].job = Final \/ (mem[h].job = "scan" /\ Final # "scan" /\ jobs[Final] = NoJob)
      /\ \A i \in Handlers \ {h} : pc[i] # "idle" => mem[i].job # Final
      /\ AtWork(h) => /\ jobs[Final].status # "done"
                      /\ \A j \in JobTypes : jobs[j].status # "dead_letter"
      /\ AtWork(h) => jobs[mem[h].job].status = "processing"
      /\ mem[h].job \in JobTypes
  BY <1>1, Early, Running
<1>5. /\ mem[h].goal = "failed" => jobs[mem[h].job].status = "dead_letter"
      /\ mem[h].goal # "failed" => AtWork(h)
      /\ mem[h].goal = "ready" => mem[h].job = Final /\ (asset.kind = "video" => asset.hls)
  BY <1>i, <1>1 DEF RetryInv, AtWork, EndInv
<1>6. Final' = Final
  BY <1>1 DEF Final
<1>7. ShownInv'
  BY <1>1, <1>2, <1>4, <1>5, <1>6 DEF ShownInv, NoJob
<1>8. ChainInv'
  BY <1>i, <1>1, <1>6 DEF RestInv, ChainInv, Converting
<1>9. PlaceInv(h)' /\ ScanInv(h)' /\ EndInv(h)'
  BY <1>i, <1>1, <1>2, <1>3, <1>4, <1>5, <1>6 DEF PlaceInv, AtWork, ScanInv, EndInv, SameWork
<1>10. ASSUME NEW i \in Handlers \ {h} PROVE PlaceInv(i)' /\ ScanInv(i)' /\ EndInv(i)'
  <2>1. pc'[i] = pc[i] /\ mem'[i] = mem[i] /\ PlaceInv(i) /\ ScanInv(i) /\ EndInv(i)
    BY <1>i, <1>1 DEF Mine, RestInv
  <2>2. PlaceInv(i)' /\ ScanInv(i)'
    BY <1>1, <1>6, <2>1 DEF PlaceInv, AtWork, ScanInv
  <2>3. pc[i] # "idle" => mem[i].job \in JobTypes
    BY <1>i, MemoryFields
  <2>4. EndInv(i)'
    BY <1>1, <1>2, <1>4, <1>5, <1>6, <2>1, <2>3 DEF EndInv
  <2>5. QED
    BY <2>2, <2>4
<1>11. QED
  BY <1>i, <1>1, <1>7, <1>8, <1>9, <1>10 DEF RestInv

\* The asset is written back: by the scan, before there is a conversion, or by
\* the conversion, with its manifest.
LEMMA RestWritesAsset ==
    ASSUME Ordered, NEW h \in Handlers, UpdateAsset(h) PROVE RestInv'
<1> USE DEF rows, queue, bucket, editor
<1>i. /\ TypeOK /\ OnlyTools /\ RestInv /\ PlaceInv(h) /\ ScanInv(h) /\ EndInv(h)
  BY DEF Ordered, Undisturbed, RestInv
<1>1. /\ Mine(h) /\ SameWork(h) /\ pc[h] \in {"sumRow", "hlsRow"}
      /\ UNCHANGED <<jobs, resource, tasks, edPc>>
      /\ asset' = UpdatedAsset(asset, mem[h].doc)
      /\ pc'[h] = IF pc[h] = "sumRow" THEN "clam" ELSE "getRes"
  BY <1>i, UpdateAssetEffect, Answered DEF UpdateAsset, Written, Go, TypeOK
<1>s. asset # NoAsset
  BY <1>1, Running DEF Standing
<1>2. /\ mem[h].doc.kind = asset.kind /\ mem[h].doc.key = asset.key
      /\ pc[h] = "sumRow" => mem[h].job = "scan"
      /\ pc[h] = "hlsRow" => mem[h].job = "transcode" /\ mem[h].doc.hls
  BY <1>i, <1>1 DEF PlaceInv, AtWork
<1>3. asset'.kind = asset.kind /\ asset'.key = asset.key /\ asset'.hls = mem[h].doc.hls
  BY <1>i, <1>s, <1>1, <1>2, MemoryFields DEF UpdatedAsset, Updated, AssetRow
<1>4. Final' = Final
  BY <1>3 DEF Final
<1>5. /\ mem[h].job = Final \/ (mem[h].job = "scan" /\ Final # "scan" /\ jobs[Final] = NoJob)
      /\ resource.status # "ready"
      /\ \A i \in Handlers \ {h} : pc[i] # "idle" => mem[i].job # Final
      /\ mem[h].job \in {"scan", Final}
  BY <1>1, Early, Running
<1>6. ChainInv' /\ ShownInv'
  BY <1>i, <1>1, <1>4, <1>5 DEF RestInv, ChainInv, Converting, ShownInv
<1>7. PlaceInv(h)' /\ ScanInv(h)' /\ EndInv(h)'
  BY <1>1, <1>2, <1>3, <1>4, <1>5 DEF PlaceInv, AtWork, ScanInv, EndInv, SameWork
<1>8. ASSUME NEW i \in Handlers \ {h} PROVE PlaceInv(i)' /\ ScanInv(i)' /\ EndInv(i)'
  <2>1. pc'[i] = pc[i] /\ mem'[i] = mem[i] /\ PlaceInv(i) /\ ScanInv(i) /\ EndInv(i)
    BY <1>i, <1>1 DEF Mine, RestInv
  <2>2. PlaceInv(i)' /\ ScanInv(i)'
    BY <1>1, <1>3, <1>4, <2>1 DEF PlaceInv, AtWork, ScanInv
  <2>3. EndInv(i)'
    BY <1>1, <1>4, <1>5, <2>1 DEF EndInv
  <2>4. QED
    BY <2>2, <2>3
<1>9. QED
  BY <1>i, <1>1, <1>6, <1>7, <1>8 DEF RestInv

\* The scan enqueues the conversion: the row, then the task.
LEMMA RestEnqueues ==
    ASSUME Ordered, NEW h \in Handlers, CreateNextJob(h) \/ PublishNextJob(h)
    PROVE  RestInv'
<1> USE DEF rows, queue, bucket, editor
<1>i. /\ TypeOK /\ OnlyTools /\ RestInv /\ PlaceInv(h) /\ ScanInv(h) /\ EndInv(h)
      /\ ChainInv /\ ShownInv
  BY DEF Ordered, Undisturbed, RestInv
<1>1. /\ Mine(h) /\ mem' = mem /\ pc[h] \in {"createNext", "publish"}
      /\ UNCHANGED <<asset, resource, edPc>>
  BY <1>i, CreateNextEffect, PublishNextEffect
<1>2. /\ mem[h].job = "scan" /\ mem[h].doc.kind = asset.kind /\ mem[h].doc.key = asset.key
      /\ HasNextJob(asset.kind)
  BY <1>i, <1>1 DEF PlaceInv, AtWork, Ordered, PublishInv, Enqueuing
<1>3. /\ Final \in JobTypes /\ Final # "scan" /\ Final = Next_Of(h) /\ Final' = Final
      /\ jobs["scan"].status = "processing" /\ tasks["scan"].state = "active"
      /\ "scan" \in JobTypes
      /\ \A i \in Handlers \ {h} : pc[i] # "idle" => mem[i].job # "scan"
  BY <1>i, <1>1, <1>2, FinalJob, Running DEF Next_Of, Final, AtWork
<1>4. ASSUME NEW i \in Handlers \ {h}
      PROVE  pc'[i] = pc[i] /\ mem'[i] = mem[i] /\ PlaceInv(i)' /\ ScanInv(i)'
  <2>1. pc'[i] = pc[i] /\ mem'[i] = mem[i] /\ PlaceInv(i)
    BY <1>i, <1>1 DEF Mine, RestInv
  <2>2. QED
    BY <1>1, <1>3, <2>1 DEF PlaceInv, AtWork, ScanInv
<1>5. CASE CreateNextJob(h)
  <2>1. /\ pc[h] = "createNext" /\ jobs[Final] = NoJob
    BY <1>5, <1>i, <1>2, <1>3, CreateNextEffect DEF ScanInv
  <2>2. /\ pc'[h] = "publish" /\ tasks' = tasks
        /\ jobs' = [jobs EXCEPT ![Final] = CreatedJob]
    BY <1>5, <1>i, <1>3, <2>1, Answered, Running
       DEF CreateNextJob, Written, Go, TypeOK, Standing
  <2>3. /\ jobs'[Final] = CreatedJob /\ CreatedJob # NoJob
        /\ \A j \in JobTypes \ {Final} : jobs'[j] = jobs[j]
    BY <1>i, <1>3, <2>2 DEF TypeOK, CreatedJob, NoJob
  <2>4. tasks[Final].state # "completed"
    BY <1>3, <2>1 DEF Ordered, RowsInv
  <2>5. ChainInv'
    BY <1>i, <1>3, <2>2, <2>3, <2>4 DEF ChainInv, Converting, CreatedJob
  <2>6. ShownInv'
    <3>1. resource.status = "failed" => \E j \in JobTypes : jobs'[j].status = "dead_letter"
      BY <1>i, <2>1, <2>3 DEF ShownInv, NoJob
    <3>2. QED
      BY <1>i, <1>1, <1>3, <2>1, <2>2, <2>3, <3>1 DEF ShownInv, NoJob, CreatedJob
  <2>7. PlaceInv(h)' /\ ScanInv(h)' /\ EndInv(h)'
    BY <1>i, <1>1, <1>2, <1>3, <2>2, <2>3 DEF PlaceInv, AtWork, ScanInv, EndInv
  <2>8. ASSUME NEW i \in Handlers \ {h} PROVE EndInv(i)'
    <3>1. pc[i] # "idle" => mem[i].job # Final /\ jobs'[mem[i].job] = jobs[mem[i].job]
      BY <1>i, <2>1, <2>3, MemoryFields DEF Ordered, RowsInv
    <3>2. QED
      BY <1>i, <1>1, <1>3, <1>4, <3>1 DEF EndInv, RestInv
  <2>9. QED
    BY <1>i, <1>1, <1>4, <2>5, <2>6, <2>7, <2>8 DEF RestInv
<1>6. CASE PublishNextJob(h)
  <2>1. pc[h] = "publish" /\ jobs[Final] # NoJob
    BY <1>6, <1>i, <1>2, <1>3, PublishNextEffect DEF ScanInv
  <2>2. ASSUME NEW ok \in BOOLEAN, Outcome("redis", ok) PROVE ok
    BY <2>2, <1>i, WorkerAssumption DEF Ordered, Undisturbed, Outcome, Spend, TypeOK, Faults
  <2>3. /\ pc'[h] = "closing" /\ jobs' = jobs
        /\ tasks' = [tasks EXCEPT ![Final] = NewTask]
    BY <1>6, <1>i, <1>3, <2>2 DEF PublishNextJob, SetTask, Go, TypeOK
  <2>4. jobs[Final].status # "dead_letter"
    <3>1. published[Final] = 0
      BY <1>3, <2>1 DEF Ordered, PublishInv
    <3>2. tasks[Final].state = "none"
      BY <1>3, <3>1 DEF Ordered, LifeInv, RunInv
    <3>3. QED
      BY <1>3, <3>2 DEF Ordered, AgreeInv, TaskInv, NoJob, CreatedJob
  <2>5. /\ tasks'[Final].state = "queued"
        /\ \A j \in JobTypes \ {Final} : tasks'[j] = tasks[j]
    BY <1>i, <1>3, <2>3 DEF TypeOK, NewTask
  <2>6. ChainInv' /\ ShownInv'
    BY <1>i, <1>1, <1>3, <2>3, <2>4, <2>5 DEF ChainInv, Converting, ShownInv
  <2>7. PlaceInv(h)' /\ ScanInv(h)' /\ EndInv(h)'
    BY <1>i, <1>1, <1>2, <1>3, <2>1, <2>3, <2>5 DEF PlaceInv, AtWork, ScanInv, EndInv
  <2>8. ASSUME NEW i \in Handlers \ {h} PROVE EndInv(i)'
    BY <1>i, <1>1, <1>3, <1>4, <2>3 DEF EndInv, RestInv
  <2>9. QED
    BY <1>i, <1>1, <1>4, <2>6, <2>7, <2>8 DEF RestInv
<1>7. QED
  BY <1>5, <1>6

\* A delivery ends, with what its job came to on show.
LEMMA RestFinishes == ASSUME Ordered, NEW h \in Handlers, Finish(h) PROVE RestInv'
<1> USE DEF rows, queue, bucket, editor
<1>i. /\ TypeOK /\ RestInv /\ EndInv(h) /\ ChainInv /\ ShownInv
  BY DEF Ordered, RestInv
<1>1. Ends(h) /\ pc[h] \in {"succeeded", "errored"}
  BY <1>i, EndEffect DEF Finish
<1>j. PICK j \in JobTypes : j = mem[h].job
  BY <1>1, Running
<1>2. /\ owned[h] /\ tasks[j].state = "active" /\ tasks[j] \in Task
  BY <1>i, <1>j, <1>1, Running DEF TypeOK
<1>3. /\ UNCHANGED <<jobs, asset, resource, edPc>> /\ pc'[h] = "idle"
      /\ \A i \in Handlers \ {h} : pc'[i] = pc[i] /\ mem'[i] = mem[i]
      /\ tasks' = [tasks EXCEPT ![j] = IF pc[h] = "succeeded"
                                       THEN [tasks[j] EXCEPT !.state = "completed"]
                                       ELSE FailedTask(tasks[j])]
      /\ Final' = Final
  BY <1>j, <1>1, <1>2 DEF Finish, SetTask, Ends, Mine, Final
<1>4. /\ \A k \in JobTypes \ {j} : tasks'[k] = tasks[k]
      /\ tasks'[j].state # "none"
      /\ tasks'[j].state = "completed" => pc[h] = "succeeded"
  BY <1>i, <1>2, <1>3 DEF TypeOK, Task, FailedTask
<1>5. ChainInv'
  BY <1>i, <1>j, <1>1, <1>3, <1>4, FinalJob DEF ChainInv, Converting, EndInv
<1>6. ShownInv'
  BY <1>i, <1>j, <1>1, <1>3, <1>4 DEF ShownInv, EndInv
<1>7. PlaceInv(h)' /\ ScanInv(h)' /\ EndInv(h)'
  BY <1>3 DEF PlaceInv, AtWork, ScanInv, EndInv
<1>8. ASSUME NEW i \in Handlers \ {h} PROVE PlaceInv(i)' /\ ScanInv(i)' /\ EndInv(i)'
  BY <1>i, <1>3, <1>4, FinalJob DEF RestInv, PlaceInv, AtWork, ScanInv, EndInv
<1>9. QED
  BY <1>i, <1>3, <1>5, <1>6, <1>7, <1>8 DEF RestInv

\* A delivery begins: of the scan before there is a conversion, or of the last
\* job, or of one that is dead and shown so.
LEMMA RestDelivers ==
    ASSUME Ordered, NEW h \in Handlers, NEW k \in JobTypes, Delivers(h, k)
    PROVE  RestInv'
<1> USE DEF rows, queue, bucket, editor
<1>i. /\ TypeOK /\ RestInv /\ ChainInv /\ ShownInv /\ TaskInv(k)
  BY DEF Ordered, RestInv, AgreeInv
<1>1. /\ UNCHANGED <<jobs, asset, resource, edPc>> /\ pc'[h] = "load" /\ mem'[h].job = k
      /\ \A i \in Handlers \ {h} : pc'[i] = pc[i] /\ mem'[i] = mem[i]
      /\ tasks[k].state = "queued" /\ tasks'[k].state = "active"
      /\ \A j \in JobTypes \ {k} : tasks'[j] = tasks[j]
      /\ Final' = Final /\ Final \in JobTypes
  BY <1>i, MemoryFields, FinalJob DEF Delivers, Mine, TypeOK, Memory, Final
<1>2. jobs[k].status \in {"pending", "dead_letter"}
  BY <1>i, <1>1 DEF TaskInv, Waits
<1>3. ChainInv' /\ ShownInv'
  <2>1. \A j \in JobTypes : /\ tasks[j].state # "none" => tasks'[j].state # "none"
                            /\ tasks'[j].state = "completed" => tasks[j].state = "completed"
                            /\ tasks'[j].state # "active" => tasks[j].state # "active"
    BY <1>1
  <2>2. ChainInv'
    BY <1>i, <1>1, <2>1 DEF ChainInv, Converting, JobTypes
  <2>3. ShownInv'
    BY <1>i, <1>1, <2>1 DEF ShownInv
  <2>4. QED
    BY <2>2, <2>3
<1>4. PlaceInv(h)' /\ ScanInv(h)' /\ EndInv(h)'
  BY <1>i, <1>1, <1>2 DEF PlaceInv, AtWork, ScanInv, EndInv, ChainInv, Converting, ShownInv
<1>5. ASSUME NEW i \in Handlers \ {h} PROVE PlaceInv(i)' /\ ScanInv(i)' /\ EndInv(i)'
  BY <1>i, <1>1 DEF RestInv, PlaceInv, AtWork, ScanInv, EndInv
<1>6. QED
  BY <1>i, <1>1, <1>3, <1>4, <1>5 DEF RestInv

\* Undisturbed, nothing but deliveries and handlers moves the worker.
LEMMA QuietSorts ==
    ASSUME Ordered, [Next]_vars
    PROVE  \/ \E h \in Handlers : HandlerStep(h)
           \/ \E h \in Handlers, j \in JobTypes : Deliver(h, j)
           \/ UNCHANGED vars
<1>1. ASSUME NEW f \in {"crash", "timeout", "requeue", "edit"} PROVE ~Spend(f)
  BY <1>1, WorkerAssumption DEF Ordered, Undisturbed, OnlyTools, NoOutliving, Spend, TypeOK,
     Faults
<1>2. ASSUME NEW h \in Handlers PROVE ~Crash(h) /\ ~Timeout(h) /\ ~Requeue(h) /\ ~Vanish(h)
  BY <1>1, Running DEF Crash, Timeout, Requeue, Vanish
<1>3. ~BeginEdit /\ ~EndEdit
  BY <1>1 DEF BeginEdit, EndEdit, Ordered, RestInv
<1>4. ASSUME NEW j \in JobTypes PROVE ~RecoverLost(j)
  BY DEF RecoverLost, Ordered, AgreeInv, TaskInv
<1>5. QED
  BY <1>2, <1>3, <1>4 DEF Next, Rest

\* Every step keeps what is shown in step with the jobs.
LEMMA RestNext == Ordered /\ [Next]_vars => RestInv'
<1> SUFFICES ASSUME Ordered, [Next]_vars PROVE RestInv'
  OBVIOUS
<1>1. ASSUME NEW h \in Handlers, HandlerStep(h) PROVE RestInv'
  BY <1>1, RestReads, RestLoad, RestWritesJob, RestWritesResource, RestWritesAsset,
     RestEnqueues, RestFinishes DEF HandlerStep
<1>2. ASSUME NEW h \in Handlers, NEW j \in JobTypes, Deliver(h, j) PROVE RestInv'
  <2>1. Delivers(h, j)
    BY <1>2, DeliverEffect DEF Ordered
  <2>2. QED
    BY <2>1, RestDelivers
<1>3. CASE UNCHANGED vars
  <2>1. UNCHANGED <<jobs, asset, resource, tasks, pc, mem, edPc>> /\ Final' = Final
    BY <1>3 DEF vars, Final
  <2>2. QED
    BY <2>1 DEF Ordered, RestInv, ChainInv, Converting, ShownInv, PlaceInv, AtWork, ScanInv,
       EndInv
<1>4. QED
  BY <1>1, <1>2, <1>3, QuietSorts

\* The invariants of an undisturbed worker at the start.
LEMMA OrderedInit == Undisturbed /\ Init => Ordered
<1> SUFFICES ASSUME Undisturbed, Init PROVE Ordered
  OBVIOUS
<1>1. TypeOK /\ RowsInv /\ PublishInv /\ LifeInv /\ AgreeInv
  BY TypeInit, JobsInit, AgreeInit
<1>2. /\ jobs["scan"] = CreatedJob /\ tasks["scan"].state = "queued"
      /\ \A j \in JobTypes \ {"scan"} : jobs[j] = NoJob /\ tasks[j].state = "none"
      /\ CreatedJob # NoJob /\ "scan" \in JobTypes
      /\ resource.status = "pending" /\ edPc = "idle" /\ \A h \in Handlers : pc[h] = "idle"
  BY DEF Init, JobTypes, NewTask, NoTask, CreatedJob, NoJob, NoRow
<1>3. ChainInv /\ ShownInv
  BY <1>1, <1>2, FinalJob DEF ChainInv, Converting, ShownInv, CreatedJob, NoJob
<1>4. \A h \in Handlers : PlaceInv(h) /\ ScanInv(h) /\ EndInv(h)
  BY <1>2 DEF PlaceInv, AtWork, ScanInv, EndInv
<1>5. QED
  BY <1>1, <1>2, <1>3, <1>4 DEF Ordered, RestInv

\* And after every step.
LEMMA OrderedNext == Ordered /\ [Next]_vars => Ordered'
  BY TypeNext, RowsNext, PublishNext, LifeNext, AgreeNext, RestNext
     DEF Ordered, Undisturbed, OnlyTools, RowsInv

\* While the processes live, Postgres and Redis answer and nobody edits, the
\* tools and the bucket may fail at any step and the course still shows what
\* the jobs came to: ready if all are done, failed if one is dead, and no ready
\* video without manifest.
THEOREM CourseAgreesAtRest ==
    ASSUME Limit["timeout"] = 0, Limit["requeue"] = 0, Limit["crash"] = 0, Limit["db"] = 0,
           Limit["redis"] = 0, Limit["edit"] = 0
    PROVE  Spec => []RestAgrees
<1>1. Undisturbed
  BY DEF Undisturbed, OnlyTools, NoOutliving
<1>2. Ordered => RestAgrees
  <2> SUFFICES ASSUME Ordered, Quiescent
               PROVE  /\ resource.status = "ready" <=>
                             \A j \in JobTypes : jobs[j].status \in {"none", "done"}
                      /\ resource.status = "failed" <=>
                             \E j \in JobTypes : jobs[j].status = "dead_letter"
                      /\ resource.status = "ready" /\ asset.kind = "video" => asset.hls
    BY DEF RestAgrees
  <2> USE DEF Ordered, RestInv
  <2>1. ASSUME NEW j \in JobTypes
        PROVE  /\ tasks[j].state \in {"none", "completed", "archived"}
               /\ tasks[j].state # "none" => Terminal(jobs[j].status)
               /\ tasks[j].state = "none" => jobs[j] \in {NoJob, CreatedJob}
    BY DEF Quiescent, ChainInv, AgreeInv, TaskInv, Terminal
  <2>2. "scan" \in JobTypes /\ Final \in JobTypes
    BY FinalJob DEF JobTypes
  <2>3. Terminal(jobs["scan"].status)
    BY <2>1, <2>2 DEF ChainInv
  <2>4. jobs[Final] # NoJob => Terminal(jobs[Final].status)
    BY <2>1, <2>2, <2>3 DEF ChainInv, Converting, Terminal
  <2>5. Final # "scan" /\ jobs["scan"].status = "done" => jobs[Final] # NoJob
    BY <2>2 DEF ChainInv, RowsInv
  <2>6. ASSUME NEW j \in JobTypes, j \notin {"scan", Final} PROVE jobs[j].status = "none"
    BY <2>6 DEF ChainInv, NoJob
  <2>7. resource.status = "ready" <=> \A j \in JobTypes : jobs[j].status \in {"none", "done"}
    <3>1. ASSUME resource.status = "ready", NEW j \in JobTypes
          PROVE  jobs[j].status \in {"none", "done"}
      <4>1. jobs[Final].status = "done"
        BY <3>1, <2>4 DEF ShownInv, Terminal, NoJob
      <4>2. jobs["scan"].status = "done"
        BY <2>3, <4>1 DEF ChainInv, Converting, Terminal, NoJob
      <4>3. QED
        BY <4>1, <4>2, <2>6
    <3>2. ASSUME \A j \in JobTypes : jobs[j].status \in {"none", "done"}
          PROVE  resource.status = "ready"
      BY <3>2, <2>2, <2>3, <2>4, <2>5 DEF Terminal, ShownInv
    <3>3. QED
      BY <3>1, <3>2
  <2>8. resource.status = "failed" <=> \E j \in JobTypes : jobs[j].status = "dead_letter"
    BY <2>1 DEF ShownInv
  <2>9. QED
    BY <2>7, <2>8 DEF ShownInv
<1>3. QED
  BY <1>1, <1>2, OrderedInit, OrderedNext, PTL DEF Spec

\* What the course shows as the end of an upload is never changed again.
LEMMA SettledStays ==
    ASSUME Ordered, [Next]_vars, resource.status \in {"ready", "failed"}
    PROVE  resource'.status = resource.status
<1>1. ASSUME NEW h \in Handlers, PutResource(h) PROVE resource'.status = resource.status
  <2>1. /\ pc[h] = "putRes" /\ resource.status = "failed"
        /\ resource' \in {resource, UpdatedResource(mem[h].row, mem[h].goal)}
    BY <1>1, Early, PutResourceEffect DEF Ordered
  <2>2. mem[h].goal = "failed"
    BY <2>1, Early DEF AtWork
  <2>3. UpdatedResource(mem[h].row, mem[h].goal).status = "failed"
    BY <2>2, MemoryFields DEF Ordered, UpdatedResource, ResourceRow
  <2>4. QED
    BY <2>1, <2>3
<1>2. ASSUME NEW h \in Handlers, HandlerStep(h), ~PutResource(h) PROVE resource' = resource
  BY <1>2 DEF HandlerStep, Load, MarkJobProcessing, LoadAsset, FindResource, Download,
     Inspect, UpdateAsset, ScanVirus, FindNextJob, CreateNextJob, PublishNextJob,
     UploadDerived, MarkJobDone, MarkJobFailed, Finish, rows
<1>3. ASSUME NEW h \in Handlers, NEW j \in JobTypes, Deliver(h, j) PROVE resource' = resource
  BY <1>3 DEF Deliver, rows
<1>4. QED
  BY <1>1, <1>2, <1>3, QuietSorts DEF vars

\* The worker takes only the steps that PipelinePromise allows, under the same
\* conditions: from the scan perhaps to a conversion, then to ready or to
\* failed, and never back.  That it gets there is left to EveryJobEnds.
THEOREM PromiseIsFollowed ==
    ASSUME Limit["timeout"] = 0, Limit["requeue"] = 0, Limit["crash"] = 0, Limit["db"] = 0,
           Limit["redis"] = 0, Limit["edit"] = 0
    PROVE  Spec => Promise!Init /\ [][Promise!Next]_stage
<1> DEFINE converts == \E j \in {"transcode", "convert"} : jobs[j] # NoJob
<1>1. Undisturbed
  BY DEF Undisturbed, OnlyTools, NoOutliving
<1>2. Init => Promise!Init
  BY DEF Init, Promise!Init, stage, NoRow, JobTypes
<1>3. Ordered /\ [Next]_vars => [Promise!Next]_stage
  <2> SUFFICES ASSUME Ordered, [Next]_vars PROVE [Promise!Next]_stage
    OBVIOUS
  <2>1. converts => converts'
    BY JobsKept DEF Ordered, JobsStay, JobTypes
  <2>2. CASE resource.status \in {"ready", "failed"}
    BY <2>2, SettledStays DEF stage
  <2>3. CASE resource.status \notin {"ready", "failed"}
    <3>1. stage = IF converts THEN "converting" ELSE "scanning"
      BY <2>3 DEF stage
    <3>2. \/ stage' \in {"ready", "failed"}
          \/ stage' = IF converts' THEN "converting" ELSE "scanning"
      BY DEF stage
    <3> HIDE DEF converts
    <3>3. QED
      BY <2>1, <3>1, <3>2 DEF Promise!Next, Promise!Convert, Promise!Settle
  <2>4. QED
    BY <2>2, <2>3
<1>4. QED
  BY <1>1, <1>2, <1>3, OrderedInit, OrderedNext, PTL DEF Spec
=============================================================================
