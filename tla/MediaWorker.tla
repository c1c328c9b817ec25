---------------------------- MODULE MediaWorker -----------------------------
(***************************************************************************)
(* The media worker: taskHandler of cmd/worker/main.go and Processor of    *)
(* internal/media/worker/processor.go, run by asynq at least once per task *)
(* and interleaved between any two statements with the other handlers and  *)
(* with the teacher who edits the same resource through the API.           *)
(*                                                                         *)
(* Every SQL statement, every access to the bucket and every publication   *)
(* in Redis is a step of its own; between two of them a process may die,   *)
(* asynq may give the task to someone else, a statement may fail.  Nothing *)
(* here deletes the resource (MediaSystem does); the steps say what they   *)
(* do when somebody did.                                                   *)
(***************************************************************************)
EXTENDS MediaStore

CONSTANTS
    Handlers,   \* goroutines that may be running a task at one time
    Uploads,    \* the media_assets rows a completed upload may leave
    Limit       \* how many faults and edits of each sort may happen

ASSUME WorkerAssumption ==
    /\ Limit \in [Faults -> Nat]
    /\ Uploads \subseteq AssetRow
    /\ \A a \in Uploads : a.key \in Objects /\ ~a.hls /\ ~a.pdf

VARIABLES
    jobs,       \* media_jobs: a row per job type
    asset,      \* the row of media_assets
    resource,   \* the row of resources
    tasks,      \* asynq's task for each job
    published,  \* how many tasks were ever published for each job
    store,      \* originals in the bucket
    derived,    \* derived files in the bucket
    pc,         \* next step of each handler
    mem,        \* what each handler holds in memory
    owned,      \* asynq still waits for this handler's answer
    edPc,       \* the teacher's PUT: "idle" or between read and write
    edRow,      \* the row that PUT read
    spent       \* faults that happened, bounded by Limit

rows   == <<jobs, asset, resource>>
queue  == <<tasks, published>>
bucket == <<store, derived>>
editor == <<edPc, edRow>>
vars   == <<jobs, asset, resource, tasks, published, store, derived,
            pc, mem, owned, edPc, edRow, spent>>

DerivedFiles == {"playlist", "segments", "pdf"}

PC == {"idle", "load", "mark", "asset", "getRes", "putRes", "download",
       "inspect", "sumRow", "clam", "findNext", "createNext", "publish",
       "playlist", "segments", "pdf", "hlsRow", "failing", "closing",
       "succeeded", "errored"}

Memory == [job:      JobTypes,          \* the job_id of the payload
           attempts: Nat,               \* job.Attempts
           doc:      AssetRow,          \* the asset as it was read
           row:      ResourceRow,       \* the resource as it was read
           goal:     ProcessingStatus]  \* the status about to be written

NoRow == [status |-> "pending", media |-> FALSE, title |-> 0]

NoMemory == [job |-> "scan", attempts |-> 0, doc |-> NoAsset, row |-> NoRow,
             goal |-> "pending"]

\* The state CompleteUpload leaves: the asset stored, its scan published.
Init ==
    /\ asset \in Uploads
    /\ jobs = [j \in JobTypes |-> IF j = "scan" THEN CreatedJob ELSE NoJob]
    /\ tasks = [j \in JobTypes |-> IF j = "scan" THEN NewTask ELSE NoTask]
    /\ published = [j \in JobTypes |-> IF j = "scan" THEN 1 ELSE 0]
    /\ resource = NoRow
    /\ store = {asset.key}
    /\ derived = {}
    /\ pc = [h \in Handlers |-> "idle"]
    /\ mem = [h \in Handlers |-> NoMemory]
    /\ owned = [h \in Handlers |-> FALSE]
    /\ edPc = "idle"
    /\ edRow = NoRow
    /\ spent = [f \in Faults |-> 0]

-----------------------------------------------------------------------------
(* Outcomes of a step *)

Spend(f) == /\ spent[f] < Limit[f]
            /\ spent' = [spent EXCEPT ![f] = @ + 1]

\* A step of sort f succeeds, or fails and spends one of the faults allowed.
Outcome(f, ok) == IF ok THEN UNCHANGED spent ELSE Spend(f)

\* A write whose answer is an error may have been committed or not.
Written(ok, old, new) == IF ok THEN {new} ELSE {old, new}

Go(h, step) == pc' = [pc EXCEPT ![h] = step]

\* The goroutine ends and its memory is gone.
Leave(h) == /\ pc' = [pc EXCEPT ![h] = "idle"]
            /\ mem' = [mem EXCEPT ![h] = NoMemory]
            /\ owned' = [owned EXCEPT ![h] = FALSE]

SetTask(j, tk) == tasks' = [tasks EXCEPT ![j] = tk]

-----------------------------------------------------------------------------
(* taskHandler and the first steps of HandleJob *)

Deliver(h, j) ==
    /\ pc[h] = "idle"
    /\ tasks[j].state = "queued"
    /\ SetTask(j, [tasks[j] EXCEPT !.state = "active"])
    /\ Go(h, "load")
    /\ mem' = [mem EXCEPT ![h].job = j]
    /\ owned' = [owned EXCEPT ![h] = TRUE]
    /\ UNCHANGED <<rows, published, bucket, editor, spent>>

\* FindJobByID and the early return for a job already closed.  The same test
\* opens MarkJobProcessing, on the same copy of the job: it never fires there.
AfterLoad_NoCheck(row) == "mark"

AfterLoad(row) ==
    IF row.status = "none" THEN "errored"
    ELSE IF Terminal(row.status) THEN "succeeded" ELSE "mark"

Load(h) ==
    /\ pc[h] = "load"
    /\ \E ok \in BOOLEAN :
        /\ Outcome("db", ok)
        /\ Go(h, IF ok THEN AfterLoad(jobs[mem[h].job]) ELSE "errored")
    /\ mem' = [mem EXCEPT ![h].attempts = jobs[mem[h].job].attempts]
    /\ UNCHANGED <<rows, queue, bucket, owned, editor>>

\* UpdateJob of a handler: status and attempts of the row, whatever they were.
UpdateJob(h, ok, status, n) ==
    jobs' \in Written(ok, jobs,
        [jobs EXCEPT ![mem[h].job] =
            Updated(@, NoJob, [status |-> status, attempts |-> n])])

MarkJobProcessing(h) ==
    /\ pc[h] = "mark"
    /\ \E ok \in BOOLEAN :
        /\ Outcome("db", ok)
        /\ UpdateJob(h, ok, "processing", mem[h].attempts + 1)
        /\ Go(h, IF ok THEN "asset" ELSE "errored")
    /\ mem' = [mem EXCEPT ![h].attempts = @ + 1]
    /\ UNCHANGED <<asset, resource, queue, bucket, owned, editor>>

\* FindAssetByID, which fails if the asset is gone, and the switch on the type
\* of the job.
LoadAsset(h) ==
    /\ pc[h] = "asset"
    /\ \E ok \in BOOLEAN :
        /\ Outcome("db", ok)
        /\ IF ok /\ asset # NoAsset
           THEN /\ Go(h, IF mem[h].job = "scan" THEN "getRes" ELSE "download")
                /\ mem' = [mem EXCEPT ![h] =
                              [@ EXCEPT !.doc = asset, !.goal = "processing"]]
           ELSE Go(h, "failing") /\ UNCHANGED mem
    /\ UNCHANGED <<rows, queue, bucket, owned, editor>>

-----------------------------------------------------------------------------
(* setResourceProcessingStatus: read the row, write the row, forget the row *)

\* Where HandleJob goes on: the error of the "failed" status is discarded.
AfterResource(goal, ok) ==
    CASE goal = "failed"               -> "errored"
      [] goal # "failed" /\ ~ok        -> "failing"
      [] goal = "ready" /\ ok          -> "closing"
      [] OTHER                         -> "download"

FindResource(h) ==
    /\ pc[h] = "getRes"
    /\ \E ok \in BOOLEAN :
        /\ Outcome("db", ok)
        /\ IF ok /\ resource # NoResource
           THEN Go(h, "putRes") /\ mem' = [mem EXCEPT ![h].row = resource]
           ELSE Go(h, AfterResource(mem[h].goal, FALSE)) /\ UNCHANGED mem
    /\ UNCHANGED <<rows, queue, bucket, owned, editor>>

PutResource(h) ==
    /\ pc[h] = "putRes"
    /\ \E ok \in BOOLEAN :
        /\ Outcome("db", ok)
        /\ resource' \in Written(ok, resource,
               Updated(resource, NoResource,
                       UpdatedResource(mem[h].row, mem[h].goal)))
        /\ Go(h, AfterResource(mem[h].goal, ok))
    /\ mem' = [mem EXCEPT ![h].row = NoRow]
    /\ UNCHANGED <<jobs, asset, queue, bucket, owned, editor>>

-----------------------------------------------------------------------------
(* scan_antivirus *)

\* DownloadObject; for the two conversions also the external program, which
\* works on local files only.
Download(h) ==
    /\ pc[h] = "download"
    /\ \/ /\ mem[h].doc.key \in store
          /\ Go(h, CASE mem[h].job = "scan"      -> "inspect"
                     [] mem[h].job = "transcode" -> "playlist"
                     [] mem[h].job = "convert"   -> "pdf")
          /\ UNCHANGED spent
       \/ /\ mem[h].doc.key \notin store
          /\ Go(h, "failing")
          /\ UNCHANGED spent
       \/ /\ Spend("tool")
          /\ Go(h, "failing")
    /\ UNCHANGED <<rows, queue, bucket, mem, owned, editor>>

\* The declared checksum is not the real one, or the real type is not allowed.
Mismatch_TypeIgnored(doc) == doc.sum \notin {Null, doc.key}
Mismatch_SumRequired(doc) == doc.sum # doc.key \/ doc.key \in WrongTypeObjects

Mismatch(doc) == doc.sum \notin {Null, doc.key} \/ doc.key \in WrongTypeObjects

\* A permanent failure: delete the original and spend all the attempts.  The
\* error of DeleteObject is discarded.
RejectedAttempts(n) == MaxAttempts

Reject(h) ==
    /\ \E ok \in BOOLEAN :
        /\ Outcome("tool", ok)
        /\ store' \in Written(ok, store, store \ {mem[h].doc.key})
    /\ mem' = [mem EXCEPT ![h].attempts = RejectedAttempts(@)]
    /\ Go(h, "failing")

Inspect(h) ==
    /\ pc[h] = "inspect"
    /\ \/ /\ Mismatch(mem[h].doc)
          /\ Reject(h)
       \/ /\ ~Mismatch(mem[h].doc)
          /\ mem' = [mem EXCEPT ![h].doc.sum = mem[h].doc.key]
          /\ Go(h, "sumRow")
          /\ UNCHANGED <<store, spent>>
    /\ UNCHANGED <<rows, queue, derived, owned, editor>>

\* UpdateAsset: the whole row the handler read, but for the storage key.
UpdateAsset(h) ==
    /\ pc[h] \in {"sumRow", "hlsRow"}
    /\ \E ok \in BOOLEAN :
        /\ Outcome("db", ok)
        /\ asset' \in Written(ok, asset, UpdatedAsset(asset, mem[h].doc))
        /\ Go(h, IF ~ok THEN "failing"
                 ELSE IF pc[h] = "sumRow" THEN "clam" ELSE "getRes")
    /\ mem' = [mem EXCEPT ![h].goal =
                   IF pc[h] = "hlsRow" THEN "ready" ELSE @]
    /\ UNCHANGED <<jobs, resource, queue, bucket, owned, editor>>

\* clamdscan, and which way enqueueNextAfterScan goes for a clean file.
AfterClean_ReadyAtOnce(kind) == "getRes"

AfterClean(kind) == IF HasNextJob(kind) THEN "findNext" ELSE "getRes"

ScanVirus(h) ==
    /\ pc[h] = "clam"
    /\ \/ /\ mem[h].doc.key \in InfectedObjects
          /\ Reject(h)
       \/ /\ mem[h].doc.key \notin InfectedObjects
          /\ Go(h, AfterClean(mem[h].doc.kind))
          /\ mem' = [mem EXCEPT ![h].goal = "ready"]
          /\ UNCHANGED <<store, spent>>
       \/ /\ Spend("tool")
          /\ Go(h, "failing")
          /\ UNCHANGED <<store, mem>>
    /\ UNCHANGED <<rows, queue, derived, owned, editor>>

-----------------------------------------------------------------------------
(* EnqueueJob for the job that follows the scan *)

Next_Of(h) == NextJob(mem[h].doc.kind)

\* An existing row ends EnqueueJob without publishing anything.
AfterFind_Republish(row) == IF row = NoJob THEN "createNext" ELSE "publish"

AfterFind(row) == IF row = NoJob THEN "createNext" ELSE "closing"

FindNextJob(h) ==
    /\ pc[h] = "findNext"
    /\ \E ok \in BOOLEAN :
        /\ Outcome("db", ok)
        /\ Go(h, IF ok THEN AfterFind(jobs[Next_Of(h)]) ELSE "failing")
    /\ UNCHANGED <<rows, queue, bucket, mem, owned, editor>>

\* The INSERT fails on UNIQUE (idempotency_key) when the row is there, and on
\* the foreign key when the asset is gone.
CreateNextJob(h) ==
    /\ pc[h] = "createNext"
    /\ \/ /\ jobs[Next_Of(h)] # NoJob \/ asset = NoAsset
          /\ Go(h, "failing")
          /\ UNCHANGED <<jobs, spent>>
       \/ /\ jobs[Next_Of(h)] = NoJob /\ asset # NoAsset
          /\ \E ok \in BOOLEAN :
              /\ Outcome("db", ok)
              /\ jobs' \in Written(ok, jobs,
                               [jobs EXCEPT ![Next_Of(h)] = CreatedJob])
              /\ Go(h, IF ok THEN "publish" ELSE "failing")
    /\ UNCHANGED <<asset, resource, queue, bucket, mem, owned, editor>>

PublishNextJob(h) ==
    /\ pc[h] = "publish"
    /\ \E ok \in BOOLEAN :
        /\ Outcome("redis", ok)
        /\ Go(h, IF ok THEN "closing" ELSE "failing")
        /\ \/ /\ SetTask(Next_Of(h), NewTask)
              /\ published' = [published EXCEPT ![Next_Of(h)] = @ + 1]
           \/ ~ok /\ UNCHANGED queue
    /\ UNCHANGED <<rows, bucket, mem, owned, editor>>

-----------------------------------------------------------------------------
(* transcode_hls and convert_presentation_to_pdf: upload the derived files *)

\* The directory is read in order of name: the playlist goes first.
AfterUpload_RowFirst(file) ==
    CASE file = "playlist" -> "hlsRow"
      [] file = "segments" -> "hlsRow"
      [] file = "pdf"      -> "getRes"

AfterUpload(file) ==
    CASE file = "playlist" -> "segments"
      [] file = "segments" -> "hlsRow"
      [] file = "pdf"      -> "getRes"

\* HLSManifestKey is set in memory after the last file.
WithManifest(doc, file) ==
    IF AfterUpload(file) = "hlsRow" THEN [doc EXCEPT !.hls = TRUE] ELSE doc

UploadDerived(h) ==
    /\ pc[h] \in DerivedFiles
    /\ \E ok \in BOOLEAN :
        /\ Outcome("tool", ok)
        /\ derived' \in Written(ok, derived, derived \cup {pc[h]})
        /\ Go(h, IF ok THEN AfterUpload(pc[h]) ELSE "failing")
        /\ mem' = IF ok THEN [mem EXCEPT ![h] =
                               [@ EXCEPT !.doc = WithManifest(mem[h].doc, pc[h]),
                                         !.goal = "ready"]]
                  ELSE mem
    /\ UNCHANGED <<rows, queue, store, owned, editor>>

-----------------------------------------------------------------------------
(* The end of HandleJob *)

MarkJobDone(h) ==
    /\ pc[h] = "closing"
    /\ \E ok \in BOOLEAN :
        /\ Outcome("db", ok)
        /\ UpdateJob(h, ok, "done", mem[h].attempts)
        /\ Go(h, IF ok THEN "succeeded" ELSE "errored")
    /\ UNCHANGED <<asset, resource, queue, bucket, mem, owned, editor>>

MarkJobFailed(h) ==
    /\ pc[h] = "failing"
    /\ LET status == FailedStatus(mem[h].attempts)
       IN  /\ \E ok \in BOOLEAN :
                /\ Outcome("db", ok)
                /\ UpdateJob(h, ok, status, mem[h].attempts)
                /\ Go(h, IF ok /\ status = "dead_letter" /\ mem[h].doc # NoAsset
                         THEN "getRes" ELSE "errored")
           /\ mem' = [mem EXCEPT ![h].goal = "failed"]
    /\ UNCHANGED <<asset, resource, queue, bucket, owned, editor>>

\* The handler returns: asynq settles the task if it still waits for it.
Finish(h) ==
    /\ pc[h] \in {"succeeded", "errored"}
    /\ Leave(h)
    /\ LET tk == tasks[mem[h].job]
       IN  IF owned[h]
           THEN SetTask(mem[h].job,
                        IF pc[h] = "succeeded"
                        THEN [tk EXCEPT !.state = "completed"]
                        ELSE FailedTask(tk))
           ELSE UNCHANGED tasks
    /\ UNCHANGED <<rows, published, bucket, editor, spent>>

HandlerStep(h) ==
    \/ Load(h)         \/ MarkJobProcessing(h) \/ LoadAsset(h)
    \/ FindResource(h) \/ PutResource(h)       \/ Download(h)
    \/ Inspect(h)      \/ UpdateAsset(h)       \/ ScanVirus(h)
    \/ FindNextJob(h)  \/ CreateNextJob(h)     \/ PublishNextJob(h)
    \/ UploadDerived(h)
    \/ MarkJobDone(h)  \/ MarkJobFailed(h)     \/ Finish(h)

-----------------------------------------------------------------------------
(* What happens to a handler from outside *)

\* The process dies: asynq learns it when the lease of the task expires.
Crash(h) ==
    /\ owned[h]
    /\ Spend("crash")
    /\ SetTask(mem[h].job, [tasks[mem[h].job] EXCEPT !.state = "lost"])
    /\ Leave(h)
    /\ UNCHANGED <<rows, published, bucket, editor>>

RecoverLost(j) ==
    /\ tasks[j].state = "lost"
    /\ SetTask(j, FailedTask(tasks[j]))
    /\ UNCHANGED <<rows, published, bucket, pc, mem, owned, editor, spent>>

\* The 30 minutes are over: asynq fails the delivery, but HandleJob does not
\* take the context and its goroutine goes on.
Timeout(h) ==
    /\ owned[h]
    /\ Spend("timeout")
    /\ SetTask(mem[h].job, FailedTask(tasks[mem[h].job]))
    /\ owned' = [owned EXCEPT ![h] = FALSE]
    /\ UNCHANGED <<rows, published, bucket, pc, mem, editor>>

\* The shutdown timeout is over: the task goes back to the queue, no retry
\* counted, while the process has not ended yet.
Requeue(h) ==
    /\ owned[h]
    /\ Spend("requeue")
    /\ SetTask(mem[h].job, [tasks[mem[h].job] EXCEPT !.state = "queued"])
    /\ owned' = [owned EXCEPT ![h] = FALSE]
    /\ UNCHANGED <<rows, published, bucket, pc, mem, editor>>

\* A goroutine nobody waits for disappears with its process.
Vanish(h) ==
    /\ pc[h] # "idle" /\ ~owned[h]
    /\ Leave(h)
    /\ UNCHANGED <<rows, queue, bucket, editor, spent>>

-----------------------------------------------------------------------------
(* The teacher edits the resource: usecase.UpdateResource of courses *)

BeginEdit ==
    /\ edPc = "idle" /\ resource # NoResource
    /\ Spend("edit")
    /\ edPc' = "write"
    /\ edRow' = resource
    /\ UNCHANGED <<rows, queue, bucket, pc, mem, owned>>

EndEdit ==
    /\ edPc = "write"
    /\ resource' = Updated(resource, NoResource,
                           [edRow EXCEPT !.title = spent["edit"]])
    /\ edPc' = "idle"
    /\ edRow' = NoRow
    /\ UNCHANGED <<jobs, asset, queue, bucket, pc, mem, owned, spent>>

-----------------------------------------------------------------------------

\* Nothing is left to deliver, to recover or to write: the pipeline rests.
Quiescent ==
    /\ \A j \in JobTypes : tasks[j].state \in {"none", "completed", "archived"}
    /\ \A h \in Handlers : pc[h] = "idle"
    /\ edPc = "idle"

Rest == Quiescent /\ UNCHANGED vars

Next ==
    \/ \E h \in Handlers : HandlerStep(h)
    \/ \E h \in Handlers, j \in JobTypes : Deliver(h, j)
    \/ \E j \in JobTypes : RecoverLost(j)
    \/ \E h \in Handlers : Crash(h)
    \/ \E h \in Handlers : Timeout(h)
    \/ \E h \in Handlers : Requeue(h)
    \/ \E h \in Handlers : Vanish(h)
    \/ BeginEdit
    \/ EndEdit
    \/ Rest

Spec == Init /\ [][Next]_vars

\* asynq keeps delivering and recovering, a started goroutine keeps running:
\* no fault and no edit is ever required to happen.
Fairness ==
    /\ \A h \in Handlers : WF_vars(HandlerStep(h))
    /\ \A j \in JobTypes : WF_vars(\E h \in Handlers : Deliver(h, j))
    /\ \A j \in JobTypes : WF_vars(RecoverLost(j))
    /\ WF_vars(EndEdit)

FairSpec == Spec /\ Fairness

-----------------------------------------------------------------------------
(* Properties *)

TypeOK ==
    /\ jobs \in [JobTypes -> JobRow]
    /\ asset \in AssetRow
    /\ resource \in ResourceRow \cup {NoResource}
    /\ tasks \in [JobTypes -> Task]
    /\ published \in [JobTypes -> Nat]
    /\ store \subseteq Objects
    /\ derived \subseteq DerivedFiles
    /\ pc \in [Handlers -> PC]
    /\ mem \in [Handlers -> Memory]
    /\ owned \in [Handlers -> BOOLEAN]
    /\ edPc \in {"idle", "write"}
    /\ edRow \in ResourceRow
    /\ spent \in [Faults -> Nat]

\* The file is clean, of the right type, and the one the client declared.
Accepted(a) == a.key \in CleanObjects /\ a.sum \in {Null, a.key}

\* Under every crash, timeout, redelivery, failed statement and concurrent
\* edit, a resource shown as ready (what publication and progress require)
\* has an original that passed the three checks of scanAntivirus and is still
\* in the bucket.
ReadyOnlyIfAccepted ==
    resource.status = "ready" => Accepted(asset) /\ asset.key \in store

\* Nothing that scanAntivirus would reject is ever converted: no derived file
\* of a rejected original reaches the bucket.
DerivedOnlyIfAccepted == derived # {} => Accepted(asset)

\* DeleteObject is a sanction: an original that scanAntivirus accepts is not
\* deleted whatever fails around it.
AcceptedIsKept == Accepted(asset) => asset.key \in store

\* EnqueueJob publishes one task per idempotency key, though the find, the
\* insert and the publication are three steps that several deliveries of the
\* scan may interleave.
PublishedOnce == \A j \in JobTypes : published[j] <= 1

\* The manifest key is in the row only once every derived file it refers to
\* was uploaded.
ManifestComplete == asset.hls => {"playlist", "segments"} \subseteq derived

\* While no handler outlives its delivery, the row of a job follows the
\* life cycle of JobLifecycle whatever crashes and failed statements occur.
Lifecycle == INSTANCE JobLifecycle WITH row <- jobs, Jobs <- JobTypes
FollowsLifecycle == Lifecycle!Spec

\* asynq archives a task no earlier than Postgres says dead_letter, so every
\* exhausted job reaches the dead letter queue: the two counters of attempts,
\* one per process and one per store, agree.  It holds while only the tools
\* and the bucket fail, not when the processes die, though media.go:48-50 says
\* of every job that its third failure takes it to the DLQ.
ArchivedOnlyIfDead ==
    \A j \in JobTypes :
        tasks[j].state = "archived" => jobs[j].status = "dead_letter"

\* When everything is over, what the course shows agrees with the jobs, and a
\* ready video has its manifest.
RestAgrees ==
    Quiescent =>
        /\ resource.status = "ready" <=>
               \A j \in JobTypes : jobs[j].status \in {"none", "done"}
        /\ resource.status = "failed" <=>
               \E j \in JobTypes : jobs[j].status = "dead_letter"
        /\ resource.status = "ready" /\ asset.kind = "video" => asset.hls

\* Every job that exists ends as done or dead_letter.  It holds while only the
\* tools and the bucket fail, not when Redis refuses a publication after the
\* row was written: EnqueueJob never repeats it.
EveryJobEnds ==
    \A j \in JobTypes : jobs[j].status # "none" ~> Terminal(jobs[j].status)

\* What the pipeline promises the course: PipelinePromise.
stage ==
    CASE resource.status = "ready"  -> "ready"
      [] resource.status = "failed" -> "failed"
      [] OTHER -> IF \E j \in {"transcode", "convert"} : jobs[j] # NoJob
                  THEN "converting" ELSE "scanning"

Promise == INSTANCE PipelinePromise
KeepsPromise == Promise!Spec

-----------------------------------------------------------------------------
(* Claims of the repository that this code does not keep *)

\* asynqueue.go:49-51: with the 30 minutes of Timeout asynq does not enqueue a
\* task again "mientras el worker todavia lo esta procesando".
NeverTwoAtOnce ==
    \A h, i \in Handlers :
        h # i /\ pc[h] # "idle" /\ pc[i] # "idle" => mem[h].job # mem[i].job

\* processor.go:105-107: setResourceProcessingStatus updates processing_status
\* and media_asset_id; only the teacher's PUT changes the other columns.
OnlyEditsChangeTitle ==
    [][resource'.title # resource.title => edPc = "write" /\ edPc' = "idle"]_vars

\* media.go:89: converted_pdf_key holds the PDF of a converted presentation;
\* GetPlaybackURL serves it when it is set.
ReadySlidesHavePdf ==
    resource.status = "ready" /\ asset.kind = "presentation" => asset.pdf

\* processor.go:62-64: when the retries are spent, the failure is reflected in
\* resources.processing_status.
FailureIsShown ==
    Quiescent /\ (\E j \in JobTypes : jobs[j].status = "dead_letter")
        => resource.status = "failed"

\* modelo-componentes.md:87-90 and main.go:113: the state in Postgres makes a
\* redelivery harmless, so when every job ended as done the resource is ready.
DoneIsReady ==
    Quiescent /\ (\A j \in JobTypes : jobs[j].status \in {"none", "done"})
        => resource.status = "ready"
=============================================================================
