# A TLA+ model of the course platform

The repository is the backend of a platform of online courses: an API in Go
(`cmd/api`, several replicas behind a load balancer), workers that process
uploaded media (`cmd/worker`, several replicas), PostgreSQL, Redis (sessions and
the asynq queue) and an object store. This directory models the parts of it
where several processes work on the same rows, checks the models with TLC and
proves some of their properties with TLAPS.

Most of the platform has the same shape: an operation reads rows, decides in
memory and writes rows, every statement on its own. Only
`CreateCourseWithFirstVersion` (`course_repository.go:103-140`) opens a
transaction. Whatever the code promises must therefore survive other requests,
failures and deaths between any two statements, and the models take every
statement, every call to the bucket and every publication as a step of its own.
Outside `auth`, `courses` and `health` the Go code has no tests
(`docs/entrega3/deuda-tecnica.md:97`).

## Inventory

| Component | State | Operations | What is hard | What makes it correct |
|---|---|---|---|---|
| Media upload, `internal/media/usecase` | `upload_sessions`, multipart uploads in the bucket, `media_assets`, the first `media_jobs` row | InitiateUpload, GetUploadPartURL, ListUploadedParts, CompleteUpload, EnqueueJob | the browser sends parts by itself; two confirmations at once; a failure after the session was closed; expiry | a closed session is stored, the scan is published once, no multipart upload without session |
| Media worker, `cmd/worker`, `internal/media/worker` | `media_jobs`, `media_assets`, `resources.processing_status`, originals and derived files | taskHandler, HandleJob: scan, transcode, convert; MarkJobProcessing, Done, Failed | deliveries at least once, deaths, goroutines that outlive their delivery, two counters of attempts, whole rows written back, the teacher editing the same row | nothing rejected is shown or converted, nothing accepted is deleted, every job ends, queue and rows agree |
| Queue and bucket (asynq, S3) | tasks; objects | publish, deliver, retry, archive, recover; assemble, delete | external, known through `asynqueue.go`, `s3storage.go`, `cmd/worker/main.go` | |
| Courses, `internal/courses` | courses, versions, modules, units, resources | create, edit the draft, publish, draft of a published version | publication and copy are many statements; a draft edited while it is published | a published version never changes, a course has at most one published version |
| Catalog, `internal/catalog` | enrollments | enroll, withdraw, list | the same student enrolling twice at once, withdrawing meanwhile | one active enrollment for each student and course |
| Quizzes, `internal/quizzes` | quizzes, questions, options, attempts, attempt_answers | CreateQuiz, CreateQuestion, CreateOption, StartAttempt, SaveAnswer, SubmitAttempt, GetAttempt | concurrent submissions, deadline, saves that race the grading, questions added in the middle | one result for each attempt, a key stands for one attempt, bounded overrun of max_attempts |
| Progress, `internal/progress` | resource_progress, course_progress, progress_events | OpenResource, Heartbeat, UpdatePosition, CompleteResource, Recalculate, RecordQuizResult | rows read, then written whole, by a heartbeat and a completion at once; recalculations that end in another order | what is completed stays completed, approved is never lost, a submission counts once |
| Badges, `internal/badges` | badge templates, badge_issuances | create, revoke, EnsureBadgeIssued, verify | issue and revoke at once | one badge for each student and course, only if approved |
| Sessions and accounts, `internal/auth`, `internal/admin` | users, sessions in Postgres and in a Redis cache, reset tokens | login, logout, revoke, reset password, create, update and suspend users | a cache filled after the revocation; two administrators suspending each other; whole rows written back | a revoked session is refused, an active administrator remains, a token is used once |
| Health and shutdown, `internal/platform/health`, `cmd/api/main.go`, `cmd/worker/salud.go` | readiness flags, requests or tasks in flight | ready, drain, shutdown | order of drain, close and timeout | a draining replica is never reported ready |
| Exporter, HTTP plumbing, frontend, deployment | none of the server's | | | not modelled |

How they interact: an upload is confirmed by the API, which writes the asset and
the scan job and publishes the task; the worker writes the status of the
resource, which `courses` and the student read; a submission of a quiz calls
`progress`, which recalculates the course and calls `badges`; every request goes
through a session of `auth`. All of it passes through rows of Postgres, and only
the queue and the session cache are anywhere else.

`PROJECT.json` lists the hazards of all of this at their lines, those that no
module covers yet included.

## Modules

| Module | What it is |
|---|---|
| `MediaStore` | the rows of one resource (`resources`, `media_assets`, `media_jobs`), asynq's tasks, and what each statement does to them |
| `MediaWorker` | the worker: `taskHandler`, `HandleJob`, asynq around it, and the teacher's PUT of the resource |
| `JobLifecycle` | abstract: the life cycle that `media.go` and `job_lifecycle.go` give to a job row |
| `PipelinePromise` | abstract: what the pipeline promises the course about an upload |
| `MediaUpload` | the API's side: InitiateUpload, the parts, CompleteUpload, EnqueueJob |
| `MediaSystem` | `MediaUpload` and `MediaWorker` composed on the same rows, queue and bucket |
| `QuizAttempts` | the attempts of one student at one quiz |
| `CourseProgress` | the progress of one student in one course, and the badge it earns |
| `CoursePublishing` | the versions of one course: edits of the draft, publication, the next draft |
| `Accounts` | users, their sessions in PostgreSQL and in Redis, the requests they authenticate |
| `MediaWorkerProofs` | theorems about the worker: types, and what becomes of the original |
| `MediaJobsProofs` | theorems about the worker: jobs, tasks, derived files, and both refinements |
| `MediaUploadProofs`, `MediaSystemProofs`, `QuizAttemptsProofs`, `CourseProgressProofs`, `CoursePublishingProofs`, `AccountsProofs` | the theorems about the modules they are named after |
| `MCWorker`, `MCUpload`, `MCSystem`, `MCQuiz`, `MCProgress`, `MCPublishing`, `MCAccounts` | constants, constraints and symmetries of the instances that TLC checks |

A definition `F_Something` that stands before `F` is `F` with a plausible bug (a
dropped guard, a swapped order, an off by one). No specification uses it: put in
the place of `F`, it violates the property that `PROJECT.json` pairs it with.

### State and code

`MediaStore`. One resource has one asset (UNIQUE `resource_id`) and one job of
each type (idempotency key `asset:type`), so `jobs` is a function on the types.
A file is reduced to what the pipeline tells apart: clean, of a wrong type,
infected. The SHA256 of a file is the file itself, so a declared checksum names
an object. A deleted row is `NoResource`, `NoAsset`, `NoJob` or `NoUpload`, and an
UPDATE that finds none is no error (`Updated`). `video` stands for video and audio, `image` for everything that only
needs the scan. `title` stands for all the columns that the teacher edits.

`MediaWorker`. `pc[h]` is the next step of the goroutine `h` and `mem[h]` is what
it holds in memory: the id of the job in the payload, `job.Attempts`, the asset
and the resource as they were read. The steps follow `HandleJob`: `Load`
(FindJobByID and the early return), `MarkJobProcessing`, `LoadAsset`,
`FindResource` and `PutResource` (the two statements of
`setResourceProcessingStatus`), `Download`, `Inspect` (checksum and type),
`UpdateAsset`, `ScanVirus`, `FindNextJob`, `CreateNextJob`, `PublishNextJob`
(EnqueueJob), `UploadDerived`, `MarkJobDone`, `MarkJobFailed`, `Finish` (asynq
learns the result). A write that fails may have been committed (`Written`).
From outside: `Crash` and `RecoverLost`, `Timeout` (the 30 minutes; `HandleJob`
takes no context and its goroutine goes on, `owned[h] = FALSE`), `Requeue` (the
end of the shutdown timeout), `Vanish` (the orphan's process ends), `BeginEdit`
and `EndEdit` (`UpdateResource` of `courses`).

`MediaUpload`. `present` says that the resource is there. `DeleteResource` takes it, and
with it asset, jobs and sessions, which refer to it with ON DELETE CASCADE (migration
000004, lines 17-18, 46-47 and 80-81); tasks and objects stay, requests go on.
`uploads`, `multipart`, `parts` and `granted` are a session, what
the bucket knows of it, the parts that arrived and the signed URLs. Every object
belongs to one session (`initiate_upload.go:50-52` gives every upload its own
key). `opening` is the step of InitiateUpload, `rpc` and `rmem` those of
CompleteUpload.

`MediaSystem` has no step of its own: a step is one of the worker or one of the
API, on the shared rows; `present` is there the row of the resource that the worker
reads and writes, so a deletion takes it from under both. It instantiates both through their proof modules, so that
the lemmas about a part are at hand for the whole.

`QuizAttempts`. `qpc` and `qmem` are requests, `attempts` and `answers` the
rows, `late` the attempts whose deadline has passed, `receipts` the results the
client has seen, from submissions and from GETs. A grade is the pair of earned
and total points, with questions of one point each; percentage and `passed`
follow from it. An answer is right or not. `Abort` ends a request between two
statements: failed statements, dead processes and lost answers alike, since
nothing in these operations undoes or finishes anything after an error.

`CourseProgress`. `rows` is the table `resource_progress` of the student,
`events` counts the rows of `progress_events` of each quiz, `course` is the row of
`course_progress`, `template` and `badges` the badge of the course and what was
issued of it. `version` points into `Versions`, which gives what each
published version requires; a resource is its `stable_id`, which survives versions. A
percentage is the pair `done` of `of`. Active time is counted in steps up to
`MinActive`, which stands for `minCompletionSeconds`; `watched` says that the last
position passes 90 % of the video. `ppc` and `pmem` are the requests: a row is
found, changed in memory and put back whole; then come the events of a quiz; then
the recalculation reads tree, completed rows, passed quizzes and course, one
after the other, writes the course and, once it is approved, looks for a badge and
its template before it issues. `PublishVersion`, `CreateBadge` and `Revoke` are
the teacher and the administrator. `BeginSubmit` is the part of `SubmitAttempt`
after the graded attempt is stored, which a client may repeat. `once` and `alone`
are history: what was ever completed, and the call that no other one has
overlapped.

`CoursePublishing`. `status`, `meta` and `trees` are the versions of one course:
their status, whether their metadata pass the validation, and the rows of
modules, units and resources, by `stable_id`. `Parent` is the shape of the course.
`face` stands for what PATCH writes (title, position, visible, required),
`text` and `draft` for `content_markdown` and `content_draft_markdown`. `course`
holds the two pointers of the row of the course. A publication is `FindCourse`,
`LoadDraft` with `ValidatePublication`, `MarkPublished`, `MarkSuperseded`,
`PointPublished`; a draft of the published version is `LoadPublished`,
`NextVersionNumber`, `CreateVersion`, one `CopyNode` for each row and `PointDraft`; an edit
is `FindNode`, `CheckDraft` (`ensureVersionIsDraft`) and `WriteNode`, which names
the row and not the status. `overlapped` is history: two requests have run at one
time.

`Accounts`. `users` and `sessions` are the tables, `cache` the tokens of which
Redis keeps a copy of their user, `held` the tokens that a login answered. A request
with a token passes `Get`, `FindFresh`, `FindSession`, `FindOwner` and `Save`, the
two ways of the authenticator, and then `RequireRole`; what follows are the
statements of its operation. `Redis` is a command whose failure the code
ignores, `Evict` a key that Redis dropped. An update of a user reads the row, counts
the active administrators and writes the whole row back. `alone`, `crossed` and
`live` are history: requests without another one and without a failure, updates
of users that another update or the verification of the same user has met, requests
whose caller was active at some time in them.

In all three, `Abort` is a failed statement, a dead process or a refusal: it ends a
request between two statements, since nothing in these operations is undone.

## Runs

| Run | Question | Bounds |
|---|---|---|
| `WorkerFaults` | Is something rejected ever ready or converted, something accepted deleted, a manifest early, a job published twice? | 2 handlers, 2 attempts, 5 uploads, any 2 faults of 7 sorts (at most one of each sort), symmetric handlers |
| `WorkerLifecycle` | Does the row of a job follow `JobLifecycle`? | 2 handlers, 2 attempts, crash, tool, Redis and two statements fail; no goroutine outlives its delivery |
| `WorkerRetries` | Does every job end, do queue and rows agree at rest, is `PipelinePromise` kept? | 2 handlers, 3 attempts as in the code, every tool failure two jobs can meet, fairness |
| `UploadFaults` | Is what is closed stored, the scan published once, no multipart upload orphan? Does a confirmation that found its parts end with the scan published? | 2 sessions of one resource, 2 confirmations at once, one fault, its deletion at any time, fairness |
| `SystemReupload` | Does a second upload meanwhile break any of it, or the deletion of the resource? | a clean and an infected original, 1 handler, a dead worker and a failed call of the API, the deletion at any time |
| `QuizSubmissions` | One result for each attempt, one attempt for each key, bounded overrun, grades over the snapshot? | 2 requests, 3 attempts, 2 keys, 1 question, or 2 with one attempt, there from the start or added later, max_attempts 1, with and without deadline |
| `ProgressCourse` | Are completion and badge earned, is anything recorded twice, does a later call that runs alone bring course and badge up to date? | a video and a quiz, versions that require {video} and {video, quiz}, 2 requests |
| `PublishingFaults` | Are students served what was published, does a published version stay, is a draft whole, does a repetition repair? | one module, one unit, one resource, 3 versions, 2 requests of which one may be an edit |
| `AccountsFaults` | Does an administrator remain, is who was suspended refused, does a revocation reach both stores? | 2 users, 2 sessions, 2 requests, Redis commands that fail |

Why these bounds are enough. In the worker, a step of one handler can only be
disturbed through rows that another handler or the editor of the same resource
writes. Two handlers and the editor give every pair of writers, and the third
writer, if there is one, is the goroutine left by a timeout. The constraint
`TwoFaults` cuts behaviours with three faults or more in `WorkerFaults`; the
theorems below state all of its properties for any number of handlers, faults and
attempts. Attempts are 2 where
their number plays no part: the first that may be retried and the last. The
smallest overrun of `max_attempts` needs one slot and two starts. Two keys and
two requests give the same key twice, on one attempt or on two, and two keys on
one attempt. In `UploadFaults` one fault is enough to reach every error return
once; what two faults break (both the statement and the abort of the multipart
upload) is stated in the hypotheses of NoOrphanMultipart.

In the other modules a request only meets another one through the rows of one
student, one course or one user, so two requests give every pair of
statements; a third one mostly repeats what the second does. The
constraints of these runs, each in its MC module:

- `VideoTime`: active time is gathered on the video only; a quiz is completed by
  its submissions. The second version requires a quiz that the first did not, so
  that what was approved may no longer be complete.
- `FewEdits`: titles of modules and units stay, at most one of the two requests is an
  edit, and the third version appears only while no two requests have overlapped:
  it is for the retry of a draft that was left half copied. Only in the second version
  does the editor save an empty text.
- `FewOverlaps`: two calls at a time are updates, verifications or a call that only
  asks for its user, over good sessions; logins, revocations and new accounts run
  alone, after any number of them died or failed in one of the two stores.
- `OneOfTwoQuestions`: a quiz of two questions has one attempt, without a deadline.

They only limit what TLC explores: the theorems below state all of the properties of
these runs for every value of the constants and without constraints. Two requests alone would not have been
enough in one place: with three, an update that authenticated while an administrator
was there may write over a verification after the others have crossed, which is why
AdminRemains names the verification too.

### Disagreements

Three runs show a statement of the repository which the code does not keep; the
quotations are in `PROJECT.json`.

| Run | What happens |
|---|---|
| `SystemDeleted` | a second upload changes the checksum of the asset and not its key: the first original, intact, is deleted as corrupt |
| `QuizFinal` | a request that read the attempt before its submission writes it back as expired: key and grade are gone |
| `PublishingImmutable` | an edit that found the version to be a draft is written after its publication: what students are served changes |

The modules state other claims that the code does not keep, at their end, each
with the line it comes from. Any of them can be seen by adding it to the
configuration named here, as an INVARIANT, or as a PROPERTY where this says so:

- `OnlyEditsChangeTitle` (PROPERTY, `WorkerFaults.cfg`): the worker writes back the
  whole row of the resource, and an edit of the teacher is undone.
- `ArchivedOnlyIfDead` (`WorkerFaults.cfg`; it is kept while only the tools fail,
  see `WorkerRetries`): three deaths spend asynq's retries while the row says
  `processing` for ever.
- `DoneIsReady` (`WorkerFaults.cfg`): a death between the row of the conversion and
  its task; the redelivered scan publishes nothing and the conversion never runs.
- `NeverTwoAtOnce` (with `WorkerFaults.cfg`): `asynqueue.go:49-51` gives the 30
  minutes as what keeps a task from being delivered again while it is worked on.
- `ReadySlidesHavePdf` (with `WorkerRetries.cfg`): `convertPresentationToPDF`
  never sets `converted_pdf_key`, which `media.go:89` declares and
  `GetPlaybackURL` reads.
- `FailureIsShown` (with `WorkerFaults.cfg`): the dead letter and the failed
  status of the resource are separate statements, and a death between them
  leaves the resource in `processing` (`processor.go:62-64`).
- `EveryJobEnds` (with `WorkerFaults.cfg` and `FairSpec`, without its symmetry
  and constraint): a publication Redis refuses is never repeated, though
  `media.go:219-224` says that part can be retried.
- `NoCompletionAfterExpiry`, `CompletedIsWhole`, `CompletedHasAsset`, and
  `AssetIsTheNewOriginal` as a PROPERTY (with `UploadFaults.cfg`): CompleteUpload does
  not look at `expires_at` (`initiate_upload.go:87-89`), nor at the declared size
  (`api/openapi.yaml:704`), a failure after the session is closed leaves it
  without asset and scan, which no confirmation repeats, and `UpdateAsset` does not
  write the new key (`complete_upload.go:25-28`).
- `GradedOnSnapshot` (with `QuizSubmissions.cfg`): the submission is graded with
  the questions as they are by then, not with the snapshot (`README.md:730-731`).
- `SubmittedIsCompleted` (with `ProgressCourse.cfg`): a heartbeat that read the row
  before the submission writes it back as in progress (`README.md:750`).
- `ApprovedStays` (PROPERTY, `ProgressCourse.cfg`): the recalculation that read less
  writes last, and the approval is gone (`README.md:754-755`).
- `PublishedIsValid` (with `PublishingFaults.cfg`): an edit between the validation
  and the publication; what is served would not pass `ValidatePublication`
  (`publish.go:75`).
- `PublicationGoesForward` (PROPERTY, `PublishingFaults.cfg`): of two publications the
  older one writes the pointer last (`publish.go:75-77`).

## Fairness

`MediaWorker!Fairness`: asynq goes on delivering queued tasks and recovering
lost ones, which is what `asynq.Server` does while any worker runs, a started
goroutine goes on, and the teacher's PUT ends. No fault and no edit has to
happen. A crashed handler is free again: the instance group replaces dead
workers. `MediaUpload!Fairness`: a request that started goes on to its answer
(weak fairness of `RequestStep`). That is all: no client has to confirm an upload,
and none has to confirm it again, since the browser shows an error and waits for a click
(`CargaArchivo.tsx:135-139`). ConfirmedIsScanned therefore starts with a
confirmation that has found the parts. The two matter only to EveryJobEnds,
KeepsPromise and ConfirmedIsScanned.

The other modules assume no fairness: no part of the program repeats or finishes a
request of a quiz, of progress, of publishing or of accounts, and a client may
give up. What they say about repairs (AloneSettles, RetryRepairs,
RevocationIsComplete) is therefore safety: IF a later call runs alone to its end,
THEN all is in order.

## Proofs

Every safety property of the passing runs is a theorem: for every value of the
constants that the assumptions of the modules admit, which ask for no more than
types and disjoint sorts of files. Four theorems have hypotheses of their own, on
which sorts of faults may happen (`Limit`); they are given in the table, and the
property is false without them. The proofs take every invariant apart in the same
way: what the rows say is never inductive, because what breaks it sits in the memory
of a request that read a row earlier, so the invariant says what that memory must be.

### Worker

| Theorem | States |
|---|---|
| `MediaWorkerProofs!TypeCorrect` | `Spec => []TypeOK` |
| `ReadyIsAccepted` | `Spec => []ReadyOnlyIfAccepted` |
| `DerivedIsAccepted` | `Spec => []DerivedOnlyIfAccepted` |
| `AcceptedStays` | `Spec => []AcceptedIsKept` |
| `MediaJobsProofs!PublishesOnce` | `Spec => []PublishedOnce` |
| `ManifestIsComplete` | `Spec => []ManifestComplete` |
| `LifecycleFollowed` | `Spec => FollowsLifecycle`, without timeouts and requeues |
| `ArchivedIsDead` | `Spec => []ArchivedOnlyIfDead`, without these, crashes and failing statements |
| `CourseAgreesAtRest` | `Spec => []RestAgrees`, without these, refusals of Redis and edits |
| `PromiseIsFollowed` | `Spec => Promise!Init /\ [][Promise!Next]_stage`, under the same conditions |

`AcceptInv` is the invariant behind the first module. The copy of the asset that a
handler holds agrees with the row on key, kind and on whether the declared checksum
is the real one (`Agrees`); a handler past the scan holds an accepted original; a task
or a handler of a conversion exists only if the original is accepted; the row of the
resource that a handler or the editor holds says `ready` only if it is accepted; and
an accepted original is in the bucket. `AcceptStable` is the centre of the argument:
the asset is written back whole by handlers that read it at different times, and yet
no step changes its key or whether it is acceptable, since every copy agrees with the
row.

`MediaJobsProofs` first says once, in a lemma for each action of a handler, what it
changes (`LoadEffect` to `EndEffect`), then sorts the steps (`HandlerSorts`,
`StepSorts`) into those that work on, enqueue, end, are delivered, or happen aside.
The invariants that follow are proved by sort and not by action.

- `PublishInv`: a handler at `publish` is alone there, for a row that is there and a
  task that never was. The INSERT on the UNIQUE key is what lets one through.
- `RowsInv`: whoever runs a job finds its row and the asset.
- `ManifestInv`: the row, and every copy of it in memory, names the manifest only once
  the files are uploaded; a handler at the segments has uploaded the playlist.
- `LifeInv`, without timeouts and requeues: one delivery at a time runs a job
  (`RunInv`), and the attempts it holds are those of the row (`CountInv`). So its
  writes are steps of `JobLifecycle`, and every other step leaves the row alone.
- `AgreeInv`, if moreover processes live and statements succeed: between the two counts
  of attempts, the row of a running job is exactly one ahead of asynq's retries.
- `RestInv`, if moreover Redis answers and nobody edits. `ChainInv`: the conversion
  exists from the end of the scan on, and only then. `ShownInv`: the status of the
  resource is what the last job came to, unless its handler is still to write it.
  `PlaceInv`, `ScanInv` and `EndInv` say which job may be at which step. `Early` is the
  centre: a handler that is short of the end of its job runs the last job of the chain, or
  that one is not there yet; so of the several handlers that write the status of
  the resource, no two are ever able to contradict each other. `RestAgrees` and the
  steps of `PipelinePromise` follow from it.

None of the hypotheses can be dropped. With the limits of `WorkerRetries` and, besides,
up to three faults of any one sort that a theorem excludes, TLC finds its property
violated: a timeout or a requeue for `FollowsLifecycle`; these, a crash or a failed
statement for `ArchivedOnlyIfDead`; these, a refusal of Redis or an edit for
`RestAgrees` and for the steps of `PipelinePromise`. In short, what the pipeline
promises is kept under any failure of the tools and the bucket, and under no other.

### Upload

| Theorem | States |
|---|---|
| `MediaUploadProofs!TypeCorrect` | `Spec => []UploadTypeOK` |
| `ObjectsStored` | `Spec => []ClosedIsStored` |
| `ScannedOnce` | `Spec => []ScanPublishedOnce` |
| `NoneOrphaned` | `Spec => []NoOrphanMultipart` |

`TypeInv` adds to the types that the asset is the object of a closed session, and that
a confirmation past a statement finds what the statement wrote (`Shape`), as long as the
resource is there; `GoneInv`, that it has no rows once it is not, which no confirmation
that is still at work undoes.
`StoreInv`: a session is closed, or is about to be, only with its object in the bucket,
from which nothing in this part takes it. `ScanInv` is `PublishInv` for the
confirmations: of two of them at once, the one that inserted the job is the one that
publishes. `NoOrphanMultipart` is inductive with `TypeInv`.

### Composed system

| Theorem | States |
|---|---|
| `MediaSystemProofs!TypeCorrect` | `Spec => []SystemTypeOK` |
| `JobsPublishedOnce` | `Spec => []EveryJobPublishedOnce` |
| `RowsStandOrFallTogether` | `Spec => []RowsStandOrFall` |
| `ReadyIsClean` | `Spec => []ReadyOriginalIsClean` |

The invariant is the conjunction of invariants of the parts: of the worker `TypeOK`,
`PublishInv` and, as long as the resource is there, `RowsInv` and `CleanInv`; of the
upload `TypeInv`, `ScanInv` and `GoneInv`, that a deleted resource has no rows. A part
keeps its own by its own lemma, which is cited as it is; what is proved anew is that
neither disturbs the other: a step of the worker keeps the key of the asset, every
job and the publication of the scan (`WorkerKeepsUpload`), a confirmation only writes
jobs and tasks of the scan, and the asset as `UpdateAsset` does (`UploadKeepsWorker`).
Once the resource is gone, every write of a handler is an UPDATE that finds no row or an
INSERT without its parent (`WorkerOnceGone`, from `GoneNext` of the worker), and so is
every write of a confirmation (`GoneNext` of the upload), whatever each still holds in
memory.
`AcceptInv` is not among them, and rightly: a second upload changes the declared checksum
under the worker, which is what `SystemDeleted` shows. `CleanInv` is what
survives: nothing but a clean original is ever shown or converted, because the key never
changes and type and virus are judged on the object itself.

### Quizzes

| Theorem | States |
|---|---|
| `QuizAttemptsProofs!TypeCorrect` | `Spec => []QuizTypeOK` |
| `GradedOnce` | `Spec => []OneResult` |
| `KeysHold` | `Spec => []KeyNamesOneAttempt` |
| `OverrunBounded` | `Spec => []OverrunIsBounded` |
| `GradesCoverSnapshots` | `Spec => []GradeCoversSnapshot` |

`Shows` is a grade that a client was given, may read, or is about to be given by some
request. `GradeInv`: two grades shown for one attempt are equal, and it is closed in the
row, whatever an expiration writes over it. `CoverInv` compares each with the
snapshot; questions are only added. `StoredInv`: without a deadline the row itself
keeps the grade, hence the second half of KeyNamesOneAttempt. `KeyInv`: a key that
is stored belongs to one attempt. `OverrunInv` counts: created attempts, with the
requests that counted and have not inserted, are fewer than `max_attempts` and the
requests that may run at one time.

### Publishing

| Theorem | States |
|---|---|
| `CoursePublishingProofs!PublishingTypes` | `Spec => []PublishingTypeOK`, with the closed trees |
| `ServedIsPublished` | `Spec => []StudentsSeePublished` |
| `DraftsAreWhole` | `Spec => []DraftIsWhole` |
| `SealedVersionsStay` | `Spec => SealedStays` |
| `RetriesRepair` | `Spec => []RetryRepairs` |

A request acts on pointers and rows it read long ago, so the invariants speak of its
memory. `PublishedInv`: every copy of the published pointer, and every version a
request is about to point to, was published; no step takes that back
(`SealedStaysSealed`). `FreeInv`: a number that is not taken has no rows, and no request
knows of it but one that is to insert it. `CopyInv`: the version that a request
is copying is a draft that neither the course nor another request knows of, so
nobody edits it, and what it has so far is part of what was read. `CheckedInv`: a
request that is to write a row has found its version to be a draft. `NumbersInv`, for
every interleaving: the numbers of the versions have no gap, so their count gives a free
one. `SoloInv`, as long as no two requests have run at one time: what the rows of the
course are between any two statements (`CourseInv`), and what the only request knows of
them (`SoloShape`); a request may stop after any of these statements, and `CourseInv` is
what makes its repetition end well.

### Progress and badges

| Theorem | States |
|---|---|
| `CourseProgressProofs!ProgressTypes` | `Spec => []ProgressTypeOK`: no percentage is over 100 |
| `CompletionsAreEarned` | `Spec => []CompletedIsEarned` |
| `BadgesAreEarned` | `Spec => []BadgeIsEarned` |
| `OneRecord` | `Spec => []RecordedOnce` |
| `AloneCallSettles` | `Spec => []AloneSettles` |
| `AloneCallKeeps` | `Spec => AloneKeepsCompleted` |

`EarnedInv` extends CompletedIsEarned to every row that a request is to write back:
that is why overwriting a newer row may lose time, and never earns any. `OnceInv`
bounds events and badges by what the statements allow. `BadgeInv` says what a
recalculation has gathered at each step: a tree that some published version
required, completed resources that were all completed at some time, quizzes that were passed;
these facts are stable, so what was read at different times can be combined.
`AloneInv` gives, for a call that nothing has overlapped, how far it came: its
memory agrees with the tables it has read.

### Accounts

| Theorem | States |
|---|---|
| `AccountsProofs!AccountsTypes` | `Spec => []AccountsTypeOK` |
| `OnlyActiveAreServed` | `Spec => []OnlyActiveServed` |
| `AnAdminRemains` | `Spec => AdminRemains` |
| `RevocationsAreComplete` | `Spec => []RevocationIsComplete` |

`Shape` says what a request holds at each step. `LiveInv`: a request whose user is
active now is in `live`, whichever step made the user active. `CrossInv`: an update
that has met no other one is the only one, and what it is about to write leaves an
administrator, because nothing but creations and verifications of other users ran
since it counted. `AloneInv`: the sessions that a revocation is to end are revoked, and
those that Redis may still hold are in its list.

### Only model-checked

EveryJobEnds, ConfirmedIsScanned, and the fairness of KeepsPromise: liveness is out of
the prover's reach and stays with TLC, on the bounds of `WorkerRetries` and
`UploadFaults`. The safety of KeepsPromise is the theorem `PromiseIsFollowed`; of
FollowsLifecycle, which states no fairness, nothing is left. That the disagreements are
reachable is shown by TLC's counterexamples, which no proof could replace.

## Not modelled

The local working directory of a job is private to a handler in the model; two
deliveries of one job in one process share it. The delays between retries, the
retention of finished tasks and the alerts are left out. `ExpireStaleUploadSessions`
is never called. The read endpoints only read. Creating a quiz or an option does
not touch an attempt beyond what adding a question does. A quiz whose `max_attempts` is
NULL makes no count (`service.go:185`): with as many attempts as a student ever starts,
it behaves as one whose limit is higher, and OverrunIsBounded says nothing of it.

Deletion of a resource: the deletion of its unit or module is the same cascade. The
objects and multipart uploads that a deletion leaves in the bucket, which nothing
removes, are in the model, and no property speaks of them. `MediaWorker` on its own takes
the resource to be there; `MediaUpload` and `MediaSystem` delete it.

Progress: `UpdatePosition` of the service has no route; the student is taken to be
enrolled all the time; events that nothing reads are not state. Publishing: the
SELECTs that load one tree, or a node with its parents, are one step; positions
and titles are one attribute; resources are of rich text, which leaves the
processing status of a video out of `ValidatePublication`. Accounts: passwords and the tokens that reset them, the
log of audits and the end of a session by time; a student and a teacher are the
same role.

The rest of the inventory is planned below, or only reads and converts.

## Plan

1. `QuizAttempts` composed with `CourseProgress`: the submission that is final in
   one and repeated in the other.
2. `Enrollment`: the same student enrolling twice at once and withdrawing
   meanwhile; then the enrollment as a guard of `CourseProgress`.
3. `Replica`: readiness, drain and shutdown of API and worker.
4. Reset tokens in `Accounts`, a token that is used once.
5. Theorems about what these add: that a token is used once; an enrollment for each
   student and course; and, once quizzes and progress are composed, that the approval a
   student is shown goes back to a grade that was given.

The set of runs stays small: a new component takes one run for its safety, one
for its liveness if it has any, and one for a disagreement worth showing, and
merges with an existing run where the question is the same.
