----------------------------- MODULE MediaUpload -----------------------------
(***************************************************************************)
(* The upload of an original for one resource: InitiateUpload,             *)
(* GetUploadPartURL and CompleteUpload of internal/media/usecase, called   *)
(* by replicated API processes for the same resource, on the same or on    *)
(* different sessions, each statement and each call to the bucket being a  *)
(* step.                                                                   *)
(*                                                                         *)
(* Every session has a storage key of its own, so a session IS the object  *)
(* it will leave in the bucket.  Ownership checks read rows that nothing   *)
(* here writes, and are left out.  The resource may be deleted at any      *)
(* time, under the requests that found it.                                 *)
(***************************************************************************)
EXTENDS MediaStore

CONSTANTS
    Requests,      \* calls of CompleteUpload that may run at one time
    Kind,          \* mediaKindForResource of the resource
    Declarations,  \* the checksums the client may declare for each session
    MaxFaults      \* how many calls may fail or die

ASSUME UploadAssumption ==
    /\ Kind \in Kinds
    /\ Declarations \in [Objects -> SUBSET (Objects \cup {Null})]
    /\ MaxFaults \in Nat

VARIABLES
    jobs, asset, tasks, published, store,  \* as in MediaWorker
    present,    \* the row of the resource is there
    uploads,    \* upload_sessions: status and declared checksum
    multipart,  \* the multipart upload of each session in the bucket
    parts,      \* how much of each file reached its multipart upload
    granted,    \* sessions for which the client holds a part URL
    expired,    \* sessions whose expires_at has passed
    truncated,  \* objects assembled without all their parts
    opening,    \* progress of InitiateUpload for each session
    rpc,        \* next step of each CompleteUpload
    rmem,       \* what each CompleteUpload holds in memory
    faults      \* calls that failed or died, bounded by MaxFaults

shared   == <<jobs, asset, tasks, published, store, present>>
sessions == <<uploads, granted, expired>>
objects  == <<multipart, parts, truncated>>
upVars   == <<jobs, asset, tasks, published, store, present, uploads, multipart,
              parts, granted, expired, truncated, opening, rpc, rmem, faults>>

UploadStatus == {"none", "uploading", "completed"}

Upload == [status: UploadStatus, sum: Objects \cup {Null}]

NoUpload == [status |-> "none", sum |-> Null]

RPC == {"idle", "list", "assemble", "stat", "close", "findAsset", "putAsset",
        "findJob", "createJob", "publish"}

Request == [session: Objects \cup {Null},
            whole:   BOOLEAN,     \* the parts that were listed are all
            doc:     AssetRow]    \* the asset as it was read, or NoAsset

NoRequest == [session |-> Null, whole |-> FALSE, doc |-> NoAsset]

Init ==
    /\ jobs = [j \in JobTypes |-> NoJob]
    /\ asset = NoAsset
    /\ tasks = [j \in JobTypes |-> NoTask]
    /\ published = [j \in JobTypes |-> 0]
    /\ store = {}
    /\ present = TRUE
    /\ uploads = [s \in Objects |-> NoUpload]
    /\ multipart = [s \in Objects |-> "none"]
    /\ parts = [s \in Objects |-> "none"]
    /\ granted = {}
    /\ expired = {}
    /\ truncated = {}
    /\ opening = [s \in Objects |-> "none"]
    /\ rpc = [r \in Requests |-> "idle"]
    /\ rmem = [r \in Requests |-> NoRequest]
    /\ faults = 0

-----------------------------------------------------------------------------
(* Outcomes *)

Fault == faults < MaxFaults /\ faults' = faults + 1

\* A call succeeds, or fails and spends one of the faults allowed.
Answer(ok) == IF ok THEN UNCHANGED faults ELSE Fault

\* A write whose answer is an error may have taken effect or not.
Effect(ok, old, new) == IF ok THEN {new} ELSE {old, new}

To(r, step) == rpc' = [rpc EXCEPT ![r] = step]

\* The request answers its client, with an error or not.
Return(r) == /\ rpc' = [rpc EXCEPT ![r] = "idle"]
             /\ rmem' = [rmem EXCEPT ![r] = NoRequest]

\* To the next step if the call succeeded, else back to the client.
Proceed(r, ok, step) ==
    IF ok THEN To(r, step) /\ UNCHANGED rmem ELSE Return(r)

-----------------------------------------------------------------------------
(* InitiateUpload *)

Open(s, step) == opening' = [opening EXCEPT ![s] = step]

\* The handler found the resource before, so it may be gone by now.
OpenMultipart(s) ==
    /\ opening[s] = "none"
    /\ \E ok \in BOOLEAN :
        /\ Answer(ok)
        /\ multipart' \in Effect(ok, multipart, [multipart EXCEPT ![s] = "open"])
        /\ Open(s, IF ok THEN "opened" ELSE "lost")
    /\ UNCHANGED <<shared, sessions, parts, truncated, rpc, rmem>>

\* The INSERT fails on the foreign key when the resource is gone.
CreateUploadSession(s) ==
    /\ opening[s] = "opened"
    /\ \/ /\ ~present
          /\ Open(s, "failed")
          /\ UNCHANGED <<uploads, faults>>
       \/ /\ present
          /\ \E ok \in BOOLEAN, sum \in Declarations[s] :
              /\ Answer(ok)
              /\ uploads' \in Effect(ok, uploads,
                     [uploads EXCEPT ![s] = [status |-> "uploading", sum |-> sum]])
              /\ Open(s, IF ok THEN "over" ELSE "failed")
    /\ UNCHANGED <<shared, objects, granted, expired, rpc, rmem>>

\* The error of AbortMultipartUpload is discarded.
AbortedMultipart_Forgotten(m, s) == m

AbortedMultipart(m, s) == [m EXCEPT ![s] = "aborted"]

AbortMultipart(s) ==
    /\ opening[s] = "failed"
    /\ \E ok \in BOOLEAN :
        /\ Answer(ok)
        /\ multipart' \in Effect(ok, multipart, AbortedMultipart(multipart, s))
        /\ Open(s, IF ok THEN "over" ELSE "lost")
    /\ UNCHANGED <<shared, sessions, parts, truncated, rpc, rmem>>

-----------------------------------------------------------------------------
(* The 24 hours of the session, and the parts the browser sends by itself *)

Expire(s) ==
    /\ uploads[s].status = "uploading"
    /\ s \notin expired
    /\ expired' = expired \cup {s}
    /\ UNCHANGED <<shared, objects, uploads, granted, opening, rpc, rmem, faults>>

\* sessionGuard: what GetUploadPartURL and ListUploadedParts require.
Resumable(s) == uploads[s].status = "uploading" /\ s \notin expired

GetUploadPartURL(s) ==
    /\ Resumable(s)
    /\ s \notin granted
    /\ granted' = granted \cup {s}
    /\ UNCHANGED <<shared, objects, uploads, expired, opening, rpc, rmem, faults>>

\* A PUT on a signed URL goes to the bucket and not through the API.
PutPart(s) ==
    /\ s \in granted
    /\ multipart[s] = "open"
    /\ \/ parts[s] = "none" /\ parts' = [parts EXCEPT ![s] = "some"]
       \/ parts[s] = "some" /\ parts' = [parts EXCEPT ![s] = "all"]
    /\ UNCHANGED <<shared, sessions, multipart, truncated, opening, rpc, rmem, faults>>

-----------------------------------------------------------------------------
(* CompleteUpload, up to the closed session *)

\* The early return of a completed session only reads: the client gets the
\* asset of the resource, or ErrNotFound.
ConfirmAgain(s) == uploads[s].status = "completed" /\ UNCHANGED upVars

FindSession(r, s) ==
    /\ rpc[r] = "idle"
    /\ uploads[s].status = "uploading"
    /\ To(r, "list")
    /\ rmem' = [rmem EXCEPT ![r].session = s]
    /\ UNCHANGED <<shared, sessions, objects, opening, faults>>

\* The session is closed only after its object was put together and seen.
AfterListing_CloseFirst == "close"

AfterListing == "assemble"

\* ListParts of an upload that is not open, or has no part, is an error.
ListParts(r) ==
    /\ rpc[r] = "list"
    /\ LET s == rmem[r].session
       IN  \E ok \in BOOLEAN :
            /\ Answer(ok)
            /\ IF ok /\ multipart[s] = "open" /\ parts[s] # "none"
               THEN /\ To(r, AfterListing)
                    /\ rmem' = [rmem EXCEPT ![r].whole = (parts[s] = "all")]
               ELSE Return(r)
    /\ UNCHANGED <<shared, sessions, objects, opening>>

\* The object is made of the parts that were listed.
CompleteMultipart(r) ==
    /\ rpc[r] = "assemble"
    /\ LET s == rmem[r].session
       IN  \/ /\ multipart[s] # "open"
              /\ Return(r)
              /\ UNCHANGED <<multipart, truncated, store, faults>>
           \/ /\ multipart[s] = "open"
              /\ \E ok, done \in BOOLEAN :
                  /\ ok => done
                  /\ Answer(ok)
                  /\ Proceed(r, ok, "stat")
                  /\ IF done
                     THEN /\ multipart' = [multipart EXCEPT ![s] = "assembled"]
                          /\ store' = store \cup {s}
                          /\ truncated' = truncated \cup
                                 (IF rmem[r].whole THEN {} ELSE {s})
                     ELSE UNCHANGED <<multipart, truncated, store>>
    /\ UNCHANGED <<jobs, asset, tasks, published, present, sessions, parts, opening>>

StatObject(r) ==
    /\ rpc[r] = "stat"
    /\ \E ok \in BOOLEAN :
        /\ Answer(ok)
        /\ Proceed(r, ok /\ rmem[r].session \in store, "close")
    /\ UNCHANGED <<shared, sessions, objects, opening>>

CloseSession(r) ==
    /\ rpc[r] = "close"
    /\ \E ok \in BOOLEAN :
        /\ Answer(ok)
        /\ uploads' \in Effect(ok, uploads,
               [uploads EXCEPT ![rmem[r].session] =
                   Updated(@, NoUpload, [@ EXCEPT !.status = "completed"])])
        /\ Proceed(r, ok, "findAsset")
    /\ UNCHANGED <<shared, objects, granted, expired, opening>>

-----------------------------------------------------------------------------
(* CompleteUpload, from the closed session to the published scan *)

FindAsset(r) ==
    /\ rpc[r] = "findAsset"
    /\ \E ok \in BOOLEAN :
        /\ Answer(ok)
        /\ IF ok
           THEN To(r, "putAsset") /\ rmem' = [rmem EXCEPT ![r].doc = asset]
           ELSE Return(r)
    /\ UNCHANGED <<shared, sessions, objects, opening>>

\* The row of a new original: no derived file belongs to it.
NewOriginal(s) == [kind |-> Kind, key |-> s, sum |-> uploads[s].sum,
                   hls |-> FALSE, pdf |-> FALSE]

\* The INSERT fails on UNIQUE (resource_id) when the row is there, and on the
\* foreign key when the resource is gone.
CreateAsset(r) ==
    /\ rpc[r] = "putAsset" /\ rmem[r].doc = NoAsset
    /\ \/ /\ asset # NoAsset \/ ~present
          /\ Return(r)
          /\ UNCHANGED <<asset, faults>>
       \/ /\ asset = NoAsset /\ present
          /\ \E ok \in BOOLEAN :
              /\ Answer(ok)
              /\ asset' \in Effect(ok, asset, NewOriginal(rmem[r].session))
              /\ Proceed(r, ok, "findJob")
    /\ UNCHANGED <<jobs, tasks, published, store, present, sessions, objects, opening>>

\* A resource that had an original: the kind and the id stay.
ReplaceAsset(r) ==
    /\ rpc[r] = "putAsset" /\ rmem[r].doc # NoAsset
    /\ \E ok \in BOOLEAN :
        /\ Answer(ok)
        /\ asset' \in Effect(ok, asset, UpdatedAsset(asset,
               [NewOriginal(rmem[r].session) EXCEPT !.kind = rmem[r].doc.kind]))
        /\ Proceed(r, ok, "findJob")
    /\ UNCHANGED <<jobs, tasks, published, store, present, sessions, objects, opening>>

\* EnqueueJob: an existing job ends the call, nothing is published.
AfterFindScan_Inverted(row) == IF row = NoJob THEN "idle" ELSE "createJob"
AfterFindScan_Republish(row) == IF row = NoJob THEN "createJob" ELSE "publish"

AfterFindScan(row) == IF row = NoJob THEN "createJob" ELSE "idle"

FindScanJob(r) ==
    /\ rpc[r] = "findJob"
    /\ \E ok \in BOOLEAN :
        LET next == AfterFindScan(jobs["scan"])
        IN  /\ Answer(ok)
            /\ Proceed(r, ok /\ next # "idle", next)
    /\ UNCHANGED <<shared, sessions, objects, opening>>

CreateScanJob(r) ==
    /\ rpc[r] = "createJob"
    /\ \/ /\ jobs["scan"] # NoJob \/ asset = NoAsset
          /\ Return(r)
          /\ UNCHANGED <<jobs, faults>>
       \/ /\ jobs["scan"] = NoJob /\ asset # NoAsset
          /\ \E ok \in BOOLEAN :
              /\ Answer(ok)
              /\ jobs' \in Effect(ok, jobs, [jobs EXCEPT !["scan"] = CreatedJob])
              /\ Proceed(r, ok, "publish")
    /\ UNCHANGED <<asset, tasks, published, store, present, sessions, objects, opening>>

PublishScanJob(r) ==
    /\ rpc[r] = "publish"
    /\ \E ok \in BOOLEAN :
        /\ Answer(ok)
        /\ \/ /\ tasks' = [tasks EXCEPT !["scan"] = NewTask]
              /\ published' = [published EXCEPT !["scan"] = @ + 1]
           \/ ~ok /\ UNCHANGED <<tasks, published>>
    /\ Return(r)
    /\ UNCHANGED <<jobs, asset, store, present, sessions, objects, opening>>

RequestStep(r) ==
    \/ ListParts(r)    \/ CompleteMultipart(r) \/ StatObject(r)
    \/ CloseSession(r) \/ FindAsset(r)         \/ CreateAsset(r)
    \/ ReplaceAsset(r) \/ FindScanJob(r)       \/ CreateScanJob(r)
    \/ PublishScanJob(r)

-----------------------------------------------------------------------------

\* The API process dies in the middle of a call.
CrashRequest(r) ==
    /\ rpc[r] # "idle"
    /\ Fault
    /\ Return(r)
    /\ UNCHANGED <<shared, sessions, objects, opening>>

CrashInitiate(s) ==
    /\ opening[s] \in {"opened", "failed"}
    /\ Fault
    /\ Open(s, "lost")
    /\ UNCHANGED <<shared, sessions, objects, rpc, rmem>>

\* The teacher deletes the resource, or the unit or module it is in: what
\* refers to it goes with it, in one statement.
DeleteResource ==
    /\ present
    /\ present' = FALSE
    /\ jobs' = [j \in JobTypes |-> NoJob]
    /\ asset' = NoAsset
    /\ uploads' = [s \in Objects |-> NoUpload]
    /\ UNCHANGED <<tasks, published, store, objects, granted, expired, opening,
                   rpc, rmem, faults>>

Next ==
    \/ \E s \in Objects : OpenMultipart(s)
    \/ \E s \in Objects : CreateUploadSession(s)
    \/ \E s \in Objects : AbortMultipart(s)
    \/ \E s \in Objects : Expire(s)
    \/ \E s \in Objects : GetUploadPartURL(s)
    \/ \E s \in Objects : PutPart(s)
    \/ \E s \in Objects : ConfirmAgain(s)
    \/ \E r \in Requests, s \in Objects : FindSession(r, s)
    \/ \E r \in Requests : RequestStep(r)
    \/ \E r \in Requests : CrashRequest(r)
    \/ \E s \in Objects : CrashInitiate(s)
    \/ DeleteResource

Spec == Init /\ [][Next]_upVars

\* A request that started runs to its answer.  No client is required to ask
\* for anything, nor to ask again after an error.
Fairness == \A r \in Requests : WF_upVars(RequestStep(r))

FairSpec == Spec /\ Fairness

-----------------------------------------------------------------------------
(* Properties *)

UploadTypeOK ==
    /\ jobs \in [JobTypes -> JobRow]
    /\ asset \in AssetRow
    /\ tasks \in [JobTypes -> Task]
    /\ published \in [JobTypes -> Nat]
    /\ store \subseteq Objects
    /\ present \in BOOLEAN
    /\ uploads \in [Objects -> Upload]
    /\ multipart \in [Objects -> {"none", "open", "assembled", "aborted"}]
    /\ parts \in [Objects -> {"none", "some", "all"}]
    /\ granted \subseteq Objects
    /\ expired \subseteq Objects
    /\ truncated \subseteq Objects
    /\ opening \in [Objects -> {"none", "opened", "failed", "over", "lost"}]
    /\ rpc \in [Requests -> RPC]
    /\ rmem \in [Requests -> Request]
    /\ faults \in 0..MaxFaults

\* A session is closed only after its object is in the bucket, and the asset
\* refers to the object of a closed session, whatever fails in between and
\* however many confirmations of the session run at once.
ClosedIsStored ==
    /\ \A s \in Objects : uploads[s].status = "completed" => s \in store
    /\ asset # NoAsset => uploads[asset.key].status = "completed"

\* Confirmations of the same upload, of two uploads, and their repetitions
\* publish the scan of the resource once, and only for an asset that exists.
ScanPublishedOnce ==
    /\ published["scan"] <= 1
    /\ jobs["scan"] # NoJob => asset # NoAsset

\* If Postgres fails after the bucket opened the multipart upload, and neither
\* the process nor the bucket fails too, InitiateUpload leaves no upload in the
\* bucket that no session knows of, as long as the resource is there: deleting
\* it takes the sessions and leaves their uploads open.
NoOrphanMultipart ==
    \A s \in Objects :
        opening[s] = "over" /\ multipart[s] = "open" /\ present
            => uploads[s].status # "none"

\* A confirmation that found the parts of its upload ends with the scan of the
\* resource published, by itself or by another one it raced, though each gives
\* up when a row it was about to insert is there; unless a call fails or the
\* resource is deleted.  Nobody has to confirm again.
ConfirmedIsScanned ==
    \A r \in Requests :
        rpc[r] = "assemble" ~> published["scan"] > 0 \/ faults > 0 \/ ~present

-----------------------------------------------------------------------------
(* Claims of the repository that this code does not keep *)

\* complete_upload.go:39-40: the confirmation of a completed session gives
\* back the existing asset instead of failing.
CompletedHasAsset ==
    \A s \in Objects :
        uploads[s].status = "completed" /\ (\A r \in Requests : rpc[r] = "idle")
            => asset # NoAsset

\* initiate_upload.go:87-89: sessionGuard (with its ErrUploadExpired) guards
\* CompleteUpload too.
NoCompletionAfterExpiry ==
    [][\A s \in expired :
           uploads'[s].status = "completed" => uploads[s].status = "completed"]_upVars

\* openapi.yaml:704: confirming verifies the size before it closes the session.
CompletedIsWhole ==
    \A s \in Objects : uploads[s].status = "completed" => s \notin truncated

\* complete_upload.go:25-28: the confirmation of a new original updates the
\* asset, which from then on is the object of the new session.
AssetIsTheNewOriginal ==
    [][\A r \in Requests, s \in Objects :
           ReplaceAsset(r) /\ rmem[r].session = s /\ asset' # asset
               => asset'.key = s]_upVars
=============================================================================
