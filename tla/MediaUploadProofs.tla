-------------------------- MODULE MediaUploadProofs --------------------------
(***************************************************************************)
(* Safety of the upload of an original, for any number of sessions, of     *)
(* confirmations that run at once and of failed calls.                     *)
(***************************************************************************)
EXTENDS MediaUpload, TLAPS

-----------------------------------------------------------------------------
(* Types, and what a request knows of its session *)

\* Steps of a confirmation that closed its session.
Closed == {"findAsset", "putAsset", "findJob", "createJob", "publish"}

\* Steps of a confirmation that has the asset of its resource.
Cataloged == {"findJob", "createJob", "publish"}

\* What a confirmation already did is in the rows, until they are deleted.
Shape(r) ==
    /\ rpc[r] # "idle" => rmem[r].session \in Objects
    /\ present =>
           /\ rpc[r] # "idle" => uploads[rmem[r].session].status # "none"
           /\ rpc[r] \in Closed => uploads[rmem[r].session].status = "completed"
           /\ rmem[r].doc # NoAsset => asset # NoAsset
           /\ rpc[r] \in Cataloged => asset # NoAsset

\* The asset is the object of a closed session.
AssetInv ==
    asset # NoAsset => /\ asset.key \in Objects
                       /\ uploads[asset.key].status = "completed"

TypeInv ==
    /\ UploadTypeOK /\ AssetInv
    /\ \A s \in Objects : opening[s] \in {"none", "opened"} => uploads[s] = NoUpload
    /\ \A r \in Requests : Shape(r)

\* Every row, task and memory the steps build has its type.
LEMMA RowTypes ==
    /\ NoJob \in JobRow /\ CreatedJob \in JobRow /\ NoTask \in Task /\ NewTask \in Task
    /\ NoAsset \in AssetRow /\ NoUpload \in Upload /\ NoRequest \in Request
<1>1. NoJob \in JobRow /\ CreatedJob \in JobRow
  BY DEF NoJob, CreatedJob, JobRow, JobStatus
<1>2. NoTask \in Task /\ NewTask \in Task
  BY DEF NoTask, NewTask, Task, TaskState
<1>3. NoAsset \in AssetRow /\ NoUpload \in Upload
  BY DEF NoAsset, AssetRow, Kinds, NoUpload, Upload, UploadStatus
<1>4. NoRequest \in Request
  BY <1>3 DEF NoRequest, Request
<1>5. QED
  BY <1>1, <1>2, <1>3, <1>4

\* The fields of a session, of a request and of what it read.
LEMMA RequestFields ==
    ASSUME UploadTypeOK, NEW r \in Requests
    PROVE  /\ rmem[r] \in Request /\ rmem[r].session \in Objects \cup {Null}
           /\ rmem[r].whole \in BOOLEAN /\ rmem[r].doc \in AssetRow
  BY DEF UploadTypeOK, Request

\* The row of a new original, and the row that a new original replaces.
LEMMA OriginalTypes ==
    ASSUME UploadTypeOK, NEW s \in Objects, NEW k \in Kinds
    PROVE  /\ NewOriginal(s) \in AssetRow /\ NewOriginal(s).key = s
           /\ LET new == UpdatedAsset(asset, [NewOriginal(s) EXCEPT !.kind = k])
              IN  asset # NoAsset => new \in AssetRow /\ new.key = asset.key
<1>1. NewOriginal(s) = [kind |-> Kind, key |-> s, sum |-> uploads[s].sum,
                        hls |-> FALSE, pdf |-> FALSE]
  BY DEF NewOriginal
<1>2. /\ uploads[s].sum \in Objects \cup {Null} /\ asset.key \in Objects \cup {Null}
      /\ Kind \in Kinds
  BY UploadAssumption DEF UploadTypeOK, Upload, AssetRow
<1>3. NewOriginal(s) \in AssetRow /\ NewOriginal(s).key = s
  BY <1>1, <1>2 DEF AssetRow
<1> DEFINE doc == [NewOriginal(s) EXCEPT !.kind = k]
           new == UpdatedAsset(asset, doc)
<1>4. doc \in AssetRow
  BY <1>3 DEF AssetRow
<1> HIDE DEF doc
<1>5. asset # NoAsset => new \in AssetRow /\ new.key = asset.key
  BY <1>2, <1>4 DEF UpdatedAsset, Updated, AssetRow
<1>6. QED
  BY <1>3, <1>5 DEF doc

-----------------------------------------------------------------------------
(* The steps, by what they change *)

\* A step of one confirmation leaves what the others hold alone.
Mine(r) == \A q \in Requests \ {r} : rpc'[q] = rpc[q] /\ rmem'[q] = rmem[q]

\* A request returns to its client.
Returns(r) == Mine(r) /\ rpc'[r] = "idle" /\ rmem'[r] = NoRequest

\* A request goes on with the same session.
GoesOn(r, step) ==
    Mine(r) /\ rpc'[r] = step /\ rmem'[r].session = rmem[r].session

\* What the end of a request leaves.
LEMMA ReturnEffect ==
    ASSUME UploadTypeOK, NEW r \in Requests, Return(r)
    PROVE  Returns(r)
  BY DEF Return, Returns, Mine, UploadTypeOK

\* A call is answered and the request goes on or returns.
LEMMA ProceedEffect ==
    ASSUME UploadTypeOK, NEW r \in Requests, NEW ok \in BOOLEAN, NEW step,
           Proceed(r, ok, step)
    PROVE  \/ ok /\ GoesOn(r, step) /\ rmem' = rmem
           \/ ~ok /\ Returns(r)
  BY ReturnEffect DEF Proceed, To, GoesOn, Mine, UploadTypeOK

\* The faults are counted and bounded.
LEMMA FaultEffect ==
    ASSUME UploadTypeOK, Fault \/ \E ok \in BOOLEAN : Answer(ok)
    PROVE  faults' \in 0..MaxFaults
  BY UploadAssumption DEF Answer, Fault, UploadTypeOK

-----------------------------------------------------------------------------
(* The type invariant is inductive *)

\* What no step but the deletion undoes: a closed session and the asset.
Stays ==
    /\ present' = present
    /\ \A s \in Objects :
           /\ uploads[s].status = "completed" => uploads'[s].status = "completed"
           /\ uploads[s].status # "none" => uploads'[s].status # "none"
    /\ asset # NoAsset => asset' # NoAsset /\ asset'.key = asset.key

\* A request that does not move keeps what it knows.
LEMMA ShapeKept ==
    ASSUME UploadTypeOK, Stays, NEW q \in Requests, Shape(q),
           rpc'[q] = rpc[q], rmem'[q] = rmem[q]
    PROVE  Shape(q)'
  BY RequestFields DEF Shape, Stays, Closed, Cataloged

\* A request that returned knows nothing.
LEMMA ShapeReturned ==
    ASSUME NEW r \in Requests, Returns(r)
    PROVE  Shape(r)'
  BY DEF Returns, Shape, NoRequest, Closed, Cataloged

\* A step of one request, its own shape kept, keeps all the shapes.
LEMMA ShapesKept ==
    ASSUME UploadTypeOK, \A q \in Requests : Shape(q), Stays,
           NEW r \in Requests, Mine(r), Shape(r)'
    PROVE  \A q \in Requests : Shape(q)'
  BY ShapeKept DEF Mine

\* No row, no object and no request at the beginning.
LEMMA TypeInit == Init => TypeInv
<1> SUFFICES ASSUME Init PROVE TypeInv
  OBVIOUS
<1>1. UploadTypeOK
  BY RowTypes, UploadAssumption DEF Init, UploadTypeOK, RPC
<1>2. QED
  BY <1>1 DEF Init, TypeInv, AssetInv, Shape, NoRequest, NoUpload, Closed, Cataloged

\* Steps outside the confirmations touch neither the asset nor closed sessions.
LEMMA TypeOutside ==
    ASSUME TypeInv, NEW s \in Objects,
           \/ OpenMultipart(s)    \/ CreateUploadSession(s) \/ AbortMultipart(s)
           \/ Expire(s)           \/ GetUploadPartURL(s)    \/ PutPart(s)
           \/ ConfirmAgain(s)     \/ CrashInitiate(s)
    PROVE  TypeInv'
<1> USE DEF shared, sessions, objects
<1>t. UploadTypeOK /\ AssetInv /\ \A q \in Requests : Shape(q)
  BY DEF TypeInv
<1>f. ASSUME Fault \/ \E ok \in BOOLEAN : Answer(ok) PROVE faults' \in 0..MaxFaults
  BY <1>t, <1>f, FaultEffect
<1>q. ASSUME UNCHANGED <<asset, present, uploads, rpc, rmem>>
      PROVE  AssetInv' /\ \A q \in Requests : Shape(q)'
  BY <1>t, <1>q DEF AssetInv, Shape
<1>1. CASE OpenMultipart(s)
  <2>1. /\ faults' \in 0..MaxFaults /\ opening[s] = "none"
        /\ opening' \in {[opening EXCEPT ![s] = "opened"], [opening EXCEPT ![s] = "lost"]}
        /\ multipart' \in {multipart, [multipart EXCEPT ![s] = "open"]}
        /\ UNCHANGED <<shared, sessions, parts, truncated, rpc, rmem>>
    BY <1>1, <1>f DEF OpenMultipart, Effect, Open
  <2>2. UploadTypeOK'
    BY <1>t, <2>1 DEF UploadTypeOK
  <2>3. \A o \in Objects : opening'[o] \in {"none", "opened"} =>
            opening[o] \in {"none", "opened"}
    BY <1>t, <2>1 DEF UploadTypeOK
  <2>4. QED
    BY <1>q, <2>1, <2>2, <2>3 DEF TypeInv
<1>2. CASE CreateUploadSession(s)
  <2>1. PICK sum \in Objects \cup {Null} :
           /\ faults' \in 0..MaxFaults /\ opening[s] = "opened"
           /\ opening' \in {[opening EXCEPT ![s] = "over"], [opening EXCEPT ![s] = "failed"]}
           /\ uploads' \in {uploads, [uploads EXCEPT ![s] = [status |-> "uploading", sum |-> sum]]}
           /\ UNCHANGED <<shared, objects, granted, expired, rpc, rmem>>
    <3>1. CASE ~present
      BY <1>2, <1>t, <3>1 DEF CreateUploadSession, Open, UploadTypeOK
    <3>2. CASE present
      BY <1>2, <1>f, <3>2, UploadAssumption DEF CreateUploadSession, Effect, Open
    <3>3. QED
      BY <3>1, <3>2
  <2>2. uploads[s] = NoUpload
    BY <2>1 DEF TypeInv
  <2>3. [status |-> "uploading", sum |-> sum] \in Upload
    BY DEF Upload, UploadStatus
  <2>4. UploadTypeOK'
    BY <1>t, <2>1, <2>3 DEF UploadTypeOK
  <2>5. \A o \in Objects : /\ opening'[o] \in {"none", "opened"} => uploads'[o] = NoUpload
                           /\ uploads[o].status # "none" => uploads'[o] = uploads[o]
    BY <1>t, <2>1, <2>2 DEF TypeInv, UploadTypeOK, NoUpload
  <2>6. Stays
    BY <2>1, <2>5 DEF Stays
  <2>7. AssetInv'
    BY <1>t, <2>1, <2>6 DEF AssetInv, Stays
  <2>8. \A q \in Requests : Shape(q)'
    BY <1>t, <2>1, <2>6, ShapeKept
  <2>9. QED
    BY <2>4, <2>5, <2>7, <2>8 DEF TypeInv
<1>3. CASE AbortMultipart(s)
  <2>1. /\ faults' \in 0..MaxFaults /\ opening[s] = "failed"
        /\ opening' \in {[opening EXCEPT ![s] = "over"], [opening EXCEPT ![s] = "lost"]}
        /\ multipart' \in {multipart, [multipart EXCEPT ![s] = "aborted"]}
        /\ UNCHANGED <<shared, sessions, parts, truncated, rpc, rmem>>
    BY <1>3, <1>f DEF AbortMultipart, AbortedMultipart, Effect, Open
  <2>2. UploadTypeOK'
    BY <1>t, <2>1 DEF UploadTypeOK
  <2>3. \A o \in Objects : opening'[o] \in {"none", "opened"} =>
            opening[o] \in {"none", "opened"}
    BY <1>t, <2>1 DEF UploadTypeOK
  <2>4. QED
    BY <1>q, <2>1, <2>2, <2>3 DEF TypeInv
<1>4. CASE Expire(s) \/ GetUploadPartURL(s) \/ PutPart(s)
  <2>1. UploadTypeOK' /\ UNCHANGED <<asset, present, uploads, rpc, rmem, opening>>
    BY <1>4, <1>t DEF Expire, GetUploadPartURL, PutPart, UploadTypeOK
  <2>2. QED
    BY <1>q, <2>1 DEF TypeInv
<1>5. CASE ConfirmAgain(s)
  BY <1>5, <1>q, <1>t DEF ConfirmAgain, upVars, TypeInv, UploadTypeOK
<1>6. CASE CrashInitiate(s)
  <2>1. /\ faults' \in 0..MaxFaults /\ opening' = [opening EXCEPT ![s] = "lost"]
        /\ UNCHANGED <<shared, sessions, objects, rpc, rmem>>
    BY <1>6, <1>f DEF CrashInitiate, Open
  <2>2. UploadTypeOK'
    BY <1>t, <2>1 DEF UploadTypeOK
  <2>3. \A o \in Objects : opening'[o] \in {"none", "opened"} =>
            opening[o] \in {"none", "opened"}
    BY <1>t, <2>1 DEF UploadTypeOK
  <2>4. QED
    BY <1>q, <2>1, <2>2, <2>3 DEF TypeInv
<1>7. QED
  BY <1>1, <1>2, <1>3, <1>4, <1>5, <1>6

\* The steps and the memories of the requests keep their types.
LEMMA MoveTypes ==
    ASSUME UploadTypeOK, NEW r \in Requests, NEW ok \in BOOLEAN, NEW step \in RPC,
           Proceed(r, ok, step) \/ Return(r)
    PROVE  rpc' \in [Requests -> RPC] /\ rmem' \in [Requests -> Request]
  BY RowTypes DEF Proceed, Return, To, UploadTypeOK, RPC

\* A confirmation starts on a session.
LEMMA TypeFind ==
    ASSUME TypeInv, NEW r \in Requests, NEW s \in Objects, FindSession(r, s)
    PROVE  TypeInv'
<1> USE DEF shared, sessions, objects
<1>t. UploadTypeOK /\ AssetInv /\ \A q \in Requests : Shape(q)
  BY DEF TypeInv
<1>1. /\ rpc' = [rpc EXCEPT ![r] = "list"]
      /\ rmem' = [rmem EXCEPT ![r] = [rmem[r] EXCEPT !.session = s]]
      /\ UNCHANGED <<shared, sessions, objects, opening, faults>>
  BY DEF FindSession, To
<1>2. [rmem[r] EXCEPT !.session = s] \in Request
  BY <1>t, RequestFields DEF Request
<1>3. UploadTypeOK'
  BY <1>t, <1>1, <1>2 DEF UploadTypeOK, RPC
<1>4. /\ Mine(r) /\ rpc'[r] = "list" /\ rmem'[r].session = s
      /\ rmem'[r].doc = rmem[r].doc
  BY <1>t, <1>1, RequestFields DEF Mine, UploadTypeOK, Request
<1>5. uploads[s].status = "uploading"
  BY DEF FindSession
<1>6. Stays /\ Shape(r)'
  BY <1>t, <1>1, <1>4, <1>5 DEF Stays, Shape, Closed, Cataloged
<1>7. QED
  BY <1>t, <1>1, <1>3, <1>4, <1>6, ShapesKept DEF TypeInv, AssetInv

\* The steps of a confirmation, in two halves: up to the closed session ...
LEMMA TypeClosing ==
    ASSUME TypeInv, NEW r \in Requests,
           \/ ListParts(r) \/ CompleteMultipart(r) \/ StatObject(r) \/ CloseSession(r)
    PROVE  TypeInv'
<1> USE DEF shared, sessions, objects
<1>t. UploadTypeOK /\ AssetInv /\ \A q \in Requests : Shape(q)
  BY DEF TypeInv
<1>f. ASSUME NEW ok \in BOOLEAN, Answer(ok) PROVE faults' \in 0..MaxFaults
  BY <1>t, <1>f, FaultEffect
<1>s. {"assemble", "stat", "close", "findAsset", "idle"} \subseteq RPC
  BY DEF RPC
<1>q. ASSUME UNCHANGED <<asset, present, uploads, opening>>, Mine(r), Shape(r)',
             UploadTypeOK'
      PROVE  TypeInv'
  <2>1. Stays
    BY <1>q DEF Stays
  <2>2. QED
    BY <1>t, <1>q, <2>1, ShapesKept DEF TypeInv, AssetInv
<1>1. CASE ListParts(r)
  <2> DEFINE whole == parts[rmem[r].session] = "all"
  <2>1. /\ faults' \in 0..MaxFaults /\ rpc[r] = "list"
        /\ UNCHANGED <<shared, sessions, objects, opening>>
        /\ \/ /\ rpc' = [rpc EXCEPT ![r] = "assemble"]
              /\ rmem' = [rmem EXCEPT ![r] = [rmem[r] EXCEPT !.whole = whole]]
           \/ Return(r)
    BY <1>1, <1>f DEF ListParts, AfterListing, To
  <2>2. CASE Return(r)
    <3>1. UploadTypeOK'
      BY <1>t, <2>1, <2>2, <1>s, MoveTypes DEF UploadTypeOK
    <3>2. QED
      BY <1>q, <1>t, <2>1, <2>2, <3>1, ReturnEffect, ShapeReturned DEF Returns
  <2>3. CASE /\ rpc' = [rpc EXCEPT ![r] = "assemble"]
             /\ rmem' = [rmem EXCEPT ![r] = [rmem[r] EXCEPT !.whole = whole]]
    <3>1. whole \in BOOLEAN
      OBVIOUS
    <3> HIDE DEF whole
    <3>2. [rmem[r] EXCEPT !.whole = whole] \in Request
      BY <1>t, <3>1, RequestFields DEF Request
    <3>3. UploadTypeOK'
      BY <1>t, <2>1, <2>3, <3>2, <1>s DEF UploadTypeOK
    <3>4. /\ Mine(r) /\ rpc'[r] = "assemble" /\ rmem'[r].session = rmem[r].session
          /\ rmem'[r].doc = rmem[r].doc
      BY <1>t, <2>3, RequestFields DEF Mine, UploadTypeOK, Request
    <3>5. Shape(r)'
      BY <1>t, <2>1, <3>4 DEF Shape, Closed, Cataloged
    <3>6. QED
      BY <1>q, <2>1, <3>3, <3>4, <3>5
  <2>4. QED
    BY <2>1, <2>2, <2>3
<1>2. CASE CompleteMultipart(r)
  <2>1. /\ rpc[r] = "assemble"
        /\ UNCHANGED <<jobs, asset, tasks, published, present, sessions, parts, opening>>
        /\ \/ Return(r) /\ UNCHANGED <<multipart, truncated, store, faults>>
           \/ /\ \E ok \in BOOLEAN : Answer(ok) /\ Proceed(r, ok, "stat")
              /\ \/ /\ multipart' = [multipart EXCEPT ![rmem[r].session] = "assembled"]
                    /\ store' = store \cup {rmem[r].session}
                    /\ \/ truncated' = truncated \cup {}
                       \/ truncated' = truncated \cup {rmem[r].session}
                 \/ UNCHANGED <<multipart, truncated, store>>
    BY <1>2 DEF CompleteMultipart
  <2>2. rmem[r].session \in Objects
    BY <1>t, <2>1 DEF Shape
  <2>3. /\ multipart' \in [Objects -> {"none", "open", "assembled", "aborted"}]
        /\ store' \subseteq Objects /\ truncated' \subseteq Objects
    BY <1>t, <2>1, <2>2 DEF UploadTypeOK
  <2>4. /\ faults' \in 0..MaxFaults
        /\ rpc' \in [Requests -> RPC] /\ rmem' \in [Requests -> Request]
    BY <1>t, <1>f, <1>s, <2>1, MoveTypes DEF UploadTypeOK
  <2>5. UploadTypeOK'
    BY <1>t, <2>1, <2>3, <2>4 DEF UploadTypeOK
  <2>6. Returns(r) \/ (GoesOn(r, "stat") /\ rmem' = rmem)
    BY <1>t, <2>1, ReturnEffect, ProceedEffect
  <2>7. Mine(r) /\ Shape(r)'
    BY <1>t, <2>1, <2>2, <2>6, ShapeReturned
       DEF Returns, GoesOn, Shape, Closed, Cataloged
  <2>8. QED
    BY <1>q, <2>1, <2>5, <2>7
<1>3. CASE StatObject(r)
  <2>1. PICK ok \in BOOLEAN :
           /\ Answer(ok) /\ Proceed(r, ok /\ rmem[r].session \in store, "close")
    BY <1>3 DEF StatObject
  <2>2. rpc[r] = "stat" /\ UNCHANGED <<shared, sessions, objects, opening>>
    BY <1>3 DEF StatObject
  <2>3. (ok /\ rmem[r].session \in store) \in BOOLEAN
    OBVIOUS
  <2>4. Returns(r) \/ (GoesOn(r, "close") /\ rmem' = rmem)
    BY <1>t, <2>1, <2>3, ProceedEffect
  <2>5. UploadTypeOK'
    BY <1>t, <1>f, <1>s, <2>1, <2>2, <2>3, MoveTypes DEF UploadTypeOK
  <2>6. Mine(r) /\ Shape(r)'
    BY <1>t, <2>2, <2>4, ShapeReturned DEF Returns, GoesOn, Shape, Closed, Cataloged
  <2>7. QED
    BY <1>q, <2>2, <2>5, <2>6
<1>4. CASE CloseSession(r)
  <2> DEFINE s == rmem[r].session
             closed == [uploads[s] EXCEPT !.status = "completed"]
  <2>1. PICK ok \in BOOLEAN :
           /\ Answer(ok) /\ Proceed(r, ok, "findAsset")
           /\ uploads' \in Effect(ok, uploads,
                  [uploads EXCEPT ![s] = Updated(uploads[s], NoUpload, closed)])
    BY <1>4 DEF CloseSession
  <2>2. rpc[r] = "close" /\ UNCHANGED <<shared, objects, granted, expired, opening>>
    BY <1>4 DEF CloseSession
  <2>3. s \in Objects /\ uploads[s] \in Upload
    BY <1>t, <2>2 DEF Shape, UploadTypeOK
  <2>4. closed \in Upload /\ closed.status = "completed"
    BY <2>3 DEF Upload, UploadStatus
  <2> HIDE DEF closed
  <2>a. /\ Updated(uploads[s], NoUpload, closed) \in {NoUpload, closed}
        /\ uploads[s].status # "none" => Updated(uploads[s], NoUpload, closed) = closed
        /\ uploads[s] = NoUpload => Updated(uploads[s], NoUpload, closed) = NoUpload
    BY DEF Updated, NoUpload
  <2>5. UploadTypeOK'
    <3>1. uploads' \in [Objects -> Upload]
      BY <1>t, <2>1, <2>3, <2>4, <2>a, RowTypes DEF UploadTypeOK, Effect
    <3>2. QED
      BY <1>t, <1>f, <1>s, <2>1, <2>2, <3>1, MoveTypes DEF UploadTypeOK
  <2>6. /\ \A o \in Objects :
               /\ uploads[o].status = "completed" => uploads'[o].status = "completed"
               /\ uploads[o].status # "none" => uploads'[o].status # "none"
               /\ uploads[o] = NoUpload => uploads'[o] = NoUpload
        /\ ok /\ uploads[s].status # "none" => uploads'[s].status = "completed"
    <3>1. CASE uploads' = uploads /\ ~ok
      BY <3>1
    <3>2. CASE uploads' = [uploads EXCEPT ![s] = Updated(uploads[s], NoUpload, closed)]
      BY <1>t, <2>3, <2>4, <2>a, <3>2 DEF UploadTypeOK
    <3>3. QED
      BY <2>1, <3>1, <3>2 DEF Effect
  <2>7. Stays
    BY <2>2, <2>6 DEF Stays
  <2>8. (ok /\ GoesOn(r, "findAsset") /\ rmem' = rmem) \/ Returns(r)
    BY <1>t, <2>1, ProceedEffect
  <2>9. Mine(r) /\ Shape(r)'
    BY <1>t, <2>2, <2>3, <2>6, <2>8, ShapeReturned
       DEF Returns, GoesOn, Shape, Closed, Cataloged
  <2>10. AssetInv'
    BY <1>t, <2>2, <2>7 DEF AssetInv, Stays
  <2>11. \A o \in Objects : opening'[o] \in {"none", "opened"} => uploads'[o] = NoUpload
    BY <2>2, <2>6 DEF TypeInv
  <2>12. QED
    BY <1>t, <2>5, <2>7, <2>9, <2>10, <2>11, ShapesKept DEF TypeInv
<1>5. QED
  BY <1>1, <1>2, <1>3, <1>4

\* ... and from the closed session to the published scan.
LEMMA TypeCataloging ==
    ASSUME TypeInv, NEW r \in Requests,
           \/ FindAsset(r) \/ CreateAsset(r) \/ ReplaceAsset(r) \/ FindScanJob(r)
           \/ CreateScanJob(r) \/ PublishScanJob(r) \/ CrashRequest(r)
    PROVE  TypeInv'
<1> USE DEF shared, sessions, objects
<1>t. UploadTypeOK /\ AssetInv /\ \A q \in Requests : Shape(q)
  BY DEF TypeInv
<1>f. ASSUME Fault \/ \E ok \in BOOLEAN : Answer(ok) PROVE faults' \in 0..MaxFaults
  BY <1>t, <1>f, FaultEffect
<1>s. {"putAsset", "findJob", "createJob", "publish", "idle"} \subseteq RPC
  BY DEF RPC
<1>q. ASSUME UNCHANGED <<present, uploads, opening>>, UploadTypeOK', Mine(r), Shape(r)',
             \/ asset' = asset
             \/ asset # NoAsset /\ asset' # NoAsset /\ asset'.key = asset.key
      PROVE  TypeInv'
  <2>1. Stays /\ AssetInv'
    BY <1>t, <1>q DEF Stays, AssetInv
  <2>2. QED
    BY <1>t, <1>q, <2>1, ShapesKept DEF TypeInv
<1>1. CASE FindAsset(r)
  <2>1. /\ faults' \in 0..MaxFaults /\ rpc[r] = "findAsset"
        /\ UNCHANGED <<shared, sessions, objects, opening>>
        /\ \/ /\ rpc' = [rpc EXCEPT ![r] = "putAsset"]
              /\ rmem' = [rmem EXCEPT ![r] = [rmem[r] EXCEPT !.doc = asset]]
           \/ Return(r)
    BY <1>1, <1>f DEF FindAsset, To
  <2>2. CASE Return(r)
    <3>1. UploadTypeOK'
      BY <1>t, <2>1, <2>2, <1>s, MoveTypes DEF UploadTypeOK
    <3>2. QED
      BY <1>q, <1>t, <2>1, <2>2, <3>1, ReturnEffect, ShapeReturned DEF Returns
  <2>3. CASE /\ rpc' = [rpc EXCEPT ![r] = "putAsset"]
             /\ rmem' = [rmem EXCEPT ![r] = [rmem[r] EXCEPT !.doc = asset]]
    <3>1. [rmem[r] EXCEPT !.doc = asset] \in Request
      BY <1>t, RequestFields DEF Request, UploadTypeOK
    <3>2. UploadTypeOK'
      BY <1>t, <2>1, <2>3, <3>1, <1>s DEF UploadTypeOK
    <3>3. /\ Mine(r) /\ rpc'[r] = "putAsset" /\ rmem'[r].session = rmem[r].session
          /\ rmem'[r].doc = asset
      BY <1>t, <2>3, RequestFields DEF Mine, UploadTypeOK, Request
    <3>4. Shape(r)'
      BY <1>t, <2>1, <3>3 DEF Shape, Closed, Cataloged
    <3>5. QED
      BY <1>q, <2>1, <3>2, <3>3, <3>4
  <2>4. QED
    BY <2>1, <2>2, <2>3
<1>2. CASE CreateAsset(r)
  <2>1. /\ rpc[r] = "putAsset"
        /\ UNCHANGED <<jobs, tasks, published, store, present, sessions, objects, opening>>
        /\ \/ Return(r) /\ UNCHANGED <<asset, faults>>
           \/ /\ asset = NoAsset /\ present
              /\ \E ok \in BOOLEAN :
                  /\ Answer(ok) /\ Proceed(r, ok, "findJob")
                  /\ asset' \in Effect(ok, asset, NewOriginal(rmem[r].session))
    BY <1>2 DEF CreateAsset
  <2>2. CASE Return(r) /\ UNCHANGED <<asset, faults>>
    <3>1. UploadTypeOK'
      BY <1>t, <2>1, <2>2, <1>s, MoveTypes DEF UploadTypeOK
    <3>2. QED
      BY <1>q, <1>t, <2>1, <2>2, <3>1, ReturnEffect, ShapeReturned DEF Returns
  <2>3. ASSUME asset = NoAsset, present,
               NEW ok \in BOOLEAN, Answer(ok), Proceed(r, ok, "findJob"),
               asset' \in Effect(ok, asset, NewOriginal(rmem[r].session))
        PROVE  TypeInv'
    <3>1. /\ rmem[r].session \in Objects
          /\ uploads[rmem[r].session].status = "completed"
      BY <1>t, <2>1, <2>3 DEF Shape, Closed
    <3>2. /\ NewOriginal(rmem[r].session) \in AssetRow
          /\ NewOriginal(rmem[r].session).key = rmem[r].session
      BY <1>t, <3>1, OriginalTypes, UploadAssumption
    <3>3. NewOriginal(rmem[r].session) # NoAsset
      BY <3>1, <3>2, StoreAssumption DEF NoAsset
    <3>4. asset' \in {asset, NewOriginal(rmem[r].session)} /\ (ok => asset' # NoAsset)
      BY <2>3, <3>3 DEF Effect
    <3>5. UploadTypeOK'
      BY <1>t, <1>f, <1>s, <2>1, <2>3, <3>2, <3>4, MoveTypes DEF UploadTypeOK
    <3>6. (ok /\ GoesOn(r, "findJob") /\ rmem' = rmem) \/ Returns(r)
      BY <1>t, <2>3, ProceedEffect
    <3>7. Stays
      BY <2>1, <2>3 DEF Stays
    <3>8. Mine(r) /\ Shape(r)'
      BY <1>t, <2>1, <3>1, <3>4, <3>6, ShapeReturned
         DEF Returns, GoesOn, Shape, Closed, Cataloged
    <3>9. AssetInv'
      BY <2>1, <2>3, <3>1, <3>2, <3>4 DEF AssetInv
    <3>10. QED
      BY <1>t, <2>1, <3>5, <3>7, <3>8, <3>9, ShapesKept DEF TypeInv
  <2>4. QED
    BY <2>1, <2>2, <2>3
<1>3. CASE ReplaceAsset(r)
  <2> DEFINE new == UpdatedAsset(asset,
                        [NewOriginal(rmem[r].session) EXCEPT !.kind = rmem[r].doc.kind])
  <2>1. /\ rpc[r] = "putAsset" /\ rmem[r].doc # NoAsset
        /\ UNCHANGED <<jobs, tasks, published, store, present, sessions, objects, opening>>
    BY <1>3 DEF ReplaceAsset
  <2>2. PICK ok \in BOOLEAN :
           Answer(ok) /\ Proceed(r, ok, "findJob") /\ asset' \in Effect(ok, asset, new)
    BY <1>3 DEF ReplaceAsset
  <2>3. /\ rmem[r].session \in Objects /\ rmem[r].doc.kind \in Kinds
        /\ present => asset # NoAsset
        /\ asset # NoAsset => asset.key \in Objects
    BY <1>t, <2>1, RequestFields DEF Shape, AssetInv, AssetRow
  <2>4. /\ asset # NoAsset => new \in AssetRow /\ new.key = asset.key
        /\ asset = NoAsset => new = asset
    BY <1>t, <2>3, OriginalTypes DEF UpdatedAsset, Updated
  <2>5. asset # NoAsset => new # NoAsset
    BY <2>3, <2>4, StoreAssumption DEF NoAsset
  <2>a. new \in AssetRow
    BY <1>t, <2>4 DEF UploadTypeOK
  <2> HIDE DEF new
  <2>6. asset' \in {asset, new}
    BY <2>2 DEF Effect
  <2>7. UploadTypeOK'
    BY <1>t, <1>f, <1>s, <2>1, <2>2, <2>a, <2>6, MoveTypes DEF UploadTypeOK
  <2>8. (ok /\ GoesOn(r, "findJob") /\ rmem' = rmem) \/ Returns(r)
    BY <1>t, <2>2, ProceedEffect
  <2>9. Mine(r) /\ Shape(r)'
    BY <1>t, <2>1, <2>3, <2>5, <2>6, <2>8, ShapeReturned
       DEF Returns, GoesOn, Shape, Closed, Cataloged
  <2>10. QED
    BY <1>q, <2>1, <2>3, <2>4, <2>5, <2>6, <2>7, <2>9
<1>4. CASE FindScanJob(r)
  <2>1. PICK ok \in BOOLEAN :
           LET next == AfterFindScan(jobs["scan"])
           IN  Answer(ok) /\ Proceed(r, ok /\ next # "idle", next)
    BY <1>4 DEF FindScanJob
  <2>2. rpc[r] = "findJob" /\ UNCHANGED <<shared, sessions, objects, opening>>
    BY <1>4 DEF FindScanJob
  <2>3. AfterFindScan(jobs["scan"]) \in {"idle", "createJob"}
    BY DEF AfterFindScan
  <2>4. Proceed(r, ok /\ AfterFindScan(jobs["scan"]) # "idle", AfterFindScan(jobs["scan"]))
    BY <2>1
  <2>5. UploadTypeOK'
    BY <1>t, <1>f, <1>s, <2>1, <2>2, <2>3, <2>4, MoveTypes DEF UploadTypeOK
  <2>6. Returns(r) \/ (GoesOn(r, "createJob") /\ rmem' = rmem)
    BY <1>t, <2>3, <2>4, ProceedEffect
  <2>7. Mine(r) /\ Shape(r)'
    BY <1>t, <2>2, <2>6, ShapeReturned DEF Returns, GoesOn, Shape, Closed, Cataloged
  <2>8. QED
    BY <1>q, <2>2, <2>5, <2>7
<1>5. CASE CreateScanJob(r)
  <2>1. /\ rpc[r] = "createJob"
        /\ UNCHANGED <<asset, tasks, published, store, present, sessions, objects, opening>>
        /\ \/ Return(r) /\ UNCHANGED faults
           \/ \E ok \in BOOLEAN : Answer(ok) /\ Proceed(r, ok, "publish")
        /\ jobs' \in {jobs, [jobs EXCEPT !["scan"] = CreatedJob]}
    BY <1>5 DEF CreateScanJob, Effect
  <2>2. /\ rpc' \in [Requests -> RPC] /\ rmem' \in [Requests -> Request]
        /\ faults' \in 0..MaxFaults
    BY <1>t, <1>f, <1>s, <2>1, MoveTypes DEF UploadTypeOK
  <2>3. UploadTypeOK'
    BY <1>t, <2>1, <2>2, RowTypes DEF UploadTypeOK
  <2>4. Returns(r) \/ (GoesOn(r, "publish") /\ rmem' = rmem)
    BY <1>t, <2>1, ReturnEffect, ProceedEffect
  <2>5. Mine(r) /\ Shape(r)'
    BY <1>t, <2>1, <2>4, ShapeReturned DEF Returns, GoesOn, Shape, Closed, Cataloged
  <2>6. QED
    BY <1>q, <2>1, <2>3, <2>5
<1>6. CASE PublishScanJob(r)
  <2>1. /\ Return(r) /\ faults' \in 0..MaxFaults
        /\ UNCHANGED <<jobs, asset, store, present, sessions, objects, opening>>
        /\ tasks' \in {tasks, [tasks EXCEPT !["scan"] = NewTask]}
        /\ published' \in {published,
                           [published EXCEPT !["scan"] = published["scan"] + 1]}
    BY <1>6, <1>f DEF PublishScanJob
  <2>2. /\ tasks' \in [JobTypes -> Task] /\ published' \in [JobTypes -> Nat]
        /\ rpc' \in [Requests -> RPC] /\ rmem' \in [Requests -> Request]
    <3>1. tasks' \in [JobTypes -> Task]
      BY <1>t, <2>1, RowTypes DEF UploadTypeOK
    <3>2. published["scan"] + 1 \in Nat
      BY <1>t DEF UploadTypeOK, JobTypes
    <3>3. published' \in [JobTypes -> Nat]
      BY <1>t, <2>1, <3>2 DEF UploadTypeOK
    <3>4. rpc' \in [Requests -> RPC] /\ rmem' \in [Requests -> Request]
      BY <1>t, <1>s, <2>1, MoveTypes
    <3>5. QED
      BY <3>1, <3>3, <3>4
  <2>3. UploadTypeOK'
    BY <1>t, <2>1, <2>2 DEF UploadTypeOK
  <2>4. QED
    BY <1>q, <1>t, <2>1, <2>3, ReturnEffect, ShapeReturned DEF Returns
<1>7. CASE CrashRequest(r)
  <2>1. /\ Return(r) /\ faults' \in 0..MaxFaults
        /\ UNCHANGED <<shared, sessions, objects, opening>>
    BY <1>7, <1>f DEF CrashRequest
  <2>2. UploadTypeOK'
    BY <1>t, <1>s, <2>1, MoveTypes DEF UploadTypeOK
  <2>3. QED
    BY <1>q, <1>t, <2>1, <2>2, ReturnEffect, ShapeReturned DEF Returns
<1>8. QED
  BY <1>1, <1>2, <1>3, <1>4, <1>5, <1>6, <1>7

\* The deletion takes the asset and every session: nothing is left to relate.
LEMMA TypeDeletes ==
    ASSUME TypeInv, DeleteResource
    PROVE  TypeInv'
<1>t. UploadTypeOK /\ \A q \in Requests : Shape(q)
  BY DEF TypeInv
<1>1. /\ ~present' /\ present' \in BOOLEAN
      /\ asset' = NoAsset /\ jobs' = [j \in JobTypes |-> NoJob]
      /\ uploads' = [s \in Objects |-> NoUpload]
      /\ UNCHANGED <<tasks, published, store, multipart, parts, truncated, granted,
                     expired, opening, rpc, rmem, faults>>
  BY DEF DeleteResource, objects
<1>2. UploadTypeOK'
  BY <1>t, <1>1, RowTypes DEF UploadTypeOK
<1>3. QED
  BY <1>t, <1>1, <1>2 DEF TypeInv, AssetInv, Shape

\* Every step of the upload keeps the types.
LEMMA TypeNext == TypeInv /\ [Next]_upVars => TypeInv'
<1> SUFFICES ASSUME TypeInv, [Next]_upVars PROVE TypeInv'
  OBVIOUS
<1>1. CASE UNCHANGED upVars
  BY <1>1 DEF upVars, TypeInv, UploadTypeOK, AssetInv, Shape
<1>2. ASSUME NEW r \in Requests, RequestStep(r) PROVE TypeInv'
  BY <1>2, TypeClosing, TypeCataloging DEF RequestStep
<1>3. QED
  BY <1>1, <1>2, TypeFind, TypeOutside, TypeCataloging, TypeDeletes DEF Next

\* The sessions, the multipart uploads and the memories of the requests always
\* have the types of the Go structs and the columns.
THEOREM TypeCorrect == Spec => []UploadTypeOK
<1>1. TypeInv => UploadTypeOK
  BY DEF TypeInv
<1>2. QED
  BY <1>1, TypeInit, TypeNext, PTL DEF Spec

-----------------------------------------------------------------------------
(* The steps of a confirmation, by what they may disturb *)

\* The bucket opens no upload, and InitiateUpload does not move.
NoneOpened ==
    /\ opening' = opening
    /\ \A s \in Objects : multipart'[s] = "open" => multipart[s] = "open"

\* It reads, assembles the object or gives up.
Asks(r) ==
    /\ rpc'[r] \notin {"close", "publish"}
    /\ UNCHANGED <<jobs, asset, tasks, published, uploads>> /\ store \subseteq store'

\* It sees the object in the bucket.
Sees(r) ==
    /\ rpc'[r] = "close" /\ rmem'[r].session \in store
    /\ UNCHANGED <<jobs, asset, tasks, published, uploads, store>>

\* It closes its session.
Closes(r) ==
    /\ rpc[r] = "close" /\ rpc'[r] \notin {"close", "publish"}
    /\ \A s \in Objects :
           /\ s # rmem[r].session => uploads'[s] = uploads[s]
           /\ uploads[s].status # "none" => uploads'[s].status # "none"
           /\ uploads[s] = NoUpload => uploads'[s] = NoUpload
    /\ UNCHANGED <<jobs, asset, tasks, published, store>>

\* It inserts or updates the asset.
Catalogs(r) ==
    /\ rpc'[r] \notin {"close", "publish"}
    /\ \/ asset' = asset
       \/ asset' # NoAsset /\ asset = NoAsset /\ present
       \/ asset' # NoAsset /\ asset # NoAsset /\ asset'.key = asset.key
    /\ UNCHANGED <<jobs, tasks, published, uploads, store>>

\* It inserts the job of the scan.
CreatesScan(r) ==
    /\ rpc[r] = "createJob" /\ rpc'[r] # "close"
    /\ jobs["scan"] = NoJob /\ asset # NoAsset
    /\ jobs' \in {jobs, [jobs EXCEPT !["scan"] = CreatedJob]}
    /\ rpc'[r] = "publish" => jobs' # jobs
    /\ UNCHANGED <<asset, tasks, published, uploads, store>>

\* It publishes the scan.
PublishesScan(r) ==
    /\ rpc[r] = "publish" /\ rpc'[r] = "idle"
    /\ tasks' \in {tasks, [tasks EXCEPT !["scan"] = NewTask]}
    /\ published' \in {published, [published EXCEPT !["scan"] = published["scan"] + 1]}
    /\ UNCHANGED <<jobs, asset, uploads, store>>

Confirms(r) ==
    /\ Mine(r) /\ NoneOpened /\ present' = present
    /\ \/ Asks(r) \/ Sees(r) \/ Closes(r) \/ Catalogs(r)
       \/ CreatesScan(r) \/ PublishesScan(r)

\* A row that was inserted is not the row that does not exist.
LEMMA NewRows ==
    /\ CreatedJob # NoJob
    /\ \A a \in AssetRow : a.key \in Objects => a # NoAsset
<1>1. CreatedJob.status = "pending" /\ NoJob.status = "none" /\ NoAsset.key = Null
  BY DEF CreatedJob, NoJob, NoAsset
<1>2. QED
  BY <1>1, StoreAssumption

\* Every step of a confirmation is of one of these sorts.
LEMMA ConfirmSorts ==
    ASSUME TypeInv, NEW r \in Requests,
           \/ RequestStep(r) \/ CrashRequest(r) \/ \E s \in Objects : FindSession(r, s)
    PROVE  Confirms(r)
<1> USE DEF shared, sessions, objects
<1>t. UploadTypeOK /\ AssetInv /\ Shape(r)
  BY DEF TypeInv
<1>1. ASSUME NEW s \in Objects, FindSession(r, s) PROVE Confirms(r)
  BY <1>t, <1>1 DEF FindSession, To, Confirms, Mine, NoneOpened, Asks, UploadTypeOK
<1>2. CASE ListParts(r)
  <2>1. CASE Return(r)
    BY <1>t, <1>2, <2>1, ReturnEffect
       DEF ListParts, Returns, Confirms, NoneOpened, Asks
  <2>2. CASE ~Return(r)
    BY <1>t, <1>2, <2>2
       DEF ListParts, To, AfterListing, Confirms, Mine, NoneOpened, Asks, UploadTypeOK
  <2>3. QED
    BY <2>1, <2>2
<1>3. CASE CompleteMultipart(r)
  <2>1. /\ Return(r) \/ \E ok \in BOOLEAN : Proceed(r, ok, "stat")
        /\ multipart' \in {multipart, [multipart EXCEPT ![rmem[r].session] = "assembled"]}
        /\ store' \in {store, store \cup {rmem[r].session}}
        /\ UNCHANGED <<jobs, asset, tasks, published, present, sessions, parts, opening>>
    BY <1>3 DEF CompleteMultipart
  <2>2. Mine(r) /\ rpc'[r] \notin {"close", "publish"}
    BY <1>t, <2>1, ReturnEffect, ProceedEffect DEF Returns, GoesOn
  <2>3. NoneOpened
    BY <1>t, <2>1 DEF NoneOpened, UploadTypeOK
  <2>4. QED
    BY <2>1, <2>2, <2>3 DEF Confirms, Asks
<1>4. CASE StatObject(r)
  <2>1. PICK ok \in BOOLEAN : Proceed(r, ok /\ rmem[r].session \in store, "close")
    BY <1>4 DEF StatObject
  <2>2. UNCHANGED <<shared, sessions, objects, opening>>
    BY <1>4 DEF StatObject
  <2>3. (ok /\ rmem[r].session \in store) \in BOOLEAN
    OBVIOUS
  <2>4. \/ rmem[r].session \in store /\ GoesOn(r, "close")
        \/ Returns(r)
    BY <1>t, <2>1, <2>3, ProceedEffect
  <2>5. QED
    BY <2>2, <2>4 DEF Returns, GoesOn, Confirms, NoneOpened, Asks, Sees
<1>5. CASE CloseSession(r)
  <2> DEFINE s == rmem[r].session
             closed == [uploads[s] EXCEPT !.status = "completed"]
  <2>1. /\ rpc[r] = "close" /\ \E ok \in BOOLEAN : Proceed(r, ok, "findAsset")
        /\ uploads' \in {uploads, [uploads EXCEPT ![s] =
                                    Updated(uploads[s], NoUpload, closed)]}
        /\ UNCHANGED <<shared, objects, granted, expired, opening>>
    BY <1>5 DEF CloseSession, Effect
  <2>2. Mine(r) /\ rpc'[r] \notin {"close", "publish"}
    BY <1>t, <2>1, ProceedEffect DEF Returns, GoesOn
  <2>3. uploads[s] \in Upload /\ closed.status = "completed"
    BY <1>t, <2>1 DEF Shape, UploadTypeOK, Upload
  <2> HIDE DEF closed
  <2>4. \A o \in Objects : /\ o # s => uploads'[o] = uploads[o]
                           /\ uploads[o].status # "none" => uploads'[o].status # "none"
                           /\ uploads[o] = NoUpload => uploads'[o] = NoUpload
    BY <1>t, <2>1, <2>3 DEF UploadTypeOK, Updated, NoUpload
  <2>5. QED
    BY <2>1, <2>2, <2>4 DEF Confirms, NoneOpened, Closes
<1>6. CASE FindAsset(r)
  <2>1. CASE Return(r)
    BY <1>t, <1>6, <2>1, ReturnEffect
       DEF FindAsset, Returns, Confirms, NoneOpened, Asks
  <2>2. CASE ~Return(r)
    BY <1>t, <1>6, <2>2
       DEF FindAsset, To, Confirms, Mine, NoneOpened, Asks, UploadTypeOK
  <2>3. QED
    BY <2>1, <2>2
<1>7. CASE CreateAsset(r) \/ ReplaceAsset(r)
  <2> DEFINE s == rmem[r].session
             row == [NewOriginal(s) EXCEPT !.kind = rmem[r].doc.kind]
  <2>1. /\ rpc[r] = "putAsset" /\ (Return(r) \/ \E ok \in BOOLEAN : Proceed(r, ok, "findJob"))
        /\ \/ asset' = asset
           \/ asset = NoAsset /\ present /\ asset' = NewOriginal(s)
           \/ rmem[r].doc # NoAsset /\ asset' = UpdatedAsset(asset, row)
        /\ UNCHANGED <<jobs, tasks, published, store, present, sessions, objects, opening>>
    BY <1>7 DEF CreateAsset, ReplaceAsset, Effect
  <2>2. Mine(r) /\ rpc'[r] \notin {"close", "publish"}
    BY <1>t, <2>1, ReturnEffect, ProceedEffect DEF Returns, GoesOn
  <2>3. s \in Objects /\ rmem[r].doc.kind \in Kinds
    BY <1>t, <2>1, RequestFields DEF Shape, AssetRow
  <2>4. /\ NewOriginal(s) # NoAsset
        /\ asset = NoAsset => UpdatedAsset(asset, row) = asset
        /\ asset # NoAsset => /\ UpdatedAsset(asset, row) # NoAsset
                              /\ UpdatedAsset(asset, row).key = asset.key
    BY <1>t, <2>3, OriginalTypes, NewRows DEF AssetInv, UpdatedAsset, Updated
  <2> HIDE DEF row
  <2>5. QED
    BY <2>1, <2>2, <2>4 DEF Confirms, NoneOpened, Catalogs
<1>8. CASE FindScanJob(r)
  <2>1. /\ \/ Return(r)
           \/ \E ok \in BOOLEAN : Proceed(r, ok, "createJob")
        /\ UNCHANGED <<shared, sessions, objects, opening>>
    BY <1>8 DEF FindScanJob, AfterFindScan, Proceed
  <2>2. Mine(r) /\ rpc'[r] \notin {"close", "publish"}
    BY <1>t, <2>1, ReturnEffect, ProceedEffect DEF Returns, GoesOn
  <2>3. QED
    BY <2>1, <2>2 DEF Confirms, NoneOpened, Asks
<1>9. CASE CreateScanJob(r)
  <2>1. UNCHANGED <<asset, tasks, published, store, present, sessions, objects, opening>>
    BY <1>9 DEF CreateScanJob
  <2>2. CASE jobs["scan"] # NoJob \/ asset = NoAsset
    BY <1>t, <1>9, <2>1, <2>2, ReturnEffect
       DEF CreateScanJob, Returns, Confirms, NoneOpened, Asks
  <2>3. CASE jobs["scan"] = NoJob /\ asset # NoAsset
    <3>1. PICK ok \in BOOLEAN :
             /\ jobs' \in Effect(ok, jobs, [jobs EXCEPT !["scan"] = CreatedJob])
             /\ Proceed(r, ok, "publish") /\ rpc[r] = "createJob"
      BY <1>9, <2>3 DEF CreateScanJob
    <3>2. [jobs EXCEPT !["scan"] = CreatedJob] # jobs
      BY <1>t, <2>3, NewRows DEF UploadTypeOK, JobTypes
    <3>3. \/ ok /\ GoesOn(r, "publish") /\ jobs' = [jobs EXCEPT !["scan"] = CreatedJob]
          \/ Returns(r) /\ jobs' \in {jobs, [jobs EXCEPT !["scan"] = CreatedJob]}
      BY <1>t, <3>1, ProceedEffect DEF Effect
    <3>4. QED
      BY <2>1, <2>3, <3>1, <3>2, <3>3
         DEF Returns, GoesOn, Confirms, NoneOpened, CreatesScan
  <2>4. QED
    BY <2>2, <2>3
<1>10. CASE PublishScanJob(r)
  <2>1. /\ Return(r) /\ rpc[r] = "publish"
        /\ UNCHANGED <<jobs, asset, store, present, sessions, objects, opening>>
        /\ tasks' \in {tasks, [tasks EXCEPT !["scan"] = NewTask]}
        /\ published' \in {published, [published EXCEPT !["scan"] = published["scan"] + 1]}
    BY <1>10 DEF PublishScanJob
  <2>2. QED
    BY <1>t, <2>1, ReturnEffect DEF Returns, Confirms, NoneOpened, PublishesScan
<1>11. CASE CrashRequest(r)
  BY <1>t, <1>11, ReturnEffect DEF CrashRequest, Returns, Confirms, NoneOpened, Asks
<1>12. QED
  BY <1>1, <1>2, <1>3, <1>4, <1>5, <1>6, <1>7, <1>8, <1>9, <1>10, <1>11 DEF RequestStep

\* The other steps touch neither the rows of the pipeline nor a confirmation,
\* and open sessions only while the resource is there ...
Beside ==
    /\ UNCHANGED <<shared, rpc, rmem>>
    /\ \A s \in Objects :
           uploads'[s] = uploads[s] \/ (uploads'[s].status = "uploading" /\ present)

\* ... but for the one that takes all the rows.
Deletes ==
    /\ ~present' /\ asset' = NoAsset /\ jobs' = [j \in JobTypes |-> NoJob]
    /\ uploads' = [s \in Objects |-> NoUpload]
    /\ UNCHANGED <<tasks, published, store, rpc, rmem>>

\* Every step of the upload is one of a confirmation, or beside it.
LEMMA UploadSorts ==
    ASSUME TypeInv, [Next]_upVars
    PROVE  Beside \/ Deletes \/ \E r \in Requests : Confirms(r)
<1> USE DEF sessions, objects
<1>t. UploadTypeOK
  BY DEF TypeInv
<1>1. ASSUME NEW s \in Objects, CreateUploadSession(s) PROVE Beside
  <2>1. /\ UNCHANGED <<shared, objects, granted, expired, rpc, rmem>>
        /\ \/ uploads' = uploads
           \/ /\ present
              /\ \E sum \in Declarations[s] :
                  uploads' = [uploads EXCEPT ![s] = [status |-> "uploading", sum |-> sum]]
    BY <1>1 DEF CreateUploadSession, Effect
  <2>2. \A sum : [status |-> "uploading", sum |-> sum].status = "uploading"
    OBVIOUS
  <2>3. QED
    BY <1>t, <2>1, <2>2 DEF Beside, UploadTypeOK
<1>2. ASSUME NEW s \in Objects,
             \/ OpenMultipart(s) \/ AbortMultipart(s) \/ Expire(s) \/ GetUploadPartURL(s)
             \/ PutPart(s)       \/ ConfirmAgain(s)   \/ CrashInitiate(s)
      PROVE  Beside
  BY <1>2 DEF OpenMultipart, AbortMultipart, Expire, GetUploadPartURL, PutPart,
              ConfirmAgain, CrashInitiate, Beside, upVars, shared
<1>3. CASE UNCHANGED upVars
  BY <1>3 DEF upVars, Beside, shared
<1>4. CASE DeleteResource
  BY <1>4 DEF DeleteResource, Deletes
<1>5. QED
  BY <1>1, <1>2, <1>3, <1>4, ConfirmSorts DEF Next

-----------------------------------------------------------------------------
(* What was deleted does not come back *)

\* Nothing refers to a resource that is gone.
GoneInv ==
    ~present => /\ asset = NoAsset
                /\ \A j \in JobTypes : jobs[j] = NoJob
                /\ \A s \in Objects : uploads[s] = NoUpload

\* No request that was at work when the resource went brings a row back.
LEMMA GoneNext == TypeInv /\ GoneInv /\ [Next]_upVars => GoneInv'
<1> SUFFICES ASSUME TypeInv, GoneInv, [Next]_upVars PROVE GoneInv'
  OBVIOUS
<1>1. CASE Beside
  BY <1>1 DEF Beside, GoneInv, shared
<1>2. CASE Deletes
  BY <1>2 DEF Deletes, GoneInv
<1>3. ASSUME NEW r \in Requests, Confirms(r) PROVE GoneInv'
  BY <1>3 DEF Confirms, Asks, Sees, Closes, Catalogs, CreatesScan, PublishesScan, GoneInv
<1>4. QED
  BY <1>1, <1>2, <1>3, UploadSorts

\* The resource is there at the beginning.
LEMMA GoneInit == Init => GoneInv
  BY DEF Init, GoneInv

-----------------------------------------------------------------------------
(* A closed session has its object *)

StoreInv ==
    /\ \A s \in Objects : uploads[s].status = "completed" => s \in store
    /\ \A r \in Requests : rpc[r] = "close" => rmem[r].session \in store

\* A session is only closed by a request that saw its object.
LEMMA StoreNext == TypeInv /\ StoreInv /\ [Next]_upVars => StoreInv'
<1> SUFFICES ASSUME TypeInv, StoreInv, [Next]_upVars PROVE StoreInv'
  OBVIOUS
<1>1. CASE Beside
  BY <1>1 DEF Beside, StoreInv, shared
<1>d. CASE Deletes
  BY <1>d DEF Deletes, StoreInv, NoUpload
<1>2. ASSUME NEW r \in Requests, Confirms(r) PROVE StoreInv'
  <2>1. /\ \A q \in Requests \ {r} : rpc'[q] = rpc[q] /\ rmem'[q] = rmem[q]
        /\ rpc'[r] = "close" => rmem'[r].session \in store
        /\ store \subseteq store'
    BY <1>2 DEF Confirms, Mine, Asks, Sees, Closes, Catalogs, CreatesScan, PublishesScan
  <2>2. \A s \in Objects : uploads'[s] # uploads[s] => rpc[r] = "close" /\ s = rmem[r].session
    BY <1>2 DEF Confirms, Asks, Sees, Closes, Catalogs, CreatesScan, PublishesScan
  <2>3. QED
    BY <2>1, <2>2 DEF StoreInv
<1>3. QED
  BY <1>1, <1>d, <1>2, UploadSorts

\* CompleteUpload closes a session only after its object is in the bucket, and
\* the asset it writes is the object of a closed session, whatever fails in
\* between and however many confirmations run at once.
THEOREM ObjectsStored == Spec => []ClosedIsStored
<1>1. Init => StoreInv
  BY DEF Init, StoreInv, NoUpload
<1>2. TypeInv /\ StoreInv => ClosedIsStored
  BY DEF TypeInv, AssetInv, StoreInv, ClosedIsStored
<1>3. QED
  BY <1>1, <1>2, TypeInit, TypeNext, StoreNext, PTL DEF Spec

-----------------------------------------------------------------------------
(* The scan is published once *)

\* The request that inserted the job is the only one that may publish it.
ScanInv ==
    /\ published["scan"] <= 1
    /\ jobs["scan"] = NoJob /\ present => published["scan"] = 0
    /\ jobs["scan"] # NoJob => asset # NoAsset
    /\ \A r \in Requests : rpc[r] = "publish" =>
           /\ present => jobs["scan"] # NoJob
           /\ published["scan"] = 0
           /\ \A q \in Requests \ {r} : rpc[q] # "publish"

\* The request that inserts the job is the only one that publishes it.
LEMMA ScanNext == TypeInv /\ GoneInv /\ ScanInv /\ [Next]_upVars => ScanInv'
<1> SUFFICES ASSUME TypeInv, GoneInv, ScanInv, [Next]_upVars PROVE ScanInv'
  OBVIOUS
<1>t. UploadTypeOK
  BY DEF TypeInv
<1>1. CASE Beside
  BY <1>1 DEF Beside, ScanInv, shared
<1>d. CASE Deletes
  BY <1>d DEF Deletes, ScanInv, JobTypes
<1>2. ASSUME NEW r \in Requests, Mine(r), present' = present,
             Asks(r) \/ Sees(r) \/ Closes(r) \/ Catalogs(r)
      PROVE  ScanInv'
  BY <1>2 DEF Mine, Asks, Sees, Closes, Catalogs, ScanInv
<1>3. ASSUME NEW r \in Requests, Mine(r), present' = present, CreatesScan(r)
      PROVE  ScanInv'
  <2>1. present /\ jobs["scan"] = NoJob /\ published' = published /\ published["scan"] = 0
    BY <1>3 DEF CreatesScan, ScanInv, GoneInv
  <2>2. asset # NoAsset /\ asset' = asset
    BY <1>3 DEF CreatesScan
  <2>3. \A q \in Requests \ {r} : rpc'[q] # "publish"
    BY <1>3, <2>1 DEF Mine, ScanInv
  <2>4. rpc'[r] = "publish" => jobs'["scan"] # NoJob
    BY <1>3, <1>t, NewRows DEF CreatesScan, UploadTypeOK, JobTypes
  <2>5. QED
    BY <1>3, <2>1, <2>2, <2>3, <2>4 DEF ScanInv
<1>4. ASSUME NEW r \in Requests, Mine(r), present' = present, PublishesScan(r)
      PROVE  ScanInv'
  <2>1. /\ jobs' = jobs /\ asset' = asset /\ published["scan"] = 0
        /\ present => jobs["scan"] # NoJob
    BY <1>4 DEF PublishesScan, ScanInv
  <2>2. published'["scan"] <= 1
    BY <1>4, <1>t, <2>1 DEF PublishesScan, UploadTypeOK, JobTypes
  <2>3. \A q \in Requests : rpc'[q] # "publish"
    BY <1>4 DEF Mine, PublishesScan, ScanInv
  <2>4. QED
    BY <1>4, <2>1, <2>2, <2>3 DEF ScanInv
<1>5. QED
  BY <1>1, <1>d, <1>2, <1>3, <1>4, UploadSorts DEF Confirms

\* Nothing is published at the beginning.
LEMMA ScanInit == Init => ScanInv
  BY DEF Init, ScanInv, JobTypes

\* EnqueueJob publishes the scan of a resource once, and only when the asset
\* exists, however many confirmations of its uploads interleave.
THEOREM ScannedOnce == Spec => []ScanPublishedOnce
<1>1. ScanInv => ScanPublishedOnce
  BY DEF ScanInv, ScanPublishedOnce
<1>2. QED
  BY <1>1, TypeInit, TypeNext, GoneInit, GoneNext, ScanInit, ScanNext, PTL DEF Spec

-----------------------------------------------------------------------------
(* No multipart upload without a session *)

\* An upload is over with its session written, or with the multipart aborted.
LEMMA OrphanNext == TypeInv /\ NoOrphanMultipart /\ [Next]_upVars => NoOrphanMultipart'
<1> SUFFICES ASSUME TypeInv, NoOrphanMultipart, [Next]_upVars PROVE NoOrphanMultipart'
  OBVIOUS
<1> USE DEF sessions, objects
<1>t. UploadTypeOK
  BY DEF TypeInv
<1>q. ASSUME NoneOpened, present' = present,
             \A s \in Objects : uploads[s].status # "none" => uploads'[s].status # "none"
      PROVE  NoOrphanMultipart'
  BY <1>q DEF NoneOpened, NoOrphanMultipart
<1>1. ASSUME NEW r \in Requests, Confirms(r) PROVE NoOrphanMultipart'
  <2>1. \A s \in Objects : uploads[s].status # "none" => uploads'[s].status # "none"
    BY <1>1 DEF Confirms, Asks, Sees, Closes, Catalogs, CreatesScan, PublishesScan
  <2>2. QED
    BY <1>1, <1>q, <2>1 DEF Confirms
<1>2. ASSUME NEW s \in Objects, OpenMultipart(s) PROVE NoOrphanMultipart'
  <2>1. /\ opening' \in {[opening EXCEPT ![s] = "opened"], [opening EXCEPT ![s] = "lost"]}
        /\ multipart' \in {multipart, [multipart EXCEPT ![s] = "open"]}
        /\ uploads' = uploads /\ present' = present
    BY <1>2 DEF OpenMultipart, Effect, Open, shared
  <2>2. QED
    BY <1>t, <2>1 DEF NoOrphanMultipart, UploadTypeOK
<1>3. ASSUME NEW s \in Objects, CreateUploadSession(s), present PROVE NoOrphanMultipart'
  <2>1. PICK ok \in BOOLEAN, sum \in Declarations[s] :
           /\ opening' = [opening EXCEPT ![s] = IF ok THEN "over" ELSE "failed"]
           /\ uploads' \in Effect(ok, uploads,
                  [uploads EXCEPT ![s] = [status |-> "uploading", sum |-> sum]])
           /\ multipart' = multipart /\ present' = present
    BY <1>3 DEF CreateUploadSession, Open, shared
  <2>2. [status |-> "uploading", sum |-> sum].status = "uploading"
    OBVIOUS
  <2>3. \/ opening' = [opening EXCEPT ![s] = "failed"]
        \/ /\ opening' = [opening EXCEPT ![s] = "over"]
           /\ uploads'[s].status = "uploading"
    BY <1>t, <2>1, <2>2 DEF Effect, UploadTypeOK
  <2>4. \A o \in Objects \ {s} : uploads'[o] = uploads[o]
    BY <1>t, <2>1 DEF Effect, UploadTypeOK
  <2>5. QED
    BY <1>t, <2>1, <2>3, <2>4 DEF NoOrphanMultipart, UploadTypeOK
<1>4. ASSUME NEW s \in Objects, AbortMultipart(s) PROVE NoOrphanMultipart'
  <2>1. /\ uploads' = uploads /\ present' = present
        /\ \/ /\ opening' = [opening EXCEPT ![s] = "over"]
              /\ multipart' = [multipart EXCEPT ![s] = "aborted"]
           \/ /\ opening' = [opening EXCEPT ![s] = "lost"]
              /\ multipart' \in {multipart, [multipart EXCEPT ![s] = "aborted"]}
    BY <1>4 DEF AbortMultipart, AbortedMultipart, Effect, Open, shared
  <2>2. QED
    BY <1>t, <2>1 DEF NoOrphanMultipart, UploadTypeOK
<1>5. ASSUME NEW s \in Objects, CrashInitiate(s) PROVE NoOrphanMultipart'
  BY <1>t, <1>5 DEF CrashInitiate, Open, NoOrphanMultipart, UploadTypeOK, shared
<1>6. CASE UNCHANGED <<opening, multipart, uploads, present>>
  BY <1>6, <1>q DEF NoneOpened
<1>7. ASSUME NEW s \in Objects,
             Expire(s) \/ GetUploadPartURL(s) \/ PutPart(s) \/ ConfirmAgain(s)
      PROVE  NoOrphanMultipart'
  BY <1>6, <1>7 DEF Expire, GetUploadPartURL, PutPart, ConfirmAgain, upVars, shared
<1>8. CASE UNCHANGED upVars
  BY <1>6, <1>8 DEF upVars
<1>9. CASE ~present'
  BY <1>9 DEF NoOrphanMultipart
<1>10. ASSUME NEW s \in Objects, CreateUploadSession(s), ~present PROVE ~present'
  BY <1>10 DEF CreateUploadSession, shared
<1>11. ASSUME DeleteResource PROVE ~present'
  BY <1>11 DEF DeleteResource
<1>12. QED
  BY <1>1, <1>2, <1>3, <1>4, <1>5, <1>7, <1>8, <1>9, <1>10, <1>11, ConfirmSorts DEF Next

\* When the row of the session cannot be written, InitiateUpload aborts the
\* multipart upload it opened: unless that fails too, none is left in the
\* bucket that no session knows of.
THEOREM NoneOrphaned == Spec => []NoOrphanMultipart
<1>1. Init => NoOrphanMultipart
  BY DEF Init, NoOrphanMultipart
<1>2. QED
  BY <1>1, TypeInit, TypeNext, OrphanNext, PTL DEF Spec
=============================================================================
