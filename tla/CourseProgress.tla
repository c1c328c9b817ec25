--------------------------- MODULE CourseProgress ---------------------------
(***************************************************************************)
(* The progress of ONE enrolled student in ONE course and the badge it     *)
(* earns: OpenResource, Heartbeat, CompleteResource, RecordQuizResult and  *)
(* RecalculateCourseProgress of internal/progress/usecase/service.go with  *)
(* the handlers that call them, and EnsureBadgeIssued and Revoke of        *)
(* internal/badges/usecase/service.go.  Every SQL statement is a step of a *)
(* request, and requests of replicated API processes run at the same time. *)
(*                                                                         *)
(* A resource is named by its stable_id, which survives new versions of    *)
(* the course.  A failed statement, a refusal of the service, a process    *)
(* that dies and an answer that is lost all end a request between two      *)
(* statements: nothing here does anything after an error.                  *)
(***************************************************************************)
EXTENDS Naturals, FiniteSets, Sequences

CONSTANTS
    Resources,  \* stable ids of the resources of the course
    Quizzes,    \* those of them that are quizzes
    Timed,      \* videos and audios whose asset has a duration
    Versions,   \* what each version published in turn requires
    Requests,   \* API calls that may run at one time
    MinActive,  \* heartbeats that add up to minCompletionSeconds
    Null

ASSUME ProgressAssumption ==
    /\ Quizzes \subseteq Resources /\ Timed \subseteq Resources \ Quizzes
    /\ Versions \in Seq(SUBSET Resources) /\ Versions # <<>>
    /\ IsFiniteSet(Resources) /\ Resources # {}
    /\ MinActive \in Nat
    /\ Null \notin Requests

VARIABLES
    version,    \* index in Versions of the published version
    rows,       \* resource_progress, by stable id
    events,     \* progress_events: rows of each quiz event
    course,     \* the row of course_progress
    template,   \* a badge of the course exists
    badges,     \* badge_issuances, in the order they were inserted
    ppc,        \* next step of each request
    pmem,       \* what each request holds in memory
    once,       \* history: resources that were completed at some time
    alone       \* history: the call nothing has run beside, or Null

tables == <<version, rows, events, course, template, badges>>
pvars  == <<tables, ppc, pmem, once, alone>>

Row == [status:  {"none", "in_progress", "completed"},
        active:  0..MinActive,
        watched: BOOLEAN]      \* last_position_seconds reaches 90% of the video

NoRow == [status |-> "none", active |-> 0, watched |-> FALSE]

Count == 0..Cardinality(Resources)

CourseRow ==       \* progress_percentage = done / of
    {c \in [status: {"none", "in_progress", "completed", "approved"},
            done: Count, of: Count] : c.done <= c.of}

NoCourse == [status |-> "none", done |-> 0, of |-> 0]

QuizEvents == Quizzes \X {"submitted", "passed"}

PPC == {"idle", "find", "put", "hasSubmitted", "addSubmitted", "hasPassed",
        "addPassed", "tree", "completed", "passed", "course", "putCourse",
        "approved", "issued", "template", "issue"}

Call == [op:       {"open", "beat", "complete", "submit"},
         resource: Resources,
         pass:     BOOLEAN]     \* the graded attempt passed

Memory == [call:      Call,
           row:       Row,      \* the row of the resource as it was read
           required:  SUBSET Resources,
           completed: SUBSET Resources,
           passed:    SUBSET Quizzes,
           course:    CourseRow]

Nothing == [call |-> [op |-> "open", resource |-> CHOOSE x \in Resources : TRUE,
                      pass |-> FALSE],
            row |-> NoRow, required |-> {}, completed |-> {}, passed |-> {},
            course |-> NoCourse]

Lone == [call: Call, done: BOOLEAN]     \* done: it succeeded, and all is quiet

Init ==
    /\ version = 1
    /\ rows = [r \in Resources |-> NoRow]
    /\ events = [e \in QuizEvents |-> 0]
    /\ course = NoCourse
    /\ template \in BOOLEAN
    /\ badges = <<>>
    /\ ppc = [r \in Requests |-> "idle"]
    /\ pmem = [r \in Requests |-> Nothing]
    /\ once = {}
    /\ alone = Null

Completed == {x \in Resources : rows[x].status = "completed"}

Passed == {q \in Quizzes : events[<<q, "passed">>] > 0}

Required == Versions[version]

Step(r, step) == ppc' = [ppc EXCEPT ![r] = step]

Go(r, step) == Step(r, step) /\ UNCHANGED alone

Forget(r) == pmem' = [pmem EXCEPT ![r] = Nothing]

\* The request is over, and did not bring the course up to date.
Fail(r) == Step(r, "idle") /\ Forget(r) /\ alone' = Null

\* The recalculation is over and the client gets its 200.
Succeed(r) == /\ Step(r, "idle") /\ Forget(r)
              /\ alone' = IF alone = Null THEN Null ELSE [alone EXCEPT !.done = TRUE]

Begin(r, call) ==
    /\ ppc[r] = "idle"
    /\ Step(r, "find")
    /\ pmem' = [pmem EXCEPT ![r].call = call]
    /\ alone' = IF \A s \in Requests : ppc[s] = "idle"
                THEN [call |-> call, done |-> FALSE] ELSE Null
    /\ UNCHANGED <<tables, once>>

\* Recalculate is given the student and the course, and nothing of the call.
Recalculate(r) == Go(r, "tree") /\ Forget(r)

-----------------------------------------------------------------------------
(* The row of a resource is read, changed in memory and written whole *)

BeginOpen(r, x)      == Begin(r, [op |-> "open", resource |-> x, pass |-> FALSE])
BeginBeat(r, x)      == Begin(r, [op |-> "beat", resource |-> x, pass |-> FALSE])
BeginComplete(r, x)  == Begin(r, [op |-> "complete", resource |-> x, pass |-> FALSE])

\* The graded submission is stored: SubmitAttempt repeats this part as often
\* as the client repeats the submission.
BeginSubmit(r, q, p) == Begin(r, [op |-> "submit", resource |-> q, pass |-> p])

OpenedRow_Restart(row) == [row EXCEPT !.status = "in_progress"]

OpenedRow(row) ==
    IF row.status = "none" THEN [row EXCEPT !.status = "in_progress"] ELSE row

\* A heartbeat of a completed resource is answered and changes nothing.
MayBeat(row) == row.status = "in_progress"

\* Between nothing and a whole gap of active time, and the furthest position.
BeatRow(row, add, far) ==
    [row EXCEPT !.active = IF @ + add > MinActive THEN MinActive ELSE @ + add,
                !.watched = @ \/ far]

MayComplete(x, row) == row.active = MinActive /\ (x \in Timed => row.watched)

CompletedRow(row) == [row EXCEPT !.status = "completed"]

\* RecordQuizResult asks for no active time.
RecordedRow(row) == [row EXCEPT !.status = "completed"]

\* The first statement of every operation and what follows from the row.
FindRow(r) ==
    /\ ppc[r] = "find"
    /\ LET c   == pmem[r].call
           row == rows[c.resource]
           Keep(new) == /\ Go(r, "put")
                        /\ pmem' = [pmem EXCEPT ![r].row = new]
       IN  \/ c.op = "open" /\ Keep(OpenedRow(row))
           \/ c.op = "submit" /\ Keep(RecordedRow(row))
           \/ /\ c.op = "beat" /\ MayBeat(row)
              /\ \E add \in 0..1, far \in BOOLEAN :
                    (far => c.resource \in Timed) /\ Keep(BeatRow(row, add, far))
           \/ /\ c.op = "complete" /\ row.status = "in_progress"
              /\ MayComplete(c.resource, row)
              /\ Keep(CompletedRow(row))
           \/ /\ c.op = "complete" /\ row.status = "completed"
              /\ Recalculate(r)
           \/ c.op = "beat" /\ ~MayBeat(row) /\ Fail(r)
           \/ c.op = "complete" /\ row.status = "none" /\ Fail(r)
           \/ /\ c.op = "complete" /\ row.status = "in_progress"
              /\ ~MayComplete(c.resource, row)
              /\ Fail(r)
    /\ UNCHANGED <<tables, once>>

\* UpsertResourceProgress writes every column, whatever the row is by now.
StoredRow_KeepsCompleted(old, new) ==
    IF old.status = "completed" THEN [new EXCEPT !.status = "completed"] ELSE new

StoredRow(old, new) == new

PutRow(r) ==
    /\ ppc[r] = "put"
    /\ LET c   == pmem[r].call
           new == StoredRow(rows[c.resource], pmem[r].row)
       IN  /\ rows' = [rows EXCEPT ![c.resource] = new]
           /\ once' = IF new.status = "completed" THEN once \cup {c.resource} ELSE once
           /\ \/ c.op \in {"open", "beat"} /\ Fail(r)
              \/ c.op = "complete" /\ Recalculate(r)
              \/ /\ c.op = "submit" /\ Go(r, "hasSubmitted")
                 /\ pmem' = [pmem EXCEPT ![r].row = NoRow]
    /\ UNCHANGED <<version, events, course, template, badges>>

-----------------------------------------------------------------------------
(* RecordQuizResult: two events of a quiz, each looked for before it is     *)
(* inserted                                                                 *)

Event(r, type) == <<pmem[r].call.resource, type>>

AfterSubmitted(r) ==
    IF pmem[r].call.pass THEN Go(r, "hasPassed") /\ UNCHANGED pmem ELSE Recalculate(r)

HasSubmitted_IsDone(r) ==
    /\ ppc[r] = "hasSubmitted"
    /\ IF events[Event(r, "submitted")] > 0
       THEN Succeed(r)
       ELSE Go(r, "addSubmitted") /\ UNCHANGED pmem
    /\ UNCHANGED <<tables, once>>

HasSubmitted(r) ==
    /\ ppc[r] = "hasSubmitted"
    /\ IF events[Event(r, "submitted")] > 0
       THEN AfterSubmitted(r)
       ELSE Go(r, "addSubmitted") /\ UNCHANGED pmem
    /\ UNCHANGED <<tables, once>>

HasPassed(r) ==
    /\ ppc[r] = "hasPassed"
    /\ IF events[Event(r, "passed")] > 0
       THEN Recalculate(r)
       ELSE Go(r, "addPassed") /\ UNCHANGED pmem
    /\ UNCHANGED <<tables, once>>

\* INSERT ... ON CONFLICT DO NOTHING on the partial UNIQUE index.
Inserted(n) == 1

AddSubmitted(r) ==
    /\ ppc[r] = "addSubmitted"
    /\ events' = [events EXCEPT ![Event(r, "submitted")] = Inserted(@)]
    /\ AfterSubmitted(r)
    /\ UNCHANGED <<version, rows, course, template, badges, once>>

AddPassed(r) ==
    /\ ppc[r] = "addPassed"
    /\ events' = [events EXCEPT ![Event(r, "passed")] = Inserted(@)]
    /\ Recalculate(r)
    /\ UNCHANGED <<version, rows, course, template, badges, once>>

-----------------------------------------------------------------------------
(* RecalculateCourseProgress *)

\* FindPublishedVersion and LoadTree: what is published does not change.
LoadTree(r) ==
    /\ ppc[r] = "tree"
    /\ pmem' = [pmem EXCEPT ![r].required = Required]
    /\ Go(r, "completed")
    /\ UNCHANGED <<tables, once>>

ListCompleted(r) ==
    /\ ppc[r] = "completed"
    /\ pmem' = [pmem EXCEPT ![r].completed = Completed]
    /\ Go(r, "passed")
    /\ UNCHANGED <<tables, once>>

ListPassed(r) ==
    /\ ppc[r] = "passed"
    /\ pmem' = [pmem EXCEPT ![r].passed = Passed]
    /\ Go(r, "course")
    /\ UNCHANGED <<tables, once>>

\* The status only moves when everything required is completed.
Recalculated_Uncounted(row, required, completed, passed) ==
    [status |-> row.status, done |-> Cardinality(completed),
     of |-> Cardinality(required)]

Recalculated_OnlyQuizzes(row, required, completed, passed) ==
    [status |-> IF required # {} /\ required \cap Quizzes \subseteq passed
                THEN "approved"
                ELSE IF row.status = "none" THEN "in_progress" ELSE row.status,
     done   |-> Cardinality(required \cap completed),
     of     |-> Cardinality(required)]

Recalculated(row, required, completed, passed) ==
    [status |-> IF required # {} /\ required \subseteq completed
                THEN IF required \cap Quizzes \subseteq passed
                     THEN "approved" ELSE "completed"
                ELSE IF row.status = "none" THEN "in_progress" ELSE row.status,
     done   |-> Cardinality(required \cap completed),
     of     |-> Cardinality(required)]

ReadCourse(r) ==
    /\ ppc[r] = "course"
    /\ LET m == pmem[r]
       IN  pmem' = [pmem EXCEPT ![r] =
              [Nothing EXCEPT !.course =
                  Recalculated(course, m.required, m.completed, m.passed)]]
    /\ Go(r, "putCourse")
    /\ UNCHANGED <<tables, once>>

\* UpsertCourseProgress writes every column; the badge is for approved courses.
PutCourse(r) ==
    /\ ppc[r] = "putCourse"
    /\ course' = pmem[r].course
    /\ IF course'.status = "approved"
       THEN Go(r, "approved") /\ Forget(r)
       ELSE Succeed(r)
    /\ UNCHANGED <<version, rows, events, template, badges, once>>

-----------------------------------------------------------------------------
(* EnsureBadgeIssued *)

\* IssueBadgeIfApproved reads the course again: it may not be approved by now.
FindApproved(r) ==
    /\ ppc[r] = "approved"
    /\ IF course.status = "approved"
       THEN Go(r, "issued") /\ UNCHANGED pmem
       ELSE Fail(r)
    /\ UNCHANGED <<tables, once>>

\* GetIssuanceByStudentAndCourse also finds the one that was revoked.
Issued_NotRevoked == \E i \in DOMAIN badges : ~badges[i].revoked

Issued == badges # <<>>

FindIssuance(r) ==
    /\ ppc[r] = "issued"
    /\ IF Issued THEN Succeed(r) ELSE Go(r, "template") /\ UNCHANGED pmem
    /\ UNCHANGED <<tables, once>>

\* A course without a badge is no error.
FindTemplate(r) ==
    /\ ppc[r] = "template"
    /\ IF template THEN Go(r, "issue") /\ UNCHANGED pmem ELSE Succeed(r)
    /\ UNCHANGED <<tables, once>>

\* UNIQUE (student_id, course_id, badge_id), and a course has one badge.
MayInsert_NoIndex == TRUE

MayInsert == badges = <<>>

CreateIssuance(r) ==
    /\ ppc[r] = "issue"
    /\ \/ /\ MayInsert
          /\ badges' = Append(badges, [revoked |-> FALSE])
          /\ Succeed(r)
       \/ /\ ~MayInsert
          /\ Fail(r) /\ UNCHANGED badges
    /\ UNCHANGED <<version, rows, events, course, template, once>>

RequestStep(r) ==
    \/ FindRow(r)      \/ PutRow(r)        \/ HasSubmitted(r)
    \/ HasPassed(r)    \/ AddSubmitted(r)  \/ AddPassed(r)
    \/ LoadTree(r)     \/ ListCompleted(r) \/ ListPassed(r)
    \/ ReadCourse(r)   \/ PutCourse(r)     \/ FindApproved(r)
    \/ FindIssuance(r) \/ FindTemplate(r)  \/ CreateIssuance(r)

-----------------------------------------------------------------------------
(* Around the requests of the student *)

Abort(r) == ppc[r] # "idle" /\ Fail(r) /\ UNCHANGED <<tables, once>>

\* The teacher publishes the next version.
PublishVersion ==
    /\ version < Len(Versions)
    /\ version' = version + 1
    /\ alone' = Null
    /\ UNCHANGED <<rows, events, course, template, badges, ppc, pmem, once>>

\* The existing one is given back, and UNIQUE (course_id) allows no other.
CreateBadge ==
    /\ ~template
    /\ template' = TRUE
    /\ alone' = Null
    /\ UNCHANGED <<version, rows, events, course, badges, ppc, pmem, once>>

Revoke(i) ==
    /\ ~badges[i].revoked
    /\ badges' = [badges EXCEPT ![i].revoked = TRUE]
    /\ alone' = Null
    /\ UNCHANGED <<version, rows, events, course, template, ppc, pmem, once>>

Next ==
    \/ \E r \in Requests, x \in Resources : BeginOpen(r, x)
    \/ \E r \in Requests, x \in Resources : BeginBeat(r, x)
    \/ \E r \in Requests, x \in Resources : BeginComplete(r, x)
    \/ \E r \in Requests, q \in Quizzes, p \in BOOLEAN : BeginSubmit(r, q, p)
    \/ \E r \in Requests : RequestStep(r)
    \/ \E r \in Requests : Abort(r)
    \/ PublishVersion
    \/ CreateBadge
    \/ \E i \in DOMAIN badges : Revoke(i)

Spec == Init /\ [][Next]_pvars

-----------------------------------------------------------------------------
(* Properties *)

ProgressTypeOK ==
    /\ version \in DOMAIN Versions
    /\ rows \in [Resources -> Row]
    /\ events \in [QuizEvents -> Nat]
    /\ course \in CourseRow
    /\ template \in BOOLEAN
    /\ badges \in Seq([revoked: BOOLEAN])
    /\ ppc \in [Requests -> PPC]
    /\ pmem \in [Requests -> Memory]
    /\ once \subseteq Resources
    /\ alone \in Lone \cup {Null}

\* Although every operation writes the whole row over whatever was stored
\* since it read it, nothing is ever completed with less than the time and the
\* position that completion asks for.
CompletedIsEarned ==
    \A x \in Completed \ Quizzes : MayComplete(x, rows[x])

\* A badge stands for a version of the course that the student went through:
\* everything it required was completed at some time and its quizzes passed,
\* although tree, rows, events and the approval are read one after the other
\* and all of them may change meanwhile.
BadgeIsEarned ==
    badges # <<>> =>
        \E v \in 1..version :
            /\ Versions[v] # {}
            /\ Versions[v] \subseteq once
            /\ Versions[v] \cap Quizzes \subseteq Passed

\* A student has one badge of a course for ever, however many recalculations
\* find none and insert: so a revoked badge is never issued again.  A quiz counts
\* as submitted and as passed once, however often a submission is repeated and
\* however many of them look for the event at the same time.
RecordedOnce == Len(badges) <= 1 /\ \A e \in QuizEvents : events[e] <= 1

\* Without another request at the same time, no operation takes a completed
\* resource back.
AloneKeepsCompleted ==
    [][alone # Null => \A x \in Completed : rows'[x].status = "completed"]_pvars

\* One completion or one submission that runs alone repairs whatever earlier
\* ones left undone, dead or late: the row and the events of the resource, the
\* percentage and the status of the course and the badge agree when it ends.
Settled(call) ==
    /\ call.resource \in Completed
    /\ call.op = "submit" => events[<<call.resource, "submitted">>] > 0
    /\ call.op = "submit" /\ call.pass => call.resource \in Passed
    /\ course.of = Cardinality(Required)
    /\ course.done = Cardinality(Required \cap Completed)
    /\ Required # {} /\ Required \subseteq Completed =>
          course.status = IF Required \cap Quizzes \subseteq Passed
                          THEN "approved" ELSE "completed"
    /\ course.status = "approved" /\ template => badges # <<>>

AloneSettles == alone # Null => (alone.done => Settled(alone.call))

-----------------------------------------------------------------------------
(* Claims of the repository that this code does not keep *)

Quiet == \A r \in Requests : ppc[r] = "idle"

\* README.md:750: a quiz is marked as completed when it is submitted.  OpenResource
\* or a heartbeat that read the row before writes it back as in progress.
SubmittedIsCompleted ==
    Quiet => \A q \in Quizzes : events[<<q, "submitted">>] > 0 => q \in Completed

\* README.md:754-755: approved is everything completed and every quiz passed.
\* The recalculation that read less writes last, and the approval is gone.
ApprovedStays ==
    [][course.status = "approved" /\ version' = version
          => course'.status = "approved"]_pvars
=============================================================================
