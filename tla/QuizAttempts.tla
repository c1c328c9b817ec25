---------------------------- MODULE QuizAttempts ----------------------------
(***************************************************************************)
(* The attempts of ONE student at ONE quiz: StartAttempt, SaveAnswer,      *)
(* SubmitAttempt and GetAttemptForStudent of                               *)
(* internal/quizzes/usecase/service.go, called by replicated API processes *)
(* at the same time, each SQL statement a step.  Attempts of different     *)
(* students never meet in a statement, and those of other quizzes only in  *)
(* the keys, as two attempts of this quiz do.                              *)
(*                                                                         *)
(* A failed statement, a process that dies and an answer that is lost all  *)
(* end the request between two statements: no operation here does anything *)
(* after an error.                                                         *)
(***************************************************************************)
EXTENDS Naturals, FiniteSets

CONSTANTS
    Attempts,   \* rows of attempts that may be created
    Keys,       \* Idempotency-Key values the client may use
    Questions,  \* questions the teacher may write, of one point each
    Requests,   \* API calls that may run at one time
    MaxTries,   \* quizzes.max_attempts; where it is NULL, more than a student starts
    Null

ASSUME QuizAssumption ==
    /\ MaxTries \in Nat \ {0}
    /\ IsFiniteSet(Attempts) /\ IsFiniteSet(Requests) /\ IsFiniteSet(Questions)
    /\ Cardinality(Attempts) >= MaxTries + Cardinality(Requests)
    /\ Null \notin Keys

VARIABLES
    timed,      \* the quiz has a time_limit_seconds
    asked,      \* the questions of the quiz
    attempts,   \* the rows of attempts
    answers,    \* per attempt, the questions whose stored answer is right
    late,       \* attempts whose expires_at has passed
    qpc,        \* next step of each request
    qmem,       \* what each request holds in memory
    receipts    \* results of submitted attempts the client has been given

qvars == <<timed, asked, attempts, answers, late, qpc, qmem, receipts>>

Grade == [earned: 0..Cardinality(Questions), total: 0..Cardinality(Questions)]

NoGrade == [earned |-> 0, total |-> 0]

Attempt == [status:   {"none", "in_progress", "submitted", "expired"},
            snapshot: SUBSET Questions,
            key:      Keys \cup {Null},
            grade:    Grade]     \* score, percentage and passed follow from it

NoAttempt == [status |-> "none", snapshot |-> {}, key |-> Null, grade |-> NoGrade]

QPC == {"idle", "count", "startQuestions", "create", "byKey", "find", "check",
        "expire", "save", "questions", "answers", "write", "reread"}

Call == [op:      {"start", "save", "submit", "get"},
         attempt: Attempts \cup {Null},
         key:     Keys \cup {Null},
         right:   SUBSET Questions,   \* right answers to be saved, or as read
         row:     Attempt,            \* the attempt as it was read
         asked:   SUBSET Questions]   \* questions to be answered, or as read

NoCall == [op |-> "get", attempt |-> Null, key |-> Null, right |-> {},
           row |-> NoAttempt, asked |-> {}]

Init ==
    /\ timed \in BOOLEAN
    /\ asked \in SUBSET Questions
    /\ attempts = [a \in Attempts |-> NoAttempt]
    /\ answers = [a \in Attempts |-> {}]
    /\ late = {}
    /\ qpc = [r \in Requests |-> "idle"]
    /\ qmem = [r \in Requests |-> NoCall]
    /\ receipts = {}

Created == {a \in Attempts : attempts[a].status # "none"}

tables == <<timed, asked, attempts, answers, late>>

Step(r, step) == qpc' = [qpc EXCEPT ![r] = step]

\* The request is over; the client learns nothing it may rely on.
Over(r) == /\ qpc' = [qpc EXCEPT ![r] = "idle"]
           /\ qmem' = [qmem EXCEPT ![r] = NoCall]

\* The request is over and the client receives the attempt.
Give(r, row) ==
    /\ Over(r)
    /\ receipts' = receipts \cup
          (IF row.status = "submitted"
           THEN {[attempt |-> qmem[r].attempt, grade |-> row.grade]} ELSE {})

Begin(r, step, call) ==
    /\ qpc[r] = "idle"
    /\ Step(r, step)
    /\ qmem' = [qmem EXCEPT ![r] = call]
    /\ UNCHANGED <<tables, receipts>>

-----------------------------------------------------------------------------
(* StartAttempt *)

BeginStart(r) == Begin(r, "count", [NoCall EXCEPT !.op = "start"])

MayStart_OneMore(n) == n <= MaxTries

MayStart(n) == n < MaxTries

CountAttempts(r) ==
    /\ qpc[r] = "count"
    /\ IF MayStart(Cardinality(Created))
       THEN Step(r, "startQuestions") /\ UNCHANGED qmem
       ELSE Over(r)
    /\ UNCHANGED <<tables, receipts>>

\* A quiz without questions cannot be started.
ReadSnapshot(r) ==
    /\ qpc[r] = "startQuestions"
    /\ IF asked = {}
       THEN Over(r)
       ELSE /\ Step(r, "create")
            /\ qmem' = [qmem EXCEPT ![r].asked = asked]
    /\ UNCHANGED <<tables, receipts>>

CreateAttempt(r) ==
    /\ qpc[r] = "create"
    /\ \E a \in Attempts \ Created :
          attempts' = [attempts EXCEPT ![a] =
              [NoAttempt EXCEPT !.status = "in_progress",
                                !.snapshot = qmem[r].asked]]
    /\ Over(r)
    /\ UNCHANGED <<timed, asked, answers, late, receipts>>

-----------------------------------------------------------------------------
(* The attempt is read, and found open, closed or out of time *)

\* The question of an answer was found in the quiz; questions never leave it.
BeginSave(r, a, q, right) ==
    /\ q \in asked /\ right \subseteq {q}
    /\ Begin(r, "find", [NoCall EXCEPT !.op = "save", !.attempt = a,
                                       !.right = right, !.asked = {q}])

BeginSubmit(r, a, k) ==
    Begin(r, "byKey", [NoCall EXCEPT !.op = "submit", !.attempt = a, !.key = k])

BeginGet(r, a) == Begin(r, "find", [NoCall EXCEPT !.attempt = a])

\* A key already used for this attempt gives its result back, one used for
\* another attempt is a conflict.
FindByKey(r) ==
    /\ qpc[r] = "byKey"
    /\ LET used == {a \in Attempts : attempts[a].key = qmem[r].key}
       IN  \/ /\ used = {}
              /\ Step(r, "find")
              /\ UNCHANGED <<qmem, receipts>>
           \/ /\ qmem[r].attempt \in used
              /\ Give(r, attempts[qmem[r].attempt])
           \/ /\ used \ {qmem[r].attempt} # {}
              /\ Over(r)
              /\ UNCHANGED receipts
    /\ UNCHANGED tables

FindAttempt(r) ==
    /\ qpc[r] = "find"
    /\ Step(r, "check")
    /\ qmem' = [qmem EXCEPT ![r].row = attempts[qmem[r].attempt]]
    /\ UNCHANGED <<tables, receipts>>

\* The status in the row that was read, and the clock.
CheckAttempt(r) ==
    /\ qpc[r] = "check"
    /\ LET status == qmem[r].row.status
       IN  \/ /\ status = "submitted" /\ qmem[r].op # "save"
              /\ Give(r, qmem[r].row)
           \/ /\ \/ status = "submitted" /\ qmem[r].op = "save"
                 \/ status = "expired"
                 \/ /\ status = "in_progress" /\ qmem[r].op = "get"
                    /\ qmem[r].attempt \notin late
              /\ Over(r)
              /\ UNCHANGED receipts
           \/ /\ status = "in_progress" /\ qmem[r].attempt \in late
              /\ Step(r, "expire")
              /\ UNCHANGED <<qmem, receipts>>
           \/ /\ status = "in_progress" /\ qmem[r].attempt \notin late
              /\ qmem[r].op # "get"
              /\ Step(r, IF qmem[r].op = "save" THEN "save" ELSE "questions")
              /\ qmem' = [qmem EXCEPT ![r].row = NoAttempt]
              /\ UNCHANGED receipts
    /\ UNCHANGED tables

\* UpdateAttempt: every column of the row that was read, on one condition: id.
ExpiredRow_Closed(row) == [row EXCEPT !.status = "closed"]

ExpiredRow(row) == [row EXCEPT !.status = "expired"]

ExpireAttempt(r) ==
    /\ qpc[r] = "expire"
    /\ attempts' = [attempts EXCEPT ![qmem[r].attempt] = ExpiredRow(qmem[r].row)]
    /\ Over(r)
    /\ UNCHANGED <<timed, asked, answers, late, receipts>>

SaveAnswer(r) ==
    /\ qpc[r] = "save"
    /\ answers' = [answers EXCEPT ![qmem[r].attempt] =
                      (@ \ qmem[r].asked) \cup qmem[r].right]
    /\ Over(r)
    /\ UNCHANGED <<timed, asked, attempts, late, receipts>>

-----------------------------------------------------------------------------
(* SubmitAttempt: grade what is stored now, write it if still in progress *)

ReadQuestions(r) ==
    /\ qpc[r] = "questions"
    /\ Step(r, "answers")
    /\ qmem' = [qmem EXCEPT ![r].asked = asked]
    /\ UNCHANGED <<tables, receipts>>

ReadAnswers(r) ==
    /\ qpc[r] = "answers"
    /\ Step(r, "write")
    /\ qmem' = [qmem EXCEPT ![r].right = answers[qmem[r].attempt]]
    /\ UNCHANGED <<tables, receipts>>

\* The questions of the quiz as it is now, not those of the snapshot.
GradeOf_Answered(questions, right) ==
    [earned |-> Cardinality(questions \cap right),
     total  |-> Cardinality(questions \cap right)]

GradeOf(questions, right) ==
    [earned |-> Cardinality(questions \cap right),
     total  |-> Cardinality(questions)]

\* SubmitAttemptIfInProgress updates no row that is not in progress.
MayWrite_Always(status) == TRUE

MayWrite(status) == status = "in_progress"

\* UNIQUE (student_id, idempotency_key).
KeyTaken_NoIndex(k, a) == FALSE

KeyTaken(k, a) == \E b \in Attempts \ {a} : attempts[b].key = k

\* What was read is not used any more.
Forget(r) == qmem' = [qmem EXCEPT ![r].right = {}, ![r].asked = {}]

WriteResult(r) ==
    /\ qpc[r] = "write"
    /\ LET a == qmem[r].attempt
       IN  \/ /\ MayWrite(attempts[a].status) /\ ~KeyTaken(qmem[r].key, a)
              /\ attempts' = [attempts EXCEPT ![a] =
                     [@ EXCEPT !.status = "submitted", !.key = qmem[r].key,
                               !.grade = GradeOf(qmem[r].asked, qmem[r].right)]]
              /\ Step(r, "reread") /\ Forget(r)
           \/ /\ MayWrite(attempts[a].status) /\ KeyTaken(qmem[r].key, a)
              /\ Over(r) /\ UNCHANGED attempts
           \/ /\ ~MayWrite(attempts[a].status)
              /\ Step(r, "reread") /\ Forget(r) /\ UNCHANGED attempts
    /\ UNCHANGED <<timed, asked, answers, late, receipts>>

\* The client is given the row that is stored, whoever wrote it.
Reread(r) ==
    /\ qpc[r] = "reread"
    /\ Give(r, attempts[qmem[r].attempt])
    /\ UNCHANGED tables

RequestStep(r) ==
    \/ CountAttempts(r) \/ ReadSnapshot(r)  \/ CreateAttempt(r)
    \/ FindByKey(r)     \/ FindAttempt(r)   \/ CheckAttempt(r)
    \/ ExpireAttempt(r) \/ SaveAnswer(r)    \/ ReadQuestions(r)
    \/ ReadAnswers(r)   \/ WriteResult(r)   \/ Reread(r)

-----------------------------------------------------------------------------
(* The world outside the requests *)

Abort(r) == qpc[r] # "idle" /\ Over(r) /\ UNCHANGED <<tables, receipts>>

PassDeadline(a) ==
    /\ timed /\ a \in Created
    /\ a \notin late
    /\ late' = late \cup {a}
    /\ UNCHANGED <<timed, asked, attempts, answers, qpc, qmem, receipts>>

\* CreateQuestion does not ask whether the quiz is published or in use.
CreateQuestion(q) ==
    /\ q \notin asked
    /\ asked' = asked \cup {q}
    /\ UNCHANGED <<timed, attempts, answers, late, qpc, qmem, receipts>>

Next ==
    \/ \E r \in Requests : BeginStart(r)
    \/ \E r \in Requests, a \in Created, q \in Questions,
          right \in SUBSET Questions : BeginSave(r, a, q, right)
    \/ \E r \in Requests, a \in Created, k \in Keys : BeginSubmit(r, a, k)
    \/ \E r \in Requests, a \in Created : BeginGet(r, a)
    \/ \E r \in Requests : RequestStep(r)
    \/ \E r \in Requests : Abort(r)
    \/ \E a \in Attempts : PassDeadline(a)
    \/ \E q \in Questions : CreateQuestion(q)

Spec == Init /\ [][Next]_qvars

-----------------------------------------------------------------------------
(* Properties *)

Receipt == [attempt: Attempts, grade: Grade]

QuizTypeOK ==
    /\ timed \in BOOLEAN
    /\ asked \subseteq Questions
    /\ attempts \in [Attempts -> Attempt]
    /\ answers \in [Attempts -> SUBSET Questions]
    /\ late \subseteq Attempts
    /\ qpc \in [Requests -> QPC]
    /\ qmem \in [Requests -> Call]
    /\ receipts \subseteq Receipt

\* An attempt is graded once: whatever submissions of it run at once, with the
\* same key or not, are repeated after an error or race with saved answers and
\* with the deadline, every submission and every GET of the attempt that shows
\* a grade shows the same one.
OneResult ==
    \A x, y \in receipts : x.attempt = y.attempt => x.grade = y.grade

\* No two attempts have one key, and in a quiz without time limit the result that
\* a client was given stays where its retries look for it: in its attempt, under
\* a key.
KeyNamesOneAttempt ==
    /\ \A a, b \in Created :
          attempts[a].key = attempts[b].key /\ attempts[a].key # Null => a = b
    /\ ~timed => \A x \in receipts :
          attempts[x.attempt].key # Null /\ attempts[x.attempt].grade = x.grade

\* The count of the attempts and the insertion are two statements: max_attempts
\* may be exceeded, by no more than the starts that run at the same time.
OverrunIsBounded == Cardinality(Created) < MaxTries + Cardinality(Requests)

\* Nobody is graded on less than what the snapshot of the attempt showed: the
\* questions are read again at the end, when the teacher may have added some
\* and the student may have left some without answer.
GradeCoversSnapshot ==
    \A x \in receipts :
        x.grade.total >= Cardinality(attempts[x.attempt].snapshot)

-----------------------------------------------------------------------------
(* Claims of the repository that this code does not keep *)

\* README.md:738-739: the final submission is protected by its key, and the
\* retries of a submission give back the result that exists.
SubmittedIsFinal ==
    [][\A a \in Attempts :
           attempts[a].status = "submitted" => attempts'[a] = attempts[a]]_qvars

\* README.md:730-731: the snapshot keeps the contents of the quiz for as long
\* as the attempt is being solved.
GradedOnSnapshot ==
    \A x \in receipts :
        x.grade.total = Cardinality(attempts[x.attempt].snapshot)
=============================================================================
