------------------------- MODULE QuizAttemptsProofs -------------------------
(***************************************************************************)
(* One result, one key and one bound for the attempts of a student, for    *)
(* any number of requests, attempts, keys and questions.                   *)
(***************************************************************************)
EXTENDS QuizAttempts, FiniteSetTheorems, TLAPS

-----------------------------------------------------------------------------
(* Types *)

\* The fields of what a request holds.
LEMMA CallFields ==
    ASSUME NEW m \in Call
    PROVE  /\ m.op \in {"start", "save", "submit", "get"}
           /\ m.attempt \in Attempts \cup {Null} /\ m.key \in Keys \cup {Null}
           /\ m.right \subseteq Questions /\ m.row \in Attempt
           /\ m.asked \subseteq Questions
  BY DEF Call

\* What an idle request holds, and the row of an attempt that does not exist.
LEMMA NoCallType == NoCall \in Call /\ NoAttempt \in Attempt /\ NoGrade \in Grade
<1>1. Cardinality(Questions) \in Nat
  BY FS_CardinalityType, QuizAssumption
<1>2. NoGrade \in Grade
  BY <1>1 DEF NoGrade, Grade
<1>3. NoAttempt \in Attempt
  BY <1>2 DEF NoAttempt, Attempt
<1>4. QED
  BY <1>2, <1>3 DEF NoCall, Call

\* A grade is a grade, and counts every question that was asked.
LEMMA GradeType ==
    ASSUME NEW questions \in SUBSET Questions, NEW right \in SUBSET Questions
    PROVE  /\ GradeOf(questions, right) \in Grade
           /\ \A shown \in SUBSET questions :
                 GradeOf(questions, right).total >= Cardinality(shown)
<1>1. IsFiniteSet(Questions) /\ Cardinality(Questions) \in Nat
  BY FS_CardinalityType, QuizAssumption
<1>2. \A s \in SUBSET Questions : /\ IsFiniteSet(s) /\ Cardinality(s) \in Nat
                                  /\ Cardinality(s) <= Cardinality(Questions)
  BY <1>1, FS_Subset, FS_CardinalityType
<1>3. questions \cap right \in SUBSET Questions
  OBVIOUS
<1>4. GradeOf(questions, right) \in Grade
  BY <1>1, <1>2, <1>3 DEF GradeOf, Grade
<1>5. \A shown \in SUBSET questions : Cardinality(shown) <= Cardinality(questions)
  BY <1>2, FS_Subset
<1>6. \A shown \in SUBSET questions :
          GradeOf(questions, right).total >= Cardinality(shown)
  BY <1>2, <1>5 DEF GradeOf
<1>7. QED
  BY <1>4, <1>6

\* The steps at which a request works on an attempt, and those of a submission.
OnAttempt == {"byKey", "find", "check", "expire", "save",
              "questions", "answers", "write", "reread"}

Submitting == {"byKey", "questions", "answers", "write", "reread"}

\* What a request holds at a step: an attempt that exists, a row of it that was
\* read, the questions that its snapshot came from or that it is graded on.
Shape(r) ==
    LET m == qmem[r]
    IN  /\ qpc[r] \in OnAttempt => m.attempt \in Created
        /\ qpc[r] \in {"find", "check"} => m.op # "start"
        /\ qpc[r] \in Submitting => m.op = "submit"
        /\ m.op = "submit" => m.key # Null
        /\ qpc[r] = "create" => m.asked \subseteq asked
        /\ qpc[r] \in {"answers", "write"} =>
              attempts[m.attempt].snapshot \subseteq m.asked
        /\ qpc[r] \in {"check", "expire"} =>
              /\ m.row.status # "none"
              /\ m.row.snapshot = attempts[m.attempt].snapshot
              /\ (m.row.status = "submitted") <=> (m.row.key # Null)
        /\ qpc[r] = "expire" => m.row.status = "in_progress" /\ timed

\* What a row holds: its key came with its result, its snapshot from the quiz.
RowShape(a) ==
    /\ (attempts[a].status = "submitted") <=> (attempts[a].key # Null)
    /\ attempts[a].snapshot \subseteq asked

TypeInv ==
    /\ QuizTypeOK
    /\ \A r \in Requests : Shape(r)
    /\ \A a \in Attempts : RowShape(a)
    /\ late # {} => timed

\* A grade that a client was given, may read or is about to be given.
Shows(a, g) ==
    \/ [attempt |-> a, grade |-> g] \in receipts
    \/ attempts[a].status = "submitted" /\ attempts[a].grade = g
    \/ \E r \in Requests : /\ qpc[r] = "check" /\ qmem[r].attempt = a
                           /\ qmem[r].row.status = "submitted"
                           /\ qmem[r].row.grade = g

\* The requests that passed the count and have not created their attempt.
Starting == {r \in Requests : qpc[r] \in {"startQuestions", "create"}}

GradeInv ==
    \A a \in Attempts, g \in Grade :
        Shows(a, g) =>
            /\ attempts[a].status \in {"submitted", "expired"}
            /\ \A h \in Grade : Shows(a, h) => g = h

CoverInv ==
    \A a \in Attempts, g \in Grade :
        Shows(a, g) => g.total >= Cardinality(attempts[a].snapshot)

StoredInv ==
    ~timed => \A a \in Attempts, g \in Grade :
                 Shows(a, g) => /\ attempts[a].status = "submitted"
                                /\ attempts[a].grade = g

KeyInv ==
    \A a, b \in Attempts :
        attempts[a].key = attempts[b].key /\ attempts[a].key # Null => a = b

OverrunInv ==
    Cardinality(Created) + Cardinality(Starting) < MaxTries + Cardinality(Requests)

-----------------------------------------------------------------------------
(* Steps *)

\* A step of one request leaves what the others hold alone.
Mine(r) ==
    \A s \in Requests \ {r} : qpc'[s] = qpc[s] /\ qmem'[s] = qmem[s]

\* Attempts that are there stay there with the snapshot they have.
Stay ==
    /\ timed' = timed /\ asked \subseteq asked'
    /\ \A a \in Created : a \in Created' /\ attempts'[a].snapshot = attempts[a].snapshot

\* What an attempt is to a request that a step does not touch.
LEMMA ShapeKept ==
    ASSUME TypeInv, Stay, NEW s \in Requests, qpc'[s] = qpc[s], qmem'[s] = qmem[s]
    PROVE  Shape(s)'
<1>1. Shape(s) /\ qmem[s] \in Call
  BY DEF TypeInv, QuizTypeOK
<1>2. qpc[s] \in OnAttempt => /\ qmem[s].attempt \in Created
                              /\ qmem[s].attempt \in Created'
                              /\ attempts'[qmem[s].attempt].snapshot
                                    = attempts[qmem[s].attempt].snapshot
  BY <1>1 DEF Shape, Stay
<1>3. QED
  BY <1>1, <1>2 DEF Shape, Stay, OnAttempt

\* A step that only a request takes: it writes no attempt, gives its client a
\* grade that is shown already, and counts the attempts before it starts one.
Quiet(r) ==
    /\ Mine(r) /\ UNCHANGED <<timed, asked, attempts, late>>
    /\ qpc' \in [Requests -> QPC] /\ qmem' \in [Requests -> Call]
    /\ answers' \in [Attempts -> SUBSET Questions]
    /\ Shape(r)'
    /\ receipts' \subseteq Receipt
    /\ \A x \in receipts' \ receipts : Shows(x.attempt, x.grade)
    /\ qpc'[r] = "check" =>
          qmem'[r].attempt \in Attempts /\ qmem'[r].row = attempts[qmem'[r].attempt]
    /\ r \in Starting' \ Starting => Cardinality(Created) < MaxTries

\* Such a step keeps the types.
LEMMA QuietTypes ==
    ASSUME TypeInv, NEW r \in Requests, Quiet(r)
    PROVE  TypeInv'
<1>1. Stay
  BY DEF Quiet, Stay, Created
<1>2. \A s \in Requests : Shape(s)'
  BY <1>1, ShapeKept DEF Quiet, Mine
<1>3. \A a \in Attempts : RowShape(a)'
  BY DEF Quiet, TypeInv, RowShape
<1>4. QED
  BY <1>2, <1>3 DEF TypeInv, QuizTypeOK, Quiet

\* A request ends.
LEMMA OverTypes ==
    ASSUME TypeInv, NEW r \in Requests, Over(r)
    PROVE  /\ Mine(r) /\ Shape(r)' /\ qpc'[r] = "idle" /\ qmem'[r] = NoCall
           /\ qpc' \in [Requests -> QPC] /\ qmem' \in [Requests -> Call]
<1>1. /\ Mine(r) /\ qpc'[r] = "idle" /\ qmem'[r] = NoCall
      /\ qpc' \in [Requests -> QPC] /\ qmem' \in [Requests -> Call]
  BY NoCallType DEF Over, TypeInv, QuizTypeOK, QPC, Mine
<1>2. Shape(r)'
  BY <1>1 DEF Shape, NoCall, OnAttempt, Submitting
<1>3. QED
  BY <1>1, <1>2

\* A request ends and writes nothing.
LEMMA OverQuiet ==
    ASSUME TypeInv, NEW r \in Requests, Over(r),
           UNCHANGED <<timed, asked, attempts, late, receipts>>,
           answers' \in [Attempts -> SUBSET Questions]
    PROVE  Quiet(r)
<1>1. /\ Mine(r) /\ Shape(r)' /\ qpc'[r] = "idle"
      /\ qpc' \in [Requests -> QPC] /\ qmem' \in [Requests -> Call]
  BY OverTypes
<1>2. r \notin Starting'
  BY <1>1 DEF Starting
<1>3. receipts' \subseteq Receipt /\ receipts' \ receipts = {}
  BY DEF TypeInv, QuizTypeOK
<1>4. QED
  BY <1>1, <1>2, <1>3 DEF Quiet

\* A request gives its client a row that is shown, and ends.
LEMMA GiveQuiet ==
    ASSUME TypeInv, NEW r \in Requests, NEW row \in Attempt, Give(r, row),
           qmem[r].attempt \in Attempts, UNCHANGED tables,
           row.status = "submitted" => Shows(qmem[r].attempt, row.grade)
    PROVE  Quiet(r)
<1>1. /\ Mine(r) /\ Shape(r)' /\ qpc'[r] = "idle"
      /\ qpc' \in [Requests -> QPC] /\ qmem' \in [Requests -> Call]
  BY OverTypes DEF Give
<1>2. r \notin Starting'
  BY <1>1 DEF Starting
<1>3. row.grade \in Grade
  BY DEF Attempt
<1>4. receipts' \subseteq Receipt
  BY <1>3 DEF Give, TypeInv, QuizTypeOK, Receipt
<1>5. \A x \in receipts' \ receipts : Shows(x.attempt, x.grade)
  <2>1. CASE row.status = "submitted"
    <3>1. receipts' = receipts \cup {[attempt |-> qmem[r].attempt, grade |-> row.grade]}
      BY <2>1 DEF Give
    <3>2. \A x \in receipts' \ receipts :
              x.attempt = qmem[r].attempt /\ x.grade = row.grade
      BY <3>1
    <3>3. QED
      BY <2>1, <3>2
  <2>2. CASE row.status # "submitted"
    BY <2>2 DEF Give
  <2>3. QED
    BY <2>1, <2>2
<1>6. answers' \in [Attempts -> SUBSET Questions] /\ UNCHANGED <<timed, asked, attempts, late>>
  BY DEF tables, TypeInv, QuizTypeOK
<1>7. QED
  BY <1>1, <1>2, <1>4, <1>5, <1>6 DEF Quiet

\* A request goes on, with something else in memory or not.
LEMMA GoQuiet ==
    ASSUME TypeInv, NEW r \in Requests, NEW step \in QPC, NEW m \in Call,
           qpc' = [qpc EXCEPT ![r] = step], qmem' = [qmem EXCEPT ![r] = m],
           UNCHANGED <<tables, receipts>>,
           Shape(r)',
           step = "check" => m.attempt \in Attempts /\ m.row = attempts[m.attempt],
           step \in {"startQuestions", "create"} =>
              r \in Starting \/ Cardinality(Created) < MaxTries
    PROVE  Quiet(r)
<1>1. /\ Mine(r) /\ qpc'[r] = step /\ qmem'[r] = m
      /\ qpc' \in [Requests -> QPC] /\ qmem' \in [Requests -> Call]
  BY DEF TypeInv, QuizTypeOK, Mine
<1>2. r \in Starting' \ Starting => Cardinality(Created) < MaxTries
  BY <1>1 DEF Starting
<1>3. receipts' \subseteq Receipt /\ receipts' \ receipts = {}
  BY DEF TypeInv, QuizTypeOK
<1>4. answers' \in [Attempts -> SUBSET Questions] /\ UNCHANGED <<timed, asked, attempts, late>>
  BY DEF tables, TypeInv, QuizTypeOK
<1>5. QED
  BY <1>1, <1>2, <1>3, <1>4 DEF Quiet
-----------------------------------------------------------------------------
(* The steps that are quiet *)

\* A call begins.
LEMMA BeginQuiet ==
    ASSUME TypeInv, NEW r \in Requests, NEW step \in {"count", "find", "byKey"},
           NEW call \in Call, Begin(r, step, call),
           step # "count" => call.attempt \in Created,
           step = "find" => call.op # "start",
           step = "byKey" => call.op = "submit",
           call.op = "submit" => call.key # Null
    PROVE  Quiet(r)
<1>1. /\ qpc' = [qpc EXCEPT ![r] = step] /\ qmem' = [qmem EXCEPT ![r] = call]
      /\ UNCHANGED <<tables, receipts>>
  BY DEF Begin, Step
<1>2. qpc'[r] = step /\ qmem'[r] = call /\ Created' = Created
  BY <1>1 DEF TypeInv, QuizTypeOK, tables, Created
<1>3. Shape(r)'
  BY <1>2 DEF Shape, OnAttempt, Submitting
<1>4. QED
  BY <1>1, <1>3, GoQuiet DEF QPC

\* A start is called.
LEMMA BeginStartQuiet ==
    ASSUME TypeInv, NEW r \in Requests, BeginStart(r)
    PROVE  Quiet(r)
<1> DEFINE call == [NoCall EXCEPT !.op = "start"]
<1>1. call \in Call /\ call.op = "start"
  BY NoCallType DEF Call
<1>2. Begin(r, "count", call)
  BY DEF BeginStart
<1> HIDE DEF call
<1>3. QED
  BY <1>1, <1>2, BeginQuiet

\* An answer is sent, for a question of the quiz.
LEMMA BeginSaveQuiet ==
    ASSUME TypeInv, NEW r \in Requests, NEW a \in Created, NEW q \in Questions,
           NEW right \in SUBSET Questions, BeginSave(r, a, q, right)
    PROVE  Quiet(r)
<1> DEFINE call == [NoCall EXCEPT !.op = "save", !.attempt = a,
                                  !.right = right, !.asked = {q}]
<1>1. call \in Call /\ call.op = "save" /\ call.attempt = a
  BY NoCallType DEF Call, Created
<1>2. Begin(r, "find", call)
  BY DEF BeginSave
<1> HIDE DEF call
<1>3. QED
  BY <1>1, <1>2, BeginQuiet

\* An attempt is submitted, with a key.
LEMMA BeginSubmitQuiet ==
    ASSUME TypeInv, NEW r \in Requests, NEW a \in Created, NEW k \in Keys,
           BeginSubmit(r, a, k)
    PROVE  Quiet(r)
<1> DEFINE call == [NoCall EXCEPT !.op = "submit", !.attempt = a, !.key = k]
<1>1. call \in Call /\ call.op = "submit" /\ call.attempt = a /\ call.key = k
  BY NoCallType DEF Call, Created
<1>2. Begin(r, "byKey", call) /\ k # Null
  BY QuizAssumption DEF BeginSubmit
<1> HIDE DEF call
<1>3. QED
  BY <1>1, <1>2, BeginQuiet

\* An attempt is asked for.
LEMMA BeginGetQuiet ==
    ASSUME TypeInv, NEW r \in Requests, NEW a \in Created, BeginGet(r, a)
    PROVE  Quiet(r)
<1> DEFINE call == [NoCall EXCEPT !.attempt = a]
<1>1. call \in Call /\ call.op = "get" /\ call.attempt = a
  BY NoCallType DEF Call, Created, NoCall
<1>2. Begin(r, "find", call)
  BY DEF BeginGet
<1> HIDE DEF call
<1>3. QED
  BY <1>1, <1>2, BeginQuiet

\* The attempts are counted: a start goes on below max_attempts only.
LEMMA CountAttemptsQuiet ==
    ASSUME TypeInv, NEW r \in Requests, CountAttempts(r)
    PROVE  Quiet(r)
<1>1. qmem[r] \in Call /\ answers' \in [Attempts -> SUBSET Questions]
      /\ UNCHANGED <<tables, receipts>>
  BY DEF CountAttempts, tables, TypeInv, QuizTypeOK
<1>2. CASE MayStart(Cardinality(Created))
  <2>1. /\ qpc' = [qpc EXCEPT ![r] = "startQuestions"]
        /\ qmem' = [qmem EXCEPT ![r] = qmem[r]] /\ qmem' = qmem
    BY <1>2 DEF CountAttempts, Step, TypeInv, QuizTypeOK
  <2>2. Shape(r)'
    BY <2>1 DEF Shape, TypeInv, QuizTypeOK, OnAttempt, Submitting
  <2>3. QED
    BY <1>1, <1>2, <2>1, <2>2, GoQuiet DEF QPC, MayStart
<1>3. CASE ~MayStart(Cardinality(Created))
  BY <1>1, <1>3, OverQuiet DEF CountAttempts, tables
<1>4. QED
  BY <1>2, <1>3

\* The questions of the quiz are read for the snapshot.
LEMMA ReadSnapshotQuiet ==
    ASSUME TypeInv, NEW r \in Requests, ReadSnapshot(r)
    PROVE  Quiet(r)
<1>1. qmem[r] \in Call /\ answers' \in [Attempts -> SUBSET Questions]
      /\ UNCHANGED <<tables, receipts>> /\ r \in Starting
  BY DEF ReadSnapshot, tables, TypeInv, QuizTypeOK, Starting
<1>2. CASE asked = {}
  BY <1>1, <1>2, OverQuiet DEF ReadSnapshot, tables
<1>3. CASE asked # {}
  <2> DEFINE m == [qmem[r] EXCEPT !.asked = asked]
  <2>1. m \in Call /\ m.asked = asked /\ m.op = qmem[r].op /\ m.key = qmem[r].key
    BY <1>1 DEF Call, TypeInv, QuizTypeOK
  <2>2. /\ qpc' = [qpc EXCEPT ![r] = "create"] /\ qmem' = [qmem EXCEPT ![r] = m]
        /\ asked' = asked
    BY <1>3 DEF ReadSnapshot, Step, tables
  <2> HIDE DEF m
  <2>3. Shape(r)'
    BY <2>1, <2>2 DEF Shape, TypeInv, QuizTypeOK, OnAttempt, Submitting
  <2>4. QED
    BY <1>1, <2>1, <2>2, <2>3, GoQuiet DEF QPC
<1>4. QED
  BY <1>2, <1>3

\* What a request holds as it works on an attempt.
LEMMA Working ==
    ASSUME TypeInv, NEW r \in Requests, qpc[r] \in OnAttempt
    PROVE  /\ qmem[r].attempt \in Attempts /\ attempts[qmem[r].attempt] \in Attempt
           /\ attempts[qmem[r].attempt].status # "none"
           /\ attempts[qmem[r].attempt].grade \in Grade
           /\ qmem[r] \in Call /\ RowShape(qmem[r].attempt)
<1>1. qmem[r].attempt \in Attempts /\ attempts[qmem[r].attempt].status # "none"
  BY DEF TypeInv, Shape, Created
<1>2. QED
  BY <1>1 DEF TypeInv, QuizTypeOK, Attempt

\* The key of a submission is looked for among the attempts.
LEMMA FindByKeyQuiet ==
    ASSUME TypeInv, NEW r \in Requests, FindByKey(r)
    PROVE  Quiet(r)
<1> DEFINE a == qmem[r].attempt
           used == {b \in Attempts : attempts[b].key = qmem[r].key}
<1>1. /\ qpc[r] = "byKey" /\ UNCHANGED tables
      /\ a \in Attempts /\ attempts[a] \in Attempt /\ qmem[r] \in Call /\ RowShape(a)
      /\ Shape(r) /\ answers' \in [Attempts -> SUBSET Questions]
  BY Working DEF FindByKey, OnAttempt, TypeInv, QuizTypeOK, tables
<1>2. CASE Step(r, "find") /\ UNCHANGED <<qmem, receipts>>
  <2>1. /\ qpc' = [qpc EXCEPT ![r] = "find"] /\ qmem' = [qmem EXCEPT ![r] = qmem[r]]
        /\ qmem' = qmem
    BY <1>2 DEF Step, TypeInv, QuizTypeOK
  <2>2. Shape(r)'
    BY <1>1, <2>1 DEF Shape, TypeInv, QuizTypeOK, OnAttempt, Submitting, tables, Created
  <2>3. QED
    BY <1>1, <1>2, <2>1, <2>2, GoQuiet DEF QPC
<1>3. CASE a \in used /\ Give(r, attempts[a])
  <2>1. attempts[a].status = "submitted" => Shows(a, attempts[a].grade)
    BY DEF Shows
  <2>2. QED
    BY <1>1, <1>3, <2>1, GiveQuiet
<1>4. CASE Over(r) /\ UNCHANGED receipts
  BY <1>1, <1>4, OverQuiet DEF tables
<1>5. QED
  BY <1>2, <1>3, <1>4 DEF FindByKey

\* The row of the attempt is read.
LEMMA FindAttemptQuiet ==
    ASSUME TypeInv, NEW r \in Requests, FindAttempt(r)
    PROVE  Quiet(r)
<1> DEFINE a == qmem[r].attempt
           m == [qmem[r] EXCEPT !.row = attempts[a]]
<1>1. /\ qpc[r] = "find" /\ UNCHANGED <<tables, receipts>>
      /\ a \in Attempts /\ attempts[a] \in Attempt /\ qmem[r] \in Call /\ RowShape(a)
      /\ attempts[a].status # "none" /\ Shape(r)
  BY Working DEF FindAttempt, OnAttempt, TypeInv, QuizTypeOK
<1>2. /\ m \in Call /\ m.attempt = a /\ m.row = attempts[a]
      /\ m.op = qmem[r].op /\ m.key = qmem[r].key
  BY <1>1 DEF Call
<1>3. qpc' = [qpc EXCEPT ![r] = "check"] /\ qmem' = [qmem EXCEPT ![r] = m]
  BY DEF FindAttempt, Step
<1> HIDE DEF m
<1>4. qpc'[r] = "check" /\ qmem'[r] = m /\ attempts' = attempts /\ Created' = Created
  BY <1>1, <1>3 DEF TypeInv, QuizTypeOK, tables, Created
<1>5. Shape(r)'
  BY <1>1, <1>2, <1>4 DEF Shape, RowShape, OnAttempt, Submitting
<1>6. QED
  BY <1>1, <1>2, <1>3, <1>5, GoQuiet DEF QPC

\* The row that was read is given, refused, expired or worked on.
LEMMA CheckAttemptQuiet ==
    ASSUME TypeInv, NEW r \in Requests, CheckAttempt(r)
    PROVE  Quiet(r)
<1> DEFINE a == qmem[r].attempt
<1>1. /\ qpc[r] = "check" /\ UNCHANGED tables
      /\ a \in Attempts /\ qmem[r] \in Call /\ qmem[r].row \in Attempt /\ Shape(r)
      /\ answers' \in [Attempts -> SUBSET Questions] /\ Created' = Created
  BY Working, CallFields DEF CheckAttempt, OnAttempt, TypeInv, QuizTypeOK, tables, Created
<1>2. CASE qmem[r].row.status = "submitted" /\ Give(r, qmem[r].row)
  <2>1. Shows(a, qmem[r].row.grade)
    BY <1>1, <1>2 DEF Shows
  <2>2. QED
    BY <1>1, <1>2, <2>1, GiveQuiet
<1>3. CASE Over(r) /\ UNCHANGED receipts
  BY <1>1, <1>3, OverQuiet DEF tables
<1>4. CASE /\ qmem[r].row.status = "in_progress" /\ a \in late
           /\ Step(r, "expire") /\ UNCHANGED <<qmem, receipts>>
  <2>1. /\ qpc' = [qpc EXCEPT ![r] = "expire"] /\ qmem' = [qmem EXCEPT ![r] = qmem[r]]
        /\ qmem' = qmem
    BY <1>4 DEF Step, TypeInv, QuizTypeOK
  <2>2. timed
    BY <1>4 DEF TypeInv
  <2>3. qpc'[r] = "expire" /\ attempts' = attempts /\ timed' = timed
    BY <1>1, <2>1 DEF TypeInv, QuizTypeOK, tables
  <2>4. Shape(r)'
    BY <1>1, <1>4, <2>1, <2>2, <2>3 DEF Shape, OnAttempt, Submitting
  <2>5. QED
    BY <1>1, <1>4, <2>1, <2>4, GoQuiet DEF QPC
<1>5. CASE /\ qmem[r].row.status = "in_progress" /\ qmem[r].op # "get"
           /\ Step(r, IF qmem[r].op = "save" THEN "save" ELSE "questions")
           /\ qmem' = [qmem EXCEPT ![r].row = NoAttempt]
           /\ UNCHANGED receipts
  <2> DEFINE m == [qmem[r] EXCEPT !.row = NoAttempt]
             step == IF qmem[r].op = "save" THEN "save" ELSE "questions"
  <2>1. m \in Call /\ m.attempt = a /\ m.op = qmem[r].op /\ m.key = qmem[r].key
    BY <1>1, NoCallType DEF Call
  <2>2. qpc' = [qpc EXCEPT ![r] = step] /\ qmem' = [qmem EXCEPT ![r] = m]
    BY <1>5 DEF Step
  <2>3. step = "questions" => m.op = "submit"
    BY <1>1, <1>5, <2>1 DEF Shape, Call
  <2>4. step \in {"save", "questions"}
    OBVIOUS
  <2> HIDE DEF m, step
  <2>5. qpc'[r] = step /\ qmem'[r] = m
    BY <2>2 DEF TypeInv, QuizTypeOK
  <2>6. Shape(r)'
    BY <1>1, <2>1, <2>3, <2>4, <2>5 DEF Shape, OnAttempt, Submitting
  <2>7. QED
    BY <1>1, <1>5, <2>1, <2>2, <2>4, <2>6, GoQuiet DEF QPC
<1>6. QED
  BY <1>2, <1>3, <1>4, <1>5 DEF CheckAttempt
\* The answer is stored: no attempt changes.
LEMMA SaveAnswerQuiet ==
    ASSUME TypeInv, NEW r \in Requests, SaveAnswer(r)
    PROVE  Quiet(r)
<1>1. /\ qmem[r].attempt \in Attempts /\ qmem[r].right \subseteq Questions
  BY Working, CallFields DEF SaveAnswer, OnAttempt
<1>2. answers' \in [Attempts -> SUBSET Questions]
  BY <1>1 DEF SaveAnswer, TypeInv, QuizTypeOK
<1>3. QED
  BY <1>2, OverQuiet DEF SaveAnswer

\* The questions are read again: they cover the snapshot.
LEMMA ReadQuestionsQuiet ==
    ASSUME TypeInv, NEW r \in Requests, ReadQuestions(r)
    PROVE  Quiet(r)
<1> DEFINE m == [qmem[r] EXCEPT !.asked = asked]
<1>1. /\ qpc[r] = "questions" /\ UNCHANGED <<tables, receipts>>
      /\ qmem[r].attempt \in Attempts /\ qmem[r] \in Call /\ RowShape(qmem[r].attempt)
      /\ Shape(r) /\ asked \subseteq Questions
  BY Working DEF ReadQuestions, OnAttempt, TypeInv, QuizTypeOK
<1>2. /\ m \in Call /\ m.attempt = qmem[r].attempt /\ m.asked = asked
      /\ m.op = qmem[r].op /\ m.key = qmem[r].key
  BY <1>1 DEF Call
<1>3. qpc' = [qpc EXCEPT ![r] = "answers"] /\ qmem' = [qmem EXCEPT ![r] = m]
  BY DEF ReadQuestions, Step
<1> HIDE DEF m
<1>4. qpc'[r] = "answers" /\ qmem'[r] = m /\ attempts' = attempts /\ Created' = Created
  BY <1>1, <1>3 DEF TypeInv, QuizTypeOK, tables, Created
<1>5. Shape(r)'
  BY <1>1, <1>2, <1>4 DEF Shape, RowShape, OnAttempt, Submitting
<1>6. QED
  BY <1>1, <1>2, <1>3, <1>5, GoQuiet DEF QPC

\* The answers are read.
LEMMA ReadAnswersQuiet ==
    ASSUME TypeInv, NEW r \in Requests, ReadAnswers(r)
    PROVE  Quiet(r)
<1> DEFINE m == [qmem[r] EXCEPT !.right = answers[qmem[r].attempt]]
<1>1. /\ qpc[r] = "answers" /\ UNCHANGED <<tables, receipts>>
      /\ qmem[r].attempt \in Attempts /\ qmem[r] \in Call
      /\ Shape(r) /\ answers[qmem[r].attempt] \subseteq Questions
  BY Working DEF ReadAnswers, OnAttempt, TypeInv, QuizTypeOK
<1>2. /\ m \in Call /\ m.attempt = qmem[r].attempt /\ m.asked = qmem[r].asked
      /\ m.op = qmem[r].op /\ m.key = qmem[r].key
  BY <1>1 DEF Call
<1>3. qpc' = [qpc EXCEPT ![r] = "write"] /\ qmem' = [qmem EXCEPT ![r] = m]
  BY DEF ReadAnswers, Step
<1> HIDE DEF m
<1>4. qpc'[r] = "write" /\ qmem'[r] = m /\ attempts' = attempts /\ Created' = Created
  BY <1>1, <1>3 DEF TypeInv, QuizTypeOK, tables, Created
<1>5. Shape(r)'
  BY <1>1, <1>2, <1>4 DEF Shape, OnAttempt, Submitting
<1>6. QED
  BY <1>1, <1>2, <1>3, <1>5, GoQuiet DEF QPC

\* The row that is stored is given to the client.
LEMMA RereadQuiet ==
    ASSUME TypeInv, NEW r \in Requests, Reread(r)
    PROVE  Quiet(r)
<1> DEFINE a == qmem[r].attempt
<1>1. a \in Attempts /\ attempts[a] \in Attempt
  BY Working DEF Reread, OnAttempt
<1>2. attempts[a].status = "submitted" => Shows(a, attempts[a].grade)
  BY DEF Shows
<1>3. QED
  BY <1>1, <1>2, GiveQuiet DEF Reread

\* A request that dies.
LEMMA AbortQuiet ==
    ASSUME TypeInv, NEW r \in Requests, Abort(r)
    PROVE  Quiet(r)
  BY OverQuiet DEF Abort, tables, TypeInv, QuizTypeOK

\* What a submission forgets after its write, and goes on with.
LEMMA ForgetTypes ==
    ASSUME TypeInv, NEW r \in Requests, qpc[r] = "write", Step(r, "reread"), Forget(r)
    PROVE  \E m \in Call : /\ qmem' = [qmem EXCEPT ![r] = m]
                           /\ qpc' = [qpc EXCEPT ![r] = "reread"]
                           /\ m.attempt = qmem[r].attempt
                           /\ m.op = "submit" /\ m.key = qmem[r].key
<1> DEFINE m == [qmem[r] EXCEPT !.right = {}, !.asked = {}]
<1>1. qmem[r] \in Call /\ qmem[r].op = "submit"
  BY DEF TypeInv, QuizTypeOK, Shape, Submitting
<1>2. /\ m \in Call /\ m.attempt = qmem[r].attempt
      /\ m.op = qmem[r].op /\ m.key = qmem[r].key
  BY <1>1 DEF Call
<1>3. qpc' = [qpc EXCEPT ![r] = "reread"] /\ qmem' = [qmem EXCEPT ![r] = m]
  BY DEF Forget, Step, TypeInv, QuizTypeOK
<1>4. QED
  BY <1>1, <1>2, <1>3

\* A submission whose attempt is not in progress, or whose key is taken.
LEMMA RefusedQuiet ==
    ASSUME TypeInv, NEW r \in Requests, WriteResult(r), UNCHANGED attempts
    PROVE  Quiet(r)
<1>1. /\ qpc[r] = "write" /\ UNCHANGED <<tables, receipts>> /\ Shape(r)
      /\ answers' \in [Attempts -> SUBSET Questions]
  BY DEF WriteResult, TypeInv, QuizTypeOK, tables
<1>2. CASE Over(r)
  BY <1>1, <1>2, OverQuiet DEF tables
<1>3. CASE Step(r, "reread") /\ Forget(r)
  <2>1. PICK m \in Call : /\ qmem' = [qmem EXCEPT ![r] = m]
                          /\ qpc' = [qpc EXCEPT ![r] = "reread"]
                          /\ m.attempt = qmem[r].attempt
                          /\ m.op = "submit" /\ m.key = qmem[r].key
    BY <1>1, <1>3, ForgetTypes
  <2>2. qpc'[r] = "reread" /\ qmem'[r] = m /\ Created' = Created
    BY <1>1, <2>1 DEF TypeInv, QuizTypeOK, tables, Created
  <2>3. Shape(r)'
    BY <1>1, <2>1, <2>2 DEF Shape, OnAttempt, Submitting
  <2>4. QED
    BY <1>1, <2>1, <2>3, GoQuiet DEF QPC
<1>4. QED
  BY <1>2, <1>3 DEF WriteResult

-----------------------------------------------------------------------------
(* The steps that write an attempt *)

\* One request writes the row of one attempt, keeps the types of all and holds no
\* row as it ends or goes on.
Writes(r, a, row) ==
    /\ Mine(r) /\ UNCHANGED <<timed, asked, answers, late, receipts>>
    /\ attempts' = [attempts EXCEPT ![a] = row]
    /\ qpc' \in [Requests -> QPC] /\ qmem' \in [Requests -> Call]
    /\ qpc'[r] \in {"idle", "reread"}
    /\ Shape(r)'

\* Such a step shows no grade but that of the row.
LEMMA WritesShow ==
    ASSUME TypeInv, NEW r \in Requests, NEW a \in Attempts, NEW row \in Attempt,
           Writes(r, a, row), NEW b \in Attempts, NEW g \in Grade, Shows(b, g)'
    PROVE  Shows(b, g) \/ (b = a /\ row.status = "submitted" /\ row.grade = g)
<1>1. /\ attempts'[a] = row /\ \A c \in Attempts \ {a} : attempts'[c] = attempts[c]
      /\ receipts' = receipts /\ qpc'[r] # "check"
  BY DEF Writes, TypeInv, QuizTypeOK
<1>2. QED
  BY <1>1 DEF Shows, Writes, Mine

\* Such a step keeps the types.
LEMMA WritesTypes ==
    ASSUME TypeInv, NEW r \in Requests, NEW a \in Attempts, NEW row \in Attempt,
           Writes(r, a, row), row.status # "none", row.snapshot \subseteq asked,
           a \in Created => row.snapshot = attempts[a].snapshot,
           (row.status = "submitted") <=> (row.key # Null)
    PROVE  TypeInv'
<1>1. /\ attempts' \in [Attempts -> Attempt] /\ attempts'[a] = row
      /\ \A b \in Attempts \ {a} : attempts'[b] = attempts[b]
  BY DEF Writes, TypeInv, QuizTypeOK
<1>2. Stay
  BY <1>1 DEF Writes, Stay, Created
<1>3. \A s \in Requests : Shape(s)'
  BY <1>2, ShapeKept DEF Writes, Mine
<1>4. \A b \in Attempts : RowShape(b)'
  BY <1>1 DEF Writes, TypeInv, RowShape
<1>5. QED
  BY <1>1, <1>3, <1>4 DEF TypeInv, QuizTypeOK, Writes

\* An attempt is created, expired or graded.
Opens(r, a, row) ==
    /\ Writes(r, a, row) /\ a \notin Created
    /\ r \in Starting /\ r \notin Starting'
    /\ row.status = "in_progress" /\ row.key = Null /\ row.snapshot \subseteq asked

Expires(r, a, row) ==
    /\ Writes(r, a, row) /\ a \in Created /\ timed
    /\ row.status = "expired" /\ row.key = Null
    /\ row.snapshot = attempts[a].snapshot

Grades(r, a, row) ==
    /\ Writes(r, a, row) /\ attempts[a].status = "in_progress"
    /\ row.status = "submitted" /\ row.key # Null
    /\ \A b \in Attempts \ {a} : attempts[b].key # row.key
    /\ row.snapshot = attempts[a].snapshot
    /\ row.grade.total >= Cardinality(row.snapshot)

\* The attempt of a start.
LEMMA CreateAttemptOpens ==
    ASSUME TypeInv, NEW r \in Requests, CreateAttempt(r)
    PROVE  \E a \in Attempts, row \in Attempt : Opens(r, a, row)
<1>1. PICK a \in Attempts \ Created :
          attempts' = [attempts EXCEPT ![a] =
              [NoAttempt EXCEPT !.status = "in_progress", !.snapshot = qmem[r].asked]]
  BY DEF CreateAttempt
<1> DEFINE row == [NoAttempt EXCEPT !.status = "in_progress", !.snapshot = qmem[r].asked]
<1>2. /\ qmem[r] \in Call /\ qpc[r] = "create" /\ qmem[r].asked \subseteq asked
      /\ asked \subseteq Questions
  BY DEF CreateAttempt, TypeInv, QuizTypeOK, Shape
<1>3. /\ row \in Attempt /\ row.status = "in_progress" /\ row.key = Null
      /\ row.snapshot = qmem[r].asked
  BY <1>2, NoCallType DEF Attempt, NoAttempt
<1> HIDE DEF row
<1>4. /\ Mine(r) /\ Shape(r)' /\ qpc'[r] = "idle"
      /\ qpc' \in [Requests -> QPC] /\ qmem' \in [Requests -> Call]
  BY OverTypes DEF CreateAttempt
<1>5. Writes(r, a, row)
  BY <1>1, <1>4 DEF Writes, CreateAttempt, row
<1>6. r \in Starting /\ r \notin Starting'
  BY <1>2, <1>4 DEF Starting
<1>7. QED
  BY <1>1, <1>2, <1>3, <1>5, <1>6 DEF Opens

\* The row that was read is written back as expired.
LEMMA ExpireAttemptExpires ==
    ASSUME TypeInv, NEW r \in Requests, ExpireAttempt(r)
    PROVE  \E a \in Attempts, row \in Attempt : Expires(r, a, row)
<1> DEFINE a == qmem[r].attempt
           row == [qmem[r].row EXCEPT !.status = "expired"]
<1>1. /\ qpc[r] = "expire" /\ Shape(r) /\ a \in Attempts /\ qmem[r].row \in Attempt
  BY Working, CallFields DEF ExpireAttempt, OnAttempt, TypeInv
<1>2. /\ a \in Created /\ timed /\ qmem[r].row.key = Null
      /\ qmem[r].row.snapshot = attempts[a].snapshot
  BY <1>1 DEF Shape, OnAttempt
<1>3. /\ row \in Attempt /\ row.status = "expired" /\ row.key = qmem[r].row.key
      /\ row.snapshot = qmem[r].row.snapshot
  BY <1>1 DEF Attempt
<1>4. attempts' = [attempts EXCEPT ![a] = row]
  BY DEF ExpireAttempt, ExpiredRow
<1> HIDE DEF row
<1>5. /\ Mine(r) /\ Shape(r)' /\ qpc'[r] = "idle"
      /\ qpc' \in [Requests -> QPC] /\ qmem' \in [Requests -> Call]
  BY OverTypes DEF ExpireAttempt
<1>6. Writes(r, a, row)
  BY <1>4, <1>5 DEF Writes, ExpireAttempt
<1>7. QED
  BY <1>1, <1>2, <1>3, <1>6 DEF Expires

\* The result of a submission that is the first of its attempt.
LEMMA WriteResultGrades ==
    ASSUME TypeInv, NEW r \in Requests, WriteResult(r), attempts' # attempts
    PROVE  \E a \in Attempts, row \in Attempt : Grades(r, a, row)
<1> DEFINE a == qmem[r].attempt
           grade == GradeOf(qmem[r].asked, qmem[r].right)
           row == [attempts[a] EXCEPT !.status = "submitted", !.key = qmem[r].key,
                                      !.grade = grade]
<1>1. /\ qpc[r] = "write" /\ Shape(r) /\ a \in Attempts /\ attempts[a] \in Attempt
      /\ qmem[r] \in Call
  BY Working DEF WriteResult, OnAttempt, TypeInv
<1>2. /\ qmem[r].right \subseteq Questions /\ qmem[r].asked \subseteq Questions
      /\ qmem[r].key \in Keys \cup {Null} /\ qmem[r].key # Null
      /\ attempts[a].snapshot \subseteq qmem[r].asked
  BY <1>1, CallFields DEF Shape, Submitting
<1>3. grade \in Grade /\ grade.total >= Cardinality(attempts[a].snapshot)
  BY <1>2, GradeType
<1>4. /\ attempts[a].status = "in_progress" /\ ~KeyTaken(qmem[r].key, a)
      /\ attempts' = [attempts EXCEPT ![a] = row]
      /\ Step(r, "reread") /\ Forget(r)
  BY <1>1 DEF WriteResult, MayWrite, TypeInv, QuizTypeOK
<1> HIDE DEF grade
<1>5. /\ row \in Attempt /\ row.status = "submitted" /\ row.key = qmem[r].key
      /\ row.snapshot = attempts[a].snapshot /\ row.grade = grade
  BY <1>1, <1>2, <1>3 DEF Attempt
<1> HIDE DEF row
<1>6. PICK m \in Call : /\ qmem' = [qmem EXCEPT ![r] = m]
                        /\ qpc' = [qpc EXCEPT ![r] = "reread"]
                        /\ m.attempt = a /\ m.op = "submit" /\ m.key = qmem[r].key
  BY <1>1, <1>4, ForgetTypes
<1>7. /\ qpc' \in [Requests -> QPC] /\ qmem' \in [Requests -> Call] /\ Mine(r)
      /\ qpc'[r] = "reread" /\ qmem'[r] = m
  BY <1>6 DEF TypeInv, QuizTypeOK, QPC, Mine
<1>8. Shape(r)'
  <2>1. a \in Created'
    BY <1>1, <1>4, <1>5 DEF Created, TypeInv, QuizTypeOK
  <2>2. QED
    BY <1>2, <1>6, <1>7, <2>1 DEF Shape, OnAttempt, Submitting
<1>9. Writes(r, a, row)
  BY <1>4, <1>7, <1>8 DEF Writes, WriteResult
<1>10. \A b \in Attempts \ {a} : attempts[b].key # row.key
  BY <1>4, <1>5 DEF KeyTaken
<1>11. QED
  BY <1>1, <1>2, <1>3, <1>4, <1>5, <1>9, <1>10 DEF Grades

-----------------------------------------------------------------------------
(* Every step *)

\* What happens outside the requests: a deadline passes, a question is added.
Outside ==
    /\ UNCHANGED <<timed, attempts, answers, qpc, qmem, receipts>>
    /\ asked \subseteq asked' /\ asked' \subseteq Questions
    /\ late' \subseteq Attempts /\ (late' # {} => timed)

\* A step is quiet, writes one attempt or comes from outside.
LEMMA StepKinds ==
    ASSUME TypeInv, Next
    PROVE  \/ Outside
           \/ \E r \in Requests : Quiet(r)
           \/ \E r \in Requests, a \in Attempts, row \in Attempt :
                 Opens(r, a, row) \/ Expires(r, a, row) \/ Grades(r, a, row)
<1>1. ASSUME NEW r \in Requests, RequestStep(r)
      PROVE  \/ Quiet(r)
             \/ \E a \in Attempts, row \in Attempt :
                   Opens(r, a, row) \/ Expires(r, a, row) \/ Grades(r, a, row)
  BY <1>1, CountAttemptsQuiet, ReadSnapshotQuiet, CreateAttemptOpens, FindByKeyQuiet,
     FindAttemptQuiet, CheckAttemptQuiet, ExpireAttemptExpires, SaveAnswerQuiet,
     ReadQuestionsQuiet, ReadAnswersQuiet, RefusedQuiet, WriteResultGrades, RereadQuiet
     DEF RequestStep
<1>2. ASSUME NEW a \in Attempts, PassDeadline(a)
      PROVE  Outside
  BY <1>2 DEF PassDeadline, Outside, TypeInv, QuizTypeOK
<1>3. ASSUME NEW q \in Questions, CreateQuestion(q)
      PROVE  Outside
  BY <1>3 DEF CreateQuestion, Outside, TypeInv, QuizTypeOK
<1>4. ASSUME NEW r \in Requests, NEW a \in Created, NEW q \in Questions,
             NEW right \in SUBSET Questions, BeginSave(r, a, q, right)
      PROVE  Quiet(r)
  BY <1>4, BeginSaveQuiet
<1>5. ASSUME NEW r \in Requests, NEW a \in Created, NEW k \in Keys, BeginSubmit(r, a, k)
      PROVE  Quiet(r)
  BY <1>5, BeginSubmitQuiet
<1>6. ASSUME NEW r \in Requests, NEW a \in Created, BeginGet(r, a)
      PROVE  Quiet(r)
  BY <1>6, BeginGetQuiet
<1>7. ASSUME NEW r \in Requests, BeginStart(r) \/ Abort(r)
      PROVE  Quiet(r)
  BY <1>7, BeginStartQuiet, AbortQuiet
<1>8. QED
  BY <1>1, <1>2, <1>3, <1>4, <1>5, <1>6, <1>7 DEF Next
\* The steps from outside change nothing that a request or a row is held to.
LEMMA OutsideTypes ==
    ASSUME TypeInv, Outside
    PROVE  TypeInv'
<1>1. Stay
  BY DEF Outside, Stay, Created
<1>2. \A s \in Requests : Shape(s)'
  BY <1>1, ShapeKept DEF Outside
<1>3. \A a \in Attempts : RowShape(a)'
  BY DEF Outside, TypeInv, RowShape
<1>4. QED
  BY <1>2, <1>3 DEF TypeInv, QuizTypeOK, Outside

\* Every step keeps the types.
LEMMA TypeNext == TypeInv /\ [Next]_qvars => TypeInv'
<1> SUFFICES ASSUME TypeInv, [Next]_qvars PROVE TypeInv'
  OBVIOUS
<1>1. ASSUME NEW r \in Requests, NEW a \in Attempts, NEW row \in Attempt,
             Opens(r, a, row) \/ Expires(r, a, row) \/ Grades(r, a, row)
      PROVE  TypeInv'
  <2>1. /\ Writes(r, a, row) /\ row.status # "none" /\ row.snapshot \subseteq asked
        /\ a \in Created => row.snapshot = attempts[a].snapshot
        /\ (row.status = "submitted") <=> (row.key # Null)
    BY <1>1 DEF Opens, Expires, Grades, TypeInv, RowShape, Created
  <2>2. QED
    BY <2>1, WritesTypes
<1>2. CASE UNCHANGED qvars
  <2>1. Outside
    BY <1>2 DEF qvars, Outside, TypeInv, QuizTypeOK
  <2>2. QED
    BY <2>1, OutsideTypes
<1>3. QED
  BY <1>1, <1>2, StepKinds, QuietTypes, OutsideTypes

\* The first state is of these types.
LEMMA TypeInit == Init => TypeInv
<1> SUFFICES ASSUME Init PROVE TypeInv
  OBVIOUS
<1>1. /\ \A r \in Requests : qpc[r] = "idle" /\ qmem[r] = NoCall
      /\ \A a \in Attempts : attempts[a] = NoAttempt
  BY DEF Init
<1>2. \A r \in Requests : Shape(r)
  BY <1>1 DEF Shape, OnAttempt, Submitting, NoCall
<1>3. \A a \in Attempts : RowShape(a)
  BY <1>1 DEF RowShape, NoAttempt
<1>4. QuizTypeOK
  BY NoCallType DEF Init, QuizTypeOK, QPC
<1>5. QED
  BY <1>2, <1>3, <1>4 DEF TypeInv, Init

\* A quiet step shows no other grade.
LEMMA QuietShow ==
    ASSUME TypeInv, NEW r \in Requests, Quiet(r),
           NEW a \in Attempts, NEW g \in Grade, Shows(a, g)'
    PROVE  Shows(a, g)
<1>1. attempts' = attempts
  BY DEF Quiet
<1>2. CASE [attempt |-> a, grade |-> g] \in receipts'
  BY <1>2 DEF Quiet, Shows
<1>3. CASE attempts'[a].status = "submitted" /\ attempts'[a].grade = g
  BY <1>1, <1>3 DEF Shows
<1>4. ASSUME NEW s \in Requests, qpc'[s] = "check", qmem'[s].attempt = a,
             qmem'[s].row.status = "submitted", qmem'[s].row.grade = g
      PROVE  Shows(a, g)
  BY <1>4 DEF Quiet, Mine, Shows
<1>5. QED
  BY <1>2, <1>3, <1>4 DEF Shows

\* What a step may do to the grades and to the attempts.
LEMMA StepShow ==
    ASSUME TypeInv, [Next]_qvars
    PROVE  \/ /\ UNCHANGED <<timed, attempts>>
              /\ \A a \in Attempts, g \in Grade : Shows(a, g)' => Shows(a, g)
           \/ \E r \in Requests, a \in Attempts, row \in Attempt :
                 Opens(r, a, row) \/ Expires(r, a, row) \/ Grades(r, a, row)
<1>1. ASSUME NEW r \in Requests, Quiet(r)
      PROVE  /\ UNCHANGED <<timed, attempts>>
             /\ \A a \in Attempts, g \in Grade : Shows(a, g)' => Shows(a, g)
  BY <1>1, QuietShow DEF Quiet
<1>2. CASE Outside \/ UNCHANGED qvars
  BY <1>2 DEF Outside, Shows, qvars
<1>3. QED
  BY <1>1, <1>2, StepKinds

\* In the first state no grade is shown.
LEMMA ShowInit ==
    ASSUME Init, NEW a \in Attempts, NEW g
    PROVE  ~Shows(a, g)
  BY DEF Init, Shows, NoAttempt

-----------------------------------------------------------------------------
(* What the steps keep *)

\* Only the first submission of an attempt shows a grade that was not shown.
LEMMA GradeNext ==
    ASSUME TypeInv, GradeInv, [Next]_qvars
    PROVE  GradeInv'
<1>1. ASSUME UNCHANGED attempts,
             \A a \in Attempts, g \in Grade : Shows(a, g)' => Shows(a, g)
      PROVE  GradeInv'
  BY <1>1 DEF GradeInv
<1>2. ASSUME NEW r \in Requests, NEW a \in Attempts, NEW row \in Attempt,
             Opens(r, a, row) \/ Expires(r, a, row) \/ Grades(r, a, row)
      PROVE  GradeInv'
  <2>1. Writes(r, a, row)
    BY <1>2 DEF Opens, Expires, Grades
  <2>2. attempts'[a] = row /\ \A b \in Attempts \ {a} : attempts'[b] = attempts[b]
    BY <2>1 DEF Writes, TypeInv, QuizTypeOK
  <2>3. \A b \in Attempts, g \in Grade :
            Shows(b, g)' => Shows(b, g) \/ (b = a /\ row.status = "submitted" /\ row.grade = g)
    BY <2>1, WritesShow
  <2>4. CASE Opens(r, a, row)
    BY <2>2, <2>3, <2>4 DEF Opens, Created, GradeInv
  <2>5. CASE Expires(r, a, row)
    BY <2>2, <2>3, <2>5 DEF Expires, GradeInv
  <2>6. CASE Grades(r, a, row)
    BY <2>2, <2>3, <2>6 DEF Grades, GradeInv
  <2>7. QED
    BY <1>2, <2>4, <2>5, <2>6
<1>3. QED
  BY <1>1, <1>2, StepShow

\* A snapshot does not change, and no grade counts less.
LEMMA CoverNext ==
    ASSUME TypeInv, GradeInv, CoverInv, [Next]_qvars
    PROVE  CoverInv'
<1>1. ASSUME UNCHANGED attempts,
             \A a \in Attempts, g \in Grade : Shows(a, g)' => Shows(a, g)
      PROVE  CoverInv'
  BY <1>1 DEF CoverInv
<1>2. ASSUME NEW r \in Requests, NEW a \in Attempts, NEW row \in Attempt,
             Opens(r, a, row) \/ Expires(r, a, row) \/ Grades(r, a, row)
      PROVE  CoverInv'
  <2>1. Writes(r, a, row)
    BY <1>2 DEF Opens, Expires, Grades
  <2>2. attempts'[a] = row /\ \A b \in Attempts \ {a} : attempts'[b] = attempts[b]
    BY <2>1 DEF Writes, TypeInv, QuizTypeOK
  <2>3. \A b \in Attempts, g \in Grade :
            Shows(b, g)' => Shows(b, g) \/ (b = a /\ row.status = "submitted" /\ row.grade = g)
    BY <2>1, WritesShow
  <2>4. CASE Opens(r, a, row)
    BY <2>2, <2>3, <2>4 DEF Opens, Created, GradeInv, CoverInv
  <2>5. CASE Expires(r, a, row)
    BY <2>2, <2>3, <2>5 DEF Expires, CoverInv
  <2>6. CASE Grades(r, a, row)
    BY <2>2, <2>3, <2>6 DEF Grades, CoverInv
  <2>7. QED
    BY <1>2, <2>4, <2>5, <2>6
<1>3. QED
  BY <1>1, <1>2, StepShow

\* Without a time limit no attempt expires: what is shown is what is stored.
LEMMA StoredNext ==
    ASSUME TypeInv, GradeInv, StoredInv, [Next]_qvars
    PROVE  StoredInv'
<1>1. ASSUME UNCHANGED <<timed, attempts>>,
             \A a \in Attempts, g \in Grade : Shows(a, g)' => Shows(a, g)
      PROVE  StoredInv'
  BY <1>1 DEF StoredInv
<1>2. ASSUME NEW r \in Requests, NEW a \in Attempts, NEW row \in Attempt,
             Opens(r, a, row) \/ Expires(r, a, row) \/ Grades(r, a, row)
      PROVE  StoredInv'
  <2>1. Writes(r, a, row)
    BY <1>2 DEF Opens, Expires, Grades
  <2>2. /\ attempts'[a] = row /\ \A b \in Attempts \ {a} : attempts'[b] = attempts[b]
        /\ timed' = timed
    BY <2>1 DEF Writes, TypeInv, QuizTypeOK
  <2>3. \A b \in Attempts, g \in Grade :
            Shows(b, g)' => Shows(b, g) \/ (b = a /\ row.status = "submitted" /\ row.grade = g)
    BY <2>1, WritesShow
  <2>4. CASE Opens(r, a, row)
    BY <2>2, <2>3, <2>4 DEF Opens, Created, GradeInv, StoredInv
  <2>5. CASE Expires(r, a, row)
    BY <2>2, <2>5 DEF Expires, StoredInv
  <2>6. CASE Grades(r, a, row)
    BY <2>2, <2>3, <2>6 DEF Grades, GradeInv, StoredInv
  <2>7. QED
    BY <1>2, <2>4, <2>5, <2>6
<1>3. QED
  BY <1>1, <1>2, StepShow

\* A key is written once it is found in no other row.
LEMMA KeyNext ==
    ASSUME TypeInv, KeyInv, [Next]_qvars
    PROVE  KeyInv'
<1>1. ASSUME UNCHANGED attempts
      PROVE  KeyInv'
  BY <1>1 DEF KeyInv
<1>2. ASSUME NEW r \in Requests, NEW a \in Attempts, NEW row \in Attempt,
             Opens(r, a, row) \/ Expires(r, a, row) \/ Grades(r, a, row)
      PROVE  KeyInv'
  <2>1. Writes(r, a, row)
    BY <1>2 DEF Opens, Expires, Grades
  <2>2. attempts'[a] = row /\ \A b \in Attempts \ {a} : attempts'[b] = attempts[b]
    BY <2>1 DEF Writes, TypeInv, QuizTypeOK
  <2>3. row.key = Null \/ \A b \in Attempts \ {a} : attempts[b].key # row.key
    BY <1>2 DEF Opens, Expires, Grades
  <2>4. QED
    BY <2>2, <2>3 DEF KeyInv
<1>3. QED
  BY <1>1, <1>2, StepShow

\* The attempts and the starts are finitely many.
LEMMA Counts ==
    ASSUME TypeInv
    PROVE  /\ IsFiniteSet(Created) /\ IsFiniteSet(Starting)
           /\ Cardinality(Created) \in Nat /\ Cardinality(Starting) \in Nat
           /\ Cardinality(Requests) \in Nat /\ Cardinality(Starting) <= Cardinality(Requests)
           /\ MaxTries \in Nat
<1>1. IsFiniteSet(Attempts) /\ IsFiniteSet(Requests)
  BY QuizAssumption
<1>2. Created \in SUBSET Attempts /\ Starting \in SUBSET Requests
  BY DEF Created, Starting
<1>3. /\ IsFiniteSet(Created) /\ IsFiniteSet(Starting)
      /\ Cardinality(Starting) <= Cardinality(Requests)
  BY <1>1, <1>2, FS_Subset
<1>4. QED
  BY <1>1, <1>3, FS_CardinalityType, QuizAssumption

\* Whoever passed the count and has not created its attempt is counted as well.
LEMMA OverrunNext ==
    ASSUME TypeInv, OverrunInv, [Next]_qvars
    PROVE  OverrunInv'
<1>c. /\ TypeInv'
      /\ IsFiniteSet(Created) /\ IsFiniteSet(Starting)
      /\ Cardinality(Created) \in Nat /\ Cardinality(Starting) \in Nat
      /\ Cardinality(Requests) \in Nat /\ MaxTries \in Nat
  BY TypeNext, Counts
<1>d. /\ IsFiniteSet(Starting') /\ Cardinality(Starting') \in Nat
      /\ Cardinality(Starting') <= Cardinality(Requests)
  <2>1. Starting' \in SUBSET Requests /\ IsFiniteSet(Requests)
    BY QuizAssumption DEF Starting
  <2>2. QED
    BY <2>1, FS_Subset, FS_CardinalityType
<1>1. ASSUME Created' = Created, Starting' \subseteq Starting
      PROVE  OverrunInv'
  <2>1. Cardinality(Starting') <= Cardinality(Starting)
    BY <1>1, <1>c, FS_Subset
  <2>2. QED
    BY <1>1, <1>c, <1>d, <2>1 DEF OverrunInv
<1>2. ASSUME NEW r \in Requests, Quiet(r)
      PROVE  OverrunInv'
  <2>1. Created' = Created
    BY <1>2 DEF Quiet, Created
  <2>2. CASE Cardinality(Created) < MaxTries
    BY <1>c, <1>d, <2>1, <2>2 DEF OverrunInv
  <2>3. CASE ~(Cardinality(Created) < MaxTries)
    <3>1. Starting' \subseteq Starting
      BY <1>2, <2>3 DEF Quiet, Starting, Mine
    <3>2. QED
      BY <1>1, <2>1, <3>1
  <2>4. QED
    BY <2>2, <2>3
<1>3. CASE Outside \/ UNCHANGED qvars
  BY <1>1, <1>3 DEF Outside, qvars, Created, Starting
<1>4. ASSUME NEW r \in Requests, NEW a \in Attempts, NEW row \in Attempt,
             Opens(r, a, row) \/ Expires(r, a, row) \/ Grades(r, a, row)
      PROVE  OverrunInv'
  <2>1. /\ Writes(r, a, row) /\ row.status # "none"
    BY <1>4 DEF Opens, Expires, Grades
  <2>2. /\ attempts'[a] = row /\ \A b \in Attempts \ {a} : attempts'[b] = attempts[b]
        /\ Starting' \subseteq Starting
    BY <2>1 DEF Writes, TypeInv, QuizTypeOK, Mine, Starting
  <2>3. Created' = Created \cup {a}
    BY <2>1, <2>2 DEF Created
  <2>4. CASE Opens(r, a, row)
    <3>1. Cardinality(Created') = Cardinality(Created) + 1
      BY <1>c, <2>3, <2>4, FS_AddElement DEF Opens
    <3>2. Starting' \subseteq Starting \ {r} /\ r \in Starting
      BY <2>2, <2>4 DEF Opens
    <3>3. /\ IsFiniteSet(Starting \ {r})
          /\ Cardinality(Starting \ {r}) = Cardinality(Starting) - 1
      BY <1>c, <3>2, FS_RemoveElement
    <3>4. Cardinality(Starting') <= Cardinality(Starting) - 1
      BY <3>2, <3>3, FS_Subset
    <3>5. QED
      BY <1>c, <1>d, <3>1, <3>4 DEF OverrunInv
  <2>5. CASE Expires(r, a, row) \/ Grades(r, a, row)
    <3>1. a \in Created
      BY <2>5 DEF Expires, Grades, Created
    <3>2. QED
      BY <1>1, <2>2, <2>3, <3>1
  <2>6. QED
    BY <1>4, <2>4, <2>5
<1>5. QED
  BY <1>2, <1>3, <1>4, StepKinds

-----------------------------------------------------------------------------
(* Theorems *)

IInv == TypeInv /\ GradeInv /\ CoverInv /\ StoredInv /\ KeyInv /\ OverrunInv

\* The invariant holds in every state.
LEMMA Inductive == Spec => []IInv
<1>1. Init => IInv
  <2> SUFFICES ASSUME Init PROVE IInv
    OBVIOUS
  <2>1. TypeInv
    BY TypeInit
  <2>2. GradeInv /\ CoverInv /\ StoredInv
    BY ShowInit DEF GradeInv, CoverInv, StoredInv
  <2>3. KeyInv
    BY DEF Init, KeyInv, NoAttempt
  <2>4. Created = {} /\ Starting = {}
    BY DEF Init, Created, Starting, NoAttempt
  <2>5. OverrunInv
    BY <2>1, <2>4, Counts, FS_EmptySet, QuizAssumption DEF OverrunInv
  <2>6. QED
    BY <2>1, <2>2, <2>3, <2>5 DEF IInv
<1>2. IInv /\ [Next]_qvars => IInv'
  BY TypeNext, GradeNext, CoverNext, StoredNext, KeyNext, OverrunNext DEF IInv
<1>3. QED
  BY <1>1, <1>2, PTL DEF Spec

\* The tables, the receipts and what the requests hold keep their types.
THEOREM TypeCorrect == Spec => []QuizTypeOK
<1>1. IInv => QuizTypeOK
  BY DEF IInv, TypeInv
<1>2. QED
  BY <1>1, Inductive, PTL

\* A receipt is a grade that is shown.
LEMMA ReceiptShows ==
    ASSUME QuizTypeOK, NEW x \in receipts
    PROVE  x.attempt \in Attempts /\ x.grade \in Grade /\ Shows(x.attempt, x.grade)
  BY DEF QuizTypeOK, Receipt, Shows

\* However many submissions, retries, deadlines and aborted requests meet, all the
\* grades that a client is ever given for one attempt are the same.
THEOREM GradedOnce == Spec => []OneResult
<1>1. IInv => OneResult
  BY ReceiptShows DEF IInv, TypeInv, GradeInv, OneResult
<1>2. QED
  BY <1>1, Inductive, PTL

\* One key for one attempt; without a time limit the result stays under it.
THEOREM KeysHold == Spec => []KeyNamesOneAttempt
<1>1. IInv => KeyNamesOneAttempt
  <2> SUFFICES ASSUME IInv PROVE KeyNamesOneAttempt
    OBVIOUS
  <2>1. \A a, b \in Created :
            attempts[a].key = attempts[b].key /\ attempts[a].key # Null => a = b
    BY DEF IInv, KeyInv, Created
  <2>2. ASSUME ~timed, NEW x \in receipts
        PROVE  attempts[x.attempt].key # Null /\ attempts[x.attempt].grade = x.grade
    BY <2>2, ReceiptShows DEF IInv, TypeInv, RowShape, StoredInv
  <2>3. QED
    BY <2>1, <2>2 DEF KeyNamesOneAttempt
<1>2. QED
  BY <1>1, Inductive, PTL

\* max_attempts is exceeded by fewer attempts than requests may run at one time.
THEOREM OverrunBounded == Spec => []OverrunIsBounded
<1>1. IInv => OverrunIsBounded
  BY Counts DEF IInv, OverrunInv, OverrunIsBounded
<1>2. QED
  BY <1>1, Inductive, PTL

\* Every grade given counts at least the questions of the snapshot.
THEOREM GradesCoverSnapshots == Spec => []GradeCoversSnapshot
<1>1. IInv => GradeCoversSnapshot
  BY ReceiptShows DEF IInv, TypeInv, CoverInv, GradeCoversSnapshot
<1>2. QED
  BY <1>1, Inductive, PTL
=============================================================================
