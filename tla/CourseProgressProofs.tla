------------------------ MODULE CourseProgressProofs ------------------------
(***************************************************************************)
(* What a student has completed, passed and earned, for any course, any    *)
(* number of its versions and of requests that run at once.                *)
(***************************************************************************)
EXTENDS CourseProgress, FiniteSetTheorems, SequenceTheorems, TLAPS

-----------------------------------------------------------------------------
(* Types *)

\* What every operation asks for, from the lists of its resources.
LEMMA Assumed ==
    /\ Quizzes \subseteq Resources /\ Timed \subseteq Resources \ Quizzes
    /\ \A v \in DOMAIN Versions : Versions[v] \subseteq Resources
    /\ DOMAIN Versions = 1..Len(Versions) /\ Len(Versions) \in Nat /\ 1 \in DOMAIN Versions
    /\ MinActive \in Nat
<1>1. Len(Versions) \in Nat /\ DOMAIN Versions = 1..Len(Versions) /\ Len(Versions) # 0
  BY ProgressAssumption, EmptySeq
<1>2. \A v \in 1..Len(Versions) : Versions[v] \in SUBSET Resources
  BY ProgressAssumption, ElementOfSeq
<1>3. QED
  BY <1>1, <1>2, ProgressAssumption

\* The fields of what a request holds.
LEMMA MemoryFields ==
    ASSUME NEW m \in Memory
    PROVE  /\ m.call \in Call /\ m.row \in Row /\ m.required \subseteq Resources
           /\ m.completed \subseteq Resources /\ m.passed \subseteq Quizzes
           /\ m.course \in CourseRow
           /\ m.call.op \in {"open", "beat", "complete", "submit"}
           /\ m.call.resource \in Resources /\ m.call.pass \in BOOLEAN
  BY DEF Memory, Call

\* What an idle request holds.
LEMMA NothingType == Nothing \in Memory /\ NoRow \in Row /\ NoCourse \in CourseRow
<1>1. Cardinality(Resources) \in Nat
  BY ProgressAssumption, FS_CardinalityType
<1>2. NoRow \in Row /\ NoCourse \in CourseRow
  BY <1>1, ProgressAssumption DEF NoRow, Row, NoCourse, CourseRow, Count
<1>3. (CHOOSE x \in Resources : TRUE) \in Resources
  BY ProgressAssumption
<1>4. QED
  BY <1>2, <1>3 DEF Nothing, Memory, Call

\* The percentage is a fraction of what the course requires.
LEMMA RecalculatedType ==
    ASSUME NEW row \in CourseRow, NEW required \in SUBSET Resources,
           NEW completed \in SUBSET Resources, NEW passed \in SUBSET Quizzes
    PROVE  Recalculated(row, required, completed, passed) \in CourseRow
<1>1. /\ IsFiniteSet(required) /\ Cardinality(required) <= Cardinality(Resources)
      /\ Cardinality(required \cap completed) <= Cardinality(required)
  BY ProgressAssumption, FS_Subset
<1>2. /\ Cardinality(required) \in Nat /\ Cardinality(Resources) \in Nat
      /\ Cardinality(required \cap completed) \in Nat
  BY <1>1, ProgressAssumption, FS_CardinalityType, FS_Subset
<1>3. /\ Cardinality(required) \in Count /\ Cardinality(required \cap completed) \in Count
  BY <1>1, <1>2 DEF Count
<1>4. row.status \in {"none", "in_progress", "completed", "approved"}
  BY DEF CourseRow
<1>5. QED
  BY <1>1, <1>3, <1>4 DEF Recalculated, CourseRow

\* Every row that an operation keeps in memory is one of the table.
LEMMA RowTypes ==
    ASSUME NEW row \in Row
    PROVE  /\ OpenedRow(row) \in Row /\ RecordedRow(row) \in Row
           /\ CompletedRow(row) \in Row
           /\ \A add \in 0..1, far \in BOOLEAN : BeatRow(row, add, far) \in Row
<1>1. OpenedRow(row) \in Row /\ RecordedRow(row) \in Row /\ CompletedRow(row) \in Row
  BY DEF OpenedRow, RecordedRow, CompletedRow, Row
<1>2. ASSUME NEW add \in 0..1, NEW far \in BOOLEAN PROVE BeatRow(row, add, far) \in Row
  <2> DEFINE active == IF row.active + add > MinActive THEN MinActive ELSE row.active + add
             watched == row.watched \/ far
  <2>1. active \in 0..MinActive
    BY ProgressAssumption DEF Row
  <2>2. watched \in BOOLEAN
    OBVIOUS
  <2>3. BeatRow(row, add, far) = [row EXCEPT !.active = active, !.watched = watched]
    BY Zenon DEF BeatRow
  <2>4. [row EXCEPT !.active = active, !.watched = watched] \in Row
    <3> HIDE DEF active, watched
    <3>1. QED
      BY <2>1, <2>2 DEF Row
  <2>5. QED
    BY <2>3, <2>4
<1>3. QED
  BY <1>1, <1>2

\* Events are only of quizzes: what is submitted is a quiz.
OnQuizzes ==
    \A r \in Requests :
        /\ pmem[r].call.op = "submit" => pmem[r].call.resource \in Quizzes
        /\ ppc[r] \in {"hasSubmitted", "addSubmitted", "hasPassed", "addPassed"} =>
              pmem[r].call.op = "submit"

TypeInv == ProgressTypeOK /\ OnQuizzes

\* A step of one request leaves what the others hold alone.
Mine(r) ==
    \A s \in Requests \ {r} : ppc'[s] = ppc[s] /\ pmem'[s] = pmem[s]

\* The calls of the student.
Begins(r) ==
    \/ \E x \in Resources : BeginOpen(r, x) \/ BeginBeat(r, x) \/ BeginComplete(r, x)
    \/ \E q \in Quizzes, p \in BOOLEAN : BeginSubmit(r, q, p)

\* How an operation that only reads its first row goes on, or a request ends.
Leaves(r) == Fail(r) \/ Succeed(r) \/ Recalculate(r)

\* What a request that leaves its operation keeps.
LEMMA LeavesTypes ==
    ASSUME TypeInv, NEW r \in Requests, Leaves(r)
    PROVE  /\ ppc' \in [Requests -> PPC] /\ pmem' \in [Requests -> Memory]
           /\ alone' \in Lone \cup {Null}
           /\ Mine(r) /\ pmem'[r] = Nothing /\ ppc'[r] \in {"idle", "tree"}
<1>1. CASE Fail(r)
  BY <1>1, NothingType DEF Fail, Step, Forget, TypeInv, ProgressTypeOK, PPC, Mine
<1>2. CASE Succeed(r)
  <2>1. alone' \in Lone \cup {Null}
    BY <1>2 DEF Succeed, TypeInv, ProgressTypeOK, Lone
  <2>2. QED
    BY <1>2, <2>1, NothingType
       DEF Succeed, Step, Forget, TypeInv, ProgressTypeOK, PPC, Mine
<1>3. CASE Recalculate(r)
  BY <1>3, NothingType DEF Recalculate, Go, Step, Forget, TypeInv, ProgressTypeOK, PPC, Mine
<1>4. QED
  BY <1>1, <1>2, <1>3 DEF Leaves

\* What a call that begins holds.
LEMMA BeginsCall ==
    ASSUME TypeInv, NEW r \in Requests, Begins(r)
    PROVE  /\ ppc' \in [Requests -> PPC] /\ pmem' \in [Requests -> Memory]
           /\ alone' \in Lone \cup {Null}
           /\ Mine(r) /\ UNCHANGED <<tables, once>> /\ ppc[r] = "idle" /\ ppc'[r] = "find"
           /\ pmem'[r].call.op = "submit" => pmem'[r].call.resource \in Quizzes
           /\ alone' # Null => /\ alone' = [call |-> pmem'[r].call, done |-> FALSE]
                               /\ \A s \in Requests : ppc[s] = "idle"
<1>1. ASSUME NEW call \in Call, Begin(r, call),
             call.op = "submit" => call.resource \in Quizzes
      PROVE  /\ ppc' \in [Requests -> PPC] /\ pmem' \in [Requests -> Memory]
             /\ alone' \in Lone \cup {Null}
             /\ Mine(r) /\ UNCHANGED <<tables, once>> /\ ppc[r] = "idle" /\ ppc'[r] = "find"
             /\ pmem'[r].call.op = "submit" => pmem'[r].call.resource \in Quizzes
             /\ alone' # Null => /\ alone' = [call |-> pmem'[r].call, done |-> FALSE]
                                 /\ \A s \in Requests : ppc[s] = "idle"
  <2>1. /\ ppc' \in [Requests -> PPC] /\ Mine(r) /\ UNCHANGED <<tables, once>>
        /\ ppc[r] = "idle" /\ ppc'[r] = "find"
    BY <1>1 DEF Begin, Step, TypeInv, ProgressTypeOK, PPC, Mine
  <2>2. pmem' \in [Requests -> Memory] /\ pmem'[r].call = call
    BY <1>1 DEF Begin, TypeInv, ProgressTypeOK, Memory
  <2>3. /\ alone' \in Lone \cup {Null}
        /\ alone' # Null => /\ alone' = [call |-> call, done |-> FALSE]
                            /\ \A s \in Requests : ppc[s] = "idle"
    BY <1>1 DEF Begin, Lone
  <2>4. QED
    BY <1>1, <2>1, <2>2, <2>3
<1>2. ASSUME NEW x \in Resources, NEW op \in {"open", "beat", "complete"}
      PROVE  [op |-> op, resource |-> x, pass |-> FALSE] \in Call
  BY DEF Call
<1>3. ASSUME NEW q \in Quizzes, NEW p \in BOOLEAN
      PROVE  [op |-> "submit", resource |-> q, pass |-> p] \in Call
  BY Assumed DEF Call
<1>4. CASE \E x \in Resources : BeginOpen(r, x) \/ BeginBeat(r, x) \/ BeginComplete(r, x)
  BY <1>1, <1>2, <1>4 DEF BeginOpen, BeginBeat, BeginComplete
<1>5. CASE \E q \in Quizzes, p \in BOOLEAN : BeginSubmit(r, q, p)
  BY <1>1, <1>3, <1>5 DEF BeginSubmit
<1>6. QED
  BY <1>4, <1>5 DEF Begins

\* The types of what a step of a request may change in memory.
Control ==
    ppc' \in [Requests -> PPC] /\ pmem' \in [Requests -> Memory] /\ alone' \in Lone \cup {Null}

\* What an operation makes of the row that it found: it takes no completed
\* resource back, and completes one only as it must.
Found(r, new) ==
    LET c == pmem[r].call
    IN  /\ new \in Row
        /\ rows[c.resource].status = "completed" => new.status = "completed"
        /\ c.op \in {"complete", "submit"} => new.status = "completed"
        /\ new.status = "completed" /\ c.op # "submit" =>
              new = rows[c.resource] \/ MayComplete(c.resource, new)

\* The first statement of an operation.
LEMMA FindRowEffect ==
    ASSUME TypeInv, NEW r \in Requests, FindRow(r)
    PROVE  /\ Control /\ Mine(r) /\ UNCHANGED <<tables, once>> /\ ppc[r] = "find"
           /\ \/ /\ ppc'[r] = "put" /\ alone' = alone /\ pmem'[r].call = pmem[r].call
                 /\ Found(r, pmem'[r].row)
              \/ Fail(r)
              \/ /\ pmem[r].call.op = "complete" /\ Recalculate(r)
                 /\ rows[pmem[r].call.resource].status = "completed"
<1> DEFINE c == pmem[r].call
           row == rows[c.resource]
           Keep(new) == Go(r, "put") /\ pmem' = [pmem EXCEPT ![r].row = new]
<1>0. /\ UNCHANGED <<tables, once>> /\ ppc[r] = "find" /\ pmem[r] \in Memory
      /\ c.resource \in Resources /\ row \in Row
      /\ c.op \in {"open", "beat", "complete", "submit"}
  BY MemoryFields DEF FindRow, TypeInv, ProgressTypeOK
<1>1. ASSUME NEW new, Keep(new), Found(r, new)
      PROVE  /\ Control /\ Mine(r) /\ ppc'[r] = "put" /\ alone' = alone
             /\ pmem'[r].call = pmem[r].call /\ Found(r, pmem'[r].row)
  <2>1. new \in Row /\ ppc' = [ppc EXCEPT ![r] = "put"] /\ alone' = alone
    BY <1>1 DEF Found, Go, Step
  <2>2. /\ pmem' \in [Requests -> Memory] /\ pmem'[r].call = pmem[r].call
        /\ pmem'[r].row = new /\ \A s \in Requests \ {r} : pmem'[s] = pmem[s]
    BY <1>1, <2>1 DEF TypeInv, ProgressTypeOK, Memory
  <2>3. ppc' \in [Requests -> PPC] /\ ppc'[r] = "put"
        /\ \A s \in Requests \ {r} : ppc'[s] = ppc[s]
    BY <2>1 DEF TypeInv, ProgressTypeOK, PPC
  <2>4. QED
    BY <1>1, <2>1, <2>2, <2>3 DEF Control, Mine, TypeInv, ProgressTypeOK
<1>2. CASE c.op = "open" /\ Keep(OpenedRow(row))
  <2>1. Found(r, OpenedRow(row))
    BY <1>0, <1>2, RowTypes DEF Found, OpenedRow
  <2>2. QED
    BY <1>0, <1>1, <1>2, <2>1
<1>3. CASE c.op = "submit" /\ Keep(RecordedRow(row))
  <2>1. Found(r, RecordedRow(row))
    BY <1>0, <1>3, RowTypes DEF Found, RecordedRow, Row
  <2>2. QED
    BY <1>0, <1>1, <1>3, <2>1
<1>4. ASSUME c.op = "beat", MayBeat(row), NEW add \in 0..1, NEW far \in BOOLEAN,
             Keep(BeatRow(row, add, far))
      PROVE  Control /\ Mine(r) /\ ppc'[r] = "put" /\ alone' = alone
             /\ pmem'[r].call = pmem[r].call /\ Found(r, pmem'[r].row)
  <2>1. BeatRow(row, add, far).status = "in_progress"
    BY <1>0, <1>4 DEF BeatRow, MayBeat, Row
  <2>2. Found(r, BeatRow(row, add, far))
    BY <1>0, <1>4, <2>1, RowTypes DEF Found, MayBeat
  <2>3. QED
    BY <1>1, <1>4, <2>2
<1>5. CASE /\ c.op = "complete" /\ row.status = "in_progress"
           /\ MayComplete(c.resource, row) /\ Keep(CompletedRow(row))
  <2>1. /\ CompletedRow(row) \in Row /\ CompletedRow(row).status = "completed"
        /\ CompletedRow(row).active = row.active /\ CompletedRow(row).watched = row.watched
    BY <1>0, RowTypes DEF CompletedRow, Row
  <2>2. MayComplete(c.resource, CompletedRow(row))
    BY <1>5, <2>1 DEF MayComplete
  <2>3. Found(r, CompletedRow(row))
    BY <1>0, <1>5, <2>1, <2>2 DEF Found
  <2>4. QED
    BY <1>0, <1>1, <1>5, <2>3
<1>6. CASE c.op = "complete" /\ row.status = "completed" /\ Recalculate(r)
  BY <1>0, <1>6, LeavesTypes DEF Leaves, Control
<1>7. CASE Fail(r)
  BY <1>0, <1>7, LeavesTypes DEF Leaves, Control
<1>8. CASE /\ c.op = "beat" /\ MayBeat(row)
           /\ \E add \in 0..1, far \in BOOLEAN :
                 (far => c.resource \in Timed) /\ Keep(BeatRow(row, add, far))
  <2>1. PICK add \in 0..1, far \in BOOLEAN : Keep(BeatRow(row, add, far))
    BY <1>8
  <2>2. QED
    BY <1>0, <1>4, <1>8, <2>1
<1>9. QED
  <2> HIDE DEF Keep, c, row
  <2>1. \/ c.op = "open" /\ Keep(OpenedRow(row))
        \/ c.op = "submit" /\ Keep(RecordedRow(row))
        \/ /\ c.op = "beat" /\ MayBeat(row)
           /\ \E add \in 0..1, far \in BOOLEAN :
                 (far => c.resource \in Timed) /\ Keep(BeatRow(row, add, far))
        \/ /\ c.op = "complete" /\ row.status = "in_progress"
           /\ MayComplete(c.resource, row) /\ Keep(CompletedRow(row))
        \/ c.op = "complete" /\ row.status = "completed" /\ Recalculate(r)
        \/ Fail(r)
    BY Zenon DEF FindRow, c, row, Keep
  <2>2. QED
    BY <2>1, <1>2, <1>3, <1>5, <1>6, <1>7, <1>8

\* The row is written as it is in memory.
LEMMA PutRowEffect ==
    ASSUME TypeInv, NEW r \in Requests, PutRow(r)
    PROVE  /\ Control /\ Mine(r) /\ ppc[r] = "put"
           /\ UNCHANGED <<version, events, course, template, badges>>
           /\ rows' = [rows EXCEPT ![pmem[r].call.resource] = pmem[r].row]
           /\ once' = IF pmem[r].row.status = "completed"
                      THEN once \cup {pmem[r].call.resource} ELSE once
           /\ pmem[r].row \in Row /\ pmem[r].call.resource \in Resources
           /\ \/ pmem[r].call.op \in {"open", "beat"} /\ Fail(r)
              \/ pmem[r].call.op = "complete" /\ Recalculate(r)
              \/ /\ pmem[r].call.op = "submit" /\ alone' = alone
                 /\ ppc'[r] = "hasSubmitted" /\ pmem'[r].call = pmem[r].call
<1>1. /\ ppc[r] = "put" /\ UNCHANGED <<version, events, course, template, badges>>
      /\ rows' = [rows EXCEPT ![pmem[r].call.resource] = pmem[r].row]
      /\ once' = IF pmem[r].row.status = "completed"
                 THEN once \cup {pmem[r].call.resource} ELSE once
      /\ pmem[r].row \in Row /\ pmem[r].call.resource \in Resources
  BY MemoryFields DEF PutRow, StoredRow, TypeInv, ProgressTypeOK
<1>2. CASE \/ pmem[r].call.op \in {"open", "beat"} /\ Fail(r)
           \/ pmem[r].call.op = "complete" /\ Recalculate(r)
  BY <1>1, <1>2, LeavesTypes DEF Leaves, Control
<1>3. CASE /\ pmem[r].call.op = "submit" /\ Go(r, "hasSubmitted")
           /\ pmem' = [pmem EXCEPT ![r].row = NoRow]
  <2>1. /\ pmem' \in [Requests -> Memory] /\ pmem'[r].call = pmem[r].call
        /\ \A s \in Requests \ {r} : pmem'[s] = pmem[s]
    BY <1>3, NothingType DEF TypeInv, ProgressTypeOK, Memory
  <2>2. /\ ppc' \in [Requests -> PPC] /\ ppc'[r] = "hasSubmitted"
        /\ \A s \in Requests \ {r} : ppc'[s] = ppc[s]
    BY <1>3 DEF Go, Step, TypeInv, ProgressTypeOK, PPC
  <2>3. QED
    BY <1>1, <1>3, <2>1, <2>2 DEF Control, Mine, Go, TypeInv, ProgressTypeOK
<1>4. QED
  BY <1>2, <1>3 DEF PutRow

AtEvents == {"hasSubmitted", "addSubmitted", "hasPassed", "addPassed"}

EventStep(r) == HasSubmitted(r) \/ HasPassed(r) \/ AddSubmitted(r) \/ AddPassed(r)

\* An event that is inserted is there once and stays.
LEMMA EventStepEffect ==
    ASSUME TypeInv, NEW r \in Requests, EventStep(r)
    PROVE  /\ Control /\ Mine(r) /\ ppc[r] \in AtEvents
           /\ UNCHANGED <<version, rows, course, template, badges, once>>
           /\ events' \in [QuizEvents -> Nat]
           /\ \A e \in QuizEvents : events'[e] = events[e] \/ events'[e] = 1
           /\ \/ ppc'[r] \in AtEvents /\ pmem' = pmem /\ alone' = alone
              \/ Recalculate(r)
<1>1. ppc[r] \in AtEvents /\ UNCHANGED <<version, rows, course, template, badges, once>>
  BY DEF EventStep, HasSubmitted, HasPassed, AddSubmitted, AddPassed, AtEvents, tables
<1>2. /\ events' \in [QuizEvents -> Nat]
      /\ \A e \in QuizEvents : events'[e] = events[e] \/ events'[e] = 1
  <2>1. events' = events \/ \E e : events' = [events EXCEPT ![e] = 1]
    BY DEF EventStep, HasSubmitted, HasPassed, AddSubmitted, AddPassed, tables, Inserted
  <2>2. ASSUME NEW e, events' = [events EXCEPT ![e] = 1]
        PROVE  /\ events' \in [QuizEvents -> Nat]
               /\ \A f \in QuizEvents : events'[f] = events[f] \/ events'[f] = 1
    BY <2>2 DEF TypeInv, ProgressTypeOK
  <2>3. QED
    BY <2>1, <2>2 DEF TypeInv, ProgressTypeOK
<1>3. \/ Recalculate(r)
      \/ pmem' = pmem /\ \E step \in AtEvents : Go(r, step)
  BY DEF EventStep, HasSubmitted, HasPassed, AddSubmitted, AddPassed, AfterSubmitted, AtEvents
<1>4. CASE Recalculate(r)
  BY <1>1, <1>2, <1>4, LeavesTypes DEF Leaves, Control
<1>5. ASSUME NEW step \in AtEvents, pmem' = pmem, Go(r, step)
      PROVE  Control /\ Mine(r) /\ ppc'[r] \in AtEvents /\ alone' = alone
  BY <1>5 DEF Control, Mine, Go, Step, AtEvents, TypeInv, ProgressTypeOK, PPC
<1>6. QED
  BY <1>1, <1>2, <1>3, <1>4, <1>5

ReadStep(r) == LoadTree(r) \/ ListCompleted(r) \/ ListPassed(r) \/ ReadCourse(r)

\* A recalculation gathers what is required, completed and passed, in turn.
LEMMA ReadStepEffect ==
    ASSUME TypeInv, NEW r \in Requests, ReadStep(r)
    PROVE  /\ Control /\ Mine(r) /\ UNCHANGED <<tables, once, alone>>
           /\ pmem'[r].call = pmem[r].call \/ pmem'[r].call.op = "open"
           /\ \/ /\ ppc[r] = "tree" /\ ppc'[r] = "completed"
                 /\ pmem'[r].required = Required
              \/ /\ ppc[r] = "completed" /\ ppc'[r] = "passed"
                 /\ pmem'[r].required = pmem[r].required
                 /\ pmem'[r].completed = Completed
              \/ /\ ppc[r] = "passed" /\ ppc'[r] = "course"
                 /\ pmem'[r].required = pmem[r].required
                 /\ pmem'[r].completed = pmem[r].completed
                 /\ pmem'[r].passed = Passed
              \/ /\ ppc[r] = "course" /\ ppc'[r] = "putCourse"
                 /\ pmem'[r].course = Recalculated(course, pmem[r].required,
                                                   pmem[r].completed, pmem[r].passed)
<1>t. /\ pmem[r] \in Memory /\ pmem \in [Requests -> Memory] /\ ppc \in [Requests -> PPC]
      /\ Required \subseteq Resources /\ Completed \subseteq Resources
      /\ Passed \subseteq Quizzes /\ course \in CourseRow /\ alone \in Lone \cup {Null}
  BY Assumed DEF TypeInv, ProgressTypeOK, Required, Completed, Passed
<1>1. CASE LoadTree(r)
  <2>1. /\ pmem' \in [Requests -> Memory] /\ pmem'[r].required = Required
        /\ pmem'[r].call = pmem[r].call /\ \A s \in Requests \ {r} : pmem'[s] = pmem[s]
    BY <1>t, <1>1 DEF LoadTree, Memory
  <2>2. QED
    BY <1>t, <1>1, <2>1 DEF LoadTree, Go, Step, Control, Mine, PPC
<1>2. CASE ListCompleted(r)
  <2>1. /\ pmem' \in [Requests -> Memory] /\ pmem'[r].required = pmem[r].required
        /\ pmem'[r].completed = Completed
        /\ pmem'[r].call = pmem[r].call /\ \A s \in Requests \ {r} : pmem'[s] = pmem[s]
    BY <1>t, <1>2 DEF ListCompleted, Memory
  <2>2. QED
    BY <1>t, <1>2, <2>1 DEF ListCompleted, Go, Step, Control, Mine, PPC
<1>3. CASE ListPassed(r)
  <2>1. /\ pmem' \in [Requests -> Memory] /\ pmem'[r].required = pmem[r].required
        /\ pmem'[r].completed = pmem[r].completed /\ pmem'[r].passed = Passed
        /\ pmem'[r].call = pmem[r].call /\ \A s \in Requests \ {r} : pmem'[s] = pmem[s]
    BY <1>t, <1>3 DEF ListPassed, Memory
  <2>2. QED
    BY <1>t, <1>3, <2>1 DEF ListPassed, Go, Step, Control, Mine, PPC
<1>4. CASE ReadCourse(r)
  <2> DEFINE new == Recalculated(course, pmem[r].required, pmem[r].completed, pmem[r].passed)
  <2>1. new \in CourseRow
    BY <1>t, MemoryFields, RecalculatedType
  <2>2. pmem' = [pmem EXCEPT ![r] = [Nothing EXCEPT !.course = new]]
    BY <1>4 DEF ReadCourse
  <2>3. [Nothing EXCEPT !.course = new] \in Memory
    <3> HIDE DEF new
    <3>1. QED
      BY <2>1, NothingType DEF Memory
  <2>4. /\ [Nothing EXCEPT !.course = new].course = new
        /\ [Nothing EXCEPT !.course = new].call.op = "open"
    <3> HIDE DEF new
    <3>1. QED
      BY DEF Nothing
  <2>5. /\ pmem' \in [Requests -> Memory] /\ pmem'[r].course = new
        /\ pmem'[r].call.op = "open" /\ \A s \in Requests \ {r} : pmem'[s] = pmem[s]
    <3> HIDE DEF new
    <3>1. QED
      BY <1>t, <2>2, <2>3, <2>4
  <2>6. /\ ppc' \in [Requests -> PPC] /\ ppc[r] = "course" /\ ppc'[r] = "putCourse"
        /\ \A s \in Requests \ {r} : ppc'[s] = ppc[s]
        /\ UNCHANGED <<tables, once, alone>>
    BY <1>t, <1>4 DEF ReadCourse, Go, Step, PPC
  <2>7. QED
    BY <1>t, <2>5, <2>6 DEF Control, Mine
<1>5. QED
  BY <1>1, <1>2, <1>3, <1>4 DEF ReadStep

\* The course is written as it is in memory, and goes on if it is approved.
LEMMA PutCourseEffect ==
    ASSUME TypeInv, NEW r \in Requests, PutCourse(r)
    PROVE  /\ Control /\ Mine(r) /\ ppc[r] = "putCourse" /\ pmem'[r] = Nothing
           /\ UNCHANGED <<version, rows, events, template, badges, once>>
           /\ course' = pmem[r].course /\ course' \in CourseRow
           /\ \/ ppc'[r] = "approved" /\ course'.status = "approved" /\ alone' = alone
              \/ Succeed(r) /\ course'.status # "approved"
<1>1. /\ ppc[r] = "putCourse" /\ UNCHANGED <<version, rows, events, template, badges, once>>
      /\ course' = pmem[r].course /\ course' \in CourseRow
  BY MemoryFields DEF PutCourse, TypeInv, ProgressTypeOK
<1>2. CASE course'.status = "approved"
  BY <1>1, <1>2, NothingType
     DEF PutCourse, Go, Step, Forget, Control, Mine, TypeInv, ProgressTypeOK, PPC
<1>3. CASE course'.status # "approved"
  <2>1. Succeed(r)
    BY <1>3 DEF PutCourse
  <2>2. QED
    BY <1>1, <1>3, <2>1, LeavesTypes DEF Leaves, Control
<1>4. QED
  BY <1>2, <1>3

BadgeStep(r) == FindApproved(r) \/ FindIssuance(r) \/ FindTemplate(r) \/ CreateIssuance(r)

\* A badge is inserted when there is none.
LEMMA BadgeStepEffect ==
    ASSUME TypeInv, NEW r \in Requests, BadgeStep(r)
    PROVE  /\ Control /\ Mine(r) /\ ppc[r] \in {"approved", "issued", "template", "issue"}
           /\ UNCHANGED <<version, rows, events, course, template, once>>
           /\ \/ badges' = badges
              \/ badges = <<>> /\ badges' = Append(badges, [revoked |-> FALSE]) /\ Succeed(r)
           /\ \/ /\ pmem' = pmem /\ alone' = alone
                 /\ \/ ppc[r] = "approved" /\ ppc'[r] = "issued" /\ course.status = "approved"
                    \/ ppc[r] = "issued" /\ ppc'[r] = "template"
                    \/ ppc[r] = "template" /\ ppc'[r] = "issue"
              \/ Fail(r)
              \/ Succeed(r) /\ (badges' # <<>> \/ ~template)
<1>1. /\ UNCHANGED <<version, rows, events, course, template, once>>
      /\ ppc[r] \in {"approved", "issued", "template", "issue"}
      /\ \/ badges' = badges
         \/ badges = <<>> /\ badges' = Append(badges, [revoked |-> FALSE]) /\ Succeed(r)
  BY DEF BadgeStep, FindApproved, FindIssuance, FindTemplate, CreateIssuance, tables, MayInsert
<1>2. Append(<<>>, [revoked |-> FALSE]) # <<>>
  BY EmptySeq, AppendProperties
<1>3. \/ /\ pmem' = pmem
         /\ \/ ppc[r] = "approved" /\ Go(r, "issued") /\ course.status = "approved"
            \/ ppc[r] = "issued" /\ Go(r, "template")
            \/ ppc[r] = "template" /\ Go(r, "issue")
      \/ Fail(r)
      \/ Succeed(r) /\ (badges' # <<>> \/ ~template)
  BY <1>2 DEF BadgeStep, FindApproved, FindIssuance, FindTemplate, CreateIssuance, tables,
     MayInsert, Issued
<1>4. CASE Fail(r) \/ (Succeed(r) /\ (badges' # <<>> \/ ~template))
  BY <1>1, <1>4, LeavesTypes DEF Leaves, Control
<1>5. ASSUME pmem' = pmem, NEW step \in {"issued", "template", "issue"}, Go(r, step)
      PROVE  Control /\ Mine(r) /\ alone' = alone /\ ppc'[r] = step
  BY <1>5 DEF Go, Step, Control, Mine, TypeInv, ProgressTypeOK, PPC
<1>6. QED
  BY <1>1, <1>3, <1>4, <1>5

\* The teacher and the administrator.
Outside == PublishVersion \/ CreateBadge \/ \E i \in DOMAIN badges : Revoke(i)

\* What they do leaves the student's rows and requests alone.
LEMMA OutsideEffect ==
    ASSUME TypeInv, Outside
    PROVE  /\ alone' = Null /\ UNCHANGED <<rows, events, course, ppc, pmem, once>>
           /\ version' \in DOMAIN Versions /\ version <= version'
           /\ template' \in BOOLEAN
           /\ badges' \in Seq([revoked: BOOLEAN]) /\ Len(badges') = Len(badges)
           /\ badges' # <<>> => badges # <<>>
<1>1. CASE PublishVersion
  BY <1>1, Assumed DEF PublishVersion, TypeInv, ProgressTypeOK
<1>2. CASE CreateBadge
  BY <1>2, Assumed DEF CreateBadge, TypeInv, ProgressTypeOK
<1>3. ASSUME NEW i \in DOMAIN badges, Revoke(i)
      PROVE  /\ badges' \in Seq([revoked: BOOLEAN]) /\ Len(badges') = Len(badges)
             /\ badges # <<>>
  <2>1. badges \in Seq([revoked: BOOLEAN]) /\ i \in 1..Len(badges)
    BY <1>3 DEF TypeInv, ProgressTypeOK
  <2>2. badges # <<>>
    BY <2>1, EmptySeq
  <2>3. badges' = [badges EXCEPT ![i] = [badges[i] EXCEPT !.revoked = TRUE]]
    BY <1>3 DEF Revoke
  <2>4. [badges[i] EXCEPT !.revoked = TRUE] \in [revoked: BOOLEAN]
    <3>1. badges[i] \in [revoked: BOOLEAN]
      BY <2>1, ElementOfSeq
    <3>2. QED
      BY <3>1
  <2>5. QED
    BY <2>1, <2>2, <2>3, <2>4, ExceptSeq
<1>4. CASE \E i \in DOMAIN badges : Revoke(i)
  <2>1. /\ alone' = Null /\ UNCHANGED <<version, rows, events, course, template, ppc, pmem, once>>
    BY <1>4 DEF Revoke
  <2>2. QED
    BY <1>3, <1>4, <2>1, Assumed DEF TypeInv, ProgressTypeOK
<1>5. QED
  BY <1>1, <1>2, <1>4 DEF Outside

\* A step of the specification is one of these.
LEMMA NextCases ==
    ASSUME [Next]_pvars
    PROVE  \/ \E r \in Requests :
                 \/ Begins(r) \/ FindRow(r) \/ PutRow(r) \/ EventStep(r) \/ ReadStep(r)
                 \/ PutCourse(r) \/ BadgeStep(r) \/ Abort(r)
           \/ Outside
           \/ UNCHANGED pvars
  BY DEF Next, Begins, RequestStep, EventStep, ReadStep, BadgeStep, Outside

\* Every step keeps the types.
LEMMA TypesNext == TypeInv /\ [Next]_pvars => TypeInv'
<1> SUFFICES ASSUME TypeInv, [Next]_pvars PROVE TypeInv'
  OBVIOUS
<1>t. /\ version \in DOMAIN Versions /\ rows \in [Resources -> Row]
      /\ events \in [QuizEvents -> Nat] /\ course \in CourseRow /\ template \in BOOLEAN
      /\ badges \in Seq([revoked: BOOLEAN]) /\ once \subseteq Resources
      /\ OnQuizzes
  BY DEF TypeInv, ProgressTypeOK
<1>k. ASSUME NEW r \in Requests, Mine(r),
             pmem'[r].call.op = "submit" => pmem'[r].call.resource \in Quizzes,
             ppc'[r] \in AtEvents => pmem'[r].call.op = "submit"
      PROVE  OnQuizzes'
  BY <1>k, <1>t DEF OnQuizzes, Mine, AtEvents
<1>n. Nothing.call.op = "open"
  BY DEF Nothing
<1>o. ASSUME NEW r \in Requests, Leaves(r) PROVE Control /\ OnQuizzes'
  BY <1>o, <1>k, <1>n, LeavesTypes DEF Control, AtEvents
<1>1. ASSUME NEW r \in Requests, Begins(r) PROVE TypeInv'
  <2>1. OnQuizzes'
    BY <1>1, <1>k, BeginsCall DEF AtEvents
  <2>2. QED
    BY <1>1, <1>t, <2>1, BeginsCall DEF TypeInv, ProgressTypeOK, tables
<1>2. ASSUME NEW r \in Requests, FindRow(r) PROVE TypeInv'
  <2>1. OnQuizzes'
    BY <1>2, <1>t, <1>k, <1>o, FindRowEffect DEF AtEvents, Leaves, OnQuizzes
  <2>2. QED
    BY <1>2, <1>t, <2>1, FindRowEffect DEF TypeInv, ProgressTypeOK, tables, Control
<1>3. ASSUME NEW r \in Requests, PutRow(r) PROVE TypeInv'
  <2>1. OnQuizzes'
    BY <1>3, <1>t, <1>k, <1>o, PutRowEffect DEF AtEvents, Leaves, OnQuizzes
  <2>2. rows' \in [Resources -> Row] /\ once' \subseteq Resources
    BY <1>3, <1>t, PutRowEffect
  <2>3. QED
    BY <1>3, <1>t, <2>1, <2>2, PutRowEffect DEF TypeInv, ProgressTypeOK, Control
<1>4. ASSUME NEW r \in Requests, EventStep(r) PROVE TypeInv'
  <2>1. OnQuizzes'
    BY <1>4, <1>t, <1>k, <1>o, EventStepEffect DEF AtEvents, Leaves, OnQuizzes
  <2>2. QED
    BY <1>4, <1>t, <2>1, EventStepEffect DEF TypeInv, ProgressTypeOK, Control
<1>5. ASSUME NEW r \in Requests, ReadStep(r) PROVE TypeInv'
  <2>1. OnQuizzes'
    BY <1>5, <1>t, <1>k, ReadStepEffect DEF AtEvents, OnQuizzes
  <2>2. QED
    BY <1>5, <1>t, <2>1, ReadStepEffect DEF TypeInv, ProgressTypeOK, Control, tables
<1>6. ASSUME NEW r \in Requests, PutCourse(r) PROVE TypeInv'
  <2>1. OnQuizzes'
    BY <1>6, <1>k, <1>n, <1>o, PutCourseEffect DEF AtEvents, Leaves
  <2>2. QED
    BY <1>6, <1>t, <2>1, PutCourseEffect DEF TypeInv, ProgressTypeOK, Control
<1>7. ASSUME NEW r \in Requests, BadgeStep(r) PROVE TypeInv'
  <2>1. OnQuizzes'
    BY <1>7, <1>t, <1>k, <1>o, BadgeStepEffect DEF AtEvents, Leaves, OnQuizzes
  <2>2. badges' \in Seq([revoked: BOOLEAN])
    <3>1. \/ badges' = badges
          \/ badges' = Append(badges, [revoked |-> FALSE])
      BY <1>7, BadgeStepEffect
    <3>2. [revoked |-> FALSE] \in [revoked: BOOLEAN]
      OBVIOUS
    <3>3. QED
      <4> DEFINE Issuance == [revoked: BOOLEAN]
                 new == [revoked |-> FALSE]
      <4>1. badges \in Seq(Issuance) /\ new \in Issuance
        BY <3>2, <1>t
      <4>2. badges' = badges \/ badges' = Append(badges, new)
        BY <3>1
      <4> HIDE DEF Issuance, new
      <4>3. badges' \in Seq(Issuance)
        BY <4>1, <4>2, AppendProperties
      <4>4. QED
        BY <4>3 DEF Issuance
  <2>3. QED
    BY <1>7, <1>t, <2>1, <2>2, BadgeStepEffect DEF TypeInv, ProgressTypeOK, Control
<1>8. ASSUME NEW r \in Requests, Abort(r) PROVE TypeInv'
  BY <1>8, <1>t, <1>o DEF Abort, Leaves, Control, TypeInv, ProgressTypeOK, tables
<1>9. CASE Outside
  BY <1>9, <1>t, OutsideEffect DEF TypeInv, ProgressTypeOK, OnQuizzes
<1>10. CASE UNCHANGED pvars
  BY <1>10 DEF pvars, tables, TypeInv, ProgressTypeOK, OnQuizzes
<1>11. QED
  BY <1>1, <1>2, <1>3, <1>4, <1>5, <1>6, <1>7, <1>8, <1>9, <1>10, NextCases

\* The first part of the inductive invariant.
LEMMA TypeInvCorrect == Spec => []TypeInv
<1>1. Init => TypeInv
  <2> SUFFICES ASSUME Init PROVE TypeInv
    OBVIOUS
  <2>1. badges \in Seq([revoked: BOOLEAN])
    BY EmptySeq DEF Init
  <2>2. /\ version \in DOMAIN Versions /\ rows \in [Resources -> Row]
        /\ events \in [QuizEvents -> Nat] /\ course \in CourseRow /\ template \in BOOLEAN
        /\ ppc \in [Requests -> PPC] /\ pmem \in [Requests -> Memory]
        /\ once \subseteq Resources /\ alone \in Lone \cup {Null}
    BY Assumed, NothingType DEF Init, PPC
  <2>3. OnQuizzes
    <3>1. Nothing.call.op = "open"
      BY DEF Nothing
    <3>2. QED
      BY <3>1 DEF Init, OnQuizzes
  <2>4. QED
    BY <2>1, <2>2, <2>3 DEF TypeInv, ProgressTypeOK
<1>2. QED
  BY <1>1, TypesNext, PTL DEF Spec

\* The types, and that a percentage is never over 100.
THEOREM ProgressTypes == Spec => []ProgressTypeOK
<1>1. TypeInv => ProgressTypeOK
  BY DEF TypeInv
<1>2. QED
  BY <1>1, TypeInvCorrect, PTL

-----------------------------------------------------------------------------
(* What is completed is earned *)

\* Also the rows that a request is about to write over what others stored.
EarnedInv ==
    /\ \A x \in Completed \ Quizzes : MayComplete(x, rows[x])
    /\ \A r \in Requests :
          LET x == pmem[r].call.resource
          IN  ppc[r] = "put" /\ x \notin Quizzes /\ pmem[r].row.status = "completed" =>
                  MayComplete(x, pmem[r].row)

\* Every step keeps it.
LEMMA EarnedNext == TypeInv /\ EarnedInv /\ [Next]_pvars => EarnedInv'
<1> SUFFICES ASSUME TypeInv, EarnedInv, [Next]_pvars PROVE EarnedInv'
  OBVIOUS
<1>t. OnQuizzes /\ rows \in [Resources -> Row]
  BY DEF TypeInv, ProgressTypeOK
<1>k. ASSUME NEW r \in Requests, Mine(r), UNCHANGED rows, ppc'[r] # "put"
      PROVE  EarnedInv'
  BY <1>k DEF EarnedInv, Completed, Mine
<1>o. ASSUME NEW r \in Requests, Leaves(r) PROVE ppc'[r] # "put" /\ Mine(r)
  BY <1>o, LeavesTypes
<1>1. ASSUME NEW r \in Requests, FindRow(r) PROVE EarnedInv'
  <2>1. CASE Leaves(r)
    BY <1>1, <2>1, <1>o, <1>k, FindRowEffect DEF tables
  <2>2. CASE ~Leaves(r)
    <3> DEFINE x == pmem[r].call.resource
    <3>1. /\ Mine(r) /\ UNCHANGED rows /\ pmem'[r].call = pmem[r].call
          /\ Found(r, pmem'[r].row) /\ x \in Resources
      BY <1>1, <2>2, FindRowEffect, MemoryFields DEF Leaves, tables, TypeInv, ProgressTypeOK
    <3>2. ASSUME x \notin Quizzes, pmem'[r].row.status = "completed"
          PROVE  MayComplete(x, pmem'[r].row)
      <4>1. pmem[r].call.op # "submit"
        BY <1>t, <3>2 DEF OnQuizzes
      <4>2. pmem'[r].row = rows[x] \/ MayComplete(x, pmem'[r].row)
        BY <3>1, <3>2, <4>1 DEF Found
      <4>3. QED
        BY <3>1, <3>2, <4>2 DEF EarnedInv, Completed
    <3>3. QED
      BY <3>1, <3>2 DEF EarnedInv, Completed, Mine, MayComplete
  <2>3. QED
    BY <2>1, <2>2
<1>2. ASSUME NEW r \in Requests, PutRow(r) PROVE EarnedInv'
  <2>1. /\ Mine(r) /\ ppc'[r] # "put" /\ ppc[r] = "put"
        /\ rows' = [rows EXCEPT ![pmem[r].call.resource] = pmem[r].row]
    BY <1>2, <1>o, PutRowEffect DEF Leaves
  <2>2. \A x \in Completed' \ Quizzes : MayComplete(x, rows'[x])
    BY <2>1, <1>t DEF EarnedInv, Completed
  <2>3. QED
    BY <2>1, <2>2 DEF EarnedInv, Mine
<1>3. ASSUME NEW r \in Requests,
             \/ Begins(r) \/ EventStep(r) \/ ReadStep(r) \/ PutCourse(r)
             \/ BadgeStep(r) \/ Abort(r)
      PROVE  Mine(r) /\ UNCHANGED rows /\ ppc'[r] # "put"
  <2>1. CASE Begins(r)
    BY <2>1, BeginsCall DEF tables
  <2>2. CASE EventStep(r)
    BY <2>2, <1>o, EventStepEffect DEF AtEvents, Leaves
  <2>3. CASE ReadStep(r)
    BY <2>3, ReadStepEffect DEF tables
  <2>4. CASE PutCourse(r)
    BY <2>4, <1>o, PutCourseEffect DEF Leaves
  <2>5. CASE BadgeStep(r)
    BY <2>5, <1>o, BadgeStepEffect DEF Leaves
  <2>6. CASE Abort(r)
    BY <2>6, <1>o DEF Leaves, Abort, tables
  <2>7. QED
    BY <1>3, <2>1, <2>2, <2>3, <2>4, <2>5, <2>6
<1>4. CASE Outside
  BY <1>4, OutsideEffect DEF EarnedInv, Completed
<1>5. CASE UNCHANGED pvars
  BY <1>5 DEF pvars, tables, EarnedInv, Completed
<1>6. QED
  BY <1>1, <1>2, <1>3, <1>4, <1>5, <1>k, NextCases

\* Whatever rows are written back over each other, nothing is completed without
\* the time and the position that completion asks for.
THEOREM CompletionsAreEarned == Spec => []CompletedIsEarned
<1>1. Init => EarnedInv
  <2>1. Init => Completed = {} /\ \A r \in Requests : ppc[r] # "put"
    BY DEF Init, Completed, NoRow
  <2>2. QED
    BY <2>1 DEF EarnedInv
<1>2. EarnedInv => CompletedIsEarned
  BY DEF EarnedInv, CompletedIsEarned
<1>3. QED
  BY <1>1, <1>2, EarnedNext, TypeInvCorrect, PTL DEF Spec

-----------------------------------------------------------------------------
(* What is counted once *)

OnceInv == Len(badges) <= 1 /\ \A e \in QuizEvents : events[e] <= 1

\* Every step keeps it.
LEMMA OnceNext == TypeInv /\ OnceInv /\ [Next]_pvars => OnceInv'
<1> SUFFICES ASSUME TypeInv, OnceInv, [Next]_pvars PROVE OnceInv'
  OBVIOUS
<1>1. CASE UNCHANGED <<badges, events>>
  BY <1>1 DEF OnceInv
<1>2. ASSUME NEW r \in Requests, EventStep(r) PROVE OnceInv'
  <2>1. UNCHANGED badges /\ \A e \in QuizEvents : events'[e] = events[e] \/ events'[e] = 1
    BY <1>2, EventStepEffect
  <2>2. \A e \in QuizEvents : events'[e] <= 1
    BY <2>1 DEF OnceInv
  <2>3. QED
    BY <2>1, <2>2 DEF OnceInv
<1>3. ASSUME NEW r \in Requests, BadgeStep(r) PROVE OnceInv'
  <2>1. CASE badges' = badges
    BY <1>3, <2>1, BadgeStepEffect DEF OnceInv
  <2>2. CASE badges = <<>> /\ badges' = Append(badges, [revoked |-> FALSE])
    <3>1. Len(badges') = 1
      BY <2>2
    <3>2. QED
      BY <1>3, <3>1, BadgeStepEffect DEF OnceInv
  <2>3. QED
    BY <1>3, <2>1, <2>2, BadgeStepEffect
<1>4. CASE Outside
  BY <1>4, OutsideEffect DEF OnceInv
<1>5. ASSUME NEW r \in Requests,
             \/ Begins(r) \/ FindRow(r) \/ PutRow(r) \/ ReadStep(r) \/ PutCourse(r)
             \/ Abort(r)
      PROVE  UNCHANGED <<badges, events>>
  BY <1>5, BeginsCall, FindRowEffect, PutRowEffect, ReadStepEffect, PutCourseEffect
     DEF Abort, tables
<1>6. QED
  BY <1>1, <1>2, <1>3, <1>4, <1>5, NextCases DEF pvars, tables

\* However many requests look for a badge or an event and find none, one is
\* recorded.
THEOREM OneRecord == Spec => []RecordedOnce
<1>1. Init => OnceInv
  BY DEF Init, OnceInv
<1>2. OnceInv => RecordedOnce
  BY DEF OnceInv, RecordedOnce
<1>3. QED
  BY <1>1, <1>2, OnceNext, TypeInvCorrect, PTL DEF Spec

-----------------------------------------------------------------------------
(* What a badge stands for *)

\* A version of the course that the student went through.
EarnedVersion(v) ==
    /\ Versions[v] # {} /\ Versions[v] \subseteq once
    /\ Versions[v] \cap Quizzes \subseteq Passed

Earned == \E v \in 1..version : EarnedVersion(v)

\* What a recalculation has gathered was so at some time, and what is approved,
\* in the row or in memory, is earned.
GatheredShape(r) ==
    /\ ppc[r] \in {"completed", "passed", "course"} =>
          \E v \in 1..version : pmem[r].required = Versions[v]
    /\ ppc[r] \in {"passed", "course"} => pmem[r].completed \subseteq once
    /\ ppc[r] = "course" => pmem[r].passed \subseteq Passed
    /\ ppc[r] = "putCourse" /\ pmem[r].course.status = "approved" => Earned
    /\ ppc[r] \in {"approved", "issued", "template", "issue"} => Earned

BadgeInv ==
    /\ Completed \subseteq once
    /\ course.status = "approved" => Earned
    /\ badges # <<>> => Earned
    /\ \A r \in Requests : GatheredShape(r)

\* What was earned stays earned: history grows, events stay and versions follow
\* one another.
LEMMA Grows ==
    ASSUME TypeInv, BadgeInv, [Next]_pvars
    PROVE  /\ once \subseteq once' /\ Passed \subseteq Passed'
           /\ version \in Nat /\ version' \in Nat /\ version <= version'
           /\ Completed' \subseteq once'
<1>t. version \in Nat /\ events \in [QuizEvents -> Nat] /\ rows \in [Resources -> Row]
  BY Assumed DEF TypeInv, ProgressTypeOK
<1>1. ASSUME NEW r \in Requests, EventStep(r)
      PROVE  /\ Passed \subseteq Passed' /\ UNCHANGED <<once, version, rows>>
  <2>1. /\ \A e \in QuizEvents : events'[e] = events[e] \/ events'[e] = 1
        /\ UNCHANGED <<once, version, rows>>
    BY <1>1, EventStepEffect
  <2>2. \A q \in Quizzes : <<q, "passed">> \in QuizEvents
    BY DEF QuizEvents
  <2>3. QED
    BY <1>t, <2>1, <2>2 DEF Passed
<1>2. ASSUME NEW r \in Requests, PutRow(r)
      PROVE  /\ once \subseteq once' /\ Completed' \subseteq once'
             /\ UNCHANGED <<events, version>>
  BY <1>2, <1>t, PutRowEffect DEF BadgeInv, Completed
<1>3. ASSUME NEW r \in Requests,
             \/ Begins(r) \/ FindRow(r) \/ ReadStep(r) \/ PutCourse(r)
             \/ BadgeStep(r) \/ Abort(r)
      PROVE  UNCHANGED <<once, events, version, rows>>
  BY <1>3, BeginsCall, FindRowEffect, ReadStepEffect, PutCourseEffect, BadgeStepEffect
     DEF Abort, tables
<1>4. CASE Outside
  BY <1>4, <1>t, Assumed, OutsideEffect DEF Passed, BadgeInv, Completed
<1>5. CASE UNCHANGED pvars
  BY <1>5, <1>t DEF pvars, tables, Passed, BadgeInv, Completed
<1>6. QED
  BY <1>t, <1>1, <1>2, <1>3, <1>4, <1>5, NextCases DEF Passed, BadgeInv, Completed

\* So is what each request holds.
LEMMA EarnedStays ==
    ASSUME TypeInv, BadgeInv, [Next]_pvars
    PROVE  /\ Earned => Earned'
           /\ \A r \in Requests :
                 ppc'[r] = ppc[r] /\ pmem'[r] = pmem[r] => GatheredShape(r)'
<1>1. /\ once \subseteq once' /\ Passed \subseteq Passed'
      /\ \A v \in 1..version : v \in 1..version'
  BY Grows
<1>2. Earned => Earned'
  BY <1>1 DEF Earned, EarnedVersion
<1>3. ASSUME NEW r \in Requests, ppc'[r] = ppc[r], pmem'[r] = pmem[r]
      PROVE  GatheredShape(r)'
  BY <1>1, <1>2, <1>3 DEF GatheredShape, BadgeInv
<1>4. QED
  BY <1>2, <1>3

\* The recalculation approves what the student went through.
LEMMA ApprovedIsEarned ==
    ASSUME TypeInv, BadgeInv, NEW r \in Requests, ppc[r] = "course",
           Recalculated(course, pmem[r].required, pmem[r].completed,
                        pmem[r].passed).status = "approved"
    PROVE  Earned
<1>1. CASE course.status = "approved"
  BY <1>1 DEF BadgeInv
<1>2. CASE course.status # "approved"
  <2>1. PICK v \in 1..version : pmem[r].required = Versions[v]
    BY DEF BadgeInv, GatheredShape
  <2>2. /\ pmem[r].required # {} /\ pmem[r].required \subseteq pmem[r].completed
        /\ pmem[r].required \cap Quizzes \subseteq pmem[r].passed
    BY <1>2 DEF Recalculated
  <2>3. pmem[r].completed \subseteq once /\ pmem[r].passed \subseteq Passed
    BY DEF BadgeInv, GatheredShape
  <2>4. QED
    BY <2>1, <2>2, <2>3 DEF Earned, EarnedVersion
<1>3. QED
  BY <1>1, <1>2

\* Every step keeps it.
LEMMA BadgeNext == TypeInv /\ BadgeInv /\ [Next]_pvars => BadgeInv'
<1> SUFFICES ASSUME TypeInv, BadgeInv, [Next]_pvars PROVE BadgeInv'
  OBVIOUS
<1>g. /\ Completed' \subseteq once'
      /\ Earned => Earned'
      /\ \A r \in Requests : ppc'[r] = ppc[r] /\ pmem'[r] = pmem[r] => GatheredShape(r)'
  BY Grows, EarnedStays
<1>k. ASSUME NEW r \in Requests, Mine(r), GatheredShape(r)',
             course'.status = "approved" => Earned', badges' # <<>> => Earned'
      PROVE  BadgeInv'
  BY <1>k, <1>g DEF BadgeInv, Mine
<1>u. /\ UNCHANGED course => (course'.status = "approved" => Earned')
      /\ UNCHANGED badges => (badges' # <<>> => Earned')
  BY <1>g DEF BadgeInv
<1>o. ASSUME NEW r \in Requests, ppc'[r] \in AtEvents \cup {"idle", "find", "put", "tree"}
      PROVE  GatheredShape(r)'
  BY <1>o DEF GatheredShape, AtEvents
<1>l. ASSUME NEW r \in Requests, Leaves(r) PROVE Mine(r) /\ GatheredShape(r)'
  BY <1>l, <1>o, LeavesTypes
<1>1. ASSUME NEW r \in Requests,
             Begins(r) \/ FindRow(r) \/ PutRow(r) \/ EventStep(r) \/ Abort(r)
      PROVE  Mine(r) /\ GatheredShape(r)' /\ UNCHANGED <<course, badges>>
  <2>1. CASE Begins(r)
    BY <2>1, <1>o, BeginsCall DEF tables
  <2>2. CASE FindRow(r)
    BY <2>2, <1>o, <1>l, FindRowEffect DEF Leaves, tables
  <2>3. CASE PutRow(r)
    BY <2>3, <1>o, <1>l, PutRowEffect DEF Leaves, AtEvents
  <2>4. CASE EventStep(r)
    BY <2>4, <1>o, <1>l, EventStepEffect DEF Leaves
  <2>5. CASE Abort(r)
    BY <2>5, <1>l DEF Leaves, Abort, tables
  <2>6. QED
    BY <1>1, <2>1, <2>2, <2>3, <2>4, <2>5
<1>2. ASSUME NEW r \in Requests, ReadStep(r)
      PROVE  Mine(r) /\ GatheredShape(r)' /\ UNCHANGED <<course, badges>>
  <2>1. /\ Mine(r) /\ UNCHANGED <<tables, once>> /\ (Earned => Earned') /\ Passed' = Passed
        /\ version \in 1..version
    <3>1. Mine(r) /\ UNCHANGED <<tables, once>>
      BY <1>2, ReadStepEffect
    <3>2. version \in 1..version
      BY Assumed DEF TypeInv, ProgressTypeOK
    <3>3. QED
      BY <3>1, <3>2, <1>g DEF tables, Passed
  <2>2. CASE ppc[r] = "tree"
    BY <1>2, <2>1, <2>2, ReadStepEffect DEF GatheredShape, Required, tables
  <2>3. CASE ppc[r] = "completed"
    BY <1>2, <2>1, <2>3, ReadStepEffect DEF GatheredShape, BadgeInv, tables
  <2>4. CASE ppc[r] = "passed"
    BY <1>2, <2>1, <2>4, ReadStepEffect DEF GatheredShape, BadgeInv, tables
  <2>5. CASE ppc[r] = "course"
    <3>1. /\ ppc'[r] = "putCourse"
          /\ pmem'[r].course = Recalculated(course, pmem[r].required,
                                            pmem[r].completed, pmem[r].passed)
      BY <1>2, <2>5, ReadStepEffect
    <3>2. pmem'[r].course.status = "approved" => Earned'
      BY <2>1, <2>5, <3>1, ApprovedIsEarned
    <3>3. QED
      BY <2>1, <3>1, <3>2 DEF GatheredShape, tables
  <2>6. QED
    BY <1>2, <2>1, <2>2, <2>3, <2>4, <2>5, ReadStepEffect DEF tables
<1>3. ASSUME NEW r \in Requests, PutCourse(r) PROVE BadgeInv'
  <2>1. course'.status = "approved" => Earned'
    BY <1>3, <1>g, PutCourseEffect DEF BadgeInv, GatheredShape
  <2>2. Mine(r) /\ GatheredShape(r)' /\ UNCHANGED badges
    BY <1>3, <2>1, <1>l, PutCourseEffect DEF Leaves, GatheredShape
  <2>3. QED
    BY <2>1, <2>2, <1>k, <1>u
<1>4. ASSUME NEW r \in Requests, BadgeStep(r) PROVE BadgeInv'
  <2>1. Mine(r) /\ UNCHANGED course /\ Earned'
    BY <1>4, <1>g, BadgeStepEffect DEF BadgeInv, GatheredShape
  <2>2. GatheredShape(r)'
    BY <1>4, <2>1, <1>l, BadgeStepEffect DEF Leaves, GatheredShape
  <2>3. QED
    BY <2>1, <2>2, <1>k
<1>5. CASE Outside
  BY <1>5, <1>g, OutsideEffect DEF BadgeInv
<1>6. CASE UNCHANGED pvars
  BY <1>6, <1>g DEF pvars, tables, BadgeInv
<1>7. QED
  BY <1>1, <1>2, <1>3, <1>4, <1>5, <1>6, <1>k, <1>u, NextCases

\* A badge stands for a version of the course whose resources were all completed
\* and whose quizzes were passed, although they are read at different times.
THEOREM BadgesAreEarned == Spec => []BadgeIsEarned
<1>1. Init => BadgeInv
  BY DEF Init, BadgeInv, GatheredShape, Completed, NoRow, NoCourse
<1>2. BadgeInv => BadgeIsEarned
  BY DEF BadgeInv, BadgeIsEarned, Earned, EarnedVersion
<1>3. QED
  BY <1>1, <1>2, BadgeNext, TypeInvCorrect, PTL DEF Spec

-----------------------------------------------------------------------------
(* What a call settles that runs alone *)

\* The resource of the call is completed and its events are recorded.
Recorded(call) ==
    /\ call.resource \in Completed
    /\ call.op = "submit" => events[<<call.resource, "submitted">>] > 0
    /\ call.op = "submit" /\ call.pass => call.resource \in Passed

\* A row of the course that is up to date.
UpToDate(row) ==
    /\ row.of = Cardinality(Required)
    /\ row.done = Cardinality(Required \cap Completed)
    /\ Required # {} /\ Required \subseteq Completed =>
          row.status = IF Required \cap Quizzes \subseteq Passed
                       THEN "approved" ELSE "completed"

Issuing == {"approved", "issued", "template", "issue"}

Recalculating == {"tree", "completed", "passed", "course", "putCourse"} \cup Issuing

\* What the only request holds is what the tables hold.
AloneShape(r) ==
    /\ ppc[r] \in {"find", "put"} \cup AtEvents => pmem[r].call = alone.call
    /\ ppc[r] = "put" => Found(r, pmem[r].row)
    /\ ppc[r] \in AtEvents => alone.call.op = "submit" /\ alone.call.resource \in Completed
    /\ ppc[r] \in {"hasPassed", "addPassed"} =>
          alone.call.pass /\ events[<<alone.call.resource, "submitted">>] > 0
    /\ ppc[r] \in Recalculating => Recorded(alone.call)
    /\ ppc[r] \in {"completed", "passed", "course"} => pmem[r].required = Required
    /\ ppc[r] \in {"passed", "course"} => pmem[r].completed = Completed
    /\ ppc[r] = "course" => pmem[r].passed = Passed
    /\ ppc[r] = "putCourse" => UpToDate(pmem[r].course)
    /\ ppc[r] \in Issuing => UpToDate(course)

AloneInv ==
    alone # Null =>
        /\ \A r \in Requests : ppc[r] # "idle" =>
              ~alone.done /\ \A s \in Requests \ {r} : ppc[s] = "idle"
        /\ alone.done => Settled(alone.call)
        /\ \A r \in Requests : AloneShape(r)

\* A step of the only request, and where it leaves the call.
AloneStep(r) ==
    alone' # Null =>
        /\ alone'.call = alone.call
        /\ alone'.done => ppc'[r] = "idle" /\ Settled(alone.call)'
        /\ ~alone'.done => AloneShape(r)'

\* What is said of the only request is all there is to say.
LEMMA AloneKept ==
    ASSUME TypeInv, AloneInv, NEW r \in Requests, Mine(r), ppc[r] # "idle",
           alone = Null => alone' = Null,
           alone # Null => AloneStep(r)
    PROVE  AloneInv'
<1> SUFFICES ASSUME alone' # Null PROVE AloneInv'
  BY DEF AloneInv
<1>1. /\ alone # Null /\ alone'.call = alone.call
      /\ alone'.done => ppc'[r] = "idle" /\ Settled(alone.call)'
      /\ ~alone'.done => AloneShape(r)'
      /\ \A s \in Requests \ {r} : ppc'[s] = "idle"
  BY DEF AloneInv, AloneStep, Mine
<1>2. ASSUME NEW s \in Requests, ppc'[s] = "idle" PROVE AloneShape(s)'
  BY <1>2 DEF AloneShape, AtEvents, Recalculating, Issuing
<1>3. \A s \in Requests : AloneShape(s)'
  BY <1>1, <1>2
<1>4. QED
  BY <1>1, <1>3 DEF AloneInv

\* What the end of a request makes of the history.
LEMMA Ending ==
    ASSUME TypeInv, NEW r \in Requests, alone # Null, ~alone.done
    PROVE  /\ Fail(r) => alone' = Null
           /\ Succeed(r) => /\ ppc'[r] = "idle"
                            /\ alone'.call = alone.call /\ alone'.done
           /\ Recalculate(r) => ppc'[r] = "tree" /\ alone' = alone
<1>1. alone \in Lone /\ ppc \in [Requests -> PPC]
  BY DEF TypeInv, ProgressTypeOK
<1>2. ASSUME Succeed(r)
      PROVE  ppc'[r] = "idle" /\ alone'.call = alone.call /\ alone'.done
  <2>1. alone' = [alone EXCEPT !.done = TRUE] /\ ppc'[r] = "idle"
    BY <1>1, <1>2 DEF Succeed, Step
  <2>2. alone'.call = alone.call
    BY <1>1, <2>1 DEF Lone
  <2>3. alone'.done = TRUE
    BY <1>1, <2>1 DEF Lone
  <2>4. QED
    BY <2>1, <2>2, <2>3
<1>3. Fail(r) => alone' = Null
  BY DEF Fail
<1>4. Recalculate(r) => ppc'[r] = "tree" /\ alone' = alone
  BY <1>1 DEF Recalculate, Go, Step
<1>5. QED
  BY <1>2, <1>3, <1>4

\* The statements of the operation itself.
LEMMA AloneOperation ==
    ASSUME TypeInv, NEW r \in Requests, alone # Null, ~alone.done, AloneShape(r),
           FindRow(r) \/ PutRow(r)
    PROVE  AloneStep(r)
<1> DEFINE c == alone.call
<1>1. CASE FindRow(r)
  <2>1. pmem[r].call = c /\ ppc[r] = "find" /\ UNCHANGED tables
    BY <1>1, FindRowEffect DEF AloneShape
  <2>2. CASE Leaves(r)
    <3>1. CASE Recalculate(r) /\ c.op = "complete" /\ rows[c.resource].status = "completed"
      <4>1. ppc'[r] = "tree" /\ alone' = alone
        BY <3>1, Ending
      <4>2. c.resource \in Resources
        BY <2>1, MemoryFields DEF TypeInv, ProgressTypeOK
      <4>3. Recorded(alone.call)'
        BY <2>1, <3>1, <4>1, <4>2 DEF Recorded, Completed, tables
      <4>4. QED
        BY <4>1, <4>3 DEF AloneStep, AloneShape, AtEvents, Recalculating, Issuing
    <3>2. CASE Fail(r)
      BY <3>2 DEF AloneStep, Fail
    <3>3. ppc'[r] # "put"
      BY <2>2, LeavesTypes
    <3>4. QED
      BY <1>1, <2>1, <3>1, <3>2, <3>3, FindRowEffect
  <2>3. CASE ~Leaves(r)
    <3>1. /\ ppc'[r] = "put" /\ alone' = alone /\ pmem'[r].call = c
          /\ Found(r, pmem'[r].row)
      BY <1>1, <2>1, <2>3, FindRowEffect DEF Leaves
    <3>2. Found(r, pmem[r].row)'
      BY <2>1, <3>1 DEF Found, tables
    <3>3. QED
      BY <3>1, <3>2 DEF AloneStep, AloneShape, AtEvents, Recalculating, Issuing
  <2>4. QED
    BY <2>2, <2>3
<1>2. CASE PutRow(r)
  <2>1. /\ pmem[r].call = c /\ ppc[r] = "put" /\ Found(r, pmem[r].row) /\ UNCHANGED events
        /\ c.resource \in Resources
        /\ rows' = [rows EXCEPT ![c.resource] = pmem[r].row]
    BY <1>2, PutRowEffect DEF AloneShape
  <2>2. c.op \in {"complete", "submit"} => c.resource \in Completed'
    BY <2>1 DEF Found, Completed, TypeInv, ProgressTypeOK
  <2>3. CASE c.op = "complete" /\ Recalculate(r)
    <3>1. ppc'[r] = "tree" /\ alone' = alone
      BY <2>3, Ending
    <3>2. Recorded(alone.call)'
      BY <2>2, <2>3, <3>1 DEF Recorded
    <3>3. QED
      BY <3>1, <3>2 DEF AloneStep, AloneShape, AtEvents, Recalculating, Issuing
  <2>4. CASE /\ c.op = "submit" /\ alone' = alone
             /\ ppc'[r] = "hasSubmitted" /\ pmem'[r].call = pmem[r].call
    BY <2>1, <2>2, <2>4 DEF AloneStep, AloneShape, AtEvents, Recalculating, Issuing
  <2>5. CASE Fail(r)
    BY <2>5 DEF AloneStep, Fail
  <2>6. QED
    BY <1>2, <2>1, <2>3, <2>4, <2>5, PutRowEffect
<1>3. QED
  BY <1>1, <1>2

\* The events of a submission.
LEMMA AloneEvents ==
    ASSUME TypeInv, NEW r \in Requests, alone # Null, ~alone.done, AloneShape(r),
           EventStep(r)
    PROVE  AloneStep(r)
<1> DEFINE c == alone.call
           submitted == <<c.resource, "submitted">>
           passed == <<c.resource, "passed">>
<1>1. /\ pmem[r].call = c /\ ppc[r] \in AtEvents /\ UNCHANGED rows
      /\ c.op = "submit" /\ c.resource \in Completed /\ c.resource \in Quizzes
      /\ ppc[r] \in {"hasPassed", "addPassed"} => c.pass /\ events[submitted] > 0
  BY EventStepEffect DEF AloneShape, TypeInv, OnQuizzes
<1>2. /\ submitted \in QuizEvents /\ passed \in QuizEvents /\ submitted # passed
      /\ events \in [QuizEvents -> Nat] /\ ppc \in [Requests -> PPC]
  BY <1>1 DEF QuizEvents, TypeInv, ProgressTypeOK
<1>3. c.resource \in Completed'
  BY <1>1 DEF Completed
<1>r. ASSUME Recalculate(r), events'[submitted] > 0, c.pass => events'[passed] > 0
      PROVE  AloneStep(r)
  <2>1. ppc'[r] = "tree" /\ alone' = alone
    BY <1>r, Ending
  <2>2. Recorded(alone.call)'
    BY <1>1, <1>3, <1>r, <2>1 DEF Recorded, Passed
  <2>3. QED
    BY <2>1, <2>2 DEF AloneStep, AloneShape, AtEvents, Recalculating, Issuing
<1>g. ASSUME NEW step \in AtEvents, Go(r, step), UNCHANGED pmem,
             step \in {"hasPassed", "addPassed"} => c.pass /\ events'[submitted] > 0
      PROVE  AloneStep(r)
  <2>1. ppc'[r] = step /\ alone' = alone /\ pmem'[r].call = c
    BY <1>1, <1>2, <1>g DEF Go, Step
  <2>2. QED
    BY <1>1, <1>3, <1>g, <2>1 DEF AloneStep, AloneShape, AtEvents, Recalculating, Issuing
<1>a. ASSUME AfterSubmitted(r), events'[submitted] > 0 PROVE AloneStep(r)
  BY <1>1, <1>a, <1>r, <1>g DEF AfterSubmitted, AtEvents
<1>4. CASE HasSubmitted(r)
  <2>1. UNCHANGED events
    BY <1>4 DEF HasSubmitted, tables
  <2>2. CASE events[submitted] > 0 /\ AfterSubmitted(r)
    BY <2>1, <2>2, <1>a
  <2>3. CASE Go(r, "addSubmitted") /\ UNCHANGED pmem
    BY <2>3, <1>g DEF AtEvents
  <2>4. QED
    BY <1>1, <1>4, <2>2, <2>3 DEF HasSubmitted, Event
<1>5. CASE AddSubmitted(r)
  <2>1. AfterSubmitted(r) /\ events' = [events EXCEPT ![submitted] = 1]
    BY <1>1, <1>5 DEF AddSubmitted, Event, Inserted
  <2>2. events'[submitted] > 0
    BY <1>2, <2>1
  <2>3. QED
    BY <2>1, <2>2, <1>a
<1>6. CASE HasPassed(r)
  <2>1. UNCHANGED events /\ c.pass /\ events[submitted] > 0
    BY <1>1, <1>6 DEF HasPassed, tables
  <2>2. CASE events[passed] > 0 /\ Recalculate(r)
    BY <2>1, <2>2, <1>r
  <2>3. CASE Go(r, "addPassed") /\ UNCHANGED pmem
    BY <2>1, <2>3, <1>g DEF AtEvents
  <2>4. QED
    BY <1>1, <1>6, <2>2, <2>3 DEF HasPassed, Event
<1>7. CASE AddPassed(r)
  <2>1. /\ Recalculate(r) /\ events' = [events EXCEPT ![passed] = 1]
        /\ events[submitted] > 0
    BY <1>1, <1>7 DEF AddPassed, Event, Inserted
  <2>2. events'[submitted] > 0 /\ events'[passed] > 0
    BY <1>2, <2>1
  <2>3. QED
    BY <2>1, <2>2, <1>r
<1>8. QED
  BY <1>4, <1>5, <1>6, <1>7 DEF EventStep

\* The recalculation and the badge.
LEMMA AloneRecalculation ==
    ASSUME TypeInv, NEW r \in Requests, alone # Null, ~alone.done, AloneShape(r),
           ReadStep(r) \/ PutCourse(r) \/ BadgeStep(r)
    PROVE  AloneStep(r)
<1> DEFINE c == alone.call
<1>1. CASE ReadStep(r)
  <2>1. /\ UNCHANGED <<tables, once, alone>>
        /\ Required' = Required /\ Completed' = Completed /\ Passed' = Passed
        /\ Recorded(c) => Recorded(alone.call)'
    <3>1. UNCHANGED <<tables, once, alone>>
      BY <1>1, ReadStepEffect
    <3>2. QED
      BY <3>1 DEF tables, Required, Completed, Passed, Recorded
  <2>2. ppc[r] \in Recalculating
    BY <1>1, ReadStepEffect DEF Recalculating
  <2>3. Recorded(alone.call)'
    BY <2>1, <2>2 DEF AloneShape
  <2>4. CASE ppc[r] = "tree"
    BY <1>1, <2>1, <2>3, <2>4, ReadStepEffect
       DEF AloneStep, AloneShape, AtEvents, Recalculating, Issuing
  <2>5. CASE ppc[r] = "completed"
    BY <1>1, <2>1, <2>3, <2>5, ReadStepEffect
       DEF AloneStep, AloneShape, AtEvents, Recalculating, Issuing
  <2>6. CASE ppc[r] = "passed"
    BY <1>1, <2>1, <2>3, <2>6, ReadStepEffect
       DEF AloneStep, AloneShape, AtEvents, Recalculating, Issuing
  <2>7. CASE ppc[r] = "course"
    <3>1. /\ ppc'[r] = "putCourse"
          /\ pmem'[r].course = Recalculated(course, Required, Completed, Passed)
      BY <1>1, <2>7, ReadStepEffect DEF AloneShape
    <3>2. UpToDate(pmem[r].course)'
      BY <2>1, <3>1 DEF UpToDate, Recalculated
    <3>3. QED
      BY <2>1, <2>3, <3>1, <3>2 DEF AloneStep, AloneShape, AtEvents, Recalculating, Issuing
  <2>8. QED
    BY <1>1, <2>4, <2>5, <2>6, <2>7, ReadStepEffect
<1>2. CASE PutCourse(r)
  <2>1. /\ ppc[r] = "putCourse" /\ UNCHANGED <<version, rows, events, template, badges>>
        /\ course' = pmem[r].course /\ Recorded(c) /\ UpToDate(pmem[r].course)
    BY <1>2, PutCourseEffect DEF AloneShape, Recalculating
  <2>2. UpToDate(course)'
    BY <2>1 DEF UpToDate, Required, Completed, Passed
  <2>3. alone'.call = c => Recorded(alone.call)'
    BY <2>1 DEF Recorded, Completed, Passed
  <2>4. CASE ppc'[r] = "approved" /\ alone' = alone
    BY <2>2, <2>3, <2>4 DEF AloneStep, AloneShape, AtEvents, Recalculating, Issuing
  <2>5. CASE Succeed(r) /\ course'.status # "approved"
    <3>1. ppc'[r] = "idle" /\ alone'.call = c /\ alone'.done
      BY <2>5, Ending
    <3>2. Settled(alone.call)'
      BY <2>2, <2>3, <2>5, <3>1 DEF Settled, Recorded, UpToDate
    <3>3. QED
      BY <3>1, <3>2 DEF AloneStep
  <2>6. QED
    BY <1>2, <2>4, <2>5, PutCourseEffect
<1>3. CASE BadgeStep(r)
  <2>1. /\ ppc[r] \in Issuing /\ UNCHANGED <<version, rows, events, course, template>>
        /\ Recorded(c) /\ UpToDate(course)
    BY <1>3, BadgeStepEffect DEF AloneShape, Recalculating, Issuing
  <2>2. UpToDate(course)'
    BY <2>1 DEF UpToDate, Required, Completed, Passed
  <2>3. alone'.call = c => Recorded(alone.call)'
    BY <2>1 DEF Recorded, Completed, Passed
  <2>4. CASE Fail(r)
    BY <2>4 DEF AloneStep, Fail
  <2>5. CASE Succeed(r) /\ (badges' # <<>> \/ ~template)
    <3>1. ppc'[r] = "idle" /\ alone'.call = c /\ alone'.done
      BY <2>5, Ending
    <3>2. Settled(alone.call)'
      BY <2>1, <2>2, <2>3, <2>5, <3>1 DEF Settled, Recorded, UpToDate
    <3>3. QED
      BY <3>1, <3>2 DEF AloneStep
  <2>6. CASE ppc'[r] \in {"issued", "template", "issue"} /\ alone' = alone
    BY <2>2, <2>3, <2>6 DEF AloneStep, AloneShape, AtEvents, Recalculating, Issuing
  <2>7. QED
    BY <1>3, <2>4, <2>5, <2>6, BadgeStepEffect
<1>4. QED
  BY <1>1, <1>2, <1>3

\* Every step keeps it.
LEMMA AloneNext == TypeInv /\ AloneInv /\ [Next]_pvars => AloneInv'
<1> SUFFICES ASSUME TypeInv, AloneInv, [Next]_pvars PROVE AloneInv'
  OBVIOUS
<1>h. ASSUME NEW r \in Requests, ppc[r] # "idle", alone # Null
      PROVE  ~alone.done /\ AloneShape(r)
  BY <1>h DEF AloneInv
<1>1. ASSUME NEW r \in Requests,
             \/ FindRow(r) \/ PutRow(r) \/ EventStep(r) \/ ReadStep(r)
             \/ PutCourse(r) \/ BadgeStep(r)
      PROVE  AloneInv'
  <2>1. Mine(r) /\ ppc[r] # "idle"
    <3>1. CASE FindRow(r) \/ PutRow(r)
      BY <3>1, FindRowEffect, PutRowEffect
    <3>2. CASE EventStep(r)
      BY <3>2, EventStepEffect DEF AtEvents
    <3>3. CASE ReadStep(r)
      BY <3>3, ReadStepEffect
    <3>4. CASE PutCourse(r) \/ BadgeStep(r)
      BY <3>4, PutCourseEffect, BadgeStepEffect
    <3>5. QED
      BY <1>1, <3>1, <3>2, <3>3, <3>4
  <2>2. alone # Null => AloneStep(r)
    BY <1>1, <2>1, <1>h, AloneOperation, AloneEvents, AloneRecalculation
  <2>3. alone = Null => alone' = Null
    <3>1. alone' = alone \/ Leaves(r)
      BY <1>1, FindRowEffect, PutRowEffect, EventStepEffect, ReadStepEffect,
         PutCourseEffect, BadgeStepEffect DEF Leaves
    <3>2. QED
      BY <3>1 DEF Leaves, Fail, Succeed, Recalculate, Go
  <2>4. QED
    BY <2>1, <2>2, <2>3, AloneKept
<1>2. ASSUME NEW r \in Requests, Abort(r) \/ Outside PROVE alone' = Null
  BY <1>2, OutsideEffect DEF Abort, Fail
<1>3. ASSUME NEW r \in Requests, Begins(r) PROVE AloneInv'
  <2> SUFFICES ASSUME alone' # Null PROVE AloneInv'
    BY DEF AloneInv
  <2>1. /\ alone' = [call |-> pmem'[r].call, done |-> FALSE]
        /\ ppc'[r] = "find" /\ \A s \in Requests \ {r} : ppc'[s] = "idle"
    BY <1>3, BeginsCall DEF Mine
  <2>2. alone'.call = pmem'[r].call /\ ~alone'.done
    BY <2>1
  <2>3. \A s \in Requests : AloneShape(s)'
    BY <2>1, <2>2 DEF AloneShape, AtEvents, Recalculating, Issuing
  <2>4. QED
    BY <2>1, <2>2, <2>3 DEF AloneInv
<1>4. CASE Outside
  BY <1>4, OutsideEffect DEF AloneInv
<1>5. CASE UNCHANGED pvars
  <2>1. /\ UNCHANGED <<rows, events, course, template, badges, ppc, pmem, alone>>
        /\ Required' = Required /\ Completed' = Completed /\ Passed' = Passed
    BY <1>5 DEF pvars, tables, Required, Completed, Passed
  <2>2. Settled(alone.call)' = Settled(alone.call)
    BY <2>1 DEF Settled
  <2>3. ASSUME NEW r \in Requests, AloneShape(r) PROVE AloneShape(r)'
    BY <2>1, <2>3 DEF AloneShape, Found, Recorded, UpToDate
  <2>4. QED
    BY <2>1, <2>2, <2>3 DEF AloneInv
<1>6. ASSUME NEW r \in Requests, Abort(r) PROVE AloneInv'
  BY <1>6, <1>2 DEF AloneInv
<1>7. QED
  BY <1>1, <1>3, <1>4, <1>5, <1>6, NextCases

\* The history of the calls that run alone.
LEMMA AloneCorrect == Spec => []AloneInv
<1>1. Init => AloneInv
  BY DEF Init, AloneInv
<1>2. QED
  BY <1>1, AloneNext, TypeInvCorrect, PTL DEF Spec

\* A completion or a submission that runs alone leaves row, events, course and
\* badge in agreement, whatever earlier calls left undone.
THEOREM AloneCallSettles == Spec => []AloneSettles
<1>1. AloneInv => AloneSettles
  BY DEF AloneInv, AloneSettles
<1>2. QED
  BY <1>1, AloneCorrect, PTL

\* A call that runs alone takes no completed resource back.
THEOREM AloneCallKeeps == Spec => AloneKeepsCompleted
<1> DEFINE Keeps == alone # Null => \A x \in Completed : rows'[x].status = "completed"
<1>1. TypeInv /\ AloneInv /\ [Next]_pvars => [Keeps]_pvars
  <2> SUFFICES ASSUME TypeInv, AloneInv, [Next]_pvars, alone # Null,
                      NEW x \in Completed
               PROVE  rows'[x].status = "completed"
    OBVIOUS
  <2>1. rows \in [Resources -> Row] /\ x \in Resources /\ rows[x].status = "completed"
    BY DEF TypeInv, ProgressTypeOK, Completed
  <2>2. ASSUME NEW r \in Requests, PutRow(r) PROVE rows'[x].status = "completed"
    <3>1. /\ ppc[r] = "put" /\ pmem[r].call.resource \in Resources
          /\ rows' = [rows EXCEPT ![pmem[r].call.resource] = pmem[r].row]
      BY <2>2, PutRowEffect
    <3>2. Found(r, pmem[r].row)
      BY <3>1 DEF AloneInv, AloneShape
    <3>3. QED
      BY <2>1, <3>1, <3>2 DEF Found
  <2>3. ASSUME NEW r \in Requests,
               \/ Begins(r) \/ FindRow(r) \/ EventStep(r) \/ ReadStep(r) \/ PutCourse(r)
               \/ BadgeStep(r) \/ Abort(r)
        PROVE  UNCHANGED rows
    BY <2>3, BeginsCall, FindRowEffect, EventStepEffect, ReadStepEffect,
       PutCourseEffect, BadgeStepEffect DEF Abort, tables
  <2>4. CASE Outside \/ UNCHANGED pvars
    BY <2>1, <2>4, OutsideEffect DEF pvars, tables
  <2>5. QED
    BY <2>1, <2>2, <2>3, <2>4, NextCases
<1>2. QED
  BY <1>1, TypeInvCorrect, AloneCorrect, PTL DEF Spec, AloneKeepsCompleted
=============================================================================
