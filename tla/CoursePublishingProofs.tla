----------------------- MODULE CoursePublishingProofs -----------------------
(***************************************************************************)
(* What students are served and what drafts contain, for any tree of       *)
(* modules, units and resources, any number of versions and of requests    *)
(* that run at once.                                                       *)
(***************************************************************************)
EXTENDS CoursePublishing, FiniteSetTheorems, TLAPS

-----------------------------------------------------------------------------
(* Types *)

\* The types of the variables, without the shape of the trees.
Types ==
    /\ status \in [Versions -> Status]
    /\ meta \in [Versions -> BOOLEAN]
    /\ trees \in [Versions -> Tree]
    /\ course \in Pointers
    /\ cpc \in [Requests -> CPC]
    /\ cmem \in [Requests -> Memory]
    /\ overlapped \in BOOLEAN

\* What a request holds at a step: the version it works on, the version it is to
\* copy or to supersede, the node that it edits and the row of it that was read.
RequestShape(r) ==
    /\ cpc[r] \notin {"idle", "course", "source", "number"} => cmem[r].version \in Versions
    /\ cpc[r] \in {"source", "supersede"} => cmem[r].course.published \in Versions
    /\ cpc[r] \in {"row", "write"} \/ (cpc[r] = "status" /\ cmem[r].op # "meta") =>
           /\ cmem[r].op \in {"create", "update", "delete", "save", "clear", "release"}
           /\ cmem[r].node \in Nodes
    /\ cpc[r] \in {"status", "write"} /\ cmem[r].op \in {"update", "save", "clear", "release"} =>
           cmem[r].row \in Content

Shapes == \A r \in Requests : RequestShape(r)

\* A node is in a tree only with the node that contains it.
Closed(tree) == \A n \in In(tree) : Parent[n] \in In(tree) \cup {Null}

\* The fields of what a request holds.
LEMMA MemoryFields ==
    ASSUME NEW m \in Memory
    PROVE  /\ m.op \in Ops /\ m.version \in 0..MaxVersion + 1
           /\ m.node \in Nodes \cup {Null} /\ m.face \in {"hidden", "shown"}
           /\ m.full \in BOOLEAN /\ m.course \in Pointers /\ m.tree \in Tree
           /\ m.row \in Content \cup {Null} /\ m.seen \in Status
  BY DEF Memory

\* What an idle request holds.
LEMMA NothingType == Nothing \in Memory
<1>1. NoTree \in Tree
  BY DEF NoTree, Tree
<1>2. [published |-> 0, draft |-> 0] \in Pointers
  BY PublishingAssumption DEF Pointers
<1>3. QED
  BY <1>1, <1>2, PublishingAssumption DEF Nothing, Memory, Ops, Status

\* The types hold at the beginning, and the trees are empty.
LEMMA TypesInit == Init => Types /\ Shapes /\ \A v \in Versions : Closed(trees[v])
<1> SUFFICES ASSUME Init
             PROVE  Types /\ Shapes /\ \A v \in Versions : Closed(trees[v])
  OBVIOUS
<1>1. status \in [Versions -> Status] /\ cpc \in [Requests -> CPC]
  BY DEF Init, Status, CPC
<1>2. meta \in [Versions -> BOOLEAN]
  BY DEF Init
<1>3. trees \in [Versions -> Tree]
  BY DEF Init, NoTree, Tree
<1>4. course \in Pointers
  BY PublishingAssumption DEF Init, Pointers
<1>5. cmem \in [Requests -> Memory]
  BY NothingType DEF Init
<1>6. Shapes
  BY DEF Init, Shapes, RequestShape
<1>7. \A v \in Versions : Closed(trees[v])
  BY DEF Init, NoTree, Closed, In
<1>8. QED
  BY <1>1, <1>2, <1>3, <1>4, <1>5, <1>6, <1>7 DEF Init, Types

\* What an edit writes is the contents of a node.
LEMMA EditedType ==
    ASSUME NEW m \in Memory, m.op \in {"create", "update", "save", "clear", "release"},
           m.op \in {"update", "save", "clear", "release"} => m.row \in Content
    PROVE  Edited(m) \in Content
<1>1. NewNode \in Content
  BY DEF NewNode, Content, Text
<1>2. CASE m.op = "create"
  BY <1>1, <1>2, MemoryFields DEF Edited, Content
<1>3. CASE m.op = "update"
  BY <1>3, MemoryFields DEF Edited, Content
<1>4. CASE m.op \in {"save", "clear"}
  BY <1>4 DEF Edited, Saved, Cleared, Content, Text
<1>5. CASE m.op = "release"
  BY <1>5 DEF Edited, Released, Content
<1>6. QED
  BY <1>2, <1>3, <1>4, <1>5

\* A step that starts, moves or ends a request keeps the types.
LEMMA TypesBegin ==
    ASSUME Types, NEW r \in Requests, NEW step \in CPC, NEW call \in Memory,
           Begin(r, step, call)
    PROVE  Types'
  BY DEF Types, Begin, tables

\* What the end of a request keeps.
LEMMA TypesOver ==
    ASSUME Types, NEW r \in Requests, Over(r)
    PROVE  /\ cpc' \in [Requests -> CPC] /\ cmem' \in [Requests -> Memory]
           /\ overlapped' \in BOOLEAN
  BY NothingType DEF Types, Over, Step, CPC

\* What a step to another place keeps.
LEMMA TypesStep ==
    ASSUME Types, NEW r \in Requests, NEW step \in CPC, Step(r, step)
    PROVE  cpc' \in [Requests -> CPC] /\ overlapped' \in BOOLEAN
  BY DEF Types, Step

\* Every step keeps the types.
LEMMA TypesNext == Types /\ Shapes /\ [Next]_cvars => Types'
<1> SUFFICES ASSUME Types, Shapes, [Next]_cvars PROVE Types'
  OBVIOUS
<1>m. \A r \in Requests : cmem[r] \in Memory
  BY DEF Types
<1>v. \A v \in Visible : v \in 0..MaxVersion + 1
  BY PublishingAssumption DEF Visible, Types, Pointers
<1>1. ASSUME NEW r \in Requests, BeginPublish(r) \/ BeginBranch(r) PROVE Types'
  <2>1. /\ [Nothing EXCEPT !.op = "publish"] \in Memory
        /\ [Nothing EXCEPT !.op = "branch"] \in Memory
    BY NothingType DEF Memory, Ops
  <2>2. QED
    BY <1>1, <2>1, TypesBegin DEF BeginPublish, BeginBranch, CPC
<1>2. ASSUME NEW r \in Requests, NEW op \in Ops, NEW n \in Nodes,
             NEW face \in {"hidden", "shown"}, BeginEdit(r, op, n, face)
      PROVE  Types'
  <2>1. \A v \in Visible : [Nothing EXCEPT !.op = op, !.version = v, !.node = n,
                                           !.face = face] \in Memory
    BY <1>v, NothingType DEF Memory
  <2>2. QED
    BY <1>2, <2>1, TypesBegin DEF BeginEdit, CPC
<1>3. ASSUME NEW r \in Requests, BeginStructure(r) \/ BeginResource(r) \/ BeginContent(r)
      PROVE  Types'
  BY <1>3, <1>2, PublishingAssumption
     DEF BeginStructure, BeginResource, BeginContent, Ops
<1>4. ASSUME NEW r \in Requests, BeginUpdateVersion(r) PROVE Types'
  <2>1. \A v \in Visible, full \in BOOLEAN :
            [Nothing EXCEPT !.op = "meta", !.version = v, !.full = full] \in Memory
    BY <1>v, NothingType DEF Memory, Ops
  <2>2. QED
    BY <1>4, <2>1, TypesBegin DEF BeginUpdateVersion, CPC
<1>5. ASSUME NEW r \in Requests, Abort(r) PROVE Types'
  BY <1>5, TypesOver DEF Abort, tables, Types
<1>6. ASSUME NEW r \in Requests, RequestStep(r) PROVE Types'
  <2>1. CASE FindCourse(r)
    <3>1. \/ Over(r)
          \/ /\ Step(r, "tree") \/ Step(r, "source")
             /\ cmem' \in [Requests -> Memory]
      <4>1. course.draft \in 0..MaxVersion + 1
        BY PublishingAssumption DEF Types, Pointers
      <4>2. [cmem[r] EXCEPT !.course = course, !.version = course.draft] \in Memory
        BY <1>m, <4>1 DEF Types, Memory
      <4>3. [cmem[r] EXCEPT !.course = course] \in Memory
        BY <1>m DEF Types, Memory
      <4>4. QED
        BY <2>1, <4>2, <4>3 DEF FindCourse, Types
    <3>2. QED
      BY <2>1, <3>1, TypesOver, TypesStep DEF FindCourse, tables, Types, CPC
  <2>2. CASE LoadDraft(r)
    BY <2>2, TypesOver, TypesStep DEF LoadDraft, tables, Types, CPC
  <2>3. CASE MarkPublished(r)
    <3>1. status' \in [Versions -> Status]
      BY <2>3 DEF MarkPublished, Types, Status
    <3>2. QED
      BY <2>3, <3>1, TypesStep DEF MarkPublished, AfterMark, Types, CPC
  <2>4. CASE MarkSuperseded(r)
    <3>1. status' \in [Versions -> Status]
      BY <2>4 DEF MarkSuperseded, Types, Status
    <3>2. QED
      BY <2>4, <3>1, TypesStep DEF MarkSuperseded, Types, CPC
  <2>5. CASE PointPublished(r)
    <3>1. course' \in Pointers
      <4>1. cmem[r].version \in 0..MaxVersion
        BY <2>5, PublishingAssumption DEF PointPublished, Shapes, RequestShape, Versions
      <4>2. QED
        BY <2>5, <4>1, PublishingAssumption DEF PointPublished, Pointers
    <3>2. QED
      BY <2>5, <3>1, TypesOver DEF PointPublished, Types
  <2>6. CASE LoadPublished(r)
    <3>1. cmem[r].course.published \in Versions
      BY <2>6 DEF LoadPublished, Shapes, RequestShape
    <3>2. trees[cmem[r].course.published] \in Tree /\ meta[cmem[r].course.published] \in BOOLEAN
      BY <3>1 DEF Types
    <3>3. [cmem[r] EXCEPT !.tree = trees[cmem[r].course.published],
                          !.full = meta[cmem[r].course.published]] \in Memory
      BY <3>2, <1>m, MemoryFields DEF Memory
    <3>4. cmem' \in [Requests -> Memory]
      BY <2>6, <3>3 DEF LoadPublished, Types
    <3>5. QED
      BY <2>6, <3>4, TypesStep DEF LoadPublished, tables, Types, CPC
  <2>7. CASE NextVersionNumber(r)
    <3>1. NextNumber(r) \in 0..MaxVersion + 1
      BY <2>7, PublishingAssumption DEF NextVersionNumber, Versions
    <3>2. cmem' \in [Requests -> Memory]
      BY <2>7, <3>1, <1>m DEF NextVersionNumber, Types, Memory
    <3>3. QED
      BY <2>7, <3>2, TypesStep DEF NextVersionNumber, tables, Types, CPC
  <2>8. CASE CreateVersion(r)
    <3>1. status' \in [Versions -> Status] /\ meta' \in [Versions -> BOOLEAN]
      BY <2>8, <1>m, MemoryFields DEF CreateVersion, Types, Status
    <3>2. QED
      BY <2>8, <3>1, TypesOver, TypesStep DEF CreateVersion, Types, CPC
  <2>9. CASE CopyNode(r)
    <3>1. cmem[r].tree \in Tree
      BY <1>m, MemoryFields
    <3>2. trees' \in [Versions -> Tree]
      <4>1. ASSUME NEW n \in ToCopy(r),
                   trees' = [trees EXCEPT ![cmem[r].version][n] = cmem[r].tree[n]]
            PROVE  trees' \in [Versions -> Tree]
        BY <3>1, <4>1 DEF Types, Tree, ToCopy, In
      <4>2. QED
        BY <2>9, <4>1 DEF CopyNode, Types
    <3>3. QED
      BY <2>9, <3>2, TypesStep DEF CopyNode, Types, CPC
  <2>10. CASE PointDraft(r)
    <3>1. course' \in Pointers
      <4>1. cmem[r].version \in 0..MaxVersion /\ cmem[r].course \in Pointers
        BY <2>10, <1>m, MemoryFields, PublishingAssumption
           DEF PointDraft, Shapes, RequestShape, Versions
      <4>2. QED
        BY <2>10, <4>1 DEF PointDraft, Pointers
    <3>2. QED
      BY <2>10, <3>1, TypesOver DEF PointDraft, Types
  <2>11. CASE FindNode(r)
    <3>1. cmem[r].version \in Versions /\ cmem[r].node \in Nodes
      BY <2>11 DEF FindNode, Shapes, RequestShape
    <3>2. trees[cmem[r].version][cmem[r].node] \in Content \cup {Null}
      BY <3>1 DEF Types, Tree
    <3>3. [cmem[r] EXCEPT !.row = trees[cmem[r].version][cmem[r].node]] \in Memory
      BY <3>2, <1>m DEF Memory
    <3>4. QED
      BY <2>11, <3>3, TypesOver, TypesStep DEF FindNode, tables, Types, CPC
  <2>12. CASE CheckDraft(r)
    <3>1. status[cmem[r].version] \in Status
      BY <2>12 DEF CheckDraft, Shapes, RequestShape, Types
    <3>2. [cmem[r] EXCEPT !.seen = status[cmem[r].version]] \in Memory
      BY <3>1, <1>m DEF Memory
    <3>3. QED
      BY <2>12, <3>2, TypesOver, TypesStep DEF CheckDraft, tables, Types, CPC
  <2>13. CASE WriteNode(r)
    <3>1. trees' \in [Versions -> Tree]
      <4>1. trees[cmem[r].version] \in Tree /\ cmem[r].node \in Nodes
        BY <2>13 DEF WriteNode, Shapes, RequestShape, Types
      <4>2. Without(trees[cmem[r].version], cmem[r].node) \in Tree
        BY <4>1 DEF Without, Tree
      <4>3. HasRows(cmem[r]) /\ cmem[r].op # "delete" => Edited(cmem[r]) \in Content
        BY <2>13, <1>m, EditedType DEF WriteNode, Shapes, RequestShape
      <4>4. HasRows(cmem[r]) /\ cmem[r].op # "delete" =>
               [trees[cmem[r].version] EXCEPT ![cmem[r].node] = Edited(cmem[r])] \in Tree
        BY <4>1, <4>3 DEF Tree
      <4>5. QED
        BY <2>13, <4>1, <4>2, <4>4 DEF WriteNode, Types
    <3>2. QED
      BY <2>13, <3>1, TypesOver DEF WriteNode, Types
  <2>14. CASE UpdateVersionMetadata(r)
    <3>1. meta' \in [Versions -> BOOLEAN]
      BY <2>14, <1>m, MemoryFields DEF UpdateVersionMetadata, Types
    <3>2. QED
      BY <2>14, <3>1, TypesOver DEF UpdateVersionMetadata, Types
  <2>15. QED
    BY <1>6, <2>1, <2>2, <2>3, <2>4, <2>5, <2>6, <2>7, <2>8, <2>9, <2>10, <2>11,
       <2>12, <2>13, <2>14 DEF RequestStep
<1>7. CASE UNCHANGED cvars
  BY <1>7 DEF cvars, tables, Types
<1>8. QED
  BY <1>1, <1>3, <1>4, <1>5, <1>6, <1>7 DEF Next

\* A step of one request leaves the others as they are.
Alone(r) ==
    \A s \in Requests \ {r} : cpc'[s] = cpc[s] /\ cmem'[s] = cmem[s]

\* A request that is over leaves the others alone and forgets all.
LEMMA OverAlone ==
    ASSUME Types, NEW r \in Requests, Over(r)
    PROVE  Alone(r) /\ cpc'[r] = "idle" /\ cmem'[r] = Nothing
  BY DEF Types, Over, Step, Alone

\* What a request holds when it begins.
Called(r) ==
    /\ cpc'[r] \in {"course", "row", "status"}
    /\ cmem'[r].course.published = 0
    /\ cpc'[r] = "course" => cmem'[r].version = 0
    /\ cpc'[r] # "course" => cmem'[r].version \in Visible
    /\ cpc'[r] = "row" => /\ cmem'[r].node \in Nodes
                          /\ cmem'[r].op \in
                                 {"create", "update", "delete", "save", "clear", "release"}
    /\ cpc'[r] = "status" => cmem'[r].op = "meta"

Begins(r) ==
    \/ BeginPublish(r) \/ BeginBranch(r) \/ BeginStructure(r) \/ BeginResource(r)
    \/ BeginContent(r) \/ BeginUpdateVersion(r)

\* A call begins, and it is noted whether another one is running.
Noted(r) ==
    /\ cpc[r] = "idle"
    /\ overlapped' = (overlapped \/ \E s \in Requests : cpc[s] # "idle")

\* What a call that begins holds, and that it changes no table.
LEMMA BeginsCall ==
    ASSUME Types, NEW r \in Requests, Begins(r)
    PROVE  Called(r) /\ Alone(r) /\ UNCHANGED tables /\ Noted(r)
<1>1. CASE BeginPublish(r) \/ BeginBranch(r)
  BY <1>1 DEF BeginPublish, BeginBranch, Called, Begin, Nothing, Types, Alone, Noted
<1>2. ASSUME NEW op \in {"create", "update", "delete", "save", "clear", "release"},
             NEW n \in Nodes, NEW face \in {"hidden", "shown"},
             BeginEdit(r, op, n, face)
      PROVE  Called(r) /\ Alone(r) /\ UNCHANGED tables /\ Noted(r)
  <2>1. PICK v \in Visible : Begin(r, "row", [Nothing EXCEPT !.op = op, !.version = v,
                                                             !.node = n, !.face = face])
    BY <1>2 DEF BeginEdit
  <2>2. /\ Alone(r) /\ UNCHANGED tables /\ Noted(r) /\ cpc'[r] = "row"
        /\ cmem'[r] = [Nothing EXCEPT !.op = op, !.version = v, !.node = n, !.face = face]
    BY <2>1 DEF Types, Begin, Alone, Noted
  <2>3. QED
    BY <2>2 DEF Called, Nothing
<1>3. CASE BeginStructure(r) \/ BeginResource(r) \/ BeginContent(r)
  BY <1>2, <1>3, PublishingAssumption DEF BeginStructure, BeginResource, BeginContent
<1>4. CASE BeginUpdateVersion(r)
  <2>1. PICK v \in Visible, full \in BOOLEAN :
           Begin(r, "status", [Nothing EXCEPT !.op = "meta", !.version = v, !.full = full])
    BY <1>4 DEF BeginUpdateVersion
  <2>2. /\ Alone(r) /\ UNCHANGED tables /\ Noted(r) /\ cpc'[r] = "status"
        /\ cmem'[r] = [Nothing EXCEPT !.op = "meta", !.version = v, !.full = full]
    BY <2>1 DEF Types, Begin, Alone, Noted
  <2>3. QED
    BY <2>2 DEF Called, Nothing
<1>5. QED
  BY <1>1, <1>3, <1>4 DEF Begins

\* The shape of a request is a matter of its own variables.
LEMMA ShapeKept ==
    ASSUME Shapes, NEW r \in Requests, Alone(r), RequestShape(r)'
    PROVE  Shapes'
  BY DEF Shapes, RequestShape, Alone

\* Every step keeps the shape of each request.
LEMMA ShapesNext == Types /\ Shapes /\ [Next]_cvars => Shapes'
<1> SUFFICES ASSUME Types, Shapes, [Next]_cvars PROVE Shapes'
  OBVIOUS
<1>m. \A r \in Requests : cmem[r] \in Memory /\ RequestShape(r)
  BY DEF Types, Shapes
<1>v. Visible \subseteq Versions
  BY PublishingAssumption DEF Visible, Types, Pointers, Versions
<1>1. ASSUME NEW r \in Requests, Begins(r) PROVE Shapes'
  <2>1. RequestShape(r)'
    BY <1>1, <1>v, BeginsCall DEF Called, RequestShape
  <2>2. QED
    BY <1>1, <2>1, BeginsCall, ShapeKept
<1>2. ASSUME NEW r \in Requests, Over(r) PROVE Shapes'
  <2>1. RequestShape(r)'
    BY <1>2, OverAlone DEF RequestShape
  <2>2. QED
    BY <1>2, <2>1, OverAlone, ShapeKept
<1>3. ASSUME NEW r \in Requests, RequestStep(r), ~Over(r) PROVE Shapes'
  <2>1. CASE FindCourse(r)
    <3>1. course \in Pointers
      BY DEF Types
    <3>2. Alone(r)
      BY <1>3, <2>1 DEF FindCourse, Step, Alone, Types
    <3>3. \/ /\ cpc'[r] = "tree" /\ course.draft # 0
             /\ cmem'[r].version = course.draft
          \/ /\ cpc'[r] = "source" /\ course.published # 0
             /\ cmem'[r].course = course
      BY <1>3, <2>1, <1>m DEF FindCourse, Step, Types, Memory
    <3>4. RequestShape(r)'
      BY <3>1, <3>3, PublishingAssumption DEF RequestShape, Pointers, Versions
    <3>5. QED
      BY <3>2, <3>4, ShapeKept
  <2>2. CASE LoadDraft(r) \/ MarkPublished(r) \/ MarkSuperseded(r)
    <3>1. /\ Alone(r) /\ cmem'[r] = cmem[r]
          /\ cpc[r] \in {"tree", "mark", "supersede"}
          /\ \/ cpc'[r] \in {"mark", "point"}
             \/ cpc'[r] = "supersede" /\ cmem[r].course.published # 0
      BY <1>3, <2>2 DEF LoadDraft, MarkPublished, MarkSuperseded, AfterMark, Step, Alone, Types
    <3>2. cmem[r].course \in Pointers
      BY <1>m, MemoryFields
    <3>3. RequestShape(r)'
      BY <3>1, <3>2, <1>m, PublishingAssumption DEF RequestShape, Pointers, Versions
    <3>4. QED
      BY <3>1, <3>3, ShapeKept
  <2>3. CASE LoadPublished(r)
    <3>1. Alone(r) /\ cpc'[r] = "number"
      BY <2>3 DEF LoadPublished, Step, Alone, Types
    <3>2. RequestShape(r)'
      BY <3>1 DEF RequestShape
    <3>3. QED
      BY <3>1, <3>2, ShapeKept
  <2>4. CASE NextVersionNumber(r)
    <3>1. Alone(r) /\ cpc'[r] = "insert" /\ cmem'[r].version \in Versions
      BY <2>4, <1>m DEF NextVersionNumber, Step, Alone, Types, Memory
    <3>2. RequestShape(r)'
      BY <3>1 DEF RequestShape
    <3>3. QED
      BY <3>1, <3>2, ShapeKept
  <2>5. CASE CreateVersion(r) \/ CopyNode(r)
    <3>1. /\ Alone(r) /\ cmem'[r] = cmem[r] /\ cpc[r] \in {"insert", "copy"}
          /\ cpc'[r] \in {"copy", "pointDraft"}
      BY <1>3, <2>5 DEF CreateVersion, CopyNode, Step, Alone, Types
    <3>2. RequestShape(r)'
      BY <3>1, <1>m DEF RequestShape
    <3>3. QED
      BY <3>1, <3>2, ShapeKept
  <2>6. CASE FindNode(r)
    <3>1. /\ Alone(r) /\ cpc[r] = "row" /\ cpc'[r] = "status"
          /\ cmem'[r].version = cmem[r].version /\ cmem'[r].op = cmem[r].op
          /\ cmem'[r].node = cmem[r].node
          /\ cmem'[r].row = trees[cmem[r].version][cmem[r].node]
          /\ HasRows(cmem[r])
      BY <1>3, <2>6, <1>m DEF FindNode, Step, Alone, Types, Memory
    <3>2. cmem[r].op # "create" => trees[cmem[r].version][cmem[r].node] \in Content
      BY <3>1, <1>m DEF HasRows, In, RequestShape, Types, Tree
    <3>3. RequestShape(r)'
      BY <3>1, <3>2, <1>m DEF RequestShape
    <3>4. QED
      BY <3>1, <3>3, ShapeKept
  <2>7. CASE CheckDraft(r)
    <3>1. /\ Alone(r) /\ cpc[r] = "status"
          /\ cpc'[r] = IF cmem[r].op = "meta" THEN "writeMeta" ELSE "write"
          /\ cmem'[r].version = cmem[r].version /\ cmem'[r].op = cmem[r].op
          /\ cmem'[r].node = cmem[r].node /\ cmem'[r].row = cmem[r].row
      BY <1>3, <2>7, <1>m DEF CheckDraft, Step, Alone, Types, Memory
    <3>2. RequestShape(r)'
      BY <3>1, <1>m DEF RequestShape
    <3>3. QED
      BY <3>1, <3>2, ShapeKept
  <2>8. QED
    BY <1>3, <2>1, <2>2, <2>3, <2>4, <2>5, <2>6, <2>7
       DEF RequestStep, PointPublished, PointDraft, WriteNode, UpdateVersionMetadata
<1>4. CASE UNCHANGED cvars
  BY <1>4 DEF cvars, tables, Shapes, RequestShape
<1>5. QED
  BY <1>1, <1>2, <1>3, <1>4 DEF Next, Begins, Abort

-----------------------------------------------------------------------------
(* Trees keep their shape *)

\* A node is put where its parent is, and is taken away with what it contains.
LEMMA ClosedKept ==
    ASSUME NEW tree \in Tree, Closed(tree), NEW n \in Nodes
    PROVE  /\ Closed(Without(tree, n))
           /\ \A c \in Content : Parent[n] \in In(tree) \cup {Null} =>
                  Closed([tree EXCEPT ![n] = c])
<1>1. Closed(Without(tree, n))
  <2> SUFFICES ASSUME NEW x \in In(Without(tree, n)), Parent[x] # Null
               PROVE  Parent[x] \in In(Without(tree, n))
    BY DEF Closed
  <2>1. x \in In(tree) /\ x \in Nodes /\ x \notin Under(n)
    BY DEF In, Without
  <2>2. Parent[x] \in In(tree) /\ Parent[x] \in Nodes
    BY <2>1 DEF Closed, In
  <2>3. Parent[x] \notin Under(n)
    <3>1. Parent[x] # n
      BY <2>1 DEF Under
    <3>2. Parent[Parent[x]] # n
      BY <2>1 DEF Under
    <3>3. Parent[Parent[x]] # Null => Parent[Parent[Parent[x]]] = Null
      BY <2>1, PublishingAssumption
    <3>4. QED
      BY <3>1, <3>2, <3>3, PublishingAssumption DEF Under
  <2>4. QED
    BY <2>2, <2>3 DEF In, Without
<1>2. ASSUME NEW c \in Content, Parent[n] \in In(tree) \cup {Null}
      PROVE  Closed([tree EXCEPT ![n] = c])
  <2>1. In(tree) \cup {n} = In([tree EXCEPT ![n] = c])
    BY ContentAssumption DEF In, Tree
  <2>2. QED
    BY <1>2, <2>1 DEF Closed
<1>3. QED
  BY <1>1, <1>2

TreesClosed == \A v \in Versions : Closed(trees[v])

\* Every step keeps the trees closed.
LEMMA ClosedNext == Types /\ Shapes /\ TreesClosed /\ [Next]_cvars => TreesClosed'
<1> SUFFICES ASSUME Types, Shapes, TreesClosed, [Next]_cvars PROVE TreesClosed'
  OBVIOUS
<1>1. CASE UNCHANGED trees
  BY <1>1 DEF TreesClosed, Closed, In
<1>2. ASSUME NEW r \in Requests, CopyNode(r), ~UNCHANGED trees PROVE TreesClosed'
  <2> DEFINE v == cmem[r].version
  <2>1. PICK n \in ToCopy(r) : /\ Parent[n] \in In(trees[v]) \cup {Null}
                               /\ trees' = [trees EXCEPT ![v][n] = cmem[r].tree[n]]
    BY <1>2 DEF CopyNode
  <2>2. v \in Versions /\ n \in Nodes /\ trees[v] \in Tree /\ Closed(trees[v])
    BY <1>2 DEF CopyNode, Shapes, RequestShape, ToCopy, In, Types, TreesClosed
  <2>3. cmem[r].tree[n] \in Content
    BY MemoryFields DEF ToCopy, In, Types, Tree
  <2>4. Closed([trees[v] EXCEPT ![n] = cmem[r].tree[n]])
    BY <2>1, <2>2, <2>3, ClosedKept
  <2>5. trees' = [trees EXCEPT ![v] = [trees[v] EXCEPT ![n] = cmem[r].tree[n]]]
    BY <2>1
  <2>6. QED
    BY <2>2, <2>4, <2>5 DEF TreesClosed, Types
<1>3. ASSUME NEW r \in Requests, WriteNode(r) PROVE TreesClosed'
  <2> DEFINE m == cmem[r]
  <2>1. /\ m \in Memory /\ m.version \in Versions /\ m.node \in Nodes
        /\ trees[m.version] \in Tree /\ Closed(trees[m.version])
        /\ m.op \in {"create", "update", "delete", "save", "clear", "release"}
        /\ m.op \in {"update", "save", "clear", "release"} => m.row \in Content
    BY <1>3 DEF WriteNode, Shapes, RequestShape, Types, TreesClosed
  <2>2. PICK t : trees' = [trees EXCEPT ![m.version] = t] /\ Closed(t)
    <3>1. CASE m.op = "delete"
      <4>1. trees' = [trees EXCEPT ![m.version] = Without(trees[m.version], m.node)]
        BY <1>3, <3>1 DEF WriteNode
      <4>2. QED
        BY <2>1, <4>1, ClosedKept
    <3>2. CASE m.op # "delete" /\ HasRows(m)
      <4>1. Edited(m) \in Content
        BY <2>1, <3>2, EditedType
      <4>2. Parent[m.node] \in In(trees[m.version]) \cup {Null}
        BY <2>1, <3>2 DEF HasRows, Closed
      <4>3. trees' = [trees EXCEPT ![m.version] =
                         [trees[m.version] EXCEPT ![m.node] = Edited(m)]]
        BY <1>3, <3>2 DEF WriteNode
      <4>4. QED
        BY <2>1, <4>1, <4>2, <4>3, ClosedKept
    <3>3. CASE m.op # "delete" /\ ~HasRows(m)
      <4>1. trees' = [trees EXCEPT ![m.version] = trees[m.version]]
        BY <1>3, <3>3 DEF WriteNode
      <4>2. QED
        BY <2>1, <4>1
    <3>4. QED
      BY <3>1, <3>2, <3>3
  <2>3. QED
    BY <2>1, <2>2 DEF TreesClosed, Types
<1>4. QED
  <2>1. ASSUME NEW r \in Requests, Begins(r) PROVE UNCHANGED trees
    BY <2>1, BeginsCall DEF tables
  <2>2. ASSUME NEW r \in Requests, RequestStep(r), ~CopyNode(r), ~WriteNode(r)
        PROVE  UNCHANGED trees
    BY <2>2 DEF RequestStep, FindCourse, LoadDraft, MarkPublished, MarkSuperseded,
       PointPublished, LoadPublished, NextVersionNumber, CreateVersion, PointDraft,
       FindNode, CheckDraft, UpdateVersionMetadata, tables
  <2>3. QED
    BY <1>1, <1>2, <1>3, <2>1, <2>2 DEF Next, Begins, Abort, cvars, tables

TypeInv == Types /\ Shapes /\ TreesClosed

\* The first part of the inductive invariant.
LEMMA TypeInvCorrect == Spec => []TypeInv
<1>1. Init => TypeInv
  BY TypesInit DEF TypeInv, TreesClosed
<1>2. TypeInv /\ [Next]_cvars => TypeInv'
  BY TypesNext, ShapesNext, ClosedNext DEF TypeInv
<1>3. QED
  BY <1>1, <1>2, PTL DEF Spec

\* The types of the tables and of the requests, and in every version a node is
\* there only with the module or the unit that contains it.
THEOREM PublishingTypes == Spec => []PublishingTypeOK
<1>1. TypeInv => PublishingTypeOK
  BY DEF TypeInv, Types, TreesClosed, Closed, PublishingTypeOK
<1>2. QED
  BY <1>1, TypeInvCorrect, PTL

-----------------------------------------------------------------------------
(* What is published stays published *)

Sealed == {"published", "superseded"}

\* The course, and every copy of its row that a request holds, points to a
\* version that was published; and a request points the course to a version that
\* it has published itself.
PublishedInv ==
    /\ course.published # 0 => status[course.published] \in Sealed
    /\ \A r \in Requests :
          /\ cmem[r].course.published # 0 => status[cmem[r].course.published] \in Sealed
          /\ cpc[r] \in {"supersede", "point"} => status[cmem[r].version] \in Sealed

\* No step takes a version back from what was published, and no step but the
\* INSERT of a version writes one whose number was free.
LEMMA SealedStaysSealed ==
    ASSUME TypeInv, [Next]_cvars, NEW v \in Versions
    PROVE  /\ status[v] \in Sealed => status'[v] \in Sealed
           /\ status[v] # "none" => status'[v] # "none"
<1>1. CASE UNCHANGED status
  BY <1>1 DEF Sealed
<1>2. ASSUME NEW r \in Requests, MarkPublished(r) \/ MarkSuperseded(r) \/ CreateVersion(r),
             ~UNCHANGED status
      PROVE  /\ status[v] \in Sealed => status'[v] \in Sealed
             /\ status[v] # "none" => status'[v] # "none"
  BY <1>2 DEF MarkPublished, MarkSuperseded, CreateVersion, Sealed, TypeInv, Types
<1>3. ASSUME NEW r \in Requests, Begins(r) PROVE UNCHANGED status
  BY <1>3, BeginsCall DEF tables, TypeInv
<1>4. ASSUME NEW r \in Requests, RequestStep(r), ~MarkPublished(r), ~MarkSuperseded(r),
             ~CreateVersion(r)
      PROVE  UNCHANGED status
  BY <1>4 DEF RequestStep, FindCourse, LoadDraft, PointPublished, LoadPublished,
     NextVersionNumber, CopyNode, PointDraft, FindNode, CheckDraft, WriteNode,
     UpdateVersionMetadata, tables
<1>5. QED
  BY <1>1, <1>2, <1>3, <1>4 DEF Next, Begins, Abort, cvars, tables

\* What a step of a request does to its memory of the published version.
LEMMA PublishedNext == TypeInv /\ PublishedInv /\ [Next]_cvars => PublishedInv'
<1> SUFFICES ASSUME TypeInv, PublishedInv, [Next]_cvars PROVE PublishedInv'
  OBVIOUS
<1>t. Types /\ Shapes
  BY DEF TypeInv
<1>s. \A v \in Versions : status[v] \in Sealed => status'[v] \in Sealed
  BY SealedStaysSealed
<1>p. \A p \in Pointers : p.published # 0 => p.published \in Versions
  BY PublishingAssumption DEF Pointers, Versions
<1>c. /\ course.published # 0 => status'[course.published] \in Sealed
      /\ \A r \in Requests :
            /\ cmem[r].course.published # 0 => status'[cmem[r].course.published] \in Sealed
            /\ cpc[r] \in {"supersede", "point"} => status'[cmem[r].version] \in Sealed
  <2>1. course.published # 0 => status'[course.published] \in Sealed
    BY <1>p, <1>s, <1>t DEF PublishedInv, Types
  <2>2. ASSUME NEW r \in Requests
        PROVE  cmem[r].course.published # 0 => status'[cmem[r].course.published] \in Sealed
    <3>1. cmem[r].course \in Pointers
      BY <1>t, MemoryFields DEF Types
    <3>2. QED
      BY <3>1, <1>p, <1>s DEF PublishedInv
  <2>3. ASSUME NEW r \in Requests, cpc[r] \in {"supersede", "point"}
        PROVE  status'[cmem[r].version] \in Sealed
    <3>1. cmem[r].version \in Versions
      BY <2>3, <1>t DEF Shapes, RequestShape
    <3>2. QED
      BY <2>3, <3>1, <1>s DEF PublishedInv
  <2>4. QED
    BY <2>1, <2>2, <2>3
<1>k. ASSUME NEW r \in Requests, Alone(r),
             cmem'[r].course.published # 0 => status'[cmem'[r].course.published] \in Sealed,
             cpc'[r] \in {"supersede", "point"} => status'[cmem'[r].version] \in Sealed,
             course'.published # 0 => status'[course'.published] \in Sealed
      PROVE  PublishedInv'
  BY <1>k, <1>c DEF PublishedInv, Alone
<1>1. ASSUME NEW r \in Requests, Begins(r) PROVE PublishedInv'
  <2>1. /\ Alone(r) /\ UNCHANGED course /\ cpc'[r] \in {"course", "row", "status"}
        /\ cmem'[r].course.published = 0
    BY <1>1, <1>t, BeginsCall DEF tables, Called
  <2>2. QED
    BY <2>1, <1>c, <1>k
<1>o. ASSUME NEW r \in Requests, Over(r),
             course'.published # 0 => status'[course'.published] \in Sealed
      PROVE  PublishedInv'
  <2>1. Alone(r) /\ cpc'[r] = "idle" /\ cmem'[r].course.published = 0
    BY <1>o, <1>t, OverAlone DEF Nothing
  <2>2. QED
    BY <2>1, <1>o, <1>k
<1>2. ASSUME NEW r \in Requests, Abort(r) PROVE PublishedInv'
  BY <1>2, <1>o, <1>c DEF Abort, tables
<1>3. ASSUME NEW r \in Requests, RequestStep(r) PROVE PublishedInv'
  <2>m. cmem[r] \in Memory
    BY <1>t DEF Types
  <2>1. CASE FindCourse(r)
    <3>1. CASE Over(r)
      BY <2>1, <3>1, <1>o, <1>c DEF FindCourse, tables
    <3>2. CASE ~Over(r)
      <4>1. /\ Alone(r) /\ UNCHANGED tables /\ cpc'[r] \in {"tree", "source"}
            /\ cmem'[r].course = course
        BY <2>1, <3>2, <2>m, <1>t DEF FindCourse, Step, Alone, Types, Memory
      <4>2. QED
        BY <4>1, <1>c, <1>k DEF tables
    <3>3. QED
      BY <3>1, <3>2
  <2>2. CASE LoadDraft(r) \/ FindNode(r) \/ CheckDraft(r) \/ CreateVersion(r)
    <3>1. CASE Over(r)
      BY <2>2, <3>1, <1>o, <1>c DEF LoadDraft, FindNode, CheckDraft, CreateVersion, tables
    <3>2. CASE ~Over(r)
      <4>1. /\ Alone(r) /\ UNCHANGED course
            /\ cpc'[r] \in {"mark", "status", "write", "writeMeta", "copy"}
            /\ cmem'[r].course = cmem[r].course
        BY <2>2, <3>2, <2>m, <1>t
           DEF LoadDraft, FindNode, CheckDraft, CreateVersion, Step, Alone, Types, Memory, tables
      <4>2. QED
        BY <4>1, <1>c, <1>k
    <3>3. QED
      BY <3>1, <3>2
  <2>3. CASE LoadPublished(r) \/ NextVersionNumber(r) \/ CopyNode(r)
    <3>1. /\ Alone(r) /\ UNCHANGED course
          /\ cpc'[r] \in {"number", "insert", "copy", "pointDraft"}
          /\ cmem'[r].course = cmem[r].course
      BY <2>3, <2>m, <1>t
         DEF LoadPublished, NextVersionNumber, CopyNode, Step, Alone, Types, Memory, tables
    <3>2. QED
      BY <3>1, <1>c, <1>k
  <2>4. CASE MarkPublished(r)
    <3>1. /\ Alone(r) /\ UNCHANGED course /\ cmem' = cmem
          /\ cmem[r].version \in Versions
      BY <2>4, <1>t DEF MarkPublished, Step, Alone, Types, Shapes, RequestShape
    <3>2. status'[cmem[r].version] \in Sealed
      BY <2>4, <3>1, <1>t DEF MarkPublished, Sealed, Types
    <3>3. QED
      BY <3>1, <3>2, <1>c, <1>k
  <2>5. CASE MarkSuperseded(r)
    <3>1. Alone(r) /\ UNCHANGED course /\ cmem' = cmem /\ cpc[r] = "supersede"
      BY <2>5, <1>t DEF MarkSuperseded, Step, Alone, Types
    <3>2. QED
      BY <3>1, <1>c, <1>k
  <2>6. CASE PointPublished(r)
    <3>1. status'[cmem[r].version] \in Sealed /\ course'.published = cmem[r].version
      BY <2>6, <1>c DEF PointPublished
    <3>2. QED
      BY <2>6, <3>1, <1>o DEF PointPublished
  <2>7. CASE PointDraft(r)
    <3>1. course'.published = cmem[r].course.published
      BY <2>7 DEF PointDraft
    <3>2. QED
      BY <2>7, <3>1, <1>c, <1>o DEF PointDraft
  <2>8. CASE WriteNode(r) \/ UpdateVersionMetadata(r)
    BY <2>8, <1>c, <1>o DEF WriteNode, UpdateVersionMetadata
  <2>9. QED
    BY <1>3, <2>1, <2>2, <2>3, <2>4, <2>5, <2>6, <2>7, <2>8 DEF RequestStep
<1>4. CASE UNCHANGED cvars
  BY <1>4, <1>c DEF cvars, tables, PublishedInv
<1>5. QED
  BY <1>1, <1>2, <1>3, <1>4 DEF Next, Begins

\* The course begins without a published version.
LEMMA PublishedInit == Init => PublishedInv
  BY DEF Init, PublishedInv, Nothing

\* Whatever publications, drafts and edits of the course run at once and wherever
\* they stop, students are only served a version that was published.
THEOREM ServedIsPublished == Spec => []StudentsSeePublished
<1>1. TypeInv /\ PublishedInv => StudentsSeePublished
  BY DEF PublishedInv, StudentsSeePublished, Served, Sealed
<1>2. Spec => []PublishedInv
  BY TypeInvCorrect, PublishedInit, PublishedNext, PTL DEF Spec
<1>3. QED
  BY <1>1, <1>2, TypeInvCorrect, PTL

-----------------------------------------------------------------------------
(* Who writes a version, and which versions are nobody else's *)

\* The steps of requests, by what they do to the tables and to the version that
\* the request works on.
Effects(q) ==
    /\ Alone(q)
    /\ \A v \in Versions : status'[v] # status[v] =>
          \/ cpc[q] = "mark" /\ v = cmem[q].version
          \/ cpc[q] = "supersede" /\ v = cmem[q].course.published
          \/ /\ cpc[q] = "insert" /\ v = cmem[q].version
             /\ status[v] = "none" /\ status'[v] = "draft"
    /\ \A v \in Versions : meta'[v] # meta[v] => status[v] \in {"none", "draft"}
    /\ \A v \in Versions : trees'[v] # trees[v] =>
          cpc[q] \in {"copy", "write"} /\ v = cmem[q].version
    /\ \/ course' = course
       \/ course'.draft = 0
       \/ cpc[q] = "pointDraft" /\ course'.draft = cmem[q].version
    /\ \/ cmem'[q].version = 0 \/ cmem'[q].version \in Visible \/ cpc'[q] = "insert"
       \/ /\ cmem'[q].version = cmem[q].version
          /\ cpc[q] = "insert" => /\ status[cmem[q].version] = "none"
                                  /\ status'[cmem[q].version] = "draft"
    /\ cpc'[q] \in {"copy", "pointDraft"} =>
          /\ cmem'[q] = cmem[q]
          /\ \/ /\ cpc[q] = "insert" /\ cpc'[q] = "copy"
                /\ status[cmem[q].version] = "none" /\ status'[cmem[q].version] = "draft"
             \/ cpc[q] = "copy" /\ CopyNode(q)
    /\ cpc'[q] = "write" => cmem'[q].seen = "draft"

\* Every step has the effects above.
LEMMA StepEffects ==
    ASSUME TypeInv, NEW q \in Requests, Begins(q) \/ RequestStep(q) \/ Abort(q)
    PROVE  Effects(q)
<1>t. /\ Types /\ RequestShape(q) /\ cmem[q] \in Memory
      /\ course \in Pointers
  BY DEF TypeInv, Shapes, Types
<1>o. ASSUME Over(q)
      PROVE  Alone(q) /\ cpc'[q] = "idle" /\ cmem'[q].version = 0
  BY <1>o, <1>t, OverAlone DEF Nothing
<1>1. CASE Begins(q)
  BY <1>1, <1>t, BeginsCall DEF Called, Effects, tables
<1>2. CASE Abort(q)
  BY <1>2, <1>o DEF Abort, Effects, tables
<1>3. CASE FindCourse(q)
  <2>1. CASE Over(q)
    BY <1>3, <2>1, <1>o DEF FindCourse, Effects, tables
  <2>2. CASE ~Over(q)
    <3>1. /\ Alone(q) /\ UNCHANGED tables /\ cpc'[q] \in {"tree", "source"}
          /\ cpc[q] = "course"
          /\ \/ cmem'[q].version = cmem[q].version
             \/ cmem'[q].version = course.draft /\ course.draft # 0
      BY <1>3, <2>2, <1>t DEF FindCourse, Step, Alone, Types, Memory
    <3>2. QED
      BY <3>1 DEF Effects, tables, Visible
  <2>3. QED
    BY <2>1, <2>2
<1>4. CASE LoadDraft(q) \/ FindNode(q) \/ CheckDraft(q)
  <2>1. CASE Over(q)
    BY <1>4, <2>1, <1>o DEF LoadDraft, FindNode, CheckDraft, Effects, tables
  <2>2. CASE ~Over(q)
    <3>1. /\ Alone(q) /\ UNCHANGED tables /\ cpc[q] \in {"tree", "row", "status"}
          /\ cpc'[q] \in {"mark", "status", "write", "writeMeta"}
          /\ cmem'[q].version = cmem[q].version
          /\ cpc'[q] = "write" => cmem'[q].seen = "draft"
      BY <1>4, <2>2, <1>t DEF LoadDraft, FindNode, CheckDraft, MayEdit, Step, Alone, Types, Memory
    <3>2. QED
      BY <3>1 DEF Effects, tables
  <2>3. QED
    BY <2>1, <2>2
<1>5. CASE MarkPublished(q) \/ MarkSuperseded(q)
  <2>1. /\ Alone(q) /\ UNCHANGED <<meta, trees, course, cmem>>
        /\ cpc'[q] \in {"supersede", "point"}
        /\ \/ /\ cpc[q] = "mark"
              /\ \A v \in Versions : status'[v] # status[v] => v = cmem[q].version
           \/ /\ cpc[q] = "supersede"
              /\ \A v \in Versions : status'[v] # status[v] => v = cmem[q].course.published
    BY <1>5, <1>t DEF MarkPublished, MarkSuperseded, AfterMark, Step, Alone, Types
  <2>2. QED
    BY <2>1 DEF Effects
<1>6. CASE PointPublished(q) \/ PointDraft(q)
  <2>1. \/ course'.draft = 0
        \/ cpc[q] = "pointDraft" /\ course'.draft = cmem[q].version
    BY <1>6 DEF PointPublished, PointDraft
  <2>2. QED
    BY <1>6, <2>1, <1>o DEF PointPublished, PointDraft, Effects
<1>7. CASE LoadPublished(q) \/ NextVersionNumber(q)
  <2>1. /\ Alone(q) /\ UNCHANGED tables /\ cpc[q] \in {"source", "number"}
        /\ \/ cpc'[q] = "number" /\ cmem'[q].version = cmem[q].version
           \/ cpc'[q] = "insert"
    BY <1>7, <1>t DEF LoadPublished, NextVersionNumber, Step, Alone, Types, Memory
  <2>2. QED
    BY <2>1 DEF Effects, tables
<1>8. CASE CreateVersion(q)
  <2>1. CASE status[cmem[q].version] = "none"
    <3>1. /\ Alone(q) /\ UNCHANGED <<trees, course, cmem>> /\ cpc'[q] = "copy"
          /\ cpc[q] = "insert" /\ status'[cmem[q].version] = "draft"
          /\ \A v \in Versions \ {cmem[q].version} :
                status'[v] = status[v] /\ meta'[v] = meta[v]
      BY <1>8, <2>1, <1>t DEF CreateVersion, Step, Alone, Types, RequestShape
    <3>2. QED
      BY <2>1, <3>1 DEF Effects
  <2>2. CASE status[cmem[q].version] # "none"
    BY <1>8, <2>2, <1>o DEF CreateVersion, Effects
  <2>3. QED
    BY <2>1, <2>2
<1>9. CASE CopyNode(q)
  <2>1. /\ Alone(q) /\ UNCHANGED <<status, meta, course, cmem>> /\ cpc[q] = "copy"
        /\ cpc'[q] \in {"copy", "pointDraft"}
        /\ \A v \in Versions : trees'[v] # trees[v] => v = cmem[q].version
    BY <1>9, <1>t DEF CopyNode, Step, Alone, Types
  <2>2. QED
    BY <1>9, <2>1 DEF Effects
<1>10. CASE WriteNode(q)
  <2>1. \A v \in Versions : trees'[v] # trees[v] => v = cmem[q].version
    BY <1>10, <1>t DEF WriteNode, Types
  <2>2. QED
    BY <1>10, <2>1, <1>o DEF WriteNode, Effects
<1>11. CASE UpdateVersionMetadata(q)
  <2>1. \A v \in Versions : meta'[v] # meta[v] => status[v] = "draft"
    BY <1>11, <1>t DEF UpdateVersionMetadata, Types
  <2>2. QED
    BY <1>11, <2>1, <1>o DEF UpdateVersionMetadata, Effects
<1>12. QED
  BY <1>1, <1>2, <1>3, <1>4, <1>5, <1>6, <1>7, <1>8, <1>9, <1>10, <1>11 DEF RequestStep

\* A number that is free has no rows, and nobody knows of it but who is to
\* insert it.
FreeInv ==
    /\ \A v \in Versions : status[v] = "none" => trees[v] = NoTree
    /\ course.draft # 0 => status[course.draft] # "none"
    /\ \A r \in Requests :
          cmem[r].version # 0 /\ cpc[r] # "insert" =>
              cmem[r].version \in Versions /\ status[cmem[r].version] # "none"

\* The version that a request is copying is a draft that only this request
\* writes: neither the course nor another request knows of it.  What it has so
\* far is part of what was read.
CopyShape(r) ==
    LET v == cmem[r].version
    IN  cpc[r] \in {"copy", "pointDraft"} =>
            /\ status[v] = "draft"
            /\ course.draft # v
            /\ \A n \in Nodes : trees[v][n] \in {Null, cmem[r].tree[n]}
            /\ cpc[r] = "pointDraft" => trees[v] = cmem[r].tree
            /\ \A s \in Requests \ {r} : cmem[s].version = v => cpc[s] = "insert"

CopyInv == \A r \in Requests : CopyShape(r)

\* A request that is to write a row has found the version to be a draft.
CheckedInv == \A r \in Requests : cpc[r] = "write" => cmem[r].seen = "draft"

DraftInv == FreeInv /\ CopyInv /\ CheckedInv

\* The course begins with an empty draft that nobody copies.
LEMMA DraftInit == Init => DraftInv
<1> SUFFICES ASSUME Init PROVE DraftInv
  OBVIOUS
<1>1. FreeInv
  <2>1. /\ 1 \in Versions /\ status[1] = "draft" /\ course.draft = 1
        /\ \A v \in Versions : trees[v] = NoTree
    BY PublishingAssumption DEF Init, Versions
  <2>2. \A r \in Requests : cmem[r].version = 0
    BY DEF Init, Nothing
  <2>3. QED
    BY <2>1, <2>2 DEF FreeInv
<1>2. CopyInv /\ CheckedInv
  BY DEF Init, CopyInv, CopyShape, CheckedInv
<1>3. QED
  BY <1>1, <1>2 DEF DraftInv

\* The pointers of the course and the versions in memory are numbers of versions.
LEMMA Numbers ==
    ASSUME TypeInv
    PROVE  /\ Visible \subseteq Versions
           /\ course.draft # 0 => course.draft \in Versions
           /\ course.published # 0 => course.published \in Versions
           /\ \A r \in Requests :
                 cpc[r] \in {"copy", "pointDraft", "insert", "mark", "supersede", "write"}
                     => cmem[r].version \in Versions
           /\ \A r \in Requests : cpc[r] = "supersede" => cmem[r].course.published \in Versions
           /\ 0 \notin Versions
<1>1. 0 \notin Versions
  BY PublishingAssumption DEF Versions
<1>2. \A p \in Pointers : /\ p.draft # 0 => p.draft \in Versions
                          /\ p.published # 0 => p.published \in Versions
  BY PublishingAssumption DEF Pointers, Versions
<1>3. /\ course.draft # 0 => course.draft \in Versions
      /\ course.published # 0 => course.published \in Versions
  BY <1>2 DEF TypeInv, Types
<1>4. Visible \subseteq Versions
  <2>1. ASSUME NEW x \in Visible PROVE x \in Versions
    <3>1. x # 0 /\ (x = course.published \/ x = course.draft)
      BY DEF Visible
    <3>2. QED
      BY <1>3, <3>1
  <2>2. QED
    BY <2>1
<1>5. \A r \in Requests :
         cpc[r] \in {"copy", "pointDraft", "insert", "mark", "supersede", "write"}
             => cmem[r].version \in Versions
  BY DEF TypeInv, Shapes, RequestShape
<1>6. \A r \in Requests : cpc[r] = "supersede" => cmem[r].course.published \in Versions
  BY <1>2, MemoryFields DEF TypeInv, Types, Shapes, RequestShape
<1>7. QED
  BY <1>1, <1>3, <1>4, <1>5, <1>6

\* The version that another request is copying is left alone.
LEMMA CopyOfOther ==
    ASSUME TypeInv, PublishedInv, DraftInv, NEW q \in Requests, Effects(q),
           NEW r \in Requests \ {q}
    PROVE  CopyShape(r)'
<1> DEFINE v == cmem[r].version
<1> SUFFICES ASSUME cpc[r] \in {"copy", "pointDraft"}
             PROVE  CopyShape(r)'
  BY DEF Effects, Alone, CopyShape
<1>1. /\ v \in Versions /\ v # 0 /\ status[v] = "draft" /\ course.draft # v
      /\ \A n \in Nodes : trees[v][n] \in {Null, cmem[r].tree[n]}
      /\ cpc[r] = "pointDraft" => trees[v] = cmem[r].tree
      /\ \A s \in Requests \ {r} : cmem[s].version = v => cpc[s] = "insert"
  BY Numbers DEF DraftInv, CopyInv, CopyShape
<1>2. cpc'[r] = cpc[r] /\ cmem'[r] = cmem[r]
  BY DEF Effects, Alone
<1>3. status'[v] = "draft"
  <2>1. cpc[q] = "supersede" => v # cmem[q].course.published
    BY <1>1, Numbers DEF PublishedInv, Sealed
  <2>2. cpc[q] \in {"mark", "insert"} /\ v = cmem[q].version => cpc[q] = "insert"
    BY <1>1
  <2>3. QED
    BY <1>1, <2>1, <2>2 DEF Effects
<1>4. course'.draft # v
  BY <1>1 DEF Effects
<1>5. trees'[v] = trees[v]
  BY <1>1 DEF Effects
<1>6. ASSUME cmem'[q].version = v PROVE cpc'[q] = "insert"
  <2>1. v \notin Visible
    BY <1>1, Numbers DEF Visible, PublishedInv, Sealed
  <2>2. cmem[q].version = v => cpc[q] = "insert" /\ status[v] # "none"
    BY <1>1
  <2>3. QED
    BY <1>1, <1>6, <2>1, <2>2 DEF Effects
<1>7. \A s \in Requests \ {r} : cmem'[s].version = v => cpc'[s] = "insert"
  BY <1>1, <1>6 DEF Effects, Alone
<1>8. QED
  BY <1>1, <1>2, <1>3, <1>4, <1>5, <1>7 DEF CopyShape

\* The version of the request itself is new, or is copied row by row.
LEMMA CopyOfSelf ==
    ASSUME TypeInv, PublishedInv, DraftInv, NEW q \in Requests, Effects(q)
    PROVE  CopyShape(q)'
<1> DEFINE v == cmem[q].version
<1> SUFFICES ASSUME cpc'[q] \in {"copy", "pointDraft"}
             PROVE  CopyShape(q)'
  BY DEF CopyShape
<1>1. cmem'[q] = cmem[q] /\ cpc[q] \in {"insert", "copy"} /\ v \in Versions /\ v # 0
  BY Numbers DEF Effects
<1>o. \A s \in Requests \ {q} : cpc'[s] = cpc[s] /\ cmem'[s] = cmem[s]
  BY DEF Effects, Alone
<1>2. CASE cpc[q] = "insert"
  <2>1. /\ status[v] = "none" /\ status'[v] = "draft" /\ cpc'[q] = "copy"
        /\ trees'[v] = trees[v] /\ trees[v] = NoTree
    BY <1>1, <1>2 DEF Effects, DraftInv, FreeInv
  <2>2. course'.draft # v
    BY <1>1, <1>2, <2>1 DEF Effects, DraftInv, FreeInv
  <2>3. \A s \in Requests \ {q} : cmem[s].version = v => cpc[s] = "insert"
    BY <1>1, <2>1 DEF DraftInv, FreeInv
  <2>4. QED
    BY <1>1, <1>o, <2>1, <2>2, <2>3 DEF CopyShape, NoTree
<1>3. CASE cpc[q] = "copy"
  <2>1. /\ CopyNode(q) /\ status[v] = "draft" /\ course.draft # v
        /\ \A n \in Nodes : trees[v][n] \in {Null, cmem[q].tree[n]}
        /\ \A s \in Requests \ {q} : cmem[s].version = v => cpc[s] = "insert"
    BY <1>1, <1>3 DEF Effects, DraftInv, CopyInv, CopyShape
  <2>2. UNCHANGED <<status, course>>
    BY <2>1 DEF CopyNode
  <2>3. trees[v] \in Tree /\ cmem[q].tree \in Tree /\ trees \in [Versions -> Tree]
    BY <1>1, MemoryFields DEF TypeInv, Types
  <2>4. /\ \A n \in Nodes : trees'[v][n] \in {Null, cmem[q].tree[n]}
        /\ cpc'[q] = "pointDraft" => trees'[v] = cmem[q].tree
    <3>1. CASE \E n \in ToCopy(q) : /\ trees' = [trees EXCEPT ![v][n] = cmem[q].tree[n]]
                                    /\ Step(q, "copy")
      BY <1>1, <2>1, <2>3, <3>1 DEF Step, Tree, TypeInv, Types
    <3>2. CASE ToCopy(q) = {} /\ UNCHANGED trees
      <4>1. \A n \in Nodes : trees[v][n] = cmem[q].tree[n]
        BY <2>1, <3>2 DEF ToCopy, In
      <4>2. QED
        BY <2>3, <3>2, <4>1 DEF Tree
    <3>3. QED
      BY <2>1, <3>1, <3>2 DEF CopyNode
  <2>5. QED
    BY <1>1, <1>o, <2>1, <2>2, <2>4 DEF CopyShape
<1>4. QED
  BY <1>1, <1>2, <1>3

\* A step leaves the free numbers unknown: who takes one gives it its row.
LEMMA FreeKept ==
    ASSUME TypeInv, PublishedInv, DraftInv, [Next]_cvars, NEW q \in Requests, Effects(q)
    PROVE  FreeInv'
<1>s. \A v \in Versions : status[v] # "none" => status'[v] # "none"
  BY SealedStaysSealed
<1>1. ASSUME NEW v \in Versions, status'[v] = "none" PROVE trees'[v] = NoTree
  <2>1. status[v] = "none" /\ trees[v] = NoTree
    BY <1>1, <1>s DEF DraftInv, FreeInv
  <2>2. ~(cpc[q] \in {"copy", "write"} /\ v = cmem[q].version)
    BY <2>1, Numbers DEF DraftInv, FreeInv
  <2>3. QED
    BY <2>1, <2>2 DEF Effects
<1>2. course'.draft # 0 => status'[course'.draft] # "none"
  BY <1>s, Numbers DEF Effects, DraftInv, FreeInv
<1>3. ASSUME NEW r \in Requests, cmem'[r].version # 0, cpc'[r] # "insert"
      PROVE  cmem'[r].version \in Versions /\ status'[cmem'[r].version] # "none"
  <2>1. CASE r # q
    <3>1. cmem'[r] = cmem[r] /\ cpc'[r] = cpc[r]
      BY <2>1 DEF Effects, Alone
    <3>2. QED
      BY <1>3, <3>1, <1>s DEF DraftInv, FreeInv
  <2>2. CASE r = q /\ cmem'[q].version \in Visible
    BY <2>2, <1>s, Numbers DEF DraftInv, FreeInv, Visible, PublishedInv, Sealed
  <2>3. CASE /\ r = q /\ cmem'[q].version = cmem[q].version
             /\ cmem'[q].version \notin Visible
    <3>1. CASE cpc[q] = "insert"
      BY <1>3, <2>3, <3>1, Numbers DEF Effects, Visible
    <3>2. CASE cpc[q] # "insert"
      BY <1>3, <2>3, <3>2, <1>s DEF DraftInv, FreeInv
    <3>3. QED
      BY <3>1, <3>2
  <2>4. QED
    BY <1>3, <2>1, <2>2, <2>3 DEF Effects
<1>4. QED
  BY <1>1, <1>2, <1>3 DEF FreeInv

\* Every step keeps who writes what.
LEMMA DraftNext == TypeInv /\ PublishedInv /\ DraftInv /\ [Next]_cvars => DraftInv'
<1> SUFFICES ASSUME TypeInv, PublishedInv, DraftInv, [Next]_cvars PROVE DraftInv'
  OBVIOUS
<1>1. CASE UNCHANGED cvars
  BY <1>1 DEF cvars, tables, DraftInv, FreeInv, CopyInv, CopyShape, CheckedInv
<1>2. ASSUME NEW q \in Requests, Begins(q) \/ RequestStep(q) \/ Abort(q)
      PROVE  DraftInv'
  <2>1. Effects(q)
    BY <1>2, StepEffects
  <2>2. FreeInv'
    BY <2>1, FreeKept
  <2>3. CopyInv'
    BY <2>1, CopyOfOther, CopyOfSelf DEF CopyInv
  <2>4. CheckedInv'
    BY <2>1 DEF Effects, Alone, DraftInv, CheckedInv
  <2>5. QED
    BY <2>2, <2>3, <2>4 DEF DraftInv
<1>3. QED
  BY <1>1, <1>2 DEF Next, Begins

PublishingInv == TypeInv /\ PublishedInv /\ DraftInv

\* The whole of the inductive invariant.
LEMMA PublishingCorrect == Spec => []PublishingInv
<1>1. Init => PublishedInv /\ DraftInv
  BY PublishedInit, DraftInit
<1>2. PublishingInv /\ [Next]_cvars => PublishedInv' /\ DraftInv'
  BY PublishedNext, DraftNext DEF PublishingInv
<1>3. QED
  BY <1>1, <1>2, TypeInvCorrect, PTL DEF Spec, PublishingInv

\* The teacher is only pointed to a draft that has each node of what was
\* published, however many drafts are copied at once or were left half copied.
THEOREM DraftsAreWhole == Spec => []DraftIsWhole
<1>1. PublishingInv => DraftIsWhole
  BY DEF PublishingInv, DraftInv, CopyInv, CopyShape, DraftIsWhole
<1>2. QED
  BY <1>1, PublishingCorrect, PTL

\* A published version only changes by edits that found it a draft before, and
\* its metadata do not change at all.
THEOREM SealedVersionsStay == Spec => SealedStays
<1> DEFINE Step1 == \A v \in Versions :
          status[v] \in {"published", "superseded"} =>
              /\ meta'[v] = meta[v]
              /\ Writing(v) = {} => trees'[v] = trees[v]
<1>1. PublishingInv /\ [Next]_cvars => [Step1]_cvars
  <2> SUFFICES ASSUME PublishingInv, [Next]_cvars, cvars' # cvars PROVE Step1
    OBVIOUS
  <2>1. PICK q \in Requests : Begins(q) \/ RequestStep(q) \/ Abort(q)
    BY DEF Next, Begins
  <2>2. Effects(q) /\ PublishedInv /\ DraftInv
    BY <2>1, StepEffects DEF PublishingInv
  <2>3. ASSUME NEW v \in Versions, status[v] \in {"published", "superseded"},
               trees'[v] # trees[v]
        PROVE  Writing(v) # {}
    <3>1. cpc[q] \in {"copy", "write"} /\ v = cmem[q].version
      BY <2>2, <2>3 DEF Effects
    <3>2. cpc[q] # "copy"
      BY <2>2, <2>3, <3>1 DEF DraftInv, CopyInv, CopyShape
    <3>3. QED
      BY <2>2, <3>1, <3>2 DEF Writing, DraftInv, CheckedInv
  <2>4. QED
    BY <2>2, <2>3 DEF Effects
<1>2. QED
  BY <1>1, PublishingCorrect, PTL DEF Spec, SealedStays

-----------------------------------------------------------------------------
(* A publication or a draft that stopped is repaired by repeating it *)

\* The numbers of the versions have no gap, and nobody is to insert one that
\* would leave a gap.
NumbersInv ==
    \E n \in 0..MaxVersion :
        /\ \A v \in Versions : status[v] # "none" <=> v <= n
        /\ \A r \in Requests : cpc[r] = "insert" => cmem[r].version \in 1..n + 1

\* Then the number of versions gives the next one.
LEMMA NextIsFree ==
    ASSUME NEW n \in 0..MaxVersion, NEW r \in Requests,
           \A v \in Versions : status[v] # "none" <=> v <= n
    PROVE  NextNumber(r) = n + 1
<1>1. {v \in Versions : status[v] # "none"} = 1..n
  BY PublishingAssumption DEF Versions
<1>2. Cardinality(1..n) = n
  BY FS_Interval, PublishingAssumption
<1>3. QED
  BY <1>1, <1>2 DEF NextNumber

\* A request is to insert the version whose number it has just computed.
LEMMA InsertsNext ==
    ASSUME TypeInv, NEW q \in Requests, Begins(q) \/ RequestStep(q) \/ Abort(q),
           cpc'[q] = "insert"
    PROVE  NextVersionNumber(q) /\ cmem'[q].version = NextNumber(q)
<1>t. Types
  BY DEF TypeInv
<1>1. ~Over(q)
  BY <1>t, OverAlone
<1>2. ~Begins(q)
  BY <1>t, BeginsCall DEF Called
<1>3. NextVersionNumber(q)
  BY <1>t, <1>1, <1>2
     DEF RequestStep, Abort, FindCourse, LoadDraft, MarkPublished, AfterMark, MarkSuperseded,
         PointPublished, LoadPublished, CreateVersion, CopyNode, PointDraft, FindNode,
         CheckDraft, WriteNode, UpdateVersionMetadata, Step, Types
<1>4. cmem' = [cmem EXCEPT ![q] = [cmem[q] EXCEPT !.version = NextNumber(q)]]
  BY <1>3 DEF NextVersionNumber
<1>5. cmem[q] \in Memory
  BY <1>t DEF Types
<1>6. [cmem[q] EXCEPT !.version = NextNumber(q)].version = NextNumber(q)
  BY ONLY <1>5 DEF Memory
<1>7. QED
  BY <1>t, <1>3, <1>4, <1>6 DEF Types

\* Only the INSERT of a version writes a row whose number was free.
LEMMA NumbersNext ==
    TypeInv /\ PublishedInv /\ DraftInv /\ NumbersInv /\ [Next]_cvars => NumbersInv'
<1> SUFFICES ASSUME TypeInv, PublishedInv, DraftInv, NumbersInv, [Next]_cvars
             PROVE  NumbersInv'
  OBVIOUS
<1>1. CASE UNCHANGED cvars
  BY <1>1 DEF cvars, tables, NumbersInv
<1>2. ASSUME NEW q \in Requests, Begins(q) \/ RequestStep(q) \/ Abort(q)
      PROVE  NumbersInv'
  <2>1. Effects(q)
    BY <1>2, StepEffects
  <2>2. PICK n \in 0..MaxVersion :
           /\ \A v \in Versions : status[v] # "none" <=> v <= n
           /\ \A r \in Requests : cpc[r] = "insert" => cmem[r].version \in 1..n + 1
    BY DEF NumbersInv
  <2>3. \A v \in Versions : status[v] # "none" => status'[v] # "none"
    BY SealedStaysSealed
  <2>4. cpc'[q] = "insert" => cmem'[q].version = n + 1
    BY <1>2, <2>2, InsertsNext, NextIsFree
  <2>5. \A r \in Requests : cpc'[r] = "insert" => cmem'[r].version \in 1..n + 1
    BY <2>1, <2>2, <2>4 DEF Effects, Alone
  <2>6. CASE \A v \in Versions : status'[v] # "none" => status[v] # "none"
    BY <2>2, <2>3, <2>5, <2>6 DEF NumbersInv
  <2>7. CASE \E v \in Versions : status'[v] # "none" /\ status[v] = "none"
    <3>1. PICK v \in Versions : status'[v] # "none" /\ status[v] = "none"
      BY <2>7
    <3>2. cpc[q] = "insert" /\ v = cmem[q].version
      BY <2>1, <3>1, Numbers DEF Effects, DraftInv, FreeInv, PublishedInv, Sealed
    <3>3. v = n + 1 /\ n + 1 \in 0..MaxVersion
      BY <2>2, <3>1, <3>2, PublishingAssumption DEF Versions
    <3>4. \A u \in Versions : status'[u] # "none" <=> u <= n + 1
      <4>1. \A u \in Versions \ {v} : status'[u] # "none" <=> status[u] # "none"
        BY <2>1, <2>3, <3>2, Numbers DEF Effects, DraftInv, FreeInv, PublishedInv, Sealed
      <4>2. QED
        BY <2>2, <3>1, <3>3, <4>1, PublishingAssumption DEF Versions
    <3>5. \A r \in Requests : cpc'[r] = "insert" => cmem'[r].version \in 1..n + 2
      BY <2>5
    <3>6. QED
      <4>1. n + 2 = (n + 1) + 1
        OBVIOUS
      <4>2. QED
        BY <3>3, <3>4, <3>5, <4>1 DEF NumbersInv
  <2>8. QED
    BY <2>6, <2>7
<1>3. QED
  BY <1>1, <1>2 DEF Next, Begins

\* The course begins with one version and no request.
LEMMA NumbersInit == Init => NumbersInv
<1> SUFFICES ASSUME Init PROVE NumbersInv
  OBVIOUS
<1>1. \A v \in Versions : status[v] # "none" <=> v <= 1
  BY PublishingAssumption DEF Init, Versions
<1>2. \A r \in Requests : cpc[r] # "insert"
  BY DEF Init
<1>3. 1 \in 0..MaxVersion
  BY PublishingAssumption
<1>4. QED
  BY <1>1, <1>2, <1>3 DEF NumbersInv

\* What the rows of the course are when requests do not overlap, between the
\* statements of a publication and of a draft and wherever these stop.
CourseInv ==
    /\ course.published # 0 => Valid(trees[course.published], meta[course.published])
    /\ \A v \in Versions :
          status[v] = "published" => v = course.published \/ v = course.draft
    /\ course.draft # 0 => course.draft # course.published
    /\ course.draft = 0 => course.published # 0 /\ status[course.published] = "published"

\* What the only request that runs knows of the course.
SoloShape(r) ==
    /\ cpc[r] \in {"tree", "mark", "supersede", "point", "source", "number", "insert",
                   "copy", "pointDraft"} => cmem[r].course = course
    /\ cpc[r] \in {"tree", "mark", "supersede", "point"} =>
           course.draft # 0 /\ cmem[r].version = course.draft
    /\ cpc[r] \in {"mark", "supersede", "point"} =>
           Valid(trees[course.draft], meta[course.draft])
    /\ cpc[r] \in {"supersede", "point"} => status[course.draft] = "published"
    /\ cpc[r] = "supersede" => course.published # 0
    /\ cpc[r] = "point" => \A v \in Versions : status[v] = "published" => v = course.draft
    /\ cpc[r] \in {"source", "number", "insert", "copy", "pointDraft"} =>
           course.published # 0 /\ course.draft = 0
    /\ cpc[r] = "insert" => status[cmem[r].version] = "none"
    /\ cpc[r] = "write" => status[cmem[r].version] = "draft"

SoloInv ==
    ~overlapped =>
        /\ CourseInv
        /\ \A r \in Requests : SoloShape(r)
        /\ \A r, s \in Requests : r = s \/ cpc[r] = "idle" \/ cpc[s] = "idle"

\* The steps of the only request, those that only read ...
LEMMA SoloReads ==
    ASSUME TypeInv, NumbersInv, CourseInv, NEW q \in Requests, SoloShape(q),
           \/ FindCourse(q) \/ LoadDraft(q) \/ LoadPublished(q)
           \/ NextVersionNumber(q) \/ FindNode(q) \/ CheckDraft(q)
    PROVE  CourseInv' /\ SoloShape(q)'
<1>t. Types /\ cmem[q] \in Memory
  BY DEF TypeInv, Types
<1>c. UNCHANGED <<status, meta, trees, course>>
  BY DEF FindCourse, LoadDraft, LoadPublished, NextVersionNumber, FindNode, CheckDraft, tables
<1>d. CourseInv'
  BY <1>c DEF CourseInv
<1>o. ASSUME cpc'[q] \in {"idle", "status", "writeMeta"} PROVE SoloShape(q)'
  BY <1>o DEF SoloShape
<1>i. Over(q) => cpc'[q] = "idle"
  BY <1>t, OverAlone
<1>1. CASE FindCourse(q)
  <2>1. CASE /\ course.draft # 0 /\ Step(q, "tree")
             /\ cmem' = [cmem EXCEPT ![q].course = course, ![q].version = course.draft]
    <3>1. /\ cmem'[q].course = course /\ cmem'[q].version = course.draft
          /\ cpc'[q] = "tree"
      BY <1>t, <2>1 DEF Step, Types, Memory
    <3>2. QED
      BY <1>c, <1>d, <2>1, <3>1 DEF SoloShape
  <2>2. CASE /\ course.published # 0 /\ course.draft = 0 /\ Step(q, "source")
             /\ cmem' = [cmem EXCEPT ![q].course = course]
    <3>1. cmem'[q].course = course /\ cpc'[q] = "source"
      BY <1>t, <2>2 DEF Step, Types, Memory
    <3>2. QED
      BY <1>c, <1>d, <2>2, <3>1 DEF SoloShape
  <2>3. QED
    BY <1>1, <1>d, <1>o, <1>i, <2>1, <2>2 DEF FindCourse
<1>2. CASE LoadDraft(q)
  <2>1. CASE /\ Valid(trees[cmem[q].version], meta[cmem[q].version])
             /\ Step(q, "mark") /\ UNCHANGED cmem /\ cpc[q] = "tree"
    <3>1. cpc'[q] = "mark"
      BY <1>t, <2>1 DEF Step, Types
    <3>2. QED
      BY <1>c, <1>d, <2>1, <3>1 DEF SoloShape
  <2>2. QED
    BY <1>2, <1>d, <1>o, <1>i, <2>1 DEF LoadDraft
<1>3. CASE LoadPublished(q)
  <2>1. /\ cmem'[q].course = cmem[q].course /\ cpc'[q] = "number" /\ cpc[q] = "source"
    BY <1>t, <1>3 DEF LoadPublished, Step, Types, Memory
  <2>2. QED
    BY <1>c, <1>d, <2>1 DEF SoloShape
<1>4. CASE NextVersionNumber(q)
  <2>1. /\ cpc'[q] = "insert" /\ cpc[q] = "number" /\ NextNumber(q) \in Versions
        /\ cmem' = [cmem EXCEPT ![q] = [cmem[q] EXCEPT !.version = NextNumber(q)]]
    BY <1>t, <1>4 DEF NextVersionNumber, Step, Types
  <2>2. /\ [cmem[q] EXCEPT !.version = NextNumber(q)].version = NextNumber(q)
        /\ [cmem[q] EXCEPT !.version = NextNumber(q)].course = cmem[q].course
    BY ONLY <1>t DEF Memory
  <2>3. cmem'[q].course = cmem[q].course /\ cmem'[q].version = NextNumber(q)
    BY <1>t, <2>1, <2>2 DEF Types
  <2>4. PICK n \in 0..MaxVersion : \A v \in Versions : status[v] # "none" <=> v <= n
    BY DEF NumbersInv
  <2>5. status[NextNumber(q)] = "none"
    BY <2>1, <2>4, NextIsFree
  <2>6. QED
    BY <1>c, <1>d, <2>1, <2>3, <2>5 DEF SoloShape
<1>5. CASE FindNode(q)
  <2>1. cpc'[q] \in {"idle", "status"}
    BY <1>t, <1>i, <1>5 DEF FindNode, Step, Types
  <2>2. QED
    BY <1>d, <1>o, <2>1
<1>6. CASE CheckDraft(q)
  <2>1. CASE status[cmem[q].version] = "draft"
    <3>1. cmem'[q].version = cmem[q].version /\ cpc'[q] \in {"write", "writeMeta"}
      BY <1>t, <1>6, <2>1 DEF CheckDraft, MayEdit, Step, Types, Memory
    <3>2. QED
      BY <1>c, <1>d, <2>1, <3>1 DEF SoloShape
  <2>2. QED
    BY <1>6, <1>d, <1>o, <1>i, <2>1 DEF CheckDraft, MayEdit
<1>7. QED
  BY <1>1, <1>2, <1>3, <1>4, <1>5, <1>6

\* ... the statements of a publication ...
LEMMA SoloPublishes ==
    ASSUME TypeInv, CourseInv, NEW q \in Requests, SoloShape(q),
           MarkPublished(q) \/ MarkSuperseded(q) \/ PointPublished(q)
    PROVE  CourseInv' /\ SoloShape(q)'
<1>t. /\ Types /\ status \in [Versions -> Status]
      /\ course.draft # 0 => course.draft \in Versions
      /\ course.published # 0 => course.published \in Versions
  BY Numbers DEF TypeInv, Types
<1>1. CASE MarkPublished(q)
  <2>1. /\ UNCHANGED <<meta, trees, course, cmem>> /\ cpc[q] = "mark"
        /\ cmem[q].version = course.draft /\ course.draft # 0 /\ cmem[q].course = course
        /\ Valid(trees[course.draft], meta[course.draft])
    BY <1>1 DEF MarkPublished, SoloShape
  <2>2. /\ status'[course.draft] = "published"
        /\ \A v \in Versions \ {course.draft} : status'[v] = status[v]
        /\ cpc'[q] = IF course.published = 0 THEN "point" ELSE "supersede"
    BY <1>1, <1>t, <2>1 DEF MarkPublished, AfterMark, Step, Types
  <2>3. CourseInv'
    BY <1>t, <2>1, <2>2 DEF CourseInv
  <2>4. ASSUME course.published = 0, NEW v \in Versions, status'[v] = "published"
        PROVE  v = course.draft
    BY <2>2, <2>4, Numbers DEF CourseInv
  <2>5. QED
    BY <2>1, <2>2, <2>3, <2>4 DEF SoloShape
<1>2. CASE MarkSuperseded(q)
  <2>1. /\ UNCHANGED <<meta, trees, course, cmem>> /\ cpc[q] = "supersede"
        /\ cmem[q].version = course.draft /\ course.draft # 0 /\ cmem[q].course = course
        /\ Valid(trees[course.draft], meta[course.draft])
        /\ status[course.draft] = "published" /\ course.published # 0
    BY <1>2 DEF MarkSuperseded, SoloShape
  <2>2. /\ status'[course.published] = "superseded"
        /\ \A v \in Versions \ {course.published} : status'[v] = status[v]
        /\ cpc'[q] = "point"
    BY <1>2, <1>t, <2>1 DEF MarkSuperseded, Step, Types
  <2>3. course.draft # course.published
    BY <2>1 DEF CourseInv
  <2>4. \A v \in Versions : status'[v] = "published" => v = course.draft
    BY <2>2 DEF CourseInv
  <2>5. CourseInv'
    BY <1>t, <2>1, <2>2, <2>3, <2>4 DEF CourseInv
  <2>6. QED
    BY <1>t, <2>1, <2>2, <2>3, <2>4, <2>5 DEF SoloShape
<1>3. CASE PointPublished(q)
  <2>1. /\ UNCHANGED <<status, meta, trees>> /\ cpc'[q] = "idle" /\ cpc[q] = "point"
        /\ course'.published = course.draft /\ course'.draft = 0 /\ course.draft # 0
    BY <1>3, <1>t, OverAlone DEF PointPublished, SoloShape
  <2>2. /\ Valid(trees[course.draft], meta[course.draft])
        /\ status[course.draft] = "published"
        /\ \A v \in Versions : status[v] = "published" => v = course.draft
    BY <2>1 DEF SoloShape
  <2>3. QED
    BY <2>1, <2>2 DEF CourseInv, SoloShape
<1>4. QED
  BY <1>1, <1>2, <1>3

\* ... and those that write a draft, which is not what students are served.
LEMMA SoloWrites ==
    ASSUME PublishingInv, CourseInv, NEW q \in Requests, SoloShape(q),
           \/ CreateVersion(q) \/ CopyNode(q) \/ PointDraft(q)
           \/ WriteNode(q) \/ UpdateVersionMetadata(q)
    PROVE  CourseInv' /\ SoloShape(q)'
<1> DEFINE v == cmem[q].version
<1>t. /\ Types /\ status \in [Versions -> Status]
      /\ course.draft # 0 => course.draft \in Versions
      /\ course.published # 0 => course.published \in Versions
      /\ cpc[q] \in {"insert", "copy", "pointDraft", "write"} => v \in Versions /\ v # 0
      /\ cpc[q] = "writeMeta" => v \in Versions
      /\ course.published # 0 => status[course.published] \in Sealed
      /\ Effects(q)
  BY Numbers, StepEffects
     DEF PublishingInv, TypeInv, Types, Shapes, RequestShape, PublishedInv, RequestStep
<1>i. Over(q) => cpc'[q] = "idle"
  BY <1>t, OverAlone
<1>k. ASSUME course' = course,
             \A u \in Versions : \/ status'[u] = status[u]
                                 \/ {status[u], status'[u]} \subseteq {"none", "draft"},
             \A u \in Versions : status[u] \in Sealed => trees'[u] = trees[u] /\ meta'[u] = meta[u]
      PROVE  CourseInv'
  BY <1>k, <1>t DEF CourseInv, Sealed
<1>1. CASE CreateVersion(q)
  <2>1. CASE status[v] = "none"
    <3>1. /\ cpc[q] = "insert" /\ cpc'[q] = "copy" /\ UNCHANGED <<trees, course, cmem>>
          /\ status' = [status EXCEPT ![v] = "draft"]
          /\ \A u \in Versions \ {v} : meta'[u] = meta[u]
      BY <1>1, <1>t, <2>1 DEF CreateVersion, Step, Types
    <3>2. CourseInv'
      BY <1>k, <1>t, <2>1, <3>1 DEF Sealed
    <3>3. QED
      BY <3>1, <3>2 DEF SoloShape
  <2>2. CASE status[v] # "none"
    BY <1>1, <1>i, <1>k, <2>2 DEF CreateVersion, SoloShape
  <2>3. QED
    BY <2>1, <2>2
<1>2. CASE CopyNode(q)
  <2>1. /\ cpc[q] = "copy" /\ cpc'[q] \in {"copy", "pointDraft"}
        /\ UNCHANGED <<status, meta, course, cmem>> /\ status[v] = "draft"
    BY <1>2, <1>t DEF CopyNode, Step, Types, PublishingInv, DraftInv, CopyInv, CopyShape
  <2>2. \A u \in Versions : trees'[u] # trees[u] => u = v
    BY <1>t DEF Effects
  <2>3. CourseInv'
    BY <1>k, <2>1, <2>2 DEF Sealed
  <2>4. QED
    BY <2>1, <2>3 DEF SoloShape
<1>3. CASE PointDraft(q)
  <2>1. /\ UNCHANGED <<status, meta, trees>> /\ cpc'[q] = "idle" /\ cpc[q] = "pointDraft"
        /\ course'.published = course.published /\ course'.draft = v
        /\ course.published # 0 /\ course.draft = 0
    BY <1>3, <1>i DEF PointDraft, SoloShape
  <2>2. status[v] = "draft" /\ v # 0
    BY <1>t, <2>1 DEF PublishingInv, DraftInv, CopyInv, CopyShape
  <2>3. CourseInv'
    BY <1>t, <2>1, <2>2, Numbers DEF CourseInv, Sealed, PublishingInv
  <2>4. QED
    BY <2>1, <2>3 DEF SoloShape
<1>4. CASE WriteNode(q)
  <2>1. /\ cpc[q] = "write" /\ cpc'[q] = "idle" /\ UNCHANGED <<status, meta, course>>
        /\ status[v] = "draft"
    BY <1>4, <1>i DEF WriteNode, SoloShape
  <2>2. \A u \in Versions : trees'[u] # trees[u] => u = v
    BY <1>t DEF Effects
  <2>3. QED
    BY <1>k, <2>1, <2>2 DEF Sealed, SoloShape
<1>5. CASE UpdateVersionMetadata(q)
  <2>1. cpc'[q] = "idle" /\ UNCHANGED <<status, trees, course>>
    BY <1>5, <1>i DEF UpdateVersionMetadata
  <2>2. \A u \in Versions : meta'[u] # meta[u] => status[u] \in {"none", "draft"}
    BY <1>t DEF Effects
  <2>3. QED
    BY <1>k, <2>1, <2>2 DEF Sealed, SoloShape
<1>6. QED
  BY <1>1, <1>2, <1>3, <1>4, <1>5

\* Steps of the only request; when a second one begins nothing is claimed.
LEMMA SoloNext ==
    PublishingInv /\ NumbersInv /\ SoloInv /\ [Next]_cvars => SoloInv'
<1> SUFFICES ASSUME PublishingInv, NumbersInv, SoloInv, [Next]_cvars PROVE SoloInv'
  OBVIOUS
<1>1. CASE UNCHANGED cvars
  BY <1>1 DEF cvars, tables, SoloInv, CourseInv, SoloShape
<1>2. ASSUME NEW q \in Requests, Begins(q) \/ RequestStep(q) \/ Abort(q), ~overlapped'
      PROVE  /\ CourseInv'
             /\ \A r \in Requests : SoloShape(r)'
             /\ \A r, s \in Requests : r = s \/ cpc'[r] = "idle" \/ cpc'[s] = "idle"
  <2>t. TypeInv /\ Types /\ Alone(q)
    BY <1>2, StepEffects DEF PublishingInv, TypeInv, Effects
  <2>1. /\ ~overlapped /\ \A s \in Requests \ {q} : cpc[s] = "idle"
        /\ cpc[q] = "idle" => Begins(q)
    <3>1. CASE Begins(q)
      BY <1>2, <2>t, <3>1, BeginsCall DEF Noted
    <3>2. CASE RequestStep(q) \/ Abort(q)
      <4>1. cpc[q] # "idle" /\ overlapped' = overlapped
        BY <3>2
           DEF RequestStep, Abort, FindCourse, LoadDraft, MarkPublished, MarkSuperseded,
               PointPublished, LoadPublished, NextVersionNumber, CreateVersion, CopyNode,
               PointDraft, FindNode, CheckDraft, WriteNode, UpdateVersionMetadata, Step, Over
      <4>2. QED
        BY <1>2, <4>1 DEF SoloInv
    <3>3. QED
      BY <1>2, <3>1, <3>2
  <2>2. CourseInv /\ SoloShape(q)
    BY <2>1 DEF SoloInv
  <2>3. CourseInv' /\ SoloShape(q)'
    <3>1. CASE Begins(q)
      BY <2>2, <2>t, <3>1, BeginsCall DEF Called, tables, CourseInv, SoloShape
    <3>2. CASE Abort(q)
      BY <2>2, <2>t, <3>2, OverAlone DEF Abort, tables, CourseInv, SoloShape
    <3>3. CASE RequestStep(q)
      BY <2>2, <2>t, <3>3, SoloReads, SoloPublishes, SoloWrites DEF RequestStep
    <3>4. QED
      BY <1>2, <3>1, <3>2, <3>3
  <2>4. \A s \in Requests \ {q} : cpc'[s] = "idle"
    BY <2>1, <2>t DEF Alone
  <2>5. QED
    BY <2>3, <2>4 DEF SoloShape
<1>3. ASSUME NEW q \in Requests, Begins(q) \/ RequestStep(q) \/ Abort(q) PROVE SoloInv'
  BY <1>2, <1>3 DEF SoloInv
<1>4. QED
  BY <1>1, <1>3 DEF Next, Begins

\* No request runs at the beginning, and the draft is not served.
LEMMA SoloInit == Init => SoloInv
<1> SUFFICES ASSUME Init PROVE SoloInv
  OBVIOUS
<1>1. course.published = 0 /\ course.draft = 1 /\ \A v \in Versions : status[v] # "published"
  BY DEF Init
<1>2. \A r \in Requests : cpc[r] = "idle"
  BY DEF Init
<1>3. QED
  BY <1>1, <1>2 DEF SoloInv, CourseInv, SoloShape

\* A publication or a draft that stops after any of its statements is repaired
\* by repeating it, as long as requests do not overlap.
THEOREM RetriesRepair == Spec => []RetryRepairs
<1> DEFINE Inv == PublishingInv /\ NumbersInv /\ SoloInv
<1>1. Inv => RetryRepairs
  <2> SUFFICES ASSUME Inv, ~overlapped
               PROVE  /\ \A r \in Requests :
                             cpc[r] = "insert" => status[cmem[r].version] = "none"
                      /\ Served # 0 => Valid(trees[Served], meta[Served])
                      /\ Quiet /\ course.draft = 0 =>
                            {v \in Versions : status[v] = "published"} = {course.published}
    BY DEF RetryRepairs
  <2>1. CourseInv /\ \A r \in Requests : SoloShape(r)
    BY DEF SoloInv
  <2>2. ASSUME course.draft = 0
        PROVE  {v \in Versions : status[v] = "published"} = {course.published}
    BY <2>1, <2>2, Numbers DEF CourseInv, PublishingInv
  <2>3. QED
    BY <2>1, <2>2 DEF CourseInv, SoloShape, Served
<1>2. Init => NumbersInv /\ SoloInv
  BY NumbersInit, SoloInit
<1>3. PublishingInv /\ NumbersInv /\ SoloInv /\ [Next]_cvars => NumbersInv' /\ SoloInv'
  BY NumbersNext, SoloNext DEF PublishingInv
<1>4. QED
  BY <1>1, <1>2, <1>3, PublishingCorrect, PTL DEF Spec
=============================================================================
