-------------------------- MODULE CoursePublishing --------------------------
(***************************************************************************)
(* The versions of ONE course: the edits of a draft (structure.go and      *)
(* content_draft.go of internal/courses/usecase), its publication          *)
(* (publish.go) and the draft that copies the published version            *)
(* (update_draft.go), every SQL statement a step, in requests of           *)
(* replicated API processes that run at the same time.                     *)
(*                                                                         *)
(* A node is a module, a unit or a resource with its stable_id; its copies *)
(* in several versions are the rows with that stable_id.  The SELECTs that *)
(* load one tree, or one node with its parents, are one step.  A failed    *)
(* statement, a refusal and a process that dies all end a request between  *)
(* two statements.                                                         *)
(***************************************************************************)
EXTENDS Naturals, FiniteSets

CONSTANTS
    Nodes,        \* stable ids of modules, units and resources
    Parent,       \* of a node: the node that contains it, Null for a module
    Resources,    \* the nodes that are resources (of rich text)
    MaxVersion,   \* version numbers that may be taken
    Requests,     \* API calls that may run at one time
    Null

\* Modules contain units, and units contain resources.
ASSUME PublishingAssumption ==
    /\ Parent \in [Nodes -> Nodes \cup {Null}] /\ Null \notin Nodes
    /\ Resources = {n \in Nodes : Parent[n] # Null /\ Parent[Parent[n]] # Null}
    /\ \A n \in Resources : Parent[Parent[Parent[n]]] = Null
    /\ MaxVersion \in Nat \ {0}

VARIABLES
    status,      \* course_versions.status, by version_number
    meta,        \* title, summary and category of the version are not blank
    trees,       \* the rows of each version: modules, units and resources
    course,      \* published_version_id and latest_draft_version_id
    cpc,         \* next step of each request
    cmem,        \* what each request holds in memory
    overlapped   \* history: two requests have run at the same time

tables == <<status, meta, trees, course>>
cvars  == <<tables, cpc, cmem, overlapped>>

Versions == 1..MaxVersion

Status == {"none", "draft", "published", "superseded"}

Text == {"blank", "written"}

Content == [face:  {"hidden", "shown"},  \* what PATCH writes: title, visible, ...
            text:  Text,                 \* content_markdown
            draft: Text]                 \* content_draft_markdown

ASSUME ContentAssumption == Null \notin Content

NewNode == [face |-> "shown", text |-> "blank", draft |-> "blank"]

Tree == [Nodes -> Content \cup {Null}]

NoTree == [n \in Nodes |-> Null]

In(tree) == {n \in Nodes : tree[n] # Null}

Children(tree, n) == {c \in In(tree) : Parent[c] = n}

Under_NoCascade(n) == {n}

Under(n) == {x \in Nodes : \/ x = n \/ Parent[x] = n
                           \/ Parent[x] # Null /\ Parent[Parent[x]] = n}

\* The version that content, outline and preview serve to a student.
Served == course.published

Pointers == [published: 0..MaxVersion, draft: 0..MaxVersion]   \* 0 is NULL

CPC == {"idle", "course", "tree", "mark", "supersede", "point", "source",
        "number", "insert", "copy", "pointDraft", "row", "status", "write",
        "writeMeta"}

Ops == {"publish", "branch", "meta", "create", "update", "delete", "save", "clear", "release"}

Memory == [op:      Ops,
           version: 0..MaxVersion + 1,   \* edited, published, copied or created
           node:    Nodes \cup {Null},
           face:    {"hidden", "shown"},
           full:    BOOLEAN,             \* the new metadata are not blank
           course:  Pointers,            \* the row of the course as it was read
           tree:    Tree,                \* the tree as it was read
           row:     Content \cup {Null}, \* the node as it was read
           seen:    Status]              \* the status of the version as it was read

Nothing == [op |-> "publish", version |-> 0, node |-> Null, face |-> "shown",
            full |-> FALSE, course |-> [published |-> 0, draft |-> 0],
            tree |-> NoTree, row |-> Null, seen |-> "none"]

\* CreateCourseWithFirstVersion, one transaction: a draft without modules.
Init ==
    /\ status = [v \in Versions |-> IF v = 1 THEN "draft" ELSE "none"]
    /\ meta \in {[v \in Versions |-> v = 1 /\ full] : full \in BOOLEAN}
    /\ trees = [v \in Versions |-> NoTree]
    /\ course = [published |-> 0, draft |-> 1]
    /\ cpc = [r \in Requests |-> "idle"]
    /\ cmem = [r \in Requests |-> Nothing]
    /\ overlapped = FALSE

Step(r, step) == cpc' = [cpc EXCEPT ![r] = step] /\ UNCHANGED overlapped

Over(r) == Step(r, "idle") /\ cmem' = [cmem EXCEPT ![r] = Nothing]

Begin(r, step, call) ==
    /\ cpc[r] = "idle"
    /\ cpc' = [cpc EXCEPT ![r] = step]
    /\ cmem' = [cmem EXCEPT ![r] = call]
    /\ overlapped' = (overlapped \/ \E s \in Requests : cpc[s] # "idle")
    /\ UNCHANGED tables

-----------------------------------------------------------------------------
(* PublishVersion: three statements, in this order *)

BeginPublish(r) == Begin(r, "course", [Nothing EXCEPT !.op = "publish"])

BeginBranch(r) == Begin(r, "course", [Nothing EXCEPT !.op = "branch"])

\* PublishVersion needs a draft, CreateUpdateDraft a published version and none.
FindCourse(r) ==
    /\ cpc[r] = "course"
    /\ \/ /\ cmem[r].op = "publish" /\ course.draft # 0
          /\ Step(r, "tree")
          /\ cmem' = [cmem EXCEPT ![r].course = course, ![r].version = course.draft]
       \/ /\ cmem[r].op = "branch" /\ course.published # 0 /\ course.draft = 0
          /\ Step(r, "source")
          /\ cmem' = [cmem EXCEPT ![r].course = course]
       \/ /\ \/ cmem[r].op = "publish" /\ course.draft = 0
             \/ cmem[r].op = "branch" /\ (course.published = 0 \/ course.draft # 0)
          /\ Over(r)
    /\ UNCHANGED tables

\* ValidatePublication.
Shown(tree, u) == {x \in Children(tree, u) : tree[x].face = "shown"}

Valid_HiddenToo(tree, full) ==
    /\ full
    /\ Children(tree, Null) # {}
    /\ \A n \in In(tree) \ Resources : Children(tree, n) # {}

Valid(tree, full) ==
    /\ full
    /\ Children(tree, Null) # {}
    /\ \A m \in Children(tree, Null) :
          /\ Children(tree, m) # {}
          /\ \A u \in Children(tree, m) :
                /\ Shown(tree, u) # {}
                /\ \A x \in Shown(tree, u) : tree[x].text = "written"

\* LoadTree does not ask whether the version is still a draft: a publication
\* that failed in the middle is published again.
LoadDraft(r) ==
    /\ cpc[r] = "tree"
    /\ IF Valid(trees[cmem[r].version], meta[cmem[r].version])
       THEN Step(r, "mark") /\ UNCHANGED cmem
       ELSE Over(r)
    /\ UNCHANGED tables

\* The old version is superseded, if there was one.
AfterMark(old) == IF old = 0 THEN "point" ELSE "supersede"

MarkPublished(r) ==
    /\ cpc[r] = "mark"
    /\ status' = [status EXCEPT ![cmem[r].version] = "published"]
    /\ Step(r, AfterMark(cmem[r].course.published))
    /\ UNCHANGED <<meta, trees, course, cmem>>

MarkSuperseded(r) ==
    /\ cpc[r] = "supersede"
    /\ status' = [status EXCEPT ![cmem[r].course.published] = "superseded"]
    /\ Step(r, "point")
    /\ UNCHANGED <<meta, trees, course, cmem>>

\* UpdateCoursePublishedVersion writes both pointers.
PointPublished(r) ==
    /\ cpc[r] = "point"
    /\ course' = [published |-> cmem[r].version, draft |-> 0]
    /\ Over(r)
    /\ UNCHANGED <<status, meta, trees>>

-----------------------------------------------------------------------------
(* CreateUpdateDraft: a new version, a row for each node, the pointer last *)

LoadPublished(r) ==
    /\ cpc[r] = "source"
    /\ Step(r, "number")
    /\ LET v == cmem[r].course.published
       IN  cmem' = [cmem EXCEPT ![r].tree = trees[v], ![r].full = meta[v]]
    /\ UNCHANGED tables

\* One more than the greatest number of the course.
NextNumber_AfterPublished(r) == cmem[r].course.published + 1

NextNumber(r) == Cardinality({v \in Versions : status[v] # "none"}) + 1

NextVersionNumber(r) ==
    /\ cpc[r] = "number"
    /\ NextNumber(r) \in Versions
    /\ Step(r, "insert")
    /\ cmem' = [cmem EXCEPT ![r].version = NextNumber(r)]
    /\ UNCHANGED tables

\* UNIQUE (course_id, version_number).
CreateVersion(r) ==
    /\ cpc[r] = "insert"
    /\ LET v == cmem[r].version
       IN  \/ /\ status[v] = "none"
              /\ status' = [status EXCEPT ![v] = "draft"]
              /\ meta' = [meta EXCEPT ![v] = cmem[r].full]
              /\ Step(r, "copy") /\ UNCHANGED cmem
           \/ /\ status[v] # "none"
              /\ Over(r) /\ UNCHANGED <<status, meta>>
    /\ UNCHANGED <<trees, course>>

\* Modules, units and resources that are not in the copy yet.
ToCopy_NoLeaves(r) ==
    {n \in In(cmem[r].tree) \ In(trees[cmem[r].version]) : n \notin Resources}

ToCopy(r) == In(cmem[r].tree) \ In(trees[cmem[r].version])

CopyNode(r) ==
    /\ cpc[r] = "copy"
    /\ LET v == cmem[r].version
       IN  \/ \E n \in ToCopy(r) :
                 /\ Parent[n] \in In(trees[v]) \cup {Null}
                 /\ trees' = [trees EXCEPT ![v][n] = cmem[r].tree[n]]
                 /\ Step(r, "copy")
           \/ ToCopy(r) = {} /\ Step(r, "pointDraft") /\ UNCHANGED trees
    /\ UNCHANGED <<status, meta, course, cmem>>

\* The published pointer that was read at the beginning is written again.
PointDraft_Swapped(r) ==
    /\ cpc[r] = "pointDraft"
    /\ course' = [published |-> cmem[r].version, draft |-> cmem[r].course.published]
    /\ Over(r)
    /\ UNCHANGED <<status, meta, trees>>

PointDraft(r) ==
    /\ cpc[r] = "pointDraft"
    /\ course' = [published |-> cmem[r].course.published, draft |-> cmem[r].version]
    /\ Over(r)
    /\ UNCHANGED <<status, meta, trees>>

-----------------------------------------------------------------------------
(* Edits of a version: the row is read, the version must be a draft, then   *)
(* the row is written                                                       *)

\* The versions the teacher is shown.
Visible == {course.published, course.draft} \ {0}

BeginEdit(r, op, n, face) ==
    \E v \in Visible : Begin(r, "row", [Nothing EXCEPT !.op = op, !.version = v,
                                                       !.node = n, !.face = face])

\* A POST, a PATCH or a DELETE of a module or a unit; its title stands for a face.
BeginStructure(r) ==
    \E n \in Nodes \ Resources :
        \/ \E op \in {"create", "update"}, face \in {"hidden", "shown"} :
              BeginEdit(r, op, n, face)
        \/ BeginEdit(r, "delete", n, "shown")

BeginResource(r) ==
    \E n \in Resources :
        \/ \E op \in {"create", "update"}, face \in {"hidden", "shown"} :
              BeginEdit(r, op, n, face)
        \/ BeginEdit(r, "delete", n, "shown")

\* The autosave of the editor, and the text that is to be published.
BeginContent(r) ==
    \E n \in Resources, op \in {"save", "clear", "release"} : BeginEdit(r, op, n, "shown")

BeginUpdateVersion(r) ==
    \E v \in Visible, full \in BOOLEAN :
        Begin(r, "status", [Nothing EXCEPT !.op = "meta", !.version = v, !.full = full])

\* A new node needs its parent, any other operation its row.
HasRows(m) ==
    \/ m.op = "create" /\ Parent[m.node] \in In(trees[m.version]) \cup {Null}
    \/ m.op # "create" /\ m.node \in In(trees[m.version])

\* The stable_id of a new row is new: gen_random_uuid().
IsNew(n) == \A v \in Versions : n \notin In(trees[v])

FindNode(r) ==
    /\ cpc[r] = "row"
    /\ LET m == cmem[r]
       IN  IF HasRows(m) /\ (m.op = "create" => IsNew(m.node))
           THEN /\ Step(r, "status")
                /\ cmem' = [cmem EXCEPT ![r].row = trees[m.version][m.node]]
           ELSE Over(r)
    /\ UNCHANGED tables

\* ensureVersionIsDraft.
MayEdit_IfPointed(v) == v = course.draft \/ status[v] = "draft"

MayEdit(v) == status[v] = "draft"

CheckDraft(r) ==
    /\ cpc[r] = "status"
    /\ LET v == cmem[r].version
       IN  IF MayEdit(v)
           THEN /\ Step(r, IF cmem[r].op = "meta" THEN "writeMeta" ELSE "write")
                /\ cmem' = [cmem EXCEPT ![r].seen = status[v]]
           ELSE Over(r)
    /\ UNCHANGED tables

\* The whole row, as read but for the columns of the operation.  The editor
\* saves a text or an empty one.
Saved(row) == [row EXCEPT !.draft = "written"]

Cleared(row) == [row EXCEPT !.draft = "blank"]

Released(row) == [row EXCEPT !.text = row.draft]

Edited(m) ==
    CASE m.op = "create"  -> [NewNode EXCEPT !.face = m.face]
      [] m.op = "update"  -> [m.row EXCEPT !.face = m.face]
      [] m.op = "save"    -> Saved(m.row)
      [] m.op = "clear"   -> Cleared(m.row)
      [] m.op = "release" -> Released(m.row)

\* ON DELETE CASCADE.
Without(tree, n) == [x \in Nodes |-> IF x \in Under(n) THEN Null ELSE tree[x]]

\* INSERT fails without its parent, UPDATE finds no deleted row.
WriteNode(r) ==
    /\ cpc[r] = "write"
    /\ LET m    == cmem[r]
           tree == trees[m.version]
       IN  trees' = [trees EXCEPT ![m.version] =
              CASE m.op = "delete"               -> Without(tree, m.node)
                [] m.op # "delete" /\ HasRows(m) -> [tree EXCEPT ![m.node] = Edited(m)]
                [] OTHER                         -> tree]
    /\ Over(r)
    /\ UNCHANGED <<status, meta, course>>

\* UPDATE course_versions ... AND status = 'draft'.
UpdateVersionMetadata(r) ==
    /\ cpc[r] = "writeMeta"
    /\ LET v == cmem[r].version
       IN  meta' = IF status[v] = "draft" THEN [meta EXCEPT ![v] = cmem[r].full] ELSE meta
    /\ Over(r)
    /\ UNCHANGED <<status, trees, course>>

RequestStep(r) ==
    \/ FindCourse(r)     \/ LoadDraft(r)         \/ MarkPublished(r)
    \/ MarkSuperseded(r) \/ PointPublished(r)    \/ LoadPublished(r)
    \/ NextVersionNumber(r) \/ CreateVersion(r)  \/ CopyNode(r)
    \/ PointDraft(r)     \/ FindNode(r)          \/ CheckDraft(r)
    \/ WriteNode(r)      \/ UpdateVersionMetadata(r)

Abort(r) == cpc[r] # "idle" /\ Over(r) /\ UNCHANGED tables

Next ==
    \/ \E r \in Requests : BeginPublish(r)
    \/ \E r \in Requests : BeginBranch(r)
    \/ \E r \in Requests : BeginStructure(r)
    \/ \E r \in Requests : BeginResource(r)
    \/ \E r \in Requests : BeginContent(r)
    \/ \E r \in Requests : BeginUpdateVersion(r)
    \/ \E r \in Requests : RequestStep(r)
    \/ \E r \in Requests : Abort(r)

Spec == Init /\ [][Next]_cvars

-----------------------------------------------------------------------------
(* Properties *)

PublishingTypeOK ==
    /\ status \in [Versions -> Status]
    /\ meta \in [Versions -> BOOLEAN]
    /\ trees \in [Versions -> Tree]
    /\ course \in Pointers
    /\ cpc \in [Requests -> CPC]
    /\ cmem \in [Requests -> Memory]
    /\ overlapped \in BOOLEAN
    /\ \A v \in Versions : \A n \in In(trees[v]) : Parent[n] \in In(trees[v]) \cup {Null}

\* Students are only served a version that was published: whatever publications
\* and drafts of the course run at once, stop in the middle or write pointers
\* they read long ago, the published pointer never names a draft
\* (handler.go:335-336).
StudentsSeePublished == Served # 0 => status[Served] \in {"published", "superseded"}

\* The requests that found the version to be a draft and are to write it.
Writing(v) ==
    {r \in Requests : cpc[r] = "write" /\ cmem[r].version = v /\ cmem[r].seen = "draft"}

\* Once a version is published, the only edits that still reach it are those
\* that found it a draft before, and none of them is an edit of its metadata.
SealedStays ==
    [][\A v \in Versions :
          status[v] \in {"published", "superseded"} =>
              /\ meta'[v] = meta[v]
              /\ Writing(v) = {} => trees'[v] = trees[v]]_cvars

\* The draft of a published course is a whole copy of what was published: the
\* copy is made row by row, may die at each row and may run twice, and the
\* teacher is pointed to it only when each node is there, with its stable_id
\* and its contents.
DraftIsWhole ==
    \A r \in Requests :
        cpc[r] = "pointDraft" => /\ trees[cmem[r].version] = cmem[r].tree
                                 /\ status[cmem[r].version] = "draft"

Quiet == \A r \in Requests : cpc[r] = "idle"

\* A publication or a draft that stops after any of its statements is repaired
\* by repeating it, as long as requests do not overlap: the number of the next
\* version is free, what students are shown is valid, and when no draft is left
\* exactly one version is published, the one they are shown.
RetryRepairs ==
    ~overlapped =>
        /\ \A r \in Requests : cpc[r] = "insert" => status[cmem[r].version] = "none"
        /\ Served # 0 => Valid(trees[Served], meta[Served])
        /\ Quiet /\ course.draft = 0 =>
              {v \in Versions : status[v] = "published"} = {course.published}
-----------------------------------------------------------------------------
(* Claims of the repository that this code does not keep *)

\* "evita cualquier mutacion de estructura sobre una version publicada"
\* (structure.go:24-26): the modules, units and resources of a published
\* version never change.
PublishedIsImmutable ==
    [][\A v \in Versions :
          status[v] \in {"published", "superseded"} => trees'[v] = trees[v]]_cvars

\* "publica la version draft ... si todo esta en orden" (publish.go:75): what
\* students are shown passes ValidatePublication.
PublishedIsValid == Served # 0 => Valid(trees[Served], meta[Served])

\* "esa version pasa a superseded" (publish.go:75-77): the course never goes
\* back to a version that another one took the place of.
PublicationGoesForward == [][course'.published >= course.published]_cvars
=============================================================================
