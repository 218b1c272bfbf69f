--------------------------- MODULE ExamAuthoring ---------------------------
(***************************************************************************)
(* Authoring of one exam by several admins (routers/admin.py), publishing, *)
(* and the paper that is frozen for a student at the start and rendered on *)
(* every request after that (services/paper.py).                           *)
(*                                                                         *)
(* A handler is one READ COMMITTED transaction: it reads and checks        *)
(* (Begin...) and later writes and commits (Commit...).  Nothing locks the *)
(* exam in between.  A request that fails its checks changes nothing and   *)
(* is left out.  The set of options, or of test cases, of a question is a  *)
(* stamp: the number of the request that inserted it; every inserted set   *)
(* has passed "exactly one correct option" or "a sample and a hidden case".*)
(***************************************************************************)
EXTENDS Naturals, SequencesExt

CONSTANTS Admins, Students, Sections, Groups, Questions,
          None,
          Papers,          \* exams that may be there at the beginning
          Indexes,         \* order_index values of a payload
          Touching,        \* whether an update of a question may, must or must not
                           \* change its own row, beside its options or test cases
          ShuffleOptions,  \* randomize_options
          MaxEdits         \* bound: requests of admins

QuestionRows == [section : Sections, group : Groups \cup {None}, index : Nat, content : SUBSET Nat]
GroupRows    == [section : Sections, index : Nat]

ASSUME AuthoringAssumption ==
    /\ None \notin Sections \cup Groups \cup Questions
    /\ Questions \cap (Sections \cup Groups) = {} /\ Sections \cap Groups = {}
    /\ IsFiniteSet(Questions) /\ IsFiniteSet(Groups)
    /\ \A p \in Papers :
          /\ p.sections \subseteq Sections
          /\ p.groups \in [Groups -> {None} \cup [section : p.sections, index : Nat]]
          /\ p.questions \in [Questions -> {None} \cup
                [section : p.sections, group : Groups \cup {None}, index : Nat, content : {{0}}]]
          /\ \A q \in Questions : p.questions[q] # None /\ p.questions[q].group # None =>
                /\ p.groups[p.questions[q].group] # None
                /\ p.groups[p.questions[q].group].section = p.questions[q].section
    /\ None \notin QuestionRows \cup GroupRows
    /\ Indexes \subseteq Nat /\ Touching \subseteq BOOLEAN /\ ShuffleOptions \in BOOLEAN
    /\ MaxEdits \in Nat

VARIABLES
    exam,       \* draft, published, closed, deleted
    settings,   \* fits: the window is as long as the duration; shuffle: randomize_questions
    sections, groups, questions,      \* the rows; None where there is none
    fresh,      \* identifiers that were never given (uuid4)
    attempt,    \* the student's frozen question_order
    req, edits, \* the transactions of the admins; how many there have been
    loading,    \* the order a start_exam has built and not yet inserted
    \* History: the paper shown at the start, whether the start overlapped an edit or the
    \* exam was closed, whether an admin's transaction was alone.
    shown, clean, solo

rows    == <<settings, sections, groups, questions>>
starts  == <<attempt, loading, shown>>
vars    == <<exam, rows, starts, req, edits, fresh, clean, solo>>

Idle == [op |-> "idle"]

QuestionRow(s, g, i, c) == [section |-> s, group |-> g, index |-> i, content |-> c]
GroupRow(s, i) == [section |-> s, index |-> i]
Row(s, g, i)   == QuestionRow(s, g, i, {edits + 1})

There(q)      == questions[q] # None
InSection(s)  == {q \in Questions : There(q) /\ questions[q].section = s}
Standalone(s) == {q \in InSection(s) : questions[q].group = None}
GroupsIn(s)   == {g \in Groups : groups[g] # None /\ groups[g].section = s}
Members(g)    == {q \in Questions : There(q) /\ questions[q].group = g}

\* ORDER BY order_index, ties as it happens.
ByIndex(S) == CHOOSE s \in SetToSeqs(S) : \A i, j \in DOMAIN s :
                 i < j => questions[s[i]].index <= questions[s[j]].index

\* coalesce(max(order_index), -1) + 1
NextIndex(s) ==
    IF InSection(s) = {} THEN 0 ELSE Max({questions[q].index : q \in InSection(s)}) + 1

\* Mutant of Editable: a submitted attempt does not count.
EditableAlways == exam \in {"draft", "published", "closed"}

\* _assert_editable
Editable ==
    /\ exam # "deleted"
    /\ exam = "published" => \A s \in Students : attempt[s] = None

-----------------------------------------------------------------------------
\* Requests of admins: what is read and checked.

\* ids are the identifiers that the new rows take.
Begin(a, ids, r) ==
    /\ req[a] = Idle /\ edits < MaxEdits
    /\ ids \subseteq fresh /\ fresh' = fresh \ ids
    /\ req' = [req EXCEPT ![a] = r]
    /\ edits' = edits + 1
    /\ solo' = [b \in Admins |-> \A c \in Admins \ {a} : req[c] = Idle]
    /\ UNCHANGED <<exam, rows, starts>>

BeginEdit(a, ids, r) ==
    /\ Editable
    /\ clean' = [s \in Students |-> clean[s] /\ loading[s] = None]
    /\ Begin(a, ids, r)

Insert(new, g, i) == [op |-> "insert", group |-> g, index |-> i, new |-> new]

CreateSection(a, s) ==
    BeginEdit(a, {s}, [op |-> "section", section |-> s])

\* create_mcq, create_coding_problem
CreateQuestion(a, s, q, i) ==
    /\ s \in sections
    /\ BeginEdit(a, {q}, Insert([x \in {q} |-> Row(s, None, i)], None, 0))

\* bulk_upload_mcq with two rows that are not skipped
BulkUpload(a, s, q, r) ==
    /\ s \in sections /\ q # r
    /\ BeginEdit(a, {q, r}, Insert([x \in {q, r} |->
          Row(s, None, IF x = q THEN NextIndex(s) ELSE NextIndex(s) + 1)], None, 0))

CopyQuestion(a, p, s, q) ==
    /\ There(p) /\ questions[p].group = None /\ s \in sections
    /\ BeginEdit(a, {q}, Insert([x \in {q} |-> Row(s, None, NextIndex(s))], None, 0))

\* create_di_group: the children are numbered from 0 unless the payload says otherwise.
CreateGroup(a, s, g, q, r, i) ==
    /\ s \in sections /\ q # r
    /\ BeginEdit(a, {g, q, r}, Insert([x \in {q, r} |->
          Row(s, g, IF x = r /\ i = 0 THEN 1 ELSE i)], g, i))

\* update_mcq, update_coding
UpdateQuestion(a, q, touch) ==
    /\ There(q)
    /\ BeginEdit(a, {}, [op |-> "update", touch |-> touch, id |-> q, stamp |-> edits + 1,
                         removed |-> {}])

\* delete_question does not ask for the group; delete_di_group deletes the children it read.
DeleteQuestion(a, q) ==
    There(q) /\ BeginEdit(a, {}, [op |-> "delete", group |-> None, ids |-> {q}])

DeleteGroup(a, g) ==
    groups[g] # None /\ BeginEdit(a, {}, [op |-> "delete", group |-> g, ids |-> Members(g)])

\* What a payload orders: standalone questions and groups.
Items(s)  == Standalone(s) \cup GroupsIn(s)
ItemOf(q) == IF questions[q].group = None THEN q ELSE questions[q].group
Of(x)     == IF x \in Groups THEN Members(x) ELSE {x}

Precedes(s, x, y) == \E i, j \in DOMAIN s : i < j /\ s[i] = x /\ s[j] = y

\* Mutant of Before: a group takes one index.
BeforeByItem(items, x) == {y \in Range(items) : Precedes(items, y, x)}

\* The questions that have their index when the loop comes to item x.
Before(items, x) == {q \in Questions : There(q) /\ Precedes(items, ItemOf(q), x)}

\* The index is the number of questions that have theirs; children keep their order.
Plan(items) ==
    [q \in {p \in Questions : There(p) /\ ItemOf(p) \in Range(items)} |->
        LET block == Of(ItemOf(q)) IN
        Cardinality(Before(items, ItemOf(q)) \cup {r \in block : Precedes(ByIndex(block), r, q)})]

\* reorder_section: the payload is a permutation of the section's items.
Reorder(a, s, items) ==
    /\ s \in sections /\ items \in SetToSeqs(Items(s))
    /\ BeginEdit(a, {}, [op |-> "reorder", items |-> items, plan |-> Plan(items),
                     seen |-> [q \in DOMAIN Plan(items) |-> questions[q].index],
                     gplan |-> [g \in Range(items) \cap Groups |-> Cardinality(Before(items, g))]])

UpdateExam(a, new) == BeginEdit(a, {}, [op |-> "patch", columns |-> new])

\* What publish_exam checks.
Ready ==
    /\ sections # {} /\ settings.fits
    /\ \A s \in sections : InSection(s) # {}
    /\ \A q \in Questions : There(q) => Cardinality(questions[q].content) = 1
    /\ \A g \in Groups : groups[g] # None => Members(g) # {}

Publish(a) ==
    /\ exam # "deleted" /\ Ready
    /\ Begin(a, {}, [op |-> "publish", loaded |-> exam]) /\ UNCHANGED clean

Close(a) ==
    exam # "deleted" /\ Begin(a, {}, [op |-> "close", loaded |-> exam]) /\ UNCHANGED clean

DeleteExam(a) ==
    /\ exam # "deleted" /\ \A s \in Students : attempt[s] = None
    /\ Begin(a, {}, [op |-> "drop"]) /\ UNCHANGED clean

-----------------------------------------------------------------------------
\* Requests of admins: what is written.

Commit(a, op) ==
    /\ req[a].op = op
    /\ req' = [req EXCEPT ![a] = Idle]
    /\ UNCHANGED <<starts, edits, fresh, solo>>

\* An update that has replaced the options holds the question's row until it commits:
\* against deletion because of the foreign key, against all writes if it touched it.
Held(q)    == \E b \in Admins : req[b].op = "replaced" /\ req[b].id = q
Touched(q) == \E b \in Admins : req[b].op = "replaced" /\ req[b].id = q /\ req[b].touch

\* Its parent is gone, or a row it writes is: IntegrityError, StaleDataError.
Fails(r) ==
    \/ exam = "deleted"
    \/ r.op = "update" /\ ~There(r.id)
    \/ r.op = "reorder" /\ \E q \in DOMAIN r.plan : r.plan[q] # r.seen[q] /\ ~There(q)

Abort(a) ==
    /\ req[a] # Idle /\ Fails(req[a])
    /\ Commit(a, req[a].op) /\ UNCHANGED <<exam, rows, clean>>

CommitSection(a) ==
    /\ Commit(a, "section") /\ ~Fails(req[a])
    /\ sections' = sections \cup {req[a].section}
    /\ UNCHANGED <<exam, settings, groups, questions, clean>>

CommitInsert(a) ==
    /\ Commit(a, "insert") /\ ~Fails(req[a])
    /\ questions' = [q \in Questions |->
                        IF q \in DOMAIN req[a].new THEN req[a].new[q] ELSE questions[q]]
    /\ groups' = [g \in Groups |->
                    IF g = req[a].group
                    THEN GroupRow((CHOOSE row \in Range(req[a].new) : TRUE).section, req[a].index)
                    ELSE groups[g]]
    /\ UNCHANGED <<exam, settings, sections, clean>>

\* Mutant of Replace: the options are deleted before the question's row is written.
ReplaceFirst(a) ==
    /\ req[a].op = "update" /\ There(req[a].id) /\ exam # "deleted"
    /\ req' = [req EXCEPT ![a].op = "replaced", ![a].removed = questions[req[a].id].content]
    /\ UNCHANGED <<exam, rows, starts, edits, fresh, clean, solo>>

\* The UPDATE of the row, if it changed, then DELETE of the options it sees.
Replace(a) ==
    /\ req[a].op = "update" /\ There(req[a].id) /\ exam # "deleted"
    /\ req[a].touch => ~Touched(req[a].id)
    /\ req' = [req EXCEPT ![a].op = "replaced", ![a].removed = questions[req[a].id].content]
    /\ UNCHANGED <<exam, rows, starts, edits, fresh, clean, solo>>

CommitUpdate(a) ==
    /\ Commit(a, "replaced")
    /\ questions' = [questions EXCEPT ![req[a].id].content =
                        (@ \ req[a].removed) \cup {req[a].stamp}]
    /\ UNCHANGED <<exam, settings, sections, groups, clean>>

\* Mutant of CommitDelete: a group goes without its children.
DeletesGroupOnly(a) ==
    /\ Commit(a, "delete") /\ ~Fails(req[a])
    /\ questions' = [q \in Questions |->
                        IF req[a].group = None /\ q \in req[a].ids THEN None ELSE questions[q]]
    /\ groups' = [g \in Groups |-> IF g = req[a].group THEN None ELSE groups[g]]
    /\ UNCHANGED <<exam, settings, sections, clean>>

CommitDelete(a) ==
    /\ Commit(a, "delete") /\ ~Fails(req[a])
    /\ \A q \in req[a].ids : ~Held(q)
    /\ questions' = [q \in Questions |-> IF q \in req[a].ids THEN None ELSE questions[q]]
    /\ groups' = [g \in Groups |-> IF g = req[a].group THEN None ELSE groups[g]]
    /\ UNCHANGED <<exam, settings, sections, clean>>

\* Only what differs from the rows read is written.
CommitReorder(a) ==
    LET r     == req[a]
        moved == {q \in DOMAIN r.plan : r.plan[q] # r.seen[q]}
    IN /\ Commit(a, "reorder") /\ ~Fails(r)
       /\ \A q \in moved : ~Touched(q)
       /\ questions' = [q \in Questions |->
                          IF q \in moved THEN [questions[q] EXCEPT !.index = r.plan[q]]
                          ELSE questions[q]]
       /\ groups' = [g \in Groups |->
                       IF g \in DOMAIN r.gplan /\ groups[g] # None
                       THEN [groups[g] EXCEPT !.index = r.gplan[g]] ELSE groups[g]]
       /\ UNCHANGED <<exam, settings, sections, clean>>

CommitSettings(a) ==
    /\ Commit(a, "patch") /\ ~Fails(req[a])
    /\ settings' = req[a].columns
    /\ UNCHANGED <<exam, sections, groups, questions, clean>>

\* The status is written only if it differs from the one that was read.
CommitPublish(a) ==
    /\ Commit(a, "publish") /\ ~Fails(req[a])
    /\ exam' = IF req[a].loaded = "published" THEN exam ELSE "published"
    /\ UNCHANGED <<rows, clean>>

CommitClose(a) ==
    /\ Commit(a, "close") /\ ~Fails(req[a])
    /\ exam' = IF req[a].loaded = "closed" THEN exam ELSE "closed"
    /\ clean' = [s \in Students |-> FALSE]
    /\ UNCHANGED rows

\* The exam with all that refers to it, attempts included (ON DELETE CASCADE).
CommitDrop(a) ==
    /\ req[a].op = "drop" /\ exam # "deleted" /\ \A q \in Questions : ~Held(q)
    /\ req' = [req EXCEPT ![a] = Idle]
    /\ exam' = "deleted" /\ sections' = {}
    /\ questions' = [q \in Questions |-> None] /\ groups' = [g \in Groups |-> None]
    /\ attempt' = [s \in Students |-> None]
    /\ UNCHANGED <<settings, loading, shown, edits, fresh, clean, solo>>

-----------------------------------------------------------------------------
\* The student's paper.

\* Mutant of Blocks: the children of a group are shuffled like any other question.
Loose(s) == {[group |-> questions[q].group, ids |-> <<q>>] : q \in InSection(s)}

Blocks(s) ==
    {[group |-> None, ids |-> <<q>>] : q \in Standalone(s)} \cup
    {[group |-> g, ids |-> ByIndex(Members(g))] :
        g \in {questions[q].group : q \in InSection(s)} \ {None}}

\* Without shuffling: the standalone questions by index, then the groups by first child.
InOrder(blocks) ==
    \A i, j \in 1 .. Len(blocks) : i < j =>
        LET b == blocks[i] c == blocks[j] IN
        IF (b.group = None) = (c.group = None)
        THEN questions[b.ids[1]].index <= questions[c.ids[1]].index
        ELSE c.group # None

\* build_question_order
QuestionOrders ==
    {o \in [sections -> UNION {SetToSeqs(Blocks(s)) : s \in sections}] :
        \A s \in sections : /\ o[s] \in SetToSeqs(Blocks(s))
                            /\ settings.shuffle \/ InOrder(o[s])}

OptionOrder == [q \in {p \in Questions : ShuffleOptions /\ There(p)} |-> questions[q].content]

Ids(blocks) == FlattenSeq([i \in 1 .. Len(blocks) |-> blocks[i].ids])

\* _question_out: options that the frozen order does not know are dropped.
Options(q, frozen) ==
    IF q \in DOMAIN frozen.options THEN questions[q].content \cap frozen.options[q]
    ELSE questions[q].content

\* render_paper: what is gone is skipped.
Render(frozen) ==
    [s \in DOMAIN frozen.order \cap sections |->
        LET ids == Ids(frozen.order[s])
        IN FlattenSeq([i \in DOMAIN ids |->
              IF There(ids[i]) THEN <<<<ids[i], Options(ids[i], frozen)>>>> ELSE <<>>])]

\* start_exam, first half: the exam tree is loaded and the order built.
LoadPaper(s) ==
    /\ exam = "published" /\ attempt[s] = None /\ loading[s] = None
    /\ \E order \in QuestionOrders :
          /\ loading' = [loading EXCEPT ![s] = [options |-> OptionOrder, order |-> order]]
          /\ shown' = [shown EXCEPT ![s] = Render(loading'[s])]
    /\ clean' = [clean EXCEPT ![s] = \A a \in Admins : req[a] = Idle]
    /\ UNCHANGED <<exam, rows, attempt, req, edits, fresh, solo>>

\* Second half: the attempt is inserted; without its exam the foreign key refuses it.
InsertAttempt(s) ==
    /\ loading[s] # None
    /\ attempt' = [attempt EXCEPT ![s] = IF exam = "deleted" THEN None ELSE loading[s]]
    /\ loading' = [loading EXCEPT ![s] = None]
    /\ UNCHANGED <<exam, rows, req, edits, fresh, shown, clean, solo>>

-----------------------------------------------------------------------------
\* An exam in the making, or one that has just been published.
Init ==
    /\ \E p \in Papers : sections = p.sections /\ groups = p.groups /\ questions = p.questions
    /\ settings \in [fits : BOOLEAN, shuffle : BOOLEAN]
    /\ exam \in {"draft"} \cup (IF Ready THEN {"published"} ELSE {})
    /\ attempt = [s \in Students |-> None] /\ loading = [s \in Students |-> None]
    /\ shown = [s \in Students |-> None] /\ clean = [s \in Students |-> FALSE]
    /\ fresh = (Sections \ sections) \cup {x \in Groups : groups[x] = None}
                 \cup {x \in Questions : questions[x] = None}
    /\ req = [a \in Admins |-> Idle] /\ edits = 0 /\ solo = [a \in Admins |-> TRUE]

Edits(a) ==
    \/ \E s \in Sections : CreateSection(a, s)
    \/ \E s \in Sections, q \in Questions, i \in Indexes : CreateQuestion(a, s, q, i)
    \/ \E s \in Sections, q, r \in Questions : BulkUpload(a, s, q, r)
    \/ \E s \in Sections, p, q \in Questions : CopyQuestion(a, p, s, q)
    \/ \E s \in Sections, g \in Groups, q, r \in Questions, i \in Indexes :
          CreateGroup(a, s, g, q, r, i)
    \/ \E q \in Questions, touch \in Touching : UpdateQuestion(a, q, touch)
    \/ \E q \in Questions : DeleteQuestion(a, q)
    \/ \E g \in Groups : DeleteGroup(a, g)
    \/ \E s \in Sections : \E items \in SetToSeqs(Items(s)) : Reorder(a, s, items)
    \/ \E new \in [fits : BOOLEAN, shuffle : BOOLEAN] : UpdateExam(a, new)
    \/ Publish(a) \/ Close(a) \/ DeleteExam(a)

Commits(a) ==
    \/ Abort(a) \/ CommitSection(a) \/ CommitInsert(a) \/ Replace(a) \/ CommitUpdate(a)
    \/ CommitDelete(a) \/ CommitReorder(a) \/ CommitSettings(a)
    \/ CommitPublish(a) \/ CommitClose(a) \/ CommitDrop(a)

Next ==
    \/ \E a \in Admins : Edits(a) \/ Commits(a)
    \/ \E s \in Students : LoadPaper(s) \/ InsertAttempt(s)

Spec == Init /\ [][Next]_vars
-----------------------------------------------------------------------------
\* Properties.

TypeOK ==
    /\ exam \in {"draft", "published", "closed", "deleted"}
    /\ settings \in [fits : BOOLEAN, shuffle : BOOLEAN]
    /\ sections \subseteq Sections
    /\ \A q \in Questions : There(q) => /\ questions[q].section \in sections
                                        /\ questions[q].group \in Groups \cup {None}
                                        /\ questions[q].index \in Nat
    /\ \A g \in Groups : groups[g] # None => groups[g].section \in sections
    /\ \A q \in Questions : There(q) /\ questions[q].group # None =>
          groups[questions[q].group] # None
    /\ edits \in 0 .. MaxEdits

\* The argument for it.  A request that is pending relies on what others leave alone: what
\* it inserts is not there yet and goes where its section is, a group that it deletes
\* gets no more children, a question whose options it has replaced stays.
Sound(r) ==
    /\ r.op = "section" => r.section \in Sections
    /\ r.op = "patch" => r.columns \in [fits : BOOLEAN, shuffle : BOOLEAN]
    /\ r.op = "insert" =>
          /\ DOMAIN r.new # {} /\ DOMAIN r.new \subseteq Questions \ fresh /\ r.index \in Nat
          /\ \A q \in DOMAIN r.new :
                /\ ~There(q) /\ r.new[q] \in QuestionRows /\ r.new[q].group = r.group
                /\ exam # "deleted" => r.new[q].section \in sections
                /\ \A p \in DOMAIN r.new : r.new[p].section = r.new[q].section
          /\ r.group # None => r.group \in Groups \ fresh /\ groups[r.group] = None
    /\ r.op = "delete" /\ r.group # None =>
          r.group \in Groups \ fresh /\ Members(r.group) \subseteq r.ids
    /\ r.op = "reorder" => /\ \A q \in DOMAIN r.plan : r.plan[q] \in Nat
                           /\ \A g \in DOMAIN r.gplan : r.gplan[g] \in Nat
    /\ r.op \in {"update", "replaced"} =>
          /\ DOMAIN r = {"op", "touch", "id", "stamp", "removed"}
          /\ r.id \in Questions /\ r.stamp \in Nat
    /\ r.op = "replaced" => There(r.id)

ReferenceInv ==
    /\ TypeOK
    /\ questions = [q \in Questions |-> questions[q]] /\ groups = [g \in Groups |-> groups[g]]
    /\ req = [a \in Admins |-> req[a]]
    /\ \A q \in Questions : There(q) =>
          /\ questions[q] \in QuestionRows /\ q \notin fresh
          /\ questions[q].group # None => groups[questions[q].group].section = questions[q].section
    /\ \A g \in Groups : groups[g] # None => groups[g] \in GroupRows /\ g \notin fresh
    /\ \A a \in Admins : Sound(req[a])
    /\ \A a, b \in Admins : req[a].op = "insert" /\ req[b].op = "insert" /\ a # b =>
          /\ DOMAIN req[a].new \cap DOMAIN req[b].new = {}
          /\ req[a].group # None => req[a].group # req[b].group
    /\ \A a, b \in Admins : req[a].op = "insert" /\ req[b].op = "delete" /\ req[a].group # None =>
          req[a].group # req[b].group

\* "Content edits are blocked once an exam is live": a student sees on every request the
\* paper of the start, question by question with its options, unless an edit was under
\* way during that start or the exam has been closed since.
PaperStays ==
    \A s \in Students : attempt[s] # None /\ clean[s] => Render(attempt[s]) = shown[s]

\* The argument for it.  While a paper is shown, or about to be, nothing can change it any
\* more: the requests that are pending publish, close or delete the exam.
StayInv ==
    /\ loading = [s \in Students |-> loading[s]] /\ attempt = [s \in Students |-> attempt[s]]
    /\ shown = [s \in Students |-> shown[s]] /\ clean = [s \in Students |-> clean[s]]
    /\ req = [a \in Admins |-> req[a]]
    /\ \A s \in Students : clean[s] /\ (loading[s] # None \/ attempt[s] # None) =>
          /\ exam \in {"published", "deleted"}
          /\ \A a \in Admins : req[a].op \in {"idle", "publish", "close", "drop"}
    /\ \A s \in Students : attempt[s] # None => exam # "deleted"
    /\ \A s \in Students : clean[s] /\ loading[s] # None /\ exam # "deleted" =>
          Render(loading[s]) = shown[s]
    /\ PaperStays

\* Such a paper has every question of the exam once, with all its options, and the
\* questions of a group stand together in their order.
PaperIsWhole ==
    \A s \in Students : attempt[s] # None /\ clean[s] =>
        /\ DOMAIN attempt[s].order = sections
        /\ \A sec \in sections :
              LET paper == Render(attempt[s])[sec]
                  At(q) == {i \in 1 .. Len(paper) : paper[i][1] = q}
              IN /\ Len(paper) = Cardinality(InSection(sec))
                 /\ \A q \in InSection(sec) : paper[Max(At(q))][2] = questions[q].content
                 /\ \A q, r \in InSection(sec) :
                       /\ questions[q].group = questions[r].group
                       /\ questions[q].group # None
                       /\ questions[q].index < questions[r].index
                       => /\ Max(At(q)) < Max(At(r))
                          /\ Max(At(r)) - Max(At(q)) < Cardinality(Members(questions[q].group))

\* The argument for it.  What is frozen, or about to be, is an order of the exam as it is.
Whole(paper) ==
    /\ paper.options = OptionOrder /\ DOMAIN paper.order = sections
    /\ \A sec \in sections : paper.order[sec] \in SetToSeqs(Blocks(sec))

FrozenInv ==
    \A s \in Students : clean[s] /\ exam # "deleted" =>
        \A paper \in {attempt[s], loading[s]} \ {None} : Whole(paper)

\* "Reorders standalone questions and DI groups within a section": without shuffling the
\* paper comes in the order of the indexes.
PaperInIndexOrder ==
    \A s \in Students : attempt[s] # None /\ clean[s] /\ ~settings.shuffle =>
        \A sec \in sections :
            LET ids == Ids(attempt[s].order[sec]) IN
            \A i, j \in 1 .. Len(ids) : i < j =>
                questions[ids[i]].index <= questions[ids[j]].index

\* However many admins edit: the options of a question come from one request, the one
\* that was checked to have exactly one correct option.
OneOptionSet == \A q \in Questions : There(q) => Cardinality(questions[q].content) = 1

\* The argument for it.  Requests that insert have identifiers of their own, of questions
\* that are not there yet, and bring one set of options for each.
OneSet(row) == "content" \in DOMAIN row /\ \E n \in 0 .. edits : row.content = {n}

InsertInv ==
    /\ \A q \in Questions \cap fresh : ~There(q)
    /\ \A a \in Admins : req[a].op = "insert" =>
          /\ DOMAIN req[a].new \subseteq Questions \ fresh
          /\ \A q \in DOMAIN req[a].new : ~There(q) /\ OneSet(req[a].new[q])
    /\ \A a, b \in Admins : req[a].op = "insert" /\ req[b].op = "insert" /\ a # b =>
          DOMAIN req[a].new \cap DOMAIN req[b].new = {}

\* One update at a time has replaced the options of a question, and what it removed is all
\* there was and still is.
UpdateInv ==
    /\ \A a \in Admins : req[a].op \in {"update", "replaced"} =>
          /\ DOMAIN req[a] = {"op", "touch", "id", "stamp", "removed"}
          /\ req[a].id \in Questions /\ req[a].touch = TRUE /\ req[a].stamp \in 0 .. edits
    /\ \A a \in Admins : req[a].op = "replaced" =>
          There(req[a].id) /\ req[a].removed = questions[req[a].id].content
    /\ \A a, b \in Admins :
          req[a].op = "replaced" /\ req[b].op = "replaced" /\ req[a].id = req[b].id => a = b

OptionInv ==
    /\ req = [a \in Admins |-> req[a]] /\ questions = [q \in Questions |-> questions[q]]
    /\ edits \in Nat
    /\ \A q \in Questions : There(q) => OneSet(questions[q])
    /\ InsertInv /\ UpdateInv

\* "A DI group and its children always move together as one contiguous block; the
\* children keep their existing relative order": after a reorder that overlapped no other
\* request, the items of the section come in the order of the payload.
Follows(items) ==
    \A i, j \in 1 .. Len(items) : i < j =>
        \A q \in Of(items[i]), r \in Of(items[j]) : questions[q].index < questions[r].index

KeepsChildren(items) ==
    \A g \in Range(items) \cap Groups : \A q, r \in Members(g) :
        questions[q].index < questions[r].index => questions'[q].index < questions'[r].index

ReorderAsAsked ==
    [][\A a \in Admins : CommitReorder(a) /\ solo[a] =>
          \A items \in {req[a].items} : Follows(items)' /\ KeepsChildren(items)]_vars

\* The argument for it.  While a transaction is alone, its plan is what it would be now.
OrderInv ==
    /\ req = [a \in Admins |-> req[a]] /\ solo = [a \in Admins |-> solo[a]]
    /\ \A a, b \in Admins : solo[a] => solo[b]
    /\ \A a, b \in Admins : solo[a] /\ req[a] # Idle /\ req[b] # Idle => a = b
    /\ \A a \in Admins : solo[a] /\ req[a].op = "reorder" =>
          /\ \E s \in Sections : req[a].items \in SetToSeqs(Items(s))
          /\ req[a].plan = Plan(req[a].items)
          /\ req[a].seen = [q \in DOMAIN req[a].plan |-> questions[q].index]

=============================================================================
