------------------------ MODULE ExamAuthoring_proofs ------------------------
(***************************************************************************)
(* Theorems about ExamAuthoring, for every set of admins, students,        *)
(* sections, groups and questions, and any number of requests.             *)
(***************************************************************************)
EXTENDS ExamAuthoring, TLAPS, FiniteSetTheorems, WellFoundedInduction

\* What a request that begins may be: it inserts what it takes, or updates a question.
Fitting(r, ids) ==
    /\ r.op # "replaced"
    /\ r.op = "insert" => /\ DOMAIN r.new \subseteq ids \cap Questions
                          /\ \A q \in DOMAIN r.new : /\ "content" \in DOMAIN r.new[q]
                                                     /\ r.new[q].content = {edits + 1}
    /\ r.op = "update" => /\ DOMAIN r = {"op", "touch", "id", "stamp", "removed"}
                          /\ r.id \in Questions /\ r.touch = TRUE /\ r.stamp = edits + 1

LEMMA BeginKeeps ==
  ASSUME OptionInv, NEW a \in Admins, NEW ids, NEW r, Begin(a, ids, r), Fitting(r, ids)
  PROVE  OptionInv'
  <1>1. /\ req'[a] = r /\ \A b \in Admins \ {a} : req'[b] = req[b]
        /\ req' = [b \in Admins |-> req'[b]]
        /\ req[a] = Idle /\ Idle.op = "idle"
    BY DEF Begin, OptionInv, Idle
  <1>2. /\ questions' = questions /\ fresh' = fresh \ ids /\ ids \subseteq fresh
        /\ edits \in Nat /\ edits' = edits + 1
    BY DEF Begin, OptionInv, rows
  <1>3. \A q \in Questions : There(q)' <=> There(q)
    BY <1>2 DEF There
  <1>4. ASSUME NEW row, OneSet(row)
        PROVE  "content" \in DOMAIN row /\ \E n \in 0 .. edits' : row.content = {n}
    BY <1>2, <1>4 DEF OneSet
  <1>5. InsertInv'
    <2>1. \A q \in Questions \cap fresh' : ~There(q)'
      BY <1>2, <1>3 DEF OptionInv, InsertInv
    <2>2. ASSUME NEW b \in Admins, req'[b].op = "insert"
          PROVE  /\ DOMAIN req'[b].new \subseteq Questions \ fresh'
                 /\ \A q \in DOMAIN req'[b].new : ~There(q)' /\ OneSet(req[b].new[q])'
      <3>1. CASE b = a
        <4>1. DOMAIN r.new \subseteq Questions \cap ids
          BY <1>1, <2>2, <3>1 DEF Fitting
        <4>2. ASSUME NEW q \in DOMAIN r.new
              PROVE  ~There(q)' /\ "content" \in DOMAIN r.new[q]
                     /\ \E n \in 0 .. edits' : r.new[q].content = {n}
          <5>1. ~There(q)'
            BY <4>1, <1>2, <1>3 DEF OptionInv, InsertInv
          <5>2. "content" \in DOMAIN r.new[q] /\ r.new[q].content = {edits'}
            BY <1>1, <1>2, <2>2, <3>1 DEF Fitting
          <5>3. edits' \in 0 .. edits'
            BY <1>2
          <5> QED
            BY <5>1, <5>2, <5>3
        <4> QED
          BY <1>1, <1>2, <3>1, <4>1, <4>2 DEF OneSet
      <3>2. CASE b # a
        <4>1. req'[b] = req[b] /\ req[b].op = "insert"
          BY <1>1, <2>2, <3>2
        <4>2. /\ DOMAIN req[b].new \subseteq Questions \ fresh
              /\ \A q \in DOMAIN req[b].new : ~There(q) /\ OneSet(req[b].new[q])
          BY <4>1 DEF OptionInv, InsertInv
        <4>3. \A q \in DOMAIN req[b].new : /\ "content" \in DOMAIN req[b].new[q]
                                           /\ \E n \in 0 .. edits' : req[b].new[q].content = {n}
          BY <4>2, <1>4
        <4> QED
          BY <4>1, <4>2, <4>3, <1>2, <1>3 DEF OneSet
      <3> QED
        BY <3>1, <3>2
    <2>3. ASSUME NEW b \in Admins, NEW c \in Admins,
                 req'[b].op = "insert", req'[c].op = "insert", b # c
          PROVE  DOMAIN req'[b].new \cap DOMAIN req'[c].new = {}
      <3>1. ASSUME NEW d \in Admins, d # a, req'[d].op = "insert", req'[a].op = "insert"
            PROVE  DOMAIN req'[d].new \cap DOMAIN req'[a].new = {}
        <4>1. DOMAIN req'[d].new \cap fresh = {}
          BY <1>1, <3>1 DEF OptionInv, InsertInv
        <4>2. DOMAIN req'[a].new \subseteq fresh
          BY <1>1, <1>2, <3>1 DEF Fitting
        <4> QED
          BY <4>1, <4>2
      <3>2. CASE b # a /\ c # a
        BY <1>1, <2>3, <3>2 DEF OptionInv, InsertInv
      <3> QED
        BY <2>3, <3>1, <3>2
    <2> QED
      BY <2>1, <2>2, <2>3 DEF InsertInv
  <1>6. UpdateInv'
    <2>1. ASSUME NEW b \in Admins, req'[b].op \in {"update", "replaced"}
          PROVE  /\ DOMAIN req'[b] = {"op", "touch", "id", "stamp", "removed"}
                 /\ req'[b].id \in Questions /\ req'[b].touch = TRUE
                 /\ req'[b].stamp \in 0 .. edits'
      <3>1. CASE b = a
        BY <1>1, <1>2, <2>1, <3>1 DEF Fitting
      <3>2. CASE b # a
        <4>1. /\ DOMAIN req[b] = {"op", "touch", "id", "stamp", "removed"}
              /\ req[b].id \in Questions /\ req[b].touch = TRUE /\ req[b].stamp \in 0 .. edits
          BY <1>1, <2>1, <3>2 DEF OptionInv, UpdateInv
        <4>2. req[b].stamp \in 0 .. edits'
          BY <4>1, <1>2
        <4> QED
          BY <4>1, <4>2, <1>1, <3>2
      <3> QED
        BY <3>1, <3>2
    <2>2. \A b \in Admins : req'[b].op = "replaced" => b # a /\ req'[b] = req[b]
      BY <1>1 DEF Fitting
    <2>3. \A b \in Admins : req'[b].op = "replaced" =>
             questions'[req'[b].id] # None /\ req'[b].removed = questions'[req'[b].id].content
      BY <2>2, <1>2 DEF OptionInv, UpdateInv, There
    <2>4. \A b, c \in Admins :
             req'[b].op = "replaced" /\ req'[c].op = "replaced" /\ req'[b].id = req'[c].id => b = c
      BY <2>2 DEF OptionInv, UpdateInv
    <2> QED
      BY <2>1, <2>3, <2>4 DEF UpdateInv, There
  <1>7. \A q \in Questions : There(q)' => OneSet(questions[q])'
    <2> SUFFICES ASSUME NEW q \in Questions, There(q)' PROVE OneSet(questions[q])'
      OBVIOUS
    <2>1. OneSet(questions[q])
      BY <1>3 DEF OptionInv
    <2> QED
      BY <2>1, <1>2, <1>4 DEF OneSet
  <1> QED
    BY <1>1, <1>2, <1>5, <1>6, <1>7 DEF OptionInv

\* A request ends, and has left what the others rely on: no new question but those it
\* inserts, and the options of the questions that others update.
LEMMA CommitKeeps ==
  ASSUME OptionInv, NEW a \in Admins,
         req' = [req EXCEPT ![a] = Idle], fresh' = fresh, edits' = edits,
         questions' = [q \in Questions |-> questions'[q]],
         \A q \in Questions : There(q)' => OneSet(questions'[q]),
         \A q \in Questions : There(q)' =>
            There(q) \/ (req[a].op = "insert" /\ q \in DOMAIN req[a].new),
         \A b \in Admins \ {a} : req[b].op = "replaced" =>
            There(req[b].id)' /\ questions'[req[b].id].content = questions[req[b].id].content
  PROVE  OptionInv'
  <1>1. /\ req'[a] = Idle /\ \A b \in Admins \ {a} : req'[b] = req[b]
        /\ req' = [b \in Admins |-> req'[b]] /\ Idle.op = "idle"
    BY DEF OptionInv, Idle
  <1>2. \A b \in Admins : req'[b].op \in {"insert", "update", "replaced"} =>
            b # a /\ req'[b] = req[b]
    BY <1>1
  <1>3. InsertInv'
    <2>1. \A q \in Questions \cap fresh' : ~There(q)'
      BY DEF OptionInv, InsertInv
    <2>2. ASSUME NEW b \in Admins, req'[b].op = "insert"
          PROVE  /\ DOMAIN req'[b].new \subseteq Questions \ fresh'
                 /\ \A q \in DOMAIN req'[b].new : ~There(q)' /\ OneSet(req[b].new[q])'
      <3>1. req'[b] = req[b] /\ b # a /\ req[b].op = "insert"
        BY <1>2, <2>2
      <3>2. /\ DOMAIN req[b].new \subseteq Questions \ fresh
            /\ \A q \in DOMAIN req[b].new : ~There(q) /\ OneSet(req[b].new[q])
        BY <3>1 DEF OptionInv, InsertInv
      <3>3. req[a].op = "insert" => DOMAIN req[a].new \cap DOMAIN req[b].new = {}
        BY <3>1 DEF OptionInv, InsertInv
      <3>4. \A q \in DOMAIN req[b].new : ~There(q)'
        BY <3>2, <3>3
      <3> QED
        BY <3>1, <3>2, <3>4 DEF OneSet
    <2>3. \A b, c \in Admins : req'[b].op = "insert" /\ req'[c].op = "insert" /\ b # c =>
            DOMAIN req'[b].new \cap DOMAIN req'[c].new = {}
      BY <1>2 DEF OptionInv, InsertInv
    <2> QED
      BY <2>1, <2>2, <2>3 DEF InsertInv
  <1>4. UpdateInv'
    <2>1. \A b \in Admins : req'[b].op \in {"update", "replaced"} =>
            /\ DOMAIN req'[b] = {"op", "touch", "id", "stamp", "removed"}
            /\ req'[b].id \in Questions /\ req'[b].touch = TRUE /\ req'[b].stamp \in 0 .. edits'
      BY <1>2 DEF OptionInv, UpdateInv
    <2>2. \A b \in Admins : req'[b].op = "replaced" =>
            questions'[req'[b].id] # None /\ req'[b].removed = questions'[req'[b].id].content
      BY <1>2 DEF OptionInv, UpdateInv, There
    <2>3. \A b, c \in Admins :
            req'[b].op = "replaced" /\ req'[c].op = "replaced" /\ req'[b].id = req'[c].id => b = c
      BY <1>2 DEF OptionInv, UpdateInv
    <2> QED
      BY <2>1, <2>2, <2>3 DEF UpdateInv, There
  <1>5. \A q \in Questions : There(q)' => OneSet(questions[q])'
    BY DEF OneSet
  <1> QED
    BY <1>1, <1>3, <1>4, <1>5 DEF OptionInv

\* A question that a request inserts, alone or with another, has that request's options.
LEMMA NewRow ==
  ASSUME NEW s, NEW g, NEW i
  PROVE  "content" \in DOMAIN Row(s, g, i) /\ Row(s, g, i).content = {edits + 1}
  BY DEF Row, QuestionRow

LEMMA EditKeeps ==
  ASSUME OptionInv, Touching = {TRUE}, NEW a \in Admins, Edits(a)
  PROVE  OptionInv'
  <1>1. ASSUME NEW s \in Sections, CreateSection(a, s)
        PROVE  OptionInv'
    <2>1. Begin(a, {s}, [op |-> "section", section |-> s])
      BY <1>1 DEF CreateSection, BeginEdit
    <2> QED
      BY <2>1, BeginKeeps DEF Fitting
  <1>2. ASSUME NEW s \in Sections, NEW q \in Questions, NEW i, CreateQuestion(a, s, q, i)
        PROVE  OptionInv'
    <2>1. Begin(a, {q}, Insert([x \in {q} |-> Row(s, None, i)], None, 0))
      BY <1>2 DEF CreateQuestion, BeginEdit
    <2> QED
      BY <2>1, BeginKeeps, NewRow DEF Fitting, Insert
  <1>3. ASSUME NEW s \in Sections, NEW q \in Questions, NEW r \in Questions, BulkUpload(a, s, q, r)
        PROVE  OptionInv'
    <2> DEFINE n == Insert([x \in {q, r} |->
               Row(s, None, IF x = q THEN NextIndex(s) ELSE NextIndex(s) + 1)], None, 0)
    <2>1. Begin(a, {q, r}, n)
      BY <1>3 DEF BulkUpload, BeginEdit
    <2>2. Fitting(n, {q, r})
      BY NewRow DEF Fitting, Insert
    <2> HIDE DEF n
    <2> QED
      BY <2>1, <2>2, BeginKeeps
  <1>4. ASSUME NEW s \in Sections, NEW p \in Questions, NEW q \in Questions, CopyQuestion(a, p, s, q)
        PROVE  OptionInv'
    <2>1. Begin(a, {q}, Insert([x \in {q} |-> Row(s, None, NextIndex(s))], None, 0))
      BY <1>4 DEF CopyQuestion, BeginEdit
    <2> QED
      BY <2>1, BeginKeeps, NewRow DEF Fitting, Insert
  <1>5. ASSUME NEW s \in Sections, NEW g \in Groups, NEW q \in Questions, NEW r \in Questions,
               NEW i, CreateGroup(a, s, g, q, r, i)
        PROVE  OptionInv'
    <2> DEFINE n == Insert([x \in {q, r} |-> Row(s, g, IF x = r /\ i = 0 THEN 1 ELSE i)], g, i)
    <2>1. Begin(a, {g, q, r}, n)
      BY <1>5 DEF CreateGroup, BeginEdit
    <2>2. Fitting(n, {g, q, r})
      BY NewRow DEF Fitting, Insert
    <2> HIDE DEF n
    <2> QED
      BY <2>1, <2>2, BeginKeeps
  <1>6. ASSUME NEW q \in Questions, NEW touch \in Touching, UpdateQuestion(a, q, touch)
        PROVE  OptionInv'
    <2> DEFINE u == [op |-> "update", touch |-> touch, id |-> q, stamp |-> edits + 1, removed |-> {}]
    <2>1. Begin(a, {}, u)
      BY <1>6 DEF UpdateQuestion, BeginEdit
    <2>2. Fitting(u, {})
      BY DEF Fitting
    <2> HIDE DEF u
    <2> QED
      BY <2>1, <2>2, BeginKeeps
  <1>7. ASSUME NEW q \in Questions, DeleteQuestion(a, q)
        PROVE  OptionInv'
    <2>1. Begin(a, {}, [op |-> "delete", group |-> None, ids |-> {q}])
      BY <1>7 DEF DeleteQuestion, BeginEdit
    <2> QED
      BY <2>1, BeginKeeps DEF Fitting
  <1>8. ASSUME NEW g \in Groups, DeleteGroup(a, g)
        PROVE  OptionInv'
    <2>1. Begin(a, {}, [op |-> "delete", group |-> g, ids |-> Members(g)])
      BY <1>8 DEF DeleteGroup, BeginEdit
    <2> QED
      BY <2>1, BeginKeeps DEF Fitting
  <1>9. ASSUME NEW s \in Sections, NEW items, Reorder(a, s, items)
        PROVE  OptionInv'
    <2>1. PICK r : Begin(a, {}, r) /\ r.op = "reorder"
      BY <1>9 DEF Reorder, BeginEdit
    <2> QED
      BY <2>1, BeginKeeps DEF Fitting
  <1>10. ASSUME NEW new, UpdateExam(a, new)
         PROVE  OptionInv'
    <2>1. Begin(a, {}, [op |-> "patch", columns |-> new])
      BY <1>10 DEF UpdateExam, BeginEdit
    <2> QED
      BY <2>1, BeginKeeps DEF Fitting
  <1>11. CASE Publish(a) \/ Close(a) \/ DeleteExam(a)
    <2>1. PICK r : Begin(a, {}, r) /\ r.op \in {"publish", "close", "drop"}
      BY <1>11 DEF Publish, Close, DeleteExam
    <2> QED
      BY <2>1, BeginKeeps DEF Fitting
  <1> QED
    BY <1>1, <1>2, <1>3, <1>4, <1>5, <1>6, <1>7, <1>8, <1>9, <1>10, <1>11 DEF Edits

\* The row of a question is locked from its UPDATE on: a second update of it deletes the
\* options of the first.
LEMMA ReplaceKeeps ==
  ASSUME OptionInv, NEW a \in Admins, Replace(a)
  PROVE  OptionInv'
  <1> DEFINE r == [req[a] EXCEPT !.op = "replaced", !.removed = questions[req[a].id].content]
  <1>1. /\ req[a].op = "update" /\ There(req[a].id)
        /\ DOMAIN req[a] = {"op", "touch", "id", "stamp", "removed"}
        /\ req[a].id \in Questions /\ req[a].touch = TRUE /\ req[a].stamp \in 0 .. edits
    BY DEF Replace, OptionInv, UpdateInv
  <1>2. /\ DOMAIN r = {"op", "touch", "id", "stamp", "removed"} /\ r.op = "replaced"
        /\ r.id = req[a].id /\ r.touch = TRUE /\ r.stamp = req[a].stamp
        /\ r.removed = questions[r.id].content
    BY <1>1
  <1>3. req' = [req EXCEPT ![a] = r]
    BY DEF Replace
  <1>4. questions' = questions /\ fresh' = fresh /\ edits' = edits
    BY DEF Replace, rows
  <1> HIDE DEF r
  <1>5. /\ req'[a] = r /\ \A b \in Admins \ {a} : req'[b] = req[b]
        /\ req' = [b \in Admins |-> req'[b]]
    BY <1>3 DEF OptionInv
  <1>6. \A b \in Admins : req[b].op = "replaced" => req[b].id # req[a].id
    BY <1>1 DEF Replace, Touched, OptionInv, UpdateInv
  <1>7. InsertInv'
    <2>1. \A b \in Admins : req'[b].op = "insert" => b # a /\ req'[b] = req[b]
      BY <1>2, <1>5
    <2>2. \A q \in Questions \cap fresh' : ~There(q)'
      BY <1>4 DEF OptionInv, InsertInv, There
    <2>3. ASSUME NEW b \in Admins, req'[b].op = "insert"
          PROVE  /\ DOMAIN req'[b].new \subseteq Questions \ fresh'
                 /\ \A q \in DOMAIN req'[b].new : ~There(q)' /\ OneSet(req[b].new[q])'
      <3>1. req'[b] = req[b] /\ req[b].op = "insert"
        BY <2>1, <2>3
      <3>2. /\ DOMAIN req[b].new \subseteq Questions \ fresh
            /\ \A q \in DOMAIN req[b].new : ~There(q) /\ OneSet(req[b].new[q])
        BY <3>1 DEF OptionInv, InsertInv
      <3> QED
        BY <1>4, <3>1, <3>2 DEF There, OneSet
    <2>4. \A b, c \in Admins : req'[b].op = "insert" /\ req'[c].op = "insert" /\ b # c =>
            DOMAIN req'[b].new \cap DOMAIN req'[c].new = {}
      BY <2>1 DEF OptionInv, InsertInv
    <2> QED
      BY <2>2, <2>3, <2>4 DEF InsertInv
  <1>8. UpdateInv'
    <2>1. \A b \in Admins : req'[b].op \in {"update", "replaced"} =>
            /\ DOMAIN req'[b] = {"op", "touch", "id", "stamp", "removed"}
            /\ req'[b].id \in Questions /\ req'[b].touch = TRUE /\ req'[b].stamp \in 0 .. edits'
      BY <1>1, <1>2, <1>4, <1>5 DEF OptionInv, UpdateInv
    <2>2. \A b \in Admins : req'[b].op = "replaced" =>
            questions'[req'[b].id] # None /\ req'[b].removed = questions'[req'[b].id].content
      BY <1>1, <1>2, <1>4, <1>5 DEF OptionInv, UpdateInv, There
    <2>3. \A b, c \in Admins :
            req'[b].op = "replaced" /\ req'[c].op = "replaced" /\ req'[b].id = req'[c].id => b = c
      BY <1>2, <1>5, <1>6 DEF OptionInv, UpdateInv
    <2> QED
      BY <2>1, <2>2, <2>3 DEF UpdateInv, There
  <1>9. \A q \in Questions : There(q)' => OneSet(questions[q])'
    BY <1>4 DEF OptionInv, There, OneSet
  <1> QED
    BY <1>4, <1>5, <1>7, <1>8, <1>9 DEF OptionInv

LEMMA AllCommits ==
  ASSUME OptionInv, NEW a \in Admins, Commits(a)
  PROVE  OptionInv'
  <1>0. \A b \in Admins : req[b].op = "replaced" =>
          There(req[b].id) /\ req[b].id \in Questions /\ "content" \in DOMAIN questions[req[b].id]
    BY DEF OptionInv, UpdateInv, OneSet
  <1>1. CASE Abort(a) \/ CommitSection(a) \/ CommitSettings(a) \/ CommitPublish(a) \/ CommitClose(a)
    <2>1. /\ req' = [req EXCEPT ![a] = Idle] /\ fresh' = fresh /\ edits' = edits
          /\ questions' = questions
      BY <1>1 DEF Abort, CommitSection, CommitSettings, CommitPublish, CommitClose, Commit, rows
    <2> QED
      BY <1>0, <2>1, CommitKeeps DEF OptionInv, There
  <1>2. CASE CommitInsert(a)
    <2>1. /\ req' = [req EXCEPT ![a] = Idle] /\ fresh' = fresh /\ edits' = edits
          /\ questions' = [q \in Questions |->
                             IF q \in DOMAIN req[a].new THEN req[a].new[q] ELSE questions[q]]
          /\ req[a].op = "insert"
      BY <1>2 DEF CommitInsert, Commit
    <2>2. \A q \in DOMAIN req[a].new : ~There(q) /\ OneSet(req[a].new[q])
      BY <2>1 DEF OptionInv, InsertInv
    <2>3. \A q \in Questions : There(q)' => OneSet(questions'[q])
      BY <2>1, <2>2 DEF OptionInv, There
    <2>4. \A q \in Questions : There(q)' => There(q) \/ q \in DOMAIN req[a].new
      BY <2>1 DEF There
    <2>5. \A b \in Admins \ {a} : req[b].op = "replaced" =>
            There(req[b].id)' /\ questions'[req[b].id].content = questions[req[b].id].content
      <3> SUFFICES ASSUME NEW b \in Admins \ {a}, req[b].op = "replaced"
                   PROVE  questions'[req[b].id] = questions[req[b].id] /\ req'[b] = req[b]
        BY <1>0 DEF There
      <3>1. req[b].id \notin DOMAIN req[a].new
        BY <1>0, <2>2
      <3> QED
        BY <1>0, <2>1, <3>1 DEF OptionInv
    <2> QED
      BY <2>1, <2>3, <2>4, <2>5, CommitKeeps
  <1>3. CASE Replace(a)
    BY <1>3, ReplaceKeeps
  <1>4. CASE CommitUpdate(a)
    <2> DEFINE id == req[a].id
    <2>1. /\ req' = [req EXCEPT ![a] = Idle] /\ fresh' = fresh /\ edits' = edits
          /\ questions' = [questions EXCEPT ![id].content = (@ \ req[a].removed) \cup {req[a].stamp}]
          /\ req[a].op = "replaced"
      BY <1>4 DEF CommitUpdate, Commit, rows, starts
    <2>2. /\ id \in Questions /\ There(id) /\ req[a].removed = questions[id].content
          /\ req[a].stamp \in 0 .. edits /\ "content" \in DOMAIN questions[id]
      BY <1>0, <2>1 DEF OptionInv, UpdateInv
    <2>3. /\ questions' = [q \in Questions |-> questions'[q]]
          /\ \A q \in Questions \ {id} : questions'[q] = questions[q]
          /\ questions'[id] = [questions[id] EXCEPT !.content = {req[a].stamp}]
      BY <2>1, <2>2 DEF OptionInv
    <2>4. OneSet(questions'[id])
      BY <2>2, <2>3 DEF OneSet
    <2>5. \A q \in Questions : There(q)' => OneSet(questions'[q])
      BY <2>3, <2>4 DEF OptionInv, There
    <2>6. \A q \in Questions : There(q)' => There(q)
      BY <2>2, <2>3 DEF There
    <2>7. \A b \in Admins \ {a} : req[b].op = "replaced" =>
            There(req[b].id)' /\ questions'[req[b].id].content = questions[req[b].id].content
      <3> SUFFICES ASSUME NEW b \in Admins \ {a}, req[b].op = "replaced"
                   PROVE  questions'[req[b].id] = questions[req[b].id] /\ req'[b] = req[b]
        BY <1>0 DEF There
      <3>1. req[b].id # id
        BY <2>1 DEF OptionInv, UpdateInv
      <3> QED
        BY <1>0, <2>1, <2>3, <3>1 DEF OptionInv
    <2> QED
      BY <2>1, <2>3, <2>5, <2>6, <2>7, CommitKeeps
  <1>5. CASE CommitDelete(a)
    <2>1. /\ req' = [req EXCEPT ![a] = Idle] /\ fresh' = fresh /\ edits' = edits
          /\ questions' = [q \in Questions |-> IF q \in req[a].ids THEN None ELSE questions[q]]
          /\ \A q \in req[a].ids : ~Held(q)
      BY <1>5 DEF CommitDelete, Commit
    <2>2. \A q \in Questions : There(q)' => OneSet(questions'[q])
      BY <2>1 DEF OptionInv, There
    <2>3. \A q \in Questions : There(q)' => There(q)
      BY <2>1 DEF There
    <2>4. \A b \in Admins \ {a} : req[b].op = "replaced" =>
            There(req[b].id)' /\ questions'[req[b].id].content = questions[req[b].id].content
      <3> SUFFICES ASSUME NEW b \in Admins \ {a}, req[b].op = "replaced"
                   PROVE  questions'[req[b].id] = questions[req[b].id] /\ req'[b] = req[b]
        BY <1>0 DEF There
      <3> QED
        BY <1>0, <2>1 DEF Held, OptionInv
    <2> QED
      BY <2>1, <2>2, <2>3, <2>4, CommitKeeps
  <1>6. CASE CommitReorder(a)
    <2> DEFINE moved == {q \in DOMAIN req[a].plan : req[a].plan[q] # req[a].seen[q]}
    <2>1. /\ req' = [req EXCEPT ![a] = Idle] /\ fresh' = fresh /\ edits' = edits
          /\ questions' = [q \in Questions |->
               IF q \in moved THEN [questions[q] EXCEPT !.index = req[a].plan[q]] ELSE questions[q]]
          /\ \A q \in moved : There(q) /\ ~Touched(q)
      BY <1>6 DEF CommitReorder, Commit, Fails
    <2> HIDE DEF moved
    <2>2. \A q \in Questions : There(q) =>
            /\ DOMAIN questions'[q] = DOMAIN questions[q]
            /\ questions'[q].content = questions[q].content
      BY <2>1 DEF OptionInv, OneSet
    <2>3. \A q \in Questions : There(q)' => There(q)
      BY <2>1 DEF There
    <2>4. \A q \in Questions : There(q)' => OneSet(questions'[q])
      BY <2>2, <2>3 DEF OptionInv, OneSet
    <2>5. \A b \in Admins \ {a} : req[b].op = "replaced" =>
            There(req[b].id)' /\ questions'[req[b].id].content = questions[req[b].id].content
      <3> SUFFICES ASSUME NEW b \in Admins \ {a}, req[b].op = "replaced"
                   PROVE  questions'[req[b].id] = questions[req[b].id] /\ req'[b] = req[b]
        BY <1>0 DEF There
      <3>1. req[b].touch
        BY DEF OptionInv, UpdateInv
      <3>2. req[b].id \notin moved
        BY <2>1, <3>1 DEF Touched
      <3> QED
        BY <1>0, <2>1, <3>2 DEF OptionInv
    <2> QED
      BY <2>1, <2>3, <2>4, <2>5, CommitKeeps
  <1>7. CASE CommitDrop(a)
    <2>1. /\ req' = [req EXCEPT ![a] = Idle] /\ fresh' = fresh /\ edits' = edits
          /\ questions' = [q \in Questions |-> None]
          /\ \A q \in Questions : ~Held(q)
      BY <1>7 DEF CommitDrop
    <2>2. \A b \in Admins : req[b].op # "replaced"
      BY <1>0, <2>1 DEF Held
    <2> QED
      BY <2>1, <2>2, CommitKeeps DEF There
  <1> QED
    BY <1>1, <1>2, <1>3, <1>4, <1>5, <1>6, <1>7 DEF Commits

LEMMA FirstPaper == Init => OptionInv
  <1> SUFFICES ASSUME Init PROVE OptionInv
    OBVIOUS
  <1>1. PICK p \in Papers : questions = p.questions
    BY DEF Init
  <1>2. questions \in [Questions -> {None} \cup
          [section : Sections, group : Groups \cup {None}, index : Nat, content : {{0}}]]
    BY <1>1, AuthoringAssumption
  <1>3. edits = 0 /\ req = [a \in Admins |-> Idle] /\ Idle.op = "idle"
    BY DEF Init, Idle
  <1>4. \A q \in Questions : There(q) => OneSet(questions[q])
    BY <1>2, <1>3 DEF There, OneSet
  <1>5. \A q \in Questions \cap fresh : ~There(q)
    <2>1. fresh = (Sections \ sections) \cup {x \in Groups : groups[x] = None}
                    \cup {x \in Questions : questions[x] = None}
      BY DEF Init
    <2> QED
      BY <2>1, AuthoringAssumption DEF There
  <1>6. InsertInv /\ UpdateInv
    BY <1>3, <1>5 DEF InsertInv, UpdateInv
  <1> QED
    BY <1>2, <1>3, <1>4, <1>6 DEF OptionInv

LEMMA OptionNext ==
  ASSUME Touching = {TRUE}, OptionInv, [Next]_vars
  PROVE  OptionInv'
  <1>1. CASE UNCHANGED <<questions, req, fresh, edits>>
    <2>1. InsertInv'
      BY <1>1 DEF OptionInv, InsertInv, There, OneSet
    <2>2. UpdateInv'
      BY <1>1 DEF OptionInv, UpdateInv, There
    <2>3. \A q \in Questions : There(q)' => OneSet(questions[q])'
      BY <1>1 DEF OptionInv, There, OneSet
    <2> QED
      BY <1>1, <2>1, <2>2, <2>3 DEF OptionInv
  <1>2. CASE UNCHANGED vars
    BY <1>1, <1>2 DEF vars, rows
  <1>3. ASSUME NEW s \in Students, LoadPaper(s) \/ InsertAttempt(s)
        PROVE  OptionInv'
    BY <1>1, <1>3 DEF LoadPaper, InsertAttempt, rows
  <1> QED
    BY <1>2, <1>3, EditKeeps, AllCommits DEF Next

\* As long as every update of a question changes the question's own row as well, its
\* options come from one request, however many admins edit, reorder and delete at once.
THEOREM OptionsOfOneRequest == Touching = {TRUE} => (Spec => []OneOptionSet)
  <1>1. OptionInv => OneOptionSet
    <2> SUFFICES ASSUME OptionInv, NEW q \in Questions, There(q)
                 PROVE  Cardinality(questions[q].content) = 1
      BY DEF OneOptionSet
    <2>1. PICK n \in 0 .. edits : questions[q].content = {n}
      BY DEF OptionInv, OneSet
    <2> QED
      BY <2>1, FS_Singleton
  <1> SUFFICES ASSUME Touching = {TRUE}
               PROVE  Spec => []OneOptionSet
    OBVIOUS
  <1>2. OptionInv /\ [Next]_vars => OptionInv'
    BY OptionNext
  <1> QED
    BY FirstPaper, <1>1, <1>2, PTL DEF Spec

-----------------------------------------------------------------------------
\* The paper.

\* What a student is shown changes with the rows only.
LEMMA RenderStays ==
  ASSUME sections' = sections, questions' = questions
  PROVE  \A x : Render(x)' = Render(x)
  <1>1. \A q : There(q)' = There(q)
    BY DEF There
  <1> SUFFICES ASSUME NEW x PROVE Render(x)' = Render(x)
    OBVIOUS
  <1>2. \A q : Options(q, x)' = Options(q, x)
    BY DEF Options
  <1> QED
    BY <1>1, <1>2 DEF Render

LEMMA BeginStays ==
  ASSUME StayInv, NEW a \in Admins, NEW ids, NEW r, Begin(a, ids, r),
         \/ r.op \in {"publish", "close", "drop"} /\ clean' = clean
         \/ Editable /\ clean' = [s \in Students |-> clean[s] /\ loading[s] = None]
  PROVE  StayInv'
  <1>1. /\ exam' = exam /\ sections' = sections /\ questions' = questions
        /\ attempt' = attempt /\ loading' = loading /\ shown' = shown
        /\ req' = [req EXCEPT ![a] = r]
    BY DEF Begin, rows, starts
  <1>2. /\ req' = [b \in Admins |-> req'[b]]
        /\ req'[a] = r /\ \A b \in Admins \ {a} : req'[b] = req[b]
    BY <1>1 DEF StayInv
  <1>3. /\ clean' = [s \in Students |-> clean'[s]]
        /\ \A s \in Students : clean'[s] => clean[s]
    BY DEF StayInv
  <1>4. ASSUME NEW s \in Students, clean'[s], loading[s] # None \/ attempt[s] # None
        PROVE  r.op \in {"publish", "close", "drop"}
    <2> SUFFICES ASSUME Editable, clean' = [t \in Students |-> clean[t] /\ loading[t] = None]
                 PROVE  FALSE
      OBVIOUS
    <2>1. attempt[s] # None
      BY <1>4
    <2> QED
      BY <1>3, <1>4, <2>1 DEF Editable, StayInv
  <1>5. ASSUME NEW s \in Students, clean'[s], loading[s] # None \/ attempt[s] # None
        PROVE  /\ exam \in {"published", "deleted"}
               /\ \A b \in Admins : req'[b].op \in {"idle", "publish", "close", "drop"}
    BY <1>2, <1>3, <1>4, <1>5 DEF StayInv
  <1>6. \A x : Render(x)' = Render(x)
    BY <1>1, RenderStays
  <1>7. PaperStays'
    BY <1>1, <1>3, <1>6 DEF StayInv, PaperStays
  <1>8. \A s \in Students : clean'[s] /\ loading'[s] # None /\ exam' # "deleted" =>
           Render(loading[s])' = shown'[s]
    BY <1>1, <1>3, <1>6 DEF StayInv
  <1> QED
    BY <1>1, <1>2, <1>3, <1>5, <1>7, <1>8 DEF StayInv

LEMMA EditStays ==
  ASSUME StayInv, NEW a \in Admins, Edits(a)
  PROVE  StayInv'
  <1>1. ASSUME NEW ids, NEW r, BeginEdit(a, ids, r)
        PROVE  StayInv'
    BY <1>1, BeginStays DEF BeginEdit
  <1>2. CASE \/ \E s \in Sections : CreateSection(a, s)
             \/ \E s \in Sections, q \in Questions, i \in Indexes : CreateQuestion(a, s, q, i)
             \/ \E s \in Sections, q, r \in Questions : BulkUpload(a, s, q, r)
             \/ \E s \in Sections, p, q \in Questions : CopyQuestion(a, p, s, q)
             \/ \E s \in Sections, g \in Groups, q, r \in Questions, i \in Indexes :
                   CreateGroup(a, s, g, q, r, i)
    BY <1>1, <1>2 DEF CreateSection, CreateQuestion, BulkUpload, CopyQuestion, CreateGroup
  <1>3. CASE \/ \E q \in Questions, touch \in Touching : UpdateQuestion(a, q, touch)
             \/ \E q \in Questions : DeleteQuestion(a, q)
             \/ \E g \in Groups : DeleteGroup(a, g)
             \/ \E s \in Sections : \E items \in SetToSeqs(Items(s)) : Reorder(a, s, items)
             \/ \E new \in [fits : BOOLEAN, shuffle : BOOLEAN] : UpdateExam(a, new)
    BY <1>1, <1>3 DEF UpdateQuestion, DeleteQuestion, DeleteGroup, Reorder, UpdateExam
  <1>4. CASE Publish(a) \/ Close(a) \/ DeleteExam(a)
    <2>1. PICK r : /\ Begin(a, {}, r) /\ clean' = clean
                   /\ r.op \in {"publish", "close", "drop"}
      BY <1>4 DEF Publish, Close, DeleteExam
    <2> QED
      BY <2>1, BeginStays
  <1> QED
    BY <1>2, <1>3, <1>4 DEF Edits

\* A request that ends and changes the paper at most when none is watched.
LEMMA CommitStays ==
  ASSUME StayInv, NEW a \in Admins, UNCHANGED starts,
         \E r : req' = [req EXCEPT ![a] = r] /\ (r = Idle \/ r.op = "replaced"),
         clean' = clean,
         \/ /\ exam' = exam
            /\ req[a].op \notin {"idle", "publish", "close", "drop"}
         \/ /\ sections' = sections /\ questions' = questions
            /\ exam' = exam \/ (exam # "deleted" /\ exam' = "published")
            /\ req'[a] = Idle
  PROVE  StayInv'
  <1>1. attempt' = attempt /\ loading' = loading /\ shown' = shown
    BY DEF starts
  <1>2. /\ req' = [b \in Admins |-> req'[b]] /\ Idle.op = "idle"
        /\ \A b \in Admins \ {a} : req'[b] = req[b]
    BY DEF StayInv, Idle
  <1>3. CASE exam' = exam /\ req[a].op \notin {"idle", "publish", "close", "drop"}
    <2>1. \A s \in Students : clean[s] => loading[s] = None /\ attempt[s] = None
      BY <1>3 DEF StayInv
    <2> QED
      BY <1>1, <1>2, <1>3, <2>1 DEF StayInv, PaperStays
  <1>4. CASE /\ sections' = sections /\ questions' = questions
             /\ exam' = exam \/ (exam # "deleted" /\ exam' = "published")
             /\ req'[a] = Idle
    <2>1. \A x : Render(x)' = Render(x)
      BY <1>4, RenderStays
    <2>2. PaperStays'
      BY <1>1, <2>1 DEF StayInv, PaperStays
    <2>3. \A s \in Students : clean'[s] /\ loading'[s] # None /\ exam' # "deleted" =>
             Render(loading[s])' = shown'[s]
      BY <1>1, <1>4, <2>1 DEF StayInv
    <2>4. \A s \in Students : clean[s] /\ (loading[s] # None \/ attempt[s] # None) =>
             /\ exam' \in {"published", "deleted"}
             /\ \A b \in Admins : req'[b].op \in {"idle", "publish", "close", "drop"}
      BY <1>2, <1>4 DEF StayInv
    <2>5. \A s \in Students : attempt[s] # None => exam' # "deleted"
      BY <1>4 DEF StayInv
    <2> QED
      BY <1>1, <1>2, <2>2, <2>3, <2>4, <2>5 DEF StayInv
  <1> QED
    BY <1>3, <1>4

LEMMA CommitsStay ==
  ASSUME StayInv, NEW a \in Admins, Commits(a)
  PROVE  StayInv'
  <1>1. req = [b \in Admins |-> req[b]] /\ Idle.op = "idle"
    BY DEF StayInv, Idle
  <1>2. CASE Abort(a)
    <2>1. /\ req' = [req EXCEPT ![a] = Idle] /\ UNCHANGED starts /\ clean' = clean
          /\ sections' = sections /\ questions' = questions /\ exam' = exam
      BY <1>2 DEF Abort, Commit, rows
    <2>2. req'[a] = Idle
      BY <1>1, <2>1
    <2> QED
      BY <2>1, <2>2, CommitStays
  <1>3. CASE \/ CommitSection(a) \/ CommitInsert(a) \/ CommitUpdate(a)
             \/ CommitDelete(a) \/ CommitReorder(a) \/ CommitSettings(a)
    <2>1. /\ req' = [req EXCEPT ![a] = Idle] /\ UNCHANGED starts /\ clean' = clean
          /\ exam' = exam
          /\ req[a].op \in {"section", "insert", "replaced", "delete", "reorder", "patch"}
      BY <1>3 DEF CommitSection, CommitInsert, CommitUpdate, CommitDelete, CommitReorder,
                  CommitSettings, Commit
    <2> QED
      BY <2>1, CommitStays
  <1>4. CASE Replace(a)
    <2>1. PICK r : r = [req[a] EXCEPT !.op = "replaced", !.removed = questions[req[a].id].content]
      OBVIOUS
    <2>2. /\ req' = [req EXCEPT ![a] = r] /\ UNCHANGED starts /\ clean' = clean
          /\ exam' = exam /\ req[a].op = "update"
      BY <1>1, <1>4, <2>1 DEF Replace
    <2>3. r.op = "replaced"
      BY <2>1, <2>2
    <2> QED
      BY <2>2, <2>3, CommitStays
  <1>5. CASE CommitPublish(a)
    <2>1. /\ req' = [req EXCEPT ![a] = Idle] /\ UNCHANGED starts /\ clean' = clean
          /\ sections' = sections /\ questions' = questions
          /\ exam' = exam \/ (exam # "deleted" /\ exam' = "published")
      BY <1>5 DEF CommitPublish, Commit, Fails, rows
    <2>2. req'[a] = Idle
      BY <1>1, <2>1
    <2> QED
      BY <2>1, <2>2, CommitStays
  <1>6. CASE CommitClose(a)
    <2>1. /\ req' = [req EXCEPT ![a] = Idle] /\ UNCHANGED starts
          /\ clean' = [s \in Students |-> FALSE]
          /\ exam # "deleted" /\ exam' \in {exam, "closed"}
      BY <1>6 DEF CommitClose, Commit, Fails
    <2>2. req' = [b \in Admins |-> req'[b]] /\ clean' = [s \in Students |-> clean'[s]]
          /\ \A s \in Students : ~clean'[s]
      BY <1>1, <2>1
    <2> QED
      BY <2>1, <2>2 DEF StayInv, PaperStays, starts
  <1>7. CASE CommitDrop(a)
    <2>1. /\ req' = [req EXCEPT ![a] = Idle] /\ exam' = "deleted"
          /\ attempt' = [s \in Students |-> None] /\ loading' = loading /\ shown' = shown
          /\ clean' = clean
      BY <1>7 DEF CommitDrop
    <2>2. /\ req' = [b \in Admins |-> req'[b]] /\ req'[a].op = "idle"
          /\ \A b \in Admins \ {a} : req'[b] = req[b]
      BY <1>1, <2>1
    <2> QED
      BY <2>1, <2>2 DEF StayInv, PaperStays
  <1> QED
    BY <1>2, <1>3, <1>4, <1>5, <1>6, <1>7 DEF Commits

\* The student's own two steps.
LEMMA StartStays ==
  ASSUME StayInv, NEW s \in Students, LoadPaper(s) \/ InsertAttempt(s)
  PROVE  StayInv'
  <1>1. /\ exam' = exam /\ sections' = sections /\ questions' = questions /\ req' = req
    BY DEF LoadPaper, InsertAttempt, rows
  <1>2. \A x : Render(x)' = Render(x)
    BY <1>1, RenderStays
  <1>3. CASE LoadPaper(s)
    <2>1. PICK paper :
             /\ loading' = [loading EXCEPT ![s] = paper]
             /\ shown' = [shown EXCEPT ![s] = Render(loading'[s])]
      BY <1>3 DEF LoadPaper
    <2>2. /\ exam = "published" /\ attempt[s] = None /\ attempt' = attempt
          /\ clean' = [clean EXCEPT ![s] = \A a \in Admins : req[a] = Idle]
      BY <1>3 DEF LoadPaper
    <2>3. /\ loading' = [t \in Students |-> loading'[t]] /\ shown' = [t \in Students |-> shown'[t]]
          /\ clean' = [t \in Students |-> clean'[t]]
          /\ shown'[s] = Render(loading'[s])
          /\ clean'[s] = \A a \in Admins : req[a] = Idle
          /\ \A t \in Students \ {s} :
                loading'[t] = loading[t] /\ shown'[t] = shown[t] /\ clean'[t] = clean[t]
      BY <2>1, <2>2 DEF StayInv
    <2>4. \A t \in Students : clean'[t] /\ (loading'[t] # None \/ attempt'[t] # None) =>
             /\ exam' \in {"published", "deleted"}
             /\ \A a \in Admins : req'[a].op \in {"idle", "publish", "close", "drop"}
      BY <1>1, <2>2, <2>3 DEF StayInv, Idle
    <2>5. \A t \in Students : clean'[t] /\ loading'[t] # None /\ exam' # "deleted" =>
             Render(loading[t])' = shown'[t]
      BY <1>1, <1>2, <2>3 DEF StayInv
    <2>6. PaperStays'
      BY <1>2, <2>2, <2>3 DEF StayInv, PaperStays
    <2> QED
      BY <1>1, <2>2, <2>3, <2>4, <2>5, <2>6 DEF StayInv
  <1>4. CASE InsertAttempt(s)
    <2>1. /\ attempt' = [attempt EXCEPT ![s] = IF exam = "deleted" THEN None ELSE loading[s]]
          /\ loading' = [loading EXCEPT ![s] = None]
          /\ shown' = shown /\ clean' = clean /\ loading[s] # None
      BY <1>4 DEF InsertAttempt
    <2>2. /\ loading' = [t \in Students |-> loading'[t]]
          /\ attempt' = [t \in Students |-> attempt'[t]]
          /\ loading'[s] = None /\ attempt'[s] = (IF exam = "deleted" THEN None ELSE loading[s])
          /\ \A t \in Students \ {s} : loading'[t] = loading[t] /\ attempt'[t] = attempt[t]
      BY <2>1 DEF StayInv
    <2>3. PaperStays'
      BY <1>2, <2>1, <2>2 DEF StayInv, PaperStays
    <2>4. \A t \in Students : clean'[t] /\ loading'[t] # None /\ exam' # "deleted" =>
             Render(loading[t])' = shown'[t]
      BY <1>1, <1>2, <2>1, <2>2 DEF StayInv
    <2> QED
      BY <1>1, <2>1, <2>2, <2>3, <2>4 DEF StayInv
  <1> QED
    BY <1>3, <1>4

LEMMA StayNext ==
  ASSUME StayInv, [Next]_vars
  PROVE  StayInv'
  <1>1. CASE UNCHANGED vars
    <2>1. \A x : Render(x)' = Render(x)
      BY <1>1, RenderStays DEF vars, rows
    <2>2. PaperStays'
      BY <1>1, <2>1 DEF StayInv, PaperStays, vars, starts
    <2>3. \A s \in Students : clean'[s] /\ loading'[s] # None /\ exam' # "deleted" =>
             Render(loading[s])' = shown'[s]
      BY <1>1, <2>1 DEF StayInv, vars, starts
    <2> QED
      BY <1>1, <2>2, <2>3 DEF StayInv, vars, starts
  <1> QED
    BY <1>1, EditStays, CommitsStay, StartStays DEF Next

\* "Content edits are blocked once an exam is live": whatever the admins do at the same
\* time, a student sees the paper of the start on every request, unless an edit was under
\* way during that start or the exam has been closed since.
THEOREM PaperUnchanged == Spec => []PaperStays
  <1>1. Init => StayInv
    BY DEF Init, StayInv, PaperStays
  <1>2. StayInv => PaperStays
    BY DEF StayInv
  <1> QED
    BY <1>1, <1>2, StayNext, PTL DEF Spec

-----------------------------------------------------------------------------
\* The numbers that requests compute.

\* Induction over the subsets of a finite set.
LEMMA SubsetInduction ==
  ASSUME NEW S, IsFiniteSet(S), NEW G,
         \A T \in SUBSET S : (\A U \in SUBSET T : U # T => U \in G) => T \in G
  PROVE  S \in G
  <1> DEFINE B == {T \in SUBSET S : T \notin G}
  <1> SUFFICES ASSUME B # {} PROVE FALSE
    OBVIOUS
  <1>1. IsWellFoundedOn(StrictSubsetOrdering(S), SUBSET S)
    <2>1. FiniteSubsetsOf(S) = SUBSET S
      BY FS_FiniteSubsetsOfFinite
    <2>2. IsWellFoundedOn(StrictSubsetOrdering(S), FiniteSubsetsOf(S))
      BY FS_StrictSubsetOrderingWellFounded
    <2> HIDE DEF B
    <2> QED
      BY <2>1, <2>2
  <1>2. PICK T \in B : \A U \in B : U \subseteq T => U = T
    <2>1. B \subseteq SUBSET S
      OBVIOUS
    <2> HIDE DEF B
    <2>2. PICK T \in B : \A U \in B : <<U, T>> \notin StrictSubsetOrdering(S)
      BY <1>1, <2>1, WFMin
    <2> QED
      BY <2>1, <2>2 DEF StrictSubsetOrdering
  <1>3. T \in SUBSET S /\ T \notin G
    OBVIOUS
  <1>4. \A U \in SUBSET T : U # T => U \in G
    BY <1>2, <1>3
  <1> QED
    BY <1>3, <1>4

\* The largest of finitely many numbers.
LEMMA LargestOf ==
  ASSUME NEW T \in SUBSET Nat, IsFiniteSet(T), T # {}
  PROVE  Max(T) \in T /\ \A y \in T : y <= Max(T)
  <1> DEFINE G == {U \in SUBSET T : U # {} => \E x \in U : \A y \in U : x >= y}
  <1>1. ASSUME NEW U \in SUBSET T, \A V \in SUBSET U : V # U => V \in G
        PROVE  U \in G
    <2> SUFFICES ASSUME U # {} PROVE \E x \in U : \A y \in U : x >= y
      OBVIOUS
    <2>1. PICK v \in U : TRUE
      OBVIOUS
    <2>2. U \ {v} \in G
      BY <1>1, <2>1
    <2>3. \A y \in U : y \in Nat
      OBVIOUS
    <2>4. CASE U \ {v} = {}
      BY <2>3, <2>4
    <2>5. CASE U \ {v} # {}
      <3>1. PICK x \in U \ {v} : \A y \in U \ {v} : x >= y
        BY <2>2, <2>5
      <3>2. CASE x >= v
        BY <3>1, <3>2
      <3>3. CASE v >= x
        BY <2>3, <3>1, <3>3
      <3> QED
        BY <2>3, <3>2, <3>3
    <2> QED
      BY <2>4, <2>5
  <1>2. T \in G
    <2> HIDE DEF G
    <2> QED
      BY <1>1, SubsetInduction
  <1> QED
    BY <1>2 DEF Max

LEMMA NextIndexType ==
  ASSUME NEW s, \A q \in Questions : There(q) => questions[q].index \in Nat
  PROVE  NextIndex(s) \in Nat
  <1>1. CASE InSection(s) = {}
    BY <1>1 DEF NextIndex
  <1>2. CASE InSection(s) # {}
    <2> DEFINE I == {questions[q].index : q \in InSection(s)}
    <2>1. IsFiniteSet(InSection(s))
      BY AuthoringAssumption, FS_Subset DEF InSection
    <2>2. IsFiniteSet(I)
      <3>1. PICK f : f = [q \in InSection(s) |-> questions[q].index]
        OBVIOUS
      <3>2. f \in Surjection(InSection(s), I)
        BY <3>1 DEF Surjection
      <3> QED
        BY <2>1, <3>2, FS_Surjection
    <2>3. I \in SUBSET Nat /\ I # {}
      BY <1>2 DEF InSection
    <2>4. Max(I) \in Nat
      <3> HIDE DEF I
      <3> QED
        BY <2>2, <2>3, LargestOf
    <2> QED
      BY <1>2, <2>4 DEF NextIndex
  <1> QED
    BY <1>1, <1>2

LEMMA CountType ==
  ASSUME NEW T \in SUBSET Questions
  PROVE  IsFiniteSet(T) /\ Cardinality(T) \in Nat
  BY AuthoringAssumption, FS_Subset, FS_CardinalityType

LEMMA PlanType ==
  ASSUME \A q \in Questions : There(q) => questions[q].group \in Groups \cup {None},
         NEW items, NEW q \in DOMAIN Plan(items)
  PROVE  Plan(items)[q] \in Nat
  <1> DEFINE block == Of(ItemOf(q))
             T == Before(items, ItemOf(q)) \cup {r \in block : Precedes(ByIndex(block), r, q)}
  <1>1. q \in Questions /\ There(q)
    BY DEF Plan
  <1>2. block \subseteq Questions
    BY <1>1, AuthoringAssumption DEF Of, ItemOf, Members
  <1>3. T \in SUBSET Questions
    BY <1>2 DEF Before
  <1>4. Plan(items)[q] = Cardinality(T)
    BY DEF Plan
  <1> HIDE DEF T
  <1> QED
    BY <1>3, <1>4, CountType

-----------------------------------------------------------------------------
\* References between rows.

\* What a request that begins may be.
Fits(r, ids) ==
    /\ r.op # "replaced"
    /\ r.op = "section" => r.section \in Sections
    /\ r.op = "patch" => r.columns \in [fits : BOOLEAN, shuffle : BOOLEAN]
    /\ r.op = "insert" =>
          /\ DOMAIN r.new # {} /\ DOMAIN r.new \subseteq Questions \cap ids /\ r.index \in Nat
          /\ \A q \in DOMAIN r.new : /\ r.new[q] \in QuestionRows /\ r.new[q].group = r.group
                                     /\ r.new[q].section \in sections
                                     /\ \A p \in DOMAIN r.new : r.new[p].section = r.new[q].section
          /\ r.group # None => r.group \in Groups \cap ids
    /\ r.op = "delete" /\ r.group # None =>
          /\ r.group \in Groups /\ groups[r.group] # None
          /\ Members(r.group) \subseteq r.ids
    /\ r.op = "reorder" => /\ \A q \in DOMAIN r.plan : r.plan[q] \in Nat
                           /\ \A g \in DOMAIN r.gplan : r.gplan[g] \in Nat
    /\ r.op = "update" => /\ DOMAIN r = {"op", "touch", "id", "stamp", "removed"}
                          /\ r.id \in Questions /\ r.stamp \in Nat

LEMMA BeginRefs ==
  ASSUME ReferenceInv, NEW a \in Admins, NEW ids, NEW r, Begin(a, ids, r), Fits(r, ids)
  PROVE  ReferenceInv'
  <1>1. /\ exam' = exam /\ settings' = settings /\ sections' = sections /\ groups' = groups
        /\ questions' = questions /\ fresh' = fresh \ ids /\ ids \subseteq fresh
        /\ req' = [req EXCEPT ![a] = r] /\ edits' = edits + 1 /\ edits < MaxEdits
    BY DEF Begin, rows
  <1>2. /\ req' = [b \in Admins |-> req'[b]]
        /\ req'[a] = r /\ \A b \in Admins \ {a} : req'[b] = req[b]
    BY <1>1 DEF ReferenceInv
  <1>3. \A q : There(q)' <=> There(q)
    BY <1>1 DEF There
  <1>4. \A g : Members(g)' = Members(g)
    BY <1>1, <1>3 DEF Members
  <1>5. TypeOK'
    <2>1. edits' \in 0 .. MaxEdits
      BY <1>1, AuthoringAssumption DEF ReferenceInv, TypeOK
    <2> QED
      BY <1>1, <1>3, <2>1 DEF ReferenceInv, TypeOK
  <1>6. \A b \in Admins \ {a} : Sound(req[b])'
    <2> SUFFICES ASSUME NEW b \in Admins \ {a} PROVE Sound(req[b])'
      OBVIOUS
    <2>1. req'[b] = req[b] /\ Sound(req[b])
      BY <1>2 DEF ReferenceInv
    <2> QED
      BY <1>1, <1>3, <1>4, <2>1 DEF Sound
  <1>7. Sound(req[a])'
    <2>1. r.op = "insert" => /\ \A q \in DOMAIN r.new : q \in fresh /\ ~There(q)
                             /\ r.group # None => r.group \in fresh /\ groups[r.group] = None
      BY <1>1 DEF Fits, ReferenceInv
    <2>2. r.op = "delete" /\ r.group # None => r.group \notin fresh
      BY DEF Fits, ReferenceInv
    <2> QED
      BY <1>1, <1>2, <1>3, <1>4, <2>1, <2>2 DEF Sound, Fits
  <1>8. ASSUME NEW b \in Admins, NEW c \in Admins,
               req'[b].op = "insert", req'[c].op = "insert", b # c
        PROVE  /\ DOMAIN req'[b].new \cap DOMAIN req'[c].new = {}
               /\ req'[b].group # None => req'[b].group # req'[c].group
    <2>1. CASE b = a
      BY <1>1, <1>2, <1>8, <2>1 DEF ReferenceInv, Sound, Fits
    <2>2. CASE c = a
      BY <1>1, <1>2, <1>8, <2>2 DEF ReferenceInv, Sound, Fits
    <2>3. CASE b # a /\ c # a
      BY <1>2, <1>8, <2>3 DEF ReferenceInv
    <2> QED
      BY <2>1, <2>2, <2>3
  <1>9. ASSUME NEW b \in Admins, NEW c \in Admins,
               req'[b].op = "insert", req'[c].op = "delete", req'[b].group # None
        PROVE  req'[b].group # req'[c].group
    <2>1. CASE b = a
      BY <1>1, <1>2, <1>9, <2>1 DEF ReferenceInv, Sound, Fits
    <2>2. CASE c = a
      BY <1>1, <1>2, <1>9, <2>2 DEF ReferenceInv, Sound, Fits
    <2>3. CASE b # a /\ c # a
      BY <1>2, <1>9, <2>3 DEF ReferenceInv
    <2> QED
      BY <2>1, <2>2, <2>3
  <1>10. \A b \in Admins : Sound(req[b])'
    BY <1>6, <1>7
  <1> QED
    BY <1>1, <1>2, <1>3, <1>5, <1>8, <1>9, <1>10 DEF ReferenceInv

\* A row that a request will insert.
LEMMA RowFits ==
  ASSUME edits \in Nat, NEW s \in Sections, NEW g \in Groups \cup {None}, NEW i \in Nat
  PROVE  Row(s, g, i) \in QuestionRows /\ Row(s, g, i).group = g /\ Row(s, g, i).section = s
  BY DEF QuestionRows, Row, QuestionRow

LEMMA InsertRefs ==
  ASSUME ReferenceInv, NEW a \in Admins,
         \/ \E s \in Sections, q \in Questions, i \in Indexes : CreateQuestion(a, s, q, i)
         \/ \E s \in Sections, q, r \in Questions : BulkUpload(a, s, q, r)
         \/ \E s \in Sections, p, q \in Questions : CopyQuestion(a, p, s, q)
         \/ \E s \in Sections, g \in Groups, q, r \in Questions, i \in Indexes :
               CreateGroup(a, s, g, q, r, i)
  PROVE  ReferenceInv'
  <1>0. edits \in Nat
    BY AuthoringAssumption DEF ReferenceInv, TypeOK
  <1>1. \A q \in Questions : There(q) => questions[q].index \in Nat
    BY DEF ReferenceInv, TypeOK
  <1>2. \A s : NextIndex(s) \in Nat
    BY <1>1, NextIndexType
  <1>3. ASSUME NEW s \in sections, s \in Sections, NEW g \in Groups \cup {None}, NEW i \in Nat,
               NEW ids, NEW new, DOMAIN new # {}, DOMAIN new \subseteq Questions \cap ids,
               g # None => g \in ids, \A q \in DOMAIN new : \E k \in Nat : new[q] = Row(s, g, k),
               Begin(a, ids, Insert(new, g, i))
        PROVE  ReferenceInv'
    <2>1. PICK r : r = Insert(new, g, i)
      OBVIOUS
    <2>2. r.op = "insert" /\ r.new = new /\ r.group = g /\ r.index = i
      BY <2>1 DEF Insert
    <2>3. ASSUME NEW q \in DOMAIN new
          PROVE  new[q] \in QuestionRows /\ new[q].group = g /\ new[q].section = s
      <3>1. PICK k \in Nat : new[q] = Row(s, g, k)
        BY <1>3
      <3>2. s \in Sections
        BY <1>3
      <3>3. Row(s, g, k) \in QuestionRows /\ Row(s, g, k).group = g /\ Row(s, g, k).section = s
        BY <1>0, <3>2, RowFits
      <3> QED
        BY <3>1, <3>3
    <2>4. Fits(r, ids)
      BY <1>3, <2>2, <2>3 DEF Fits
    <2> QED
      BY <1>3, <2>1, <2>4, BeginRefs
  <1>4. CASE \E s \in Sections, q \in Questions, i \in Indexes : CreateQuestion(a, s, q, i)
    <2>1. PICK s \in Sections, q \in Questions, i \in Indexes : CreateQuestion(a, s, q, i)
      BY <1>4
    <2>2. PICK new : new = [x \in {q} |-> Row(s, None, i)]
      OBVIOUS
    <2>3. s \in sections /\ Begin(a, {q}, Insert(new, None, 0)) /\ i \in Nat
      BY <2>1, <2>2, AuthoringAssumption DEF CreateQuestion, BeginEdit
    <2>4. DOMAIN new = {q} /\ \A x \in DOMAIN new : new[x] = Row(s, None, i)
      BY <2>2
    <2> QED
      BY <1>3, <2>3, <2>4
  <1>5. CASE \E s \in Sections, q, r \in Questions : BulkUpload(a, s, q, r)
    <2>1. PICK s \in Sections, q \in Questions, r \in Questions : BulkUpload(a, s, q, r)
      BY <1>5
    <2>2. PICK new : new = [x \in {q, r} |-> Row(s, None, IF x = q THEN NextIndex(s) ELSE NextIndex(s) + 1)]
      OBVIOUS
    <2>3. s \in sections /\ Begin(a, {q, r}, Insert(new, None, 0))
      BY <2>1, <2>2 DEF BulkUpload, BeginEdit
    <2>4. PICK n \in Nat : n = NextIndex(s)
      BY <1>2
    <2>5. n + 1 \in Nat
      OBVIOUS
    <2>6. DOMAIN new = {q, r} /\ \A x \in DOMAIN new : \E k \in Nat : new[x] = Row(s, None, k)
      BY <2>2, <2>4, <2>5
    <2> QED
      BY <1>3, <2>3, <2>6
  <1>6. CASE \E s \in Sections, p, q \in Questions : CopyQuestion(a, p, s, q)
    <2>1. PICK s \in Sections, p \in Questions, q \in Questions : CopyQuestion(a, p, s, q)
      BY <1>6
    <2>2. PICK new : new = [x \in {q} |-> Row(s, None, NextIndex(s))]
      OBVIOUS
    <2>3. s \in sections /\ Begin(a, {q}, Insert(new, None, 0))
      BY <2>1, <2>2 DEF CopyQuestion, BeginEdit
    <2>4. DOMAIN new = {q} /\ \A x \in DOMAIN new : new[x] = Row(s, None, NextIndex(s))
      BY <2>2
    <2>5. \A x \in DOMAIN new : \E k \in Nat : new[x] = Row(s, None, k)
      BY <1>2, <2>4
    <2> QED
      BY <1>3, <2>3, <2>4, <2>5
  <1>7. CASE \E s \in Sections, g \in Groups, q, r \in Questions, i \in Indexes :
                CreateGroup(a, s, g, q, r, i)
    <2>1. PICK s \in Sections, g \in Groups, q \in Questions, r \in Questions, i \in Indexes :
             CreateGroup(a, s, g, q, r, i)
      BY <1>7
    <2>2. PICK new : new = [x \in {q, r} |-> Row(s, g, IF x = r /\ i = 0 THEN 1 ELSE i)]
      OBVIOUS
    <2>3. s \in sections /\ Begin(a, {g, q, r}, Insert(new, g, i)) /\ i \in Nat
      BY <2>1, <2>2, AuthoringAssumption DEF CreateGroup, BeginEdit
    <2>4. DOMAIN new = {q, r} /\ \A x \in DOMAIN new : \E k \in Nat : new[x] = Row(s, g, k)
      BY <2>2, <2>3
    <2> QED
      BY <1>3, <2>3, <2>4
  <1> QED
    BY <1>4, <1>5, <1>6, <1>7

LEMMA EditRefs ==
  ASSUME ReferenceInv, NEW a \in Admins, Edits(a)
  PROVE  ReferenceInv'
  <1>1. CASE \E s \in Sections : CreateSection(a, s)
    <2>1. PICK s \in Sections : Begin(a, {s}, [op |-> "section", section |-> s])
      BY <1>1 DEF CreateSection, BeginEdit
    <2> QED
      BY <2>1, BeginRefs DEF Fits
  <1>2. CASE \E q \in Questions, touch \in Touching : UpdateQuestion(a, q, touch)
    <2>1. PICK q \in Questions, touch \in Touching : UpdateQuestion(a, q, touch)
      BY <1>2
    <2>2. PICK r : r = [op |-> "update", touch |-> touch, id |-> q, stamp |-> edits + 1,
                        removed |-> {}]
      OBVIOUS
    <2>3. /\ r.op = "update" /\ r.id \in Questions /\ r.stamp \in Nat
          /\ DOMAIN r = {"op", "touch", "id", "stamp", "removed"}
      BY <2>2, AuthoringAssumption DEF ReferenceInv, TypeOK
    <2>4. Begin(a, {}, r)
      BY <2>1, <2>2 DEF UpdateQuestion, BeginEdit
    <2> QED
      BY <2>3, <2>4, BeginRefs DEF Fits
  <1>3. CASE \E q \in Questions : DeleteQuestion(a, q)
    <2>1. PICK r : Begin(a, {}, r) /\ r.op = "delete" /\ r.group = None
      BY <1>3 DEF DeleteQuestion, BeginEdit
    <2> QED
      BY <2>1, BeginRefs DEF Fits
  <1>4. CASE \E g \in Groups : DeleteGroup(a, g)
    <2>1. PICK g \in Groups : groups[g] # None /\ Begin(a, {}, [op |-> "delete", group |-> g, ids |-> Members(g)])
      BY <1>4 DEF DeleteGroup, BeginEdit
    <2>2. PICK r : r = [op |-> "delete", group |-> g, ids |-> Members(g)]
      OBVIOUS
    <2>3. r.op = "delete" /\ r.group = g /\ r.ids = Members(g)
      BY <2>2
    <2> QED
      BY <2>1, <2>2, <2>3, BeginRefs DEF Fits
  <1>5. CASE \E s \in Sections : \E items \in SetToSeqs(Items(s)) : Reorder(a, s, items)
    <2>1. PICK items, r :
             /\ Begin(a, {}, r) /\ r.op = "reorder" /\ r.plan = Plan(items)
             /\ r.gplan = [g \in Range(items) \cap Groups |-> Cardinality(Before(items, g))]
      BY <1>5 DEF Reorder, BeginEdit
    <2>2. \A q \in DOMAIN r.plan : r.plan[q] \in Nat
      BY <2>1, PlanType DEF ReferenceInv, TypeOK
    <2>3. \A g : Cardinality(Before(items, g)) \in Nat
      BY CountType DEF Before
    <2>4. \A g \in DOMAIN r.gplan : r.gplan[g] \in Nat
      BY <2>1, <2>3
    <2> QED
      BY <2>1, <2>2, <2>4, BeginRefs DEF Fits
  <1>6. CASE \E new \in [fits : BOOLEAN, shuffle : BOOLEAN] : UpdateExam(a, new)
    <2>1. PICK r : Begin(a, {}, r) /\ r.op = "patch" /\ r.columns \in [fits : BOOLEAN, shuffle : BOOLEAN]
      BY <1>6 DEF UpdateExam, BeginEdit
    <2> QED
      BY <2>1, BeginRefs DEF Fits
  <1>7. CASE Publish(a) \/ Close(a) \/ DeleteExam(a)
    <2>1. PICK r : Begin(a, {}, r) /\ r.op \in {"publish", "close", "drop"}
      BY <1>7 DEF Publish, Close, DeleteExam
    <2> QED
      BY <2>1, BeginRefs DEF Fits
  <1> QED
    BY <1>1, <1>2, <1>3, <1>4, <1>5, <1>6, <1>7, InsertRefs DEF Edits

\* A request ends, and what it wrote is consistent: the rows it leaves belong to something,
\* nothing new is there but what it inserts, nothing that others have locked is gone.
LEMMA CommitRefs ==
  ASSUME ReferenceInv, NEW a \in Admins,
         req' = [req EXCEPT ![a] = Idle], fresh' = fresh, edits' = edits,
         exam' \in {"draft", "published", "closed", "deleted"},
         settings' \in [fits : BOOLEAN, shuffle : BOOLEAN],
         sections' \subseteq Sections,
         exam' # "deleted" => exam # "deleted" /\ sections \subseteq sections',
         questions' = [q \in Questions |-> questions'[q]],
         groups' = [g \in Groups |-> groups'[g]],
         \A q \in Questions : There(q)' =>
            /\ questions'[q] \in QuestionRows /\ questions'[q].section \in sections'
            /\ questions'[q].group # None =>
                  /\ groups'[questions'[q].group] # None
                  /\ groups'[questions'[q].group].section = questions'[q].section
            /\ \/ There(q) /\ questions'[q].group = questions[q].group
               \/ /\ req[a].op = "insert" /\ q \in DOMAIN req[a].new
                  /\ questions'[q] = req[a].new[q],
         \A g \in Groups : groups'[g] # None =>
            /\ groups'[g] \in GroupRows /\ groups'[g].section \in sections'
            /\ groups[g] # None \/ (req[a].op = "insert" /\ g = req[a].group),
         \A b \in Admins \ {a} : req[b].op = "replaced" => There(req[b].id)'
  PROVE  ReferenceInv'
  <1>1. /\ req' = [b \in Admins |-> req'[b]] /\ Idle.op = "idle" /\ req'[a] = Idle
        /\ \A b \in Admins \ {a} : req'[b] = req[b]
    BY DEF ReferenceInv, Idle
  <1>2. \A b \in Admins : req'[b].op # "idle" => b # a /\ req'[b] = req[b]
    BY <1>1
  <1>3. req[a].op = "insert" =>
          /\ \A q \in DOMAIN req[a].new : q \in Questions \ fresh /\ req[a].new[q].group = req[a].group
          /\ req[a].group # None => req[a].group \notin fresh
    BY DEF ReferenceInv, Sound
  <1>4. \A q \in Questions : There(q)' => q \notin fresh'
    BY <1>3 DEF ReferenceInv
  <1>5. \A g \in Groups : groups'[g] # None => g \notin fresh'
    BY <1>3, AuthoringAssumption DEF ReferenceInv
  <1>6. TypeOK'
    <2>1. \A q \in Questions : There(q)' => /\ questions'[q].section \in sections'
                                            /\ questions'[q].group \in Groups \cup {None}
                                            /\ questions'[q].index \in Nat
      BY DEF QuestionRows
    <2>2. edits' \in 0 .. MaxEdits
      BY DEF ReferenceInv, TypeOK
    <2> QED
      BY <2>1, <2>2 DEF TypeOK
  <1>7. ASSUME NEW b \in Admins, b # a, req'[b] = req[b]
        PROVE  Sound(req[b])'
    <2>1. Sound(req[b])
      BY DEF ReferenceInv
    <2>2. ASSUME req[b].op = "insert"
          PROVE  /\ DOMAIN req[b].new # {} /\ DOMAIN req[b].new \subseteq Questions \ fresh
                 /\ req[b].index \in Nat
                 /\ \A q \in DOMAIN req[b].new :
                       /\ ~There(q)' /\ req[b].new[q] \in QuestionRows
                       /\ req[b].new[q].group = req[b].group
                       /\ exam' # "deleted" => req[b].new[q].section \in sections'
                       /\ \A p \in DOMAIN req[b].new : req[b].new[p].section = req[b].new[q].section
                 /\ req[b].group # None => req[b].group \in Groups \ fresh /\ groups'[req[b].group] = None
      <3>1. req[a].op = "insert" => DOMAIN req[a].new \cap DOMAIN req[b].new = {}
        BY <1>7, <2>2 DEF ReferenceInv
      <3>2. req[a].op = "insert" /\ req[b].group # None => req[a].group # req[b].group
        BY <1>7, <2>2 DEF ReferenceInv
      <3>3. /\ DOMAIN req[b].new # {} /\ DOMAIN req[b].new \subseteq Questions \ fresh
            /\ req[b].index \in Nat
            /\ \A q \in DOMAIN req[b].new :
                  /\ ~There(q) /\ req[b].new[q] \in QuestionRows
                  /\ req[b].new[q].group = req[b].group
                  /\ exam # "deleted" => req[b].new[q].section \in sections
                  /\ \A p \in DOMAIN req[b].new : req[b].new[p].section = req[b].new[q].section
            /\ req[b].group # None => req[b].group \in Groups \ fresh /\ groups[req[b].group] = None
        BY <2>1, <2>2 DEF Sound
      <3>4. \A q \in DOMAIN req[b].new : ~There(q)'
        BY <3>1, <3>3
      <3>5. req[b].group # None => groups'[req[b].group] = None
        BY <3>2, <3>3
      <3> QED
        BY <3>3, <3>4, <3>5
    <2>3. ASSUME req[b].op = "delete", req[b].group # None
          PROVE  req[b].group \in Groups \ fresh /\ Members(req[b].group)' \subseteq req[b].ids
      <3>1. req[b].group \in Groups \ fresh /\ Members(req[b].group) \subseteq req[b].ids
        BY <2>1, <2>3 DEF Sound
      <3>2. req[a].op = "insert" => req[a].group # req[b].group
        BY <2>3 DEF ReferenceInv
      <3>3. ASSUME NEW q \in Questions, There(q)', questions'[q].group = req[b].group
            PROVE  There(q) /\ questions[q].group = req[b].group
        BY <1>3, <3>2, <3>3
      <3>4. Members(req[b].group)' \subseteq Members(req[b].group)
        BY <1>7, <3>3 DEF Members
      <3> QED
        BY <3>1, <3>4
    <2>4. req[b].op = "replaced" => There(req[b].id)'
      BY <1>7
    <2>5. /\ req[b].op = "section" => req[b].section \in Sections
          /\ req[b].op = "patch" => req[b].columns \in [fits : BOOLEAN, shuffle : BOOLEAN]
          /\ req[b].op = "reorder" => /\ \A q \in DOMAIN req[b].plan : req[b].plan[q] \in Nat
                                      /\ \A g \in DOMAIN req[b].gplan : req[b].gplan[g] \in Nat
          /\ req[b].op \in {"update", "replaced"} =>
                /\ DOMAIN req[b] = {"op", "touch", "id", "stamp", "removed"}
                /\ req[b].id \in Questions /\ req[b].stamp \in Nat
      BY <2>1 DEF Sound
    <2> QED
      BY <1>7, <2>2, <2>3, <2>4, <2>5 DEF Sound
  <1>8. ASSUME NEW b \in Admins PROVE Sound(req[b])'
    <2>1. CASE b = a
      BY <1>1, <2>1 DEF Sound
    <2>2. CASE b # a
      BY <1>1, <1>7, <2>2
    <2> QED
      BY <2>1, <2>2
  <1>9. \A b, c \in Admins : req'[b].op = "insert" /\ req'[c].op = "insert" /\ b # c =>
          /\ DOMAIN req'[b].new \cap DOMAIN req'[c].new = {}
          /\ req'[b].group # None => req'[b].group # req'[c].group
    BY <1>2 DEF ReferenceInv
  <1>10. \A b, c \in Admins :
           req'[b].op = "insert" /\ req'[c].op = "delete" /\ req'[b].group # None =>
              req'[b].group # req'[c].group
    BY <1>2 DEF ReferenceInv
  <1> QED
    BY <1>1, <1>4, <1>5, <1>6, <1>8, <1>9, <1>10 DEF ReferenceInv

\* A request that leaves questions and groups alone.
LEMMA PlainRefs ==
  ASSUME ReferenceInv, NEW a \in Admins,
         req' = [req EXCEPT ![a] = Idle], fresh' = fresh, edits' = edits,
         questions' = questions, groups' = groups,
         exam' \in {"draft", "published", "closed", "deleted"},
         settings' \in [fits : BOOLEAN, shuffle : BOOLEAN],
         sections' \subseteq Sections, sections \subseteq sections',
         exam' # "deleted" => exam # "deleted"
  PROVE  ReferenceInv'
  <1>1. /\ questions' = [q \in Questions |-> questions'[q]]
        /\ groups' = [g \in Groups |-> groups'[g]]
    BY DEF ReferenceInv
  <1>2. \A q \in Questions : There(q)' =>
            /\ questions'[q] \in QuestionRows /\ questions'[q].section \in sections'
            /\ questions'[q].group # None =>
                  /\ groups'[questions'[q].group] # None
                  /\ groups'[questions'[q].group].section = questions'[q].section
            /\ There(q) /\ questions'[q].group = questions[q].group
    BY DEF ReferenceInv, TypeOK, There
  <1>3. \A g \in Groups : groups'[g] # None =>
            /\ groups'[g] \in GroupRows /\ groups'[g].section \in sections'
            /\ groups[g] # None
    BY DEF ReferenceInv, TypeOK
  <1>4. \A b \in Admins \ {a} : req[b].op = "replaced" => There(req[b].id)'
    BY DEF ReferenceInv, Sound, There
  <1> QED
    BY <1>1, <1>2, <1>3, <1>4, CommitRefs

LEMMA CommitInsertRefs ==
  ASSUME ReferenceInv, NEW a \in Admins, CommitInsert(a)
  PROVE  ReferenceInv'
  <1> DEFINE r == req[a]
             row == GroupRow((CHOOSE x \in Range(r.new) : TRUE).section, r.index)
  <1>1. /\ req' = [req EXCEPT ![a] = Idle] /\ fresh' = fresh /\ edits' = edits
        /\ r.op = "insert" /\ exam # "deleted"
        /\ exam' = exam /\ settings' = settings /\ sections' = sections
        /\ questions' = [q \in Questions |-> IF q \in DOMAIN r.new THEN r.new[q] ELSE questions[q]]
        /\ groups' = [g \in Groups |-> IF g = r.group THEN row ELSE groups[g]]
    BY DEF CommitInsert, Commit, Fails
  <1>2. /\ DOMAIN r.new # {} /\ r.index \in Nat
        /\ \A q \in DOMAIN r.new : /\ q \in Questions /\ ~There(q) /\ r.new[q] \in QuestionRows
                                   /\ r.new[q].group = r.group /\ r.new[q].section \in sections
                                   /\ \A p \in DOMAIN r.new : r.new[p].section = r.new[q].section
    BY <1>1 DEF ReferenceInv, Sound
  <1>3. /\ row \in GroupRows /\ row.section \in sections
        /\ \A q \in DOMAIN r.new : row.section = r.new[q].section
    <2>1. PICK q : q \in DOMAIN r.new
      BY <1>2
    <2>2. \E x \in Range(r.new) : TRUE
      BY <2>1 DEF Range
    <2>3. PICK p \in DOMAIN r.new : (CHOOSE x \in Range(r.new) : TRUE) = r.new[p]
      BY <2>2 DEF Range
    <2>4. /\ row = GroupRow(r.new[p].section, r.index) /\ r.new[p].section \in sections
          /\ \A x \in DOMAIN r.new : r.new[p].section = r.new[x].section
      BY <1>2, <2>3
    <2>5. sections \subseteq Sections
      BY DEF ReferenceInv, TypeOK
    <2> HIDE DEF row
    <2> QED
      BY <1>2, <2>4, <2>5 DEF GroupRow, GroupRows
  <1> HIDE DEF r, row
  <1>4. \A g \in Groups : (g = r.group => groups'[g] = row) /\ (g # r.group => groups'[g] = groups[g])
    BY <1>1
  <1>5. row # None
    BY <1>3, AuthoringAssumption
  <1>6. ASSUME NEW q \in Questions, There(q)'
        PROVE  /\ questions'[q] \in QuestionRows /\ questions'[q].section \in sections'
               /\ questions'[q].group # None =>
                     /\ groups'[questions'[q].group] # None
                     /\ groups'[questions'[q].group].section = questions'[q].section
               /\ \/ There(q) /\ questions'[q].group = questions[q].group
                  \/ r.op = "insert" /\ q \in DOMAIN r.new /\ questions'[q] = r.new[q]
    <2>1. CASE q \in DOMAIN r.new
      <3>1. questions'[q] = r.new[q] /\ r.new[q].group \in Groups \cup {None}
        BY <1>1, <1>2, <2>1 DEF QuestionRows
      <3> QED
        BY <1>1, <1>2, <1>3, <1>4, <1>5, <2>1, <3>1
    <2>2. CASE q \notin DOMAIN r.new
      <3>1. questions'[q] = questions[q] /\ There(q)
        BY <1>1, <1>6, <2>2 DEF There
      <3>2. /\ questions[q] \in QuestionRows /\ questions[q].section \in sections
            /\ questions[q].group \in Groups \cup {None}
            /\ questions[q].group # None =>
                  /\ groups[questions[q].group] # None
                  /\ groups[questions[q].group].section = questions[q].section
        BY <3>1 DEF ReferenceInv, TypeOK
      <3>3. questions[q].group # None => questions[q].group # r.group
        BY <1>1, <3>2 DEF ReferenceInv, Sound, r
      <3> QED
        BY <1>1, <1>4, <3>1, <3>2, <3>3
    <2> QED
      BY <2>1, <2>2
  <1>7. \A g \in Groups : groups'[g] # None =>
            /\ groups'[g] \in GroupRows /\ groups'[g].section \in sections'
            /\ groups[g] # None \/ (r.op = "insert" /\ g = r.group)
    BY <1>1, <1>3, <1>4 DEF ReferenceInv, TypeOK
  <1>8. ASSUME NEW b \in Admins \ {a}, req[b].op = "replaced"
        PROVE  There(req[b].id)'
    <2>1. req[b].id \in Questions /\ There(req[b].id)
      BY <1>8 DEF ReferenceInv, Sound
    <2>2. req[b].id \notin DOMAIN r.new
      BY <1>2, <2>1
    <2> QED
      BY <1>1, <2>1, <2>2 DEF There
  <1>9. /\ questions' = [q \in Questions |-> questions'[q]]
        /\ groups' = [g \in Groups |-> groups'[g]]
    BY <1>1
  <1>10. /\ exam \in {"draft", "published", "closed", "deleted"}
         /\ settings \in [fits : BOOLEAN, shuffle : BOOLEAN] /\ sections \subseteq Sections
    BY DEF ReferenceInv, TypeOK
  <1> QED
    BY <1>1, <1>6, <1>7, <1>8, <1>9, <1>10, CommitRefs DEF r

\* A row that is changed is still a row.
LEMMA Rewritten ==
  ASSUME NEW row \in QuestionRows
  PROVE  /\ \A c \in SUBSET Nat : LET new == [row EXCEPT !.content = c] IN
              new \in QuestionRows /\ new.section = row.section /\ new.group = row.group
         /\ \A i \in Nat : LET new == [row EXCEPT !.index = i] IN
              new \in QuestionRows /\ new.section = row.section /\ new.group = row.group
  BY DEF QuestionRows

\* A request that rewrites some questions, in place.
LEMMA RewriteRefs ==
  ASSUME ReferenceInv, NEW a \in Admins,
         req' = [req EXCEPT ![a] = Idle], fresh' = fresh, edits' = edits,
         exam' = exam, settings' = settings, sections' = sections,
         questions' = [q \in Questions |-> questions'[q]],
         groups' = [g \in Groups |-> groups'[g]],
         \A q \in Questions : There(q) => /\ questions'[q] \in QuestionRows
                                          /\ questions'[q].section = questions[q].section
                                          /\ questions'[q].group = questions[q].group,
         \A q \in Questions : ~There(q) => questions'[q] = None,
         \A g \in Groups : groups[g] # None => /\ groups'[g] \in GroupRows
                                               /\ groups'[g].section = groups[g].section,
         \A g \in Groups : groups[g] = None => groups'[g] = None
  PROVE  ReferenceInv'
  <1>1. \A q \in Questions : There(q)' <=> There(q)
    BY AuthoringAssumption DEF There
  <1>2. \A g \in Groups : groups'[g] # None <=> groups[g] # None
    BY AuthoringAssumption
  <1>3. /\ exam \in {"draft", "published", "closed", "deleted"}
        /\ settings \in [fits : BOOLEAN, shuffle : BOOLEAN] /\ sections \subseteq Sections
        /\ \A g \in Groups : groups[g] # None => groups[g].section \in sections
        /\ \A q \in Questions : There(q) =>
              /\ questions[q].section \in sections /\ questions[q].group \in Groups \cup {None}
              /\ questions[q].group # None =>
                    /\ groups[questions[q].group] # None
                    /\ groups[questions[q].group].section = questions[q].section
    BY DEF ReferenceInv, TypeOK
  <1>4. ASSUME NEW q \in Questions, There(q)'
        PROVE  /\ questions'[q] \in QuestionRows /\ questions'[q].section \in sections'
               /\ questions'[q].group # None =>
                     /\ groups'[questions'[q].group] # None
                     /\ groups'[questions'[q].group].section = questions'[q].section
               /\ There(q) /\ questions'[q].group = questions[q].group
    BY <1>1, <1>2, <1>3, <1>4
  <1>5. \A g \in Groups : groups'[g] # None =>
            /\ groups'[g] \in GroupRows /\ groups'[g].section \in sections'
            /\ groups[g] # None
    BY <1>2, <1>3
  <1>6. \A b \in Admins \ {a} : req[b].op = "replaced" => There(req[b].id)'
    BY <1>1 DEF ReferenceInv, Sound
  <1> QED
    BY <1>3, <1>4, <1>5, <1>6, CommitRefs

LEMMA CommitUpdateRefs ==
  ASSUME ReferenceInv, NEW a \in Admins, CommitUpdate(a)
  PROVE  ReferenceInv'
  <1>1. /\ req' = [req EXCEPT ![a] = Idle] /\ fresh' = fresh /\ edits' = edits
        /\ req[a].op = "replaced"
        /\ exam' = exam /\ settings' = settings /\ sections' = sections /\ groups' = groups
        /\ questions' = [questions EXCEPT ![req[a].id].content =
                            (@ \ req[a].removed) \cup {req[a].stamp}]
    BY DEF CommitUpdate, Commit
  <1>2. req[a].id \in Questions /\ req[a].stamp \in Nat /\ There(req[a].id)
    BY <1>1 DEF ReferenceInv, Sound
  <1>3. PICK id : id = req[a].id
    OBVIOUS
  <1>4. /\ questions[id] \in QuestionRows /\ questions = [q \in Questions |-> questions[q]]
        /\ id \in Questions /\ There(id)
    BY <1>2, <1>3 DEF ReferenceInv
  <1>5. PICK c : c = (questions[id].content \ req[a].removed) \cup {req[a].stamp}
    OBVIOUS
  <1>6. c \in SUBSET Nat
    BY <1>2, <1>4, <1>5 DEF QuestionRows
  <1>7. questions' = [q \in Questions |->
                        IF q = id THEN [questions[id] EXCEPT !.content = c] ELSE questions[q]]
    BY <1>1, <1>3, <1>4, <1>5
  <1>8. ASSUME NEW q \in Questions, There(q)
        PROVE  /\ questions'[q] \in QuestionRows
               /\ questions'[q].section = questions[q].section
               /\ questions'[q].group = questions[q].group
    <2>1. CASE q = id
      <3>1. PICK row : row = [questions[id] EXCEPT !.content = c]
        OBVIOUS
      <3>2. row \in QuestionRows /\ row.section = questions[id].section
            /\ row.group = questions[id].group
        BY <1>4, <1>6, <3>1, Rewritten
      <3> QED
        BY <1>7, <2>1, <3>1, <3>2
    <2>2. CASE q # id
      BY <1>7, <1>8, <2>2 DEF ReferenceInv
    <2> QED
      BY <2>1, <2>2
  <1>9. \A q \in Questions : ~There(q) => questions'[q] = None
    BY <1>4, <1>7 DEF There
  <1>10. /\ groups' = [g \in Groups |-> groups'[g]]
         /\ \A g \in Groups : groups[g] # None => groups'[g] \in GroupRows
    BY <1>1 DEF ReferenceInv
  <1>11. questions' = [q \in Questions |-> questions'[q]]
    BY <1>7
  <1> QED
    BY <1>1, <1>8, <1>9, <1>10, <1>11, RewriteRefs

LEMMA CommitReorderRefs ==
  ASSUME ReferenceInv, NEW a \in Admins, CommitReorder(a)
  PROVE  ReferenceInv'
  <1>1. PICK r, moved :
           /\ r = req[a] /\ moved = {q \in DOMAIN r.plan : r.plan[q] # r.seen[q]}
           /\ Commit(a, "reorder") /\ ~Fails(r)
           /\ questions' = [q \in Questions |->
                              IF q \in moved THEN [questions[q] EXCEPT !.index = r.plan[q]]
                              ELSE questions[q]]
           /\ groups' = [g \in Groups |->
                           IF g \in DOMAIN r.gplan /\ groups[g] # None
                           THEN [groups[g] EXCEPT !.index = r.gplan[g]] ELSE groups[g]]
           /\ UNCHANGED <<exam, settings, sections, clean>>
    BY DEF CommitReorder
  <1>2. /\ req' = [req EXCEPT ![a] = Idle] /\ fresh' = fresh /\ edits' = edits
        /\ exam' = exam /\ settings' = settings /\ sections' = sections
        /\ r.op = "reorder" /\ \A q \in moved : There(q)
    BY <1>1 DEF Commit, Fails
  <1>3. /\ \A q \in moved : r.plan[q] \in Nat
        /\ \A g \in DOMAIN r.gplan : r.gplan[g] \in Nat
    BY <1>1, <1>2 DEF ReferenceInv, Sound
  <1>4. ASSUME NEW q \in Questions, There(q)
        PROVE  /\ questions'[q] \in QuestionRows
               /\ questions'[q].section = questions[q].section
               /\ questions'[q].group = questions[q].group
    <2>0. questions[q] \in QuestionRows
      BY <1>4 DEF ReferenceInv
    <2>1. CASE q \in moved
      <3>1. PICK i \in Nat : i = r.plan[q]
        BY <1>3, <2>1
      <3>2. PICK row : row = [questions[q] EXCEPT !.index = i]
        OBVIOUS
      <3>3. row \in QuestionRows /\ row.section = questions[q].section
            /\ row.group = questions[q].group
        BY <2>0, <3>2, Rewritten
      <3> QED
        BY <1>1, <2>1, <3>1, <3>2, <3>3
    <2>2. CASE q \notin moved
      BY <1>1, <2>0, <2>2
    <2> QED
      BY <2>1, <2>2
  <1>5. \A q \in Questions : ~There(q) => questions'[q] = None
    BY <1>1, <1>2 DEF There
  <1>6. ASSUME NEW g \in Groups, groups[g] # None
        PROVE  groups'[g] \in GroupRows /\ groups'[g].section = groups[g].section
    <2>0. groups[g] \in GroupRows
      BY <1>6 DEF ReferenceInv
    <2>1. CASE g \in DOMAIN r.gplan
      <3>1. groups'[g] = [groups[g] EXCEPT !.index = r.gplan[g]] /\ r.gplan[g] \in Nat
        BY <1>1, <1>3, <1>6, <2>1
      <3> QED
        BY <2>0, <3>1 DEF GroupRows
    <2>2. CASE g \notin DOMAIN r.gplan
      BY <1>1, <2>0, <2>2
    <2> QED
      BY <2>1, <2>2
  <1>7. \A g \in Groups : groups[g] = None => groups'[g] = None
    BY <1>1
  <1>8. /\ questions' = [q \in Questions |-> questions'[q]]
        /\ groups' = [g \in Groups |-> groups'[g]]
    BY <1>1
  <1> QED
    BY <1>2, <1>4, <1>5, <1>6, <1>7, <1>8, RewriteRefs

\* Who deletes a group deletes the children it has at the end, not only those that were
\* read: no request adds a child to a group that was there before it.
LEMMA CommitDeleteRefs ==
  ASSUME ReferenceInv, NEW a \in Admins, CommitDelete(a)
  PROVE  ReferenceInv'
  <1>1. PICK r : r = req[a]
    OBVIOUS
  <1>2. /\ req' = [req EXCEPT ![a] = Idle] /\ fresh' = fresh /\ edits' = edits
        /\ exam' = exam /\ settings' = settings /\ sections' = sections
        /\ r.op = "delete" /\ exam # "deleted" /\ \A q \in r.ids : ~Held(q)
        /\ questions' = [q \in Questions |-> IF q \in r.ids THEN None ELSE questions[q]]
        /\ groups' = [g \in Groups |-> IF g = r.group THEN None ELSE groups[g]]
    BY <1>1 DEF CommitDelete, Commit, Fails
  <1>3. r.group # None => Members(r.group) \subseteq r.ids
    BY <1>1, <1>2 DEF ReferenceInv, Sound
  <1>4. ASSUME NEW q \in Questions, There(q)'
        PROVE  /\ questions'[q] \in QuestionRows /\ questions'[q].section \in sections'
               /\ questions'[q].group # None =>
                     /\ groups'[questions'[q].group] # None
                     /\ groups'[questions'[q].group].section = questions'[q].section
               /\ There(q) /\ questions'[q].group = questions[q].group
    <2>1. q \notin r.ids /\ questions'[q] = questions[q] /\ There(q)
      BY <1>2, <1>4 DEF There
    <2>2. /\ questions[q] \in QuestionRows /\ questions[q].section \in sections
          /\ questions[q].group \in Groups \cup {None}
          /\ questions[q].group # None =>
                /\ groups[questions[q].group] # None
                /\ groups[questions[q].group].section = questions[q].section
      BY <2>1 DEF ReferenceInv, TypeOK
    <2>3. questions[q].group # None => questions[q].group # r.group
      BY <1>3, <2>1 DEF Members
    <2> QED
      BY <1>2, <2>1, <2>2, <2>3
  <1>5. \A g \in Groups : groups'[g] # None =>
            /\ groups'[g] \in GroupRows /\ groups'[g].section \in sections'
            /\ groups[g] # None
    BY <1>2 DEF ReferenceInv, TypeOK
  <1>6. \A b \in Admins \ {a} : req[b].op = "replaced" => There(req[b].id)'
    BY <1>2 DEF ReferenceInv, Sound, Held, There
  <1>7. /\ questions' = [q \in Questions |-> questions'[q]]
        /\ groups' = [g \in Groups |-> groups'[g]]
    BY <1>2
  <1>8. /\ exam \in {"draft", "published", "closed", "deleted"}
        /\ settings \in [fits : BOOLEAN, shuffle : BOOLEAN] /\ sections \subseteq Sections
    BY DEF ReferenceInv, TypeOK
  <1> QED
    BY <1>2, <1>4, <1>5, <1>6, <1>7, <1>8, CommitRefs

LEMMA ReplaceRefs ==
  ASSUME ReferenceInv, NEW a \in Admins, Replace(a)
  PROVE  ReferenceInv'
  <1>1. PICK r : r = [req[a] EXCEPT !.op = "replaced", !.removed = questions[req[a].id].content]
    OBVIOUS
  <1>2. /\ req[a].op = "update" /\ There(req[a].id) /\ req' = [req EXCEPT ![a] = r]
        /\ exam' = exam /\ settings' = settings /\ sections' = sections /\ groups' = groups
        /\ questions' = questions /\ edits' = edits /\ fresh' = fresh
    BY <1>1 DEF Replace, rows
  <1>3. /\ DOMAIN req[a] = {"op", "touch", "id", "stamp", "removed"}
        /\ req[a].id \in Questions /\ req[a].stamp \in Nat
    BY <1>2 DEF ReferenceInv, Sound
  <1>4. /\ r.op = "replaced" /\ r.id = req[a].id /\ r.stamp = req[a].stamp
        /\ DOMAIN r = {"op", "touch", "id", "stamp", "removed"}
    BY <1>1, <1>3
  <1>5. /\ req' = [b \in Admins |-> req'[b]] /\ req'[a] = r
        /\ \A b \in Admins \ {a} : req'[b] = req[b]
    BY <1>2 DEF ReferenceInv
  <1>6. \A q : There(q)' <=> There(q)
    BY <1>2 DEF There
  <1>7. \A g : Members(g)' = Members(g)
    BY <1>2, <1>6 DEF Members
  <1>8. Sound(req[a])'
    BY <1>2, <1>3, <1>4, <1>5, <1>6 DEF Sound
  <1>9. ASSUME NEW b \in Admins PROVE Sound(req[b])'
    <2>1. CASE b = a
      BY <1>8, <2>1
    <2>2. CASE b # a
      <3>1. req'[b] = req[b] /\ Sound(req[b])
        BY <1>5, <2>2 DEF ReferenceInv
      <3> QED
        BY <1>2, <1>6, <1>7, <3>1 DEF Sound
    <2> QED
      BY <2>1, <2>2
  <1>10. TypeOK'
    BY <1>2, <1>6 DEF ReferenceInv, TypeOK
  <1>11. \A b \in Admins : req'[b].op \in {"insert", "delete"} => b # a /\ req'[b] = req[b]
    BY <1>4, <1>5
  <1>12. \A b, c \in Admins : req'[b].op = "insert" /\ req'[c].op = "insert" /\ b # c =>
           /\ DOMAIN req'[b].new \cap DOMAIN req'[c].new = {}
           /\ req'[b].group # None => req'[b].group # req'[c].group
    BY <1>11 DEF ReferenceInv
  <1>13. \A b, c \in Admins :
           req'[b].op = "insert" /\ req'[c].op = "delete" /\ req'[b].group # None =>
              req'[b].group # req'[c].group
    BY <1>11 DEF ReferenceInv
  <1> QED
    BY <1>2, <1>5, <1>6, <1>9, <1>10, <1>12, <1>13 DEF ReferenceInv

LEMMA CommitsRefs ==
  ASSUME ReferenceInv, NEW a \in Admins, Commits(a)
  PROVE  ReferenceInv'
  <1>0. /\ exam \in {"draft", "published", "closed", "deleted"}
        /\ settings \in [fits : BOOLEAN, shuffle : BOOLEAN] /\ sections \subseteq Sections
    BY DEF ReferenceInv, TypeOK
  <1>1. CASE Abort(a)
    <2>1. /\ req' = [req EXCEPT ![a] = Idle] /\ fresh' = fresh /\ edits' = edits
          /\ exam' = exam /\ settings' = settings /\ sections' = sections
          /\ questions' = questions /\ groups' = groups
      BY <1>1 DEF Abort, Commit, rows
    <2> QED
      BY <1>0, <2>1, PlainRefs
  <1>2. CASE CommitSection(a)
    <2>1. /\ req' = [req EXCEPT ![a] = Idle] /\ fresh' = fresh /\ edits' = edits
          /\ exam' = exam /\ settings' = settings /\ sections' = sections \cup {req[a].section}
          /\ questions' = questions /\ groups' = groups
      BY <1>2 DEF CommitSection, Commit
    <2>2. req[a].section \in Sections
      BY <1>2 DEF CommitSection, Commit, ReferenceInv, Sound
    <2> QED
      BY <1>0, <2>1, <2>2, PlainRefs
  <1>3. CASE CommitSettings(a)
    <2>1. /\ req' = [req EXCEPT ![a] = Idle] /\ fresh' = fresh /\ edits' = edits
          /\ exam' = exam /\ settings' = req[a].columns /\ sections' = sections
          /\ questions' = questions /\ groups' = groups
      BY <1>3 DEF CommitSettings, Commit
    <2>2. req[a].columns \in [fits : BOOLEAN, shuffle : BOOLEAN]
      BY <1>3 DEF CommitSettings, Commit, ReferenceInv, Sound
    <2> QED
      BY <1>0, <2>1, <2>2, PlainRefs
  <1>4. CASE CommitPublish(a) \/ CommitClose(a)
    <2>1. /\ req' = [req EXCEPT ![a] = Idle] /\ fresh' = fresh /\ edits' = edits
          /\ exam' \in {exam, "published", "closed"} /\ exam # "deleted"
          /\ settings' = settings /\ sections' = sections
          /\ questions' = questions /\ groups' = groups
      BY <1>4 DEF CommitPublish, CommitClose, Commit, Fails, rows
    <2> QED
      BY <1>0, <2>1, PlainRefs
  <1>5. CASE CommitDrop(a)
    <2>1. /\ req' = [req EXCEPT ![a] = Idle] /\ fresh' = fresh /\ edits' = edits
          /\ exam' = "deleted" /\ settings' = settings /\ sections' = {}
          /\ questions' = [q \in Questions |-> None] /\ groups' = [g \in Groups |-> None]
          /\ \A q \in Questions : ~Held(q)
      BY <1>5 DEF CommitDrop
    <2>2. \A b \in Admins : req[b].op # "replaced"
      BY <2>1 DEF ReferenceInv, Sound, Held
    <2>3. /\ \A q \in Questions : ~There(q)'
          /\ \A g \in Groups : groups'[g] = None
      BY <2>1 DEF There
    <2>4. /\ questions' = [q \in Questions |-> questions'[q]]
          /\ groups' = [g \in Groups |-> groups'[g]]
      BY <2>1
    <2> QED
      BY <1>0, <2>1, <2>2, <2>3, <2>4, CommitRefs
  <1> QED
    BY <1>1, <1>2, <1>3, <1>4, <1>5, CommitInsertRefs, CommitUpdateRefs, CommitDeleteRefs,
       CommitReorderRefs, ReplaceRefs DEF Commits

LEMMA FirstRefs == Init => ReferenceInv
  <1> SUFFICES ASSUME Init PROVE ReferenceInv
    OBVIOUS
  <1>1. PICK p \in Papers : sections = p.sections /\ groups = p.groups /\ questions = p.questions
    BY DEF Init
  <1>2. /\ sections \subseteq Sections
        /\ groups \in [Groups -> {None} \cup [section : sections, index : Nat]]
        /\ questions \in [Questions -> {None} \cup
             [section : sections, group : Groups \cup {None}, index : Nat, content : {{0}}]]
        /\ \A q \in Questions : questions[q] # None /\ questions[q].group # None =>
              /\ groups[questions[q].group] # None
              /\ groups[questions[q].group].section = questions[q].section
    BY <1>1, AuthoringAssumption
  <1>3. /\ fresh = (Sections \ sections) \cup {x \in Groups : groups[x] = None}
                     \cup {x \in Questions : questions[x] = None}
        /\ edits = 0 /\ req = [a \in Admins |-> Idle] /\ Idle.op = "idle"
        /\ settings \in [fits : BOOLEAN, shuffle : BOOLEAN]
        /\ exam \in {"draft", "published"}
    BY DEF Init, Idle
  <1>4. \A q \in Questions : There(q) =>
           /\ questions[q] \in QuestionRows /\ questions[q].section \in sections
    BY <1>2 DEF There, QuestionRows
  <1>5. \A g \in Groups : groups[g] # None => groups[g] \in GroupRows /\ groups[g].section \in sections
    BY <1>2 DEF GroupRows
  <1>6. TypeOK
    <2>1. \A q \in Questions : There(q) => /\ questions[q].group \in Groups \cup {None}
                                           /\ questions[q].index \in Nat
      BY <1>4 DEF QuestionRows
    <2>2. edits \in 0 .. MaxEdits
      BY <1>3, AuthoringAssumption
    <2> QED
      BY <1>2, <1>3, <1>4, <1>5, <2>1, <2>2 DEF TypeOK, There
  <1>7. \A q \in Questions : There(q) => q \notin fresh
    <2> SUFFICES ASSUME NEW q \in Questions, There(q), q \in fresh PROVE FALSE
      OBVIOUS
    <2>1. q \in (Sections \cup Groups) \/ questions[q] = None
      BY <1>3
    <2> QED
      BY <2>1, AuthoringAssumption DEF There
  <1>8. \A g \in Groups : groups[g] # None => g \notin fresh
    <2> SUFFICES ASSUME NEW g \in Groups, groups[g] # None, g \in fresh PROVE FALSE
      OBVIOUS
    <2>1. g \in Sections \/ g \in Questions
      BY <1>2, <1>3
    <2> QED
      BY <2>1, AuthoringAssumption
  <1>9. \A a \in Admins : Sound(req[a])
    BY <1>3 DEF Sound
  <1>10. /\ questions = [q \in Questions |-> questions[q]] /\ groups = [g \in Groups |-> groups[g]]
         /\ req = [a \in Admins |-> req[a]] /\ \A a \in Admins : req[a].op = "idle"
    BY <1>2, <1>3
  <1>11. \A q \in Questions : There(q) /\ questions[q].group # None =>
            groups[questions[q].group].section = questions[q].section
    BY <1>2 DEF There
  <1> QED
    BY <1>11, <1>4, <1>5, <1>6, <1>7, <1>8, <1>9, <1>10 DEF ReferenceInv

LEMMA SameRefs ==
  ASSUME ReferenceInv, UNCHANGED <<exam, settings, sections, groups, questions, req, fresh, edits>>
  PROVE  ReferenceInv'
  <1>1. \A q : There(q)' <=> There(q)
    BY DEF There
  <1>2. \A g : Members(g)' = Members(g)
    BY <1>1 DEF Members
  <1>3. TypeOK'
    BY <1>1 DEF ReferenceInv, TypeOK
  <1>4. \A a \in Admins : Sound(req[a])'
    <2> SUFFICES ASSUME NEW a \in Admins PROVE Sound(req[a])'
      OBVIOUS
    <2>1. Sound(req[a]) /\ req'[a] = req[a]
      BY DEF ReferenceInv
    <2> QED
      BY <1>1, <1>2, <2>1 DEF Sound
  <1> QED
    BY <1>1, <1>3, <1>4 DEF ReferenceInv

LEMMA RefsNext ==
  ASSUME ReferenceInv, [Next]_vars
  PROVE  ReferenceInv'
  <1>1. CASE UNCHANGED vars
    BY <1>1, SameRefs DEF vars, rows
  <1>2. ASSUME NEW s \in Students, LoadPaper(s) \/ InsertAttempt(s)
        PROVE  ReferenceInv'
    BY <1>2, SameRefs DEF LoadPaper, InsertAttempt, rows
  <1> QED
    BY <1>1, <1>2, EditRefs, CommitsRefs DEF Next

\* However many admins edit at once, nothing in the exam hangs: a question belongs to a
\* section that is there, and to a group only if the group is.
THEOREM NothingHangs == Spec => []TypeOK
  <1>1. ReferenceInv /\ [Next]_vars => ReferenceInv'
    BY RefsNext
  <1>2. ReferenceInv => TypeOK
    BY DEF ReferenceInv
  <1> QED
    BY FirstRefs, <1>1, <1>2, PTL DEF Spec

-----------------------------------------------------------------------------
\* The order of a section.

\* What SetToSeqs enumerates: every element, once.
LEMMA Enumeration ==
  ASSUME NEW S, IsFiniteSet(S), NEW s \in SetToSeqs(S)
  PROVE  /\ Cardinality(S) \in Nat /\ DOMAIN s = 1 .. Cardinality(S)
         /\ s = [i \in 1 .. Cardinality(S) |-> s[i]] /\ \A i \in DOMAIN s : s[i] \in S
         /\ \A i, j \in DOMAIN s : s[i] = s[j] => i = j
         /\ \A x \in S : \E i \in DOMAIN s : s[i] = x
  <1> DEFINE D == 1 .. Cardinality(S)
  <1>1. Cardinality(S) \in Nat
    BY FS_CardinalityType
  <1>2. s \in [D -> S] /\ \A i, j \in D : i # j => s[i] # s[j]
    BY DEF SetToSeqs
  <1>3. IsFiniteSet(D) /\ Cardinality(D) = Cardinality(S)
    BY <1>1, FS_Interval
  <1> HIDE DEF D
  <1>4. s \in Injection(D, S)
    BY <1>2 DEF Injection, IsInjective
  <1>5. s \in Surjection(D, S)
    BY <1>3, <1>4, FS_Injection
  <1>6. \A x \in S : \E i \in D : s[i] = x
    BY <1>5 DEF Surjection
  <1> QED
    BY <1>1, <1>2, <1>6 DEF D

\* The questions of a block can be put in the order of their indexes.
Sorted(s) == \A i, j \in DOMAIN s : i < j => questions[s[i]].index <= questions[s[j]].index

LEMMA SortedExists ==
  ASSUME NEW M, IsFiniteSet(M), \A q \in M : questions[q].index \in Nat
  PROVE  \E s \in SetToSeqs(M) : Sorted(s)
  <1> DEFINE G == {T \in SUBSET M : \E s \in SetToSeqs(T) : Sorted(s)}
  <1>1. ASSUME NEW T \in SUBSET M, \A U \in SUBSET T : U # T => U \in G
        PROVE  \E s \in SetToSeqs(T) : Sorted(s)
    <2>0. IsFiniteSet(T) /\ Cardinality(T) \in Nat
      BY FS_Subset, FS_CardinalityType
    <2>1. CASE T = {}
      <3>1. Cardinality(T) = 0
        BY <2>1, FS_EmptySet
      <3>2. <<>> \in SetToSeqs(T) /\ Sorted(<<>>)
        BY <2>1, <3>1 DEF SetToSeqs, Sorted
      <3> QED
        BY <3>2
    <2>2. CASE T # {}
      <3> DEFINE I == {questions[q].index : q \in T}
      <3>1. IsFiniteSet(I) /\ I \in SUBSET Nat /\ I # {}
        <4>1. PICK f : f = [q \in T |-> questions[q].index]
          OBVIOUS
        <4>2. f \in Surjection(T, I)
          BY <4>1 DEF Surjection
        <4> QED
          BY <2>0, <2>2, <4>2, FS_Surjection
      <3>2. PICK x \in T : \A q \in T : questions[q].index <= questions[x].index
        <4>1. Max(I) \in I /\ \A y \in I : y <= Max(I)
          <5> HIDE DEF I
          <5> QED
            BY <3>1, LargestOf
        <4> QED
          BY <4>1
      <3>3. T \ {x} \in G
        BY <1>1, <3>2
      <3>4. PICK s \in SetToSeqs(T \ {x}) : Sorted(s)
        BY <3>3
      <3>5. PICK n \in Nat : n = Cardinality(T \ {x}) /\ Cardinality(T) = n + 1
        <4>1. IsFiniteSet(T \ {x}) /\ Cardinality(T \ {x}) = Cardinality(T) - 1
          BY <2>0, <3>2, FS_RemoveElement
        <4> QED
          BY <2>0, <4>1, FS_CardinalityType
      <3>6. /\ s \in [1 .. n -> T \ {x}]
            /\ \A i, j \in 1 .. n : i # j => s[i] # s[j]
        BY <3>4, <3>5 DEF SetToSeqs
      <3>7. PICK t : t = [i \in 1 .. n + 1 |-> IF i = n + 1 THEN x ELSE s[i]]
        OBVIOUS
      <3>8. \A i \in 1 .. n + 1 : i = n + 1 \/ i \in 1 .. n
        BY <3>5
      <3>9. t \in [1 .. n + 1 -> T] /\ \A i, j \in 1 .. n + 1 : i # j => t[i] # t[j]
        BY <3>2, <3>6, <3>7, <3>8
      <3>10. t \in SetToSeqs(T)
        BY <3>5, <3>9 DEF SetToSeqs
      <3>11. ASSUME NEW i \in 1 .. n + 1, NEW j \in 1 .. n + 1, i < j
             PROVE  questions[t[i]].index <= questions[t[j]].index
        <4>1. i \in 1 .. n /\ t[i] = s[i] /\ s[i] \in T
          BY <3>6, <3>7, <3>11
        <4>2. CASE j = n + 1
          BY <3>2, <3>7, <4>1, <4>2
        <4>3. CASE j \in 1 .. n
          <5>1. t[j] = s[j]
            BY <3>7, <4>3
          <5>2. questions[s[i]].index <= questions[s[j]].index
            BY <3>4, <3>6, <3>11, <4>1, <4>3 DEF Sorted
          <5> QED
            BY <4>1, <5>1, <5>2
        <4> QED
          BY <3>8, <4>2, <4>3
      <3>12. DOMAIN t = 1 .. n + 1
        BY <3>7
      <3> QED
        BY <3>10, <3>11, <3>12 DEF Sorted
    <2> QED
      BY <2>1, <2>2
  <1>2. M \in G
    <2>1. \A T \in SUBSET M : (\A U \in SUBSET T : U # T => U \in G) => T \in G
      BY <1>1
    <2> HIDE DEF G
    <2> QED
      BY <2>1, SubsetInduction
  <1> QED
    BY <1>2

LEMMA ByIndexSorts ==
  ASSUME NEW M, IsFiniteSet(M), \A q \in M : questions[q].index \in Nat
  PROVE  ByIndex(M) \in SetToSeqs(M) /\ Sorted(ByIndex(M))
  BY SortedExists DEF ByIndex, Sorted

\* In an enumeration, to come before is a strict order.
LEMMA PrecedesIsOrder ==
  ASSUME NEW S, IsFiniteSet(S), NEW s \in SetToSeqs(S)
  PROVE  /\ \A x : ~Precedes(s, x, x)
         /\ \A x, y, z : Precedes(s, x, y) /\ Precedes(s, y, z) => Precedes(s, x, z)
  <1>1. /\ DOMAIN s \subseteq Int
        /\ \A i, j \in DOMAIN s : s[i] = s[j] => i = j
    BY Enumeration
  <1>2. ASSUME NEW x, Precedes(s, x, x) PROVE FALSE
    BY <1>1, <1>2 DEF Precedes
  <1>3. ASSUME NEW x, NEW y, NEW z, Precedes(s, x, y), Precedes(s, y, z)
        PROVE  Precedes(s, x, z)
    <2>1. PICK i, j \in DOMAIN s : i < j /\ s[i] = x /\ s[j] = y
      BY <1>3 DEF Precedes
    <2>2. PICK k, l \in DOMAIN s : k < l /\ s[k] = y /\ s[l] = z
      BY <1>3 DEF Precedes
    <2>3. i < l
      BY <1>1, <2>1, <2>2
    <2> QED
      BY <2>1, <2>2, <2>3 DEF Precedes
  <1> QED
    BY <1>2, <1>3

\* Rows that can be ordered: what the proofs below need of the type invariant.
Orderly ==
    \A q \in Questions : There(q) =>
        questions[q].group \in Groups \cup {None} /\ questions[q].index \in Nat

LEMMA ItemsFinite ==
  ASSUME NEW s
  PROVE  IsFiniteSet(Items(s))
  <1>1. Standalone(s) \in SUBSET Questions /\ GroupsIn(s) \in SUBSET Groups
    BY DEF Standalone, InSection, GroupsIn
  <1>2. IsFiniteSet(Standalone(s)) /\ IsFiniteSet(GroupsIn(s))
    BY <1>1, AuthoringAssumption, FS_Subset
  <1> QED
    BY <1>2, FS_Union DEF Items

\* The questions of an item of a section.
LEMMA BlockOf ==
  ASSUME Orderly, NEW s, NEW x \in Items(s)
  PROVE  /\ Of(x) \in SUBSET Questions /\ IsFiniteSet(Of(x))
         /\ \A q \in Of(x) : There(q) /\ ItemOf(q) = x /\ questions[q].index \in Nat
  <1>1. CASE x \in Groups
    <2>1. Of(x) = Members(x) /\ x # None
      BY <1>1, AuthoringAssumption DEF Of
    <2>2. /\ Of(x) \in SUBSET Questions
          /\ \A q \in Of(x) : There(q) /\ ItemOf(q) = x /\ questions[q].index \in Nat
      BY <2>1 DEF Members, ItemOf, Orderly
    <2> QED
      BY <2>2, AuthoringAssumption, FS_Subset
  <1>2. CASE x \notin Groups
    <2>1. x \in Questions /\ There(x) /\ questions[x].group = None /\ Of(x) = {x}
      BY <1>2 DEF Items, Standalone, InSection, GroupsIn, Of
    <2> QED
      BY <2>1, FS_Singleton DEF ItemOf, Orderly
  <1> QED
    BY <1>1, <1>2

\* The plan numbers the items in the order of the payload, and the children of a group in
\* the order they had.
LEMMA PlanOrders ==
  ASSUME Orderly, NEW s, NEW items \in SetToSeqs(Items(s))
  PROVE  /\ \A x \in Range(items) : Of(x) \subseteq DOMAIN Plan(items)
         /\ \A i, j \in DOMAIN items : i < j =>
               \A q \in Of(items[i]), r \in Of(items[j]) : Plan(items)[q] < Plan(items)[r]
         /\ \A g \in Range(items) \cap Groups : \A q, r \in Members(g) :
               questions[q].index < questions[r].index => Plan(items)[q] < Plan(items)[r]
  <1> DEFINE First(q) == {r \in Of(ItemOf(q)) : Precedes(ByIndex(Of(ItemOf(q))), r, q)}
             T(q) == Before(items, ItemOf(q)) \cup First(q)
  <1>1. /\ \A i \in DOMAIN items : items[i] \in Items(s)
        /\ \A x : ~Precedes(items, x, x)
        /\ \A x, y, z : Precedes(items, x, y) /\ Precedes(items, y, z) => Precedes(items, x, z)
    BY ItemsFinite, Enumeration, PrecedesIsOrder
  <1>2. \A x \in Range(items) : x \in Items(s)
    BY <1>1 DEF Range
  <1>3. ASSUME NEW x \in Range(items), NEW q \in Of(x)
        PROVE  /\ q \in Questions /\ There(q) /\ ItemOf(q) = x
               /\ q \in DOMAIN Plan(items) /\ Plan(items)[q] = Cardinality(T(q))
               /\ T(q) \in SUBSET Questions
    <2>1. x \in Items(s)
      BY <1>2
    <2>2. q \in Questions /\ There(q) /\ ItemOf(q) = x /\ Of(x) \subseteq Questions
      BY <2>1, BlockOf
    <2>3. T(q) \in SUBSET Questions
      BY <2>2 DEF Before
    <2> QED
      BY <2>2, <2>3 DEF Plan
  <1>4. ASSUME NEW x \in Range(items)
        PROVE  /\ \A q : ~Precedes(ByIndex(Of(x)), q, q)
               /\ \A p, q, r : Precedes(ByIndex(Of(x)), p, q) /\ Precedes(ByIndex(Of(x)), q, r)
                     => Precedes(ByIndex(Of(x)), p, r)
               /\ \A q, r \in Of(x) : questions[q].index < questions[r].index =>
                     Precedes(ByIndex(Of(x)), q, r)
    <2>1. IsFiniteSet(Of(x)) /\ \A q \in Of(x) : questions[q].index \in Nat
      BY <1>2, BlockOf
    <2>2. PICK b : b = ByIndex(Of(x)) /\ b \in SetToSeqs(Of(x)) /\ Sorted(b)
      BY <2>1, ByIndexSorts
    <2>3. \A i \in DOMAIN b : i \in Int
      BY <2>1, <2>2, Enumeration
    <2>4. ASSUME NEW q \in Of(x), NEW r \in Of(x), questions[q].index < questions[r].index
          PROVE  Precedes(b, q, r)
      <3>1. PICK i, j \in DOMAIN b : b[i] = q /\ b[j] = r
        BY <2>1, <2>2, Enumeration
      <3>2. i \in Int /\ j \in Int /\ questions[q].index \in Nat /\ questions[r].index \in Nat
        BY <2>1, <2>3
      <3>3. ~(j < i) /\ i # j
        BY <2>2, <2>4, <3>1, <3>2 DEF Sorted
      <3> QED
        BY <3>1, <3>2, <3>3 DEF Precedes
    <2> QED
      BY <2>1, <2>2, <2>4, PrecedesIsOrder
  <1>5. ASSUME NEW q, NEW r, T(q) \in SUBSET Questions, T(r) \in SUBSET Questions,
               T(q) \subseteq T(r), \E p \in T(r) : p \notin T(q)
        PROVE  Cardinality(T(q)) < Cardinality(T(r))
    <2> HIDE DEF T
    <2>1. IsFiniteSet(T(r)) /\ Cardinality(T(r)) \in Nat /\ Cardinality(T(q)) \in Nat
      BY <1>5, CountType
    <2>2. Cardinality(T(q)) <= Cardinality(T(r)) /\ Cardinality(T(r)) # Cardinality(T(q))
      BY <1>5, <2>1, FS_Subset
    <2> QED
      BY <2>1, <2>2
  <1>6. ASSUME NEW i \in DOMAIN items, NEW j \in DOMAIN items, i < j,
               NEW q \in Of(items[i]), NEW r \in Of(items[j])
        PROVE  Plan(items)[q] < Plan(items)[r]
    <2>1. items[i] \in Range(items) /\ items[j] \in Range(items)
      BY DEF Range
    <2>2. Precedes(items, items[i], items[j])
      BY <1>6 DEF Precedes
    <2>3. \A p \in First(q) : p \in Questions /\ There(p) /\ ItemOf(p) = items[i]
      BY <1>3, <2>1
    <2>4. T(q) \subseteq Before(items, items[j])
      <3>1. ItemOf(q) = items[i]
        BY <1>3, <2>1
      <3>2. ASSUME NEW p \in Before(items, items[i])
            PROVE  p \in Before(items, items[j])
        <4>1. p \in Questions /\ There(p) /\ Precedes(items, ItemOf(p), items[i])
          BY DEF Before
        <4>2. Precedes(items, ItemOf(p), items[j])
          BY <1>1, <2>2, <4>1
        <4> QED
          BY <4>1, <4>2 DEF Before
      <3>3. \A p \in First(q) : p \in Before(items, items[j])
        BY <2>2, <2>3 DEF Before
      <3> QED
        BY <3>1, <3>2, <3>3
    <2>5. q \in Before(items, items[j])
      BY <1>3, <2>1, <2>2 DEF Before
    <2>6. q \notin T(q)
      BY <1>1, <1>3, <1>4, <2>1 DEF Before
    <2>7. T(q) \subseteq T(r) /\ q \in T(r)
      BY <1>3, <2>1, <2>4, <2>5
    <2> HIDE DEF T
    <2> QED
      BY <1>3, <1>5, <2>1, <2>6, <2>7
  <1>7. ASSUME NEW g \in Range(items) \cap Groups, NEW q \in Members(g), NEW r \in Members(g),
               questions[q].index < questions[r].index
        PROVE  Plan(items)[q] < Plan(items)[r]
    <2>1. Of(g) = Members(g)
      BY DEF Of
    <2>2. ItemOf(q) = g /\ ItemOf(r) = g
      BY <1>3, <2>1
    <2>3. Precedes(ByIndex(Of(g)), q, r)
      BY <1>4, <1>7, <2>1
    <2>4. T(q) \subseteq T(r)
      BY <1>4, <2>2, <2>3
    <2>5. q \in T(r)
      BY <2>1, <2>2, <2>3
    <2>6. q \notin T(q)
      BY <1>1, <1>4, <2>2 DEF Before
    <2> HIDE DEF T
    <2> QED
      BY <1>3, <1>5, <2>1, <2>4, <2>5, <2>6
  <1>8. \A x \in Range(items) : Of(x) \subseteq DOMAIN Plan(items)
    BY <1>3
  <1> QED
    BY <1>6, <1>7, <1>8

\* Plans and items change with the rows only.
LEMMA PlanStays ==
  ASSUME questions' = questions
  PROVE  \A items : Plan(items)' = Plan(items)
  <1>1. \A q : There(q)' = There(q)
    BY DEF There
  <1>2. \A q : ItemOf(q)' = ItemOf(q)
    BY DEF ItemOf
  <1>3. \A x : Of(x)' = Of(x)
    BY <1>1 DEF Of, Members
  <1>4. \A S : ByIndex(S)' = ByIndex(S)
    BY DEF ByIndex
  <1> SUFFICES ASSUME NEW items PROVE Plan(items)' = Plan(items)
    OBVIOUS
  <1>5. \A x : Before(items, x)' = Before(items, x)
    BY <1>1, <1>2 DEF Before
  <1> QED
    BY <1>1, <1>2, <1>3, <1>4, <1>5 DEF Plan

LEMMA ItemsStay ==
  ASSUME questions' = questions, groups' = groups
  PROVE  \A s : Items(s)' = Items(s)
  BY DEF Items, Standalone, InSection, GroupsIn, There

\* What a request plans when it begins.
Planned(r) ==
    r.op = "reorder" =>
        /\ \E s \in Sections : r.items \in SetToSeqs(Items(s))
        /\ r.plan = Plan(r.items)
        /\ r.seen = [q \in DOMAIN r.plan |-> questions[q].index]

LEMMA PlannedStays ==
  ASSUME questions' = questions, groups' = groups
  PROVE  \A r : Planned(r) => Planned(r)'
  <1> SUFFICES ASSUME NEW r, Planned(r), r.op = "reorder" PROVE Planned(r)'
    BY DEF Planned
  <1>1. \A s : Items(s)' = Items(s)
    BY ItemsStay
  <1>2. Plan(r.items)' = Plan(r.items)
    BY PlanStays
  <1> QED
    BY <1>1, <1>2 DEF Planned

LEMMA BeginOrder ==
  ASSUME OrderInv, NEW a \in Admins, NEW ids, NEW r, Begin(a, ids, r), Planned(r)
  PROVE  OrderInv'
  <1>1. /\ questions' = questions /\ groups' = groups /\ req[a] = Idle
        /\ req' = [req EXCEPT ![a] = r]
        /\ solo' = [b \in Admins |-> \A c \in Admins \ {a} : req[c] = Idle]
    BY DEF Begin, rows
  <1>2. /\ req' = [b \in Admins |-> req'[b]] /\ req'[a] = r
        /\ \A b \in Admins \ {a} : req'[b] = req[b]
    BY <1>1 DEF OrderInv
  <1>3. ASSUME NEW b \in Admins, NEW c \in Admins
        PROVE  /\ solo'[b] => solo'[c]
               /\ solo'[b] /\ req'[b] # Idle /\ req'[c] # Idle => b = c
    BY <1>1, <1>2
  <1>4. ASSUME NEW b \in Admins, solo'[b], req'[b].op = "reorder"
        PROVE  Planned(req[b])'
    <2>1. b = a
      BY <1>1, <1>2, <1>4 DEF Idle
    <2>2. Planned(r)'
      BY <1>1, PlannedStays
    <2> QED
      BY <1>2, <2>1, <2>2 DEF Planned
  <1>5. solo' = [b \in Admins |-> solo'[b]]
    BY <1>1
  <1> QED
    BY <1>2, <1>3, <1>4, <1>5 DEF OrderInv, Planned

LEMMA EditOrder ==
  ASSUME OrderInv, NEW a \in Admins, Edits(a)
  PROVE  OrderInv'
  <1>1. ASSUME NEW ids, NEW r, Begin(a, ids, r), r.op # "reorder"
        PROVE  OrderInv'
    BY <1>1, BeginOrder DEF Planned
  <1>2. CASE \E s \in Sections : \E items \in SetToSeqs(Items(s)) : Reorder(a, s, items)
    <2>0. PICK s \in Sections : \E items \in SetToSeqs(Items(s)) : Reorder(a, s, items)
      BY <1>2
    <2>1. PICK items \in SetToSeqs(Items(s)) : Reorder(a, s, items)
      BY <2>0
    <2>2. PICK r : /\ Begin(a, {}, r)
                   /\ r = [op |-> "reorder", items |-> items, plan |-> Plan(items),
                           seen |-> [q \in DOMAIN Plan(items) |-> questions[q].index],
                           gplan |-> [g \in Range(items) \cap Groups |->
                                        Cardinality(Before(items, g))]]
      BY <2>1 DEF Reorder, BeginEdit
    <2>3. /\ r.items = items /\ r.plan = Plan(items)
          /\ r.seen = [q \in DOMAIN r.plan |-> questions[q].index]
      BY <2>2
    <2> QED
      BY <2>1, <2>2, <2>3, BeginOrder DEF Planned
  <1>3. CASE \/ \E s \in Sections : CreateSection(a, s)
             \/ \E s \in Sections, q \in Questions, i \in Indexes : CreateQuestion(a, s, q, i)
             \/ \E s \in Sections, q, r \in Questions : BulkUpload(a, s, q, r)
             \/ \E s \in Sections, p, q \in Questions : CopyQuestion(a, p, s, q)
             \/ \E s \in Sections, g \in Groups, q, r \in Questions, i \in Indexes :
                   CreateGroup(a, s, g, q, r, i)
    <2>1. ASSUME NEW ids, NEW new, NEW g, NEW i, Begin(a, ids, Insert(new, g, i))
          PROVE  OrderInv'
      BY <1>1, <2>1 DEF Insert
    <2>2. ASSUME NEW s, CreateSection(a, s) PROVE OrderInv'
      BY <1>1, <2>2 DEF CreateSection, BeginEdit
    <2> QED
      BY <1>3, <2>1, <2>2 DEF CreateQuestion, BulkUpload, CopyQuestion, CreateGroup, BeginEdit
  <1>4. CASE \/ \E q \in Questions, touch \in Touching : UpdateQuestion(a, q, touch)
             \/ \E q \in Questions : DeleteQuestion(a, q)
             \/ \E g \in Groups : DeleteGroup(a, g)
             \/ \E new \in [fits : BOOLEAN, shuffle : BOOLEAN] : UpdateExam(a, new)
             \/ Publish(a) \/ Close(a) \/ DeleteExam(a)
    BY <1>1, <1>4 DEF UpdateQuestion, DeleteQuestion, DeleteGroup, UpdateExam, Publish, Close,
                      DeleteExam, BeginEdit
  <1> QED
    BY <1>2, <1>3, <1>4 DEF Edits

LEMMA CommitsOrder ==
  ASSUME OrderInv, NEW a \in Admins, Commits(a)
  PROVE  OrderInv'
  <1>0. Idle.op # "reorder"
    BY DEF Idle
  <1>1. ASSUME NEW r, req' = [req EXCEPT ![a] = r], r.op # "reorder", req[a] # Idle, solo' = solo
        PROVE  OrderInv'
    <2>1. /\ req' = [b \in Admins |-> req'[b]] /\ req'[a] = r
          /\ \A b \in Admins \ {a} : req'[b] = req[b]
      BY <1>1 DEF OrderInv
    <2>2. /\ \A b, c \in Admins : solo[b] => solo[c]
          /\ \A b, c \in Admins : solo[b] /\ req[b] # Idle /\ req[c] # Idle => b = c
      BY DEF OrderInv
    <2>3. ASSUME NEW b \in Admins, solo[b] PROVE \A c \in Admins : req[c] # Idle => c = a
      <3>1. solo[a]
        BY <2>2, <2>3
      <3> QED
        BY <1>1, <2>2, <3>1
    <2>4. ASSUME NEW b \in Admins, solo'[b]
          PROVE  /\ \A c \in Admins : req'[c] # Idle => c = a
                 /\ req'[b].op # "reorder"
      <3>1. \A c \in Admins : req[c] # Idle => c = a
        BY <1>1, <2>3, <2>4
      <3> QED
        BY <1>1, <2>1, <3>1 DEF Idle
    <2>5. ASSUME NEW b \in Admins, NEW c \in Admins
          PROVE  /\ solo'[b] => solo'[c]
                 /\ solo'[b] /\ req'[b] # Idle /\ req'[c] # Idle => b = c
      <3>1. solo'[b] => solo'[c]
        BY <1>1, <2>2
      <3>2. solo'[b] /\ req'[b] # Idle /\ req'[c] # Idle => b = c
        BY <2>4
      <3> QED
        BY <3>1, <3>2
    <2>6. solo' = [b \in Admins |-> solo'[b]]
      BY <1>1 DEF OrderInv
    <2> QED
      BY <2>1, <2>4, <2>5, <2>6 DEF OrderInv
  <1>2. CASE Replace(a)
    <2>1. PICK r : r = [req[a] EXCEPT !.op = "replaced", !.removed = questions[req[a].id].content]
      OBVIOUS
    <2>2. req' = [req EXCEPT ![a] = r] /\ req[a].op = "update" /\ solo' = solo
      BY <1>2, <2>1 DEF Replace
    <2>3. r.op = "replaced" /\ req[a] # Idle
      BY <2>1, <2>2 DEF Idle
    <2> QED
      BY <1>1, <2>2, <2>3
  <1>3. CASE CommitDrop(a)
    <2>1. req' = [req EXCEPT ![a] = Idle] /\ req[a] # Idle /\ solo' = solo
      BY <1>3 DEF CommitDrop, Idle
    <2> QED
      BY <1>0, <1>1, <2>1
  <1>4. CASE Abort(a)
    <2>1. req' = [req EXCEPT ![a] = Idle] /\ req[a] # Idle /\ solo' = solo
      BY <1>4 DEF Abort, Commit
    <2> QED
      BY <1>0, <1>1, <2>1
  <1>5. CASE \/ CommitSection(a) \/ CommitInsert(a) \/ CommitUpdate(a) \/ CommitDelete(a)
             \/ CommitReorder(a) \/ CommitSettings(a) \/ CommitPublish(a) \/ CommitClose(a)
    <2>1. PICK op : op # "idle" /\ Commit(a, op)
      BY <1>5 DEF CommitSection, CommitInsert, CommitUpdate, CommitDelete,
                  CommitReorder, CommitSettings, CommitPublish, CommitClose
    <2>2. req' = [req EXCEPT ![a] = Idle] /\ req[a] # Idle /\ solo' = solo
      BY <2>1 DEF Commit, Idle
    <2> QED
      BY <1>0, <1>1, <2>2
  <1> QED
    BY <1>2, <1>3, <1>4, <1>5 DEF Commits

LEMMA OrderNext ==
  ASSUME OrderInv, [Next]_vars
  PROVE  OrderInv'
  <1>1. CASE UNCHANGED <<req, solo, questions, groups>>
    <2>1. \A b \in Admins : Planned(req[b]) => Planned(req[b])'
      BY <1>1, PlannedStays
    <2>2. \A b \in Admins : solo[b] => Planned(req[b])
      BY DEF OrderInv, Planned
    <2> QED
      BY <1>1, <2>1, <2>2 DEF OrderInv, Planned
  <1>2. CASE UNCHANGED vars
    BY <1>1, <1>2 DEF vars, rows
  <1>3. ASSUME NEW s \in Students, LoadPaper(s) \/ InsertAttempt(s)
        PROVE  OrderInv'
    BY <1>1, <1>3 DEF LoadPaper, InsertAttempt, rows
  <1> QED
    BY <1>2, <1>3, EditOrder, CommitsOrder DEF Next

\* What the reorder writes: every question of the payload has the index of the plan.
LEMMA ReorderStep ==
  ASSUME ReferenceInv, OrderInv, NEW a \in Admins, CommitReorder(a), solo[a],
         NEW items, items = req[a].items
  PROVE  Follows(items)' /\ KeepsChildren(items)
  <1>1. PICK r, moved :
           /\ r = req[a] /\ moved = {q \in DOMAIN r.plan : r.plan[q] # r.seen[q]}
           /\ Commit(a, "reorder") /\ ~Fails(r)
           /\ questions' = [q \in Questions |->
                              IF q \in moved THEN [questions[q] EXCEPT !.index = r.plan[q]]
                              ELSE questions[q]]
    BY DEF CommitReorder
  <1>2. r.op = "reorder" /\ r.items = items /\ \A q \in moved : There(q)
    BY <1>1 DEF Commit, Fails
  <1>0. \A b \in Admins : solo[b] => Planned(req[b])
    BY DEF OrderInv, Planned
  <1>3. PICK s \in Sections : items \in SetToSeqs(Items(s))
    BY <1>0, <1>1, <1>2 DEF Planned
  <1>4. r.plan = Plan(items) /\ r.seen = [q \in DOMAIN r.plan |-> questions[q].index]
    BY <1>0, <1>1, <1>2 DEF Planned
  <1>5. Orderly
    BY DEF ReferenceInv, TypeOK, Orderly
  <1>6. /\ \A x \in Range(items) : Of(x) \subseteq DOMAIN Plan(items)
        /\ \A i, j \in DOMAIN items : i < j =>
              \A q \in Of(items[i]), p \in Of(items[j]) : Plan(items)[q] < Plan(items)[p]
        /\ \A g \in Range(items) \cap Groups : \A q, p \in Members(g) :
              questions[q].index < questions[p].index => Plan(items)[q] < Plan(items)[p]
    BY <1>3, <1>5, PlanOrders
  <1>7. \A q \in Questions : There(q) => questions[q] \in QuestionRows
    BY DEF ReferenceInv
  <1>8. ASSUME NEW q \in Questions, There(q)
        PROVE  There(q)' /\ questions'[q].group = questions[q].group
    <2>1. CASE q \in moved
      <3>1. r.plan[q] \in Nat
        BY <1>1, <1>2, <2>1 DEF ReferenceInv, Sound
      <3>2. PICK row : row = [questions[q] EXCEPT !.index = r.plan[q]]
        OBVIOUS
      <3>3. row \in QuestionRows /\ row.group = questions[q].group /\ questions'[q] = row
        BY <1>1, <1>7, <1>8, <2>1, <3>1, <3>2, Rewritten
      <3> QED
        BY <3>3, AuthoringAssumption DEF There
    <2>2. CASE q \notin moved
      BY <1>1, <1>8, <2>2 DEF There
    <2> QED
      BY <2>1, <2>2
  <1>9. \A q \in Questions : There(q)' => There(q)
    BY <1>1, <1>2 DEF There
  <1>10. \A x : Of(x)' = Of(x)
    <2>1. \A g : Members(g)' = Members(g)
      BY <1>8, <1>9 DEF Members
    <2> QED
      BY <2>1 DEF Of
  <1>11. ASSUME NEW q \in DOMAIN Plan(items)
         PROVE  questions'[q].index = Plan(items)[q]
    <2>1. q \in Questions /\ There(q)
      BY DEF Plan
    <2>2. CASE q \in moved
      BY <1>1, <1>4, <1>7, <2>1, <2>2 DEF QuestionRows
    <2>3. CASE q \notin moved
      BY <1>1, <1>4, <2>1, <2>3
    <2> QED
      BY <2>2, <2>3
  <1>12. DOMAIN items = 1 .. Len(items)
    <2>1. PICK n \in Nat : n = Cardinality(Items(s)) /\ items \in [1 .. n -> Items(s)]
      BY <1>3, ItemsFinite, FS_CardinalityType DEF SetToSeqs
    <2>2. Len(items) = n
      BY <2>1
    <2> QED
      BY <2>1, <2>2
  <1>13. Follows(items)'
    <2>1. ASSUME NEW i \in 1 .. Len(items), NEW j \in 1 .. Len(items), i < j,
                 NEW q \in Of(items[i]), NEW p \in Of(items[j])
          PROVE  questions'[q].index < questions'[p].index
      <3>1. items[i] \in Range(items) /\ items[j] \in Range(items)
        BY <1>12 DEF Range
      <3>2. q \in DOMAIN Plan(items) /\ p \in DOMAIN Plan(items)
        BY <1>6, <3>1
      <3>3. Plan(items)[q] < Plan(items)[p]
        BY <1>6, <1>12, <2>1
      <3> QED
        BY <1>11, <3>2, <3>3
    <2> QED
      BY <1>10, <2>1 DEF Follows
  <1>14. KeepsChildren(items)
    <2> SUFFICES ASSUME NEW g \in Range(items) \cap Groups, NEW q \in Members(g),
                        NEW p \in Members(g), questions[q].index < questions[p].index
                 PROVE  questions'[q].index < questions'[p].index
      BY DEF KeepsChildren
    <2>1. Members(g) \subseteq DOMAIN Plan(items)
      BY <1>6 DEF Of
    <2>2. Plan(items)[q] < Plan(items)[p]
      BY <1>6
    <2> QED
      BY <1>11, <2>1, <2>2
  <1> QED
    BY <1>13, <1>14

\* "Reorders standalone questions and DI groups within a section", a group and its children
\* moving together: a reorder that overlaps no other request puts every item where the
\* payload says, whatever indexes, ties and gaps the section had.
THEOREM OrderAsAsked == Spec => ReorderAsAsked
  <1> DEFINE Asked == \A a \in Admins : CommitReorder(a) /\ solo[a] =>
                        \A items \in {req[a].items} : Follows(items)' /\ KeepsChildren(items)
  <1>1. Init => OrderInv
    <2> SUFFICES ASSUME Init PROVE OrderInv
      OBVIOUS
    <2>1. /\ req = [a \in Admins |-> Idle] /\ solo = [a \in Admins |-> TRUE]
          /\ Idle.op # "reorder"
      BY DEF Init, Idle
    <2> QED
      BY <2>1 DEF OrderInv
  <1>2. OrderInv /\ [Next]_vars => OrderInv'
    BY OrderNext
  <1>3. ReferenceInv /\ OrderInv => [Asked]_vars
    BY ReorderStep
  <1>4. Init => ReferenceInv
    BY FirstRefs
  <1>5. ReferenceInv /\ [Next]_vars => ReferenceInv'
    BY RefsNext
  <1> QED
    BY <1>1, <1>2, <1>3, <1>4, <1>5, PTL DEF Spec, ReorderAsAsked

-----------------------------------------------------------------------------
\* The sequences of a paper.

LEMMA UpTo ==
  ASSUME NEW n \in Nat, NEW G, \A m \in 1 .. n : (m = 1 \/ m - 1 \in G) => m \in G
  PROVE  \A m \in 1 .. n : m \in G
  <1> SUFFICES ASSUME NEW m \in 1 .. n PROVE m \in G
    OBVIOUS
  <1> DEFINE H == {T \in SUBSET (1 .. m) : \A k \in 1 .. n : T = 1 .. k => k \in G}
  <1>1. ASSUME NEW T \in SUBSET (1 .. m), \A U \in SUBSET T : U # T => U \in H
        PROVE  T \in H
    <2> SUFFICES ASSUME NEW k \in 1 .. n, T = 1 .. k PROVE k \in G
      OBVIOUS
    <2>1. CASE k = 1
      BY <2>1
    <2>2. CASE k # 1
      <3>1. k - 1 \in 1 .. n /\ 1 .. k - 1 \subseteq T /\ k \in T /\ k \notin 1 .. k - 1
        BY <2>2
      <3>2. 1 .. k - 1 \in H
        BY <1>1, <3>1
      <3> QED
        BY <3>1, <3>2
    <2> QED
      BY <2>1, <2>2
  <1>2. IsFiniteSet(1 .. m)
    BY FS_Interval
  <1>3. 1 .. m \in H
    <2>1. \A T \in SUBSET (1 .. m) : (\A U \in SUBSET T : U # T => U \in H) => T \in H
      BY <1>1
    <2> HIDE DEF H
    <2>2. PICK D : D = 1 .. m
      OBVIOUS
    <2>3. IsFiniteSet(D) /\ \A T \in SUBSET D : (\A U \in SUBSET T : U # T => U \in H) => T \in H
      BY <1>2, <2>1, <2>2
    <2>4. D \in H
      BY <2>3, SubsetInduction
    <2> QED
      BY <2>2, <2>4
  <1> QED
    BY <1>3

\* What FlattenSeq computes from.
Joined(seqs, f) ==
    f = [i \in 1 .. Len(seqs) |-> IF i = 1 THEN seqs[i] ELSE f[i - 1] \o seqs[i]]

LEMMA JoinedExists ==
  ASSUME NEW S, NEW seqs \in Seq(Seq(S)), Len(seqs) # 0
  PROVE  \E f : Joined(seqs, f)
  <1> DEFINE n == Len(seqs)
             G == {m \in 1 .. n : \E f \in [1 .. m -> Seq(S)] :
                      \A i \in 1 .. m : f[i] = IF i = 1 THEN seqs[i] ELSE f[i - 1] \o seqs[i]}
  <1>0. n \in Nat /\ \A i \in 1 .. n : seqs[i] \in Seq(S)
    OBVIOUS
  <1>1. ASSUME NEW m \in 1 .. n, m = 1 \/ m - 1 \in G
        PROVE  m \in G
    <2>1. CASE m = 1
      <3>1. PICK f : f = [i \in 1 .. 1 |-> seqs[i]]
        OBVIOUS
      <3>2. f \in [1 .. m -> Seq(S)] /\ \A i \in 1 .. m : i = 1 /\ f[i] = seqs[i]
        BY <1>0, <2>1, <3>1
      <3> QED
        BY <3>2
    <2>2. CASE m # 1
      <3>1. m - 1 \in G /\ m - 1 \in 1 .. n
        BY <1>1, <2>2
      <3>2. PICK g \in [1 .. m - 1 -> Seq(S)] :
               \A i \in 1 .. m - 1 : g[i] = IF i = 1 THEN seqs[i] ELSE g[i - 1] \o seqs[i]
        BY <3>1
      <3>3. PICK f : f = [i \in 1 .. m |-> IF i = m THEN g[m - 1] \o seqs[m] ELSE g[i]]
        OBVIOUS
      <3>4. g[m - 1] \in Seq(S) /\ seqs[m] \in Seq(S)
        BY <1>0, <2>2, <3>2
      <3>5. f \in [1 .. m -> Seq(S)]
        BY <3>2, <3>3, <3>4
      <3>6. ASSUME NEW i \in 1 .. m
            PROVE  f[i] = IF i = 1 THEN seqs[i] ELSE f[i - 1] \o seqs[i]
        <4>1. CASE i = m
          <5>0. m \in 1 .. m
            BY <1>0
          <5>1. f[m] = g[m - 1] \o seqs[m]
            BY <3>3, <5>0
          <5>2. m - 1 \in 1 .. m /\ m - 1 # m
            BY <2>2
          <5>3. f[m - 1] = g[m - 1]
            BY <3>3, <5>2
          <5> QED
            BY <2>2, <4>1, <5>1, <5>3
        <4>2. CASE i # m /\ i # 1
          <5>1. i \in 1 .. m - 1 /\ i - 1 \in 1 .. m /\ i - 1 # m
            BY <4>2
          <5> QED
            BY <3>2, <3>3, <4>2, <5>1
        <4>3. CASE i # m /\ i = 1
          <5>1. 1 \in 1 .. m - 1 /\ 1 \in 1 .. m
            BY <4>3
          <5>2. g[1] = seqs[1] /\ f[1] = g[1]
            BY <3>2, <3>3, <4>3, <5>1
          <5> QED
            BY <4>3, <5>2
        <4> QED
          BY <4>1, <4>2, <4>3
      <3> QED
        BY <3>5, <3>6
    <2> QED
      BY <2>1, <2>2
  <1>2. n \in G
    <2>1. n \in 1 .. n
      BY <1>0
    <2> HIDE DEF G, n
    <2> QED
      BY <1>0, <1>1, <2>1, UpTo
  <1>3. PICK f \in [1 .. n -> Seq(S)] :
           \A i \in 1 .. n : f[i] = IF i = 1 THEN seqs[i] ELSE f[i - 1] \o seqs[i]
    BY <1>2
  <1>4. f = [i \in 1 .. n |-> IF i = 1 THEN seqs[i] ELSE f[i - 1] \o seqs[i]]
    BY <1>3
  <1> QED
    BY <1>4 DEF Joined

LEMMA FlattenJoins ==
  ASSUME NEW S, NEW seqs \in Seq(Seq(S)), Len(seqs) # 0
  PROVE  \E f : Joined(seqs, f) /\ FlattenSeq(seqs) = f[Len(seqs)]
  <1>1. PICK f : f = CHOOSE g : Joined(seqs, g)
    OBVIOUS
  <1>2. Joined(seqs, f)
    BY <1>1, JoinedExists
  <1>3. FlattenSeq(seqs) = f[Len(seqs)]
    BY <1>1 DEF FlattenSeq, Joined
  <1> QED
    BY <1>2, <1>3

\* Where an element of a flattened sequence comes from: offs[i] are the elements of the
\* first i sequences.
Offsets(seqs, offs) ==
    /\ offs \in [0 .. Len(seqs) -> Nat] /\ offs[0] = 0
    /\ \A i \in 1 .. Len(seqs) : offs[i] = offs[i - 1] + Len(seqs[i])
    /\ Len(FlattenSeq(seqs)) = offs[Len(seqs)]
    /\ \A i \in 1 .. Len(seqs) : \A k \in 1 .. Len(seqs[i]) :
          /\ offs[i - 1] + k \in 1 .. offs[Len(seqs)]
          /\ FlattenSeq(seqs)[offs[i - 1] + k] = seqs[i][k]
    /\ \A p \in 1 .. offs[Len(seqs)] : \E i \in 1 .. Len(seqs) : \E k \in 1 .. Len(seqs[i]) :
          p = offs[i - 1] + k

LEMMA FlattenOffsets ==
  ASSUME NEW S, NEW seqs \in Seq(Seq(S))
  PROVE  FlattenSeq(seqs) \in Seq(S) /\ \E offs : Offsets(seqs, offs)
  <1>1. CASE Len(seqs) = 0
    <2>1. FlattenSeq(seqs) = seqs /\ seqs = <<>>
      BY <1>1 DEF FlattenSeq
    <2>2. PICK offs : offs = [i \in 0 .. 0 |-> 0]
      OBVIOUS
    <2>3. Offsets(seqs, offs)
      BY <1>1, <2>1, <2>2 DEF Offsets
    <2> QED
      BY <2>1, <2>3
  <1>2. CASE Len(seqs) # 0
    <2>0. PICK n \in Nat : n = Len(seqs) /\ n # 0
      BY <1>2
    <2>1. PICK f : Joined(seqs, f) /\ FlattenSeq(seqs) = f[n]
      BY <1>2, <2>0, FlattenJoins
    <2>2. /\ \A i \in 1 .. n : seqs[i] \in Seq(S)
          /\ \A i \in 1 .. n : i = 1 => f[i] = seqs[i]
          /\ \A i \in 1 .. n : i # 1 => f[i] = f[i - 1] \o seqs[i]
      <3>1. f = [i \in 1 .. n |-> IF i = 1 THEN seqs[i] ELSE f[i - 1] \o seqs[i]]
        BY <2>0, <2>1 DEF Joined
      <3>2. \A i \in 1 .. n : seqs[i] \in Seq(S)
        BY <2>0
      <3>3. \A i \in 1 .. n : f[i] = IF i = 1 THEN seqs[i] ELSE f[i - 1] \o seqs[i]
        BY <3>1
      <3> QED
        BY <3>2, <3>3
    <2>3. \A i \in 1 .. n : f[i] \in Seq(S)
      <3> DEFINE G == {i \in 1 .. n : f[i] \in Seq(S)}
      <3>1. ASSUME NEW i \in 1 .. n, i = 1 \/ i - 1 \in G PROVE i \in G
        <4>1. seqs[i] \in Seq(S)
          BY <2>2
        <4>2. CASE i = 1
          BY <2>2, <4>1, <4>2
        <4>3. CASE i # 1
          <5>1. f[i - 1] \in Seq(S) /\ f[i] = f[i - 1] \o seqs[i]
            BY <2>2, <3>1, <4>3
          <5>2. PICK s \in Seq(S), t \in Seq(S) : s = f[i - 1] /\ t = seqs[i] /\ f[i] = s \o t
            BY <4>1, <5>1
          <5>3. s \o t \in Seq(S)
            OBVIOUS
          <5> QED
            BY <5>2, <5>3
        <4> QED
          BY <4>2, <4>3
      <3>2. \A i \in 1 .. n : i \in G
        <4> HIDE DEF G
        <4> QED
          BY <3>1, UpTo
      <3> QED
        BY <3>2
    <2>4. PICK offs : offs = [i \in 0 .. n |-> IF i = 0 THEN 0 ELSE Len(f[i])]
      OBVIOUS
    <2>5. /\ offs \in [0 .. n -> Nat] /\ offs[0] = 0
          /\ \A i \in 1 .. n : offs[i] = Len(f[i])
      BY <2>0, <2>3, <2>4
    <2>6. ASSUME NEW i \in 1 .. n
          PROVE  /\ offs[i] = offs[i - 1] + Len(seqs[i])
                 /\ \A k \in 1 .. Len(seqs[i]) : f[i][offs[i - 1] + k] = seqs[i][k]
                 /\ i # 1 => \A p \in 1 .. offs[i - 1] : f[i][p] = f[i - 1][p]
      <3>1. CASE i = 1
        BY <2>2, <2>5, <3>1
      <3>2. CASE i # 1
        <4>1. i - 1 \in 1 .. n /\ f[i - 1] \in Seq(S) /\ seqs[i] \in Seq(S)
          BY <2>0, <2>2, <2>3, <3>2
        <4>2. PICK s \in Seq(S), t \in Seq(S) : s = f[i - 1] /\ t = seqs[i] /\ f[i] = s \o t
          BY <2>2, <3>2, <4>1
        <4>3. offs[i] = Len(s \o t) /\ offs[i - 1] = Len(s)
          BY <2>5, <4>1, <4>2
        <4>4. /\ Len(s \o t) = Len(s) + Len(t) /\ Len(s) \in Nat /\ Len(t) \in Nat
              /\ \A k \in 1 .. Len(t) : (s \o t)[Len(s) + k] = t[k]
              /\ \A p \in 1 .. Len(s) : (s \o t)[p] = s[p]
          OBVIOUS
        <4> QED
          BY <3>2, <4>2, <4>3, <4>4
      <3> QED
        BY <3>1, <3>2
    <2>7. \A j \in 1 .. n : \A i \in 1 .. j :
             /\ offs[i] <= offs[j]
             /\ \A p \in 1 .. offs[i] : f[j][p] = f[i][p]
      <3> DEFINE G == {j \in 1 .. n : \A i \in 1 .. j :
                         offs[i] <= offs[j] /\ \A p \in 1 .. offs[i] : f[j][p] = f[i][p]}
      <3>1. ASSUME NEW j \in 1 .. n, j = 1 \/ j - 1 \in G PROVE j \in G
        <4> SUFFICES ASSUME NEW i \in 1 .. j
                     PROVE  offs[i] <= offs[j] /\ \A p \in 1 .. offs[i] : f[j][p] = f[i][p]
          OBVIOUS
        <4>1. i \in 1 .. n /\ offs[i] \in Nat /\ offs[j] \in Nat
          <5>1. i \in 1 .. n /\ j \in 0 .. n /\ i \in 0 .. n
            BY <2>0
          <5> QED
            BY <2>5, <5>1
        <4>2. CASE i = j
          BY <4>1, <4>2
        <4>3. CASE i # j
          <5>1. j # 1 /\ i \in 1 .. j - 1 /\ j - 1 \in G /\ j - 1 \in 1 .. n
            BY <3>1, <4>3
          <5>2. /\ offs[i] <= offs[j - 1] /\ offs[j - 1] \in Nat
                /\ \A p \in 1 .. offs[i] : f[j - 1][p] = f[i][p]
            BY <2>5, <5>1
          <5>3. offs[j] = offs[j - 1] + Len(seqs[j]) /\ Len(seqs[j]) \in Nat
            BY <2>2, <2>6
          <5>4. \A p \in 1 .. offs[i] : f[j][p] = f[j - 1][p]
            BY <2>6, <4>1, <5>1, <5>2
          <5> QED
            BY <4>1, <5>2, <5>3, <5>4
        <4> QED
          BY <4>2, <4>3
      <3>2. \A j \in 1 .. n : j \in G
        <4> HIDE DEF G
        <4> QED
          BY <3>1, UpTo
      <3> QED
        BY <3>2
    <2>8. ASSUME NEW i \in 1 .. n, NEW k \in 1 .. Len(seqs[i])
          PROVE  offs[i - 1] + k \in 1 .. offs[n] /\ f[n][offs[i - 1] + k] = seqs[i][k]
      <3>1. /\ offs[i] = offs[i - 1] + Len(seqs[i]) /\ f[i][offs[i - 1] + k] = seqs[i][k]
            /\ offs[i - 1] \in Nat /\ offs[i] \in Nat /\ offs[n] \in Nat
            /\ Len(seqs[i]) \in Nat
        <4>1. i \in 0 .. n /\ i - 1 \in 0 .. n /\ n \in 0 .. n
          BY <2>0
        <4>2. Len(seqs[i]) \in Nat
          BY <2>2
        <4> QED
          BY <2>5, <2>6, <4>1, <4>2
      <3>2. n \in 1 .. n /\ i \in 1 .. n
        BY <2>0
      <3>3. offs[i] <= offs[n] /\ \A p \in 1 .. offs[i] : f[n][p] = f[i][p]
        BY <2>7, <3>2
      <3>4. offs[i - 1] + k \in 1 .. offs[i] /\ offs[i - 1] + k \in 1 .. offs[n]
        <4>1. PICK b \in Nat, l \in Nat : b = offs[i - 1] /\ l = Len(seqs[i]) /\ offs[i] = b + l
          BY <3>1
        <4>2. b + k \in 1 .. b + l
          BY <4>1
        <4>3. b + k <= offs[n]
          <5>1. PICK m \in Nat : m = offs[n] /\ b + l <= m
            BY <3>1, <3>3, <4>1
          <5>2. b + k <= m
            BY <4>2, <5>1
          <5> QED
            BY <5>1, <5>2
        <4> QED
          BY <3>1, <4>1, <4>2, <4>3
      <3> QED
        BY <3>1, <3>3, <3>4
    <2>9. \A j \in 1 .. n : \A p \in 1 .. offs[j] : \E i \in 1 .. n : \E k \in 1 .. Len(seqs[i]) :
             p = offs[i - 1] + k
      <3> DEFINE G == {j \in 1 .. n : \A p \in 1 .. offs[j] :
                         \E i \in 1 .. n : \E k \in 1 .. Len(seqs[i]) : p = offs[i - 1] + k}
      <3>1. ASSUME NEW j \in 1 .. n, j = 1 \/ j - 1 \in G PROVE j \in G
        <4> SUFFICES ASSUME NEW p \in 1 .. offs[j]
                     PROVE  \E i \in 1 .. n : \E k \in 1 .. Len(seqs[i]) : p = offs[i - 1] + k
          OBVIOUS
        <4>1. /\ offs[j] = offs[j - 1] + Len(seqs[j]) /\ Len(seqs[j]) \in Nat
              /\ offs[j - 1] \in Nat /\ offs[j] \in Nat
              /\ j = 1 => offs[j - 1] = 0
          <5>1. j \in 0 .. n /\ j - 1 \in 0 .. n
            BY <2>0
          <5>2. Len(seqs[j]) \in Nat
            BY <2>2
          <5> QED
            BY <2>5, <2>6, <5>1, <5>2
        <4>0. p \in Nat /\ p >= 1 /\ p <= offs[j]
          BY <4>1
        <4>2. CASE p <= offs[j - 1]
          <5>1. j - 1 \in G /\ p \in 1 .. offs[j - 1]
            BY <3>1, <4>0, <4>1, <4>2
          <5> QED
            BY <5>1
        <4>3. CASE ~(p <= offs[j - 1])
          <5>1. p - offs[j - 1] \in 1 .. Len(seqs[j]) /\ p = offs[j - 1] + (p - offs[j - 1])
            BY <4>0, <4>1, <4>3
          <5> QED
            BY <5>1
        <4> QED
          BY <4>0, <4>1, <4>2, <4>3
      <3>2. \A j \in 1 .. n : j \in G
        <4> HIDE DEF G
        <4> QED
          BY <3>1, UpTo
      <3> QED
        BY <3>2
    <2>10. n \in 1 .. n /\ f[n] \in Seq(S) /\ Len(f[n]) = offs[n]
      BY <2>0, <2>3, <2>5
    <2>11. Offsets(seqs, offs)
      <3>1. PICK t : t = FlattenSeq(seqs) /\ t = f[n]
        BY <2>1
      <3>2. /\ \A i \in 1 .. n : \A k \in 1 .. Len(seqs[i]) :
                  offs[i - 1] + k \in 1 .. offs[n] /\ t[offs[i - 1] + k] = seqs[i][k]
            /\ Len(t) = offs[n]
            /\ \A p \in 1 .. offs[n] : \E i \in 1 .. n : \E k \in 1 .. Len(seqs[i]) :
                  p = offs[i - 1] + k
        BY <2>8, <2>9, <2>10, <3>1
      <3>3. \A i \in 1 .. n : offs[i] = offs[i - 1] + Len(seqs[i])
        BY <2>6
      <3> QED
        BY <2>0, <2>5, <3>1, <3>2, <3>3 DEF Offsets
    <2> QED
      BY <2>1, <2>10, <2>11
  <1> QED
    BY <1>1, <1>2

-----------------------------------------------------------------------------
\* The paper of an exam that stands still.

\* The block of a question.
Block(q) ==
    IF questions[q].group = None THEN [group |-> None, ids |-> <<q>>]
    ELSE [group |-> questions[q].group, ids |-> ByIndex(Members(questions[q].group))]

LEMMA FamilyIds ==
  ASSUME ReferenceInv, NEW g \in Groups
  PROVE  /\ ByIndex(Members(g)) \in Seq(Members(g))
         /\ Len(ByIndex(Members(g))) = Cardinality(Members(g))
         /\ IsFiniteSet(Members(g)) /\ Sorted(ByIndex(Members(g)))
         /\ ByIndex(Members(g)) \in SetToSeqs(Members(g))
  <1>1. IsFiniteSet(Members(g)) /\ \A q \in Members(g) : questions[q].index \in Nat
    BY AuthoringAssumption, FS_Subset DEF Members, ReferenceInv, TypeOK
  <1>2. ByIndex(Members(g)) \in SetToSeqs(Members(g)) /\ Sorted(ByIndex(Members(g)))
    BY <1>1, ByIndexSorts
  <1>n. PICK n \in Nat : n = Cardinality(Members(g))
    BY <1>1, FS_CardinalityType
  <1>3. PICK s \in [1 .. n -> Members(g)] : s = ByIndex(Members(g))
    BY <1>2, <1>n DEF SetToSeqs
  <1>4. s \in Seq(Members(g)) /\ Len(s) = n
    OBVIOUS
  <1> QED
    BY <1>1, <1>2, <1>n, <1>3, <1>4

\* A block has its questions once, and every question of it has that block.
LEMMA BlockFacts ==
  ASSUME ReferenceInv, NEW s, NEW q \in InSection(s)
  PROVE  /\ Block(q).ids \in Seq(InSection(s))
         /\ \A k, l \in 1 .. Len(Block(q).ids) : Block(q).ids[k] = Block(q).ids[l] => k = l
         /\ \A k \in 1 .. Len(Block(q).ids) : Block(Block(q).ids[k]) = Block(q)
         /\ \E k \in 1 .. Len(Block(q).ids) : Block(q).ids[k] = q
  <1>1. /\ q \in Questions /\ There(q) /\ questions[q].section = s
        /\ questions[q].group \in Groups \cup {None}
    BY DEF InSection, ReferenceInv, TypeOK
  <1>2. CASE questions[q].group = None
    <2>1. Block(q).ids = <<q>>
      BY <1>2 DEF Block
    <2> QED
      BY <2>1
  <1>3. CASE questions[q].group # None
    <2>1. PICK g \in Groups : g = questions[q].group /\ g # None
      BY <1>1, <1>3
    <2>2. Block(q) = [group |-> g, ids |-> ByIndex(Members(g))]
      BY <1>3, <2>1 DEF Block
    <2>3. PICK ids : ids = ByIndex(Members(g))
      OBVIOUS
    <2>4. /\ ids \in Seq(Members(g)) /\ IsFiniteSet(Members(g)) /\ ids \in SetToSeqs(Members(g))
          /\ Len(ids) = Cardinality(Members(g))
      BY <2>3, FamilyIds
    <2>5. Members(g) \subseteq InSection(s)
      BY <1>1, <2>1 DEF Members, InSection, ReferenceInv
    <2>6. ids \in Seq(InSection(s))
      BY <2>4, <2>5
    <2>7. /\ \A k, l \in 1 .. Len(ids) : ids[k] = ids[l] => k = l
          /\ q \in Members(g) /\ \E k \in 1 .. Len(ids) : ids[k] = q
      <3>1. q \in Members(g)
        BY <1>1, <2>1 DEF Members
      <3>2. /\ DOMAIN ids = 1 .. Cardinality(Members(g))
            /\ \A k, l \in DOMAIN ids : ids[k] = ids[l] => k = l
            /\ \A x \in Members(g) : \E k \in DOMAIN ids : ids[k] = x
        BY <2>4, Enumeration
      <3> QED
        BY <2>4, <3>1, <3>2
    <2>8. ASSUME NEW k \in 1 .. Len(ids)
          PROVE  Block(ids[k]) = Block(q)
      <3>1. ids[k] \in Members(g)
        BY <2>4
      <3>2. questions[ids[k]].group = g
        BY <3>1 DEF Members
      <3> QED
        BY <2>1, <2>2, <3>2 DEF Block
    <2> QED
      BY <2>2, <2>3, <2>6, <2>7, <2>8
  <1> QED
    BY <1>2, <1>3

LEMMA BlocksAre ==
  ASSUME ReferenceInv, NEW s
  PROVE  /\ Blocks(s) = {Block(q) : q \in InSection(s)}
         /\ IsFiniteSet(Blocks(s)) /\ IsFiniteSet(InSection(s))
  <1>1. Blocks(s) = {Block(q) : q \in InSection(s)}
    <2>1. ASSUME NEW q \in InSection(s) PROVE Block(q) \in Blocks(s)
      <3>1. CASE questions[q].group = None
        BY <3>1 DEF Block, Blocks, Standalone
      <3>2. CASE questions[q].group # None
        BY <3>2 DEF Block, Blocks
      <3> QED
        BY <3>1, <3>2
    <2>2. ASSUME NEW b \in Blocks(s) PROVE \E q \in InSection(s) : b = Block(q)
      <3>1. CASE \E q \in Standalone(s) : b = [group |-> None, ids |-> <<q>>]
        BY <3>1 DEF Block, Standalone
      <3>2. CASE \E g \in {questions[q].group : q \in InSection(s)} \ {None} :
                    b = [group |-> g, ids |-> ByIndex(Members(g))]
        BY <3>2 DEF Block
      <3> QED
        BY <3>1, <3>2 DEF Blocks
    <2> QED
      BY <2>1, <2>2
  <1>2. IsFiniteSet(InSection(s))
    BY AuthoringAssumption, FS_Subset DEF InSection
  <1>3. IsFiniteSet(Blocks(s))
    <2>1. PICK f : f = [q \in InSection(s) |-> Block(q)]
      OBVIOUS
    <2>2. f \in Surjection(InSection(s), Blocks(s))
      BY <1>1, <2>1 DEF Surjection
    <2> QED
      BY <1>2, <2>2, FS_Surjection
  <1> QED
    BY <1>1, <1>2, <1>3

\* The questions of a section, each once, those of a group next to each other and in their
\* order.
Listed(ids, s) ==
    /\ ids \in Seq(InSection(s))
    /\ Len(ids) = Cardinality(InSection(s))
    /\ \A i, j \in 1 .. Len(ids) : ids[i] = ids[j] => i = j
    /\ \A q \in InSection(s) : \E i \in 1 .. Len(ids) : ids[i] = q
    /\ \A i, j \in 1 .. Len(ids) :
          /\ questions[ids[i]].group = questions[ids[j]].group
          /\ questions[ids[i]].group # None
          /\ questions[ids[i]].index < questions[ids[j]].index
          => i < j /\ j - i < Cardinality(Members(questions[ids[i]].group))

\* A frozen order lists its section.
LEMMA IdsAre ==
  ASSUME ReferenceInv, NEW s, NEW blocks \in SetToSeqs(Blocks(s))
  PROVE  Listed(Ids(blocks), s)
  <1>1. PICK n \in Nat :
           /\ n = Cardinality(Blocks(s)) /\ DOMAIN blocks = 1 .. n
           /\ blocks \in [1 .. n -> Blocks(s)] /\ Len(blocks) = n
           /\ \A i, j \in 1 .. n : blocks[i] = blocks[j] => i = j
           /\ \A b \in Blocks(s) : \E i \in 1 .. n : blocks[i] = b
    <2>1. IsFiniteSet(Blocks(s))
      BY BlocksAre
    <2>2. PICK n \in Nat : n = Cardinality(Blocks(s))
      BY <2>1, FS_CardinalityType
    <2>3. blocks \in [1 .. n -> Blocks(s)]
      BY <2>2 DEF SetToSeqs
    <2>4. Len(blocks) = n
      BY <2>3
    <2>5. /\ \A i, j \in DOMAIN blocks : blocks[i] = blocks[j] => i = j
          /\ \A b \in Blocks(s) : \E i \in DOMAIN blocks : blocks[i] = b
      BY <2>1, Enumeration
    <2> QED
      BY <2>2, <2>3, <2>4, <2>5
  <1>2. PICK seqs : seqs = [i \in 1 .. Len(blocks) |-> blocks[i].ids]
    OBVIOUS
  <1>3. \A i \in 1 .. n : \E q \in InSection(s) : blocks[i] = Block(q)
    BY <1>1, BlocksAre
  <1>4. seqs \in Seq(Seq(InSection(s))) /\ Len(seqs) = n /\ \A i \in 1 .. n : seqs[i] = blocks[i].ids
    <2>1. \A i \in 1 .. n : blocks[i].ids \in Seq(InSection(s))
      BY <1>3, BlockFacts
    <2>2. seqs \in [1 .. n -> Seq(InSection(s))]
      BY <1>1, <1>2, <2>1
    <2> QED
      BY <1>1, <1>2, <2>2
  <1>5. PICK ids : ids = FlattenSeq(seqs) /\ ids = Ids(blocks)
    BY <1>2 DEF Ids
  <1>6. ids \in Seq(InSection(s)) /\ \E offs : Offsets(seqs, offs)
    BY <1>4, <1>5, FlattenOffsets
  <1>7. PICK offs : Offsets(seqs, offs)
    BY <1>6
  <1>8. /\ \A i \in 1 .. n : offs[i - 1] \in Nat
        /\ Len(ids) = offs[n]
        /\ \A i \in 1 .. n : \A k \in 1 .. Len(seqs[i]) :
              offs[i - 1] + k \in 1 .. Len(ids) /\ ids[offs[i - 1] + k] = seqs[i][k]
        /\ \A p \in 1 .. Len(ids) : \E i \in 1 .. n : \E k \in 1 .. Len(seqs[i]) :
              p = offs[i - 1] + k
    <2>1. /\ offs \in [0 .. n -> Nat] /\ Len(ids) = offs[n]
          /\ \A i \in 1 .. n : \A k \in 1 .. Len(seqs[i]) :
                offs[i - 1] + k \in 1 .. offs[n] /\ ids[offs[i - 1] + k] = seqs[i][k]
          /\ \A p \in 1 .. offs[n] : \E i \in 1 .. n : \E k \in 1 .. Len(seqs[i]) :
                p = offs[i - 1] + k
      BY <1>4, <1>5, <1>7 DEF Offsets
    <2>2. \A i \in 1 .. n : i - 1 \in 0 .. n
      BY <1>1
    <2> QED
      BY <2>1, <2>2
  <1>9. ASSUME NEW i \in 1 .. n
        PROVE  /\ \A k, l \in 1 .. Len(seqs[i]) : seqs[i][k] = seqs[i][l] => k = l
               /\ \A k \in 1 .. Len(seqs[i]) : Block(seqs[i][k]) = blocks[i]
    <2>1. PICK q \in InSection(s) : blocks[i] = Block(q)
      BY <1>3
    <2>2. seqs[i] = Block(q).ids
      BY <1>4, <2>1
    <2> QED
      BY <2>1, <2>2, BlockFacts
  <1>10. ASSUME NEW i \in 1 .. n, NEW j \in 1 .. n,
                NEW k \in 1 .. Len(seqs[i]), NEW l \in 1 .. Len(seqs[j]),
                Block(seqs[i][k]) = Block(seqs[j][l])
         PROVE  i = j
    BY <1>1, <1>9, <1>10
  <1>11. \A p, r \in 1 .. Len(ids) : ids[p] = ids[r] => p = r
    <2> SUFFICES ASSUME NEW p \in 1 .. Len(ids), NEW r \in 1 .. Len(ids), ids[p] = ids[r]
                 PROVE  p = r
      OBVIOUS
    <2>0. PICK i \in 1 .. n : \E k \in 1 .. Len(seqs[i]) : p = offs[i - 1] + k
      BY <1>8
    <2>1. PICK k \in 1 .. Len(seqs[i]) : p = offs[i - 1] + k
      BY <2>0
    <2>j. PICK j \in 1 .. n : \E l \in 1 .. Len(seqs[j]) : r = offs[j - 1] + l
      BY <1>8
    <2>2. PICK l \in 1 .. Len(seqs[j]) : r = offs[j - 1] + l
      BY <2>j
    <2>3. ids[p] = seqs[i][k] /\ ids[r] = seqs[j][l]
      BY <1>8, <2>1, <2>2
    <2>4. i = j
      BY <1>10, <2>3
    <2> QED
      BY <1>9, <2>1, <2>2, <2>3, <2>4
  <1>12. \A q \in InSection(s) : \E p \in 1 .. Len(ids) : ids[p] = q
    <2> SUFFICES ASSUME NEW q \in InSection(s) PROVE \E p \in 1 .. Len(ids) : ids[p] = q
      OBVIOUS
    <2>0. Block(q) \in Blocks(s)
      BY BlocksAre
    <2>1. PICK i \in 1 .. n : blocks[i] = Block(q)
      BY <1>1, <2>0
    <2>2. PICK k \in 1 .. Len(seqs[i]) : seqs[i][k] = q
      BY <1>4, <2>1, BlockFacts
    <2> QED
      BY <1>8, <2>2
  <1>13. Len(ids) = Cardinality(InSection(s))
    <2>1. Len(ids) \in Nat /\ ids \in [1 .. Len(ids) -> InSection(s)]
      BY <1>6
    <2>2. ids \in Bijection(1 .. Len(ids), InSection(s))
      BY <1>11, <1>12, <2>1 DEF Bijection, Injection, Surjection, IsInjective
    <2> QED
      BY <2>1, <2>2, FS_CountingElements DEF ExistsBijection
  <1>14. ASSUME NEW p \in 1 .. Len(ids), NEW r \in 1 .. Len(ids),
                questions[ids[p]].group = questions[ids[r]].group, questions[ids[p]].group # None,
                questions[ids[p]].index < questions[ids[r]].index
         PROVE  p < r /\ r - p < Cardinality(Members(questions[ids[p]].group))
    <2>0. PICK i \in 1 .. n : \E k \in 1 .. Len(seqs[i]) : p = offs[i - 1] + k
      BY <1>8
    <2>1. PICK k \in 1 .. Len(seqs[i]) : p = offs[i - 1] + k
      BY <2>0
    <2>j. PICK j \in 1 .. n : \E l \in 1 .. Len(seqs[j]) : r = offs[j - 1] + l
      BY <1>8
    <2>2. PICK l \in 1 .. Len(seqs[j]) : r = offs[j - 1] + l
      BY <2>j
    <2>3. ids[p] = seqs[i][k] /\ ids[r] = seqs[j][l]
      BY <1>8, <2>1, <2>2
    <2>4. Block(ids[p]) = Block(ids[r])
      BY <1>14 DEF Block
    <2>5. i = j
      BY <1>10, <2>3, <2>4
    <2>6. PICK g : g = questions[ids[p]].group
      OBVIOUS
    <2>7. g \in Groups /\ Block(ids[p]).ids = ByIndex(Members(g))
      <3>1. ids[p] \in InSection(s)
        BY <1>6
      <3> QED
        BY <1>14, <2>6, <3>1 DEF InSection, ReferenceInv, TypeOK, Block
    <2>8. seqs[i] = ByIndex(Members(g))
      <3>1. Block(seqs[i][k]) = blocks[i] /\ seqs[i] = blocks[i].ids
        BY <1>4, <1>9
      <3>2. Block(ids[p]) = blocks[i]
        BY <2>3, <3>1
      <3> QED
        BY <2>7, <3>1, <3>2
    <2>9. /\ Len(seqs[i]) = Cardinality(Members(g)) /\ Sorted(seqs[i]) /\ seqs[i] \in Seq(Members(g))
          /\ Len(seqs[i]) \in Nat
      BY <2>7, <2>8, FamilyIds
    <2>10. DOMAIN seqs[i] = 1 .. Len(seqs[i])
      BY <2>9
    <2>11. questions[seqs[i][k]].index \in Nat /\ questions[seqs[i][l]].index \in Nat
      <3>1. seqs[i][k] \in Members(g) /\ seqs[i][l] \in Members(g)
        BY <2>5, <2>9
      <3> QED
        BY <3>1 DEF Members, ReferenceInv, TypeOK
    <2>12. k \in Int /\ l \in Int /\ ~(l < k) /\ k # l
      <3>1. k \in Int /\ l \in Int
        BY <2>5, <2>9
      <3>2. l < k => questions[seqs[i][l]].index <= questions[seqs[i][k]].index
        BY <2>5, <2>9, <2>10 DEF Sorted
      <3>3. questions[seqs[i][k]].index < questions[seqs[i][l]].index
        BY <1>14, <2>3, <2>5
      <3> QED
        BY <2>11, <3>1, <3>2, <3>3
    <2>13. offs[i - 1] \in Nat /\ p = offs[i - 1] + k /\ r = offs[i - 1] + l
      BY <1>8, <2>1, <2>2, <2>5
    <2>14. k >= 1 /\ l <= Len(seqs[i]) /\ Len(seqs[i]) \in Nat
      BY <2>2, <2>5, <2>9
    <2>15. p < r /\ r - p < Len(seqs[i])
      <3>1. PICK b \in Nat, m \in Nat : b = offs[i - 1] /\ m = Len(seqs[i])
        BY <2>13, <2>14
      <3>2. p = b + k /\ r = b + l /\ k < l /\ k >= 1 /\ l <= m
        BY <2>12, <2>13, <2>14, <3>1
      <3>3. b + k < b + l /\ (b + l) - (b + k) < m
        <4>1. PICK x \in Int, y \in Int : x = k /\ y = l /\ x < y /\ x >= 1 /\ y <= m
          BY <2>12, <3>2
        <4>2. b + x < b + y /\ (b + y) - (b + x) = y - x /\ y - x < m
          BY <3>1, <4>1
        <4> QED
          BY <4>1, <4>2
      <3> QED
        BY <3>1, <3>2, <3>3
    <2> QED
      BY <2>6, <2>9, <2>15
  <1> QED
    BY <1>5, <1>6, <1>11, <1>12, <1>13, <1>14 DEF Listed

\* What is rendered of a whole paper: every question of the frozen order, with its options.
LEMMA RenderIs ==
  ASSUME ReferenceInv, NEW x, Whole(x), NEW sec \in sections
  PROVE  /\ Len(Render(x)[sec]) = Len(Ids(x.order[sec]))
         /\ \A i \in 1 .. Len(Ids(x.order[sec])) :
               Render(x)[sec][i] = <<Ids(x.order[sec])[i], questions[Ids(x.order[sec])[i]].content>>
  <1> DEFINE S == Questions \X SUBSET Nat
  <1>1. PICK ids : ids = Ids(x.order[sec])
    OBVIOUS
  <1>2. ids \in Seq(InSection(sec))
    <2>1. x.order[sec] \in SetToSeqs(Blocks(sec))
      BY DEF Whole
    <2>2. Listed(ids, sec)
      BY <1>1, <2>1, IdsAre
    <2> QED
      BY <2>2 DEF Listed
  <1>3. PICK n \in Nat : n = Len(ids) /\ DOMAIN ids = 1 .. n
    BY <1>2
  <1>4. ASSUME NEW i \in 1 .. n
        PROVE  /\ ids[i] \in Questions /\ There(ids[i]) /\ Options(ids[i], x) = questions[ids[i]].content
               /\ questions[ids[i]].content \in SUBSET Nat
    <2>1. ids[i] \in Questions /\ There(ids[i])
      BY <1>2, <1>3 DEF InSection
    <2>2. x.options = OptionOrder
      BY DEF Whole
    <2>3. ids[i] \in DOMAIN x.options => x.options[ids[i]] = questions[ids[i]].content
      BY <2>2 DEF OptionOrder
    <2>4. Options(ids[i], x) = questions[ids[i]].content
      BY <2>3 DEF Options
    <2>5. questions[ids[i]].content \in SUBSET Nat
      BY <2>1 DEF ReferenceInv, QuestionRows
    <2> QED
      BY <2>1, <2>4, <2>5
  <1>5. PICK seqs : seqs = [i \in DOMAIN ids |->
              IF There(ids[i]) THEN <<<<ids[i], Options(ids[i], x)>>>> ELSE <<>>]
    OBVIOUS
  <1>6. PICK paper : paper = Render(x)[sec] /\ paper = FlattenSeq(seqs)
    <2>1. sec \in DOMAIN x.order \cap sections
      BY DEF Whole
    <2>2. Render(x)[sec] = FlattenSeq(seqs)
      BY <1>1, <1>5, <2>1 DEF Render
    <2> QED
      BY <2>2
  <1>7. \A i \in 1 .. n : seqs[i] = <<<<ids[i], questions[ids[i]].content>>>>
    BY <1>3, <1>4, <1>5
  <1>8. seqs \in Seq(Seq(S)) /\ Len(seqs) = n
    <2>1. \A i \in 1 .. n : <<ids[i], questions[ids[i]].content>> \in S
      BY <1>4
    <2>2. \A i \in 1 .. n : seqs[i] \in Seq(S)
      <3> HIDE DEF S
      <3> QED
        BY <1>7, <2>1
    <2>3. seqs \in [1 .. n -> Seq(S)]
      BY <1>3, <1>5, <2>2
    <2> HIDE DEF S
    <2> QED
      BY <2>3
  <1>9. PICK offs : Offsets(seqs, offs)
    <2> HIDE DEF S
    <2> QED
      BY <1>8, FlattenOffsets
  <1>10. /\ offs \in [0 .. n -> Nat] /\ offs[0] = 0
         /\ \A i \in 1 .. n : offs[i] = offs[i - 1] + 1
         /\ Len(paper) = offs[n]
         /\ \A i \in 1 .. n : paper[offs[i - 1] + 1] = <<ids[i], questions[ids[i]].content>>
    <2>1. \A i \in 1 .. n : Len(seqs[i]) = 1 /\ seqs[i][1] = <<ids[i], questions[ids[i]].content>>
      BY <1>7
    <2>2. 1 \in 1 .. 1
      OBVIOUS
    <2>3. /\ \A i \in 1 .. n : offs[i] = offs[i - 1] + Len(seqs[i])
          /\ \A i \in 1 .. n : \A k \in 1 .. Len(seqs[i]) : paper[offs[i - 1] + k] = seqs[i][k]
          /\ offs \in [0 .. n -> Nat] /\ offs[0] = 0 /\ Len(paper) = offs[n]
      BY <1>6, <1>8, <1>9 DEF Offsets
    <2> QED
      BY <2>1, <2>2, <2>3
  <1>11. \A i \in 1 .. n : offs[i] = i
    <2> DEFINE G == {i \in 1 .. n : offs[i] = i}
    <2>1. ASSUME NEW i \in 1 .. n, i = 1 \/ i - 1 \in G PROVE i \in G
      <3>1. offs[i] = offs[i - 1] + 1
        BY <1>10
      <3>2. CASE i = 1
        BY <1>10, <3>1, <3>2
      <3>3. CASE i # 1
        BY <2>1, <3>1, <3>3
      <3> QED
        BY <3>2, <3>3
    <2>2. \A i \in 1 .. n : i \in G
      <3> HIDE DEF G
      <3> QED
        BY <2>1, UpTo
    <2> QED
      BY <2>2
  <1>12. Len(paper) = n
    BY <1>3, <1>10, <1>11
  <1>13. ASSUME NEW i \in 1 .. n
         PROVE  paper[i] = <<ids[i], questions[ids[i]].content>>
    <2>1. offs[i - 1] + 1 = i
      <3>1. offs[i] = offs[i - 1] + 1 /\ offs[i] = i
        BY <1>10, <1>11
      <3> QED
        BY <3>1
    <2> QED
      BY <1>10, <2>1
  <1> QED
    BY <1>1, <1>3, <1>6, <1>12, <1>13

LEMMA WholeStays ==
  ASSUME sections' = sections, questions' = questions
  PROVE  \A x : Whole(x)' = Whole(x)
  <1>1. \A q : There(q)' = There(q)
    BY DEF There
  <1>2. OptionOrder' = OptionOrder
    BY <1>1 DEF OptionOrder
  <1>3. \A S : ByIndex(S)' = ByIndex(S)
    BY DEF ByIndex
  <1>4. \A g : Members(g)' = Members(g)
    BY <1>1 DEF Members
  <1>5. \A s : InSection(s)' = InSection(s)
    BY <1>1 DEF InSection
  <1>6. \A s : Standalone(s)' = Standalone(s)
    BY <1>5 DEF Standalone
  <1>7. \A s : Blocks(s)' = Blocks(s)
    BY <1>3, <1>4, <1>5, <1>6 DEF Blocks
  <1> SUFFICES ASSUME NEW x PROVE Whole(x)' = Whole(x)
    OBVIOUS
  <1> QED
    BY <1>2, <1>7 DEF Whole

\* A step that changes rows, or the exam, finds no student with a paper that counts.
LEMMA FrozenNext ==
  ASSUME StayInv, FrozenInv, [Next]_vars
  PROVE  FrozenInv'
  <1>1. ASSUME sections' = sections, questions' = questions, attempt' = attempt,
               loading' = loading, exam' = "deleted" \/ exam # "deleted",
               \A s \in Students : clean'[s] => clean[s]
        PROVE  FrozenInv'
    <2>1. \A x : Whole(x)' = Whole(x)
      BY <1>1, WholeStays
    <2> QED
      BY <1>1, <2>1 DEF FrozenInv
  <1>2. ASSUME attempt' = attempt, loading' = loading, clean' = clean,
               NEW a \in Admins, req[a].op \notin {"idle", "publish", "close", "drop"}
        PROVE  FrozenInv'
    <2>1. \A s \in Students : clean[s] => attempt[s] = None /\ loading[s] = None
      BY <1>2 DEF StayInv
    <2> QED
      BY <1>2, <2>1 DEF FrozenInv
  <1>3. ASSUME exam' = exam, sections' = sections, questions' = questions, attempt' = attempt,
               loading' = loading, \A s \in Students : clean'[s] => clean[s]
        PROVE  FrozenInv'
    <2>1. \A x : Whole(x)' = Whole(x)
      BY <1>3, WholeStays
    <2> QED
      BY <1>3, <2>1 DEF FrozenInv
  <1>4. CASE UNCHANGED vars
    BY <1>3, <1>4 DEF vars, rows, starts
  <1>5. ASSUME NEW a \in Admins, Edits(a) PROVE FrozenInv'
    <2>1. ASSUME NEW ids, NEW r, BeginEdit(a, ids, r) PROVE FrozenInv'
      BY <1>3, <2>1 DEF BeginEdit, Begin, rows, starts
    <2>2. CASE Publish(a) \/ Close(a) \/ DeleteExam(a)
      <3>1. PICK r : Begin(a, {}, r) /\ clean' = clean
        BY <2>2 DEF Publish, Close, DeleteExam
      <3> QED
        BY <1>3, <3>1 DEF Begin, rows, starts
    <2>3. CASE ~(Publish(a) \/ Close(a) \/ DeleteExam(a))
      <3>1. PICK ids, r : BeginEdit(a, ids, r)
        BY <1>5, <2>3, Zenon DEF Edits, CreateSection, CreateQuestion, BulkUpload, CopyQuestion,
           CreateGroup, UpdateQuestion, DeleteQuestion, DeleteGroup, Reorder, UpdateExam
      <3> QED
        BY <2>1, <3>1
    <2> QED
      BY <2>2, <2>3
  <1>6. ASSUME NEW a \in Admins, Commits(a) PROVE FrozenInv'
    <2>1. CASE Abort(a)
      BY <1>3, <2>1 DEF Abort, Commit, rows, starts
    <2>2. CASE \/ CommitSection(a) \/ CommitInsert(a) \/ CommitUpdate(a)
               \/ CommitDelete(a) \/ CommitReorder(a) \/ CommitSettings(a)
      <3>1. /\ UNCHANGED starts /\ clean' = clean
            /\ req[a].op \in {"section", "insert", "replaced", "delete", "reorder", "patch"}
        BY <2>2 DEF CommitSection, CommitInsert, CommitUpdate, CommitDelete, CommitReorder,
                    CommitSettings, Commit
      <3> QED
        BY <1>2, <3>1 DEF starts
    <2>3. CASE Replace(a)
      BY <1>3, <2>3 DEF Replace, rows, starts
    <2>4. CASE CommitPublish(a)
      BY <1>1, <2>4 DEF CommitPublish, Commit, Fails, rows, starts
    <2>5. CASE CommitClose(a)
      <3>1. clean' = [s \in Students |-> FALSE]
        BY <2>5 DEF CommitClose
      <3> QED
        BY <3>1 DEF FrozenInv
    <2>6. CASE CommitDrop(a)
      BY <2>6 DEF CommitDrop, FrozenInv
    <2> QED
      BY <1>6, <2>1, <2>2, <2>3, <2>4, <2>5, <2>6 DEF Commits
  <1>7. ASSUME NEW s \in Students, LoadPaper(s) PROVE FrozenInv'
    <2>1. PICK order \in QuestionOrders :
             loading' = [loading EXCEPT ![s] = [options |-> OptionOrder, order |-> order]]
      BY <1>7 DEF LoadPaper
    <2>2. PICK x : x = [options |-> OptionOrder, order |-> order]
      OBVIOUS
    <2>3. Whole(x)
      <3>1. x.options = OptionOrder /\ x.order = order
        BY <2>2
      <3>2. DOMAIN order = sections /\ \A sec \in sections : order[sec] \in SetToSeqs(Blocks(sec))
        BY DEF QuestionOrders
      <3> QED
        BY <3>1, <3>2 DEF Whole
    <2>4. /\ sections' = sections /\ questions' = questions /\ exam' = exam /\ attempt' = attempt
          /\ attempt[s] = None /\ loading'[s] = x
          /\ \A t \in Students \ {s} : loading'[t] = loading[t] /\ clean'[t] = clean[t]
      BY <1>7, <2>1, <2>2 DEF LoadPaper, rows, StayInv
    <2>5. \A y : Whole(y)' = Whole(y)
      BY <2>4, WholeStays
    <2> QED
      BY <2>3, <2>4, <2>5 DEF FrozenInv
  <1>8. ASSUME NEW s \in Students, InsertAttempt(s) PROVE FrozenInv'
    <2>1. /\ sections' = sections /\ questions' = questions /\ exam' = exam /\ clean' = clean
          /\ loading'[s] = None /\ loading[s] # None
          /\ exam # "deleted" => attempt'[s] = loading[s]
          /\ \A t \in Students \ {s} : loading'[t] = loading[t] /\ attempt'[t] = attempt[t]
      BY <1>8 DEF InsertAttempt, rows, StayInv
    <2>2. \A y : Whole(y)' = Whole(y)
      BY <2>1, WholeStays
    <2> QED
      BY <2>1, <2>2 DEF FrozenInv
  <1> QED
    BY <1>4, <1>5, <1>6, <1>7, <1>8 DEF Next

LEMMA WholePaper ==
  ASSUME ReferenceInv, StayInv, FrozenInv
  PROVE  PaperIsWhole
  <1> SUFFICES ASSUME NEW s \in Students, attempt[s] # None, clean[s]
               PROVE  /\ DOMAIN attempt[s].order = sections
                      /\ \A sec \in sections :
                            LET paper == Render(attempt[s])[sec]
                                At(q) == {i \in 1 .. Len(paper) : paper[i][1] = q}
                            IN /\ Len(paper) = Cardinality(InSection(sec))
                               /\ \A q \in InSection(sec) :
                                     paper[Max(At(q))][2] = questions[q].content
                               /\ \A q, r \in InSection(sec) :
                                     /\ questions[q].group = questions[r].group
                                     /\ questions[q].group # None
                                     /\ questions[q].index < questions[r].index
                                     => /\ Max(At(q)) < Max(At(r))
                                        /\ Max(At(r)) - Max(At(q)) <
                                              Cardinality(Members(questions[q].group))
    BY DEF PaperIsWhole
  <1>1. Whole(attempt[s])
    BY DEF StayInv, FrozenInv
  <1>2. ASSUME NEW sec \in sections
        PROVE  LET paper == Render(attempt[s])[sec]
                   At(q) == {i \in 1 .. Len(paper) : paper[i][1] = q}
               IN /\ Len(paper) = Cardinality(InSection(sec))
                  /\ \A q \in InSection(sec) : paper[Max(At(q))][2] = questions[q].content
                  /\ \A q, r \in InSection(sec) :
                        /\ questions[q].group = questions[r].group
                        /\ questions[q].group # None
                        /\ questions[q].index < questions[r].index
                        => /\ Max(At(q)) < Max(At(r))
                           /\ Max(At(r)) - Max(At(q)) < Cardinality(Members(questions[q].group))
    <2> DEFINE paper == Render(attempt[s])[sec]
               At(q) == {i \in 1 .. Len(paper) : paper[i][1] = q}
    <2>1. PICK blocks : blocks = attempt[s].order[sec] /\ blocks \in SetToSeqs(Blocks(sec))
      BY <1>1 DEF Whole
    <2>2. PICK ids : ids = Ids(blocks)
      OBVIOUS
    <2>3. Listed(ids, sec)
      BY <2>1, <2>2, IdsAre
    <2>4. /\ Len(paper) = Len(ids)
          /\ \A i \in 1 .. Len(ids) : paper[i] = <<ids[i], questions[ids[i]].content>>
      BY <1>1, <2>1, <2>2, RenderIs
    <2> HIDE DEF paper
    <2>5. ASSUME NEW q \in InSection(sec), NEW i \in 1 .. Len(ids), ids[i] = q
          PROVE  Max(At(q)) = i
      <3>1. At(q) = {i}
        BY <2>3, <2>4, <2>5 DEF Listed
      <3>2. i \in Nat
        BY <2>3 DEF Listed
      <3>3. Max({i}) = i
        BY <3>2 DEF Max
      <3> QED
        BY <3>1, <3>3
    <2>6. ASSUME NEW q \in InSection(sec) PROVE paper[Max(At(q))][2] = questions[q].content
      <3>1. PICK i \in 1 .. Len(ids) : ids[i] = q
        BY <2>3 DEF Listed
      <3>2. Max(At(q)) = i
        BY <2>5, <3>1
      <3> HIDE DEF At
      <3> QED
        BY <2>4, <3>1, <3>2
    <2>7. ASSUME NEW q \in InSection(sec), NEW r \in InSection(sec),
                 questions[q].group = questions[r].group, questions[q].group # None,
                 questions[q].index < questions[r].index
          PROVE  /\ Max(At(q)) < Max(At(r))
                 /\ Max(At(r)) - Max(At(q)) < Cardinality(Members(questions[q].group))
      <3>1. PICK i \in 1 .. Len(ids) : ids[i] = q
        BY <2>3 DEF Listed
      <3>2. PICK j \in 1 .. Len(ids) : ids[j] = r
        BY <2>3 DEF Listed
      <3>3. Max(At(q)) = i /\ Max(At(r)) = j
        BY <2>5, <3>1, <3>2
      <3>4. i < j /\ j - i < Cardinality(Members(questions[q].group))
        BY <2>3, <2>7, <3>1, <3>2 DEF Listed
      <3> HIDE DEF At
      <3> QED
        BY <3>3, <3>4
    <2>8. Len(paper) = Cardinality(InSection(sec))
      BY <2>3, <2>4 DEF Listed
    <2> HIDE DEF At
    <2>9. /\ Len(paper) = Cardinality(InSection(sec))
          /\ \A q \in InSection(sec) : paper[Max(At(q))][2] = questions[q].content
          /\ \A q, r \in InSection(sec) :
                /\ questions[q].group = questions[r].group
                /\ questions[q].group # None
                /\ questions[q].index < questions[r].index
                => /\ Max(At(q)) < Max(At(r))
                   /\ Max(At(r)) - Max(At(q)) < Cardinality(Members(questions[q].group))
      BY <2>6, <2>7, <2>8
    <2> USE DEF paper, At
    <2> QED
      BY <2>9
  <1> QED
    BY <1>1, <1>2 DEF Whole

\* A paper whose start overlapped no edit, of an exam that was not closed since, shows
\* every question of the exam once and with all its options, and the questions of a group
\* together and in their order, for every random order.
THEOREM PaperComplete == Spec => []PaperIsWhole
  <1>1. Init => ReferenceInv /\ StayInv /\ FrozenInv
    <2>1. Init => StayInv /\ FrozenInv
      BY DEF Init, StayInv, PaperStays, FrozenInv
    <2> QED
      BY <2>1, FirstRefs
  <1>2. ReferenceInv /\ StayInv /\ FrozenInv /\ [Next]_vars => (ReferenceInv /\ StayInv /\ FrozenInv)'
    BY RefsNext, StayNext, FrozenNext
  <1>3. ReferenceInv /\ StayInv /\ FrozenInv => PaperIsWhole
    BY WholePaper
  <1> QED
    BY <1>1, <1>2, <1>3, PTL DEF Spec
=============================================================================
