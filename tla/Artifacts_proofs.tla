-------------------------- MODULE Artifacts_proofs --------------------------
(***************************************************************************)
(* Proofs about Artifacts for any entries, packages, images and requests.    *)
(* Why a row keeps its file: whoever removes a file by name has removed its  *)
(* row before, and nobody will write that row again; and the clean-up only   *)
(* takes files that are older than anything that happened since it read the  *)
(* rows.                                                                     *)
(***************************************************************************)
EXTENDS Artifacts, TLAPS

Ops == {"none", "create", "update", "delete", "thread", "sweep"}
Places == {"idle", "save", "insert", "rows", "thread", "files", "messages", "knowledge",
           "skills", "unlink"}
Shape == [op : Ops, at : Places, items : SUBSET Items, late : BOOLEAN]

Shapes ==
  /\ rows \subseteq made /\ made \subseteq Items /\ files \subseteq Items
  /\ age \in [Items -> 0..Old]
  /\ req \in [Requests -> Shape]

\* The kinds whose rows the sweep has read.
Seen(at) ==
  CASE at = "knowledge" -> Images
    [] at = "skills" -> Images \cup Knowledge
    [] at = "unlink" -> Items
    [] OTHER -> {}

\* A new item has no row yet; its file was written less than a tick before the request
\* began, or in it.
Makes(x) ==
  x.op = "create" =>
    /\ x.items \cap (rows \cup Images) = {}
    /\ x.at = "insert" => \A i \in x.items : i \in files /\ (age[i] = 0 \/ (age[i] = 1 /\ x.late))

\* Files that are removed by name have no rows any more.
Removes(x) ==
  /\ x.op = "thread" => x.items \subseteq Images
  /\ x.op = "delete" => x.items \cap Images = {}
  /\ x.at = "files" =>
       /\ x.op \in {"delete", "thread"}
       /\ x.items \cap rows = {}
       /\ x.op = "thread" => ~thread

\* A row that the sweep did not see came after it, and its file is too young.
Spares(x) ==
  x.op = "sweep" =>
    \A i \in (x.items \cap Seen(x.at) \cap rows) \ late : age[i] <= 1 \/ (age[i] = 2 /\ x.late)

Local(x) ==
  /\ x.op # "sweep" => x.items \subseteq made
  /\ Makes(x) /\ Removes(x) /\ Spares(x)

\* A new item belongs to the request that makes it.
Alone ==
  \A r, q \in Requests :
    r # q /\ req[r].op = "create" /\ req[q].op # "sweep" => req[r].items \cap req[q].items = {}

IInv ==
  /\ Shapes
  /\ \A r \in Requests : Local(req[r])
  /\ Alone
  /\ thread \/ rows \cap Images = {}
  /\ RowsHaveFiles

LEMMA InitHolds == ASSUME Init PROVE IInv
<1>0. Idle \in Shape
  BY DEF Idle, Shape, Ops, Places
<1>1. Shapes
  BY <1>0 DEF Init, Shapes, Old
<1>2. \A r \in Requests : Local(req[r])
  BY DEF Init, Idle, Local, Makes, Removes, Spares
<1> QED BY <1>1, <1>2 DEF Init, Idle, Alone, RowsHaveFiles, IInv

-----------------------------------------------------------------------------
\* What a step must not do to a request q that is under way: bring a row for an item of
\* q, give a new row an old file, or take the file of an item that q makes.
Spoils(q) ==
  \/ \E i \in rows' \ rows :
       \/ i \notin late' /\ age'[i] > 1
       \/ i \in Images /\ ~thread
       \/ i \notin Images /\ req[q].op # "sweep" /\ i \in req[q].items
  \/ req[q].op = "create" /\ req[q].at = "insert" /\ ~(req[q].items \cap files \subseteq files')

\* Nothing is forgotten, no file gets older, and the thread does not come back.
Calm ==
  /\ made \subseteq made' /\ late \subseteq late'
  /\ thread' => thread
  /\ \A i \in Items : age'[i] = age[i] \/ age'[i] = 0
  /\ rows' \subseteq made' /\ made' \subseteq Items /\ files' \subseteq Items
  /\ age' \in [Items -> 0..Old]

LEMMA OthersKeep ==
  ASSUME IInv, Calm, NEW q \in Requests, ~Spoils(q), req'[q] = req[q]
  PROVE  Local(req[q])'
<1>0. /\ Local(req[q]) /\ req[q] \in Shape /\ req[q].items \subseteq Items
      /\ rows \subseteq Items /\ rows' \subseteq Items
  BY DEF IInv, Shapes, Shape, Calm
<1>1. req[q].op # "sweep" => req[q].items \subseteq made'
  BY <1>0 DEF Local, Calm
<1>2. Makes(req[q])'
  <2> SUFFICES ASSUME req[q].op = "create"
               PROVE  /\ req[q].items \cap (rows' \cup Images) = {}
                      /\ req[q].at = "insert" =>
                           \A i \in req[q].items : i \in files' /\ (age'[i] = 0 \/ (age'[i] = 1 /\ req[q].late))
    BY DEF Makes
  <2>1. req[q].items \cap (rows \cup Images) = {}
    BY <1>0 DEF Local, Makes
  <2>2. req[q].items \cap (rows' \cup Images) = {}
    BY <2>1 DEF Spoils
  <2>3. req[q].at = "insert" =>
          \A i \in req[q].items : i \in files /\ (age[i] = 0 \/ (age[i] = 1 /\ req[q].late))
    BY <1>0 DEF Local, Makes
  <2>4. req[q].at = "insert" => req[q].items \cap files \subseteq files'
    BY DEF Spoils
  <2> QED BY <1>0, <2>2, <2>3, <2>4 DEF Calm
<1>3. Removes(req[q])'
  <2>1. /\ req[q].op = "thread" => req[q].items \subseteq Images
        /\ req[q].op = "delete" => req[q].items \cap Images = {}
    BY <1>0 DEF Local, Removes
  <2>2. ASSUME req[q].at = "files"
        PROVE  /\ req[q].op \in {"delete", "thread"}
               /\ req[q].items \cap rows' = {}
               /\ req[q].op = "thread" => ~thread'
    <3>1. /\ req[q].op \in {"delete", "thread"}
          /\ req[q].items \cap rows = {}
          /\ req[q].op = "thread" => ~thread
      BY <1>0, <2>2 DEF Local, Removes
    <3>2. req[q].items \cap rows' = {}
      BY <2>1, <3>1 DEF Spoils
    <3> QED BY <3>1, <3>2 DEF Calm
  <2> QED BY <2>1, <2>2 DEF Removes
<1>4. Spares(req[q])'
  <2> SUFFICES ASSUME req[q].op = "sweep",
                      NEW i \in (req[q].items \cap Seen(req[q].at) \cap rows') \ late'
               PROVE  age'[i] <= 1 \/ (age'[i] = 2 /\ req[q].late)
    BY DEF Spares, Seen
  <2>1. i \in Items /\ age'[i] \in 0..Old
    BY <1>0 DEF Calm
  <2>2. CASE i \in rows
    <3>1. age[i] <= 1 \/ (age[i] = 2 /\ req[q].late)
      BY <1>0, <2>2 DEF Local, Spares, Calm
    <3> QED BY <2>1, <3>1 DEF Calm
  <2>3. CASE i \notin rows
    BY <2>1, <2>3 DEF Spoils, Old
  <2> QED BY <2>2, <2>3
<1> QED BY <1>1, <1>2, <1>3, <1>4 DEF Local

\* A step of the request r, which is x afterwards.
LEMMA StepKeeps ==
  ASSUME IInv, Calm, NEW r \in Requests, NEW x \in Shape,
         req' = [req EXCEPT ![r] = x],
         Local(x)',
         \A q \in Requests \ {r} : ~Spoils(q),
         \/ x.op = req[r].op /\ x.items \subseteq req[r].items
         \/ x.op = "sweep"
         \/ x.op # "create" /\ x.items \subseteq rows
         \/ x.items \cap made = {},
         thread' \/ rows' \cap Images = {},
         RowsHaveFiles'
  PROVE  IInv'
<1>1. req'[r] = x /\ \A q \in Requests \ {r} : req'[q] = req[q]
  BY DEF IInv, Shapes
<1>2. Shapes'
  BY DEF IInv, Shapes, Calm
<1>3. ASSUME NEW q \in Requests PROVE Local(req[q])'
  <2>1. CASE q = r
    <3>1. req'[q] = x
      BY <1>1, <2>1
    <3> QED BY <3>1 DEF Local, Makes, Removes, Spares, Seen
  <2>2. CASE q # r
    BY <1>1, <2>2, OthersKeep
  <2> QED BY <2>1, <2>2
<1>4. Alone'
  <2> SUFFICES ASSUME NEW p \in Requests, NEW q \in Requests, p # q,
                      req'[p].op = "create", req'[q].op # "sweep"
               PROVE  req'[p].items \cap req'[q].items = {}
    BY DEF Alone
  <2>1. CASE p # r /\ q # r
    BY <1>1, <2>1 DEF IInv, Alone
  <2>2. CASE p = r
    <3>1. req'[q] = req[q] /\ req'[p] = x
      BY <1>1, <2>2
    <3>2. req[q].items \subseteq made
      BY <3>1 DEF IInv, Local
    <3> QED BY <2>2, <3>1, <3>2 DEF IInv, Alone
  <2>3. CASE q = r
    <3>1. req'[p] = req[p] /\ req'[q] = x
      BY <1>1, <2>3
    <3>2. req[p].items \subseteq made /\ req[p].items \cap rows = {}
      BY <3>1 DEF IInv, Local, Makes
    <3> QED BY <2>3, <3>1, <3>2 DEF IInv, Alone
  <2> QED BY <2>1, <2>2, <2>3
<1> QED BY <1>2, <1>3, <1>4 DEF IInv

\* A step that only moves the request r on.
LEMMA MoveKeeps ==
  ASSUME IInv, NEW r \in Requests, NEW x \in Shape,
         req' = [req EXCEPT ![r] = x],
         UNCHANGED <<made, files, age, rows, late, thread>>,
         Local(x),
         \/ x.op = req[r].op /\ x.items \subseteq req[r].items
         \/ x.op = "sweep"
         \/ x.op # "create" /\ x.items \subseteq rows
  PROVE  IInv'
<1>1. Calm
  BY DEF IInv, Shapes, Calm
<1>2. \A q \in Requests \ {r} : ~Spoils(q)
  BY DEF Spoils
<1>3. Local(x)'
  BY DEF Local, Makes, Removes, Spares, Seen
<1>4. (thread' \/ rows' \cap Images = {}) /\ RowsHaveFiles'
  BY DEF IInv, RowsHaveFiles
<1> QED BY <1>1, <1>2, <1>3, <1>4, StepKeeps

LEMMA GoIs ==
  ASSUME IInv, NEW r \in Requests, NEW op \in Ops, NEW at \in Places, NEW items \in SUBSET Items,
         Go(r, op, at, items)
  PROVE  \E x \in Shape :
           /\ req' = [req EXCEPT ![r] = x]
           /\ x.op = op /\ x.at = at /\ x.items = items
           /\ x.late = (req[r].late /\ at # "idle")
<1> DEFINE x == [op |-> op, at |-> at, items |-> items, late |-> req[r].late /\ at # "idle"]
<1>1. req[r].late \in BOOLEAN
  BY DEF IInv, Shapes, Shape
<1>2. x \in Shape
  BY <1>1 DEF Shape
<1>3. req' = [req EXCEPT ![r] = x]
  BY DEF Go, IInv, Shapes
<1> QED BY <1>2, <1>3

LEMMA EndIs ==
  ASSUME NEW r \in Requests, End(r)
  PROVE  Idle \in Shape /\ Idle.items = {} /\ req' = [req EXCEPT ![r] = Idle]
         /\ Idle.op # "create" /\ Local(Idle) /\ Local(Idle)'
  BY DEF End, Idle, Shape, Ops, Places, Local, Makes, Removes, Spares

\* A step that ends the request r.
LEMMA QuitKeeps ==
  ASSUME IInv, NEW r \in Requests, End(r), UNCHANGED <<made, files, age, rows, late, thread>>
  PROVE  IInv'
  BY EndIs, MoveKeeps

-----------------------------------------------------------------------------
\* A request takes up rows as they are, or goes on with items it had.
LEMMA TakeKeeps ==
  ASSUME IInv, NEW r \in Requests, NEW op \in {"update", "delete", "thread"}, NEW at \in {"save", "rows"},
         NEW items \in SUBSET rows, Go(r, op, at, items),
         op = "thread" => items \subseteq Images, op = "delete" => items \cap Images = {},
         UNCHANGED <<made, files, age, rows, late, thread>>
  PROVE  IInv'
<1>1. items \in SUBSET Items /\ items \subseteq made /\ op \in Ops /\ at \in Places
  BY DEF IInv, Shapes, Ops, Places
<1>2. PICK x \in Shape : /\ req' = [req EXCEPT ![r] = x]
                         /\ x.op = op /\ x.at = at /\ x.items = items
  BY <1>1, GoIs
<1>3. Local(x)
  BY <1>1, <1>2 DEF Local, Makes, Removes, Spares
<1> QED BY <1>2, <1>3, MoveKeeps

\* A request removes rows.
LEMMA RowsKeep ==
  ASSUME IInv, NEW r \in Requests, NEW x \in Shape, req' = [req EXCEPT ![r] = x],
         rows' \subseteq rows, UNCHANGED <<made, files, age, late>>,
         thread' => thread, thread' \/ rows' \cap Images = {},
         Local(x)',
         \/ x.op = req[r].op /\ x.items \subseteq req[r].items
         \/ x.op # "create" /\ x.items \subseteq rows
  PROVE  IInv'
<1>1. Calm
  BY DEF IInv, Shapes, Calm
<1>2. \A q \in Requests \ {r} : ~Spoils(q)
  BY DEF Spoils
<1>3. RowsHaveFiles'
  BY DEF IInv, RowsHaveFiles
<1> QED BY <1>1, <1>2, <1>3, StepKeeps

\* A request ends with the removal of files that nobody needs.
LEMMA RemoveKeeps ==
  ASSUME IInv, NEW r \in Requests, NEW x \in Shape, req' = [req EXCEPT ![r] = x],
         NEW gone \in SUBSET Items, Removed(gone), UNCHANGED <<made, rows, late, thread>>,
         gone \cap rows \subseteq late,
         \A q \in Requests \ {r} :
           req[q].op = "create" /\ req[q].at = "insert" => req[q].items \cap gone = {},
         Local(x)',
         \/ x.op = req[r].op /\ x.items \subseteq req[r].items
         \/ x.op # "create" /\ x.items \subseteq rows
  PROVE  IInv'
<1>1. /\ files' = files \ gone
      /\ age' = [i \in Items |-> IF i \in gone THEN 0 ELSE age[i]]
  BY DEF Removed
<1>2. Calm
  BY <1>1 DEF IInv, Shapes, Calm, Old
<1>3. \A q \in Requests \ {r} : ~Spoils(q)
  BY <1>1 DEF Spoils
<1>4. RowsHaveFiles'
  BY <1>1 DEF IInv, RowsHaveFiles
<1> QED BY <1>2, <1>3, <1>4, StepKeeps DEF IInv

-----------------------------------------------------------------------------
LEMMA CreateChecksKeeps ==
  ASSUME ItemsAssumption, IInv, NEW r \in Requests, CreateChecks(r)
  PROVE  IInv'
<1>1. PICK i \in Knowledge \cup Skills : i \notin made /\ made' = made \cup {i} /\ Go(r, "create", "save", {i})
  BY DEF CreateChecks
<1>2. UNCHANGED <<files, age, rows, late, thread>>
  BY DEF CreateChecks
<1>3. i \in Items /\ {i} \in SUBSET Items /\ i \notin rows /\ i \notin Images
  BY <1>1 DEF Items, ItemsAssumption, IInv, Shapes
<1>4. PICK x \in Shape : /\ req' = [req EXCEPT ![r] = x]
                         /\ x.op = "create" /\ x.at = "save" /\ x.items = {i}
  BY <1>1, <1>3, GoIs DEF Ops, Places
<1>5. Calm
  BY <1>1, <1>2, <1>3 DEF IInv, Shapes, Calm
<1>6. \A q \in Requests \ {r} : ~Spoils(q)
  BY <1>2 DEF Spoils
<1>7. Local(x)'
  BY <1>1, <1>2, <1>3, <1>4 DEF Local, Makes, Removes, Spares
<1>8. x.items \cap made = {}
  BY <1>1, <1>4
<1>9. (thread' \/ rows' \cap Images = {}) /\ RowsHaveFiles'
  BY <1>2 DEF IInv, RowsHaveFiles
<1> QED BY <1>4, <1>5, <1>6, <1>7, <1>8, <1>9, StepKeeps

\* A file is written, for a new item or for the new text of an entry.
LEMMA SavesKeep ==
  ASSUME IInv, NEW r \in Requests, req[r].op \in {"create", "update"},
         Saved(req[r].items), Go(r, req[r].op, "insert", req[r].items),
         UNCHANGED <<made, rows, late, thread>>
  PROVE  IInv'
<1>1. req[r] \in Shape /\ req[r].items \in SUBSET Items /\ req[r].op \in Ops /\ Local(req[r])
  BY DEF IInv, Shapes, Shape
<1>2. PICK x \in Shape : /\ req' = [req EXCEPT ![r] = x]
                         /\ x.op = req[r].op /\ x.at = "insert" /\ x.items = req[r].items
  BY <1>1, GoIs DEF Places
<1>3. /\ files' = files \cup req[r].items
      /\ age' = [i \in Items |-> IF i \in req[r].items THEN 0 ELSE age[i]]
  BY DEF Saved
<1>4. Calm
  BY <1>1, <1>3 DEF IInv, Shapes, Calm, Old
<1>5. \A q \in Requests \ {r} : ~Spoils(q)
  BY <1>3 DEF Spoils
<1>6. Local(x)'
  BY <1>1, <1>2, <1>3 DEF Local, Makes, Removes, Spares
<1>7. (thread' \/ rows' \cap Images = {}) /\ RowsHaveFiles'
  BY <1>3 DEF IInv, RowsHaveFiles
<1> QED BY <1>2, <1>4, <1>5, <1>6, <1>7, StepKeeps

LEMMA CreateInsertsKeeps ==
  ASSUME IInv, NEW r \in Requests, CreateInserts(r)
  PROVE  IInv'
<1>1. req[r] \in Shape /\ req[r].op = "create" /\ req[r].at = "insert" /\ End(r)
      /\ UNCHANGED <<made, late, thread>>
  BY DEF CreateInserts, Step, IInv, Shapes
<1>2. /\ req[r].items \subseteq made /\ req[r].items \subseteq Items
      /\ req[r].items \cap (rows \cup Images) = {}
      /\ \A i \in req[r].items : i \in files /\ (age[i] = 0 \/ age[i] = 1)
  BY <1>1 DEF IInv, Local, Makes, Shapes
<1>3. \A q \in Requests \ {r} : req[q].op # "sweep" => req[r].items \cap req[q].items = {}
  BY <1>1 DEF IInv, Alone
<1>4. Idle \in Shape /\ Idle.items = {} /\ req' = [req EXCEPT ![r] = Idle]
      /\ Idle.op # "create" /\ Local(Idle)'
  BY <1>1, EndIs
<1>5. CASE Removed(req[r].items) /\ UNCHANGED rows
  <2>1. \A q \in Requests \ {r} : req[q].op = "create" => req[q].items \cap req[r].items = {}
    BY <1>3
  <2>2. PICK gone \in SUBSET Items : gone = req[r].items
    BY <1>2
  <2>3. Removed(gone) /\ gone \cap rows \subseteq late
    BY <1>2, <1>5, <2>2
  <2> QED BY <1>1, <1>4, <1>5, <2>1, <2>2, <2>3, RemoveKeeps
<1>6. CASE rows' = rows \cup req[r].items /\ UNCHANGED <<files, age>>
  <2>1. Calm
    BY <1>1, <1>2, <1>6 DEF IInv, Shapes, Calm
  <2>2. \A q \in Requests \ {r} : ~Spoils(q)
    BY <1>2, <1>3, <1>6 DEF Spoils
  <2>3. (thread' \/ rows' \cap Images = {}) /\ RowsHaveFiles'
    BY <1>1, <1>2, <1>6 DEF IInv, RowsHaveFiles
  <2> QED BY <1>4, <2>1, <2>2, <2>3, StepKeeps
<1> QED BY <1>5, <1>6 DEF CreateInserts

LEMMA UpdateReadsKeeps ==
  ASSUME ItemsAssumption, IInv, NEW r \in Requests, UpdateReads(r) \/ DeleteReads(r) \/ ThreadReads(r)
  PROVE  IInv'
<1>1. UNCHANGED <<made, files, age, rows, late, thread>>
  BY DEF UpdateReads, DeleteReads, ThreadReads
<1>2. CASE UpdateReads(r)
  <2>1. PICK i \in rows : Go(r, "update", "save", {i})
    BY <1>2 DEF UpdateReads
  <2>2. {i} \in SUBSET rows
    OBVIOUS
  <2> QED BY <1>1, <2>1, <2>2, TakeKeeps
<1>3. CASE DeleteReads(r)
  <2>1. PICK i \in rows : i \in Knowledge \cup Skills /\ Go(r, "delete", "rows", {i})
    BY <1>3 DEF DeleteReads
  <2>2. {i} \in SUBSET rows /\ {i} \cap Images = {}
    BY <2>1 DEF ItemsAssumption
  <2> QED BY <1>1, <2>1, <2>2, TakeKeeps
<1>4. CASE ThreadReads(r)
  <2>1. Go(r, "thread", "rows", rows \cap Images)
    BY <1>4 DEF ThreadReads
  <2>2. rows \cap Images \in SUBSET rows /\ rows \cap Images \subseteq Images
    OBVIOUS
  <2> QED BY <1>1, <2>1, <2>2, TakeKeeps
<1> QED BY <1>2, <1>3, <1>4

LEMMA DeleteRowsKeeps ==
  ASSUME ItemsAssumption, IInv, NEW r \in Requests, DeleteRows(r)
  PROVE  IInv'
<1>1. /\ req[r].op = "delete" /\ rows' = rows \ req[r].items
      /\ UNCHANGED <<made, files, age, late, thread>>
      /\ End(r) \/ Go(r, "delete", "files", req[r].items)
  BY DEF DeleteRows, Step
<1>2. /\ req[r] \in Shape /\ req[r].items \in SUBSET Items /\ req[r].items \subseteq made
      /\ req[r].items \cap Images = {}
  BY <1>1 DEF IInv, Shapes, Shape, Local, Removes
<1>3. rows' \subseteq rows /\ (thread' => thread) /\ (thread' \/ rows' \cap Images = {})
  BY <1>1 DEF IInv
<1>4. CASE End(r)
  BY <1>1, <1>3, <1>4, EndIs, RowsKeep
<1>5. CASE Go(r, "delete", "files", req[r].items)
  <2>1. PICK x \in Shape : /\ req' = [req EXCEPT ![r] = x]
                           /\ x.op = "delete" /\ x.at = "files" /\ x.items = req[r].items
    BY <1>2, <1>5, GoIs DEF Ops, Places
  <2>2. Local(x)'
    BY <1>1, <1>2, <2>1 DEF Local, Makes, Removes, Spares
  <2> QED BY <1>1, <1>3, <2>1, <2>2, RowsKeep
<1> QED BY <1>1, <1>4, <1>5

\* delete(), deleteThread: the files go, the request ends.
LEMMA FilesKeep ==
  ASSUME IInv, NEW r \in Requests, DeleteFiles(r) \/ ThreadFiles(r)
  PROVE  IInv'
<1>1. /\ req[r].op \in {"delete", "thread"} /\ req[r].at = "files"
      /\ Removed(req[r].items) /\ End(r)
      /\ UNCHANGED <<made, rows, late, thread>>
  BY DEF DeleteFiles, ThreadFiles, Step
<1>2. PICK gone \in SUBSET Items : gone = req[r].items
  BY DEF IInv, Shapes, Shape
<1>3. gone \cap rows = {}
  BY <1>1, <1>2 DEF IInv, Local, Removes
<1>4. \A q \in Requests \ {r} : req[q].op = "create" => req[q].items \cap gone = {}
  BY <1>1, <1>2 DEF IInv, Alone
<1>5. Removed(gone)
  BY <1>1, <1>2
<1> QED BY <1>1, <1>3, <1>4, <1>5, EndIs, RemoveKeeps

LEMMA DeleteAllSkillsKeeps ==
  ASSUME ItemsAssumption, IInv, NEW r \in Requests, DeleteAllSkills(r)
  PROVE  IInv'
<1>1. /\ rows' = rows \ Skills /\ Go(r, "delete", "files", rows \cap Skills)
      /\ UNCHANGED <<made, files, age, late, thread>>
  BY DEF DeleteAllSkills
<1>2. rows \cap Skills \in SUBSET Items /\ rows \cap Skills \subseteq made
      /\ rows \cap Skills \cap Images = {}
  BY DEF IInv, Shapes, ItemsAssumption
<1>3. PICK x \in Shape : /\ req' = [req EXCEPT ![r] = x]
                         /\ x.op = "delete" /\ x.at = "files" /\ x.items = rows \cap Skills
  BY <1>1, <1>2, GoIs DEF Ops, Places
<1>4. Local(x)'
  BY <1>1, <1>2, <1>3 DEF Local, Makes, Removes, Spares
<1>5. rows' \subseteq rows /\ (thread' => thread) /\ (thread' \/ rows' \cap Images = {})
  BY <1>1 DEF IInv
<1> QED BY <1>1, <1>3, <1>4, <1>5, RowsKeep

LEMMA ThreadRowsKeeps ==
  ASSUME IInv, NEW r \in Requests, ThreadRows(r)
  PROVE  IInv'
<1>1. /\ req[r].op = "thread" /\ rows' = rows \ Images
      /\ Go(r, "thread", "thread", req[r].items)
      /\ UNCHANGED <<made, files, age, late, thread>>
  BY DEF ThreadRows, Step
<1>2. req[r].items \in SUBSET Items /\ req[r].items \subseteq made /\ req[r].items \subseteq Images
  BY <1>1 DEF IInv, Shapes, Shape, Local, Removes
<1>3. PICK x \in Shape : /\ req' = [req EXCEPT ![r] = x]
                         /\ x.op = "thread" /\ x.at = "thread" /\ x.items = req[r].items
  BY <1>1, <1>2, GoIs DEF Ops, Places
<1>4. Local(x)'
  BY <1>1, <1>2, <1>3 DEF Local, Makes, Removes, Spares
<1>5. rows' \subseteq rows /\ (thread' => thread) /\ (thread' \/ rows' \cap Images = {})
  BY <1>1
<1> QED BY <1>1, <1>3, <1>4, <1>5, RowsKeep

LEMMA ThreadRowKeeps ==
  ASSUME IInv, NEW r \in Requests, ThreadRow(r)
  PROVE  IInv'
<1>1. /\ req[r].op = "thread" /\ thread' = (thread /\ rows \cap Images # {})
      /\ (thread /\ ~thread' /\ Go(r, "thread", "files", req[r].items)) \/ End(r)
      /\ UNCHANGED <<made, files, age, rows, late>>
  BY DEF ThreadRow, Step
<1>2. req[r].items \in SUBSET Items /\ req[r].items \subseteq made /\ req[r].items \subseteq Images
  BY <1>1 DEF IInv, Shapes, Shape, Local, Removes
<1>3. rows' \subseteq rows /\ (thread' => thread) /\ (thread' \/ rows' \cap Images = {})
  BY <1>1 DEF IInv
<1>4. CASE End(r)
  BY <1>1, <1>3, <1>4, EndIs, RowsKeep
<1>5. CASE thread /\ ~thread' /\ Go(r, "thread", "files", req[r].items)
  <2>1. PICK x \in Shape : /\ req' = [req EXCEPT ![r] = x]
                           /\ x.op = "thread" /\ x.at = "files" /\ x.items = req[r].items
    BY <1>2, <1>5, GoIs DEF Ops, Places
  <2>2. Local(x)'
    BY <1>1, <1>2, <1>3, <1>5, <2>1 DEF Local, Makes, Removes, Spares
  <2> QED BY <1>1, <1>3, <2>1, <2>2, RowsKeep
<1> QED BY <1>1, <1>4, <1>5

-----------------------------------------------------------------------------
LEMMA ListsKeeps ==
  ASSUME IInv, NEW r \in Requests, Lists(r)
  PROVE  IInv'
<1>1. Go(r, "sweep", "messages", files) /\ UNCHANGED <<made, files, age, rows, late, thread>>
  BY DEF Lists
<1>2. files \in SUBSET Items
  BY DEF IInv, Shapes
<1>3. PICK x \in Shape : /\ req' = [req EXCEPT ![r] = x]
                         /\ x.op = "sweep" /\ x.at = "messages" /\ x.items = files
  BY <1>1, <1>2, GoIs DEF Ops, Places
<1>4. Local(x)
  BY <1>3 DEF Local, Makes, Removes, Spares, Seen
<1> QED BY <1>1, <1>3, <1>4, MoveKeeps

\* The rows of one more kind were read: those that come now have young files.
LEMMA KeepsKeeps ==
  ASSUME IInv, NEW r \in Requests, NEW from \in Places, NEW kind, NEW to \in {"knowledge", "skills", "unlink"},
         Keeps(r, from, kind, to), Seen(to) \subseteq Seen(from) \cup kind
  PROVE  IInv'
<1>1. /\ req[r].op = "sweep" /\ req[r].at = from
      /\ Go(r, "sweep", to, req[r].items \ (rows \cap kind))
      /\ UNCHANGED <<made, files, age, rows, late, thread>>
  BY DEF Keeps, Step
<1>2. req[r].items \ (rows \cap kind) \in SUBSET Items
  BY DEF IInv, Shapes, Shape
<1>3. PICK x \in Shape : /\ req' = [req EXCEPT ![r] = x]
                         /\ x.op = "sweep" /\ x.at = to /\ x.items = req[r].items \ (rows \cap kind)
                         /\ x.late = (req[r].late /\ to # "idle")
  BY <1>1, <1>2, GoIs DEF Ops, Places
<1>4. ASSUME NEW i \in (x.items \cap Seen(to) \cap rows) \ late
      PROVE  age[i] <= 1 \/ (age[i] = 2 /\ x.late)
  <2>1. i \in (req[r].items \cap Seen(from) \cap rows) \ late
    BY <1>3
  <2>2. age[i] <= 1 \/ (age[i] = 2 /\ req[r].late)
    BY <1>1, <2>1 DEF IInv, Local, Spares
  <2> QED BY <1>3, <2>2
<1>5. Local(x)
  BY <1>3, <1>4 DEF Local, Makes, Removes, Spares
<1> QED BY <1>1, <1>3, <1>5, MoveKeeps

LEMMA UnlinksKeeps ==
  ASSUME IInv, NEW r \in Requests, Unlinks(r)
  PROVE  IInv'
<1>1. PICK i \in req[r].items : /\ Removed(IF Eligible(i) THEN {i} ELSE {})
                                /\ Go(r, "sweep", "unlink", req[r].items \ {i})
  BY DEF Unlinks
<1>2. req[r].op = "sweep" /\ req[r].at = "unlink" /\ UNCHANGED <<made, rows, late, thread>>
  BY DEF Unlinks, Step
<1>3. req[r].items \ {i} \in SUBSET Items /\ i \in Items /\ req[r].items \subseteq Items
  BY DEF IInv, Shapes, Shape
<1>4. PICK gone \in SUBSET Items : gone = IF Eligible(i) THEN {i} ELSE {}
  BY <1>3
<1>5. Removed(gone)
  BY <1>1, <1>4
<1>6. PICK x \in Shape : /\ req' = [req EXCEPT ![r] = x]
                         /\ x.op = "sweep" /\ x.at = "unlink" /\ x.items = req[r].items \ {i}
                         /\ x.late = (req[r].late /\ "unlink" # "idle")
  BY <1>1, <1>3, GoIs DEF Ops, Places
<1>7. \A j \in (req[r].items \cap rows) \ late : age[j] <= 1 \/ (age[j] = 2 /\ req[r].late)
  BY <1>2, <1>3 DEF IInv, Local, Spares, Seen
<1>8. gone \cap rows \subseteq late
  BY <1>4, <1>7 DEF Eligible, Old
<1>9. \A q \in Requests \ {r} : req[q].op = "create" /\ req[q].at = "insert" => req[q].items \cap gone = {}
  BY <1>4 DEF IInv, Local, Makes, Eligible, Old
<1>10. age' = [j \in Items |-> IF j \in gone THEN 0 ELSE age[j]]
  BY <1>5 DEF Removed
<1>11. Local(x)'
  <2>1. ASSUME NEW j \in (x.items \cap Seen(x.at) \cap rows') \ late'
        PROVE  age'[j] <= 1 \/ (age'[j] = 2 /\ x.late)
    <3>1. j \in req[r].items /\ j \in rows /\ j \notin late /\ j \in Items
      BY <1>2, <1>3, <1>6
    <3>2. age[j] <= 1 \/ (age[j] = 2 /\ x.late)
      BY <1>6, <1>7, <3>1
    <3>3. age'[j] = age[j] \/ age'[j] = 0
      BY <1>10, <3>1
    <3> QED BY <3>2, <3>3
  <2>2. Spares(x)'
    BY <2>1 DEF Spares, Seen
  <2>3. Makes(x)' /\ Removes(x)'
    BY <1>6 DEF Makes, Removes
  <2>4. x.op = "sweep"
    BY <1>6
  <2> QED BY <2>2, <2>3, <2>4 DEF Local
<1> QED BY <1>2, <1>5, <1>6, <1>8, <1>9, <1>11, RemoveKeeps

-----------------------------------------------------------------------------
\* A step of no request.
LEMMA StayKeeps ==
  ASSUME IInv, Calm, req' = req, \A q \in Requests : ~Spoils(q),
         thread' \/ rows' \cap Images = {}, RowsHaveFiles'
  PROVE  IInv'
<1>1. Shapes'
  BY DEF IInv, Shapes, Calm
<1>2. \A q \in Requests : Local(req[q])'
  BY OthersKeep
<1>3. Alone'
  BY DEF IInv, Alone
<1> QED BY <1>1, <1>2, <1>3 DEF IInv

LEMMA UploadKeeps ==
  ASSUME ItemsAssumption, IInv, NEW i \in Images, Upload(i)
  PROVE  IInv'
<1>1. /\ made' = made \cup {i} /\ files' = files \cup {i}
      /\ age' = [j \in Items |-> IF j \in {i} THEN 0 ELSE age[j]]
      /\ UNCHANGED <<rows, late, thread, req>>
  BY DEF Upload, Saved
<1>2. i \in Items
  BY DEF Items
<1>3. Calm
  BY <1>1, <1>2 DEF IInv, Shapes, Calm, Old
<1>4. \A q \in Requests : ~Spoils(q)
  BY <1>1 DEF Spoils
<1>5. (thread' \/ rows' \cap Images = {}) /\ RowsHaveFiles'
  BY <1>1 DEF IInv, RowsHaveFiles
<1> QED BY <1>1, <1>3, <1>4, <1>5, StayKeeps

LEMMA SendKeeps ==
  ASSUME ItemsAssumption, IInv, NEW i \in Images, Send(i)
  PROVE  IInv'
<1>1. /\ thread /\ i \in made \ rows /\ rows' = rows \cup {i}
      /\ late' = IF age[i] > 1 \/ i \notin files THEN late \cup {i} ELSE late
      /\ UNCHANGED <<made, files, age, thread, req>>
  BY DEF Send
<1>2. Calm
  BY <1>1 DEF IInv, Shapes, Calm
<1>3. \A q \in Requests : ~Spoils(q)
  BY <1>1 DEF Spoils
<1>4. (thread' \/ rows' \cap Images = {}) /\ RowsHaveFiles'
  BY <1>1 DEF IInv, RowsHaveFiles
<1> QED BY <1>1, <1>2, <1>3, <1>4, StayKeeps

\* Time passes: no request lasts for two ticks, so what it wrote, and what came since it
\* read the rows, is at most one tick older than it found it.
LEMMA TickKeeps ==
  ASSUME IInv, Tick
  PROVE  IInv'
<1>1. /\ \A r \in Requests : ~ req[r].late
      /\ age' = [i \in Items |-> IF i \in files /\ age[i] < Old THEN age[i] + 1 ELSE age[i]]
      /\ req' = [r \in Requests |-> IF req[r] = Idle THEN Idle ELSE [req[r] EXCEPT !.late = TRUE]]
      /\ UNCHANGED <<made, files, rows, late, thread>>
  BY DEF Tick
<1>2. Idle \in Shape
  BY DEF Idle, Shape, Ops, Places
<1>3. ASSUME NEW r \in Requests
      PROVE  /\ req'[r] \in Shape /\ req'[r].op = req[r].op /\ req'[r].at = req[r].at
             /\ req'[r].items = req[r].items
             /\ req[r].op # "none" => req'[r].late
  <2>1. req[r] \in Shape
    BY DEF IInv, Shapes
  <2>2. CASE req[r] = Idle
    BY <1>1, <1>2, <2>2 DEF Idle
  <2>3. CASE req[r] # Idle
    <3>1. req'[r] = [req[r] EXCEPT !.late = TRUE]
      BY <1>1, <2>3
    <3> QED BY <2>1, <3>1 DEF Shape
  <2> QED BY <2>2, <2>3
<1>4. age' \in [Items -> 0..Old]
  BY <1>1 DEF IInv, Shapes, Old
<1>5. ASSUME NEW i \in Items PROVE age[i] \in 0..Old /\ (age'[i] = age[i] \/ age'[i] = age[i] + 1)
  BY <1>1 DEF IInv, Shapes
<1>6. Shapes'
  BY <1>1, <1>3, <1>4 DEF IInv, Shapes
<1>7. ASSUME NEW r \in Requests PROVE Local(req[r])'
  <2>1. Local(req[r]) /\ ~req[r].late /\ req[r].items \subseteq Items
    BY <1>1 DEF IInv, Shapes, Shape
  <2>2. Makes(req[r])'
    <3> SUFFICES ASSUME req[r].op = "create"
                 PROVE  /\ req[r].items \cap (rows \cup Images) = {}
                        /\ req[r].at = "insert" =>
                             \A i \in req[r].items : i \in files /\ (age'[i] = 0 \/ (age'[i] = 1 /\ req'[r].late))
      BY <1>1, <1>3 DEF Makes
    <3>1. req'[r].late
      BY <1>3
    <3>2. /\ req[r].items \cap (rows \cup Images) = {}
          /\ req[r].at = "insert" => \A i \in req[r].items : i \in files /\ age[i] = 0
      BY <2>1 DEF Local, Makes
    <3> QED BY <1>5, <2>1, <3>1, <3>2
  <2>3. Removes(req[r])'
    BY <1>1, <1>3, <2>1 DEF Local, Removes
  <2>4. Spares(req[r])'
    <3> SUFFICES ASSUME req[r].op = "sweep",
                        NEW i \in (req[r].items \cap Seen(req[r].at) \cap rows) \ late
                 PROVE  age'[i] <= 1 \/ (age'[i] = 2 /\ req'[r].late)
      BY <1>1, <1>3 DEF Spares, Seen
    <3>1. req'[r].late
      BY <1>3
    <3>2. age[i] <= 1 /\ i \in Items
      BY <2>1 DEF Local, Spares
    <3> QED BY <1>5, <3>1, <3>2
  <2>5. req'[r].op # "sweep" => req'[r].items \subseteq made'
    BY <1>1, <1>3, <2>1 DEF Local
  <2> QED BY <2>2, <2>3, <2>4, <2>5 DEF Local
<1>8. Alone'
  BY <1>3 DEF IInv, Alone
<1>9. (thread' \/ rows' \cap Images = {}) /\ RowsHaveFiles'
  BY <1>1 DEF IInv, RowsHaveFiles
<1> QED BY <1>6, <1>7, <1>8, <1>9 DEF IInv

LEMMA CrashKeeps ==
  ASSUME IInv, Crash
  PROVE  IInv'
<1>1. req' = [r \in Requests |-> Idle] /\ UNCHANGED <<made, files, age, rows, late, thread>>
  BY DEF Crash
<1>2. Idle \in Shape
  BY DEF Idle, Shape, Ops, Places
<1>3. Shapes'
  BY <1>1, <1>2 DEF IInv, Shapes
<1>4. \A r \in Requests : Local(req[r])'
  BY <1>1 DEF Idle, Local, Makes, Removes, Spares
<1>5. Alone'
  BY <1>1 DEF Idle, Alone
<1> QED BY <1>1, <1>3, <1>4, <1>5 DEF IInv, RowsHaveFiles

-----------------------------------------------------------------------------
LEMMA RequestKeeps ==
  ASSUME ItemsAssumption, IInv, NEW r \in Requests,
         \/ CreateChecks(r) \/ CreateSaves(r) \/ CreateInserts(r)
         \/ UpdateReads(r) \/ UpdateSaves(r) \/ UpdateRenames(r)
         \/ DeleteReads(r) \/ DeleteRows(r) \/ DeleteFiles(r) \/ DeleteAllSkills(r)
         \/ ThreadReads(r) \/ ThreadRows(r) \/ ThreadRow(r) \/ ThreadFiles(r)
         \/ Lists(r) \/ Keeps(r, "messages", Images, "knowledge")
         \/ Keeps(r, "knowledge", Knowledge, "skills") \/ Keeps(r, "skills", Skills, "unlink")
         \/ Unlinks(r) \/ SweepEnds(r)
  PROVE  IInv'
<1>1. CASE CreateChecks(r)
  BY <1>1, CreateChecksKeeps
<1>2. CASE CreateSaves(r) \/ UpdateSaves(r)
  BY <1>2, SavesKeep DEF CreateSaves, UpdateSaves, Step
<1>3. CASE CreateInserts(r)
  BY <1>3, CreateInsertsKeeps
<1>4. CASE UpdateReads(r) \/ DeleteReads(r) \/ ThreadReads(r)
  BY <1>4, UpdateReadsKeeps
<1>5. CASE UpdateRenames(r) \/ SweepEnds(r)
  BY <1>5, QuitKeeps DEF UpdateRenames, SweepEnds
<1>6. CASE DeleteRows(r)
  BY <1>6, DeleteRowsKeeps
<1>7. CASE DeleteFiles(r) \/ ThreadFiles(r)
  BY <1>7, FilesKeep
<1>8. CASE DeleteAllSkills(r)
  BY <1>8, DeleteAllSkillsKeeps
<1>9. CASE ThreadRows(r)
  BY <1>9, ThreadRowsKeeps
<1>10. CASE ThreadRow(r)
  BY <1>10, ThreadRowKeeps
<1>11. CASE Lists(r)
  BY <1>11, ListsKeeps
<1>12. CASE Keeps(r, "messages", Images, "knowledge")
  <2>1. Seen("knowledge") \subseteq Seen("messages") \cup Images
    BY DEF Seen
  <2> QED BY <1>12, <2>1, KeepsKeeps DEF Places
<1>13. CASE Keeps(r, "knowledge", Knowledge, "skills")
  <2>1. Seen("skills") \subseteq Seen("knowledge") \cup Knowledge
    BY DEF Seen
  <2> QED BY <1>13, <2>1, KeepsKeeps DEF Places
<1>14. CASE Keeps(r, "skills", Skills, "unlink")
  <2>1. Seen("unlink") \subseteq Seen("skills") \cup Skills
    BY DEF Seen, Items
  <2> QED BY <1>14, <2>1, KeepsKeeps DEF Places
<1>15. CASE Unlinks(r)
  BY <1>15, UnlinksKeeps
<1> QED BY <1>1, <1>2, <1>3, <1>4, <1>5, <1>6, <1>7, <1>8, <1>9, <1>10, <1>11, <1>12,
           <1>13, <1>14, <1>15

LEMMA NextKeeps == ASSUME ItemsAssumption, IInv, [Next]_vars PROVE IInv'
<1>1. ASSUME Next PROVE IInv'
  BY <1>1, RequestKeeps, UploadKeeps, SendKeeps, TickKeeps, CrashKeeps DEF Next
<1>2. ASSUME UNCHANGED vars PROVE IInv'
  <2>1. /\ UNCHANGED <<files, made, age, rows, late, thread, req>>
    BY <1>2 DEF vars
  <2> QED BY <2>1 DEF IInv, Shapes, Local, Makes, Removes, Spares, Seen, Alone, RowsHaveFiles
<1> QED BY <1>1, <1>2

\* KnowledgeService, PunchSkillService, ThreadService, FileCleanupService: however many
\* requests and clean-ups run beside one another and wherever they stop, a row has its
\* file, but for the picture of a message that was sent long after its upload.
THEOREM EveryRowHasItsFile == ItemsAssumption => (Spec => []RowsHaveFiles)
<1> SUFFICES ASSUME ItemsAssumption PROVE Spec => []RowsHaveFiles OBVIOUS
<1>1. Init => IInv BY InitHolds
<1>2. IInv /\ [Next]_vars => IInv' BY NextKeeps
<1>3. IInv => RowsHaveFiles BY DEF IInv
<1> QED BY <1>1, <1>2, <1>3, PTL DEF Spec

-----------------------------------------------------------------------------
\* A step leaves the late images and the thread alone, but for sending and deleting.
LEMMA RestKeeps ==
  ASSUME late \subseteq Images, thread \in BOOLEAN, [Next]_vars
  PROVE  late' \subseteq Images /\ thread' \in BOOLEAN
<1>1. ASSUME NEW r \in Requests, ThreadRow(r) PROVE late' = late /\ thread' \in BOOLEAN
  <2>1. late' = late /\ thread' = (thread /\ rows \cap Images # {})
    BY <1>1 DEF ThreadRow
  <2>2. (thread /\ rows \cap Images # {}) \in BOOLEAN
    OBVIOUS
  <2> QED BY <2>1, <2>2, Zenon
<1>2. ASSUME NEW i \in Images, Upload(i) \/ Send(i)
      PROVE  late' \subseteq Images /\ thread' = thread
  BY <1>2 DEF Upload, Send
<1>3. ASSUME NEW r \in Requests,
             \/ CreateChecks(r) \/ CreateSaves(r) \/ CreateInserts(r)
             \/ UpdateReads(r) \/ UpdateSaves(r) \/ UpdateRenames(r)
             \/ DeleteReads(r) \/ DeleteRows(r) \/ DeleteFiles(r) \/ DeleteAllSkills(r)
             \/ ThreadReads(r) \/ ThreadRows(r) \/ ThreadFiles(r)
             \/ Lists(r) \/ Unlinks(r) \/ SweepEnds(r)
      PROVE  UNCHANGED <<late, thread>>
  BY <1>3, Zenon DEF CreateChecks, CreateSaves, CreateInserts, UpdateReads, UpdateSaves,
     UpdateRenames, DeleteReads, DeleteRows, DeleteFiles, DeleteAllSkills, ThreadReads,
     ThreadRows, ThreadFiles, Lists, Unlinks, SweepEnds
<1>4. ASSUME NEW r \in Requests,
             \/ Keeps(r, "messages", Images, "knowledge")
             \/ Keeps(r, "knowledge", Knowledge, "skills") \/ Keeps(r, "skills", Skills, "unlink")
      PROVE  UNCHANGED <<late, thread>>
  BY <1>4, Zenon DEF Keeps
<1>5. ASSUME Tick \/ Crash PROVE UNCHANGED <<late, thread>>
  BY <1>5, Zenon DEF Tick, Crash
<1>6. ASSUME UNCHANGED vars PROVE UNCHANGED <<late, thread>>
  BY <1>6 DEF vars
<1>7. CASE \E r \in Requests : ThreadRow(r)
  BY <1>1, <1>7
<1>8. CASE \E i \in Images : Upload(i) \/ Send(i)
  BY <1>2, <1>8
<1>9. CASE UNCHANGED <<late, thread>>
  BY <1>9
<1> QED
  BY <1>3, <1>4, <1>5, <1>6, <1>7, <1>8, <1>9, Zenon DEF Next

\* The files, the rows and every request keep their types, for any number of items and
\* requests; a file that saw three ticks ages no more.
THEOREM TypeCorrect == ItemsAssumption => (Spec => []TypeOK)
<1> DEFINE Rest == late \subseteq Images /\ thread \in BOOLEAN
<1> SUFFICES ASSUME ItemsAssumption PROVE Spec => []TypeOK OBVIOUS
<1>1. Init => IInv /\ Rest BY InitHolds DEF Init
<1>2. IInv /\ Rest /\ [Next]_vars => (IInv /\ Rest)' BY NextKeeps, RestKeeps
<1>3. IInv /\ Rest => TypeOK
  BY DEF IInv, Shapes, Shape, Ops, Places, TypeOK
<1> QED BY <1>1, <1>2, <1>3, PTL DEF Spec
=============================================================================
