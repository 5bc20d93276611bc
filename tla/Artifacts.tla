----------------------------- MODULE Artifacts -----------------------------
(* The files of the artifacts directory and the rows of Postgres that name    *)
(* them: knowledge entries, skill packages and images of chat messages.       *)
(* Nothing ties a file to its row but the order of the calls of each request; *)
(* a clean-up lists the directory, reads the rows of one table after the      *)
(* other and removes the files no row names, if they are old enough.          *)
(*                                                                            *)
(* A tick is a third of the grace period of the clean-up (ten minutes of its  *)
(* thirty).  Assumed: a request or a sweep lasts less than one tick, so that  *)
(* at most one falls into it.                                                 *)
EXTENDS Integers, FiniteSets

CONSTANTS Knowledge, Skills, Images,  \* items, each with a file of its own
          Requests

Items == Knowledge \cup Skills \cup Images

\* Every theorem about this module assumes it.
ItemsAssumption ==
  /\ Knowledge \cap Skills = {} /\ Knowledge \cap Images = {} /\ Skills \cap Images = {}

VARIABLES files,     \* what the directory holds
          made,      \* items that were ever made: a file name is a new UUID
          age,       \* ticks since a file was written, up to Old
          rows,      \* items with a row; for an image, with a message that shows it
          late,      \* images whose message came two ticks or more after the upload
          thread,    \* the thread of the images exists
          req        \* the requests

vars == <<files, made, age, rows, late, thread, req>>

\* A file that saw three ticks may be past the grace period, one that saw two is not.
Old == 3
Idle == [op |-> "none", at |-> "idle", items |-> {}, late |-> FALSE]

Init ==
  /\ files = {} /\ made = {} /\ age = [i \in Items |-> 0] /\ rows = {} /\ late = {} /\ thread = TRUE
  /\ req = [r \in Requests |-> Idle]

-----------------------------------------------------------------------------
Step(r, op, at) == req[r].op = op /\ req[r].at = at
Go(r, op, at, items) ==
  req' = [req EXCEPT ![r] = [op |-> op, at |-> at, items |-> items, late |-> @.late /\ at # "idle"]]
End(r) == req' = [req EXCEPT ![r] = Idle]

Saved(items) ==
  /\ files' = files \cup items
  /\ age' = [i \in Items |-> IF i \in items THEN 0 ELSE age[i]]

Kin(i) == IF i \in Knowledge THEN Knowledge ELSE Skills

Removed(items) ==
  /\ files' = files \ items
  /\ age' = [i \in Items |-> IF i \in items THEN 0 ELSE age[i]]

\* A new entry or package: the name (one for all of a kind) must be free.
CreateChecks(r) ==
  /\ req[r] = Idle
  /\ \E i \in Knowledge \cup Skills :
       /\ i \notin made /\ made' = made \cup {i}
       /\ rows \cap Kin(i) = {} /\ Go(r, "create", "save", {i})
  /\ UNCHANGED <<files, age, rows, late, thread>>

\* Variant: the row first, then the file.
CreateSavesLater(r) ==
  /\ Step(r, "create", "save")
  /\ rows' = rows \cup req[r].items
  /\ Go(r, "create", "insert", req[r].items)
  /\ UNCHANGED <<made, files, age, late, thread>>

CreateSaves(r) ==
  /\ Step(r, "create", "save")
  /\ Saved(req[r].items)
  /\ Go(r, "create", "insert", req[r].items)
  /\ UNCHANGED <<made, rows, late, thread>>

\* A name of a skill is unique in its table: the second row is refused and its file
\* deleted.  Nothing stops a second knowledge entry of the same name.
CreateInserts(r) ==
  /\ Step(r, "create", "insert")
  /\ IF req[r].items \subseteq Skills /\ rows \cap Skills # {}
     THEN Removed(req[r].items) /\ UNCHANGED rows
     ELSE rows' = rows \cup req[r].items /\ UNCHANGED <<files, age>>
  /\ End(r)
  /\ UNCHANGED <<made, late, thread>>

\* An entry gets a new text: the file is written again whether or not it is still there.
UpdateReads(r) ==
  /\ req[r] = Idle
  /\ \E i \in rows \cap Knowledge : Go(r, "update", "save", {i})
  /\ UNCHANGED <<made, files, age, rows, late, thread>>

UpdateSaves(r) ==
  /\ Step(r, "update", "save")
  /\ Saved(req[r].items)
  /\ Go(r, "update", "insert", req[r].items)
  /\ UNCHANGED <<made, rows, late, thread>>

\* The row gets its new name, or is found to be gone.
UpdateRenames(r) ==
  /\ Step(r, "update", "insert")
  /\ End(r)
  /\ UNCHANGED <<made, files, age, rows, late, thread>>

\* delete() of an entry or a package, and deleteAllForUser: rows first, then files.
DeleteReads(r) ==
  /\ req[r] = Idle
  /\ \E i \in rows \cap (Knowledge \cup Skills) : Go(r, "delete", "rows", {i})
  /\ UNCHANGED <<made, files, age, rows, late, thread>>

\* A package whose row is gone already is not found; of an entry nobody looks.
DeleteRows(r) ==
  /\ Step(r, "delete", "rows")
  /\ rows' = rows \ req[r].items
  /\ IF req[r].items \cap Skills \cap rows = {} /\ req[r].items \subseteq Skills THEN End(r)
     ELSE Go(r, "delete", "files", req[r].items)
  /\ UNCHANGED <<made, files, age, late, thread>>

DeleteFiles(r) ==
  /\ Step(r, "delete", "files")
  /\ Removed(req[r].items)
  /\ End(r)
  /\ UNCHANGED <<made, rows, late, thread>>

DeleteAllSkills(r) ==
  /\ req[r] = Idle /\ rows \cap Skills # {}
  /\ rows' = rows \ Skills
  /\ Go(r, "delete", "files", rows \cap Skills)
  /\ UNCHANGED <<made, files, age, late, thread>>

-----------------------------------------------------------------------------
(* Images of a chat: uploaded while the message is being written.            *)
Upload(i) ==
  /\ thread /\ i \notin made /\ made' = made \cup {i}
  /\ Saved({i})
  /\ UNCHANGED <<rows, late, thread, req>>

\* The message is saved; nobody looks whether the file is still there.
Send(i) ==
  /\ thread /\ i \in made \ rows
  /\ rows' = rows \cup {i}
  /\ late' = IF age[i] > 1 \/ i \notin files THEN late \cup {i} ELSE late
  /\ UNCHANGED <<made, files, age, thread, req>>

\* deleteThread: the names are read, the messages and the thread deleted, then the files.
ThreadReads(r) ==
  /\ req[r] = Idle /\ thread
  /\ Go(r, "thread", "rows", rows \cap Images)
  /\ UNCHANGED <<made, files, age, rows, late, thread>>

ThreadRows(r) ==
  /\ Step(r, "thread", "rows")
  /\ rows' = rows \ Images
  /\ Go(r, "thread", "thread", req[r].items)
  /\ UNCHANGED <<made, files, age, late, thread>>

\* A thread that is gone, or has got a new message since (a foreign key), ends the request.
ThreadRow(r) ==
  /\ Step(r, "thread", "thread")
  /\ thread' = (thread /\ rows \cap Images # {})
  /\ IF thread /\ ~ thread' THEN Go(r, "thread", "files", req[r].items) ELSE End(r)
  /\ UNCHANGED <<made, files, age, rows, late>>

ThreadFiles(r) ==
  /\ Step(r, "thread", "files")
  /\ Removed(req[r].items)
  /\ End(r)
  /\ UNCHANGED <<made, rows, late, thread>>

-----------------------------------------------------------------------------
(* performCleanup: the directory, then messages, knowledge and skills.       *)
Lists(r) ==
  /\ req[r] = Idle /\ files # {}
  /\ Go(r, "sweep", "messages", files)
  /\ UNCHANGED <<made, files, age, rows, late, thread>>

Keeps(r, from, kind, to) ==
  /\ Step(r, "sweep", from)
  /\ Go(r, "sweep", to, req[r].items \ (rows \cap kind))
  /\ UNCHANGED <<made, files, age, rows, late, thread>>

Eligible(i) == age[i] = Old

\* One file after the other; a file that is gone or too young is passed over.
Unlinks(r) ==
  /\ Step(r, "sweep", "unlink")
  /\ \E i \in req[r].items :
       /\ Removed(IF Eligible(i) THEN {i} ELSE {})
       /\ Go(r, "sweep", "unlink", req[r].items \ {i})
  /\ UNCHANGED <<made, rows, late, thread>>

SweepEnds(r) ==
  /\ Step(r, "sweep", "unlink") /\ req[r].items = {}
  /\ End(r)
  /\ UNCHANGED <<made, files, age, rows, late, thread>>

-----------------------------------------------------------------------------
\* A third of the grace period passes; who was at work at the last tick has ended by now.
Tick ==
  /\ \A r \in Requests : ~ req[r].late
  /\ age' = [i \in Items |-> IF i \in files /\ age[i] < Old THEN age[i] + 1 ELSE age[i]]
  /\ req' = [r \in Requests |-> IF req[r] = Idle THEN Idle ELSE [req[r] EXCEPT !.late = TRUE]]
  /\ UNCHANGED <<made, files, rows, late, thread>>

\* The server stops between two calls, or a call fails.
Crash ==
  /\ \E r \in Requests : req[r] # Idle
  /\ req' = [r \in Requests |-> Idle]
  /\ UNCHANGED <<made, files, age, rows, late, thread>>

Next ==
  \/ \E r \in Requests :
       \/ CreateChecks(r) \/ CreateSaves(r) \/ CreateInserts(r)
       \/ UpdateReads(r) \/ UpdateSaves(r) \/ UpdateRenames(r)
       \/ DeleteReads(r) \/ DeleteRows(r) \/ DeleteFiles(r) \/ DeleteAllSkills(r)
       \/ ThreadReads(r) \/ ThreadRows(r) \/ ThreadRow(r) \/ ThreadFiles(r)
       \/ Lists(r) \/ Keeps(r, "messages", Images, "knowledge")
       \/ Keeps(r, "knowledge", Knowledge, "skills") \/ Keeps(r, "skills", Skills, "unlink")
       \/ Unlinks(r) \/ SweepEnds(r)
  \/ \E i \in Images : Upload(i) \/ Send(i)
  \/ Tick \/ Crash

Spec == Init /\ [][Next]_vars

-----------------------------------------------------------------------------
\* Requests, ages and rows have the shape the code gives them.
TypeOK ==
  /\ files \subseteq Items /\ made \subseteq Items /\ rows \subseteq Items /\ late \subseteq Images
  /\ age \in [Items -> 0..Old] /\ thread \in BOOLEAN
  /\ req \in [Requests -> [op : {"none", "create", "update", "delete", "thread", "sweep"},
                           at : {"idle", "save", "insert", "rows", "thread", "files",
                                 "messages", "knowledge", "skills", "unlink"},
                           items : SUBSET Items, late : BOOLEAN]]
\* What a row names is there, whatever else runs or stops half-way: files are written
\* before their row and deleted after it, and the clean-up spares a file younger than
\* the request that is writing its row.  Only the picture of a message that was sent
\* long after the upload may be gone: the clean-up takes a draft's upload for garbage.
RowsHaveFiles == rows \subseteq files \cup late
=============================================================================
