------------------------------ MODULE FileTree ------------------------------
(***************************************************************************)
(* The files of a project on a client's screen: the watcher of the sandbox, *)
(* the batches of changes AgentSessionService sends by NOTIFY, the trees it *)
(* reads and sends past it, and the reducer that puts the two together.     *)
(*                                                                         *)
(* One client on the server of the session; one elsewhere is sent the same  *)
(* but for fewer trees.  A path is a file that is shown and watched:        *)
(* caches, uploads and node_modules come with a tree only, and folders by   *)
(* the files in them.                                                      *)
(***************************************************************************)
EXTENDS Naturals, Sequences, SequencesExt

CONSTANTS
  Paths,        \* files
  Locks,        \* the lockfiles among them
  MaxChanges,   \* bound: changes of files
  MaxReads,     \* bound: trees on their way at once
  MaxAsked,     \* bound: trees that turns and uploads ask for
  MaxFaults,    \* bound: trees that cannot be read
  MaxDrops      \* bound: breaks of the connection

\* What the bounds have to be.
FilesAssumption ==
  /\ {MaxChanges, MaxReads, MaxAsked, MaxFaults, MaxDrops} \subseteq Nat
  /\ Locks \subseteq Paths

VARIABLES
  files,      \* the workspace
  watching,   \* inotifywait runs for a session
  pending,    \* changes it reports that were not sent yet: watchPending
  batches,    \* changes on their way by NOTIFY
  reads,      \* trees being read or on their way
  link,       \* the client's connection is open
  number,     \* which connection it is
  tree,       \* fileTree
  loaded,     \* it comes from this connection
  marks,      \* highlights; a timer runs for each
  stale,      \* ghost: files whose last change the tree was older than and came after
  changes, asked, faults

server == <<watching, pending, batches>>
client == <<link, number, tree, loaded, marks>>
bounds == <<changes, asked, faults>>
vars == <<files, server, reads, client, stale, bounds>>

Kinds == {"none", "created", "updated", "deleted"}

Init ==
  /\ files \in SUBSET Paths
  /\ watching = FALSE /\ pending = <<>> /\ batches = <<>>
  /\ reads = <<>>
  /\ link = FALSE /\ number = 0
  /\ tree = {} /\ loaded = FALSE
  /\ marks = [p \in Paths |-> "none"]
  /\ stale = {}
  /\ changes = 0 /\ asked = 0 /\ faults = 0

-----------------------------------------------------------------------------
\* buildTree is asked for, on behalf of a connection or, with 0, of all that will be open.
Asks(to) ==
  /\ Len(reads) < MaxReads
  /\ reads' = Append(reads, [to |-> to, tries |-> 1, at |-> "asked", seen |-> {}, missed |-> {}])

\* Changes that pass a tree which was read: it shows something else than the last of
\* them, and nothing will tell the client again.
Passes(change) ==
  reads' = [i \in DOMAIN reads |->
              [reads[i] EXCEPT !.missed =
                 IF reads[i].at = "asked" THEN {}
                 ELSE {p \in Paths : IF change[p] = "none" THEN p \in @
                                     ELSE (change[p] # "deleted") # (p \in reads[i].seen)}]]

\* A tool, a command or the user changes a file; nobody sees it before the watcher is up.
Change(p, kind) ==
  /\ changes < MaxChanges
  /\ changes' = changes + 1
  /\ (kind = "created") = (p \notin files)
  /\ files' = IF kind = "deleted" THEN files \ {p} ELSE files \union {p}
  /\ IF watching
     THEN /\ pending' = Append(pending, [path |-> p, kind |-> kind])
          /\ UNCHANGED <<reads, stale>>
     ELSE /\ Passes([q \in Paths |-> IF q = p THEN kind ELSE "none"])
          /\ stale' = stale \union {p}
          /\ UNCHANGED pending
  /\ UNCHANGED <<watching, batches, client, asked, faults>>

\* wireWatcher of a new session.
Watches ==
  /\ ~watching
  /\ watching' = TRUE
  /\ UNCHANGED <<files, pending, batches, reads, client, stale, bounds>>

\* Variant: a deletion wins over whatever follows it.
DeletionWins(old, kind) ==
  IF old = "deleted" THEN old
  ELSE IF kind = "updated" /\ old = "created" THEN old ELSE kind

\* coalesceChanges: what a second change of a file makes of the first.
Merge(old, kind) == IF kind = "updated" /\ old = "created" THEN old ELSE kind

Coalesced(events) ==
  LET After[i \in 0..Len(events)] ==
        IF i = 0 THEN [p \in Paths |-> "none"]
        ELSE [After[i - 1] EXCEPT ![events[i].path] = Merge(@, events[i].kind)]
  IN After[Len(events)]

\* The timer fires: what inotifywait has reported by then is sent as one batch; after a
\* lockfile the whole tree follows.
SendsChanges(n) ==
  /\ LET batch == Coalesced(SubSeq(pending, 1, n))
     IN /\ batches' = Append(batches, batch)
        /\ IF \E p \in Locks : batch[p] # "none" THEN Asks(0) ELSE UNCHANGED reads
  /\ pending' = SubSeq(pending, n + 1, Len(pending))
  /\ UNCHANGED <<files, watching, client, stale, bounds>>

\* sweepIdle: after ten minutes without a client nothing is on its way; the timer is
\* cleared with what it would have sent.
Evict ==
  /\ watching /\ ~link
  /\ batches = <<>> /\ reads = <<>> /\ \A p \in Paths : marks[p] = "none"
  /\ watching' = FALSE /\ pending' = <<>>
  /\ UNCHANGED <<files, batches, reads, client, stale, bounds>>

-----------------------------------------------------------------------------
\* resendTree: a turn is over, a file was uploaded or taken back; pushTree: the
\* sandbox has become ready.
Resend ==
  /\ asked < MaxAsked
  /\ asked' = asked + 1
  /\ \E to \in {0} \union (IF link THEN {number} ELSE {}) : Asks(to)
  /\ UNCHANGED <<files, server, client, stale, changes, faults>>

\* buildTree: one find over the workspace.
Reads(i) ==
  /\ reads[i].at = "asked"
  /\ reads' = [reads EXCEPT ![i].at = "read", ![i].seen = files]
  /\ UNCHANGED <<files, server, client, stale, bounds>>

\* It fails: pushTree tries three times while the connection is open.
ReadFails(i) ==
  /\ reads[i].at = "asked" /\ faults < MaxFaults
  /\ faults' = faults + 1
  /\ reads' = IF reads[i].to # 0 /\ reads[i].tries < 3 /\ link /\ reads[i].to = number
              THEN [reads EXCEPT ![i].tries = @ + 1] ELSE RemoveAt(reads, i)
  /\ UNCHANGED <<files, server, client, stale, changes, asked>>

\* sendToSubscriber, sendToProjectSubscribers, and the reducer's file-tree.
TreeArrives(i) ==
  /\ reads[i].at = "read"
  /\ reads' = RemoveAt(reads, i)
  /\ IF link /\ reads[i].to \in {0, number}
     THEN tree' = reads[i].seen /\ loaded' = TRUE /\ stale' = reads[i].missed
     ELSE UNCHANGED <<tree, loaded, stale>>
  /\ UNCHANGED <<files, server, link, number, marks, bounds>>

-----------------------------------------------------------------------------
\* Variant: the connection is opened again at once.
ConnectsAtOnce ==
  /\ ~link /\ number <= MaxDrops
  /\ link' = TRUE /\ number' = number + 1
  /\ Asks(number') \/ UNCHANGED reads
  /\ UNCHANGED <<files, server, tree, loaded, marks, stale, bounds>>

\* sendInitialEvents: subscribed first, the tree read after it if the sandbox is ready,
\* and by Resend otherwise.  A connection that broke is opened a second later, when the
\* mark of a deleted file has gone.
Connects ==
  /\ ~link /\ number <= MaxDrops
  /\ \A p \in Paths : marks[p] # "deleted"
  /\ link' = TRUE /\ number' = number + 1
  /\ Asks(number') \/ UNCHANGED reads
  /\ UNCHANGED <<files, server, tree, loaded, marks, stale, bounds>>

Drop ==
  /\ link /\ number <= MaxDrops
  /\ link' = FALSE /\ loaded' = FALSE
  /\ UNCHANGED <<files, server, reads, number, tree, marks, stale, bounds>>

Mark(kind) ==
  CASE kind = "created" -> "added" [] kind = "updated" -> "edited" [] OTHER -> "deleted"

\* Variant: a mark that is there stays.
FirstMark(batch) ==
  [p \in Paths |-> IF batch[p] = "none" \/ marks[p] # "none" THEN marks[p] ELSE Mark(batch[p])]

\* The reducer's file-changed: the last mark of a file counts, and its timer starts anew.
LastMark(batch) ==
  [p \in Paths |-> IF batch[p] = "none" THEN marks[p] ELSE Mark(batch[p])]

\* A batch reaches the server's subscribers; a file that is deleted keeps its place until
\* its mark goes.
BatchArrives ==
  /\ batches # <<>>
  /\ batches' = Tail(batches)
  /\ LET batch == Head(batches)
     IN /\ Passes(batch)
        /\ IF link
           THEN /\ tree' = tree \union {p \in Paths : batch[p] \in {"created", "updated"}}
                /\ marks' = LastMark(batch)
                /\ stale' = {p \in stale : batch[p] = "none"}
           ELSE UNCHANGED <<tree, marks, stale>>
  /\ UNCHANGED <<files, watching, pending, link, number, loaded, bounds>>

\* highlight-end.
MarkEnds(p) ==
  /\ marks[p] # "none"
  /\ marks' = [marks EXCEPT ![p] = "none"]
  /\ tree' = IF marks[p] = "deleted" THEN tree \ {p} ELSE tree
  /\ UNCHANGED <<files, server, reads, link, number, loaded, stale, bounds>>

Next ==
  \/ \E p \in Paths, kind \in Kinds \ {"none"} : Change(p, kind)
  \/ Watches \/ Evict
  \/ \E n \in DOMAIN pending : SendsChanges(n)
  \/ Resend \/ Connects \/ Drop \/ BatchArrives
  \/ \E i \in DOMAIN reads : Reads(i) \/ ReadFails(i) \/ TreeArrives(i)
  \/ \E p \in Paths : MarkEnds(p)

Spec == Init /\ [][Next]_vars

-----------------------------------------------------------------------------
Tree == [to : Nat, tries : 1..3, at : {"asked", "read"},
         seen : SUBSET Paths, missed : SUBSET Paths]

\* Every variable has its type.
TypeOK ==
  /\ {files, tree, stale} \subseteq SUBSET Paths
  /\ {watching, link, loaded} \subseteq BOOLEAN
  /\ pending \in Seq([path : Paths, kind : Kinds])
  /\ batches \in Seq([Paths -> Kinds])
  /\ reads \in Seq(Tree) /\ Len(reads) <= MaxReads
  /\ marks \in [Paths -> {"none", "added", "edited", "deleted"}]
  /\ number \in 0..(MaxDrops + 1)
  /\ changes \in 0..MaxChanges /\ asked \in 0..MaxAsked /\ faults \in 0..MaxFaults

\* When every change has been heard of and no mark of a deletion is left, the client's
\* tree is the workspace (coalesceChanges, resendTree, agentReducer): a file that was
\* deleted and written again is there, one that was deleted is gone, although trees
\* and changes come by two ways.  Nothing repairs one case before the next tree: a
\* change that the client heard of, or nobody did, while an older tree was on its way.
TreeFollows ==
  link /\ loaded /\ pending = <<>> /\ batches = <<>> =>
    \A p \in Paths \ stale : marks[p] = "deleted" \/ ((p \in tree) = (p \in files))
=============================================================================
