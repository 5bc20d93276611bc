----------------------------- MODULE ChatStream -----------------------------
(***************************************************************************)
(* The messages of one chat thread and the requests that generate answers   *)
(* into it: the routes send, edit and stop of chat.ts, the tool loop of     *)
(* MessageService.processMessageStream with its chain of saves, the         *)
(* GenerationAbortRegistry, and the switching of branches.  Several tabs    *)
(* may send at once: the lock of a generation is only looked at by clients. *)
(* A request is modelled from one await to the next.                        *)
(***************************************************************************)
EXTENDS Naturals, Sequences

CONSTANTS
  NumGens,        \* requests, numbered as they are sent
  CallCounts,     \* how many tool calls a reply may have
  MaxIterations,  \* MAX_TOOL_ITERATIONS
  OldRounds,      \* questions and answers that are in the thread already
  MaxEvents       \* stops, changes of branch and failures, taken together

ASSUME NumGensAssumption == NumGens \in Nat \ {0}
ASSUME BoundsAssumption ==
  /\ CallCounts \subseteq Nat \ {0} /\ MaxIterations \in Nat
  /\ OldRounds \in Nat /\ MaxEvents \in Nat

VARIABLES
  up,          \* messages: parent_message_id of the rows there are
  child,       \* messages: selected_child_id of the rows there are
  leaf,        \* threads: current_leaf_message_id
  locked,      \* threads: generating_since is set
  at,          \* per request: the await it is suspended at
  parent,      \* per request: the message it answers below
  last,        \* per request: lastSavedMessageId
  added,       \* per request: the messages of its ChatClient
  saved,       \* per request: how many of them the chain of saves is done with
  writing,     \* per request: inserted, the update of the thread is under way
  failed,      \* per request: a save has failed
  left,        \* per request: calls of the batch without a result
  rounds,      \* per request: iterations of the tool loop
  aborted,     \* per request: its AbortController
  outcome,     \* per request: how it ended
  controller,  \* the registry's entry for the thread
  newest,      \* the request that registered last
  notes,       \* stop requests under way as NOTIFY
  events,      \* stops, changes of branch and failures so far
  switching    \* a change of branch under way: its next query, and for which message

threadRow == <<leaf, locked>>
tree == <<up, child>>
saves == <<last, saved, writing, failed>>
loop == <<at, added, left, rounds>>
registry == <<controller, newest>>
pending == <<notes, switching>>
others == <<pending, events>>
vars == <<tree, threadRow, saves, loop, parent, aborted, outcome,
          registry, others>>

Gen == 1..NumGens
NoGen == 0
NoMessage == <<0, 0>>
LastOld == <<0, 2 * OldRounds>>
Idle == <<"off", NoMessage>>
Old == {0} \X (1 .. 2 * OldRounds)
Id == Old \union (Gen \X Nat)
Questions == (Gen \X {1}) \union {m \in Old : m[2] % 2 = 1}

Rows == DOMAIN up
\* WITH RECURSIVE ancestors, descendants: the rows above a row, and those below
\* it along the selected children.
Ancestors(m) ==
  LET above[i \in Rows \union {NoMessage}] ==
        IF i = NoMessage THEN {} ELSE {i} \union above[up[i]]
  IN above[m]
Descendants(m) ==
  LET below[i \in Rows \union {NoMessage}] ==
        IF i = NoMessage THEN {} ELSE {i} \union below[child[i]]
  IN below[m]
FindPath(m) == Ancestors(m) \union Descendants(m)
PathEnd(m) == CHOOSE i \in Descendants(m) : child[i] = NoMessage

Init ==
  /\ up = [m \in Old |-> IF m[2] = 1 THEN NoMessage ELSE <<0, m[2] - 1>>]
  /\ child = [m \in Old |-> IF m[2] = 2 * OldRounds THEN NoMessage ELSE <<0, m[2] + 1>>]
  /\ leaf = LastOld
  /\ locked = FALSE
  /\ at = [g \in Gen |-> "new"]
  /\ parent = [g \in Gen |-> NoMessage]
  /\ last = [g \in Gen |-> NoMessage]
  /\ added = [g \in Gen |-> <<>>]
  /\ saved = [g \in Gen |-> 0]
  /\ writing = [g \in Gen |-> FALSE]
  /\ failed = [g \in Gen |-> FALSE]
  /\ left = [g \in Gen |-> 0]
  /\ rounds = [g \in Gen |-> 0]
  /\ aborted = [g \in Gen |-> FALSE]
  /\ outcome = [g \in Gen |-> "none"]
  /\ controller = NoGen
  /\ newest = NoGen
  /\ notes = 0 /\ switching = Idle /\ events = 0

-----------------------------------------------------------------------------
Event == events < MaxEvents /\ events' = events + 1
\* A query or a request to a model fails.
Fails == Event
Works == UNCHANGED events

\* A request arrives and registers its controller, before any check.
Register(g, m) ==
  /\ at[g] = "new"
  /\ \A h \in Gen : h < g => at[h] # "new"
  /\ at' = [at EXCEPT ![g] = "acquire"]
  /\ parent' = [parent EXCEPT ![g] = m]
  /\ last' = [last EXCEPT ![g] = m]
  /\ controller' = g /\ newest' = g
  /\ UNCHANGED <<tree, threadRow, saved, writing, failed, added, left, rounds,
                 aborted, outcome, others>>

\* A message is sent below the last one its tab shows; the tab may be old.
Send(g) == \E m \in {leaf, LastOld} : Register(g, m)

\* A question is edited, or asked again, below its parent.
Edit(g) == \E m \in Rows \intersect Questions : Register(g, up[m])

\* Variant: whatever controller is registered is removed.
UnregisterAny(g) == controller' = NoGen
Unregister(g) == controller' = IF controller = g THEN NoGen ELSE controller

\* The handler leaves its try block; the lock is released behind it.
End(g, how) ==
  /\ at' = [at EXCEPT ![g] = "release"]
  /\ outcome' = [outcome EXCEPT ![g] = how]
  /\ Unregister(g)
  /\ UNCHANGED newest

\* acquireGeneratingLock overwrites the lock of another request.
Acquire(g) ==
  /\ at[g] = "acquire"
  /\ \/ /\ locked' = TRUE
        /\ at' = [at EXCEPT ![g] = "setup"]
        /\ Works /\ UNCHANGED <<outcome, registry>>
     \/ Fails /\ End(g, "error") /\ UNCHANGED locked
  /\ UNCHANGED <<tree, leaf, saves, added, left, rounds, parent, aborted, pending>>

\* releaseGeneratingLock clears the lock whoever set it.
Release(g) ==
  /\ at[g] = "release"
  /\ at' = [at EXCEPT ![g] = "done"]
  /\ \/ Works /\ locked' = FALSE
     \/ Fails /\ UNCHANGED locked
  /\ UNCHANGED <<tree, leaf, saves, added, left, rounds, parent, aborted, outcome,
                 registry, pending>>

\* Models, MCP servers and context are made ready; then the question is added
\* and the model asked.
Setup(g) ==
  /\ at[g] = "setup"
  /\ \/ /\ added' = [added EXCEPT ![g] = << <<"user", 0>> >>]
        /\ at' = [at EXCEPT ![g] = "model"]
        /\ Works /\ UNCHANGED <<outcome, registry>>
     \/ Fails /\ End(g, "error") /\ UNCHANGED added
  /\ UNCHANGED <<tree, threadRow, saves, left, rounds, parent, aborted, pending>>

-----------------------------------------------------------------------------
\* Variant: the cap of the loop is compared with <=.
LoopGoesOnOnceMore(g) == rounds[g] <= MaxIterations
LoopGoesOn(g) == rounds[g] < MaxIterations

\* The model answers with text, or with calls: the loop takes them up, or ends
\* at its cap and leaves them as they are.
Reply(g) ==
  /\ at[g] = "model" /\ ~aborted[g]
  /\ \/ /\ added' = [added EXCEPT ![g] = Append(@, <<"text", 0>>)]
        /\ at' = [at EXCEPT ![g] = "saves"]
        /\ outcome' = [outcome EXCEPT ![g] = "ok"]
        /\ UNCHANGED <<left, rounds>>
     \/ \E n \in CallCounts :
          /\ added' = [added EXCEPT ![g] = Append(@, <<"calls", n>>)]
          /\ \/ /\ LoopGoesOn(g)
                /\ at' = [at EXCEPT ![g] = "decide"]
                /\ left' = [left EXCEPT ![g] = n]
                /\ rounds' = [rounds EXCEPT ![g] = @ + 1]
                /\ UNCHANGED outcome
             \/ /\ ~LoopGoesOn(g)
                /\ at' = [at EXCEPT ![g] = "saves"]
                /\ outcome' = [outcome EXCEPT ![g] = "ok"]
                /\ UNCHANGED <<left, rounds>>
  /\ UNCHANGED <<tree, threadRow, saves, parent, aborted, registry, others>>

\* Variant: an aborted request ends at once.
AbortEndsAtOnce(g) ==
  /\ at[g] = "model" /\ aborted[g]
  /\ End(g, "aborted")
  /\ UNCHANGED <<tree, threadRow, saves, added, left, rounds, parent, aborted, others>>

\* The request to the model rejects with AbortError: what was added is saved first.
AbortEnds(g) ==
  /\ at[g] = "model" /\ aborted[g]
  /\ at' = [at EXCEPT ![g] = "saves"]
  /\ outcome' = [outcome EXCEPT ![g] = "aborted"]
  /\ UNCHANGED <<tree, threadRow, saves, added, left, rounds, parent, aborted, registry, others>>

\* Any other error leaves the loop at once.
ModelFails(g) ==
  /\ at[g] = "model" /\ ~aborted[g]
  /\ Fails /\ End(g, "error")
  /\ UNCHANGED <<tree, threadRow, saves, added, left, rounds, parent, aborted, pending>>

Results(n) == [i \in 1..n |-> <<"result", 0>>]

\* addToolCallResult, and on to the next call or back to the model.
NextCall(g) ==
  /\ added' = [added EXCEPT ![g] = @ \o Results(1)]
  /\ left' = [left EXCEPT ![g] = @ - 1]
  /\ at' = [at EXCEPT ![g] = IF left[g] = 1 THEN "model" ELSE "decide"]
  /\ UNCHANGED <<rounds, outcome>>

\* Variant: the calls behind a rejected one are forgotten.
RejectOne(g) ==
  /\ added' = [added EXCEPT ![g] = @ \o Results(1)]
  /\ left' = [left EXCEPT ![g] = 0]
  /\ at' = [at EXCEPT ![g] = "saves"]
  /\ outcome' = [outcome EXCEPT ![g] = "ok"]
  /\ UNCHANGED rounds

\* A rejection answers for the rest of the batch and ends the loop.
Reject(g) ==
  /\ added' = [added EXCEPT ![g] = @ \o Results(left[g])]
  /\ left' = [left EXCEPT ![g] = 0]
  /\ at' = [at EXCEPT ![g] = "saves"]
  /\ outcome' = [outcome EXCEPT ![g] = "ok"]
  /\ UNCHANGED rounds

loopOnly == <<tree, threadRow, saves, parent, aborted, registry, others>>

\* A rule or the user lets the call run; the user rejects it; or there is no
\* decision: arguments that cannot be read, a query that fails, an approval that
\* timed out or was cancelled as the client left.  An error is a result, too.
Decide(g) ==
  /\ at[g] = "decide"
  /\ \/ at' = [at EXCEPT ![g] = "tool"] /\ UNCHANGED <<added, left, rounds, outcome>>
     \/ Reject(g)
     \/ NextCall(g)
  /\ UNCHANGED loopOnly

\* The tool returns or throws.
ToolReturns(g) ==
  /\ at[g] = "tool"
  /\ NextCall(g)
  /\ UNCHANGED loopOnly

-----------------------------------------------------------------------------
\* Variant: the row is inserted without being selected.
InsertUnselected(i, above) ==
  /\ up' = [m \in Rows \union {i} |-> IF m = i THEN above ELSE up[m]]
  /\ child' = [m \in Rows \union {i} |-> IF m = i THEN NoMessage ELSE child[m]]
  /\ leaf' = i

\* addMessage, one transaction: the row, the choice of its parent and the leaf.
Insert(i, above) ==
  /\ up' = [m \in Rows \union {i} |-> IF m = i THEN above ELSE up[m]]
  /\ child' = [m \in Rows \union {i} |-> IF m = i THEN NoMessage
                                         ELSE IF m = above THEN i ELSE child[m]]
  /\ leaf' = i

savesOnly == <<locked, loop, parent, aborted, outcome, registry, pending>>

\* Variant: no chain, a save starts with the lastSavedMessageId of its moment.
SaveUnchained(g) ==
  /\ ~writing[g]
  /\ \E k \in DOMAIN added[g] : <<g, k>> \notin Rows
       /\ Insert(<<g, k>>, last[g])
       /\ last' = [last EXCEPT ![g] = <<g, k>>]
  /\ writing' = [writing EXCEPT ![g] = TRUE]
  /\ UNCHANGED <<saved, failed, events, savesOnly>>

\* The head of the chain is inserted below the message saved last, or the save
\* fails and the chain goes on with the next.
Save(g) ==
  /\ ~writing[g] /\ saved[g] < Len(added[g])
  /\ \/ LET i == <<g, saved[g] + 1>> IN
        /\ Insert(i, last[g])
        /\ last' = [last EXCEPT ![g] = i]
        /\ writing' = [writing EXCEPT ![g] = TRUE]
        /\ Works /\ UNCHANGED <<saved, failed>>
     \/ /\ Fails
        /\ saved' = [saved EXCEPT ![g] = @ + 1]
        /\ failed' = [failed EXCEPT ![g] = TRUE]
        /\ UNCHANGED <<tree, leaf, last, writing>>
  /\ UNCHANGED savesOnly

\* The thread is updated once more, outside the transaction.
UpdateLeaf(g) ==
  /\ writing[g]
  /\ writing' = [writing EXCEPT ![g] = FALSE]
  /\ saved' = [saved EXCEPT ![g] = @ + 1]
  /\ \/ Works /\ leaf' = last[g] /\ UNCHANGED failed
     \/ Fails /\ failed' = [failed EXCEPT ![g] = TRUE] /\ UNCHANGED leaf
  /\ UNCHANGED <<tree, last, savesOnly>>

\* Promise.all over the saves: resolved by the last, rejected by the first that fails.
SavesSettle(g) ==
  /\ at[g] = "saves"
  /\ \/ saved[g] = Len(added[g]) /\ ~failed[g] /\ End(g, outcome[g])
     \/ failed[g] /\ End(g, "error")
  /\ UNCHANGED <<tree, threadRow, saves, added, left, rounds, parent, aborted, others>>

-----------------------------------------------------------------------------
\* requestAbort: a NOTIFY to every server.
Stop ==
  /\ Event
  /\ notes' = notes + 1
  /\ UNCHANGED <<tree, threadRow, saves, loop, parent, aborted, outcome,
                 registry, switching>>

DeliverStop ==
  /\ notes > 0
  /\ notes' = notes - 1
  /\ aborted' = [g \in Gen |-> aborted[g] \/ g = controller]
  /\ UNCHANGED <<tree, threadRow, saves, loop, parent, outcome, registry,
                 switching, events>>

\* switchBranch: the sibling is selected, its path is read, and the end of that
\* path becomes the leaf.
SwitchBranch(m) ==
  /\ switching = Idle
  /\ Event
  /\ switching' = <<"path", m>>
  /\ child' = [i \in Rows |-> IF i = up[m] THEN m ELSE child[i]]
  /\ UNCHANGED <<up, threadRow, saves, loop, parent, aborted, outcome,
                 registry, notes>>
SwitchPath ==
  /\ switching[1] = "path"
  /\ switching' = <<"leaf", PathEnd(switching[2])>>
  /\ UNCHANGED <<tree, threadRow, saves, loop, parent, aborted, outcome,
                 registry, notes, events>>
SwitchLeaf ==
  /\ switching[1] = "leaf"
  /\ leaf' = switching[2]
  /\ switching' = Idle
  /\ UNCHANGED <<tree, locked, saves, loop, parent, aborted, outcome,
                 registry, notes, events>>

Step(g) ==
  \/ Acquire(g) \/ Setup(g) \/ Reply(g) \/ AbortEnds(g) \/ ModelFails(g)
  \/ Decide(g) \/ ToolReturns(g)
  \/ Save(g) \/ UpdateLeaf(g) \/ SavesSettle(g) \/ Release(g)
Next ==
  \/ \E g \in Gen : Step(g) \/ Send(g) \/ Edit(g)
  \/ Stop \/ DeliverStop
  \/ \E m \in Rows : SwitchBranch(m)
  \/ SwitchPath \/ SwitchLeaf

Spec == Init /\ [][Next]_vars
-----------------------------------------------------------------------------
Stages == {"new", "acquire", "setup", "model", "decide", "tool", "saves",
           "release", "done"}
Message == ({"user", "text", "result"} \X {0}) \union ({"calls"} \X CallCounts)

TypeOK ==
  /\ Rows \subseteq Id /\ Old \subseteq Rows
  /\ up \in [Rows -> Rows \union {NoMessage}]
  /\ child \in [Rows -> Rows \union {NoMessage}]
  /\ leaf \in Rows \union {NoMessage} /\ locked \in BOOLEAN
  /\ at \in [Gen -> Stages]
  /\ parent \in [Gen -> Rows \union {NoMessage}]
  /\ last \in [Gen -> Rows \union {NoMessage}]
  /\ added \in [Gen -> Seq(Message)]
  /\ saved \in [Gen -> Nat]
  /\ writing \in [Gen -> BOOLEAN] /\ failed \in [Gen -> BOOLEAN]
  /\ left \in [Gen -> Nat] /\ rounds \in [Gen -> 0..MaxIterations]
  /\ aborted \in [Gen -> BOOLEAN]
  /\ outcome \in [Gen -> {"none", "ok", "aborted", "error"}]
  /\ controller \in Gen \union {NoGen} /\ newest \in Gen \union {NoGen}
  /\ notes \in 0..MaxEvents /\ events \in 0..MaxEvents
  /\ switching \in {"off", "path", "leaf"} \X (Rows \union {NoMessage})

\* "leaving the tool message's parent_message_id pointing at the wrong row"
\* (MessageService.ts:378): the rows of a request hang below one another in the
\* order of its messages, the first below its parent, also if saves fail between.
SavedInOrder ==
  \A i \in Rows \ Old :
    LET before == {j \in Rows : j[1] = i[1] /\ j[2] < i[2]} IN
    IF before = {} THEN up[i] = parent[i[1]]
    ELSE up[i] \in before /\ \A j \in before : j[2] <= up[i][2]

\* A row that has answers has one of them selected, whoever adds and switches:
\* a path never ends before a leaf.
SelectionIsComplete ==
  \A i \in Rows :
    IF \E j \in Rows : up[j] = i
    THEN child[i] \in Rows /\ up[child[i]] = i
    ELSE child[i] = NoMessage

\* Every call of a reply gets exactly one result before anything else is added,
\* or the next request is refused; only a reply at the cap keeps its calls.
CallsAnswered ==
  \A g \in Gen : \A k \in DOMAIN added[g] :
    LET msgs == added[g]
        calls == IF msgs[k][1] = "calls" THEN msgs[k][2] ELSE 0
        complete == Len(msgs) >= k + calls
    IN /\ \A j \in k + 1 .. k + calls : j <= Len(msgs) => msgs[j][1] = "result"
       /\ complete /\ k + calls < Len(msgs) /\ msgs[k][1] # "result"
            => msgs[k + calls + 1][1] # "result"
       /\ ~complete => \/ at[g] \in {"decide", "tool"}
                       \/ k = Len(msgs) /\ rounds[g] = MaxIterations

\* "avoids clearing a newer generation's controller after a fast retry on the
\* same thread" (GenerationAbortRegistry.ts:54): stop reaches the request that
\* came last, while it is under way.
NewestIsStoppable ==
  newest # NoGen /\ at[newest] \notin {"release", "done"} => controller = newest

\* A request that ends well, or stopped, has saved all of its messages, so that
\* nothing is missing when the client is told that it is done.
SavedWhenDone ==
  \A g \in Gen :
    at[g] \in {"release", "done"} /\ outcome[g] \in {"ok", "aborted"} =>
      \A k \in DOMAIN added[g] : <<g, k>> \in Rows

\* "Edit and resend a message (creates a new branch from the parent of the
\* edited message)" (chat.ts:530): what the model is shown before a question, the
\* path of its parent, is what will stand above it.
ContextIsWhatStandsAbove ==
  [][\A g \in Gen : at[g] = "setup" /\ at'[g] = "model" /\ parent[g] # NoMessage =>
       FindPath(parent[g]) = Ancestors(parent[g])]_vars
=============================================================================
