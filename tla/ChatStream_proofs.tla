------------------------- MODULE ChatStream_proofs -------------------------
(***************************************************************************)
(* For any number of requests, replies of any size and any failures: stop   *)
(* reaches the request that came last; the messages of a request are saved  *)
(* below one another in their order, and all of them when it ends well;     *)
(* every call has one result; and what is selected is a path to a leaf.     *)
(***************************************************************************)
EXTENDS ChatStream, WellFoundedInduction, TLAPS

\* The steps between the arrival of a request and the end of its handler.
Ended == {"release", "done"}

\* Stop, as an inductive invariant.
Reachable ==
  /\ at = [g \in Gen |-> at[g]]
  /\ newest \in Gen \union {NoGen}
  /\ newest # NoGen => at[newest] # "new"
  /\ NewestIsStoppable

\* The handler of one request moves on, or ends and removes its own controller;
\* no ended handler comes back.
Moves(g) ==
  /\ at[g] \notin {"new", "done"}
  /\ \E next \in Stages \ {"new"} : at' = [at EXCEPT ![g] = next]
  /\ newest' = newest
  /\ \/ Unregister(g) /\ at'[g] \in Ended
     \/ controller' = controller /\ at[g] \notin Ended
     \/ controller' = controller /\ at'[g] \in Ended

Still == UNCHANGED <<at, controller, newest>>

LEMMA StepMoves ==
  ASSUME Reachable, NEW g \in Gen, Step(g)
  PROVE  Still \/ Moves(g)
<1> USE DEF Reachable, Moves, Still, Stages, Ended, registry, loop, End
<1>1. CASE Acquire(g)
  BY <1>1 DEF Acquire
<1>2. CASE Setup(g)
  BY <1>2 DEF Setup
<1>3. CASE Reply(g)
  BY <1>3 DEF Reply
<1>4. CASE AbortEnds(g) \/ ModelFails(g)
  BY <1>4 DEF AbortEnds, ModelFails
<1>5. CASE Decide(g)
  BY <1>5 DEF Decide, loopOnly, Reject, NextCall
<1>6. CASE ToolReturns(g)
  BY <1>6 DEF ToolReturns, loopOnly, NextCall
<1>7. CASE Save(g) \/ UpdateLeaf(g)
  BY <1>7 DEF Save, UpdateLeaf, savesOnly
<1>8. CASE SavesSettle(g) \/ Release(g)
  BY <1>8 DEF SavesSettle, Release
<1> QED
  BY <1>1, <1>2, <1>3, <1>4, <1>5, <1>6, <1>7, <1>8 DEF Step

LEMMA ReachableStep ==
  ASSUME Reachable, [Next]_vars
  PROVE  Reachable'
<1>1. ASSUME Still PROVE Reachable'
  BY <1>1 DEF Still, Reachable, NewestIsStoppable
<1>2. ASSUME NEW g \in Gen, Moves(g) PROVE Reachable'
  BY <1>2 DEF Moves, Reachable, NewestIsStoppable, Unregister, Stages, Ended
<1>3. ASSUME NEW g \in Gen, NEW m, Register(g, m) PROVE Reachable'
  <2>1. at' = [at EXCEPT ![g] = "acquire"] /\ controller' = g /\ newest' = g
    BY <1>3 DEF Register
  <2> QED BY <2>1 DEF Reachable, NewestIsStoppable
<1>4. ASSUME NEW g \in Gen, Step(g) PROVE Reachable'
  BY <1>1, <1>2, <1>4, StepMoves
<1>5. ASSUME NEW g \in Gen, Send(g) \/ Edit(g) PROVE Reachable'
  BY <1>3, <1>5 DEF Send, Edit
<1>6. ASSUME Stop \/ DeliverStop \/ SwitchPath \/ SwitchLeaf PROVE Reachable'
  BY <1>1, <1>6 DEF Stop, DeliverStop, SwitchPath, SwitchLeaf, Still, loop, registry
<1>7. ASSUME NEW m \in Rows, SwitchBranch(m) PROVE Reachable'
  BY <1>1, <1>7 DEF SwitchBranch, Still, loop, registry
<1>8. ASSUME UNCHANGED vars PROVE Reachable'
  BY <1>1, <1>8 DEF vars, Still, loop, registry
<1> QED
  BY <1>4, <1>5, <1>6, <1>7, <1>8 DEF Next

\* The request that registered last is in the registry until its handler ends,
\* whatever older requests do: GenerationAbortRegistry.unregister.
THEOREM StopReachesNewest == Spec => []NewestIsStoppable
<1>1. Init => Reachable
  BY DEF Init, Reachable, NewestIsStoppable
<1>2. Reachable /\ [Next]_vars => Reachable'
  BY ReachableStep
<1>3. Reachable => NewestIsStoppable
  BY DEF Reachable
<1> QED
  BY <1>1, <1>2, <1>3, PTL DEF Spec
-----------------------------------------------------------------------------
\* The rows a request has saved.
Mine(g) == {i \in Rows : i[1] = g}
Latest(i, g) == i \in Mine(g) /\ \A j \in Mine(g) : j[2] <= i[2]

\* The chain of saves, as an inductive invariant: a request that has not come
\* has nothing to save; no row is ahead of the chain; the message saved last is
\* the last of the rows.
Fresh == \A g \in Gen : at[g] = "new" => added[g] = <<>> /\ Mine(g) = {}
Chain == \A g \in Gen : \A i \in Mine(g) :
           i[2] <= saved[g] + (IF writing[g] THEN 1 ELSE 0)
LastIsLatest(g) == IF Mine(g) = {} THEN last[g] = parent[g] ELSE Latest(last[g], g)
Tops == \A g \in Gen : LastIsLatest(g)
Shapes ==
  /\ at = [g \in Gen |-> at[g]] /\ added = [g \in Gen |-> added[g]]
  /\ last = [g \in Gen |-> last[g]] /\ parent = [g \in Gen |-> parent[g]]
  /\ saved \in [Gen -> Nat] /\ writing \in [Gen -> BOOLEAN]
InOrder == Shapes /\ Rows \subseteq Id /\ Fresh /\ Chain /\ Tops /\ SavedInOrder

\* A step that saves nothing, of a request that has come.
Quiet ==
  /\ UNCHANGED <<up, last, parent, saved, writing>>
  /\ at' = [g \in Gen |-> at'[g]] /\ added' = [g \in Gen |-> added'[g]]
  /\ \A g \in Gen : at'[g] = "new" => at[g] = "new" /\ added'[g] = added[g]

LEMMA RowShape ==
  /\ Old \subseteq Id
  /\ \A i \in Id : i[2] \in Nat
  /\ \A i \in Id : i \in Old <=> i[1] \notin Gen
  /\ \A i \in Id \ Old : i[1] \in Gen /\ i = <<i[1], i[2]>>
<1>1. \A i \in Old : i[1] = 0 /\ i[2] \in Nat
  BY BoundsAssumption DEF Old
<1>2. \A i \in Gen \X Nat : i[1] \in Gen /\ i[2] \in Nat /\ i = <<i[1], i[2]>>
  OBVIOUS
<1>3. 0 \notin Gen
  BY NumGensAssumption DEF Gen
<1> QED
  BY <1>1, <1>2, <1>3 DEF Id

LEMMA QuietKeepsOrder ==
  ASSUME InOrder, Quiet
  PROVE  InOrder'
<1>1. Shapes' /\ (Rows \subseteq Id)'
  BY DEF InOrder, Quiet, Shapes, Rows, Id, Old
<1>2. Fresh'
  BY DEF InOrder, Quiet, Fresh, Mine, Rows
<1>3. Chain' /\ Tops' /\ SavedInOrder'
  BY DEF InOrder, Quiet, Chain, Tops, LastIsLatest, SavedInOrder, Mine, Latest, Rows
<1> QED
  BY <1>1, <1>2, <1>3 DEF InOrder

LEMMA RegisterKeepsOrder ==
  ASSUME InOrder, NEW g \in Gen, NEW m, Register(g, m)
  PROVE  InOrder'
<1> USE DEF Register, saves, tree, loop
<1>1. UNCHANGED <<up, added, saved, writing>>
  OBVIOUS
<1>2. Mine(g) = {} /\ at[g] = "new"
  BY DEF InOrder, Fresh
<1>3. Shapes' /\ (Rows \subseteq Id)'
  BY DEF InOrder, Shapes, Rows
<1>4. Fresh' /\ Chain'
  BY <1>1 DEF InOrder, Shapes, Fresh, Chain, Mine, Rows
<1>5. Tops'
  <2>1. last'[g] = m /\ parent'[g] = m /\ Mine(g)' = {}
    BY <1>1, <1>2 DEF InOrder, Shapes, Mine, Rows
  <2>2. ASSUME NEW h \in Gen, h # g
        PROVE  last'[h] = last[h] /\ parent'[h] = parent[h] /\ Mine(h)' = Mine(h)
    BY <1>1, <2>2 DEF InOrder, Shapes, Mine, Rows
  <2>3. \A h \in Gen : \A i : h # g => (Latest(i, h)' <=> Latest(i, h))
    BY <2>2 DEF Latest
  <2> QED BY <2>1, <2>2, <2>3 DEF InOrder, Tops, LastIsLatest, Latest
<1>6. SavedInOrder'
  <2>1. \A i \in Rows \ Old : i[1] \in Gen /\ i[1] # g
    BY <1>2, RowShape DEF InOrder, Mine
  <2>2. \A h \in Gen : h # g => parent'[h] = parent[h]
    BY DEF InOrder, Shapes
  <2> QED BY <1>1, <2>1, <2>2 DEF InOrder, SavedInOrder, Rows
<1> QED
  BY <1>3, <1>4, <1>5, <1>6 DEF InOrder

LEMMA InsertKeepsOrder ==
  ASSUME InOrder, NEW g \in Gen, ~writing[g], saved[g] < Len(added[g]),
         NEW i, i = <<g, saved[g] + 1>>,
         Insert(i, last[g]),
         last' = [last EXCEPT ![g] = i],
         writing' = [writing EXCEPT ![g] = TRUE],
         UNCHANGED <<saved, at, added, parent>>
  PROVE  InOrder'
<1>1. Rows' = Rows \union {i} /\ up'[i] = last[g] /\ \A j \in Rows : j # i => up'[j] = up[j]
  BY DEF Insert, Rows
<1>2. i \in Gen \X Nat /\ i[1] = g /\ i[2] = saved[g] + 1 /\ i \in Id \ Old
  <2>1. saved[g] + 1 \in Nat
    BY DEF InOrder, Shapes
  <2>2. i \in Gen \X Nat /\ i[1] = g /\ i[2] = saved[g] + 1
    BY <2>1
  <2> QED BY <2>2, RowShape DEF Id
<1>3. \A j \in Mine(g) : j \in Rows /\ j[2] \in Nat /\ j[2] <= saved[g] /\ j[2] < i[2]
  <2>1. \A j \in Mine(g) : j \in Rows /\ j[2] \in Nat
    BY RowShape DEF InOrder, Mine
  <2>2. \A j \in Mine(g) : j[2] <= saved[g] + 0
    BY DEF InOrder, Chain
  <2> QED BY <1>2, <2>1, <2>2 DEF InOrder, Shapes
<1>4. i \notin Rows
  BY <1>2, <1>3 DEF Mine
<1>5. Mine(g)' = Mine(g) \union {i}
  BY <1>1, <1>2 DEF Mine
<1>6. \A h \in Gen : h # g => Mine(h)' = Mine(h)
  BY <1>1, <1>2 DEF Mine
<1>7. at[g] # "new"
  <2>1. Len(added[g]) # 0
    BY DEF InOrder, Shapes
  <2> QED BY <2>1 DEF InOrder, Fresh
<1>8. Shapes' /\ (Rows \subseteq Id)'
  BY <1>1, <1>2 DEF InOrder, Shapes, Id, Old
<1>9. Fresh'
  BY <1>6, <1>7 DEF InOrder, Fresh
<1>10. Chain'
  <2>1. \A j \in Mine(g)' : j[2] <= saved'[g] + (IF writing'[g] THEN 1 ELSE 0)
    BY <1>2, <1>3, <1>5 DEF InOrder, Shapes
  <2>2. ASSUME NEW h \in Gen, h # g, NEW j \in Mine(h)'
        PROVE  j[2] <= saved'[h] + (IF writing'[h] THEN 1 ELSE 0)
    <3>1. j \in Mine(h) /\ writing'[h] = writing[h]
      BY <1>6, <2>2 DEF InOrder, Shapes
    <3> QED BY <3>1 DEF InOrder, Chain
  <2> QED BY <2>1, <2>2 DEF Chain
<1>11. Tops'
  <2>1. last'[g] = i /\ Latest(i, g)'
    <3>1. \A j \in Mine(g)' : j[2] <= i[2]
      BY <1>2, <1>3, <1>5
    <3> QED BY <3>1, <1>5 DEF Latest, InOrder, Shapes
  <2>2. ASSUME NEW h \in Gen, h # g
        PROVE  /\ last'[h] = last[h] /\ parent'[h] = parent[h]
               /\ Latest(last[h], h)' <=> Latest(last[h], h)
    <3>1. last'[h] = last[h] /\ parent'[h] = parent[h]
      BY <2>2 DEF InOrder, Shapes
    <3> QED BY <3>1, <2>2, <1>6 DEF Latest
  <2>3. ASSUME NEW h \in Gen
        PROVE  LastIsLatest(h)'
    <3>1. CASE h = g
      BY <3>1, <2>1, <1>5 DEF LastIsLatest, Latest
    <3>2. CASE h # g
      <4>1. LastIsLatest(h)
        BY DEF InOrder, Tops
      <4> QED BY <3>2, <4>1, <2>2, <1>6 DEF LastIsLatest, Latest
    <3> QED BY <3>1, <3>2
  <2> QED BY <2>3 DEF Tops
<1>12. SavedInOrder'
  <2>1. ASSUME NEW j \in Rows \ Old
        PROVE  LET before == {k \in Rows' : k[1] = j[1] /\ k[2] < j[2]} IN
               IF before = {} THEN up'[j] = parent'[j[1]]
               ELSE up'[j] \in before /\ \A k \in before : k[2] <= up'[j][2]
    <3>1. up'[j] = up[j]
      BY <1>1, <1>4
    <3>2. ~(i[1] = j[1] /\ i[2] < j[2])
      <4>1. i[1] = j[1] => j \in Mine(g)
        BY <1>2 DEF Mine
      <4>2. j \in Mine(g) => j[2] \in Nat /\ j[2] < i[2]
        BY <1>3
      <4>3. i[2] \in Nat
        BY <1>2
      <4> QED BY <4>1, <4>2, <4>3
    <3>3. {k \in Rows' : k[1] = j[1] /\ k[2] < j[2]} = {k \in Rows : k[1] = j[1] /\ k[2] < j[2]}
      BY <3>2, <1>1
    <3> QED BY <3>1, <3>3 DEF InOrder, SavedInOrder
  <2>2. LET before == {k \in Rows' : k[1] = i[1] /\ k[2] < i[2]} IN
        IF before = {} THEN up'[i] = parent'[i[1]]
        ELSE up'[i] \in before /\ \A k \in before : k[2] <= up'[i][2]
    <3>1. {k \in Rows' : k[1] = i[1] /\ k[2] < i[2]} = Mine(g)
      <4>1. ~(i[2] < i[2])
        BY <1>2
      <4> QED BY <4>1, <1>1, <1>2, <1>3 DEF Mine
    <3>2. IF Mine(g) = {} THEN last[g] = parent[g] ELSE Latest(last[g], g)
      BY DEF InOrder, Tops, LastIsLatest
    <3> QED BY <3>1, <3>2, <1>1, <1>2 DEF Latest
  <2> QED BY <2>1, <2>2, <1>1 DEF SavedInOrder, Old
<1> QED
  BY <1>8, <1>9, <1>10, <1>11, <1>12 DEF InOrder

\* The chain is done with one message more.
LEMMA AdvanceKeepsOrder ==
  ASSUME InOrder, NEW g \in Gen,
         saved' = [saved EXCEPT ![g] = @ + 1],
         writing' = [writing EXCEPT ![g] = FALSE],
         UNCHANGED <<up, last, parent, at, added>>
  PROVE  InOrder'
<1>1. Shapes' /\ (Rows \subseteq Id)' /\ Fresh' /\ Tops' /\ SavedInOrder'
  BY DEF InOrder, Shapes, Fresh, Tops, LastIsLatest, Mine, Latest, SavedInOrder, Rows
<1>2. ASSUME NEW h \in Gen, NEW i \in Mine(h)
      PROVE  i[2] <= saved'[h] + (IF writing'[h] THEN 1 ELSE 0)
  <2>1. i[2] \in Nat
    BY RowShape DEF InOrder, Mine
  <2>2. i[2] <= saved[h] + (IF writing[h] THEN 1 ELSE 0)
    BY DEF InOrder, Chain
  <2> QED BY <2>1, <2>2 DEF InOrder, Shapes
<1> QED
  BY <1>1, <1>2 DEF InOrder, Chain, Mine, Rows

LEMMA StepKeepsOrder ==
  ASSUME InOrder, NEW g \in Gen, Step(g)
  PROVE  InOrder'
<1>1. ASSUME Acquire(g) \/ Setup(g) \/ Reply(g) \/ AbortEnds(g) \/ ModelFails(g)
             \/ SavesSettle(g) \/ Release(g)
      PROVE  Quiet
  BY <1>1 DEF Acquire, Setup, Reply, AbortEnds, ModelFails, SavesSettle, Release,
     End, Quiet, InOrder, Shapes, tree, saves, loop
<1>2. ASSUME Decide(g) \/ ToolReturns(g) PROVE Quiet
  BY <1>2 DEF Decide, ToolReturns, Reject, NextCall, loopOnly, Quiet, InOrder,
     Shapes, tree, saves
<1>3. CASE Save(g)
  <2> USE DEF savesOnly, loop
  <2>1. CASE writing'[g] = TRUE
    <3>1. PICK i : /\ i = <<g, saved[g] + 1>> /\ Insert(i, last[g])
                   /\ last' = [last EXCEPT ![g] = i]
                   /\ writing' = [writing EXCEPT ![g] = TRUE]
                   /\ UNCHANGED saved
      BY <1>3, <2>1 DEF Save
    <3> QED BY <1>3, <3>1, InsertKeepsOrder DEF Save
  <2>2. CASE writing'[g] # TRUE
    <3>1. UNCHANGED <<up, last, writing, parent, at, added>> /\ saved' = [saved EXCEPT ![g] = @ + 1]
      BY <1>3, <2>2 DEF Save, InOrder, Shapes, tree
    <3>2. writing' = [writing EXCEPT ![g] = FALSE]
      BY <1>3, <3>1 DEF Save, InOrder, Shapes
    <3> QED BY <3>1, <3>2, AdvanceKeepsOrder
  <2> QED BY <2>1, <2>2
<1>4. CASE UpdateLeaf(g)
  BY <1>4, AdvanceKeepsOrder DEF UpdateLeaf, savesOnly, loop, tree
<1> QED
  BY <1>1, <1>2, <1>3, <1>4, QuietKeepsOrder DEF Step

LEMMA InOrderInit == Init => InOrder
<1> SUFFICES ASSUME Init PROVE InOrder
  OBVIOUS
<1>1. Rows = Old /\ Rows \subseteq Id
  BY RowShape DEF Init, Rows
<1>2. \A g \in Gen : Mine(g) = {}
  BY <1>1, RowShape DEF Mine
<1> QED BY <1>1, <1>2 DEF Init, InOrder, Shapes, Fresh, Chain, Tops, LastIsLatest,
   SavedInOrder

LEMMA InOrderStep == ASSUME InOrder, [Next]_vars PROVE InOrder'
<1>1. ASSUME NEW g \in Gen, Step(g) PROVE InOrder'
  BY <1>1, StepKeepsOrder
<1>2. ASSUME NEW g \in Gen, Send(g) \/ Edit(g) PROVE InOrder'
  BY <1>2, RegisterKeepsOrder DEF Send, Edit
<1>3. ASSUME \/ Stop \/ DeliverStop \/ SwitchPath \/ SwitchLeaf \/ UNCHANGED vars
             \/ \E m \in Rows : SwitchBranch(m)
      PROVE  InOrder'
  <2>1. Quiet
    BY <1>3 DEF Stop, DeliverStop, SwitchPath, SwitchLeaf, SwitchBranch, vars, tree,
       saves, loop, Quiet, InOrder, Shapes
  <2> QED BY <2>1, QuietKeepsOrder
<1> QED BY <1>1, <1>2, <1>3 DEF Next

\* "leaving the tool message's parent_message_id pointing at the wrong row"
\* (MessageService.ts:378) cannot happen.
THEOREM RowsHangInOrder == Spec => []SavedInOrder
<1>1. InOrder => SavedInOrder
  BY DEF InOrder
<1> QED
  BY <1>1, InOrderInit, InOrderStep, PTL DEF Spec
-----------------------------------------------------------------------------
(***************************************************************************)
(* The requests: their types, the pairing of calls and results, and what is *)
(* saved when one ends.                                                     *)
(***************************************************************************)

\* What is kept of a request, but for its place in the tree.
RequestTypes ==
  /\ at \in [Gen -> Stages]
  /\ added \in [Gen -> Seq(Message)]
  /\ saved \in [Gen -> Nat]
  /\ writing \in [Gen -> BOOLEAN] /\ failed \in [Gen -> BOOLEAN]
  /\ left \in [Gen -> Nat] /\ rounds \in [Gen -> 0..MaxIterations]
  /\ aborted \in [Gen -> BOOLEAN]
  /\ outcome \in [Gen -> {"none", "ok", "aborted", "error"}]

\* Before the question is added there is nothing; a call that is decided on, or
\* runs, is one without a result.
Underway ==
  \A g \in Gen :
    /\ at[g] \in {"new", "acquire", "setup"} => added[g] = <<>>
    /\ at[g] \in {"decide", "tool"} => left[g] > 0

Requests == RequestTypes /\ Underway

LEMMA MessageShape ==
  /\ \A n : Results(n) = [i \in 1..n |-> <<"result", 0>>]
  /\ \A n \in Nat : Results(n) \in Seq(Message) /\ Len(Results(n)) = n
  /\ <<"user", 0>> \in Message /\ <<"text", 0>> \in Message
  /\ \A n \in CallCounts : <<"calls", n>> \in Message /\ n \in Nat /\ n > 0
  /\ \A m \in Message : m[1] = "calls" => m[2] \in CallCounts
<1>1. <<"result", 0>> \in Message /\ <<"user", 0>> \in Message /\ <<"text", 0>> \in Message
  BY DEF Message
<1>2. ASSUME NEW n \in Nat PROVE Results(n) \in Seq(Message) /\ Len(Results(n)) = n
  BY <1>1 DEF Results
<1>3. \A n \in CallCounts : <<"calls", n>> \in Message /\ n \in Nat /\ n > 0
  BY BoundsAssumption DEF Message
<1>4. \A m \in Message : m[1] = "calls" => m[2] \in CallCounts
  BY DEF Message
<1> QED BY <1>1, <1>2, <1>3, <1>4 DEF Results

\* What a step does to the messages of its request and to the counters of its
\* loop.  Four steps add messages,
Asks(g) ==
  /\ at[g] = "setup" /\ at' = [at EXCEPT ![g] = "model"]
  /\ added' = [added EXCEPT ![g] = << <<"user", 0>> >>]
  /\ UNCHANGED <<left, rounds, outcome>>
Tells(g) ==
  /\ at[g] = "model" /\ at' = [at EXCEPT ![g] = "saves"]
  /\ added' = [added EXCEPT ![g] = Append(@, <<"text", 0>>)]
  /\ outcome' = [outcome EXCEPT ![g] = "ok"]
  /\ UNCHANGED <<left, rounds>>
Calls(g, n) ==
  /\ at[g] = "model"
  /\ added' = [added EXCEPT ![g] = Append(@, <<"calls", n>>)]
  /\ \/ /\ LoopGoesOn(g)
        /\ at' = [at EXCEPT ![g] = "decide"]
        /\ left' = [left EXCEPT ![g] = n]
        /\ rounds' = [rounds EXCEPT ![g] = @ + 1]
        /\ UNCHANGED outcome
     \/ /\ ~LoopGoesOn(g)
        /\ at' = [at EXCEPT ![g] = "saves"]
        /\ outcome' = [outcome EXCEPT ![g] = "ok"]
        /\ UNCHANGED <<left, rounds>>
Answers(g) == at[g] \in {"decide", "tool"} /\ (NextCall(g) \/ Reject(g))

\* four add none: from an await to the next, stopped, broken off, or ended well.
Passes(g) ==
  /\ \/ at[g] = "new" /\ at' = [at EXCEPT ![g] = "acquire"]
     \/ at[g] = "acquire" /\ at' = [at EXCEPT ![g] = "setup"]
     \/ at[g] = "decide" /\ at' = [at EXCEPT ![g] = "tool"]
     \/ at[g] = "release" /\ at' = [at EXCEPT ![g] = "done"]
  /\ UNCHANGED <<added, left, rounds, outcome>>
StopsEarly(g) ==
  /\ at[g] = "model" /\ at' = [at EXCEPT ![g] = "saves"]
  /\ outcome' = [outcome EXCEPT ![g] = "aborted"]
  /\ UNCHANGED <<added, left, rounds>>
Breaks(g) ==
  /\ at[g] \in {"acquire", "setup", "model", "saves"}
  /\ at' = [at EXCEPT ![g] = "release"]
  /\ outcome' = [outcome EXCEPT ![g] = "error"]
  /\ UNCHANGED <<added, left, rounds>>
Settles(g) ==
  /\ at[g] = "saves" /\ saved[g] = Len(added[g]) /\ ~failed[g]
  /\ at' = [at EXCEPT ![g] = "release"]
  /\ UNCHANGED <<added, left, rounds, outcome>>

Talks(g) ==
  \/ Asks(g) \/ Tells(g) \/ (\E n \in CallCounts : Calls(g, n)) \/ Answers(g)
  \/ Passes(g) \/ StopsEarly(g) \/ Breaks(g) \/ Settles(g)

\* Saving, and what is not of one request.
Stores(g) == Save(g) \/ UpdateLeaf(g)
saving == <<saved, writing, failed, up>>
talking == <<at, added, left, rounds, outcome>>

\* A handler's step talks or stores.
LEMMA StepTalksOrStores ==
  ASSUME RequestTypes, NEW g \in Gen, Step(g)
  PROVE  /\ UNCHANGED aborted
         /\ \/ Talks(g) /\ UNCHANGED saving
            \/ Stores(g) /\ UNCHANGED talking
<1> USE DEF Talks, saving, talking, saves, tree, loop
<1>1. CASE Acquire(g)
  BY <1>1 DEF Acquire, Passes, Breaks, End
<1>2. CASE Setup(g)
  BY <1>2 DEF Setup, Asks, Breaks, End
<1>3. CASE Reply(g)
  BY <1>3 DEF Reply, Tells, Calls
<1>4. CASE AbortEnds(g)
  BY <1>4 DEF AbortEnds, StopsEarly
<1>5. CASE ModelFails(g)
  BY <1>5 DEF ModelFails, Breaks, End
<1>6. CASE Decide(g)
  BY <1>6 DEF Decide, Passes, Answers, loopOnly
<1>7. CASE ToolReturns(g)
  BY <1>7 DEF ToolReturns, Answers, loopOnly
<1>8. CASE Stores(g)
  BY <1>8 DEF Stores, Save, UpdateLeaf, savesOnly
<1>9. CASE SavesSettle(g)
  <2>1. outcome = [outcome EXCEPT ![g] = outcome[g]]
    BY DEF RequestTypes
  <2> QED BY <1>9, <2>1 DEF SavesSettle, End, Settles, Breaks
<1>10. CASE Release(g)
  BY <1>10 DEF Release, Passes
<1> QED
  BY <1>1, <1>2, <1>3, <1>4, <1>5, <1>6, <1>7, <1>8, <1>9, <1>10 DEF Step, Stores

\* Every step is one of a request, or beside them.
LEMMA NextTalksOrStores ==
  ASSUME RequestTypes, [Next]_vars
  PROVE  \/ \E g \in Gen : Talks(g) /\ UNCHANGED <<saving, aborted>>
         \/ \E g \in Gen : Stores(g) /\ UNCHANGED <<talking, aborted>>
         \/ UNCHANGED <<talking, saving>> /\ aborted' \in [Gen -> BOOLEAN]
<1>1. ASSUME NEW g \in Gen, Step(g)
      PROVE  \/ Talks(g) /\ UNCHANGED <<saving, aborted>>
             \/ Stores(g) /\ UNCHANGED <<talking, aborted>>
  BY <1>1, StepTalksOrStores
<1>2. ASSUME NEW g \in Gen, Send(g) \/ Edit(g)
      PROVE  Talks(g) /\ UNCHANGED <<saving, aborted>>
  BY <1>2 DEF Send, Edit, Register, Talks, Passes, saving, tree
<1>3. ASSUME \/ Stop \/ SwitchPath \/ SwitchLeaf \/ UNCHANGED vars
             \/ \E m \in Rows : SwitchBranch(m)
      PROVE  UNCHANGED <<talking, saving, aborted>>
  BY <1>3 DEF Stop, SwitchPath, SwitchLeaf, SwitchBranch, vars, talking, saving, tree,
     saves, loop
<1>4. ASSUME DeliverStop
      PROVE  UNCHANGED <<talking, saving>> /\ aborted' \in [Gen -> BOOLEAN]
  <2>1. aborted' = [g \in Gen |-> aborted[g] \/ g = controller]
    BY <1>4 DEF DeliverStop
  <2>2. \A g \in Gen : (aborted[g] \/ g = controller) \in BOOLEAN
    BY DEF RequestTypes
  <2> QED BY <1>4, <2>1, <2>2 DEF DeliverStop, talking, saving, tree, saves, loop
<1>5. aborted \in [Gen -> BOOLEAN]
  BY DEF RequestTypes
<1> QED BY <1>1, <1>2, <1>3, <1>4, <1>5 DEF Next

\* Types of what a request says.
LEMMA TalkTypes ==
  ASSUME Requests, NEW g \in Gen, Talks(g), UNCHANGED <<saving, aborted>>
  PROVE  Requests'
<1> USE DEF Requests, RequestTypes
<1>1. CASE Asks(g)
  <2>1. << <<"user", 0>> >> \in Seq(Message)
    BY MessageShape
  <2> QED BY <1>1, <2>1 DEF Asks, Underway, Stages, saving
<1>2. CASE Tells(g)
  <2>1. Append(added[g], <<"text", 0>>) \in Seq(Message)
    BY MessageShape
  <2> QED BY <1>2, <2>1 DEF Tells, Underway, Stages, saving
<1>3. ASSUME NEW n \in CallCounts, Calls(g, n) PROVE Requests'
  <2>1. Append(added[g], <<"calls", n>>) \in Seq(Message) /\ n \in Nat /\ n > 0
    BY MessageShape
  <2>2. rounds' \in [Gen -> 0..MaxIterations]
    <3>1. CASE rounds' = rounds
      BY <3>1
    <3>2. CASE rounds' # rounds
      <4>1. rounds[g] < MaxIterations /\ rounds' = [rounds EXCEPT ![g] = rounds[g] + 1]
        BY <1>3, <3>2 DEF Calls, LoopGoesOn
      <4>2. rounds[g] \in 0..MaxIterations
        OBVIOUS
      <4>3. rounds[g] + 1 \in 0..MaxIterations
        BY <4>1, <4>2, BoundsAssumption
      <4> QED BY <4>1, <4>3
    <3> QED BY <3>1, <3>2
  <2>3. left' \in [Gen -> Nat] /\ at' \in [Gen -> Stages]
    <3>1. left' \in [Gen -> Nat]
      <4>1. left' = left \/ left' = [left EXCEPT ![g] = n]
        BY <1>3 DEF Calls
      <4> QED BY <2>1, <4>1
    <3>2. at' \in [Gen -> Stages]
      BY <1>3 DEF Calls, Stages
    <3> QED BY <3>1, <3>2
  <2>4. outcome' \in [Gen -> {"none", "ok", "aborted", "error"}]
    BY <1>3 DEF Calls
  <2>5. added' \in [Gen -> Seq(Message)]
    BY <1>3, <2>1 DEF Calls
  <2>6. Underway'
    BY <1>3, <2>1 DEF Calls, Underway
  <2> QED BY <2>2, <2>3, <2>4, <2>5, <2>6 DEF saving
<1>4. CASE Answers(g)
  <2>1. PICK n \in Nat : /\ added' = [added EXCEPT ![g] = @ \o Results(n)]
                         /\ left' \in [Gen -> Nat]
                         /\ at' = [at EXCEPT ![g] = "saves"]
                              \/ (at' = [at EXCEPT ![g] = "model"])
                              \/ (at' = [at EXCEPT ![g] = "decide"] /\ left'[g] > 0)
                         /\ \A h \in Gen : h # g => left'[h] = left[h]
    <3>1. CASE NextCall(g)
      <4>1. left[g] > 0 /\ left[g] \in Nat
        BY <1>4 DEF Answers, Underway
      <4>2. left' = [left EXCEPT ![g] = left[g] - 1] /\ left[g] - 1 \in Nat
        BY <3>1, <4>1 DEF NextCall
      <4>3. left' \in [Gen -> Nat] /\ \A h \in Gen : h # g => left'[h] = left[h]
        BY <4>2
      <4>4. \/ at' = [at EXCEPT ![g] = "model"]
            \/ at' = [at EXCEPT ![g] = "decide"] /\ left'[g] > 0
        <5>1. at' = [at EXCEPT ![g] = IF left[g] = 1 THEN "model" ELSE "decide"]
          BY <3>1 DEF NextCall
        <5>2. left'[g] = left[g] - 1
          BY <4>2
        <5>3. CASE left[g] = 1
          BY <5>1, <5>3
        <5>4. CASE left[g] # 1
          BY <4>1, <5>1, <5>2, <5>4
        <5> QED BY <5>3, <5>4
      <4>5. added' = [added EXCEPT ![g] = @ \o Results(1)]
        BY <3>1 DEF NextCall
      <4> QED BY <4>3, <4>4, <4>5
    <3>2. CASE Reject(g)
      <4>1. left' = [left EXCEPT ![g] = 0] /\ left[g] \in Nat
        BY <3>2 DEF Reject
      <4>2. left' \in [Gen -> Nat] /\ \A h \in Gen : h # g => left'[h] = left[h]
        BY <4>1
      <4> QED BY <3>2, <4>1, <4>2 DEF Reject
    <3> QED BY <1>4, <3>1, <3>2 DEF Answers
  <2>2. added[g] \o Results(n) \in Seq(Message)
    BY MessageShape, <2>1
  <2>3. added' \in [Gen -> Seq(Message)] /\ at' \in [Gen -> Stages]
    BY <2>1, <2>2 DEF Stages
  <2>4. rounds' = rounds /\ outcome' \in [Gen -> {"none", "ok", "aborted", "error"}]
    BY <1>4 DEF Answers, NextCall, Reject
  <2>5. Underway'
    BY <2>1 DEF Underway
  <2> QED BY <2>1, <2>3, <2>4, <2>5 DEF saving
<1>5. CASE Passes(g) \/ StopsEarly(g) \/ Breaks(g) \/ Settles(g)
  BY <1>5 DEF Passes, StopsEarly, Breaks, Settles, Underway, Stages, saving
<1> QED BY <1>1, <1>2, <1>3, <1>4, <1>5 DEF Talks

LEMMA StoreTypes ==
  ASSUME Requests, NEW g \in Gen, Stores(g), UNCHANGED <<talking, aborted>>
  PROVE  Requests'
<1>1. saved' \in [Gen -> Nat]
  <2>1. saved' = saved \/ saved' = [saved EXCEPT ![g] = saved[g] + 1]
    BY DEF Stores, Save, UpdateLeaf
  <2>2. saved[g] + 1 \in Nat /\ saved \in [Gen -> Nat]
    BY DEF Requests, RequestTypes
  <2> QED BY <2>1, <2>2
<1>2. writing' \in [Gen -> BOOLEAN]
  BY DEF Stores, Save, UpdateLeaf, Requests, RequestTypes
<1>3. failed' \in [Gen -> BOOLEAN]
  BY DEF Stores, Save, UpdateLeaf, Requests, RequestTypes
<1> QED BY <1>1, <1>2, <1>3 DEF Requests, RequestTypes, Underway, talking

LEMMA RequestsInit == Init => Requests
  BY BoundsAssumption DEF Init, Requests, RequestTypes, Underway, Stages

LEMMA RequestsStep == ASSUME Requests, [Next]_vars PROVE Requests'
<1>1. ASSUME UNCHANGED <<talking, saving>>, aborted' \in [Gen -> BOOLEAN] PROVE Requests'
  BY <1>1 DEF Requests, RequestTypes, Underway, talking, saving
<1> QED BY <1>1, NextTalksOrStores, TalkTypes, StoreTypes DEF Requests
-----------------------------------------------------------------------------
\* The calls of a message, and the place up to which it wants results.
CallsOf(m) == IF m[1] = "calls" THEN m[2] ELSE 0

\* The message at k has its results, and no more of them.
Paired(msgs, k) ==
  /\ k + CallsOf(msgs[k]) <= Len(msgs)
  /\ \A j \in k + 1 .. k + CallsOf(msgs[k]) : msgs[j][1] = "result"
  /\ k + CallsOf(msgs[k]) < Len(msgs) /\ msgs[k][1] # "result"
       => msgs[k + CallsOf(msgs[k]) + 1][1] # "result"

\* The message at k lacks n results, and all that came after it are results.
Lacks(msgs, k, n) ==
  /\ msgs[k][1] = "calls"
  /\ k + msgs[k][2] = Len(msgs) + n
  /\ \A j \in k + 1 .. Len(msgs) : msgs[j][1] = "result"

\* The pairing as an inductive invariant: while a call is decided on or runs, one
\* message lacks as many results as calls are left, and all others are paired;
\* otherwise all are, but for a last one at the cap.
PairedBut(g, k) == \A j \in DOMAIN added[g] : j # k => Paired(added[g], j)
Pairing(g) ==
  /\ at[g] \in {"decide", "tool"} =>
       \E k \in DOMAIN added[g] : Lacks(added[g], k, left[g]) /\ PairedBut(g, k)
  /\ at[g] \in {"saves", "release", "done"} =>
       \/ PairedBut(g, 0)
       \/ /\ rounds[g] = MaxIterations /\ PairedBut(g, Len(added[g]))
          /\ Len(added[g]) > 0 /\ Lacks(added[g], Len(added[g]), CallsOf(added[g][Len(added[g])]))
  /\ at[g] = "model" => PairedBut(g, 0) /\ added[g] # <<>>

LEMMA CallsNat ==
  ASSUME NEW msgs \in Seq(Message), NEW k \in DOMAIN msgs
  PROVE  /\ CallsOf(msgs[k]) \in Nat
         /\ msgs[k][1] = "calls" => CallsOf(msgs[k]) = msgs[k][2] /\ msgs[k][2] > 0
         /\ msgs[k][1] # "calls" => CallsOf(msgs[k]) = 0
<1>1. msgs[k] \in Message
  OBVIOUS
<1>2. msgs[k][1] = "calls" => msgs[k][2] \in CallCounts
  BY <1>1, MessageShape
<1>3. CASE msgs[k][1] = "calls"
  <2>1. msgs[k][2] \in Nat \ {0}
    BY <1>2, <1>3, BoundsAssumption
  <2> QED BY <1>3, <2>1 DEF CallsOf
<1>4. CASE msgs[k][1] # "calls"
  BY <1>4 DEF CallsOf
<1> QED BY <1>3, <1>4

\* A message that is no result comes behind messages that are all paired.
LEMMA AppendPaired ==
  ASSUME NEW msgs \in Seq(Message), NEW m \in Message, m[1] # "result",
         NEW j \in DOMAIN msgs, Paired(msgs, j)
  PROVE  Paired(Append(msgs, m), j)
<1> DEFINE longer == Append(msgs, m)
           want == CallsOf(msgs[j])
<1>1. j \in 1..Len(msgs) /\ j \in Nat /\ Len(longer) = Len(msgs) + 1
  OBVIOUS
<1>2. /\ \A i \in 1..Len(msgs) : longer[i] = msgs[i]
      /\ longer[Len(msgs) + 1] = m
  OBVIOUS
<1>3. want \in Nat
  BY CallsNat
<1>4. CallsOf(longer[j]) = want
  BY <1>1, <1>2 DEF CallsOf
<1>5. j + want <= Len(msgs)
  BY DEF Paired
<1>6. \A i \in j + 1 .. j + want : longer[i][1] = "result"
  BY <1>1, <1>2, <1>3, <1>5 DEF Paired
<1>7. ASSUME longer[j][1] # "result" PROVE longer[j + want + 1][1] # "result"
  <2>1. CASE j + want < Len(msgs)
    <3>1. msgs[j + want + 1][1] # "result"
      BY <1>1, <1>2, <1>7, <2>1 DEF Paired
    <3> QED BY <3>1, <1>1, <1>2, <1>3, <2>1
  <2>2. CASE j + want = Len(msgs)
    BY <1>2, <2>2
  <2> QED BY <1>1, <1>3, <1>5, <2>1, <2>2
<1>8. j + want <= Len(longer)
  BY <1>1, <1>3, <1>5
<1>9. Paired(longer, j)
  <2> HIDE DEF longer, want
  <2> QED BY <1>4, <1>6, <1>7, <1>8 DEF Paired
<1> QED BY <1>9

\* What comes last is paired if it wants no results, and lacks them if it does.
LEMMA LastPaired ==
  ASSUME NEW msgs \in Seq(Message), NEW m \in Message
  PROVE  LET longer == Append(msgs, m)
             n == Len(msgs) + 1
         IN /\ n = Len(longer) /\ n \in DOMAIN longer
            /\ \A j \in DOMAIN longer : j # n => j \in DOMAIN msgs
            /\ m[1] # "calls" => Paired(longer, n)
            /\ m[1] = "calls" => Lacks(longer, n, m[2])
<1> DEFINE longer == Append(msgs, m)
           n == Len(msgs) + 1
<1>1. n = Len(longer) /\ n \in DOMAIN longer /\ longer[n] = m /\ n \in Nat
  OBVIOUS
<1>2. \A j \in DOMAIN longer : j # n => j \in DOMAIN msgs
  OBVIOUS
<1>3. m[1] # "calls" => Paired(longer, n)
  BY <1>1 DEF Paired, CallsOf
<1>4. m[1] = "calls" => Lacks(longer, n, m[2])
  BY <1>1 DEF Lacks
<1> QED BY <1>1, <1>2, <1>3, <1>4

\* Results are added: the message that lacked them lacks so many less, and the
\* others stay paired, the results among them.
LEMMA AnswerPairs ==
  ASSUME NEW msgs \in Seq(Message), NEW k \in DOMAIN msgs, NEW n \in Nat,
         Lacks(msgs, k, n), \A j \in DOMAIN msgs : j # k => Paired(msgs, j),
         NEW c \in Nat, c <= n, 0 < c
  PROVE  LET more == msgs \o Results(c) IN
         /\ more \in Seq(Message) /\ k \in DOMAIN more
         /\ Lacks(more, k, n - c)
         /\ \A j \in DOMAIN more : j # k => Paired(more, j)
<1> DEFINE more == msgs \o Results(c)
<1>1. /\ more \in Seq(Message) /\ Len(more) = Len(msgs) + c
      /\ k \in 1..Len(msgs) /\ k \in DOMAIN more
  <2>1. Results(c) \in Seq(Message) /\ Len(Results(c)) = c
    BY MessageShape
  <2>2. more \in Seq(Message) /\ Len(more) = Len(msgs) + c
    BY <2>1
  <2>3. Len(more) \in Nat /\ DOMAIN more = 1..Len(more) /\ Len(msgs) \in Nat /\ k \in 1..Len(msgs)
    BY <2>2
  <2> HIDE DEF more
  <2> QED BY <2>2, <2>3
<1>2. /\ \A i \in 1..Len(msgs) : more[i] = msgs[i]
      /\ \A i \in Len(msgs) + 1 .. Len(more) : more[i] = <<"result", 0>>
  <2>1. Results(c) \in Seq(Message) /\ Len(Results(c)) = c
    BY MessageShape
  <2>2. \A i \in 1..c : Results(c)[i] = <<"result", 0>>
    BY DEF Results
  <2>3. \A i \in 1..Len(msgs) : more[i] = msgs[i]
    BY <2>1
  <2>4. ASSUME NEW i \in Len(msgs) + 1 .. Len(more) PROVE more[i] = <<"result", 0>>
    <3>1. i - Len(msgs) \in 1..c
      BY <1>1
    <3>2. more[i] = Results(c)[i - Len(msgs)]
      BY <1>1, <2>1
    <3> QED BY <2>2, <3>1, <3>2
  <2> QED BY <2>3, <2>4
<1>3. msgs[k][1] = "calls" /\ msgs[k][2] \in Nat /\ k + msgs[k][2] = Len(msgs) + n
  BY CallsNat DEF Lacks
<1>4. ASSUME NEW i \in k + 1 .. Len(more) PROVE more[i][1] = "result"
  <2>1. i \in Nat /\ k \in Nat /\ Len(msgs) \in Nat /\ Len(more) \in Nat
    BY <1>1
  <2>2. CASE i <= Len(msgs)
    <3>1. i \in 1..Len(msgs) /\ i \in k + 1 .. Len(msgs)
      BY <1>1, <2>1, <2>2
    <3>2. msgs[i][1] = "result"
      BY <3>1 DEF Lacks
    <3> QED BY <1>2, <3>1, <3>2
  <2>3. CASE ~(i <= Len(msgs))
    <3>1. i \in Len(msgs) + 1 .. Len(more)
      BY <2>1, <2>3
    <3>2. more[i] = <<"result", 0>>
      BY <1>2, <3>1
    <3> QED BY <3>2
  <2> QED BY <2>2, <2>3
<1>5. Lacks(more, k, n - c)
  BY <1>1, <1>2, <1>3, <1>4 DEF Lacks
<1>6. ASSUME NEW j \in DOMAIN more, j # k PROVE Paired(more, j)
  <2>1. j \in Nat /\ j \in 1..Len(more) /\ k \in Nat
    BY <1>1
  <2>2. CASE j > k
    <3>1. more[j][1] = "result"
      BY <1>4, <2>1, <2>2
    <3>2. CallsOf(more[j]) = 0
      BY <3>1 DEF CallsOf
    <3> QED BY <2>1, <3>1, <3>2 DEF Paired
  <2>3. CASE j < k
    <3> DEFINE want == CallsOf(msgs[j])
    <3>1. j \in DOMAIN msgs /\ Paired(msgs, j) /\ more[j] = msgs[j]
      BY <1>1, <1>2, <2>1, <2>3
    <3>2. want \in Nat
      BY <3>1, CallsNat
    <3>3. j + want <= Len(msgs) /\ \A i \in j + 1 .. j + want : msgs[i][1] = "result"
      BY <3>1 DEF Paired
    <3>4. j + want < k
      <4>1. CASE j + want < k
        BY <4>1
      <4>2. CASE k \in j + 1 .. j + want
        BY <1>3, <3>3, <4>2
      <4> QED BY <2>1, <2>3, <3>2, <4>1, <4>2
    <3>5. \A i \in j + 1 .. j + want : more[i][1] = "result"
      BY <1>1, <1>2, <2>1, <3>2, <3>3
    <3>6. msgs[j][1] # "result" => more[j + want + 1][1] # "result"
      <4>1. msgs[j][1] # "result" => msgs[j + want + 1][1] # "result"
        BY <1>1, <2>1, <3>1, <3>2, <3>4 DEF Paired
      <4>2. j + want + 1 \in 1..Len(msgs)
        BY <1>1, <2>1, <3>2, <3>4
      <4> QED BY <1>2, <4>1, <4>2
    <3>7. want = CallsOf(more[j]) /\ j + want <= Len(more)
      BY <1>1, <2>1, <3>1, <3>2, <3>3
    <3>8. more[j][1] = msgs[j][1]
      BY <3>1
    <3> HIDE DEF more, want
    <3> QED BY <3>5, <3>6, <3>7, <3>8 DEF Paired
  <2> QED BY <1>6, <2>1, <2>2, <2>3
<1> QED BY <1>1, <1>5, <1>6

\* Nothing is lacking any more.
LEMMA NothingLacks ==
  ASSUME NEW msgs \in Seq(Message), NEW k \in DOMAIN msgs, Lacks(msgs, k, 0)
  PROVE  Paired(msgs, k)
<1> DEFINE want == CallsOf(msgs[k])
<1>1. want = msgs[k][2] /\ want \in Nat /\ k \in Nat /\ Len(msgs) \in Nat
  BY CallsNat DEF Lacks
<1>2. k + want = Len(msgs) /\ \A j \in k + 1 .. Len(msgs) : msgs[j][1] = "result"
  BY <1>1 DEF Lacks
<1> HIDE DEF want
<1> QED BY <1>1, <1>2 DEF Paired, want

\* What other requests say does not touch a request's pairing.
LEMMA PairingAlone ==
  ASSUME NEW g \in Gen, Pairing(g), added'[g] = added[g], left'[g] = left[g],
         rounds'[g] = rounds[g], at'[g] = at[g]
  PROVE  Pairing(g)'
  BY DEF Pairing, PairedBut, Lacks, Paired

Answered == \A g \in Gen : Pairing(g)
LEMMA TalkPairs ==
  ASSUME Requests, Requests', Answered, NEW g \in Gen, Talks(g)
  PROVE  Pairing(g)'
<1> DEFINE msgs == added[g]
<1>0. /\ msgs \in Seq(Message) /\ left[g] \in Nat /\ Pairing(g)
      /\ rounds[g] \in 0..MaxIterations
  BY DEF Requests, RequestTypes, Answered
<1>1. CASE Asks(g)
  <2>1. added'[g] = << <<"user", 0>> >> /\ at'[g] = "model"
    BY <1>1 DEF Asks, Requests, RequestTypes
  <2>2. Paired(added'[g], 1)
    BY <2>1 DEF Paired, CallsOf
  <2> QED BY <2>1, <2>2 DEF Pairing, PairedBut, Paired
<1>2. CASE Tells(g)
  <2>1. added'[g] = Append(msgs, <<"text", 0>>) /\ at'[g] = "saves"
    BY <1>2 DEF Tells, Requests, RequestTypes
  <2>2. \A j \in DOMAIN msgs : Paired(msgs, j)
    BY <1>0, <1>2 DEF Tells, Pairing, PairedBut
  <2>3. \A j \in DOMAIN added'[g] : Paired(added'[g], j)
    <3>1. /\ <<"text", 0>> \in Message
          /\ <<"text", 0>>[1] # "result" /\ <<"text", 0>>[1] # "calls"
      BY MessageShape
    <3> QED BY <1>0, <2>1, <2>2, <3>1, AppendPaired, LastPaired
  <2> QED BY <2>1, <2>3 DEF Pairing, PairedBut, Paired
<1>3. ASSUME NEW n \in CallCounts, Calls(g, n) PROVE Pairing(g)'
  <2> DEFINE k == Len(msgs) + 1
  <2>1. added'[g] = Append(msgs, <<"calls", n>>) /\ <<"calls", n>> \in Message
    BY <1>3, MessageShape DEF Calls, Requests, RequestTypes
  <2>2. \A j \in DOMAIN msgs : Paired(msgs, j)
    BY <1>0, <1>3 DEF Calls, Pairing, PairedBut
  <2>3. /\ k = Len(added'[g]) /\ k \in DOMAIN added'[g] /\ Lacks(added'[g], k, n)
        /\ \A j \in DOMAIN added'[g] : j # k => j \in DOMAIN msgs
    BY <1>0, <2>1, LastPaired
  <2>4. \A j \in DOMAIN added'[g] : j # k => Paired(added'[g], j)
    BY <1>0, <2>1, <2>2, <2>3, AppendPaired
  <2>5. CASE LoopGoesOn(g)
    <3>1. at'[g] = "decide" /\ left'[g] = n
      BY <1>3, <2>5 DEF Calls, Requests, RequestTypes
    <3> QED BY <2>3, <2>4, <3>1 DEF Pairing, PairedBut, Lacks, Paired
  <2>6. CASE ~LoopGoesOn(g)
    <3>1. at'[g] = "saves" /\ rounds'[g] = rounds[g]
      BY <1>3, <2>6 DEF Calls, Requests, RequestTypes
    <3>2. rounds[g] = MaxIterations
      BY <1>0, <2>6, BoundsAssumption DEF LoopGoesOn
    <3>3. added'[g][k] = <<"calls", n>> /\ k > 0
      BY <1>0, <2>1
    <3>4. CallsOf(added'[g][k]) = n
      BY <3>3 DEF CallsOf
    <3> QED BY <2>3, <2>4, <3>1, <3>2, <3>3, <3>4 DEF Pairing, PairedBut, Lacks, Paired
  <2> QED BY <2>5, <2>6
<1>4. CASE Answers(g)
  <2>1. PICK k \in DOMAIN msgs : Lacks(msgs, k, left[g]) /\ PairedBut(g, k)
    BY <1>0, <1>4 DEF Answers, Pairing
  <2>2. left[g] > 0
    BY <1>4 DEF Answers, Requests, Underway
  <2>3. PICK c \in Nat : /\ 0 < c /\ c <= left[g]
                         /\ added'[g] = msgs \o Results(c)
                         /\ left'[g] = left[g] - c
                         /\ \/ at'[g] = "decide"
                            \/ at'[g] \in {"model", "saves"} /\ left'[g] = 0
    <3>1. CASE NextCall(g)
      <4>1. /\ added'[g] = msgs \o Results(1) /\ left'[g] = left[g] - 1
            /\ at'[g] = IF left[g] = 1 THEN "model" ELSE "decide"
        BY <3>1 DEF NextCall, Requests, RequestTypes
      <4>2. 1 \in Nat /\ 0 < 1 /\ 1 <= left[g]
        BY <1>0, <2>2
      <4>3. at'[g] = "decide" \/ (at'[g] = "model" /\ left'[g] = 0)
        BY <4>1
      <4> QED BY <4>1, <4>2, <4>3
    <3>2. CASE Reject(g)
      <4>1. /\ added'[g] = msgs \o Results(left[g]) /\ left'[g] = 0 /\ at'[g] = "saves"
        BY <3>2 DEF Reject, Requests, RequestTypes
      <4>2. left[g] <= left[g] /\ left'[g] = left[g] - left[g]
        BY <1>0, <4>1
      <4> QED BY <1>0, <2>2, <4>1, <4>2
    <3> QED BY <1>4, <3>1, <3>2 DEF Answers
  <2>4. /\ added'[g] \in Seq(Message) /\ k \in DOMAIN added'[g]
        /\ Lacks(added'[g], k, left'[g])
        /\ \A j \in DOMAIN added'[g] : j # k => Paired(added'[g], j)
    <3>1. \A j \in DOMAIN msgs : j # k => Paired(msgs, j)
      BY <2>1 DEF PairedBut
    <3>2. PICK more, n : more = msgs \o Results(c) /\ n = left[g]
      OBVIOUS
    <3>3. msgs \in Seq(Message) /\ k \in DOMAIN msgs /\ n \in Nat /\ Lacks(msgs, k, n)
      BY <1>0, <2>1, <3>2
    <3>4. c \in Nat /\ c <= n /\ 0 < c
      BY <2>3, <3>2
    <3>5. /\ more \in Seq(Message) /\ k \in DOMAIN more /\ Lacks(more, k, n - c)
          /\ \A j \in DOMAIN more : j # k => Paired(more, j)
      <4> HIDE DEF msgs
      <4> QED BY <3>1, <3>2, <3>3, <3>4, AnswerPairs
    <3>6. added'[g] = more /\ left'[g] = n - c
      BY <2>3, <3>2
    <3> QED BY <3>5, <3>6
  <2>5. CASE at'[g] = "decide"
    BY <2>4, <2>5 DEF Pairing, PairedBut, Lacks, Paired
  <2>6. CASE at'[g] \in {"model", "saves"} /\ left'[g] = 0
    <3>1. \A j \in DOMAIN added'[g] : Paired(added'[g], j)
      BY <2>4, <2>6, NothingLacks
    <3>2. added'[g] # <<>>
      BY <2>4
    <3> QED BY <2>6, <3>1, <3>2 DEF Pairing, PairedBut, Paired
  <2> QED BY <2>3, <2>5, <2>6
<1>5. CASE Passes(g)
  <2>1. /\ UNCHANGED <<added, left, rounds>>
        /\ \/ at'[g] \in {"acquire", "setup"}
           \/ at[g] = "decide" /\ at'[g] = "tool"
           \/ at[g] = "release" /\ at'[g] = "done"
    BY <1>5 DEF Passes, Requests, RequestTypes
  <2> QED BY <1>0, <2>1 DEF Pairing, PairedBut, Lacks, Paired
<1>6. CASE StopsEarly(g) \/ Breaks(g) \/ Settles(g)
  <2>1. /\ UNCHANGED <<added, left, rounds>> /\ at'[g] \in {"saves", "release"}
        /\ at[g] \in {"acquire", "setup", "model", "saves"}
    BY <1>6 DEF StopsEarly, Breaks, Settles, Requests, RequestTypes
  <2>2. at[g] \in {"acquire", "setup"} => msgs = <<>>
    BY DEF Requests, Underway
  <2>3. msgs = <<>> => PairedBut(g, 0)
    BY DEF PairedBut
  <2> QED BY <1>0, <2>1, <2>2, <2>3 DEF Pairing, PairedBut, Lacks, Paired
<1> QED BY <1>1, <1>2, <1>3, <1>4, <1>5, <1>6 DEF Talks

\* What a request adds is its own.
LEMMA TalksAlone ==
  ASSUME Requests, NEW g \in Gen, Talks(g), NEW h \in Gen, h # g
  PROVE  /\ at'[h] = at[h] /\ added'[h] = added[h] /\ left'[h] = left[h]
         /\ rounds'[h] = rounds[h] /\ outcome'[h] = outcome[h]
<1>0. RequestTypes
  BY DEF Requests
<1>1. CASE Asks(g) \/ Tells(g)
  BY <1>0, <1>1 DEF RequestTypes, Asks, Tells
<1>2. CASE \E n \in CallCounts : Calls(g, n)
  <2>1. PICK n \in CallCounts : Calls(g, n)
    BY <1>2
  <2> QED BY <1>0, <2>1 DEF RequestTypes, Calls
<1>3. CASE Answers(g)
  <2>1. CASE NextCall(g)
    BY <1>0, <2>1 DEF RequestTypes, NextCall
  <2>2. CASE Reject(g)
    BY <1>0, <2>2 DEF RequestTypes, Reject
  <2> QED BY <1>3, <2>1, <2>2 DEF Answers
<1>4. CASE Passes(g)
  BY <1>0, <1>4 DEF RequestTypes, Passes
<1>5. CASE StopsEarly(g) \/ Breaks(g)
  BY <1>0, <1>5 DEF RequestTypes, StopsEarly, Breaks
<1>6. CASE Settles(g)
  BY <1>0, <1>6 DEF RequestTypes, Settles
<1> QED BY <1>1, <1>2, <1>3, <1>4, <1>5, <1>6 DEF Talks

LEMMA AnsweredStep ==
  ASSUME Requests, Requests', Answered, [Next]_vars
  PROVE  Answered'
<1>1. ASSUME NEW g \in Gen, Talks(g) PROVE Answered'
  <2>1. Pairing(g)'
    BY <1>1, TalkPairs
  <2>2. ASSUME NEW h \in Gen, h # g
        PROVE  added'[h] = added[h] /\ left'[h] = left[h] /\ rounds'[h] = rounds[h] /\ at'[h] = at[h]
    BY <1>1, <2>2, TalksAlone
  <2> QED BY <2>1, <2>2, PairingAlone DEF Answered
<1>2. ASSUME UNCHANGED talking PROVE Answered'
  BY <1>2, PairingAlone DEF talking, Answered
<1> QED BY <1>1, <1>2, NextTalksOrStores DEF Requests

\* What the invariant says, in the words of the property.
LEMMA PairingAnswers == ASSUME Requests, Answered PROVE CallsAnswered
<1> SUFFICES ASSUME NEW g \in Gen, NEW k \in DOMAIN added[g]
             PROVE  LET msgs == added[g]
                        calls == IF msgs[k][1] = "calls" THEN msgs[k][2] ELSE 0
                        complete == Len(msgs) >= k + calls
                    IN /\ \A j \in k + 1 .. k + calls : j <= Len(msgs) => msgs[j][1] = "result"
                       /\ complete /\ k + calls < Len(msgs) /\ msgs[k][1] # "result"
                            => msgs[k + calls + 1][1] # "result"
                       /\ ~complete => \/ at[g] \in {"decide", "tool"}
                                       \/ k = Len(msgs) /\ rounds[g] = MaxIterations
  BY DEF CallsAnswered
<1> DEFINE msgs == added[g]
           calls == IF msgs[k][1] = "calls" THEN msgs[k][2] ELSE 0
<1>1. msgs \in Seq(Message) /\ k \in 1..Len(msgs) /\ calls \in Nat /\ Len(msgs) \in Nat
  <2>1. msgs \in Seq(Message)
    BY DEF Requests, RequestTypes
  <2> QED BY <2>1, CallsNat DEF CallsOf
<1>2. calls = CallsOf(msgs[k]) /\ (calls # 0 => msgs[k][1] = "calls")
  BY DEF CallsOf
<1>3. CASE Paired(msgs, k)
  <2>1. /\ k + calls <= Len(msgs)
        /\ \A j \in k + 1 .. k + calls : msgs[j][1] = "result"
        /\ k + calls < Len(msgs) /\ msgs[k][1] # "result"
             => msgs[k + calls + 1][1] # "result"
    BY <1>2, <1>3 DEF Paired
  <2> HIDE DEF calls, msgs
  <2> QED BY <1>1, <2>1 DEF calls, msgs
<1>4. ASSUME NEW n, Lacks(msgs, k, n), n \in Nat,
             n > 0 => \/ at[g] \in {"decide", "tool"}
                      \/ k = Len(msgs) /\ rounds[g] = MaxIterations
      PROVE  /\ \A j \in k + 1 .. k + calls : j <= Len(msgs) => msgs[j][1] = "result"
             /\ k + calls >= Len(msgs)
             /\ \/ k + calls = Len(msgs)
                \/ at[g] \in {"decide", "tool"}
                \/ k = Len(msgs) /\ rounds[g] = MaxIterations
  <2>1. /\ calls = msgs[k][2] /\ k + calls = Len(msgs) + n
        /\ \A j \in k + 1 .. Len(msgs) : msgs[j][1] = "result"
    BY <1>4 DEF Lacks
  <2>2. \A j \in k + 1 .. k + calls : j <= Len(msgs) => msgs[j][1] = "result"
    <3> SUFFICES ASSUME NEW j \in k + 1 .. k + calls, j <= Len(msgs)
                 PROVE  msgs[j][1] = "result"
      OBVIOUS
    <3>1. j \in k + 1 .. Len(msgs)
      BY <1>1
    <3> QED BY <2>1, <3>1
  <2>3. k + calls >= Len(msgs) /\ (n = 0 => k + calls = Len(msgs))
    <3>1. k \in Nat /\ calls \in Nat /\ Len(msgs) \in Nat /\ n \in Nat /\ k + calls = Len(msgs) + n
      BY <1>1, <1>4, <2>1
    <3> HIDE DEF calls, msgs
    <3> QED BY <3>1
  <2> QED BY <1>4, <2>2, <2>3
<1>5. CASE ~ Paired(msgs, k)
  <2>1. at[g] \in Stages /\ Pairing(g) /\ left[g] \in Nat
    BY DEF Requests, RequestTypes, Answered
  <2>2. at[g] \notin {"new", "acquire", "setup"}
    BY <1>1 DEF Requests, Underway
  <2>3. CASE at[g] = "model"
    BY <1>1, <1>5, <2>1, <2>3 DEF Pairing, PairedBut
  <2>4. CASE at[g] \in {"decide", "tool"}
    <3>1. Lacks(msgs, k, left[g])
      BY <1>5, <2>1, <2>4 DEF Pairing, PairedBut
    <3>2. /\ \A j \in k + 1 .. k + calls : j <= Len(msgs) => msgs[j][1] = "result"
          /\ k + calls >= Len(msgs)
      BY <1>4, <2>1, <2>4, <3>1
    <3> HIDE DEF calls, msgs
    <3> QED BY <1>1, <2>4, <3>2 DEF calls, msgs
  <2>5. CASE at[g] \in {"saves", "release", "done"}
    <3>1. /\ rounds[g] = MaxIterations /\ k = Len(msgs) /\ Lacks(msgs, k, calls)
      BY <1>1, <1>2, <1>5, <2>1, <2>5 DEF Pairing, PairedBut
    <3>2. /\ \A j \in k + 1 .. k + calls : j <= Len(msgs) => msgs[j][1] = "result"
          /\ k + calls >= Len(msgs)
      BY <1>1, <1>4, <3>1
    <3> HIDE DEF calls, msgs
    <3> QED BY <1>1, <3>1, <3>2 DEF calls, msgs
  <2> QED BY <2>1, <2>2, <2>3, <2>4, <2>5 DEF Stages
<1> QED BY <1>3, <1>5

\* Every call the model makes has exactly one result before anything else is
\* told to the model, whichever calls are approved, rejected or fail; only the
\* reply at MAX_TOOL_ITERATIONS keeps its calls without results.
THEOREM EveryCallAnswered == Spec => []CallsAnswered
<1>1. Init => Requests /\ Answered
  <2>1. Init => Answered
    BY DEF Init, Answered, Pairing
  <2> QED BY <2>1, RequestsInit
<1>2. Requests /\ Answered /\ [Next]_vars => (Requests /\ Answered)'
  BY RequestsStep, AnsweredStep
<1>3. Requests /\ Answered => CallsAnswered
  BY PairingAnswers
<1> QED BY <1>1, <1>2, <1>3, PTL DEF Spec
-----------------------------------------------------------------------------
\* What is on disk of a request's messages, as an inductive invariant.  The chain
\* never runs ahead of the messages; while no save has failed all it is done with
\* are rows; a request that ended well had waited for all of them.
Stored(g) ==
  /\ saved[g] <= Len(added[g])
  /\ writing[g] => saved[g] < Len(added[g]) /\ <<g, saved[g] + 1>> \in Rows
  /\ ~failed[g] => \A k \in 1..saved[g] : <<g, k>> \in Rows
  /\ at[g] \in Ended /\ outcome[g] \in {"ok", "aborted"} =>
       saved[g] = Len(added[g]) /\ ~failed[g]
OnDisk == \A g \in Gen : Stored(g)

\* What other requests save does not take rows away.
LEMMA StoredAlone ==
  ASSUME NEW g \in Gen, Stored(g), Rows \subseteq Rows',
         added'[g] = added[g], saved'[g] = saved[g], writing'[g] = writing[g],
         failed'[g] = failed[g], at'[g] = at[g], outcome'[g] = outcome[g]
  PROVE  Stored(g)'
  BY DEF Stored

LEMMA TalkStored ==
  ASSUME Requests, Requests', OnDisk, NEW g \in Gen, Talks(g), UNCHANGED saving
  PROVE  OnDisk'
<1>1. Rows' = Rows /\ \A h \in Gen : Stored(h)
  BY DEF OnDisk, saving, Rows
<1>2. ASSUME NEW h \in Gen, h # g
      PROVE  added'[h] = added[h] /\ at'[h] = at[h] /\ outcome'[h] = outcome[h]
  BY <1>2, TalksAlone
<1>3. /\ Len(added[g]) <= Len(added'[g])
      /\ Len(added[g]) \in Nat /\ Len(added'[g]) \in Nat /\ saved[g] \in Nat
  <2>0. added[g] \in Seq(Message) /\ added'[g] \in Seq(Message) /\ saved[g] \in Nat
    BY DEF Requests, RequestTypes
  <2>1. \/ added'[g] = added[g]
        \/ added[g] = <<>>
        \/ \E m : added'[g] = Append(added[g], m)
        \/ \E n \in Nat : added'[g] = added[g] \o Results(n)
    <3> USE DEF Requests, RequestTypes, Talks
    <3>1. CASE Asks(g)
      BY <3>1 DEF Asks, Underway
    <3>2. CASE Tells(g) \/ \E n \in CallCounts : Calls(g, n)
      BY <3>2 DEF Tells, Calls
    <3>3. CASE Answers(g)
      <4>1. \/ added' = [added EXCEPT ![g] = @ \o Results(1)]
            \/ added' = [added EXCEPT ![g] = @ \o Results(left[g])]
        BY <3>3 DEF Answers, NextCall, Reject
      <4>2. \E n \in {1, left[g]} : added'[g] = added[g] \o Results(n)
        BY <4>1
      <4> QED BY <4>2
    <3>4. CASE Passes(g) \/ StopsEarly(g) \/ Breaks(g) \/ Settles(g)
      BY <3>4 DEF Passes, StopsEarly, Breaks, Settles
    <3> QED BY <3>1, <3>2, <3>3, <3>4
  <2>2. ASSUME NEW n \in Nat, added'[g] = added[g] \o Results(n)
        PROVE  Len(added[g]) <= Len(added'[g])
    BY <2>0, <2>2, MessageShape
  <2> QED BY <2>0, <2>1, <2>2
<1>4. at'[g] \in Ended /\ outcome'[g] \in {"ok", "aborted"} =>
        saved[g] = Len(added'[g]) /\ ~failed[g]
  <2> USE <1>1 DEF Requests, RequestTypes, Talks, Ended
  <2>1. CASE Asks(g) \/ Tells(g) \/ StopsEarly(g) \/ Breaks(g)
    BY <2>1 DEF Asks, Tells, StopsEarly, Breaks
  <2>2. CASE \E n \in CallCounts : Calls(g, n)
    BY <2>2 DEF Calls
  <2>3. CASE Answers(g)
    BY <2>3 DEF Answers, NextCall, Reject
  <2>4. CASE Passes(g)
    BY <2>4 DEF Passes, Stored
  <2>5. CASE Settles(g)
    BY <2>5 DEF Settles
  <2> QED BY <2>1, <2>2, <2>3, <2>4, <2>5
<1>5. Stored(g)'
  BY <1>1, <1>3, <1>4 DEF Stored, saving
<1> QED BY <1>1, <1>2, <1>5, StoredAlone DEF OnDisk, saving

LEMMA StoreStored ==
  ASSUME Requests, OnDisk, NEW g \in Gen, Stores(g), UNCHANGED talking
  PROVE  OnDisk'
<1>0. /\ added[g] \in Seq(Message) /\ Len(added[g]) \in Nat /\ saved[g] \in Nat
      /\ saved \in [Gen -> Nat] /\ writing \in [Gen -> BOOLEAN] /\ failed \in [Gen -> BOOLEAN]
      /\ Stored(g)
  BY DEF Requests, RequestTypes, OnDisk
<1>1. Rows \subseteq Rows'
  BY DEF Stores, Save, UpdateLeaf, Insert, tree, Rows
<1>2. \A h \in Gen : h # g =>
        saved'[h] = saved[h] /\ writing'[h] = writing[h] /\ failed'[h] = failed[h]
  BY <1>0 DEF Stores, Save, UpdateLeaf
<1>3. Stored(g)'
  <2>1. CASE Save(g) /\ writing' = [writing EXCEPT ![g] = TRUE]
    <3>1. /\ saved[g] < Len(added[g]) /\ UNCHANGED <<saved, failed>>
          /\ Insert(<<g, saved[g] + 1>>, last[g])
      BY <1>0, <2>1 DEF Save
    <3>2. <<g, saved[g] + 1>> \in Rows'
      BY <3>1 DEF Insert, Rows
    <3> QED BY <1>0, <1>1, <2>1, <3>1, <3>2 DEF Stored, talking
  <2>2. CASE Save(g) /\ writing' # [writing EXCEPT ![g] = TRUE]
    <3>1. /\ saved[g] < Len(added[g]) /\ ~writing[g]
          /\ saved' = [saved EXCEPT ![g] = saved[g] + 1]
          /\ failed' = [failed EXCEPT ![g] = TRUE] /\ UNCHANGED writing
      BY <2>2 DEF Save
    <3> QED BY <1>0, <3>1 DEF Stored, talking
  <2>3. CASE UpdateLeaf(g)
    <3>1. /\ writing[g] /\ writing' = [writing EXCEPT ![g] = FALSE]
          /\ saved' = [saved EXCEPT ![g] = saved[g] + 1]
          /\ failed' = failed \/ failed' = [failed EXCEPT ![g] = TRUE]
      BY <2>3 DEF UpdateLeaf
    <3>2. saved[g] < Len(added[g]) /\ <<g, saved[g] + 1>> \in Rows
      BY <1>0, <3>1 DEF Stored
    <3>3. ~failed'[g] => \A k \in 1..saved'[g] : <<g, k>> \in Rows'
      <4> SUFFICES ASSUME ~failed'[g], NEW k \in 1 .. saved[g] + 1 PROVE <<g, k>> \in Rows'
        BY <1>0, <3>1
      <4>1. ~failed[g]
        BY <1>0, <3>1
      <4>2. CASE k = saved[g] + 1
        BY <1>1, <3>2, <4>2
      <4>3. CASE k \in 1..saved[g]
        BY <1>0, <1>1, <4>1, <4>3 DEF Stored
      <4> QED BY <1>0, <4>2, <4>3
    <3>4. at[g] \in Ended /\ outcome[g] \in {"ok", "aborted"} => FALSE
      BY <1>0, <3>2 DEF Stored
    <3>5. saved'[g] = saved[g] + 1 /\ writing'[g] = FALSE
      BY <1>0, <3>1
    <3> QED BY <1>0, <3>2, <3>3, <3>4, <3>5 DEF Stored, talking
  <2> QED BY <2>1, <2>2, <2>3 DEF Stores
<1> QED BY <1>1, <1>2, <1>3, StoredAlone DEF OnDisk, talking

LEMMA OnDiskStep ==
  ASSUME Requests, Requests', OnDisk, [Next]_vars
  PROVE  OnDisk'
<1>1. ASSUME UNCHANGED <<talking, saving>> PROVE OnDisk'
  BY <1>1 DEF OnDisk, Stored, talking, saving, Rows
<1> QED BY <1>1, NextTalksOrStores, TalkStored, StoreStored DEF Requests

\* When the client is told that an answer is complete, or was stopped, each of
\* its messages is a row, whatever came between its saves; a save that failed is
\* told as an error.
THEOREM NothingMissingWhenDone == Spec => []SavedWhenDone
<1>1. Init => Requests /\ OnDisk
  <2>1. Init => OnDisk
    BY DEF Init, OnDisk, Stored, Ended
  <2> QED BY <2>1, RequestsInit
<1>2. Requests /\ OnDisk /\ [Next]_vars => (Requests /\ OnDisk)'
  BY RequestsStep, OnDiskStep
<1>3. Requests /\ OnDisk => SavedWhenDone
  <2> SUFFICES ASSUME Requests, OnDisk, NEW g \in Gen, at[g] \in {"release", "done"},
                      outcome[g] \in {"ok", "aborted"}, NEW k \in DOMAIN added[g]
               PROVE  <<g, k>> \in Rows
    BY DEF SavedWhenDone
  <2>1. k \in 1..Len(added[g])
    BY DEF Requests, RequestTypes
  <2> QED BY <2>1 DEF OnDisk, Stored, Ended
<1> QED BY <1>1, <1>2, <1>3, PTL DEF Spec
-----------------------------------------------------------------------------
(***************************************************************************)
(* The tree.  Rows only ever hang below rows that were there before, so     *)
(* that selected children lead upwards without end only in a finite tree:   *)
(* the path of a switched branch has an end.                                *)
(***************************************************************************)

\* The order of the rows: requests as they came, of one request as they are saved.
Before(i, j) == i[1] < j[1] \/ (i[1] = j[1] /\ i[2] < j[2])

Arrivals == \A g, h \in Gen : h < g /\ at[g] # "new" => at[h] # "new"
Places ==
  /\ Old \subseteq Rows
  /\ up \in [Rows -> Rows \union {NoMessage}]
  /\ child \in [Rows -> Rows \union {NoMessage}]
  /\ leaf \in Rows \union {NoMessage}
  /\ parent \in [Gen -> Rows \union {NoMessage}]
  /\ last \in [Gen -> Rows \union {NoMessage}]
  /\ switching \in {"off", "path", "leaf"} \X (Rows \union {NoMessage})
  /\ switching[1] = "path" => switching[2] \in Rows
Grown ==
  /\ Places
  /\ Arrivals
  /\ \A j \in Rows : up[j] # NoMessage => Before(up[j], j)
  /\ \A g \in Gen : last[g][1] <= g
  /\ SelectionIsComplete

\* A set of natural numbers has a least element.
LEMMA LeastIn == ASSUME NEW S, S \subseteq Nat, S # {} PROVE \E x \in S : \A y \in S : x <= y
<1>1. PICK x \in S : \A y \in S : ~ (<<y, x>> \in OpToRel(<, Nat))
  BY NatLessThanWellFounded, WFMin
<1>2. \A y \in S : x <= y
  <2> SUFFICES ASSUME NEW y \in S PROVE x <= y
    OBVIOUS
  <2>1. ~ (<<y, x>> \in OpToRel(<, Nat))
    BY <1>1
  <2>2. <<y, x>> \in Nat \X Nat /\ <<y, x>>[1] = y /\ <<y, x>>[2] = x
    OBVIOUS
  <2> QED BY <2>1, <2>2 DEF OpToRel
<1> QED BY <1>2

\* Numbers that are bounded have a greatest one among them.
LEMMA GreatestIn ==
  ASSUME NEW S, S \subseteq Nat, S # {}, NEW n \in Nat, \A x \in S : x <= n
  PROVE  \E x \in S : \A y \in S : y <= x
<1> DEFINE T == {n - x : x \in S}
<1>0. \A x \in S : x \in Nat /\ n - x \in Nat
  OBVIOUS
<1>1. T \subseteq Nat /\ T # {}
  BY <1>0
<1>2. PICK t \in T : \A u \in T : t <= u
  BY <1>1, LeastIn
<1>3. PICK x \in S : t = n - x
  OBVIOUS
<1>4. \A y \in S : n - x <= n - y
  BY <1>2, <1>3
<1> QED BY <1>0, <1>4

\* Rows there are have a last one in their order.
LEMMA HighestRow ==
  ASSUME InOrder, NEW A, A \subseteq Rows, A # {}
  PROVE  \E x \in A : \A y \in A : ~Before(x, y)
<1>1. \A i \in A : /\ i[1] \in Nat /\ i[1] <= NumGens /\ i[2] \in Nat
                   /\ i \in Old \/ (i[1] \in Gen /\ i \in Mine(i[1]))
  <2> SUFFICES ASSUME NEW i \in A
               PROVE  /\ i[1] \in Nat /\ i[1] <= NumGens /\ i[2] \in Nat
                      /\ i \in Old \/ (i[1] \in Gen /\ i \in Mine(i[1]))
    OBVIOUS
  <2>1. i \in Id /\ i \in Rows
    BY DEF InOrder
  <2>2. CASE i \in Old
    BY <2>2, NumGensAssumption, BoundsAssumption DEF Old
  <2>3. CASE i \notin Old
    BY <2>1, <2>3, RowShape, NumGensAssumption DEF Gen, Mine
  <2> QED BY <2>2, <2>3
<1>2. PICK g \in {i[1] : i \in A} : \A h \in {i[1] : i \in A} : h <= g
  <2> DEFINE S == {i[1] : i \in A}
  <2>1. S \subseteq Nat /\ S # {} /\ \A x \in S : x <= NumGens
    BY <1>1
  <2> QED BY <2>1, NumGensAssumption, GreatestIn
<1> DEFINE S == {i[2] : i \in {j \in A : j[1] = g}}
<1>3. S \subseteq Nat /\ S # {} /\ g \in Nat
  BY <1>1
<1>4. \E n \in Nat : \A x \in S : x <= n
  <2>1. CASE g \in Gen
    <3>1. saved[g] \in Nat /\ writing[g] \in BOOLEAN
      BY <2>1 DEF InOrder, Shapes
    <3>2. ASSUME NEW i \in A, i[1] = g PROVE i[2] <= saved[g] + 1
      <4>1. i \in Mine(g)
        BY <2>1, <3>2 DEF Mine
      <4>2. i[2] <= saved[g] + (IF writing[g] THEN 1 ELSE 0)
        BY <2>1, <4>1 DEF InOrder, Chain
      <4> QED BY <1>1, <3>1, <4>2
    <3> QED BY <3>1, <3>2
  <2>2. CASE g \notin Gen
    <3>1. \A i \in A : i[1] = g => i \in Old
      BY <1>1, <2>2
    <3>2. \A i \in Old : i[2] <= 2 * OldRounds
      BY BoundsAssumption DEF Old
    <3> QED BY <3>1, <3>2, BoundsAssumption
  <2> QED BY <2>1, <2>2
<1>5. PICK k \in S : \A y \in S : y <= k
  BY <1>3, <1>4, GreatestIn
<1>6. PICK x \in A : x[1] = g /\ x[2] = k
  OBVIOUS
<1>7. \A y \in A : ~Before(x, y)
  <2> SUFFICES ASSUME NEW y \in A PROVE ~Before(x, y)
    OBVIOUS
  <2>1. y[1] \in Nat /\ y[2] \in Nat /\ k \in Nat /\ y[1] <= g
    BY <1>1, <1>2, <1>3
  <2>2. y[1] = g => y[2] <= k
    BY <1>5
  <2> QED BY <1>3, <1>6, <2>1, <2>2 DEF Before
<1> QED BY <1>7

LEMMA NotARow == ASSUME InOrder PROVE NoMessage \notin Rows
<1>1. NoMessage \notin Old
  BY BoundsAssumption DEF NoMessage, Old
<1>2. 0 \notin Gen
  BY NumGensAssumption DEF Gen
<1>3. NoMessage[1] = 0
  BY DEF NoMessage
<1> QED BY <1>1, <1>2, <1>3, RowShape DEF InOrder

\* The recursive query has a solution: of each row the smallest set that holds it
\* and the selected child of each of its rows.
LEMMA DescendantsExist ==
  ASSUME InOrder, Places
  PROVE  \E f : f = [i \in Rows \union {NoMessage} |->
                       IF i = NoMessage THEN {} ELSE {i} \union f[child[i]]]
<1> DEFINE dom == Rows \union {NoMessage}
           Closed(T) == \A x \in T : child[x] # NoMessage => child[x] \in T
           From(i) == {j \in Rows : \A T \in SUBSET Rows : i \in T /\ Closed(T) => j \in T}
           f == [i \in dom |-> IF i = NoMessage THEN {} ELSE From(i)]
<1>0. NoMessage \notin Rows /\ \A i \in Rows : child[i] \in dom
  BY NotARow DEF Places
<1>1. ASSUME NEW i \in Rows PROVE From(i) = {i} \union f[child[i]]
  <2>1. CASE child[i] = NoMessage
    <3>1. {i} \in SUBSET Rows /\ Closed({i})
      BY <2>1
    <3> QED BY <2>1, <3>1
  <2>2. CASE child[i] # NoMessage
    <3>1. child[i] \in Rows /\ f[child[i]] = From(child[i])
      BY <2>2 DEF Places
    <3>2. From(child[i]) \subseteq From(i)
      BY <2>2
    <3>3. {i} \union From(child[i]) \in SUBSET Rows
      OBVIOUS
    <3>4. Closed({i} \union From(child[i]))
      <4>1. child[i] \in From(child[i])
        BY <3>1
      <4>2. ASSUME NEW x \in From(child[i]), child[x] # NoMessage
            PROVE  child[x] \in From(child[i])
        <5>1. x \in Rows /\ child[x] \in Rows
          BY <1>0, <4>2
        <5>2. ASSUME NEW T \in SUBSET Rows, child[i] \in T, Closed(T) PROVE child[x] \in T
          BY <4>2, <5>2
        <5> QED BY <5>1, <5>2
      <4> HIDE DEF From
      <4> QED BY <4>1, <4>2
    <3>5. From(i) \subseteq {i} \union From(child[i])
      BY <3>3, <3>4
    <3> QED BY <3>1, <3>2, <3>5
  <2> QED BY <2>1, <2>2
<1>2. \A i \in Rows : f[i] = From(i)
  BY <1>0
<1>3. ASSUME NEW i \in dom
      PROVE  f[i] = IF i = NoMessage THEN {} ELSE {i} \union f[child[i]]
  <2> HIDE DEF From
  <2> QED BY <1>0, <1>1, <1>2
<1>4. f = [i \in dom |-> IF i = NoMessage THEN {} ELSE {i} \union f[child[i]]]
  <2>1. f = [i \in dom |-> f[i]]
    OBVIOUS
  <2> HIDE DEF f
  <2> QED BY <1>3, <2>1
<1> QED BY <1>4

\* Along the selected children the path of a row stays among the rows, and ends.
LEMMA PathHasEnd ==
  ASSUME InOrder, Grown, NEW m \in Rows
  PROVE  PathEnd(m) \in Rows
<1>1. PICK f : /\ f = [i \in Rows \union {NoMessage} |->
                         IF i = NoMessage THEN {} ELSE {i} \union f[child[i]]]
               /\ Descendants(m) = f[m]
  <2>1. Descendants(m) = (CHOOSE f : f = [i \in Rows \union {NoMessage} |->
                            IF i = NoMessage THEN {} ELSE {i} \union f[child[i]]])[m]
    BY DEF Descendants
  <2> QED BY <2>1, DescendantsExist DEF Grown
<1>2. /\ NoMessage \notin Rows /\ f[NoMessage] = {}
      /\ \A i \in Rows : f[i] = {i} \union f[child[i]]
  BY <1>1, NotARow
<1>3. \A i \in Rows : child[i] # NoMessage => child[i] \in Rows /\ Before(i, child[i])
  <2> SUFFICES ASSUME NEW i \in Rows, child[i] # NoMessage
               PROVE  child[i] \in Rows /\ Before(i, child[i])
    OBVIOUS
  <2>1. child[i] \in Rows /\ up[child[i]] = i
    BY DEF Grown, SelectionIsComplete
  <2>2. i # NoMessage
    BY <1>2
  <2> QED BY <2>1, <2>2 DEF Grown
<1>4. \A i \in Rows : f[i] \subseteq Rows
  <2> DEFINE A == {i \in Rows : ~(f[i] \subseteq Rows)}
  <2> SUFFICES ASSUME A # {} PROVE FALSE
    OBVIOUS
  <2>1. PICK x \in A : \A y \in A : ~Before(x, y)
    BY HighestRow
  <2>2. child[x] # NoMessage /\ ~(f[child[x]] \subseteq Rows)
    BY <1>2
  <2>3. child[x] \in A /\ Before(x, child[x])
    BY <1>3, <2>2
  <2> QED BY <2>1, <2>3
<1>5. \E i \in f[m] : child[i] = NoMessage
  <2> DEFINE A == {i \in Rows : f[i] \subseteq f[m]}
  <2>1. PICK x \in A : \A y \in A : ~Before(x, y)
    <3>1. m \in A
      OBVIOUS
    <3> QED BY <3>1, HighestRow
  <2>2. x \in f[m]
    BY <1>2
  <2>3. child[x] # NoMessage => child[x] \in A /\ Before(x, child[x])
    BY <1>2, <1>3
  <2> QED BY <2>1, <2>2, <2>3
<1>6. PathEnd(m) \in f[m]
  BY <1>1, <1>5 DEF PathEnd
<1> QED BY <1>4, <1>6

-----------------------------------------------------------------------------
\* Steps that leave the tree, the leaf and the places of the requests alone.
branches == <<up, child, leaf, parent, last, switching>>
LEMMA StillGrown ==
  ASSUME Grown, UNCHANGED branches, Arrivals'
  PROVE  Grown'
  BY DEF Grown, Places, SelectionIsComplete, branches, Rows

LEMMA ArrivalsStep ==
  ASSUME Arrivals, Still \/ \E g \in Gen : Moves(g), at = [g \in Gen |-> at[g]]
  PROVE  Arrivals'
  BY DEF Arrivals, Still, Moves, Stages

\* A row there is belongs to a request that came before one that is new.
LEMMA RowsAreOlder ==
  ASSUME InOrder, Arrivals, NEW g \in Gen, at[g] = "new", NEW m \in Rows \union {NoMessage}
  PROVE  m[1] < g /\ m[1] <= g
<1>1. g \in Nat /\ 0 < g
  BY NumGensAssumption DEF Gen
<1>2. CASE m = NoMessage
  BY <1>1, <1>2 DEF NoMessage
<1>3. CASE m \in Old
  BY <1>1, <1>3 DEF Old
<1>4. CASE m \in Rows \ Old
  <2>1. m[1] \in Gen /\ m \in Mine(m[1])
    BY <1>4, RowShape DEF InOrder, Mine
  <2>2. at[m[1]] # "new"
    BY <2>1 DEF InOrder, Fresh
  <2> QED BY <1>1, <2>1, <2>2, NumGensAssumption DEF Arrivals, Gen
<1> QED BY <1>2, <1>3, <1>4

LEMMA RegisterGrown ==
  ASSUME InOrder, Grown, NEW g \in Gen, NEW m \in Rows \union {NoMessage}, Register(g, m)
  PROVE  Grown'
<1>1. /\ at[g] = "new" /\ \A h \in Gen : h < g => at[h] # "new"
      /\ at' = [at EXCEPT ![g] = "acquire"]
      /\ parent' = [parent EXCEPT ![g] = m] /\ last' = [last EXCEPT ![g] = m]
      /\ UNCHANGED <<up, child, leaf, switching>>
  BY DEF Register, tree, threadRow, others, pending
<1>2. Arrivals'
  BY <1>1 DEF Grown, Arrivals, InOrder, Shapes
<1>3. Places'
  BY <1>1 DEF Grown, Places, Rows
<1>4. \A h \in Gen : last'[h][1] <= h
  <2>1. m[1] <= g
    BY <1>1, RowsAreOlder DEF Grown
  <2> QED BY <1>1, <2>1 DEF Grown, Places
<1>5. SelectionIsComplete' /\ \A j \in Rows' : up'[j] # NoMessage => Before(up'[j], j)
  BY <1>1 DEF Grown, SelectionIsComplete, Rows, Before
<1> QED BY <1>2, <1>3, <1>4, <1>5 DEF Grown

LEMMA InsertGrown ==
  ASSUME InOrder, Grown, Arrivals', NEW g \in Gen, ~writing[g],
         NEW i, i = <<g, saved[g] + 1>>, Insert(i, last[g]),
         last' = [last EXCEPT ![g] = i],
         UNCHANGED <<parent, switching>>
  PROVE  Grown'
<1>0. saved[g] \in Nat /\ g \in Nat /\ last[g] \in Rows \union {NoMessage}
  BY NumGensAssumption DEF InOrder, Shapes, Gen, Grown, Places
<1>1. i[1] = g /\ i[2] = saved[g] + 1 /\ i # NoMessage
  BY <1>0, NumGensAssumption DEF NoMessage, Gen
<1>2. \A j \in Mine(g) : j[2] \in Nat /\ j[2] <= saved[g]
  <2>1. \A j \in Mine(g) : j[2] \in Nat
    BY RowShape DEF InOrder, Mine
  <2>2. \A j \in Mine(g) : j[2] <= saved[g] + 0
    BY DEF InOrder, Chain
  <2> QED BY <1>0, <2>1, <2>2
<1>3. i \notin Rows
  BY <1>0, <1>1, <1>2 DEF Mine
<1>4. /\ Rows' = Rows \union {i}
      /\ up' = [j \in Rows \union {i} |-> IF j = i THEN last[g] ELSE up[j]]
      /\ child' = [j \in Rows \union {i} |-> IF j = i THEN NoMessage
                                             ELSE IF j = last[g] THEN i ELSE child[j]]
      /\ leaf' = i
  BY DEF Insert, Rows
<1>5. Places'
  BY <1>0, <1>4 DEF Grown, Places
<1>6. ASSUME NEW j \in Rows', up'[j] # NoMessage PROVE Before(up'[j], j)
  <2>1. CASE j = i
    <3>1. last[g] \in Rows /\ up'[j] = last[g]
      BY <1>0, <1>4, <1>6, <2>1
    <3>2. last[g][1] \in Nat /\ last[g][1] <= g
      BY <3>1, RowShape DEF Grown, InOrder, Old, Gen, Id
    <3>3. last[g][1] = g => last[g] \in Mine(g)
      BY <3>1 DEF Mine
    <3> QED BY <1>0, <1>1, <1>2, <2>1, <3>1, <3>2, <3>3 DEF Before
  <2>2. CASE j # i
    BY <1>4, <1>6, <2>2 DEF Grown
  <2> QED BY <2>1, <2>2
<1>7. \A h \in Gen : last'[h][1] <= h
  BY <1>0, <1>1 DEF Grown, Places
<1>8. SelectionIsComplete'
  <2> SUFFICES ASSUME NEW j \in Rows'
               PROVE  IF \E k \in Rows' : up'[k] = j
                      THEN child'[j] \in Rows' /\ up'[child'[j]] = j
                      ELSE child'[j] = NoMessage
    BY DEF SelectionIsComplete
  <2>0. \A k \in Rows : up[k] \in Rows \union {NoMessage}
    BY DEF Grown, Places
  <2>1. CASE j = i
    <3>1. \A k \in Rows' : up'[k] # i
      BY <1>0, <1>1, <1>3, <1>4, <2>0
    <3> QED BY <1>4, <2>1, <3>1
  <2>2. CASE j # i /\ j = last[g]
    BY <1>4, <2>2
  <2>3. CASE j # i /\ j # last[g]
    <3>1. j \in Rows /\ child'[j] = child[j]
      BY <1>4, <2>3
    <3>2. (\E k \in Rows' : up'[k] = j) <=> (\E k \in Rows : up[k] = j)
      BY <1>3, <1>4, <2>3
    <3>3. child[j] \in Rows => up'[child[j]] = up[child[j]]
      BY <1>3, <1>4
    <3>4. IF \E k \in Rows : up[k] = j
          THEN child[j] \in Rows /\ up[child[j]] = j
          ELSE child[j] = NoMessage
      BY <3>1 DEF Grown, SelectionIsComplete
    <3> QED BY <1>4, <3>1, <3>2, <3>3, <3>4
  <2> QED BY <2>1, <2>2, <2>3
<1> QED BY <1>5, <1>6, <1>7, <1>8 DEF Grown

LEMMA SwitchGrown ==
  ASSUME Grown, Arrivals', NEW m \in Rows, SwitchBranch(m)
  PROVE  Grown'
<1>1. /\ switching' = <<"path", m>> /\ UNCHANGED <<up, leaf, parent, last>>
      /\ child' = [i \in Rows |-> IF i = up[m] THEN m ELSE child[i]]
  BY DEF SwitchBranch, threadRow, saves
<1>2. Places'
  <2>1. child' \in [Rows -> Rows \union {NoMessage}]
    BY <1>1 DEF Grown, Places
  <2>2. switching' \in {"off", "path", "leaf"} \X (Rows \union {NoMessage})
    BY <1>1
  <2> QED BY <1>1, <2>1, <2>2 DEF Grown, Places, Rows
<1>3. SelectionIsComplete'
  BY <1>1 DEF Grown, SelectionIsComplete, Rows
<1>4. \A j \in Rows' : up'[j] # NoMessage => Before(up'[j], j)
  BY <1>1 DEF Grown, Rows
<1> QED BY <1>1, <1>2, <1>3, <1>4 DEF Grown

\* The queries of a change of branch: the path is read, and its end set.
LEMMA SwitchQueriesGrown ==
  ASSUME InOrder, Grown, Arrivals', SwitchPath \/ SwitchLeaf
  PROVE  Grown'
<1>1. UNCHANGED <<up, child, parent, last>>
  BY DEF SwitchPath, SwitchLeaf, tree, saves
<1>2. leaf' \in Rows \union {NoMessage} /\ switching' \in {"off", "leaf"} \X (Rows \union {NoMessage})
  <2>1. CASE SwitchPath
    <3>1. switching[2] \in Rows /\ switching' = <<"leaf", PathEnd(switching[2])>> /\ leaf' = leaf
      BY <2>1 DEF SwitchPath, Grown, Places, threadRow
    <3>2. PathEnd(switching[2]) \in Rows
      BY <3>1, PathHasEnd
    <3> QED BY <3>1, <3>2 DEF Grown, Places
  <2>2. CASE SwitchLeaf
    <3>1. leaf' = switching[2] /\ switching' = <<"off", NoMessage>>
      BY <2>2 DEF SwitchLeaf, Idle
    <3> QED BY <3>1 DEF Grown, Places
  <2> QED BY <2>1, <2>2
<1>3. Places'
  BY <1>1, <1>2 DEF Grown, Places, Rows
<1> QED BY <1>1, <1>3 DEF Grown, SelectionIsComplete, Rows

\* Every step keeps the tree.
LEMMA GrownStep ==
  ASSUME Reachable, InOrder, Grown, [Next]_vars
  PROVE  Grown'
<1>0. at = [g \in Gen |-> at[g]] /\ Arrivals
  BY DEF Reachable, Grown
<1>1. ASSUME NEW g \in Gen, Step(g) PROVE Grown'
  <2>1. Arrivals'
    BY <1>0, <1>1, ArrivalsStep, StepMoves
  <2>2. ASSUME ~Save(g), ~UpdateLeaf(g) PROVE UNCHANGED branches
    BY <1>1, <2>2 DEF Step, Acquire, Setup, Reply, AbortEnds, ModelFails, Decide, ToolReturns,
       SavesSettle, Release, branches, tree, threadRow, saves, pending, others, loopOnly
  <2>3. CASE Save(g)
    <3>1. CASE Insert(<<g, saved[g] + 1>>, last[g]) /\ last' = [last EXCEPT ![g] = <<g, saved[g] + 1>>]
      BY <2>1, <2>3, <3>1, InsertGrown DEF Save, savesOnly, pending
    <3>2. CASE UNCHANGED <<tree, leaf, last>>
      BY <2>1, <2>3, <3>2, StillGrown DEF Save, savesOnly, pending, branches, tree
    <3> QED BY <2>3, <3>1, <3>2 DEF Save
  <2>4. CASE UpdateLeaf(g)
    <3>1. /\ UNCHANGED <<up, child, parent, last, switching>>
          /\ leaf' \in {leaf, last[g]}
      BY <2>4 DEF UpdateLeaf, savesOnly, pending, tree
    <3>2. Places'
      BY <3>1 DEF Grown, Places, Rows
    <3> QED BY <2>1, <3>1, <3>2 DEF Grown, SelectionIsComplete, Rows
  <2> QED BY <2>1, <2>2, <2>3, <2>4, StillGrown
<1>2. ASSUME NEW g \in Gen, Send(g) \/ Edit(g) PROVE Grown'
  <2>1. LastOld \in Rows \union {NoMessage}
    <3>1. CASE OldRounds = 0
      BY <3>1 DEF LastOld, NoMessage
    <3>2. CASE OldRounds # 0
      <4>1. 2 * OldRounds \in 1 .. 2 * OldRounds
        BY <3>2, BoundsAssumption
      <4> QED BY <4>1 DEF LastOld, Old, Grown, Places
    <3> QED BY <3>1, <3>2
  <2>2. \E m \in Rows \union {NoMessage} : Register(g, m)
    BY <1>2, <2>1 DEF Send, Edit, Grown, Places
  <2> QED BY <2>2, RegisterGrown
<1>3. ASSUME Stop \/ DeliverStop \/ UNCHANGED vars PROVE Grown'
  <2>1. UNCHANGED branches /\ at' = at
    BY <1>3 DEF Stop, DeliverStop, vars, branches, tree, threadRow, saves, loop, others, pending
  <2> QED BY <1>0, <2>1, StillGrown DEF Arrivals
<1>4. ASSUME NEW m \in Rows, SwitchBranch(m) PROVE Grown'
  <2>1. at' = at
    BY <1>4 DEF SwitchBranch, loop
  <2>2. Arrivals'
    BY <1>0, <2>1 DEF Arrivals
  <2> QED BY <1>4, <2>2, SwitchGrown
<1>5. ASSUME SwitchPath \/ SwitchLeaf PROVE Grown'
  <2>1. at' = at
    BY <1>5 DEF SwitchPath, SwitchLeaf, loop
  <2>2. Arrivals'
    BY <1>0, <2>1 DEF Arrivals
  <2> QED BY <1>5, <2>2, SwitchQueriesGrown
<1> QED BY <1>1, <1>2, <1>3, <1>4, <1>5 DEF Next

LEMMA GrownInit == Init => Grown
<1> SUFFICES ASSUME Init PROVE Grown
  OBVIOUS
<1>1. /\ Rows = Old /\ leaf = LastOld
      /\ up = [m \in Old |-> IF m[2] = 1 THEN NoMessage ELSE <<0, m[2] - 1>>]
      /\ child = [m \in Old |-> IF m[2] = 2 * OldRounds THEN NoMessage ELSE <<0, m[2] + 1>>]
      /\ switching = <<"off", NoMessage>>
  BY DEF Init, Rows, Idle
<1>2. \A m \in Old : /\ m[1] = 0 /\ m[2] \in Nat /\ 1 <= m[2] /\ m[2] <= 2 * OldRounds
                     /\ m = <<0, m[2]>>
  BY BoundsAssumption DEF Old
<1>3. \A n \in Nat : 1 <= n /\ n <= 2 * OldRounds => <<0, n>> \in Old
  BY BoundsAssumption DEF Old
<1>4. 2 * OldRounds \in Nat /\ NoMessage = <<0, 0>>
  BY BoundsAssumption DEF NoMessage
<1>5. \A m \in Old : IF m[2] = 1 THEN up[m] = NoMessage
                     ELSE <<0, m[2] - 1>> \in Old /\ up[m] = <<0, m[2] - 1>>
  BY <1>1, <1>2, <1>3, <1>4
<1>6. \A m \in Old : IF m[2] = 2 * OldRounds THEN child[m] = NoMessage
                     ELSE <<0, m[2] + 1>> \in Old /\ child[m] = <<0, m[2] + 1>>
  BY <1>1, <1>2, <1>3, <1>4
<1>7. Places
  <2>1. leaf \in Old \union {NoMessage}
    <3>1. CASE OldRounds = 0
      BY <1>1, <3>1 DEF LastOld, NoMessage
    <3>2. CASE OldRounds # 0
      <4>1. 1 <= 2 * OldRounds /\ 2 * OldRounds \in Nat
        BY <3>2, BoundsAssumption
      <4> QED BY <1>1, <1>3, <4>1 DEF LastOld
    <3> QED BY <3>1, <3>2
  <2>2. /\ up \in [Old -> Old \union {NoMessage}]
        /\ child \in [Old -> Old \union {NoMessage}]
    <3>1. \A m \in Old : up[m] \in Old \union {NoMessage} /\ child[m] \in Old \union {NoMessage}
      BY <1>5, <1>6
    <3> QED BY <1>1, <3>1
  <2>3. /\ parent \in [Gen -> Rows \union {NoMessage}]
        /\ last \in [Gen -> Rows \union {NoMessage}]
    BY DEF Init
  <2> QED BY <1>1, <2>1, <2>2, <2>3 DEF Places
<1>8. Arrivals
  BY DEF Init, Arrivals
<1>9. \A j \in Rows : up[j] # NoMessage => Before(up[j], j)
  <2> SUFFICES ASSUME NEW j \in Old, j[2] # 1 PROVE Before(<<0, j[2] - 1>>, j)
    BY <1>1, <1>5
  <2> QED BY <1>2 DEF Before
<1>10. \A g \in Gen : last[g][1] <= g
  BY <1>4, NumGensAssumption DEF Init, Gen
<1>11. SelectionIsComplete
  <2> SUFFICES ASSUME NEW i \in Old
               PROVE  IF \E j \in Old : up[j] = i
                      THEN child[i] \in Old /\ up[child[i]] = i
                      ELSE child[i] = NoMessage
    BY <1>1 DEF SelectionIsComplete
  <2>1. CASE i[2] = 2 * OldRounds
    <3>1. ASSUME NEW j \in Old, up[j] = i PROVE FALSE
      <4>1. j[2] # 1 /\ i = <<0, j[2] - 1>>
        <5>1. i # NoMessage
          BY <1>2, <1>4
        <5> QED BY <1>5, <3>1, <5>1
      <4>2. i[2] = j[2] - 1
        BY <4>1
      <4> QED BY <1>2, <1>4, <2>1, <4>2
    <3> QED BY <1>6, <2>1, <3>1
  <2>2. CASE i[2] # 2 * OldRounds
    <3> DEFINE next == <<0, i[2] + 1>>
    <3>1. next \in Old /\ child[i] = next /\ next[2] = i[2] + 1
      BY <1>6, <2>2
    <3>2. up[next] = <<0, next[2] - 1>>
      BY <1>2, <1>5, <3>1
    <3>3. next[2] - 1 = i[2] /\ i = <<0, i[2]>>
      BY <1>2, <3>1
    <3> QED BY <3>1, <3>2, <3>3
  <2> QED BY <2>1, <2>2
<1> QED BY <1>7, <1>8, <1>9, <1>10, <1>11 DEF Grown

\* The tree of the messages, with what its proof needs of the requests.
Tree == Reachable /\ InOrder /\ Grown
LEMMA TreeInit == Init => Tree
<1>1. Init => Reachable
  BY DEF Init, Reachable, NewestIsStoppable
<1> QED BY <1>1, InOrderInit, GrownInit DEF Tree
LEMMA TreeStep == ASSUME Tree, [Next]_vars PROVE Tree'
  BY ReachableStep, InOrderStep, GrownStep DEF Tree

\* However answers are added and branches switched, by whichever tabs at once: a
\* message that has answers has one of them selected, so that the displayed path
\* never ends before a leaf.
THEOREM SelectionComplete == Spec => []SelectionIsComplete
<1>1. Tree => SelectionIsComplete
  BY DEF Tree, Grown
<1> QED BY <1>1, TreeInit, TreeStep, PTL DEF Spec
-----------------------------------------------------------------------------
\* The lock, the registry and the bounds.
Bounded ==
  /\ locked \in BOOLEAN
  /\ controller \in Gen \union {NoGen} /\ newest \in Gen \union {NoGen}
  /\ notes \in Nat /\ notes <= events /\ events \in 0..MaxEvents

LEMMA BoundedStep == ASSUME Bounded, [Next]_vars PROVE Bounded'
<1> DEFINE Counts == \/ UNCHANGED <<notes, events>>
                     \/ notes' = notes /\ Event
                     \/ notes' = notes + 1 /\ Event
                     \/ notes > 0 /\ notes' = notes - 1 /\ events' = events
           Handles == /\ locked' \in BOOLEAN
                      /\ controller' \in Gen \union {NoGen} /\ newest' \in Gen \union {NoGen}
<1>0. locked \in BOOLEAN /\ controller \in Gen \union {NoGen} /\ newest \in Gen \union {NoGen}
  BY DEF Bounded
<1>1. ASSUME NEW g \in Gen, Acquire(g) \/ Setup(g) \/ Release(g) PROVE Counts /\ Handles
  BY <1>0, <1>1 DEF Acquire, Setup, Release, End, Unregister, Works, Fails, threadRow, registry,
                    pending
<1>2. ASSUME NEW g \in Gen, Reply(g) \/ AbortEnds(g) \/ Decide(g) \/ ToolReturns(g)
      PROVE  Counts /\ Handles
  <2>1. UNCHANGED <<threadRow, registry, others>>
    BY <1>2 DEF Reply, AbortEnds, Decide, ToolReturns, loopOnly
  <2> QED BY <1>0, <2>1 DEF threadRow, registry, others, pending
<1>3. ASSUME NEW g \in Gen, ModelFails(g) \/ SavesSettle(g) PROVE Counts /\ Handles
  BY <1>0, <1>3 DEF ModelFails, SavesSettle, End, Unregister, Fails, threadRow, others, pending
<1>4. ASSUME NEW g \in Gen, Save(g) \/ UpdateLeaf(g) PROVE Counts /\ Handles
  <2>1. UNCHANGED <<locked, registry, pending>> /\ (Works \/ Fails)
    BY <1>4 DEF Save, UpdateLeaf, savesOnly
  <2> QED BY <1>0, <2>1 DEF Works, Fails, registry, pending
<1>5. ASSUME NEW g \in Gen, Send(g) \/ Edit(g) PROVE Counts /\ Handles
  <2>1. PICK m : Register(g, m)
    BY <1>5 DEF Send, Edit
  <2> QED BY <1>0, <2>1 DEF Register, threadRow, others, pending
<1>6. ASSUME Stop \/ DeliverStop PROVE Counts /\ Handles
  BY <1>0, <1>6 DEF Stop, DeliverStop, threadRow, registry
<1>7. ASSUME SwitchPath \/ SwitchLeaf \/ \E m \in Rows : SwitchBranch(m) PROVE Counts /\ Handles
  BY <1>0, <1>7 DEF SwitchPath, SwitchLeaf, SwitchBranch, threadRow, registry
<1>8. ASSUME UNCHANGED vars PROVE Counts /\ Handles
  BY <1>0, <1>8 DEF vars, threadRow, registry, others, pending
<1> HIDE DEF Counts, Handles
<1>9. Counts /\ Handles
  BY <1>1, <1>2, <1>3, <1>4, <1>5, <1>6, <1>7, <1>8 DEF Next, Step
<1>10. notes' \in Nat /\ notes' <= events' /\ events' \in 0..MaxEvents
  <2>1. /\ notes \in Nat /\ events \in Nat /\ notes <= events /\ events <= MaxEvents
        /\ MaxEvents \in Nat
    BY BoundsAssumption DEF Bounded
  <2>2. \/ events' = events /\ (notes' = notes \/ (notes > 0 /\ notes' = notes - 1))
        \/ events < MaxEvents /\ events' = events + 1 /\ notes' \in {notes, notes + 1}
    BY <1>9 DEF Counts, Event
  <2> QED BY <2>1, <2>2
<1> QED BY <1>9, <1>10 DEF Bounded, Handles

\* Every variable keeps its type: what is selected, shown and answered are rows
\* or nothing, for any number of requests and whatever fails; the recursive
\* queries that read the tree come to an end.
THEOREM TypeCorrect == Spec => []TypeOK
<1>1. Init => Requests /\ Tree /\ Bounded
  <2>1. Init => Bounded
    <3>1. 0 \in 0..MaxEvents /\ 0 \in Nat /\ 0 <= 0
      BY BoundsAssumption
    <3> QED BY <3>1 DEF Init, Bounded
  <2> QED BY <2>1, RequestsInit, TreeInit
<1>2. Requests /\ Tree /\ Bounded /\ [Next]_vars => (Requests /\ Tree /\ Bounded)'
  BY RequestsStep, TreeStep, BoundedStep
<1>3. Requests /\ Tree /\ Bounded => TypeOK
  <2> SUFFICES ASSUME Requests, Tree, Bounded PROVE TypeOK
    OBVIOUS
  <2>1. notes \in 0..MaxEvents
    BY BoundsAssumption DEF Bounded
  <2>2. Rows \subseteq Id
    BY DEF Tree, InOrder
  <2>3. Places
    BY DEF Tree, Grown
  <2> QED BY <2>1, <2>2, <2>3 DEF TypeOK, Places, Requests, RequestTypes, Bounded
<1> QED BY <1>1, <1>2, <1>3, PTL DEF Spec
=============================================================================
