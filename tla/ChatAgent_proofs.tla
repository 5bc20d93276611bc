-------------------------- MODULE ChatAgent_proofs --------------------------
(***************************************************************************)
(* Theorems about ChatAgent, for every number of prompts, every option and  *)
(* every set of tool batches.                                               *)
(***************************************************************************)
EXTENDS ChatAgent, FiniteSetTheorems, TLAPS

-----------------------------------------------------------------------------
(* Helpers: what the operators on queues and statuses return.              *)

LEMMA ToSetTyped ==
  ASSUME NEW S, NEW s \in Seq(S)
  PROVE  ToSet(s) \subseteq S
BY DEF ToSet

LEMMA SeqIntro ==
  ASSUME NEW S, NEW n \in Nat, NEW f \in [1..n -> S]
  PROVE  f \in Seq(S)
OBVIOUS

LEMMA BatchTyped ==
  ASSUME NEW q \in Seq(Prompt)
  PROVE  Batch(q) \in Seq(Prompt) /\ Rest(q) \in Seq(Prompt)
BY OptionsAssumption DEF Batch, Rest

Status == {"new", "queued", "running", "done", "error", "aborted", "removed"}

LEMMA MarkedTyped ==
  ASSUME NEW st \in [Prompt -> Status], NEW ps, NEW s \in Status
  PROVE  Marked(st, ps, s) \in [Prompt -> Status]
BY DEF Marked

TurnType == [iteration : Nat, empties : Nat, nudges : Nat, acted : BOOLEAN,
             last : SUBSET ToolBatches, repeat : Nat, forced : BOOLEAN]

LEMMA FreshTurnTyped == FreshTurn \in TurnType
BY DEF FreshTurn, TurnType

LEMMA RemoveAtTyped ==
  ASSUME NEW q \in Seq(Prompt), NEW i \in DOMAIN q
  PROVE  RemoveAt(q, i) \in Seq(Prompt)
BY DEF RemoveAt

LEMMA ForcedCallsFinite ==
  ASSUME running \in Seq(Prompt)
  PROVE  Cardinality(ForcedCalls) \in Nat
<1>1. DOMAIN running = 1..Len(running) /\ Len(running) \in Nat
  OBVIOUS
<1>2. IsFiniteSet(1..Len(running))
  BY <1>1, FS_Interval
<1>3. ForcedCalls \subseteq 1..Len(running)
  BY <1>1 DEF ForcedCalls
<1> QED
  BY <1>2, <1>3, FS_Subset, FS_CardinalityType

-----------------------------------------------------------------------------
(* Type correctness.  The shared parts of the handlers come first; each     *)
(* variable group has a name so that the steps stay short.                  *)

QueueTyped == /\ queue \in Seq(Prompt)
              /\ running \in Seq(Prompt)
              /\ status \in [Prompt -> Status]
              /\ pumpAt \in {"idle", "beforeTurn", "model", "tool", "turnComplete"}
HistoryTyped == results \in Seq(Nat) /\ dangling \in BOOLEAN
GhostsTyped == /\ abortCalls \in Nat
               /\ abortTurns \in Nat
               /\ cause \subseteq {"cap", "restored"}

Typed == /\ QueueTyped
         /\ HistoryTyped
         /\ GhostsTyped
         /\ aborted \in BOOLEAN
         /\ turn \in TurnType

LEMMA TypeOKParts == (TypeOK <=> Typed) /\ (TypeOK' <=> Typed')
BY DEF TypeOK, Typed, QueueTyped, HistoryTyped, GhostsTyped, TurnType, Status

LEMMA PumpLoopTyped ==
  ASSUME NEW q \in Seq(Prompt), NEW st \in [Prompt -> Status], PumpLoop(q, st)
  PROVE  QueueTyped' /\ turn' \in TurnType
BY BatchTyped, MarkedTyped, FreshTurnTyped DEF PumpLoop, QueueTyped, Status

LEMMA EnqueueTyped ==
  ASSUME TypeOK, NEW items \in Seq(Prompt), Enqueue(items)
  PROVE  QueueTyped' /\ turn' \in TurnType
<1> DEFINE q == queue \o items
           st == Marked(status, ToSet(items), "queued")
<1>1. QueueTyped /\ turn \in TurnType
  BY TypeOKParts DEF Typed
<1>2. q \in Seq(Prompt) /\ st \in [Prompt -> Status]
  BY <1>1, MarkedTyped DEF QueueTyped, Status
<1>3. CASE pumpAt = "idle"
  <2>1. PumpLoop(q, st)
    BY <1>3 DEF Enqueue
  <2> QED
    BY <1>2, <2>1, PumpLoopTyped
<1>4. CASE pumpAt # "idle"
  <2>1. queue' = q /\ status' = st /\ UNCHANGED <<running, pumpAt, turn>>
    BY <1>4 DEF Enqueue
  <2> QED
    BY <1>1, <1>2, <2>1 DEF QueueTyped
<1> QED
  BY <1>3, <1>4

LEMMA FailTurnTyped ==
  ASSUME TypeOK, FailTurn
  PROVE  QueueTyped' /\ turn' \in TurnType /\ GhostsTyped' /\ aborted' \in BOOLEAN
<1>1. QueueTyped /\ GhostsTyped
  BY TypeOKParts DEF Typed
<1> DEFINE st == Marked(status, ToSet(running), IF aborted THEN "aborted" ELSE "error")
<1>2. st \in [Prompt -> Status]
  BY <1>1, MarkedTyped DEF QueueTyped, Status
<1>3. PumpLoop(queue, st)
  BY DEF FailTurn
<1>4. QueueTyped' /\ turn' \in TurnType
  BY <1>1, <1>2, <1>3, PumpLoopTyped DEF QueueTyped
<1>5. abortTurns' \in Nat
  BY <1>1 DEF FailTurn, GhostsTyped
<1>6. UNCHANGED <<abortCalls, cause>> /\ aborted' = FALSE
  BY DEF FailTurn
<1> QED
  BY <1>1, <1>4, <1>5, <1>6 DEF GhostsTyped

LEMMA CompleteTurnTyped ==
  ASSUME TypeOK, CompleteTurn
  PROVE  QueueTyped' /\ aborted' \in BOOLEAN
BY TypeOKParts, MarkedTyped DEF Typed, CompleteTurn, QueueTyped, Status

LEMMA AskModelTyped ==
  ASSUME TypeOK, AskModel
  PROVE  QueueTyped' /\ aborted' \in BOOLEAN
BY TypeOKParts DEF Typed, AskModel, QueueTyped

LEMMA AppendMessageTyped ==
  ASSUME TypeOK, NEW r \in Seq(Nat), AppendMessage(r)
  PROVE  HistoryTyped'
BY TypeOKParts DEF Typed, AppendMessage, HistoryTyped, Unanswered

LEMMA EmptyTyped == <<>> \in Seq(Nat)
OBVIOUS

LEMMA BatchResultsTyped ==
  ASSUME NEW n \in Nat, NEW v \in Nat
  PROVE  [k \in 1..n |-> v] \in Seq(Nat)
OBVIOUS

LEMMA AnswerFromTyped ==
  ASSUME TypeOK, NEW k
  PROVE  AnswerFrom(k) \in Seq(Nat)
<1> DEFINE n == Len(results)
<1>1. n \in Nat /\ DOMAIN results = 1..n /\ \A j \in 1..n : results[j] \in Nat
  BY DEF TypeOK
<1>2. AnswerFrom(k) = [j \in 1..n |-> IF j >= k THEN results[j] + 1 ELSE results[j]]
  BY <1>1 DEF AnswerFrom
<1>3. AnswerFrom(k) \in [1..n -> Nat]
  BY <1>1, <1>2
<1> HIDE DEF n
<1> QED
  BY <1>1, <1>3, SeqIntro

LEMMA AnswerOneTyped ==
  ASSUME TypeOK, NEW k
  PROVE  [results EXCEPT ![k] = @ + 1] \in Seq(Nat)
<1> DEFINE n == Len(results)
           g == [results EXCEPT ![k] = @ + 1]
<1>1. n \in Nat /\ DOMAIN results = 1..n /\ \A j \in 1..n : results[j] \in Nat
  BY DEF TypeOK
<1>2. g = [j \in 1..n |-> IF j = k THEN results[j] + 1 ELSE results[j]]
  BY <1>1
<1>3. \A j \in 1..n : (IF j = k THEN results[j] + 1 ELSE results[j]) \in Nat
  BY <1>1
<1> HIDE DEF n, g
<1>4. g \in [1..n -> Nat]
  BY <1>2, <1>3
<1> QED
  BY <1>1, <1>4, SeqIntro DEF g

LEMMA GhostsKept ==
  ASSUME TypeOK, UNCHANGED ghosts
  PROVE  GhostsTyped'
BY TypeOKParts DEF Typed, ghosts, GhostsTyped

LEMMA ModelReplyTyped ==
  ASSUME TypeOK, ModelReplies
  PROVE  Typed'
<1>1. Typed
  BY TypeOKParts
<1>2. ASSUME NEW b \in ToolBatches, ReplyTools(b) PROVE Typed'
  <2> DEFINE n == Repeats(b)
  <2>1. b.size \in Nat /\ n \in Nat
    BY <1>1, OptionsAssumption DEF Typed, TurnType, Repeats
  <2>2. turn' \in TurnType
    <3> DEFINE acted == turn.acted \/ (n < NudgeThreshold /\ n < HardLimit /\ b.action)
    <3>1. turn' = [iteration |-> turn.iteration + 1, empties |-> turn.empties,
                   nudges |-> turn.nudges, acted |-> acted, last |-> {b},
                   repeat |-> n, forced |-> turn.forced]
      BY <1>1, <1>2 DEF ReplyTools, Typed, TurnType
    <3>2. {b} \subseteq ToolBatches /\ acted \in BOOLEAN
      OBVIOUS
    <3>3. turn.iteration + 1 \in Nat /\ turn \in TurnType
      BY <1>1 DEF Typed, TurnType
    <3> HIDE DEF n, acted
    <3> QED
      BY <2>1, <3>1, <3>2, <3>3 DEF TurnType
  <2>3. GhostsTyped'
    BY <1>2, GhostsKept DEF ReplyTools
  <2>4. CASE n >= HardLimit
    <3>1. AppendMessage([k \in 1..b.size |-> 1]) /\ CompleteTurn
      BY <1>2, <2>1, <2>4, OptionsAssumption DEF ReplyTools
    <3> QED
      BY <2>1, <2>2, <2>3, <3>1, AppendMessageTyped, BatchResultsTyped,
         CompleteTurnTyped DEF Typed
  <2>5. CASE n < HardLimit /\ n >= NudgeThreshold
    <3>1. AppendMessage([k \in 1..b.size |-> 1]) /\ AskModel
      BY <1>2, <2>1, <2>5, OptionsAssumption DEF ReplyTools
    <3> QED
      BY <2>1, <2>2, <2>3, <3>1, AppendMessageTyped, BatchResultsTyped,
         AskModelTyped DEF Typed
  <2>6. CASE n < HardLimit /\ n < NudgeThreshold
    <3>1. HistoryTyped'
      BY <1>2, <2>1, <2>6, AppendMessageTyped, BatchResultsTyped,
         OptionsAssumption DEF ReplyTools
    <3>2. QueueTyped' /\ aborted' \in BOOLEAN
      BY <1>1, <1>2, <2>1, <2>6, OptionsAssumption DEF ReplyTools, Typed, QueueTyped
    <3> QED
      BY <2>2, <2>3, <3>1, <3>2 DEF Typed
  <2> QED
    BY <2>1, <2>4, <2>5, <2>6, OptionsAssumption
<1>3. ASSUME NEW b \in ToolBatches, ReplyToolsAtCap(b) PROVE Typed'
  <2>1. HistoryTyped'
    BY <1>3, AppendMessageTyped, BatchResultsTyped, OptionsAssumption DEF ReplyToolsAtCap
  <2>2. QueueTyped' /\ aborted' \in BOOLEAN
    BY <1>3, CompleteTurnTyped DEF ReplyToolsAtCap
  <2>3. GhostsTyped' /\ turn' \in TurnType
    BY <1>1, <1>3 DEF ReplyToolsAtCap, Typed, GhostsTyped
  <2> QED
    BY <2>1, <2>2, <2>3 DEF Typed
<1>4. ASSUME ReplyEmpty PROVE Typed'
  <2>1. HistoryTyped' /\ GhostsTyped'
    BY <1>4, EmptyTyped, AppendMessageTyped, GhostsKept DEF ReplyEmpty
  <2>2. turn' \in TurnType
    BY <1>1, <1>4 DEF ReplyEmpty, Typed, TurnType
  <2>3. QueueTyped' /\ aborted' \in BOOLEAN
    BY <1>4, CompleteTurnTyped, AskModelTyped DEF ReplyEmpty
  <2> QED
    BY <2>1, <2>2, <2>3 DEF Typed
<1>5. ASSUME NEW malformed \in BOOLEAN, ReplyText(malformed) PROVE Typed'
  <2>1. HistoryTyped' /\ GhostsTyped'
    BY <1>5, EmptyTyped, AppendMessageTyped, GhostsKept DEF ReplyText
  <2>2. turn' \in TurnType
    BY <1>1, <1>5 DEF ReplyText, Typed, TurnType
  <2>3. QueueTyped' /\ aborted' \in BOOLEAN
    BY <1>5, CompleteTurnTyped, AskModelTyped DEF ReplyText
  <2> QED
    BY <2>1, <2>2, <2>3 DEF Typed
<1> QED
  BY <1>2, <1>3, <1>4, <1>5 DEF ModelReplies

LEMMA AfterBatchTyped ==
  ASSUME TypeOK, AfterBatch
  PROVE  QueueTyped' /\ aborted' \in BOOLEAN
BY CompleteTurnTyped, AskModelTyped DEF AfterBatch

LEMMA BeforeTurnTyped ==
  ASSUME TypeOK, BeforeTurnReturns
  PROVE  Typed'
<1> DEFINE n == Cardinality(ForcedCalls)
<1>1. Typed /\ n \in Nat
  BY TypeOKParts, ForcedCallsFinite DEF Typed, QueueTyped
<1> HIDE DEF n
<1>2. CASE AppendMessage(<<>>) /\ AskModel /\ UNCHANGED turn /\ UNCHANGED ghosts
  BY <1>1, <1>2, EmptyTyped, AppendMessageTyped, AskModelTyped, GhostsKept DEF Typed
<1>3. CASE AppendMessage([k \in 1..n |-> 1]) /\ FailTurn
  BY <1>1, <1>3, AppendMessageTyped, BatchResultsTyped, FailTurnTyped DEF Typed
<1>4. CASE /\ AppendMessage([k \in 1..n |-> 0])
           /\ pumpAt' = "tool"
           /\ turn' = [turn EXCEPT !.forced = TRUE]
           /\ UNCHANGED <<queue, running, status, aborted>>
           /\ UNCHANGED ghosts
  <2>1. HistoryTyped' /\ GhostsTyped'
    BY <1>1, <1>4, AppendMessageTyped, BatchResultsTyped, GhostsKept
  <2>2. QueueTyped' /\ aborted' \in BOOLEAN /\ turn' \in TurnType
    BY <1>1, <1>4 DEF Typed, QueueTyped, TurnType
  <2> QED
    BY <2>1, <2>2 DEF Typed
<1> QED
  BY <1>2, <1>3, <1>4 DEF BeforeTurnReturns, n

LEMMA ToolTyped ==
  ASSUME TypeOK, ToolReturns \/ ToolRejected \/ ToolAborted
  PROVE  Typed'
<1>1. Typed
  BY TypeOKParts
<1>2. ASSUME ToolReturns PROVE Typed'
  <2>1. HistoryTyped' /\ GhostsTyped'
    BY <1>1, <1>2, AnswerOneTyped, GhostsKept DEF ToolReturns, HistoryTyped, Typed
  <2>2. QueueTyped' /\ aborted' \in BOOLEAN
    BY <1>1, <1>2, AfterBatchTyped DEF ToolReturns, QueueTyped, Typed
  <2>3. turn' \in TurnType
    BY <1>1, <1>2 DEF ToolReturns, TurnType, Typed
  <2> QED
    BY <2>1, <2>2, <2>3 DEF Typed
<1>3. ASSUME ToolRejected PROVE Typed'
  BY <1>1, <1>3, AnswerFromTyped, CompleteTurnTyped, GhostsKept
  DEF ToolRejected, HistoryTyped, Typed
<1>4. ASSUME ToolAborted PROVE Typed'
  BY <1>1, <1>4, AnswerFromTyped, FailTurnTyped DEF ToolAborted, HistoryTyped, Typed
<1> QED
  BY <1>2, <1>3, <1>4

LEMMA CallsTyped ==
  ASSUME TypeOK, Calls
  PROVE  Typed'
<1>1. Typed
  BY TypeOKParts
<1>2. ASSUME NEW p \in Prompt, Submit(p) PROVE Typed'
  <2>1. QueueTyped' /\ turn' \in TurnType
    <3>1. <<p>> \in Seq(Prompt) /\ Enqueue(<<p>>)
      BY <1>2 DEF Submit
    <3>2. PICK q \in Seq(Prompt) : Enqueue(q)
      BY <3>1
    <3> QED
      BY <3>2, EnqueueTyped
  <2> QED
    BY <1>1, <1>2, <2>1, GhostsKept DEF Submit, Typed, HistoryTyped
<1>3. ASSUME NEW n \in Prompt, NEW holes \in BOOLEAN, Restore(n, holes) PROVE Typed'
  <2> DEFINE items == [i \in 1..n |-> i]
  <2>1. items \in Seq(Prompt) /\ Enqueue(items)
    BY <1>3, OptionsAssumption DEF Prompt, Restore
  <2> HIDE DEF items
  <2>2. PICK q \in Seq(Prompt) : Enqueue(q)
    BY <2>1
  <2>3. QueueTyped' /\ turn' \in TurnType
    BY <2>2, EnqueueTyped
  <2> QED
    BY <1>1, <1>3, <2>3 DEF Restore, Typed, HistoryTyped, GhostsTyped
<1>4. ASSUME NEW i \in DOMAIN queue, RemoveFromQueue(i) PROVE Typed'
  <2>1. queue' \in Seq(Prompt)
    BY <1>1, <1>4, RemoveAtTyped DEF RemoveFromQueue, Typed, QueueTyped
  <2>2. QueueTyped'
    BY <1>1, <1>4, <2>1 DEF RemoveFromQueue, Typed, QueueTyped, Status
  <2> QED
    BY <1>1, <1>4, <2>2, GhostsKept DEF RemoveFromQueue, Typed, HistoryTyped
<1>5. ASSUME NEW clear \in BOOLEAN, Abort(clear) PROVE Typed'
  <2>1. queue' \in Seq(Prompt) /\ status' \in [Prompt -> Status]
    <3>1. Marked(status, ToSet(queue), "removed") \in [Prompt -> Status]
      BY <1>1, MarkedTyped DEF Typed, QueueTyped, Status
    <3>2. \/ queue' = <<>> /\ status' = Marked(status, ToSet(queue), "removed")
          \/ queue' = queue /\ status' = status
      BY <1>5 DEF Abort
    <3>3. <<>> \in Seq(Prompt)
      OBVIOUS
    <3> QED
      BY <1>1, <3>1, <3>2, <3>3 DEF Typed, QueueTyped
  <2> QED
    BY <1>1, <1>5, <2>1
    DEF Abort, Typed, QueueTyped, HistoryTyped, GhostsTyped
<1> QED
  BY <1>2, <1>3, <1>4, <1>5 DEF Calls

LEMMA TypeStep ==
  ASSUME TypeOK, [Next]_vars
  PROVE  TypeOK'
<1>1. Typed
  BY TypeOKParts
<1>2. CASE ModelFails \/ TurnCompleteThrows
  BY <1>1, <1>2, FailTurnTyped, TypeOKParts
  DEF ModelFails, TurnCompleteThrows, Typed, HistoryTyped
<1>3. CASE TurnCompleteReturns
  <2>1. QueueTyped' /\ turn' \in TurnType
    BY <1>1, <1>3, PumpLoopTyped DEF TurnCompleteReturns, Typed, QueueTyped
  <2> QED
    BY <1>1, <1>3, <2>1, GhostsKept, TypeOKParts
    DEF TurnCompleteReturns, Typed, HistoryTyped
<1>4. CASE UNCHANGED vars
  BY <1>1, <1>4, TypeOKParts
  DEF vars, Typed, QueueTyped, HistoryTyped, GhostsTyped
<1> QED
  BY <1>2, <1>3, <1>4, CallsTyped, BeforeTurnTyped, ModelReplyTyped, ToolTyped,
     TypeOKParts DEF Next, Resume

\* Every state variable keeps its type, for any number of prompts and any options.
THEOREM TypeCorrect == Spec => []TypeOK
<1>1. ASSUME Init PROVE TypeOK
  <2>1. queue \in Seq(Prompt) /\ running \in Seq(Prompt) /\ results \in Seq(Nat)
    BY <1>1 DEF Init
  <2>2. status \in [Prompt -> Status] /\ pumpAt = "idle" /\ ~aborted /\ ~dangling
    BY <1>1 DEF Init, Status
  <2>3. turn \in TurnType /\ abortCalls = 0 /\ abortTurns = 0 /\ cause = {}
    BY <1>1, FreshTurnTyped DEF Init
  <2>4. aborted \in BOOLEAN /\ dangling \in BOOLEAN
    BY <1>1 DEF Init
  <2> QED
    BY <2>1, <2>2, <2>3, <2>4, TypeOKParts
    DEF Typed, QueueTyped, HistoryTyped, GhostsTyped
<1>2. TypeOK /\ [Next]_vars => TypeOK'
  BY TypeStep
<1> QED
  BY <1>1, <1>2, PTL DEF Spec

-----------------------------------------------------------------------------
(* Serving the queue.  PromptAccounted and NoOvertaking are not inductive:  *)
(* that a removal or a new turn leaves a status right needs a queue without *)
(* duplicates, that a new prompt goes behind every other one needs prompts  *)
(* to arrive in order, and that the next turn finds no prompt still marked  *)
(* running needs the statuses of the batch under way.                       *)

Started == {"running", "done", "error", "aborted"}

\* q and st say the same about who waits, in arrival order.
Agree(q, st) ==
  /\ \A p \in Prompt : st[p] = "queued" <=> p \in ToSet(q)
  /\ \A i, j \in DOMAIN q : i < j => q[i] < q[j]
  /\ \A p, r \in Prompt : st[p] = "queued" /\ st[r] \in Started => r < p
  /\ \A p, r \in Prompt : r < p /\ st[p] # "new" => st[r] # "new"

BatchMarked ==
  /\ pumpAt # "turnComplete" => \A p \in ToSet(running) : status[p] = "running"
  /\ pumpAt = "turnComplete" => \A p \in ToSet(running) : status[p] = "done"
  /\ \A p \in Prompt : status[p] = "running" => p \in ToSet(running)

\* The inductive invariant behind NoStrandedPrompt, PromptAccounted, NoOvertaking.
Serving ==
  /\ Agree(queue, status)
  /\ BatchMarked
  /\ NoStrandedPrompt
  /\ running = <<>> <=> pumpAt = "idle"

LEMMA InToSet ==
  ASSUME NEW s, NEW x
  PROVE  x \in ToSet(s) <=> \E i \in DOMAIN s : s[i] = x
BY DEF ToSet

LEMMA EmptyToSet == ToSet(<<>>) = {}
BY DEF ToSet

LEMMA SingletonToSet == ASSUME NEW x PROVE ToSet(<<x>>) = {x}
BY DEF ToSet

LEMMA TailFacts ==
  ASSUME NEW q \in Seq(Prompt), q # <<>>
  PROVE  /\ DOMAIN q = 1..Len(q) /\ Len(q) \in Nat \ {0}
         /\ Tail(q) \in Seq(Prompt) /\ DOMAIN Tail(q) = 1..(Len(q) - 1)
         /\ \A i \in 1..(Len(q) - 1) : Tail(q)[i] = q[i + 1]
         /\ Head(q) = q[1] /\ q[1] \in Prompt
         /\ \A i \in 1..Len(q) : q[i] \in Prompt
OBVIOUS

\* Taking the first prompt of an ordered queue leaves the others.
LEMMA TailToSet ==
  ASSUME NEW q \in Seq(Prompt), q # <<>>,
         \A i, j \in DOMAIN q : i < j => q[i] < q[j]
  PROVE  \A x : x \in ToSet(Tail(q)) <=> x \in ToSet(q) /\ x # Head(q)
<1> TAKE x
<1>1. ASSUME x \in ToSet(Tail(q)) PROVE x \in ToSet(q) /\ x # Head(q)
  <2>0. PICK i \in DOMAIN Tail(q) : Tail(q)[i] = x
    BY <1>1, InToSet
  <2>1. i \in 1..(Len(q) - 1) /\ q[i + 1] = x
    BY <2>0, TailFacts
  <2>2. i + 1 \in 1..Len(q) /\ 1 \in 1..Len(q) /\ 1 < i + 1
    BY TailFacts
  <2>3. q[1] < q[i + 1]
    BY <2>2, TailFacts
  <2>4. q[1] \in Int /\ q[i + 1] \in Int
    <3>1. \A y \in Prompt : y \in Int
      BY OptionsAssumption DEF Prompt
    <3> QED BY <3>1, <2>2, TailFacts
  <2>5. q[1] # q[i + 1]
    BY <2>3, <2>4
  <2>6. x \in ToSet(q)
    BY <2>1, <2>2, InToSet, TailFacts
  <2> QED
    BY <2>1, <2>5, <2>6, TailFacts
<1>2. ASSUME x \in ToSet(q), x # Head(q) PROVE x \in ToSet(Tail(q))
  <2>1. PICK i \in 1..Len(q) : q[i] = x
    BY <1>2, InToSet, TailFacts
  <2>2. i - 1 \in 1..(Len(q) - 1)
    BY <1>2, <2>1, TailFacts
  <2>3. Tail(q)[i - 1] = x
    BY <2>1, <2>2, TailFacts
  <2> QED
    BY <2>2, <2>3, InToSet, TailFacts
<1> QED
  BY <1>1, <1>2

LEMMA PumpLoopServes ==
  ASSUME NEW q \in Seq(Prompt), NEW st \in [Prompt -> Status],
         Agree(q, st), \A p \in Prompt : st[p] # "running", PumpLoop(q, st)
  PROVE  Serving'
<1>1. CASE q = <<>>
  <2>1. queue' = <<>> /\ running' = <<>> /\ pumpAt' = "idle"
    BY <1>1 DEF PumpLoop, Batch, Rest
  <2>2. status' = st
    BY <1>1, EmptyToSet DEF PumpLoop, Batch, Marked
  <2> QED
    BY <1>1, <2>1, <2>2, EmptyToSet DEF Serving, BatchMarked, NoStrandedPrompt, Agree
<1>2. CASE q # <<>> /\ Coalesce
  <2>1. queue' = <<>> /\ running' = q /\ pumpAt' = "beforeTurn"
    BY <1>2 DEF PumpLoop, Batch, Rest
  <2>2. \A p \in Prompt : status'[p] = IF p \in ToSet(q) THEN "running" ELSE st[p]
    BY <1>2 DEF PumpLoop, Batch, Marked
  <2>3. Agree(queue, status)'
    BY <2>1, <2>2, EmptyToSet DEF Agree, Started
  <2>4. ToSet(q) \subseteq Prompt
    BY ToSetTyped
  <2>5. BatchMarked'
    BY <2>1, <2>2, <2>4 DEF BatchMarked
  <2> QED
    BY <1>2, <2>1, <2>3, <2>5 DEF Serving, NoStrandedPrompt
<1>3. CASE q # <<>> /\ ~Coalesce
  <2>1. queue' = Tail(q) /\ running' = <<Head(q)>> /\ pumpAt' = "beforeTurn"
    BY <1>3 DEF PumpLoop, Batch, Rest
  <2>2. \A p \in Prompt : status'[p] = IF p = Head(q) THEN "running" ELSE st[p]
    BY <1>3, SingletonToSet DEF PumpLoop, Batch, Marked
  <2>3. Agree(queue, status)'
    <3>1. \A p \in Prompt : status'[p] = "queued" <=> p \in ToSet(queue')
      BY <1>3, <2>1, <2>2, TailToSet DEF Agree
    <3>2. \A i, j \in DOMAIN queue' : i < j => queue'[i] < queue'[j]
      BY <1>3, <2>1, TailFacts DEF Agree
    <3>3. ASSUME NEW p \in Prompt, NEW r \in Prompt,
                 status'[p] = "queued", status'[r] \in Started
          PROVE  r < p
      <4>1. st[p] = "queued" /\ p \in ToSet(q) /\ p # Head(q)
        BY <2>2, <3>3 DEF Agree
      <4>2. CASE r = Head(q)
        <5>1. PICK i \in 1..Len(q) : q[i] = p /\ i # 1
          BY <1>3, <4>1, InToSet, TailFacts
        <5>2. 1 \in 1..Len(q) /\ 1 < i
          BY <1>3, <5>1, TailFacts
        <5> QED
          BY <1>3, <4>2, <5>1, <5>2, TailFacts DEF Agree
      <4>3. CASE r # Head(q)
        BY <2>2, <3>3, <4>1, <4>3 DEF Agree
      <4> QED
        BY <4>2, <4>3
    <3>4. \A p, r \in Prompt : r < p /\ status'[p] # "new" => status'[r] # "new"
      <4>1. st[Head(q)] = "queued" /\ Head(q) \in Prompt
        BY <1>3, InToSet, TailFacts DEF Agree
      <4> QED
        BY <2>2, <4>1 DEF Agree
    <3> QED
      BY <3>1, <3>2, <3>3, <3>4 DEF Agree
  <2>4. BatchMarked'
    BY <1>3, <2>1, <2>2, SingletonToSet, TailFacts DEF BatchMarked
  <2> QED
    BY <2>1, <2>3, <2>4 DEF Serving, NoStrandedPrompt
<1> QED
  BY <1>1, <1>2, <1>3

LEMMA AppendFacts ==
  ASSUME NEW q \in Seq(Prompt), NEW r \in Seq(Prompt)
  PROVE  /\ Len(q) \in Nat /\ Len(r) \in Nat
         /\ DOMAIN q = 1..Len(q) /\ DOMAIN r = 1..Len(r)
         /\ q \o r \in Seq(Prompt) /\ DOMAIN (q \o r) = 1..(Len(q) + Len(r))
         /\ \A i \in 1..Len(q) : (q \o r)[i] = q[i]
         /\ \A i \in 1..Len(r) : (q \o r)[Len(q) + i] = r[i]
OBVIOUS

LEMMA AppendToSet ==
  ASSUME NEW q \in Seq(Prompt), NEW r \in Seq(Prompt)
  PROVE  \A x : x \in ToSet(q \o r) <=> x \in ToSet(q) \/ x \in ToSet(r)
<1> TAKE x
<1>1. ASSUME x \in ToSet(q \o r) PROVE x \in ToSet(q) \/ x \in ToSet(r)
  <2>0. PICK i \in DOMAIN (q \o r) : (q \o r)[i] = x
    BY <1>1, InToSet
  <2>1. i \in 1..(Len(q) + Len(r)) /\ (q \o r)[i] = x
    BY <2>0, AppendFacts
  <2>2. CASE i <= Len(q)
    <3>1. i \in 1..Len(q) /\ q[i] = x
      BY <2>1, <2>2, AppendFacts
    <3> QED
      BY <3>1, InToSet, AppendFacts
  <2>3. CASE i > Len(q)
    <3>1. (i - Len(q)) \in 1..Len(r) /\ i = Len(q) + (i - Len(q))
      BY <2>1, <2>3, AppendFacts
    <3>2. r[i - Len(q)] = x
      BY <2>1, <3>1, AppendFacts
    <3> QED
      BY <3>1, <3>2, InToSet, AppendFacts
  <2> QED
    BY <2>1, <2>2, <2>3, AppendFacts
<1>2. ASSUME x \in ToSet(q) PROVE x \in ToSet(q \o r)
  <2>1. PICK i \in 1..Len(q) : q[i] = x
    BY <1>2, InToSet, AppendFacts
  <2>2. i \in 1..(Len(q) + Len(r)) /\ (q \o r)[i] = x
    BY <2>1, AppendFacts
  <2> QED
    BY <2>2, InToSet, AppendFacts
<1>3. ASSUME x \in ToSet(r) PROVE x \in ToSet(q \o r)
  <2>1. PICK i \in 1..Len(r) : r[i] = x
    BY <1>3, InToSet, AppendFacts
  <2>2. Len(q) + i \in 1..(Len(q) + Len(r)) /\ (q \o r)[Len(q) + i] = x
    BY <2>1, AppendFacts
  <2> QED
    BY <2>2, InToSet, AppendFacts
<1> QED
  BY <1>1, <1>2, <1>3

\* New prompts, in arrival order and the oldest not yet arrived, go behind the rest.
LEMMA EnqueueServes ==
  ASSUME TypeOK, Serving, NEW items \in Seq(Prompt), Enqueue(items),
         \A i, j \in DOMAIN items : i < j => items[i] < items[j],
         \A p \in ToSet(items) : status[p] = "new",
         \A p \in ToSet(items), r \in Prompt :
           r < p => status[r] # "new" \/ r \in ToSet(items)
  PROVE  Serving'
<1> DEFINE q == queue \o items
           st == Marked(status, ToSet(items), "queued")
<1>1. queue \in Seq(Prompt) /\ status \in [Prompt -> Status]
  BY DEF TypeOK, Status
<1>2. q \in Seq(Prompt) /\ st \in [Prompt -> Status]
  BY <1>1, MarkedTyped DEF Status
<1>3. \A p \in Prompt : st[p] = IF p \in ToSet(items) THEN "queued" ELSE status[p]
  BY DEF Marked
<1>4. \A p \in Prompt : p \in ToSet(q) <=> p \in ToSet(queue) \/ p \in ToSet(items)
  BY <1>1, AppendToSet
<1>5. ToSet(items) \subseteq Prompt /\ ToSet(queue) \subseteq Prompt
  BY <1>1, ToSetTyped
<1>6. \A p \in ToSet(queue), r \in ToSet(items) : p < r
  <2> TAKE p \in ToSet(queue), r \in ToSet(items)
  <2>1. status[p] = "queued" /\ status[r] = "new"
    BY <1>5 DEF Serving, Agree
  <2>2. ~(r < p) /\ r # p
    BY <1>5, <2>1 DEF Serving, Agree
  <2> QED
    BY <1>5, <2>2, OptionsAssumption DEF Prompt
<1> HIDE DEF q, st
<1>7. Agree(q, st)
  <2>1. \A p \in Prompt : st[p] = "queued" <=> p \in ToSet(q)
    BY <1>3, <1>4 DEF Serving, Agree
  <2>2. ASSUME NEW i \in DOMAIN q, NEW j \in DOMAIN q, i < j
        PROVE  q[i] < q[j]
    <3>1. /\ Len(queue) \in Nat /\ DOMAIN queue = 1..Len(queue)
          /\ i \in 1..(Len(queue) + Len(items)) /\ j \in 1..(Len(queue) + Len(items))
          /\ Len(items) \in Nat /\ DOMAIN items = 1..Len(items)
      BY <1>1, AppendFacts DEF q
    <3>2. CASE j <= Len(queue)
      <4>1. i \in 1..Len(queue) /\ j \in 1..Len(queue)
        BY <2>2, <3>1, <3>2
      <4>2. q[i] = queue[i] /\ q[j] = queue[j]
        BY <1>1, <4>1, AppendFacts DEF q
      <4> QED
        BY <2>2, <3>1, <4>1, <4>2 DEF Serving, Agree
    <3>3. CASE i <= Len(queue) /\ j > Len(queue)
      <4>1. i \in 1..Len(queue) /\ (j - Len(queue)) \in 1..Len(items)
            /\ j = Len(queue) + (j - Len(queue))
        BY <3>1, <3>3
      <4>2. q[i] = queue[i] /\ q[j] = items[j - Len(queue)]
        BY <1>1, <4>1, AppendFacts DEF q
      <4>3. q[i] \in ToSet(queue) /\ q[j] \in ToSet(items)
        BY <3>1, <4>1, <4>2, InToSet
      <4> QED
        BY <1>6, <4>3
    <3>4. CASE i > Len(queue)
      <4>1. /\ (i - Len(queue)) \in 1..Len(items) /\ i = Len(queue) + (i - Len(queue))
            /\ (j - Len(queue)) \in 1..Len(items) /\ j = Len(queue) + (j - Len(queue))
            /\ i - Len(queue) < j - Len(queue)
        <5> DEFINE n == Len(queue)
                   k == Len(items)
        <5>1. n \in Nat /\ k \in Nat /\ i \in 1..(n + k) /\ j \in 1..(n + k) /\ i > n /\ i < j
          BY <2>2, <3>1, <3>4
        <5> HIDE DEF n, k
        <5>2. i - n \in 1..k /\ i = n + (i - n) /\ j - n \in 1..k /\ j = n + (j - n)
              /\ i - n < j - n
          BY <5>1
        <5> QED BY <5>2 DEF n, k
      <4>2. q[i] = items[i - Len(queue)] /\ q[j] = items[j - Len(queue)]
        BY <1>1, <4>1, AppendFacts DEF q
      <4> QED
        BY <3>1, <4>1, <4>2
    <3> QED
      BY <3>1, <3>2, <3>3, <3>4
  <2>3. ASSUME NEW p \in Prompt, NEW r \in Prompt, st[p] = "queued", st[r] \in Started
        PROVE  r < p
    <3>1. r \notin ToSet(items) /\ status[r] \in Started
      BY <1>3, <2>3 DEF Started
    <3>2. CASE p \in ToSet(items)
      <4>1. ~(p < r) /\ p # r
        BY <3>1, <3>2 DEF Serving, Agree, Started
      <4> QED
        BY <4>1, OptionsAssumption DEF Prompt
    <3>3. CASE p \notin ToSet(items)
      BY <1>3, <2>3, <3>1, <3>3 DEF Serving, Agree
    <3> QED
      BY <3>2, <3>3
  <2>4. \A p, r \in Prompt : r < p /\ st[p] # "new" => st[r] # "new"
    BY <1>3 DEF Serving, Agree
  <2> QED
    BY <2>1, <2>2, <2>3, <2>4 DEF Agree
<1>8. CASE pumpAt = "idle"
  <2>1. PumpLoop(q, st)
    BY <1>8 DEF Enqueue, q, st
  <2>2. \A p \in Prompt : st[p] # "running"
    BY <1>3, <1>8, EmptyToSet DEF Serving, BatchMarked
  <2> QED
    BY <1>2, <1>7, <2>1, <2>2, PumpLoopServes
<1>9. CASE pumpAt # "idle"
  <2>1. queue' = q /\ status' = st /\ UNCHANGED <<running, pumpAt, turn>>
    BY <1>9 DEF Enqueue, q, st
  <2>2. ToSet(running) \subseteq Prompt /\ ToSet(running) \intersect ToSet(items) = {}
    <3>1. ToSet(running) \subseteq Prompt
      BY ToSetTyped DEF TypeOK
    <3>2. \A p \in ToSet(running) : status[p] # "new"
      BY DEF Serving, BatchMarked
    <3> QED
      BY <3>1, <3>2
  <2>3. BatchMarked'
    BY <1>3, <2>1, <2>2 DEF Serving, BatchMarked
  <2> QED
    BY <1>7, <1>9, <2>1, <2>3 DEF Serving, NoStrandedPrompt
<1> QED
  BY <1>8, <1>9

LEMMA RemoveAtFacts ==
  ASSUME NEW q \in Seq(Prompt), NEW i \in DOMAIN q
  PROVE  /\ Len(q) \in Nat \ {0} /\ DOMAIN q = 1..Len(q)
         /\ DOMAIN RemoveAt(q, i) = 1..(Len(q) - 1)
         /\ \A j \in 1..(Len(q) - 1) :
              RemoveAt(q, i)[j] = IF j < i THEN q[j] ELSE q[j + 1]
<1> DEFINE a == SubSeq(q, 1, i - 1)
           b == SubSeq(q, i + 1, Len(q))
<1>1. Len(q) \in Nat /\ DOMAIN q = 1..Len(q) /\ i \in 1..Len(q)
  OBVIOUS
<1>2. /\ a \in Seq(Prompt) /\ Len(a) = i - 1
      /\ \A j \in 1..(i - 1) : a[j] = q[j]
  BY <1>1
<1>3. /\ b \in Seq(Prompt) /\ Len(b) = Len(q) - i
      /\ \A j \in 1..(Len(q) - i) : b[j] = q[i + j]
  BY <1>1
<1>4. RemoveAt(q, i) = a \o b
  BY DEF RemoveAt
<1> HIDE DEF a, b
<1>5. /\ DOMAIN (a \o b) = 1..(Len(q) - 1)
      /\ \A j \in 1..(i - 1) : (a \o b)[j] = q[j]
      /\ \A j \in 1..(Len(q) - i) : (a \o b)[i - 1 + j] = q[i + j]
  <2>1. /\ DOMAIN (a \o b) = 1..(Len(a) + Len(b))
        /\ \A j \in 1..Len(a) : (a \o b)[j] = a[j]
        /\ \A j \in 1..Len(b) : (a \o b)[Len(a) + j] = b[j]
    BY <1>2, <1>3, AppendFacts
  <2>2. Len(a) + Len(b) = Len(q) - 1
    BY <1>1, <1>2, <1>3
  <2> QED
    BY <1>2, <1>3, <2>1, <2>2
<1>6. \A j \in 1..(Len(q) - 1) : (a \o b)[j] = IF j < i THEN q[j] ELSE q[j + 1]
  <2> TAKE j \in 1..(Len(q) - 1)
  <2>1. CASE j < i
    <3>1. j \in 1..(i - 1)
      BY <1>1, <2>1
    <3> QED
      BY <1>5, <2>1, <3>1
  <2>2. CASE j >= i
    <3>1. /\ j - i + 1 \in 1..(Len(q) - i) /\ i - 1 + (j - i + 1) = j
          /\ i + (j - i + 1) = j + 1 /\ ~(j < i)
      BY <1>1, <2>2
    <3>2. (a \o b)[i - 1 + (j - i + 1)] = q[i + (j - i + 1)]
      BY <1>5, <3>1
    <3>3. (a \o b)[j] = q[j + 1]
      BY <3>1, <3>2, Zenon
    <3> QED
      BY <3>1, <3>3
  <2>3. j < i \/ j >= i
    BY <1>1
  <2> QED
    BY <2>1, <2>2, <2>3, Zenon
<1>7. Len(q) \in Nat \ {0}
  BY <1>1
<1> QED
  BY <1>1, <1>4, <1>5, <1>6, <1>7

LEMMA RemoveAtToSet ==
  ASSUME NEW q \in Seq(Prompt), NEW i \in DOMAIN q,
         \A k, j \in DOMAIN q : k < j => q[k] < q[j]
  PROVE  \A x : x \in ToSet(RemoveAt(q, i)) <=> x \in ToSet(q) /\ x # q[i]
<1> DEFINE s == RemoveAt(q, i)
<1>1. /\ Len(q) \in Nat \ {0} /\ DOMAIN q = 1..Len(q) /\ DOMAIN s = 1..(Len(q) - 1)
      /\ \A j \in 1..(Len(q) - 1) : s[j] = IF j < i THEN q[j] ELSE q[j + 1]
      /\ i \in 1..Len(q) /\ \A j \in 1..Len(q) : q[j] \in Int
  <2>1. \A x \in Prompt : x \in Int
    BY OptionsAssumption DEF Prompt
  <2>2. /\ Len(q) \in Nat \ {0} /\ DOMAIN q = 1..Len(q) /\ DOMAIN s = 1..(Len(q) - 1)
        /\ \A j \in 1..(Len(q) - 1) : s[j] = IF j < i THEN q[j] ELSE q[j + 1]
    BY RemoveAtFacts
  <2> HIDE DEF s
  <2>3. \A j \in 1..Len(q) : q[j] \in Prompt
    BY <2>2
  <2> QED BY <2>1, <2>2, <2>3
<1> HIDE DEF s
<1>2. \A j, k \in 1..Len(q) : j # k => q[j] # q[k]
  <2>1. \A j, k \in 1..Len(q) : j < k => q[j] < q[k]
    BY <1>1
  <2> SUFFICES ASSUME NEW j \in 1..Len(q), NEW k \in 1..Len(q), j # k, q[j] = q[k] PROVE FALSE
    OBVIOUS
  <2>2. j \in Int /\ k \in Int /\ q[j] \in Int /\ q[k] \in Int
    BY <1>1
  <2>3. j < k \/ k < j
    BY <2>2
  <2>4. q[j] < q[k] \/ q[k] < q[j]
    BY <2>1, <2>3
  <2> QED BY <2>2, <2>4
<1> SUFFICES ASSUME NEW x PROVE x \in ToSet(s) <=> x \in ToSet(q) /\ x # q[i]
  BY DEF s
<1>3. ASSUME x \in ToSet(s) PROVE x \in ToSet(q) /\ x # q[i]
  <2>1. PICK j \in DOMAIN s : s[j] = x
    BY <1>3, InToSet
  <2>2. PICK k \in 1..Len(q) : k # i /\ q[k] = x
    BY <1>1, <2>1
  <2> QED
    BY <1>1, <1>2, <2>2, InToSet
<1>4. ASSUME x \in ToSet(q), x # q[i] PROVE x \in ToSet(s)
  <2>1. PICK k \in DOMAIN q : q[k] = x
    BY <1>4, InToSet
  <2>2. k \in 1..Len(q) /\ k # i
    BY <1>1, <1>4, <2>1
  <2>3. CASE k < i
    <3>1. k \in DOMAIN s /\ s[k] = x
      BY <1>1, <2>1, <2>2, <2>3
    <3> QED
      BY <3>1, InToSet
  <2>4. CASE k > i
    <3>1. k - 1 \in DOMAIN s /\ s[k - 1] = x
      BY <1>1, <2>1, <2>2, <2>4
    <3> QED
      BY <3>1, InToSet
  <2> QED
    BY <1>1, <2>2, <2>3, <2>4
<1> QED
  BY <1>3, <1>4

LEMMA RemoveServes ==
  ASSUME TypeOK, Serving, NEW i \in DOMAIN queue, RemoveFromQueue(i)
  PROVE  Serving'
<1>1. queue \in Seq(Prompt) /\ status \in [Prompt -> Status]
      /\ queue[i] \in Prompt /\ ToSet(running) \subseteq Prompt
  BY ToSetTyped DEF TypeOK, Status
<1>2. /\ queue' = RemoveAt(queue, i)
      /\ \A p \in Prompt : status'[p] = IF p = queue[i] THEN "removed" ELSE status[p]
      /\ UNCHANGED <<running, pumpAt>>
  BY <1>1 DEF RemoveFromQueue
<1>3. status[queue[i]] = "queued"
  BY <1>1, InToSet DEF Serving, Agree
<1>4. Agree(queue, status)'
  <2>1. \A p \in Prompt : status'[p] = "queued" <=> p \in ToSet(queue')
    BY <1>1, <1>2, RemoveAtToSet DEF Serving, Agree
  <2>2. \A j, k \in DOMAIN queue' : j < k => queue'[j] < queue'[k]
    <3>1. /\ Len(queue) \in Nat \ {0} /\ DOMAIN queue = 1..Len(queue)
          /\ DOMAIN queue' = 1..(Len(queue) - 1) /\ i \in 1..Len(queue)
          /\ \A j \in 1..(Len(queue) - 1) :
               queue'[j] = IF j < i THEN queue[j] ELSE queue[j + 1]
      BY <1>1, <1>2, RemoveAtFacts
    <3>2. \A j, k \in 1..Len(queue) : j < k => queue[j] < queue[k]
      BY <3>1 DEF Serving, Agree
    <3>3. ASSUME NEW j \in DOMAIN queue', NEW k \in DOMAIN queue', j < k
          PROVE  queue'[j] < queue'[k]
      <4> DEFINE jj == IF j < i THEN j ELSE j + 1
                 kk == IF k < i THEN k ELSE k + 1
      <4>1. jj \in 1..Len(queue) /\ kk \in 1..Len(queue) /\ jj < kk
        BY <3>1, <3>3
      <4>2. queue'[j] = queue[jj] /\ queue'[k] = queue[kk]
        BY <3>1, <3>3
      <4> QED
        BY <3>2, <4>1, <4>2
    <3> QED
      BY <3>3
  <2> QED
    BY <1>2, <1>3, <2>1, <2>2 DEF Serving, Agree, Started
<1>5. BatchMarked'
  BY <1>1, <1>2, <1>3 DEF Serving, BatchMarked
<1>6. queue # <<>>
  BY <1>1
<1> QED
  BY <1>2, <1>4, <1>5, <1>6 DEF Serving, NoStrandedPrompt

LEMMA AbortServes ==
  ASSUME TypeOK, Serving, NEW clear \in BOOLEAN, Abort(clear)
  PROVE  Serving'
<1>1. ToSet(running) \subseteq Prompt
  BY ToSetTyped DEF TypeOK
<1>2. CASE clear
  <2>1. queue' = <<>> /\ UNCHANGED <<running, pumpAt>>
    BY <1>2 DEF Abort
  <2>2. \A p \in Prompt :
          status'[p] = IF p \in ToSet(queue) THEN "removed" ELSE status[p]
    BY <1>2 DEF Abort, Marked
  <2>3. Agree(queue, status)'
    BY <2>1, <2>2, EmptyToSet DEF Serving, Agree, Started
  <2>4. BatchMarked'
    BY <1>1, <2>1, <2>2 DEF Serving, BatchMarked, Agree
  <2> QED
    BY <2>1, <2>3, <2>4 DEF Serving, NoStrandedPrompt
<1>3. CASE ~clear
  BY <1>3 DEF Abort, Serving, Agree, BatchMarked, NoStrandedPrompt
<1> QED
  BY <1>2, <1>3

LEMMA FailTurnServes ==
  ASSUME TypeOK, Serving, FailTurn
  PROVE  Serving'
<1> DEFINE outcome == IF aborted THEN "aborted" ELSE "error"
           st == Marked(status, ToSet(running), outcome)
<1>1. queue \in Seq(Prompt) /\ status \in [Prompt -> Status]
      /\ ToSet(running) \subseteq Prompt
  BY ToSetTyped DEF TypeOK, Status
<1>2. outcome \in {"aborted", "error"} /\ PumpLoop(queue, st)
  BY DEF FailTurn
<1> HIDE DEF outcome
<1>3. \A p \in Prompt : st[p] = IF p \in ToSet(running) THEN outcome ELSE status[p]
  BY DEF Marked
<1>4. st \in [Prompt -> Status]
  BY <1>1, <1>2, MarkedTyped DEF Status
<1> HIDE DEF st
<1>5. \A p \in ToSet(running) : status[p] \in Started /\ status[p] # "queued"
  BY DEF Serving, BatchMarked, Started
<1>6. Agree(queue, st)
  <2>1. \A p \in Prompt : st[p] = "queued" <=> p \in ToSet(queue)
    BY <1>2, <1>3, <1>5 DEF Serving, Agree
  <2>2. \A p, r \in Prompt : st[p] = "queued" /\ st[r] \in Started => r < p
    <3> TAKE p \in Prompt, r \in Prompt
    <3> HAVE st[p] = "queued" /\ st[r] \in Started
    <3>1. status[p] = "queued" /\ status[r] \in Started
      BY <1>2, <1>3, <1>5
    <3> QED
      BY <3>1 DEF Serving, Agree
  <2>3. \A p, r \in Prompt : r < p /\ st[p] # "new" => st[r] # "new"
    BY <1>2, <1>3, <1>5 DEF Serving, Agree, Started
  <2> QED
    BY <2>1, <2>2, <2>3 DEF Serving, Agree
<1>7. \A p \in Prompt : st[p] # "running"
  BY <1>2, <1>3 DEF Serving, BatchMarked
<1> QED
  BY <1>1, <1>2, <1>4, <1>6, <1>7, PumpLoopServes

LEMMA CompleteTurnServes ==
  ASSUME TypeOK, Serving, pumpAt \in {"model", "tool"}, CompleteTurn
  PROVE  Serving'
<1>1. ToSet(running) \subseteq Prompt
  BY ToSetTyped DEF TypeOK
<1>2. /\ \A p \in Prompt : status'[p] = IF p \in ToSet(running) THEN "done" ELSE status[p]
      /\ pumpAt' = "turnComplete"
      /\ UNCHANGED <<queue, running>>
  BY DEF CompleteTurn, Marked
<1>3. \A p \in ToSet(running) : status[p] = "running"
  BY DEF Serving, BatchMarked
<1>4. Agree(queue, status)'
  BY <1>2, <1>3 DEF Serving, Agree, Started
<1>5. BatchMarked'
  BY <1>1, <1>2 DEF Serving, BatchMarked
<1> QED
  BY <1>2, <1>4, <1>5 DEF Serving, NoStrandedPrompt

LEMMA SameTurnServes ==
  ASSUME TypeOK, Serving, pumpAt \in {"beforeTurn", "model", "tool"},
         UNCHANGED <<queue, running, status>>, pumpAt' \in {"model", "tool"}
  PROVE  Serving'
BY DEF Serving, Agree, BatchMarked, NoStrandedPrompt

LEMMA ServingStep ==
  ASSUME TypeOK, Serving, [Next]_vars
  PROVE  Serving'
<1>1. ASSUME NEW p \in Prompt, Submit(p) PROVE Serving'
  <2> DEFINE items == <<p>>
  <2>1. items \in Seq(Prompt) /\ Enqueue(items) /\ ToSet(items) = {p}
    BY <1>1, SingletonToSet DEF Submit
  <2>2. \A i, j \in DOMAIN items : i < j => items[i] < items[j]
    OBVIOUS
  <2>3. status[p] = "new" /\ \A r \in Prompt : r < p => status[r] # "new"
    BY <1>1 DEF Submit
  <2> HIDE DEF items
  <2>4. PICK q \in Seq(Prompt) : /\ Enqueue(q) /\ ToSet(q) = {p}
                                 /\ \A i, j \in DOMAIN q : i < j => q[i] < q[j]
    BY <2>1, <2>2
  <2> QED
    BY <2>3, <2>4, EnqueueServes
<1>2. ASSUME NEW n \in Prompt, NEW holes \in BOOLEAN, Restore(n, holes)
      PROVE  Serving'
  <2> DEFINE items == [i \in 1..n |-> i]
  <2>1. items \in Seq(Prompt) /\ Enqueue(items) /\ DOMAIN items = 1..n
    BY <1>2, OptionsAssumption DEF Restore, Prompt
  <2>2. \A i, j \in DOMAIN items : i < j => items[i] < items[j]
    BY OptionsAssumption DEF Prompt
  <2>3. ToSet(items) = 1..n
    BY DEF ToSet
  <2>4. \A p \in Prompt : status[p] = "new"
    BY <1>2 DEF Restore
  <2> HIDE DEF items
  <2>5. PICK q \in Seq(Prompt) : /\ Enqueue(q) /\ ToSet(q) = 1..n
                                 /\ \A i, j \in DOMAIN q : i < j => q[i] < q[j]
    BY <2>1, <2>2, <2>3
  <2>6. \A p \in ToSet(q), r \in Prompt : r < p => r \in ToSet(q)
    BY <2>5, OptionsAssumption DEF Prompt
  <2>7. \A p \in ToSet(q) : status[p] = "new"
    BY <2>4, <2>5, ToSetTyped
  <2> QED
    BY <2>5, <2>6, <2>7, EnqueueServes
<1>3. CASE ModelReplies
  <2>1. pumpAt = "model"
    BY <1>3 DEF ModelReplies
  <2>2. \/ CompleteTurn \/ AskModel
        \/ pumpAt' = "tool" /\ UNCHANGED <<queue, running, status, aborted>>
    BY <1>3 DEF ModelReplies, ReplyTools, ReplyToolsAtCap, ReplyEmpty, ReplyText
  <2> QED
    BY <2>1, <2>2, CompleteTurnServes, SameTurnServes DEF AskModel
<1>4. CASE BeforeTurnReturns
  <2>1. pumpAt = "beforeTurn"
    BY <1>4 DEF BeforeTurnReturns
  <2>2. \/ FailTurn \/ AskModel
        \/ pumpAt' = "tool" /\ UNCHANGED <<queue, running, status, aborted>>
    BY <1>4 DEF BeforeTurnReturns
  <2> QED
    BY <2>1, <2>2, FailTurnServes, SameTurnServes DEF AskModel
<1>5. CASE ToolReturns \/ ToolRejected
  <2>1. pumpAt = "tool"
    BY <1>5 DEF ToolReturns, ToolRejected
  <2>2. \/ CompleteTurn \/ AskModel
        \/ UNCHANGED <<queue, running, status, pumpAt, aborted>>
    BY <1>5 DEF ToolReturns, ToolRejected, AfterBatch
  <2> QED
    BY <2>1, <2>2, CompleteTurnServes, SameTurnServes DEF AskModel
<1>6. CASE ModelFails \/ ToolAborted \/ TurnCompleteThrows
  BY <1>6, FailTurnServes DEF ModelFails, ToolAborted, TurnCompleteThrows
<1>7. CASE TurnCompleteReturns
  <2>1. pumpAt = "turnComplete" /\ PumpLoop(queue, status)
    BY <1>7 DEF TurnCompleteReturns
  <2>2. \A p \in Prompt : status[p] # "running"
    BY <2>1 DEF Serving, BatchMarked
  <2>3. queue \in Seq(Prompt) /\ status \in [Prompt -> Status]
    BY DEF TypeOK, Status
  <2> QED
    BY <2>1, <2>2, <2>3, PumpLoopServes DEF Serving
<1>8. CASE UNCHANGED vars
  BY <1>8 DEF vars, Serving, Agree, BatchMarked, NoStrandedPrompt
<1> QED
  BY <1>1, <1>2, <1>3, <1>4, <1>5, <1>6, <1>7, <1>8, RemoveServes, AbortServes
  DEF Next, Calls, Resume

LEMMA InitServing == Init => Serving
BY EmptyToSet DEF Init, Serving, Agree, BatchMarked, NoStrandedPrompt, Started

LEMMA ServingAlways == Spec => [](TypeOK /\ Serving)
<1>1. TypeOK /\ Serving /\ [Next]_vars => Serving'
  BY ServingStep
<1> QED
  BY <1>1, TypeCorrect, InitServing, PTL DEF Spec

\* A pump is at work whenever a prompt waits.
THEOREM NoPromptStranded == Spec => []NoStrandedPrompt
<1>1. Serving => NoStrandedPrompt
  BY DEF Serving
<1> QED
  BY <1>1, ServingAlways, PTL

\* Statuses, queue and batch under way never disagree about a prompt.
THEOREM PromptsAccounted == Spec => []PromptAccounted
<1>1. TypeOK /\ Serving => PromptAccounted
  BY DEF Serving, PromptAccounted, Agree, BatchMarked
<1> QED
  BY <1>1, ServingAlways, PTL

\* Prompts start in the order in which they arrived.
THEOREM ArrivalOrder == Spec => []NoOvertaking
<1>1. TypeOK /\ Serving => NoOvertaking
  BY DEF Serving, NoOvertaking, Agree, Started, Settled
<1> QED
  BY <1>1, ServingAlways, PTL

\* One abort() ends at most one turn, however many turns and calls there are.
THEOREM AbortsBounded == Spec => []AbortBudget
<1>1. Init => AbortBudget
  BY DEF Init, AbortBudget
<1>2. ASSUME TypeOK, AbortBudget, [Next]_vars PROVE AbortBudget'
  <2>1. abortCalls \in Nat /\ abortTurns \in Nat
    BY <1>2 DEF TypeOK
  <2>2. ASSUME FailTurn PROVE AbortBudget'
    BY <1>2, <2>1, <2>2 DEF AbortBudget, FailTurn
  <2>3. ASSUME NEW clear \in BOOLEAN, Abort(clear) PROVE AbortBudget'
    BY <1>2, <2>1, <2>3 DEF AbortBudget, Abort
  <2>4. ASSUME UNCHANGED <<aborted, abortCalls, abortTurns>> PROVE AbortBudget'
    BY <1>2, <2>4 DEF AbortBudget
  <2>5. ASSUME Calls PROVE AbortBudget'
    BY <2>3, <2>4, <2>5 DEF Calls, Submit, Restore, RemoveFromQueue, ghosts
  <2>6. ASSUME ModelReplies PROVE AbortBudget'
    BY <2>4, <2>6 DEF ModelReplies, ReplyTools, ReplyToolsAtCap, ReplyEmpty, ReplyText,
                      CompleteTurn, AskModel, ghosts
  <2>7. ASSUME BeforeTurnReturns \/ ModelFails PROVE AbortBudget'
    BY <2>2, <2>4, <2>7 DEF BeforeTurnReturns, ModelFails, AskModel, ghosts
  <2>8. ASSUME ToolReturns \/ ToolRejected \/ ToolAborted PROVE AbortBudget'
    BY <2>2, <2>4, <2>8 DEF ToolReturns, ToolRejected, ToolAborted, AfterBatch,
                            CompleteTurn, AskModel, ghosts
  <2>9. ASSUME TurnCompleteReturns \/ TurnCompleteThrows PROVE AbortBudget'
    BY <2>2, <2>4, <2>9 DEF TurnCompleteReturns, TurnCompleteThrows, ghosts
  <2> QED
    BY <1>2, <2>4, <2>5, <2>6, <2>7, <2>8, <2>9 DEF Next, Resume, vars
<1> QED
  BY <1>1, <1>2, TypeCorrect, PTL DEF Spec

-----------------------------------------------------------------------------
(* Answering the calls.  CallsAnswered speaks of the two awaits at which the *)
(* history is whole; in between a batch is answered from its front, and a    *)
(* restored snapshot can only come before the first prompt, so that nothing  *)
(* forgets a hole once there is one.                                         *)

\* The calls before the c-th have their answer, the others have none.
FirstOpen(r, c) == \A j \in DOMAIN r : r[j] = IF j < c THEN 1 ELSE 0
Halfway(r) == \E c \in DOMAIN r : FirstOpen(r, c)

\* The inductive invariant behind CallsAnswered.
Answered ==
  /\ pumpAt = "tool" => Halfway(results)
  /\ pumpAt # "tool" /\ cause = {} => AllOnce(results)
  /\ cause = {} => ~dangling
  /\ cause # {} => \E p \in Prompt : status[p] # "new"

LEMMA CurrentIsFirstOpen ==
  ASSUME results \in Seq(Nat), NEW c \in DOMAIN results, FirstOpen(results, c)
  PROVE  Current = c
<1> DEFINE Open(k) == results[k] = 0 /\ \A j \in 1..(k - 1) : results[j] # 0
<1>1. DOMAIN results = 1..Len(results) /\ Len(results) \in Nat /\ c \in 1..Len(results)
  OBVIOUS
<1>2. Open(c)
  BY <1>1 DEF FirstOpen
<1>3. ASSUME NEW k \in DOMAIN results, Open(k) PROVE k = c
  <2>1. ~(k < c)
    BY <1>3 DEF FirstOpen
  <2>2. ~(c < k)
    BY <1>1, <1>3 DEF FirstOpen
  <2> QED
    BY <1>1, <2>1, <2>2
<1>4. Current = CHOOSE k \in DOMAIN results : Open(k)
  BY DEF Current
<1> HIDE DEF Open
<1> QED
  BY <1>2, <1>3, <1>4

\* Answering the first open call moves the front by one, or ends the batch.
LEMMA AnswerCurrent ==
  ASSUME results \in Seq(Nat), Halfway(results)
  PROVE  LET r == [results EXCEPT ![Current] = @ + 1]
         IN  IF Current = Len(results) THEN AllOnce(r) ELSE Halfway(r)
<1> DEFINE r == [results EXCEPT ![Current] = @ + 1]
<1>1. PICK c \in DOMAIN results : FirstOpen(results, c)
  BY DEF Halfway
<1>2. Current = c
  BY <1>1, CurrentIsFirstOpen
<1>3. DOMAIN results = 1..Len(results) /\ Len(results) \in Nat /\ c \in 1..Len(results)
  OBVIOUS
<1>4. /\ DOMAIN r = 1..Len(results)
      /\ \A j \in 1..Len(results) : r[j] = IF j = c THEN results[j] + 1 ELSE results[j]
  BY <1>2, <1>3
<1>5. \A j \in 1..Len(results) : r[j] = IF j < c + 1 THEN 1 ELSE 0
  BY <1>1, <1>3, <1>4 DEF FirstOpen
<1> HIDE DEF r
<1>6. CASE c = Len(results)
  BY <1>2, <1>3, <1>4, <1>5, <1>6 DEF AllOnce, r
<1>7. CASE c # Len(results)
  <2>1. c + 1 \in DOMAIN r /\ FirstOpen(r, c + 1)
    BY <1>3, <1>4, <1>5, <1>7 DEF FirstOpen
  <2> QED
    BY <1>2, <1>7, <2>1 DEF Halfway, r
<1> QED
  BY <1>6, <1>7

\* Cancelling from the first open call on answers every call once.
LEMMA AnswerRest ==
  ASSUME results \in Seq(Nat), Halfway(results)
  PROVE  AllOnce(AnswerFrom(Current))
<1>1. PICK c \in DOMAIN results : FirstOpen(results, c)
  BY DEF Halfway
<1>2. Current = c
  BY <1>1, CurrentIsFirstOpen
<1>3. DOMAIN results = 1..Len(results) /\ Len(results) \in Nat /\ c \in 1..Len(results)
  OBVIOUS
<1> QED
  BY <1>1, <1>2, <1>3 DEF AnswerFrom, AllOnce, FirstOpen

LEMMA NewBatch ==
  ASSUME NEW n \in Nat
  PROVE  /\ AllOnce([k \in 1..n |-> 1])
         /\ n # 0 => Halfway([k \in 1..n |-> 0])
<1>1. AllOnce([k \in 1..n |-> 1])
  BY DEF AllOnce
<1>2. ASSUME n # 0 PROVE Halfway([k \in 1..n |-> 0])
  <2> DEFINE r == [k \in 1..n |-> 0]
  <2>1. 1 \in DOMAIN r /\ FirstOpen(r, 1)
    BY <1>2 DEF FirstOpen
  <2> QED
    BY <2>1 DEF Halfway
<1> QED
  BY <1>1, <1>2

\* A message appended to a whole history leaves nothing dangling.
LEMMA AppendKeepsWhole ==
  ASSUME NEW r, AllOnce(results), ~dangling, AppendMessage(r)
  PROVE  ~dangling' /\ results' = r
<1>1. ~Unanswered
  BY DEF AllOnce, Unanswered
<1> QED
  BY <1>1, Zenon DEF AppendMessage

\* No prompt becomes new again.
LEMMA NeverNewAgain ==
  ASSUME TypeOK, Serving, [Next]_vars
  PROVE  \A p \in Prompt : status[p] # "new" => status'[p] # "new"
<1>1. ASSUME NEW st, NEW ps, NEW s, s # "new", NEW p \in Prompt, st[p] # "new"
      PROVE  Marked(st, ps, s)[p] # "new"
  BY <1>1 DEF Marked
<1>2. SUFFICES ASSUME NEW p \in Prompt, status[p] # "new"
               PROVE  status'[p] # "new"
  OBVIOUS
<1>3. ASSUME NEW q, NEW st, PumpLoop(q, st), st[p] # "new" PROVE status'[p] # "new"
  BY <1>1, <1>3 DEF PumpLoop
<1>4. ASSUME NEW items, Enqueue(items) PROVE status'[p] # "new"
  BY <1>1, <1>2, <1>3, <1>4 DEF Enqueue
<1>5. ASSUME NEW i \in DOMAIN queue, RemoveFromQueue(i) PROVE status'[p] # "new"
  <2>1. status \in [Prompt -> Status]
    BY DEF TypeOK, Status
  <2> QED
    BY <1>2, <1>5, <2>1 DEF RemoveFromQueue
<1>6. ASSUME FailTurn PROVE status'[p] # "new"
  <2> DEFINE outcome == IF aborted THEN "aborted" ELSE "error"
  <2>1. outcome # "new"
    OBVIOUS
  <2>2. PumpLoop(queue, Marked(status, ToSet(running), outcome))
    BY <1>6 DEF FailTurn
  <2> HIDE DEF outcome
  <2> QED
    BY <1>1, <1>2, <1>3, <2>1, <2>2
<1>7. ASSUME CompleteTurn \/ AskModel \/ UNCHANGED status PROVE status'[p] # "new"
  BY <1>1, <1>2, <1>7 DEF CompleteTurn, AskModel
<1>8. CASE Calls
  <2>1. ASSUME NEW clear \in BOOLEAN, Abort(clear) PROVE status'[p] # "new"
    BY <1>1, <1>2, <2>1 DEF Abort
  <2> QED
    BY <1>4, <1>5, <1>8, <2>1 DEF Calls, Submit, Restore
<1>9. CASE BeforeTurnReturns \/ ModelFails \/ ToolAborted \/ TurnCompleteThrows
  BY <1>6, <1>7, <1>9 DEF BeforeTurnReturns, ModelFails, ToolAborted, TurnCompleteThrows
<1>10. CASE ModelReplies
  BY <1>7, <1>10 DEF ModelReplies, ReplyTools, ReplyToolsAtCap, ReplyEmpty, ReplyText
<1>11. CASE ToolReturns \/ ToolRejected
  BY <1>7, <1>11 DEF ToolReturns, ToolRejected, AfterBatch
<1>12. CASE TurnCompleteReturns
  BY <1>2, <1>3, <1>12 DEF TurnCompleteReturns
<1>13. CASE UNCHANGED vars
  BY <1>2, <1>13 DEF vars
<1> QED
  BY <1>8, <1>9, <1>10, <1>11, <1>12, <1>13 DEF Next, Resume

\* The part of Answered that the history's own steps change.
Whole == /\ pumpAt = "tool" => Halfway(results)
         /\ pumpAt # "tool" /\ cause = {} => AllOnce(results)
         /\ cause = {} => ~dangling

\* Steps that leave the history alone and neither open nor close a batch.
LEMMA HistoryKept ==
  ASSUME Whole, UNCHANGED <<results, dangling, cause>>,
         pumpAt = "tool" <=> pumpAt' = "tool"
  PROVE  Whole'
BY DEF Whole, Halfway, FirstOpen, AllOnce

LEMMA PumpLoopLeavesTool ==
  ASSUME NEW q, NEW st, PumpLoop(q, st)
  PROVE  pumpAt' \in {"idle", "beforeTurn"}
BY DEF PumpLoop

\* A message appended where no batch is open: whole itself, or a batch to answer.
LEMMA AppendedWhole ==
  ASSUME Whole, pumpAt # "tool", NEW r, AppendMessage(r), cause' = cause,
         \/ AllOnce(r) /\ pumpAt' # "tool"
         \/ Halfway(r) /\ pumpAt' = "tool"
  PROVE  Whole'
<1>1. results' = r
  BY DEF AppendMessage
<1>2. cause' = {} => ~dangling'
  BY AppendKeepsWhole DEF Whole
<1>3. CASE AllOnce(r) /\ pumpAt' # "tool"
  BY <1>1, <1>2, <1>3 DEF Whole, AllOnce
<1>4. CASE Halfway(r) /\ pumpAt' = "tool"
  BY <1>1, <1>2, <1>4 DEF Whole, Halfway, FirstOpen
<1> QED
  BY <1>3, <1>4

LEMMA NoCalls == AllOnce(<<>>)
BY DEF AllOnce

LEMMA CallsWhole ==
  ASSUME TypeOK, Serving, Answered, Calls
  PROVE  Whole'
<1>0. Whole
  BY DEF Answered, Whole
<1>1. ASSUME NEW items, Enqueue(items) PROVE pumpAt = "tool" <=> pumpAt' = "tool"
  BY <1>1, PumpLoopLeavesTool DEF Enqueue
<1>2. ASSUME NEW p \in Prompt, Submit(p) PROVE Whole'
  BY <1>0, <1>1, <1>2, HistoryKept DEF Submit, ghosts
<1>3. ASSUME NEW n \in Prompt, NEW holes \in BOOLEAN, Restore(n, holes) PROVE Whole'
  <2>1. \A p \in Prompt : status[p] = "new"
    BY <1>3 DEF Restore
  <2>2. cause = {}
    BY <2>1 DEF Answered
  <2>3. pumpAt = "idle"
    <3>1. SUFFICES ASSUME running # <<>> PROVE FALSE
      BY DEF Serving
    <3>2. running[1] \in Prompt /\ running[1] \in ToSet(running)
      BY <3>1 DEF ToSet, TypeOK
    <3> QED
      BY <2>1, <3>2 DEF Serving, BatchMarked
  <2>4. pumpAt' # "tool" /\ results' = results /\ AllOnce(results)
    BY <1>0, <1>1, <1>3, <2>2, <2>3 DEF Restore, Whole
  <2>5. cause' = {} => ~dangling'
    BY <1>3 DEF Restore
  <2> QED
    BY <2>4, <2>5 DEF Whole, AllOnce
<1>4. ASSUME NEW i \in DOMAIN queue, RemoveFromQueue(i) PROVE Whole'
  BY <1>0, <1>4, HistoryKept DEF RemoveFromQueue, ghosts
<1>5. ASSUME NEW clear \in BOOLEAN, Abort(clear) PROVE Whole'
  BY <1>0, <1>5, HistoryKept DEF Abort
<1> QED
  BY <1>2, <1>3, <1>4, <1>5 DEF Calls

LEMMA BeforeTurnWhole ==
  ASSUME TypeOK, Whole, BeforeTurnReturns
  PROVE  Whole'
<1> DEFINE n == Cardinality(ForcedCalls)
<1>1. n \in Nat /\ (ForcedCalls # {} => n # 0)
  <2>1. IsFiniteSet(ForcedCalls)
    <3>1. DOMAIN running = 1..Len(running) /\ Len(running) \in Nat
      BY DEF TypeOK
    <3>2. IsFiniteSet(1..Len(running)) /\ ForcedCalls \subseteq 1..Len(running)
      BY <3>1, FS_Interval DEF ForcedCalls
    <3> QED
      BY <3>2, FS_Subset
  <2> QED
    BY <2>1, FS_CardinalityType, FS_EmptySet
<1> HIDE DEF n
<1>2. pumpAt = "beforeTurn"
  BY DEF BeforeTurnReturns
<1>3. CASE AppendMessage(<<>>) /\ AskModel /\ UNCHANGED ghosts
  BY <1>2, <1>3, AppendedWhole, NoCalls DEF AskModel, ghosts
<1>4. CASE AppendMessage([k \in 1..n |-> 1]) /\ FailTurn
  <2>1. pumpAt' # "tool" /\ cause' = cause
    BY <1>4, PumpLoopLeavesTool DEF FailTurn
  <2> QED
    BY <1>1, <1>2, <1>4, <2>1, AppendedWhole, NewBatch
<1>5. CASE /\ ForcedCalls # {} /\ AppendMessage([k \in 1..n |-> 0])
           /\ pumpAt' = "tool" /\ UNCHANGED ghosts
  BY <1>1, <1>2, <1>5, AppendedWhole, NewBatch DEF ghosts
<1> QED
  BY <1>3, <1>4, <1>5 DEF BeforeTurnReturns, n

LEMMA ModelReplyWhole ==
  ASSUME TypeOK, Whole, ModelReplies
  PROVE  Whole'
<1>1. pumpAt = "model"
  BY DEF ModelReplies
<1>2. ASSUME CompleteTurn \/ AskModel PROVE pumpAt' # "tool"
  BY <1>2 DEF CompleteTurn, AskModel
<1>3. ASSUME NEW b \in ToolBatches, ReplyTools(b) PROVE Whole'
  <2>1. b.size \in Nat /\ b.size # 0 /\ cause' = cause
    BY <1>3, OptionsAssumption DEF ReplyTools, ghosts
  <2>2. \/ AppendMessage([k \in 1..b.size |-> 1]) /\ pumpAt' # "tool"
        \/ AppendMessage([k \in 1..b.size |-> 0]) /\ pumpAt' = "tool"
    BY <1>2, <1>3 DEF ReplyTools
  <2> QED
    BY <1>1, <2>1, <2>2, AppendedWhole, NewBatch
<1>4. ASSUME NEW b \in ToolBatches, ReplyToolsAtCap(b) PROVE Whole'
  <2>1. cause' # {} /\ pumpAt' # "tool"
    BY <1>2, <1>4 DEF ReplyToolsAtCap
  <2> QED
    BY <2>1 DEF Whole
<1>5. ASSUME ReplyEmpty PROVE Whole'
  BY <1>1, <1>2, <1>5, AppendedWhole, NoCalls DEF ReplyEmpty, ghosts
<1>6. ASSUME NEW malformed \in BOOLEAN, ReplyText(malformed) PROVE Whole'
  BY <1>1, <1>2, <1>6, AppendedWhole, NoCalls DEF ReplyText, ghosts
<1> QED
  BY <1>3, <1>4, <1>5, <1>6 DEF ModelReplies

LEMMA ToolWhole ==
  ASSUME TypeOK, Whole, ToolReturns \/ ToolRejected \/ ToolAborted
  PROVE  Whole'
<1>1. pumpAt = "tool" /\ results \in Seq(Nat) /\ Halfway(results)
      /\ UNCHANGED <<dangling, cause>>
  BY DEF ToolReturns, ToolRejected, ToolAborted, FailTurn, ghosts, TypeOK, Whole
<1>2. ASSUME ToolReturns PROVE Whole'
  <2> DEFINE r == [results EXCEPT ![Current] = @ + 1]
  <2>1. results' = r
    BY <1>2 DEF ToolReturns
  <2>2. IF Current = Len(results) THEN AllOnce(r) ELSE Halfway(r)
    BY <1>1, AnswerCurrent
  <2>3. IF Current = Len(results) THEN pumpAt' # "tool" ELSE pumpAt' = "tool"
    BY <1>1, <1>2 DEF ToolReturns, AfterBatch, CompleteTurn, AskModel
  <2> HIDE DEF r
  <2>4. CASE Current = Len(results)
    BY <1>1, <2>1, <2>2, <2>3, <2>4 DEF Whole, AllOnce
  <2>5. CASE Current # Len(results)
    BY <1>1, <2>1, <2>2, <2>3, <2>5 DEF Whole, Halfway, FirstOpen
  <2> QED
    BY <2>4, <2>5
<1>3. ASSUME ToolRejected \/ ToolAborted PROVE Whole'
  <2>1. results' = AnswerFrom(Current) /\ pumpAt' # "tool"
    BY <1>3, PumpLoopLeavesTool DEF ToolRejected, ToolAborted, CompleteTurn, FailTurn
  <2>2. AllOnce(AnswerFrom(Current))
    BY <1>1, AnswerRest
  <2> QED
    BY <1>1, <2>1, <2>2 DEF Whole, AllOnce
<1> QED
  BY <1>2, <1>3

LEMMA WholeStep ==
  ASSUME TypeOK, Serving, Answered, [Next]_vars
  PROVE  Whole'
<1>1. Whole
  BY DEF Answered, Whole
<1>2. CASE ModelFails \/ TurnCompleteReturns \/ TurnCompleteThrows
  <2>1. UNCHANGED <<results, dangling, cause>>
    BY <1>2 DEF ModelFails, TurnCompleteReturns, TurnCompleteThrows, FailTurn, ghosts
  <2>2. pumpAt # "tool" /\ pumpAt' # "tool"
    BY <1>2, PumpLoopLeavesTool
    DEF ModelFails, TurnCompleteReturns, TurnCompleteThrows, FailTurn
  <2> QED
    BY <1>1, <2>1, <2>2, HistoryKept
<1>3. CASE UNCHANGED vars
  BY <1>1, <1>3, HistoryKept DEF vars
<1> QED
  BY <1>1, <1>2, <1>3, CallsWhole, BeforeTurnWhole, ModelReplyWhole, ToolWhole
  DEF Next, Resume

LEMMA AnsweredStep ==
  ASSUME TypeOK, Serving, Answered, [Next]_vars
  PROVE  Answered'
<1>1. Whole'
  BY WholeStep
<1>2. ASSUME cause' # {} PROVE \E p \in Prompt : status'[p] # "new"
  <2>1. CASE cause # {}
    BY <2>1, NeverNewAgain DEF Answered
  <2>2. ASSUME NEW n \in Prompt, NEW holes \in BOOLEAN, Restore(n, holes)
        PROVE  \E p \in Prompt : status'[p] # "new"
    <3> DEFINE items == [i \in 1..n |-> i]
               st == Marked(status, ToSet(items), "queued")
    <3>1. 1 \in Prompt /\ 1 \in ToSet(items)
      BY OptionsAssumption DEF Prompt, ToSet
    <3>2. st[1] = "queued"
      BY <3>1 DEF Marked
    <3>3. \/ status' = st
          \/ \E ps : status' = Marked(st, ps, "running")
      BY <2>2 DEF Restore, Enqueue, PumpLoop
    <3> HIDE DEF st
    <3>4. status'[1] # "new"
      BY <3>1, <3>2, <3>3 DEF Marked
    <3> QED
      BY <3>1, <3>4
  <2>3. ASSUME NEW b \in ToolBatches, pumpAt = "model", ReplyToolsAtCap(b)
        PROVE  \E p \in Prompt : status'[p] # "new"
    <3>1. running # <<>> /\ running \in Seq(Prompt)
      BY <2>3 DEF Serving, TypeOK
    <3>2. running[1] \in Prompt /\ running[1] \in ToSet(running)
      BY <3>1 DEF ToSet
    <3>3. status[running[1]] = "running"
      BY <2>3, <3>2 DEF Serving, BatchMarked
    <3> QED
      BY <3>2, <3>3, NeverNewAgain
  <2>4. ASSUME cause' = cause PROVE \E p \in Prompt : status'[p] # "new"
    BY <1>2, <2>1, <2>4
  <2>5. CASE Calls
    BY <2>2, <2>4, <2>5 DEF Calls, Submit, RemoveFromQueue, Abort, ghosts
  <2>6. CASE ModelReplies
    BY <2>3, <2>4, <2>6 DEF ModelReplies, ReplyTools, ReplyEmpty, ReplyText, ghosts
  <2>7. CASE BeforeTurnReturns \/ ModelFails \/ TurnCompleteReturns \/ TurnCompleteThrows
    BY <2>4, <2>7
    DEF BeforeTurnReturns, ModelFails, TurnCompleteReturns, TurnCompleteThrows,
        FailTurn, ghosts
  <2>8. CASE ToolReturns \/ ToolRejected \/ ToolAborted
    BY <2>4, <2>8 DEF ToolReturns, ToolRejected, ToolAborted, FailTurn, ghosts
  <2>9. CASE UNCHANGED vars
    BY <2>4, <2>9 DEF vars
  <2> QED
    BY <2>5, <2>6, <2>7, <2>8, <2>9 DEF Next, Resume
<1> QED
  BY <1>1, <1>2 DEF Answered, Whole

LEMMA InitAnswered == Init => Answered
BY DEF Init, Answered, AllOnce

\* Whatever ended the turns, the history handed to the model is well formed.
THEOREM HistoryWellFormed == Spec => []CallsAnswered
<1>1. Answered => CallsAnswered
  BY DEF Answered, CallsAnswered
<1>2. TypeOK /\ Serving /\ Answered /\ [Next]_vars => Answered'
  BY AnsweredStep
<1> QED
  BY <1>1, <1>2, InitAnswered, ServingAlways, PTL DEF Spec

\* After abort() during a request or a tool, that turn can only fail.
THEOREM AbortEndsTurn == Spec => AbortStopsTurn
<1> DEFINE Waiting == UNCHANGED <<pumpAt, results, running, turn>>
           Spent == ~aborted' /\ abortTurns' = abortTurns + 1
<1>1. ASSUME [Next]_vars, aborted, pumpAt \in {"model", "tool"}
      PROVE  Waiting \/ Spent
  <2>1. ASSUME FailTurn PROVE Spent
    BY <1>1, <2>1 DEF FailTurn
  <2>2. ASSUME NEW items, Enqueue(items) PROVE UNCHANGED <<running, pumpAt, turn>>
    BY <1>1, <2>2 DEF Enqueue
  <2>3. CASE Calls
    BY <2>2, <2>3 DEF Calls, Submit, Restore, RemoveFromQueue, Abort
  <2>4. CASE Resume
    <3>1. ModelFails \/ ToolAborted
      BY <1>1, <2>4 DEF Resume, BeforeTurnReturns, ModelReplies, ToolReturns, ToolRejected,
                        TurnCompleteReturns, TurnCompleteThrows
    <3> QED
      BY <2>1, <3>1 DEF ModelFails, ToolAborted
  <2>5. CASE UNCHANGED vars
    BY <2>5 DEF vars
  <2> QED
    BY <1>1, <2>3, <2>4, <2>5 DEF Next
<1>2. [Next]_vars
        => [aborted /\ pumpAt \in {"model", "tool"} => Waiting \/ Spent]_vars
  BY <1>1
<1> QED
  BY <1>2, PTL DEF Spec, AbortStopsTurn

-----------------------------------------------------------------------------
(* The agent is a prompt queue.  Every step of the loop maps to a step of    *)
(* PromptQueue or leaves what a caller sees as it was; a batch is settled    *)
(* where the pump lets go of it, not where runTurn() returns, which is why   *)
(* the mapping takes the batch under way out of the settled prompts.         *)

Over == Settled \ ToSet(running)

LEMMA QueuesAgree ==
  ASSUME NEW q, NEW i
  PROVE  /\ PQ!Batch(q) = Batch(q) /\ PQ!Rest(q) = Rest(q)
         /\ PQ!ToSet(q) = ToSet(q) /\ PQ!RemoveAt(q, i) = RemoveAt(q, i)
BY DEF PQ!Batch, PQ!Rest, Batch, Rest, PQ!ToSet, ToSet, PQ!RemoveAt, RemoveAt

\* What the pump takes off a queue was in it.
LEMMA BatchWithin ==
  ASSUME NEW q \in Seq(Prompt)
  PROVE  ToSet(Batch(q)) \subseteq ToSet(q)
<1>1. CASE q = <<>> \/ Coalesce
  BY <1>1, EmptyToSet DEF Batch
<1>2. CASE q # <<>> /\ ~Coalesce
  <2>1. Batch(q) = <<Head(q)>> /\ q[1] = Head(q) /\ 1 \in DOMAIN q
    BY <1>2, TailFacts DEF Batch
  <2> QED
    BY <2>1, SingletonToSet, InToSet
<1> QED
  BY <1>1, <1>2

\* The pump's loop settles exactly what was marked settled before it.
LEMMA PumpLoopOver ==
  ASSUME NEW q \in Seq(Prompt), NEW st \in [Prompt -> Status], PumpLoop(q, st),
         \A p \in ToSet(q) : st[p] = "queued"
  PROVE  Over' = {p \in Prompt : st[p] \in {"done", "error", "aborted"}}
<1>1. ToSet(running') \subseteq ToSet(q) /\ ToSet(q) \subseteq Prompt
  BY BatchWithin, ToSetTyped DEF PumpLoop
<1>2. \A p \in Prompt :
        status'[p] = IF p \in ToSet(running') THEN "running" ELSE st[p]
  BY DEF PumpLoop, Marked
<1> QED
  BY <1>1, <1>2 DEF Over, Settled

\* Prompts handed over by submit() or restoreState() are accepted.
LEMMA EnqueueAccepts ==
  ASSUME TypeOK, Serving, NEW items \in Seq(Prompt), items # <<>>, Enqueue(items),
         \A p \in ToSet(items) : status[p] = "new"
  PROVE  PQ!Accept(items)
<1> DEFINE q == queue \o items
           st == Marked(status, ToSet(items), "queued")
<1>1. /\ queue \in Seq(Prompt) /\ status \in [Prompt -> Status]
      /\ running \in Seq(Prompt)
      /\ ToSet(items) \subseteq Prompt /\ ToSet(running) \subseteq Prompt
      /\ ToSet(queue) \subseteq Prompt
  BY ToSetTyped DEF TypeOK, Status
<1>2. \A p \in ToSet(queue) : status[p] = "queued"
  BY <1>1 DEF Serving, Agree
<1>3. \A p \in ToSet(running) : status[p] \in {"running", "done"}
  BY DEF Serving, BatchMarked
<1>4. ToSet(items) \subseteq PQ!Prompt \ PQ!Known
  BY <1>1, <1>2, <1>3, QueuesAgree DEF PQ!Prompt, Prompt, PQ!Known, Settled
<1>5. \A p \in Prompt : st[p] = IF p \in ToSet(items) THEN "queued" ELSE status[p]
  BY DEF Marked
<1>6. q \in Seq(Prompt) /\ st \in [Prompt -> Status]
  BY <1>1, MarkedTyped DEF Status
<1>7. Settled = {p \in Prompt : st[p] \in {"done", "error", "aborted"}}
  BY <1>1, <1>5 DEF Settled
<1>8. CASE pumpAt = "idle"
  <2>1. PumpLoop(q, st) /\ running = <<>> /\ queue = <<>>
    BY <1>8 DEF Enqueue, Serving, NoStrandedPrompt
  <2>2. q = items
    BY <2>1, <1>1
  <2>3. \A p \in ToSet(q) : st[p] = "queued"
    BY <1>1, <1>5, <2>2
  <2> HIDE DEF q, st
  <2>4. Over' = Settled /\ Over = Settled
    BY <1>6, <1>7, <2>1, <2>3, PumpLoopOver, EmptyToSet DEF Over
  <2>5. running' = PQ!Batch(items) /\ queue' = PQ!Rest(items)
    BY <2>1, <2>2, QueuesAgree DEF PumpLoop
  <2> QED
    BY <1>4, <2>1, <2>4, <2>5, QueuesAgree DEF PQ!Accept, Over
<1>9. CASE pumpAt # "idle"
  <2>1. queue' = q /\ status' = st /\ running' = running /\ running # <<>>
    BY <1>9 DEF Enqueue, Serving
  <2>2. Settled' = Settled
    BY <1>7, <2>1 DEF Settled
  <2> QED
    BY <1>4, <2>1, <2>2, QueuesAgree DEF PQ!Accept
<1> QED
  BY <1>8, <1>9

\* A failing turn settles its batch, and so does the end of turnCompleteHandler.
LEMMA FailTurnSettles ==
  ASSUME TypeOK, Serving, pumpAt # "idle", FailTurn
  PROVE  PQ!Settle
<1> DEFINE outcome == IF aborted THEN "aborted" ELSE "error"
           st == Marked(status, ToSet(running), outcome)
<1>1. queue \in Seq(Prompt) /\ status \in [Prompt -> Status]
      /\ ToSet(running) \subseteq Prompt /\ ToSet(queue) \subseteq Prompt
  BY ToSetTyped DEF TypeOK, Status
<1>2. outcome \in {"aborted", "error"} /\ PumpLoop(queue, st)
  BY DEF FailTurn
<1> HIDE DEF outcome
<1>3. \A p \in Prompt : st[p] = IF p \in ToSet(running) THEN outcome ELSE status[p]
  BY DEF Marked
<1>4. st \in [Prompt -> Status]
  BY <1>1, <1>2, MarkedTyped DEF Status
<1> HIDE DEF st
<1>5. \A p \in ToSet(queue) : st[p] = "queued"
  BY <1>1, <1>3 DEF Serving, Agree, BatchMarked
<1>6. Over' = {p \in Prompt : st[p] \in {"done", "error", "aborted"}}
  BY <1>1, <1>2, <1>4, <1>5, PumpLoopOver
<1>7. Over' = Over \union ToSet(running)
  BY <1>1, <1>2, <1>3, <1>6 DEF Over, Settled
<1>8. running # <<>> /\ running' = PQ!Batch(queue) /\ queue' = PQ!Rest(queue)
  BY <1>2, QueuesAgree DEF Serving, PumpLoop
<1> QED
  BY <1>7, <1>8, QueuesAgree DEF PQ!Settle, Over

LEMMA TurnCompleteSettles ==
  ASSUME TypeOK, Serving, TurnCompleteReturns
  PROVE  PQ!Settle
<1>1. queue \in Seq(Prompt) /\ status \in [Prompt -> Status]
      /\ ToSet(running) \subseteq Prompt /\ ToSet(queue) \subseteq Prompt
  BY ToSetTyped DEF TypeOK, Status
<1>2. pumpAt = "turnComplete" /\ PumpLoop(queue, status)
  BY DEF TurnCompleteReturns
<1>3. /\ \A p \in ToSet(queue) : status[p] = "queued"
      /\ \A p \in ToSet(running) : status[p] = "done"
  BY <1>1, <1>2 DEF Serving, Agree, BatchMarked
<1>4. Over' = Settled
  BY <1>1, <1>2, <1>3, PumpLoopOver DEF Settled
<1>5. Settled = Over \union ToSet(running)
  BY <1>1, <1>3 DEF Over, Settled
<1>6. running # <<>> /\ running' = PQ!Batch(queue) /\ queue' = PQ!Rest(queue)
  BY <1>2, QueuesAgree DEF Serving, PumpLoop
<1> QED
  BY <1>4, <1>5, <1>6, QueuesAgree DEF PQ!Settle, Over

\* What a caller sees while a turn goes on: nothing.
LEMMA TurnUnseen ==
  ASSUME TypeOK, Serving,
         \/ CompleteTurn /\ pumpAt \in {"model", "tool"}
         \/ UNCHANGED <<queue, running, status>>
  PROVE  UNCHANGED PQ!vars
<1>1. ToSet(running) \subseteq Prompt
  BY ToSetTyped DEF TypeOK
<1>2. CASE UNCHANGED <<queue, running, status>>
  BY <1>2 DEF PQ!vars, Settled
<1>3. CASE CompleteTurn /\ pumpAt \in {"model", "tool"}
  <2>1. UNCHANGED <<queue, running>>
    BY <1>3 DEF CompleteTurn
  <2>2. \A p \in Prompt : status'[p] = IF p \in ToSet(running) THEN "done" ELSE status[p]
    BY <1>3 DEF CompleteTurn, Marked
  <2>3. Settled' \ ToSet(running) = Settled \ ToSet(running)
    BY <2>2 DEF Settled
  <2> QED
    BY <2>1, <2>3 DEF PQ!vars
<1> QED
  BY <1>2, <1>3

LEMMA HandoverSeq ==
  ASSUME NEW n \in Prompt, NEW f \in [1..n -> Prompt]
  PROVE  f \in PQ!Handovers /\ f \in Seq(Prompt) /\ f # <<>>
<1>1. n \in Nat /\ n >= 1
  BY OptionsAssumption DEF Prompt
<1>2. f \in Seq(Prompt) /\ f # <<>>
  BY <1>1
<1> QED
  BY <1>2 DEF PQ!Handovers, PQ!Prompt, Prompt

LEMMA CallsRefine ==
  ASSUME TypeOK, Serving, Calls
  PROVE  [PQ!Next]_(PQ!vars)
<1>1. queue \in Seq(Prompt) /\ status \in [Prompt -> Status]
      /\ ToSet(queue) \subseteq Prompt
  BY ToSetTyped DEF TypeOK, Status
<1>2. \A p \in ToSet(queue) : status[p] = "queued"
  BY <1>1 DEF Serving, Agree
<1>3. ASSUME NEW n \in Prompt, NEW items \in [1..n -> Prompt], Enqueue(items),
             \A p \in ToSet(items) : status[p] = "new"
      PROVE  PQ!Next
  <2>1. items \in PQ!Handovers /\ items \in Seq(Prompt) /\ items # <<>>
    BY HandoverSeq
  <2>2. PQ!Accept(items)
    BY <1>3, <2>1, EnqueueAccepts
  <2> QED
    BY <2>1, <2>2 DEF PQ!Next
<1>4. ASSUME NEW p \in Prompt, Submit(p) PROVE PQ!Next
  <2> DEFINE items == <<p>>
  <2>1. 1 \in Prompt /\ items \in [1..1 -> Prompt]
    BY OptionsAssumption DEF Prompt
  <2>2. Enqueue(items) /\ ToSet(items) = {p} /\ status[p] = "new"
    BY <1>4, SingletonToSet DEF Submit
  <2> HIDE DEF items
  <2> QED
    BY <1>3, <2>1, <2>2
<1>5. ASSUME NEW n \in Prompt, NEW holes \in BOOLEAN, Restore(n, holes) PROVE PQ!Next
  <2> DEFINE items == [i \in 1..n |-> i]
  <2>1. items \in [1..n -> Prompt] /\ Enqueue(items)
    BY <1>5, OptionsAssumption DEF Prompt, Restore
  <2>2. \A p \in Prompt : status[p] = "new"
    BY <1>5 DEF Restore
  <2>3. ToSet(items) \subseteq Prompt
    BY OptionsAssumption DEF ToSet, Prompt
  <2> HIDE DEF items
  <2> QED
    BY <1>3, <2>1, <2>2, <2>3
<1>6. ASSUME NEW i \in DOMAIN queue, RemoveFromQueue(i) PROVE PQ!Next
  <2>1. queue[i] \in Prompt /\ status[queue[i]] = "queued"
    BY <1>1, <1>2, InToSet
  <2>2. \A p \in Prompt : status'[p] = IF p = queue[i] THEN "removed" ELSE status[p]
    BY <1>1, <1>6 DEF RemoveFromQueue
  <2>3. Settled' = Settled
    BY <2>1, <2>2 DEF Settled
  <2>4. queue' = RemoveAt(queue, i) /\ running' = running
    BY <1>6 DEF RemoveFromQueue
  <2>5. PQ!Withdraw(i)
    BY <2>3, <2>4, QueuesAgree DEF PQ!Withdraw
  <2> QED
    BY <2>5 DEF PQ!Next
<1>7. ASSUME NEW clear \in BOOLEAN, Abort(clear) PROVE [PQ!Next]_(PQ!vars)
  <2>1. running' = running
    BY <1>7 DEF Abort
  <2>2. CASE ~clear \/ queue = <<>>
    <3>1. UNCHANGED <<queue, running, status>>
      <4>1. CASE ~clear
        BY <1>7, <4>1 DEF Abort
      <4>2. CASE clear /\ queue = <<>>
        <5>1. queue' = <<>> /\ status' = Marked(status, {}, "removed")
          BY <1>7, <4>2, EmptyToSet DEF Abort
        <5>2. status' = status
          BY <1>1, <5>1 DEF Marked
        <5> QED
          BY <2>1, <4>2, <5>1, <5>2
      <4> QED
        BY <2>2, <4>1, <4>2
    <3> QED
      BY <3>1, TurnUnseen
  <2>3. CASE clear /\ queue # <<>>
    <3>1. queue' = <<>> /\ status' = Marked(status, ToSet(queue), "removed")
      BY <1>7, <2>3 DEF Abort
    <3>2. Settled' = Settled
      BY <1>2, <3>1 DEF Settled, Marked
    <3>3. PQ!WithdrawAll
      BY <2>1, <2>3, <3>1, <3>2 DEF PQ!WithdrawAll
    <3> QED
      BY <3>3 DEF PQ!Next
  <2> QED
    BY <2>2, <2>3
<1> QED
  BY <1>4, <1>5, <1>6, <1>7 DEF Calls

LEMMA RefinementStep ==
  ASSUME TypeOK, Serving, [Next]_vars
  PROVE  [PQ!Next]_(PQ!vars)
<1>1. ASSUME FailTurn, pumpAt # "idle" PROVE [PQ!Next]_(PQ!vars)
  BY <1>1, FailTurnSettles DEF PQ!Next
<1>2. ASSUME \/ CompleteTurn /\ pumpAt \in {"model", "tool"}
             \/ UNCHANGED <<queue, running, status>>
      PROVE  [PQ!Next]_(PQ!vars)
  BY <1>2, TurnUnseen
<1>3. CASE BeforeTurnReturns
  BY <1>1, <1>2, <1>3 DEF BeforeTurnReturns, AskModel
<1>4. CASE ModelReplies
  BY <1>2, <1>4 DEF ModelReplies, ReplyTools, ReplyToolsAtCap, ReplyEmpty, ReplyText, AskModel
<1>5. CASE ToolReturns \/ ToolRejected
  BY <1>2, <1>5 DEF ToolReturns, ToolRejected, AfterBatch, AskModel
<1>6. CASE ModelFails \/ ToolAborted \/ TurnCompleteThrows
  BY <1>1, <1>6 DEF ModelFails, ToolAborted, TurnCompleteThrows
<1>7. CASE TurnCompleteReturns
  BY <1>7, TurnCompleteSettles DEF PQ!Next
<1>8. CASE UNCHANGED vars
  BY <1>2, <1>8 DEF vars
<1> QED
  BY <1>3, <1>4, <1>5, <1>6, <1>7, <1>8, CallsRefine DEF Next, Resume

\* The agent implements the safety part of the prompt queue: prompts are served
\* in arrival order, one batch at a time, none is dropped, none is served twice,
\* and the agent does not rest while one waits.
THEOREM ServesAsPromptQueue == Spec => PQ!Init /\ [][PQ!Next]_(PQ!vars)
<1>1. Init => PQ!Init
  BY EmptyToSet DEF Init, PQ!Init, Settled
<1>2. TypeOK /\ Serving /\ [Next]_vars => [PQ!Next]_(PQ!vars)
  BY RefinementStep
<1> QED
  BY <1>1, <1>2, ServingAlways, PTL DEF Spec
=============================================================================
