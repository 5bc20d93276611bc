----------------------------- MODULE ChatAgent -----------------------------
(***************************************************************************)
(* chat-engine/src/ChatAgent.ts: the queue of prompts, the pump that turns  *)
(* them into turns, the tool-calling loop of a turn, and abort().           *)
(*                                                                         *)
(* The class runs on one JavaScript thread, so a step of this module is     *)
(* everything between two awaits.  pumpAt names the await pump() and        *)
(* runTurn() are suspended at; the public methods (submit, abort,           *)
(* removeFromQueue, restoreState) interleave only there.                    *)
(*                                                                         *)
(* Message texts are abstracted away.  Of the conversation the module keeps *)
(* what its validity depends on: how often each tool call of the last       *)
(* assistant message has been answered, and whether an older message was    *)
(* left with a call unanswered.                                             *)
(***************************************************************************)
EXTENDS Naturals, Sequences, FiniteSets, SequencesExt

CONSTANTS
  NumPrompts,           \* bound: prompts submitted during a behaviour
  MaxAborts,            \* bound: calls of abort() during a behaviour
  Forced,               \* prompts submitted with one forced tool call
  ToolBatches,          \* assistant messages that call tools: [id, size, action]
  Coalesce,             \* drainStrategy = 'coalesce' (else 'sequential')
  DrainAtToolBoundary,  \* drainQueuedAtToolBoundary
  AutoContinueOnEmpty,  \* autoContinueOnEmpty
  MaxNudges,            \* nudgeOnTextOnlyTurn.maxNudges, 0 without the option
  MaxToolIterations,    \* DEFAULT_MAX_TOOL_ITERATIONS
  NudgeThreshold,       \* REPEATED_TOOL_NUDGE_THRESHOLD
  HardLimit,            \* REPEATED_TOOL_HARD_LIMIT
  Restorable            \* whether the host calls restoreState before use

Prompt == 1..NumPrompts

ASSUME OptionsAssumption ==
  /\ NumPrompts \in Nat
  /\ MaxAborts \in Nat
  /\ Forced \subseteq Prompt
  /\ \A b \in ToolBatches : /\ b.size \in Nat \ {0}
                            /\ b.action \in BOOLEAN
  /\ {Coalesce, DrainAtToolBoundary, Restorable} \subseteq BOOLEAN
  /\ {AutoContinueOnEmpty, MaxNudges, MaxToolIterations} \subseteq Nat
  /\ {NudgeThreshold, HardLimit} \subseteq Nat \ {0}

VARIABLES
  queue,       \* this.queue, the ids only
  running,     \* this.running
  status,      \* QueuedItem.status, and "new" / "removed" outside its life
  pumpAt,      \* the await the pump is suspended at, "idle" without a pump
  aborted,     \* this.abortController.signal.aborted
  results,     \* answers given to each tool call of the last assistant message
  dangling,    \* some older assistant message has an unanswered tool call
  turn,        \* the local variables of runTurn
  abortCalls,  \* how often abort() was called
  abortTurns,  \* how many turns ended as aborted
  cause        \* why unanswered calls may exist: "cap", "restored"

vars == <<queue, running, status, pumpAt, aborted, results, dangling, turn,
          abortCalls, abortTurns, cause>>

ghosts == <<abortCalls, abortTurns, cause>>

-----------------------------------------------------------------------------
\* The turn's local variables before its loop.  last is the set of
\* the one batch lastToolSignature was taken from, empty for null; forced tells
\* the forced batch from the model's.
FreshTurn == [iteration |-> 0, empties |-> 0, nudges |-> 0, acted |-> FALSE,
              last |-> {}, repeat |-> 0, forced |-> FALSE]

Unanswered == \E k \in DOMAIN results : results[k] = 0
AllOnce(r) == \A k \in DOMAIN r : r[k] = 1

\* Variant: shift() on an empty queue puts undefined, here 0, into the batch.
BatchUnguarded(q) == IF q = <<>> THEN <<0>> ELSE IF Coalesce THEN q ELSE <<Head(q)>>

\* Variant: the first prompt is read but not taken off the queue.
RestKeepsHead(q) == IF q = <<>> \/ Coalesce THEN <<>> ELSE q

\* dequeueBatch and what it leaves in the queue.
Batch(q) == IF q = <<>> THEN <<>> ELSE IF Coalesce THEN q ELSE <<Head(q)>>
Rest(q)  == IF q = <<>> \/ Coalesce THEN <<>> ELSE Tail(q)

Marked(st, ps, s) == [p \in Prompt |-> IF p \in ps THEN s ELSE st[p]]

\* The head of pump()'s loop: the next batch starts and waits in beforeTurn, or
\* the pump ends.  q and st are the queue and the statuses reached so far.
PumpLoop(q, st) ==
  /\ queue' = Rest(q)
  /\ running' = Batch(q)
  /\ status' = Marked(st, ToSet(Batch(q)), "running")
  /\ pumpAt' = IF q = <<>> THEN "idle" ELSE "beforeTurn"
  /\ turn' = FreshTurn

\* Variant: the prompt is queued, but ensurePump() is not called.
EnqueueOnly(items) ==
  /\ queue' = queue \o items
  /\ status' = Marked(status, ToSet(items), "queued")
  /\ UNCHANGED <<running, pumpAt, turn>>

\* Variant: the prompt is put in front of the waiting ones.
EnqueueFirst(items) ==
  LET st == Marked(status, ToSet(items), "queued")
  IN IF pumpAt = "idle"
     THEN PumpLoop(items \o queue, st)
     ELSE queue' = items \o queue /\ status' = st /\ UNCHANGED <<running, pumpAt, turn>>

\* queue.push, then ensurePump(): a pump at work picks the items up later.
Enqueue(items) ==
  LET q  == queue \o items
      st == Marked(status, ToSet(items), "queued")
  IN IF pumpAt = "idle"
     THEN PumpLoop(q, st)
     ELSE queue' = q /\ status' = st /\ UNCHANGED <<running, pumpAt, turn>>

-----------------------------------------------------------------------------
\* submit(): prompts are numbered in the order in which they arrive.
Submit(p) ==
  /\ status[p] = "new"
  /\ \A r \in Prompt : r < p => status[r] # "new"
  /\ Enqueue(<<p>>)
  /\ UNCHANGED <<aborted, results, dangling>>
  /\ UNCHANGED ghosts

\* restoreState() on a new agent: the n oldest prompts come back from the
\* snapshot, whose history may end in calls a crash left unanswered.
Restore(n, holes) ==
  /\ Restorable
  /\ \A p \in Prompt : status[p] = "new"
  /\ dangling' = holes
  /\ cause' = IF holes THEN {"restored"} ELSE {}
  /\ Enqueue([i \in 1..n |-> i])
  /\ UNCHANGED <<aborted, results, abortCalls, abortTurns>>

\* removeFromQueue(): only a prompt that still waits can be taken back.
RemoveFromQueue(i) ==
  /\ queue' = RemoveAt(queue, i)
  /\ status' = [status EXCEPT ![queue[i]] = "removed"]
  /\ UNCHANGED <<running, pumpAt, aborted, results, dangling, turn>>
  /\ UNCHANGED ghosts

\* abort({ clearQueue }): the flag stays up until a turn fails.
Abort(clear) ==
  /\ abortCalls < MaxAborts
  /\ aborted' = TRUE
  /\ IF clear
     THEN /\ queue' = <<>>
          /\ status' = Marked(status, ToSet(queue), "removed")
     ELSE UNCHANGED <<queue, status>>
  /\ abortCalls' = abortCalls + 1
  /\ UNCHANGED <<running, pumpAt, results, dangling, turn, abortTurns, cause>>

-----------------------------------------------------------------------------
\* Variant: the failed turn leaves the aborted controller in place.
FailTurnKeepsAbort ==
  /\ PumpLoop(queue, Marked(status, ToSet(running),
                            IF aborted THEN "aborted" ELSE "error"))
  /\ abortTurns' = IF aborted THEN abortTurns + 1 ELSE abortTurns
  /\ UNCHANGED <<aborted, abortCalls, cause>>

\* pump()'s catch and finally: the batch is marked, the controller replaced,
\* and the loop goes on.
FailTurn ==
  /\ PumpLoop(queue, Marked(status, ToSet(running),
                            IF aborted THEN "aborted" ELSE "error"))
  /\ aborted' = FALSE
  /\ abortTurns' = IF aborted THEN abortTurns + 1 ELSE abortTurns
  /\ UNCHANGED <<abortCalls, cause>>

\* runTurn() returned: the items are done, pump() awaits turnCompleteHandler.
CompleteTurn ==
  /\ status' = Marked(status, ToSet(running), "done")
  /\ pumpAt' = "turnComplete"
  /\ UNCHANGED <<queue, running, aborted>>

\* Another request to the model (sendMessage, validateToolCallResult).
AskModel ==
  /\ pumpAt' = "model"
  /\ UNCHANGED <<queue, running, status, aborted>>

\* A message is appended to the history: what the last assistant message left
\* unanswered stays so.
AppendMessage(r) ==
  /\ results' = r
  /\ dangling' = (dangling \/ Unanswered)

ForcedCalls == {k \in DOMAIN running : running[k] \in Forced}

\* beforeTurn settled (its errors are swallowed): runTurn() appends the user
\* message.  Forced calls open a batch of their own, which an earlier abort()
\* cancels whole; otherwise the model is asked.
BeforeTurnReturns ==
  /\ pumpAt = "beforeTurn"
  /\ \/ /\ ForcedCalls = {}
        /\ AppendMessage(<<>>)
        /\ AskModel
        /\ UNCHANGED turn
        /\ UNCHANGED ghosts
     \/ /\ ForcedCalls # {}
        /\ aborted
        /\ AppendMessage([k \in 1..Cardinality(ForcedCalls) |-> 1])
        /\ FailTurn
     \/ /\ ForcedCalls # {}
        /\ ~aborted
        /\ AppendMessage([k \in 1..Cardinality(ForcedCalls) |-> 0])
        /\ pumpAt' = "tool"
        /\ turn' = [turn EXCEPT !.forced = TRUE]
        /\ UNCHANGED <<queue, running, status, aborted>>
        /\ UNCHANGED ghosts

-----------------------------------------------------------------------------
\* Cut off at the iteration cap, whatever the reply asks for.
AtCap == turn.iteration >= MaxToolIterations

\* The model replied with tool calls b, below the cap.
Repeats(b) == IF turn.last = {b} THEN turn.repeat + 1 ELSE 0

ReplyTools(b) ==
  LET n == Repeats(b) IN
  /\ ~AtCap
  /\ turn' = [turn EXCEPT !.iteration = @ + 1, !.last = {b}, !.repeat = n,
                          !.acted = @ \/ (n < NudgeThreshold /\ n < HardLimit
                                          /\ b.action)]
  /\ \/ /\ n >= HardLimit
        /\ AppendMessage([k \in 1..b.size |-> 1])
        /\ CompleteTurn
     \/ /\ n < HardLimit
        /\ n >= NudgeThreshold
        /\ AppendMessage([k \in 1..b.size |-> 1])
        /\ AskModel
     \/ /\ n < HardLimit
        /\ n < NudgeThreshold
        /\ AppendMessage([k \in 1..b.size |-> 0])
        /\ pumpAt' = "tool"
        /\ UNCHANGED <<queue, running, status, aborted>>
  /\ UNCHANGED ghosts

\* The model replied with tool calls at the cap: the loop is left, the calls
\* are never answered.
ReplyToolsAtCap(b) ==
  /\ AtCap
  /\ AppendMessage([k \in 1..b.size |-> 0])
  /\ CompleteTurn
  /\ cause' = cause \union {"cap"}
  /\ UNCHANGED <<turn, abortCalls, abortTurns>>

\* A blank reply is followed up autoContinueOnEmpty times.
ReplyEmpty ==
  /\ AppendMessage(<<>>)
  /\ IF ~AtCap /\ turn.empties < AutoContinueOnEmpty
     THEN /\ turn' = [turn EXCEPT !.empties = @ + 1]
          /\ AskModel
     ELSE CompleteTurn /\ UNCHANGED turn
  /\ UNCHANGED ghosts

\* A text reply is nudged while the turn has not acted, or looks like a tool
\* call written out as text.
ReplyText(malformed) ==
  /\ AppendMessage(<<>>)
  /\ IF ~AtCap /\ turn.nudges < MaxNudges /\ (~turn.acted \/ malformed)
     THEN /\ turn' = [turn EXCEPT !.nudges = @ + 1]
          /\ AskModel
     ELSE CompleteTurn /\ UNCHANGED turn
  /\ UNCHANGED ghosts

\* The request resolved.  fetch rejects on an aborted signal, so a reply only
\* arrives while the flag is down.
ModelReplies ==
  /\ pumpAt = "model"
  /\ ~aborted
  /\ \/ \E b \in ToolBatches : ReplyTools(b) \/ ReplyToolsAtCap(b)
     \/ ReplyEmpty
     \/ \E malformed \in BOOLEAN : ReplyText(malformed)

\* The request was rejected: abort(), an HTTP error, the stream guard.
ModelFails ==
  /\ pumpAt = "model"
  /\ FailTurn
  /\ UNCHANGED <<results, dangling>>

-----------------------------------------------------------------------------
\* runToolBatch executes the calls one after another; the current one is the
\* first that has no result.
Current == CHOOSE k \in DOMAIN results :
             results[k] = 0 /\ \A j \in 1..(k - 1) : results[j] # 0

\* Variant: the cancelled rest of the batch gets no result.
AnswerOnly(k) == [results EXCEPT ![k] = @ + 1]

\* addToolCallResult for every call from k on.
AnswerFrom(k) == [j \in DOMAIN results |->
                    IF j >= k THEN results[j] + 1 ELSE results[j]]

\* After the last call: a forced batch always hands over to the model, a
\* model's batch lets a waiting prompt cut in first.
AfterBatch ==
  IF ~turn.forced /\ DrainAtToolBoundary /\ queue # <<>>
  THEN CompleteTurn ELSE AskModel

\* Variant: the call is awaited without raceAbort.
ToolReturnsLate ==
  /\ pumpAt = "tool"
  /\ results' = [results EXCEPT ![Current] = @ + 1]
  /\ IF Current = Len(results)
     THEN AfterBatch
     ELSE UNCHANGED <<queue, running, status, pumpAt, aborted>>
  /\ turn' = IF Current = Len(results) THEN [turn EXCEPT !.forced = FALSE]
                                       ELSE turn
  /\ UNCHANGED dangling
  /\ UNCHANGED ghosts

\* executeTool settled with a result or threw: both answer the call.
ToolReturns ==
  /\ pumpAt = "tool"
  /\ ~aborted
  /\ results' = [results EXCEPT ![Current] = @ + 1]
  /\ IF Current = Len(results)
     THEN AfterBatch
     ELSE UNCHANGED <<queue, running, status, pumpAt, aborted>>
  /\ turn' = IF Current = Len(results) THEN [turn EXCEPT !.forced = FALSE]
                                       ELSE turn
  /\ UNCHANGED dangling
  /\ UNCHANGED ghosts

\* { approved: false }: the rest of the batch is cancelled, the turn ends.
ToolRejected ==
  /\ pumpAt = "tool"
  /\ ~aborted
  /\ results' = AnswerFrom(Current)
  /\ CompleteTurn
  /\ UNCHANGED <<dangling, turn>>
  /\ UNCHANGED ghosts

\* raceAbort rejects: cancelToolCalls answers what is left, the turn fails.
ToolAborted ==
  /\ pumpAt = "tool"
  /\ aborted
  /\ results' = AnswerFrom(Current)
  /\ FailTurn
  /\ UNCHANGED dangling

\* Variant: the pump ends after one turn without looking at the queue again.
TurnCompleteStops ==
  /\ pumpAt = "turnComplete"
  /\ running' = <<>>
  /\ pumpAt' = "idle"
  /\ UNCHANGED <<queue, status, turn, aborted, results, dangling>>
  /\ UNCHANGED ghosts

\* turnCompleteHandler resolved: the finally block, then the loop.
TurnCompleteReturns ==
  /\ pumpAt = "turnComplete"
  /\ PumpLoop(queue, status)
  /\ UNCHANGED <<aborted, results, dangling>>
  /\ UNCHANGED ghosts

\* turnCompleteHandler rejected inside pump()'s try: the turn fails after all.
TurnCompleteThrows ==
  /\ pumpAt = "turnComplete"
  /\ FailTurn
  /\ UNCHANGED <<results, dangling>>

-----------------------------------------------------------------------------
Init ==
  /\ queue = <<>>
  /\ running = <<>>
  /\ status = [p \in Prompt |-> "new"]
  /\ pumpAt = "idle"
  /\ aborted = FALSE
  /\ results = <<>>
  /\ dangling = FALSE
  /\ turn = FreshTurn
  /\ abortCalls = 0
  /\ abortTurns = 0
  /\ cause = {}

\* The caller's side.
Calls ==
  \/ \E p \in Prompt : Submit(p)
  \/ \E n \in Prompt, holes \in BOOLEAN : Restore(n, holes)
  \/ \E i \in DOMAIN queue : RemoveFromQueue(i)
  \/ \E clear \in BOOLEAN : Abort(clear)

\* The pump's side: whatever it awaits settles.
Resume ==
  \/ BeforeTurnReturns
  \/ ModelReplies
  \/ ModelFails
  \/ ToolReturns
  \/ ToolRejected
  \/ ToolAborted
  \/ TurnCompleteReturns
  \/ TurnCompleteThrows

Next == Calls \/ Resume

Spec == Init /\ [][Next]_vars

\* Every await settles in the end: beforeTurn and the handler are finite, a
\* request ends at the stream guard's deadline, and a tool is awaited only
\* until it returns.  Nobody is obliged to call in.
Fairness == WF_vars(Resume)
-----------------------------------------------------------------------------
Settled == {p \in Prompt : status[p] \in {"done", "error", "aborted"}}

TypeOK ==
  /\ queue \in Seq(Prompt)
  /\ running \in Seq(Prompt)
  /\ status \in [Prompt -> {"new", "queued", "running", "done", "error",
                             "aborted", "removed"}]
  /\ pumpAt \in {"idle", "beforeTurn", "model", "tool", "turnComplete"}
  /\ aborted \in BOOLEAN
  /\ results \in Seq(Nat)
  /\ dangling \in BOOLEAN
  /\ turn \in [iteration : Nat, empties : Nat, nudges : Nat, acted : BOOLEAN,
                last : SUBSET ToolBatches, repeat : Nat, forced : BOOLEAN]
  /\ abortCalls \in Nat
  /\ abortTurns \in Nat
  /\ cause \subseteq {"cap", "restored"}

\* A waiting prompt is never stranded: whatever interleaving of submit, remove,
\* abort and turn endings led here, a pump is at work whenever the queue is not
\* empty (the "submit may land after the loop exits" race of pump()).
NoStrandedPrompt == queue # <<>> => pumpAt # "idle"

\* Every prompt is in one place: its status says waiting exactly when the queue
\* holds it, and running only while the pump serves it, so no handler loses or
\* duplicates a prompt on its way from the queue to a turn's end.
PromptAccounted ==
  /\ \A p \in Prompt : status[p] = "queued" <=> p \in ToSet(queue)
  /\ \A p \in Prompt : status[p] = "running" => p \in ToSet(running)
  /\ \A p \in ToSet(running) : status[p] \in {"running", "done"}
  /\ running = <<>> <=> pumpAt = "idle"

\* Prompts start in the order they were submitted: while one waits, no later
\* one has started, whatever was removed in between.
NoOvertaking ==
  \A p, r \in Prompt :
    status[p] = "queued" /\ (r \in Settled \/ status[r] = "running") => r < p

\* The conversation the model is asked to continue is well formed: every tool
\* call has exactly one result, although turns end by rejection, abort, hard
\* limit and queue cut-in in the middle of a batch.  A turn that ran into the
\* iteration cap, and a history restored from a crash, are the exceptions.
CallsAnswered ==
  pumpAt \in {"model", "turnComplete"} /\ cause = {} =>
    ~dangling /\ AllOnce(results)

\* One abort() ends at most one turn: a flag left up by a turn that had already
\* ended is spent by the next failing turn and then gone.
AbortBudget == abortTurns + (IF aborted THEN 1 ELSE 0) <= abortCalls

\* Once abort() is called during a request or a tool, that turn gets no reply
\* and runs no further tool: it can only fail.
AbortStopsTurn ==
  [][aborted /\ pumpAt \in {"model", "tool"}
       => \/ UNCHANGED <<pumpAt, results, running, turn>>
          \/ ~aborted' /\ abortTurns' = abortTurns + 1]_vars

\* Every submitted prompt is settled or taken back: no combination of empty
\* replies, nudges, repeated calls and cut-ins keeps a turn alive for ever.
PromptsSettle ==
  \A p \in Prompt : status[p] = "queued" ~> status[p] \in {"done", "error",
                                                         "aborted", "removed"}

\* The agent implements the prompt queue its callers rely on.
PQ == INSTANCE PromptQueue WITH waiting <- queue, active <- running,
                                settled <- Settled \ ToSet(running)
ServesPrompts == PQ!Spec
=============================================================================
