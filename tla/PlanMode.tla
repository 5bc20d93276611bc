------------------------------ MODULE PlanMode ------------------------------
(***************************************************************************)
(* coding-agent/planMode.ts as AgentSessionService drives it: a plan turn   *)
(* may only read until the user has approved the plan that the model        *)
(* presented in this turn; afterwards the plan's steps follow the work.     *)
(*                                                                         *)
(* The controller is one object per session and outlives its turns.  What   *)
(* may come late: an answer of the user, which names no plan, and the end   *)
(* of a tool whose turn was stopped.  A step is what happens between two    *)
(* awaits.  Texts are left out; of an answer the module keeps whether       *)
(* APPROVE_PATTERN accepts it, of a command whether isReadOnlyBash does.    *)
(***************************************************************************)
EXTENDS Naturals, Sequences, FiniteSets

CONSTANTS
  MaxTurns,    \* bound: turns of the agent
  MaxSteps,    \* bound: steps of a plan
  Files,       \* paths the model edits
  MaxAnswers,  \* bound: answers the user sends
  None         \* pendingApproval = null

Turns == 1..MaxTurns
Status == {"pending", "in_progress", "completed"}
\* Feedback such as "ok" is matched like a typed answer, and approves.
Answers == {"approve", "reject", "feedback ok"}
Approves(a) == a \in {"approve", "feedback ok"}

\* Every theorem about this module assumes it.
PlanAssumption ==
  /\ MaxTurns \in Nat
  /\ MaxSteps \in Nat
  /\ MaxAnswers \in Nat
  /\ None \notin [turn : Turns, steps : 1..MaxSteps]

VARIABLES
  turn,      \* turns begun
  busy,      \* the agent is between onTurnStart and the end of the turn
  planning,  \* ghost: turns whose prompt carries PLAN_MARKER
  active,    \* the controller's active, phase, todos, seenEditPaths,
  phase,     \* modelReportedProgress ...
  todos,
  seen,
  reported,
  pending,   \* ... and pendingApproval: the handler that waits, or None
  call,      \* the tool the agent awaits
  edits,     \* edits under way in the sandbox, also those of stopped turns
  shown,     \* session.currentPlan, as stored and sent to the clients
  answers,   \* answers on their way to the session, by kind
  consents,  \* ghost: turns in which an answer approved a plan of that turn
  touched    \* ghost: turns whose tools changed the project

controller == <<active, phase, todos, seen, reported, pending>>
vars == <<turn, busy, planning, active, phase, todos, seen, reported, pending,
          call, edits, shown, answers, consents, touched>>

Sent == answers["approve"] + answers["reject"] + answers["feedback ok"]

Init ==
  /\ turn = 0
  /\ busy = FALSE
  /\ planning = {}
  /\ active = FALSE
  /\ phase = "research"
  /\ todos = <<>>
  /\ seen = {}
  /\ reported = FALSE
  /\ pending = None
  /\ call = "none"
  /\ edits = {}
  /\ shown = [turn |-> 0, todos |-> <<>>, status |-> "none"]
  /\ answers = [a \in Answers |-> 0]
  /\ consents = {}
  /\ touched = {}

-----------------------------------------------------------------------------
\* syncTurn: everything but pendingApproval is reset.
StartTurn(isPlan) ==
  /\ ~busy
  /\ turn < MaxTurns
  /\ turn' = turn + 1
  /\ busy' = TRUE
  /\ planning' = IF isPlan THEN planning \union {turn + 1} ELSE planning
  /\ active' = isPlan
  /\ phase' = "research"
  /\ todos' = <<>>
  /\ seen' = {}
  /\ reported' = FALSE
  /\ UNCHANGED <<pending, call, edits, shown, answers, consents, touched>>

\* Variant: the handler that waits for an answer is kept.
EndTurnKeepsPending ==
  /\ busy
  /\ busy' = FALSE
  /\ active' = FALSE
  /\ phase' = "research"
  /\ todos' = <<>>
  /\ seen' = {}
  /\ reported' = FALSE
  /\ call' = "none"
  /\ UNCHANGED <<turn, planning, pending, edits, shown, answers, consents, touched>>

\* endTurn, called when a turn completes, fails or is stopped.
EndTurn ==
  /\ busy
  /\ busy' = FALSE
  /\ active' = FALSE
  /\ phase' = "research"
  /\ todos' = <<>>
  /\ seen' = {}
  /\ reported' = FALSE
  /\ pending' = None
  /\ call' = "none"
  /\ UNCHANGED <<turn, planning, edits, shown, answers, consents, touched>>

\* The loop of the turn is over, or the user stops it: raceAbort lets go of
\* the call, whose handler runs on.
TurnReturns == call = "none" /\ EndTurn
TurnStopped == EndTurn

\* guard(): what the research phase of a plan turn blocks.
Blocked == active /\ phase = "research"
AtModel == busy /\ call = "none"

-----------------------------------------------------------------------------
\* Variant: a plan without steps is presented as well.
PresentEmpty(n) ==
  /\ AtModel
  /\ Blocked
  /\ call' = "present"
  /\ pending' = [turn |-> turn, steps |-> n - 1]
  /\ shown' = [turn |-> turn, todos |-> [k \in 1..n - 1 |-> "pending"], status |-> "proposed"]
  /\ UNCHANGED <<turn, busy, planning, active, phase, todos, seen, reported, edits,
                 answers, consents, touched>>

\* present_plan up to its await; in an approved turn, and outside plan mode,
\* it returns at once and changes nothing.
Present(n) ==
  /\ AtModel
  /\ Blocked
  /\ call' = "present"
  /\ pending' = [turn |-> turn, steps |-> n]
  /\ shown' = [turn |-> turn, todos |-> [k \in 1..n |-> "pending"], status |-> "proposed"]
  /\ UNCHANGED <<turn, busy, planning, active, phase, todos, seen, reported, edits,
                 answers, consents, touched>>

\* emitProgress: the clients' copy follows the steps.
ShowProgress(td) ==
  shown' = [shown EXCEPT !.todos = td,
              !.status = IF \A k \in DOMAIN td : td[k] = "completed"
                         THEN "done" ELSE "running"]

\* A client answers; approve and reject carry no reference to a plan.
Answer(a) ==
  /\ Sent < MaxAnswers
  /\ answers' = [answers EXCEPT ![a] = @ + 1]
  /\ UNCHANGED <<turn, busy, planning, call, edits, shown, consents, touched>>
  /\ UNCHANGED controller

\* The handler goes on after its await: it looks at the answer only.
Approved ==
  LET td == [k \in 1..pending.steps |-> IF k = 1 THEN "in_progress" ELSE "pending"]
  IN /\ phase' = "approved"
     /\ seen' = {}
     /\ reported' = FALSE
     /\ todos' = td
     /\ ShowProgress(td)
     /\ consents' = consents \union ({turn} \intersect {pending.turn})

\* routeInput, and present_plan behind its await: without a handler that waits
\* the answer is dropped.
Deliver(a) ==
  /\ answers[a] > 0
  /\ answers' = [answers EXCEPT ![a] = @ - 1]
  /\ IF pending = None
     THEN UNCHANGED <<call, shown, consents>> /\ UNCHANGED controller
     ELSE /\ pending' = None
          /\ call' = IF pending.turn = turn THEN "none" ELSE call
          /\ IF Approves(a)
             THEN Approved
             ELSE UNCHANGED <<phase, todos, seen, reported, shown, consents>>
          /\ UNCHANGED active
  /\ UNCHANGED <<turn, busy, planning, edits, touched>>

-----------------------------------------------------------------------------
\* Variant: the next open step is not started.
ProgressStops(td, i, s) ==
  [k \in DOMAIN td |-> IF k < i THEN "completed" ELSE IF k = i THEN s ELSE td[k]]

\* applyTodoProgress, monotonic: the steps before i are done, and the first
\* step still open after a completed one is in progress.
Progress(td, i, s) ==
  LET up == [k \in DOMAIN td |-> IF k < i THEN "completed" ELSE IF k = i THEN s ELSE td[k]]
  IN [k \in DOMAIN td |->
        IF /\ s = "completed"
           /\ up[k] # "completed"
           /\ \A j \in DOMAIN td : j < k => up[j] = "completed"
        THEN "in_progress" ELSE up[k]]

Advance(i, s) == todos' = Progress(todos, i, s) /\ ShowProgress(todos')

\* update_plan: the model's report; the step number is clamped to the plan.
Report(i, s) ==
  /\ AtModel
  /\ active
  /\ phase = "approved"
  /\ i \in DOMAIN todos
  /\ reported' = TRUE
  /\ Advance(i, s)
  /\ UNCHANGED <<turn, busy, planning, active, phase, seen, pending, call, edits,
                 answers, consents, touched>>

\* Variant: only the name of the tool is looked at, not the phase.
BeginEditAlways(f) ==
  /\ AtModel
  /\ call' = "edit"
  /\ edits' = edits \union {[turn |-> turn, file |-> f]}
  /\ touched' = touched \union {turn}
  /\ UNCHANGED <<turn, busy, planning, shown, answers, consents>>
  /\ UNCHANGED controller

\* write_file or str_replace passes the guard and runs in the sandbox.
BeginEdit(f) ==
  /\ AtModel
  /\ ~Blocked
  /\ call' = "edit"
  /\ edits' = edits \union {[turn |-> turn, file |-> f]}
  /\ touched' = touched \union {turn}
  /\ UNCHANGED <<turn, busy, planning, shown, answers, consents>>
  /\ UNCHANGED controller

\* bash: in the research phase only what isReadOnlyBash lets pass.
RunCommand ==
  /\ AtModel
  /\ ~Blocked
  /\ touched' = touched \union {turn}
  /\ UNCHANGED <<turn, busy, planning, call, edits, shown, answers, consents>>
  /\ UNCHANGED controller

\* advanceForEdit: the open step that names the file, or else the first one.
Target == {i \in DOMAIN todos : todos[i] # "completed"}

Counts(f, failed) ==
  active /\ phase = "approved" /\ ~reported /\ ~failed /\ f \notin seen

\* The edit e ends, also long after its turn, and observe() sees the
\* controller as it is now.
EditReturns(e, failed) ==
  /\ edits' = edits \ {e}
  /\ call' = IF busy /\ call = "edit" /\ e.turn = turn THEN "none" ELSE call
  /\ IF Counts(e.file, failed)
     THEN /\ seen' = seen \union {e.file}
          /\ IF Target = {}
             THEN UNCHANGED <<todos, shown>>
             ELSE \E i \in Target : Advance(i, "completed")
     ELSE UNCHANGED <<seen, todos, shown>>
  /\ UNCHANGED <<turn, busy, planning, active, phase, reported, pending, answers,
                 consents, touched>>

Next ==
  \/ \E isPlan \in BOOLEAN : StartTurn(isPlan)
  \/ TurnReturns
  \/ TurnStopped
  \/ \E n \in 1..MaxSteps : Present(n)
  \/ \E a \in Answers : Answer(a)
  \/ \E a \in Answers : Deliver(a)
  \/ \E i \in 1..MaxSteps, s \in {"in_progress", "completed"} : Report(i, s)
  \/ \E f \in Files : BeginEdit(f)
  \/ RunCommand
  \/ \E e \in edits, failed \in BOOLEAN : EditReturns(e, failed)

Spec == Init /\ [][Next]_vars

-----------------------------------------------------------------------------
Steps == UNION {[1..n -> Status] : n \in 0..MaxSteps}

\* Every variable has its type.
TypeOK ==
  /\ turn \in 0..MaxTurns
  /\ {busy, active, reported} \subseteq BOOLEAN
  /\ planning \subseteq Turns
  /\ phase \in {"research", "approved"}
  /\ todos \in Steps
  /\ seen \subseteq Files
  /\ pending \in [turn : Turns, steps : 1..MaxSteps] \union {None}
  /\ call \in {"none", "present", "edit"}
  /\ edits \subseteq [turn : Turns, file : Files]
  /\ shown \in [turn : 0..MaxTurns, todos : Steps,
                status : {"none", "proposed", "running", "done"}]
  /\ answers \in [Answers -> Nat]
  /\ consents \subseteq Turns
  /\ touched \subseteq Turns

\* guard(), routeInput: a plan turn changes the project only if an answer of
\* the user approved a plan that was presented in that very turn.
ConsentBeforeChange == touched \intersect planning \subseteq consents

\* routeInput resolves the handler the agent waits for and no other: what a
\* stopped turn left behind must not be approved in a later one, and a plan
\* that waits can always be answered.
WaitIsHeard ==
  /\ pending # None => busy /\ active /\ phase = "research" /\ pending.turn = turn
  /\ (call = "present") <=> (pending # None)
\* applyTodoProgress, onPlanProgress: whatever mixture of reports and edits
\* arrives, the stored plan is the one of this turn, an unfinished plan has a step
\* in progress, and no step is begun behind one that is still pending.
ProgressIsShown ==
  phase = "approved" =>
    /\ active /\ shown.turn = turn /\ shown.todos = todos
    /\ shown.status = "done" <=> \A k \in DOMAIN todos : todos[k] = "completed"
    /\ shown.status # "done" =>
         shown.status = "running" /\ \E k \in DOMAIN todos : todos[k] = "in_progress"
    /\ \A j, k \in DOMAIN todos : j < k /\ todos[j] = "pending" => todos[k] = "pending"
=============================================================================
