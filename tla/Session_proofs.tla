--------------------------- MODULE Session_proofs ---------------------------
(***************************************************************************)
(* Theorems about the parts of MC_Session.  PlanMode, for any number of       *)
(* turns, steps, files and answers: nothing is changed before the user's      *)
(* consent, whoever waits for an answer is the turn that runs, and the plan   *)
(* shown follows the work.  Compaction, for any history: the summary stands   *)
(* for what a request leaves out.  At the end, what AgentEvents_proofs shows  *)
(* of the database and of the screen is carried over to the three instances   *)
(* of AgentEvents.                                                            *)
(***************************************************************************)
EXTENDS MC_Session, SequenceTheorems, WellFoundedInduction, TLAPS

Waiting == [turn : Turns, steps : 1..MaxSteps]

\* What a turn may have left behind, and what its controller may say of it.
Turned ==
  /\ turn \in 0..MaxTurns
  /\ busy => turn > 0
  /\ planning \subseteq 1..turn
  /\ touched \subseteq 1..turn
  /\ pending \in Waiting \union {None}

\* The controller belongs to the turn that runs; it is approved by a consent to a
\* plan of this turn.
Owned ==
  /\ busy => (active <=> turn \in planning)
  /\ phase \in {"research", "approved"}
  /\ phase = "approved" => busy /\ turn \in consents

IInv == Turned /\ Owned /\ WaitIsHeard /\ ConsentBeforeChange

LEMMA NoneIsNoPlan == PlanAssumption => None \notin Waiting
  BY DEF PlanAssumption, Waiting, Turns

-----------------------------------------------------------------------------
\* The first turn has not begun.
LEMMA InitHolds == PlanAssumption /\ Init => IInv
  BY DEF Init, IInv, Turned, Owned, WaitIsHeard, ConsentBeforeChange, PlanAssumption

\* A turn begins with a number nothing has been done under.
LEMMA StartTurnKeeps ==
  ASSUME PlanAssumption, IInv, NEW isPlan \in BOOLEAN, StartTurn(isPlan)
  PROVE  IInv'
<1>2. turn' \notin planning /\ turn' \notin touched
  BY DEF StartTurn, IInv, Turned, PlanAssumption
<1>3. Turned'
  BY DEF StartTurn, IInv, Turned, PlanAssumption
<1>4. pending = None
  BY DEF StartTurn, IInv, WaitIsHeard
<1>5. Owned'
  BY <1>2 DEF StartTurn, Owned
<1>6. WaitIsHeard'
  BY <1>4 DEF StartTurn, IInv, WaitIsHeard
<1>7. ConsentBeforeChange'
  BY <1>2 DEF StartTurn, IInv, ConsentBeforeChange
<1> QED BY <1>3, <1>5, <1>6, <1>7 DEF IInv

\* A turn ends, and with it its wait and its approval.
LEMMA EndTurnKeeps ==
  ASSUME PlanAssumption, IInv, EndTurn
  PROVE  IInv'
<1>1. Turned' BY DEF EndTurn, IInv, Turned
<1>2. Owned' BY DEF EndTurn, Owned
<1>3. WaitIsHeard' BY DEF EndTurn, WaitIsHeard
<1>4. ConsentBeforeChange' BY DEF EndTurn, IInv, ConsentBeforeChange
<1> QED BY <1>1, <1>2, <1>3, <1>4 DEF IInv

\* The plan of the turn that runs begins to wait.
LEMMA PresentKeeps ==
  ASSUME PlanAssumption, IInv, NEW n \in 1..MaxSteps, Present(n)
  PROVE  IInv'
<1>1. turn \in Turns
  BY DEF Present, AtModel, IInv, Turned, Turns, PlanAssumption
<1>2. pending' = [turn |-> turn, steps |-> n] /\ pending' \in Waiting
  BY <1>1 DEF Present, Waiting
<1>3. pending' # None /\ pending'.turn = turn
  BY <1>2, NoneIsNoPlan
<1>4. Turned' BY <1>2 DEF Present, IInv, Turned
<1>5. Owned' BY DEF Present, IInv, Owned
<1>6. WaitIsHeard'
  BY <1>3 DEF Present, AtModel, Blocked, WaitIsHeard
<1>7. ConsentBeforeChange' BY DEF Present, IInv, ConsentBeforeChange
<1> QED BY <1>4, <1>5, <1>6, <1>7 DEF IInv

\* An answer reaches the plan of the turn that runs, or nobody.
LEMMA DeliverKeeps ==
  ASSUME PlanAssumption, IInv, NEW a \in Answers, Deliver(a)
  PROVE  IInv'
<1>0. UNCHANGED <<turn, busy, planning, touched, active>>
  BY DEF Deliver, controller
<1>1. CASE pending = None
  <2>1. UNCHANGED <<call, consents, phase, pending>>
    BY <1>1 DEF Deliver, controller
  <2> QED BY <1>0, <2>1 DEF IInv, Turned, Owned, WaitIsHeard, ConsentBeforeChange
<1>2. CASE pending # None
  <2>1. busy /\ pending.turn = turn
    BY <1>2 DEF IInv, WaitIsHeard
  <2>2. pending' = None /\ call' = "none"
    BY <1>2, <2>1 DEF Deliver
  <2>3. \/ phase' = phase /\ consents' = consents
        \/ phase' = "approved" /\ consents' = consents \union ({turn} \intersect {pending.turn})
    BY <1>2 DEF Deliver, Approved
  <2>4. Turned'
    BY <1>0, <2>2 DEF IInv, Turned
  <2>5. Owned'
    BY <1>0, <2>1, <2>3 DEF IInv, Owned
  <2>6. WaitIsHeard'
    BY <2>2 DEF WaitIsHeard
  <2>7. ConsentBeforeChange'
    BY <1>0, <2>3 DEF IInv, ConsentBeforeChange
  <2> QED BY <2>4, <2>5, <2>6, <2>7 DEF IInv
<1> QED BY <1>1, <1>2

\* Whatever passes the guard in a plan turn has the consent of the user.
LEMMA GuardedKeeps ==
  ASSUME PlanAssumption, IInv, AtModel, ~Blocked,
         touched' = touched \union {turn}, call' \in {"none", "edit"},
         UNCHANGED <<turn, busy, planning, active, phase, pending, consents>>
  PROVE  IInv'
<1>1. turn \in 1..turn
  BY DEF AtModel, IInv, Turned, PlanAssumption
<1>2. turn \in planning => turn \in consents
  BY DEF AtModel, Blocked, IInv, Owned
<1>3. Turned' BY <1>1 DEF IInv, Turned
<1>4. Owned' BY DEF IInv, Owned
<1>5. WaitIsHeard' BY DEF AtModel, IInv, WaitIsHeard
<1>6. ConsentBeforeChange' BY <1>2 DEF IInv, ConsentBeforeChange
<1> QED BY <1>3, <1>4, <1>5, <1>6 DEF IInv

\* Steps that neither begin nor end a wait, nor change the project.
LEMMA OtherKeeps ==
  ASSUME IInv, UNCHANGED <<turn, busy, planning, active, phase, pending, consents, touched>>,
         call' = call \/ (call = "edit" /\ call' = "none")
  PROVE  IInv'
  BY DEF IInv, Turned, Owned, WaitIsHeard, ConsentBeforeChange

LEMMA NextKeeps == ASSUME PlanAssumption, IInv, [Next]_vars PROVE IInv'
<1>1. ASSUME NEW isPlan \in BOOLEAN, StartTurn(isPlan) PROVE IInv'
  BY <1>1, StartTurnKeeps
<1>2. CASE TurnReturns \/ TurnStopped
  BY <1>2, EndTurnKeeps DEF TurnReturns, TurnStopped
<1>3. ASSUME NEW n \in 1..MaxSteps, Present(n) PROVE IInv'
  BY <1>3, PresentKeeps
<1>4. ASSUME NEW a \in Answers, Answer(a) PROVE IInv'
  BY <1>4, OtherKeeps DEF Answer, controller
<1>5. ASSUME NEW a \in Answers, Deliver(a) PROVE IInv'
  BY <1>5, DeliverKeeps
<1>6. ASSUME NEW i \in 1..MaxSteps, NEW s \in {"in_progress", "completed"}, Report(i, s)
      PROVE  IInv'
  BY <1>6, OtherKeeps DEF Report
<1>7. ASSUME NEW f \in Files, BeginEdit(f) PROVE IInv'
  BY <1>7, GuardedKeeps DEF BeginEdit, controller
<1>8. CASE RunCommand
  BY <1>8, GuardedKeeps DEF RunCommand, AtModel, controller
<1>9. ASSUME NEW e \in edits, NEW failed \in BOOLEAN, EditReturns(e, failed) PROVE IInv'
  <2>1. call' = call \/ (call = "edit" /\ call' = "none")
    BY <1>9 DEF EditReturns
  <2>2. UNCHANGED <<turn, busy, planning, active, phase, pending, consents, touched>>
    BY <1>9 DEF EditReturns
  <2> QED BY <2>1, <2>2, OtherKeeps
<1>10. CASE UNCHANGED vars
  BY <1>10, OtherKeeps DEF vars
<1> QED BY <1>1, <1>2, <1>3, <1>4, <1>5, <1>6, <1>7, <1>8, <1>9, <1>10 DEF Next

\* guard(), routeInput, endTurn: a plan turn changes the project only after the user
\* approved a plan presented in that very turn, whatever answers were late and whatever
\* turns were stopped.
THEOREM ChangesHaveConsent == PlanAssumption => (Spec => []ConsentBeforeChange)
<1> SUFFICES ASSUME PlanAssumption PROVE Spec => []ConsentBeforeChange OBVIOUS
<1>1. Init => IInv BY InitHolds
<1>2. IInv /\ [Next]_vars => IInv' BY NextKeeps
<1>3. IInv => ConsentBeforeChange BY DEF IInv
<1> QED BY <1>1, <1>2, <1>3, PTL DEF Spec

\* routeInput: the handler that waits is the one the agent waits for, so an answer never
\* approves what a stopped turn left behind, and a plan that waits can be answered.
THEOREM WaitsAreHeard == PlanAssumption => (Spec => []WaitIsHeard)
<1> SUFFICES ASSUME PlanAssumption PROVE Spec => []WaitIsHeard OBVIOUS
<1>1. Init => IInv BY InitHolds
<1>2. IInv /\ [Next]_vars => IInv' BY NextKeeps
<1>3. IInv => WaitIsHeard BY DEF IInv
<1> QED BY <1>1, <1>2, <1>3, PTL DEF Spec

-----------------------------------------------------------------------------
\* The steps of a plan, and the record clients are shown.
Planned == \E n \in Nat : todos \in [1..n -> Status]
Record == shown = [turn |-> shown.turn, todos |-> shown.todos, status |-> shown.status]

\* Behind a step that is pending every step is.
Ordered(td) == \A j, k \in DOMAIN td : j < k /\ td[j] = "pending" => td[k] = "pending"
Finished(td) == \A k \in DOMAIN td : td[k] = "completed"
Begun(td) == \E k \in DOMAIN td : td[k] = "in_progress"

\* A plan that waits is the one shown; an approved one is shown as it stands.
Follows ==
  /\ Planned /\ Record
  /\ pending # None => shown.turn = turn
  /\ ProgressIsShown

PInv == IInv /\ Follows

\* A plan with an open step has a first one.
LEMMA FirstOpen ==
  ASSUME NEW n \in Nat, NEW td \in [1..n -> Status], ~Finished(td)
  PROVE  \E k \in 1..n : td[k] # "completed" /\ \A j \in 1..n : j < k => td[j] = "completed"
<1> DEFINE Open == {k \in 1..n : td[k] # "completed"}
<1>1. Open # {} /\ Open \subseteq Nat BY DEF Finished
<1>2. PICK k \in Open : \A j \in Open : <<j, k>> \notin OpToRel(<, Nat)
  BY <1>1, NatLessThanWellFounded, WFMin
<1>3. \A j \in Open : ~(j < k) BY <1>1, <1>2 DEF OpToRel
<1> QED BY <1>3

\* applyTodoProgress: the plan keeps its length, a step is in progress until all are
\* done, and no step is begun behind one that is pending.
LEMMA ProgressLemma ==
  ASSUME NEW n \in Nat, NEW td \in [1..n -> Status], Ordered(td),
         NEW i \in 1..n, NEW s \in {"in_progress", "completed"}
  PROVE  /\ Progress(td, i, s) \in [1..n -> Status]
         /\ Ordered(Progress(td, i, s))
         /\ Finished(Progress(td, i, s)) \/ Begun(Progress(td, i, s))
<1> DEFINE raised == [k \in DOMAIN td |-> IF k < i THEN "completed" ELSE IF k = i THEN s ELSE td[k]]
           nextOpen(k) == /\ s = "completed"
                       /\ raised[k] # "completed"
                       /\ \A j \in DOMAIN td : j < k => raised[j] = "completed"
           new == Progress(td, i, s)
<1>1. DOMAIN td = 1..n /\ new = [k \in 1..n |-> IF nextOpen(k) THEN "in_progress" ELSE raised[k]]
  BY DEF Progress
<1>2. raised \in [1..n -> Status]
  BY <1>1 DEF Status
<1> HIDE DEF new
<1>3. new \in [1..n -> Status]
  BY <1>1, <1>2 DEF Status
<1>4. \A k \in 1..n : new[k] = IF nextOpen(k) THEN "in_progress" ELSE raised[k]
  BY <1>1
<1>5. DOMAIN new = 1..n
  BY <1>1
<1>6. Ordered(new)
  <2> SUFFICES ASSUME NEW j \in 1..n, NEW k \in 1..n, j < k, new[j] = "pending"
               PROVE  new[k] = "pending"
    BY <1>5 DEF Ordered
  <2>1. raised[j] = "pending"
    BY <1>4
  <2>2. i < j /\ td[j] = "pending"
    BY <2>1, <1>1
  <2>3. raised[k] = "pending"
    BY <2>2, <1>1 DEF Ordered
  <2>4. ~nextOpen(k)
    BY <2>1, <1>1
  <2> QED BY <2>3, <2>4, <1>4
<1>7. Finished(new) \/ Begun(new)
  <2>1. CASE s = "in_progress"
    <3>1. raised[i] = "in_progress" /\ ~nextOpen(i)
      BY <2>1, <1>1
    <3> QED BY <3>1, <1>4, <1>5 DEF Begun
  <2>2. CASE s = "completed" /\ Finished(raised)
    <3>1. \A k \in 1..n : raised[k] = "completed"
      BY <2>2, <1>1, <1>2 DEF Finished
    <3> QED BY <3>1, <1>4, <1>5 DEF Finished
  <2>3. CASE s = "completed" /\ ~Finished(raised)
    <3>1. PICK k \in 1..n : /\ raised[k] # "completed"
                            /\ \A j \in 1..n : j < k => raised[j] = "completed"
      BY <2>3, <1>2, FirstOpen
    <3>2. nextOpen(k)
      BY <3>1, <2>3, <1>1
    <3> QED BY <3>2, <1>4, <1>5 DEF Begun
  <2> QED BY <2>1, <2>2, <2>3
<1> QED BY <1>3, <1>6, <1>7 DEF new

\* emitProgress shows the plan as it stands.
LEMMA AdvanceKeeps ==
  ASSUME PInv, phase = "approved",
         NEW i \in DOMAIN todos, NEW s \in {"in_progress", "completed"}, Advance(i, s),
         UNCHANGED <<turn, active, phase, pending>>
  PROVE  Follows'
<1>1. PICK n \in Nat : todos \in [1..n -> Status]
  BY DEF PInv, Follows, Planned
<1>2. Ordered(todos) /\ active /\ shown.turn = turn
  BY DEF PInv, Follows, ProgressIsShown, Ordered
<1>3. i \in 1..n
  BY <1>1
<1>4. /\ todos' \in [1..n -> Status]
      /\ Ordered(todos')
      /\ Finished(todos') \/ Begun(todos')
  <2>1. todos' = Progress(todos, i, s)
    BY DEF Advance
  <2> QED BY <1>1, <1>2, <1>3, <2>1, ProgressLemma
<1>5. shown' = [turn |-> turn, todos |-> todos',
                status |-> IF Finished(todos') THEN "done" ELSE "running"]
  BY <1>2 DEF Advance, ShowProgress, PInv, Follows, Record, Finished
<1>6. /\ shown'.turn = turn /\ shown'.todos = todos'
      /\ shown'.status = IF Finished(todos') THEN "done" ELSE "running"
  BY <1>5
<1>7. Planned' /\ Record'
  BY <1>4, <1>5, <1>6 DEF Planned, Record
<1>8. ProgressIsShown'
  BY <1>2, <1>4, <1>6 DEF ProgressIsShown, Ordered, Finished, Begun
<1> QED BY <1>6, <1>7, <1>8 DEF Follows

\* The steps that leave the approved plan alone, or end its turn.
LEMMA ResearchFollows ==
  ASSUME Planned', Record', phase' = "research", pending' # None => shown'.turn = turn'
  PROVE  Follows'
  BY DEF Follows, ProgressIsShown

LEMMA UnchangedFollows ==
  ASSUME Follows, UNCHANGED <<turn, active, phase, todos, pending, shown>>
  PROVE  Follows'
  BY DEF Follows, Planned, Record, ProgressIsShown

\* A plan without steps is one of length 0.
LEMMA NoSteps == \E n \in Nat : <<>> \in [1..n -> Status]
<1>1. <<>> \in [1..0 -> Status] OBVIOUS
<1> QED BY <1>1

LEMMA DeliverFollows ==
  ASSUME PlanAssumption, PInv, NEW a \in Answers, Deliver(a)
  PROVE  Follows'
<1>1. CASE pending = None
  BY <1>1, UnchangedFollows DEF Deliver, controller, PInv
<1>2. CASE pending # None /\ ~Approves(a)
  <2>1. pending' = None /\ UNCHANGED <<turn, active, phase, todos, shown>>
    BY <1>2 DEF Deliver
  <2> QED BY <2>1 DEF PInv, Follows, Planned, Record, ProgressIsShown
<1>3. CASE pending # None /\ Approves(a)
  <2> DEFINE td == [k \in 1..pending.steps |-> IF k = 1 THEN "in_progress" ELSE "pending"]
  <2>1. pending \in Waiting /\ pending.steps \in 1..MaxSteps
    BY <1>3 DEF PInv, IInv, Turned, Waiting
  <2>2. pending.steps \in Nat /\ 1 \in 1..pending.steps
    BY <2>1 DEF PlanAssumption
  <2>3. /\ pending' = None /\ phase' = "approved" /\ todos' = td
        /\ turn' = turn /\ active' = active
        /\ shown' = [shown EXCEPT !.todos = td,
                       !.status = IF \A k \in DOMAIN td : td[k] = "completed"
                                  THEN "done" ELSE "running"]
    BY <1>3 DEF Deliver, Approved, ShowProgress
  <2>4. td \in [1..pending.steps -> Status] /\ td[1] = "in_progress" /\ DOMAIN td = 1..pending.steps
    BY <2>2 DEF Status
  <2>5. ~Finished(td) /\ Begun(td) /\ Ordered(td)
    BY <2>2, <2>4 DEF Finished, Begun, Ordered
  <2>6. active /\ shown.turn = turn
    BY <1>3 DEF PInv, IInv, Follows, WaitIsHeard
  <2> HIDE DEF td
  <2>7. shown' = [turn |-> turn, todos |-> td, status |-> "running"]
    BY <2>3, <2>5, <2>6 DEF PInv, Follows, Record, Finished
  <2>8. Planned' /\ Record'
    BY <2>2, <2>3, <2>4, <2>7 DEF Planned, Record
  <2>9. ProgressIsShown'
    BY <2>3, <2>5, <2>6, <2>7 DEF ProgressIsShown, Finished, Begun, Ordered
  <2> QED BY <2>3, <2>8, <2>9 DEF Follows
<1> QED BY <1>1, <1>2, <1>3

LEMMA PNextKeeps == ASSUME PlanAssumption, PInv, [Next]_vars PROVE PInv'
<1>0. IInv' BY NextKeeps DEF PInv
<1>1. ASSUME NEW isPlan \in BOOLEAN, StartTurn(isPlan) PROVE Follows'
  <2>1. pending' = None /\ phase' = "research" /\ todos' = <<>> /\ shown' = shown
    BY <1>1 DEF StartTurn, PInv, IInv, WaitIsHeard
  <2> QED BY <2>1, NoSteps, ResearchFollows DEF PInv, Follows, Planned, Record
<1>2. ASSUME TurnReturns \/ TurnStopped PROVE Follows'
  <2>1. pending' = None /\ phase' = "research" /\ todos' = <<>> /\ shown' = shown
    BY <1>2 DEF TurnReturns, TurnStopped, EndTurn
  <2> QED BY <2>1, NoSteps, ResearchFollows DEF PInv, Follows, Planned, Record
<1>3. ASSUME NEW n \in 1..MaxSteps, Present(n) PROVE Follows'
  <2>1. phase' = "research" /\ todos' = todos /\ turn' = turn
    BY <1>3 DEF Present, Blocked
  <2>2. shown' = [turn |-> turn, todos |-> [k \in 1..n |-> "pending"], status |-> "proposed"]
    BY <1>3 DEF Present
  <2>3. Record' /\ shown'.turn = turn'
    BY <2>1, <2>2 DEF Record
  <2>4. Planned'
    BY <2>1 DEF PInv, Follows, Planned
  <2> QED BY <2>1, <2>3, <2>4, ResearchFollows
<1>4. ASSUME NEW a \in Answers, Answer(a) PROVE Follows'
  BY <1>4, UnchangedFollows DEF Answer, controller, PInv
<1>5. ASSUME NEW a \in Answers, Deliver(a) PROVE Follows'
  BY <1>5, DeliverFollows
<1>6. ASSUME NEW i \in 1..MaxSteps, NEW s \in {"in_progress", "completed"}, Report(i, s)
      PROVE  Follows'
  <2>1. i \in DOMAIN todos /\ phase = "approved" /\ Advance(i, s)
    BY <1>6 DEF Report
  <2>2. UNCHANGED <<turn, active, phase, pending>>
    BY <1>6 DEF Report
  <2> QED BY <2>1, <2>2, AdvanceKeeps
<1>7. ASSUME NEW f \in Files, BeginEdit(f) PROVE Follows'
  BY <1>7, UnchangedFollows DEF BeginEdit, controller, PInv
<1>8. ASSUME RunCommand PROVE Follows'
  BY <1>8, UnchangedFollows DEF RunCommand, controller, PInv
<1>9. ASSUME NEW e \in edits, NEW failed \in BOOLEAN, EditReturns(e, failed) PROVE Follows'
  <2>1. UNCHANGED <<turn, active, phase, pending>>
    BY <1>9 DEF EditReturns
  <2>2. CASE UNCHANGED <<todos, shown>>
    BY <2>1, <2>2, UnchangedFollows DEF PInv
  <2>3. CASE ~UNCHANGED <<todos, shown>>
    <3>1. phase = "approved" /\ \E i \in Target : Advance(i, "completed")
      BY <1>9, <2>3 DEF EditReturns, Counts
    <3>2. PICK i \in DOMAIN todos : Advance(i, "completed")
      BY <3>1 DEF Target
    <3> QED BY <2>1, <3>1, <3>2, AdvanceKeeps
  <2> QED BY <2>2, <2>3
<1>10. ASSUME UNCHANGED vars PROVE Follows'
  BY <1>10, UnchangedFollows DEF vars, PInv
<1>11. Follows'
  BY <1>1, <1>2, <1>3, <1>4, <1>5, <1>6, <1>7, <1>8, <1>9, <1>10 DEF Next
<1> QED BY <1>0, <1>11 DEF PInv

\* applyTodoProgress, onPlanProgress: the stored plan of an approved turn is the plan of
\* this turn as it stands, and until it is done a step is in progress, in any mixture of
\* reports and of edits that end late.
THEOREM PlanFollowsWork == PlanAssumption => (Spec => []ProgressIsShown)
<1> SUFFICES ASSUME PlanAssumption PROVE Spec => []ProgressIsShown OBVIOUS
<1>1. Init => PInv
  <2> SUFFICES ASSUME Init PROVE PInv OBVIOUS
  <2>1. IInv BY InitHolds
  <2>2. Follows
    BY NoSteps DEF Init, Follows, Planned, Record, ProgressIsShown
  <2> QED BY <2>1, <2>2 DEF PInv
<1>2. PInv /\ [Next]_vars => PInv' BY PNextKeeps
<1>3. PInv => ProgressIsShown BY DEF PInv, Follows
<1> QED BY <1>1, <1>2, <1>3, PTL DEF Spec

\* The other parts of a session leave the plan alone.
LEMMA PlanAlone == SessionSpec => Spec
<1>1. SessionInit => Init BY DEF SessionInit
<1>2. [SessionNext]_sessionVars => [Next]_vars
  BY DEF SessionNext, sessionVars, vars
<1> QED BY <1>1, <1>2, PTL DEF SessionSpec, Spec

-----------------------------------------------------------------------------
(* Compaction, for any history, window, lost saves and restarts.  Its history   *)
(* is `log`, its turn `next`; `storing` are the saves under way, `messages` the *)
(* rows, and `writing` the summaries that are being stored.                     *)

\* Numbers grow along a history.
Ascending(h) == \A i, j \in DOMAIN h : i < j => h[i].id < h[j].id

\* The messages of r are messages of h.
Within(r, h) == \A i \in DOMAIN r : \E j \in DOMAIN h : r[i] = h[j]

\* All messages that summary s was made of are in h.
Whole(s, h) == \A t \in s.told : \E i \in DOMAIN h : h[i].id = t

\* Summary s stands for the first messages of h,
Covers(s, h) ==
  Whole(s, h) => /\ s.covered <= Len(h)
                 /\ \A k \in DOMAIN h : h[k].id \in s.told <=> k <= s.covered

\* and for no call without its results.
Pairs(s, h) ==
  Whole(s, h) => \A i, j \in DOMAIN h :
    h[j].kind = "result" /\ h[j].id \notin s.told /\ h[i].id = h[j].of => h[i].id \notin s.told

\* A call is followed by its results.
Grouped(h) ==
  \A i, j, k \in DOMAIN h :
    h[j].kind = "result" /\ h[i].id = h[j].of /\ i < k /\ k < j => h[k].kind = "result"

\* c is the last call of h; only results come behind it.
LastCall(h, c) ==
  /\ c \in DOMAIN h /\ h[c].kind = "call"
  /\ \A k \in DOMAIN h : k > c => h[k].kind = "result"

\* The history h of n messages, the rows rs and the saves ss under way.
Recorded(h, n, rs, ss) ==
  /\ {h, rs, ss} \subseteq Seq(Talk!Message) /\ n \in Nat
  /\ Ascending(h) /\ Ascending(rs) /\ Ascending(ss)
  /\ \A i \in DOMAIN h : h[i].id \in 1..n
  /\ \A i \in DOMAIN rs, j \in DOMAIN ss : rs[i].id < ss[j].id
  /\ Within(rs, h) /\ Within(ss, h)
  /\ Grouped(h)

\* The summaries S of the history.
Honest(h, n, S) ==
  \A s \in S : s \in Talk!CompactionState /\ s.told \subseteq 1..n /\ Covers(s, h) /\ Pairs(s, h)

\* The summaries there are: in use, stored, and being stored.
Summaries == {state, kept} \union writing

\* The call whose results come next is in no summary.
CallIsOpen ==
  next = "tools" => \E c \in DOMAIN log :
    LastCall(log, c) /\ \A s \in Summaries : log[c].id \notin s.told

TalkKept ==
  /\ Recorded(log, made, messages, storing)
  /\ Honest(log, made, Summaries)
  /\ CallIsOpen

-----------------------------------------------------------------------------
\* Max and Min by what they are chosen for.

LEMMA MaxOfTwo ==
  ASSUME NEW a \in Int, NEW b \in Int
  PROVE  Talk!Max({a, b}) \in {a, b} /\ Talk!Max({a, b}) >= a /\ Talk!Max({a, b}) >= b
<1>1. \E x \in {a, b} : \A y \in {a, b} : x >= y
  <2>1. CASE a >= b BY <2>1
  <2>2. CASE b >= a BY <2>2
  <2> QED BY <2>1, <2>2
<1> QED BY <1>1 DEF Talk!Max

LEMMA MaxIsChosen ==
  ASSUME NEW S \in SUBSET Int, NEW c \in S, \A y \in S : c >= y
  PROVE  Talk!Max(S) = c
<1>1. Talk!Max(S) \in S /\ \A y \in S : Talk!Max(S) >= y
  BY DEF Talk!Max
<1>2. Talk!Max(S) >= c /\ c >= Talk!Max(S) /\ Talk!Max(S) \in Int /\ c \in Int BY <1>1
<1> QED BY <1>2

LEMMA MinIsLeast ==
  ASSUME NEW S \in SUBSET Nat, S # {}
  PROVE  Talk!Min(S) \in S /\ \A y \in S : Talk!Min(S) <= y
<1>1. PICK k \in S : \A y \in S : <<y, k>> \notin OpToRel(<, Nat)
  BY NatLessThanWellFounded, WFMin
<1>2. \A y \in S : ~(y < k) BY <1>1 DEF OpToRel
<1>3. \A y \in S : k <= y BY <1>2
<1> QED BY <1>3 DEF Talk!Min

\* The window begins where the summary ends or later, within the history, and not with
\* a result.
LEMMA CutLemma ==
  ASSUME Talk!CompactionAssumption, log \in Seq(Talk!Message), NEW c \in Nat
  PROVE  /\ Talk!Cut(c) \in Nat /\ Talk!Cut(c) >= c /\ (Talk!Cut(c) > c => Talk!Cut(c) <= Len(log))
         /\ Talk!Cut(c) < Len(log) => log[Talk!Cut(c) + 1].kind # "result"
<1> DEFINE n == Len(log)
           recent == Talk!Max({c, n - RecentKeep})
           top == Talk!Max({recent, n})
           S == {k \in recent..top : k >= n \/ log[k + 1].kind # "result"}
<1>1. n \in Nat /\ RecentKeep \in Nat BY LenProperties DEF Talk!CompactionAssumption
<1>2. recent \in {c, n - RecentKeep} /\ recent >= c
  <2>1. c \in Int /\ n - RecentKeep \in Int BY <1>1
  <2> HIDE DEF n
  <2> QED BY <2>1, MaxOfTwo, Zenon
<1>3. recent \in Nat BY <1>1, <1>2
<1>4. top \in {recent, n} /\ top >= recent /\ top >= n
  <2>1. recent \in Int /\ n \in Int BY <1>1, <1>3
  <2> HIDE DEF recent, n
  <2> QED BY <2>1, MaxOfTwo, Zenon
<1>5. top \in S BY <1>1, <1>3, <1>4
<1>6. S \in SUBSET Nat BY <1>1, <1>3, <1>4
<1>7. Talk!Cut(c) = Talk!Min(S) BY DEF Talk!Cut
<1>8. Talk!Cut(c) \in S BY <1>5, <1>6, <1>7, MinIsLeast
<1>9. recent > c => recent <= n BY <1>1, <1>2
<1> HIDE DEF recent, top
<1> QED BY <1>1, <1>2, <1>3, <1>4, <1>8, <1>9

-----------------------------------------------------------------------------
\* A history is a function.
LEMMA Shape ==
  ASSUME NEW h \in Seq(Talk!Message)
  PROVE  /\ DOMAIN h = 1..Len(h) /\ Len(h) \in Nat
         /\ \A i \in DOMAIN h : h[i] \in Talk!Message /\ h[i].id \in Nat
<1>1. DOMAIN h = 1..Len(h) /\ Len(h) \in Nat
  BY LenProperties
<1>2. ASSUME NEW i \in DOMAIN h PROVE h[i] \in Talk!Message
  BY <1>1, ElementOfSeq
<1>3. \A m \in Talk!Message : m.id \in Nat
  BY DEF Talk!Message
<1> QED BY <1>1, <1>2, <1>3

\* The first messages of h are the first of any part of h that has them all.
LEMMA PartBegins ==
  ASSUME NEW h \in Seq(Talk!Message), NEW r \in Seq(Talk!Message), Ascending(h), Ascending(r),
         Within(r, h), NEW s \in Talk!CompactionState, Covers(s, h), Whole(s, r)
  PROVE  \A k \in 1..s.covered : k \in DOMAIN r /\ k \in DOMAIN h /\ r[k] = h[k]
<1>0. /\ DOMAIN h = 1..Len(h) /\ DOMAIN r = 1..Len(r) /\ Len(h) \in Nat /\ Len(r) \in Nat
      /\ s.covered \in Nat
      /\ \A i \in DOMAIN h : h[i].id \in Nat
      /\ \A i \in DOMAIN r : r[i].id \in Nat
  BY Shape DEF Talk!CompactionState
<1>1. Whole(s, h)
  BY DEF Whole, Within
<1>2. s.covered <= Len(h) /\ \A k \in DOMAIN h : h[k].id \in s.told <=> k <= s.covered
  BY <1>1 DEF Covers
<1> DEFINE Off == {k \in 1..s.covered : ~(k \in DOMAIN r /\ r[k] = h[k])}
<1>3. SUFFICES ASSUME Off # {} PROVE FALSE
  BY <1>0, <1>2
<1>4. PICK k \in Off : \A y \in Off : <<y, k>> \notin OpToRel(<, Nat)
  <2>1. Off \in SUBSET Nat OBVIOUS
  <2> QED BY <2>1, <1>3, NatLessThanWellFounded, WFMin
<1>5. \A y \in Off : ~(y < k)
  <2>1. Off \in SUBSET Nat OBVIOUS
  <2> HIDE DEF Off
  <2> QED BY <2>1, <1>4 DEF OpToRel
<1>6. \A y \in 1..s.covered : y < k => y \in DOMAIN r /\ r[y] = h[y]
  BY <1>5
<1>7. k \in 1..s.covered /\ ~(k \in DOMAIN r /\ r[k] = h[k])
  OBVIOUS
<1> HIDE DEF Off
<1>8. k \in DOMAIN h /\ h[k].id \in s.told
  BY <1>0, <1>2, <1>7
<1>9. PICK p \in DOMAIN r : r[p].id = h[k].id
  BY <1>8 DEF Whole
<1>10. CASE p < k
  <2>1. r[p] = h[p] /\ p \in DOMAIN h
    BY <1>0, <1>2, <1>6, <1>7, <1>10
  <2>2. h[p].id < h[k].id
    BY <2>1, <1>8, <1>10 DEF Ascending
  <2> QED BY <2>1, <2>2, <1>0, <1>8, <1>9
<1>11. CASE p = k
  <2>1. PICK q \in DOMAIN h : r[k] = h[q]
    BY <1>9, <1>11 DEF Within
  <2>2. ~(q < k) /\ ~(k < q)
    BY <2>1, <1>0, <1>8, <1>9, <1>11 DEF Ascending
  <2>3. q = k
    BY <2>2, <1>0, <1>8
  <2> QED BY <2>1, <2>3, <1>7, <1>9, <1>11
<1>12. CASE p > k
  <2>1. k \in DOMAIN r
    BY <1>0, <1>7, <1>9, <1>12
  <2>2. r[k].id < h[k].id
    BY <2>1, <1>9, <1>12 DEF Ascending
  <2>3. PICK q \in DOMAIN h : r[k] = h[q]
    BY <2>1 DEF Within
  <2>4. q < k
    <3>1. h[q].id < h[k].id /\ h[q].id \in Nat /\ h[k].id \in Nat /\ q \in Nat /\ k \in Nat
      <4>1. h[q].id < h[k].id BY <2>2, <2>3
      <4>2. h[q].id \in Nat /\ h[k].id \in Nat BY <2>3, <1>0, <1>8
      <4>3. q \in Nat /\ k \in Nat BY <2>3, <1>0, <1>8
      <4> QED BY <4>1, <4>2, <4>3
    <3>2. k < q => h[k].id < h[q].id
      BY <2>3, <1>8 DEF Ascending
    <3>3. ~(k < q) /\ q # k
      BY <3>1, <3>2
    <3> QED BY <3>1, <3>3
  <2>5. r[q] = h[q] /\ q \in DOMAIN r
    BY <2>3, <2>4, <1>0, <1>6, <1>7
  <2>6. r[q].id < r[k].id
    BY <2>1, <2>4, <2>5 DEF Ascending
  <2> QED BY <2>1, <2>3, <2>5, <2>6, <1>0
<1> QED BY <1>10, <1>11, <1>12, <1>0, <1>7, <1>9

\* A summary of a history is one of every part that has all it was made of.
LEMMA PartIsCovered ==
  ASSUME NEW h \in Seq(Talk!Message), NEW r \in Seq(Talk!Message), Ascending(h), Ascending(r),
         Within(r, h), NEW s \in Talk!CompactionState, Covers(s, h), Pairs(s, h)
  PROVE  Covers(s, r) /\ Pairs(s, r)
<1> SUFFICES ASSUME Whole(s, r) PROVE Covers(s, r) /\ Pairs(s, r)
  BY DEF Covers, Pairs
<1>0. /\ DOMAIN h = 1..Len(h) /\ DOMAIN r = 1..Len(r) /\ Len(h) \in Nat /\ Len(r) \in Nat
      /\ s.covered \in Nat
      /\ \A i \in DOMAIN h : h[i].id \in Nat
      /\ \A i \in DOMAIN r : r[i].id \in Nat
  BY Shape DEF Talk!CompactionState
<1>1. Whole(s, h)
  BY DEF Whole, Within
<1>2. s.covered <= Len(h) /\ \A k \in DOMAIN h : h[k].id \in s.told <=> k <= s.covered
  BY <1>1 DEF Covers
<1>3. \A k \in 1..s.covered : k \in DOMAIN r /\ k \in DOMAIN h /\ r[k] = h[k]
  BY PartBegins
<1>4. s.covered <= Len(r)
  <2>1. CASE s.covered = 0 BY <2>1, <1>0
  <2>2. CASE s.covered > 0
    <3>1. s.covered \in 1..s.covered BY <2>2, <1>0
    <3> QED BY <3>1, <1>3, <1>0
  <2> QED BY <2>1, <2>2, <1>0
<1>5. ASSUME NEW k \in DOMAIN r
      PROVE  r[k].id \in s.told <=> k <= s.covered
  <2>1. CASE k <= s.covered
    <3>1. k \in 1..s.covered BY <2>1, <1>0
    <3> QED BY <3>1, <2>1, <1>2, <1>3
  <2>2. CASE k > s.covered
    <3>1. SUFFICES ASSUME r[k].id \in s.told PROVE FALSE
      BY <2>2, <1>0
    <3>2. PICK q \in DOMAIN h : r[k] = h[q]
      BY DEF Within
    <3>3. q \in 1..s.covered
      BY <3>1, <3>2, <1>0, <1>2
    <3>4. q \in DOMAIN r /\ r[q] = r[k]
      BY <3>2, <3>3, <1>3
    <3>5. q < k
      BY <3>3, <2>2, <1>0
    <3>6. r[q].id < r[k].id
      BY <3>4, <3>5 DEF Ascending
    <3> QED BY <3>4, <3>6, <1>0
  <2> QED BY <2>1, <2>2, <1>0
<1>6. Pairs(s, r)
  <2> SUFFICES ASSUME NEW i \in DOMAIN r, NEW j \in DOMAIN r, r[j].kind = "result",
                      r[j].id \notin s.told, r[i].id = r[j].of
               PROVE  r[i].id \notin s.told
    BY DEF Pairs
  <2>1. PICK a \in DOMAIN h : r[i] = h[a]
    BY DEF Within
  <2>2. PICK b \in DOMAIN h : r[j] = h[b]
    BY DEF Within
  <2> QED BY <2>1, <2>2, <1>1 DEF Pairs
<1> QED BY <1>4, <1>5, <1>6 DEF Covers

LEMMA PartIsGrouped ==
  ASSUME NEW h \in Seq(Talk!Message), NEW r \in Seq(Talk!Message), Ascending(h), Ascending(r),
         Within(r, h), Grouped(h)
  PROVE  Grouped(r)
<1>0. /\ DOMAIN h \subseteq Int /\ DOMAIN r \subseteq Int
      /\ \A i \in DOMAIN h : h[i].id \in Nat
  BY Shape
<1> SUFFICES ASSUME NEW i \in DOMAIN r, NEW j \in DOMAIN r, NEW k \in DOMAIN r,
                    r[j].kind = "result", r[i].id = r[j].of, i < k, k < j
             PROVE  r[k].kind = "result"
  BY DEF Grouped
<1>1. PICK a \in DOMAIN h : r[i] = h[a] BY DEF Within
<1>2. PICK b \in DOMAIN h : r[j] = h[b] BY DEF Within
<1>3. PICK d \in DOMAIN h : r[k] = h[d] BY DEF Within
<1>4. h[a].id < h[d].id /\ h[d].id < h[b].id
  BY <1>1, <1>2, <1>3 DEF Ascending
<1>5. ~(d < a) /\ ~(b < d) /\ d # a /\ b # d
  <2>0. /\ h[a].id \in Int /\ h[b].id \in Int /\ h[d].id \in Int
    BY <1>0
  <2>1. ~(h[d].id < h[a].id) /\ ~(h[b].id < h[d].id) /\ h[a].id # h[d].id /\ h[b].id # h[d].id
    BY <1>4, <2>0
  <2>2. ~(d < a)
    BY <2>1 DEF Ascending
  <2>3. ~(b < d)
    BY <2>1 DEF Ascending
  <2>4. d # a /\ b # d
    BY <2>1
  <2> QED BY <2>2, <2>3, <2>4
<1>6. a < d /\ d < b
  BY <1>5, <1>0
<1> QED BY <1>1, <1>2, <1>3, <1>6 DEF Grouped

-----------------------------------------------------------------------------
LEMMA Behind ==
  ASSUME NEW h \in Seq(Talk!Message), NEW m \in Talk!Message
  PROVE  /\ Append(h, m) \in Seq(Talk!Message) /\ Len(Append(h, m)) = Len(h) + 1
         /\ Len(h) + 1 \in DOMAIN Append(h, m) /\ Append(h, m)[Len(h) + 1] = m
         /\ \A i \in DOMAIN h : i \in DOMAIN Append(h, m) /\ Append(h, m)[i] = h[i]
         /\ \A i \in DOMAIN Append(h, m) :
              i \in DOMAIN h \/ (i = Len(h) + 1 /\ Append(h, m)[i] = m)
<1>1. /\ Append(h, m) \in Seq(Talk!Message) /\ Len(Append(h, m)) = Len(h) + 1
      /\ \A i \in 1..Len(h) : Append(h, m)[i] = h[i]
      /\ Append(h, m)[Len(h) + 1] = m
  BY AppendProperties
<1>2. DOMAIN h = 1..Len(h) /\ Len(h) \in Nat /\ DOMAIN Append(h, m) = 1..(Len(h) + 1)
  BY <1>1, Shape
<1> QED BY <1>1, <1>2

\* A message with a new number, behind all others.
LEMMA Ascends ==
  ASSUME NEW h \in Seq(Talk!Message), NEW m \in Talk!Message, Ascending(h),
         \A i \in DOMAIN h : h[i].id < m.id
  PROVE  Ascending(Append(h, m))
<1> DEFINE g == Append(h, m)
<1> SUFFICES ASSUME NEW i \in DOMAIN g, NEW j \in DOMAIN g, i < j PROVE g[i].id < g[j].id
  BY DEF Ascending
<1>0. /\ DOMAIN h = 1..Len(h) /\ Len(h) \in Nat /\ DOMAIN g = 1..(Len(h) + 1)
      /\ \A k \in DOMAIN g : k \in DOMAIN h \/ (k = Len(h) + 1 /\ g[k] = m)
      /\ \A k \in DOMAIN h : g[k] = h[k]
  BY Behind, Shape
<1> HIDE DEF g
<1>1. i \in DOMAIN h /\ g[i] = h[i] BY <1>0
<1>2. CASE j \in DOMAIN h BY <1>0, <1>1, <1>2 DEF Ascending
<1>3. CASE j = Len(h) + 1 /\ g[j] = m BY <1>1, <1>3
<1> QED BY <1>0, <1>2, <1>3

\* The last message of a reply, with its save if it has one; a result is one of the last
\* call, which no summary has.
Longer(g, h, m) == g = Append(h, m)
LEMMA AddOne ==
  ASSUME NEW h, NEW n, NEW rs, NEW ss, NEW S, NEW g, NEW ns,
         NEW m \in Talk!Message, Longer(g, h, m), ns = ss \/ Longer(ns, ss, m),
         Recorded(h, n, rs, ss), Honest(h, n, S), m.id = n + 1,
         m.kind = "result" =>
           \E c \in DOMAIN h : /\ LastCall(h, c) /\ m.of = h[c].id
                               /\ \A s \in S : h[c].id \notin s.told
  PROVE  Recorded(g, n + 1, rs, ns) /\ Honest(g, n + 1, S)
<1>0. /\ {h, rs, ss} \subseteq Seq(Talk!Message) /\ n \in Nat
      /\ Ascending(h) /\ Ascending(rs) /\ Ascending(ss)
      /\ \A i \in DOMAIN h : h[i].id \in 1..n
      /\ \A i \in DOMAIN rs, j \in DOMAIN ss : rs[i].id < ss[j].id
      /\ Within(rs, h) /\ Within(ss, h) /\ Grouped(h)
  BY DEF Recorded
<1>1. /\ g \in Seq(Talk!Message) /\ Len(g) = Len(h) + 1
      /\ Len(h) + 1 \in DOMAIN g /\ g[Len(h) + 1] = m
      /\ \A i \in DOMAIN h : i \in DOMAIN g /\ g[i] = h[i]
      /\ \A i \in DOMAIN g : i \in DOMAIN h \/ (i = Len(h) + 1 /\ g[i] = m)
  <2>1. g = Append(h, m) BY DEF Longer
  <2> QED BY <2>1, <1>0, Behind
<1>2. /\ DOMAIN h = 1..Len(h) /\ Len(h) \in Nat /\ DOMAIN g = 1..(Len(h) + 1)
      /\ \A i \in DOMAIN rs : rs[i].id \in 1..n
      /\ \A i \in DOMAIN ss : ss[i].id \in 1..n
  <2>1. DOMAIN h = 1..Len(h) /\ Len(h) \in Nat /\ DOMAIN g = 1..(Len(h) + 1)
    BY <1>0, <1>1, Shape
  <2> QED BY <2>1, <1>0 DEF Within
<1>3. Ascending(g)
  <2>1. \A i \in DOMAIN h : h[i].id < m.id BY <1>0
  <2> QED BY <2>1, <1>0, Ascends DEF Longer
<1>4. \A i \in DOMAIN g : g[i].id \in 1..(n + 1)
  BY <1>0, <1>1
<1>5. Within(rs, g) /\ Within(ss, g)
  BY <1>0, <1>1 DEF Within
<1>6. /\ ns \in Seq(Talk!Message) /\ Ascending(ns) /\ Within(ns, g)
      /\ \A i \in DOMAIN rs, j \in DOMAIN ns : rs[i].id < ns[j].id
  <2>1. CASE ns = ss BY <2>1, <1>0, <1>5
  <2>2. CASE Longer(ns, ss, m)
    <3>0. ns = Append(ss, m) BY <2>2 DEF Longer
    <3>1. /\ ns \in Seq(Talk!Message)
          /\ \A i \in DOMAIN ss : ns[i] = ss[i]
          /\ \A i \in DOMAIN ns : i \in DOMAIN ss \/ ns[i] = m
      BY <3>0, <1>0, Behind
    <3>2. \A i \in DOMAIN ss : ss[i].id < m.id
      BY <1>0, <1>2
    <3>3. Ascending(ns)
      BY <3>0, <3>2, <1>0, Ascends
    <3>4. Within(ns, g)
      BY <3>1, <1>1, <1>5 DEF Within
    <3>5. \A i \in DOMAIN rs, j \in DOMAIN ns : rs[i].id < ns[j].id
      BY <3>1, <1>0, <1>2
    <3> QED BY <3>1, <3>3, <3>4, <3>5
  <2> QED BY <2>1, <2>2
<1>7. Grouped(g)
  <2> SUFFICES ASSUME NEW i \in DOMAIN g, NEW j \in DOMAIN g, NEW k \in DOMAIN g,
                      g[j].kind = "result", g[i].id = g[j].of, i < k, k < j
               PROVE  g[k].kind = "result"
    BY DEF Grouped
  <2>1. i \in DOMAIN h /\ k \in DOMAIN h /\ g[i] = h[i] /\ g[k] = h[k]
    BY <1>1, <1>2
  <2>2. CASE j \in DOMAIN h
    BY <2>1, <2>2, <1>0, <1>1 DEF Grouped
  <2>3. CASE g[j] = m
    <3>1. PICK c \in DOMAIN h : LastCall(h, c) /\ m.of = h[c].id
      BY <2>3
    <3>2. ~(i < c) /\ ~(c < i)
      BY <2>1, <2>3, <3>1, <1>0 DEF Ascending
    <3>3. k > c
      BY <2>1, <3>2, <1>2
    <3> QED BY <2>1, <3>1, <3>3 DEF LastCall
  <2> QED BY <2>2, <2>3, <1>1
<1>8. ASSUME NEW s \in S
      PROVE  /\ s \in Talk!CompactionState /\ s.told \subseteq 1..(n + 1)
             /\ Covers(s, g) /\ Pairs(s, g)
  <2>0. /\ s \in Talk!CompactionState /\ s.told \subseteq 1..n /\ Covers(s, h) /\ Pairs(s, h)
        /\ s.covered \in Nat
    BY DEF Honest, Talk!CompactionState
  <2>1. m.id \notin s.told
    BY <2>0, <1>0
  <2>2. Whole(s, g) => Whole(s, h)
    BY <2>1, <1>1 DEF Whole
  <2>3. Covers(s, g)
    <3> SUFFICES ASSUME Whole(s, g)
                 PROVE  /\ s.covered <= Len(g)
                        /\ \A k \in DOMAIN g : g[k].id \in s.told <=> k <= s.covered
      BY DEF Covers
    <3>1. s.covered <= Len(h) /\ \A k \in DOMAIN h : h[k].id \in s.told <=> k <= s.covered
      BY <2>0, <2>2 DEF Covers
    <3> QED BY <3>1, <2>0, <2>1, <1>1, <1>2
  <2>4. Pairs(s, g)
    <3> SUFFICES ASSUME Whole(s, g), NEW i \in DOMAIN g, NEW j \in DOMAIN g,
                        g[j].kind = "result", g[j].id \notin s.told, g[i].id = g[j].of
                 PROVE  g[i].id \notin s.told
      BY DEF Pairs
    <3>1. CASE g[i] = m BY <3>1, <2>1
    <3>2. CASE i \in DOMAIN h /\ g[j] = m BY <3>2
    <3>3. CASE i \in DOMAIN h /\ j \in DOMAIN h
      BY <3>3, <2>0, <2>2, <1>1 DEF Pairs
    <3> QED BY <3>1, <3>2, <3>3, <1>1
  <2>5. s.told \subseteq 1..(n + 1)
    BY <2>0, <1>0
  <2> QED BY <2>0, <2>3, <2>4, <2>5
<1>9. n + 1 \in Nat BY <1>0
<1> QED BY <1>0, <1>1, <1>3, <1>4, <1>5, <1>6, <1>7, <1>8, <1>9 DEF Recorded, Honest

\* A call that was just added is the last; a result leaves it so.
LEMMA CallIsLast ==
  ASSUME NEW h \in Seq(Talk!Message), NEW m \in Talk!Message
  PROVE  /\ m.kind = "call" => LastCall(Append(h, m), Len(h) + 1)
         /\ m.kind = "result" => \A c : LastCall(h, c) => LastCall(Append(h, m), c)
<1>1. DOMAIN h = 1..Len(h) /\ Len(h) \in Nat
  BY Shape
<1>2. DOMAIN Append(h, m) \subseteq Int
  BY Behind, Shape
<1> QED BY <1>1, <1>2, Behind DEF LastCall

\* The numbers of the messages behind the first c, up to n.
LEMMA IdsBehind ==
  ASSUME NEW h \in Seq(Talk!Message), NEW c \in Nat, NEW n \in Nat, n <= Len(h)
  PROVE  /\ \A i \in DOMAIN h : c < i /\ i <= n => h[i].id \in Talk!Ids(SubSeq(h, c + 1, n))
         /\ \A x \in Talk!Ids(SubSeq(h, c + 1, n)) :
              \E i \in DOMAIN h : c < i /\ i <= n /\ h[i].id = x
         /\ \A m \in Talk!ToSet(SubSeq(h, c + 1, n)) :
              \E i \in DOMAIN h : c < i /\ i <= n /\ h[i] = m
<1> DEFINE r == SubSeq(h, c + 1, n)
<1>1. DOMAIN h = 1..Len(h) /\ Len(h) \in Nat /\ \A i \in DOMAIN h : h[i] \in Talk!Message
  BY Shape
<1>2. \A i \in (c + 1)..n : h[i] \in Talk!Message
  BY <1>1
<1>3. /\ r \in Seq(Talk!Message) /\ Len(r) = IF c + 1 <= n THEN n - (c + 1) + 1 ELSE 0
      /\ \A i \in 1..(n - (c + 1) + 1) : r[i] = h[c + 1 + i - 1]
  <2>1. c + 1 \in Int /\ n \in Int OBVIOUS
  <2> QED BY <2>1, <1>2, SubSeqProperties
<1>4. DOMAIN r = 1..Len(r)
  BY <1>3, Shape
<1> HIDE DEF r
<1>5. \A k \in DOMAIN r : c + k \in DOMAIN h /\ c + k > c /\ c + k <= n /\ r[k] = h[c + k]
  BY <1>1, <1>3, <1>4
<1>6. \A i \in DOMAIN h : c < i /\ i <= n => i - c \in DOMAIN r /\ r[i - c] = h[i]
  <2> SUFFICES ASSUME NEW i \in DOMAIN h, c < i, i <= n
               PROVE  i - c \in DOMAIN r /\ r[i - c] = h[i]
    OBVIOUS
  <2>1. i - c \in 1..(n - (c + 1) + 1) /\ c + 1 + (i - c) - 1 = i /\ c + 1 <= n
    BY <1>1
  <2>2. r[i - c] = h[c + 1 + (i - c) - 1]
    BY <2>1, <1>3
  <2>3. DOMAIN r = 1..(n - (c + 1) + 1)
    BY <2>1, <1>3, <1>4
  <2> QED BY <2>1, <2>2, <2>3
<1>7. Talk!ToSet(r) = {r[k] : k \in DOMAIN r} /\ Talk!Ids(r) = {m.id : m \in Talk!ToSet(r)}
  BY DEF Talk!ToSet, Talk!Ids
<1>8. ASSUME NEW i \in DOMAIN h, c < i, i <= n PROVE h[i].id \in Talk!Ids(r)
  <2>1. r[i - c] \in Talk!ToSet(r) /\ r[i - c] = h[i] BY <1>6, <1>7, <1>8
  <2> QED BY <2>1, <1>7
<1>9. ASSUME NEW m \in Talk!ToSet(r) PROVE \E i \in DOMAIN h : c < i /\ i <= n /\ h[i] = m
  <2>1. PICK k \in DOMAIN r : r[k] = m BY <1>7
  <2>2. c + k \in DOMAIN h /\ c < c + k /\ c + k <= n /\ h[c + k] = m
    BY <2>1, <1>4, <1>5
  <2> QED BY <2>2
<1>10. ASSUME NEW x \in Talk!Ids(r) PROVE \E i \in DOMAIN h : c < i /\ i <= n /\ h[i].id = x
  <2>1. PICK m \in Talk!ToSet(r) : m.id = x BY <1>7
  <2> QED BY <2>1, <1>9
<1> QED BY <1>8, <1>9, <1>10 DEF r

-----------------------------------------------------------------------------
\* Nothing is there at first.
LEMMA TalkBegins == Talk!Init => TalkKept
<1> SUFFICES ASSUME Talk!Init PROVE TalkKept OBVIOUS
<1>1. log = <<>> /\ messages = <<>> /\ storing = <<>> /\ writing = {} /\ made = 0
  BY DEF Talk!Init
<1>2. <<>> \in Seq(Talk!Message) /\ Len(<<>>) = 0
  OBVIOUS
<1>3. DOMAIN log = {} /\ DOMAIN messages = {} /\ DOMAIN storing = {}
  BY <1>1
<1>4. Recorded(log, made, messages, storing)
  BY <1>1, <1>2, <1>3 DEF Recorded, Ascending, Within, Grouped
<1>5. \A s \in Summaries : s = Talk!NothingTold
  BY <1>1 DEF Talk!Init, Summaries
<1>6. /\ Talk!NothingTold \in Talk!CompactionState
      /\ Talk!NothingTold.told = {} /\ Talk!NothingTold.covered = 0
  BY DEF Talk!NothingTold, Talk!CompactionState
<1>7. Honest(log, made, Summaries)
  BY <1>1, <1>2, <1>3, <1>5, <1>6 DEF Honest, Covers, Pairs
<1> QED BY <1>1, <1>2, <1>4, <1>7 DEF Talk!Init, TalkKept, CallIsOpen

\* The calls of the prompt before the next turn: what has left the window is in the summary.
LEMMA SummarizeKeeps == ASSUME Talk!CompactionAssumption, TalkKept, Talk!Summarize PROVE TalkKept'
<1> DEFINE c == state.covered
           cut == Talk!Cut(c)
           s == [covered |-> cut, told |-> state.told \union Talk!Ids(SubSeq(log, c + 1, cut))]
<1>1. /\ state' = s /\ writing' = writing \union {s} /\ next' = "prompt" /\ cut > c
      /\ UNCHANGED <<log, made, storing, messages, kept>>
  BY DEF Talk!Summarize, Talk!dbVars
<1>2. /\ Recorded(log, made, messages, storing) /\ log \in Seq(Talk!Message) /\ made \in Nat
      /\ Ascending(log) /\ Grouped(log)
      /\ \A i \in DOMAIN log : log[i].id \in 1..made
  BY DEF TalkKept, Recorded
<1>3. /\ state \in Talk!CompactionState /\ state.told \subseteq 1..made
      /\ Covers(state, log) /\ Pairs(state, log) /\ c \in Nat
  BY DEF TalkKept, Honest, Summaries, Talk!CompactionState
<1>4. cut \in Nat /\ cut <= Len(log)
      /\ (cut < Len(log) => log[cut + 1].kind # "result")
  BY <1>1, <1>2, <1>3, CutLemma
<1> HIDE DEF c, cut
<1>5. /\ DOMAIN log = 1..Len(log) /\ Len(log) \in Nat
      /\ \A i \in DOMAIN log : log[i].id \in Nat
  BY <1>2, Shape
<1>6. /\ \A i \in DOMAIN log : c < i /\ i <= cut => log[i].id \in s.told
      /\ \A x \in s.told :
           x \in state.told \/ \E i \in DOMAIN log : c < i /\ i <= cut /\ log[i].id = x
      /\ state.told \subseteq s.told /\ s.covered = cut
  <2> DEFINE new == Talk!Ids(SubSeq(log, c + 1, cut))
  <2>1. /\ \A i \in DOMAIN log : c < i /\ i <= cut => log[i].id \in new
        /\ \A x \in new : \E i \in DOMAIN log : c < i /\ i <= cut /\ log[i].id = x
    BY <1>2, <1>3, <1>4, IdsBehind
  <2>2. s.told = state.told \union new /\ s.covered = cut
    OBVIOUS
  <2> HIDE DEF new, s
  <2> QED BY <2>1, <2>2
<1>7. s.told \subseteq 1..made
  BY <1>2, <1>3, <1>6
<1>8. s \in Talk!CompactionState
  <2>1. s.told \in SUBSET Nat BY <1>7, <1>2
  <2> QED BY <2>1, <1>4 DEF Talk!CompactionState
<1> HIDE DEF s
<1>9. ASSUME Whole(s, log)
      PROVE  \A k \in DOMAIN log : log[k].id \in s.told <=> k <= cut
  <2>1. Whole(state, log)
    BY <1>6, <1>9 DEF Whole
  <2>2. c <= Len(log)
        /\ \A k \in DOMAIN log : log[k].id \in state.told <=> k <= c
    BY <2>1, <1>3 DEF Covers, c
  <2>3. TAKE k \in DOMAIN log
  <2>4. ASSUME log[k].id \in s.told PROVE k <= cut
    <3>1. CASE log[k].id \in state.told
      BY <3>1, <2>2, <1>1, <1>3, <1>4, <1>5
    <3>2. ASSUME NEW i \in DOMAIN log, i <= cut, log[i].id = log[k].id
          PROVE  k <= cut
      <4>1. ~(i < k) BY <3>2, <1>2, <1>5 DEF Ascending
      <4> QED BY <4>1, <3>2, <1>4, <1>5
    <3> QED BY <3>1, <3>2, <2>4, <1>6
  <2>5. ASSUME k <= cut PROVE log[k].id \in s.told
    <3>1. CASE k <= c BY <3>1, <2>2, <1>6
    <3>2. CASE c < k BY <3>2, <2>5, <1>6
    <3> QED BY <3>1, <3>2, <1>3, <1>5
  <2> QED BY <2>4, <2>5
<1>10. Covers(s, log)
  BY <1>4, <1>6, <1>9 DEF Covers
<1>11. Pairs(s, log)
  <2> SUFFICES ASSUME Whole(s, log), NEW i \in DOMAIN log, NEW j \in DOMAIN log,
                      log[j].kind = "result", log[j].id \notin s.told,
                      log[i].id = log[j].of, i <= cut
               PROVE  FALSE
    BY <1>9 DEF Pairs
  <2>1. j > cut BY <1>9, <1>4, <1>5
  <2>2. cut + 1 \in DOMAIN log /\ log[cut + 1].kind # "result"
    BY <2>1, <1>4, <1>5
  <2>3. i < cut + 1 /\ cut + 1 < j
    BY <2>1, <2>2, <1>4, <1>5
  <2> QED BY <2>2, <2>3, <1>2 DEF Grouped
<1>12. \A x \in Summaries' : x = s \/ x \in Summaries
  BY <1>1 DEF Summaries
<1>13. Honest(log, made, Summaries)'
  BY <1>1, <1>7, <1>8, <1>10, <1>11, <1>12 DEF TalkKept, Honest
<1> QED BY <1>1, <1>2, <1>13 DEF TalkKept, CallIsOpen

-----------------------------------------------------------------------------
\* The kinds that are stored.
LEMMA StoredOne ==
  ASSUME NEW m PROVE Talk!Stored(<<m>>) = IF m.kind \in {"nudge", "blank"} THEN <<>> ELSE <<m>>
<1>1. Talk!ToSet(<<m>>) = {m} BY DEF Talk!ToSet
<1> QED BY <1>1 DEF Talk!Stored

LEMMA StoredTwo ==
  ASSUME NEW a, NEW b, a.kind \notin {"nudge", "blank"}, b.kind \notin {"nudge", "blank"}
  PROVE  Talk!Stored(<<a, b>>) = <<a, b>>
<1>1. Talk!ToSet(<<a, b>>) = {a, b} BY DEF Talk!ToSet
<1> QED BY <1>1 DEF Talk!Stored

\* A message alone, with its save or without.
LEMMA AddsOne ==
  ASSUME TalkKept, NEW m \in Talk!Message, m.id = made + 1, Talk!Add(<<m>>),
         UNCHANGED <<state, writing, Talk!dbVars>>,
         m.kind = "result" =>
           \E c \in DOMAIN log : /\ LastCall(log, c) /\ m.of = log[c].id
                                     /\ \A s \in Summaries : log[c].id \notin s.told,
         next' = "tools" => m.kind \in {"call", "result"}
  PROVE  TalkKept'
<1>1. log \in Seq(Talk!Message) /\ storing \in Seq(Talk!Message) /\ made \in Nat
      /\ \A s \in Summaries : s.told \subseteq 1..made
  BY DEF TalkKept, Recorded, Honest
<1>2. log' = Append(log, m) /\ made' = made + 1 /\ storing' \in {storing, Append(storing, m)}
  <2>1. log' = log \o <<m>> /\ storing' = storing \o Talk!Stored(<<m>>) /\ made' = made + 1
    BY DEF Talk!Add
  <2>2. log \o <<m>> = Append(log, m) /\ storing \o <<m>> = Append(storing, m)
        /\ storing \o <<>> = storing
    BY <1>1, AppendIsConcat, ConcatEmptySeq
  <2> QED BY <2>1, <2>2, StoredOne
<1>3. Summaries' = Summaries /\ messages' = messages /\ writing' = writing
  BY DEF Summaries, Talk!dbVars
<1>4. Recorded(log', made', messages', storing') /\ Honest(log', made', Summaries')
  <2>1. Recorded(log, made, messages, storing) /\ Honest(log, made, Summaries)
    BY DEF TalkKept
  <2>2. Longer(log', log, m) /\ (storing' = storing \/ Longer(storing', storing, m))
    BY <1>2 DEF Longer
  <2>3. Recorded(log', made + 1, messages, storing') /\ Honest(log', made + 1, Summaries)
    BY <2>1, <2>2, AddOne
  <2> QED BY <2>3, <1>2, <1>3
<1>5. CallIsOpen'
  <2> SUFFICES ASSUME next' = "tools"
               PROVE  \E c \in DOMAIN log' :
                        LastCall(log', c) /\ \A s \in Summaries : log'[c].id \notin s.told
    BY <1>3 DEF CallIsOpen
  <2>1. CASE m.kind = "call"
    <3>1. LastCall(log', Len(log) + 1) /\ log'[Len(log) + 1] = m
      BY <2>1, <1>1, <1>2, CallIsLast, Behind
    <3>2. \A s \in Summaries : m.id \notin s.told BY <1>1
    <3> QED BY <3>1, <3>2 DEF LastCall
  <2>2. CASE m.kind = "result"
    <3>1. PICK c \in DOMAIN log :
            LastCall(log, c) /\ \A s \in Summaries : log[c].id \notin s.told
      BY <2>2
    <3>2. LastCall(log', c) /\ log'[c] = log[c]
      BY <3>1, <2>2, <1>1, <1>2, CallIsLast, Behind
    <3> QED BY <3>1, <3>2 DEF LastCall
  <2> QED BY <2>1, <2>2
<1> QED BY <1>3, <1>4, <1>5 DEF TalkKept

\* A prompt with a call.
LEMMA AddsTwo ==
  ASSUME TalkKept, Talk!Add(<<Talk!New("user", 1), Talk!New("call", 2)>>),
         UNCHANGED <<state, writing, Talk!dbVars>>
  PROVE  TalkKept'
<1> DEFINE a == Talk!New("user", 1)
           b == Talk!New("call", 2)
           h == Append(log, a)
           ss == Append(storing, a)
<1>1. log \in Seq(Talk!Message) /\ storing \in Seq(Talk!Message) /\ made \in Nat
      /\ \A s \in Summaries : s.told \subseteq 1..made
  BY DEF TalkKept, Recorded, Honest
<1>2. /\ a \in Talk!Message /\ a.id = made + 1 /\ a.kind = "user"
      /\ b \in Talk!Message /\ b.id = made + 1 + 1 /\ b.kind = "call"
  BY <1>1 DEF Talk!New, Talk!Message, Talk!Kinds
<1> HIDE DEF a, b
<1>3. h \in Seq(Talk!Message) /\ ss \in Seq(Talk!Message)
  BY <1>1, <1>2, Behind
<1>4. /\ log' = Append(h, b) /\ storing' = Append(ss, b) /\ made' = made + 1 + 1
  <2>1. /\ log' = log \o <<a, b>> /\ storing' = storing \o <<a, b>>
        /\ made' = made + Len(<<a, b>>)
    BY <1>2, StoredTwo DEF Talk!Add, a, b
  <2>2. \A q \in Seq(Talk!Message) : q \o <<a, b>> = Append(Append(q, a), b)
    BY <1>2
  <2> QED BY <2>1, <2>2, <1>1
<1>5. Recorded(h, made + 1, messages, ss) /\ Honest(h, made + 1, Summaries)
  <2>1. Longer(h, log, a) /\ Longer(ss, storing, a)
    BY DEF Longer
  <2>2. Recorded(log, made, messages, storing) /\ Honest(log, made, Summaries)
    BY DEF TalkKept
  <2> HIDE DEF h, ss
  <2> QED BY <1>2, <2>1, <2>2, AddOne
<1> HIDE DEF h, ss
<1>6. Summaries' = Summaries /\ messages' = messages /\ writing' = writing
  BY DEF Summaries, Talk!dbVars
<1>7. Recorded(log', made', messages', storing') /\ Honest(log', made', Summaries')
  <2>1. Longer(log', h, b) /\ Longer(storing', ss, b)
    BY <1>4 DEF Longer
  <2>2. /\ Recorded(log', made + 1 + 1, messages, storing')
        /\ Honest(log', made + 1 + 1, Summaries)
    BY <1>2, <1>5, <2>1, AddOne
  <2> QED BY <1>4, <1>6, <2>2
<1>8. CallIsOpen'
  <2>1. LastCall(log', Len(h) + 1) /\ log'[Len(h) + 1] = b
    BY <1>2, <1>3, <1>4, CallIsLast, Behind
  <2>2. \A s \in Summaries : b.id \notin s.told BY <1>1, <1>2
  <2> QED BY <2>1, <2>2, <1>6 DEF LastCall, CallIsOpen
<1> QED BY <1>6, <1>7, <1>8 DEF TalkKept

LEMMA PromptKeeps == ASSUME TalkKept, Talk!Prompt PROVE TalkKept'
<1>1. made \in Nat BY DEF TalkKept, Recorded
<1>2. /\ Talk!New("user", 1) \in Talk!Message
      /\ Talk!New("user", 1).id = made + 1 /\ Talk!New("user", 1).kind = "user"
  BY <1>1 DEF Talk!New, Talk!Message, Talk!Kinds
<1>3. UNCHANGED <<state, writing, Talk!dbVars>> BY DEF Talk!Prompt
<1>4. CASE Talk!Add(<<Talk!New("user", 1)>>) /\ next' = "ask"
  BY <1>2, <1>3, <1>4, AddsOne
<1>5. CASE Talk!Add(<<Talk!New("user", 1), Talk!New("call", 2)>>)
  BY <1>3, <1>5, AddsTwo
<1> QED BY <1>4, <1>5 DEF Talk!Prompt

LEMMA ReplyKeeps == ASSUME TalkKept, Talk!Reply PROVE TalkKept'
<1>1. made \in Nat BY DEF TalkKept, Recorded
<1>2. \A kind \in {"text", "blank", "call"} :
        /\ Talk!New(kind, 1) \in Talk!Message
        /\ Talk!New(kind, 1).id = made + 1 /\ Talk!New(kind, 1).kind = kind
  BY <1>1 DEF Talk!New, Talk!Message, Talk!Kinds
<1>3. UNCHANGED <<state, writing, Talk!dbVars>> BY DEF Talk!Reply
<1>4. ASSUME NEW kind \in {"text", "blank"}, Talk!Add(<<Talk!New(kind, 1)>>), next' = kind
      PROVE  TalkKept'
  BY <1>2, <1>3, <1>4, AddsOne
<1>5. CASE Talk!Add(<<Talk!New("call", 1)>>)
  BY <1>2, <1>3, <1>5, AddsOne
<1> QED BY <1>4, <1>5 DEF Talk!Reply

\* A result is one of the last call.
LEMMA ResultKeeps == ASSUME TalkKept, Talk!Result PROVE TalkKept'
<1> DEFINE S == {i \in DOMAIN log : log[i].kind = "call"}
<1>1. log \in Seq(Talk!Message) /\ made \in Nat BY DEF TalkKept, Recorded
<1>2. PICK c \in DOMAIN log :
        LastCall(log, c) /\ \A s \in Summaries : log[c].id \notin s.told
  BY DEF TalkKept, CallIsOpen, Talk!Result
<1>3. DOMAIN log \subseteq Int BY <1>1, Shape
<1>4. c \in S /\ S \in SUBSET Int /\ \A i \in S : c >= i
  BY <1>2, <1>3 DEF LastCall
<1>5. Talk!Max(S) = c BY <1>4, MaxIsChosen
<1> DEFINE m == [id |-> made + 1, kind |-> "result", of |-> log[c].id]
<1>6. Talk!Add(<<m>>) BY <1>5 DEF Talk!Result
<1>7. m \in Talk!Message /\ m.id = made + 1 /\ m.kind = "result" /\ m.of = log[c].id
  BY <1>1, Shape DEF Talk!Message, Talk!Kinds
<1>8. UNCHANGED <<state, writing, Talk!dbVars>> BY DEF Talk!Result
<1> HIDE DEF m
<1> QED BY <1>2, <1>6, <1>7, <1>8, AddsOne

LEMMA NudgeKeeps == ASSUME TalkKept, Talk!Nudge PROVE TalkKept'
<1>1. made \in Nat BY DEF TalkKept, Recorded
<1>2. \A kind \in {"nudge", "user"} :
        /\ Talk!New(kind, 1) \in Talk!Message
        /\ Talk!New(kind, 1).id = made + 1 /\ Talk!New(kind, 1).kind = kind
  BY <1>1 DEF Talk!New, Talk!Message, Talk!Kinds
<1>3. UNCHANGED <<state, writing, Talk!dbVars>> /\ next' = "ask" BY DEF Talk!Nudge
<1>4. PICK kind \in {"nudge", "user"} : Talk!Add(<<Talk!New(kind, 1)>>) BY DEF Talk!Nudge
<1> QED BY <1>2, <1>3, <1>4, AddsOne

-----------------------------------------------------------------------------
\* The oldest save ends, and its message is stored or lost.
LEMMA SaveKeeps == ASSUME TalkKept, Talk!Save PROVE TalkKept'
<1>1. /\ storing # <<>> /\ storing' = Tail(storing)
      /\ messages' = Append(messages, Head(storing)) \/ messages' = messages
      /\ UNCHANGED <<log, made, state, next, writing, kept>>
  BY DEF Talk!Save
<1>2. /\ {log, messages, storing} \subseteq Seq(Talk!Message)
      /\ Ascending(messages) /\ Ascending(storing) /\ Within(messages, log) /\ Within(storing, log)
      /\ \A i \in DOMAIN messages, j \in DOMAIN storing : messages[i].id < storing[j].id
  BY DEF TalkKept, Recorded
<1>3. /\ Head(storing) = storing[1] /\ Head(storing) \in Talk!Message
      /\ storing' \in Seq(Talk!Message) /\ Len(storing') = Len(storing) - 1
      /\ \A i \in 1..Len(storing') : storing'[i] = storing[i + 1]
  BY <1>1, <1>2, HeadTailProperties
<1>4. /\ DOMAIN storing = 1..Len(storing) /\ DOMAIN storing' = 1..Len(storing')
      /\ Len(storing) \in Nat /\ Len(storing') \in Nat
  BY <1>2, <1>3, Shape
<1>5. /\ 1 \in DOMAIN storing
      /\ \A i \in DOMAIN storing' :
           i + 1 \in DOMAIN storing /\ 1 < i + 1 /\ storing'[i] = storing[i + 1]
  BY <1>3, <1>4
<1>6. Ascending(storing')
  <2> SUFFICES ASSUME NEW i \in DOMAIN storing', NEW j \in DOMAIN storing', i < j
               PROVE  storing'[i].id < storing'[j].id
    BY DEF Ascending
  <2>1. i + 1 < j + 1 BY <1>4
  <2> QED BY <2>1, <1>2, <1>5 DEF Ascending
<1>7. Within(storing', log)
  BY <1>2, <1>5 DEF Within
<1>8. CASE messages' = messages
  <2>1. \A i \in DOMAIN messages, j \in DOMAIN storing' : messages[i].id < storing'[j].id
    BY <1>2, <1>5
  <2> QED BY <2>1, <1>1, <1>3, <1>6, <1>7, <1>8 DEF TalkKept, Recorded, Summaries, CallIsOpen
<1>9. CASE messages' = Append(messages, Head(storing))
  <2>1. /\ messages' \in Seq(Talk!Message)
        /\ \A i \in DOMAIN messages' :
             (i \in DOMAIN messages /\ messages'[i] = messages[i]) \/ messages'[i] = storing[1]
    BY <1>2, <1>3, <1>9, Behind
  <2>2. \A i \in DOMAIN messages : messages[i].id < storing[1].id
    BY <1>2, <1>5
  <2>3. Ascending(messages')
    BY <2>2, <1>2, <1>3, <1>9, Ascends
  <2>4. Within(messages', log)
    BY <2>1, <1>2, <1>5 DEF Within
  <2>5. \A i \in DOMAIN messages', j \in DOMAIN storing' : messages'[i].id < storing'[j].id
    <3> SUFFICES ASSUME NEW i \in DOMAIN messages', NEW j \in DOMAIN storing'
                 PROVE  messages'[i].id < storing'[j].id
      OBVIOUS
    <3>1. CASE i \in DOMAIN messages /\ messages'[i] = messages[i] BY <3>1, <1>2, <1>5
    <3>2. CASE messages'[i] = storing[1] BY <3>2, <1>2, <1>5 DEF Ascending
    <3> QED BY <3>1, <3>2, <2>1
  <2> QED BY <2>1, <2>3, <2>4, <2>5, <1>1, <1>3, <1>6, <1>7
          DEF TalkKept, Recorded, Summaries, CallIsOpen
<1> QED BY <1>1, <1>8, <1>9

\* A write of a summary ends.
LEMMA StoreStateKeeps == ASSUME TalkKept, Talk!StoreState PROVE TalkKept'
<1>1. /\ \E s \in writing : kept' = s /\ writing' = writing \ {s}
      /\ UNCHANGED <<log, made, state, next, storing, messages>>
  BY DEF Talk!StoreState
<1>2. Summaries' \subseteq Summaries
  BY <1>1 DEF Summaries
<1> QED BY <1>1, <1>2 DEF TalkKept, Honest, CallIsOpen

\* The session begins again with what is stored.
LEMMA ReloadKeeps == ASSUME TalkKept, Talk!Reload PROVE TalkKept'
<1>1. /\ log' = messages /\ state' = kept /\ storing' = <<>> /\ writing' = {}
      /\ next' = "rest" /\ made' = made /\ messages' = messages /\ kept' = kept
  BY DEF Talk!Reload, Talk!dbVars
<1>2. /\ log \in Seq(Talk!Message) /\ messages \in Seq(Talk!Message) /\ made \in Nat
      /\ Ascending(log) /\ Ascending(messages) /\ Within(messages, log) /\ Grouped(log)
      /\ \A i \in DOMAIN log : log[i].id \in 1..made
  BY DEF TalkKept, Recorded
<1>3. <<>> \in Seq(Talk!Message) /\ DOMAIN <<>> = {}
  OBVIOUS
<1>4. Recorded(messages, made, messages, <<>>)
  <2>1. \A i \in DOMAIN messages : messages[i].id \in 1..made BY <1>2 DEF Within
  <2>2. Within(messages, messages) /\ Within(<<>>, messages) /\ Ascending(<<>>)
    BY <1>3 DEF Within, Ascending
  <2>3. Grouped(messages) BY <1>2, PartIsGrouped
  <2> QED BY <2>1, <2>2, <2>3, <1>2, <1>3 DEF Recorded
<1>5. Summaries' = {kept}
  BY <1>1, <1>3 DEF Summaries
<1>6. Honest(messages, made, {kept})
  <2>1. /\ kept \in Talk!CompactionState /\ kept.told \subseteq 1..made
        /\ Covers(kept, log) /\ Pairs(kept, log)
    BY DEF TalkKept, Honest, Summaries
  <2> QED BY <2>1, <1>2, PartIsCovered DEF Honest
<1> QED BY <1>1, <1>3, <1>4, <1>5, <1>6 DEF TalkKept, CallIsOpen

LEMMA TalkNextKeeps ==
  ASSUME Talk!CompactionAssumption, TalkKept, [Talk!Next]_(Talk!vars)
  PROVE  TalkKept'
<1>1. CASE Talk!Summarize BY <1>1, SummarizeKeeps
<1>2. CASE Talk!SummaryFails
  BY <1>2 DEF Talk!SummaryFails, Talk!dbVars, TalkKept, Summaries, CallIsOpen
<1>3. CASE Talk!Prompt BY <1>3, PromptKeeps
<1>4. CASE Talk!Reply BY <1>4, ReplyKeeps
<1>5. CASE Talk!Result BY <1>5, ResultKeeps
<1>6. CASE Talk!Nudge BY <1>6, NudgeKeeps
<1>7. CASE Talk!EndTurn
  BY <1>7 DEF Talk!EndTurn, Talk!dbVars, TalkKept, Summaries, CallIsOpen
<1>8. CASE Talk!Save BY <1>8, SaveKeeps
<1>9. CASE Talk!StoreState BY <1>9, StoreStateKeeps
<1>10. CASE Talk!Evict \/ Talk!Crash BY <1>10, ReloadKeeps DEF Talk!Evict, Talk!Crash
<1>11. CASE UNCHANGED Talk!vars
  BY <1>11 DEF Talk!vars, Talk!dbVars, TalkKept, Summaries, CallIsOpen
<1> QED BY <1>1, <1>2, <1>3, <1>4, <1>5, <1>6, <1>7, <1>8, <1>9, <1>10, <1>11 DEF Talk!Next

\* A whole summary is of what the request leaves out, and the request pairs its results.
LEMMA HonestStands == TalkKept => Talk!SummaryStandsForRest
<1> SUFFICES ASSUME TalkKept, state.told \subseteq Talk!Ids(log)
             PROVE  LET carried == Talk!Outgoing(log, state.covered) IN
                    /\ state.told = Talk!Ids(log) \ Talk!Ids(carried)
                    /\ \A m \in Talk!ToSet(carried) :
                         m.kind = "result" /\ m.of \in Talk!Ids(log) => m.of \in Talk!Ids(carried)
  BY DEF Talk!SummaryStandsForRest
<1> DEFINE c == state.covered
           n == Len(log)
           carried == SubSeq(log, c + 1, n)
<1>1. /\ log \in Seq(Talk!Message) /\ Covers(state, log) /\ Pairs(state, log) /\ c \in Nat
      /\ Ascending(log)
  BY DEF TalkKept, Recorded, Honest, Summaries, Talk!CompactionState
<1>2. n \in Nat /\ DOMAIN log = 1..n /\ \A i \in DOMAIN log : log[i].id \in Nat
  BY <1>1, Shape
<1>3. Talk!Ids(log) = {log[i].id : i \in DOMAIN log}
  BY DEF Talk!Ids, Talk!ToSet
<1>4. Whole(state, log)
  BY <1>3 DEF Whole
<1>5. \A k \in DOMAIN log : log[k].id \in state.told <=> k <= c
  BY <1>1, <1>4 DEF Covers
<1>6. /\ \A i \in DOMAIN log : c < i /\ i <= n => log[i].id \in Talk!Ids(carried)
      /\ \A x \in Talk!Ids(carried) : \E i \in DOMAIN log : c < i /\ i <= n /\ log[i].id = x
      /\ \A m \in Talk!ToSet(carried) : \E i \in DOMAIN log : c < i /\ i <= n /\ log[i] = m
  <2>1. c \in Nat /\ n \in Nat /\ n <= Len(log) BY <1>1, <1>2
  <2> HIDE DEF c, n
  <2> QED BY <2>1, <1>1, IdsBehind
<1> HIDE DEF carried, c, n
<1>7. \A i \in DOMAIN log : log[i].id \in Talk!Ids(carried) <=> log[i].id \notin state.told
  <2> TAKE i \in DOMAIN log
  <2>1. ASSUME log[i].id \notin state.told PROVE log[i].id \in Talk!Ids(carried)
    BY <2>1, <1>1, <1>2, <1>5, <1>6
  <2>2. ASSUME log[i].id \in Talk!Ids(carried) PROVE log[i].id \notin state.told
    <3>1. PICK j \in DOMAIN log : c < j /\ log[j].id = log[i].id
      BY <2>2, <1>6
    <3>2. log[j].id \notin state.told BY <3>1, <1>1, <1>2, <1>5
    <3> QED BY <3>1, <3>2
  <2> QED BY <2>1, <2>2
<1>8. state.told = Talk!Ids(log) \ Talk!Ids(carried)
  BY <1>3, <1>7
<1>9. ASSUME NEW m \in Talk!ToSet(carried), m.kind = "result", m.of \in Talk!Ids(log)
      PROVE  m.of \in Talk!Ids(carried)
  <2>1. PICK j \in DOMAIN log : c < j /\ log[j] = m
    BY <1>6
  <2>2. PICK i \in DOMAIN log : log[i].id = m.of
    BY <1>3, <1>9
  <2>3. log[j].id \notin state.told
    BY <2>1, <1>1, <1>2, <1>5
  <2>4. log[i].id \notin state.told
    BY <2>1, <2>2, <2>3, <1>1, <1>4, <1>9 DEF Pairs
  <2> QED BY <2>2, <2>4, <1>7
<1> QED BY <1>8, <1>9 DEF Talk!Outgoing, carried, c, n
-----------------------------------------------------------------------------
(* The parts.  An instance of a module of proofs brings the theorems along;    *)
(* what it defines is what the instance of the module itself defines.          *)

EventsP == INSTANCE AgentEvents_proofs WITH NumPrompts <- 2, Parts <- 1, MaxCrashes <- 0,
             MaxRemovals <- 0, Watched <- TRUE, MaxPieces <- 0, MaxLag <- 0, MaxFailures <- 0
BrokenP == INSTANCE AgentEvents_proofs WITH NumPrompts <- 1, Parts <- 2, MaxCrashes <- 0,
             MaxRemovals <- 0, Watched <- TRUE, MaxPieces <- 1, MaxLag <- 0, MaxFailures <- 1
StoredP == INSTANCE AgentEvents_proofs WITH NumPrompts <- 3, Parts <- 2, MaxCrashes <- 1,
             MaxRemovals <- 1, Watched <- FALSE, MaxPieces <- 0, MaxLag <- 1, MaxFailures <- 1

\* Which instance the events are those of.
BrokenRuns == part = "broken"
StoredRuns == part = "stored"

\* The events of the run are those the proofs are about, with a client,
LEMMA EventsAlike ==
  /\ Events!Init <=> EventsP!Init
  /\ [Events!Next]_(Events!vars) <=> [EventsP!Next]_(EventsP!vars)
  /\ Events!StoredStateWas <=> EventsP!StoredStateWas
<1>1. Events!Init <=> EventsP!Init
  BY ZenonT(60) DEF Events!Init, EventsP!Init, Events!NoLoad, EventsP!NoLoad, Events!Silence,
      EventsP!Silence
<1>2. Events!Next <=> EventsP!Next
  BY ZenonT(60) DEF Events!Next, EventsP!Next, Events!Submit, EventsP!Submit, Events!Calm,
      EventsP!Calm, Events!Pump, EventsP!Pump, Events!Emit, EventsP!Emit, Events!Tell,
      EventsP!Tell, Events!Listens, EventsP!Listens, Events!Loaded, EventsP!Loaded,
      Events!Texts, EventsP!Texts, Events!StatusEvent, EventsP!StatusEvent,
      Events!QueueEvent, EventsP!QueueEvent, Events!client, EventsP!client,
      Events!elsewhere, EventsP!elsewhere, Events!Restore, EventsP!Restore,
      Events!Withdraw, EventsP!Withdraw, Events!RemoveAt, EventsP!RemoveAt, Events!turn,
      EventsP!turn, Events!Stream, EventsP!Stream, Events!NextMessage,
      EventsP!NextMessage, Events!Flush, EventsP!Flush, Events!Flushed, EventsP!Flushed,
      Events!ChunkEvent, EventsP!ChunkEvent, Events!Say, EventsP!Say, Events!Adds,
      EventsP!Adds, Events!MessageOf, EventsP!MessageOf, Events!EndTurn, EventsP!EndTurn,
      Events!Crash, EventsP!Crash, Events!Silence, EventsP!Silence, Events!Save,
      EventsP!Save, Events!Write, EventsP!Write, Events!TellMessage, EventsP!TellMessage,
      Events!SaveFails, EventsP!SaveFails, Events!agent, EventsP!agent, Events!Deliver,
      EventsP!Deliver, Events!Readable, EventsP!Readable, Events!Contains,
      EventsP!Contains, Events!Lose, EventsP!Lose, Events!Untell, EventsP!Untell,
      Events!RemoveReads, EventsP!RemoveReads, Events!RemoveWrites, EventsP!RemoveWrites,
      Events!RemoveFails, EventsP!RemoveFails, Events!ToSet, EventsP!ToSet,
      Events!Upgrade, EventsP!Upgrade, Events!ElsewhereUnchanged,
      EventsP!ElsewhereUnchanged, Events!Subscribe, EventsP!Subscribe, Events!Drop,
      EventsP!Drop, Events!LoadRow, EventsP!LoadRow, Events!LoadReturns,
      EventsP!LoadReturns, Events!NoLoad, EventsP!NoLoad, Events!Receive, EventsP!Receive,
      Events!Reduce, EventsP!Reduce
<1>3. (Events!vars = EventsP!vars) /\ (Events!vars' = EventsP!vars')
  BY ZenonT(60) DEF Events!vars, EventsP!vars, Events!agent, EventsP!agent, Events!turn,
      EventsP!turn, Events!elsewhere, EventsP!elsewhere, Events!client, EventsP!client
<1>4. Events!StoredStateWas <=> EventsP!StoredStateWas
  BY ZenonT(60) DEF Events!StoredStateWas, EventsP!StoredStateWas, Events!IsPrefix,
      EventsP!IsPrefix, Events!Contains, EventsP!Contains
<1> QED BY <1>1, <1>2, <1>3, <1>4

\* with a client whose connection breaks,
LEMMA BrokenAlike ==
  /\ Events!Init <=> BrokenP!Init
  /\ [Broken!Next]_(Broken!vars) <=> [BrokenP!Next]_(BrokenP!vars)
  /\ Events!StoredStateWas <=> BrokenP!StoredStateWas
<1>1. Events!Init <=> BrokenP!Init
  BY ZenonT(60) DEF Broken!Init, BrokenP!Init, Broken!NoLoad, BrokenP!NoLoad, Broken!Silence,
      BrokenP!Silence, Events!Init, Events!NoLoad, Events!Silence
<1>2. Broken!Next <=> BrokenP!Next
  BY ZenonT(60) DEF Broken!Next, BrokenP!Next, Broken!Submit, BrokenP!Submit, Broken!Calm,
      BrokenP!Calm, Broken!Pump, BrokenP!Pump, Broken!Emit, BrokenP!Emit, Broken!Tell,
      BrokenP!Tell, Broken!Listens, BrokenP!Listens, Broken!Loaded, BrokenP!Loaded,
      Broken!Texts, BrokenP!Texts, Broken!StatusEvent, BrokenP!StatusEvent,
      Broken!QueueEvent, BrokenP!QueueEvent, Broken!client, BrokenP!client,
      Broken!elsewhere, BrokenP!elsewhere, Broken!Restore, BrokenP!Restore,
      Broken!Withdraw, BrokenP!Withdraw, Broken!RemoveAt, BrokenP!RemoveAt, Broken!turn,
      BrokenP!turn, Broken!Stream, BrokenP!Stream, Broken!NextMessage,
      BrokenP!NextMessage, Broken!Flush, BrokenP!Flush, Broken!Flushed, BrokenP!Flushed,
      Broken!ChunkEvent, BrokenP!ChunkEvent, Broken!Say, BrokenP!Say, Broken!Adds,
      BrokenP!Adds, Broken!MessageOf, BrokenP!MessageOf, Broken!EndTurn, BrokenP!EndTurn,
      Broken!Crash, BrokenP!Crash, Broken!Silence, BrokenP!Silence, Broken!Save,
      BrokenP!Save, Broken!Write, BrokenP!Write, Broken!TellMessage, BrokenP!TellMessage,
      Broken!SaveFails, BrokenP!SaveFails, Broken!agent, BrokenP!agent, Broken!Deliver,
      BrokenP!Deliver, Broken!Readable, BrokenP!Readable, Broken!Contains,
      BrokenP!Contains, Broken!Lose, BrokenP!Lose, Broken!Untell, BrokenP!Untell,
      Broken!RemoveReads, BrokenP!RemoveReads, Broken!RemoveWrites, BrokenP!RemoveWrites,
      Broken!RemoveFails, BrokenP!RemoveFails, Broken!ToSet, BrokenP!ToSet,
      Broken!Upgrade, BrokenP!Upgrade, Broken!ElsewhereUnchanged,
      BrokenP!ElsewhereUnchanged, Broken!Subscribe, BrokenP!Subscribe, Broken!Drop,
      BrokenP!Drop, Broken!LoadRow, BrokenP!LoadRow, Broken!LoadReturns,
      BrokenP!LoadReturns, Broken!NoLoad, BrokenP!NoLoad, Broken!Receive, BrokenP!Receive,
      Broken!Reduce, BrokenP!Reduce
<1>3. (Broken!vars = BrokenP!vars) /\ (Broken!vars' = BrokenP!vars')
  BY ZenonT(60) DEF Broken!vars, BrokenP!vars, Broken!agent, BrokenP!agent, Broken!turn,
      BrokenP!turn, Broken!elsewhere, BrokenP!elsewhere, Broken!client, BrokenP!client
<1>4. Events!StoredStateWas <=> BrokenP!StoredStateWas
  BY ZenonT(60) DEF Broken!StoredStateWas, BrokenP!StoredStateWas, Broken!IsPrefix,
      BrokenP!IsPrefix, Broken!Contains, BrokenP!Contains, Events!StoredStateWas,
      Events!IsPrefix, Events!Contains
<1> QED BY <1>1, <1>2, <1>3, <1>4

\* and with crashes and withdrawals; the instances start alike and store alike.
LEMMA StoredAlike ==
  /\ Events!Init <=> StoredP!Init
  /\ [Stored!Next]_(Stored!vars) <=> [StoredP!Next]_(StoredP!vars)
  /\ Events!StoredStateWas <=> StoredP!StoredStateWas
<1>1. Events!Init <=> StoredP!Init
  BY ZenonT(60) DEF Stored!Init, StoredP!Init, Stored!NoLoad, StoredP!NoLoad, Stored!Silence,
      StoredP!Silence, Events!Init, Events!NoLoad, Events!Silence
<1>2. Stored!Next <=> StoredP!Next
  BY ZenonT(60) DEF Stored!Next, StoredP!Next, Stored!Submit, StoredP!Submit, Stored!Calm,
      StoredP!Calm, Stored!Pump, StoredP!Pump, Stored!Emit, StoredP!Emit, Stored!Tell,
      StoredP!Tell, Stored!Listens, StoredP!Listens, Stored!Loaded, StoredP!Loaded,
      Stored!Texts, StoredP!Texts, Stored!StatusEvent, StoredP!StatusEvent,
      Stored!QueueEvent, StoredP!QueueEvent, Stored!client, StoredP!client,
      Stored!elsewhere, StoredP!elsewhere, Stored!Restore, StoredP!Restore,
      Stored!Withdraw, StoredP!Withdraw, Stored!RemoveAt, StoredP!RemoveAt, Stored!turn,
      StoredP!turn, Stored!Stream, StoredP!Stream, Stored!NextMessage,
      StoredP!NextMessage, Stored!Flush, StoredP!Flush, Stored!Flushed, StoredP!Flushed,
      Stored!ChunkEvent, StoredP!ChunkEvent, Stored!Say, StoredP!Say, Stored!Adds,
      StoredP!Adds, Stored!MessageOf, StoredP!MessageOf, Stored!EndTurn, StoredP!EndTurn,
      Stored!Crash, StoredP!Crash, Stored!Silence, StoredP!Silence, Stored!Save,
      StoredP!Save, Stored!Write, StoredP!Write, Stored!TellMessage, StoredP!TellMessage,
      Stored!SaveFails, StoredP!SaveFails, Stored!agent, StoredP!agent, Stored!Deliver,
      StoredP!Deliver, Stored!Readable, StoredP!Readable, Stored!Contains,
      StoredP!Contains, Stored!Lose, StoredP!Lose, Stored!Untell, StoredP!Untell,
      Stored!RemoveReads, StoredP!RemoveReads, Stored!RemoveWrites, StoredP!RemoveWrites,
      Stored!RemoveFails, StoredP!RemoveFails, Stored!ToSet, StoredP!ToSet,
      Stored!Upgrade, StoredP!Upgrade, Stored!ElsewhereUnchanged,
      StoredP!ElsewhereUnchanged, Stored!Subscribe, StoredP!Subscribe, Stored!Drop,
      StoredP!Drop, Stored!LoadRow, StoredP!LoadRow, Stored!LoadReturns,
      StoredP!LoadReturns, Stored!NoLoad, StoredP!NoLoad, Stored!Receive, StoredP!Receive,
      Stored!Reduce, StoredP!Reduce
<1>3. (Stored!vars = StoredP!vars) /\ (Stored!vars' = StoredP!vars')
  BY ZenonT(60) DEF Stored!vars, StoredP!vars, Stored!agent, StoredP!agent, Stored!turn,
      StoredP!turn, Stored!elsewhere, StoredP!elsewhere, Stored!client, StoredP!client
<1>4. Events!StoredStateWas <=> StoredP!StoredStateWas
  BY ZenonT(60) DEF Stored!StoredStateWas, StoredP!StoredStateWas, Stored!IsPrefix,
      StoredP!IsPrefix, Stored!Contains, StoredP!Contains, Events!StoredStateWas,
      Events!IsPrefix, Events!Contains
<1> QED BY <1>1, <1>2, <1>3, <1>4

\* No part moves the events but those of the instance that runs.
LEMMA EventsStep ==
  ASSUME [SessionNext]_sessionVars
  PROVE  /\ part' = part
         /\ BrokenRuns => [Broken!Next]_(Broken!vars)
         /\ StoredRuns => [Stored!Next]_(Stored!vars)
         /\ ~BrokenRuns /\ ~StoredRuns => [Events!Next]_(Events!vars)
  BY Zenon DEF SessionNext, sessionVars, eventVars, BrokenRuns, StoredRuns, Events!vars,
     Events!agent, Events!turn, Events!client, Events!elsewhere, Broken!vars, Broken!agent,
     Broken!turn, Broken!client, Broken!elsewhere, Stored!vars, Stored!agent, Stored!turn,
     Stored!client, Stored!elsewhere

\* persistMessage, persistQueue, saveQueue: the rows are the oldest messages of the history but
\* those whose save failed; whoever has a message among them has left the stored queue, unless
\* a withdrawal at another server put it back or a failed write left it there; and a session
\* with nothing under way has stored its queue, unless the last write of it failed.
THEOREM HistoryIsStored == SessionSpec => []StoredStateWas
<1>1. SessionInit => EventsP!Init /\ BrokenP!Init /\ StoredP!Init
  BY EventsAlike, BrokenAlike, StoredAlike DEF SessionInit
<1>2. [SessionNext]_sessionVars =>
        /\ (BrokenRuns <=> BrokenRuns') /\ (StoredRuns <=> StoredRuns')
        /\ BrokenRuns => [BrokenP!Next]_(BrokenP!vars)
        /\ StoredRuns => [StoredP!Next]_(StoredP!vars)
        /\ ~BrokenRuns /\ ~StoredRuns => [EventsP!Next]_(EventsP!vars)
  BY EventsStep, EventsAlike, BrokenAlike, StoredAlike DEF BrokenRuns, StoredRuns
<1>3. \/ EventsP!StoredStateWas
      \/ BrokenP!StoredStateWas
      \/ StoredP!StoredStateWas
      => StoredStateWas
  BY EventsAlike, BrokenAlike, StoredAlike DEF StoredStateWas
<1>4. /\ EventsP!Spec => []EventsP!StoredStateWas
      /\ BrokenP!Spec => []BrokenP!StoredStateWas
      /\ StoredP!Spec => []StoredP!StoredStateWas
  BY EventsP!HistoryIsStored, BrokenP!HistoryIsStored, StoredP!HistoryIsStored
<1> QED
  BY <1>1, <1>2, <1>3, <1>4, PTL
     DEF SessionSpec, EventsP!Spec, BrokenP!Spec, StoredP!Spec

\* What the client shows is the same for all three.
LEMMA ViewsAlike ==
  /\ Events!ViewFollows <=> EventsP!ViewFollows
  /\ Events!ViewFollows <=> BrokenP!ViewFollows
  /\ Events!ViewFollows <=> StoredP!ViewFollows
<1>1. Events!ViewFollows <=> EventsP!ViewFollows
  BY ZenonT(60) DEF Events!ViewFollows, EventsP!ViewFollows, Events!Shown, EventsP!Shown,
     Events!Reduce, EventsP!Reduce, Events!Contains, EventsP!Contains
<1>2. Events!ViewFollows <=> BrokenP!ViewFollows
  BY ZenonT(60) DEF Events!ViewFollows, BrokenP!ViewFollows, Events!Shown, BrokenP!Shown,
     Events!Reduce, BrokenP!Reduce, Events!Contains, BrokenP!Contains
<1>3. Events!ViewFollows <=> StoredP!ViewFollows
  BY ZenonT(60) DEF Events!ViewFollows, StoredP!ViewFollows, Events!Shown, StoredP!Shown,
     Events!Reduce, StoredP!Reduce, Events!Contains, StoredP!Contains
<1> QED BY <1>1, <1>2, <1>3

LEMMA EventsBounds ==
  EventsP!EventsAssumption /\ BrokenP!EventsAssumption /\ StoredP!EventsAssumption
  BY DEF EventsP!EventsAssumption, BrokenP!EventsAssumption, StoredP!EventsAssumption

\* AgentEventBus, publishChain, deliverChain, flushStream, agentReducer: in each of the three,
\* what was emitted since the client listens is on its screen or on its way there, but for an
\* event that was lost and has had no later one of its kind.
THEOREM ClientFollows == SessionSpec => []Events!ViewFollows
<1>1. SessionInit => EventsP!Init /\ BrokenP!Init /\ StoredP!Init
  BY EventsAlike, BrokenAlike, StoredAlike DEF SessionInit
<1>2. [SessionNext]_sessionVars =>
        /\ (BrokenRuns <=> BrokenRuns') /\ (StoredRuns <=> StoredRuns')
        /\ BrokenRuns => [BrokenP!Next]_(BrokenP!vars)
        /\ StoredRuns => [StoredP!Next]_(StoredP!vars)
        /\ ~BrokenRuns /\ ~StoredRuns => [EventsP!Next]_(EventsP!vars)
  BY EventsStep, EventsAlike, BrokenAlike, StoredAlike DEF BrokenRuns, StoredRuns
<1>3. EventsP!ViewFollows \/ BrokenP!ViewFollows \/ StoredP!ViewFollows => Events!ViewFollows
  BY ViewsAlike
<1>4. /\ EventsP!Spec => []EventsP!ViewFollows
      /\ BrokenP!Spec => []BrokenP!ViewFollows
      /\ StoredP!Spec => []StoredP!ViewFollows
  BY EventsBounds, EventsP!ClientFollows, BrokenP!ClientFollows, StoredP!ClientFollows
<1> QED
  BY <1>1, <1>2, <1>3, <1>4, PTL
     DEF SessionSpec, EventsP!Spec, BrokenP!Spec, StoredP!Spec

\* applySummaryToMessages, summarizeIncremental: as long as the history has every message a
\* summary was made of, the request carries exactly the others, and no result without its
\* call, wherever the window begins, whatever saves were lost, and whenever the session was
\* made again from what is stored.
THEOREM SummariesAreHonest ==
  Talk!CompactionAssumption => (SessionSpec => []SummaryStandsForRest)
<1> SUFFICES ASSUME Talk!CompactionAssumption PROVE SessionSpec => []SummaryStandsForRest
  OBVIOUS
<1>1. SessionInit => TalkKept
  BY TalkBegins DEF SessionInit
<1>2. [SessionNext]_sessionVars => [Talk!Next]_(Talk!vars)
  BY Zenon DEF SessionNext, sessionVars, talkVars, Talk!vars
<1>3. TalkKept /\ [SessionNext]_sessionVars => TalkKept'
  BY <1>2, TalkNextKeeps
<1>4. TalkKept => SummaryStandsForRest
  BY HonestStands DEF SummaryStandsForRest
<1> QED BY <1>1, <1>3, <1>4, PTL DEF SessionSpec
=============================================================================
