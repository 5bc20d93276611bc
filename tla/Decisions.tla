----------------------------- MODULE Decisions -----------------------------
(***************************************************************************)
(* Tool calls of a coding agent that need the user: the approval of an MCP  *)
(* tool (executeMcpTool, ToolApprovalEmitter) and a question                *)
(* (askUserQuestion, QuestionEmitter).  The answer is sent by whatever      *)
(* server the user's browser reaches, as a NOTIFY to all of them.           *)
(*                                                                         *)
(* The agent runs one call at a time; raceAbort lets go of the current one  *)
(* when the turn is stopped, while its handler runs on by itself.  A step   *)
(* is what happens between two awaits; settling a wait and the finally      *)
(* blocks behind it are one step.                                           *)
(***************************************************************************)
EXTENDS Naturals, Sequences, FiniteSets

CONSTANTS
  Approvals,    \* calls of MCP tools
  Questions,    \* calls of ask_user_question
  None,         \* the agent awaits no call
  MaxNotes      \* bound: answers sent during a behaviour

Call == Approvals \union Questions

\* Every theorem about this module assumes it.
CallsAssumption ==
  /\ Approvals \intersect Questions = {}
  /\ None \notin Call
  /\ MaxNotes \in Nat

VARIABLES
  phase,      \* where the call's handler is: "lookup" awaits the user's rule
  cards,      \* session.pendingApprovals, pendingQuestions: what clients show
  listening,  \* ids with listeners and a timer in the emitters
  current,    \* the call the agent awaits
  stopped,    \* calls whose signal is aborted
  notes,      \* NOTIFYs not delivered yet: <<call, approved>>
  sent,       \* how many were sent
  consent,    \* calls the user approved, or whose rule approves by itself
  outcome     \* what a finished handler returned

vars == <<phase, cards, listening, current, stopped, notes, sent, consent, outcome>>

Init ==
  /\ phase = [c \in Call |-> "new"]
  /\ cards = {}
  /\ listening = {}
  /\ current = None
  /\ stopped = {}
  /\ notes = <<>>
  /\ sent = 0
  /\ consent = {}
  /\ outcome = [c \in Call |-> "none"]

-----------------------------------------------------------------------------
\* waitForToolApproval, askUserQuestion: the card is shown and the emitter
\* listens before anything else can run.
OpenCard(c) ==
  /\ phase' = [phase EXCEPT ![c] = "waiting"]
  /\ cards' = cards \union {c}
  /\ listening' = listening \union {c}
  /\ UNCHANGED outcome

\* The handler of c returned v; the agent goes on if it still awaits c.
Finish(c, v) ==
  /\ phase' = [phase EXCEPT ![c] = "done"]
  /\ outcome' = [outcome EXCEPT ![c] = v]
  /\ current' = IF current = c THEN None ELSE current

\* Variant: the answer removes the listeners but leaves the card.
SettleKeepsCard(c, v) ==
  /\ listening' = listening \ {c}
  /\ UNCHANGED cards
  /\ IF c \in Approvals /\ v = "yes"
     THEN phase' = [phase EXCEPT ![c] = "running"] /\ UNCHANGED <<current, outcome>>
     ELSE Finish(c, v)

\* Variant: "no decision" is taken for consent.
SettleByDefault(c, v) ==
  /\ listening' = listening \ {c}
  /\ cards' = cards \ {c}
  /\ IF c \in Approvals /\ v # "no"
     THEN phase' = [phase EXCEPT ![c] = "running"] /\ UNCHANGED <<current, outcome>>
     ELSE Finish(c, v)

\* The wait for c ends with v: an answer "yes" or "no", or "silence" for a
\* timeout or a cancellation.  Only "yes" lets an MCP tool run.
Settle(c, v) ==
  /\ listening' = listening \ {c}
  /\ cards' = cards \ {c}
  /\ IF c \in Approvals /\ v = "yes"
     THEN phase' = [phase EXCEPT ![c] = "running"] /\ UNCHANGED <<current, outcome>>
     ELSE Finish(c, v)

-----------------------------------------------------------------------------
\* executeTool hands the call to its handler: an MCP tool's looks the rule up,
\* a question opens its card.
Enter(c) ==
  /\ current' = c
  /\ \/ /\ c \in Approvals
        /\ phase' = [phase EXCEPT ![c] = "lookup"]
        /\ UNCHANGED <<cards, listening, outcome>>
     \/ c \in Questions /\ OpenCard(c)

\* The agent starts the next call of its turn.  A question without a text is
\* answered with an error at once.
Start(c) ==
  /\ current = None
  /\ phase[c] = "new"
  /\ \/ Enter(c)
     \/ c \in Questions /\ Finish(c, "error") /\ UNCHANGED <<cards, listening>>
  /\ UNCHANGED <<stopped, notes, sent, consent>>

\* The user's rule for the tool is there (or the query failed): banned, run it,
\* or ask.  The signal is not looked at again.
LookupReturns(c) ==
  /\ phase[c] = "lookup"
  /\ \/ /\ \E v \in {"banned", "error"} : Finish(c, v)
        /\ UNCHANGED <<cards, listening, consent>>
     \/ /\ phase' = [phase EXCEPT ![c] = "running"]
        /\ consent' = consent \union {c}
        /\ UNCHANGED <<cards, listening, current, outcome>>
     \/ OpenCard(c) /\ UNCHANGED <<current, consent>>
  /\ UNCHANGED <<stopped, notes, sent>>

\* POST .../approve or .../answer, for a call some client has heard of:
\* two clients may both answer, and one may answer late.
Answer(c, v) ==
  /\ sent < MaxNotes
  /\ phase[c] \in {"waiting", "running", "done"}
  /\ c \in Questions => v = "yes"
  /\ notes' = Append(notes, <<c, v>>)
  /\ sent' = sent + 1
  /\ UNCHANGED <<phase, cards, listening, current, stopped, consent, outcome>>

\* Variant: an answer nobody waits for any more is not ignored.
DeliverAlways ==
  LET c == Head(notes)[1]
      v == Head(notes)[2]
  IN /\ notes # <<>>
     /\ notes' = Tail(notes)
     /\ Settle(c, v)
     /\ consent' = IF v = "yes" THEN consent \union {c} ELSE consent
     /\ UNCHANGED <<stopped, sent>>

\* A NOTIFY arrives, in the order of sending: the emitter calls the listeners
\* of that id, if there are any.
Deliver ==
  LET c == Head(notes)[1]
      v == Head(notes)[2]
  IN /\ notes # <<>>
     /\ notes' = Tail(notes)
     /\ IF c \in listening
        THEN /\ Settle(c, v)
             /\ consent' = IF v = "yes" THEN consent \union {c} ELSE consent
        ELSE UNCHANGED <<phase, cards, listening, current, outcome, consent>>
     /\ UNCHANGED <<stopped, sent>>

\* Variant: only an approval has a timer.
TimeOutOfApproval(c) ==
  /\ c \in listening \ Questions
  /\ Settle(c, "silence")
  /\ UNCHANGED <<stopped, notes, sent, consent>>

\* Five minutes for an approval, ten for a question.
TimeOut(c) ==
  /\ c \in listening
  /\ Settle(c, "silence")
  /\ UNCHANGED <<stopped, notes, sent, consent>>

\* abort() during a call: the agent stops waiting for it, and a wait that is
\* already set up is cancelled by its listener on the signal.
StopTurn ==
  /\ current # None
  /\ stopped' = stopped \union {current}
  /\ IF current \in listening
     THEN Settle(current, "silence")
     ELSE /\ current' = None
          /\ UNCHANGED <<phase, cards, listening, outcome>>
  /\ UNCHANGED <<notes, sent, consent>>

\* mcp.callTool resolved or threw, or there is no connection.
ToolReturns(c) ==
  /\ phase[c] = "running"
  /\ \E v \in {"result", "error"} : Finish(c, v)
  /\ UNCHANGED <<cards, listening, stopped, notes, sent, consent>>

Next ==
  \/ \E c \in Call : Start(c)
  \/ \E c \in Approvals : LookupReturns(c)
  \/ \E c \in Call, v \in {"yes", "no"} : Answer(c, v)
  \/ Deliver
  \/ \E c \in Call : TimeOut(c)
  \/ StopTurn
  \/ \E c \in Approvals : ToolReturns(c)

Spec == Init /\ [][Next]_vars

\* Timers fire and queries return; neither the user nor a tool has to answer.
Fairness ==
  /\ \A c \in Call : WF_vars(TimeOut(c))
  /\ \A c \in Approvals : WF_vars(LookupReturns(c))
-----------------------------------------------------------------------------
TypeOK ==
  /\ phase \in [Call -> {"new", "lookup", "waiting", "running", "done"}]
  /\ cards \subseteq Call
  /\ listening \subseteq Call
  /\ current \in Call \union {None}
  /\ stopped \subseteq Call
  /\ notes \in Seq(Call \X {"yes", "no"})
  /\ sent \in 0..MaxNotes
  /\ consent \subseteq Call
  /\ outcome \in [Call -> {"none", "yes", "no", "silence", "banned", "error", "result"}]

\* What the clients are shown can be answered, and whatever waits is shown:
\* a card, a listener and a suspended handler come and go together, on every
\* way a wait can end; and but for cards of stopped turns one thing is asked
\* at a time.
CardsAreLive ==
  /\ cards = listening
  /\ cards = {c \in Call : phase[c] = "waiting"}
  /\ Cardinality(cards \ stopped) <= 1

\* An MCP tool only ever runs with consent: the user approved this call while
\* it waited, or a rule of the user approves the tool.
ConsentBeforeRun ==
  \A c \in Approvals : phase[c] = "running" \/ outcome[c] = "result" => c \in consent

\* The first decision stands: a late or second answer changes nothing.
FirstDecisionStands ==
  [][\A c \in Call : outcome[c] # "none" => outcome'[c] = outcome[c]]_vars

\* A wait always ends, although nobody has to answer.
WaitsEnd == \A c \in Call : c \in cards ~> c \notin cards
=============================================================================
