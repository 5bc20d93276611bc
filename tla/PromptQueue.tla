---------------------------- MODULE PromptQueue ----------------------------
(***************************************************************************)
(* What a caller of ChatAgent may rely on, with no turn loop in sight:      *)
(* prompts are served in arrival order, one batch at a time, an accepted    *)
(* prompt is never dropped unless the caller withdraws it, and the agent    *)
(* does not rest while a prompt is waiting.                                 *)
(***************************************************************************)
EXTENDS Naturals, Sequences, SequencesExt

CONSTANTS NumPrompts,  \* how many prompts are ever submitted
          Coalesce     \* drainStrategy = 'coalesce'

Prompt == 1..NumPrompts

VARIABLES waiting,     \* accepted prompts, oldest first
          active,      \* the batch being served
          settled      \* prompts whose turn is over, well or badly

vars == <<waiting, active, settled>>

Init == waiting = <<>> /\ active = <<>> /\ settled = {}

\* The batch the next turn takes from the queue q, and what it leaves there.
Batch(q) == IF q = <<>> THEN <<>> ELSE IF Coalesce THEN q ELSE <<Head(q)>>
Rest(q)  == IF q = <<>> \/ Coalesce THEN <<>> ELSE Tail(q)

Known == ToSet(waiting) \union ToSet(active) \union settled

\* A resting agent starts at once on what it accepts; a busy one lets it wait.
Accept(q) ==
  /\ q # <<>>
  /\ ToSet(q) \subseteq Prompt \ Known
  /\ IF active = <<>>
     THEN active' = Batch(q) /\ waiting' = Rest(q)
     ELSE waiting' = waiting \o q /\ UNCHANGED active
  /\ UNCHANGED settled

Withdraw(i) ==
  /\ i \in DOMAIN waiting
  /\ waiting' = RemoveAt(waiting, i)
  /\ UNCHANGED <<active, settled>>

WithdrawAll ==
  /\ waiting # <<>>
  /\ waiting' = <<>>
  /\ UNCHANGED <<active, settled>>

\* The turn ends and, in the same step, the next one takes its batch.
Settle ==
  /\ active # <<>>
  /\ settled' = settled \union ToSet(active)
  /\ active' = Batch(waiting)
  /\ waiting' = Rest(waiting)

\* submit() hands over one prompt, restoreQueue() several.
Handovers == UNION {[1..n -> Prompt] : n \in Prompt}

Next ==
  \/ \E q \in Handovers : Accept(q)
  \/ \E i \in DOMAIN waiting : Withdraw(i)
  \/ WithdrawAll
  \/ Settle

Spec == Init /\ [][Next]_vars /\ WF_vars(Settle)
=============================================================================
