---------------------------- MODULE MC_ChatAgent ----------------------------
(***************************************************************************)
(* Instances of ChatAgent for TLC: the coding agent, whose options are      *)
(* given to this module, beside the command-line host, which merges waiting *)
(* prompts into one turn.  `host` says which of them moves.                 *)
(* A batch is one sort of assistant message; equal batches have equal       *)
(* signatures.  Two sorts suffice: one call that acts and two calls that do *)
(* not, so that batches repeat and alternate, and a batch can be left in    *)
(* the middle.                                                              *)
(***************************************************************************)
EXTENDS ChatAgent

VARIABLE host

MCToolBatches == {[id |-> "edit", size |-> 1, action |-> TRUE],
                  [id |-> "look", size |-> 2, action |-> FALSE]}
MCForced == {2}

Cli == INSTANCE ChatAgent WITH
         MaxAborts <- 1, Coalesce <- TRUE, DrainAtToolBoundary <- FALSE,
         MaxToolIterations <- 2, NudgeThreshold <- 1, HardLimit <- 2

HostsInit == Init /\ host \in {"coding", "cli"}

HostsNext ==
  \/ host = "coding" /\ Next /\ UNCHANGED host
  \/ host = "cli" /\ Cli!Next /\ UNCHANGED host

HostsSpec ==
  /\ HostsInit /\ [][HostsNext]_<<host, vars>>
  /\ WF_vars(host = "coding" /\ Resume)
  /\ WF_vars(host = "cli" /\ Cli!Resume)

-----------------------------------------------------------------------------
\* What a caller of the command-line host sees; the other host is at rest here.
Seen == INSTANCE ChatAgent WITH
          Coalesce <- TRUE,
          queue <- IF host = "cli" THEN queue ELSE <<>>,
          running <- IF host = "cli" THEN running ELSE <<>>,
          status <- IF host = "cli" THEN status ELSE [p \in Prompt |-> "new"]

\* The command-line host implements the prompt queue its callers rely on; see ChatAgent.
CliServesPrompts == Seen!ServesPrompts
=============================================================================
