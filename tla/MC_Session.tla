----------------------------- MODULE MC_Session -----------------------------
(***************************************************************************)
(* What a session of the coding agent keeps, for TLC and for the proofs:    *)
(* its plan mode, its events and its history with the summary.  They share  *)
(* no state and are explored one beside the other: `part` says which of     *)
(* them moves.  The events are seen three times: with a client, with a      *)
(* client and a failure, and with a crash, a withdrawal at another server   *)
(* and a write that fails.                                                 *)
(***************************************************************************)
EXTENDS PlanMode

CONSTANTS Unknown, RecentKeep, MaxMessages, MaxCalls, MaxLost, MaxRestarts

VARIABLES part,
          sent, up, queue, running, said, pieces, buffer, status, history, saves,
          notifies, crashes, removal, removals, revived, missed, failures, row, rows,
          socket, link, upgraded, load, view, heard, told,
          log, made, state, next, open, storing, messages, writing, kept, lost, restarts

eventVars == <<sent, up, queue, running, said, pieces, buffer, status, history, saves,
               notifies, crashes, removal, removals, revived, missed, failures, row, rows,
               socket, link, upgraded, load, view, heard, told>>
talkVars == <<log, made, state, next, open, storing, messages, writing, kept, lost, restarts>>
sessionVars == <<part, vars, eventVars, talkVars>>

\* Two prompts, so that one can wait, and a client.
Events == INSTANCE AgentEvents WITH NumPrompts <- 2, Parts <- 1, MaxCrashes <- 0,
            MaxRemovals <- 0, Watched <- TRUE, MaxPieces <- 0, MaxLag <- 0,
            MaxFailures <- 0

\* One prompt with an answer, and a client; one write, event or connection fails.
Broken == INSTANCE AgentEvents WITH NumPrompts <- 1, Parts <- 2, MaxCrashes <- 0,
            MaxRemovals <- 0, Watched <- TRUE, MaxPieces <- 1, MaxLag <- 0,
            MaxFailures <- 1

\* A third prompt, so that two can wait; nobody watches, one write fails.
Stored == INSTANCE AgentEvents WITH NumPrompts <- 3, Parts <- 2, MaxCrashes <- 1,
            MaxRemovals <- 1, Watched <- FALSE, MaxPieces <- 0, MaxLag <- 1,
            MaxFailures <- 1

\* A history with crashes.
Talk == INSTANCE Compaction WITH Crashes <- TRUE,
          history <- log, turn <- next, rows <- messages, saves <- storing, storing <- writing

SessionInit == Init /\ Events!Init /\ Talk!Init

SessionNext ==
  \/ part = "plan" /\ Next /\ UNCHANGED <<part, eventVars, talkVars>>
  \/ part = "events" /\ Events!Next /\ UNCHANGED <<part, vars, talkVars>>
  \/ part = "broken" /\ Broken!Next /\ UNCHANGED <<part, vars, talkVars>>
  \/ part = "stored" /\ Stored!Next /\ UNCHANGED <<part, vars, talkVars>>
  \/ part = "talk" /\ Talk!Next /\ UNCHANGED <<part, vars, eventVars>>

SessionSpec == SessionInit /\ [][SessionNext]_sessionVars

-----------------------------------------------------------------------------
\* What a session stores; see AgentEvents.
StoredStateWas == Events!StoredStateWas

\* The history; see Compaction.
SummaryStandsForRest == Talk!SummaryStandsForRest
=============================================================================
