------------------------------ MODULE MC_Parts ------------------------------
(***************************************************************************)
(* Components that share no state with one another, explored one beside the *)
(* other: `part` says which of them moves, the rest keeps its first state.  *)
(***************************************************************************)
EXTENDS Settings, Sequences

CONSTANTS
  Approvals, Questions,         \* of Decisions
  MaxNotes, None,
  Packages, Entries, Pictures,  \* the items of the two instances of Artifacts
  Requests,                     \* of Artifacts
  MaxPolls, MaxStops, MaxAsked  \* of Desktop, with MaxFaults of Settings

VARIABLES part,
          phase, cards, listening, current, stopped, notes, sent, consent, outcome,
          stored, made, age, rows, late, thread, jobs,
          at, wish, opening, polls, stops, sway, vnc, stamp, marker, server, app, told,
          status, asked, upsets, disturbed

callVars == <<phase, cards, listening, current, stopped, notes, sent, consent, outcome>>
fileVars == <<stored, made, age, rows, late, thread, jobs>>
guiVars == <<at, wish, opening, polls, stops, sway, vnc, stamp, marker, server, app, told,
             status, asked, upsets, disturbed>>

\* Calls that need the user.
Calls == INSTANCE Decisions

\* Packages of one name; images beside entries.
Library == INSTANCE Artifacts WITH Knowledge <- {}, Skills <- Packages, Images <- {},
             files <- stored, req <- jobs
Chat == INSTANCE Artifacts WITH Knowledge <- Entries, Skills <- {}, Images <- Pictures,
          files <- stored, req <- jobs

\* The desktop of a project.
Gui == INSTANCE Desktop WITH faults <- upsets

\* The assumptions of the parts; an image is no entry.
ASSUME PartsAssumption ==
  /\ RequestsAssumption /\ Calls!CallsAssumption /\ Gui!DesktopAssumption
  /\ Library!ItemsAssumption /\ Chat!ItemsAssumption

PartsInit ==
  /\ part \in {"waits", "settings", "library", "chat", "gui"}
  /\ Init /\ Calls!Init
  /\ part # "settings" => \A m \in doc.models : m.keyed /\ m.name = CHOOSE n \in Names : TRUE
  /\ IF part = "chat" THEN Chat!Init ELSE Library!Init
  /\ Gui!Init

PartsNext ==
  \/ /\ part = "waits" /\ Calls!Next
     /\ UNCHANGED <<part, vars, fileVars, guiVars>>
  \/ /\ part = "settings" /\ Next
     /\ UNCHANGED <<part, callVars, fileVars, guiVars>>
  \/ /\ part = "library" /\ Library!Next
     /\ UNCHANGED <<part, vars, callVars, guiVars>>
  \/ /\ part = "chat" /\ Chat!Next
     /\ UNCHANGED <<part, vars, callVars, guiVars>>
  \/ /\ part = "gui" /\ Gui!Next
     /\ UNCHANGED <<part, vars, callVars, fileVars>>

PartsSpec ==
  PartsInit /\ [][PartsNext]_<<part, vars, callVars, fileVars, guiVars>>
            /\ Fairness /\ Calls!Fairness /\ Gui!Fairness

-----------------------------------------------------------------------------
\* The types of all parts.
TypesOK ==
  CASE part = "waits" -> Calls!TypeOK
    [] part = "settings" -> TypeOK
    [] part = "library" -> Library!TypeOK
    [] part = "chat" -> Chat!TypeOK
    [] part = "gui" -> Gui!TypeOK

\* Calls that need the user; see Decisions.
CardsAreLive == Calls!CardsAreLive
ConsentBeforeRun == Calls!ConsentBeforeRun
FirstDecisionStands == Calls!FirstDecisionStands
WaitsEnd == Calls!WaitsEnd

\* Files and rows; see Artifacts.
RowsHaveFiles == IF part = "chat" THEN Chat!RowsHaveFiles ELSE Library!RowsHaveFiles

\* The desktop; see Desktop.
StatusIsTrue == Gui!StatusIsTrue
RequestsAreAnswered == Gui!RequestsAreAnswered
=============================================================================
