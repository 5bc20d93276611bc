--------------------------- MODULE MC_AgentEvents ---------------------------
(***************************************************************************)
(* What a session of the coding agent keeps and shows, for TLC: the parts   *)
(* of MC_Session, its files, and what the page of a chat thread shows, one  *)
(* beside the other in the same way.                                        *)
(***************************************************************************)
EXTENDS MC_Session

VARIABLES files, watching, unsent, batches, reads, online, number, tree, loaded, marks,
          stale, changes, asked, faults,
          parents, tip, generating, stage, below, edit, halted, stopNotes, wire,
          opened, lines, first, editing, locked, streamed, fetch, gets, off, stops,
          mishaps, opens

fileVars == <<files, watching, unsent, batches, reads, online, number, tree, loaded, marks,
              stale, changes, asked, faults>>
pageVars == <<parents, tip, generating, stage, below, edit, halted, stopNotes, wire,
              opened, lines, first, editing, locked, streamed, fetch, gets, off, stops,
              mishaps, opens>>

\* One file that is created, deleted and created again, and a connection that breaks.
OneFile == INSTANCE FileTree WITH Paths <- {"file"}, Locks <- {}, MaxChanges <- 4,
             MaxReads <- 2, MaxAsked <- 1, MaxFaults <- 0, MaxDrops <- 1,
             pending <- unsent, link <- online

\* Two files, so that a batch has both; a tree follows one of them.
TwoFiles == INSTANCE FileTree WITH Paths <- {"file", "lock"}, Locks <- {"lock"},
              MaxChanges <- 3, MaxReads <- 1, MaxAsked <- 1, MaxFaults <- 1, MaxDrops <- 0,
              pending <- unsent, link <- online

\* A stop, and a page that is opened again.
Page == INSTANCE ChatPage WITH NumSends <- 2, MaxStops <- 1, MaxFaults <- 0, MaxOpens <- 2,
          up <- parents, leaf <- tip, at <- stage, stopped <- halted, notes <- stopNotes,
          open <- opened, shown <- lines, controller <- streamed, faults <- mishaps

\* A stop and a failure.
FailingPage == INSTANCE ChatPage WITH NumSends <- 2, MaxStops <- 1, MaxFaults <- 1,
                 MaxOpens <- 1, up <- parents, leaf <- tip, at <- stage,
                 stopped <- halted, notes <- stopNotes, open <- opened, shown <- lines,
                 controller <- streamed, faults <- mishaps

\* A third question, so that an edit takes two rounds with it.
LongPage == INSTANCE ChatPage WITH NumSends <- 3, MaxStops <- 0, MaxFaults <- 0,
              MaxOpens <- 1, up <- parents, leaf <- tip, at <- stage, stopped <- halted,
              notes <- stopNotes, open <- opened, shown <- lines, controller <- streamed,
              faults <- mishaps

PartsInit ==
  /\ part \in {"plan", "events", "broken", "stored", "talk", "file", "files",
              "page", "failing", "long"}
  /\ SessionInit
  /\ IF part = "files" THEN TwoFiles!Init ELSE OneFile!Init /\ (part = "file" \/ files = {})
  /\ IF part = "long" THEN LongPage!Init ELSE Page!Init

PartsNext ==
  \/ SessionNext /\ UNCHANGED <<fileVars, pageVars>>
  \/ part = "file" /\ OneFile!Next /\ UNCHANGED <<sessionVars, pageVars>>
  \/ part = "files" /\ TwoFiles!Next /\ UNCHANGED <<sessionVars, pageVars>>
  \/ part = "page" /\ Page!Next /\ UNCHANGED <<sessionVars, fileVars>>
  \/ part = "failing" /\ FailingPage!Next /\ UNCHANGED <<sessionVars, fileVars>>
  \/ part = "long" /\ LongPage!Next /\ UNCHANGED <<sessionVars, fileVars>>

PartsSpec == PartsInit /\ [][PartsNext]_<<sessionVars, fileVars, pageVars>>

-----------------------------------------------------------------------------
\* The types of all parts.
TypesOK ==
  CASE part = "plan" -> TypeOK
    [] part = "events" -> Events!TypeOK
    [] part = "broken" -> Broken!TypeOK
    [] part = "stored" -> Stored!TypeOK
    [] part = "talk" -> Talk!TypeOK
    [] part = "file" -> OneFile!TypeOK
    [] part = "files" -> TwoFiles!TypeOK
    [] part = "page" -> Page!TypeOK
    [] part = "failing" -> FailingPage!TypeOK
    [] part = "long" -> LongPage!TypeOK

\* What a client is shown; see AgentEvents, FileTree and ChatPage.
ViewFollows ==
  CASE part = "file" -> OneFile!TreeFollows
    [] part = "files" -> TwoFiles!TreeFollows
    [] part = "page" -> Page!PageFollows
    [] part = "failing" -> FailingPage!PageFollows
    [] part = "long" -> LongPage!PageFollows
    [] OTHER -> Events!ViewFollows
=============================================================================
