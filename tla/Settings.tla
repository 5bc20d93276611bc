------------------------------ MODULE Settings ------------------------------
(* The settings of the server: one JSON document in one row of Postgres, with *)
(* the sections "models", "servers" and "branding" and the flag "cleaning",   *)
(* and what the sections refer to: credentials of models and of the MCP       *)
(* server that is authorised by OAuth, and the file of the logo.              *)
(*                                                                            *)
(* Every request reads the document, waits for other calls and writes its own *)
(* section back (jsonb_set of one key); the clean-up of files is the only one *)
(* that writes the whole document.  Nothing is locked.  `want` is the         *)
(* document as it would be if every request changed it in one step, and       *)
(* `crossed` the sections two requests had in hand at the same time.          *)
EXTENDS Integers, FiniteSets

CONSTANTS NumRequests,   \* requests, numbered from 1; 0 made what is there at first
          Names,         \* names of models
          MaxFaults      \* calls to the database that fail, or crashes

\* What the bounds have to be.
RequestsAssumption == {NumRequests, MaxFaults} \subseteq Nat

VARIABLES doc,          \* the row of global_settings
          want,         \* the document with every request applied in one step
          modelKeys,    \* credentials of models in credential_store, by who saved them
          serverKeys,   \* credentials of the MCP server in credential_store
          files,        \* logos among the artifacts, by who uploaded them
          req,          \* the requests
          crossed,      \* sections two requests had in hand at once
          faults        \* calls that failed so far

vars == <<doc, want, modelKeys, serverKeys, files, req, crossed, faults>>

Request == 1..NumRequests
Maker == 0..NumRequests
Sections == {"models", "servers", "branding"}

\* A model: who added it, its name, whether it has a key, who set its context length.
Models == [by : Maker, name : Names, keyed : BOOLEAN, context : Maker]

\* "server" and "logo" hold at most one member: the credential and the file in use.
AtMostOne == {{}} \cup {{m} : m \in Maker}
Document == [models : SUBSET Models, server : AtMostOne, logo : AtMostOne,
             title : Maker, cleaning : BOOLEAN]

Phases == {"idle", "read", "prepare", "write", "clear", "mark", "list", "refs", "unlink",
           "restore", "finish", "done", "failed"}
Kinds == {"none", "add", "delete", "context", "servers", "callback", "title", "logo",
          "reset", "cleanup"}

Init ==
  /\ \E n \in Names, k \in BOOLEAN :
       doc = [models |-> {[by |-> 0, name |-> n, keyed |-> k, context |-> 0]},
              server |-> {0}, logo |-> {0}, title |-> 0, cleaning |-> FALSE]
  /\ want = doc
  /\ modelKeys = {0} /\ serverKeys = {0} /\ files = {0}
  /\ req = [r \in Request |-> [kind |-> "none", at |-> "idle", seen |-> doc,
                               model |-> {}, keep |-> FALSE, listed |-> {}]]
  /\ crossed = {} /\ faults = 0

-----------------------------------------------------------------------------
\* The sections a request has read and not yet written: the clean-up takes them all.
SectionOf(kind) ==
  CASE kind \in {"add", "delete", "context"} -> {"models"}
    [] kind \in {"servers", "callback"} -> {"servers"}
    [] kind \in {"title", "logo", "reset"} -> {"branding"}
    [] OTHER -> {}

Held(r) ==
  IF req[r].kind = "cleanup"
  THEN IF req[r].at \in {"mark", "finish"} THEN Sections ELSE {}
  ELSE IF req[r].at \in {"prepare", "write"} THEN SectionOf(req[r].kind) ELSE {}

\* A request reads the document and keeps what it read: getOrCreateSettings().
Reads(r, sections, change) ==
  /\ req' = [req EXCEPT ![r] = change]
  /\ crossed' = crossed \cup
       {s \in sections : \E q \in Request \ {r} : s \in Held(q)}

\* Variant: the whole document is written back with the section changed.
SetDocument(r, section, next) == next

\* updateSettingSection: one key of the document is set; nothing else is touched.
SetSection(r, section, next) ==
  CASE section = "models" -> [doc EXCEPT !.models = next.models]
    [] section = "servers" -> [doc EXCEPT !.server = next.server]
    [] OTHER -> [doc EXCEPT !.logo = next.logo, !.title = next.title]

\* `next` is what the request makes of the document it read, `whole` of the wanted one.
WriteSection(r, section, next, whole, after) ==
  /\ doc' = SetSection(r, section, next)
  /\ want' = whole
  /\ req' = [req EXCEPT ![r].at = after]
  /\ UNCHANGED <<modelKeys, serverKeys, files, crossed, faults>>

Step(r, kind, at) == req[r].kind = kind /\ req[r].at = at

-----------------------------------------------------------------------------
(* Models: addModel, deleteModel, updateModelMaxContext.                     *)
StartsAt(r, kind, at, models, keep) ==
  [req[r] EXCEPT !.kind = kind, !.at = at, !.seen = doc, !.model = models, !.keep = keep]

\* The name must be new in the document that was read.
AddReads(r) ==
  /\ req[r].at = "idle"
  /\ \E n \in Names, keyed \in BOOLEAN :
       LET entry == [by |-> r, name |-> n, keyed |-> keyed, context |-> 0]
           next == IF \E m \in doc.models : m.name = n THEN "done"
                   ELSE IF keyed THEN "prepare" ELSE "write"
       IN Reads(r, IF next = "done" THEN {} ELSE {"models"},
                StartsAt(r, "add", next, {entry}, FALSE))
  /\ UNCHANGED <<doc, want, modelKeys, serverKeys, files, faults>>

\* Variant: the credential is written after the entry that names it.
SavesKeyLater(r) ==
  /\ Step(r, "add", "prepare")
  /\ req' = [req EXCEPT ![r].at = "write"]
  /\ UNCHANGED <<doc, want, modelKeys, serverKeys, files, crossed, faults>>

SavesKey(r) ==
  /\ Step(r, "add", "prepare")
  /\ modelKeys' = modelKeys \cup {r}
  /\ req' = [req EXCEPT ![r].at = "write"]
  /\ UNCHANGED <<doc, want, serverKeys, files, crossed, faults>>

AddWrites(r) ==
  /\ Step(r, "add", "write")
  /\ LET Change(d) == [d EXCEPT !.models = @ \cup req[r].model]
     IN WriteSection(r, "models", Change(req[r].seen), Change(want), "done")

\* The credential goes first, the entry after it.
DeleteReads(r) ==
  /\ req[r].at = "idle"
  /\ \E m \in doc.models :
       Reads(r, {"models"},
             StartsAt(r, "delete", IF m.keyed THEN "prepare" ELSE "write", {m}, FALSE))
  /\ UNCHANGED <<doc, want, modelKeys, serverKeys, files, faults>>

DropsKey(r) ==
  /\ Step(r, "delete", "prepare")
  /\ modelKeys' = modelKeys \ {m.by : m \in req[r].model}
  /\ req' = [req EXCEPT ![r].at = "write"]
  /\ UNCHANGED <<doc, want, serverKeys, files, crossed, faults>>

Others(d, r) == {m \in d.models : \A e \in req[r].model : e.by # m.by}

DeleteWrites(r) ==
  /\ Step(r, "delete", "write")
  /\ LET Change(d) == [d EXCEPT !.models = Others(d, r)]
     IN WriteSection(r, "models", Change(req[r].seen), Change(want), "done")

ContextReads(r) ==
  /\ req[r].at = "idle"
  /\ \E m \in doc.models :
       Reads(r, {"models"}, StartsAt(r, "context", "write", {m}, FALSE))
  /\ UNCHANGED <<doc, want, modelKeys, serverKeys, files, faults>>

ContextWrites(r) ==
  /\ Step(r, "context", "write")
  /\ LET Change(d) == [d EXCEPT !.models = {IF \E e \in req[r].model : e.by = m.by
                                             THEN [m EXCEPT !.context = r] ELSE m
                                             : m \in d.models}]
     IN WriteSection(r, "models", Change(req[r].seen), Change(want), "done")

-----------------------------------------------------------------------------
(* The MCP server: PUT mcp-servers and the callback of OAuth.                *)

\* The form knows no credential; it is copied from what is read here.
ServersRead(r) ==
  /\ req[r].at = "idle"
  /\ \E keep \in BOOLEAN : Reads(r, {"servers"}, StartsAt(r, "servers", "prepare", {}, keep))
  /\ UNCHANGED <<doc, want, modelKeys, serverKeys, files, faults>>

\* Every server is tried before anything is saved: the slow part of the request.
ServersTried(r) ==
  /\ Step(r, "servers", "prepare")
  /\ \E at \in {"write", "done"} : req' = [req EXCEPT ![r].at = at]
  /\ UNCHANGED <<doc, want, modelKeys, serverKeys, files, crossed, faults>>

ServersWrite(r) ==
  /\ Step(r, "servers", "write")
  /\ LET Change(d) == IF req[r].keep THEN d ELSE [d EXCEPT !.server = {}]
     IN WriteSection(r, "servers", Change(req[r].seen), Change(want), "done")

\* The code was exchanged and the tokens are saved under a new credential.
CallbackSaves(r) ==
  /\ req[r].at = "idle"
  /\ serverKeys' = serverKeys \cup {r}
  /\ req' = [req EXCEPT ![r] = StartsAt(r, "callback", "read", {}, TRUE)]
  /\ UNCHANGED <<doc, want, modelKeys, files, crossed, faults>>

CallbackReads(r) ==
  /\ Step(r, "callback", "read")
  /\ Reads(r, {"servers"},
           StartsAt(r, "callback", IF doc.server = {} THEN "write" ELSE "prepare", {}, TRUE))
  /\ UNCHANGED <<doc, want, modelKeys, serverKeys, files, faults>>

\* The credential that is replaced is deleted before the new one is named.
CallbackDrops(r) ==
  /\ Step(r, "callback", "prepare")
  /\ serverKeys' = serverKeys \ req[r].seen.server
  /\ req' = [req EXCEPT ![r].at = "write"]
  /\ UNCHANGED <<doc, want, modelKeys, files, crossed, faults>>

CallbackWrites(r) ==
  /\ Step(r, "callback", "write")
  /\ LET Change(d) == [d EXCEPT !.server = {r}]
     IN WriteSection(r, "servers", Change(req[r].seen), Change(want), "done")

-----------------------------------------------------------------------------
(* Branding: the title and the logo are fields of one section.               *)
TitleReads(r) ==
  /\ req[r].at = "idle"
  /\ Reads(r, {"branding"}, StartsAt(r, "title", "write", {}, TRUE))
  /\ UNCHANGED <<doc, want, modelKeys, serverKeys, files, faults>>

TitleWrites(r) ==
  /\ Step(r, "title", "write")
  /\ LET Change(d) == [d EXCEPT !.title = r]
     IN WriteSection(r, "branding", Change(req[r].seen), Change(want), "done")

\* The file of a new logo is saved before the section is read.
LogoSaves(r) ==
  /\ req[r].at = "idle"
  /\ files' = files \cup {r}
  /\ req' = [req EXCEPT ![r] = StartsAt(r, "logo", "read", {}, TRUE)]
  /\ UNCHANGED <<doc, want, modelKeys, serverKeys, crossed, faults>>

LogoReads(r) ==
  /\ \/ Step(r, "logo", "read") /\ Reads(r, {"branding"}, StartsAt(r, "logo", "write", {}, TRUE))
     \/ req[r].at = "idle" /\ Reads(r, {"branding"}, StartsAt(r, "reset", "write", {}, TRUE))
  /\ UNCHANGED <<doc, want, modelKeys, serverKeys, files, faults>>

LogoWrites(r) ==
  /\ req[r].kind \in {"logo", "reset"} /\ req[r].at = "write"
  /\ LET Change(d) == [d EXCEPT !.logo = IF req[r].kind = "logo" THEN {r} ELSE {}]
     IN WriteSection(r, "branding", Change(req[r].seen), Change(want), "clear")

\* Only a file that is no longer named is deleted.
LogoClears(r) ==
  /\ req[r].at = "clear"
  /\ files' = files \ req[r].seen.logo
  /\ req' = [req EXCEPT ![r].at = "done"]
  /\ UNCHANGED <<doc, want, modelKeys, serverKeys, crossed, faults>>

-----------------------------------------------------------------------------
(* The clean-up of files: startCleanup and performCleanup.                   *)

\* A running clean-up is refused; the document is read to be written back with the flag.
CleanupReads(r) ==
  /\ req[r].at = "idle" /\ ~ doc.cleaning
  /\ Reads(r, Sections, StartsAt(r, "cleanup", "mark", {}, TRUE))
  /\ UNCHANGED <<doc, want, modelKeys, serverKeys, files, faults>>

\* updateSettings: the whole document.
WriteDocument(r, flag, from, after) ==
  /\ Step(r, "cleanup", from)
  /\ doc' = [req[r].seen EXCEPT !.cleaning = flag]
  /\ req' = [req EXCEPT ![r].at = after]
  /\ UNCHANGED <<want, modelKeys, serverKeys, files, crossed, faults>>

\* A file of a request that is still running is younger than the grace period.
Lists(r) ==
  /\ Step(r, "cleanup", "list")
  /\ req' = [req EXCEPT ![r].at = "refs",
                        ![r].listed = files \ {q \in Request : req[q].at \notin {"done", "failed"}}]
  /\ UNCHANGED <<doc, want, modelKeys, serverKeys, files, crossed, faults>>

ReadsRefs(r) ==
  /\ Step(r, "cleanup", "refs")
  /\ req' = [req EXCEPT ![r].at = "unlink", ![r].listed = @ \ doc.logo]
  /\ UNCHANGED <<doc, want, modelKeys, serverKeys, files, crossed, faults>>

Unlinks(r) ==
  /\ Step(r, "cleanup", "unlink")
  /\ files' = files \ req[r].listed
  /\ req' = [req EXCEPT ![r].at = "restore"]
  /\ UNCHANGED <<doc, want, modelKeys, serverKeys, crossed, faults>>

\* Variant: no finally.
SweepFailsForGood(r) ==
  /\ req[r].kind = "cleanup" /\ req[r].at \in {"list", "refs", "unlink"}
  /\ req' = [req EXCEPT ![r].at = "done"]
  /\ UNCHANGED <<doc, want, modelKeys, serverKeys, files, crossed, faults>>

\* try ... finally: a sweep that throws takes the flag back all the same.
SweepFails(r) ==
  /\ req[r].kind = "cleanup" /\ req[r].at \in {"list", "refs", "unlink"}
  /\ req' = [req EXCEPT ![r].at = "restore"]
  /\ UNCHANGED <<doc, want, modelKeys, serverKeys, files, crossed, faults>>

RestoreReads(r) ==
  /\ Step(r, "cleanup", "restore")
  /\ Reads(r, Sections, [req[r] EXCEPT !.at = "finish", !.seen = doc])
  /\ UNCHANGED <<doc, want, modelKeys, serverKeys, files, faults>>

-----------------------------------------------------------------------------
Running(r) == req[r].at \notin {"idle", "done", "failed"}

\* A call to the database throws: the request ends where it is.
Fails(r) ==
  /\ Running(r) /\ faults < MaxFaults
  /\ ~ (req[r].kind = "cleanup" /\ req[r].at \in {"list", "refs", "unlink"})
  /\ req' = [req EXCEPT ![r].at = "failed"]
  /\ faults' = faults + 1
  /\ UNCHANGED <<doc, want, modelKeys, serverKeys, files, crossed>>

\* The server stops: every request ends where it is.
Crash ==
  /\ faults < MaxFaults /\ \E r \in Request : Running(r)
  /\ req' = [r \in Request |-> IF Running(r) THEN [req[r] EXCEPT !.at = "failed"] ELSE req[r]]
  /\ faults' = faults + 1
  /\ UNCHANGED <<doc, want, modelKeys, serverKeys, files, crossed>>

Advance(r) ==
  \/ SavesKey(r) \/ AddWrites(r) \/ DropsKey(r) \/ DeleteWrites(r) \/ ContextWrites(r)
  \/ ServersTried(r) \/ ServersWrite(r)
  \/ CallbackReads(r) \/ CallbackDrops(r) \/ CallbackWrites(r)
  \/ TitleWrites(r) \/ LogoReads(r) \/ LogoWrites(r) \/ LogoClears(r)
  \/ WriteDocument(r, TRUE, "mark", "list") \/ Lists(r) \/ ReadsRefs(r) \/ Unlinks(r)
  \/ SweepFails(r) \/ RestoreReads(r) \/ WriteDocument(r, FALSE, "finish", "done")

Begin(r) ==
  \/ AddReads(r) \/ DeleteReads(r) \/ ContextReads(r) \/ ServersRead(r)
  \/ CallbackSaves(r) \/ TitleReads(r) \/ LogoSaves(r) \/ CleanupReads(r)

Next == \/ \E r \in Request : Begin(r) \/ Advance(r) \/ Fails(r)
        \/ Crash

Spec == Init /\ [][Next]_vars

\* Every promise a request waits for settles.
Fairness == \A r \in Request : WF_vars(Running(r) /\ Advance(r))
FairSpec == Spec /\ Fairness

-----------------------------------------------------------------------------
\* A request, a document and what it refers to have the shape the code gives them.
TypeOK ==
  /\ doc \in Document /\ want \in Document
  /\ modelKeys \subseteq Maker /\ serverKeys \subseteq Maker /\ files \subseteq Maker
  /\ req \in [Request -> [kind : Kinds, at : Phases, seen : Document,
                          model : SUBSET Models, keep : BOOLEAN, listed : SUBSET Maker]]
  /\ crossed \subseteq Sections /\ faults \in 0..MaxFaults

\* A section that no two requests had in hand at once is what its changes, each made in
\* one step, would have left: requests for different sections never undo one another
\* (updateSettingSection), and only the two short writes of a clean-up touch them all.
NothingLost ==
  /\ "models" \in crossed \/ doc.models = want.models
  /\ "servers" \in crossed \/ doc.server = want.server
  /\ "branding" \in crossed \/ (doc.logo = want.logo /\ doc.title = want.title)

\* What the document names exists, whatever fails and whenever the clean-up runs:
\* the key of a model, unless its deletion was asked for (deleteModel drops it
\* first); the credential of the server, unless a callback is replacing it or failed
\* there (handleCallback deletes the old one first); the file of the logo.
ReferencesResolve ==
  /\ \A m \in doc.models :
       \/ ~ m.keyed \/ m.by \in modelKeys \/ "models" \in crossed
       \/ \E r \in Request : req[r].kind = "delete" /\ m.by \in {e.by : e \in req[r].model}
  /\ \/ doc.server \subseteq serverKeys \/ "servers" \in crossed
     \/ \E r \in Request : req[r].kind = "callback" /\ req[r].at \in {"write", "failed"}
  /\ doc.logo \subseteq files \/ "branding" \in crossed

\* A clean-up takes its flag back, so that another may start, unless a call failed or the
\* server stopped (nothing resets the flag then).
CleaningEnds == doc.cleaning ~> (~ doc.cleaning \/ faults > 0)
=============================================================================
