---------------------------- MODULE Parts_proofs ----------------------------
(***************************************************************************)
(* Proofs about the components MC_Parts puts side by side, for any values of *)
(* the constants.                                                           *)
(* Settings.  Why nothing is lost: while a section has not crossed, at most  *)
(* one request has it in hand, what that request read is what is stored, and *)
(* what is stored is what is wanted; every write preserves the three, also   *)
(* the two of the clean-up, which write all sections.  Why names resolve: a  *)
(* document, stored or in hand, names only what was written before; what a   *)
(* request is about to name is saved already, and who deletes something has  *)
(* read, or waited, so that it is not named any more.                        *)
(* Decisions: the inductive invariant ties the three things that make up a   *)
(* wait - the card, the listener and the suspended handler - to one another, *)
(* and the cards of running turns to the call the agent awaits.              *)
(* Desktop: what a request has reached by its next command.                  *)
(* At the end the theorems, about the parts beside one another; those about  *)
(* Artifacts are carried over to the instances explored there.               *)
(***************************************************************************)
EXTENDS MC_Parts, FiniteSetTheorems, TLAPS

-----------------------------------------------------------------------------
(* The settings.                                                            *)

\* A request.
Asked == [kind : Kinds, at : Phases, seen : Document, model : SUBSET Models,
          keep : BOOLEAN, listed : SUBSET Maker]

\* Two documents agree about a section.
Same(d, e, s) ==
  CASE s = "models" -> d.models = e.models
    [] s = "servers" -> d.server = e.server
    [] OTHER -> d.logo = e.logo /\ d.title = e.title

\* Who holds a section that never crossed holds it alone, and holds what is stored.
InTurn ==
  /\ \A r \in Request : req[r].at = "idle" => req[r].kind = "none"
  /\ \A s \in Sections \ crossed : \A r, q \in Request :
       s \in Held(r) /\ s \in Held(q) => r = q
  /\ \A s \in Sections \ crossed : \A r \in Request :
       s \in Held(r) => Same(req[r].seen, doc, s)

\* What is stored is what is wanted.
UpToDate == \A s \in Sections \ crossed : Same(doc, want, s)

\* A request that has something in hand and has not written yet.
Early == {"read", "prepare", "write"}

\* The requests whose logo, or whose credential, a document may name.
Uploaded ==
  {0} \cup {m \in Request : req[m].kind = "logo" /\ req[m].at \notin Early}
Granted ==
  {0} \cup {m \in Request : req[m].kind = "callback" /\ req[m].at \notin Early}

\* A document names nothing that was not written yet.
Known(d) == d.logo \subseteq Uploaded /\ d.server \subseteq Granted
AllKnown == Known(doc) /\ \A r \in Request : Known(req[r].seen)

\* The key of a model is there, unless somebody asked for the model to be deleted.
HasKey(m) ==
  \/ ~ m.keyed
  \/ m.by \in modelKeys
  \/ \E q \in Request : req[q].kind = "delete" /\ m.by \in {e.by : e \in req[q].model}

\* What a request will name is there.
Owns(r) ==
  /\ req[r].kind = "logo" /\ req[r].at \in Early => r \in files
  /\ req[r].kind = "callback" /\ req[r].at \in Early => r \in serverKeys
  /\ req[r].kind = "add" => \A e \in req[r].model : e.by = r
  /\ req[r].kind = "add" /\ req[r].at = "write" => \A e \in req[r].model : HasKey(e)

\* What a request will delete is not named, and nobody is about to name it.
Spares(r) ==
  /\ req[r].at \in {"refs", "unlink"} =>
       /\ req[r].kind = "cleanup"
       /\ req[r].listed \subseteq {0} \cup {m \in Request : req[m].at \in {"done", "failed"}}
  /\ req[r].at = "unlink" => "branding" \in crossed \/ req[r].listed \cap doc.logo = {}
  /\ req[r].at = "clear" => "branding" \in crossed \/ req[r].seen.logo \cap doc.logo = {}

\* The inductive invariant.
Kept ==
  /\ TypeOK /\ InTurn /\ UpToDate /\ AllKnown
  /\ \A r \in Request : Owns(r) /\ Spares(r)
  /\ ReferencesResolve

\* The server starts with a document whose names resolve and nobody under way.
LEMMA InitKept == ASSUME RequestsAssumption, Init PROVE Kept
<1>0. 0 \in Maker /\ 0 \in 0..MaxFaults /\ \A r \in Request : r \in Maker /\ r # 0
  BY DEF RequestsAssumption, Maker, Request
<1>1. PICK n \in Names, k \in BOOLEAN :
        doc = [models |-> {[by |-> 0, name |-> n, keyed |-> k, context |-> 0]},
               server |-> {0}, logo |-> {0}, title |-> 0, cleaning |-> FALSE]
  BY DEF Init
<1>2. doc \in Document
  <2>1. [by |-> 0, name |-> n, keyed |-> k, context |-> 0] \in Models
    BY <1>0 DEF Models
  <2>2. {0} \in AtMostOne
    BY <1>0 DEF AtMostOne
  <2> QED BY <1>0, <1>1, <2>1, <2>2 DEF Document
<1>3. TypeOK
  <2>1. req \in [Request -> Asked]
    BY <1>2 DEF Init, Asked, Kinds, Phases
  <2> QED BY <1>0, <1>2, <2>1 DEF Init, TypeOK, Asked
<1>4. InTurn /\ UpToDate
  BY DEF Init, InTurn, UpToDate, Held, Same, SectionOf
<1>5. AllKnown
  BY <1>1 DEF Init, AllKnown, Known, Uploaded, Granted
<1>6. \A r \in Request : Owns(r) /\ Spares(r)
  BY DEF Init, Owns, Spares
<1>7. ReferencesResolve
  BY <1>1 DEF Init, ReferencesResolve
<1> QED BY <1>3, <1>4, <1>5, <1>6, <1>7 DEF Kept

-----------------------------------------------------------------------------
\* What one request becomes in a step.
Puts(r, x) == req' = [req EXCEPT ![r] = x]
Moved(r, a) == [req[r] EXCEPT !.at = a]
Listed(r, a, fs) == [req[r] EXCEPT !.at = a, !.listed = fs]
Restored(r) == [req[r] EXCEPT !.at = "finish", !.seen = doc]

\* One request moves, and what it becomes is a request.
LEMMA RequestType ==
  ASSUME RequestsAssumption, TypeOK, NEW r \in Request, Begin(r) \/ Advance(r)
  PROVE  req'[r] \in Asked /\ req' = [req EXCEPT ![r] = req'[r]]
<1>0. /\ doc \in Document /\ req \in [Request -> Asked] /\ r \in Maker
      /\ files \subseteq Maker
      /\ doc.models \subseteq Models
  BY DEF TypeOK, Asked, Maker, Request, Document
<1>1. /\ req[r] \in Asked /\ req[r].kind \in Kinds /\ req[r].at \in Phases
      /\ req[r].seen \in Document /\ req[r].model \subseteq Models
      /\ req[r].keep \in BOOLEAN /\ req[r].listed \subseteq Maker
  BY <1>0 DEF Asked
<1>2. SUFFICES \E x \in Asked : Puts(r, x)
  BY <1>0 DEF Puts
<1>3. ASSUME NEW a \in Phases PROVE Moved(r, a) \in Asked
  BY <1>1 DEF Asked, Moved
<1>4. ASSUME NEW k \in Kinds, NEW a \in Phases, NEW ms \in SUBSET Models, NEW keep \in BOOLEAN
      PROVE  StartsAt(r, k, a, ms, keep) \in Asked
  BY <1>0, <1>1 DEF StartsAt, Asked
<1>5. ASSUME NEW a \in Phases, NEW fs \in SUBSET Maker PROVE Listed(r, a, fs) \in Asked
  BY <1>1 DEF Asked, Listed
<1>6. \A k \in {"add", "delete", "context", "servers", "callback", "title", "logo", "reset",
                "cleanup"} : k \in Kinds
  BY DEF Kinds
<1>7. \A a \in {"read", "prepare", "write", "clear", "mark", "list", "refs", "unlink",
                "restore", "finish", "done", "failed"} : a \in Phases
  BY DEF Phases
<1>8. CASE Begin(r)
  <2>1. CASE AddReads(r)
    <3>1. PICK n \in Names, keyed \in BOOLEAN :
            \E a \in {"done", "prepare", "write"} :
              Puts(r, StartsAt(r, "add", a,
                               {[by |-> r, name |-> n, keyed |-> keyed, context |-> 0]}, FALSE))
      BY <2>1 DEF AddReads, Reads, Puts
    <3>2. [by |-> r, name |-> n, keyed |-> keyed, context |-> 0] \in Models
      <4>1. 0 \in Maker
        BY DEF Maker, RequestsAssumption
      <4> QED BY <1>0, <4>1 DEF Models
    <3> DEFINE entry == [by |-> r, name |-> n, keyed |-> keyed, context |-> 0]
    <3>3. {entry} \in SUBSET Models
      BY <3>2
    <3> HIDE DEF entry
    <3>4. PICK a \in {"done", "prepare", "write"} :
            Puts(r, StartsAt(r, "add", a, {entry}, FALSE))
      BY <3>1 DEF entry
    <3> QED BY <1>4, <1>6, <1>7, <3>3, <3>4
  <2>2. CASE DeleteReads(r)
    <3>1. PICK m \in doc.models : \E a \in {"prepare", "write"} :
            Puts(r, StartsAt(r, "delete", a, {m}, FALSE))
      BY <2>2 DEF DeleteReads, Reads, Puts
    <3> QED BY <1>0, <1>4, <1>6, <1>7, <3>1
  <2>3. CASE ContextReads(r)
    <3>1. PICK m \in doc.models : Puts(r, StartsAt(r, "context", "write", {m}, FALSE))
      BY <2>3 DEF ContextReads, Reads, Puts
    <3> QED BY <1>0, <1>4, <1>6, <1>7, <3>1
  <2>4. CASE ServersRead(r)
    <3>1. PICK keep \in BOOLEAN : Puts(r, StartsAt(r, "servers", "prepare", {}, keep))
      BY <2>4 DEF ServersRead, Reads, Puts
    <3> QED BY <1>4, <1>6, <1>7, <3>1
  <2>5. CASE CallbackSaves(r)
    <3>1. Puts(r, StartsAt(r, "callback", "read", {}, TRUE))
      BY <2>5 DEF CallbackSaves, Puts
    <3> QED BY <1>4, <1>6, <1>7, <3>1
  <2>6. CASE TitleReads(r)
    <3>1. Puts(r, StartsAt(r, "title", "write", {}, TRUE))
      BY <2>6 DEF TitleReads, Reads, Puts
    <3> QED BY <1>4, <1>6, <1>7, <3>1
  <2>7. CASE LogoSaves(r)
    <3>1. Puts(r, StartsAt(r, "logo", "read", {}, TRUE))
      BY <2>7 DEF LogoSaves, Puts
    <3> QED BY <1>4, <1>6, <1>7, <3>1
  <2>8. CASE CleanupReads(r)
    <3>1. Puts(r, StartsAt(r, "cleanup", "mark", {}, TRUE))
      BY <2>8 DEF CleanupReads, Reads, Puts
    <3> QED BY <1>4, <1>6, <1>7, <3>1
  <2> QED
    BY <1>8, <2>1, <2>2, <2>3, <2>4, <2>5, <2>6, <2>7, <2>8 DEF Begin
<1>9. CASE Advance(r)
  <2>1. CASE \/ SavesKey(r) \/ DropsKey(r) \/ ServersTried(r) \/ CallbackDrops(r)
             \/ LogoClears(r) \/ Unlinks(r) \/ SweepFails(r)
    <3>1. \E a \in {"write", "done", "restore"} : Puts(r, Moved(r, a))
      BY <1>0, <2>1
         DEF SavesKey, DropsKey, ServersTried, CallbackDrops, LogoClears, Unlinks, SweepFails,
             Puts, Moved
    <3> QED BY <1>3, <1>7, <3>1
  <2>2. CASE \/ AddWrites(r) \/ DeleteWrites(r) \/ ContextWrites(r) \/ ServersWrite(r)
             \/ CallbackWrites(r) \/ TitleWrites(r) \/ LogoWrites(r)
    <3>1. \E a \in {"done", "clear"} : Puts(r, Moved(r, a))
      BY <1>0, <2>2
         DEF AddWrites, DeleteWrites, ContextWrites, ServersWrite, CallbackWrites, TitleWrites,
             LogoWrites, WriteSection, Puts, Moved
    <3> QED BY <1>3, <1>7, <3>1
  <2>3. CASE \/ WriteDocument(r, TRUE, "mark", "list")
             \/ WriteDocument(r, FALSE, "finish", "done")
    <3>1. \E a \in {"list", "done"} : Puts(r, Moved(r, a))
      BY <1>0, <2>3 DEF WriteDocument, Puts, Moved
    <3> QED BY <1>3, <1>7, <3>1
  <2>4. CASE CallbackReads(r)
    <3>1. PICK a \in {"write", "prepare"} : Puts(r, StartsAt(r, "callback", a, {}, TRUE))
      BY <2>4 DEF CallbackReads, Reads, Puts
    <3> QED BY <1>4, <1>6, <1>7, <3>1
  <2>5. CASE LogoReads(r)
    <3>1. PICK k \in {"logo", "reset"} : Puts(r, StartsAt(r, k, "write", {}, TRUE))
      BY <2>5 DEF LogoReads, Reads, Puts
    <3> QED BY <1>4, <1>6, <1>7, <3>1
  <2>6. CASE RestoreReads(r)
    <3>1. Restored(r) \in Asked
      BY <1>0, <1>1, <1>7 DEF Asked, Restored
    <3>2. Puts(r, Restored(r))
      BY <2>6 DEF RestoreReads, Reads, Puts, Restored
    <3> QED BY <3>1, <3>2
  <2>7. CASE Lists(r)
    <3> DEFINE fs == files \ {q \in Request : req[q].at \notin {"done", "failed"}}
    <3>1. Puts(r, Listed(r, "refs", fs))
      BY <1>0, <2>7 DEF Lists, Puts, Listed
    <3>2. fs \in SUBSET Maker
      BY <1>0
    <3> HIDE DEF fs
    <3> QED BY <1>5, <1>7, <3>1, <3>2
  <2>8. CASE ReadsRefs(r)
    <3>1. Puts(r, Listed(r, "unlink", req[r].listed \ doc.logo))
      BY <1>0, <2>8 DEF ReadsRefs, Puts, Listed
    <3>2. req[r].listed \ doc.logo \in SUBSET Maker
      BY <1>1
    <3> QED BY <1>5, <1>7, <3>1, <3>2
  <2> QED
    BY <1>9, <2>1, <2>2, <2>3, <2>4, <2>5, <2>6, <2>7, <2>8 DEF Advance
<1> QED BY <1>8, <1>9

\* Which steps write.
Writes(r) ==
  \/ AddWrites(r) \/ DeleteWrites(r) \/ ContextWrites(r) \/ ServersWrite(r)
  \/ CallbackWrites(r) \/ TitleWrites(r) \/ LogoWrites(r)
  \/ WriteDocument(r, TRUE, "mark", "list")
  \/ WriteDocument(r, FALSE, "finish", "done")

\* What a request leaves beside the document is its own.
LEMMA OwnTraces ==
  ASSUME NEW r \in Request, Begin(r) \/ Advance(r), crossed \subseteq Sections
  PROVE  /\ crossed' \subseteq Sections /\ faults' = faults
         /\ modelKeys' \subseteq modelKeys \cup {r} /\ serverKeys' \subseteq serverKeys \cup {r}
         /\ files' \subseteq files \cup {r}
<1> DEFINE Beside == /\ crossed' \subseteq Sections /\ faults' = faults
                     /\ modelKeys' \subseteq modelKeys \cup {r}
                     /\ serverKeys' \subseteq serverKeys \cup {r} /\ files' \subseteq files \cup {r}
<1>1. ASSUME AddReads(r) \/ DeleteReads(r) \/ ContextReads(r) \/ ServersRead(r) PROVE Beside
  BY <1>1 DEF AddReads, DeleteReads, ContextReads, ServersRead, Reads, Sections
<1>2. ASSUME TitleReads(r) \/ CleanupReads(r) \/ CallbackReads(r) PROVE Beside
  BY <1>2 DEF TitleReads, CleanupReads, CallbackReads, Reads, Sections
<1>3. ASSUME LogoReads(r) \/ RestoreReads(r) PROVE Beside
  BY <1>3 DEF LogoReads, RestoreReads, Reads, Sections
<1>4. ASSUME Writes(r) PROVE Beside
  BY <1>4 DEF Writes, AddWrites, DeleteWrites, ContextWrites, ServersWrite, CallbackWrites,
              TitleWrites, LogoWrites, WriteDocument, WriteSection
<1>5. ASSUME ServersTried(r) \/ Lists(r) \/ ReadsRefs(r) \/ SweepFails(r) PROVE Beside
  BY <1>5 DEF ServersTried, Lists, ReadsRefs, SweepFails
<1>6. ASSUME SavesKey(r) \/ DropsKey(r) \/ CallbackSaves(r) \/ CallbackDrops(r) PROVE Beside
  BY <1>6 DEF SavesKey, DropsKey, CallbackSaves, CallbackDrops
<1>7. ASSUME LogoSaves(r) \/ LogoClears(r) \/ Unlinks(r) PROVE Beside
  BY <1>7 DEF LogoSaves, LogoClears, Unlinks
<1> HIDE DEF Beside
<1>8. Beside
  BY <1>1, <1>2, <1>3, <1>4, <1>5, <1>6, <1>7 DEF Begin, Advance, Writes
<1> QED BY <1>8 DEF Beside

\* Types are kept by every step.
LEMMA TypeStep ==
  ASSUME RequestsAssumption, TypeOK, [Next]_vars
  PROVE  TypeOK'
<1>0. /\ Request \subseteq Maker
      /\ doc \in Document /\ want \in Document /\ req \in [Request -> Asked]
      /\ crossed \subseteq Sections /\ faults \in 0..MaxFaults
      /\ modelKeys \subseteq Maker /\ serverKeys \subseteq Maker /\ files \subseteq Maker
  BY DEF TypeOK, Asked, Maker, Request
<1>1. CASE UNCHANGED vars
  BY <1>1 DEF TypeOK, vars
<1>2. CASE Crash
  <2>1. ASSUME NEW q \in Request PROVE [req[q] EXCEPT !.at = "failed"] \in Asked
    BY <1>0 DEF Asked, Phases
  <2>2. req' \in [Request -> Asked]
    BY <1>0, <1>2, <2>1 DEF Crash
  <2>3. faults' \in 0..MaxFaults
    BY <1>0, <1>2 DEF Crash, RequestsAssumption
  <2> QED BY <1>0, <1>2, <2>2, <2>3 DEF Crash, TypeOK, Asked
<1>3. ASSUME NEW r \in Request, Fails(r) PROVE TypeOK'
  <2>1. [req[r] EXCEPT !.at = "failed"] \in Asked
    BY <1>0 DEF Asked, Phases
  <2>2. req' \in [Request -> Asked]
    BY <1>0, <1>3, <2>1 DEF Fails
  <2>3. faults' \in 0..MaxFaults
    BY <1>0, <1>3 DEF Fails, RequestsAssumption
  <2> QED BY <1>0, <1>3, <2>2, <2>3 DEF Fails, TypeOK, Asked
<1>4. ASSUME NEW r \in Request, Begin(r) \/ Advance(r) PROVE TypeOK'
  <2>1. req' \in [Request -> Asked]
    BY <1>0, <1>4, RequestType
  <2>2. /\ crossed' \subseteq Sections /\ faults' = faults
        /\ modelKeys' \subseteq modelKeys \cup {r} /\ serverKeys' \subseteq serverKeys \cup {r}
        /\ files' \subseteq files \cup {r}
    BY <1>0, <1>4, OwnTraces
  <2>4. doc' \in Document /\ want' \in Document
    <3>1. CASE UNCHANGED <<doc, want>>
      BY <1>0, <3>1
    <3>2. CASE \E flag \in BOOLEAN, from, after \in Phases : WriteDocument(r, flag, from, after)
      <4>1. PICK flag \in BOOLEAN : doc' = [req[r].seen EXCEPT !.cleaning = flag] /\ want' = want
        BY <3>2 DEF WriteDocument
      <4>2. req[r].seen \in Document
        BY <1>0 DEF Asked
      <4>3. [req[r].seen EXCEPT !.cleaning = flag] \in Document
        BY <4>2 DEF Document
      <4> QED BY <1>0, <4>1, <4>3
    <3>3. /\ req[r].seen \in Document /\ req[r].model \subseteq Models /\ r \in Maker
          /\ {} \in AtMostOne /\ {r} \in AtMostOne
      BY <1>0 DEF Asked, AtMostOne
    <3>4. CASE AddWrites(r)
      BY <1>0, <3>3, <3>4 DEF AddWrites, WriteSection, SetSection, Document
    <3>5. CASE DeleteWrites(r)
      BY <1>0, <3>3, <3>5 DEF DeleteWrites, WriteSection, SetSection, Document, Others
    <3>6. CASE ContextWrites(r)
      <4> DEFINE New(d) == {IF \E e \in req[r].model : e.by = m.by
                             THEN [m EXCEPT !.context = r] ELSE m : m \in d.models}
      <4>1. ASSUME NEW d \in Document PROVE New(d) \subseteq Models
        BY <1>0, <3>3, <4>1 DEF Document, Models
      <4>2. /\ doc' = [doc EXCEPT !.models = New(req[r].seen)]
            /\ want' = [want EXCEPT !.models = New(want)]
        BY <1>0, <3>3, <3>6 DEF ContextWrites, WriteSection, SetSection, Document
      <4> HIDE DEF New
      <4> QED BY <1>0, <3>3, <4>1, <4>2 DEF Document
    <3>7. CASE ServersWrite(r)
      BY <1>0, <3>3, <3>7 DEF ServersWrite, WriteSection, SetSection, Document
    <3>8. CASE CallbackWrites(r)
      BY <1>0, <3>3, <3>8 DEF CallbackWrites, WriteSection, SetSection, Document
    <3>9. CASE TitleWrites(r)
      BY <1>0, <3>3, <3>9 DEF TitleWrites, WriteSection, SetSection, Document
    <3>10. CASE LogoWrites(r)
      BY <1>0, <3>3, <3>10 DEF LogoWrites, WriteSection, SetSection, Document
    <3> QED
      BY <1>4, <3>1, <3>2, <3>4, <3>5, <3>6, <3>7, <3>8, <3>9, <3>10
         DEF Begin, Advance, AddReads, DeleteReads, ContextReads, ServersRead, CallbackSaves,
             TitleReads, LogoSaves, CleanupReads, SavesKey, DropsKey, ServersTried,
             CallbackReads, CallbackDrops, LogoReads, LogoClears, Lists, ReadsRefs, Unlinks,
             SweepFails, RestoreReads, Phases
  <2> QED BY <1>0, <2>1, <2>2, <2>4 DEF TypeOK, Asked
<1> QED BY <1>1, <1>2, <1>3, <1>4 DEF Next

-----------------------------------------------------------------------------
\* What a request is after it read.
Crossing(r, sections) ==
  crossed' = crossed \cup {s \in sections : \E q \in Request \ {r} : s \in Held(q)}

Reading(r, sections, kind, place) ==
  /\ Crossing(r, sections)
  /\ req'[r].kind = kind /\ req'[r].at = place /\ req'[r].seen = doc
  /\ \A q \in Request \ {r} : req'[q] = req[q]

\* A request that starts, or reads again, has what is stored.
LEMMA Starting ==
  ASSUME TypeOK, NEW r \in Request, NEW sections, NEW kind, NEW place, NEW models, NEW keep,
         Reads(r, sections, StartsAt(r, kind, place, models, keep))
  PROVE  Reading(r, sections, kind, place) /\ req'[r].model = models
<1>1. req \in [Request -> Asked]
  BY DEF TypeOK, Asked
<1>2. req'[r] = StartsAt(r, kind, place, models, keep) /\ \A q \in Request \ {r} : req'[q] = req[q]
  BY <1>1 DEF Reads
<1>3. /\ req'[r].kind = kind /\ req'[r].at = place /\ req'[r].seen = doc
      /\ req'[r].model = models
  BY <1>1, <1>2 DEF StartsAt, Asked
<1> QED BY <1>2, <1>3 DEF Reading, Crossing, Reads

\* The steps that read, and what they read.
LEMMA Readers ==
  ASSUME TypeOK, NEW r \in Request,
         \/ AddReads(r) \/ DeleteReads(r) \/ ContextReads(r) \/ ServersRead(r)
         \/ CallbackReads(r) \/ TitleReads(r) \/ LogoReads(r) \/ CleanupReads(r)
         \/ RestoreReads(r)
  PROVE  \/ Reading(r, {}, "add", "done")
         \/ \E k \in {"add", "delete", "context"}, a \in {"prepare", "write"} :
              Reading(r, {"models"}, k, a)
         \/ \E k \in {"servers", "callback"}, a \in {"prepare", "write"} :
              Reading(r, {"servers"}, k, a)
         \/ \E k \in {"title", "logo", "reset"} : Reading(r, {"branding"}, k, "write")
         \/ \E a \in {"mark", "finish"} : Reading(r, Sections, "cleanup", a)
<1>1. CASE AddReads(r)
  <2>1. PICK n \in Names, keyed \in BOOLEAN, a \in {"done", "prepare", "write"} :
          Reads(r, IF a = "done" THEN {} ELSE {"models"},
                StartsAt(r, "add", a,
                         {[by |-> r, name |-> n, keyed |-> keyed, context |-> 0]}, FALSE))
    BY <1>1 DEF AddReads
  <2>2. Reading(r, IF a = "done" THEN {} ELSE {"models"}, "add", a)
    BY <2>1, Starting
  <2> QED BY <2>2
<1>2. CASE DeleteReads(r)
  BY <1>2, Starting DEF DeleteReads
<1>3. CASE ContextReads(r)
  BY <1>3, Starting DEF ContextReads
<1>4. CASE ServersRead(r)
  BY <1>4, Starting DEF ServersRead
<1>5. CASE CallbackReads(r)
  BY <1>5, Starting DEF CallbackReads
<1>6. CASE TitleReads(r)
  BY <1>6, Starting DEF TitleReads
<1>7. CASE LogoReads(r)
  BY <1>7, Starting DEF LogoReads
<1>8. CASE CleanupReads(r)
  BY <1>8, Starting DEF CleanupReads
<1>9. CASE RestoreReads(r)
  <2>1. req \in [Request -> Asked]
    BY DEF TypeOK, Asked
  <2>2. /\ req'[r] = [req[r] EXCEPT !.at = "finish", !.seen = doc]
        /\ \A q \in Request \ {r} : req'[q] = req[q]
    BY <1>9, <2>1 DEF RestoreReads, Reads
  <2>3. req'[r].kind = "cleanup" /\ req'[r].at = "finish" /\ req'[r].seen = doc
    BY <1>9, <2>1, <2>2 DEF RestoreReads, Step, Asked
  <2> QED BY <1>9, <2>2, <2>3 DEF RestoreReads, Reads, Reading, Crossing
<1> QED BY <1>1, <1>2, <1>3, <1>4, <1>5, <1>6, <1>7, <1>8, <1>9

\* No step gives a section that has not crossed two holders, or its holder stale data.
LEMMA TurnStep ==
  ASSUME TypeOK, InTurn, UpToDate, [Next]_vars
  PROVE  InTurn' /\ UpToDate'
<1> DEFINE Result == InTurn' /\ UpToDate'
           Idle == \A q \in Request : req'[q].at = "idle" => req'[q].kind = "none"
<1>0. req \in [Request -> Asked]
  BY DEF TypeOK, Asked
\* A step that reads and writes no section.
<1>1. ASSUME UNCHANGED <<doc, want, crossed>>, Idle,
             \A q \in Request : Held(q)' \subseteq Held(q),
             \A q \in Request : Held(q)' # {} => req'[q].seen = req[q].seen
      PROVE  Result
  <2>1. \A s \in Sections \ crossed : \A p, q \in Request :
          s \in Held(p)' /\ s \in Held(q)' => p = q
    BY <1>1 DEF InTurn
  <2>2. \A s \in Sections \ crossed : \A q \in Request :
          s \in Held(q)' => Same(req'[q].seen, doc, s)
    BY <1>1 DEF InTurn
  <2> QED BY <1>1, <2>1, <2>2 DEF InTurn, UpToDate
\* A request reads sections: afterwards they have crossed, or no other has them.
<1>2. ASSUME NEW r \in Request, NEW sections \in SUBSET Sections,
             UNCHANGED <<doc, want>>, Idle,
             crossed' = crossed \cup {s \in sections : \E q \in Request \ {r} : s \in Held(q)},
             \A q \in Request \ {r} : Held(q)' = Held(q) /\ req'[q] = req[q],
             Held(r)' \subseteq sections, Held(r)' # {} => req'[r].seen = doc
      PROVE  Result
  <2>1. \A s \in Sections : Same(doc, doc, s)
    BY DEF Same
  <2>2. ASSUME NEW s \in Sections \ crossed', NEW p \in Request, NEW q \in Request,
               s \in Held(p)', s \in Held(q)'
        PROVE  p = q
    BY <1>2, <2>2 DEF InTurn
  <2>3. ASSUME NEW s \in Sections \ crossed', NEW q \in Request, s \in Held(q)'
        PROVE  Same(req'[q].seen, doc, s)
    BY <1>2, <2>1, <2>3 DEF InTurn
  <2>4. UpToDate'
    BY <1>2 DEF UpToDate
  <2> QED BY <1>2, <2>2, <2>3, <2>4 DEF InTurn
\* A request writes what it holds, and holds nothing any more.
<1>3. ASSUME NEW r \in Request, crossed' = crossed, Idle,
             \A q \in Request \ {r} : Held(q)' = Held(q) /\ req'[q] = req[q],
             Held(r)' = {},
             \A s \in Sections \ crossed : Same(doc', want', s),
             \A s \in (Sections \ crossed) \ Held(r) : Same(doc', doc, s)
      PROVE  Result
  <2>1. ASSUME NEW s \in Sections \ crossed', NEW p \in Request, NEW q \in Request,
               s \in Held(p)', s \in Held(q)'
        PROVE  p = q
    BY <1>3, <2>1 DEF InTurn
  <2>2. ASSUME NEW s \in Sections \ crossed', NEW q \in Request, s \in Held(q)'
        PROVE  Same(req'[q].seen, doc', s)
    <3>1. q # r /\ s \in Held(q) /\ Same(req[q].seen, doc, s) /\ req'[q] = req[q]
      BY <1>3, <2>2 DEF InTurn
    <3>2. s \notin Held(r)
      BY <1>3, <2>2, <3>1 DEF InTurn
    <3>3. Same(doc', doc, s)
      BY <1>3, <2>2, <3>2
    <3> QED BY <3>1, <3>3 DEF Same
  <2> QED BY <1>3, <2>1, <2>2 DEF InTurn, UpToDate
<1>4. CASE UNCHANGED vars
  <2>1. \A q \in Request : Held(q)' = Held(q)
    BY <1>4 DEF vars, Held
  <2> QED BY <1>1, <1>4, <2>1 DEF vars, InTurn
<1>5. CASE Crash
  <2>1. \A q \in Request : Held(q)' \subseteq Held(q)
    BY <1>0, <1>5 DEF Crash, Held
  <2>2. \A q \in Request : Held(q)' # {} => req'[q].seen = req[q].seen
    BY <1>0, <1>5 DEF Crash, Held
  <2>3. Idle
    BY <1>0, <1>5 DEF Crash, Running, InTurn
  <2> QED BY <1>1, <1>5, <2>1, <2>2, <2>3 DEF Crash
<1>6. ASSUME NEW r \in Request, Fails(r) PROVE Result
  <2>1. \A q \in Request : Held(q)' \subseteq Held(q)
    BY <1>0, <1>6 DEF Fails, Held
  <2>2. \A q \in Request : req'[q].seen = req[q].seen
    BY <1>0, <1>6 DEF Fails, Asked
  <2>3. Idle
    BY <1>0, <1>6 DEF Fails, InTurn
  <2> QED BY <1>1, <1>6, <2>1, <2>2, <2>3 DEF Fails
<1>7. ASSUME NEW r \in Request,
             \/ SavesKey(r) \/ DropsKey(r) \/ ServersTried(r) \/ CallbackDrops(r)
             \/ LogoClears(r) \/ Lists(r) \/ ReadsRefs(r) \/ Unlinks(r) \/ SweepFails(r)
             \/ CallbackSaves(r) \/ LogoSaves(r)
      PROVE  Result
  <2>0. \A q \in Request \ {r} : req'[q] = req[q]
    BY <1>0, <1>7
       DEF SavesKey, DropsKey, ServersTried, CallbackDrops, LogoClears, Lists, ReadsRefs,
           Unlinks, SweepFails, CallbackSaves, LogoSaves
  <2>1. \/ /\ req'[r].kind = req[r].kind /\ req'[r].seen = req[r].seen
           /\ req[r].at = "prepare" /\ req'[r].at \in {"write", "done"}
        \/ req'[r].at \in {"done", "refs", "unlink", "restore", "read"}
    <3>1. CASE SavesKey(r) \/ DropsKey(r) \/ ServersTried(r) \/ CallbackDrops(r)
      BY <1>0, <3>1 DEF SavesKey, DropsKey, ServersTried, CallbackDrops, Step, Asked
    <3>2. CASE LogoClears(r) \/ Lists(r) \/ ReadsRefs(r) \/ Unlinks(r) \/ SweepFails(r)
      BY <1>0, <3>2 DEF LogoClears, Lists, ReadsRefs, Unlinks, SweepFails, Asked
    <3>3. CASE CallbackSaves(r) \/ LogoSaves(r)
      BY <1>0, <3>3 DEF CallbackSaves, LogoSaves, StartsAt, Asked
    <3> QED BY <1>7, <3>1, <3>2, <3>3
  <2>2. /\ Held(r)' \subseteq Held(r)
        /\ Held(r)' # {} => req'[r].seen = req[r].seen
        /\ req'[r].at # "idle"
    BY <2>1 DEF Held
  <2>3. /\ \A q \in Request : Held(q)' \subseteq Held(q)
        /\ \A q \in Request : Held(q)' # {} => req'[q].seen = req[q].seen
        /\ Idle
    <3>1. \A q \in Request \ {r} : Held(q)' = Held(q)
      BY <2>0 DEF Held
    <3> QED BY <2>0, <2>2, <3>1 DEF InTurn
  <2>4. UNCHANGED <<doc, want, crossed>>
    BY <1>7
       DEF SavesKey, DropsKey, ServersTried, CallbackDrops, LogoClears, Lists, ReadsRefs,
           Unlinks, SweepFails, CallbackSaves, LogoSaves
  <2> HIDE DEF Result, Idle
  <2> QED BY <1>1, <2>3, <2>4
<1>8. ASSUME NEW r \in Request,
             \/ AddReads(r) \/ DeleteReads(r) \/ ContextReads(r) \/ ServersRead(r)
             \/ CallbackReads(r) \/ TitleReads(r) \/ LogoReads(r) \/ CleanupReads(r)
             \/ RestoreReads(r)
      PROVE  Result
  <2>1. /\ req'[r].seen = doc /\ req'[r].at # "idle"
        /\ \A q \in Request \ {r} : req'[q] = req[q]
    BY <1>8, Readers DEF Reading
  <2>2. UNCHANGED <<doc, want>>
    BY <1>8 DEF AddReads, DeleteReads, ContextReads, ServersRead, CallbackReads, TitleReads,
                LogoReads, CleanupReads, RestoreReads
  <2>3. \E sections \in SUBSET Sections :
          Held(r)' \subseteq sections /\ Crossing(r, sections)
    BY <1>8, Readers DEF Reading, Held, SectionOf, Sections
  <2>4. \A q \in Request \ {r} : Held(q)' = Held(q)
    BY <2>1 DEF Held
  <2>5. Idle
    BY <2>1 DEF InTurn
  <2> HIDE DEF Result, Idle
  <2> QED BY <1>2, <2>1, <2>2, <2>3, <2>4, <2>5 DEF Crossing
<1>9. ASSUME NEW r \in Request,
             \/ AddWrites(r) \/ DeleteWrites(r) \/ ContextWrites(r) \/ ServersWrite(r)
             \/ CallbackWrites(r) \/ TitleWrites(r) \/ LogoWrites(r)
             \/ WriteDocument(r, TRUE, "mark", "list")
             \/ WriteDocument(r, FALSE, "finish", "done")
      PROVE  Result
  <2>1. \A q \in Request \ {r} : req'[q] = req[q]
    BY <1>0, <1>9
       DEF AddWrites, DeleteWrites, ContextWrites, ServersWrite, CallbackWrites, TitleWrites,
           LogoWrites, WriteDocument, WriteSection
  <2>2. \A q \in Request \ {r} : Held(q)' = Held(q)
    BY <2>1 DEF Held
  <2>3. req'[r].at \in {"done", "clear", "list"} /\ req'[r].kind = req[r].kind
    BY <1>0, <1>9
       DEF AddWrites, DeleteWrites, ContextWrites, ServersWrite, CallbackWrites, TitleWrites,
           LogoWrites, WriteDocument, WriteSection, Asked
  <2>4. Held(r)' = {} /\ Idle
    BY <2>1, <2>3 DEF Held, InTurn
  <2>5. crossed' = crossed
    BY <1>9
       DEF AddWrites, DeleteWrites, ContextWrites, ServersWrite, CallbackWrites, TitleWrites,
           LogoWrites, WriteDocument, WriteSection
  <2>6. doc \in Document /\ want \in Document /\ req[r].seen \in Document
    BY <1>0 DEF TypeOK, Asked
  <2>7. \A s \in Sections \ crossed : s \in Held(r) => Same(req[r].seen, doc, s)
    BY DEF InTurn
  <2>8. \A s \in Sections \ crossed : Same(doc, want, s)
    BY DEF UpToDate
  <2> DEFINE Both == /\ \A s \in Sections \ crossed : Same(doc', want', s)
                     /\ \A s \in (Sections \ crossed) \ Held(r) : Same(doc', doc, s)
  <2>9. Both
    <3>1. CASE AddWrites(r)
      <4>1. Held(r) = {"models"}
        BY <3>1 DEF AddWrites, Step, Held, SectionOf
      <4> QED
        BY <2>6, <2>7, <2>8, <3>1, <4>1
           DEF AddWrites, WriteSection, SetSection, Same, Sections, Document
    <3>2. CASE DeleteWrites(r)
      <4>1. Held(r) = {"models"}
        BY <3>2 DEF DeleteWrites, Step, Held, SectionOf
      <4> QED
        BY <2>6, <2>7, <2>8, <3>2, <4>1
           DEF DeleteWrites, WriteSection, SetSection, Same, Sections, Document, Others
    <3>3. CASE ContextWrites(r)
      <4>1. Held(r) = {"models"}
        BY <3>3 DEF ContextWrites, Step, Held, SectionOf
      <4> QED
        BY <2>6, <2>7, <2>8, <3>3, <4>1
           DEF ContextWrites, WriteSection, SetSection, Same, Sections, Document
    <3>4. CASE ServersWrite(r)
      <4>1. Held(r) = {"servers"}
        BY <3>4 DEF ServersWrite, Step, Held, SectionOf
      <4> QED
        BY <2>6, <2>7, <2>8, <3>4, <4>1
           DEF ServersWrite, WriteSection, SetSection, Same, Sections, Document
    <3>5. CASE CallbackWrites(r)
      <4>1. Held(r) = {"servers"}
        BY <3>5 DEF CallbackWrites, Step, Held, SectionOf
      <4> QED
        BY <2>6, <2>7, <2>8, <3>5, <4>1
           DEF CallbackWrites, WriteSection, SetSection, Same, Sections, Document
    <3>6. CASE TitleWrites(r)
      <4>1. Held(r) = {"branding"}
        BY <3>6 DEF TitleWrites, Step, Held, SectionOf
      <4> QED
        BY <2>6, <2>7, <2>8, <3>6, <4>1
           DEF TitleWrites, WriteSection, SetSection, Same, Sections, Document
    <3>7. CASE LogoWrites(r)
      <4>1. Held(r) = {"branding"}
        BY <3>7 DEF LogoWrites, Held, SectionOf
      <4> QED
        BY <2>6, <2>7, <2>8, <3>7, <4>1
           DEF LogoWrites, WriteSection, SetSection, Same, Sections, Document
    <3>8. CASE \/ WriteDocument(r, TRUE, "mark", "list")
               \/ WriteDocument(r, FALSE, "finish", "done")
      <4>1. Held(r) = Sections
        BY <3>8 DEF WriteDocument, Step, Held
      <4> QED
        BY <2>6, <2>7, <2>8, <3>8, <4>1 DEF WriteDocument, Same, Document
    <3> QED BY <1>9, <3>1, <3>2, <3>3, <3>4, <3>5, <3>6, <3>7, <3>8
  <2> HIDE DEF Result, Idle
  <2> QED BY <1>3, <2>1, <2>2, <2>4, <2>5, <2>9
<1> HIDE DEF Result
<1>10. ASSUME NEW r \in Request, Begin(r) \/ Advance(r) PROVE Result
  BY <1>7, <1>8, <1>9, <1>10 DEF Begin, Advance
<1> QED BY <1>4, <1>5, <1>6, <1>10 DEF Next, Result

-----------------------------------------------------------------------------
\* A request that has begun keeps its kind and its model, and goes only forward.
Forward(q) ==
  /\ req'[q].kind = req[q].kind
  /\ req'[q].kind \in {"add", "delete"} => req'[q].model = req[q].model
  /\ req'[q].at \in Early => req[q].at \in Early
  /\ req'[q].at # "idle"

\* What a request that has begun becomes when it moves.
LEMMA Moving ==
  ASSUME TypeOK, NEW r \in Request, Advance(r), req[r].at # "idle"
  PROVE  /\ req[r].at \notin {"done", "failed"}
         /\ Forward(r)
         /\ \A q \in Request \ {r} : req'[q] = req[q]
<1> DEFINE Goal == Forward(r) /\ \A q \in Request \ {r} : req'[q] = req[q]
<1>0. req \in [Request -> Asked]
  BY DEF TypeOK, Asked
<1>1. req[r].at \notin {"done", "failed"}
  BY DEF Advance, SavesKey, AddWrites, DropsKey, DeleteWrites, ContextWrites, ServersTried,
         ServersWrite, CallbackReads, CallbackDrops, CallbackWrites, TitleWrites, LogoReads,
         LogoWrites, LogoClears, WriteDocument, Lists, ReadsRefs, Unlinks, SweepFails,
         RestoreReads, Step
<1>10. SUFFICES Goal
  BY <1>1
<1>2. ASSUME NEW a, Puts(r, Moved(r, a)), a # "idle", a \in Early => req[r].at \in Early
      PROVE  Goal
  BY <1>0, <1>2 DEF Puts, Moved, Asked, Forward
<1>3. CASE SavesKey(r) \/ DropsKey(r) \/ ServersTried(r) \/ CallbackDrops(r)
  <2>1. req[r].at \in Early
    BY <1>3 DEF SavesKey, DropsKey, ServersTried, CallbackDrops, Step, Early
  <2>2. \E a \in {"write", "done"} : Puts(r, Moved(r, a))
    BY <1>0, <1>3 DEF SavesKey, DropsKey, ServersTried, CallbackDrops, Puts, Moved
  <2> HIDE DEF Goal
  <2> QED BY <1>2, <2>1, <2>2
<1>4. CASE \/ LogoClears(r) \/ Unlinks(r) \/ SweepFails(r)
           \/ WriteDocument(r, TRUE, "mark", "list")
           \/ WriteDocument(r, FALSE, "finish", "done")
  <2>1. \E a \in {"done", "restore", "list"} : Puts(r, Moved(r, a))
    BY <1>0, <1>4 DEF LogoClears, Unlinks, SweepFails, WriteDocument, Puts, Moved
  <2> HIDE DEF Goal
  <2> QED BY <1>2, <2>1 DEF Early
<1>5. CASE \/ AddWrites(r) \/ DeleteWrites(r) \/ ContextWrites(r) \/ ServersWrite(r)
           \/ CallbackWrites(r) \/ TitleWrites(r) \/ LogoWrites(r)
  <2>1. \E a \in {"done", "clear"} : Puts(r, Moved(r, a))
    BY <1>0, <1>5
       DEF AddWrites, DeleteWrites, ContextWrites, ServersWrite, CallbackWrites, TitleWrites,
           LogoWrites, WriteSection, Puts, Moved
  <2> HIDE DEF Goal
  <2> QED BY <1>2, <2>1 DEF Early
<1>6. CASE CallbackReads(r)
  <2>1. req[r].kind = "callback" /\ req[r].at \in Early
    BY <1>6 DEF CallbackReads, Step, Early
  <2>2. \E a \in {"write", "prepare"} : Reading(r, {"servers"}, "callback", a)
    BY <1>6, Starting DEF CallbackReads
  <2> QED BY <2>1, <2>2 DEF Reading, Forward
<1>7. CASE LogoReads(r)
  <2>1. req[r].kind = "logo" /\ req[r].at \in Early
    BY <1>7 DEF LogoReads, Step, Early
  <2>2. Reading(r, {"branding"}, "logo", "write")
    BY <1>7, Starting DEF LogoReads
  <2> QED BY <2>1, <2>2 DEF Reading, Forward
<1>8. CASE Lists(r) \/ ReadsRefs(r)
  <2>1. \E a \in {"refs", "unlink"} : \E fs : Puts(r, Listed(r, a, fs))
    <3>1. Lists(r) => \E fs : Puts(r, Listed(r, "refs", fs))
      BY <1>0 DEF Lists, Puts, Listed
    <3>2. ReadsRefs(r) => \E fs : Puts(r, Listed(r, "unlink", fs))
      BY <1>0 DEF ReadsRefs, Puts, Listed
    <3> QED BY <1>8, <3>1, <3>2
  <2> QED BY <1>0, <2>1 DEF Puts, Listed, Asked, Forward, Early
<1>9. CASE RestoreReads(r)
  <2>1. Puts(r, Restored(r))
    BY <1>9 DEF RestoreReads, Reads, Puts, Restored
  <2> QED BY <1>0, <2>1 DEF Puts, Restored, Asked, Forward, Early
<1> HIDE DEF Goal
<1> QED BY <1>3, <1>4, <1>5, <1>6, <1>7, <1>8, <1>9 DEF Advance

\* The same of any step, for any request that has begun.
LEMMA OnlyForward ==
  ASSUME RequestsAssumption, TypeOK, InTurn, [Next]_vars, NEW q \in Request, req[q].at # "idle"
  PROVE  /\ Forward(q)
         /\ req[q].at \in {"done", "failed"} => req'[q] = req[q]
<1>0. req \in [Request -> Asked]
  BY DEF TypeOK, Asked
<1> DEFINE Goal == Forward(q) /\ (req[q].at \in {"done", "failed"} => req'[q] = req[q])
<1>1. ASSUME req'[q] = req[q] PROVE Goal
  BY <1>1 DEF Forward
<1>2. CASE UNCHANGED vars
  BY <1>1, <1>2 DEF vars
<1>3. CASE Crash
  BY <1>0, <1>3 DEF Crash, Running, Forward, Asked, Early
<1>4. ASSUME NEW r \in Request, Fails(r) PROVE Goal
  BY <1>0, <1>4 DEF Fails, Running, Forward, Asked, Early
<1>5. ASSUME NEW r \in Request, Begin(r) PROVE Goal
  <2>1. req[r].at = "idle"
    BY <1>5
       DEF Begin, AddReads, DeleteReads, ContextReads, ServersRead, CallbackSaves, TitleReads,
           LogoSaves, CleanupReads
  <2>2. q # r
    BY <2>1
  <2>3. req'[q] = req[q]
    BY <1>0, <1>5, <2>2, RequestType
  <2> QED BY <1>1, <2>3
<1>6. ASSUME NEW r \in Request, Advance(r) PROVE Goal
  <2>1. CASE q = r
    BY <1>6, <2>1, Moving
  <2>2. CASE q # r
    <3>1. req'[q] = req[q]
      BY <1>0, <1>6, <2>2, RequestType
    <3> QED BY <1>1, <3>1
  <2> QED BY <2>1, <2>2
<1> QED BY <1>2, <1>3, <1>4, <1>5, <1>6 DEF Next

-----------------------------------------------------------------------------
\* Who may be named stays so.
LEMMA Growing ==
  ASSUME RequestsAssumption, TypeOK, InTurn, [Next]_vars
  PROVE  Uploaded \subseteq Uploaded' /\ Granted \subseteq Granted'
<1>1. ASSUME NEW m \in Request, req[m].kind \in {"logo", "callback"}, req[m].at \notin Early
      PROVE  req'[m].kind = req[m].kind /\ req'[m].at \notin Early
  <2>1. req[m].at # "idle"
    BY <1>1 DEF InTurn
  <2> QED BY <1>1, <2>1, OnlyForward DEF Forward
<1> QED BY <1>1 DEF Uploaded, Granted

\* The document changes only when it is written.  What is stored beside it, and who
\* changes that; a section that has crossed stays so.
LEMMA Stores ==
  ASSUME [Next]_vars
  PROVE  /\ doc' = doc \/ \E r \in Request : Writes(r)
         /\ crossed \subseteq crossed'
         /\ modelKeys' = modelKeys \/ \E r \in Request : SavesKey(r) \/ DropsKey(r)
         /\ serverKeys' = serverKeys \/ \E r \in Request : CallbackSaves(r) \/ CallbackDrops(r)
         /\ files' = files \/ \E r \in Request : LogoSaves(r) \/ LogoClears(r) \/ Unlinks(r)
<1> DEFINE Rest == crossed \subseteq crossed' /\ UNCHANGED <<modelKeys, serverKeys, files>>
           Nothing == Rest /\ doc' = doc
<1>1. ASSUME UNCHANGED vars PROVE Nothing
  BY <1>1 DEF vars
<1>2. ASSUME Crash \/ \E r \in Request : Fails(r) PROVE Nothing
  BY <1>2 DEF Crash, Fails
<1>3. ASSUME NEW r \in Request, AddReads(r) \/ DeleteReads(r) \/ ContextReads(r) \/ ServersRead(r)
      PROVE  Nothing
  BY <1>3 DEF AddReads, DeleteReads, ContextReads, ServersRead, Reads
<1>4. ASSUME NEW r \in Request,
             \/ TitleReads(r) \/ CleanupReads(r) \/ CallbackReads(r) \/ LogoReads(r)
             \/ RestoreReads(r)
      PROVE  Nothing
  BY <1>4 DEF TitleReads, CleanupReads, CallbackReads, LogoReads, RestoreReads, Reads
<1>5. ASSUME NEW r \in Request, Writes(r) PROVE Rest
  BY <1>5 DEF Writes, AddWrites, DeleteWrites, ContextWrites, ServersWrite, CallbackWrites,
              TitleWrites, LogoWrites, WriteDocument, WriteSection
<1>6. ASSUME NEW r \in Request, ServersTried(r) \/ Lists(r) \/ ReadsRefs(r) \/ SweepFails(r)
      PROVE  Nothing
  BY <1>6 DEF ServersTried, Lists, ReadsRefs, SweepFails
<1>7. ASSUME NEW r \in Request, SavesKey(r) \/ DropsKey(r)
      PROVE  UNCHANGED <<doc, crossed, serverKeys, files>>
  BY <1>7 DEF SavesKey, DropsKey
<1>8. ASSUME NEW r \in Request, CallbackSaves(r) \/ CallbackDrops(r)
      PROVE  UNCHANGED <<doc, crossed, modelKeys, files>>
  BY <1>8 DEF CallbackSaves, CallbackDrops
<1>9. ASSUME NEW r \in Request, LogoSaves(r) \/ LogoClears(r) \/ Unlinks(r)
      PROVE  UNCHANGED <<doc, crossed, modelKeys, serverKeys>>
  BY <1>9 DEF LogoSaves, LogoClears, Unlinks
<1>10. ASSUME NEW r \in Request, Begin(r) \/ Advance(r)
       PROVE  \/ AddReads(r) \/ DeleteReads(r) \/ ContextReads(r) \/ ServersRead(r)
              \/ TitleReads(r) \/ CleanupReads(r) \/ CallbackReads(r) \/ LogoReads(r)
              \/ RestoreReads(r) \/ Writes(r)
              \/ ServersTried(r) \/ Lists(r) \/ ReadsRefs(r) \/ SweepFails(r)
              \/ SavesKey(r) \/ DropsKey(r) \/ CallbackSaves(r) \/ CallbackDrops(r)
              \/ LogoSaves(r) \/ LogoClears(r) \/ Unlinks(r)
  BY <1>10 DEF Begin, Advance, Writes
<1>11. CASE Nothing
  BY <1>11
<1>12. CASE \E r \in Request : Begin(r) \/ Advance(r)
  <2>1. PICK r \in Request : Begin(r) \/ Advance(r)
    BY <1>12
  <2> HIDE DEF Nothing, Others
  <2>6. CASE Writes(r)
    BY <2>6, <1>5 DEF Others
  <2>2. CASE Nothing
    BY <2>2, <1>11
  <2>3. CASE SavesKey(r) \/ DropsKey(r)
    BY <2>3, <1>7
  <2>4. CASE CallbackSaves(r) \/ CallbackDrops(r)
    BY <2>4, <1>8
  <2>5. CASE LogoSaves(r) \/ LogoClears(r) \/ Unlinks(r)
    BY <2>5, <1>9
  <2> QED BY <2>1, <2>2, <2>3, <2>4, <2>5, <2>6, <1>3, <1>4, <1>6, <1>10
<1> HIDE DEF Nothing, Others
<1> QED BY <1>1, <1>2, <1>11, <1>12 DEF Next
\* A request has in hand what it had, or what is stored.
LEMMA SeenOrRead ==
  ASSUME RequestsAssumption, TypeOK, [Next]_vars, NEW q \in Request
  PROVE  req'[q].seen \in {doc, req[q].seen}
<1>0. req \in [Request -> Asked]
  BY DEF TypeOK, Asked
<1>1. CASE UNCHANGED vars
  BY <1>1 DEF vars
<1>2. CASE Crash
  BY <1>0, <1>2 DEF Crash, Asked
<1>3. ASSUME NEW r \in Request, Fails(r) PROVE req'[q].seen = req[q].seen
  BY <1>0, <1>3 DEF Fails, Asked
<1>4. ASSUME NEW r \in Request, Begin(r) \/ Advance(r) PROVE req'[q].seen \in {doc, req[q].seen}
  <2>1. CASE q # r
    BY <1>0, <1>4, <2>1, RequestType
  <2>2. CASE /\ q = r
             /\ \/ AddReads(r) \/ DeleteReads(r) \/ ContextReads(r) \/ ServersRead(r)
                \/ CallbackReads(r) \/ TitleReads(r) \/ LogoReads(r) \/ CleanupReads(r)
                \/ RestoreReads(r)
    BY <2>2, Readers DEF Reading
  <2>3. CASE q = r /\ (CallbackSaves(r) \/ LogoSaves(r))
    <3>1. PICK k \in {"callback", "logo"} : req'[r] = StartsAt(r, k, "read", {}, TRUE)
      BY <1>0, <2>3 DEF CallbackSaves, LogoSaves
    <3>2. req'[r].seen = doc
      BY <1>0, <3>1 DEF StartsAt, Asked
    <3> QED BY <2>3, <3>2
  <2>4. CASE /\ q = r
             /\ \/ SavesKey(r) \/ DropsKey(r) \/ ServersTried(r) \/ CallbackDrops(r)
                \/ LogoClears(r) \/ Unlinks(r) \/ SweepFails(r) \/ Writes(r)
    <3>1. \E a : Puts(r, Moved(r, a))
      BY <1>0, <2>4
         DEF SavesKey, DropsKey, ServersTried, CallbackDrops, LogoClears, Unlinks, SweepFails,
             Writes, AddWrites, DeleteWrites, ContextWrites, ServersWrite, CallbackWrites,
             TitleWrites, LogoWrites, WriteSection, WriteDocument, Puts, Moved
    <3> QED BY <1>0, <2>4, <3>1 DEF Puts, Moved, Asked
  <2>5. CASE q = r /\ (Lists(r) \/ ReadsRefs(r))
    <3> DEFINE young == {x \in Request : req[x].at \notin {"done", "failed"}}
    <3>1. ASSUME Lists(r) PROVE Puts(r, Listed(r, "refs", files \ young))
      BY <3>1 DEF Lists, Puts, Listed
    <3>2. ASSUME ReadsRefs(r) PROVE Puts(r, Listed(r, "unlink", req[r].listed \ doc.logo))
      BY <1>0, <3>2 DEF ReadsRefs, Puts, Listed, Asked
    <3> HIDE DEF young
    <3>3. \E a, fs : Puts(r, Listed(r, a, fs))
      BY <2>5, <3>1, <3>2
    <3> QED BY <1>0, <2>5, <3>3 DEF Puts, Listed, Asked
  <2> QED BY <1>4, <2>1, <2>2, <2>3, <2>4, <2>5 DEF Begin, Advance, Writes
<1> QED BY <1>1, <1>2, <1>3, <1>4 DEF Next

\* A document never names a logo or a credential that was not written yet.
LEMMA KnownStep ==
  ASSUME RequestsAssumption, TypeOK, InTurn, AllKnown, [Next]_vars
  PROVE  AllKnown'
<1>0. /\ req \in [Request -> Asked] /\ doc \in Document
      /\ \A q \in Request : req[q].seen \in Document
  BY DEF TypeOK, Asked
<1>1. Uploaded \subseteq Uploaded' /\ Granted \subseteq Granted'
  BY Growing
<1>2. Known(doc)' 
  <2>1. ASSUME UNCHANGED doc PROVE Known(doc)'
    BY <1>1, <2>1 DEF AllKnown, Known
  <2>3. ASSUME NEW r \in Request,
               \/ WriteDocument(r, TRUE, "mark", "list")
               \/ WriteDocument(r, FALSE, "finish", "done")
        PROVE  Known(doc)'
    <3>1. doc'.logo = req[r].seen.logo /\ doc'.server = req[r].seen.server
      BY <1>0, <2>3 DEF WriteDocument, Document
    <3> QED BY <1>1, <3>1 DEF AllKnown, Known
  <2>4. ASSUME NEW r \in Request, AddWrites(r) \/ DeleteWrites(r) \/ ContextWrites(r)
        PROVE  Known(doc)'
    <3>1. doc'.logo = doc.logo /\ doc'.server = doc.server
      BY <1>0, <2>4
         DEF AddWrites, DeleteWrites, ContextWrites, WriteSection, SetSection, Document
    <3> QED BY <1>1, <3>1 DEF AllKnown, Known
  <2>5. ASSUME NEW r \in Request, ServersWrite(r) PROVE Known(doc)'
    <3>1. doc'.logo = doc.logo /\ doc'.server \in {{}, req[r].seen.server}
      BY <1>0, <2>5 DEF ServersWrite, WriteSection, SetSection, Document
    <3> QED BY <1>1, <3>1 DEF AllKnown, Known
  <2>6. ASSUME NEW r \in Request, CallbackWrites(r) PROVE Known(doc)'
    <3>1. doc'.logo = doc.logo /\ doc'.server = {r}
      BY <1>0, <2>6 DEF CallbackWrites, WriteSection, SetSection, Document
    <3>2. req'[r].kind = "callback" /\ req'[r].at = "done"
      BY <1>0, <2>6 DEF CallbackWrites, WriteSection, Step, Asked
    <3> QED BY <1>1, <3>1, <3>2 DEF AllKnown, Known, Granted, Early
  <2>7. ASSUME NEW r \in Request, TitleWrites(r) PROVE Known(doc)'
    <3>1. doc'.logo = req[r].seen.logo /\ doc'.server = doc.server
      BY <1>0, <2>7 DEF TitleWrites, WriteSection, SetSection, Document
    <3> QED BY <1>1, <3>1 DEF AllKnown, Known
  <2>8. ASSUME NEW r \in Request, LogoWrites(r) PROVE Known(doc)'
    <3>1. doc'.logo = IF req[r].kind = "logo" THEN {r} ELSE {}
      BY <1>0, <2>8 DEF LogoWrites, WriteSection, SetSection, Document
    <3>2. doc'.server = doc.server
      BY <1>0, <2>8 DEF LogoWrites, WriteSection, SetSection, Document
    <3>3. req'[r].kind = req[r].kind /\ req'[r].at = "clear"
      BY <1>0, <2>8 DEF LogoWrites, WriteSection, Asked
    <3> QED BY <1>1, <3>1, <3>2, <3>3 DEF AllKnown, Known, Uploaded, Early
  <2> QED BY <2>1, <2>3, <2>4, <2>5, <2>6, <2>7, <2>8, Stores DEF Writes
<1>3. \A q \in Request : Known(req[q].seen)'
  <2>1. ASSUME NEW q \in Request, req'[q].seen \in {doc, req[q].seen} PROVE Known(req[q].seen)'
    BY <1>1, <2>1 DEF AllKnown, Known
  <2> QED BY <2>1, SeenOrRead
<1> QED BY <1>2, <1>3 DEF AllKnown

\* A model with a key is written after its key was saved.
LEMMA KeyFirst ==
  ASSUME RequestsAssumption, TypeOK, [Next]_vars, NEW q \in Request, req[q].kind = "add",
         req[q].at \notin {"idle", "write"}, req'[q].at = "write"
  PROVE  SavesKey(q)
<1>0. req \in [Request -> Asked]
  BY DEF TypeOK, Asked
<1>1. Advance(q)
  <2>1. CASE UNCHANGED vars
    BY <2>1 DEF vars
  <2>2. CASE Crash
    BY <1>0, <2>2 DEF Crash, Asked
  <2>3. ASSUME NEW r \in Request, Fails(r) PROVE FALSE
    BY <1>0, <2>3 DEF Fails, Asked
  <2>4. ASSUME NEW r \in Request, Begin(r) \/ Advance(r) PROVE r = q
    BY <1>0, <2>4, RequestType
  <2>5. ~ Begin(q)
    BY DEF Begin, AddReads, DeleteReads, ContextReads, ServersRead, CallbackSaves, TitleReads,
           LogoSaves, CleanupReads
  <2> QED BY <2>1, <2>2, <2>3, <2>4, <2>5 DEF Next
<1>2. ASSUME NEW a, Puts(q, Moved(q, a)), a # "write" PROVE FALSE
  BY <1>0, <1>2 DEF Puts, Moved, Asked
<1>3. ~ LogoClears(q)
  <2>1. LogoClears(q) => Puts(q, Moved(q, "done"))
    BY <1>0 DEF LogoClears, Puts, Moved
  <2> QED BY <1>2, <2>1
<1> QED
  BY <1>1, <1>3
     DEF Advance, AddWrites, DropsKey, DeleteWrites, ContextWrites, ServersTried, ServersWrite,
         CallbackReads, CallbackDrops, CallbackWrites, TitleWrites, LogoReads, LogoWrites,
         WriteDocument, Lists, ReadsRefs, Unlinks, SweepFails, RestoreReads, Step

\* A model keeps its key, unless somebody asked for the model to be deleted.
LEMMA KeyKept ==
  ASSUME RequestsAssumption, TypeOK, InTurn, [Next]_vars, NEW m, HasKey(m)
  PROVE  HasKey(m)'
<1>1. ASSUME NEW r \in Request, req[r].kind = "delete", m.by \in {e.by : e \in req[r].model}
      PROVE  HasKey(m)'
  <2>1. req[r].at # "idle"
    BY <1>1 DEF InTurn
  <2>2. req'[r].kind = "delete" /\ req'[r].model = req[r].model
    BY <1>1, <2>1, OnlyForward DEF Forward
  <2> QED BY <1>1, <2>2 DEF HasKey
<1>2. ASSUME m.by \in modelKeys, m.by \notin modelKeys' PROVE HasKey(m)'
  <2>1. PICK r \in Request : DropsKey(r)
    <3>1. \A r \in Request : SavesKey(r) => modelKeys \subseteq modelKeys'
      BY DEF SavesKey
    <3> QED BY <1>2, <3>1, Stores
  <2>2. req[r].kind = "delete" /\ m.by \in {e.by : e \in req[r].model}
    BY <1>2, <2>1 DEF DropsKey, Step
  <2> QED BY <1>1, <2>2
<1> QED BY <1>1, <1>2 DEF HasKey

-----------------------------------------------------------------------------
\* What a request is about to name stays until it does.
LEMMA OwnsStep ==
  ASSUME RequestsAssumption, Kept, [Next]_vars, NEW q \in Request
  PROVE  Owns(q)'
<1>0. /\ req \in [Request -> Asked] /\ TypeOK /\ InTurn /\ AllKnown
      /\ \A r \in Request : Owns(r) /\ Spares(r)
  BY DEF TypeOK, Asked, Kept
\* A file or a credential q is about to name is taken away by nobody.
<1>1. ASSUME req[q].kind = "logo", req[q].at \in Early, q \in files PROVE q \in files'
  <2>1. ASSUME NEW r \in Request, LogoClears(r) PROVE q \in files'
    <3>1. q \notin req[r].seen.logo
      <4>1. q # 0 /\ q \notin Uploaded
        BY <1>1 DEF Uploaded, Request, RequestsAssumption
      <4> QED BY <1>0, <4>1 DEF AllKnown, Known
    <3> QED BY <1>1, <2>1, <3>1 DEF LogoClears
  <2>2. ASSUME NEW r \in Request, Unlinks(r) PROVE q \in files'
    <3>1. q \notin req[r].listed
      <4>1. req[r].at = "unlink" /\ q # 0
        BY <2>2 DEF Unlinks, Step, Request, RequestsAssumption
      <4> QED BY <1>0, <1>1, <4>1 DEF Spares, Early
    <3> QED BY <1>1, <2>2, <3>1 DEF Unlinks
  <2>3. \A r \in Request : LogoSaves(r) => files \subseteq files'
    BY DEF LogoSaves
  <2> QED BY <1>1, <2>1, <2>2, <2>3, Stores
<1>2. ASSUME req[q].kind = "callback", req[q].at \in Early, q \in serverKeys
      PROVE  q \in serverKeys'
  <2>1. ASSUME NEW r \in Request, CallbackDrops(r) PROVE q \in serverKeys'
    <3>1. q \notin req[r].seen.server
      <4>1. q # 0 /\ q \notin Granted
        BY <1>2 DEF Granted, Request, RequestsAssumption
      <4> QED BY <1>0, <4>1 DEF AllKnown, Known
    <3> QED BY <1>2, <2>1, <3>1 DEF CallbackDrops
  <2>2. \A r \in Request : CallbackSaves(r) => serverKeys \subseteq serverKeys'
    BY DEF CallbackSaves
  <2> QED BY <1>2, <2>1, <2>2, Stores
\* A request that has begun; and one that begins.
<1>3. CASE req[q].at # "idle"
  <2>1. Forward(q)
    BY <1>0, <1>3, OnlyForward
  <2>2. req'[q].kind = "logo" /\ req'[q].at \in Early => q \in files'
    BY <1>0, <1>1, <2>1 DEF Forward, Owns
  <2>3. req'[q].kind = "callback" /\ req'[q].at \in Early => q \in serverKeys'
    BY <1>0, <1>2, <2>1 DEF Forward, Owns
  <2>4. req'[q].kind = "add" => \A e \in req'[q].model : e.by = q
    BY <1>0, <2>1 DEF Forward, Owns
  <2>5. ASSUME req'[q].kind = "add", req'[q].at = "write", NEW e \in req'[q].model
        PROVE  HasKey(e)'
    <3>1. req[q].kind = "add" /\ e \in req[q].model /\ e.by = q
      BY <1>0, <2>1, <2>5 DEF Forward, Owns
    <3>2. CASE req[q].at = "write"
      BY <1>0, <3>1, <3>2, KeyKept DEF Owns
    <3>3. CASE req[q].at # "write"
      <4>1. SavesKey(q)
        BY <1>0, <1>3, <2>5, <3>1, <3>3, KeyFirst
      <4> QED BY <3>1, <4>1 DEF SavesKey, HasKey
    <3> QED BY <3>2, <3>3
  <2> QED BY <2>2, <2>3, <2>4, <2>5 DEF Owns
<1>4. CASE req[q].at = "idle"
  <2>1. CASE req'[q] = req[q]
    BY <1>0, <1>4, <2>1 DEF Owns, InTurn
  <2>2. CASE AddReads(q)
    <3>1. PICK n \in Names, keyed \in BOOLEAN :
            Reads(q, IF \E m \in doc.models : m.name = n THEN {} ELSE {"models"},
                  StartsAt(q, "add", IF \E m \in doc.models : m.name = n THEN "done"
                                     ELSE IF keyed THEN "prepare" ELSE "write",
                           {[by |-> q, name |-> n, keyed |-> keyed, context |-> 0]}, FALSE))
      BY <2>2 DEF AddReads
    <3>2. /\ req'[q].kind = "add"
          /\ req'[q].model = {[by |-> q, name |-> n, keyed |-> keyed, context |-> 0]}
          /\ req'[q].at = "write" => ~ keyed
      <4> DEFINE a == IF \E m \in doc.models : m.name = n THEN "done"
                      ELSE IF keyed THEN "prepare" ELSE "write"
                 entry == [by |-> q, name |-> n, keyed |-> keyed, context |-> 0]
                 sections == IF \E m \in doc.models : m.name = n THEN {} ELSE {"models"}
      <4>1. Reads(q, sections, StartsAt(q, "add", a, {entry}, FALSE))
        BY <3>1
      <4>2. a = "write" => ~ keyed
        OBVIOUS
      <4> HIDE DEF a, entry, sections
      <4>3. Reading(q, sections, "add", a) /\ req'[q].model = {entry}
        BY <1>0, <4>1, Starting
      <4> QED BY <4>2, <4>3 DEF Reading, entry
    <3> QED BY <3>2 DEF Owns, HasKey
  <2>3. CASE /\ ~ AddReads(q)
             /\ \/ DeleteReads(q) \/ ContextReads(q) \/ ServersRead(q)
                \/ TitleReads(q) \/ LogoReads(q) \/ CleanupReads(q)
    <3>1. req'[q].kind \in {"delete", "context", "servers", "title", "reset", "cleanup"}
      <4>1. CASE DeleteReads(q)
        <5>1. \E sections, a : Reading(q, sections, "delete", a)
          BY <1>0, <4>1, Starting DEF DeleteReads
        <5> QED BY <5>1 DEF Reading
      <4>2. CASE ContextReads(q)
        <5>1. \E sections, a : Reading(q, sections, "context", a)
          BY <1>0, <4>2, Starting DEF ContextReads
        <5> QED BY <5>1 DEF Reading
      <4>3. CASE ServersRead(q)
        <5>1. \E sections, a : Reading(q, sections, "servers", a)
          BY <1>0, <4>3, Starting DEF ServersRead
        <5> QED BY <5>1 DEF Reading
      <4>4. CASE TitleReads(q)
        <5>1. \E sections, a : Reading(q, sections, "title", a)
          BY <1>0, <4>4, Starting DEF TitleReads
        <5> QED BY <5>1 DEF Reading
      <4>5. CASE CleanupReads(q)
        <5>1. \E sections, a : Reading(q, sections, "cleanup", a)
          BY <1>0, <4>5, Starting DEF CleanupReads
        <5> QED BY <5>1 DEF Reading
      <4>6. CASE LogoReads(q)
        <5>1. Reads(q, {"branding"}, StartsAt(q, "reset", "write", {}, TRUE))
          BY <1>4, <4>6 DEF LogoReads, Step
        <5>2. Reading(q, {"branding"}, "reset", "write")
          BY <1>0, <5>1, Starting
        <5> QED BY <5>2 DEF Reading
      <4> QED BY <2>3, <4>1, <4>2, <4>3, <4>4, <4>5, <4>6
    <3> QED BY <3>1 DEF Owns
  <2>4. CASE CallbackSaves(q)
    <3>1. req'[q] = StartsAt(q, "callback", "read", {}, TRUE) /\ q \in serverKeys'
      BY <1>0, <2>4 DEF CallbackSaves
    <3>2. req'[q].kind = "callback"
      BY <1>0, <3>1 DEF StartsAt, Asked
    <3> QED BY <3>1, <3>2 DEF Owns
  <2>5. CASE LogoSaves(q)
    <3>1. req'[q] = StartsAt(q, "logo", "read", {}, TRUE) /\ q \in files'
      BY <1>0, <2>5 DEF LogoSaves
    <3>2. req'[q].kind = "logo"
      BY <1>0, <3>1 DEF StartsAt, Asked
    <3> QED BY <3>1, <3>2 DEF Owns
  <2>6. \/ req'[q] = req[q]
        \/ Begin(q) \/ LogoReads(q)
    <3>1. CASE UNCHANGED vars
      BY <3>1 DEF vars
    <3>2. CASE Crash
      BY <1>0, <1>4, <3>2 DEF Crash, Running
    <3>3. ASSUME NEW r \in Request, Fails(r) PROVE req'[q] = req[q]
      BY <1>0, <1>4, <3>3 DEF Fails, Running
    <3>4. ASSUME NEW r \in Request, r # q, Begin(r) \/ Advance(r) PROVE req'[q] = req[q]
      BY <1>0, <3>4, RequestType
    <3>5. ASSUME Advance(q) PROVE LogoReads(q)
      BY <1>4, <3>5
         DEF Advance, SavesKey, AddWrites, DropsKey, DeleteWrites, ContextWrites,
             ServersTried, ServersWrite, CallbackReads, CallbackDrops, CallbackWrites,
             TitleWrites, LogoWrites, LogoClears, WriteDocument, Lists, ReadsRefs, Unlinks,
             SweepFails, RestoreReads, Step
    <3> QED BY <3>1, <3>2, <3>3, <3>4, <3>5 DEF Next
  <2> QED BY <2>1, <2>2, <2>3, <2>4, <2>5, <2>6 DEF Begin
<1> QED BY <1>3, <1>4

-----------------------------------------------------------------------------
\* Where a request that moves does not get to by any other step.
LEMMA Elsewhere ==
  ASSUME RequestsAssumption, TypeOK, [Next]_vars, NEW q \in Request, req'[q] # req[q],
         ~ LogoWrites(q), ~ Lists(q), ~ ReadsRefs(q)
  PROVE  req'[q].at \notin {"refs", "unlink", "clear"}
<1> DEFINE Goal == req'[q].at \notin {"refs", "unlink", "clear"}
<1>0. req \in [Request -> Asked]
  BY DEF TypeOK, Asked
<1>1. CASE UNCHANGED vars
  BY <1>1 DEF vars
<1>2. CASE Crash
  BY <1>0, <1>2 DEF Crash, Asked
<1>3. ASSUME NEW r \in Request, Fails(r) PROVE Goal
  BY <1>0, <1>3 DEF Fails, Asked
<1>4. ASSUME NEW r \in Request, Begin(r) \/ Advance(r) PROVE Goal
  <2>1. r = q
    BY <1>0, <1>4, RequestType
  <2>2. CASE \/ AddReads(q) \/ DeleteReads(q) \/ ContextReads(q) \/ ServersRead(q)
             \/ CallbackReads(q) \/ TitleReads(q) \/ LogoReads(q) \/ CleanupReads(q)
             \/ RestoreReads(q)
    BY <2>2, Readers DEF Reading
  <2>3. CASE CallbackSaves(q) \/ LogoSaves(q)
    <3>1. PICK k \in {"callback", "logo"} : req'[q] = StartsAt(q, k, "read", {}, TRUE)
      BY <1>0, <2>3 DEF CallbackSaves, LogoSaves
    <3>2. req'[q].at = "read"
      BY <1>0, <3>1 DEF StartsAt, Asked
    <3> QED BY <3>2
  <2>4. CASE \/ SavesKey(q) \/ DropsKey(q) \/ ServersTried(q) \/ CallbackDrops(q)
             \/ LogoClears(q) \/ Unlinks(q) \/ SweepFails(q) \/ Writes(q)
    <3>1. \E a \in {"write", "done", "restore", "list"} : Puts(q, Moved(q, a))
      BY <1>0, <2>4
         DEF SavesKey, DropsKey, ServersTried, CallbackDrops, LogoClears, Unlinks, SweepFails,
             Writes, AddWrites, DeleteWrites, ContextWrites, ServersWrite, CallbackWrites,
             TitleWrites, WriteSection, WriteDocument, Puts, Moved
    <3> QED BY <1>0, <3>1 DEF Puts, Moved, Asked
  <2> QED BY <1>4, <2>1, <2>2, <2>3, <2>4 DEF Begin, Advance, Writes
<1> QED BY <1>1, <1>2, <1>3, <1>4 DEF Next

\* The logo changes only into the one of a request that is under way, or into none.
LEMMA LogoChanges ==
  ASSUME TypeOK, InTurn, [Next]_vars, "branding" \notin crossed
  PROVE  \/ doc'.logo \subseteq doc.logo
         \/ \E r \in Request : /\ LogoWrites(r)
                               /\ req[r].kind = "logo" /\ doc'.logo = {r}
<1>0. /\ req \in [Request -> Asked] /\ doc \in Document
      /\ \A r \in Request : req[r].seen \in Document
  BY DEF TypeOK, Asked
<1>1. ASSUME NEW r \in Request, "branding" \in Held(r) PROVE req[r].seen.logo = doc.logo
  BY <1>0, <1>1 DEF InTurn, Same, Sections
<1>2. ASSUME NEW r \in Request, TitleWrites(r) PROVE doc'.logo = doc.logo
  <2>1. doc'.logo = req[r].seen.logo
    BY <1>0, <1>2 DEF TitleWrites, WriteSection, SetSection, Document
  <2> QED BY <1>1, <1>2, <2>1 DEF TitleWrites, Step, Held, SectionOf
<1>3. ASSUME NEW r \in Request,
             \/ WriteDocument(r, TRUE, "mark", "list")
             \/ WriteDocument(r, FALSE, "finish", "done")
      PROVE  doc'.logo = doc.logo
  <2>1. doc'.logo = req[r].seen.logo
    BY <1>0, <1>3 DEF WriteDocument, Document
  <2> QED BY <1>1, <1>3, <2>1 DEF WriteDocument, Step, Held, Sections
<1>4. ASSUME NEW r \in Request, LogoWrites(r)
      PROVE  doc'.logo = IF req[r].kind = "logo" THEN {r} ELSE {}
  BY <1>0, <1>4 DEF LogoWrites, WriteSection, SetSection, Document
<1>5. ASSUME NEW r \in Request,
             \/ AddWrites(r) \/ DeleteWrites(r) \/ ContextWrites(r) \/ ServersWrite(r)
             \/ CallbackWrites(r)
      PROVE  doc'.logo = doc.logo
  BY <1>0, <1>5
     DEF AddWrites, DeleteWrites, ContextWrites, ServersWrite, CallbackWrites, WriteSection,
         SetSection, Document
<1> QED BY <1>2, <1>3, <1>4, <1>5, Stores DEF Writes

\* The logo in use is deleted by nobody.
LEMMA SparesStep ==
  ASSUME RequestsAssumption, Kept, [Next]_vars, NEW q \in Request
  PROVE  Spares(q)'
<1>0. /\ req \in [Request -> Asked] /\ TypeOK /\ InTurn /\ AllKnown /\ UpToDate
      /\ doc \in Document /\ files \subseteq Maker
      /\ \A r \in Request : Owns(r) /\ Spares(r) /\ req[r].seen \in Document
  BY DEF TypeOK, Asked, Kept
<1>1. crossed \subseteq crossed'
  BY Stores
<1>2. ASSUME "branding" \notin crossed
      PROVE  \/ doc'.logo \subseteq doc.logo
             \/ \E r \in Request : /\ LogoWrites(r)
                                   /\ req[r].kind = "logo" /\ doc'.logo = {r}
  BY <1>0, <1>2, LogoChanges
<1>3. CASE req'[q] = req[q]
  <2>1. ASSUME NEW m \in Request, req[m].at \in {"done", "failed"}
        PROVE  req'[m].at \in {"done", "failed"}
    BY <1>0, <2>1, OnlyForward
  <2>2. req'[q].at \in {"refs", "unlink"} =>
          /\ req'[q].kind = "cleanup"
          /\ req'[q].listed \subseteq {0} \cup
                                    {m \in Request : req'[m].at \in {"done", "failed"}}
    BY <1>0, <1>3, <2>1 DEF Spares
  <2>3. ASSUME req'[q].at = "unlink", "branding" \notin crossed'
        PROVE  req'[q].listed \cap doc'.logo = {}
    <3>1. req[q].listed \cap doc.logo = {}
      BY <1>0, <1>1, <1>3, <2>3 DEF Spares
    <3>2. ASSUME NEW r \in Request, LogoWrites(r) PROVE r \notin req[q].listed
      <4>1. req[r].at = "write" /\ r # 0
        BY <3>2 DEF LogoWrites, Request, RequestsAssumption
      <4> QED BY <1>0, <1>3, <2>3, <4>1 DEF Spares
    <3> QED BY <1>1, <1>2, <1>3, <2>3, <3>1, <3>2
  <2>4. ASSUME req'[q].at = "clear", "branding" \notin crossed'
        PROVE  req'[q].seen.logo \cap doc'.logo = {}
    <3>1. req[q].seen.logo \cap doc.logo = {}
      BY <1>0, <1>1, <1>3, <2>4 DEF Spares
    <3>2. ASSUME NEW r \in Request, LogoWrites(r), req[r].kind = "logo"
          PROVE  r \notin req[q].seen.logo
      <4>1. r # 0 /\ r \notin Uploaded
        BY <3>2 DEF LogoWrites, Request, RequestsAssumption, Uploaded, Early
      <4> QED BY <1>0, <4>1 DEF AllKnown, Known
    <3> QED BY <1>1, <1>2, <1>3, <2>4, <3>1, <3>2
  <2> QED BY <2>2, <2>3, <2>4 DEF Spares
<1>4. CASE req'[q] # req[q]
  <2>1. CASE LogoWrites(q)
    <3>1. /\ req'[q].at = "clear" /\ req'[q].seen = req[q].seen
      BY <1>0, <2>1 DEF LogoWrites, WriteSection, Asked
    <3>2. doc'.logo = IF req[q].kind = "logo" THEN {q} ELSE {}
      BY <1>0, <2>1 DEF LogoWrites, WriteSection, SetSection, Document
    <3>3. req[q].kind = "logo" => q \notin req[q].seen.logo
      <4>1. req[q].kind = "logo" => q # 0 /\ q \notin Uploaded
        BY <2>1 DEF LogoWrites, Request, RequestsAssumption, Uploaded, Early
      <4> QED BY <1>0, <4>1 DEF AllKnown, Known
    <3> QED BY <3>1, <3>2, <3>3 DEF Spares
  <2>2. CASE Lists(q)
    <3>1. req'[q] = [req[q] EXCEPT !.at = "refs",
                                   !.listed = files \ {m \in Request :
                                                         req[m].at \notin {"done", "failed"}}]
      BY <1>0, <2>2 DEF Lists
    <3>2. /\ req'[q].at = "refs" /\ req'[q].kind = "cleanup"
          /\ req'[q].listed = files \ {m \in Request : req[m].at \notin {"done", "failed"}}
      BY <1>0, <2>2, <3>1 DEF Lists, Step, Asked
    <3>3. ASSUME NEW m \in Request, req[m].at \in {"done", "failed"}
          PROVE  req'[m].at \in {"done", "failed"}
      BY <1>0, <3>3, OnlyForward
    <3>4. files \subseteq {0} \cup Request
      BY <1>0 DEF Maker, Request, RequestsAssumption
    <3> QED BY <3>2, <3>3, <3>4 DEF Spares
  <2>3. CASE ReadsRefs(q)
    <3>1. req'[q] = [req[q] EXCEPT !.at = "unlink", !.listed = req[q].listed \ doc.logo]
      BY <1>0, <2>3 DEF ReadsRefs
    <3>2. /\ req'[q].at = "unlink" /\ req'[q].kind = "cleanup" /\ req[q].at = "refs"
          /\ req'[q].listed = req[q].listed \ doc.logo
      BY <1>0, <2>3, <3>1 DEF ReadsRefs, Step, Asked
    <3>3. ASSUME NEW m \in Request, req[m].at \in {"done", "failed"}
          PROVE  req'[m].at \in {"done", "failed"}
      BY <1>0, <3>3, OnlyForward
    <3>4. doc' = doc
      BY <2>3 DEF ReadsRefs
    <3>5. Spares(q)
      BY <1>0
    <3> QED BY <3>2, <3>3, <3>4, <3>5 DEF Spares
  <2>4. CASE ~ LogoWrites(q) /\ ~ Lists(q) /\ ~ ReadsRefs(q)
    <3>1. req'[q].at \notin {"refs", "unlink", "clear"}
      BY <1>0, <1>4, <2>4, Elsewhere
    <3> QED BY <3>1 DEF Spares
  <2> QED BY <2>1, <2>2, <2>3, <2>4
<1> QED BY <1>3, <1>4

-----------------------------------------------------------------------------
\* What ReferencesResolve says of the models, of the server and of the logo.
ModelsResolve == "models" \in crossed \/ \A m \in doc.models : HasKey(m)
Replacing(r) == req[r].kind = "callback" /\ req[r].at \in {"write", "failed"}
ServerResolves ==
  \/ "servers" \in crossed \/ doc.server \subseteq serverKeys
  \/ \E r \in Request : Replacing(r)
LogoResolves == "branding" \in crossed \/ doc.logo \subseteq files

\* They make up ReferencesResolve.
LEMMA InParts == ReferencesResolve <=> ModelsResolve /\ ServerResolves /\ LogoResolves
BY DEF ReferencesResolve, ModelsResolve, ServerResolves, LogoResolves, HasKey, Replacing

\* Models: the key is saved before its model is named.
LEMMA ModelsStep ==
  ASSUME RequestsAssumption, Kept, [Next]_vars
  PROVE  ModelsResolve'
<1>0. /\ req \in [Request -> Asked] /\ TypeOK /\ InTurn /\ ModelsResolve
      /\ doc \in Document
      /\ \A r \in Request : Owns(r) /\ req[r].seen \in Document
  BY InParts DEF TypeOK, Asked, Kept
<1>1. SUFFICES ASSUME "models" \notin crossed', NEW x \in doc'.models PROVE HasKey(x)'
  BY DEF ModelsResolve
<1>2. "models" \notin crossed /\ \A m \in doc.models : HasKey(m)
  BY <1>0, <1>1, Stores DEF ModelsResolve
<1>3. ASSUME NEW r \in Request, "models" \in Held(r) PROVE req[r].seen.models = doc.models
  BY <1>0, <1>2, <1>3 DEF InTurn, Same, Sections
<1>4. SUFFICES HasKey(x)
  BY <1>0, KeyKept
<1>5. ASSUME NEW r \in Request, AddWrites(r) PROVE HasKey(x)
  <2>1. doc'.models = req[r].seen.models \cup req[r].model
    BY <1>0, <1>5 DEF AddWrites, WriteSection, SetSection, Document
  <2>2. req[r].seen.models = doc.models
    BY <1>3, <1>5 DEF AddWrites, Step, Held, SectionOf
  <2>3. \A e \in req[r].model : HasKey(e)
    BY <1>0, <1>5 DEF AddWrites, Step, Owns
  <2> QED BY <1>1, <1>2, <2>1, <2>2, <2>3
<1>6. ASSUME NEW r \in Request, DeleteWrites(r) PROVE HasKey(x)
  <2>1. doc'.models \subseteq req[r].seen.models
    BY <1>0, <1>6 DEF DeleteWrites, WriteSection, SetSection, Document, Others
  <2>2. req[r].seen.models = doc.models
    BY <1>3, <1>6 DEF DeleteWrites, Step, Held, SectionOf
  <2> QED BY <1>1, <1>2, <2>1, <2>2
<1>7. ASSUME NEW r \in Request, ContextWrites(r) PROVE HasKey(x)
  <2>1. doc'.models = {IF \E e \in req[r].model : e.by = m.by
                        THEN [m EXCEPT !.context = r] ELSE m : m \in req[r].seen.models}
    BY <1>0, <1>7 DEF ContextWrites, WriteSection, SetSection, Document
  <2>2. req[r].seen.models = doc.models
    BY <1>3, <1>7 DEF ContextWrites, Step, Held, SectionOf
  <2>3. PICK m \in doc.models : x = m \/ x = [m EXCEPT !.context = r]
    BY <1>1, <2>1, <2>2
  <2>4. m \in Models /\ HasKey(m)
    BY <1>0, <1>2 DEF Document
  <2>5. x.by = m.by /\ x.keyed = m.keyed
    BY <2>3, <2>4 DEF Models
  <2> QED BY <2>4, <2>5 DEF HasKey
<1>8. ASSUME NEW r \in Request,
             \/ WriteDocument(r, TRUE, "mark", "list")
             \/ WriteDocument(r, FALSE, "finish", "done")
      PROVE  HasKey(x)
  <2>1. doc'.models = req[r].seen.models
    BY <1>0, <1>8 DEF WriteDocument, Document
  <2>2. req[r].seen.models = doc.models
    BY <1>3, <1>8 DEF WriteDocument, Step, Held, Sections
  <2> QED BY <1>1, <1>2, <2>1, <2>2
<1>9. ASSUME NEW r \in Request,
             ServersWrite(r) \/ CallbackWrites(r) \/ TitleWrites(r) \/ LogoWrites(r)
      PROVE  HasKey(x)
  <2>1. doc'.models = doc.models
    BY <1>0, <1>9
       DEF ServersWrite, CallbackWrites, TitleWrites, LogoWrites, WriteSection, SetSection,
           Document
  <2> QED BY <1>1, <1>2, <2>1
<1>10. CASE doc' = doc
  BY <1>1, <1>2, <1>10
<1> QED BY <1>5, <1>6, <1>7, <1>8, <1>9, <1>10, Stores DEF Writes

\* Whoever replaces the credential writes the new one, or fails.
LEMMA ReplacingEnds ==
  ASSUME RequestsAssumption, TypeOK, InTurn, [Next]_vars, NEW q \in Request, Replacing(q),
         ~ CallbackWrites(q)
  PROVE  Replacing(q)'
<1>0. req \in [Request -> Asked]
  BY DEF TypeOK, Asked
<1>1. ASSUME req'[q] = req[q] PROVE Replacing(q)'
  BY <1>1 DEF Replacing
<1>2. CASE UNCHANGED vars
  BY <1>1, <1>2 DEF vars
<1>3. CASE Crash
  BY <1>0, <1>3 DEF Crash, Replacing, Asked
<1>4. ASSUME NEW r \in Request, Fails(r) PROVE Replacing(q)'
  BY <1>0, <1>4 DEF Fails, Replacing, Asked
<1>5. ASSUME NEW r \in Request, Begin(r) \/ Advance(r) PROVE Replacing(q)'
  <2>1. CASE r # q
    <3>1. req'[q] = req[q]
      BY <1>0, <1>5, <2>1, RequestType
    <3> QED BY <1>1, <3>1
  <2>2. CASE r = q
    BY <1>5, <2>2
       DEF Replacing, Begin, Advance, AddReads, DeleteReads, ContextReads, ServersRead,
           CallbackSaves, TitleReads, LogoSaves, CleanupReads, SavesKey, AddWrites, DropsKey,
           DeleteWrites, ContextWrites, ServersTried, ServersWrite, CallbackReads,
           CallbackDrops, TitleWrites, LogoReads, LogoWrites, LogoClears, WriteDocument,
           Lists, ReadsRefs, Unlinks, SweepFails, RestoreReads, Step
  <2> QED BY <2>1, <2>2
<1> QED BY <1>2, <1>3, <1>4, <1>5 DEF Next

\* The server: its credential is there, or a callback is replacing it.
LEMMA ServerStep ==
  ASSUME RequestsAssumption, Kept, [Next]_vars
  PROVE  ServerResolves'
<1>0. /\ req \in [Request -> Asked] /\ TypeOK /\ InTurn /\ ServerResolves
      /\ doc \in Document
      /\ \A r \in Request : Owns(r) /\ req[r].seen \in Document
  BY InParts DEF TypeOK, Asked, Kept
<1>1. SUFFICES ASSUME "servers" \notin crossed' PROVE ServerResolves'
  BY DEF ServerResolves
<1>2. "servers" \notin crossed
  BY <1>1, Stores
<1>3. ASSUME NEW r \in Request, "servers" \in Held(r) PROVE req[r].seen.server = doc.server
  BY <1>0, <1>2, <1>3 DEF InTurn, Same, Sections
\* The credential that was saved is named at last.
<1>4. ASSUME NEW r \in Request, CallbackWrites(r) PROVE ServerResolves'
  <2>1. doc'.server = {r} /\ serverKeys' = serverKeys
    BY <1>0, <1>4 DEF CallbackWrites, WriteSection, SetSection, Document
  <2>2. r \in serverKeys
    BY <1>0, <1>4 DEF CallbackWrites, Step, Owns, Early
  <2> QED BY <2>1, <2>2 DEF ServerResolves
<1>5. ASSUME NEW r \in Request, CallbackDrops(r) PROVE ServerResolves'
  <2>1. req'[r].kind = "callback" /\ req'[r].at = "write"
    BY <1>0, <1>5 DEF CallbackDrops, Step, Asked
  <2> QED BY <2>1 DEF ServerResolves, Replacing
<1>6. ASSUME \A r \in Request : ~ CallbackWrites(r) /\ ~ CallbackDrops(r)
      PROVE  doc'.server \subseteq doc.server /\ serverKeys \subseteq serverKeys'
  <2>1. serverKeys \subseteq serverKeys'
    <3>1. \A r \in Request : CallbackSaves(r) => serverKeys \subseteq serverKeys'
      BY DEF CallbackSaves
    <3> QED BY <1>6, <3>1, Stores
  <2>2. ASSUME NEW r \in Request, ServersWrite(r) PROVE doc'.server \subseteq doc.server
    <3>1. doc'.server \in {{}, req[r].seen.server}
      BY <1>0, <2>2 DEF ServersWrite, WriteSection, SetSection, Document
    <3> QED BY <1>3, <2>2, <3>1 DEF ServersWrite, Step, Held, SectionOf
  <2>3. ASSUME NEW r \in Request,
               \/ WriteDocument(r, TRUE, "mark", "list")
               \/ WriteDocument(r, FALSE, "finish", "done")
        PROVE  doc'.server \subseteq doc.server
    <3>1. doc'.server = req[r].seen.server
      BY <1>0, <2>3 DEF WriteDocument, Document
    <3> QED BY <1>3, <2>3, <3>1 DEF WriteDocument, Step, Held, Sections
  <2>4. ASSUME NEW r \in Request,
               \/ AddWrites(r) \/ DeleteWrites(r) \/ ContextWrites(r) \/ TitleWrites(r)
               \/ LogoWrites(r)
        PROVE  doc'.server \subseteq doc.server
    BY <1>0, <2>4
       DEF AddWrites, DeleteWrites, ContextWrites, TitleWrites, LogoWrites, WriteSection,
           SetSection, Document
  <2> QED BY <1>6, <2>1, <2>2, <2>3, <2>4, Stores DEF Writes
\* Whoever was replacing it still is, or failed, or has written.
<1>7. ASSUME NEW r \in Request, Replacing(r), ~ CallbackWrites(r) PROVE Replacing(r)'
  BY <1>0, <1>7, ReplacingEnds
<1> QED BY <1>0, <1>2, <1>4, <1>5, <1>6, <1>7 DEF ServerResolves

\* The logo: neither an upload nor the clean-up takes the file in use.
LEMMA LogoStep ==
  ASSUME RequestsAssumption, Kept, [Next]_vars
  PROVE  LogoResolves'
<1>0. /\ TypeOK /\ InTurn /\ LogoResolves
      /\ \A r \in Request : Owns(r) /\ Spares(r)
  BY InParts DEF Kept
<1>1. SUFFICES ASSUME "branding" \notin crossed' PROVE doc'.logo \subseteq files'
  BY DEF LogoResolves
<1>2. "branding" \notin crossed /\ doc.logo \subseteq files
  BY <1>0, <1>1, Stores DEF LogoResolves
<1>3. doc.logo \subseteq files'
  <2>1. ASSUME NEW r \in Request, LogoClears(r) PROVE doc.logo \subseteq files'
    <3>1. req[r].seen.logo \cap doc.logo = {}
      BY <1>0, <1>2, <2>1 DEF LogoClears, Spares
    <3> QED BY <1>2, <2>1, <3>1 DEF LogoClears
  <2>2. ASSUME NEW r \in Request, Unlinks(r) PROVE doc.logo \subseteq files'
    <3>1. req[r].listed \cap doc.logo = {}
      BY <1>0, <1>2, <2>2 DEF Unlinks, Step, Spares
    <3> QED BY <1>2, <2>2, <3>1 DEF Unlinks
  <2>3. \A r \in Request : LogoSaves(r) => files \subseteq files'
    BY DEF LogoSaves
  <2> QED BY <1>2, <2>1, <2>2, <2>3, Stores
<1>4. ASSUME NEW r \in Request, LogoWrites(r), req[r].kind = "logo" PROVE r \in files'
  BY <1>0, <1>4 DEF LogoWrites, WriteSection, Owns, Early
<1> QED BY <1>0, <1>2, <1>3, <1>4, LogoChanges

-----------------------------------------------------------------------------
\* The invariant is inductive.
LEMMA KeptStep == ASSUME RequestsAssumption, Kept, [Next]_vars PROVE Kept'
<1>1. TypeOK'
  BY TypeStep DEF Kept
<1>2. InTurn' /\ UpToDate'
  BY TurnStep DEF Kept
<1>3. AllKnown'
  BY KnownStep DEF Kept
<1>4. \A q \in Request : Owns(q)' /\ Spares(q)'
  BY OwnsStep, SparesStep
<1>5. ReferencesResolve'
  <2>1. ModelsResolve' /\ ServerResolves' /\ LogoResolves'
    BY ModelsStep, ServerStep, LogoStep
  <2>2. (ModelsResolve /\ ServerResolves /\ LogoResolves => ReferencesResolve)'
    BY InParts, PTL
  <2> QED BY <2>1, <2>2
<1> QED BY <1>1, <1>2, <1>3, <1>4, <1>5 DEF Kept

\* So it always holds.
LEMMA AlwaysKept == ASSUME RequestsAssumption PROVE Spec => []Kept
<1>1. Init => Kept
  BY InitKept
<1>2. Kept /\ [Next]_vars => Kept'
  BY KeptStep
<1> QED BY <1>1, <1>2, PTL DEF Spec
-----------------------------------------------------------------------------
(* Calls that need the user.                                                *)

Phase == {"new", "lookup", "waiting", "running", "done"}
Value == {"none", "yes", "no", "silence", "banned", "error", "result"}

\* The parts of the state have their shape.
Shapes ==
  /\ phase \in [Calls!Call -> Phase]
  /\ outcome \in [Calls!Call -> Value]
  /\ notes \in Seq(Calls!Call \X {"yes", "no"})

\* A card, a listener and a waiting handler are one thing.
OneWait ==
  /\ cards = listening
  /\ cards = {c \in Calls!Call : phase[c] = "waiting"}

\* The agent awaits what is asked, or was stopped meanwhile.
Awaited ==
  \A c \in Calls!Call : phase[c] \in {"lookup", "waiting"} => c = current \/ c \in stopped

\* Only a handler that returned has an outcome.
Decided == \A c \in Calls!Call : outcome[c] # "none" => phase[c] = "done"

Waits ==
  /\ Shapes
  /\ OneWait
  /\ Awaited
  /\ Decided
  /\ Calls!ConsentBeforeRun

LEMMA WaitsInit == ASSUME Calls!Init PROVE Waits
  BY DEF Calls!Init, Waits, Shapes, OneWait, Awaited, Decided, Calls!ConsentBeforeRun,
      Calls!Call, Phase, Value

\* A handler returns v: from any phase but a wait, where the card has to go as well.
LEMMA FinishKeeps ==
  ASSUME Waits, NEW c \in Calls!Call, NEW v \in Value \ {"none"}, Calls!Finish(c, v),
         v = "result" => c \in consent \/ c \notin Approvals,
         cards' = cards \ {c}, listening' = listening \ {c},
         stopped \subseteq stopped', consent \subseteq consent',
         notes' \in Seq(Calls!Call \X {"yes", "no"})
  PROVE  Waits'
<1>1. /\ phase' = [phase EXCEPT ![c] = "done"]
      /\ outcome' = [outcome EXCEPT ![c] = v]
      /\ current # c => current' = current
  BY DEF Calls!Finish
<1>2. Shapes'
  BY <1>1 DEF Waits, Shapes, Phase, Value
<1>3. OneWait'
  BY <1>1 DEF Waits, Shapes, OneWait
<1>4. Awaited'
  BY <1>1 DEF Waits, Shapes, Awaited
<1>5. Decided'
  BY <1>1 DEF Waits, Shapes, Decided
<1>6. Calls!ConsentBeforeRun'
  BY <1>1 DEF Waits, Shapes, Calls!ConsentBeforeRun, Calls!Call
<1> QED BY <1>2, <1>3, <1>4, <1>5, <1>6 DEF Waits

\* A wait ends: the tool runs if the answer is the user's consent.
LEMMA SettleKeeps ==
  ASSUME Waits, NEW c \in listening, NEW v \in {"yes", "no", "silence"}, Calls!Settle(c, v),
         v = "yes" => c \in consent',
         stopped \subseteq stopped', consent \subseteq consent',
         notes' \in Seq(Calls!Call \X {"yes", "no"})
  PROVE  Waits'
<1>1. c \in Calls!Call /\ phase[c] = "waiting"
  BY DEF Waits, OneWait
<1>2. CASE c \in Approvals /\ v = "yes"
  <2>1. /\ phase' = [phase EXCEPT ![c] = "running"]
        /\ cards' = cards \ {c} /\ listening' = listening \ {c}
        /\ current' = current /\ outcome' = outcome
    BY <1>2 DEF Calls!Settle
  <2>2. Shapes'
    BY <2>1 DEF Waits, Shapes, Phase
  <2>3. OneWait'
    BY <2>1 DEF Waits, Shapes, OneWait
  <2>4. Awaited'
    BY <2>1 DEF Waits, Shapes, Awaited
  <2>5. Decided'
    BY <1>1, <2>1 DEF Waits, Shapes, Decided
  <2>6. Calls!ConsentBeforeRun'
    BY <1>2, <2>1 DEF Waits, Shapes, Calls!ConsentBeforeRun, Calls!Call
  <2> QED BY <2>2, <2>3, <2>4, <2>5, <2>6 DEF Waits
<1>3. CASE ~(c \in Approvals /\ v = "yes")
  <2>1. Calls!Finish(c, v) /\ cards' = cards \ {c} /\ listening' = listening \ {c}
    BY <1>3 DEF Calls!Settle
  <2>2. v \in Value \ {"none"} /\ v # "result"
    BY DEF Value
  <2> QED BY <1>1, <2>1, <2>2, FinishKeeps
<1> QED BY <1>2, <1>3

\* A card opens for the call the agent awaits, or for one of a stopped turn.
LEMMA OpenKeeps ==
  ASSUME Waits, NEW c \in Calls!Call, Calls!OpenCard(c), phase[c] \in {"new", "lookup"},
         c = current' \/ c \in stopped,
         current = None \/ current' = current, None \notin Calls!Call,
         UNCHANGED <<stopped, notes, consent>>
  PROVE  Waits'
<1>1. /\ phase' = [phase EXCEPT ![c] = "waiting"]
      /\ cards' = cards \union {c} /\ listening' = listening \union {c} /\ outcome' = outcome
  BY DEF Calls!OpenCard
<1>2. Shapes'
  BY <1>1 DEF Waits, Shapes, Phase
<1>3. OneWait'
  BY <1>1 DEF Waits, Shapes, OneWait
<1>4. Awaited'
  BY <1>1 DEF Waits, Shapes, Awaited
<1>5. Decided'
  BY <1>1 DEF Waits, Shapes, Decided
<1>6. Calls!ConsentBeforeRun'
  BY <1>1 DEF Waits, Shapes, Calls!ConsentBeforeRun, Calls!Call
<1> QED BY <1>2, <1>3, <1>4, <1>5, <1>6 DEF Waits

LEMMA StartKeeps ==
  ASSUME Calls!CallsAssumption, Waits, NEW c \in Calls!Call, Calls!Start(c)
  PROVE  Waits'
<1>1. phase[c] = "new" /\ current = None /\ UNCHANGED <<stopped, notes, consent>>
  BY DEF Calls!Start
<1>2. CASE c \in Approvals /\ Calls!Enter(c) /\ c \notin Questions
  <2>1. /\ current' = c /\ phase' = [phase EXCEPT ![c] = "lookup"]
        /\ UNCHANGED <<cards, listening, outcome>>
    BY <1>2 DEF Calls!Enter
  <2>2. Shapes'
    BY <1>1, <2>1 DEF Waits, Shapes, Phase
  <2>3. OneWait'
    BY <1>1, <2>1 DEF Waits, Shapes, OneWait
  <2>4. Awaited'
    BY <1>1, <2>1 DEF Waits, Shapes, Awaited, Calls!CallsAssumption
  <2>5. Decided'
    BY <1>1, <2>1 DEF Waits, Shapes, Decided
  <2>6. Calls!ConsentBeforeRun'
    BY <1>1, <2>1 DEF Waits, Shapes, Calls!ConsentBeforeRun, Calls!Call
  <2> QED BY <2>2, <2>3, <2>4, <2>5, <2>6 DEF Waits
<1>3. CASE c \in Questions /\ Calls!Enter(c) /\ c \notin Approvals
  <2>1. current' = c /\ Calls!OpenCard(c)
    BY <1>3 DEF Calls!Enter
  <2> QED BY <1>1, <2>1, OpenKeeps DEF Calls!CallsAssumption
<1>4. CASE c \in Questions /\ Calls!Finish(c, "error") /\ UNCHANGED <<cards, listening>>
  <2>1. c \notin cards /\ c \notin listening
    BY <1>1 DEF Waits, OneWait
  <2>2. "error" \in Value \ {"none"}
    BY DEF Value
  <2>3. notes' \in Seq(Calls!Call \X {"yes", "no"})
    BY <1>1 DEF Waits, Shapes
  <2> QED BY <1>1, <1>4, <2>1, <2>2, <2>3, FinishKeeps
<1>5. ~(c \in Approvals /\ c \in Questions)
  BY DEF Calls!CallsAssumption
<1>6. \/ Calls!Enter(c)
      \/ c \in Questions /\ Calls!Finish(c, "error") /\ UNCHANGED <<cards, listening>>
  BY DEF Calls!Start
<1> QED BY <1>2, <1>3, <1>4, <1>5, <1>6 DEF Calls!Enter, Calls!Call

LEMMA LookupKeeps ==
  ASSUME Calls!CallsAssumption, Waits, NEW c \in Approvals, Calls!LookupReturns(c)
  PROVE  Waits'
<1>1. c \in Calls!Call /\ phase[c] = "lookup" /\ UNCHANGED <<stopped, notes>>
  BY DEF Calls!LookupReturns, Calls!Call
<1>2. c \notin cards /\ c \notin listening
  BY <1>1 DEF Waits, OneWait
<1>3. notes' \in Seq(Calls!Call \X {"yes", "no"})
  BY <1>1 DEF Waits, Shapes
<1>4. ASSUME NEW v \in {"banned", "error"}, Calls!Finish(c, v),
             UNCHANGED <<cards, listening, consent>>
      PROVE  Waits'
  <2>1. v \in Value \ {"none"}
    BY DEF Value
  <2> QED BY <1>1, <1>2, <1>3, <1>4, <2>1, FinishKeeps
<1>5. CASE /\ phase' = [phase EXCEPT ![c] = "running"]
           /\ consent' = consent \union {c}
           /\ UNCHANGED <<cards, listening, current, outcome>>
  <2>1. Shapes'
    BY <1>1, <1>5 DEF Waits, Shapes, Phase
  <2>2. OneWait'
    BY <1>1, <1>5 DEF Waits, Shapes, OneWait
  <2>3. Awaited'
    BY <1>1, <1>5 DEF Waits, Shapes, Awaited
  <2>4. Decided'
    BY <1>1, <1>5 DEF Waits, Shapes, Decided
  <2>5. Calls!ConsentBeforeRun'
    BY <1>1, <1>5 DEF Waits, Shapes, Calls!ConsentBeforeRun, Calls!Call
  <2> QED BY <2>1, <2>2, <2>3, <2>4, <2>5 DEF Waits
<1>6. CASE Calls!OpenCard(c) /\ UNCHANGED <<current, consent>>
  <2>1. c = current \/ c \in stopped
    BY <1>1 DEF Waits, Awaited
  <2> QED BY <1>1, <1>6, <2>1, OpenKeeps DEF Calls!CallsAssumption
<1> QED BY <1>4, <1>5, <1>6 DEF Calls!LookupReturns

LEMMA DeliverKeeps == ASSUME Waits, Calls!Deliver PROVE Waits'
<1> DEFINE c == Head(notes)[1]
           v == Head(notes)[2]
<1>1. /\ notes # <<>> /\ notes' = Tail(notes) /\ stopped' = stopped
      /\ IF c \in listening
         THEN /\ Calls!Settle(c, v)
              /\ consent' = IF v = "yes" THEN consent \union {c} ELSE consent
         ELSE UNCHANGED <<phase, cards, listening, current, outcome, consent>>
  BY DEF Calls!Deliver
<1>2. Head(notes) \in Calls!Call \X {"yes", "no"} /\ notes' \in Seq(Calls!Call \X {"yes", "no"})
  BY <1>1 DEF Waits, Shapes
<1>3. v \in {"yes", "no"}
  BY <1>2
<1> HIDE DEF c, v
<1>4. CASE c \in listening
  <2>1. Calls!Settle(c, v) /\ consent \subseteq consent' /\ (v = "yes" => c \in consent')
    BY <1>1, <1>4
  <2> QED BY <1>1, <1>2, <1>3, <1>4, <2>1, SettleKeeps
<1>5. CASE c \notin listening
  <2>1. UNCHANGED <<phase, cards, listening, current, outcome, consent>>
    BY <1>1, <1>5
  <2> QED BY <1>1, <1>2, <2>1 DEF Waits, Shapes, OneWait, Awaited, Decided, Calls!ConsentBeforeRun
<1> QED BY <1>4, <1>5

LEMMA StopKeeps == ASSUME Calls!CallsAssumption, Waits, Calls!StopTurn PROVE Waits'
<1>1. /\ current # None /\ stopped' = stopped \union {current}
      /\ UNCHANGED <<notes, consent>>
  BY DEF Calls!StopTurn
<1>2. notes' \in Seq(Calls!Call \X {"yes", "no"})
  BY <1>1 DEF Waits, Shapes
<1>3. CASE current \in listening
  <2>1. Calls!Settle(current, "silence")
    BY <1>3 DEF Calls!StopTurn
  <2>2. PICK c \in listening : c = current
    BY <1>3
  <2>3. Calls!Settle(c, "silence")
    BY <2>1, <2>2
  <2> QED BY <1>1, <1>2, <2>3, SettleKeeps
<1>4. CASE current \notin listening
  <2>1. current' = None /\ UNCHANGED <<phase, cards, listening, outcome>>
    BY <1>4 DEF Calls!StopTurn
  <2>2. Awaited'
    BY <1>1, <2>1 DEF Waits, Awaited
  <2> QED BY <1>1, <1>2, <2>1, <2>2 DEF Waits, Shapes, OneWait, Decided, Calls!ConsentBeforeRun
<1> QED BY <1>3, <1>4

LEMMA WaitsStep == ASSUME Calls!CallsAssumption, Waits, [Calls!Next]_(Calls!vars) PROVE Waits'
<1>1. ASSUME NEW c \in Calls!Call, Calls!Start(c) PROVE Waits'
  BY <1>1, StartKeeps
<1>2. ASSUME NEW c \in Approvals, Calls!LookupReturns(c) PROVE Waits'
  BY <1>2, LookupKeeps
<1>3. ASSUME NEW c \in Calls!Call, NEW v \in {"yes", "no"}, Calls!Answer(c, v) PROVE Waits'
  <2>1. /\ UNCHANGED <<phase, cards, listening, current, stopped, consent, outcome>>
        /\ notes' = Append(notes, <<c, v>>)
    BY <1>3 DEF Calls!Answer
  <2>2. notes' \in Seq(Calls!Call \X {"yes", "no"})
    BY <2>1 DEF Waits, Shapes
  <2> QED BY <2>1, <2>2 DEF Waits, Shapes, OneWait, Awaited, Decided, Calls!ConsentBeforeRun
<1>4. ASSUME Calls!Deliver PROVE Waits'
  BY <1>4, DeliverKeeps
<1>5. ASSUME NEW c \in Calls!Call, Calls!TimeOut(c) PROVE Waits'
  <2>1. c \in listening /\ Calls!Settle(c, "silence") /\ UNCHANGED <<stopped, notes, consent>>
    BY <1>5 DEF Calls!TimeOut
  <2>2. notes' \in Seq(Calls!Call \X {"yes", "no"})
    BY <2>1 DEF Waits, Shapes
  <2> QED BY <2>1, <2>2, SettleKeeps
<1>6. ASSUME Calls!StopTurn PROVE Waits'
  BY <1>6, StopKeeps
<1>7. ASSUME NEW c \in Approvals, Calls!ToolReturns(c) PROVE Waits'
  <2>1. PICK v \in {"result", "error"} : Calls!Finish(c, v)
    BY <1>7 DEF Calls!ToolReturns
  <2>2. phase[c] = "running" /\ UNCHANGED <<cards, listening, stopped, notes, consent>>
    BY <1>7 DEF Calls!ToolReturns
  <2>3. c \in Calls!Call /\ c \in consent /\ c \notin cards /\ c \notin listening
    BY <2>2 DEF Waits, OneWait, Calls!ConsentBeforeRun, Calls!Call
  <2>4. v \in Value \ {"none"} /\ notes' \in Seq(Calls!Call \X {"yes", "no"})
    BY <2>2 DEF Value, Waits, Shapes
  <2> QED BY <2>1, <2>2, <2>3, <2>4, FinishKeeps
<1>8. ASSUME UNCHANGED Calls!vars PROVE Waits'
  BY <1>8 DEF Calls!vars, Waits, Shapes, OneWait, Awaited, Decided, Calls!ConsentBeforeRun
<1> QED BY <1>1, <1>2, <1>3, <1>4, <1>5, <1>6, <1>7, <1>8 DEF Calls!Next

-----------------------------------------------------------------------------
\* A handler settles once: only one that has not returned gets an outcome.
LEMMA SettleStands ==
  ASSUME Waits, NEW c \in Calls!Call, NEW v, Calls!Settle(c, v), phase[c] # "done",
         NEW d \in Calls!Call, outcome[d] # "none"
  PROVE  outcome'[d] = outcome[d]
<1>1. d # c
  BY DEF Waits, Decided
<1>2. outcome' = outcome \/ outcome' = [outcome EXCEPT ![c] = v]
  BY DEF Calls!Settle, Calls!Finish
<1> QED BY <1>1, <1>2 DEF Waits, Shapes

LEMMA StepStands ==
  ASSUME Waits, Calls!Next, NEW d \in Calls!Call, outcome[d] # "none"
  PROVE  outcome'[d] = outcome[d]
<1> DEFINE Stays == outcome'[d] = outcome[d]
<1>0. phase[d] = "done"
  BY DEF Waits, Decided
<1>1. ASSUME NEW c \in Calls!Call, Calls!Start(c) PROVE Stays
  <2>1. c # d
    BY <1>0, <1>1 DEF Calls!Start
  <2>2. outcome' = outcome \/ outcome' = [outcome EXCEPT ![c] = "error"]
    BY <1>1 DEF Calls!Start, Calls!Enter, Calls!OpenCard, Calls!Finish
  <2> QED BY <2>1, <2>2 DEF Waits, Shapes
<1>2. ASSUME NEW c \in Approvals, Calls!LookupReturns(c) PROVE Stays
  <2>1. c # d
    BY <1>0, <1>2 DEF Calls!LookupReturns
  <2>2. outcome' = outcome \/ \E v \in {"banned", "error"} : outcome' = [outcome EXCEPT ![c] = v]
    BY <1>2 DEF Calls!LookupReturns, Calls!OpenCard, Calls!Finish
  <2> QED BY <2>1, <2>2 DEF Waits, Shapes
<1>3. ASSUME NEW c \in Calls!Call, NEW v \in {"yes", "no"}, Calls!Answer(c, v) PROVE Stays
  BY <1>3 DEF Calls!Answer
<1>4. ASSUME Calls!Deliver PROVE Stays
  <2> DEFINE c == Head(notes)[1]
             v == Head(notes)[2]
  <2>1. CASE c \in listening
    <3>1. Calls!Settle(c, v)
      BY <1>4, <2>1 DEF Calls!Deliver
    <3>2. c \in Calls!Call /\ phase[c] # "done"
      BY <2>1 DEF Waits, OneWait
    <3> HIDE DEF c, v
    <3> QED BY <3>1, <3>2, SettleStands
  <2>2. CASE c \notin listening
    BY <1>4, <2>2 DEF Calls!Deliver
  <2> QED BY <2>1, <2>2
<1>5. ASSUME NEW c \in Calls!Call, Calls!TimeOut(c) PROVE Stays
  <2>1. Calls!Settle(c, "silence") /\ phase[c] # "done"
    BY <1>5 DEF Calls!TimeOut, Waits, OneWait
  <2> QED BY <2>1, SettleStands
<1>6. ASSUME Calls!StopTurn PROVE Stays
  <2>1. CASE current \in listening
    <3>1. PICK c \in Calls!Call : c = current /\ phase[c] # "done"
      BY <2>1 DEF Waits, OneWait
    <3>2. Calls!Settle(c, "silence")
      BY <1>6, <2>1, <3>1 DEF Calls!StopTurn
    <3> QED BY <3>1, <3>2, SettleStands
  <2>2. CASE current \notin listening
    BY <1>6, <2>2 DEF Calls!StopTurn
  <2> QED BY <2>1, <2>2
<1>7. ASSUME NEW c \in Approvals, Calls!ToolReturns(c) PROVE Stays
  <2>1. c # d
    BY <1>0, <1>7 DEF Calls!ToolReturns
  <2>2. \E v \in {"result", "error"} : outcome' = [outcome EXCEPT ![c] = v]
    BY <1>7 DEF Calls!ToolReturns, Calls!Finish
  <2> QED BY <2>1, <2>2 DEF Waits, Shapes
<1> QED BY <1>1, <1>2, <1>3, <1>4, <1>5, <1>6, <1>7 DEF Calls!Next

LEMMA OneCard == ASSUME Waits PROVE Cardinality(cards \ stopped) <= 1
<1>1. cards \ stopped \subseteq {current}
  BY DEF Waits, OneWait, Awaited
<1>2. cards \ stopped = {} \/ cards \ stopped = {current}
  BY <1>1
<1>3. Cardinality({}) = 0 /\ Cardinality({current}) = 1
  BY FS_EmptySet, FS_Singleton
<1> QED BY <1>2, <1>3

\* Whatever settles a call, what it was decided to be stays.
LEMMA DecisionsStay ==
  ASSUME Calls!CallsAssumption
  PROVE  Calls!Spec => Calls!FirstDecisionStands
<1> DEFINE Stands == \A c \in Calls!Call : outcome[c] # "none" => outcome'[c] = outcome[c]
<1> SUFFICES Calls!Spec => [][Stands]_(Calls!vars)
  BY DEF Calls!FirstDecisionStands
<1>1. Calls!Init => Waits BY WaitsInit
<1>2. Waits /\ [Calls!Next]_(Calls!vars) => Waits' BY WaitsStep
<1>3. Waits /\ [Calls!Next]_(Calls!vars) => [Stands]_(Calls!vars) BY StepStands
<1> QED BY <1>1, <1>2, <1>3, PTL DEF Calls!Spec

-----------------------------------------------------------------------------
\* The call the agent awaits, the stopped calls, the answers sent and the consents keep
\* their types.
Counts ==
  /\ current \in Calls!Call \union {None} /\ stopped \subseteq Calls!Call
  /\ sent \in 0..MaxNotes /\ consent \subseteq Calls!Call

LEMMA CountsStep ==
  ASSUME Calls!CallsAssumption, Waits, Counts, [Calls!Next]_(Calls!vars)
  PROVE  Counts'
<1>0. MaxNotes \in Nat /\ Approvals \subseteq Calls!Call
  BY DEF Calls!CallsAssumption, Calls!Call
<1>1. ASSUME NEW c \in Calls!Call, Calls!Start(c) PROVE Counts'
  BY <1>1 DEF Calls!Start, Calls!Enter, Calls!Finish, Calls!OpenCard, Counts
<1>2. ASSUME NEW c \in Approvals, Calls!LookupReturns(c) PROVE Counts'
  BY <1>0, <1>2 DEF Calls!LookupReturns, Calls!Finish, Counts
<1>3. ASSUME NEW c \in Calls!Call, NEW v \in {"yes", "no"}, Calls!Answer(c, v) PROVE Counts'
  BY <1>0, <1>3 DEF Calls!Answer, Counts
<1>4. ASSUME Calls!Deliver PROVE Counts'
  <2> DEFINE c == Head(notes)[1]
             v == Head(notes)[2]
  <2>1. c \in listening => c \in Calls!Call
    BY DEF Waits, OneWait
  <2>2. /\ current' \in {current, None}
        /\ consent' \subseteq consent \union (listening \intersect {c})
        /\ UNCHANGED <<stopped, sent>>
    BY <1>4 DEF Calls!Deliver, Calls!Settle, Calls!Finish
  <2> QED BY <2>1, <2>2 DEF Counts
<1>5. ASSUME NEW c \in Calls!Call, Calls!TimeOut(c) PROVE Counts'
  BY <1>5 DEF Calls!TimeOut, Calls!Settle, Calls!Finish, Counts
<1>6. ASSUME Calls!StopTurn PROVE Counts'
  BY <1>6 DEF Calls!StopTurn, Calls!Settle, Calls!Finish, Counts
<1>7. ASSUME NEW c \in Approvals, Calls!ToolReturns(c) PROVE Counts'
  BY <1>7 DEF Calls!ToolReturns, Calls!Finish, Counts
<1>8. ASSUME UNCHANGED Calls!vars PROVE Counts'
  BY <1>8 DEF Calls!vars, Counts
<1> QED BY <1>1, <1>2, <1>3, <1>4, <1>5, <1>6, <1>7, <1>8 DEF Calls!Next

\* Throughout, a card is live, a tool has consent, and every variable has its type.
LEMMA DecisionsHold ==
  ASSUME Calls!CallsAssumption
  PROVE  Calls!Spec => [](Calls!CardsAreLive /\ Calls!ConsentBeforeRun /\ Calls!TypeOK)
<1>1. Calls!Init => Waits /\ Counts
  BY WaitsInit DEF Calls!CallsAssumption, Calls!Init, Counts
<1>2. Waits /\ Counts /\ [Calls!Next]_(Calls!vars) => (Waits /\ Counts)'
  BY WaitsStep, CountsStep
<1>3. Waits => Calls!CardsAreLive
  <2>1. Calls!Cardinality(cards \ stopped) = Cardinality(cards \ stopped)
    BY DEF Calls!Cardinality, Cardinality
  <2> QED BY <2>1, OneCard DEF Waits, OneWait, Calls!CardsAreLive
<1>5. Waits => Calls!ConsentBeforeRun
  BY DEF Waits
<1>4. Waits /\ Counts => Calls!TypeOK
  BY DEF Waits, Shapes, OneWait, Phase, Value, Counts, Calls!TypeOK
<1> QED BY <1>1, <1>2, <1>3, <1>4, <1>5, PTL DEF Calls!Spec

-----------------------------------------------------------------------------
(* The desktop.  A desktop shown as running is whole because the last request *)
(* left it so, and what could have spoilt it since is excused.                *)

\* Unless it is excused, no stop is under way beside a request.
Uncrossed == at # "idle" /\ ~disturbed => stops = 0

\* A compositor that was told to go has no VNC server, no stamp and no keyboard.
Fading == sway = "dying" => ~vnc /\ ~stamp /\ marker = "none"

\* The desktop has the keyboard of the request.
Whole == sway = "up" /\ marker = Gui!Marker(wish)

\* What a request has reached: one that waits for the stamp has started a desktop that
\* is whole, or waits in vain for one that is going.
OnItsWay ==
  ~disturbed =>
    /\ at = "compare" => sway = "up" \/ marker = "none"
    /\ at = "launch" => sway # "up"
    /\ at = "socket" => Whole
    /\ at \in {"wait", "alive"} => Whole \/ (~vnc /\ ~stamp)
    /\ at = "show" => Whole /\ stamp

\* Behind its preparations the page of a preview is answered, or the client was told.
Served ==
  ~disturbed /\ opening = "page"
    /\ at \in {"announce", "setup", "look", "compare", "restart", "launch", "socket", "wait",
               "alive", "show"} => told \/ server = "up"

Shown == Uncrossed /\ Fading /\ OnItsWay /\ Served /\ Gui!StatusIsTrue

\* The types of the flags, and of everything else.
Flags ==
  /\ wish \in BOOLEAN /\ app \in BOOLEAN /\ told \in BOOLEAN
  /\ vnc \in BOOLEAN /\ stamp \in BOOLEAN /\ disturbed \in BOOLEAN

GuiValues ==
  /\ at \in {"idle", "preview", "serve", "poll", "announce", "setup", "look", "compare", "restart",
             "launch", "socket", "wait", "alive", "dead", "late", "show"}
  /\ opening \in {"none", "page", "app"} /\ server \in {"none", "starting", "up"}
  /\ polls \in 0..MaxPolls /\ stops \in 0..MaxStops
  /\ sway \in {"none", "up", "dying"} /\ marker \in {"none", "ime", "plain"}
  /\ status \in {"stopped", "starting", "running", "stopping", "error"}
  /\ asked \in 0..MaxAsked /\ upsets \in 0..MaxFaults

LEMMA FlagsAndKinds == Gui!TypeOK <=> Flags /\ GuiValues
  BY Zenon DEF Gui!TypeOK, Flags, GuiValues

LEMMA GuiInit == ASSUME Gui!DesktopAssumption, Gui!Init PROVE Gui!TypeOK /\ Shown
<1>1. Flags
  BY DEF Gui!Init, Flags
<1>2. GuiValues
  BY DEF Gui!DesktopAssumption, Gui!Init, GuiValues
<1>3. Shown
  BY DEF Gui!Init, Shown, Uncrossed, Fading, OnItsWay, Served, Gui!StatusIsTrue
<1> QED BY <1>1, <1>2, <1>3, FlagsAndKinds

\* Flags keep their type.
LEMMA GuiFlags == ASSUME Flags, [Gui!Next]_(Gui!vars) PROVE Flags'
<1> USE DEF Flags
<1>1. ASSUME NEW ime \in BOOLEAN, NEW open \in BOOLEAN, Gui!Request(ime, open) PROVE Flags'
  <2>1. disturbed' \in BOOLEAN
    BY <1>1 DEF Gui!Request
  <2>2. wish' \in BOOLEAN
    BY <1>1 DEF Gui!Request
  <2>3. told' = FALSE /\ UNCHANGED <<vnc, stamp, app>>
    BY <1>1 DEF Gui!Request, Gui!desktop
  <2> QED
    BY <2>1, <2>2, <2>3, Zenon
<1>2. ASSUME Gui!Preview PROVE Flags'
  BY <1>2, Zenon DEF Gui!Preview, Gui!preview, Gui!Goto, Gui!Fails, Gui!NoFault,
      Gui!desktop
<1>3. ASSUME Gui!Serve PROVE Flags'
  BY <1>3, Zenon DEF Gui!Serve, Gui!Responsive, Gui!Goto, Gui!NoFault, Gui!Fault,
      Gui!Fails, Gui!desktop
<1>4. ASSUME Gui!Poll PROVE Flags'
  BY <1>4, Zenon DEF Gui!Poll, Gui!Goto, Gui!Responsive, Gui!NoFault, Gui!desktop
<1>5. ASSUME Gui!Announce PROVE Flags'
  BY <1>5, Zenon DEF Gui!Announce, Gui!Goto, Gui!NoFault, Gui!desktop, Gui!preview
<1>6. ASSUME Gui!Setup PROVE Flags'
  BY <1>6, Zenon DEF Gui!Setup, Gui!Goto, Gui!Fails, Gui!NoFault, Gui!desktop, Gui!preview
<1>7. ASSUME Gui!Look PROVE Flags'
  BY <1>7, Zenon DEF Gui!Look, Gui!Goto, Gui!NoFault, Gui!Fault, Gui!desktop, Gui!preview
<1>8. ASSUME Gui!Compare PROVE Flags'
  BY <1>8, Zenon DEF Gui!Compare, Gui!Goto, Gui!Marker, Gui!NoFault, Gui!Fault,
      Gui!desktop, Gui!preview
<1>9. ASSUME Gui!TearDown PROVE Flags'
  BY <1>9, Zenon DEF Gui!TearDown, Gui!StopDesktop, Gui!Goto, Gui!Fails, Gui!NoFault,
      Gui!Fault, Gui!desktop
<1>10. ASSUME Gui!Launch PROVE Flags'
  BY <1>10, Zenon DEF Gui!Launch, Gui!Goto, Gui!desktop, Gui!Marker, Gui!NoFault,
      Gui!preview
<1>11. ASSUME Gui!Socket PROVE Flags'
  BY <1>11, Zenon DEF Gui!Socket, Gui!Goto, Gui!Fails, Gui!NoFault, Gui!preview
<1>12. ASSUME Gui!WaitReady PROVE Flags'
  BY <1>12, Zenon DEF Gui!WaitReady, Gui!Goto, Gui!Runs, Gui!NoFault, Gui!desktop,
      Gui!preview
<1>13. ASSUME Gui!WaitAlive PROVE Flags'
  BY <1>13, Zenon DEF Gui!WaitAlive, Gui!Goto, Gui!NoFault, Gui!desktop, Gui!preview
<1>14. ASSUME Gui!ShowPage PROVE Flags'
  BY <1>14, Zenon DEF Gui!ShowPage, Gui!Runs, Gui!NoFault, Gui!desktop, Gui!preview,
      Gui!Goto
<1>15. ASSUME Gui!ShowApp PROVE Flags'
  BY <1>15, Zenon DEF Gui!ShowApp, Gui!Runs, Gui!Fails, Gui!NoFault, Gui!desktop, Gui!Goto
<1>16. ASSUME Gui!Stop PROVE Flags'
  BY <1>16, Zenon DEF Gui!Stop, Gui!request, Gui!desktop, Gui!preview
<1>17. ASSUME Gui!Stopped PROVE Flags'
  BY <1>17, Zenon DEF Gui!Stopped, Gui!StopDesktop, Gui!Fault, Gui!desktop, Gui!request,
      Gui!NoFault
<1>18. ASSUME Gui!Stamps PROVE Flags'
  BY <1>18, Zenon DEF Gui!Stamps, Gui!request, Gui!preview
<1>19. ASSUME Gui!Gone PROVE Flags'
  BY <1>19, Zenon DEF Gui!Gone, Gui!request, Gui!preview
<1>20. ASSUME Gui!Dies PROVE Flags'
  BY <1>20, Zenon DEF Gui!Dies, Gui!Fault, Gui!request
<1>21. ASSUME Gui!Answers PROVE Flags'
  BY <1>21, Zenon DEF Gui!Answers, Gui!request, Gui!desktop
<1>22. ASSUME Gui!Ends PROVE Flags'
  BY <1>22, Zenon DEF Gui!Ends, Gui!Fault, Gui!request, Gui!desktop
<1>23. CASE UNCHANGED Gui!vars
  BY <1>23, Zenon DEF Gui!vars, Gui!desktop, Gui!request, Gui!preview
<1> QED
  BY <1>1, <1>2, <1>3, <1>4, <1>5, <1>6, <1>7, <1>8, <1>9, <1>10, <1>11, <1>12, <1>13,
      <1>14, <1>15, <1>16, <1>17, <1>18, <1>19, <1>20, <1>21, <1>22, <1>23 DEF Gui!Next,
      Gui!Works

\* Everything else keeps its type.
LEMMA GuiKinds == ASSUME Gui!DesktopAssumption, GuiValues, [Gui!Next]_(Gui!vars) PROVE GuiValues'
<1> USE DEF Gui!DesktopAssumption, GuiValues
<1>1. ASSUME NEW ime \in BOOLEAN, NEW open \in BOOLEAN, Gui!Request(ime, open) PROVE GuiValues'
  BY <1>1 DEF Gui!Request, Gui!desktop
<1>2. ASSUME Gui!Preview PROVE GuiValues'
  BY <1>2 DEF Gui!Preview, Gui!preview, Gui!Goto, Gui!Fails, Gui!NoFault, Gui!desktop
<1>3. ASSUME Gui!Serve PROVE GuiValues'
  BY <1>3 DEF Gui!Serve, Gui!Responsive, Gui!Goto, Gui!NoFault, Gui!Fault, Gui!Fails,
      Gui!desktop
<1>4. ASSUME Gui!Poll PROVE GuiValues'
  BY <1>4 DEF Gui!Poll, Gui!Goto, Gui!Responsive, Gui!NoFault, Gui!desktop
<1>5. ASSUME Gui!Announce PROVE GuiValues'
  BY <1>5 DEF Gui!Announce, Gui!Goto, Gui!NoFault, Gui!desktop, Gui!preview
<1>6. ASSUME Gui!Setup PROVE GuiValues'
  BY <1>6 DEF Gui!Setup, Gui!Goto, Gui!Fails, Gui!NoFault, Gui!desktop, Gui!preview
<1>7. ASSUME Gui!Look PROVE GuiValues'
  BY <1>7 DEF Gui!Look, Gui!Goto, Gui!NoFault, Gui!Fault, Gui!desktop, Gui!preview
<1>8. ASSUME Gui!Compare PROVE GuiValues'
  BY <1>8 DEF Gui!Compare, Gui!Goto, Gui!Marker, Gui!NoFault, Gui!Fault, Gui!desktop,
      Gui!preview
<1>9. ASSUME Gui!TearDown PROVE GuiValues'
  BY <1>9 DEF Gui!TearDown, Gui!StopDesktop, Gui!Goto, Gui!Fails, Gui!NoFault, Gui!Fault,
      Gui!desktop
<1>10. ASSUME Gui!Launch PROVE GuiValues'
  BY <1>10 DEF Gui!Launch, Gui!Goto, Gui!desktop, Gui!Marker, Gui!NoFault, Gui!preview
<1>11. ASSUME Gui!Socket PROVE GuiValues'
  BY <1>11 DEF Gui!Socket, Gui!Goto, Gui!Fails, Gui!NoFault, Gui!preview
<1>12. ASSUME Gui!WaitReady PROVE GuiValues'
  BY <1>12 DEF Gui!WaitReady, Gui!Goto, Gui!Runs, Gui!NoFault, Gui!desktop, Gui!preview
<1>13. ASSUME Gui!WaitAlive PROVE GuiValues'
  BY <1>13 DEF Gui!WaitAlive, Gui!Goto, Gui!NoFault, Gui!desktop, Gui!preview
<1>14. ASSUME Gui!ShowPage PROVE GuiValues'
  BY <1>14 DEF Gui!ShowPage, Gui!Runs, Gui!NoFault, Gui!desktop, Gui!preview, Gui!Goto
<1>15. ASSUME Gui!ShowApp PROVE GuiValues'
  <2>1. /\ Gui!Runs \/ Gui!Fails
        /\ Gui!NoFault /\ UNCHANGED <<stops, Gui!desktop, server, asked>>
    BY <1>15, Zenon DEF Gui!ShowApp
  <2> QED
    BY <2>1 DEF Gui!Runs, Gui!Fails, Gui!Goto, Gui!NoFault, Gui!desktop
<1>16. ASSUME Gui!Stop PROVE GuiValues'
  BY <1>16 DEF Gui!Stop, Gui!request, Gui!desktop, Gui!preview
<1>17. ASSUME Gui!Stopped PROVE GuiValues'
  BY <1>17 DEF Gui!Stopped, Gui!StopDesktop, Gui!Fault, Gui!desktop, Gui!request,
      Gui!NoFault
<1>18. ASSUME Gui!Stamps PROVE GuiValues'
  BY <1>18 DEF Gui!Stamps, Gui!request, Gui!preview
<1>19. ASSUME Gui!Gone PROVE GuiValues'
  BY <1>19 DEF Gui!Gone, Gui!request, Gui!preview
<1>20. ASSUME Gui!Dies PROVE GuiValues'
  BY <1>20 DEF Gui!Dies, Gui!Fault, Gui!request
<1>21. ASSUME Gui!Answers PROVE GuiValues'
  BY <1>21 DEF Gui!Answers, Gui!request, Gui!desktop
<1>22. ASSUME Gui!Ends PROVE GuiValues'
  BY <1>22 DEF Gui!Ends, Gui!Fault, Gui!request, Gui!desktop
<1>23. CASE UNCHANGED Gui!vars
  BY <1>23 DEF Gui!vars, Gui!desktop, Gui!request, Gui!preview
<1> QED
  BY <1>1, <1>2, <1>3, <1>4, <1>5, <1>6, <1>7, <1>8, <1>9, <1>10, <1>11, <1>12, <1>13,
      <1>14, <1>15, <1>16, <1>17, <1>18, <1>19, <1>20, <1>21, <1>22, <1>23 DEF Gui!Next,
      Gui!Works

\* Every step keeps what clients are shown true.
LEMMA GuiShown == ASSUME Gui!DesktopAssumption, GuiValues, Shown, [Gui!Next]_(Gui!vars) PROVE Shown'
<1> USE DEF GuiValues, Shown, Uncrossed, Fading, OnItsWay, Whole, Served, Gui!StatusIsTrue,
            Gui!Marker
<1>1. ASSUME NEW ime \in BOOLEAN, NEW open \in BOOLEAN, Gui!Request(ime, open) PROVE Shown'
  <2>1. ~disturbed' => stops' = 0
    <3>1. (stops > 0 => disturbed') /\ stops' = stops
      BY <1>1, Zenon DEF Gui!Request
    <3>2. stops \in Nat
      BY DEF Gui!DesktopAssumption
    <3>3. stops = 0 \/ stops > 0
      BY <3>2
    <3> QED
      BY <3>1, <3>3, Zenon
  <2>2. at' \in {"preview", "setup"} /\ (at' = "setup" => opening' = "none")
    BY <1>1 DEF Gui!Request
  <2>3. UNCHANGED <<sway, vnc, stamp, marker>>
    BY <1>1 DEF Gui!Request, Gui!desktop
  <2> QED
    BY <2>1, <2>2, <2>3
<1>2. ASSUME Gui!Preview PROVE Shown'
  BY <1>2 DEF Gui!Preview, Gui!preview, Gui!Goto, Gui!Fails, Gui!NoFault, Gui!desktop
<1>3. ASSUME Gui!Serve PROVE Shown'
  BY <1>3 DEF Gui!Serve, Gui!Responsive, Gui!Goto, Gui!NoFault, Gui!Fault, Gui!Fails,
      Gui!desktop
<1>4. ASSUME Gui!Poll PROVE Shown'
  BY <1>4 DEF Gui!Poll, Gui!Goto, Gui!Responsive, Gui!NoFault, Gui!desktop
<1>5. ASSUME Gui!Announce PROVE Shown'
  BY <1>5 DEF Gui!Announce, Gui!Goto, Gui!NoFault, Gui!desktop, Gui!preview
<1>6. ASSUME Gui!Setup PROVE Shown'
  BY <1>6 DEF Gui!Setup, Gui!Goto, Gui!Fails, Gui!NoFault, Gui!desktop, Gui!preview
<1>7. ASSUME Gui!Look PROVE Shown'
  BY <1>7 DEF Gui!Look, Gui!Goto, Gui!NoFault, Gui!Fault, Gui!desktop, Gui!preview
<1>8. ASSUME Gui!Compare PROVE Shown'
  BY <1>8 DEF Gui!Compare, Gui!Goto, Gui!NoFault, Gui!Fault, Gui!desktop, Gui!preview
<1>9. ASSUME Gui!TearDown PROVE Shown'
  BY <1>9 DEF Gui!TearDown, Gui!StopDesktop, Gui!Goto, Gui!Fails, Gui!NoFault, Gui!Fault,
      Gui!desktop
<1>10. ASSUME Gui!Launch PROVE Shown'
  BY <1>10 DEF Gui!Launch, Gui!Goto, Gui!desktop, Gui!NoFault, Gui!preview
<1>11. ASSUME Gui!Socket PROVE Shown'
  BY <1>11 DEF Gui!Socket, Gui!Goto, Gui!Fails, Gui!NoFault, Gui!preview
<1>12. ASSUME Gui!WaitReady PROVE Shown'
  BY <1>12 DEF Gui!WaitReady, Gui!Goto, Gui!Runs, Gui!NoFault, Gui!desktop, Gui!preview
<1>13. ASSUME Gui!WaitAlive PROVE Shown'
  BY <1>13 DEF Gui!WaitAlive, Gui!Goto, Gui!NoFault, Gui!desktop, Gui!preview
<1>14. ASSUME Gui!ShowPage PROVE Shown'
  BY <1>14 DEF Gui!ShowPage, Gui!Runs, Gui!NoFault, Gui!desktop, Gui!preview, Gui!Goto
<1>15. ASSUME Gui!ShowApp PROVE Shown'
  <2>1. /\ at = "show" /\ at' = "idle" /\ opening = "app" /\ opening' = "app" /\ wish' = wish
        /\ UNCHANGED <<sway, vnc, stamp, marker, stops, disturbed>>
    BY <1>15 DEF Gui!ShowApp, Gui!Runs, Gui!Fails, Gui!Goto, Gui!NoFault, Gui!desktop
  <2>2. status' # "stopped" /\ (status' = "running" /\ sway = "up" => app' \/ told')
    BY <1>15, Zenon DEF Gui!ShowApp, Gui!Runs, Gui!Fails
  <2> QED
    BY <2>1, <2>2
<1>16. ASSUME Gui!Stop PROVE Shown'
  BY <1>16 DEF Gui!Stop, Gui!request, Gui!desktop, Gui!preview
<1>17. ASSUME Gui!Stopped PROVE Shown'
  BY <1>17 DEF Gui!Stopped, Gui!StopDesktop, Gui!Fault, Gui!desktop, Gui!request,
      Gui!NoFault
<1>18. ASSUME Gui!Stamps PROVE Shown'
  BY <1>18 DEF Gui!Stamps, Gui!request, Gui!preview
<1>19. ASSUME Gui!Gone PROVE Shown'
  BY <1>19 DEF Gui!Gone, Gui!request, Gui!preview
<1>20. ASSUME Gui!Dies PROVE Shown'
  BY <1>20 DEF Gui!Dies, Gui!Fault, Gui!request
<1>21. ASSUME Gui!Answers PROVE Shown'
  BY <1>21 DEF Gui!Answers, Gui!request, Gui!desktop
<1>22. ASSUME Gui!Ends PROVE Shown'
  BY <1>22 DEF Gui!Ends, Gui!Fault, Gui!request, Gui!desktop
<1>23. CASE UNCHANGED Gui!vars
  BY <1>23 DEF Gui!vars, Gui!desktop, Gui!request, Gui!preview
<1> QED
  BY <1>1, <1>2, <1>3, <1>4, <1>5, <1>6, <1>7, <1>8, <1>9, <1>10, <1>11, <1>12, <1>13,
      <1>14, <1>15, <1>16, <1>17, <1>18, <1>19, <1>20, <1>21, <1>22, <1>23 DEF Gui!Next,
      Gui!Works

\* AgentGuiService, startGui: after any requests, restarts and failures that are not excused,
\* a desktop shown as running is there with the keyboard asked for last and shows what it
\* should, and one shown as stopped is off; and every state variable keeps its type.
LEMMA DesktopHolds ==
  ASSUME Gui!DesktopAssumption
  PROVE  Gui!Spec => [](Gui!TypeOK /\ Gui!StatusIsTrue)
<1>1. Gui!Init => Flags /\ GuiValues /\ Shown
  BY GuiInit, FlagsAndKinds
<1>2. Flags /\ GuiValues /\ Shown /\ [Gui!Next]_(Gui!vars) => (Flags /\ GuiValues /\ Shown)'
  BY GuiFlags, GuiKinds, GuiShown
<1>3. Flags /\ GuiValues /\ Shown => Gui!TypeOK /\ Gui!StatusIsTrue
  BY FlagsAndKinds DEF Shown
<1> QED
  BY <1>1, <1>2, <1>3, PTL DEF Gui!Spec

-----------------------------------------------------------------------------
(* The parts.  An instance of a module of proofs brings the theorems along;    *)
(* what it defines is what the instance of the module itself defines.          *)

LibraryP == INSTANCE Artifacts_proofs WITH Knowledge <- {}, Skills <- Packages, Images <- {},
              files <- stored, req <- jobs
ChatP == INSTANCE Artifacts_proofs WITH Knowledge <- Entries, Skills <- {}, Images <- Pictures,
           files <- stored, req <- jobs

AllVars == <<part, vars, callVars, fileVars, guiVars>>

\* The part the files are read as.
ChatRuns == part = "chat"

\* The uploads and the skill packages of the run are those the proofs are about,
LEMMA LibraryAlike ==
  /\ Library!ItemsAssumption <=> LibraryP!ItemsAssumption
  /\ Library!Init <=> LibraryP!Init
  /\ Library!Next <=> LibraryP!Next
  /\ [Library!Next]_(Library!vars) <=> [LibraryP!Next]_(LibraryP!vars)
  /\ Library!TypeOK <=> LibraryP!TypeOK
  /\ Library!RowsHaveFiles <=> LibraryP!RowsHaveFiles
  BY Zenon DEF Library!ItemsAssumption, LibraryP!ItemsAssumption, Library!Init,
      LibraryP!Init, Library!Next, LibraryP!Next, Library!vars, LibraryP!vars,
      Library!TypeOK, LibraryP!TypeOK, Library!RowsHaveFiles, LibraryP!RowsHaveFiles,
      Library!Items, LibraryP!Items, Library!Idle, LibraryP!Idle, Library!CreateChecks,
      LibraryP!CreateChecks, Library!CreateSaves, LibraryP!CreateSaves,
      Library!CreateInserts, LibraryP!CreateInserts, Library!UpdateReads,
      LibraryP!UpdateReads, Library!UpdateSaves, LibraryP!UpdateSaves,
      Library!UpdateRenames, LibraryP!UpdateRenames, Library!DeleteReads,
      LibraryP!DeleteReads, Library!DeleteRows, LibraryP!DeleteRows, Library!DeleteFiles,
      LibraryP!DeleteFiles, Library!DeleteAllSkills, LibraryP!DeleteAllSkills,
      Library!ThreadReads, LibraryP!ThreadReads, Library!ThreadRows, LibraryP!ThreadRows,
      Library!ThreadRow, LibraryP!ThreadRow, Library!ThreadFiles, LibraryP!ThreadFiles,
      Library!Lists, LibraryP!Lists, Library!Keeps, LibraryP!Keeps, Library!Unlinks,
      LibraryP!Unlinks, Library!SweepEnds, LibraryP!SweepEnds, Library!Upload,
      LibraryP!Upload, Library!Send, LibraryP!Send, Library!Tick, LibraryP!Tick,
      Library!Crash, LibraryP!Crash, Library!Old, LibraryP!Old, Library!Kin, LibraryP!Kin,
      Library!Go, LibraryP!Go, Library!Step, LibraryP!Step, Library!Saved, LibraryP!Saved,
      Library!Removed, LibraryP!Removed, Library!End, LibraryP!End, Library!Eligible,
      LibraryP!Eligible

\* and the knowledge entries with the pictures of messages.
LEMMA ChatAlike ==
  /\ Chat!ItemsAssumption <=> ChatP!ItemsAssumption
  /\ Chat!Init <=> ChatP!Init
  /\ Chat!Next <=> ChatP!Next
  /\ [Chat!Next]_(Chat!vars) <=> [ChatP!Next]_(ChatP!vars)
  /\ Chat!TypeOK <=> ChatP!TypeOK
  /\ Chat!RowsHaveFiles <=> ChatP!RowsHaveFiles
  BY Zenon DEF Chat!ItemsAssumption, ChatP!ItemsAssumption, Chat!Init, ChatP!Init,
      Chat!Next, ChatP!Next, Chat!vars, ChatP!vars, Chat!TypeOK, ChatP!TypeOK,
      Chat!RowsHaveFiles, ChatP!RowsHaveFiles, Chat!Items, ChatP!Items, Chat!Idle,
      ChatP!Idle, Chat!CreateChecks, ChatP!CreateChecks, Chat!CreateSaves,
      ChatP!CreateSaves, Chat!CreateInserts, ChatP!CreateInserts, Chat!UpdateReads,
      ChatP!UpdateReads, Chat!UpdateSaves, ChatP!UpdateSaves, Chat!UpdateRenames,
      ChatP!UpdateRenames, Chat!DeleteReads, ChatP!DeleteReads, Chat!DeleteRows,
      ChatP!DeleteRows, Chat!DeleteFiles, ChatP!DeleteFiles, Chat!DeleteAllSkills,
      ChatP!DeleteAllSkills, Chat!ThreadReads, ChatP!ThreadReads, Chat!ThreadRows,
      ChatP!ThreadRows, Chat!ThreadRow, ChatP!ThreadRow, Chat!ThreadFiles,
      ChatP!ThreadFiles, Chat!Lists, ChatP!Lists, Chat!Keeps, ChatP!Keeps, Chat!Unlinks,
      ChatP!Unlinks, Chat!SweepEnds, ChatP!SweepEnds, Chat!Upload, ChatP!Upload, Chat!Send,
      ChatP!Send, Chat!Tick, ChatP!Tick, Chat!Crash, ChatP!Crash, Chat!Old, ChatP!Old,
      Chat!Kin, ChatP!Kin, Chat!Go, ChatP!Go, Chat!Step, ChatP!Step, Chat!Saved,
      ChatP!Saved, Chat!Removed, ChatP!Removed, Chat!End, ChatP!End, Chat!Eligible,
      ChatP!Eligible

\* No part moves another: each part runs as if it were alone.
LEMMA PartsStep ==
  ASSUME [PartsNext]_AllVars
  PROVE  /\ [Next]_vars
         /\ [Calls!Next]_(Calls!vars)
         /\ [Gui!Next]_(Gui!vars)
         /\ part' = part
         /\ part = "chat" => [Chat!Next]_(Chat!vars)
         /\ part # "chat" => [Library!Next]_(Library!vars)
  BY Zenon DEF PartsNext, AllVars, callVars, fileVars, guiVars, Calls!vars, Gui!vars,
     Gui!request, Gui!desktop, Gui!preview, Chat!vars, Library!vars, vars

\* A behaviour of the parts is one of each: the proofs of a part hold beside the others.
LEMMA PartsAlone ==
  PartsSpec => /\ Spec /\ Calls!Spec /\ Gui!Spec
               /\ ([]ChatRuns /\ ChatP!Spec) \/ ([](~ChatRuns) /\ LibraryP!Spec)
<1>1. PartsInit => /\ Init /\ Calls!Init /\ Gui!Init
                   /\ ChatRuns => ChatP!Init
                   /\ ~ChatRuns => LibraryP!Init
  BY ChatAlike, LibraryAlike DEF PartsInit, ChatRuns
<1>2. [PartsNext]_AllVars => /\ [Next]_vars /\ [Calls!Next]_(Calls!vars) /\ [Gui!Next]_(Gui!vars)
                             /\ ChatRuns <=> ChatRuns'
                             /\ ChatRuns => [ChatP!Next]_(ChatP!vars)
                             /\ ~ChatRuns => [LibraryP!Next]_(LibraryP!vars)
  BY PartsStep, ChatAlike, LibraryAlike DEF ChatRuns
<1> QED
  BY <1>1, <1>2, PTL DEF PartsSpec, AllVars, Spec, Calls!Spec, Gui!Spec, ChatP!Spec, LibraryP!Spec

\* Requests that change different sections of the settings never undo one another
\* (updateSettingSection sets one key of the document), however many there are, wherever
\* they fail and whenever a clean-up (performCleanup) writes the document.
THEOREM SectionsAreKept == PartsSpec => []NothingLost
<1>1. Kept => NothingLost
  BY DEF Kept, UpToDate, Same, Sections, NothingLost
<1> QED BY <1>1, AlwaysKept, PartsAssumption, PartsAlone, PTL

\* What the document names exists: the orders in which deleteModel, addModel,
\* handleCallback, the upload of a logo and the clean-up save, name and delete never leave a
\* section with a key, credential or file that is gone, for any number of requests.
THEOREM NamesResolve == PartsSpec => []ReferencesResolve
<1>1. Kept => ReferencesResolve
  BY DEF Kept
<1> QED BY <1>1, AlwaysKept, PartsAssumption, PartsAlone, PTL

\* waitForToolApproval, askUserQuestion: however the waits of any number of calls end, a
\* card on a client, a listener of the emitters and a suspended handler come and go
\* together, and running turns ask one thing at a time.
THEOREM EveryCardIsLive == PartsSpec => []CardsAreLive
<1>1. Calls!Spec => []Calls!CardsAreLive
  BY DecisionsHold, PartsAssumption, PTL
<1> QED BY <1>1, PartsAlone, PTL DEF CardsAreLive

\* executeMcpTool: no tool of an MCP server runs, or has a result, unless the user
\* approved that call while it waited or a rule of the user allows it.
THEOREM ToolsHaveConsent == PartsSpec => []ConsentBeforeRun
<1>1. Calls!Spec => []Calls!ConsentBeforeRun
  BY DecisionsHold, PartsAssumption, PTL
<1> QED BY <1>1, PartsAlone, PTL DEF ConsentBeforeRun

\* ToolApprovalEmitter, QuestionEmitter: what a call was decided to be stays, whatever
\* answers, timeouts and stops come after it.
THEOREM DecisionsStand == PartsSpec => FirstDecisionStands
<1>1. Calls!Spec => Calls!FirstDecisionStands
  BY DecisionsStay, PartsAssumption
<1> QED BY <1>1, PartsAlone DEF FirstDecisionStands

\* FileUploadService, FileCleanupService: a row has its file, but for the picture of a
\* message that was sent long after its upload.
THEOREM EveryRowHasItsFile == PartsSpec => []RowsHaveFiles
<1>1. (ChatP!Spec => []ChatP!RowsHaveFiles) /\ (LibraryP!Spec => []LibraryP!RowsHaveFiles)
  BY ChatAlike, LibraryAlike, ChatP!EveryRowHasItsFile, LibraryP!EveryRowHasItsFile,
     PartsAssumption
<1>2. /\ ChatRuns /\ ChatP!RowsHaveFiles => RowsHaveFiles
      /\ ~ChatRuns /\ LibraryP!RowsHaveFiles => RowsHaveFiles
  BY ChatAlike, LibraryAlike DEF RowsHaveFiles, ChatRuns
<1> QED
  BY <1>1, <1>2, PartsAlone, PTL

\* startGui, runExclusive: what clients are shown of the desktop, its keyboard and what it
\* shows is what is there, but for what crossed or failed beneath the last request.
THEOREM ShownIsThere == PartsSpec => []StatusIsTrue
<1>1. Gui!Spec => []Gui!StatusIsTrue
  BY DesktopHolds, PartsAssumption, PTL
<1>2. Gui!StatusIsTrue <=> StatusIsTrue
  BY DEF StatusIsTrue
<1> QED
  BY <1>1, <1>2, PartsAlone, PTL

\* Every state variable of every part keeps its type.
THEOREM TypesCorrect == PartsSpec => []TypesOK
<1>1. /\ Kept => TypeOK
      /\ ChatP!Spec => []ChatP!TypeOK
      /\ LibraryP!Spec => []LibraryP!TypeOK
  BY ChatAlike, ChatP!TypeCorrect, LibraryAlike, LibraryP!TypeCorrect, PartsAssumption DEF Kept
<1>2. (Gui!Spec => []Gui!TypeOK) /\ (Calls!Spec => []Calls!TypeOK)
  BY DesktopHolds, DecisionsHold, PartsAssumption, PTL
<1>3. PartsInit => part \in {"waits", "settings", "library", "chat", "gui"}
  BY DEF PartsInit
<1>4. part \in {"waits", "settings", "library", "chat", "gui"} /\ [PartsNext]_AllVars
        => (part \in {"waits", "settings", "library", "chat", "gui"})'
  BY PartsStep
<1>5. (/\ part \in {"waits", "settings", "library", "chat", "gui"}
       /\ TypeOK /\ Calls!TypeOK /\ Gui!TypeOK
       /\ (ChatRuns /\ ChatP!TypeOK) \/ (~ChatRuns /\ LibraryP!TypeOK))
      => TypesOK
  BY ChatAlike, LibraryAlike DEF TypesOK, ChatRuns
<1> QED
  BY <1>1, <1>2, <1>3, <1>4, <1>5, AlwaysKept, PartsAssumption, PartsAlone, PTL
     DEF PartsSpec, AllVars
=============================================================================
