------------------------------ MODULE ChatPage ------------------------------
(***************************************************************************)
(* The page of a chat thread (chat.tsx with chatReducer) against the server *)
(* that saves its rows: optimistic messages that get their ids at the end,  *)
(* the poll of a page that finds an answer being generated, stop with the   *)
(* reload after it, edits, errors, and a page that is left and opened again.*)
(*                                                                         *)
(* One page; a request that saves rows is a send or an edit of it, and is   *)
(* numbered.  Its rows are the question and one answer; ChatStream has the  *)
(* tool calls between them and requests of other pages.                     *)
(***************************************************************************)
EXTENDS Naturals, Sequences, SequencesExt

CONSTANTS
  NumSends,   \* requests
  MaxStops,   \* bound: stops, at this page or another
  MaxFaults,  \* bound: requests and reads that fail
  MaxOpens    \* bound: how often the page is opened

\* What the bounds have to be.
PageAssumption ==
  /\ NumSends \in Nat \ {0}
  /\ {MaxStops, MaxFaults, MaxOpens} \subseteq Nat

VARIABLES
  up,          \* messages: parent_message_id of the rows there are
  leaf,        \* threads: current_leaf_message_id
  generating,  \* threads: generating_since is set
  at,          \* per request: where the server is with it
  below,       \* per request: parentMessageId
  edit,        \* per request: it is an edit
  stopped,     \* per request: its AbortController
  notes,       \* stops on their way by NOTIFY
  wire,        \* per request: events of its response that were not read yet
  open,        \* the page is open
  shown,       \* messages
  first,       \* initialMessages
  editing,     \* editingMessageId: the form of this message is open
  locked,      \* isGeneratingLocked
  controller,  \* abortControllerRef: the request it belongs to
  fetch,       \* per request: its response is read, or no longer
  gets,        \* reads of the thread under way
  off,         \* ghost: why the page may differ from the thread
  stops, faults, opens

rows == <<up, leaf, generating>>
server == <<at, stopped, wire>>
request == <<below, edit>>
thread == <<rows, server, request, notes>>
page == <<open, shown, first, editing, locked, controller, fetch, gets, off>>
bounds == <<stops, faults, opens>>
vars == <<thread, page, bounds>>

Request == 1..NumSends
NoRequest == 0
NoId == <<0, "none">>
Question(s) == <<s, "user">>
Answer(s) == <<s, "assistant">>
Id == {NoId} \union (Request \X {"user", "assistant"})

Init ==
  /\ up = [m \in {} |-> NoId] /\ leaf = NoId /\ generating = FALSE
  /\ at = [s \in Request |-> "new"]
  /\ below = [s \in Request |-> NoId] /\ edit = [s \in Request |-> FALSE]
  /\ stopped = [s \in Request |-> FALSE] /\ notes = 0
  /\ wire = [s \in Request |-> <<>>]
  /\ open = FALSE /\ shown = <<>> /\ first = <<>> /\ editing = NoId /\ locked = FALSE
  /\ controller = NoRequest /\ fetch = [s \in Request |-> "none"]
  /\ gets = <<>> /\ off = {}
  /\ stops = 0 /\ faults = 0 /\ opens = 0

\* The elements of s that are in S, in their order.
Only(s, S) ==
  LET upto[i \in 0..Len(s)] ==
        IF i = 0 THEN <<>>
        ELSE IF s[i] \in S THEN Append(upto[i - 1], s[i]) ELSE upto[i - 1]
  IN upto[Len(s)]

Fault == faults < MaxFaults /\ faults' = faults + 1 /\ UNCHANGED <<stops, opens>>
StopAllowed == stops < MaxStops /\ stops' = stops + 1 /\ UNCHANGED <<faults, opens>>

\* findPath of the leaf: no row is below it.
Path ==
  LET above[m \in DOMAIN up \union {NoId}] ==
        IF m = NoId THEN <<>> ELSE Append(above[up[m]], m)
  IN above[leaf]

-----------------------------------------------------------------------------
UnderWay == {s \in Request : at[s] \notin {"new", "done"}}
Moves(s, to) == at' = [at EXCEPT ![s] = to]
Writes(s, event) == wire' = [wire EXCEPT ![s] = Append(@, event)]
\* addMessage.
Insert(m, above) ==
  /\ up' = [i \in DOMAIN up \union {m} |-> IF i = m THEN above ELSE up[i]]
  /\ leaf' = m

\* The request arrives: the lock is set before anything is saved.
Begin(s) ==
  /\ at[s] = "sent"
  /\ generating' = TRUE
  /\ Moves(s, "setup")
  /\ UNCHANGED <<up, leaf, stopped, wire, request, notes, page, bounds>>

SaveQuestion(s) ==
  /\ at[s] = "setup"
  /\ Insert(Question(s), below[s])
  /\ Moves(s, "model")
  /\ UNCHANGED <<generating, stopped, wire, request, notes, page, bounds>>

SaveAnswer(s) ==
  /\ at[s] = "model" /\ ~stopped[s]
  /\ Insert(Answer(s), Question(s))
  /\ Moves(s, "saved")
  /\ UNCHANGED <<generating, stopped, wire, request, notes, page, bounds>>

\* processMessageStream returns with what is saved, also after a stop.
Finish(s) ==
  /\ at[s] = "saved" \/ (at[s] = "model" /\ stopped[s])
  /\ Moves(s, "title")
  /\ Writes(s, "done")
  /\ UNCHANGED <<rows, stopped, request, notes, page, bounds>>

\* Only the first message waits here for its title.
End(s) ==
  /\ at[s] = "title"
  /\ Moves(s, "release")
  /\ Writes(s, "end")
  /\ UNCHANGED <<rows, stopped, request, notes, page, bounds>>

\* The model, a query or the update of the title fails.
Breaks(s) ==
  /\ at[s] \in {"setup", "model"} \/ (at[s] = "title" /\ below[s] = NoId /\ ~edit[s])
  /\ Fault
  /\ Moves(s, "release")
  /\ Writes(s, "error")
  /\ UNCHANGED <<rows, stopped, request, notes, page>>

\* releaseGeneratingLock: whoever set it.
Release(s) ==
  /\ at[s] = "release"
  /\ Moves(s, "done")
  /\ generating' = FALSE
  /\ UNCHANGED <<up, leaf, stopped, wire, request, notes, page, bounds>>

\* The registry knows the request that came last, until it ends.
DeliverStop ==
  /\ notes > 0
  /\ notes' = notes - 1
  /\ stopped' = [s \in Request |-> stopped[s] \/
                   (/\ at[s] \in {"setup", "model"}
                    /\ \A r \in Request : r > s => at[r] \in {"new", "sent"})]
  /\ UNCHANGED <<rows, at, wire, request, page, bounds>>

StopElsewhere ==
  /\ StopAllowed
  /\ UnderWay # {}
  /\ notes' = notes + 1
  /\ UNCHANGED <<rows, server, request, page>>

-----------------------------------------------------------------------------
Locked == locked \/ \E i \in DOMAIN shown : shown[i].streaming
\* A request that will save rows or is saving them.
Saving(s) == at[s] \in {"sent", "setup", "model", "saved"}
\* Responses that have ids still to come.
Pending ==
  {s \in Request : fetch[s] = "open" /\
     (Saving(s) \/ (wire[s] # <<>> /\ Head(wire[s]) = "done"))}

\* convertThreadMessages.
Stored(path) ==
  [i \in DOMAIN path |-> [text |-> path[i], id |-> path[i], streaming |-> FALSE]]
Bubble(text) == [text |-> text, id |-> NoId, streaming |-> TRUE]
Optimistic(s) ==
  <<[text |-> Question(s), id |-> NoId, streaming |-> FALSE], Bubble(Answer(s))>>

WithIds == Only([i \in DOMAIN shown |-> shown[i].id], Id \ {NoId})
\* The last message that has an id.
Confirmed == LET ids == WithIds IN IF ids = <<>> THEN NoId ELSE Last(ids)

\* A request for what follows the messages that are kept.
Ask(s, kept, parent, edits) ==
  /\ open
  /\ at[s] = "new" /\ \A r \in Request : r < s => at[r] # "new"
  /\ Moves(s, "sent")
  /\ below' = [below EXCEPT ![s] = parent] /\ edit' = [edit EXCEPT ![s] = edits]
  /\ shown' = kept \o Optimistic(s)
  /\ controller' = s /\ fetch' = [fetch EXCEPT ![s] = "open"]
  /\ UNCHANGED <<rows, stopped, wire, notes, open, first, locked, gets, bounds>>

\* handleSendMessage: below the last message that does not stream, which need not
\* have an id.
Send(s) ==
  LET parent == IF shown = <<>> THEN NoId ELSE Last(shown).id IN
  /\ ~Locked
  /\ Ask(s, shown, parent, FALSE)
  /\ UNCHANGED editing
  /\ off' = off \union (IF parent # Confirmed THEN {"astray"} ELSE {})
                \union (IF Pending # {} THEN {"crossed"} ELSE {})

\* The form of a question is opened or closed.
EditStart(m) ==
  /\ open /\ m # editing
  /\ \/ m = NoId
     \/ ~Locked /\ \E i \in DOMAIN shown : shown[i].text[2] = "user" /\ shown[i].id = m
  /\ editing' = m
  /\ UNCHANGED <<thread, open, shown, first, locked, controller, fetch, gets, off,
                 bounds>>

\* handleEditMessage, by a retry or from the form, which stays open when a message is
\* sent; the server looks up what the question was below.
Edit(s, i) ==
  /\ ~Locked \/ editing = shown[i].id
  /\ editing' = NoId
  /\ shown[i].id \in DOMAIN up /\ shown[i].text[2] = "user"
  /\ Ask(s, SubSeq(shown, 1, i - 1), up[shown[i].id], TRUE)
  /\ off' = off \union (IF Pending # {} THEN {"crossed"} ELSE {})

\* SET_MESSAGES; what the page shows is wrong if it was read too early, or while the
\* ids of other messages are still to come.
Set(messages, early, waits) ==
  /\ shown' = messages
  /\ off' = (IF early THEN {"behind"} ELSE {})
              \union (IF waits # {} THEN {"crossed"} ELSE {})

-----------------------------------------------------------------------------
\* COMPLETE_STREAMING, with the ids of the rows that were saved.
Complete(s, messages) ==
  LET n == Len(messages) IN
  [i \in DOMAIN messages |->
     IF i = n - 1 /\ messages[i].text[2] = "user"
     THEN [messages[i] EXCEPT !.id = Question(s)]
     ELSE IF i = n /\ messages[i].streaming
     THEN [messages[i] EXCEPT !.streaming = FALSE,
                              !.id = IF Answer(s) \in DOMAIN up THEN Answer(s) ELSE NoId]
     ELSE messages[i]]

\* REVERT_SEND.
Reverted(messages) ==
  LET rest == IF Len(messages) >= 2 /\ Last(messages).streaming
              THEN Front(messages) ELSE messages
  IN IF Len(messages) >= 2 /\ Last(rest).text[2] = "user" THEN Front(rest) ELSE rest

\* onComplete.
Receive(s) ==
  /\ fetch[s] = "open" /\ wire[s] # <<>> /\ Head(wire[s]) = "done"
  /\ wire' = [wire EXCEPT ![s] = Tail(@)]
  /\ shown' = Complete(s, shown)
  /\ controller' = NoRequest
  /\ UNCHANGED <<rows, at, stopped, request, notes, open, first, editing, locked,
                 fetch, gets, off, bounds>>

\* The response is read to its end; the finally clears the controller, whosever it is.
Ends(s) ==
  /\ fetch[s] = "open" /\ wire[s] # <<>> /\ Head(wire[s]) = "end"
  /\ fetch' = [fetch EXCEPT ![s] = "closed"]
  /\ controller' = NoRequest
  /\ UNCHANGED <<thread, open, shown, first, editing, locked, gets, off, bounds>>

\* An error in the response, or the connection breaks.  After an edit the messages of
\* the opening come back.
Fails(s) ==
  /\ fetch[s] = "open"
  /\ \/ wire[s] # <<>> /\ Head(wire[s]) = "error" /\ UNCHANGED bounds
     \/ Fault
  /\ fetch' = [fetch EXCEPT ![s] = "closed"]
  /\ controller' = NoRequest
  /\ LET others == Pending \ {s} IN
     IF edit[s] THEN Set(Stored(first), TRUE, others)
     ELSE /\ shown' = Reverted(shown)
          /\ off' = off \union {"behind"} \union (IF others # {} THEN {"crossed"} ELSE {})
  /\ UNCHANGED <<thread, open, first, editing, locked, gets>>

-----------------------------------------------------------------------------
Get(why) ==
  [why |-> why, at |-> "asked", path |-> <<>>, generating |-> FALSE, early |-> FALSE]
\* Variant: polls under way are not cancelled with their interval.
AllReads(reads) == reads
\* Clearing the interval cancels the polls under way.
NoPolls(reads) == Only(reads, {g \in ToSet(reads) : g.why # "poll"})

\* handleStopStreaming: the fetch is aborted, which reloads the thread; the server is
\* told, if it can be reached.
Stop ==
  /\ open /\ Locked /\ StopAllowed
  /\ locked' = FALSE
  /\ shown' = [i \in DOMAIN shown |-> [shown[i] EXCEPT !.streaming = FALSE]]
  /\ controller' = NoRequest
  /\ IF controller = NoRequest
     THEN gets' = NoPolls(gets) /\ off' = off \union {"behind"} /\ UNCHANGED fetch
     ELSE /\ fetch' = [fetch EXCEPT ![controller] = "closed"]
          /\ gets' = Append(NoPolls(gets), Get("reload"))
          /\ UNCHANGED off
  /\ notes' \in {notes, notes + 1}
  /\ UNCHANGED <<rows, server, request, open, first, editing>>

\* The interval of a page that was opened while an answer was generated.
Poll ==
  /\ open /\ locked
  /\ \A i \in DOMAIN gets : gets[i].why # "poll"
  /\ gets' = Append(gets, Get("poll"))
  /\ UNCHANGED <<thread, open, shown, first, editing, locked, controller, fetch, off,
                 bounds>>

\* The loader of the route.
Open ==
  /\ ~open /\ gets = <<>> /\ opens < MaxOpens
  /\ opens' = opens + 1
  /\ gets' = <<Get("open")>>
  /\ UNCHANGED <<thread, open, shown, first, editing, locked, controller, fetch, off,
                 stops, faults>>

\* GET messages: the path of the leaf first, the lock after it.
ReadPath(i) ==
  /\ gets[i].at = "asked"
  /\ gets' = [gets EXCEPT ![i].at = "path", ![i].path = Path]
  /\ UNCHANGED <<thread, open, shown, first, editing, locked, controller, fetch, off,
                 bounds>>
ReadLock(i) ==
  /\ gets[i].at = "path"
  /\ gets' = [gets EXCEPT ![i].at = "read", ![i].generating = generating,
                ![i].early = ~generating /\ (gets[i].path # Path \/ UnderWay # {})]
  /\ UNCHANGED <<thread, open, shown, first, editing, locked, controller, fetch, off,
                 bounds>>

GetFails(i) ==
  /\ Fault
  /\ gets' = RemoveAt(gets, i)
  /\ off' = IF gets[i].why = "reload" THEN off \union {"behind"} ELSE off
  /\ UNCHANGED <<thread, open, shown, first, editing, locked, controller, fetch>>

Opened(i) ==
  LET g == gets[i] IN
  /\ g.at = "read" /\ g.why = "open"
  /\ gets' = RemoveAt(gets, i)
  /\ open' = TRUE /\ first' = g.path /\ locked' = g.generating
  /\ Set(Stored(g.path) \o IF g.generating THEN <<Bubble(<<0, "assistant">>)>> ELSE <<>>,
         g.early, {})
  /\ UNCHANGED <<thread, editing, controller, fetch, bounds>>

\* Variant: the messages are taken whether or not an answer is generated.
PolledAnyway(i) ==
  LET g == gets[i] IN
  /\ g.at = "read" /\ g.why = "poll"
  /\ gets' = RemoveAt(gets, i)
  /\ Set(Stored(g.path), g.early, {}) /\ locked' = FALSE
  /\ UNCHANGED <<thread, open, first, editing, controller, fetch, bounds>>

\* The page is unlocked when nothing is generated any more.
Polled(i) ==
  LET g == gets[i] IN
  /\ g.at = "read" /\ g.why = "poll"
  /\ gets' = RemoveAt(gets, i)
  /\ IF g.generating THEN UNCHANGED <<shown, off, locked>>
     ELSE Set(Stored(g.path), g.early, {}) /\ locked' = FALSE
  /\ UNCHANGED <<thread, open, first, editing, controller, fetch, bounds>>

\* The reload after an abort does not wait for the server to stop.
Reloaded(i) ==
  LET g == gets[i] IN
  /\ g.at = "read" /\ g.why = "reload"
  /\ gets' = RemoveAt(gets, i)
  /\ Set(Stored(g.path), UnderWay # {} \/ g.path # Path, Pending)
  /\ UNCHANGED <<thread, open, first, editing, locked, controller, fetch, bounds>>

\* The page is left or loaded again; its requests go on.
Leave ==
  /\ open /\ opens < MaxOpens
  /\ open' = FALSE /\ shown' = <<>> /\ first' = <<>> /\ editing' = NoId /\ locked' = FALSE
  /\ controller' = NoRequest
  /\ fetch' = [s \in Request |-> IF fetch[s] = "open" THEN "closed" ELSE fetch[s]]
  /\ gets' = <<>> /\ off' = {}
  /\ UNCHANGED <<thread, bounds>>

Next ==
  \/ \E s \in Request :
       \/ Begin(s) \/ SaveQuestion(s) \/ SaveAnswer(s) \/ Finish(s) \/ End(s)
       \/ Breaks(s) \/ Release(s)
       \/ Send(s) \/ Receive(s) \/ Ends(s) \/ Fails(s)
       \/ \E i \in DOMAIN shown : Edit(s, i)
  \/ DeliverStop \/ StopElsewhere
  \/ Stop \/ Poll \/ Open \/ Leave
  \/ \E m \in Id : EditStart(m)
  \/ \E i \in DOMAIN gets :
       ReadPath(i) \/ ReadLock(i) \/ GetFails(i) \/ Opened(i) \/ Polled(i) \/ Reloaded(i)

Spec == Init /\ [][Next]_vars

-----------------------------------------------------------------------------
Message == [text : Id \union {<<0, "assistant">>}, id : Id, streaming : BOOLEAN]
Read == [why : {"open", "poll", "reload"}, at : {"asked", "path", "read"},
         path : Seq(Id), generating : BOOLEAN, early : BOOLEAN]

\* Every variable has its type.
TypeOK ==
  /\ DOMAIN up \subseteq Id /\ \A m \in DOMAIN up : up[m] \in DOMAIN up \union {NoId}
  /\ leaf \in DOMAIN up \union {NoId}
  /\ at \in [Request -> {"new", "sent", "setup", "model", "saved", "title", "release",
                          "done"}]
  /\ below \in [Request -> Id]
  /\ {edit, stopped} \subseteq [Request -> BOOLEAN]
  /\ wire \in [Request -> Seq({"done", "end", "error"})]
  /\ {generating, open, locked} \subseteq BOOLEAN
  /\ shown \in Seq(Message) /\ first \in Seq(Id) /\ gets \in Seq(Read)
  /\ editing \in Id /\ controller \in Request \union {NoRequest}
  /\ fetch \in [Request -> {"none", "open", "closed"}]
  /\ off \subseteq {"astray", "crossed", "behind"}
  /\ notes \in 0..MaxStops /\ stops \in 0..MaxStops
  /\ faults \in 0..MaxFaults /\ opens \in 0..MaxOpens

\* The id of a message on the page is that of its text.
IdsFit == \A i \in DOMAIN shown : shown[i].id \in {NoId, shown[i].text}

\* The messages that have ids hang below one another.
OneConversation ==
  LET ids == WithIds
  IN \A i \in DOMAIN ids : up[ids[i]] = IF i = 1 THEN NoId ELSE ids[i - 1]

AtRest == open /\ ~Locked /\ gets = <<>> /\ Pending = {} /\ UnderWay = {}

\* What a message on the page says and what an edit of it would replace are one row;
\* the rows are one conversation, and when nothing is under way it is the one the
\* thread would show if it were opened again (chatReducer, chat.tsx).  Three cases
\* are excused: a message sent below one without an id, a page filled anew while a
\* response has ids to bring, and messages read before what was being saved.
PageFollows ==
  /\ "crossed" \notin off => IdsFit
  /\ off \intersect {"astray", "crossed"} = {} => OneConversation
  /\ AtRest /\ off = {} => WithIds = Path

\* "Get the ID of the last confirmed message (used as parentMessageId)"
\* (chat.tsx:519): a message is sent below the last message that has an id.
SentBelowConfirmed ==
  [][\A s \in Request : at[s] = "new" /\ at'[s] = "sent" /\ ~edit'[s] =>
       below'[s] = Confirmed]_vars
=============================================================================
