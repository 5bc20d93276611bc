---------------------------- MODULE AgentEvents ----------------------------
(***************************************************************************)
(* What a session of the coding agent persists and what a client sees of    *)
(* it: the save chain of AgentSessionService, the NOTIFY channel of         *)
(* AgentEventBus, the relay that subscribes a web socket, the snapshot the  *)
(* client loads over REST, and the client's reducer.                        *)
(*                                                                         *)
(* The session runs on one server, which may crash, and the client is       *)
(* connected to another.  Every write and every NOTIFY is a query on        *)
(* whichever connection is free; what keeps them in order are promise       *)
(* chains, here the sequences saves and notifies.  A query that fails is    *)
(* logged and left out, and the chain goes on; so is an event that is too   *)
(* long for a NOTIFY, as that of a queue with a long prompt.  Of the        *)
(* events the module keeps those that the messages, the queue, the status   *)
(* and the text still being written depend on; values not read again are    *)
(* forgotten.                                                               *)
(***************************************************************************)
EXTENDS Naturals, Sequences, SequencesExt

CONSTANTS
  NumPrompts,   \* bound: prompts the user sends, numbered as they arrive
  Parts,        \* bound: messages of a turn, the prompt's own the first
  MaxCrashes,   \* bound: ends of the server that runs the agent
  MaxRemovals,  \* bound: withdrawals that reach another server
  Watched,      \* bound: whether a client is there
  MaxPieces,    \* bound: pieces of text the model streams before a message
  MaxLag,       \* bound: writes and events under way when the agent acts
  MaxFailures,  \* bound: writes and events that are left out, breaks of the connection
  Unknown       \* the queue on the screen before anything was heard of it

Prompts == 1..NumPrompts

\* A message: every row has an id, so that one is never taken for that of an earlier session.
Message == [of : Prompts, part : 1..Parts, run : 0..MaxCrashes]

\* What the bounds have to be.
EventsAssumption ==
  /\ {NumPrompts, Parts, MaxCrashes, MaxRemovals, MaxPieces, MaxLag, MaxFailures}
       \subseteq Nat
  /\ Parts > 0
  /\ Watched \in BOOLEAN
  /\ Watched => MaxRemovals = 0   \* see RemoveWrites

VARIABLES
  \* the session on its server
  sent,      \* prompts the user has sent
  up,        \* the session is in the map
  queue,     \* prompts that wait in the agent
  running,   \* the prompt of the turn, 0 between turns
  said,      \* messages the turn has added
  pieces,    \* pieces streamed of the next one
  buffer,    \* session.stream: the messages whose text waits for its flush
  status,    \* the status last emitted
  history,   \* ghost: messages added by the sessions so far, those whose save failed left out
  saves,     \* session.saveQueue: writes not done yet
  notifies,  \* publishChain: events not delivered yet
  crashes,
  removal,   \* a withdrawal at another server: the queue it will write back
  removals,
  revived,   \* ghost: prompts such a write put back into the stored queue, or a write that
             \* failed left there
  missed,    \* ghost: the last write of the queue failed
  failures,
  \* the database
  row,       \* queue and status in the row of the project
  rows,      \* its messages in the order of seq
  \* the client's server, and the client
  socket,    \* frames on their way to the client
  link,      \* "off", "row" (the upgrade has read the row), "open"
  upgraded,  \* the status it read
  load,      \* the REST snapshot on its way: stage, row, rows
  view,      \* the reducer: status, queue, messages and the bubble, the messages whose
             \* text it streams
  heard,     \* queueEventSeen
  told       \* ghost: what was emitted since the client listens

turn == <<running, said, pieces, buffer>>
agent == <<sent, up, queue, turn, status, history>>
client == <<socket, link, upgraded, load, view, heard>>
elsewhere == <<removal, removals, revived, missed, failures>>
vars == <<agent, saves, notifies, crashes, elsewhere, row, rows, client, told>>

QueueEvent(q)  == [kind |-> "queue", queue |-> q]
StatusEvent(s) == [kind |-> "status", status |-> s]
MessageOf(m)   == [kind |-> "message", message |-> m]
ChunkEvent(ms) == [kind |-> "chunk", texts |-> ms]

NoLoad  == [stage |-> "none", row |-> [queue |-> <<>>, status |-> "idle"], rows |-> <<>>]
Silence == [queue |-> FALSE, status |-> FALSE, messages |-> {}, texts |-> {}]

Init ==
  /\ sent = 0
  /\ up = TRUE
  /\ queue = <<>>
  /\ running = 0
  /\ said = 0
  /\ pieces = 0
  /\ buffer = {}
  /\ status = "idle"
  /\ history = <<>>
  /\ saves = <<>>
  /\ notifies = <<>>
  /\ crashes = 0
  /\ removal = Unknown
  /\ removals = 0
  /\ revived = {}
  /\ missed = FALSE
  /\ failures = 0
  /\ row = [queue |-> <<>>, status |-> "idle"]
  /\ rows = <<>>
  /\ socket = <<>>
  /\ link = "off"
  /\ upgraded = "idle"
  /\ load = NoLoad
  /\ view = [status |-> "idle", queue |-> Unknown, messages |-> <<>>, bubble |-> {}]
  /\ heard = FALSE
  /\ told = Silence

-----------------------------------------------------------------------------
\* The client hears of what is emitted while its socket is open; of a status, a
\* message or its text only after the snapshot, which replaces them.
Listens == link = "open"
Loaded  == Listens /\ load.stage = "applied"
Texts(evs) == UNION {evs[i].texts : i \in {j \in DOMAIN evs : evs[j].kind = "chunk"}}
Tell(evs) ==
  LET kinds == {evs[i].kind : i \in DOMAIN evs}
  IN told' = [told EXCEPT !.queue = @ \/ ("queue" \in kinds /\ Listens),
                          !.status = @ \/ ("status" \in kinds /\ Loaded),
                          !.texts = IF Loaded THEN @ \union Texts(evs) ELSE @]
TellMessage(m) ==
  told' = IF Loaded THEN [told EXCEPT !.messages = @ \union {m}] ELSE told

\* The bound on what is under way when the agent acts; one act adds several.
Calm == Len(saves) <= MaxLag /\ Len(notifies) <= MaxLag

\* persistQueue, setStatus: the events evs, behind the text that is only shown, and behind
\* the earlier writes their own.
Emit(text, evs) ==
  /\ saves' = saves \o evs
  /\ notifies' = notifies \o text \o evs
  /\ Tell(text \o evs)

\* flushStream: what the buffer holds is emitted before anything that follows.
Flushed == IF buffer = {} THEN <<>> ELSE <<ChunkEvent(buffer)>>

\* The head of pump()'s loop on queue q, after the text and the events before:
\* onTurnStart and onQueueChanged of the next turn, or onIdle.
Pump(q, text, before) ==
  /\ queue' = IF q = <<>> THEN q ELSE Tail(q)
  /\ running' = IF q = <<>> THEN 0 ELSE Head(q)
  /\ said' = 0
  /\ pieces' = 0
  /\ status' = IF q = <<>> THEN "idle" ELSE "running"
  /\ Emit(text, before \o IF q = <<>> THEN <<StatusEvent("idle")>>
                          ELSE <<StatusEvent("running"), QueueEvent(Tail(q))>>)

\* submit(): the queue is shown with the prompt; an agent at rest starts on it.
Submit ==
  /\ up
  /\ Calm
  /\ sent < NumPrompts
  /\ sent' = sent + 1
  /\ LET q == Append(queue, sent + 1)
     IN IF running = 0
        THEN Pump(q, <<>>, <<QueueEvent(q)>>)
        ELSE /\ queue' = q
             /\ Emit(<<>>, <<QueueEvent(q)>>)
             /\ UNCHANGED <<running, said, pieces, status>>
  /\ UNCHANGED <<up, buffer, history, crashes, row, rows>>
  /\ UNCHANGED <<client, elsewhere>>

\* A submit finds no session: finishOwnedSession restores the stored messages
\* and the stored queue, on which the pump starts.
Restore ==
  /\ ~up
  /\ sent < NumPrompts
  /\ up' = TRUE
  /\ history' = rows
  /\ IF row.queue = <<>>
     THEN UNCHANGED <<queue, running, said, pieces, status, saves, notifies, told>>
     ELSE Pump(row.queue, <<>>, <<QueueEvent(row.queue)>>)
  /\ missed' = FALSE
  /\ UNCHANGED <<sent, buffer, crashes, row, rows, removal, removals, revived, failures>>
  /\ UNCHANGED client

\* removeFromQueue of the prompt at place i.
Withdraw(i) ==
  /\ Calm
  /\ queue' = RemoveAt(queue, i)
  /\ Emit(<<>>, <<QueueEvent(queue')>>)
  /\ UNCHANGED <<sent, up, turn, status, history, crashes, row, rows>>
  /\ UNCHANGED <<client, elsewhere>>

\* What the turn adds next.
NextMessage == [of |-> running, part |-> said + 1, run |-> crashes]

\* bufferStream: the model streams a piece of its next message; the timer is set.
Stream ==
  /\ said \in 1..(Parts - 1)
  /\ Calm
  /\ pieces < MaxPieces
  /\ pieces' = pieces + 1
  /\ buffer' = buffer \union {NextMessage}
  /\ UNCHANGED <<sent, up, queue, running, said, status, history, saves, notifies, crashes,
                 row, rows, told>>
  /\ UNCHANGED <<client, elsewhere>>

\* The timer fires, the buffer is full, or the model goes over to another kind of output.
Flush ==
  /\ buffer # {}
  /\ Calm
  /\ Emit(Flushed, <<>>)
  /\ buffer' = {}
  /\ UNCHANGED <<sent, up, queue, running, said, pieces, status, history, crashes, row, rows>>
  /\ UNCHANGED <<client, elsewhere>>

\* The turn adds the message m, after the events before.
Adds(m, before) ==
  /\ history' = Append(history, m)
  /\ saves' = Append(saves, MessageOf(m))
  /\ notifies' = notifies \o before
  /\ Tell(before)
  /\ said' = said + 1
  /\ pieces' = 0
  /\ UNCHANGED <<sent, up, queue, running, status, crashes, row, rows>>
  /\ UNCHANGED <<client, elsewhere>>

\* Variant: the text that waits is left to the timer.
SayUnflushed ==
  /\ running # 0
  /\ Calm
  /\ said < Parts
  /\ Adds(NextMessage, <<>>)
  /\ UNCHANGED buffer

\* onMessageAdded, persistMessage: the turn adds its next message.  A blank one and a
\* nudge are not stored and change nothing here.
Say ==
  /\ running # 0
  /\ Calm
  /\ said < Parts
  /\ Adds(NextMessage, Flushed)
  /\ buffer' = {}

\* Variant: the agent no longer counts as running when its turn is complete.
EndTurnCompleted(failed) ==
  /\ running # 0
  /\ Calm
  /\ Pump(queue, Flushed, IF failed THEN <<StatusEvent("failed"), QueueEvent(queue)>>
                                     ELSE <<StatusEvent("completed"), QueueEvent(queue)>>)
  /\ buffer' = {}
  /\ UNCHANGED <<sent, up, history, crashes, row, rows>>
  /\ UNCHANGED <<client, elsewhere>>

\* Variant: what waits when a turn ends is left to the timer.
EndTurnUnflushed(failed) ==
  /\ running # 0
  /\ Calm
  /\ Pump(queue, <<>>, IF failed THEN <<StatusEvent("failed"), QueueEvent(queue)>>
                                 ELSE <<QueueEvent(queue)>>)
  /\ UNCHANGED <<sent, up, buffer, history, crashes, row, rows>>
  /\ UNCHANGED <<client, elsewhere>>

\* onTurnComplete (which only repeats the status, isRunning() being still true),
\* onAbort or onError, the queue without the turn's prompt, and the next turn or
\* onIdle.
EndTurn(failed) ==
  /\ running # 0
  /\ Calm
  /\ Pump(queue, Flushed, IF failed THEN <<StatusEvent("failed"), QueueEvent(queue)>>
                                     ELSE <<QueueEvent(queue)>>)
  /\ buffer' = {}
  /\ UNCHANGED <<sent, up, history, crashes, row, rows>>
  /\ UNCHANGED <<client, elsewhere>>

\* The server of the session ends: its memory is gone, with the writes and the
\* events it still held.
Crash ==
  /\ up
  /\ crashes < MaxCrashes
  /\ crashes' = crashes + 1
  /\ up' = FALSE
  /\ queue' = <<>>
  /\ running' = 0
  /\ said' = 0
  /\ pieces' = 0
  /\ buffer' = {}
  /\ saves' = <<>>
  /\ notifies' = <<>>
  /\ told' = Silence
  /\ UNCHANGED <<sent, status, history, row, rows>>
  /\ UNCHANGED <<client, elsewhere>>

-----------------------------------------------------------------------------
\* The write w is done; a message is announced by a reference to its row.
Write(w) ==
  /\ row' = CASE w.kind = "queue"   -> [row EXCEPT !.queue = w.queue]
              [] w.kind = "status"  -> [row EXCEPT !.status = w.status]
              [] w.kind = "message" -> row
  /\ IF w.kind = "message"
     THEN /\ rows' = Append(rows, w.message)
          /\ notifies' = Append(notifies, w)
          /\ TellMessage(w.message)
     ELSE UNCHANGED <<rows, notifies, told>>
  /\ missed' = (missed /\ w.kind # "queue")
  /\ UNCHANGED <<agent, crashes, removal, removals, revived, failures, client>>

\* Variant: the writes are started as they come and end in any order.
SaveAny ==
  \E i \in DOMAIN saves : Write(saves[i]) /\ saves' = RemoveAt(saves, i)

\* saveQueue: the oldest write is done, the next one waits for it.
Save ==
  /\ saves # <<>>
  /\ Write(Head(saves))
  /\ saves' = Tail(saves)

\* It fails: that is logged, and the next one is done all the same.  A message has no row
\* and no reference then; a queue leaves those waiting who waited before.
SaveFails ==
  LET w == Head(saves) IN
  /\ saves # <<>>
  /\ failures < MaxFailures
  /\ failures' = failures + 1
  /\ saves' = Tail(saves)
  /\ IF w.kind = "message"
     THEN \E i \in DOMAIN history : history[i] = w.message /\ history' = RemoveAt(history, i)
     ELSE UNCHANGED history
  /\ IF w.kind = "queue"
     THEN missed' = TRUE /\ revived' = revived \union (ToSet(row.queue) \ ToSet(w.queue))
     ELSE UNCHANGED <<missed, revived>>
  /\ UNCHANGED <<sent, up, queue, turn, status, notifies, crashes, removal, removals, row, rows,
                 client, told>>

\* Variant: each NOTIFY goes out at once, on a connection of its own.
DeliverAny ==
  /\ \E i \in DOMAIN notifies :
       /\ notifies' = RemoveAt(notifies, i)
       /\ socket' = IF link = "open" THEN Append(socket, notifies[i]) ELSE socket
  /\ UNCHANGED <<saves, crashes, row, rows, link, upgraded, load, view, heard, told>>
  /\ UNCHANGED <<agent, elsewhere>>

\* expandMessageRef: an event, or a reference whose row is there.
Readable(e) == e.kind = "message" => Contains(rows, e.message)

\* publishChain and deliverChain: the oldest NOTIFY reaches the client's server,
\* which reads the row behind a reference; without a subscriber it is dropped.
Deliver ==
  /\ notifies # <<>>
  /\ notifies' = Tail(notifies)
  /\ socket' = IF link = "open" /\ Readable(Head(notifies))
               THEN Append(socket, Head(notifies)) ELSE socket
  /\ UNCHANGED <<saves, crashes, row, rows, link, upgraded, load, view, heard, told>>
  /\ UNCHANGED <<agent, elsewhere>>

\* The client does not hear of e, nor, by the events behind it, what came of it.
Untell(e, behind) ==
  LET Again(kind) == \E i \in DOMAIN behind : behind[i].kind = kind
  IN told' = [told EXCEPT !.queue = @ /\ (e.kind = "queue" => Again("queue")),
                          !.status = @ /\ (e.kind = "status" => Again("status")),
                          !.messages = IF e.kind = "message" THEN @ \ {e.message} ELSE @]

\* notify: the oldest event is too long, or its query fails, or the row behind the
\* reference cannot be read; that is logged, and the next one goes out.  Without a
\* subscriber this is as Deliver.
Lose ==
  /\ notifies # <<>>
  /\ Listens
  /\ failures < MaxFailures
  /\ failures' = failures + 1
  /\ notifies' = Tail(notifies)
  /\ Untell(Head(notifies), Tail(notifies))
  /\ UNCHANGED <<saves, crashes, removal, removals, revived, missed, row, rows>>
  /\ UNCHANGED <<agent, client>>

-----------------------------------------------------------------------------
\* removeQueuedFromDb: a server without the session is asked to withdraw the prompt at
\* place i, found by its id.  It reads the stored queue ...
RemoveReads(i) ==
  /\ removal = Unknown
  /\ removals < MaxRemovals
  /\ removals' = removals + 1
  /\ removal' = RemoveAt(row.queue, i)
  /\ UNCHANGED <<saves, notifies, crashes, revived, missed, failures, row, rows, told>>
  /\ UNCHANGED <<agent, client>>

\* ... and writes it back without it, whatever the session has stored meanwhile.  The
\* session is told as well: Withdraw.  The event that shows the queue it wrote is left
\* out: where a client watches, MaxRemovals is 0.
RemoveWrites ==
  /\ removal # Unknown
  /\ removal' = Unknown
  /\ row' = [row EXCEPT !.queue = removal]
  /\ revived' = revived \union (ToSet(removal) \ ToSet(row.queue))
  /\ UNCHANGED <<saves, notifies, crashes, removals, missed, failures, rows, told>>
  /\ UNCHANGED <<agent, client>>

\* The write fails, and the request with it.
RemoveFails ==
  /\ removal # Unknown
  /\ failures < MaxFailures
  /\ failures' = failures + 1
  /\ removal' = Unknown
  /\ UNCHANGED <<saves, notifies, crashes, removals, revived, missed, row, rows, told>>
  /\ UNCHANGED <<agent, client>>

-----------------------------------------------------------------------------
\* What a step of the client or its server leaves alone.
ElsewhereUnchanged ==
  /\ UNCHANGED <<saves, notifies, crashes, row, rows>>
  /\ UNCHANGED <<agent, elsewhere>>

\* handleUpgrade reads the project for its checks ...
Upgrade ==
  /\ link = "off"
  /\ Watched
  /\ link' = "row"
  /\ upgraded' = row.status
  /\ UNCHANGED <<socket, load, view, heard, told>>
  /\ ElsewhereUnchanged

\* ... and sendInitialEvents subscribes and sends the status it read then.
Subscribe ==
  /\ link = "row"
  /\ link' = "open"
  /\ socket' = <<StatusEvent(upgraded)>>
  /\ upgraded' = "idle"
  /\ UNCHANGED <<load, view, heard, told>>
  /\ ElsewhereUnchanged

\* The connection breaks; the client opens another one and loads nothing again.
Drop ==
  /\ link = "open"
  /\ failures < MaxFailures
  /\ failures' = failures + 1
  /\ link' = "off"
  /\ socket' = <<>>
  /\ told' = Silence
  /\ UNCHANGED <<upgraded, load, view, heard>>
  /\ UNCHANGED <<saves, notifies, crashes, removal, removals, revived, missed, row, rows>>
  /\ UNCHANGED agent

\* GET projects/:id reads the row and the messages; the answer comes later.
LoadRow ==
  /\ load.stage = "none"
  /\ Watched
  /\ load' = [stage |-> "sent", row |-> row, rows |-> rows]
  /\ UNCHANGED <<socket, link, upgraded, view, heard, told>>
  /\ ElsewhereUnchanged

\* The reducer's load: a queue heard of since is newer than the snapshot's.
LoadReturns ==
  /\ load.stage = "sent"
  /\ load' = [NoLoad EXCEPT !.stage = "applied"]
  /\ view' = [status |-> load.row.status, messages |-> load.rows, bubble |-> {},
              queue |-> IF heard THEN view.queue ELSE load.row.queue]
  /\ heard' = FALSE
  /\ UNCHANGED <<socket, link, upgraded, told>>
  /\ ElsewhereUnchanged

\* The reducer: a message, or the agent at rest, takes the bubble away.
Reduce(v, e) ==
  CASE e.kind = "queue"   -> [v EXCEPT !.queue = e.queue]
    [] e.kind = "status"  -> [v EXCEPT !.status = e.status,
                                       !.bubble = IF e.status = "idle" THEN {} ELSE @]
    [] e.kind = "message" -> [v EXCEPT !.messages = Append(@, e.message), !.bubble = {}]
    [] e.kind = "chunk"   -> [v EXCEPT !.bubble = @ \union e.texts]

\* handleEvent hands the next event to it.
Receive ==
  /\ socket # <<>>
  /\ socket' = Tail(socket)
  /\ view' = Reduce(view, Head(socket))
  /\ heard' = (heard \/ (Head(socket).kind = "queue" /\ load.stage # "applied"))
  /\ UNCHANGED <<link, upgraded, load, told>>
  /\ ElsewhereUnchanged

Next ==
  \/ Submit
  \/ Restore
  \/ \E i \in DOMAIN queue : Withdraw(i)
  \/ Stream
  \/ Flush
  \/ Say
  \/ \E failed \in BOOLEAN : EndTurn(failed)
  \/ Crash
  \/ Save
  \/ SaveFails
  \/ Deliver
  \/ Lose
  \/ \E i \in DOMAIN row.queue : RemoveReads(i)
  \/ RemoveWrites
  \/ RemoveFails
  \/ Upgrade
  \/ Subscribe
  \/ Drop
  \/ LoadRow
  \/ LoadReturns
  \/ Receive

Spec == Init /\ [][Next]_vars

-----------------------------------------------------------------------------
Event == [kind : {"queue"}, queue : Seq(Prompts)]
         \union [kind : {"status"}, status : {"idle", "running", "failed"}]
         \union [kind : {"message"}, message : Message]
         \union [kind : {"chunk"}, texts : SUBSET Message]

\* Every variable has its type.
TypeOK ==
  /\ sent \in 0..NumPrompts
  /\ running \in 0..NumPrompts
  /\ said \in 0..Parts /\ pieces \in 0..MaxPieces
  /\ {buffer, view.bubble, told.texts} \subseteq SUBSET Message
  /\ {up, heard, missed} \subseteq BOOLEAN
  /\ status \in {"idle", "running", "failed"}
  /\ queue \in Seq(Prompts)
  /\ {history, rows, load.rows, view.messages} \subseteq Seq(Message)
  /\ {saves, notifies, socket} \subseteq Seq(Event)
  /\ row.queue \in Seq(Prompts)
  /\ removal = Unknown \/ removal \in Seq(Prompts)
  /\ removals \in 0..MaxRemovals
  /\ revived \subseteq Prompts
  /\ failures \in 0..MaxFailures
  /\ load.row.queue \in Seq(Prompts)
  /\ link \in {"off", "row", "open"}
  /\ load.stage \in {"none", "sent", "applied"}

\* persistMessage, persistQueue, saveQueue: the database holds a state the session
\* was in, and the last one when nothing is under way.  The rows are the oldest messages
\* of the history in its order, but for those whose save failed; a prompt whose messages
\* are among them has left the stored queue, so that a restart does not run a prompt again
\* which already shows answers.  Two things break this.  A withdrawal at another server may
\* put prompts back that have run meanwhile, and drop one that has come; and a write of the
\* queue that fails leaves those waiting whom it would have taken out.
StoredStateWas ==
  /\ IsPrefix(rows, history)
  /\ \A i \in DOMAIN rows : Contains(row.queue, rows[i].of) => rows[i].of \in revived
  /\ up /\ saves = <<>> /\ removals = 0 /\ ~missed => row.queue = queue

\* What the client will show once all that is on its way has arrived.
Shown ==
  LET coming == socket \o notifies
      After[i \in 0..Len(coming)] ==
        IF i = 0 THEN view ELSE Reduce(After[i - 1], coming[i])
  IN After[Len(coming)]

\* AgentEventBus, agentReducer: for a client that has listened since the last
\* change of the queue, of the status or of the messages, what is on the screen
\* and on its way is what the session has; a message comes exactly once.  After an event
\* that was lost this holds again with the next of its kind, and of a message that was
\* lost never: nothing is sent again.  The bubble
\* (flushStream, agentReducer) never repeats a message above it, although messages
\* come by the database and their text past it, and none is left when the agent rests.
ViewFollows ==
  LET shown == Shown
  IN /\ told.queue => shown.queue = queue
     /\ told.status => shown.status = status
     /\ told.status /\ status = "idle" => shown.bubble = {}
     /\ \A m \in told.messages : \E i \in DOMAIN shown.messages :
          \A j \in DOMAIN shown.messages : shown.messages[j] = m <=> j = i
     /\ \A m \in view.bubble \intersect told.texts : ~ Contains(view.messages, m)
=============================================================================
