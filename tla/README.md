# Tenjo in TLA+

Tenjo is a chat and coding-agent server: a browser client, an Express server
with a Postgres database, and `chat-engine`, a library that runs language-model
turns with tools and manages the containers in which an agent works. This
directory models the parts of it whose correctness depends on the order in
which things happen. The modules are written from the source; where this text
and the source disagree, the source is right.

## The system

| Component | State it keeps | Operations | Talks to | What makes it correct |
|---|---|---|---|---|
| ChatAgent (`chat-engine/src/ChatAgent.ts`) | prompt queue, running batch, pump, abort controller, history | submit, removeFromQueue, restoreState, abort, one turn = model requests and tool calls | model, tools, its host's callbacks | no prompt is stranded, served twice or out of order; every tool call is answered once; an abort ends one turn |
| Plan mode (`coding-agent/planMode.ts`) | mode, plan, step states, pending approval | present, approve, reject, complete, checkpoint | ChatAgent | a plan is approved only by the user and closed when its steps are |
| AgentSessionService | live sessions, advisory locks, persisted queue and status | ensureSession, dispatchCommand, evict, stop | ChatAgent, database, event bus | one live agent per project; nothing accepted is lost |
| AgentEventBus, agentEventRelay | listeners, NOTIFY channel, web sockets | publish, subscribe, initial events | other server instances, clients | a subscriber's view converges to the current state |
| Decisions: ToolApprovalEmitter, QuestionEmitter, `executeMcpTool` | listeners and timers per call id | wait, answer, cancel, time out | ChatAgent, MessageService, routes | a wait settles exactly once; a tool runs only with consent; a stopped turn does not go on |
| Chat generation: MessageService, GenerationAbortRegistry, `routes/api/chat.ts` | controller per thread, save chain | send, stop, disconnect, switch branch | model, MCP tools, database | a message tree without holes; one generation can be stopped by its owner |
| Message tree: MessageRepository, ThreadRepository | messages, parent, selected child, thread's leaf | add, switch branch, find path | database | the displayed path is a path of the tree and ends at the leaf |
| SandboxManager, AgentSandboxService, AgentIdleReaperService | container, inner image, pods, port blocks, activity | getSandbox, stop, destroy, reset, sweep, reclaim | Docker, podman | port blocks are disjoint; no pod is torn down under its user |
| AgentGuiService | phase of the desktop per project | start, stop, open preview, status | SandboxManager, event bus | the phase told to the client is the phase of the desktop |
| Registration, invitation codes | users, codes | register, create and delete codes | database | who may have an account |
| Settings (`GlobalSettingService`, `routes/api/settings.ts`) | one settings document, credentials, the logo | change a section, clean up | database, disk | sections do not undo one another; what the document names exists |
| MCP servers and OAuth | pending flows, credentials, clients | authorise, call back, refresh | MCP servers | the credential the document names is the one saved last |
| Files, knowledge, skills | rows and files | upload, delete, clean up | database, disk | no row without its file |
| ContextManager | the state of the summary | fold, compact, strip | ChatAgent, AgentSessionService | every message is in the summary or in the request; calls and results stay together |
| Web client | view state | load, fold server events | relay, routes | what is shown is what is there |
| Model providers, images, browser and code tools, sandbox execution, users and login, title generation, relays, migrations, UI components | little or none | conversions, I/O, external programs | | not a matter of ordering |

The behaviours that are hard: every class on the server runs on one JavaScript
thread and interleaves at its awaits, several server processes share one
database, and a turn waits on people (approvals, questions), on external
programs (models, MCP servers, containers) and on timers, any of which may
answer late, twice or never. `PROJECT.json` lists the hazards with their lines.

## Plan

Written, in this order:

1. `PromptQueue` (abstract), `ChatAgent`, `MC_ChatAgent`, `ChatAgent_proofs`.
2. `Decisions`, proofs in `Parts_proofs`: approvals and questions with their timeouts
   and aborts.
3. `AgentSessions`, `MC_AgentSessions`, `AgentSessions_proofs`: ownership of a
   project by one process, and eviction.
4. `SandboxPods`, `MC_SandboxPods`, proofs in `AgentSessions_proofs`: pods, port blocks
   and the idle reaper.
5. `ChatStream`, `MC_ChatStream`, `ChatStream_proofs`: the message tree and the
   requests that generate into it.
6. `PlanMode`, proofs in `Session_proofs`: the plan controller over the turns of a
   session.
7. `AgentEvents`, `AgentEvents_proofs`, `FileTree`: what a session stores and what a
   client sees. `MC_Session` puts what a session keeps side by side, `Session_proofs`
   proves about it, and `MC_AgentEvents` adds what is shown.
8. `Settings`, proofs in `Parts_proofs`: the settings document with its credentials and
   its logo; `Artifacts`, `Artifacts_proofs`: files, the rows that name them, the
   clean-up.
9. `Compaction`, `MC_Compaction`, proofs in `Session_proofs`: the history of an agent and
   its summary.
10. `Desktop`: the desktop of a pod; `MC_Parts` puts the components that share no state
    side by side, and `Parts_proofs` proves about them, the desktop included.
11. `ChatPage`, `ChatPage_proofs`: the page of a chat thread; the theorem about `FileTree`
    is there too.

Left, in this order: the switching of branches at the page of a thread; the uploads
of a coding session; OAuth flows up to the callback; pending plans and approvals in a
session that is made again.

Theorems still to be proved: the types of the parts of `AgentEvents_view` but for those
of `FileTree` and `ChatPage`.

## ChatAgent

`ChatAgent.tla` runs from one await to the next. The variable `pumpAt` is the
await the pump is suspended at: `idle` (no pump), `beforeTurn`, `model` (a
request is out), `tool` (a tool runs), `turnComplete` (the host's callback).
`queue`, `running` and `aborted` are the fields of the class, `turn` the local
variables of `runTurn`, `results` and `dangling` the part of the history that
decides whether a provider accepts it: how often each call of the last
assistant message is answered, and whether an older call never was. Public
methods are enabled at any await. A model reply is any reply of the kinds the
loop tells apart; a tool may return, be rejected by the user or be abandoned.
`PromptQueue.tla` is what the host may rely on: prompts are accepted, withdrawn
while they wait, and settled in the order in which they were accepted.

| Run | Question |
|---|---|
| `ChatAgent_turns` | one agent with the options of the coding agent or of the command-line host: types, `NoStrandedPrompt`, `PromptAccounted`, `NoOvertaking`, `CallsAnswered`, `AbortStopsTurn`; every prompt is settled or withdrawn (`PromptsSettle`); the command-line host refines `PromptQueue` (`CliServesPrompts`) |

`MC_ChatAgent` holds both hosts; `host` says which one moves. The command-line host is
the one of chat-engine/src/example/cli-queue.ts. For it TLC also checks the fairness of
`PromptQueue`. The coding agent, which ends a turn at a tool boundary when prompts wait
(ChatAgent.ts:616), takes them into its next batch like any others; that its steps are
steps of `PromptQueue` too is proved (`ServesAsPromptQueue`).

At the iteration cap the loop ends with the calls of the last reply unanswered
(ChatAgent.ts:573 and 590); `CallsAnswered` excuses exactly these.

Bounds: three prompts, one or two aborts, caps of two or three
iterations, one nudge and one follow-up. Three prompts are the fewest with which
one runs, one waits and one arrives; two iterations reach the repetition guard
and the cap. Fairness is weak fairness of the steps that resume the pump: the
requests carry timeouts and every promise of the loop settles.

`ChatAgent_proofs.tla` proves type correctness and every safety property of the run for
every value of the options. `NoStrandedPrompt`, `PromptAccounted` and `NoOvertaking`
hold because of `Serving`, the inductive invariant that relates statuses, queue and
running batch; `AbortBudget` says that one `abort()` ends at most one turn.
`CallsAnswered` needs `Answered`: while a tool runs, the calls before it have one
result, it and the calls behind it have none; as soon as no tool runs, all have one,
whichever exit of the loop it was, but for the iteration cap. `AbortStopsTurn` is an
action property and needs only the types. `ServesAsPromptQueue` is the refinement of
`PromptQueue` without its fairness: each step of the agent, with the options of either
host, is a step of the abstract queue or changes nothing of it, where accepted prompts
are the queue and the running batch (`PQ`). Liveness is model-checked only:
`PromptsSettle`, and the fairness in `CliServesPrompts`.

## Decisions

`Decisions.tla` is the part of a turn that waits for the user: an MCP tool that
needs approval (`executeMcpTool`, `ToolApprovalEmitter`) and a question
(`askUserQuestion`, `QuestionEmitter`). `phase` says where the handler of each
call is, `cards` what the clients are shown, `listening` which ids have
listeners and a timer in the emitters; `current` is the call the agent awaits,
and `notes` the NOTIFY channel on which answers reach every server. A wait ends
in `Settle`, whatever ended it, together with the `finally` blocks behind it.
`StopTurn` is `raceAbort`: the agent lets go of the call, whose handler runs on.

The module is part of the run `Parts_services`: cards, listeners and suspended
handlers agree, and running turns ask one thing at a time (`CardsAreLive`); a tool
runs only with consent (`ConsentBeforeRun`); the first decision stands
(`FirstDecisionStands`); no card stays open for ever (`WaitsEnd`).

Bounds: two approvals, so that one of a stopped turn lingers while the next turn
asks, one question, and up to three answers, so that a call is answered twice
and late. Fairness: timers fire and the query for the rule returns; no answer is
assumed. Left out: the connection that LISTENs may drop and reconnect. A turn that
is stopped while the rule is looked up still opens a card: the abort came before its
listener, so the card stays until it is answered or its timeout, and
`CardsAreLive` counts the cards of running turns only.

`Parts_proofs` proves the three safety properties for any number of calls and
answers. The inductive invariant says that card, listener and waiting handler are
one thing (`OneWait`), that what is asked is the call the agent awaits unless it was
stopped (`Awaited`), and that only a handler that returned has an outcome
(`Decided`). Assumed: call ids are unique, and no id is both an approval and a
question.

## AgentSessions

`AgentSessions.tla` is the ownership of one project by one of several server
processes. `held` counts how often a process holds the project's advisory lock
(the lock is re-entrant), `lockq` the queries under way on the connection that
holds it, `creation` how far `ensureSession` is, `hands` the submits that await
it, `live` the session in the map. Sessions are numbered in the order of their
creation, so that a session evicted from the map while it works is still seen:
`tasks` is what each agent has accepted and not finished. `evicting` counts
`evict()` calls that await `mcp.close()`; without MCP clients there is nothing
to await, and `Sweep` is one step. What the agent does with a prompt is in
`ChatAgent`.

| Run | Question |
|---|---|
| `AgentSessions_owner` | without MCP clients: one working agent per project, under the lock, with crashes |
| `AgentSessions_settle` | with MCP clients: the lock is never leaked, every waiting submit is settled |
| `AgentSessions_evict` | counterexample: with MCP clients a submit during an eviction works in a session that leaves the map |

Bounds: two processes, two or three submits, two or three sessions, up to two
crashes, up to two overlapping evictions. Two processes are enough because the
lock tells apart only "mine" and "somebody else's". A command is taken to be
delivered before the ten idle minutes of a session are over. Fairness: queries
are answered, a creation ends (in success or failure) and NOTIFYs arrive.

`AgentSessions_proofs` proves `OneWorkingAgent` and `LiveMeansLocked` for any
number of processes, submits, sessions and crashes, under the assumption that
sessions have no MCP clients; the run `AgentSessions_evict` shows that the
assumption is needed. The inductive invariant `Ownership` lists, for one
process, the seven combinations of lock, queries under way and creation that
occur (`LockStages`), says that two holders are the same process (`Exclusive`)
and that work is only in the session in the map of its process (`WorkIsLive`).
`LockIsReturned` and the types are proved without the assumption. With MCP clients
evictions overlap and may unlock more often than anyone locked, so that `held` is not
the number of sessions and creations; the invariant `LockComesBack` says instead that a
process which is about to claim the lock has an unlock in front of that query if it
holds the lock at all (`QueriesInOrder`), and therefore never holds it twice. Liveness
(`SubmitsSettle`) is model-checked only.

## SandboxPods

`SandboxPods.tla` models `SandboxManager` from `getSandbox` to the pod of one
project, and everybody who takes pods away. `pod`, `block` and `age` are what
podman knows: the state of each project's pod, the block on its label, the order
of creation. A call of `getSandbox` or `startGui` is at one podman command
(`at`), with the block it chose in `choice`; `chain` is `setupLock`. `age` holds the
pairs of projects of which the pod of the first is the older one. Outside the
chain run the reaper (`Sweep`, then `StopPod`), the deletion of a project
(`DeleteProject`, then `Destroy` twice) and the clean-up of orphans (`ReadIds`,
`ReapPods`, `ReapDirs`). With `Faults`, any command may fail without an effect.

| Run | Question |
|---|---|
| `SandboxPods_blocks` | port blocks are disjoint, and no failed set-up blocks those behind it |
| `SandboxPods_faults` | with failing commands and restarts, only complete pods are handed out, with the ports they have |

The clean-up reads the ids of the projects before it lists pods and workspaces
(FileCleanupService.ts:111): a project created in between loses its workspace. The
module has the steps; no property demands the contrary.

Bounds: two projects, two or three calls (two of them for one project), one block, so
that the second project always reclaims it, one outage and one restart of the server.
More projects and blocks are left to the proofs. Fairness: every docker command has a
timeout, so a step of a call returns. Assumed: one server process uses the container; a
command that times out has no late effect; the labels podman lists are the blocks in
use. Without `Faults` podman answers; when `pod ps` fails the code takes every block for
free, and blocks may overlap.

`AgentSessions_proofs` proves `BlocksDisjoint` and `ChoiceStaysFree` for any number
of projects, calls and blocks, while podman answers (`~Faults`), with crashes,
outages, reaping, deletion and reclaiming at any moment. The inductive invariant
`Allocation` adds that only the head of the chain has begun its set-up
(`OneAtATime`) and that a call which creates has a block (`Chosen`); that the
chosen block is one of the free ones rests on the well-foundedness of the
natural numbers (`MinIn`). `HandedOutPodsAreWhole` is proved whichever commands fail,
without the clean-up of orphans, as its run checks it (`UseSpec`): the invariant
`HandingOver` says what the last command of a call relies on, that the pod about to get
its main container has the block the call chose and the one about to be started or asked
for its ports has its container (`Prepared`), unless the row of the project is gone
(`DestroyedAreDeleted`); the turn of the chain keeps other calls from undoing it. The
types are proved too; that every call ends is model-checked only.

## ChatStream

`ChatStream.tla` is one thread and the requests that generate into it. `up` and
`child` are the columns `parent_message_id` and `selected_child_id` of the
table of messages, `leaf` and `locked` the row of the thread. A message is named
by its request and its place among the messages the request's `ChatClient`
gets (`added`), so that the order in which rows should hang is part of their
names. `at` is the await a request is suspended at. The saves run beside the
loop: `Save` inserts the head of the chain in one transaction, `UpdateLeaf` is
the second update of the thread behind it, and `SavesSettle` is the `Promise.all`
at the end. `End` is the way out of the `try` block with the `unregister` of its
`finally`, `Release` the query behind it. `controller` is the entry of the
registry, `notes` the NOTIFYs of stop requests. `Decide` merges the rule, the
user's decision, the timeout and the client that leaves: all end in a call that
runs, in a result, or in a rejection. `Register` happens before the lock is
taken and no request looks at the lock, so requests of several tabs overlap.

| Run | Question |
|---|---|
| `ChatStream_saves` | two overlapping requests: rows hang in order, every row with answers has one selected, calls are answered, the newest request can be stopped, and who ends well has saved everything |
| `ChatStream_edit` | counterexample: the context of an edited question contains the exchange it replaces |

Bounds: two requests to a new thread, which may also edit each other's question;
one stop, failure or change of branch in all; replies of two calls and a cap of
one iteration, so that a rejection has a call behind it and the cap is reached.
`ChatStream_edit` starts with two questions and answers and one request. Two
requests are enough to overwrite an entry of the registry and to fork the tree.
One server process is modelled; with several, each has a registry of its own and
a stop reaches all of them. No liveness is stated: a model or a tool of a chat
may take for ever, and only a stop ends it.

`ChatStream_proofs` proves the types and every invariant of `ChatStream_saves` for any
number of requests, replies and events. For `NewestIsStoppable` a step of a request
either leaves its place alone or moves it on and, where it ends, removes only its own
controller (`StepMoves`), so that `Reachable` is kept. For `SavedInOrder` the
inductive invariant `InOrder` adds that a request which has not come has nothing
to save (`Fresh`), that no row is ahead of the chain (`Chain`) and that the
message saved last is the last of the request's rows (`Tops`); only `Register`,
`Save` and `UpdateLeaf` touch it. For `CallsAnswered`, `Pairing` says that while a call
is decided on or runs exactly one message lacks results, as many as calls are left, and
all that came after it are results; for `SavedWhenDone`, `Stored` says that the chain
never runs ahead of the messages and that what it is done with are rows unless a save
failed. `SelectionIsComplete` needs `Grown`: every row hangs below one that comes before
it in an order of the rows, and what is selected, shown and answered are rows. Two
things in its proof are about the recursive queries: the one over all rows below a row
has a solution (`DescendantsExist`), and a path along the selected answers ends at a
row (`PathHasEnd`), because each step goes up in that order, of which a set of rows has
a highest member (`HighestRow`). Neither needs induction over data.

## ChatPage

`ChatPage.tla` is what the page of a thread shows (`shown`, the messages of
`chatReducer`) against the rows of the server. A request is a send or an edit of this
page; of the server it passes the steps a page can tell apart (`at`), and `wire` holds
the events of its response that the page has not read. `shown` gives each message its
`text`, that is the row it should stand for, and the `id` the page knows, which comes
with `done` (`Complete`). `controller` is `abortControllerRef`, `locked` is
`isGeneratingLocked`, `gets` are the reads of the thread that are under way: of the
loader, of the poll, and of the reload after an abort. A read takes the path first and
the lock after it (`ReadPath`, `ReadLock`). Stops may also come from another page,
any request or read may fail, and the page may be left and opened again while the
server goes on.

| Run | Question |
|---|---|
| `AgentEvents_view` | `PageFollows`, the part of `ViewFollows` about a thread: the id of a message is that of its text, so that an edit replaces the row it shows; the messages with ids are one conversation; at rest they are the path of the thread |
| `ChatPage_parent` | counterexample: a message is sent below no message although the page shows confirmed ones (`SentBelowConfirmed`) |

The counterexample is a finding: the page takes the last message that does not stream
for the last confirmed one, and after a stop that one may have no id. `off` records why
a page may differ from its thread, and `PageFollows` excuses it until the page is filled
anew: a message went below one without an id (`astray`); the page was filled, or another
request sent, while a response still had ids to bring (`crossed`), after a stop or an
edit whose form was left open; what was read is older than what was being saved
(`behind`): the path was read before the lock, the reload after a stop does not wait for
the server, a stop without a controller does not reload, and an error of an edit brings
back the messages of the opening. Bounds: two requests with a stop and a second opening,
or with a stop and a failure; three requests without either, so that an edit takes two
rounds with it. No liveness is stated: the poll ends when the lock does, which a model
may hold up.

`ChatPage_proofs` proves `TypeOK` and `PageFollows` for any number of requests, stops,
failures and openings (`PageIsRight`). The inductive invariant `PageKept` has two parts.
`Behind` speaks of the server and of what is under way: the rows are a tree in which
ranks fall upwards (`RowsRight`), so that a path ends; a response tells the rows its
request saved (`WireRight`); what a read took for the last word was read when nothing was
being saved, and the page is locked or not open until it is applied (`GetsRight`,
`ReadRight`, `LockRight`). `OnPage` speaks of the messages shown: those with ids stand
together, linked to one another, and behind them stand those of one response at most,
whose rows come below the last id (`IdsStored`, `IdsRight`, `LinksRight`, `SyncRight`).
A path, and what is kept of it, are recursive functions; that they exist and are such a
chain is shown step by step along them (`Reaches`).

## PlanMode

`PlanMode.tla` is the controller of `planMode.ts` as `AgentSessionService` drives
it. `active`, `phase`, `todos`, `seen`, `reported` and `pending` are its fields,
`shown` is the plan as it is stored and sent to the clients. `StartTurn` is
`syncTurn` and `EndTurn` is `endTurn`; `Present` runs up to the await of
`present_plan`, `Deliver` is `routeInput` together with what follows that await;
`Report` is `update_plan`, `BeginEdit` and `EditReturns` are an edit with its
`guard()` and its `observe()`. Answers carry no reference to a plan and may be sent
for one whose turn was stopped; an edit may end long after its turn. Of texts the
module keeps what the patterns decide.

The module is explored by `AgentEvents_view`: a plan turn changes the project only
after an answer approved a plan presented in that turn (`ConsentBeforeChange`); the
handler that waits is that of the running turn, and a plan that waits can be answered
(`WaitIsHeard`); the stored plan of an approved turn is the plan as it stands, with a
step in progress until all are done (`ProgressIsShown`). That an answer was meant for
this plan and not for an earlier one is not excluded by the code and not claimed.
Bounds: two turns, plans of up to three steps, two files, two answers.

`Session_proofs` proves the three properties for any number of turns, steps, files
and answers. `applyTodoProgress` is the heart of the last one: `ProgressLemma` says
that it keeps the order of the steps and leaves one in progress, which rests on the
first open step of a plan (`FirstOpen`, by the well-foundedness of the naturals).

## AgentEvents

`AgentEvents.tla` follows the queue, the status and the messages of a session on
their three ways. `saves` is `session.saveQueue`, one promise chain of updates;
`notifies` is the chain of NOTIFYs with the rows that references are read from;
`socket`, `link` and `load` are a client's connection and its GET. `Pump` is the head
of the agent's loop as far as it emits, `Restore` is `finishOwnedSession`, `Reduce` and
`LoadReturns` are the client's reducer. `buffer` is the text that waits for `Flush`, by
the message it belongs to, and `view.bubble` the text the client shows below the
messages. `RemoveReads` and `RemoveWrites` are `removeQueuedFromDb`, which a server
without the session runs when it is asked to withdraw a prompt.

Three things may fail, and none is repaired by the code. A write of the chain is caught
and logged, and the next one is done (`SaveFails`: AgentSessionService.ts:1521, 1540 and
1554): then a message has no row and no client is told of it, or the stored queue or
status stays as it was. `notify()` drops an event above 7900 bytes and swallows a NOTIFY
that fails (`Lose`: AgentEventBus.ts:161-177); the comment there says that emitters cap
their content, but `queue-changed` carries the whole text of every waiting prompt, which
nobody caps. And the write of a withdrawal ends with its request (`RemoveFails`). Messages
carry the number of the crashes so far (`run`), because every row has an id: a prompt that
runs again adds other messages than it added before.

| Run | Question |
|---|---|
| `AgentEvents_view` | the stored rows and queue are a state the session was in (`StoredStateWas`), what a client is shown and what is on its way add up to what the session has, and streamed text neither repeats a message nor outlives the turn, and the file tree is the workspace once the changes were heard of (`ViewFollows`); with the properties of `PlanMode` and `SummaryStandsForRest` of `Compaction` |

`MC_Session` puts the plan, the events and the history side by side, and
`MC_AgentEvents` adds the files and the pages: `part` says which one moves, the others
keep their first state, so that the run is the sum of the instances and not their
product; `FileTree` has two instances and `ChatPage` three. The events are there three
times: two prompts with a client that loads and connects; one prompt with an answer,
streamed before it is stored, and a client, where once the connection breaks, an event is
lost or a write fails; and three prompts without a client, with one crash, one withdrawal
at another server and one write that fails, so that two prompts wait when one of them is
withdrawn. `MaxFailures` is the one budget of `SaveFails`, `Lose`, `RemoveFails` and
`Drop`. `MaxLag` bounds what is under way when the agent acts: nothing in the first two,
since one step of the agent emits several events and writes, which then overtake one
another; one write or event in the third. Failures with two prompts and a client, or more
than one, are left to the proof. No liveness is stated: a client that does not come back
sees nothing.

Three things are not true of the code and not claimed. Text is emitted at once and a
message only when its row is there: a message that is stored late clears the bubble of
the next one, whose first words are then missing until it is complete. A status or a
message that arrives by the socket before the answer to the GET is overwritten by it;
`told` starts with the load. A withdrawal at another server writes back the queue it
read: prompts that have run meanwhile are stored again and would run a second time after
a crash, prompts that came meanwhile are dropped.

The two properties excuse by name what a failure does. For `StoredStateWas`, `history` is
what was added without the messages whose save failed; `revived` are the prompts that a
withdrawal put back into the stored queue, or that a failed write of the queue left there;
`missed` says that the last write of the queue failed, so that a session at rest has
stored an older one. Everything else holds: the rows are in order and without other gaps,
no other prompt waits whose messages are stored, and the next write of the queue that is
done makes up for the one that failed. For `ViewFollows`, `told` forgets what an event
said that was lost: of the queue and the status until the next event of the kind, of a
message for good. The client that lost one event still follows all others.

`AgentEvents_proofs` proves `StoredStateWas` for any number of prompts, messages,
crashes, restored sessions, withdrawals and failures, with no assumption on the constants
(`HistoryIsStored`). The property is not inductive: what is stored next depends on the writes under way. The
invariant `Kept` says of them that the stored rows, followed by the messages in `saves`
one after the other, are the history (`Chain`, `InHand`); that every queue written,
stored or read by a withdrawal holds prompts that were sent, each once (`Queues`); that
a prompt of the session's queue has not started (`Once`); that from the stored queue, or
from a queue in `saves` ahead of the first message of a prompt, no queue holds this
prompt any more (`LeftFirst`); and that the last queue written is the session's,
unless that write failed (`LastQueue`). Prompts in `revived` are excused from the two
about what has started. A write that fails takes its message out of the history: that it
is the right one, and that `Chain` holds of the rest, needs that no message was added
twice, which is the second invariant, `Numbered`: what this session added carries its
number, and is of no prompt that waits.
`Session_proofs` carries the theorem to the three instances of the run: their
definitions are those of instances of `AgentEvents_proofs` (`EventsAlike`,
`BrokenAlike`, `StoredAlike`), and no other part moves their variables (`EventsStep`).

`ClientFollows` proves `ViewFollows` for any number of prompts, messages, crashes, breaks
of the connection, failed writes and lost events. `Shown` applies the events on their way one after the other
with a recursive function; that it is defined, and that of the queue and of the status
only the last event counts, of a message that it is shown once when exactly one event
brings it, and of the bubble that a message or the end of the turn removes it, are lemmas
by the least position where they would fail (`Reaches`, `ShownAtLast`). The invariant
`Seen` says this of the events themselves, for each way they take: of those on their way
to the client the last that speaks of the queue, and of the status, says what the session
has, or nothing is on its way and the screen has it (`QueueRight`, `StatusRight`); a
message the client was told of is on the screen or in one event, and its text does not
come after it (`MessagesRight`). A step that appends an event keeps this at once. One that
takes over the answer of the GET needs that no message is in two events, for which
`Numbered` says that the history has none twice, and `Unseen` that a message without a row,
whose event is made only when the row is there, is neither shown nor on its way; `Hearing`
and `Writes` say who listens and what the waiting text belongs to. When an event is lost,
what is still told of its kind comes from one behind it, which is then the last
(`LostFrame`). `EventsAssumption`
asks for natural numbers, at least one message in a turn, and no withdrawal at another
server in the instances with a client: such a withdrawal emits its own queue event, which
`RemoveWrites` leaves out. `Session_proofs` carries this theorem to `SessionSpec` too.

`FileTree.tla` is what the page shows of the workspace. Changes come from the watcher:
they wait for its timer (`pending`), are coalesced (`Merge`) and go by NOTIFY
(`batches`). Whole trees come when a client connects, a turn ends, a file is uploaded or
a lockfile changes: they are read at one moment and sent, past the NOTIFYs, at a later
one (`reads`). The reducer keeps a deleted file under its mark until the mark's timer
ends (`MarkEnds`). `TreeFollows`, the part of `ViewFollows` about files, says that the
tree is the workspace once all changes were heard of and the marks of deletions are
gone. It rests on two things that are easily lost: `coalesceChanges` lets a file be
written again after its deletion, and a client reconnects after 1000 ms, when the 900 ms
of a deletion's mark are over; a mark that outlived the reconnection would remove a file
that the new tree shows. `stale` holds the files the property excuses: a tree
was read, then the last change of the file was heard of, then the tree arrived, or the
change came before the session had a watcher. Nothing in the code repairs these before
the next tree. Left out: folders that are moved, hidden and excluded paths, batches
that are split by size (each part is a batch). Bounds: four changes of one file with a
connection that breaks once and two trees on their way, so that one overtakes; three
changes of two files, one of them a lockfile, and one tree that cannot be read.

`TreeIsFollowed` proves `TypeOK` and `TreeFollows` of `FileTree` for any files and bounds
(in `ChatPage_proofs`, with the other page). That the batch
`coalesceChanges` makes tells of each file what its last change does to it is a lemma
(`CoalescedTells`), by the least number of changes for which it would not. The invariant
`Followed` says where the truth about a file is to be found at any time: in the last
change of it that waits (`LastWaits`); if none waits, in the last batch that is about it
(`LastComes`); if none comes either, in every tree that was read and did not miss it
(`ReadRight`) and on the screen (`TreeRight`). A mark of a deletion on a file that is
there again means that a change of it is still to come (`MarkRight`), so that the end of
the mark removes nothing that is there; it is preserved by a reconnection because no such
mark outlives it.

## Compaction

`Compaction.tla` is the rolling summary of `ContextManager.ts` as the session uses it:
the history stays whole, `state` says how many of its first messages the summary
stands for, and a request carries the rest. `told` is the set of messages that were
folded into the summary. A turn may always find the request too large, or get no
summary; `Cut` is where the window of recent messages begins. Messages are stored one
after the other (`saves`); the updates of the state go beside them without an await, and
may end in any order (`storing`).
`Evict` and `Crash` make the session again from what is stored.

| Run | Question |
|---|---|
| `AgentEvents_view` | `SummaryStandsForRest`: the summary and the request together are the history, and no request has a result without its call, also after crashes and lost saves |
| `Compaction_restart` | counterexample: after an eviction a message is neither in the summary nor in any later request (`NothingForgotten`) |

The counterexample is a finding. The count includes control prompts and blank
replies, which are part of the history but never stored; applied to the stored rows it
skips as many messages too many. `SummaryStandsForRest` therefore speaks of the
histories in which every folded message is still there. A comment says that internal
prompts are not stored (AgentSessionService.ts:1500); the nudge that asks for a plan
and the one that repairs a malformed call are not recognised and are stored, hence the
two kinds of `Nudge`. Bounds: a window of two messages and replies of up to two calls,
so that the window can begin between a call and its results; one crash or eviction and
one save that fails. `MC_Compaction` is the instance of the counterexample, with seven
messages.

`Session_proofs` proves `SummaryStandsForRest` for any window, any length of the history,
any number of calls, lost saves, crashes and evictions. The invariant speaks of all
summaries there are, the one in use, the stored one and those being stored: if the
history has all messages a summary was made of, they are its first ones (`Covers`), and
no result behind them belongs to a call among them (`Pairs`). Both hold again of the
rows a session is restored from, because numbers grow along the history, the rows are
part of it (`Recorded`), and a part that has all of the first messages begins with them
(`PartBegins`, by the least position where it would not). That a window which does not
begin with a result begins with no result of a folded call rests on calls being followed
by their results only (`Grouped`), and that a summary made before a turn does not reach
the call of a later result on `CallIsOpen`.

## Settings, Artifacts and Desktop

`Settings.tla` is the document of `global_settings` under concurrent requests. Each
reads the document, awaits other calls and writes its own section (`SetSection` is the
`jsonb_set` of one key); the clean-up of files writes the whole document twice, to
raise and to lower its flag. `want` is the document as if every request had changed it
in one step, `crossed` the sections that two requests had in hand at once: in these an
update may be lost, and the module says that it is lost nowhere else. `modelKeys`,
`serverKeys` and `files` are what the document refers to. Any call may fail, and the
server may stop.

`Artifacts.tla` is the directory of uploaded files and the rows that name them.
Nothing ties the two but the order of calls in each request. The clean-up lists the
directory, reads the rows of one table after the other and removes what no row names,
if it is older than thirty minutes; a tick is a third of that, and a request or a sweep
is assumed to last less than one.

`Desktop.tla` is `AgentGuiService` with the desktop part of `SandboxManager` and the
script `start-desktop`. One request at a time starts or opens the desktop (`at` is the
command it is at), while requests to stop it run beside (`stops`). `sway`, `vnc`,
`stamp` and `marker` are what the commands find in the pod; `status` is the event the
clients were sent last. A request to open a preview also starts what it shows: for a
page the server of the project, before the desktop (`Serve`, `Poll`), for an application
of the manifest the application, on the desktop (`ShowApp`). `server` and `app` say
whether they are there, `told` whether the client got `preview-launch-error`. That a
server does not answer before its deadline is a choice; what is drawn is left out. The
script tries the port and leaves its stamp in two steps (agent-toolchain.Dockerfile:198),
which `Stamps` takes as one: a `stopDesktop` between them, whose stamp then outlives it, is
left out.

| Run | Question |
|---|---|
| `Parts_services` | `Settings`: sections do not undo one another (`NothingLost`), what the document names exists (`ReferencesResolve`), a clean-up takes its flag back (`CleaningEnds`). `Artifacts`: `RowsHaveFiles`. `Decisions`: see above. `Desktop`: a desktop shown as running accepts connections and has the keyboard asked for last, one shown as stopped is off, and the page of a preview is answered or its application runs unless the client was told otherwise (`StatusIsTrue`); "starting" and "stopping" are followed by how it ended (`RequestsAreAnswered`) |

`MC_Parts` puts these modules side by side in the same way. Bounds: two requests on the
settings, one fault; two packages of one name, and an image beside a knowledge entry,
with two requests or sweeps; three requests to the desktop, two of them to stop it at
once, one fault. Two requests are enough for a lost update or a sweep beside an upload.
Fairness: every promise of a request settles, timers fire, and every docker command has
a timeout. Excused by the properties, because the code does not exclude it: two requests
that hold one section at once; a credential whose deletion or replacement is under way;
the picture of a message sent long after its upload, which the clean-up took for
garbage; the desktop that a stop crossed; a desktop, a server or an application that
ended by itself.

`Parts_proofs` proves `NothingLost`, `ReferencesResolve` and the types of `Settings` for
any number of names, requests and faults. Why nothing is lost: a section that has not
crossed is in hand of one request at most, what that request read is what is stored
(`InTurn`), and what is stored is what is wanted (`UpToDate`); this outlasts also the
writes of the clean-up, which hold all sections. Why names resolve: no document, stored
or in hand, names a logo or credential that was not written yet (`Known`); what a
request is about to name is there (`Owns`); the file an upload clears, and the files a
sweep unlinks, are not those of the stored document, nor of a request that has still to
write (`Spares`).

`Artifacts_proofs` proves `RowsHaveFiles` for any items, requests and sweeps. Who
removes a file by name has removed its row before, and nobody will write that row again
(`Removes`, `Alone`); a row the sweep did not see came after it read the table, so that
its file is at most two ticks old when the sweep looks at its age (`Spares`); the file
of a row not yet written is younger still (`Makes`).

`Parts_proofs` proves `StatusIsTrue` for any number of requests, stops, polls and
faults. By the time "running" is announced, the last request left the desktop whole, for
at every command before it found it so or made it so: one that compares keyboards saw a
compositor that is up or no stamp of a keyboard, one that starts a desktop saw none that
is up, one that waits for the stamp either has a whole desktop or waits for one that is
going, which has no stamp to be found (`OnItsWay`, `Fading`). Behind the preparations
of a preview its page is answered or the client was told (`Served`). No stop runs beside
such a request (`Uncrossed`). What ends by itself, or fails, counts as excused until the
next request begins.

`MC_Parts` extends `Settings`; `Calls` is its instance of `Decisions`, and `Library` and
`Chat` are two of `Artifacts`. That these two are what the instances of
`Artifacts_proofs` define is a lemma each (`LibraryAlike`, `ChatAlike`), definition by
definition; that the parts do not move one another is `PartsStep`. So the theorems hold
of `PartsSpec`, for all constants `PartsAssumption` admits: bounds that are natural
numbers, kinds of calls and items that do not overlap.

## What is proved, and what is not

The modules with theorems are `ChatAgent_proofs`, `AgentSessions_proofs`,
`ChatStream_proofs`, `ChatPage_proofs`, `AgentEvents_proofs`, `Session_proofs`,
`Artifacts_proofs` and `Parts_proofs`. Their assumptions are on the constants (bounds
are natural numbers, kinds of calls and items are disjoint) and, for two theorems each on
sessions and on port blocks, the two named above: no MCP clients, and a podman that
answers. The whole pods are proved without the clean-up of orphans. The inductive
invariants were explored with TLC before they were proved.

Only model-checked: every liveness property, which needs fairness and `ENABLED`; the
fairness of `PromptQueue`; and the types of the parts of `AgentEvents_view` but for those
of `FileTree` and `ChatPage`. `ViewFollows` of that run is proved part by part:
`ClientFollows`, `TreeIsFollowed` and `PageIsRight`.

## Not modelled

Message texts, prompts and prices; the wire formats of the model providers; the
user interface beyond the pages of a session and of a thread; external programs beyond
the ways they may answer. Registration,
login and invitation codes are access control. Of the settings routes those that
forward one update to one row, and of the agent's routes the validation. Relays,
image descriptions, browser and code tools pass bytes or drive external programs and
keep no state that two steps share. The other parts are listed in `PROJECT.json` with
the reason.
