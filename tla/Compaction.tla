----------------------------- MODULE Compaction -----------------------------
(***************************************************************************)
(* The history of an agent and its rolling summary (chat-engine's           *)
(* ContextManager.ts, as AgentSessionService.ts uses it).  The history is   *)
(* kept in full; a state says how many of its first messages a summary      *)
(* stands for, and a request carries the summary and the rest.  Messages    *)
(* are stored one after the other, the state beside them, and both are read *)
(* back when the session is made again, here or in another process.         *)
(*                                                                         *)
(* The system message is left out: it is always there and always first.  Of *)
(* a summary the module keeps which messages were folded into it, of the    *)
(* size of a request nothing: every turn may find it too large.             *)
(***************************************************************************)
EXTENDS Integers, Sequences, SequencesExt, FiniteSetsExt

CONSTANTS
  RecentKeep,    \* SUMMARY_RECENT_KEEP: messages that are never folded
  MaxMessages,   \* bound: messages during a behaviour
  MaxCalls,      \* bound: calls of one reply
  MaxLost,       \* bound: saves that fail
  MaxRestarts,   \* bound: sessions that are made again
  Crashes        \* whether processes end in the middle of things

\* Every theorem about this module assumes it.
CompactionAssumption ==
  /\ {RecentKeep, MaxMessages, MaxCalls, MaxLost, MaxRestarts} \subseteq Nat
  /\ Crashes \in BOOLEAN

VARIABLES
  history,   \* ChatClient's messages
  made,      \* messages so far: each has its number
  state,     \* CompactionState, and the messages its summary was made of
  turn,      \* what the agent does next
  open,      \* calls of the last reply that have no result yet
  saves,     \* session.saveQueue: messages to be stored
  rows,      \* agent_messages
  storing,   \* updates of agent_projects.compaction under way
  kept,      \* agent_projects.compaction
  lost,      \* saves that failed
  restarts

vars == <<history, made, state, turn, open, saves, rows, storing, kept, lost, restarts>>
dbVars == <<rows, kept, lost>>

\* Replies with calls are "call"; a "result" names the reply its call is from.
Kinds == {"user", "nudge", "text", "blank", "call", "result"}
Message == [id : Nat, kind : Kinds, of : Nat]
CompactionState == [covered : Nat, told : SUBSET Nat]

NothingTold == [covered |-> 0, told |-> {}]

Init ==
  /\ history = <<>> /\ made = 0
  /\ state = NothingTold
  /\ turn = "rest" /\ open = 0
  /\ saves = <<>> /\ rows = <<>>
  /\ storing = {} /\ kept = NothingTold
  /\ lost = 0 /\ restarts = 0

-----------------------------------------------------------------------------
\* A request carries what the summary does not stand for, whatever that was.
Outgoing(h, covered) == SubSeq(h, covered + 1, Len(h))

Ids(h) == {m.id : m \in ToSet(h)}

\* Variant: the window may begin with the result of a folded call.
CutAnywhere(covered) == Max({covered, Len(history) - RecentKeep})

\* Where the window of recent messages begins: never with a tool result.
Cut(covered) ==
  LET recent == Max({covered, Len(history) - RecentKeep})
  IN Min({n \in recent..Max({recent, Len(history)}) :
            n >= Len(history) \/ history[n + 1].kind # "result"})

\* The request is small enough, or the model gave no summary.
SummaryFails ==
  /\ turn = "rest" /\ made < MaxMessages
  /\ turn' = "prompt"
  /\ UNCHANGED <<history, made, state, open, saves, storing, dbVars, restarts>>

\* Before a turn: what has left the window since is folded into the summary.
Summarize ==
  LET cut == Cut(state.covered) IN
  /\ turn = "rest" /\ made < MaxMessages
  /\ cut > state.covered
  /\ state' = [covered |-> cut,
               told |-> state.told \union Ids(SubSeq(history, state.covered + 1, cut))]
  /\ storing' = storing \union {state'}
  /\ turn' = "prompt"
  /\ UNCHANGED <<history, made, open, saves, dbVars, restarts>>

-----------------------------------------------------------------------------
\* Control prompts and blank replies are part of the history, but not stored; they come
\* alone.
Stored(ms) == IF \E m \in ToSet(ms) : m.kind \in {"nudge", "blank"} THEN <<>> ELSE ms

\* The messages enter the history, and the save of each begins.
Add(ms) ==
  /\ made + Len(ms) <= MaxMessages
  /\ made' = made + Len(ms)
  /\ history' = history \o ms
  /\ saves' = saves \o Stored(ms)

New(kind, n) == [id |-> made + n, kind |-> kind, of |-> 0]

\* The prompt goes to the model, or comes with calls the host asks for.
Prompt ==
  /\ turn = "prompt"
  /\ \/ Add(<<New("user", 1)>>) /\ turn' = "ask" /\ UNCHANGED open
     \/ /\ Add(<<New("user", 1), New("call", 2)>>)
        /\ \E n \in 1..MaxCalls : open' = n
        /\ turn' = "tools"
  /\ UNCHANGED <<state, storing, dbVars, restarts>>

\* A request: the model answers with a text, with nothing, or with calls.
Reply ==
  /\ turn = "ask"
  /\ \/ \E kind \in {"text", "blank"} :
          Add(<<New(kind, 1)>>) /\ turn' = kind /\ UNCHANGED open
     \/ /\ Add(<<New("call", 1)>>)
        /\ \E n \in 1..MaxCalls : open' = n
        /\ turn' = "tools"
  /\ UNCHANGED <<state, storing, dbVars, restarts>>

\* A call is answered: by its result, or because it was rejected or stopped.
Result ==
  LET call == Max({i \in DOMAIN history : history[i].kind = "call"}) IN
  /\ turn = "tools"
  /\ Add(<<[id |-> made + 1, kind |-> "result", of |-> history[call].id]>>)
  /\ open' = open - 1
  /\ turn' = IF open = 1 THEN "ask" ELSE "tools"
  /\ UNCHANGED <<state, storing, dbVars, restarts>>

\* A blank reply, or a text where an action was due, is followed by a nudge; the one
\* that asks for a plan, or repairs a call, is not recognised and stored as a prompt.
Nudge ==
  /\ turn \in {"text", "blank"}
  /\ \E kind \in {"nudge", "user"} :
       /\ turn = "blank" => kind = "nudge"
       /\ Add(<<New(kind, 1)>>)
  /\ turn' = "ask"
  /\ UNCHANGED <<state, open, storing, dbVars, restarts>>

\* The turn is complete, or the request failed, or it was stopped; or it has made
\* too many requests, and its last calls stay without results.
EndTurn ==
  /\ turn # "rest" /\ turn # "prompt"
  /\ turn = "tools" => Last(history).kind = "call"
  /\ turn' = "rest" /\ open' = 0
  /\ UNCHANGED <<history, made, state, saves, storing, dbVars, restarts>>

-----------------------------------------------------------------------------
\* The next save of the chain ends; one that fails is logged and left out.
Save ==
  /\ saves # <<>>
  /\ saves' = Tail(saves)
  /\ \/ rows' = Append(rows, Head(saves)) /\ UNCHANGED lost
     \/ lost < MaxLost /\ lost' = lost + 1 /\ UNCHANGED rows
  /\ UNCHANGED <<history, made, state, turn, open, storing, kept, restarts>>

\* An update of the project's row ends; nobody waits for it, nor does the next one.
StoreState ==
  /\ \E s \in storing : kept' = s /\ storing' = storing \ {s}
  /\ UNCHANGED <<history, made, state, turn, open, saves, rows, lost, restarts>>

\* finishOwnedSession, restoreState: the session is made again from what is stored.
Reload ==
  /\ restarts < MaxRestarts
  /\ restarts' = restarts + 1
  /\ history' = rows
  /\ state' = kept
  /\ saves' = <<>> /\ storing' = {}
  /\ turn' = "rest" /\ open' = 0
  /\ UNCHANGED <<made, dbVars>>

\* A session that rested for ten minutes is evicted.
Evict == turn = "rest" /\ saves = <<>> /\ storing = {} /\ Reload

\* The process ends; what was under way is lost.
Crash == Crashes /\ Reload

Next == \/ Summarize \/ SummaryFails \/ Prompt \/ Reply \/ Result \/ Nudge \/ EndTurn
        \/ Save \/ StoreState \/ Evict \/ Crash

Spec == Init /\ [][Next]_vars
-----------------------------------------------------------------------------
TypeOK ==
  /\ history \in Seq(Message) /\ rows \in Seq(Message) /\ saves \in Seq(Message)
  /\ made \in 0..MaxMessages /\ open \in 0..MaxCalls
  /\ state \in CompactionState /\ kept \in CompactionState
  /\ storing \subseteq CompactionState
  /\ turn \in {"rest", "prompt", "ask", "tools", "text", "blank"}
  /\ lost \in 0..MaxLost /\ restarts \in 0..MaxRestarts

\* "Number of leading non-system messages represented by `summary`"
\* (ContextManager.ts:644): no message of the history is missing both from the
\* summary and from the next request.
NothingForgotten ==
  Ids(history) \subseteq state.told \union Ids(Outgoing(history, state.covered))

\* As long as every message that was folded is in the history, the summary stands
\* for what the request leaves out and for nothing else, and the request holds no
\* result without its call (applySummaryToMessages, summarizeIncremental), also
\* after crashes in the middle of a turn, with saves that were lost.
SummaryStandsForRest ==
  LET sent == Outgoing(history, state.covered) IN
  state.told \subseteq Ids(history) =>
    /\ state.told = Ids(history) \ Ids(sent)
    /\ \A m \in ToSet(sent) : m.kind = "result" /\ m.of \in Ids(history) => m.of \in Ids(sent)
=============================================================================
