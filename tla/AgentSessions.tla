--------------------------- MODULE AgentSessions ---------------------------
(***************************************************************************)
(* server/src/services/AgentSessionService.ts: which server process runs    *)
(* the agent of one project.  A process that wants to create the live       *)
(* session takes a Postgres advisory lock on a connection of its own; a     *)
(* command that reaches another process is forwarded by NOTIFY.  Idle       *)
(* sessions are evicted by a sweep.                                         *)
(*                                                                         *)
(* Prompts stand for submit commands.  What the agent does with them is in  *)
(* ChatAgent; what the database keeps of them is left out, so a crash loses *)
(* the prompts of a session.                                                *)
(***************************************************************************)
EXTENDS Naturals, Sequences, SequencesExt

CONSTANTS
  Server,        \* server processes
  Prompt,        \* submit commands
  MaxSessions,   \* bound: sessions created during a behaviour
  MaxCrashes,    \* bound: crashes during a behaviour
  MaxEvictions,  \* bound: overlapping evict() calls of one process
  McpConnected   \* whether sessions have MCP clients, whose close() takes time

Session == 1..MaxSessions
NoSession == 0

ASSUME ClusterAssumption ==
  /\ {MaxSessions, MaxCrashes, MaxEvictions} \subseteq Nat
  /\ McpConnected \in BOOLEAN

VARIABLES
  held,      \* how often each process holds the (re-entrant) advisory lock
  lockq,     \* queries under way on this.lockClient, answered in order
  live,      \* this.sessions: the session of each process
  hosts,     \* the process each session was created in: session n is the n-th
  creation,  \* this.pendingCreate, and how far it is
  hands,     \* submits that await ensureSession
  evicting,  \* evict() calls that await mcp.close()
  inbox,     \* submits forwarded by NOTIFY, not yet delivered at a process
  tasks,     \* prompts each session's agent has accepted and not finished
  fate,      \* what became of each prompt
  crashes

vars == <<held, lockq, live, hosts, creation, hands, evicting, inbox, tasks,
          fate, crashes>>

Init ==
  /\ held = [i \in Server |-> 0]
  /\ lockq = [i \in Server |-> <<>>]
  /\ live = [i \in Server |-> NoSession]
  /\ hosts = <<>>
  /\ creation = [i \in Server |-> "none"]
  /\ hands = [i \in Server |-> {}]
  /\ evicting = [i \in Server |-> 0]
  /\ inbox = [i \in Server |-> {}]
  /\ tasks = [s \in Session |-> {}]
  /\ fate = [p \in Prompt |-> "new"]
  /\ crashes = 0

Fates(ps, f) == fate' = [p \in Prompt |-> IF p \in ps THEN f ELSE fate[p]]
Ask(i, query) == lockq' = [lockq EXCEPT ![i] = Append(@, query)]

\* apply(): the prompts enter the agent of session s.
Accept(s, ps) ==
  /\ tasks' = [tasks EXCEPT ![s] = @ \union ps]
  /\ Fates(ps, "accepted")

-----------------------------------------------------------------------------
\* Variant: every submit without a session starts a creation of its own.
SubmitClaims(i, p) ==
  /\ fate[p] = "new"
  /\ IF live[i] # NoSession
     THEN Accept(live[i], {p}) /\ UNCHANGED <<hands, creation, lockq>>
     ELSE /\ hands' = [hands EXCEPT ![i] = @ \union {p}]
          /\ Fates({p}, "waiting")
          /\ creation' = [creation EXCEPT ![i] = "claim"]
          /\ Ask(i, "claim")
          /\ UNCHANGED tasks
  /\ UNCHANGED <<held, live, hosts, evicting, inbox, crashes>>

\* dispatchCommand: the submit is applied to the live session, or awaits the
\* one creation of this process, started if none is under way.
Submit(i, p) ==
  /\ fate[p] = "new"
  /\ IF live[i] # NoSession
     THEN Accept(live[i], {p}) /\ UNCHANGED <<hands, creation, lockq>>
     ELSE /\ hands' = [hands EXCEPT ![i] = @ \union {p}]
          /\ Fates({p}, "waiting")
          /\ IF creation[i] = "none"
             THEN creation' = [creation EXCEPT ![i] = "claim"] /\ Ask(i, "claim")
             ELSE UNCHANGED <<creation, lockq>>
          /\ UNCHANGED tasks
  /\ UNCHANGED <<held, live, hosts, evicting, inbox, crashes>>

\* Variant: the lock is not looked at.
ClaimAlways(i) ==
  /\ lockq[i] # <<>>
  /\ Head(lockq[i]) = "claim"
  /\ lockq' = [lockq EXCEPT ![i] = Tail(@)]
  /\ held' = [held EXCEPT ![i] = @ + 1]
  /\ creation' = [creation EXCEPT ![i] = "create"]
  /\ UNCHANGED <<hands, inbox, fate, live, hosts, evicting, tasks, crashes>>

\* Variant: the submits of a process that is refused are not published.
ClaimForgets(i) ==
  /\ lockq[i] # <<>>
  /\ Head(lockq[i]) = "claim"
  /\ lockq' = [lockq EXCEPT ![i] = Tail(@)]
  /\ LET granted == \A j \in Server \ {i} : held[j] = 0 IN
     /\ held' = [held EXCEPT ![i] = IF granted THEN @ + 1 ELSE @]
     /\ creation' = [creation EXCEPT ![i] = IF granted THEN "create" ELSE "none"]
  /\ UNCHANGED <<hands, inbox, fate, live, hosts, evicting, tasks, crashes>>

\* pg_try_advisory_lock: granted unless another process holds it.  Refused, the
\* waiting submits are published to every process.
Claim(i) ==
  /\ lockq[i] # <<>>
  /\ Head(lockq[i]) = "claim"
  /\ lockq' = [lockq EXCEPT ![i] = Tail(@)]
  /\ IF \A j \in Server \ {i} : held[j] = 0
     THEN /\ held' = [held EXCEPT ![i] = @ + 1]
          /\ creation' = [creation EXCEPT ![i] = "create"]
          /\ UNCHANGED <<hands, inbox, fate>>
     ELSE /\ creation' = [creation EXCEPT ![i] = "none"]
          /\ hands' = [hands EXCEPT ![i] = {}]
          /\ inbox' = [j \in Server |-> inbox[j] \union hands[i]]
          /\ Fates(hands[i], "routed")
          /\ UNCHANGED held
  /\ UNCHANGED <<live, hosts, evicting, tasks, crashes>>

\* pg_advisory_unlock.  After a creation that failed ("giveUp") the submits
\* that awaited it fail, too; they get an error event.
Unlock(i) ==
  /\ lockq[i] # <<>>
  /\ Head(lockq[i]) \in {"unlock", "giveUp"}
  /\ lockq' = [lockq EXCEPT ![i] = Tail(@)]
  /\ held' = [held EXCEPT ![i] = IF @ = 0 THEN 0 ELSE @ - 1]
  /\ IF Head(lockq[i]) = "giveUp"
     THEN /\ creation' = [creation EXCEPT ![i] = "none"]
          /\ hands' = [hands EXCEPT ![i] = {}]
          /\ Fates(hands[i], "failed")
     ELSE UNCHANGED <<creation, hands, fate>>
  /\ UNCHANGED <<live, hosts, evicting, inbox, tasks, crashes>>

\* createOwnedSession: minutes may pass (sandbox, MCP servers) before the
\* session is in the map and the waiting submits enter it.
Create(i) ==
  /\ creation[i] = "create"
  /\ Len(hosts) < MaxSessions
  /\ hosts' = Append(hosts, i)
  /\ live' = [live EXCEPT ![i] = Len(hosts) + 1]
  /\ Accept(Len(hosts) + 1, hands[i])
  /\ hands' = [hands EXCEPT ![i] = {}]
  /\ creation' = [creation EXCEPT ![i] = "none"]
  /\ UNCHANGED <<held, lockq, evicting, inbox, crashes>>

\* Variant: the error is passed on, but the lock kept.
CreateFailsLocked(i) ==
  /\ creation[i] = "create"
  /\ creation' = [creation EXCEPT ![i] = "none"]
  /\ hands' = [hands EXCEPT ![i] = {}]
  /\ Fates(hands[i], "failed")
  /\ UNCHANGED <<held, lockq, live, hosts, evicting, inbox, tasks, crashes>>

\* Variant: the rejected promise stays in pendingCreate.
CreateFailsForGood(i) ==
  /\ creation[i] = "create"
  /\ creation' = [creation EXCEPT ![i] = "rejected"]
  /\ hands' = [hands EXCEPT ![i] = {}]
  /\ Fates(hands[i], "failed")
  /\ Ask(i, "unlock")
  /\ UNCHANGED <<held, live, hosts, evicting, inbox, tasks, crashes>>

\* It failed: the lock is released before the error is passed on.
CreateFails(i) ==
  /\ creation[i] = "create"
  /\ creation' = [creation EXCEPT ![i] = "fail"]
  /\ Ask(i, "giveUp")
  /\ UNCHANGED <<held, live, hosts, hands, evicting, inbox, tasks, fate, crashes>>

\* applyCommandIfOwned: a process without a live session drops the command.
Deliver(i, p) ==
  /\ p \in inbox[i]
  /\ inbox' = [inbox EXCEPT ![i] = @ \ {p}]
  /\ IF live[i] # NoSession
     THEN Accept(live[i], {p})
     ELSE UNCHANGED <<tasks, fate>>
  /\ UNCHANGED <<held, lockq, live, hosts, creation, hands, evicting, crashes>>

\* The agent of s ended a prompt's turn.
Finish(s, p) ==
  /\ p \in tasks[s]
  /\ tasks' = [tasks EXCEPT ![s] = @ \ {p}]
  /\ Fates({p}, "done")
  /\ UNCHANGED <<held, lockq, live, hosts, creation, hands, evicting, inbox, crashes>>

-----------------------------------------------------------------------------
\* Variant: the session leaves the map, the lock stays.
LeaveLocked(i) == live' = [live EXCEPT ![i] = NoSession] /\ UNCHANGED lockq

\* The end of evict(), for whatever session is in the map by then.
Leave(i) == live' = [live EXCEPT ![i] = NoSession] /\ Ask(i, "unlock")

\* sweepIdle and evict(): a session nobody used for ten minutes, so that no
\* command is on its way to it, and whose agent rests.  Without MCP clients
\* nothing runs between the check and the end of evict().
Sweep(i) ==
  /\ live[i] # NoSession
  /\ tasks[live[i]] = {}
  /\ \A j \in Server : inbox[j] = {}
  /\ IF McpConnected
     THEN /\ evicting[i] < MaxEvictions
          /\ evicting' = [evicting EXCEPT ![i] = @ + 1]
          /\ UNCHANGED <<live, lockq>>
     ELSE Leave(i) /\ UNCHANGED evicting
  /\ UNCHANGED <<held, hosts, creation, hands, inbox, tasks, fate, crashes>>

\* mcp.close() settled.
CloseReturns(i) ==
  /\ evicting[i] > 0
  /\ evicting' = [evicting EXCEPT ![i] = @ - 1]
  /\ Leave(i)
  /\ UNCHANGED <<held, hosts, creation, hands, inbox, tasks, fate, crashes>>

\* A crash ends the agents of all sessions of the process, also of those no
\* longer in its map, and Postgres frees the locks of the closed connection.
Crash(i) ==
  LET ours == {s \in 1..Len(hosts) : hosts[s] = i} IN
  /\ crashes < MaxCrashes
  /\ crashes' = crashes + 1
  /\ held' = [held EXCEPT ![i] = 0]
  /\ lockq' = [lockq EXCEPT ![i] = <<>>]
  /\ live' = [live EXCEPT ![i] = NoSession]
  /\ creation' = [creation EXCEPT ![i] = "none"]
  /\ evicting' = [evicting EXCEPT ![i] = 0]
  /\ hands' = [hands EXCEPT ![i] = {}]
  /\ inbox' = [inbox EXCEPT ![i] = {}]
  /\ tasks' = [s \in Session |-> IF s \in ours THEN {} ELSE tasks[s]]
  /\ Fates(hands[i] \union UNION {tasks[s] : s \in ours}, "crashed")
  /\ UNCHANGED hosts

Work(i) == Claim(i) \/ Unlock(i) \/ Create(i) \/ CreateFails(i) \/ CloseReturns(i)

Next ==
  \/ \E i \in Server : Work(i) \/ Sweep(i) \/ Crash(i)
  \/ \E i \in Server, p \in Prompt : Submit(i, p) \/ Deliver(i, p)
  \/ \E s \in Session, p \in Prompt : Finish(s, p)

Spec == Init /\ [][Next]_vars

\* Queries are answered, a creation ends, and NOTIFYs arrive.
FairSpec ==
  /\ Spec
  /\ \A i \in Server : WF_vars(Work(i))
  /\ \A i \in Server, p \in Prompt : WF_vars(Deliver(i, p))
-----------------------------------------------------------------------------
TypeOK ==
  /\ held \in [Server -> Nat]
  /\ lockq \in [Server -> Seq({"claim", "unlock", "giveUp"})]
  /\ live \in [Server -> Session \union {NoSession}]
  /\ hosts \in Seq(Server) /\ Len(hosts) <= MaxSessions
  /\ creation \in [Server -> {"none", "claim", "create", "fail"}]
  /\ hands \in [Server -> SUBSET Prompt]
  /\ evicting \in [Server -> 0..MaxEvictions]
  /\ inbox \in [Server -> SUBSET Prompt]
  /\ tasks \in [Session -> SUBSET Prompt]
  /\ fate \in [Prompt -> {"new", "waiting", "routed", "accepted", "failed",
                          "done", "crashed"}]
  /\ crashes \in 0..MaxCrashes

\* "Mutable state owned by one server process for a live agent project"
\* (AgentSessionService.ts:343): never do two agents of a project work at once,
\* in one process or in two.
OneWorkingAgent ==
  \A s, t \in Session : tasks[s] # {} /\ tasks[t] # {} => s = t

\* A process with a session in its map holds the lock, and no query is under
\* way that gives it up.
LiveMeansLocked ==
  \A i \in Server : live[i] # NoSession =>
    held[i] > 0 /\ creation[i] = "none" /\ lockq[i] = <<>>

\* The lock is never leaked: it is held for a session, for a creation, or until
\* an unlock that is under way is answered, so that another process can take
\* the project over.
LockIsReturned ==
  \A i \in Server : held[i] > 0 =>
    \/ live[i] # NoSession
    \/ creation[i] = "create"
    \/ ToSet(lockq[i]) \intersect {"unlock", "giveUp"} # {}

\* Every submit is answered for: it enters an agent, fails with an error, or is
\* handed to the other processes.
SubmitsSettle ==
  \A p \in Prompt : fate[p] = "waiting" ~> fate[p] # "waiting"
=============================================================================
