------------------------ MODULE AgentSessions_proofs ------------------------
(***************************************************************************)
(* Theorems about AgentSessions, for any number of processes, sessions and  *)
(* crashes.  That a project has one working agent is proved for processes   *)
(* without MCP clients, where nothing runs between the start and the end of *)
(* evict(); with them it is false.  Types, and that the lock comes back,    *)
(* are proved either way.                                                   *)
(*                                                                          *)
(* Then theorems about SandboxPods, the pods that the sessions work in, for *)
(* any number of projects, calls and blocks: while podman answers, no two   *)
(* pods are given one block of ports; and whether it answers or not, a call *)
(* only hands out a pod that is complete.                                   *)
(***************************************************************************)
EXTENDS AgentSessions, SandboxPods, SequenceTheorems, WellFoundedInduction, TLAPS

\* The query answers that are still to come, whether the lock is held, and how
\* far a creation is, for one process.
Stage(i, c, q, h) == creation[i] = c /\ lockq[i] = q /\ held[i] = h

LockStage(i) ==
  \/ Stage(i, "none", <<>>, 1) /\ live[i] # NoSession
  \/ /\ live[i] = NoSession
     /\ \/ Stage(i, "none", <<>>, 0)
        \/ Stage(i, "none", <<"unlock">>, 1)
        \/ Stage(i, "claim", <<"claim">>, 0)
        \/ Stage(i, "claim", <<"unlock", "claim">>, 1)
        \/ Stage(i, "create", <<>>, 1)
        \/ Stage(i, "fail", <<"giveUp">>, 1)

LockStages == \A i \in Server : LockStage(i)
Exclusive == \A i, j \in Server : held[i] > 0 /\ held[j] > 0 => i = j

\* Only the session in the map of its process has work.
Mapped == \A i \in Server : live[i] # NoSession =>
            live[i] \in DOMAIN hosts /\ hosts[live[i]] = i
WorkIsLive == \A s \in Session : tasks[s] # {} =>
                s \in DOMAIN hosts /\ live[hosts[s]] = s

\* What the functions are defined on.
Shapes ==
  /\ held = [i \in Server |-> held[i]]
  /\ lockq = [i \in Server |-> lockq[i]]
  /\ live = [i \in Server |-> live[i]]
  /\ creation = [i \in Server |-> creation[i]]
  /\ evicting = [i \in Server |-> 0]
  /\ hosts \in Seq(Server)
  /\ tasks = [s \in Session |-> tasks[s]]

Ownership ==
  /\ Shapes
  /\ LockStages
  /\ Exclusive
  /\ Mapped
  /\ WorkIsLive

\* A pair is its first element with the second appended.
LEMMA AppendPair == ASSUME NEW S, NEW a \in S, NEW b \in S
                    PROVE  Append(<<a>>, b) = <<a, b>>
<1>1. Append(<<a>>, b) \in Seq(S) /\ Len(Append(<<a>>, b)) = 2
  OBVIOUS
<1>2. Append(<<a>>, b)[1] = a /\ Append(<<a>>, b)[2] = b
  OBVIOUS
<1>3. <<a, b>> \in Seq(S) /\ Len(<<a, b>>) = 2 /\ <<a, b>>[1] = a /\ <<a, b>>[2] = b
  OBVIOUS
<1>4. \A i \in 1..Len(Append(<<a>>, b)) : Append(<<a>>, b)[i] = <<a, b>>[i]
  <2>1. \A i \in 1..2 : i = 1 \/ i = 2
    OBVIOUS
  <2> QED BY <1>1, <1>2, <1>3, <2>1
<1> QED BY <1>1, <1>3, <1>4, SeqEqual, Zenon

\* The queues of queries that occur: what is put in at the back and taken out
\* in front.
LEMMA Queues ==
  /\ Append(<<>>, "claim") = <<"claim">>
  /\ Append(<<>>, "unlock") = <<"unlock">>
  /\ Append(<<>>, "giveUp") = <<"giveUp">>
  /\ Append(<<"unlock">>, "claim") = <<"unlock", "claim">>
  /\ Head(<<"claim">>) = "claim" /\ Tail(<<"claim">>) = <<>>
  /\ Head(<<"unlock">>) = "unlock" /\ Tail(<<"unlock">>) = <<>>
  /\ Head(<<"giveUp">>) = "giveUp" /\ Tail(<<"giveUp">>) = <<>>
  /\ Head(<<"unlock", "claim">>) = "unlock" /\ Tail(<<"unlock", "claim">>) = <<"claim">>
<1>1. Append(<<"unlock">>, "claim") = <<"unlock", "claim">>
  <2>1. "unlock" \in {"unlock", "claim"} /\ "claim" \in {"unlock", "claim"}
    OBVIOUS
  <2> QED BY <2>1, AppendPair
<1>2. Tail(<<"unlock", "claim">>) = <<"claim">>
  OBVIOUS
<1> QED BY <1>1, <1>2

\* Initially nobody holds the lock and there is no session.
LEMMA OwnershipInit == Init => Ownership
  BY ClusterAssumption DEF Init, Ownership, Shapes, LockStages, LockStage, Stage,
     Exclusive, Mapped, WorkIsLive, Session, NoSession

\* The invariant gives the one working agent: two sessions with work are in the
\* maps of processes that hold the lock.
LEMMA OwnershipIsEnough == Ownership => OneWorkingAgent /\ LiveMeansLocked
<1> SUFFICES ASSUME Ownership PROVE OneWorkingAgent /\ LiveMeansLocked
  OBVIOUS
<1>1. LiveMeansLocked
  BY DEF Ownership, LockStages, LockStage, Stage, LiveMeansLocked, NoSession
<1>2. OneWorkingAgent
  <2> SUFFICES ASSUME NEW s \in Session, NEW t \in Session,
                      tasks[s] # {}, tasks[t] # {}
               PROVE s = t
    BY DEF OneWorkingAgent
  <2>1. /\ hosts[s] \in Server /\ live[hosts[s]] = s
        /\ hosts[t] \in Server /\ live[hosts[t]] = t
    BY DEF Ownership, WorkIsLive, Shapes
  <2>2. held[hosts[s]] > 0 /\ held[hosts[t]] > 0
    BY <1>1, <2>1 DEF LiveMeansLocked, NoSession, Session
  <2>3. hosts[s] = hosts[t]
    BY <2>1, <2>2 DEF Ownership, Exclusive
  <2> QED BY <2>1, <2>3
<1> QED BY <1>1, <1>2

\* A prompt that enters the live session of a process is live work.
LEMMA AcceptLive ==
  ASSUME Mapped, WorkIsLive, Shapes, UNCHANGED <<live, hosts>>,
         NEW i \in Server, live[i] # NoSession, NEW ps, Accept(live[i], ps)
  PROVE  WorkIsLive'
<1> SUFFICES ASSUME NEW s \in Session, tasks'[s] # {}
             PROVE s \in DOMAIN hosts /\ live[hosts[s]] = s
  BY DEF WorkIsLive
<1>1. CASE s = live[i]
  BY <1>1 DEF Mapped
<1>2. CASE s # live[i]
  <2>1. tasks[s] # {}
    BY <1>2 DEF Accept, Shapes
  <2> QED BY <2>1 DEF WorkIsLive
<1> QED BY <1>1, <1>2

\* Every step keeps it.  The parts about locks only need the process that
\* moves, those about sessions the one session that moves.
LEMMA OwnershipStep ==
  ASSUME ~McpConnected, Ownership, [Next]_vars PROVE Ownership'
<1> USE DEF Ownership, NoSession
<1>1. ASSUME NEW i \in Server, NEW p \in Prompt, Submit(i, p) PROVE Ownership'
  <2>1. Shapes'
    BY <1>1 DEF Submit, Accept, Fates, Ask, Shapes
  <2>2. LockStages'
    <3>0. \A j \in Server : LockStage(j) BY DEF LockStages
    <3>1. LockStage(i)'
      <4>1. held' = held /\ live' = live
        BY <1>1 DEF Submit
      <4>2. CASE live[i] # NoSession \/ creation[i] # "none"
        <5>1. creation' = creation /\ lockq' = lockq
          BY <1>1, <4>2 DEF Submit, Accept
        <5> QED BY <3>0, <4>1, <5>1 DEF LockStage, Stage
      <4>3. CASE live[i] = NoSession /\ creation[i] = "none"
        <5>1. creation'[i] = "claim" /\ lockq'[i] = Append(lockq[i], "claim")
          BY <1>1, <4>3 DEF Submit, Ask, Shapes
        <5>2. Stage(i, "none", <<>>, 0) \/ Stage(i, "none", <<"unlock">>, 1)
          BY <3>0, <4>3 DEF LockStage, Stage
        <5> QED BY <4>1, <4>3, <5>1, <5>2, Queues DEF LockStage, Stage
      <4> QED BY <4>2, <4>3
    <3>2. ASSUME NEW j \in Server, j # i PROVE LockStage(j)'
      <4>1. /\ held'[j] = held[j] /\ lockq'[j] = lockq[j] /\ live'[j] = live[j]
            /\ creation'[j] = creation[j]
        BY <1>1, <3>2 DEF Submit, Accept, Ask, Shapes
      <4> QED BY <3>0, <4>1 DEF LockStage, Stage
    <3> QED BY <3>1, <3>2 DEF LockStages
  <2>3. Exclusive' /\ Mapped'
    BY <1>1 DEF Submit, Exclusive, Mapped
  <2>4. WorkIsLive'
    <3>1. CASE live[i] # NoSession
      BY <1>1, <3>1, AcceptLive DEF Submit
    <3>2. CASE live[i] = NoSession
      BY <1>1, <3>2 DEF Submit, WorkIsLive
    <3> QED BY <3>1, <3>2
  <2> QED BY <2>1, <2>2, <2>3, <2>4
<1>2. ASSUME NEW i \in Server, Claim(i) PROVE Ownership'
  <2>1. Shapes'
    BY <1>2 DEF Claim, Fates, Shapes
  <2>2. LockStages'
    <3>1. LockStage(i)'
      <4>1. live[i] = NoSession /\ Stage(i, "claim", <<"claim">>, 0)
        BY <1>2, Queues DEF Claim, LockStages, LockStage, Stage
      <4>2. lockq'[i] = <<>> /\ live'[i] = NoSession
        BY <1>2, <4>1, Queues DEF Claim, Stage, Shapes
      <4>3. CASE \A j \in Server \ {i} : held[j] = 0
        <5>1. held'[i] = 1 /\ creation'[i] = "create"
          BY <1>2, <4>1, <4>3 DEF Claim, Stage, Shapes
        <5> QED BY <4>2, <5>1 DEF LockStage, Stage
      <4>4. CASE ~ \A j \in Server \ {i} : held[j] = 0
        <5>1. held'[i] = 0 /\ creation'[i] = "none"
          BY <1>2, <4>1, <4>4 DEF Claim, Stage, Shapes
        <5> QED BY <4>2, <5>1 DEF LockStage, Stage
      <4> QED BY <4>3, <4>4
    <3>2. ASSUME NEW j \in Server, j # i PROVE LockStage(j)'
      <4>1. LockStage(j)
        BY DEF LockStages
      <4>2. held'[j] = held[j] /\ lockq'[j] = lockq[j] /\ live'[j] = live[j]
            /\ creation'[j] = creation[j]
        BY <1>2, <3>2 DEF Claim, Shapes
      <4> QED BY <4>1, <4>2 DEF LockStage, Stage
    <3> QED BY <3>1, <3>2 DEF LockStages
  <2>3. Exclusive'
    BY <1>2 DEF Claim, Exclusive, Shapes, LockStages, LockStage, Stage
  <2>4. Mapped' /\ WorkIsLive'
    BY <1>2 DEF Claim, Mapped, WorkIsLive
  <2> QED BY <2>1, <2>2, <2>3, <2>4
<1>3. ASSUME NEW i \in Server, Unlock(i) PROVE Ownership'
  <2>1. Shapes'
    BY <1>3 DEF Unlock, Fates, Shapes
  <2>2. LockStages'
    <3>1. LockStage(i)'
      <4>1. /\ live[i] = NoSession
            /\ \/ Stage(i, "none", <<"unlock">>, 1)
               \/ Stage(i, "claim", <<"unlock", "claim">>, 1)
               \/ Stage(i, "fail", <<"giveUp">>, 1)
        BY <1>3, Queues DEF Unlock, LockStages, LockStage, Stage
      <4>2. CASE Stage(i, "none", <<"unlock">>, 1)
        <5>1. lockq'[i] = <<>> /\ live'[i] = NoSession
          BY <1>3, <4>1, <4>2, Queues DEF Unlock, Stage, Shapes
        <5>2. held'[i] = 0
          BY <1>3, <4>2 DEF Unlock, Stage, Shapes
        <5>3. Head(lockq[i]) = "unlock"
          BY <4>2, Queues DEF Stage
        <5>4. creation'[i] = "none"
          BY <1>3, <4>2, <5>3 DEF Unlock, Stage, Shapes
        <5> QED BY <5>1, <5>2, <5>4 DEF LockStage, Stage
      <4>3. CASE Stage(i, "claim", <<"unlock", "claim">>, 1)
        <5>1. lockq'[i] = <<"claim">> /\ live'[i] = NoSession
          BY <1>3, <4>1, <4>3, Queues DEF Unlock, Stage, Shapes
        <5>2. held'[i] = 0
          BY <1>3, <4>3 DEF Unlock, Stage, Shapes
        <5>3. Head(lockq[i]) = "unlock"
          BY <4>3, Queues DEF Stage
        <5>4. creation'[i] = "claim"
          BY <1>3, <4>3, <5>3 DEF Unlock, Stage, Shapes
        <5> QED BY <5>1, <5>2, <5>4 DEF LockStage, Stage
      <4>4. CASE Stage(i, "fail", <<"giveUp">>, 1)
        <5>1. lockq'[i] = <<>> /\ live'[i] = NoSession
          BY <1>3, <4>1, <4>4, Queues DEF Unlock, Stage, Shapes
        <5>2. held'[i] = 0
          BY <1>3, <4>4 DEF Unlock, Stage, Shapes
        <5>3. Head(lockq[i]) = "giveUp"
          BY <4>4, Queues DEF Stage
        <5>4. creation'[i] = "none"
          BY <1>3, <4>4, <5>3 DEF Unlock, Stage, Shapes
        <5> QED BY <5>1, <5>2, <5>4 DEF LockStage, Stage
      <4> QED BY <4>1, <4>2, <4>3, <4>4
    <3>2. ASSUME NEW j \in Server, j # i PROVE LockStage(j)'
      <4>1. LockStage(j)
        BY DEF LockStages
      <4>2. held'[j] = held[j] /\ lockq'[j] = lockq[j] /\ live'[j] = live[j]
            /\ creation'[j] = creation[j]
        BY <1>3, <3>2 DEF Unlock, Shapes
      <4> QED BY <4>1, <4>2 DEF LockStage, Stage
    <3> QED BY <3>1, <3>2 DEF LockStages
  <2>3. Exclusive'
    <3>1. \A j \in Server : held'[j] > 0 => held[j] > 0
      BY <1>3 DEF Unlock, Shapes, LockStages, LockStage, Stage
    <3> QED BY <3>1 DEF Exclusive
  <2>4. Mapped' /\ WorkIsLive'
    BY <1>3 DEF Unlock, Mapped, WorkIsLive
  <2> QED BY <2>1, <2>2, <2>3, <2>4
<1>4. ASSUME NEW i \in Server, Create(i) PROVE Ownership'
  <2>0. live[i] = 0 /\ held[i] = 1 /\ lockq[i] = <<>>
    BY <1>4 DEF Create, LockStages, LockStage, Stage
  <2>1. Shapes'
    <3>1. hosts' \in Seq(Server)
      BY <1>4 DEF Create, Shapes
    <3> QED BY <1>4, <3>1 DEF Create, Accept, Shapes
  <2>2. LockStages'
    <3>1. LockStage(i)'
      BY <1>4, <2>0, Queues DEF Create, LockStages, LockStage, Stage, Shapes
    <3>2. ASSUME NEW j \in Server, j # i PROVE LockStage(j)'
      BY <1>4, <3>2 DEF Create, LockStages, LockStage, Stage, Shapes
    <3> QED BY <3>1, <3>2 DEF LockStages
  <2>3. Exclusive'
    BY <1>4 DEF Create, Exclusive
  <2>4. Mapped'
    BY <1>4 DEF Create, Mapped, Shapes
  <2>5. WorkIsLive'
    BY <1>4, <2>0 DEF Create, Accept, WorkIsLive, Mapped, Shapes, Session
  <2> QED BY <2>1, <2>2, <2>3, <2>4, <2>5
<1>5. ASSUME NEW i \in Server, CreateFails(i) PROVE Ownership'
  <2>1. Shapes'
    BY <1>5 DEF CreateFails, Ask, Shapes
  <2>2. LockStages'
    <3>1. LockStage(i)'
      BY <1>5, Queues DEF CreateFails, Ask, LockStages, LockStage, Stage, Shapes
    <3>2. ASSUME NEW j \in Server, j # i PROVE LockStage(j)'
      BY <1>5, <3>2 DEF CreateFails, Ask, LockStages, LockStage, Stage, Shapes
    <3> QED BY <3>1, <3>2 DEF LockStages
  <2>3. Exclusive' /\ Mapped' /\ WorkIsLive'
    BY <1>5 DEF CreateFails, Exclusive, Mapped, WorkIsLive
  <2> QED BY <2>1, <2>2, <2>3
<1>6. ASSUME NEW i \in Server, NEW p \in Prompt, Deliver(i, p) PROVE Ownership'
  <2>1. Shapes'
    BY <1>6 DEF Deliver, Accept, Fates, Shapes
  <2>2. LockStages' /\ Exclusive' /\ Mapped'
    BY <1>6 DEF Deliver, LockStages, LockStage, Stage, Exclusive, Mapped
  <2>3. WorkIsLive'
    <3>1. CASE live[i] # NoSession
      BY <1>6, <3>1, AcceptLive DEF Deliver
    <3>2. CASE live[i] = NoSession
      BY <1>6, <3>2 DEF Deliver, WorkIsLive
    <3> QED BY <3>1, <3>2
  <2> QED BY <2>1, <2>2, <2>3
<1>7. ASSUME NEW s \in Session, NEW p \in Prompt, Finish(s, p) PROVE Ownership'
  <2>1. Shapes'
    BY <1>7 DEF Finish, Fates, Shapes
  <2>2. LockStages' /\ Exclusive' /\ Mapped'
    BY <1>7 DEF Finish, LockStages, LockStage, Stage, Exclusive, Mapped
  <2>3. WorkIsLive'
    BY <1>7 DEF Finish, WorkIsLive, Shapes
  <2> QED BY <2>1, <2>2, <2>3
<1>8. ASSUME NEW i \in Server, Sweep(i) PROVE Ownership'
  <2>1. Shapes'
    BY <1>8 DEF Sweep, Leave, Ask, Shapes
  <2>2. LockStages'
    <3>1. LockStage(i)'
      BY <1>8, Queues DEF Sweep, Leave, Ask, LockStages, LockStage, Stage, Shapes
    <3>2. ASSUME NEW j \in Server, j # i PROVE LockStage(j)'
      BY <1>8, <3>2 DEF Sweep, Leave, Ask, LockStages, LockStage, Stage, Shapes
    <3> QED BY <3>1, <3>2 DEF LockStages
  <2>3. Exclusive'
    BY <1>8 DEF Sweep, Leave, Exclusive
  <2>4. Mapped'
    BY <1>8 DEF Sweep, Leave, Mapped, Shapes
  <2>5. WorkIsLive'
    <3> SUFFICES ASSUME NEW s \in Session, tasks[s] # {}
                 PROVE s \in DOMAIN hosts /\ live'[hosts[s]] = s
      BY <1>8 DEF Sweep, WorkIsLive
    <3>1. s \in DOMAIN hosts /\ live[hosts[s]] = s /\ hosts[s] \in Server
      BY DEF WorkIsLive, Shapes
    <3>2. hosts[s] # i
      BY <1>8, <3>1 DEF Sweep
    <3> QED BY <1>8, <3>1, <3>2 DEF Sweep, Leave, Shapes
  <2> QED BY <2>1, <2>2, <2>3, <2>4, <2>5
<1>9. ASSUME NEW i \in Server, CloseReturns(i) PROVE Ownership'
  BY <1>9 DEF CloseReturns, Shapes
<1>10. ASSUME NEW i \in Server, Crash(i) PROVE Ownership'
  <2>1. Shapes'
    BY <1>10 DEF Crash, Fates, Shapes
  <2>2. LockStages'
    <3>1. LockStage(i)'
      BY <1>10, Queues DEF Crash, LockStages, LockStage, Stage, Shapes
    <3>2. ASSUME NEW j \in Server, j # i PROVE LockStage(j)'
      BY <1>10, <3>2 DEF Crash, LockStages, LockStage, Stage, Shapes
    <3> QED BY <3>1, <3>2 DEF LockStages
  <2>3. Exclusive'
    BY <1>10 DEF Crash, Exclusive, Shapes
  <2>4. Mapped'
    BY <1>10 DEF Crash, Mapped, Shapes
  <2>5. WorkIsLive'
    BY <1>10 DEF Crash, WorkIsLive, Shapes
  <2> QED BY <2>1, <2>2, <2>3, <2>4, <2>5
<1>11. CASE UNCHANGED vars
  BY <1>11 DEF vars, Shapes, LockStages, LockStage, Stage, Exclusive, Mapped, WorkIsLive
<1> QED
  BY <1>1, <1>2, <1>3, <1>4, <1>5, <1>6, <1>7, <1>8, <1>9, <1>10, <1>11
  DEF Next, Work

\* Without MCP clients no two agents of a project ever work at once
\* (AgentSession is "owned by one server process", AgentSessionService.ts:343).
THEOREM OneAgentPerProject == ASSUME ~McpConnected PROVE Spec => []OneWorkingAgent
<1>1. Spec => []Ownership
  BY OwnershipInit, OwnershipStep, PTL DEF Spec
<1> QED
  BY <1>1, OwnershipIsEnough, PTL

\* Under the same assumption a process keeps the advisory lock for as long as a
\* session is in its map, with no query under way that gives it up.
THEOREM SessionHoldsLock == ASSUME ~McpConnected PROVE Spec => []LiveMeansLocked
<1>1. Spec => []Ownership
  BY OwnershipInit, OwnershipStep, PTL DEF Spec
<1> QED
  BY <1>1, OwnershipIsEnough, PTL

-----------------------------------------------------------------------------
(* Type correctness, with or without MCP clients.                           *)

Query == {"claim", "unlock", "giveUp"}
Creation == {"none", "claim", "create", "fail"}
Fate == {"new", "waiting", "routed", "accepted", "failed", "done", "crashed"}

LEMMA FatesTyped ==
  ASSUME NEW ps, NEW f \in Fate, fate \in [Prompt -> Fate], Fates(ps, f)
  PROVE  fate' \in [Prompt -> Fate]
BY DEF Fates

LEMMA AskTyped ==
  ASSUME NEW i \in Server, NEW query \in Query, lockq \in [Server -> Seq(Query)],
         Ask(i, query)
  PROVE  lockq' \in [Server -> Seq(Query)]
<1>1. Append(lockq[i], query) \in Seq(Query)
  OBVIOUS
<1> QED
  BY <1>1 DEF Ask

LEMMA AnswerTyped ==
  ASSUME NEW i \in Server, lockq \in [Server -> Seq(Query)], lockq[i] # <<>>
  PROVE  [lockq EXCEPT ![i] = Tail(@)] \in [Server -> Seq(Query)]
<1>1. Tail(lockq[i]) \in Seq(Query)
  OBVIOUS
<1> QED
  BY <1>1

LEMMA AcceptTyped ==
  ASSUME TypeOK, NEW s \in Session, NEW ps \in SUBSET Prompt, Accept(s, ps)
  PROVE  /\ tasks' \in [Session -> SUBSET Prompt]
         /\ fate' \in [Prompt -> Fate]
BY FatesTyped DEF TypeOK, Accept, Fate

LEMMA TypeInit == Init => TypeOK
<1> SUFFICES ASSUME Init PROVE TypeOK
  OBVIOUS
<1>1. hosts \in Seq(Server) /\ Len(hosts) <= MaxSessions
  BY ClusterAssumption DEF Init
<1>2. lockq \in [Server -> Seq({"claim", "unlock", "giveUp"})]
  <2>1. <<>> \in Seq({"claim", "unlock", "giveUp"})
    OBVIOUS
  <2> QED
    BY <2>1 DEF Init
<1>3. 0 \in 0..MaxEvictions /\ 0 \in 0..MaxCrashes
  BY ClusterAssumption
<1> QED
  BY <1>1, <1>2, <1>3 DEF Init, TypeOK

LEMMA TypeStep == ASSUME TypeOK, [Next]_vars PROVE TypeOK'
<1> USE DEF Query, Creation, Fate
<1>0. /\ held \in [Server -> Nat] /\ lockq \in [Server -> Seq(Query)]
      /\ live \in [Server -> Session \union {NoSession}]
      /\ hosts \in Seq(Server) /\ Len(hosts) <= MaxSessions
      /\ creation \in [Server -> Creation] /\ hands \in [Server -> SUBSET Prompt]
      /\ evicting \in [Server -> 0..MaxEvictions]
      /\ inbox \in [Server -> SUBSET Prompt] /\ tasks \in [Session -> SUBSET Prompt]
      /\ fate \in [Prompt -> Fate] /\ crashes \in 0..MaxCrashes
  BY DEF TypeOK
<1>1. ASSUME NEW i \in Server, NEW p \in Prompt, Submit(i, p) PROVE TypeOK'
  <2>1. CASE live[i] # NoSession
    <3>1. live[i] \in Session /\ Accept(live[i], {p})
      BY <1>0, <1>1, <2>1 DEF Submit
    <3>2. /\ tasks' \in [Session -> SUBSET Prompt]
          /\ fate' \in [Prompt -> Fate]
      BY <3>1, AcceptTyped
    <3> QED
      BY <1>0, <1>1, <2>1, <3>2 DEF Submit, TypeOK
  <2>2. CASE live[i] = NoSession
    <3>1. fate' \in [Prompt -> Fate]
      BY <1>0, <1>1, <2>2, FatesTyped DEF Submit
    <3>2. lockq' \in [Server -> Seq(Query)] /\ creation' \in [Server -> Creation]
      BY <1>0, <1>1, <2>2, AskTyped DEF Submit
    <3>3. hands' \in [Server -> SUBSET Prompt]
      <4>1. hands[i] \union {p} \in SUBSET Prompt
        BY <1>0
      <4>2. hands' = [hands EXCEPT ![i] = hands[i] \union {p}]
        BY <1>0, <1>1, <2>2 DEF Submit
      <4> QED
        BY <1>0, <4>1, <4>2
    <3> QED
      BY <1>0, <1>1, <2>2, <3>1, <3>2, <3>3 DEF Submit, TypeOK
  <2> QED
    BY <2>1, <2>2
<1>2. ASSUME NEW i \in Server, Claim(i) PROVE TypeOK'
  <2>1. lockq' \in [Server -> Seq(Query)]
    BY <1>0, <1>2, AnswerTyped DEF Claim
  <2>2. held' \in [Server -> Nat] /\ creation' \in [Server -> Creation]
    <3>1. held' = held \/ held' = [held EXCEPT ![i] = held[i] + 1]
      BY <1>2 DEF Claim
    <3>2. \E c \in Creation : creation' = [creation EXCEPT ![i] = c]
      BY <1>2 DEF Claim
    <3> QED
      BY <1>0, <3>1, <3>2
  <2>5. hands' \in [Server -> SUBSET Prompt]
    <3>1. hands' = hands \/ hands' = [hands EXCEPT ![i] = {}]
      BY <1>2 DEF Claim
    <3> QED
      BY <1>0, <3>1
  <2>4. inbox' \in [Server -> SUBSET Prompt]
    <3>1. [j \in Server |-> inbox[j] \union hands[i]] \in [Server -> SUBSET Prompt]
      <4>1. \A j \in Server : inbox[j] \subseteq Prompt /\ hands[j] \subseteq Prompt
        BY <1>0
      <4>2. \A j \in Server : inbox[j] \union hands[i] \in SUBSET Prompt
        BY <4>1
      <4> QED
        BY <4>2
    <3>2. inbox' = inbox \/ inbox' = [j \in Server |-> inbox[j] \union hands[i]]
      BY <1>2 DEF Claim
    <3> QED
      BY <1>0, <3>1, <3>2
  <2>3. fate' \in [Prompt -> Fate]
    BY <1>0, <1>2, FatesTyped DEF Claim
  <2> QED
    BY <1>0, <1>2, <2>1, <2>2, <2>3, <2>4, <2>5 DEF Claim, TypeOK
<1>3. ASSUME NEW i \in Server, Unlock(i) PROVE TypeOK'
  <2>1. lockq' \in [Server -> Seq(Query)]
    BY <1>0, <1>3, AnswerTyped DEF Unlock
  <2>2. held' \in [Server -> Nat]
    BY <1>0, <1>3 DEF Unlock
  <2>3. fate' \in [Prompt -> Fate]
    BY <1>0, <1>3, FatesTyped DEF Unlock
  <2>4. creation' \in [Server -> Creation] /\ hands' \in [Server -> SUBSET Prompt]
    BY <1>0, <1>3 DEF Unlock
  <2> QED
    BY <1>0, <1>3, <2>1, <2>2, <2>3, <2>4 DEF Unlock, TypeOK
<1>4. ASSUME NEW i \in Server, Create(i) PROVE TypeOK'
  <2>1. Len(hosts) + 1 \in Session
    BY <1>0, <1>4, ClusterAssumption DEF Create, Session
  <2>2. hosts' \in Seq(Server) /\ Len(hosts') <= MaxSessions
    BY <1>0, <1>4, ClusterAssumption DEF Create
  <2>3. /\ tasks' \in [Session -> SUBSET Prompt]
        /\ fate' \in [Prompt -> Fate]
    BY <1>0, <1>4, <2>1, AcceptTyped DEF Create
  <2>4. live' \in [Server -> Session \union {NoSession}]
    BY <1>0, <1>4, <2>1 DEF Create
  <2> QED
    BY <1>0, <1>4, <2>2, <2>3, <2>4 DEF Create, TypeOK
<1>5. ASSUME NEW i \in Server, CreateFails(i) PROVE TypeOK'
  <2>1. lockq' \in [Server -> Seq(Query)]
    BY <1>0, <1>5, AskTyped DEF CreateFails
  <2> QED
    BY <1>0, <1>5, <2>1 DEF CreateFails, TypeOK
<1>6. ASSUME NEW i \in Server, NEW p \in Prompt, Deliver(i, p) PROVE TypeOK'
  <2>1. /\ tasks' \in [Session -> SUBSET Prompt]
        /\ fate' \in [Prompt -> Fate]
    <3>1. CASE live[i] # NoSession
      <4>1. live[i] \in Session /\ Accept(live[i], {p})
        BY <1>0, <1>6, <3>1 DEF Deliver
      <4> QED
        BY <4>1, AcceptTyped
    <3>2. CASE live[i] = NoSession
      BY <1>0, <1>6, <3>2 DEF Deliver
    <3> QED
      BY <3>1, <3>2
  <2> QED
    BY <1>0, <1>6, <2>1 DEF Deliver, TypeOK
<1>7. ASSUME NEW s \in Session, NEW p \in Prompt, Finish(s, p) PROVE TypeOK'
  <2>1. fate' \in [Prompt -> Fate]
    BY <1>0, <1>7, FatesTyped DEF Finish
  <2> QED
    BY <1>0, <1>7, <2>1 DEF Finish, TypeOK
<1>8. ASSUME NEW i \in Server, Leave(i)
      PROVE  /\ lockq' \in [Server -> Seq(Query)]
             /\ live' \in [Server -> Session \union {NoSession}]
  BY <1>0, <1>8, AskTyped DEF Leave
<1>9. ASSUME NEW i \in Server, Sweep(i) PROVE TypeOK'
  <2>1. /\ lockq' \in [Server -> Seq(Query)]
        /\ live' \in [Server -> Session \union {NoSession}]
    BY <1>0, <1>8, <1>9 DEF Sweep
  <2>2. evicting' \in [Server -> 0..MaxEvictions]
    <3>1. CASE McpConnected
      <4>1. evicting[i] + 1 \in 0..MaxEvictions
        BY <1>0, <1>9, <3>1, ClusterAssumption DEF Sweep
      <4>2. evicting' = [evicting EXCEPT ![i] = evicting[i] + 1]
        BY <1>9, <3>1 DEF Sweep
      <4> QED
        BY <1>0, <4>1, <4>2
    <3>2. CASE ~McpConnected
      BY <1>0, <1>9, <3>2 DEF Sweep
    <3> QED
      BY <3>1, <3>2
  <2> QED
    BY <1>0, <1>9, <2>1, <2>2 DEF Sweep, TypeOK
<1>10. ASSUME NEW i \in Server, CloseReturns(i) PROVE TypeOK'
  <2>1. /\ lockq' \in [Server -> Seq(Query)]
        /\ live' \in [Server -> Session \union {NoSession}]
    BY <1>8, <1>10 DEF CloseReturns
  <2>2. evicting' \in [Server -> 0..MaxEvictions]
    BY <1>0, <1>10, ClusterAssumption DEF CloseReturns
  <2> QED
    BY <1>0, <1>10, <2>1, <2>2 DEF CloseReturns, TypeOK
<1>11. ASSUME NEW i \in Server, Crash(i) PROVE TypeOK'
  <2>1. fate' \in [Prompt -> Fate]
    BY <1>0, <1>11, FatesTyped DEF Crash
  <2>2. lockq' \in [Server -> Seq(Query)]
    BY <1>0, <1>11 DEF Crash
  <2>3. crashes' \in 0..MaxCrashes /\ evicting' \in [Server -> 0..MaxEvictions]
    BY <1>0, <1>11, ClusterAssumption DEF Crash
  <2>4. /\ tasks' \in [Session -> SUBSET Prompt] /\ inbox' \in [Server -> SUBSET Prompt]
        /\ hands' \in [Server -> SUBSET Prompt] /\ held' \in [Server -> Nat]
        /\ live' \in [Server -> Session \union {NoSession}]
        /\ creation' \in [Server -> Creation] /\ hosts' = hosts
    BY <1>0, <1>11 DEF Crash
  <2> QED
    BY <1>0, <2>1, <2>2, <2>3, <2>4 DEF TypeOK
<1>12. CASE UNCHANGED vars
  BY <1>12 DEF vars, TypeOK
<1> QED
  BY <1>1, <1>2, <1>3, <1>4, <1>5, <1>6, <1>7, <1>9, <1>10, <1>11, <1>12
  DEF Next, Work

\* Every state variable keeps its type, for any cluster, with or without MCP clients.
THEOREM TypeCorrect == Spec => []TypeOK
BY TypeInit, TypeStep, PTL DEF Spec

-----------------------------------------------------------------------------
(* The lock comes back, with or without MCP clients.  Overlapping evictions  *)
(* may unlock more often than anyone locked, so held is not a sum of         *)
(* sessions and creations; what holds is that a claim finds the lock free,   *)
(* because whatever this process held is given up by a query before it.      *)

\* Queries q under way of a process that holds the lock h times and creates at c.
Ordered(q, h, c) ==
  /\ \A k \in DOMAIN q : /\ q[k] = "claim" => c = "claim"
                         /\ q[k] = "giveUp" => c = "fail"
  /\ \A k, l \in DOMAIN q : q[k] = q[l] /\ q[k] # "unlock" => k = l
  /\ \A k \in DOMAIN q : q[k] = "claim" /\ h > 0 =>
       \E l \in DOMAIN q : l < k /\ q[l] = "unlock"

QueriesInOrder(i) == Ordered(lockq[i], held[i], creation[i])

\* One process's share of LockIsReturned.
Returned(i) ==
  held[i] > 0 =>
    \/ live[i] # NoSession
    \/ creation[i] = "create"
    \/ \E k \in DOMAIN lockq[i] : lockq[i][k] \in {"unlock", "giveUp"}

\* The inductive invariant behind LockIsReturned.
LockAt(i) == held[i] <= 1 /\ QueriesInOrder(i) /\ Returned(i)
LockComesBack == \A i \in Server : LockAt(i)

LEMMA LockComesBackIsEnough == LockComesBack => LockIsReturned
<1> SUFFICES ASSUME LockComesBack, NEW i \in Server, held[i] > 0
             PROVE  \/ live[i] # NoSession
                    \/ creation[i] = "create"
                    \/ ToSet(lockq[i]) \intersect {"unlock", "giveUp"} # {}
  BY DEF LockIsReturned
<1>1. ASSUME NEW k \in DOMAIN lockq[i], lockq[i][k] \in {"unlock", "giveUp"}
      PROVE  ToSet(lockq[i]) \intersect {"unlock", "giveUp"} # {}
  BY <1>1 DEF ToSet
<1> QED
  BY <1>1 DEF LockComesBack, LockAt, Returned

LEMMA AppendFacts ==
  ASSUME NEW S, NEW q \in Seq(S), NEW x \in S
  PROVE  /\ Len(q) \in Nat /\ DOMAIN q = 1..Len(q)
         /\ DOMAIN Append(q, x) = 1..(Len(q) + 1)
         /\ \A k \in 1..Len(q) : Append(q, x)[k] = q[k]
         /\ Append(q, x)[Len(q) + 1] = x
OBVIOUS

LEMMA TailFacts ==
  ASSUME NEW S, NEW q \in Seq(S), q # <<>>
  PROVE  /\ Len(q) \in Nat \ {0} /\ DOMAIN q = 1..Len(q) /\ Head(q) = q[1]
         /\ DOMAIN Tail(q) = 1..(Len(q) - 1)
         /\ \A k \in 1..(Len(q) - 1) : Tail(q)[k] = q[k + 1]
OBVIOUS

\* A query asked at the back leaves the order of the others.
LEMMA AskKeepsOrder ==
  ASSUME TypeOK, NEW i \in Server, LockAt(i), NEW query \in Query, Ask(i, query),
         UNCHANGED held,
         query = "unlock" => creation'[i] = creation[i],
         query = "claim" => /\ creation[i] = "none" /\ creation'[i] = "claim"
                            /\ live[i] = NoSession,
         query = "giveUp" => creation[i] = "create" /\ creation'[i] = "fail",
         live'[i] = live[i] \/ query # "claim"
  PROVE  LockAt(i)'
<1> DEFINE q == lockq[i]
           r == Append(q, query)
           n == Len(q)
<1>1. /\ q \in Seq(Query) /\ lockq'[i] = r /\ held'[i] = held[i] /\ held[i] \in Nat
      /\ n \in Nat /\ DOMAIN q = 1..n /\ DOMAIN r = 1..(n + 1)
      /\ r[n + 1] = query /\ \A k \in 1..n : r[k] = q[k]
  <2>1. q \in Seq(Query) /\ lockq'[i] = r /\ held'[i] = held[i] /\ held[i] \in Nat
    BY DEF TypeOK, Ask, Query
  <2> QED
    BY <2>1, AppendFacts
<1>2. /\ \A k \in 1..n : q[k] = "claim" => creation[i] = "claim"
      /\ \A k \in 1..n : q[k] = "giveUp" => creation[i] = "fail"
      /\ \A k, l \in 1..n : q[k] = q[l] /\ q[k] # "unlock" => k = l
      /\ \A k \in 1..n : q[k] = "claim" /\ held[i] > 0 =>
           \E l \in 1..n : l < k /\ q[l] = "unlock"
  BY <1>1 DEF LockAt, QueriesInOrder, Ordered
<1>3. \A k \in 1..(n + 1) : k \in 1..n \/ k = n + 1
  BY <1>1
<1> HIDE DEF q, r, n
<1>4. \A k \in 1..n : q[k] # query \/ query = "unlock"
  BY <1>1, <1>2 DEF Query
<1>5. \A k \in 1..(n + 1) : /\ r[k] = "claim" => creation'[i] = "claim"
                            /\ r[k] = "giveUp" => creation'[i] = "fail"
  BY <1>1, <1>2, <1>3 DEF Query
<1>6. \A k, l \in 1..(n + 1) : r[k] = r[l] /\ r[k] # "unlock" => k = l
  BY <1>1, <1>2, <1>3, <1>4
<1>7. ASSUME NEW k \in 1..(n + 1), r[k] = "claim", held[i] > 0
      PROVE  \E l \in 1..(n + 1) : l < k /\ r[l] = "unlock"
  <2>1. CASE k \in 1..n
    <3>1. PICK l \in 1..n : l < k /\ q[l] = "unlock"
      BY <1>1, <1>2, <1>7, <2>1
    <3> QED
      BY <1>1, <3>1
  <2>2. CASE k = n + 1
    <3>1. query = "claim"
      BY <1>1, <1>7, <2>2
    <3>2. PICK l \in 1..n : q[l] \in {"unlock", "giveUp"}
      BY <1>1, <1>7, <3>1 DEF LockAt, Returned, q
    <3>3. q[l] = "unlock"
      BY <1>2, <3>1, <3>2
    <3> QED
      BY <1>1, <2>2, <3>2, <3>3
  <2> QED
    BY <1>3, <2>1, <2>2
<1>8. QueriesInOrder(i)'
  BY <1>1, <1>5, <1>6, <1>7 DEF QueriesInOrder, Ordered
<1>9. Returned(i)'
  <2>1. CASE query # "claim"
    <3>1. n + 1 \in DOMAIN lockq'[i] /\ lockq'[i][n + 1] \in {"unlock", "giveUp"}
      BY <1>1, <2>1 DEF Query
    <3> QED
      BY <3>1 DEF Returned
  <2>2. CASE query = "claim"
    <3>1. ASSUME held[i] > 0
          PROVE  \E k \in DOMAIN lockq'[i] : lockq'[i][k] \in {"unlock", "giveUp"}
      <4>1. PICK k \in 1..n : q[k] \in {"unlock", "giveUp"}
        BY <1>1, <2>2, <3>1 DEF LockAt, Returned, q
      <4> QED
        BY <1>1, <4>1
    <3> QED
      BY <1>1, <3>1 DEF Returned
  <2> QED
    BY <2>1, <2>2
<1> QED
  BY <1>1, <1>8, <1>9 DEF LockAt

\* Answering the query in front: a claim finds the lock free, an unlock frees it.
LEMMA AnswerKeepsOrder ==
  ASSUME NEW q \in Seq(Query), q # <<>>, NEW h \in 0..1, NEW c, Ordered(q, h, c),
         NEW h2, NEW c2,
         \/ q[1] = "claim" /\ h2 \in {h, h + 1} /\ c2 = IF h2 = h THEN "none" ELSE "create"
         \/ /\ q[1] \in {"unlock", "giveUp"}
            /\ h2 = IF h = 0 THEN 0 ELSE h - 1
            /\ c2 = IF q[1] = "giveUp" THEN "none" ELSE c
  PROVE  /\ Ordered(Tail(q), h2, c2)
         /\ h2 = 0 \/ (h2 = 1 /\ c2 = "create")
<1> DEFINE r == Tail(q)
           n == Len(q)
<1>1. /\ n \in Nat \ {0} /\ DOMAIN q = 1..n /\ DOMAIN r = 1..(n - 1)
      /\ \A k \in 1..(n - 1) : r[k] = q[k + 1]
  BY TailFacts
<1>2. /\ \A k \in 1..n : q[k] = "claim" => c = "claim"
      /\ \A k \in 1..n : q[k] = "giveUp" => c = "fail"
      /\ \A k, l \in 1..n : q[k] = q[l] /\ q[k] # "unlock" => k = l
      /\ \A k \in 1..n : q[k] = "claim" /\ h > 0 => \E l \in 1..n : l < k /\ q[l] = "unlock"
      /\ \A k \in 1..n : q[k] \in {"claim", "unlock", "giveUp"}
  BY <1>1 DEF Ordered, Query
<1>3. \A k \in 1..(n - 1) : k \in Nat /\ k + 1 \in 1..n /\ k + 1 # 1 /\ 1 \in 1..n
  BY <1>1
<1> HIDE DEF r, n
<1>4. CASE q[1] = "claim"
  <2>1. h = 0
    <3>1. ~ \E l \in 1..n : l < 1 /\ q[l] = "unlock"
      BY <1>1
    <3> QED
      BY <1>1, <1>2, <1>4, <3>1
  <2>2. \A k \in 1..(n - 1) : r[k] = "unlock"
    BY <1>1, <1>2, <1>3, <1>4
  <2>3. Ordered(r, h2, c2)
    BY <1>1, <2>2 DEF Ordered
  <2> QED
    BY <1>4, <2>1, <2>3 DEF r
<1>5. CASE q[1] \in {"unlock", "giveUp"}
  <2>1. h2 = 0
    BY <1>5
  <2>2. \A k \in 1..(n - 1) : /\ r[k] = "claim" => c2 = "claim"
                              /\ r[k] = "giveUp" => c2 = "fail"
    <3>1. CASE q[1] = "giveUp"
      BY <1>1, <1>2, <1>3, <3>1
    <3>2. CASE q[1] = "unlock"
      BY <1>1, <1>2, <1>3, <3>2
    <3> QED
      BY <1>5, <3>1, <3>2
  <2>3. \A k, l \in 1..(n - 1) : r[k] = r[l] /\ r[k] # "unlock" => k = l
    <3> TAKE k \in 1..(n - 1), l \in 1..(n - 1)
    <3> HAVE r[k] = r[l] /\ r[k] # "unlock"
    <3>1. k + 1 = l + 1
      BY <1>1, <1>2, <1>3
    <3> QED
      BY <1>3, <3>1
  <2>4. Ordered(r, h2, c2)
    <3>1. ~ (h2 > 0)
      BY <2>1
    <3> QED
      BY <1>1, <2>2, <2>3, <3>1 DEF Ordered
  <2> QED
    BY <2>1, <2>4 DEF r
<1> QED
  BY <1>4, <1>5

\* The process whose query is answered keeps its share.
LEMMA AnswerKeepsShare ==
  ASSUME TypeOK, NEW i \in Server, LockAt(i), lockq[i] # <<>>,
         lockq'[i] = Tail(lockq[i]),
         \/ /\ lockq[i][1] = "claim"
            /\ held'[i] \in {held[i], held[i] + 1}
            /\ creation'[i] = IF held'[i] = held[i] THEN "none" ELSE "create"
         \/ /\ lockq[i][1] \in {"unlock", "giveUp"}
            /\ held'[i] = IF held[i] = 0 THEN 0 ELSE held[i] - 1
            /\ creation'[i] = IF lockq[i][1] = "giveUp" THEN "none" ELSE creation[i]
  PROVE  LockAt(i)'
<1>1. lockq[i] \in Seq(Query) /\ held[i] \in 0..1 /\ Ordered(lockq[i], held[i], creation[i])
  <2>1. lockq[i] \in Seq({"claim", "unlock", "giveUp"}) /\ held[i] \in Nat
    BY DEF TypeOK
  <2>2. held[i] <= 1 /\ Ordered(lockq[i], held[i], creation[i])
    BY DEF LockAt, QueriesInOrder
  <2> QED
    BY <2>1, <2>2 DEF Query
<1>2. /\ Ordered(Tail(lockq[i]), held'[i], creation'[i])
      /\ held'[i] = 0 \/ (held'[i] = 1 /\ creation'[i] = "create")
  BY <1>1, AnswerKeepsOrder
<1> QED
  BY <1>2 DEF LockAt, Returned, QueriesInOrder

\* A process that does not move keeps its share.
LEMMA LockAtKept ==
  ASSUME NEW i \in Server, LockAt(i), held'[i] = held[i], lockq'[i] = lockq[i],
         live'[i] = live[i], creation'[i] = creation[i]
  PROVE  LockAt(i)'
BY DEF LockAt, QueriesInOrder, Ordered, Returned

LEMMA LockComesBackStep ==
  ASSUME TypeOK, LockComesBack, [Next]_vars
  PROVE  LockComesBack'
<1> SUFFICES ASSUME NEW j \in Server PROVE LockAt(j)'
  BY DEF LockComesBack
<1>0. /\ LockAt(j) /\ held \in [Server -> Nat] /\ lockq \in [Server -> Seq(Query)]
      /\ live \in [Server -> Session \union {NoSession}]
      /\ creation \in [Server -> Creation]
  BY DEF LockComesBack, TypeOK, Query, Creation
<1>1. ASSUME NEW i \in Server, NEW p \in Prompt, Submit(i, p) PROVE LockAt(j)'
  <2>1. CASE i = j /\ live[i] = NoSession /\ creation[i] = "none"
    <3>1. Ask(j, "claim") /\ creation'[j] = "claim" /\ live' = live /\ held' = held
      BY <1>0, <1>1, <2>1 DEF Submit
    <3> QED
      BY <1>0, <2>1, <3>1, AskKeepsOrder DEF Query
  <2>2. CASE ~(i = j /\ live[i] = NoSession /\ creation[i] = "none")
    <3>1. /\ lockq'[j] = lockq[j] /\ creation'[j] = creation[j]
          /\ live' = live /\ held' = held
      BY <1>0, <1>1, <2>2 DEF Submit, Ask
    <3> QED
      BY <1>0, <3>1, LockAtKept
  <2> QED
    BY <2>1, <2>2
<1>2. ASSUME NEW i \in Server, Claim(i) PROVE LockAt(j)'
  <2>1. CASE i = j
    <3>1. lockq[j] # <<>> /\ lockq[j][1] = "claim" /\ lockq' = [lockq EXCEPT ![j] = Tail(@)]
      BY <1>0, <1>2, <2>1, TailFacts DEF Claim
    <3>2. /\ held'[j] \in {held[j], held[j] + 1}
          /\ creation'[j] = IF held'[j] = held[j] THEN "none" ELSE "create"
      <4>1. held[j] \in Nat
        BY <1>0
      <4>2. CASE \A l \in Server \ {i} : held[l] = 0
        <5>1. held'[j] = held[j] + 1 /\ creation'[j] = "create"
          BY <1>0, <1>2, <2>1, <4>2 DEF Claim
        <5> QED
          BY <4>1, <5>1
      <4>3. CASE ~ \A l \in Server \ {i} : held[l] = 0
        <5>1. held'[j] = held[j] /\ creation'[j] = "none"
          BY <1>0, <1>2, <2>1, <4>3 DEF Claim
        <5> QED
          BY <5>1
      <4> QED
        BY <4>2, <4>3
    <3> QED
      BY <1>0, <3>1, <3>2, AnswerKeepsShare
  <2>2. CASE i # j
    <3>1. lockq'[j] = lockq[j] /\ live' = live
      BY <1>0, <1>2, <2>2 DEF Claim
    <3>2. held'[j] = held[j] /\ creation'[j] = creation[j]
      BY <1>0, <1>2, <2>2 DEF Claim
    <3> QED
      BY <1>0, <3>1, <3>2, LockAtKept
  <2> QED
    BY <2>1, <2>2
<1>3. ASSUME NEW i \in Server, Unlock(i) PROVE LockAt(j)'
  <2>1. CASE i = j
    <3>1. /\ lockq[j] # <<>> /\ lockq[j][1] \in {"unlock", "giveUp"}
          /\ Head(lockq[j]) = lockq[j][1]
          /\ lockq' = [lockq EXCEPT ![j] = Tail(@)]
      BY <1>0, <1>3, <2>1, TailFacts DEF Unlock
    <3>2. held'[j] = IF held[j] = 0 THEN 0 ELSE held[j] - 1
      BY <1>0, <1>3, <2>1 DEF Unlock
    <3>3. creation'[j] = IF lockq[j][1] = "giveUp" THEN "none" ELSE creation[j]
      BY <1>0, <1>3, <2>1, <3>1 DEF Unlock
    <3> QED
      BY <1>0, <3>1, <3>2, <3>3, AnswerKeepsShare
  <2>2. CASE i # j
    <3>1. lockq'[j] = lockq[j] /\ live' = live /\ held'[j] = held[j]
      BY <1>0, <1>3, <2>2 DEF Unlock
    <3>2. creation'[j] = creation[j]
      BY <1>0, <1>3, <2>2 DEF Unlock
    <3> QED
      BY <1>0, <3>1, <3>2, LockAtKept
  <2> QED
    BY <2>1, <2>2
<1>4. ASSUME NEW i \in Server, Create(i) PROVE LockAt(j)'
  <2>1. held' = held /\ lockq' = lockq
    BY <1>4 DEF Create
  <2>2. CASE i = j
    <3>1. live'[j] # NoSession /\ creation[j] = "create"
      BY <1>0, <1>4, <2>2 DEF Create, TypeOK, NoSession
    <3>2. QueriesInOrder(j)'
      BY <1>0, <2>1, <3>1 DEF LockAt, QueriesInOrder, Ordered
    <3> QED
      BY <1>0, <2>1, <3>1, <3>2 DEF LockAt, Returned
  <2>3. CASE i # j
    <3>1. live'[j] = live[j] /\ creation'[j] = creation[j]
      BY <1>0, <1>4, <2>3 DEF Create
    <3> QED
      BY <1>0, <2>1, <3>1, LockAtKept
  <2> QED
    BY <2>2, <2>3
<1>5. ASSUME NEW i \in Server, CreateFails(i) PROVE LockAt(j)'
  <2>1. CASE i = j
    <3>1. /\ Ask(j, "giveUp") /\ creation[j] = "create" /\ creation'[j] = "fail"
          /\ live' = live /\ held' = held
      BY <1>0, <1>5, <2>1 DEF CreateFails
    <3> QED
      BY <1>0, <3>1, AskKeepsOrder DEF Query
  <2>2. CASE i # j
    <3>1. /\ lockq'[j] = lockq[j] /\ creation'[j] = creation[j]
          /\ live' = live /\ held' = held
      BY <1>0, <1>5, <2>2 DEF CreateFails, Ask
    <3> QED
      BY <1>0, <3>1, LockAtKept
  <2> QED
    BY <2>1, <2>2
<1>6. ASSUME UNCHANGED <<held, lockq, live, creation>> PROVE LockAt(j)'
  BY <1>0, <1>6, LockAtKept
<1>7. ASSUME NEW i \in Server, Leave(i), UNCHANGED <<held, creation>> PROVE LockAt(j)'
  <2>1. CASE i = j
    <3>1. Ask(j, "unlock")
      BY <1>7, <2>1 DEF Leave
    <3> QED
      BY <1>0, <1>7, <3>1, AskKeepsOrder DEF Query
  <2>2. CASE i # j
    <3>1. lockq'[j] = lockq[j] /\ live'[j] = live[j]
      BY <1>0, <1>7, <2>2 DEF Leave, Ask
    <3> QED
      BY <1>0, <1>7, <3>1, LockAtKept
  <2> QED
    BY <2>1, <2>2
<1>8. ASSUME NEW i \in Server, Crash(i) PROVE LockAt(j)'
  <2>1. CASE i = j
    <3>1. held'[j] = 0 /\ lockq'[j] = <<>>
      BY <1>0, <1>8, <2>1 DEF Crash
    <3> QED
      BY <3>1 DEF LockAt, QueriesInOrder, Ordered, Returned
  <2>2. CASE i # j
    <3>1. /\ lockq'[j] = lockq[j] /\ live'[j] = live[j]
          /\ held'[j] = held[j] /\ creation'[j] = creation[j]
      BY <1>0, <1>8, <2>2 DEF Crash
    <3> QED
      BY <1>0, <3>1, LockAtKept
  <2> QED
    BY <2>1, <2>2
<1>9. ASSUME NEW i \in Server, Sweep(i) \/ CloseReturns(i) PROVE LockAt(j)'
  BY <1>6, <1>7, <1>9 DEF Sweep, CloseReturns
<1>10. ASSUME NEW i \in Server, NEW p \in Prompt, Deliver(i, p) PROVE LockAt(j)'
  BY <1>6, <1>10 DEF Deliver
<1>11. ASSUME NEW s \in Session, NEW p \in Prompt, Finish(s, p) PROVE LockAt(j)'
  BY <1>6, <1>11 DEF Finish
<1>12. CASE UNCHANGED vars
  BY <1>6, <1>12 DEF vars
<1> QED
  BY <1>1, <1>2, <1>3, <1>4, <1>5, <1>8, <1>9, <1>10, <1>11, <1>12 DEF Next, Work

LEMMA LockComesBackInit == Init => LockComesBack
BY DEF Init, LockComesBack, LockAt, QueriesInOrder, Ordered, Returned

\* No interleaving of creations, failures, overlapping evictions and crashes
\* leaks the advisory lock, so that another process can take the project over.
THEOREM LockNeverLeaks == Spec => []LockIsReturned
<1>1. TypeOK /\ LockComesBack /\ [Next]_vars => LockComesBack'
  BY LockComesBackStep
<1> QED
  BY <1>1, LockComesBackInit, LockComesBackIsEnough, TypeCorrect, PTL DEF Spec

-----------------------------------------------------------------------------
\* A call that has begun its setup has its turn.
Working == {"inspect", "remove", "recreate", "undo", "list", "relist", "reclaim",
            "create", "create2", "run", "start", "label"}
OneAtATime == \A c \in Call : at[c] \in Working => Turn(c)

\* What the functions are defined on.
PodShapes ==
  /\ pod = [p \in Project |-> pod[p]]
  /\ block = [p \in Project |-> block[p]]
  /\ at = [c \in Call |-> at[c]]
  /\ choice = [c \in Call |-> choice[c]]
  /\ chain \in Seq(Call)

\* A call that creates a pod has a block for it.
Creating == {"create", "recreate", "create2"}
Chosen == \A c \in Call : at[c] \in Creating => choice[c] # NoBlock

Allocation ==
  /\ PodShapes
  /\ OneAtATime
  /\ Chosen
  /\ ChoiceStaysFree
  /\ BlocksDisjoint

-----------------------------------------------------------------------------
\* A set of natural numbers has a least element, which Min denotes.
LEMMA MinIn == ASSUME NEW S, S \subseteq Nat, S # {} PROVE Min(S) \in S
<1>1. PICK x \in S : \A y \in S : ~ (<<y, x>> \in OpToRel(<, Nat))
  BY NatLessThanWellFounded, WFMin
<1>2. \A y \in S : x =< y
  <2> SUFFICES ASSUME NEW y \in S PROVE x =< y
    OBVIOUS
  <2>1. ~ (<<y, x>> \in OpToRel(<, Nat))
    BY <1>1
  <2>2. <<y, x>> \in Nat \X Nat /\ <<y, x>>[1] = y /\ <<y, x>>[2] = x
    OBVIOUS
  <2>3. ~ (y < x)
    BY <2>1, <2>2 DEF OpToRel
  <2> QED BY <2>3
<1> QED BY <1>2 DEF Min

\* pod rm only takes blocks away.
LEMMA PodRmFrees ==
  ASSUME NEW ps, PodRm(ps), NEW p \in Project
  PROVE  block'[p] = block[p] \/ block'[p] = NoBlock
  BY DEF PodRm

\* Blocks stay disjoint, and choices free, when pods only lose blocks and no
\* call starts to create one.
LEMMA LosingBlocks ==
  ASSUME BlocksDisjoint, ChoiceStaysFree, Chosen,
         \A p \in Project : block'[p] = block[p] \/ block'[p] = NoBlock,
         \A c \in Call : at'[c] \in Creating => at[c] \in Creating /\ choice'[c] = choice[c]
  PROVE  BlocksDisjoint' /\ ChoiceStaysFree' /\ Chosen'
<1>1. BlocksDisjoint'
  BY DEF BlocksDisjoint
<1>2. Chosen'
  BY DEF Chosen
<1>3. ChoiceStaysFree'
  BY DEF ChoiceStaysFree, Chosen, Creating
<1> QED BY <1>1, <1>2, <1>3

\* What a step of a call does to the queue and to the stages.
Moves(c) ==
  \/ \E next \in Stages : Goto(c, next)
  \/ \E b, next : Choose(c, b, next) /\ next \in Stages
  \/ Throw(c)
  \/ \E b : Return(c, b)

\* The one that has its turn keeps it or passes it on.
LEMMA TurnPasses ==
  ASSUME PodShapes, OneAtATime, NEW c \in Call, Turn(c), Moves(c)
  PROVE  /\ OneAtATime'
         /\ at' = [d \in Call |-> at'[d]] /\ choice' = [d \in Call |-> choice'[d]]
         /\ chain' \in Seq(Call)
         /\ \A d \in Call \ {c} : at'[d] = at[d] /\ choice'[d] = choice[d]
         /\ \A d \in Call \ {c} : at'[d] \notin Working
<1>1. chain' = chain \/ (chain' = Tail(chain) /\ at'[c] \notin Working)
  BY DEF Moves, Goto, Choose, Throw, Return, PodShapes, Working
<1>2. /\ at' = [d \in Call |-> at'[d]] /\ choice' = [d \in Call |-> choice'[d]]
      /\ \A d \in Call \ {c} : at'[d] = at[d] /\ choice'[d] = choice[d]
  BY DEF Moves, Goto, Choose, Throw, Return, PodShapes
<1>3. \A d \in Call \ {c} : at'[d] \notin Working
  BY <1>2 DEF OneAtATime, Turn
<1>4. chain' \in Seq(Call)
  BY <1>1 DEF PodShapes, Turn
<1>5. OneAtATime'
  BY <1>1, <1>3 DEF OneAtATime, Turn
<1> QED BY <1>2, <1>3, <1>4, <1>5

\* A step of a call that allocates nothing and creates nothing.
LEMMA QuietStep ==
  ASSUME Allocation, NEW c \in Call, Turn(c), Moves(c),
         at'[c] \notin Creating \/ (at[c] \in Creating /\ choice'[c] = choice[c]),
         pod' = [p \in Project |-> pod'[p]], block' = [p \in Project |-> block'[p]],
         \A p \in Project : block'[p] = block[p] \/ block'[p] = NoBlock
  PROVE  Allocation'
<1>1. /\ OneAtATime' /\ PodShapes'
      /\ \A d \in Call \ {c} : at'[d] = at[d] /\ choice'[d] = choice[d]
  BY TurnPasses DEF Allocation, PodShapes
<1>2. \A d \in Call : at'[d] \in Creating => at[d] \in Creating /\ choice'[d] = choice[d]
  BY <1>1
<1>3. BlocksDisjoint' /\ ChoiceStaysFree' /\ Chosen'
  BY <1>2, LosingBlocks DEF Allocation
<1> QED BY <1>1, <1>3 DEF Allocation

\* Every step of a call keeps the invariant.
LEMMA StepKeeps ==
  ASSUME ~Faults, Allocation, NEW c \in Call, Step(c) PROVE Allocation'
<1> DEFINE p == ProjectOf[c]
<1>0. p \in Project
  BY PodsAssumption
<1>1. CASE PrepareDir(c)
  <2>1. Turn(c) /\ Moves(c) /\ at'[c] = "inspect" /\ UNCHANGED pods
    BY <1>1 DEF PrepareDir, Moves, Stages, Goto, Allocation, PodShapes
  <2> QED BY <2>1, QuietStep DEF Allocation, PodShapes, pods, Creating
<1>2. CASE Inspect(c)
  <2>1. Turn(c) /\ Moves(c) /\ at'[c] \notin Creating /\ UNCHANGED pods
    BY <1>2 DEF Inspect, Moves, Stages, Goto, Allocation, PodShapes, Creating
  <2> QED BY <2>1, QuietStep DEF Allocation, PodShapes, pods
<1>3. CASE RemovePod(c)
  <2>1. Turn(c) /\ PodRm({p})
    BY <1>3 DEF RemovePod
  <2>2. Moves(c) /\ (at'[c] \notin Creating \/ (at[c] \in Creating /\ choice'[c] = choice[c]))
    BY <1>3 DEF RemovePod, Moves, Stages, Goto, Throw, Allocation, PodShapes, Creating
  <2>3. /\ pod' = [q \in Project |-> pod'[q]] /\ block' = [q \in Project |-> block'[q]]
        /\ \A q \in Project : block'[q] = block[q] \/ block'[q] = NoBlock
    BY <2>1 DEF PodRm
  <2> QED BY <2>1, <2>2, <2>3, QuietStep
<1>4. CASE List(c)
  <2> DEFINE free == {b \in Block : \A q \in Project : block[q] # b}
  <2>1. CASE free = {}
    <3>1. Turn(c) /\ Moves(c) /\ at'[c] \notin Creating /\ UNCHANGED pods
      BY <1>4, <2>1 DEF List, Moves, Stages, Goto, Throw, Allocation, PodShapes, Creating
    <3> QED BY <3>1, QuietStep DEF Allocation, PodShapes, pods
  <2>2. CASE free # {}
    <3>1. PICK b : b = Min(free)
      OBVIOUS
    <3>2. Turn(c) /\ Choose(c, b, "create") /\ UNCHANGED pods
      BY <1>4, <2>2, <3>1 DEF List
    <3>3. b \in free
      <4>1. free \subseteq Nat
        BY PodsAssumption DEF Block
      <4> QED BY <4>1, <2>2, <3>1, MinIn
    <3>4. b # NoBlock /\ \A q \in Project : block[q] # b
      BY <3>3, PodsAssumption DEF Block, NoBlock
    <3>5. Moves(c)
      BY <3>2 DEF Moves, Stages
    <3>6. /\ OneAtATime' /\ PodShapes'
          /\ \A d \in Call \ {c} : at'[d] \notin Working
      BY <3>2, <3>5, TurnPasses DEF Allocation, PodShapes, pods
    <3>7. choice'[c] = b
      BY <3>2 DEF Choose, Allocation, PodShapes
    <3>8. Chosen' /\ ChoiceStaysFree'
      BY <3>2, <3>4, <3>6, <3>7 DEF Chosen, ChoiceStaysFree, Creating, Working, pods
    <3> QED BY <3>2, <3>6, <3>8 DEF Allocation, BlocksDisjoint, pods
  <2> QED BY <2>1, <2>2
<1>5. CASE Reclaim(c)
  <2>1. Turn(c) /\ Moves(c) /\ at'[c] \notin Creating
    BY <1>5 DEF Reclaim, Moves, Stages, Goto, Throw, Allocation, PodShapes, Creating
  <2>2. /\ pod' = [q \in Project |-> pod'[q]] /\ block' = [q \in Project |-> block'[q]]
        /\ \A q \in Project : block'[q] = block[q] \/ block'[q] = NoBlock
    BY <1>5 DEF Reclaim, PodRm, pods, Allocation, PodShapes
  <2> QED BY <2>1, <2>2, QuietStep
<1>6. CASE CreatePod(c)
  <2>1. CASE UNCHANGED pods
    <3>1. /\ Turn(c) /\ Moves(c)
          /\ at'[c] \notin Creating \/ (at[c] \in Creating /\ choice'[c] = choice[c])
      BY <1>6, <2>1 DEF CreatePod, Moves, Stages, Goto, Throw, Allocation, PodShapes, Creating
    <3>2. Turn(c) /\ Moves(c)
      BY <1>6 DEF CreatePod, Moves, Stages, Goto, Throw
    <3> QED BY <2>1, <3>1, <3>2, QuietStep DEF Allocation, PodShapes, pods
  <2>2. CASE ~ UNCHANGED pods
    <3>1. /\ Turn(c) /\ Goto(c, "run") /\ at[c] \in Creating
          /\ pod' = [pod EXCEPT ![p] = "bare"]
          /\ block' = [block EXCEPT ![p] = choice[c]]
      BY <1>6, <2>2 DEF CreatePod, Creating
    <3>2. Moves(c)
      BY <3>1 DEF Moves, Stages
    <3>3. /\ OneAtATime' /\ PodShapes'
          /\ \A d \in Call \ {c} : at'[d] \notin Working
      BY <3>1, <3>2, TurnPasses DEF Allocation, PodShapes
    <3>4. at'[c] = "run"
      BY <3>1 DEF Goto, Allocation, PodShapes
    <3>5. Chosen' /\ ChoiceStaysFree'
      BY <3>3, <3>4 DEF Chosen, ChoiceStaysFree, Creating, Working
    <3>6. \A q \in Project \ {p} : block[q] # choice[c]
      BY <3>1 DEF Allocation, ChoiceStaysFree, Creating
    <3>7. BlocksDisjoint'
      BY <3>1, <3>6 DEF BlocksDisjoint, Allocation, PodShapes
    <3> QED BY <3>3, <3>5, <3>7 DEF Allocation
  <2> QED BY <2>1, <2>2
<1>7. CASE Run(c)
  <2>1. Turn(c) /\ Moves(c) /\ at'[c] \notin Creating
    BY <1>7 DEF Run, Moves, Stages, Goto, Return, Allocation, PodShapes, Creating
  <2>2. pod' = [q \in Project |-> pod'[q]] /\ UNCHANGED block
    BY <1>7 DEF Run, Allocation, PodShapes
  <2> QED BY <2>1, <2>2, QuietStep DEF Allocation, PodShapes
<1>8. CASE Start(c)
  <2>1. Turn(c) /\ Moves(c) /\ at'[c] \notin Creating
    BY <1>8 DEF Start, Moves, Stages, Goto, Throw, Allocation, PodShapes, Creating
  <2>2. pod' = [q \in Project |-> pod'[q]] /\ UNCHANGED block
    BY <1>8 DEF Start, Allocation, PodShapes
  <2> QED BY <2>1, <2>2, QuietStep DEF Allocation, PodShapes
<1>9. CASE Label(c)
  <2>1. Turn(c) /\ Moves(c) /\ at'[c] \notin Creating /\ UNCHANGED pods
    BY <1>9 DEF Label, Moves, Return, Allocation, PodShapes, Creating
  <2> QED BY <2>1, QuietStep DEF Allocation, PodShapes, pods
<1> QED BY <1>1, <1>2, <1>3, <1>4, <1>5, <1>6, <1>7, <1>8, <1>9 DEF Step

\* Initially there are no pods.
LEMMA AllocationInit == PodsInit => Allocation
  BY DEF PodsInit, Allocation, PodShapes, OneAtATime, Working, Chosen, Creating,
     ChoiceStaysFree, BlocksDisjoint

\* A step that moves no call and gives no pod a block.
LEMMA OtherStep ==
  ASSUME Allocation, UNCHANGED calls,
         pod' = [p \in Project |-> pod'[p]], block' = [p \in Project |-> block'[p]],
         \A p \in Project : block'[p] = block[p] \/ block'[p] = NoBlock
  PROVE  Allocation'
<1>1. BlocksDisjoint' /\ ChoiceStaysFree' /\ Chosen'
  BY LosingBlocks DEF calls, Allocation
<1> QED BY <1>1 DEF Allocation, PodShapes, OneAtATime, Turn, calls

\* Every step keeps the invariant while podman answers.
LEMMA AllocationStep == ASSUME ~Faults, Allocation, [PodsNext]_podsVars PROVE Allocation'
<1>1. ASSUME NEW c \in Call, Begin(c) PROVE Allocation'
  <2>1. /\ chain' = Append(chain, c) /\ UNCHANGED <<pod, block, choice>>
        /\ at[c] = "new" /\ at' = [at EXCEPT ![c] = "dir"]
    BY <1>1 DEF Begin, pods
  <2>2. chain' \in Seq(Call) /\ (chain # <<>> => chain' # <<>> /\ Head(chain') = Head(chain))
    BY <2>1 DEF Allocation, PodShapes
  <2>3. \A d \in Call : at'[d] \in Working => at[d] \in Working
    BY <2>1 DEF Allocation, PodShapes, Working
  <2>4. OneAtATime'
    BY <2>2, <2>3 DEF Allocation, OneAtATime, Turn
  <2>5. BlocksDisjoint' /\ ChoiceStaysFree' /\ Chosen'
    BY <2>1, LosingBlocks DEF Allocation, PodShapes, Creating
  <2> QED BY <2>1, <2>2, <2>4, <2>5 DEF Allocation, PodShapes
<1>2. ASSUME NEW c \in Call, Step(c) PROVE Allocation'
  BY <1>2, StepKeeps
<1>3. ASSUME NEW p \in Project,
             NewProject(p) \/ Watch(p) \/ Unwatch(p) \/ SweepPod(p) \/ DeleteProject(p)
      PROVE Allocation'
  <2>1. UNCHANGED <<pods, calls>>
    BY <1>3 DEF NewProject, Watch, Unwatch, SweepPod, DeleteProject
  <2> QED BY <2>1, OtherStep DEF pods, Allocation, PodShapes
<1>4. ASSUME NEW p \in Project, StopPod(p) PROVE Allocation'
  <2>1. UNCHANGED <<block, calls>> /\ pod' = [q \in Project |-> pod'[q]]
    BY <1>4 DEF StopPod, Allocation, PodShapes
  <2> QED BY <2>1, OtherStep DEF Allocation, PodShapes
<1>5. ASSUME NEW p \in Project, Destroy(p) PROVE Allocation'
  <2>1. UNCHANGED calls /\ (PodRm({p}) \/ UNCHANGED pods)
    BY <1>5 DEF Destroy
  <2> QED BY <2>1, OtherStep DEF PodRm, pods, Allocation, PodShapes
<1>6. CASE Orphans
  <2>1. UNCHANGED calls /\ (PodRm(Project \ known) \/ UNCHANGED pods)
    BY <1>6 DEF Orphans, ReadIds, ReapPods, ReapDirs
  <2> QED BY <2>1, OtherStep DEF PodRm, pods, Allocation, PodShapes
<1>7. CASE Outage
  <2>1. UNCHANGED <<block, calls>> /\ pod' = [q \in Project |-> pod'[q]]
    BY <1>7 DEF Outage
  <2> QED BY <2>1, OtherStep DEF Allocation, PodShapes
<1>8. CASE Restart
  <2>1. /\ UNCHANGED <<pod, block, choice>> /\ chain' = <<>>
        /\ at' = [c \in Call |-> IF at[c] \in {"new", "done"} THEN at[c] ELSE "failed"]
    BY <1>8 DEF Restart
  <2>2. \A c \in Call : at'[c] \in {"new", "done", "failed"}
    BY <2>1
  <2>3. OneAtATime' /\ \A c \in Call : at'[c] \notin Creating
    BY <2>2 DEF OneAtATime, Working, Creating
  <2>4. BlocksDisjoint' /\ ChoiceStaysFree' /\ Chosen'
    BY <2>1, <2>3, LosingBlocks DEF Allocation
  <2> QED BY <2>1, <2>3, <2>4 DEF Allocation, PodShapes
<1>9. CASE UNCHANGED podsVars
  BY <1>9, OtherStep DEF podsVars, pods, calls, Allocation, PodShapes
<1> QED
  BY <1>1, <1>2, <1>3, <1>4, <1>5, <1>6, <1>7, <1>8, <1>9 DEF PodsNext, Use, Take

\* "concurrent new projects can't race a port block" (sandbox/README.md:198),
\* while podman answers: whatever else stops, removes or reaps pods meanwhile.
THEOREM PortBlocksAreDisjoint == ASSUME ~Faults PROVE PodsSpec => []BlocksDisjoint
<1>1. Allocation => BlocksDisjoint
  BY DEF Allocation
<1> QED BY <1>1, AllocationInit, AllocationStep, PTL DEF PodsSpec

\* Under the same assumption the block a call has chosen stays free until its
\* pod is created, so that the setup queue makes check and use one step.
THEOREM ChosenBlockStaysFree == ASSUME ~Faults PROVE PodsSpec => []ChoiceStaysFree
<1>1. Allocation => ChoiceStaysFree
  BY DEF Allocation
<1> QED BY <1>1, AllocationInit, AllocationStep, PTL DEF PodsSpec
-----------------------------------------------------------------------------
(***************************************************************************)
(* Types, and what a call is handed, whatever podman does.                  *)
(***************************************************************************)

\* What List chooses is one of the blocks: the range is not left.
LEMMA ListedBlock == ASSUME NEW S, S \subseteq Block, S # {} PROVE Min(S) \in Block
<1>1. S \subseteq Nat
  BY PodsAssumption DEF Block
<1> QED BY <1>1, MinIn

\* Removing pods keeps the types of their state.
LEMMA PodRmTypes ==
  ASSUME PodsTypeOK, NEW ps, PodRm(ps)
  PROVE  /\ pod' \in [Project -> {"none", "bare", "running", "stopped"}]
         /\ block' \in [Project -> Block \union {NoBlock}]
         /\ age' \subseteq Project \X Project
         /\ stale' \subseteq Project
<1>1. pod' \in [Project -> {"none", "bare", "running", "stopped"}]
  BY DEF PodRm, PodsTypeOK
<1>2. block' \in [Project -> Block \union {NoBlock}]
  BY DEF PodRm, PodsTypeOK
<1>3. age' \subseteq Project \X Project
  BY DEF PodRm, PodsTypeOK
<1>4. stale' \subseteq Project
  BY DEF PodRm, PodsTypeOK
<1> QED BY <1>1, <1>2, <1>3, <1>4

\* What a call moves keeps its type.
LEMMA MovesTypes ==
  ASSUME PodsTypeOK, NEW c \in Call, Turn(c),
         \/ \E next \in Stages : Goto(c, next)
         \/ \E b \in Block, next \in Stages : Choose(c, b, next)
         \/ Throw(c)
         \/ \E b \in Block \union {NoBlock} : Return(c, b)
  PROVE  /\ at' \in [Call -> Stages]
         /\ choice' \in [Call -> Block \union {NoBlock}]
         /\ chain' \in Seq(Call)
<1>1. at' \in [Call -> Stages]
  BY DEF Goto, Choose, Throw, Return, PodsTypeOK, Stages
<1>2. choice' \in [Call -> Block \union {NoBlock}]
  BY DEF Goto, Choose, Throw, Return, PodsTypeOK
<1>3. chain' \in Seq(Call)
  <2>1. chain' = chain \/ chain' = Tail(chain)
    BY DEF Goto, Choose, Throw, Return
  <2>2. chain \in Seq(Call) /\ chain # <<>>
    BY DEF PodsTypeOK, Turn
  <2>3. Tail(chain) \in Seq(Call)
    BY <2>2
  <2> QED BY <2>1, <2>2, <2>3
<1> QED BY <1>1, <1>2, <1>3

\* What a step of a call does to everything but the pods and the workspaces.
LEMMA CallTypes ==
  ASSUME PodsTypeOK, NEW c \in Call, Turn(c),
         \/ \E next \in Stages : Goto(c, next)
         \/ \E b \in Block, next \in Stages : Choose(c, b, next)
         \/ Throw(c)
         \/ \E b \in Block \union {NoBlock} : Return(c, b),
         UNCHANGED <<row, others>>,
         pod' \in [Project -> {"none", "bare", "running", "stopped"}],
         block' \in [Project -> Block \union {NoBlock}],
         age' \subseteq Project \X Project, stale' \subseteq Project, dirs' \subseteq Project
  PROVE  PodsTypeOK'
<1>1. /\ at' \in [Call -> Stages]
      /\ choice' \in [Call -> Block \union {NoBlock}]
      /\ chain' \in Seq(Call)
  BY MovesTypes
<1> QED BY <1>1 DEF PodsTypeOK, others

\* A step of a call keeps the types.
LEMMA StepTypes == ASSUME PodsTypeOK, NEW c \in Call, Step(c) PROVE PodsTypeOK'
<1> DEFINE p == ProjectOf[c]
<1>0. p \in Project /\ 1 \in Block
  BY PodsAssumption DEF Block
<1>1. CASE PrepareDir(c)
  <2>1. Turn(c) /\ UNCHANGED <<row, pods, others>> /\ (Goto(c, "inspect") \/ Throw(c))
    BY <1>1 DEF PrepareDir
  <2>2. dirs' \subseteq Project
    BY <1>0, <1>1 DEF PrepareDir, PodsTypeOK
  <2> QED BY <2>1, <2>2, CallTypes DEF PodsTypeOK, pods, Stages
<1>2. CASE Inspect(c)
  <2>1. /\ Turn(c) /\ UNCHANGED <<row, pods, dirs, others>>
        /\ \E next \in Stages : Goto(c, next)
    BY <1>2 DEF Inspect, Stages
  <2> QED BY <2>1, CallTypes DEF PodsTypeOK, pods
<1>3. CASE RemovePod(c)
  <2>1. /\ Turn(c) /\ UNCHANGED <<row, dirs, others>>
        /\ (\E next \in Stages : Goto(c, next)) \/ Throw(c)
        /\ PodRm({p}) \/ UNCHANGED pods
    BY <1>3 DEF RemovePod, Stages
  <2> QED BY <2>1, CallTypes, PodRmTypes DEF PodsTypeOK, pods
<1>4. CASE List(c)
  <2> DEFINE free == {b \in Block : \A q \in Project : block[q] # b}
  <2>1. PICK least, first : /\ least = Min(free) /\ first = Min(Block)
                            /\ free # {} => least \in Block
                            /\ first \in Block
    BY <1>0, ListedBlock
  <2>2. /\ Turn(c) /\ UNCHANGED <<row, pods, dirs, others>>
        /\ \/ free # {} /\ Choose(c, least, "create")
           \/ Goto(c, "reclaim") \/ Throw(c)
           \/ Choose(c, first, "create")
    BY <1>4, <2>1 DEF List
  <2>3. /\ \/ \E next \in Stages : Goto(c, next)
           \/ \E b \in Block, next \in Stages : Choose(c, b, next)
           \/ Throw(c)
    BY <2>1, <2>2 DEF Stages
  <2> QED BY <2>2, <2>3, CallTypes DEF PodsTypeOK, pods
<1>5. CASE Reclaim(c)
  <2>1. /\ Turn(c) /\ UNCHANGED <<row, dirs, others>>
        /\ (\E next \in Stages : Goto(c, next)) \/ Throw(c)
        /\ (\E ps : PodRm(ps)) \/ UNCHANGED pods
    BY <1>5 DEF Reclaim, Stages
  <2> QED BY <2>1, CallTypes, PodRmTypes DEF PodsTypeOK, pods
<1>6. CASE CreatePod(c)
  <2>1. /\ Turn(c) /\ UNCHANGED <<row, dirs, others>>
        /\ (\E next \in Stages : Goto(c, next)) \/ Throw(c)
    BY <1>6 DEF CreatePod, Stages
  <2>2. /\ pod' \in [Project -> {"none", "bare", "running", "stopped"}]
        /\ block' \in [Project -> Block \union {NoBlock}]
        /\ age' \subseteq Project \X Project /\ stale' \subseteq Project
    <3>1. CASE UNCHANGED pods
      BY <3>1 DEF PodsTypeOK, pods
    <3>2. CASE ~ UNCHANGED pods
      <4>1. /\ pod' = [pod EXCEPT ![p] = "bare"]
            /\ block' = [block EXCEPT ![p] = choice[c]]
            /\ age' = age \union {<<q, p>> : q \in {q \in Project : pod[q] # "none"}}
            /\ UNCHANGED stale
        BY <1>6, <3>2 DEF CreatePod
      <4>2. choice[c] \in Block \union {NoBlock}
        BY DEF PodsTypeOK
      <4> QED BY <1>0, <4>1, <4>2 DEF PodsTypeOK
    <3> QED BY <3>1, <3>2
  <2> QED BY <2>1, <2>2, CallTypes DEF PodsTypeOK
<1>7. CASE Run(c)
  <2>1. /\ Turn(c) /\ UNCHANGED <<row, block, age, stale, dirs, others>>
        /\ Return(c, choice[c]) \/ Goto(c, "undo")
    BY <1>7 DEF Run
  <2>2. pod' \in [Project -> {"none", "bare", "running", "stopped"}]
    <3>1. pod' = pod \/ pod' = [pod EXCEPT ![p] = "running"]
      BY <1>7 DEF Run
    <3>2. pod \in [Project -> {"none", "bare", "running", "stopped"}]
      BY DEF PodsTypeOK
    <3> QED BY <1>0, <3>1, <3>2
  <2>3. choice[c] \in Block \union {NoBlock} /\ "undo" \in Stages
    BY DEF PodsTypeOK, Stages
  <2> QED BY <2>1, <2>2, <2>3, CallTypes DEF PodsTypeOK
<1>8. CASE Start(c)
  <2>1. /\ Turn(c) /\ UNCHANGED <<row, block, age, stale, dirs, others>>
        /\ Goto(c, "label") \/ Throw(c)
    BY <1>8 DEF Start
  <2>2. pod' \in [Project -> {"none", "bare", "running", "stopped"}]
    BY <1>0, <1>8 DEF Start, PodsTypeOK
  <2> QED BY <2>1, <2>2, CallTypes DEF PodsTypeOK, Stages
<1>9. CASE Label(c)
  <2>1. /\ Turn(c) /\ UNCHANGED <<row, pods, dirs, others>>
        /\ Return(c, block[p]) \/ Return(c, NoBlock)
    BY <1>9 DEF Label
  <2>2. block[p] \in Block \union {NoBlock}
    BY <1>0 DEF PodsTypeOK
  <2> QED BY <2>1, <2>2, CallTypes DEF PodsTypeOK, pods
<1> QED BY <1>1, <1>2, <1>3, <1>4, <1>5, <1>6, <1>7, <1>8, <1>9 DEF Step

\* Every step keeps the types.
LEMMA TypesKept == ASSUME PodsTypeOK, [PodsNext]_podsVars PROVE PodsTypeOK'
<1>1. ASSUME NEW c \in Call, Begin(c) PROVE PodsTypeOK'
  <2>1. at' \in [Call -> Stages]
    BY <1>1 DEF Begin, PodsTypeOK, Stages
  <2>2. chain' \in Seq(Call)
    <3>1. chain' = chain \/ chain' = Append(chain, c)
      BY <1>1 DEF Begin
    <3>2. chain \in Seq(Call)
      BY DEF PodsTypeOK
    <3> QED BY <3>1, <3>2, AppendProperties
  <2> QED BY <1>1, <2>1, <2>2 DEF Begin, PodsTypeOK, pods, others
<1>2. ASSUME NEW c \in Call, Step(c) PROVE PodsTypeOK'
  BY <1>2, StepTypes
<1>3. ASSUME NEW p \in Project, NewProject(p) PROVE PodsTypeOK'
  BY <1>3 DEF NewProject, PodsTypeOK, pods, calls, others
<1>4. ASSUME NEW p \in Project, Watch(p) \/ Unwatch(p) PROVE PodsTypeOK'
  BY <1>4 DEF Watch, Unwatch, PodsTypeOK, pods, calls
<1>5. ASSUME NEW p \in Project, SweepPod(p) PROVE PodsTypeOK'
  BY <1>5 DEF SweepPod, PodsTypeOK, pods, calls
<1>6. ASSUME NEW p \in Project, StopPod(p) PROVE PodsTypeOK'
  BY <1>6 DEF StopPod, PodsTypeOK, calls
<1>7. ASSUME NEW p \in Project, DeleteProject(p) PROVE PodsTypeOK'
  BY <1>7 DEF DeleteProject, PodsTypeOK, pods, calls
<1>8. ASSUME NEW p \in Project, Destroy(p) PROVE PodsTypeOK'
  <2>1. /\ UNCHANGED <<row, calls, viewers, stopping, cleanup, known, outages, restarts>>
        /\ PodRm({p}) \/ UNCHANGED pods
    BY <1>8 DEF Destroy
  <2>2. dirs' \subseteq Project /\ destroy' \in [Project -> {"no", "pod", "dir"}]
    BY <1>8 DEF Destroy, PodsTypeOK
  <2> QED BY <2>1, <2>2, PodRmTypes DEF PodsTypeOK, pods, calls
<1>9. CASE Orphans
  <2>1. /\ UNCHANGED <<row, calls, viewers, stopping, destroy, outages, restarts>>
        /\ PodRm(Project \ known) \/ UNCHANGED pods
    BY <1>9 DEF Orphans, ReadIds, ReapPods, ReapDirs
  <2>2. /\ dirs' \subseteq Project /\ known' \subseteq Project
        /\ cleanup' \in {"off", "pods", "dirs"}
    BY <1>9 DEF Orphans, ReadIds, ReapPods, ReapDirs, PodsTypeOK
  <2> QED BY <2>1, <2>2, PodRmTypes DEF PodsTypeOK, pods, calls
<1>10. CASE Outage
  <2>1. /\ UNCHANGED <<row, block, age, stale, dirs, calls, viewers, stopping, destroy,
                       cleanup, known, restarts>>
        /\ pod' = [p \in Project |-> IF pod[p] = "running" THEN "stopped" ELSE pod[p]]
        /\ outages' = outages + 1 /\ outages < MaxOutages
    BY <1>10 DEF Outage
  <2>2. pod' \in [Project -> {"none", "bare", "running", "stopped"}]
    BY <2>1 DEF PodsTypeOK
  <2>3. outages' \in 0..MaxOutages
    BY <2>1, PodsAssumption DEF PodsTypeOK
  <2> QED BY <2>1, <2>2, <2>3 DEF PodsTypeOK, calls
<1>11. CASE Restart
  <2>1. /\ UNCHANGED <<row, pod, block, age, dirs, choice, known, outages>>
        /\ at' = [c \in Call |-> IF at[c] \in {"new", "done"} THEN at[c] ELSE "failed"]
        /\ chain' = <<>> /\ viewers' = {} /\ stopping' = {} /\ cleanup' = "off"
        /\ destroy' = [p \in Project |-> "no"]
        /\ restarts' = restarts + 1 /\ restarts < MaxRestarts
    BY <1>11 DEF Restart
  <2>2. at' \in [Call -> Stages]
    BY <2>1 DEF PodsTypeOK, Stages
  <2>3. restarts' \in 0..MaxRestarts
    BY <2>1, PodsAssumption DEF PodsTypeOK
  <2>4. stale' \subseteq Project
    BY <1>11 DEF Restart, PodsTypeOK
  <2> QED BY <2>1, <2>2, <2>3, <2>4 DEF PodsTypeOK
<1>12. CASE UNCHANGED podsVars
  BY <1>12 DEF podsVars, pods, calls, others, PodsTypeOK
<1> QED
  BY <1>1, <1>2, <1>3, <1>4, <1>5, <1>6, <1>7, <1>8, <1>9, <1>10, <1>11, <1>12
  DEF PodsNext, Use, Take

\* Every variable keeps its type: a call is at one of its commands, what it
\* chose and what a pod is labelled with is a block of the published range, and
\* the queue and the pods' order hold calls and projects, whatever fails.
THEOREM PodsTypeCorrect == PodsSpec => []PodsTypeOK
<1>1. PodsInit => PodsTypeOK
  BY PodsAssumption DEF PodsInit, PodsTypeOK, Stages
<1> QED BY <1>1, TypesKept, PTL DEF PodsSpec

-----------------------------------------------------------------------------
(***************************************************************************)
(* Handing out.  A call's last command is run, or the reading of the ports: *)
(* what that command relies on was established by an earlier one, and other *)
(* calls, the reaper and the container's restart must have left it alone.   *)
(* The turn of the queue keeps the other calls away, the row of the project *)
(* tells whether its deletion was begun.                                    *)
(***************************************************************************)

\* Pods of a project are only destroyed once its row is gone.
DestroyedAreDeleted == \A p \in Project : destroy[p] # "no" => row[p] = "deleted"

\* A pod that is about to get its main container has the block its call chose;
\* one that is about to be started or asked for its ports has its container.
Prepared ==
  \A c \in Call :
    \/ row[ProjectOf[c]] = "deleted"
    \/ /\ at[c] = "run" => block[ProjectOf[c]] = choice[c]
       /\ at[c] \in {"start", "label"} => pod[ProjectOf[c]] \in {"running", "stopped"}

HandingOver ==
  /\ PodsTypeOK
  /\ OneAtATime
  /\ DestroyedAreDeleted
  /\ Prepared

\* Another call's step leaves what a call has prepared: it has not its turn.
LEMMA OneTurn ==
  ASSUME OneAtATime, NEW c \in Call, NEW d \in Call, Turn(c), at[d] \in Working
  PROVE  d = c
  BY DEF OneAtATime, Turn

LEMMA TypedShapes == PodsTypeOK => PodShapes
  BY DEF PodsTypeOK, PodShapes

\* What has to be shown of a step of a call: the others keep their stages, and
\* none of them is at work.
LEMMA PreparedByOne ==
  ASSUME HandingOver, NEW c \in Call, Step(c), Moves(c), PodsTypeOK',
         \/ row[ProjectOf[c]] = "deleted"
         \/ /\ at'[c] = "run" => block'[ProjectOf[c]] = choice'[c]
            /\ at'[c] \in {"start", "label"} => pod'[ProjectOf[c]] \in {"running", "stopped"}
  PROVE  HandingOver'
<1>1. Turn(c) /\ UNCHANGED <<row, destroy>>
  BY DEF Step, PrepareDir, Inspect, RemovePod, List, Reclaim, CreatePod, Run, Start, Label, others
<1>2. OneAtATime' /\ \A d \in Call \ {c} : at'[d] \notin Working
  BY <1>1, TurnPasses, TypedShapes DEF HandingOver
<1>3. Prepared'
  <2> SUFFICES ASSUME NEW d \in Call
               PROVE  \/ row'[ProjectOf[d]] = "deleted"
                      \/ /\ at'[d] = "run" => block'[ProjectOf[d]] = choice'[d]
                         /\ at'[d] \in {"start", "label"}
                              => pod'[ProjectOf[d]] \in {"running", "stopped"}
    BY DEF Prepared
  <2>1. CASE d = c
    BY <1>1, <2>1
  <2>2. CASE d # c
    BY <1>2, <2>2 DEF Working
  <2> QED BY <2>1, <2>2
<1>4. DestroyedAreDeleted'
  BY <1>1 DEF HandingOver, DestroyedAreDeleted
<1> QED BY <1>2, <1>3, <1>4 DEF HandingOver

\* A step of a call keeps the invariant.
LEMMA StepHandsOver == ASSUME HandingOver, NEW c \in Call, Step(c) PROVE HandingOver'
<1> DEFINE p == ProjectOf[c]
<1>0. p \in Project /\ PodsTypeOK /\ PodsTypeOK' /\ at \in [Call -> Stages]
  BY PodsAssumption, StepTypes DEF HandingOver, PodsTypeOK
<1>1. CASE PrepareDir(c)
  <2>1. Moves(c) /\ at'[c] \notin {"run", "start", "label"}
    BY <1>0, <1>1 DEF PrepareDir, Moves, Stages, Goto, Throw
  <2> QED BY <1>0, <2>1, PreparedByOne
<1>2. CASE Inspect(c)
  <2>1. Moves(c)
    BY <1>2 DEF Inspect, Moves, Stages
  <2>2. /\ at'[c] # "run" /\ UNCHANGED pod
        /\ at'[c] \in {"start", "label"} => pod[p] \in {"running", "stopped"}
    BY <1>0, <1>2 DEF Inspect, Goto, pods
  <2> QED BY <1>0, <2>1, <2>2, PreparedByOne
<1>3. CASE RemovePod(c)
  <2>1. Moves(c) /\ at'[c] \notin {"run", "start", "label"}
    BY <1>0, <1>3 DEF RemovePod, Moves, Stages, Goto, Throw
  <2> QED BY <1>0, <2>1, PreparedByOne
<1>4. CASE List(c)
  <2>1. (\E b : Choose(c, b, "create")) \/ Goto(c, "reclaim") \/ Throw(c)
    BY <1>4 DEF List
  <2>2. Moves(c) /\ at'[c] \notin {"run", "start", "label"}
    BY <1>0, <2>1 DEF Moves, Stages, Goto, Choose, Throw
  <2> QED BY <1>0, <2>2, PreparedByOne
<1>5. CASE Reclaim(c)
  <2>1. Moves(c) /\ at'[c] \notin {"run", "start", "label"}
    BY <1>0, <1>5 DEF Reclaim, Moves, Stages, Goto, Throw
  <2> QED BY <1>0, <2>1, PreparedByOne
<1>6. CASE CreatePod(c)
  <2>1. Moves(c)
    BY <1>6 DEF CreatePod, Moves, Stages
  <2>2. /\ at'[c] \notin {"start", "label"}
        /\ at'[c] = "run" => block' = [block EXCEPT ![p] = choice[c]] /\ UNCHANGED choice
    BY <1>0, <1>6 DEF CreatePod, Goto, Throw
  <2>3. at'[c] = "run" => block'[p] = choice'[c]
    BY <1>0, <2>2 DEF PodsTypeOK
  <2> QED BY <1>0, <2>1, <2>2, <2>3, PreparedByOne
<1>7. CASE Run(c)
  <2>1. Moves(c) /\ at'[c] \notin {"run", "start", "label"}
    BY <1>0, <1>7 DEF Run, Moves, Stages, Goto, Return
  <2> QED BY <1>0, <2>1, PreparedByOne
<1>8. CASE Start(c)
  <2>1. Moves(c) /\ at[c] = "start" /\ Turn(c) /\ at'[c] \notin {"run", "start"}
    BY <1>0, <1>8 DEF Start, Moves, Stages, Goto, Throw
  <2>2. row[p] = "deleted" \/ pod[p] \in {"running", "stopped"}
    BY <2>1 DEF HandingOver, Prepared
  <2>3. pod[p] \in {"running", "stopped"} => pod'[p] \in {"running", "stopped"}
    BY <1>0, <1>8 DEF Start, PodsTypeOK
  <2> QED BY <1>0, <2>1, <2>2, <2>3, PreparedByOne
<1>9. CASE Label(c)
  <2>1. Moves(c) /\ at'[c] \notin {"run", "start", "label"}
    BY <1>0, <1>9 DEF Label, Moves, Return
  <2> QED BY <1>0, <2>1, PreparedByOne
<1> QED BY <1>1, <1>2, <1>3, <1>4, <1>5, <1>6, <1>7, <1>8, <1>9 DEF Step

\* A step that moves no call: it keeps rows that are deleted, and takes pods
\* from their containers, or away, only where the row is deleted.
LEMMA BesideCalls ==
  ASSUME HandingOver, PodsTypeOK', UNCHANGED calls, DestroyedAreDeleted',
         \A p \in Project : row[p] = "deleted" => row'[p] = "deleted",
         \A p \in Project : \/ row[p] = "deleted"
                            \/ /\ block'[p] = block[p]
                               /\ pod[p] \in {"running", "stopped"}
                                    => pod'[p] \in {"running", "stopped"}
  PROVE  HandingOver'
<1>1. \A c \in Call : ProjectOf[c] \in Project
  BY PodsAssumption
<1>2. Prepared'
  BY <1>1 DEF calls, HandingOver, Prepared
<1>3. OneAtATime'
  BY DEF HandingOver, OneAtATime, Turn, calls
<1> QED BY <1>2, <1>3 DEF HandingOver

\* Every step of everybody but the clean-up keeps the invariant.
LEMMA HandingOverStep ==
  ASSUME HandingOver, [Use \/ Take \/ Outage \/ Restart]_podsVars PROVE HandingOver'
<1>0. PodsTypeOK /\ PodsTypeOK' /\ DestroyedAreDeleted
  BY TypesKept DEF PodsNext, HandingOver
<1>1. ASSUME NEW c \in Call, Begin(c) PROVE HandingOver'
  <2>1. /\ at[c] = "new" /\ UNCHANGED <<row, pods, choice, others>>
        /\ \/ at' = [at EXCEPT ![c] = "dir"] /\ chain' = Append(chain, c)
           \/ at' = [at EXCEPT ![c] = "failed"] /\ chain' = chain
    BY <1>1 DEF Begin
  <2>2. \A d \in Call : at'[d] \in Working => at[d] = at'[d]
    BY <1>0, <2>1 DEF PodsTypeOK, Working
  <2>3. chain # <<>> => chain' # <<>> /\ Head(chain') = Head(chain)
    <3>1. chain \in Seq(Call) /\ (chain' = chain \/ chain' = Append(chain, c))
      BY <1>0, <2>1 DEF PodsTypeOK
    <3> QED BY <3>1
  <2>4. OneAtATime'
    BY <2>2, <2>3 DEF HandingOver, OneAtATime, Turn
  <2>5. Prepared'
    BY <2>1, <2>2 DEF HandingOver, Prepared, pods, Working
  <2>6. DestroyedAreDeleted'
    BY <1>0, <2>1 DEF DestroyedAreDeleted, others
  <2> QED BY <1>0, <2>4, <2>5, <2>6 DEF HandingOver
<1>2. ASSUME NEW c \in Call, Step(c) PROVE HandingOver'
  BY <1>2, StepHandsOver
<1>3. ASSUME NEW p \in Project, NewProject(p) PROVE HandingOver'
  <2>1. UNCHANGED <<pods, calls, destroy>> /\ row[p] = "none"
        /\ row' = [row EXCEPT ![p] = "row"]
    BY <1>3 DEF NewProject, others
  <2>2. \A q \in Project : row[q] = "deleted" => row'[q] = "deleted"
    BY <1>0, <2>1 DEF PodsTypeOK
  <2>3. DestroyedAreDeleted'
    BY <1>0, <2>1, <2>2 DEF DestroyedAreDeleted
  <2> QED BY <1>0, <2>1, <2>2, <2>3, BesideCalls DEF pods
<1>4. ASSUME NEW p \in Project, Watch(p) \/ Unwatch(p) \/ SweepPod(p) PROVE HandingOver'
  <2>1. UNCHANGED <<row, pods, calls, destroy>>
    BY <1>4 DEF Watch, Unwatch, SweepPod
  <2>2. DestroyedAreDeleted'
    BY <1>0, <2>1 DEF DestroyedAreDeleted
  <2> QED BY <1>0, <2>1, <2>2, BesideCalls DEF pods
<1>5. ASSUME NEW p \in Project, StopPod(p) PROVE HandingOver'
  <2>1. /\ UNCHANGED <<row, block, calls, destroy>>
        /\ pod' = [pod EXCEPT ![p] = "stopped"] \/ pod' = pod
    BY <1>5 DEF StopPod
  <2>2. \A q \in Project : pod[q] \in {"running", "stopped"} => pod'[q] \in {"running", "stopped"}
    BY <1>0, <2>1 DEF PodsTypeOK
  <2>3. DestroyedAreDeleted'
    BY <1>0, <2>1 DEF DestroyedAreDeleted
  <2> QED BY <1>0, <2>1, <2>2, <2>3, BesideCalls
<1>6. ASSUME NEW p \in Project, DeleteProject(p) PROVE HandingOver'
  <2>1. /\ UNCHANGED <<pods, calls>>
        /\ row' = [row EXCEPT ![p] = "deleted"]
        /\ destroy' = [destroy EXCEPT ![p] = "pod"]
    BY <1>6 DEF DeleteProject
  <2>2. \A q \in Project : row[q] = "deleted" => row'[q] = "deleted"
    BY <1>0, <2>1 DEF PodsTypeOK
  <2>3. DestroyedAreDeleted'
    BY <1>0, <2>1 DEF DestroyedAreDeleted, PodsTypeOK
  <2> QED BY <1>0, <2>1, <2>2, <2>3, BesideCalls DEF pods
<1>7. ASSUME NEW p \in Project, Destroy(p) PROVE HandingOver'
  <2>1. /\ UNCHANGED <<row, calls>>
        /\ destroy[p] # "no"
        /\ PodRm({p}) \/ UNCHANGED pods
        /\ \E d \in {"dir", "no"} : destroy' = [destroy EXCEPT ![p] = d]
    BY <1>7 DEF Destroy
  <2>2. row[p] = "deleted"
    BY <1>0, <2>1 DEF DestroyedAreDeleted
  <2>3. \A q \in Project \ {p} : pod'[q] = pod[q] /\ block'[q] = block[q]
    BY <2>1 DEF PodRm, pods
  <2>4. DestroyedAreDeleted'
    BY <1>0, <2>1, <2>2 DEF DestroyedAreDeleted, PodsTypeOK
  <2> QED BY <1>0, <2>1, <2>2, <2>3, <2>4, BesideCalls
<1>8. CASE Outage
  <2>1. /\ UNCHANGED <<row, block, calls, destroy>>
        /\ pod' = [p \in Project |-> IF pod[p] = "running" THEN "stopped" ELSE pod[p]]
    BY <1>8 DEF Outage
  <2>2. \A q \in Project : pod[q] \in {"running", "stopped"} => pod'[q] \in {"running", "stopped"}
    BY <2>1
  <2>3. DestroyedAreDeleted'
    BY <1>0, <2>1 DEF DestroyedAreDeleted
  <2> QED BY <1>0, <2>1, <2>2, <2>3, BesideCalls
<1>9. CASE Restart
  <2>1. \A c \in Call : at'[c] \in {"new", "done", "failed"}
    BY <1>9 DEF Restart
  <2>2. OneAtATime' /\ Prepared'
    BY <2>1 DEF OneAtATime, Prepared, Working
  <2>3. DestroyedAreDeleted'
    BY <1>9 DEF Restart, DestroyedAreDeleted
  <2> QED BY <1>0, <2>2, <2>3 DEF HandingOver
<1>10. CASE UNCHANGED podsVars
  <2>1. DestroyedAreDeleted'
    BY <1>0, <1>10 DEF DestroyedAreDeleted, podsVars, others
  <2> QED BY <1>0, <1>10, <2>1, BesideCalls DEF podsVars, pods
<1> QED
  BY <1>1, <1>2, <1>3, <1>4, <1>5, <1>6, <1>7, <1>8, <1>9, <1>10 DEF Use, Take

\* What the invariant gives at the moment a call returns.
LEMMA WholeWhenReturned ==
  ASSUME HandingOver, [Use \/ Take \/ Outage \/ Restart]_podsVars,
         NEW c \in Call, at[c] # "done", at'[c] = "done"
  PROVE  LET p == ProjectOf[c] IN
         \/ row'[p] = "deleted"
         \/ pod'[p] \in {"running", "stopped"} /\ choice'[c] \in {block'[p], NoBlock}
<1> DEFINE p == ProjectOf[c]
<1>0. p \in Project /\ PodsTypeOK
  BY PodsAssumption DEF HandingOver
<1>1. Run(c) \/ Label(c)
  <2>1. ASSUME NEW d \in Call, Begin(d) PROVE FALSE
    BY <1>0, <2>1 DEF Begin, PodsTypeOK
  <2>2. ASSUME NEW d \in Call, Step(d) PROVE d = c /\ (Run(c) \/ Label(c))
    <3>1. CASE Run(d) \/ Label(d)
      <4>1. \E b : Return(d, b) \/ Goto(d, "undo")
        BY <3>1 DEF Run, Label
      <4> QED BY <1>0, <3>1, <4>1 DEF Return, Goto, PodsTypeOK
    <3>2. CASE PrepareDir(d) \/ Inspect(d) \/ RemovePod(d) \/ List(d) \/ Reclaim(d)
                 \/ CreatePod(d) \/ Start(d)
      <4>1. \/ \E next \in Stages \ {"done"} : Goto(d, next)
            \/ \E b : Choose(d, b, "create")
            \/ Throw(d)
        BY <3>2 DEF PrepareDir, Inspect, RemovePod, List, Reclaim, CreatePod, Start, Stages
      <4> QED BY <1>0, <4>1 DEF Goto, Choose, Throw, PodsTypeOK
    <3> QED BY <2>2, <3>1, <3>2 DEF Step
  <2>3. ASSUME NEW q \in Project,
               NewProject(q) \/ Watch(q) \/ Unwatch(q) \/ SweepPod(q) \/ StopPod(q)
                 \/ DeleteProject(q) \/ Destroy(q)
        PROVE FALSE
    BY <2>3 DEF NewProject, Watch, Unwatch, SweepPod, StopPod, DeleteProject, Destroy, calls
  <2>4. CASE Outage \/ Restart \/ UNCHANGED podsVars
    BY <2>4 DEF Outage, Restart, podsVars, calls
  <2> QED BY <2>1, <2>2, <2>3, <2>4 DEF Use, Take
<1>2. CASE Run(c)
  <2>1. /\ at[c] = "run" /\ UNCHANGED <<row, block>>
        /\ \/ pod' = [pod EXCEPT ![p] = "running"] /\ Return(c, choice[c])
           \/ Goto(c, "undo")
    BY <1>2 DEF Run
  <2>2. pod' = [pod EXCEPT ![p] = "running"] /\ choice'[c] = choice[c]
    BY <1>0, <2>1 DEF Goto, Return, PodsTypeOK
  <2>3. pod'[p] = "running"
    BY <1>0, <2>2 DEF PodsTypeOK
  <2> QED BY <2>1, <2>2, <2>3 DEF HandingOver, Prepared
<1>3. CASE Label(c)
  <2>1. /\ at[c] = "label" /\ UNCHANGED <<row, pod, block>>
        /\ Return(c, block[p]) \/ Return(c, NoBlock)
    BY <1>3 DEF Label, pods
  <2>2. choice'[c] \in {block[p], NoBlock}
    BY <1>0, <2>1 DEF Return, PodsTypeOK
  <2> QED BY <2>1, <2>2 DEF HandingOver, Prepared
<1> QED BY <1>1, <1>2, <1>3

\* getSandbox hands out a pod that has its main container and the block the
\* caller is told, whichever commands fail, and whatever an earlier call, a crash
\* or an outage left behind; only the deletion of the project may have taken it.
THEOREM WholePodsHandedOut == UseSpec => HandedOutPodsAreWhole
<1>1. PodsInit => HandingOver
  <2>1. PodsInit => PodsTypeOK
    BY PodsAssumption DEF PodsInit, PodsTypeOK, Stages
  <2> QED BY <2>1 DEF PodsInit, HandingOver, OneAtATime, Working, DestroyedAreDeleted, Prepared
<1>2. HandingOver /\ [Use \/ Take \/ Outage \/ Restart]_podsVars =>
        [\A c \in Call : at[c] # "done" /\ at'[c] = "done" =>
           LET p == ProjectOf[c] IN
           \/ row'[p] = "deleted"
           \/ pod'[p] \in {"running", "stopped"} /\ choice'[c] \in {block'[p], NoBlock}]_podsVars
  BY WholeWhenReturned
<1> QED BY <1>1, <1>2, HandingOverStep, PTL DEF UseSpec, HandedOutPodsAreWhole
=============================================================================
