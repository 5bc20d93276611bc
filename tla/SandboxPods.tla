---------------------------- MODULE SandboxPods ----------------------------
(***************************************************************************)
(* chat-engine/src/sandbox/SandboxManager.ts: the pods of the projects in   *)
(* the shared container and the blocks of ports they are given, with those  *)
(* who take pods away: the idle reaper, the deletion of a project, the      *)
(* clean-up of orphans, and the reclaiming of a block when none is free.    *)
(*                                                                         *)
(* A step of a call is one podman command.  Calls of ensureProject queue up *)
(* behind one another (setupLock); nothing else does.  One server process   *)
(* uses the container.                                                      *)
(***************************************************************************)
EXTENDS Naturals, Sequences, SequencesExt, FiniteSetsExt

CONSTANTS
  Project,     \* projects that may ever exist
  Call,        \* getSandbox and startGui calls
  ProjectOf,   \* the project of each call
  Blocks,      \* number of port blocks in the published range
  Faults,      \* whether a docker or podman command may fail by itself
  MaxOutages,  \* bound: restarts of the shared container
  MaxRestarts   \* bound: restarts of the server

Block == 1..Blocks
NoBlock == 0

ASSUME PodsAssumption ==
  /\ ProjectOf \in [Call -> Project]
  /\ {Blocks, MaxOutages, MaxRestarts} \subseteq Nat
  /\ Blocks > 0
  /\ Faults \in BOOLEAN

VARIABLES
  row,       \* of each project: no row yet, a row in agent_project, deleted
  pod,       \* "bare": created, but without its main container
  block,     \* the label of each pod: its block of ports
  age,       \* pairs of projects: the pod of the first is older
  stale,     \* pods whose main container runs an older toolchain image
  dirs,      \* projects with a workspace directory
  at,        \* the command each call awaits
  choice,    \* the block a call allocated, later the one it returned
  chain,     \* calls on setupLock: the first one runs
  viewers,   \* projects whose preview somebody watches
  stopping,  \* projects the reaper decided to stop
  destroy,   \* how far the deletion of each project is
  cleanup,   \* the clean-up of orphans: its next step
  known,     \* the project ids it read
  outages, restarts

pods == <<pod, block, age, stale>>
calls == <<at, choice, chain>>
others == <<viewers, stopping, destroy, cleanup, known, outages, restarts>>
podsVars == <<row, pods, dirs, calls, others>>

PodsInit ==
  /\ row = [p \in Project |-> "none"]
  /\ pod = [p \in Project |-> "none"]
  /\ block = [p \in Project |-> NoBlock]
  /\ age = {}
  /\ stale = {}
  /\ dirs = {}
  /\ at = [c \in Call |-> "new"]
  /\ choice = [c \in Call |-> NoBlock]
  /\ chain = <<>>
  /\ viewers = {}
  /\ stopping = {}
  /\ destroy = [p \in Project |-> "no"]
  /\ cleanup = "off"
  /\ known = {}
  /\ outages = 0
  /\ restarts = 0

\* Whether a command can succeed: its own condition holds.  Whether it can
\* fail: the condition does not hold, or docker fails by itself.
MayFail(condition) == Faults \/ ~condition

\* podman pod rm -f.
PodRm(ps) ==
  /\ pod' = [p \in Project |-> IF p \in ps THEN "none" ELSE pod[p]]
  /\ block' = [p \in Project |-> IF p \in ps THEN NoBlock ELSE block[p]]
  /\ age' = age \intersect ((Project \ ps) \X (Project \ ps))
  /\ stale' = stale \ ps

\* Two pods cannot listen on one port: the second one does not start.
PortsFree(p) == \A q \in Project \ {p} : pod[q] = "running" => block[q] # block[p]

-----------------------------------------------------------------------------
\* getSandbox and startGui, for a project the route has found: images and the
\* shared container are made ready, then ensureProject joins the queue.
Begin(c) ==
  /\ at[c] = "new"
  /\ row[ProjectOf[c]] = "row"
  /\ \/ /\ at' = [at EXCEPT ![c] = "dir"]
        /\ chain' = Append(chain, c)
     \/ /\ Faults
        /\ at' = [at EXCEPT ![c] = "failed"]
        /\ UNCHANGED chain
  /\ UNCHANGED <<row, pods, dirs, choice, others>>

\* Variant: setup is not serialized.
TurnOfAny(c) == c \in ToSet(chain)
Turn(c) == chain # <<>> /\ Head(chain) = c

\* Variant: a rejected setup stays at the head of the chain.
ThrowPoisons(c) == at' = [at EXCEPT ![c] = "failed"] /\ UNCHANGED <<choice, chain>>

\* The call rejects; the next one's turn comes.
Throw(c) ==
  /\ at' = [at EXCEPT ![c] = "failed"]
  /\ chain' = Tail(chain)
  /\ UNCHANGED choice
Return(c, b) ==
  /\ at' = [at EXCEPT ![c] = "done"]
  /\ choice' = [choice EXCEPT ![c] = b]
  /\ chain' = Tail(chain)
Goto(c, next) == at' = [at EXCEPT ![c] = next] /\ UNCHANGED <<choice, chain>>
Choose(c, b, next) ==
  /\ at' = [at EXCEPT ![c] = next]
  /\ choice' = [choice EXCEPT ![c] = b]
  /\ UNCHANGED chain

\* ensureProjectDir.
PrepareDir(c) ==
  /\ Turn(c) /\ at[c] = "dir"
  /\ \/ dirs' = dirs \union {ProjectOf[c]} /\ Goto(c, "inspect")
     \/ Faults /\ Throw(c) /\ UNCHANGED dirs
  /\ UNCHANGED <<row, pods, others>>

\* Variant: any pod that can be inspected will do.
InspectTrusts(c) ==
  LET p == ProjectOf[c] IN
  /\ Turn(c) /\ at[c] = "inspect"
  /\ \/ pod[p] = "running" /\ Goto(c, "label")
     \/ pod[p] \in {"bare", "stopped"} /\ Goto(c, "start")
     \/ MayFail(pod[p] # "none") /\ Goto(c, "list")
  /\ UNCHANGED <<row, pods, dirs, others>>

\* A pod whose main container is missing or runs an older image is replaced, a
\* stopped one started.  If podman does not answer there is no pod.
Inspect(c) ==
  LET p == ProjectOf[c]
      current == pod[p] \in {"running", "stopped"} /\ p \notin stale
  IN /\ Turn(c) /\ at[c] = "inspect"
     /\ \/ current /\ pod[p] = "running" /\ Goto(c, "label")
        \/ current /\ pod[p] = "stopped" /\ Goto(c, "start")
        \/ pod[p] # "none" /\ MayFail(current) /\ Goto(c, "remove")
        \/ MayFail(pod[p] # "none") /\ Goto(c, "list")
     /\ UNCHANGED <<row, pods, dirs, others>>

\* Whether pod rm succeeded is not looked at.
RemovePod(c) ==
  /\ Turn(c) /\ at[c] \in {"remove", "recreate", "undo"}
  /\ \/ PodRm({ProjectOf[c]})
     \/ Faults /\ UNCHANGED pods
  /\ \/ at[c] = "remove" /\ Goto(c, "list")
     \/ at[c] = "recreate" /\ Goto(c, "create2")
     \/ at[c] = "undo" /\ Throw(c)
  /\ UNCHANGED <<row, dirs, others>>

\* Variant: the range is left at its end.
ListPastTheEnd(c) ==
  LET free == {b \in 1..(Blocks + 1) : \A p \in Project : block[p] # b} IN
  /\ Turn(c) /\ at[c] \in {"list", "relist"}
  /\ \/ free # {} /\ Choose(c, Min(free), "create")
     \/ free = {} /\ Throw(c)
  /\ UNCHANGED <<row, pods, dirs, others>>

\* Variant: only the pods that run are listed.
ListRunning(c) ==
  LET free == {b \in Block : \A p \in Project : pod[p] = "running" => block[p] # b} IN
  /\ Turn(c) /\ at[c] \in {"list", "relist"}
  /\ \/ free # {} /\ Choose(c, Min(free), "create")
     \/ free = {} /\ Goto(c, "reclaim")
  /\ UNCHANGED <<row, pods, dirs, others>>

\* allocateDevPorts: the lowest block no pod is labelled with.  If the pods
\* cannot be listed every block passes for free.
List(c) ==
  LET free == {b \in Block : \A p \in Project : block[p] # b} IN
  /\ Turn(c) /\ at[c] \in {"list", "relist"}
  /\ \/ free # {} /\ Choose(c, Min(free), "create")
     \/ free = {} /\ at[c] = "list" /\ Goto(c, "reclaim")
     \/ free = {} /\ at[c] = "relist" /\ Throw(c)
     \/ Faults /\ Choose(c, Min(Block), "create")
  /\ UNCHANGED <<row, pods, dirs, others>>

\* reclaimOldestPod: whoever uses it.
Reclaim(c) ==
  LET rest == {p \in Project \ {ProjectOf[c]} : pod[p] # "none"}
      oldest == {p \in rest : \A q \in rest \ {p} : <<p, q>> \in age}
  IN
  /\ Turn(c) /\ at[c] = "reclaim"
  /\ \/ \E p \in oldest : PodRm({p}) /\ Goto(c, "relist")
     \/ MayFail(rest # {}) /\ Throw(c) /\ UNCHANGED pods
  /\ UNCHANGED <<row, dirs, others>>

\* pod create: the name may be in use, by a pod that was not seen or could not
\* be removed.
CreatePod(c) ==
  LET p == ProjectOf[c] IN
  /\ Turn(c) /\ at[c] \in {"create", "create2"}
  /\ \/ /\ pod[p] = "none"
        /\ pod' = [pod EXCEPT ![p] = "bare"]
        /\ block' = [block EXCEPT ![p] = choice[c]]
        /\ age' = age \union {<<q, p>> : q \in {q \in Project : pod[q] # "none"}}
        /\ UNCHANGED stale
        /\ Goto(c, "run")
     \/ pod[p] # "none" /\ at[c] = "create" /\ Goto(c, "recreate") /\ UNCHANGED pods
     \/ pod[p] # "none" /\ at[c] = "create2" /\ Throw(c) /\ UNCHANGED pods
     \/ Faults /\ Throw(c) /\ UNCHANGED pods
  /\ UNCHANGED <<row, dirs, others>>

\* podman run: the main container starts the pod, or the pod is removed again.
Run(c) ==
  LET p == ProjectOf[c]
      possible == pod[p] = "bare" /\ PortsFree(p) IN
  /\ Turn(c) /\ at[c] = "run"
  /\ \/ possible /\ pod' = [pod EXCEPT ![p] = "running"] /\ Return(c, choice[c])
     \/ MayFail(possible) /\ Goto(c, "undo") /\ UNCHANGED pod
  /\ UNCHANGED <<row, block, age, stale, dirs, others>>

\* pod start: a pod without its main container gets none by it.
Start(c) ==
  LET p == ProjectOf[c]
      possible == pod[p] # "none" /\ PortsFree(p) IN
  /\ Turn(c) /\ at[c] = "start"
  /\ \/ possible /\ Goto(c, "label")
        /\ pod' = [pod EXCEPT ![p] = IF @ = "bare" THEN @ ELSE "running"]
     \/ MayFail(possible) /\ Throw(c) /\ UNCHANGED pod
  /\ UNCHANGED <<row, block, age, stale, dirs, others>>

\* podPorts.
Label(c) ==
  /\ Turn(c) /\ at[c] = "label"
  /\ Return(c, block[ProjectOf[c]]) \/ (Faults /\ Return(c, NoBlock))
  /\ UNCHANGED <<row, pods, dirs, others>>

Step(c) ==
  \/ PrepareDir(c) \/ Inspect(c) \/ RemovePod(c) \/ List(c) \/ Reclaim(c)
  \/ CreatePod(c) \/ Run(c) \/ Start(c) \/ Label(c)

-----------------------------------------------------------------------------
\* The project's route makes a row.
NewProject(p) ==
  /\ row[p] = "none"
  /\ row' = [row EXCEPT ![p] = "row"]
  /\ UNCHANGED <<pods, dirs, calls, others>>

\* DELETE of a project: first the row, then destroy().
DeleteProject(p) ==
  /\ row[p] = "row"
  /\ row' = [row EXCEPT ![p] = "deleted"]
  /\ destroy' = [destroy EXCEPT ![p] = "pod"]
  /\ UNCHANGED <<pods, dirs, calls, viewers, stopping, cleanup, known, outages, restarts>>

\* destroy(): pod rm and rm -rf, outside setupLock.
Destroy(p) ==
  /\ \/ /\ destroy[p] = "pod"
        /\ destroy' = [destroy EXCEPT ![p] = "dir"]
        /\ PodRm({p}) \/ (Faults /\ UNCHANGED pods)
        /\ UNCHANGED dirs
     \/ /\ destroy[p] = "dir"
        /\ destroy' = [destroy EXCEPT ![p] = "no"]
        /\ dirs' = dirs \ {p} \/ (Faults /\ UNCHANGED dirs)
        /\ UNCHANGED pods
  /\ UNCHANGED <<row, calls, viewers, stopping, cleanup, known, outages, restarts>>

\* A viewer connects to the desktop of a running pod, and leaves.
Watch(p) ==
  /\ p \notin viewers /\ row[p] = "row" /\ pod[p] = "running"
  /\ viewers' = viewers \union {p}
  /\ UNCHANGED <<row, pods, dirs, calls, stopping, destroy, cleanup, known, outages, restarts>>
Unwatch(p) ==
  /\ p \in viewers
  /\ viewers' = viewers \ {p}
  /\ UNCHANGED <<row, pods, dirs, calls, stopping, destroy, cleanup, known, outages, restarts>>

\* The reaper's sweep: p has not been used for a while, and nobody uses it now.
SweepPod(p) ==
  /\ p \notin viewers /\ row[p] # "none" /\ p \notin stopping
  /\ stopping' = stopping \union {p}
  /\ UNCHANGED <<row, pods, dirs, calls, viewers, destroy, cleanup, known, outages, restarts>>

\* Its stop(): looks the project up and stops the pod, if it runs.
StopPod(p) ==
  /\ p \in stopping
  /\ stopping' = stopping \ {p}
  /\ \/ pod[p] = "running" /\ row[p] = "row" /\ pod' = [pod EXCEPT ![p] = "stopped"]
     \/ MayFail(pod[p] = "running" /\ row[p] = "row") /\ UNCHANGED pod
  /\ UNCHANGED <<row, block, age, stale, dirs, calls, viewers, destroy, cleanup, known,
                 outages, restarts>>

\* performCleanup and reapOrphans: the ids are read first, pods and workspaces
\* of other names are removed afterwards.
ReadIds ==
  /\ cleanup = "off"
  /\ cleanup' = "pods"
  /\ known' = {p \in Project : row[p] = "row"}
  /\ UNCHANGED <<row, pods, dirs, calls, viewers, stopping, destroy, outages, restarts>>
ReapPods ==
  /\ cleanup = "pods"
  /\ cleanup' = "dirs"
  /\ PodRm(Project \ known) \/ (Faults /\ UNCHANGED pods)
  /\ UNCHANGED <<row, dirs, calls, viewers, stopping, destroy, known, outages, restarts>>
ReapDirs ==
  /\ cleanup = "dirs"
  /\ cleanup' = "off"
  /\ dirs' = dirs \intersect known \/ (Faults /\ UNCHANGED dirs)
  /\ UNCHANGED <<row, pods, calls, viewers, stopping, destroy, known, outages, restarts>>

\* The shared container restarts: no pod runs any more.
Outage ==
  /\ outages < MaxOutages
  /\ outages' = outages + 1
  /\ pod' = [p \in Project |-> IF pod[p] = "running" THEN "stopped" ELSE pod[p]]
  /\ UNCHANGED <<row, block, age, stale, dirs, calls, viewers, stopping, destroy, cleanup,
                 known, restarts>>

\* The server restarts, maybe with a newer toolchain image.
Restart ==
  /\ restarts < MaxRestarts
  /\ restarts' = restarts + 1
  /\ at' = [c \in Call |-> IF at[c] \in {"new", "done"} THEN at[c] ELSE "failed"]
  /\ chain' = <<>>
  /\ viewers' = {} /\ stopping' = {} /\ cleanup' = "off"
  /\ destroy' = [p \in Project |-> "no"]
  /\ stale' = stale \/ stale' = {p \in Project : pod[p] # "none"}
  /\ UNCHANGED <<row, pod, block, age, dirs, choice, known, outages>>

Take == \E p \in Project : SweepPod(p) \/ StopPod(p) \/ DeleteProject(p) \/ Destroy(p)
Orphans == ReadIds \/ ReapPods \/ ReapDirs
Use ==
  \/ \E c \in Call : Begin(c) \/ Step(c)
  \/ \E p \in Project : NewProject(p) \/ Watch(p) \/ Unwatch(p)

PodsNext == Use \/ Take \/ Orphans \/ Outage \/ Restart
PodsSpec == PodsInit /\ [][PodsNext]_podsVars

\* Every docker command has a timeout.
FairPodsSpec == PodsSpec /\ \A c \in Call : WF_podsVars(Step(c))

\* Without the clean-up of orphans, which an administrator starts.
UseSpec == PodsInit /\ [][Use \/ Take \/ Outage \/ Restart]_podsVars
-----------------------------------------------------------------------------
Stages == {"new", "dir", "inspect", "remove", "recreate", "undo", "list", "relist",
           "reclaim", "create", "create2", "run", "start", "label", "done", "failed"}

PodsTypeOK ==
  /\ row \in [Project -> {"none", "row", "deleted"}]
  /\ pod \in [Project -> {"none", "bare", "running", "stopped"}]
  /\ block \in [Project -> Block \union {NoBlock}]
  /\ age \subseteq Project \X Project
  /\ stale \subseteq Project /\ dirs \subseteq Project
  /\ at \in [Call -> Stages]
  /\ choice \in [Call -> Block \union {NoBlock}]
  /\ chain \in Seq(Call)
  /\ viewers \subseteq Project /\ stopping \subseteq Project
  /\ destroy \in [Project -> {"no", "pod", "dir"}]
  /\ cleanup \in {"off", "pods", "dirs"} /\ known \subseteq Project
  /\ outages \in 0..MaxOutages /\ restarts \in 0..MaxRestarts

\* "concurrent new projects can't race a port block" (sandbox/README.md:198):
\* no two pods are given one block.
BlocksDisjoint ==
  \A p, q \in Project : block[p] # NoBlock /\ block[p] = block[q] => p = q

\* While a call sets a pod up, nobody else allocates: its choice stays free
\* until its pod has it.
ChoiceStaysFree ==
  \A c \in Call, p \in Project :
    at[c] \in {"create", "recreate", "create2"} /\ p # ProjectOf[c] => block[p] # choice[c]

\* getSandbox hands out a pod that is complete and has the ports the caller is
\* told, whatever was left behind by an earlier call, crash or outage; only the
\* deletion of the project can take it away in the meantime.
HandedOutPodsAreWhole ==
  [][\A c \in Call : at[c] # "done" /\ at'[c] = "done" =>
       LET p == ProjectOf[c] IN
       \/ row'[p] = "deleted"
       \/ pod'[p] \in {"running", "stopped"} /\ choice'[c] \in {block'[p], NoBlock}]_podsVars

\* Every call returns or throws: a setup that fails does not block the next.
CallsEnd ==
  \A c \in Call : at[c] = "dir" ~> at[c] \in {"done", "failed"}
=============================================================================
