------------------------------ MODULE Desktop ------------------------------
(***************************************************************************)
(* The desktop of a project's preview: AgentGuiService.ts, the desktop part  *)
(* of SandboxManager.ts and the script start-desktop of the toolchain image. *)
(* A request to start or open the desktop is dropped while another one is    *)
(* under way; a request to stop it is not, and runs beside it.  Clients are  *)
(* told by events; the desktop itself is only seen through podman commands.  *)
(* To open a preview also starts what it shows: the server of the project    *)
(* before the desktop, or an application on it, as the manifest says.        *)
(*                                                                         *)
(* A step is one command; the deadline of a server that does not answer is a *)
(* choice.  What the page or the application shows is left out.              *)
(***************************************************************************)
EXTENDS Naturals

CONSTANTS
  MaxPolls,    \* bound: how often the deadline lets waitForGuiReady look
  MaxStops,    \* bound: requests to stop that are under way at once
  MaxAsked,    \* bound: requests during a behaviour
  MaxFaults    \* bound: commands that fail, and deaths of the desktop

\* Every theorem about this module assumes it.
DesktopAssumption == {MaxPolls, MaxStops, MaxAsked, MaxFaults} \subseteq Nat

VARIABLES
  at,         \* the step of the request under way; "idle": busy has no project
  wish,       \* its keyboard: with or without the input method
  opening,    \* what it shows: a "page", an "app", or only the desktop
  polls,      \* how often it looked for the desktop
  stops,      \* requests to stop that are under way
  server,     \* the server of the project; "up" when it answers
  app,        \* whether the application of the manifest runs on the desktop
  told,       \* clients were sent preview-launch-error for this request
  sway,       \* the compositor; "dying" after pkill
  vnc,        \* whether wayvnc runs
  stamp,      \* /tmp/.gui-ready is there
  marker,     \* /tmp/.gui-ime
  status,     \* the last gui-status clients were sent
  asked,      \* requests so far
  faults,     \* faults so far
  disturbed   \* something crossed the last request, or failed beneath it

desktop == <<sway, vnc, stamp, marker>>
request == <<at, wish, opening, polls>>
preview == <<server, app, told>>
vars == <<request, stops, desktop, preview, status, asked, faults, disturbed>>

Init ==
  /\ at = "idle" /\ wish = TRUE /\ opening = "none" /\ polls = 0
  /\ stops = 0
  /\ server = "none" /\ app = FALSE /\ told = FALSE
  /\ sway = "none" /\ vnc = FALSE /\ stamp = FALSE /\ marker = "none"
  /\ status = "stopped"
  /\ asked = 0 /\ faults = 0 /\ disturbed = FALSE

Marker(ime) == IF ime THEN "ime" ELSE "plain"

\* Something happens that the request under way, or the last one, does not know of.
Fault == faults < MaxFaults /\ faults' = faults + 1 /\ disturbed' = TRUE
NoFault == UNCHANGED <<faults, disturbed>>

-----------------------------------------------------------------------------
\* start(), open(): not while another one is under way.
Request(ime, open) ==
  /\ at = "idle" /\ asked < MaxAsked
  /\ asked' = asked + 1
  /\ disturbed' = (stops > 0)
  /\ wish' = ime /\ opening' = (IF open THEN "page" ELSE "none") /\ polls' = 0
  /\ at' = IF open THEN "preview" ELSE "setup"
  /\ status' = IF open THEN status ELSE "starting"
  /\ told' = FALSE
  /\ UNCHANGED <<stops, desktop, server, app, faults>>

Goto(next) == at' = next /\ UNCHANGED <<wish, opening, polls>>

\* Variant: a failed request is forgotten, not reported.
FailsSilently ==
  /\ Goto("idle")
  /\ UNCHANGED status

\* The request threw: runExclusive reports it and lets the next one in.
Fails ==
  /\ Goto("idle")
  /\ status' = "error"

\* getSandbox and the manifest: an application is opened on the desktop, a page needs
\* its server first; without either the client is told, and sees the bare desktop.
Preview ==
  /\ at = "preview"
  /\ \/ /\ at' = "announce" /\ opening' = "app"
        /\ UNCHANGED <<wish, polls, told, status>>
     \/ Goto("serve") /\ UNCHANGED <<told, status>>
     \/ Goto("announce") /\ told' = TRUE /\ UNCHANGED status
     \/ Fails /\ UNCHANGED told
  /\ NoFault
  /\ UNCHANGED <<stops, desktop, server, app, asked>>

\* isHttpResponsive: it answers a request, be it with an error.
Responsive == server = "up"

\* ensureDevServer: a server that answers is left alone; another one is stopped and
\* started again, or there is no command for it, or the command fails.
Serve ==
  /\ at = "serve"
  /\ \/ Responsive /\ Goto("announce") /\ UNCHANGED <<server, told, status>> /\ NoFault
     \/ /\ IF Responsive THEN Fault ELSE NoFault
        /\ \/ Goto("poll") /\ server' = "starting" /\ UNCHANGED <<told, status>>
           \/ /\ Goto("announce") /\ told' = TRUE
              /\ server' \in {server, "none"}
              /\ UNCHANGED status
           \/ Fails /\ server' \in {server, "none"} /\ UNCHANGED told
  /\ UNCHANGED <<stops, desktop, app, asked>>

\* Variant: the request does not wait for the server.
PollOnce ==
  /\ at = "poll"
  /\ Goto("announce") /\ UNCHANGED told
  /\ NoFault
  /\ UNCHANGED <<stops, desktop, server, app, status, asked>>

\* It waits until the server answers, or tells the client that it did not in time.
Poll ==
  /\ at = "poll"
  /\ Goto("announce")
  /\ told' = ~ Responsive
  /\ NoFault
  /\ UNCHANGED <<stops, desktop, server, app, status, asked>>

\* announceStarting: clients are told unless the desktop runs already.
Announce ==
  /\ at = "announce"
  /\ Goto("setup")
  /\ status' = IF sway # "none" /\ stamp THEN status ELSE "starting"
  /\ NoFault
  /\ UNCHANGED <<stops, desktop, preview, asked>>

\* startGui: image, container and pod.
Setup ==
  /\ at = "setup"
  /\ \/ Goto("look") /\ UNCHANGED status
     \/ Fails
  /\ NoFault
  /\ UNCHANGED <<stops, desktop, preview, asked>>

\* Its getGuiStatus: a command that fails passes for a desktop that is off.
Look ==
  /\ at = "look"
  /\ \/ sway # "none" /\ Goto("compare") /\ NoFault
     \/ sway = "none" /\ Goto("launch") /\ NoFault
     \/ Fault /\ Goto("launch")
  /\ UNCHANGED <<stops, desktop, preview, status, asked>>

\* Variant: whatever desktop runs will do.
CompareNothing ==
  /\ at = "compare"
  /\ \/ Goto("wait") /\ NoFault
     \/ Fault /\ Goto("restart")
  /\ UNCHANGED <<stops, desktop, preview, status, asked>>

\* readGuiImeMarker: a desktop with the other keyboard is restarted.
Compare ==
  /\ at = "compare"
  /\ \/ Goto(IF marker = Marker(wish) THEN "wait" ELSE "restart") /\ NoFault
     \/ Fault /\ Goto("restart")
  /\ UNCHANGED <<stops, desktop, preview, status, asked>>

\* stopDesktop: the processes are signalled and the files removed; nobody waits
\* for sway to go, nor looks at the result.  An application loses its display.
StopDesktop ==
  \/ /\ sway' = IF sway = "up" THEN "dying" ELSE sway
     /\ vnc' = FALSE /\ stamp' = FALSE /\ marker' = "none"
     /\ app' = FALSE
     /\ NoFault
  \/ Fault /\ UNCHANGED <<desktop, app>>

\* Tears the desktop down: to start it anew, or because it does not come up.
TearDown ==
  /\ at \in {"restart", "dead", "late"}
  /\ StopDesktop
  /\ IF at = "restart" THEN Goto("launch") /\ UNCHANGED status ELSE Fails
  /\ UNCHANGED <<stops, server, told, asked>>

\* start-desktop: does nothing if sway and its socket are there; the socket of one
\* that is dying may be gone.
Launch ==
  /\ at = "launch"
  /\ \/ sway # "none" /\ Goto("wait") /\ UNCHANGED desktop
     \/ /\ sway # "up"
        /\ sway' = "up" /\ marker' = Marker(wish)
        /\ vnc' = FALSE /\ stamp' = FALSE
        /\ Goto("socket")
  /\ NoFault
  /\ UNCHANGED <<stops, preview, status, asked>>

\* The second half of start-desktop: sway listens and wayvnc is started, or the
\* script ends with an error.
Socket ==
  /\ at = "socket"
  /\ \/ sway = "up" /\ vnc' = TRUE /\ Goto("wait") /\ UNCHANGED status
     \/ sway # "up" /\ Fails /\ UNCHANGED vnc
  /\ NoFault
  /\ UNCHANGED <<stops, sway, stamp, marker, preview, asked>>

Runs == Goto("idle") /\ status' = "running"

\* waitForGuiReady looks for the stamp; after it a preview is shown.
WaitReady ==
  /\ at = "wait"
  /\ \/ stamp /\ opening # "none" /\ Goto("show") /\ UNCHANGED status
     \/ stamp /\ opening = "none" /\ Runs
     \/ ~stamp /\ Goto("alive") /\ UNCHANGED status
  /\ NoFault
  /\ UNCHANGED <<stops, desktop, preview, asked>>

\* Variant: it looks once more after the deadline.
WaitOnceMore ==
  /\ at = "alive"
  /\ \/ sway = "none" /\ Goto("dead")
     \/ /\ sway # "none" /\ polls <= MaxPolls
        /\ at' = "wait" /\ polls' = polls + 1
        /\ UNCHANGED <<wish, opening>>
     \/ sway # "none" /\ polls > MaxPolls /\ Goto("late")
  /\ NoFault
  /\ UNCHANGED <<stops, desktop, preview, status, asked>>

\* Then whether sway is alive, until the deadline.
WaitAlive ==
  /\ at = "alive"
  /\ \/ sway = "none" /\ Goto("dead")
     \/ /\ sway # "none" /\ polls < MaxPolls
        /\ at' = "wait" /\ polls' = polls + 1
        /\ UNCHANGED <<wish, opening>>
     \/ sway # "none" /\ polls = MaxPolls /\ Goto("late")
  /\ NoFault
  /\ UNCHANGED <<stops, desktop, preview, status, asked>>

\* The page is opened; if that fails the desktop still runs.
ShowPage ==
  /\ at = "show" /\ opening = "page"
  /\ Runs
  /\ NoFault
  /\ UNCHANGED <<stops, desktop, preview, asked>>

\* ensureGuiApp: the old application is ended and a new one started on the desktop; it
\* is there a moment later, or the client is told.  A command may also time out.
ShowApp ==
  /\ at = "show" /\ opening = "app"
  /\ \/ /\ app' = (sway = "up") /\ told' = (sway # "up")
        /\ Runs
     \/ app' = FALSE /\ told' = TRUE /\ Runs
     \/ app' \in {app, FALSE} /\ Fails /\ UNCHANGED told
  /\ NoFault
  /\ UNCHANGED <<stops, desktop, server, asked>>

Works ==
  \/ Preview \/ Serve \/ Poll \/ Announce \/ Setup \/ Look \/ Compare \/ TearDown
  \/ Launch \/ Socket \/ WaitReady \/ WaitAlive \/ ShowPage \/ ShowApp

-----------------------------------------------------------------------------
\* stop(): at any time.
Stop ==
  /\ stops < MaxStops /\ asked < MaxAsked
  /\ stops' = stops + 1
  /\ asked' = asked + 1
  /\ status' = "stopping"
  /\ disturbed' = IF at # "idle" THEN TRUE ELSE stops > 0 /\ disturbed
  /\ UNCHANGED <<request, desktop, preview, faults>>

\* It ends: best effort, but for a container that is not there.
Stopped ==
  /\ stops > 0
  /\ stops' = stops - 1
  /\ \/ StopDesktop /\ status' = "stopped"
     \/ Fault /\ UNCHANGED <<desktop, app>> /\ status' = "error"
  /\ UNCHANGED <<request, server, told, asked>>

\* wayvnc accepts connections: the script leaves the stamp.  It tries the port and then
\* leaves the stamp: one step here, so that no stopDesktop comes in between.
Stamps ==
  /\ vnc /\ ~stamp
  /\ stamp' = TRUE
  /\ UNCHANGED <<request, stops, sway, vnc, marker, preview, status, asked, faults, disturbed>>

\* Sway goes after pkill.
Gone ==
  /\ sway = "dying"
  /\ sway' = "none"
  /\ UNCHANGED <<request, stops, vnc, stamp, marker, preview, status, asked, faults, disturbed>>

\* Sway dies by itself or with its pod; the files stay.
Dies ==
  /\ sway = "up"
  /\ Fault
  /\ sway' = "none" /\ vnc' = FALSE /\ app' = FALSE
  /\ UNCHANGED <<request, stops, stamp, marker, server, told, status, asked>>

\* The server of the project begins to answer.
Answers ==
  /\ server = "starting"
  /\ server' = "up"
  /\ UNCHANGED <<request, stops, desktop, app, told, status, asked, faults, disturbed>>

\* The server or the application ends by itself, or the agent ends it.
Ends ==
  /\ Fault
  /\ \/ server # "none" /\ server' = "none" /\ UNCHANGED app
     \/ app /\ app' = FALSE /\ UNCHANGED server
  /\ UNCHANGED <<request, stops, desktop, told, status, asked>>

Next ==
  \/ \E ime, open \in BOOLEAN : Request(ime, open)
  \/ Works
  \/ Stop \/ Stopped \/ Stamps \/ Gone \/ Dies \/ Answers \/ Ends

Spec == Init /\ [][Next]_vars

\* Every command has a timeout.
Fairness == WF_vars(Works) /\ WF_vars(Stopped)
-----------------------------------------------------------------------------
TypeOK ==
  /\ at \in {"idle", "preview", "serve", "poll", "announce", "setup", "look", "compare", "restart", "launch",
             "socket", "wait", "alive", "dead", "late", "show"}
  /\ wish \in BOOLEAN /\ opening \in {"none", "page", "app"}
  /\ server \in {"none", "starting", "up"} /\ app \in BOOLEAN /\ told \in BOOLEAN
  /\ polls \in 0..MaxPolls /\ stops \in 0..MaxStops
  /\ sway \in {"none", "up", "dying"} /\ vnc \in BOOLEAN /\ stamp \in BOOLEAN
  /\ marker \in {"none", "ime", "plain"}
  /\ status \in {"stopped", "starting", "running", "stopping", "error"}
  /\ asked \in 0..MaxAsked /\ faults \in 0..MaxFaults /\ disturbed \in BOOLEAN

\* What clients are shown is what is there, after any sequence of requests, restarts of
\* the desktop with the other keyboard and requests that failed half-way: a desktop
\* shown as running accepts connections and has the keyboard that was asked for last,
\* one shown as stopped is off; the page of an opened preview is answered, or its
\* application runs, unless the client was told that it is not.  A stop that crosses a
\* start, and what ends by itself, is excused: the code notices neither (gui-status,
\* startGui, ensureDevServer).
StatusIsTrue ==
  at = "idle" /\ stops = 0 /\ ~disturbed =>
    /\ status = "running" =>
         /\ sway = "up" /\ stamp /\ marker = Marker(wish)
         /\ told \/ opening = "none" \/ (opening = "page" /\ server = "up")
                 \/ (opening = "app" /\ app)
    /\ status = "stopped" => sway # "up"

\* A client that is shown "starting" or "stopping" is told how it ended.
RequestsAreAnswered ==
  status \in {"starting", "stopping"} ~> status \in {"running", "stopped", "error"}
=============================================================================
