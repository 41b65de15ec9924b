-------------------------- MODULE RuntimeSupervisor --------------------------
(***************************************************************************)
(* The launcher's supervisor of the daemon and the tunnel                  *)
(* (launcher/electron/runtime-supervisor.cjs, production profile, full     *)
(* mode): start, stop with its compensation, recovery of a lost daemon or  *)
(* tunnel, the take-over of what a dead launcher left behind, and the      *)
(* ownership file.                                                         *)
(*                                                                         *)
(* Each call is a flow with a place pc; one action is the code between two *)
(* awaits.  Places in Sync are never rested at: the flow goes on before    *)
(* anything else does.                                                     *)
(***************************************************************************)
EXTENDS Integers, FiniteSets

CONSTANTS
  Children,      \* names of daemon processes, reused when nobody knows them
  MaxFaults,     \* bound on what goes wrong, each kind once: a "probe", a
                 \* "command", a "resume" or a "write" fails, a process has a
                 \* "crash", the "launcher" dies
  None

ASSUME BoundsAssumption == MaxFaults \in Nat /\ None \notin Children

VARIABLES
  \* the machine
  proc,        \* each daemon process
  accepting,   \* the listening daemon admits turns (not draining)
  native,      \* the tunnel's native runtime is up
  recognised,  \* /healthz gives the service name that proxyHealth looks for
  file,        \* launcher-supervisor.json
  \* the launcher
  up, daemon, tunnel, stopping, monitor,
  timers,      \* restartTimers that are armed
  mine,        \* children whose exit handler is this launcher's
  expected,    \* expectedExits
  restartable, \* restartableChildren
  flow,        \* the calls under way
  due,         \* a start may be asked for: at boot, after a stop, or after one
               \* that was not answered "ready"
  stopped,     \* history: the last call answered was a stop, with "stopped"
  lost,        \* history: a daemon was forgotten (Forget, StaleGone, StopAdopts, StopFails)
  faulted      \* what has gone wrong

procVars == <<proc, accepting>>
callVars == <<due, stopped, lost>>
childVars == <<daemon, mine, expected, restartable>>
guardVars == <<stopping, monitor, timers>>
envVars == <<recognised, up>>
vars == <<procVars, native, file, childVars, tunnel, guardVars, flow, callVars,
          faulted, envVars>>

Flows == {"start", "stop", "daemon", "tunnel"}  \* the last two: recover(name)
Recoveries == {"daemon", "tunnel"}
Sync == {"begin", "enter", "branch", "spawn", "check", "cleaned", "threw", "ready",
         "undone", "none"}

NoFile == [status |-> "none", daemon |-> None, tunnel |-> FALSE, own |-> FALSE]

\* read: the ownership file as a stop has read it, before its probe.
Idle == [pc |-> "idle", mode |-> "run", child |-> None, fresh |-> FALSE, drained |-> FALSE,
         cut |-> FALSE, live |-> FALSE, err |-> FALSE, read |-> NoFile]

Init == /\ proc = [c \in Children |-> "none"] /\ accepting = FALSE
        /\ native = FALSE /\ recognised \in BOOLEAN /\ file = NoFile
        /\ up = TRUE /\ daemon = None /\ tunnel = FALSE /\ stopping = FALSE
        /\ monitor = FALSE /\ timers = {}
        /\ mine = {} /\ expected = {} /\ restartable = {}
        /\ flow = [f \in Flows |-> Idle] /\ due = TRUE /\ stopped = FALSE /\ lost = FALSE
        /\ faulted = {}

-----------------------------------------------------------------------------
Alive == {c \in Children : proc[c] # "none"}
Listening == {c \in Children : proc[c] = "up"}
Serving == {c \in Children : proc[c] \in {"starting", "up"}}
PortFree == \A c \in Children : proc[c] \notin {"up", "exiting"}

Recovered == \A n \in Recoveries : flow[n].pc = "idle"

\* A flow that must go on before anything else happens.
Rushing(f) == \/ flow[f].pc \in Sync
              \/ flow[f].pc = "kill" /\ flow[f].child \notin Alive
              \/ f = "start" /\ flow[f].pc = "await" /\ flow["stop"].pc = "idle"
              \/ f = "stop" /\ flow[f].pc = "await" /\ flow["start"].pc = "idle"
              \/ f = "stop" /\ flow[f].pc = "recoveries" /\ Recovered
Quiet == \A f \in Flows : ~Rushing(f)

At(f, pc) == up /\ flow[f].pc = pc /\ (Rushing(f) \/ Quiet)
Go(f, pc) == flow' = [flow EXCEPT ![f].pc = pc]
Leave(f)  == flow' = [flow EXCEPT ![f] = Idle]

Fault(kind) == /\ kind \notin faulted /\ Cardinality(faulted) < MaxFaults
               /\ faulted' = faulted \cup {kind}
NoFault == UNCHANGED faulted

\* proxyHealth(config, _, pid): a probe may time out.
Healthy(c) == c # None /\ recognised /\ proc[c] = "up"
Probe(seen, truth) == \/ seen = truth /\ NoFault
                      \/ ~seen /\ truth /\ Fault("probe")

Snapshot(status, d, t) == [status |-> status, daemon |-> d, tunnel |-> t, own |-> TRUE]

\* runtimeOwnershipMayBeLive
Running(state) == state.daemon \in Alive \/ (state.tunnel /\ native)
MayBeLive(state) == \/ Running(state)
                    \/ state.status \in {"starting", "ready", "degraded", "stopping"}

\* tryWriteState: a write that fails stops the supervision.
TryWriteState(status, d, t) ==
  \/ NoFault /\ file' = Snapshot(status, d, t) /\ UNCHANGED <<stopping, timers>>
  \/ Fault("write") /\ UNCHANGED file /\ stopping' = TRUE /\ timers' = {}

\* tryWriteState(status) and, when it succeeded, scheduleRecovery(name).  The
\* budget of restarts within the last 60 seconds may be used up; then a second
\* write records the failure.
ScheduleRecovery(name, status, d, t) ==
  \/ /\ NoFault /\ UNCHANGED stopping
     /\ \/ /\ ~stopping /\ name \notin timers
           /\ \/ file' = Snapshot("failed", d, t) /\ UNCHANGED timers
              \/ file' = Snapshot(status, d, t) /\ timers' = timers \cup {name}
        \/ /\ stopping \/ name \in timers
           /\ file' = Snapshot(status, d, t) /\ UNCHANGED timers
  \/ /\ Fault("write") /\ stopping' = TRUE /\ timers' = {}
     /\ \/ UNCHANGED file
        \/ ~stopping /\ name \notin timers /\ file' = Snapshot(status, d, t)

-----------------------------------------------------------------------------
\* The daemon process.

\* Mutant: an exit does not reset this.daemon.
WithoutKept(c) == daemon

Without(c) == IF daemon = c THEN None ELSE daemon

\* The exit of a child, as handleTerminal of spawnChild takes it.
HandleTerminal(c) ==
  LET d == Without(c)
      unexpected == ~stopping /\ c \notin expected
  IN /\ daemon' = d /\ mine' = mine \ {c}
     /\ expected' = expected \ {c} /\ restartable' = restartable \ {c}
     /\ IF unexpected /\ c \in restartable
        THEN ScheduleRecovery("daemon", "degraded", d, tunnel)
        ELSE TryWriteState(IF unexpected THEN "degraded" ELSE "stopping", d, tunnel)

\* A daemon exits because it was told to, because the port is taken, or
\* because it crashes.
Crashes(c) ==
  /\ Quiet /\ proc[c] \in {"starting", "up"} /\ Fault("crash")
  /\ proc' = [proc EXCEPT ![c] = "dying"] /\ accepting' = (accepting /\ proc[c] # "up")
  /\ UNCHANGED <<native, file, childVars, tunnel, guardVars, flow, callVars, envVars>>

Exits(c) ==
  /\ Quiet /\ (proc[c] \in {"exiting", "dying"} \/ (proc[c] = "starting" /\ ~PortFree))
  /\ proc' = [proc EXCEPT ![c] = "none"]
  /\ IF c \in mine THEN HandleTerminal(c)
                   ELSE UNCHANGED <<childVars, file, stopping, timers, faulted>>
  /\ UNCHANGED <<accepting, native, tunnel, monitor, flow, callVars, envVars>>

Listens(c) == /\ Quiet /\ proc[c] = "starting" /\ PortFree
              /\ proc' = [proc EXCEPT ![c] = "up"]
              /\ accepting' = TRUE
              /\ UNCHANGED <<native, file, childVars, tunnel, guardVars, flow, callVars,
                             faulted, envVars>>

\* The tunnel's runtime is no child of the launcher; nobody is told.
TunnelDies == /\ Quiet /\ native /\ Fault("crash")
              /\ native' = FALSE
              /\ UNCHANGED <<procVars, file, childVars, tunnel, guardVars, flow, callVars,
                             envVars>>

\* The monitor's interval, with its observations.
MonitorTick ==
  /\ up /\ Quiet /\ monitor /\ ~stopping /\ "tunnel" \notin timers
  /\ \/ /\ ~native /\ tunnel' = FALSE /\ monitor' = FALSE
        /\ ScheduleRecovery("tunnel", "degraded", daemon, FALSE)
     \/ /\ native /\ ~tunnel /\ tunnel' = TRUE
        /\ TryWriteState("ready", daemon, TRUE) /\ UNCHANGED monitor
  /\ UNCHANGED <<procVars, native, childVars, flow, callVars, envVars>>

-----------------------------------------------------------------------------
\* startTunnel, entered at "status"; a forced restart adopts nothing.

FailTunnel(f) == Go(f, "clean") /\ Fault("command")

TunnelStatus(f) ==
  /\ At(f, "status")
  /\ \/ /\ native /\ f # "tunnel" /\ NoFault
        /\ tunnel' = TRUE /\ Go(f, "verify")
     \/ /\ ~(native /\ f # "tunnel") /\ NoFault
        /\ tunnel' = FALSE /\ Go(f, "cut")
     \/ FailTunnel(f) /\ UNCHANGED tunnel
  /\ UNCHANGED <<procVars, native, file, childVars, guardVars, callVars, envVars>>

TunnelCut(f) ==
  /\ At(f, "cut")
  /\ \/ native' = FALSE /\ NoFault /\ Go(f, "connect")
     \/ FailTunnel(f) /\ UNCHANGED native
  /\ UNCHANGED <<procVars, file, childVars, tunnel, guardVars, callVars, envVars>>

\* runTunnelConnectCommand and waitForTunnel
TunnelConnect(f) ==
  /\ At(f, "connect")
  /\ \/ native' = TRUE /\ tunnel' = TRUE /\ NoFault /\ Go(f, "verify")
     \/ FailTunnel(f) /\ UNCHANGED <<native, tunnel>>
  /\ UNCHANGED <<procVars, file, childVars, guardVars, callVars, envVars>>

\* waitForTunnelMcpTransport; the monitor starts.
TunnelVerify(f) ==
  /\ At(f, "verify")
  /\ \/ /\ native /\ NoFault /\ monitor' = TRUE
        /\ Go(f, CASE f = "start" -> "spawn" [] f = "stop" -> "undone" [] OTHER -> "check")
     \/ ~native /\ NoFault /\ Go(f, "clean") /\ UNCHANGED monitor
     \/ native /\ FailTunnel(f) /\ UNCHANGED monitor
  /\ UNCHANGED <<procVars, native, file, childVars, tunnel, stopping, timers,
                 callVars, envVars>>

\* startTunnel's catch.
TunnelClean(f) ==
  /\ At(f, "clean") /\ monitor' = FALSE
  /\ \/ native' = FALSE /\ tunnel' = FALSE /\ NoFault
     \/ Fault("command") /\ UNCHANGED <<native, tunnel>>
  /\ flow' = [flow EXCEPT ![f].pc = IF f = "stop" THEN "undone" ELSE "threw", ![f].err = TRUE]
  /\ UNCHANGED <<procVars, file, childVars, stopping, timers, callVars, envVars>>

-----------------------------------------------------------------------------
\* startDaemon, entered at "spawn".

Throws(f) == flow' = [flow EXCEPT ![f].pc = IF f = "stop" THEN "undone" ELSE "threw",
                                  ![f].err = TRUE]

\* Names that nobody remembers can be used again.
Fresh == {c \in Children : /\ proc[c] = "none" /\ c \notin mine /\ file.daemon # c
                           /\ \A f \in Flows : flow[f].child # c}

\* stopChild: the process tree is told to end.
StopChild(f) ==
  IF daemon = None
  THEN Throws(f) /\ UNCHANGED <<procVars, expected>>
  ELSE /\ expected' = expected \cup {daemon}
       /\ proc' = [proc EXCEPT ![daemon] = "dying"]
       /\ accepting' = (accepting /\ proc[daemon] # "up")
       /\ flow' = [flow EXCEPT ![f].pc = "kill", ![f].child = daemon]

\* Mutant: the new child is not written to the ownership file.
RecordChildLater(c) == UNCHANGED file

\* spawnChild's writeState("starting")
RecordChild(c) == file' = Snapshot("starting", c, tunnel)

\* Mutant: a child that does not listen yet is not looked at.
HasChildUp == daemon # None /\ proc[daemon] = "up"

HasChild == daemon # None

SpawnDaemon(f) ==
  /\ At(f, "spawn") /\ ~HasChild /\ Fresh # {}
  /\ LET c == CHOOSE c \in Fresh : TRUE IN
     /\ daemon' = c /\ mine' = mine \cup {c}
     /\ \/ /\ NoFault /\ RecordChild(c) /\ UNCHANGED expected
           /\ proc' = [proc EXCEPT ![c] = "starting"]
           /\ flow' = [flow EXCEPT ![f].pc = "up", ![f].child = c, ![f].fresh = TRUE]
        \/ /\ Fault("write") /\ UNCHANGED file
           /\ proc' = [proc EXCEPT ![c] = "dying"] /\ expected' = expected \cup {c}
           /\ flow' = [flow EXCEPT ![f].pc = "kill", ![f].child = c]
  /\ UNCHANGED <<accepting, native, tunnel, restartable, guardVars, callVars, envVars>>

\* With a child, readiness is confirmed, or admission resumed.
ProbeDaemon(f) ==
  /\ At(f, "spawn") /\ HasChild
  /\ flow' = [flow EXCEPT ![f].pc = "probe", ![f].child = daemon, ![f].fresh = FALSE]
  /\ UNCHANGED <<procVars, native, file, childVars, tunnel, guardVars, callVars, faulted,
                 envVars>>

DaemonProbed(f) ==
  /\ At(f, "probe")
  /\ \E seen \in BOOLEAN : /\ Probe(seen, Healthy(flow[f].child))
                           /\ Go(f, IF seen /\ ~accepting THEN "resume" ELSE "up")
  /\ UNCHANGED <<procVars, native, file, childVars, tunnel, guardVars, callVars, envVars>>

DaemonResumed(f) ==
  /\ At(f, "resume")
  /\ \/ Listening # {} /\ NoFault /\ accepting' = TRUE /\ Go(f, "up")
     \/ (IF Listening # {} THEN Fault("resume") ELSE NoFault) /\ Throws(f) /\ UNCHANGED accepting
  /\ UNCHANGED <<proc, native, file, childVars, tunnel, guardVars, callVars, envVars>>

\* waitForProxy: this.daemon is read again at each round.
Ready == Healthy(daemon) /\ accepting
TimesOut == IF daemon # None /\ proc[daemon] = "up" /\ ~Ready THEN NoFault ELSE Fault("probe")

\* Mutant: a daemon that is ready is not marked.
MarkedNot == restartable

Marked == restartable \cup {daemon}

DaemonUp(f) ==
  /\ At(f, "up")
  /\ \/ /\ Ready /\ NoFault /\ daemon = flow[f].child
        /\ restartable' = Marked
        /\ IF f \in Recoveries
           THEN flow' = [flow EXCEPT ![f] = [Idle EXCEPT !.pc = "check"]]
           ELSE Go(f, IF f = "start" THEN "ready" ELSE "undone")
        /\ UNCHANGED <<procVars, expected>>
     \/ /\ \/ Ready /\ NoFault /\ daemon # flow[f].child
           \/ daemon = None /\ NoFault
           \/ daemon # None /\ TimesOut
        /\ UNCHANGED restartable
        /\ IF flow[f].fresh THEN StopChild(f)
                            ELSE Throws(f) /\ UNCHANGED <<procVars, expected>>
  /\ UNCHANGED <<native, file, daemon, mine, tunnel, guardVars, callVars, envVars>>

\* this.daemon is reset, whichever child it names by now.
Forget(c) == daemon' = None /\ lost' = (lost \/ daemon \notin {c, None})

\* The child that stopChild ended has exited.
ChildKilled(f) ==
  /\ At(f, "kill") /\ flow[f].child \notin Alive
  /\ Forget(flow[f].child)
  /\ IF flow[f].mode = "clean" THEN Go(f, "cleaned") ELSE Throws(f)
  /\ UNCHANGED <<procVars, native, file, mine, expected, restartable, tunnel, guardVars,
                 due, stopped, faulted, envVars>>

-----------------------------------------------------------------------------
\* Draining and shutting down a daemon, for stop, for the clean-up after a
\* failure, and for a stale daemon.

\* Where a drained flow goes on.
Drained(f) == CASE flow[f].mode = "run" /\ tunnel -> "sever" [] OTHER -> "shutdown"

\* The compensating resume of acquireDrain.
DrainRefused == \/ accepting' = (Listening # {}) /\ NoFault
                \/ Listening # {} /\ accepting' = FALSE /\ Fault("resume")

\* acquireDrain: admission is closed at every poll, until the turns in flight
\* have ended or the deadline has passed.
DrainPolls(f) == /\ At(f, "drain") /\ Listening # {} /\ accepting
                 /\ accepting' = FALSE
                 /\ UNCHANGED <<proc, native, file, childVars, tunnel, guardVars,
                                flow, callVars, faulted, envVars>>
DrainIdle(f) ==
  /\ At(f, "drain") /\ Listening # {} /\ accepting' = FALSE
  /\ flow' = [flow EXCEPT ![f].pc = Drained(f), ![f].drained = TRUE]
  /\ UNCHANGED <<proc, native, file, childVars, tunnel, guardVars, callVars, faulted,
                 envVars>>
DrainFails(f) ==
  /\ At(f, "drain") /\ (Listening = {} \/ ~accepting)
  /\ DrainRefused /\ Go(f, "threw")
  /\ UNCHANGED <<proc, native, file, childVars, tunnel, guardVars, callVars, envVars>>

\* A daemon that stays although it is drained is resumed: by stop's own
\* compensation, or at once.
Refused(f) == IF flow[f].mode = "run" THEN "threw" ELSE "giveback"

GiveBack(f) ==
  /\ At(f, "giveback") /\ DrainRefused /\ Go(f, "threw")
  /\ UNCHANGED <<proc, native, file, childVars, tunnel, guardVars, callVars, envVars>>

\* /admin/shutdown is refused unless the daemon drains and is idle.
Shutdown(f) ==
  /\ At(f, "shutdown")
  /\ \/ /\ daemon = None /\ flow[f].mode # "stale" /\ NoFault
        /\ Go(f, IF flow[f].mode = "clean" THEN "cleaned" ELSE "ready")
        /\ UNCHANGED proc
     \/ /\ daemon # None \/ flow[f].mode = "stale"
        /\ \/ \E c \in Listening :
                /\ ~accepting /\ NoFault
                /\ proc' = [proc EXCEPT ![c] = "exiting"]
                /\ flow' = [flow EXCEPT ![f].pc = "exit",
                     ![f].child = IF flow[f].mode = "stale" THEN @ ELSE daemon]
           \/ /\ IF Listening = {} \/ accepting THEN NoFault ELSE Fault("command")
              /\ Go(f, Refused(f)) /\ UNCHANGED proc
  /\ UNCHANGED <<accepting, native, file, childVars, tunnel, guardVars, callVars,
                 envVars>>

\* Mutant: the wait has no deadline.
WaitNeverExpires == FALSE

\* A wait for the port passes its deadline while another daemon holds it.
WaitExpires == IF Listening # {} THEN NoFault ELSE Fault("command")

\* The process has ended and the port is free.
ShutDown(f) ==
  /\ At(f, "exit")
  /\ \/ /\ flow[f].child \notin Alive /\ PortFree /\ NoFault
        /\ IF flow[f].mode = "stale" THEN UNCHANGED <<daemon, lost>> ELSE Forget(flow[f].child)
        /\ Go(f, CASE flow[f].mode = "stale" -> IF flow[f].live THEN "sever" ELSE "cleaned"
                   [] flow[f].mode = "clean" -> "cleaned"
                   [] OTHER -> "ready")
     \/ /\ WaitExpires /\ Go(f, Refused(f)) /\ UNCHANGED <<daemon, lost>>
  /\ UNCHANGED <<procVars, native, file, mine, expected, restartable, tunnel, guardVars,
                 due, stopped, envVars>>

\* stopTunnelGracefully, or the stop command alone for a stale tunnel.
Sever(f) ==
  /\ At(f, "sever")
  /\ \/ /\ native' = FALSE /\ NoFault
        /\ IF flow[f].mode = "stale" THEN UNCHANGED <<tunnel, monitor>>
                                     ELSE tunnel' = FALSE /\ monitor' = FALSE
        /\ flow' = [flow EXCEPT ![f].cut = TRUE,
             ![f].pc = CASE flow[f].mode = "run" -> IF daemon = None THEN "ready"
                                                 ELSE IF flow[f].drained THEN "shutdown" ELSE "threw"
                         [] flow[f].mode = "clean" -> "none"
                         [] OTHER -> "cleaned"]
     \/ /\ Fault("command") /\ UNCHANGED <<native, tunnel>>
        /\ monitor' = (monitor \/ flow[f].mode # "stale") /\ Go(f, "threw")
  /\ UNCHANGED <<procVars, file, childVars, stopping, timers, callVars, envVars>>

-----------------------------------------------------------------------------
\* stopStaleOwnedRuntime: what the ownership file names is identified, drained,
\* shut down and severed, or left alone.

StaleHealth(f) ==
  /\ At(f, "stale")
  /\ \E seen \in BOOLEAN :
       LET c == CHOOSE c \in Listening : TRUE
           fits == IF seen THEN c = file.daemon ELSE file.daemon \notin Alive
       IN /\ Probe(seen, recognised /\ Listening # {})
          /\ flow' = [flow EXCEPT ![f].pc = IF fits THEN "staletunnel" ELSE "threw",
                                  ![f].child = IF seen THEN c ELSE None]
  /\ UNCHANGED <<procVars, native, file, childVars, tunnel, guardVars, callVars, envVars>>

StaleTunnel(f) ==
  /\ At(f, "staletunnel")
  /\ \/ /\ NoFault
        /\ flow' = [flow EXCEPT ![f].live = native,
             ![f].pc = IF flow[f].child # None THEN "drain"
                       ELSE IF native THEN "sever" ELSE "cleaned"]
     \/ Fault("command") /\ Go(f, "threw")
  /\ UNCHANGED <<procVars, native, file, childVars, tunnel, guardVars, callVars, envVars>>

StaleGone(f) ==
  /\ At(f, "cleaned") /\ flow[f].mode = "stale"
  /\ file' = NoFile /\ lost' = (lost \/ daemon # None)
  /\ flow' = [flow EXCEPT ![f] = [Idle EXCEPT !.pc = IF f = "start" THEN "begin" ELSE "ready"]]
  /\ UNCHANGED <<procVars, native, childVars, tunnel, guardVars, due, stopped, faulted, envVars>>

-----------------------------------------------------------------------------
\* cleanupFailedStart, for a start or a recovery that failed.

CleanDaemon(f) ==
  /\ At(f, "cleanup")
  /\ \/ /\ daemon = None /\ NoFault /\ Go(f, "cleaned")
        /\ UNCHANGED <<procVars, expected>>
     \/ /\ daemon # None
        /\ \E seen \in BOOLEAN :
             /\ Probe(seen, Healthy(daemon))
             /\ IF seen THEN Go(f, "drain") /\ UNCHANGED <<procVars, expected>>
                        ELSE StopChild(f)
  /\ UNCHANGED <<native, file, daemon, mine, restartable, tunnel, guardVars, callVars,
                 envVars>>

CleanTunnel(f) ==
  /\ At(f, "cleaned") /\ flow[f].mode = "clean"
  /\ Go(f, IF tunnel THEN "sever" ELSE "none")
  /\ UNCHANGED <<procVars, native, file, childVars, tunnel, guardVars, callVars, faulted,
                 envVars>>

-----------------------------------------------------------------------------
\* startIfConfigured, startConfigured.

StartCall ==
  /\ up /\ Quiet /\ flow["start"].pc = "idle" /\ due /\ due' = FALSE
  /\ Go("start", IF flow["stop"].pc = "idle" THEN "enter" ELSE "await")
  /\ UNCHANGED <<lost, procVars, native, file, childVars, tunnel, guardVars, stopped, faulted,
                 envVars>>

StartEnters ==
  /\ \/ At("start", "enter")
     \/ At("start", "await") /\ flow["stop"].pc = "idle"
  /\ Go("start", IF daemon = None /\ ~tunnel THEN "look" ELSE "begin")
  /\ stopped' = FALSE
  /\ UNCHANGED <<lost, due, procVars, native, file, childVars, tunnel, guardVars, faulted, envVars>>

\* writeExternalState keeps the record of owners that live.
ExternalState == IF file # NoFile /\ (file.own \/ Running(file)) THEN UNCHANGED file
                 ELSE file' = Snapshot("external", daemon, tunnel)

\* The start is answered "external".
External == ExternalState /\ Leave("start") /\ due' = TRUE

StartLooks ==
  /\ At("start", "look")
  /\ \E seen \in BOOLEAN :
       /\ Probe(seen, recognised /\ Listening # {})
       /\ IF ~(seen \/ MayBeLive(file)) THEN Go("start", "begin") /\ UNCHANGED <<file, due>>
          ELSE IF file = NoFile THEN External
          ELSE /\ flow' = [flow EXCEPT !["start"].pc = "stale", !["start"].mode = "stale"]
               /\ UNCHANGED <<file, due>>
  /\ UNCHANGED <<procVars, native, childVars, tunnel, guardVars, lost, stopped, envVars>>

StartBegins ==
  /\ At("start", "begin")
  /\ stopping' = FALSE /\ Go("start", "status")
  /\ UNCHANGED <<procVars, native, file, childVars, tunnel, monitor, timers,
                 callVars, faulted, envVars>>

StartReady ==
  /\ At("start", "ready")
  /\ \/ NoFault /\ file' = Snapshot("ready", daemon, tunnel) /\ Leave("start")
     \/ Fault("write") /\ UNCHANGED file /\ Go("start", "threw")
  /\ UNCHANGED <<procVars, native, childVars, tunnel, stopping, monitor, timers, callVars,
                 envVars>>

StartThrew ==
  /\ At("start", "threw")
  /\ CASE flow["start"].mode = "run" ->
            /\ stopping' = TRUE /\ UNCHANGED <<file, due>>
            /\ flow' = [flow EXCEPT !["start"] = [Idle EXCEPT !.pc = "cleanup",
                                                              !.mode = "clean"]]
       [] flow["start"].mode = "clean" ->
            Go("start", "none") /\ UNCHANGED <<stopping, file, due>>
       [] OTHER -> External /\ UNCHANGED stopping
  /\ UNCHANGED <<procVars, native, childVars, tunnel, monitor, timers, lost, stopped,
                 faulted, envVars>>

StartFailed ==
  /\ At("start", "none") /\ Leave("start") /\ due' = TRUE
  /\ \/ NoFault /\ stopping' = FALSE /\ UNCHANGED timers
        /\ file' = Snapshot("failed", daemon, tunnel)
     \/ Fault("write") /\ stopping' = TRUE /\ timers' = {} /\ UNCHANGED file
  /\ UNCHANGED <<procVars, native, childVars, tunnel, monitor, lost, stopped, envVars>>

-----------------------------------------------------------------------------
\* stopForSetup, performStopForSetup.

StopCall ==
  /\ up /\ Quiet /\ flow["stop"].pc = "idle"
  /\ Go("stop", IF flow["start"].pc = "idle" THEN "enter" ELSE "await")
  /\ stopped' = FALSE
  /\ UNCHANGED <<lost, due, procVars, native, file, childVars, tunnel, guardVars, faulted, envVars>>

\* Mutant: the restarts that are due are left to their timers.
DisarmedNot == timers

Disarmed == {}

StopEnters ==
  /\ \/ At("stop", "enter")
     \/ At("stop", "await") /\ flow["start"].pc = "idle"
  /\ stopping' = TRUE /\ monitor' = FALSE /\ timers' = Disarmed
  /\ Go("stop", "recoveries")
  /\ UNCHANGED <<procVars, native, file, childVars, tunnel, callVars, faulted,
                 envVars>>

\* Recoveries under way have ended; the ownership file is read.
StopReads ==
  /\ At("stop", "recoveries") /\ Recovered
  /\ flow' = [flow EXCEPT !["stop"].pc = "asked", !["stop"].read = file]
  /\ UNCHANGED <<procVars, native, file, childVars, tunnel, guardVars, callVars, faulted,
                 envVars>>

\* The probe has answered.
StopLooks ==
  /\ At("stop", "asked")
  /\ \E seen \in BOOLEAN :
       /\ Probe(seen, recognised /\ Listening # {})
       /\ LET read == flow["stop"].read
              live == seen \/ MayBeLive(read)
          IN flow' = [flow EXCEPT !["stop"].live = live, !["stop"].read = NoFile,
               !["stop"].pc = IF ~tunnel /\ (live \/ read = NoFile) THEN "adopt" ELSE "branch"]
  /\ UNCHANGED <<procVars, native, file, childVars, tunnel, guardVars, callVars, envVars>>

StopAdopts ==
  /\ At("stop", "adopt")
  /\ \/ /\ NoFault /\ tunnel' = (tunnel \/ native) /\ Go("stop", "branch")
        /\ lost' = (lost \/ (native /\ daemon = None /\ Serving # {}))
     \/ Fault("command") /\ Go("stop", "threw") /\ UNCHANGED <<tunnel, lost>>
  /\ UNCHANGED <<procVars, native, file, childVars, guardVars, due, stopped, envVars>>

StopBranches ==
  /\ At("stop", "branch")
  /\ IF daemon # None THEN Go("stop", "health")
     ELSE IF tunnel THEN Go("stop", "sever")
     ELSE IF ~flow["stop"].live THEN Go("stop", "ready")
     ELSE IF file = NoFile THEN Go("stop", "threw")
     ELSE flow' = [flow EXCEPT !["stop"].pc = "stale", !["stop"].mode = "stale"]
  /\ UNCHANGED <<procVars, native, file, childVars, tunnel, guardVars, callVars, faulted,
                 envVars>>

StopIdentifies ==
  /\ At("stop", "health")
  /\ \E seen \in BOOLEAN : /\ Probe(seen, Healthy(daemon))
                           /\ Go("stop", IF seen THEN "drain" ELSE "threw")
  /\ UNCHANGED <<procVars, native, file, childVars, tunnel, guardVars, callVars, envVars>>

StopDone ==
  /\ At("stop", "ready")
  /\ file' = NoFile /\ due' = TRUE /\ stopped' = TRUE /\ stopping' = FALSE /\ Leave("stop")
  /\ UNCHANGED <<lost, procVars, native, childVars, tunnel, monitor, timers, faulted,
                 envVars>>

\* The compensation: the tunnel that was severed is started again, then the
\* daemon that was drained is resumed or replaced.
StopThrew ==
  /\ At("stop", "threw")
  /\ flow' = [flow EXCEPT !["stop"] = [Idle EXCEPT !.pc = "undone", !.mode = "undo",
       !.cut = @ \/ (flow["stop"].mode = "run" /\ flow["stop"].cut),
       !.drained = @ \/ (flow["stop"].mode = "run" /\ flow["stop"].drained)]]
  /\ UNCHANGED <<procVars, native, file, childVars, tunnel, guardVars, callVars, faulted,
                 envVars>>

\* Mutant: the daemon is not given back.
UndoneTunnelOnly(r) ==
  IF r.cut /\ ~tunnel THEN [r EXCEPT !.pc = "status", !.cut = FALSE]
  ELSE [r EXCEPT !.pc = "verdict"]

Undone(r) ==
  IF r.cut /\ ~tunnel THEN [r EXCEPT !.pc = "status", !.cut = FALSE]
  ELSE IF r.drained THEN [r EXCEPT !.pc = "restore", !.cut = FALSE, !.drained = FALSE]
  ELSE [r EXCEPT !.pc = "verdict"]

StopUndoes ==
  /\ At("stop", "undone")
  /\ flow' = [flow EXCEPT !["stop"] = Undone(@)]
  /\ UNCHANGED <<procVars, native, file, childVars, tunnel, guardVars, callVars, faulted,
                 envVars>>

\* restoreDrainedDaemon
StopRestores ==
  /\ At("stop", "restore")
  /\ \/ daemon = None /\ NoFault /\ Go("stop", "port")
     \/ /\ daemon # None
        /\ \E seen \in BOOLEAN :
             /\ Probe(seen, Healthy(daemon))
             /\ flow' = [flow EXCEPT !["stop"].pc = IF seen THEN "resume" ELSE "undone",
                                     !["stop"].child = daemon, !["stop"].fresh = FALSE,
                                     !["stop"].err = @ \/ ~seen]
  /\ UNCHANGED <<procVars, native, file, childVars, tunnel, guardVars, callVars, envVars>>

StopAwaitsPort ==
  /\ At("stop", "port")
  /\ \/ PortFree /\ NoFault /\ Go("stop", "spawn")
     \/ ~PortFree /\ WaitExpires /\ Throws("stop")
  /\ UNCHANGED <<procVars, native, file, childVars, tunnel, guardVars, callVars, envVars>>

\* The stop throws, and a start that awaits it throws with it.
StopFails ==
  /\ At("stop", "verdict") /\ stopping' = FALSE /\ due' = TRUE
  /\ flow' = [flow EXCEPT !["stop"] = Idle,
                          !["start"] = IF @.pc = "await" THEN Idle ELSE @]
  /\ lost' = (lost \/ (daemon = None /\ Serving # {}))
  /\ \/ /\ NoFault /\ UNCHANGED timers
        /\ file' = Snapshot(IF ~flow["stop"].err /\ Ready /\ tunnel /\ native
                            THEN "ready" ELSE "failed", daemon, tunnel)
     \/ Fault("write") /\ timers' = {} /\ UNCHANGED file
  /\ UNCHANGED <<procVars, native, childVars, tunnel, monitor, stopped, envVars>>

-----------------------------------------------------------------------------
\* The timer of scheduleRecovery; a timer that fires during a stop is lost.
\* (One that fires while the component's last recovery still ends waits here.)
TimerFires(n) ==
  /\ up /\ Quiet /\ n \in timers /\ flow[n].pc = "idle"
  /\ timers' = timers \ {n}
  /\ IF stopping THEN UNCHANGED flow
     ELSE Go(n, IF n = "tunnel" THEN "status" ELSE "spawn")
  /\ UNCHANGED <<procVars, native, file, childVars, tunnel, stopping, monitor,
                 callVars, faulted, envVars>>

\* The rest of recover(): both components are looked at again.
RecoveryChecks(n) ==
  /\ At(n, "check")
  /\ IF daemon = None \/ ~tunnel THEN Throws(n) ELSE Go(n, "proxy")
  /\ UNCHANGED <<procVars, native, file, childVars, tunnel, guardVars, callVars, faulted,
                 envVars>>

RecoveryProxy(n) ==
  /\ At(n, "proxy")
  /\ \/ Ready /\ NoFault /\ Go(n, "settle")
     \/ daemon = None /\ NoFault /\ Throws(n)
     \/ daemon # None /\ TimesOut /\ Throws(n)
  /\ UNCHANGED <<procVars, native, file, childVars, tunnel, guardVars, callVars, envVars>>

RecoverySettles(n) ==
  /\ At(n, "settle")
  /\ \/ ~native /\ NoFault /\ Throws(n) /\ UNCHANGED <<tunnel, file, stopping, timers>>
     \/ /\ native /\ tunnel' = TRUE /\ TryWriteState("ready", daemon, TRUE)
        /\ IF faulted' = faulted THEN Leave(n)
           ELSE flow' = [flow EXCEPT ![n] = [Idle EXCEPT !.pc = "cleanup", !.mode = "clean"]]
  /\ UNCHANGED <<procVars, native, childVars, monitor, callVars, envVars>>

\* The catch of the timer's call: tried again, within the budget.
RecoveryFails(n) ==
  /\ At(n, "threw") \/ At(n, "none")
  /\ Leave(n)
  /\ ScheduleRecovery(n, "failed", daemon, tunnel)
  /\ UNCHANGED <<procVars, native, childVars, tunnel, monitor, callVars, envVars>>

-----------------------------------------------------------------------------
LauncherDies ==
  /\ up /\ Quiet /\ Fault("launcher") /\ up' = FALSE
  /\ file' = [file EXCEPT !.own = FALSE]
  /\ daemon' = None /\ tunnel' = FALSE /\ stopping' = FALSE /\ monitor' = FALSE
  /\ timers' = {}
  /\ mine' = {} /\ expected' = {} /\ restartable' = {}
  /\ flow' = [f \in Flows |-> Idle] /\ due' = TRUE /\ stopped' = FALSE
  /\ UNCHANGED <<lost, procVars, native, recognised>>

LauncherStarts == /\ ~up /\ up' = TRUE
                  /\ UNCHANGED <<procVars, native, file, childVars, tunnel, guardVars, flow,
                                 callVars, faulted, recognised>>

-----------------------------------------------------------------------------
TunnelStep(f) == TunnelStatus(f) \/ TunnelCut(f) \/ TunnelConnect(f) \/ TunnelVerify(f)
                 \/ TunnelClean(f)
DaemonStep(f) == SpawnDaemon(f) \/ ProbeDaemon(f) \/ DaemonProbed(f) \/ DaemonResumed(f)
                 \/ DaemonUp(f) \/ ChildKilled(f)
EndStep(f)    == DrainIdle(f) \/ DrainFails(f) \/ GiveBack(f)
                 \/ Shutdown(f) \/ ShutDown(f) \/ Sever(f)
StaleStep(f)  == StaleHealth(f) \/ StaleTunnel(f) \/ StaleGone(f)
CleanStep(f)  == CleanDaemon(f) \/ CleanTunnel(f)
Common(f)     == TunnelStep(f) \/ DaemonStep(f) \/ EndStep(f)

StartStep == \/ Common("start") \/ StaleStep("start") \/ CleanStep("start")
             \/ StartEnters \/ StartLooks \/ StartBegins \/ StartReady \/ StartThrew
             \/ StartFailed
StopStep  == \/ Common("stop") \/ StaleStep("stop")
             \/ StopEnters \/ StopReads \/ StopLooks \/ StopAdopts \/ StopBranches \/ StopIdentifies
             \/ StopDone \/ StopThrew \/ StopUndoes \/ StopRestores \/ StopAwaitsPort
             \/ StopFails
RecoverStep(n) == \/ Common(n) \/ CleanStep(n)
                  \/ TimerFires(n) \/ RecoveryChecks(n) \/ RecoveryProxy(n)
                  \/ RecoverySettles(n) \/ RecoveryFails(n)

Launcher == \/ StartCall \/ StopCall \/ MonitorTick \/ LauncherDies \/ LauncherStarts
            \/ \E f \in Flows : DrainPolls(f)
            \/ StartStep \/ StopStep \/ \E n \in Recoveries : RecoverStep(n)
Machine  == TunnelDies \/ \E c \in Children : Crashes(c) \/ Exits(c) \/ Listens(c)

Next == Launcher \/ Machine

Spec == Init /\ [][Next]_vars

\* Awaited commands have timeouts, timers fire, and processes that were told to
\* end or have just begun do so.  Strong fairness, because Quiet holds a step
\* back while another flow rushes.
FairSpec == /\ Spec
            /\ SF_vars(StartStep) /\ SF_vars(StopStep)
            /\ \A n \in Recoveries : SF_vars(RecoverStep(n))
            /\ SF_vars(\E c \in Children : Exits(c) \/ Listens(c))

-----------------------------------------------------------------------------
Places == {"idle", "await", "enter", "look", "begin", "status", "cut", "connect",
           "verify", "clean", "spawn", "probe", "resume", "up", "kill", "drain", "sever",
           "shutdown", "exit", "giveback", "stale", "staletunnel", "cleanup", "cleaned",
           "none", "ready", "threw", "recoveries", "asked", "adopt", "branch", "health", "undone",
           "restore", "port", "verdict", "check", "proxy", "settle"}

Record == [status : {"none", "starting", "stopping", "degraded", "ready", "failed",
                     "external"},
           daemon : Children \cup {None}, tunnel : BOOLEAN, own : BOOLEAN]

Call == [pc : Places, mode : {"run", "clean", "stale", "undo"},
         child : Children \cup {None}, fresh : BOOLEAN, drained : BOOLEAN, cut : BOOLEAN,
         live : BOOLEAN, err : BOOLEAN, read : Record]

TypeOK ==
  /\ proc \in [Children -> {"none", "starting", "up", "exiting", "dying"}]
  /\ Cardinality(Listening) <= 1
  /\ flow \in [Flows -> Call] /\ file \in Record
  /\ daemon \in mine \cup {None} /\ expected \subseteq mine /\ restartable \subseteq mine
  /\ timers \subseteq Recoveries

\* A daemon that nobody has told to end is the one the launcher holds: no call
\* forgets a child that another call has spawned meanwhile.  (Supervision ends
\* with a write of the ownership file that fails; see the README for the race
\* this leaves.)
DaemonHeld == up /\ "write" \notin faulted => \A c \in mine \cap Serving : c = daemon

\* The ownership file names every daemon that serves, so that the next launcher
\* finds it whenever this one dies.
OwnershipRecorded == ~lost => \A c \in Serving : file.daemon = c

\* After a stop was answered "stopped" nothing runs until the next call, and
\* nothing is about to.  (A tunnel whose launcher died during the start is in no
\* record.  When a write of the ownership file has failed, a recovery may leave
\* the tunnel's monitor to the stop, and the monitor schedules another one.)
StoppedStaysStopped ==
  stopped /\ ~lost =>
    /\ Serving = {}
    /\ "write" \notin faulted => timers = {} /\ (native => "launcher" \in faulted)

\* A daemon that was drained for a stop that failed admits turns again once no
\* call is under way, unless the resume or the probe before it failed.
DrainReleased ==
  /\ up /\ (\A f \in Flows : flow[f].pc = "idle") /\ faulted \cap {"resume", "probe"} = {} /\ ~lost
  => \A c \in mine \cap Listening : accepting

\* What follows a forgotten daemon is not explored (CONSTRAINT).
NoneLost == ~lost

\* A runtime that is not whole is restored, or its failure is recorded.
Transient == {"starting", "stopping", "degraded"}
DegradedResolves ==
  file.status \in Transient ~>
    (file.status \notin Transient \/ faulted \cap {"write", "launcher"} # {})

\* Every start and every stop is answered, also one that awaits the other or a
\* recovery.
CallsAnswered == \A f \in {"start", "stop"} : flow[f].pc # "idle" ~> flow[f].pc = "idle"

\* "A requested stop ... first calls a private authenticated drain endpoint ...
\* asks the daemon to flush state and exit" (docs/architecture.md:211-223): a
\* stop is answered "stopped" only when no daemon serves, whoever began it.
StopLeavesNoDaemon == stopped => Serving = {}
=============================================================================
