---------------------- MODULE RuntimeSupervisorProofs ----------------------
(***************************************************************************)
(* The supervisor holds every daemon it has spawned, its ownership file    *)
(* names every daemon that serves, a drained daemon is given back, and a   *)
(* stop that is answered leaves none serving, nor anything that brings one *)
(* back: for any number of daemon names and of faults.                     *)
(*                                                                         *)
(* The invariant looks at little of a step.  So the 54 actions are first   *)
(* described by their effects (Moves), and each part of the invariant is   *)
(* then shown to survive each effect.                                      *)
(***************************************************************************)
EXTENDS RuntimeSupervisor, FiniteSetTheorems, TLAPS

-----------------------------------------------------------------------------
(* The inductive invariant.                                                *)

CallsTyped == flow \in [Flows -> Call]
FileTyped  == file \in Record
KidsTyped  ==
  /\ proc \in [Children -> {"none", "starting", "up", "exiting", "dying"}]
  /\ daemon \in Children \cup {None}
  /\ mine \in SUBSET Children /\ expected \in SUBSET mine /\ restartable \in SUBSET mine
  /\ daemon # None => daemon \in mine
  /\ timers \in SUBSET Recoveries
Flags == native \in BOOLEAN /\ tunnel \in BOOLEAN

Shapes == CallsTyped /\ FileTyped /\ KidsTyped /\ Flags

\* Only one daemon has the port.
OnePort == \A c, d \in Children : proc[c] = "up" /\ proc[d] = "up" => c = d

\* A launcher that is not there has no calls and holds nothing.
Down ==
  ~up => /\ mine = {} /\ daemon = None /\ ~tunnel /\ ~monitor /\ ~stopping /\ timers = {}
         /\ \A f \in Flows : flow[f] = Idle

\* Where a call of each kind can be.
Starting == {"status", "cut", "connect", "verify", "clean", "spawn", "probe", "resume",
             "up", "kill"}
Ending   == {"drain", "shutdown", "giveback", "exit", "sever"}

PlacesOf(f, mode) ==
  CASE mode = "clean" -> Ending \cup {"cleanup", "kill", "cleaned", "none", "threw"}
    [] mode = "stale" -> Ending \cup {"stale", "staletunnel", "cleaned", "threw"}
    [] mode = "undo" -> Starting \cup {"undone", "restore", "port", "verdict"}
    [] mode = "run" /\ f = "start" ->
         Starting \cup {"idle", "await", "enter", "look", "begin", "ready", "threw"}
    [] mode = "run" /\ f = "stop" ->
         (Ending \ {"giveback"}) \cup {"idle", "await", "enter", "recoveries", "asked",
                                       "adopt", "branch", "health", "ready", "threw"}
    [] mode = "run" /\ f \in Recoveries ->
         Starting \cup {"idle", "check", "proxy", "settle", "threw"}

ModesOf(f) == CASE f = "start" -> {"run", "clean", "stale"}
                [] f = "stop"  -> {"run", "stale", "undo"}
                [] f \in Recoveries -> {"run", "clean"}

Placed == \A f \in Flows :
  /\ flow[f].mode \in ModesOf(f) /\ flow[f].pc \in PlacesOf(f, flow[f].mode)
  /\ flow[f].pc = "idle" => flow[f] = Idle

\* A stop that has not acted yet has severed and drained nothing, and one that
\* gives its verdict has given back what it drained.
Entering ==
  /\ flow["stop"].mode = "run" /\ flow["stop"].pc \in {"await", "enter", "recoveries", "asked",
                                                       "adopt", "branch", "health"}
       => ~flow["stop"].cut /\ ~flow["stop"].drained
  /\ flow["stop"].pc = "verdict" => ~flow["stop"].drained

\* Start and stop wait for each other.
Alone ==
  /\ flow["start"].pc \in {"idle", "await"} \/ flow["stop"].pc \in {"idle", "await"}
  /\ flow["start"].pc # "await" \/ flow["stop"].pc # "await"

\* A stop, and the clean-up of a start, keep recoveries from beginning; a
\* recovery is cleaned up only after a write of the ownership file failed.
Stops ==
  /\ flow["stop"].pc \notin {"idle", "await", "enter"} => stopping /\ timers = {}
  /\ flow["stop"].pc \notin {"idle", "await", "enter", "recoveries"}
       => \A n \in Recoveries : flow[n].pc = "idle"
  /\ flow["start"].mode = "clean" => stopping
  /\ \A n \in Recoveries : flow[n].mode = "clean" => "write" \in faulted

\* Nothing comes between the check for a child and the spawn of one.
SpawnAlone ==
  \A f \in Flows : flow[f].pc = "spawn" => /\ \A g \in Flows \ {f} : ~Rushing(g)
                                           /\ f \in Recoveries => ~stopping

\* A drain for stop is one of a daemon whose /healthz is recognised.
Known == (LET s == flow["stop"] IN
          \/ s.mode = "run" /\ (s.pc = "drain" \/ s.drained)
          \/ s.mode = "undo" /\ (s.drained \/ s.pc = "restore")) => recognised

Order == Entering /\ Alone /\ Stops /\ SpawnAlone /\ Known

\* Until a write of the file has failed or a daemon was forgotten.
Hold == ~lost \/ "write" \notin faulted

\* The child that a call ends is the one that is held, until it has exited.
Kills == Hold => \A f \in Flows : flow[f].pc = "kill" =>
           daemon = (IF flow[f].child \in Alive THEN flow[f].child ELSE None)

Exiting == "write" \notin faulted => \A f \in Flows :
             flow[f].pc = "exit" /\ flow[f].mode # "stale" => daemon \in {flow[f].child, None}

Held == up /\ Hold => \A c \in mine \cap Serving : c = daemon

ReadyGone == ~lost /\ flow["stop"].pc = "ready" => daemon = None

Holding == Kills /\ Exiting /\ Held /\ ReadyGone

\* Daemons of a launcher that is gone.  While one serves, this launcher has
\* nothing of its own, and only a start or a stop that takes it over goes on.
Orphans == Serving \ mine

Recorded == ~lost => \A c \in Serving : file.daemon = c

Inherited ==
  up /\ ~lost /\ Orphans # {} =>
    /\ mine = {} /\ ~tunnel /\ ~monitor /\ timers = {}
    /\ \A n \in Recoveries : flow[n].pc = "idle"
    /\ flow["start"].mode = "stale" \/ flow["start"].pc \in {"idle", "await", "enter", "look"}
    /\ \/ flow["stop"].mode = "stale"
       \/ flow["stop"].pc \in {"idle", "await", "enter", "recoveries"}
       \/ flow["stop"].pc = "asked" /\ \A c \in Orphans : flow["stop"].read.daemon = c
       \/ flow["stop"].pc \in {"adopt", "branch"} /\ flow["stop"].live
       \/ /\ flow["stop"].pc \in {"threw", "undone", "verdict"}
          /\ ~flow["stop"].cut /\ ~flow["stop"].drained

TakesOver ==
  up /\ ~lost => \A f \in Flows : flow[f].mode = "stale" =>
    /\ flow[f].pc \in {"staletunnel", "drain", "shutdown", "giveback"} =>
         \A c \in Orphans : c = flow[f].child /\ proc[c] = "up"
    /\ flow[f].pc \in {"exit", "sever", "cleaned"} => Orphans = {}

Owning == Recorded /\ Inherited /\ TakesOver

\* Calls that owe the daemon its admission.
Drains(f) ==
  LET s == flow[f] IN
  \/ s.mode \in {"clean", "stale"} /\ s.pc \in {"drain", "shutdown", "giveback"}
  \/ f = "stop" /\ s.mode = "run" /\ (s.pc = "drain" \/ s.drained)
  \/ f = "stop" /\ s.mode = "undo" /\ (s.drained \/ s.pc \in {"restore", "resume"})

Released ==
  up /\ ~lost /\ faulted \cap {"resume", "probe"} = {} /\ ~accepting =>
    \A c \in mine \cap Listening : \E f \in Flows : Drains(f)

IInv == /\ Shapes /\ OnePort /\ Down /\ Placed
        /\ Order /\ Holding /\ Owning /\ Released

-----------------------------------------------------------------------------
(* Effects that several actions share.                                     *)

Statuses == {"none", "starting", "stopping", "degraded", "ready", "failed", "external"}

\* The file is written with the daemon and the tunnel that are held now, or
\* not at all.
Written(d, t) == file' = file \/ \E s \in Statuses : file' = Snapshot(s, d, t)

\* While the launcher stops it arms no timers.
Armed(n) == /\ timers' \subseteq timers \cup {n}
            /\ stopping => stopping' /\ timers' \subseteq timers
            /\ stopping' \/ stopping' = stopping

LEMMA WriteTried ==
  ASSUME NEW s \in Statuses, NEW d, NEW t, TryWriteState(s, d, t)
  PROVE  Written(d, t) /\ \A n : Armed(n)
  BY DEF TryWriteState, Written, Armed

LEMMA Scheduled ==
  ASSUME NEW s \in Statuses, NEW n, NEW d, NEW t, ScheduleRecovery(n, s, d, t)
  PROVE  Written(d, t) /\ Armed(n)
<1>1. "failed" \in Statuses
  BY DEF Statuses
<1>. QED
  BY <1>1 DEF ScheduleRecovery, Written, Armed

LEMMA SnapshotTyped ==
  ASSUME NEW s \in Statuses, NEW d \in Children \cup {None}, NEW t \in BOOLEAN
  PROVE  Snapshot(s, d, t) \in Record
  BY DEF Record, Snapshot, Statuses

LEMMA WrittenTyped ==
  ASSUME FileTyped, NEW d \in Children \cup {None}, NEW t \in BOOLEAN, Written(d, t)
  PROVE  FileTyped'
  BY SnapshotTyped DEF FileTyped, Written

(* The name of a new child is one that nobody remembers.                   *)
LEMMA Spawned ==
  ASSUME NEW f \in Flows, SpawnDaemon(f)
  PROVE  \E c \in Fresh :
           /\ daemon' = c /\ mine' = mine \cup {c}
           /\ \/ /\ NoFault /\ RecordChild(c) /\ UNCHANGED expected
                 /\ proc' = [proc EXCEPT ![c] = "starting"]
                 /\ flow' = [flow EXCEPT ![f].pc = "up", ![f].child = c, ![f].fresh = TRUE]
              \/ /\ Fault("write") /\ UNCHANGED file
                 /\ proc' = [proc EXCEPT ![c] = "dying"] /\ expected' = expected \cup {c}
                 /\ flow' = [flow EXCEPT ![f].pc = "kill", ![f].child = c]
<1>. DEFINE c == CHOOSE c \in Fresh : TRUE
<1>1. c \in Fresh
  BY DEF SpawnDaemon
<1>. QED
  BY <1>1 DEF SpawnDaemon

(* What the exit of a child of this launcher does.                         *)
LEMMA HandledExit ==
  ASSUME NEW c \in Children, Exits(c)
  PROVE  /\ proc' = [proc EXCEPT ![c] = "none"]
         /\ UNCHANGED <<accepting, native, tunnel, monitor, flow, callVars, envVars>>
         /\ \/ /\ c \in mine /\ daemon' = Without(c) /\ mine' = mine \ {c}
               /\ expected' = expected \ {c} /\ restartable' = restartable \ {c}
               /\ Written(daemon', tunnel) /\ Armed("daemon")
            \/ c \notin mine /\ UNCHANGED <<childVars, file, stopping, timers, faulted>>
<1>1. {"degraded", "stopping"} \subseteq Statuses
  BY DEF Statuses
<1>2. ASSUME HandleTerminal(c)
      PROVE  /\ daemon' = Without(c) /\ mine' = mine \ {c}
             /\ expected' = expected \ {c} /\ restartable' = restartable \ {c}
             /\ Written(daemon', tunnel) /\ Armed("daemon")
  <2>. DEFINE unexpected == ~stopping /\ c \notin expected
  <2>1. CASE unexpected /\ c \in restartable
    BY <1>1, <1>2, <2>1, Scheduled DEF HandleTerminal
  <2>2. CASE ~(unexpected /\ c \in restartable)
    BY <1>1, <1>2, <2>2, WriteTried DEF HandleTerminal
  <2>. QED
    BY <2>1, <2>2
<1>. QED
  BY <1>2 DEF Exits

LEMMA PlaceNames ==
  /\ {"idle", "await", "enter", "look", "begin", "status", "cut", "connect", "verify",
      "clean", "spawn", "probe", "resume", "up", "kill", "drain", "sever"} \subseteq Places
  /\ {"shutdown", "exit", "giveback", "stale", "staletunnel", "cleanup", "cleaned", "none",
      "ready", "threw", "recoveries", "asked", "adopt", "branch", "health", "undone", "restore",
      "port", "verdict", "check", "proxy", "settle"} \subseteq Places
  BY DEF Places
-----------------------------------------------------------------------------
(* Types.                                                                  *)

LEMMA FlagsStep ==
  ASSUME Flags, Next
  PROVE  Flags'
<1>. USE BoundsAssumption DEF procVars, callVars, childVars, guardVars, envVars
<1>1. ASSUME NEW f \in Flows, TunnelStep(f)
      PROVE  Flags'
  <2>1. CASE TunnelStatus(f)
    BY <2>1 DEF TunnelStatus, FailTunnel, Go, Flags
  <2>2. CASE TunnelCut(f)
    BY <2>2 DEF TunnelCut, FailTunnel, Go, Flags
  <2>3. CASE TunnelConnect(f)
    BY <2>3 DEF TunnelConnect, FailTunnel, Go, Flags
  <2>4. CASE TunnelVerify(f)
    BY <2>4 DEF TunnelVerify, FailTunnel, Go, Flags
  <2>5. CASE TunnelClean(f)
    BY <2>5 DEF TunnelClean, Flags
  <2>. QED  BY <1>1, <2>1, <2>2, <2>3, <2>4, <2>5 DEF TunnelStep
<1>2. ASSUME NEW f \in Flows, DaemonStep(f)
      PROVE  Flags'
  <2>1. CASE SpawnDaemon(f)
    BY <2>1 DEF SpawnDaemon, HasChild, RecordChild, Snapshot, Fresh, Flags
  <2>2. CASE ProbeDaemon(f)
    BY <2>2 DEF ProbeDaemon, HasChild, Flags
  <2>3. CASE DaemonProbed(f)
    BY <2>3 DEF DaemonProbed, Go, Flags
  <2>4. CASE DaemonResumed(f)
    BY <2>4 DEF DaemonResumed, Go, Throws, Flags
  <2>5. CASE DaemonUp(f)
    BY <2>5 DEF DaemonUp, Marked, Go, StopChild, Throws, Flags
  <2>6. CASE ChildKilled(f)
    BY <2>6 DEF ChildKilled, Forget, Go, Throws, Flags
  <2>. QED  BY <1>2, <2>1, <2>2, <2>3, <2>4, <2>5, <2>6 DEF DaemonStep
<1>3. ASSUME NEW f \in Flows, EndStep(f)
      PROVE  Flags'
  <2>1. CASE DrainIdle(f)
    BY <2>1 DEF DrainIdle, Drained, Flags
  <2>2. CASE DrainFails(f)
    BY <2>2 DEF DrainFails, DrainRefused, Go, Flags
  <2>3. CASE GiveBack(f)
    BY <2>3 DEF GiveBack, DrainRefused, Go, Flags
  <2>4. CASE Shutdown(f)
    BY <2>4 DEF Shutdown, Go, Refused, Flags
  <2>5. CASE ShutDown(f)
    BY <2>5 DEF ShutDown, Forget, Go, Refused, WaitExpires, Flags
  <2>6. CASE Sever(f)
    BY <2>6 DEF Sever, Go, Flags
  <2>. QED  BY <1>3, <2>1, <2>2, <2>3, <2>4, <2>5, <2>6 DEF EndStep
<1>4. ASSUME NEW f \in {"start", "stop"}, StaleStep(f)
      PROVE  Flags'
  <2>1. CASE StaleHealth(f)
    BY <2>1 DEF StaleHealth, Flags
  <2>2. CASE StaleTunnel(f)
    BY <2>2 DEF StaleTunnel, Go, Flags
  <2>3. CASE StaleGone(f)
    BY <2>3 DEF StaleGone, Flags
  <2>. QED  BY <1>4, <2>1, <2>2, <2>3 DEF StaleStep
<1>5. ASSUME NEW f \in {"start"} \cup Recoveries, CleanStep(f)
      PROVE  Flags'
  <2>1. CASE CleanDaemon(f)
    BY <2>1 DEF CleanDaemon, Go, StopChild, Throws, Flags
  <2>2. CASE CleanTunnel(f)
    BY <2>2 DEF CleanTunnel, Go, Flags
  <2>. QED  BY <1>5, <2>1, <2>2 DEF CleanStep
<1>6. ASSUME NEW f \in Flows, DrainPolls(f) PROVE Flags'
  BY <1>6 DEF DrainPolls, Flags
<1>7. CASE StartCall
  BY <1>7 DEF StartCall, Go, Flags
<1>8. CASE StartEnters
  BY <1>8 DEF StartEnters, Go, Flags
<1>9. CASE StartLooks
  BY <1>9 DEF StartLooks, Go, Leave, External, ExternalState, Snapshot, Flags
<1>10. CASE StartBegins
  BY <1>10 DEF StartBegins, Go, Flags
<1>11. CASE StartReady
  BY <1>11 DEF StartReady, Leave, Go, Snapshot, Flags
<1>12. CASE StartThrew
  BY <1>12 DEF StartThrew, Go, External, ExternalState, Leave, Snapshot, Flags
<1>13. CASE StartFailed
  BY <1>13 DEF StartFailed, Leave, Snapshot, Flags
<1>14. CASE StopCall
  BY <1>14 DEF StopCall, Go, Flags
<1>15. CASE StopEnters
  BY <1>15, SMTT(30) DEF StopEnters, Disarmed, Go, Flags
<1>16. CASE StopReads \/ StopLooks
  BY <1>16 DEF StopReads, StopLooks, Flags
<1>17. CASE StopAdopts
  BY <1>17 DEF StopAdopts, Go, Flags
<1>18. CASE StopBranches
  BY <1>18 DEF StopBranches, Go, Flags
<1>19. CASE StopIdentifies
  BY <1>19 DEF StopIdentifies, Go, Flags
<1>20. CASE StopDone
  BY <1>20 DEF StopDone, Leave, Flags
<1>21. CASE StopThrew
  BY <1>21 DEF StopThrew, Flags
<1>22. CASE StopUndoes
  BY <1>22 DEF StopUndoes, Undone, Flags
<1>23. CASE StopRestores
  BY <1>23 DEF StopRestores, Go, Flags
<1>24. CASE StopAwaitsPort
  BY <1>24 DEF StopAwaitsPort, Go, WaitExpires, Throws, Flags
<1>25. CASE StopFails
  BY <1>25 DEF StopFails, Leave, Snapshot, Flags
<1>26. ASSUME NEW n \in Recoveries, TimerFires(n) PROVE Flags'
  BY <1>26 DEF TimerFires, Go, Flags
<1>27. ASSUME NEW n \in Recoveries, RecoveryChecks(n) PROVE Flags'
  BY <1>27 DEF RecoveryChecks, Throws, Go, Flags
<1>28. ASSUME NEW n \in Recoveries, RecoveryProxy(n) PROVE Flags'
  BY <1>28 DEF RecoveryProxy, Go, Throws, Flags
<1>29. ASSUME NEW n \in Recoveries, RecoverySettles(n) PROVE Flags'
  BY <1>29 DEF RecoverySettles, Throws, TryWriteState, Leave, Snapshot, Flags
<1>30. ASSUME NEW n \in Recoveries, RecoveryFails(n) PROVE Flags'
  BY <1>30 DEF RecoveryFails, Leave, ScheduleRecovery, Snapshot, Flags
<1>31. CASE MonitorTick
  BY <1>31 DEF MonitorTick, ScheduleRecovery, TryWriteState, Snapshot, Flags
<1>32. CASE LauncherDies
  BY <1>32 DEF LauncherDies, Flags
<1>33. CASE LauncherStarts
  BY <1>33 DEF LauncherStarts, Flags
<1>34. CASE TunnelDies
  BY <1>34 DEF TunnelDies, Flags
<1>35. ASSUME NEW c \in Children, Crashes(c) PROVE Flags'
  BY <1>35 DEF Crashes, Flags
<1>36. ASSUME NEW c \in Children, Exits(c) PROVE Flags'
  BY <1>36 DEF Exits, HandleTerminal, Without, ScheduleRecovery, TryWriteState, Snapshot,
     Flags
<1>37. ASSUME NEW c \in Children, Listens(c) PROVE Flags'
  BY <1>37 DEF Listens, Flags
<1>. QED  BY <1>1, <1>2, <1>3, <1>4, <1>5, <1>6, <1>7, <1>8, <1>9, <1>10, <1>11, <1>12, <1>13,
             <1>14, <1>15, <1>16, <1>17, <1>18, <1>19, <1>20, <1>21, <1>22, <1>23, <1>24,
             <1>25, <1>26, <1>27, <1>28, <1>29, <1>30, <1>31, <1>32, <1>33, <1>34, <1>35,
             <1>36, <1>37 DEF Next, Launcher, Machine, StartStep,
       StopStep, RecoverStep, Common, Flows, Recoveries

LEMMA KidsStep ==
  ASSUME CallsTyped, KidsTyped, Next
  PROVE  KidsTyped'
<1>. USE BoundsAssumption DEF procVars, callVars, childVars, guardVars, envVars,
            Recoveries, CallsTyped, Flows, Call
<1>1. ASSUME NEW f \in Flows, TunnelStep(f)
      PROVE  KidsTyped'
  <2>1. CASE TunnelStatus(f)
    BY <2>1 DEF TunnelStatus, FailTunnel, Go, KidsTyped
  <2>2. CASE TunnelCut(f)
    BY <2>2 DEF TunnelCut, FailTunnel, Go, KidsTyped
  <2>3. CASE TunnelConnect(f)
    BY <2>3 DEF TunnelConnect, FailTunnel, Go, KidsTyped
  <2>4. CASE TunnelVerify(f)
    BY <2>4 DEF TunnelVerify, FailTunnel, Go, KidsTyped
  <2>5. CASE TunnelClean(f)
    BY <2>5 DEF TunnelClean, KidsTyped
  <2>. QED  BY <1>1, <2>1, <2>2, <2>3, <2>4, <2>5 DEF TunnelStep
<1>2. ASSUME NEW f \in Flows, DaemonStep(f)
      PROVE  KidsTyped'
  <2>1. CASE SpawnDaemon(f)
    <3>1. /\ UNCHANGED <<restartable, timers>>
          /\ \E c \in Children : /\ daemon' = c /\ mine' = mine \cup {c}
                                /\ expected' \in {expected, expected \cup {c}}
                                /\ \E s \in {"starting", "dying"} : proc' = [proc EXCEPT ![c] = s]
      BY <2>1, Spawned DEF SpawnDaemon, Fresh
    <3>. QED
      BY <3>1 DEF KidsTyped
  <2>2. CASE ProbeDaemon(f)
    BY <2>2 DEF ProbeDaemon, HasChild, KidsTyped
  <2>3. CASE DaemonProbed(f)
    BY <2>3 DEF DaemonProbed, Go, KidsTyped
  <2>4. CASE DaemonResumed(f)
    BY <2>4 DEF DaemonResumed, Go, Throws, KidsTyped
  <2>5. CASE DaemonUp(f)
    <3>1. UNCHANGED <<daemon, mine, timers>>
      BY <2>5 DEF DaemonUp
    <3>2. /\ restartable' = restartable \/ (daemon # None /\ restartable' = restartable \cup {daemon})
          /\ \/ UNCHANGED <<proc, expected>>
             \/ /\ daemon # None /\ expected' = expected \cup {daemon}
                /\ proc' = [proc EXCEPT ![daemon] = "dying"]
      BY <2>5 DEF DaemonUp, Marked, Ready, Healthy, StopChild
    <3>. QED
      BY <3>1, <3>2 DEF KidsTyped
  <2>6. CASE ChildKilled(f)
    BY <2>6 DEF ChildKilled, Forget, Go, Throws, KidsTyped
  <2>. QED  BY <1>2, <2>1, <2>2, <2>3, <2>4, <2>5, <2>6 DEF DaemonStep
<1>3. ASSUME NEW f \in Flows, EndStep(f)
      PROVE  KidsTyped'
  <2>1. CASE DrainIdle(f)
    BY <2>1 DEF DrainIdle, Drained, KidsTyped
  <2>2. CASE DrainFails(f)
    BY <2>2 DEF DrainFails, DrainRefused, Go, KidsTyped
  <2>3. CASE GiveBack(f)
    BY <2>3 DEF GiveBack, DrainRefused, Go, KidsTyped
  <2>4. CASE Shutdown(f)
    BY <2>4 DEF Shutdown, Go, Refused, KidsTyped
  <2>5. CASE ShutDown(f)
    BY <2>5 DEF ShutDown, Forget, Go, Refused, WaitExpires, KidsTyped
  <2>6. CASE Sever(f)
    BY <2>6 DEF Sever, Go, KidsTyped
  <2>. QED  BY <1>3, <2>1, <2>2, <2>3, <2>4, <2>5, <2>6 DEF EndStep
<1>4. ASSUME NEW f \in {"start", "stop"}, StaleStep(f)
      PROVE  KidsTyped'
  <2>1. CASE StaleHealth(f)
    BY <2>1 DEF StaleHealth, KidsTyped
  <2>2. CASE StaleTunnel(f)
    BY <2>2 DEF StaleTunnel, Go, KidsTyped
  <2>3. CASE StaleGone(f)
    BY <2>3 DEF StaleGone, KidsTyped
  <2>. QED  BY <1>4, <2>1, <2>2, <2>3 DEF StaleStep
<1>5. ASSUME NEW f \in {"start"} \cup Recoveries, CleanStep(f)
      PROVE  KidsTyped'
  <2>1. CASE CleanDaemon(f)
    BY <2>1 DEF CleanDaemon, Go, StopChild, Throws, KidsTyped
  <2>2. CASE CleanTunnel(f)
    BY <2>2 DEF CleanTunnel, Go, KidsTyped
  <2>. QED  BY <1>5, <2>1, <2>2 DEF CleanStep
<1>6. ASSUME NEW f \in Flows, DrainPolls(f) PROVE KidsTyped'
  BY <1>6 DEF DrainPolls, KidsTyped
<1>7. CASE StartCall
  BY <1>7 DEF StartCall, Go, KidsTyped
<1>8. CASE StartEnters
  BY <1>8 DEF StartEnters, Go, KidsTyped
<1>9. CASE StartLooks
  BY <1>9 DEF StartLooks, Go, Leave, External, ExternalState, Snapshot, KidsTyped
<1>10. CASE StartBegins
  BY <1>10 DEF StartBegins, Go, KidsTyped
<1>11. CASE StartReady
  BY <1>11 DEF StartReady, Leave, Go, Snapshot, KidsTyped
<1>12. CASE StartThrew
  BY <1>12 DEF StartThrew, Go, External, ExternalState, Leave, Snapshot, KidsTyped
<1>13. CASE StartFailed
  BY <1>13 DEF StartFailed, Leave, Snapshot, KidsTyped
<1>14. CASE StopCall
  BY <1>14 DEF StopCall, Go, KidsTyped
<1>15. CASE StopEnters
  BY <1>15 DEF StopEnters, Disarmed, Go, KidsTyped
<1>16. CASE StopReads \/ StopLooks
  BY <1>16 DEF StopReads, StopLooks, KidsTyped
<1>17. CASE StopAdopts
  BY <1>17 DEF StopAdopts, Go, KidsTyped
<1>18. CASE StopBranches
  BY <1>18 DEF StopBranches, Go, KidsTyped
<1>19. CASE StopIdentifies
  BY <1>19 DEF StopIdentifies, Go, KidsTyped
<1>20. CASE StopDone
  BY <1>20 DEF StopDone, Leave, KidsTyped
<1>21. CASE StopThrew
  BY <1>21 DEF StopThrew, KidsTyped
<1>22. CASE StopUndoes
  BY <1>22 DEF StopUndoes, Undone, KidsTyped
<1>23. CASE StopRestores
  BY <1>23 DEF StopRestores, Go, KidsTyped
<1>24. CASE StopAwaitsPort
  BY <1>24 DEF StopAwaitsPort, Go, WaitExpires, Throws, KidsTyped
<1>25. CASE StopFails
  BY <1>25 DEF StopFails, Leave, Snapshot, KidsTyped
<1>26. ASSUME NEW n \in Recoveries, TimerFires(n) PROVE KidsTyped'
  BY <1>26 DEF TimerFires, Go, KidsTyped
<1>27. ASSUME NEW n \in Recoveries, RecoveryChecks(n) PROVE KidsTyped'
  BY <1>27 DEF RecoveryChecks, Throws, Go, KidsTyped
<1>28. ASSUME NEW n \in Recoveries, RecoveryProxy(n) PROVE KidsTyped'
  BY <1>28 DEF RecoveryProxy, Go, Throws, KidsTyped
<1>29. ASSUME NEW n \in Recoveries, RecoverySettles(n) PROVE KidsTyped'
  BY <1>29 DEF RecoverySettles, Throws, TryWriteState, Leave, Snapshot, KidsTyped
<1>30. ASSUME NEW n \in Recoveries, RecoveryFails(n) PROVE KidsTyped'
  BY <1>30 DEF RecoveryFails, Leave, ScheduleRecovery, Snapshot, KidsTyped
<1>31. CASE MonitorTick
  BY <1>31 DEF MonitorTick, ScheduleRecovery, TryWriteState, Snapshot, KidsTyped
<1>32. CASE LauncherDies
  BY <1>32 DEF LauncherDies, KidsTyped
<1>33. CASE LauncherStarts
  BY <1>33 DEF LauncherStarts, KidsTyped
<1>34. CASE TunnelDies
  BY <1>34 DEF TunnelDies, KidsTyped
<1>35. ASSUME NEW c \in Children, Crashes(c) PROVE KidsTyped'
  BY <1>35 DEF Crashes, KidsTyped
<1>36. ASSUME NEW c \in Children, Exits(c) PROVE KidsTyped'
  <2>1. proc' = [proc EXCEPT ![c] = "none"]
    BY <1>36, HandledExit
  <2>2. CASE c \notin mine /\ UNCHANGED <<childVars, timers>>
    BY <2>1, <2>2 DEF KidsTyped
  <2>3. CASE /\ daemon' = Without(c) /\ mine' = mine \ {c}
             /\ expected' = expected \ {c} /\ restartable' = restartable \ {c}
             /\ timers' \subseteq timers \cup {"daemon"}
    BY <2>1, <2>3 DEF KidsTyped, Without
  <2>. QED
    BY <1>36, <2>2, <2>3, HandledExit DEF Armed
<1>37. ASSUME NEW c \in Children, Listens(c) PROVE KidsTyped'
  BY <1>37 DEF Listens, KidsTyped
<1>. QED  BY <1>1, <1>2, <1>3, <1>4, <1>5, <1>6, <1>7, <1>8, <1>9, <1>10, <1>11, <1>12, <1>13,
             <1>14, <1>15, <1>16, <1>17, <1>18, <1>19, <1>20, <1>21, <1>22, <1>23, <1>24,
             <1>25, <1>26, <1>27, <1>28, <1>29, <1>30, <1>31, <1>32, <1>33, <1>34, <1>35,
             <1>36, <1>37 DEF Next, Launcher, Machine, StartStep,
       StopStep, RecoverStep, Common, Flows, Recoveries

LEMMA StatusNames ==
  {"none", "starting", "stopping", "degraded", "ready", "failed", "external"} \subseteq Statuses
  BY DEF Statuses

\* What a step writes.
Writes == \/ Written(daemon', tunnel') \/ file' = NoFile
          \/ ~up' /\ file' = [file EXCEPT !.own = FALSE]

LEMMA FileWritten ==
  ASSUME Next
  PROVE  Writes
<1>. USE StatusNames DEF procVars, callVars, childVars, guardVars, envVars
<1>1. ASSUME NEW f \in Flows, TunnelStep(f)
      PROVE  Writes
  <2>1. CASE TunnelStatus(f)
    BY <2>1 DEF TunnelStatus, FailTunnel, Go, Writes, Written
  <2>2. CASE TunnelCut(f)
    BY <2>2 DEF TunnelCut, FailTunnel, Go, Writes, Written
  <2>3. CASE TunnelConnect(f)
    BY <2>3 DEF TunnelConnect, FailTunnel, Go, Writes, Written
  <2>4. CASE TunnelVerify(f)
    BY <2>4 DEF TunnelVerify, FailTunnel, Go, Writes, Written
  <2>5. CASE TunnelClean(f)
    BY <2>5 DEF TunnelClean, Writes, Written
  <2>. QED  BY <1>1, <2>1, <2>2, <2>3, <2>4, <2>5 DEF TunnelStep
<1>2. ASSUME NEW f \in Flows, DaemonStep(f)
      PROVE  Writes
  <2>1. CASE SpawnDaemon(f)
    BY <2>1, Spawned DEF SpawnDaemon, RecordChild, Writes, Written
  <2>2. CASE ProbeDaemon(f)
    BY <2>2 DEF ProbeDaemon, HasChild, Writes, Written
  <2>3. CASE DaemonProbed(f)
    BY <2>3 DEF DaemonProbed, Go, Writes, Written
  <2>4. CASE DaemonResumed(f)
    BY <2>4 DEF DaemonResumed, Go, Throws, Writes, Written
  <2>5. CASE DaemonUp(f)
    BY <2>5 DEF DaemonUp, Marked, Go, StopChild, Throws, Writes, Written
  <2>6. CASE ChildKilled(f)
    BY <2>6 DEF ChildKilled, Forget, Go, Throws, Writes, Written
  <2>. QED  BY <1>2, <2>1, <2>2, <2>3, <2>4, <2>5, <2>6 DEF DaemonStep
<1>3. ASSUME NEW f \in Flows, EndStep(f)
      PROVE  Writes
  <2>1. CASE DrainIdle(f)
    BY <2>1 DEF DrainIdle, Drained, Writes, Written
  <2>2. CASE DrainFails(f)
    BY <2>2 DEF DrainFails, DrainRefused, Go, Writes, Written
  <2>3. CASE GiveBack(f)
    BY <2>3 DEF GiveBack, DrainRefused, Go, Writes, Written
  <2>4. CASE Shutdown(f)
    BY <2>4 DEF Shutdown, Go, Refused, Writes, Written
  <2>5. CASE ShutDown(f)
    BY <2>5 DEF ShutDown, Forget, Go, Refused, WaitExpires, Writes, Written
  <2>6. CASE Sever(f)
    BY <2>6 DEF Sever, Go, Writes, Written
  <2>. QED  BY <1>3, <2>1, <2>2, <2>3, <2>4, <2>5, <2>6 DEF EndStep
<1>4. ASSUME NEW f \in {"start", "stop"}, StaleStep(f)
      PROVE  Writes
  <2>1. CASE StaleHealth(f)
    BY <2>1 DEF StaleHealth, Writes, Written
  <2>2. CASE StaleTunnel(f)
    BY <2>2 DEF StaleTunnel, Go, Writes, Written
  <2>3. CASE StaleGone(f)
    BY <2>3 DEF StaleGone, Writes, Written
  <2>. QED  BY <1>4, <2>1, <2>2, <2>3 DEF StaleStep
<1>5. ASSUME NEW f \in {"start"} \cup Recoveries, CleanStep(f)
      PROVE  Writes
  <2>1. CASE CleanDaemon(f)
    BY <2>1 DEF CleanDaemon, Go, StopChild, Throws, Writes, Written
  <2>2. CASE CleanTunnel(f)
    BY <2>2 DEF CleanTunnel, Go, Writes, Written
  <2>. QED  BY <1>5, <2>1, <2>2 DEF CleanStep
<1>6. ASSUME NEW f \in Flows, DrainPolls(f) PROVE Writes
  BY <1>6 DEF DrainPolls, Writes, Written
<1>7. CASE StartCall
  BY <1>7 DEF StartCall, Go, Writes, Written
<1>8. CASE StartEnters
  BY <1>8 DEF StartEnters, Go, Writes, Written
<1>9. CASE StartLooks
  BY <1>9 DEF StartLooks, Go, Leave, External, ExternalState, Writes, Written
<1>10. CASE StartBegins
  BY <1>10 DEF StartBegins, Go, Writes, Written
<1>11. CASE StartReady
  BY <1>11 DEF StartReady, Leave, Go, Writes, Written
<1>12. CASE StartThrew
  BY <1>12 DEF StartThrew, Go, External, ExternalState, Leave, Writes, Written
<1>13. CASE StartFailed
  BY <1>13 DEF StartFailed, Leave, Writes, Written
<1>14. CASE StopCall
  BY <1>14 DEF StopCall, Go, Writes, Written
<1>15. CASE StopEnters
  BY <1>15, SMTT(30) DEF StopEnters, Disarmed, Go, Writes, Written
<1>16. CASE StopReads \/ StopLooks
  BY <1>16 DEF StopReads, StopLooks, Writes, Written
<1>17. CASE StopAdopts
  BY <1>17 DEF StopAdopts, Go, Writes, Written
<1>18. CASE StopBranches
  BY <1>18 DEF StopBranches, Go, Writes, Written
<1>19. CASE StopIdentifies
  BY <1>19 DEF StopIdentifies, Go, Writes, Written
<1>20. CASE StopDone
  BY <1>20 DEF StopDone, Leave, Writes, Written
<1>21. CASE StopThrew
  BY <1>21 DEF StopThrew, Writes, Written
<1>22. CASE StopUndoes
  BY <1>22 DEF StopUndoes, Undone, Writes, Written
<1>23. CASE StopRestores
  BY <1>23 DEF StopRestores, Go, Writes, Written
<1>24. CASE StopAwaitsPort
  BY <1>24 DEF StopAwaitsPort, Go, WaitExpires, Throws, Writes, Written
<1>25. CASE StopFails
  BY <1>25 DEF StopFails, Leave, Writes, Written
<1>26. ASSUME NEW n \in Recoveries, TimerFires(n) PROVE Writes
  BY <1>26 DEF TimerFires, Go, Writes, Written
<1>27. ASSUME NEW n \in Recoveries, RecoveryChecks(n) PROVE Writes
  BY <1>27 DEF RecoveryChecks, Throws, Go, Writes, Written
<1>28. ASSUME NEW n \in Recoveries, RecoveryProxy(n) PROVE Writes
  BY <1>28 DEF RecoveryProxy, Go, Throws, Writes, Written
<1>29. ASSUME NEW n \in Recoveries, RecoverySettles(n) PROVE Writes
  <2>1. /\ UNCHANGED daemon
        /\ \/ UNCHANGED file
           \/ Written(daemon, TRUE) /\ tunnel' = TRUE
    BY <1>29, WriteTried DEF RecoverySettles
  <2>. QED
    BY <2>1 DEF Writes, Written
<1>30. ASSUME NEW n \in Recoveries, RecoveryFails(n) PROVE Writes
  BY <1>30, Scheduled DEF RecoveryFails, Leave, Writes, Written
<1>31. CASE MonitorTick
  <2>1. \/ Written(daemon, FALSE) /\ ~tunnel' /\ tunnel' = FALSE
        \/ Written(daemon, TRUE) /\ tunnel' = TRUE
    BY <1>31, Scheduled, WriteTried DEF MonitorTick
  <2>2. daemon' = daemon
    BY <1>31 DEF MonitorTick
  <2>. QED
    BY <2>1, <2>2 DEF Writes
<1>32. CASE LauncherDies
  BY <1>32 DEF LauncherDies, Writes, Written
<1>33. CASE LauncherStarts
  BY <1>33 DEF LauncherStarts, Writes, Written
<1>34. CASE TunnelDies
  BY <1>34 DEF TunnelDies, Writes, Written
<1>35. ASSUME NEW c \in Children, Crashes(c) PROVE Writes
  BY <1>35 DEF Crashes, Writes, Written
<1>36. ASSUME NEW c \in Children, Exits(c) PROVE Writes
  <2>1. Written(daemon', tunnel) /\ tunnel' = tunnel
    BY <1>36, HandledExit DEF Written
  <2>. QED
    BY <2>1 DEF Writes
<1>37. ASSUME NEW c \in Children, Listens(c) PROVE Writes
  BY <1>37 DEF Listens, Writes, Written
<1>. QED  BY <1>1, <1>2, <1>3, <1>4, <1>5, <1>6, <1>7, <1>8, <1>9, <1>10, <1>11, <1>12, <1>13,
             <1>14, <1>15, <1>16, <1>17, <1>18, <1>19, <1>20, <1>21, <1>22, <1>23, <1>24,
             <1>25, <1>26, <1>27, <1>28, <1>29, <1>30, <1>31, <1>32, <1>33, <1>34, <1>35,
             <1>36, <1>37 DEF Next, Launcher, Machine, StartStep,
       StopStep, RecoverStep, Common, Flows, Recoveries

LEMMA FileStep ==
  ASSUME FileTyped, KidsTyped', Flags', Writes
  PROVE  FileTyped'
<1>1. CASE Written(daemon', tunnel')
  BY <1>1, WrittenTyped DEF KidsTyped, Flags
<1>2. NoFile \in Record
  BY DEF NoFile, Record
<1>3. [file EXCEPT !.own = FALSE] \in Record
  BY DEF FileTyped, Record
<1>. QED
  BY <1>1, <1>2, <1>3 DEF FileTyped, Writes

-----------------------------------------------------------------------------
(* What the steps of a call do.  The invariant looks at a call's place,    *)
(* mode, child and the marks that stop sets; each lemma states these for   *)
(* the steps from one place.                                               *)

Moved(f) == flow' \in [Flows -> Call] /\ \A g \in Flows \ {f} : flow'[g] = flow[g]

KeptMarks(f) == /\ flow'[f].mode = flow[f].mode /\ flow'[f].drained = flow[f].drained
                /\ flow'[f].cut = flow[f].cut /\ flow'[f].live = flow[f].live
Kept(f) == KeptMarks(f) /\ flow'[f].child = flow[f].child

\* Only the call moves.
Machines == UNCHANGED <<procVars, childVars, file, lost>>
Guards   == UNCHANGED <<stopping, timers, monitor>>

\* Where a failed step of starting goes on.
Thrown(f) == IF f = "stop" THEN "undone" ELSE "threw"

LEMMA NoFileTyped == NoFile \in Record
  BY DEF NoFile, Record

LEMMA CallType ==
  ASSUME CallsTyped
  PROVE  \A f \in Flows : flow[f] \in Call
  BY DEF CallsTyped

LEMMA GoMoves ==
  ASSUME CallsTyped, NEW f \in Flows, NEW p \in Places, Go(f, p)
  PROVE  Moved(f) /\ Kept(f) /\ flow'[f].pc = p
<1>1. flow' \in [Flows -> Call]
  BY DEF Go, CallsTyped, Call
<1>2. /\ \A g \in Flows \ {f} : flow'[g] = flow[g]
      /\ Kept(f) /\ flow'[f].pc = p
  BY DEF Go, CallsTyped, Call, Kept, KeptMarks
<1>. QED
  BY <1>1, <1>2 DEF Moved

LEMMA ThrowMoves ==
  ASSUME CallsTyped, NEW f \in Flows, Throws(f)
  PROVE  Moved(f) /\ Kept(f) /\ flow'[f].pc = Thrown(f)
<1>. DEFINE p == Thrown(f)
            r == [flow[f] EXCEPT !.pc = p, !.err = TRUE]
<1>1. p \in Places
  BY PlaceNames DEF Thrown
<1>. HIDE DEF p
<1>2. flow' = [flow EXCEPT ![f].pc = p, ![f].err = TRUE]
  BY DEF Throws, p, Thrown
<1>3. flow' \in [Flows -> Call]
  <2>1. r \in Call
    BY <1>1, CallType DEF Call
  <2>2. flow' = [flow EXCEPT ![f] = r]
    BY <1>2 DEF CallsTyped
  <2>. HIDE DEF r
  <2>. QED
    BY <2>1, <2>2 DEF CallsTyped
<1>4. /\ \A g \in Flows \ {f} : flow'[g] = flow[g]
      /\ Kept(f) /\ flow'[f].pc = p
  BY <1>2 DEF CallsTyped, Call, Kept, KeptMarks
<1>. QED
  BY <1>3, <1>4 DEF Moved, p

LEMMA LeaveMoves ==
  ASSUME CallsTyped, NEW f \in Flows, Leave(f)
  PROVE  Moved(f) /\ flow'[f] = Idle
<1>1. Idle \in Call
  BY PlaceNames, NoFileTyped DEF Call, Idle
<1>. QED
  BY <1>1 DEF CallsTyped, Leave, Moved

LEMMA SetMoves ==
  ASSUME CallsTyped, NEW f \in Flows, NEW r \in Call, flow' = [flow EXCEPT ![f] = r]
  PROVE  Moved(f) /\ flow'[f] = r
  BY DEF CallsTyped, Moved

(* startTunnel                                                             *)
Tunnels(f) ==
  /\ Moved(f) /\ Kept(f) /\ Machines /\ UNCHANGED <<stopping, timers, envVars>>
  /\ \/ /\ \E p \in {"status", "cut", "connect", "verify"} : At(f, p)
        /\ flow'[f].pc \in {"cut", "connect", "verify", "clean"}
     \/ /\ At(f, "verify")
        /\ flow'[f].pc = CASE f = "start" -> "spawn" [] f = "stop" -> "undone"
                           [] OTHER -> "check"
     \/ At(f, "clean") /\ flow'[f].pc = Thrown(f)

LEMMA TunnelMoves ==
  ASSUME CallsTyped, NEW f \in Flows, TunnelStep(f)
  PROVE  Tunnels(f)
<1>. USE PlaceNames
<1>1. CASE TunnelStatus(f)
  BY <1>1, GoMoves DEF TunnelStatus, FailTunnel, Tunnels, Machines, guardVars, callVars
<1>2. CASE TunnelCut(f)
  BY <1>2, GoMoves DEF TunnelCut, FailTunnel, Tunnels, Machines, guardVars, callVars
<1>3. CASE TunnelConnect(f)
  BY <1>3, GoMoves DEF TunnelConnect, FailTunnel, Tunnels, Machines, guardVars, callVars
<1>4. CASE TunnelVerify(f)
  <2>. DEFINE p == CASE f = "start" -> "spawn" [] f = "stop" -> "undone" [] OTHER -> "check"
  <2>1. p \in Places
    OBVIOUS
  <2>. HIDE DEF p
  <2>2. CASE Go(f, p)
    BY <1>4, <2>1, <2>2, GoMoves DEF TunnelVerify, Tunnels, Machines, callVars, p
  <2>3. CASE Go(f, "clean")
    BY <1>4, <2>3, GoMoves DEF TunnelVerify, Tunnels, Machines, callVars
  <2>. QED
    BY <1>4, <2>2, <2>3 DEF TunnelVerify, FailTunnel, p
<1>5. CASE TunnelClean(f)
  <2>1. Throws(f)
    BY <1>5 DEF TunnelClean, Throws
  <2>. QED
    BY <1>5, <2>1, ThrowMoves DEF TunnelClean, Tunnels, Machines, callVars
<1>. QED
  BY <1>1, <1>2, <1>3, <1>4, <1>5 DEF TunnelStep

LEMMA IdleFields ==
  /\ Idle \in Call /\ Idle.pc = "idle" /\ Idle.mode = "run" /\ Idle.child = None
  /\ ~Idle.drained /\ ~Idle.cut
  BY PlaceNames, NoFileTyped DEF Idle, Call

\* A call that begins anew at a place.
Anew(f, p, m) == /\ flow'[f].pc = p /\ flow'[f].mode = m /\ flow'[f].child = None
                 /\ ~flow'[f].drained /\ ~flow'[f].cut

LEMMA AnewMoves ==
  ASSUME CallsTyped, NEW f \in Flows, NEW p \in Places, NEW m \in {"run", "clean"},
         flow' = [flow EXCEPT ![f] = [Idle EXCEPT !.pc = p, !.mode = m]]
  PROVE  Moved(f) /\ Anew(f, p, m)
<1>. DEFINE r == [Idle EXCEPT !.pc = p, !.mode = m]
<1>1. r \in Call /\ r.pc = p /\ r.mode = m /\ r.child = None /\ ~r.drained /\ ~r.cut
  BY NoFileTyped DEF Idle, Call
<1>. HIDE DEF r
<1>2. Moved(f) /\ flow'[f] = r
  BY <1>1, SetMoves DEF r
<1>. QED
  BY <1>1, <1>2 DEF Anew

(* startDaemon with a child: it is probed, and its admission resumed.      *)
Probes(f) ==
  /\ Moved(f) /\ KeptMarks(f) /\ UNCHANGED <<proc, childVars, file, lost, envVars>> /\ Guards
  /\ \/ At(f, "spawn") /\ flow'[f].pc = "probe" /\ UNCHANGED accepting
     \/ At(f, "probe") /\ flow'[f].pc \in {"resume", "up"} /\ UNCHANGED accepting
     \/ /\ At(f, "resume") /\ flow'[f].pc \in {"up", Thrown(f)}
        /\ \/ accepting' = TRUE
           \/ UNCHANGED accepting /\ (Listening = {} \/ "resume" \in faulted')

LEMMA ProbeMoves ==
  ASSUME CallsTyped, KidsTyped, NEW f \in Flows,
         ProbeDaemon(f) \/ DaemonProbed(f) \/ DaemonResumed(f)
  PROVE  Probes(f)
<1>. USE PlaceNames
<1>1. CASE ProbeDaemon(f)
  <2>. DEFINE r == [flow[f] EXCEPT !.pc = "probe", !.child = daemon, !.fresh = FALSE]
  <2>1. r \in Call /\ flow' = [flow EXCEPT ![f] = r]
    BY <1>1 DEF ProbeDaemon, CallsTyped, Call, KidsTyped
  <2>2. /\ r.pc = "probe" /\ r.mode = flow[f].mode /\ r.drained = flow[f].drained
        /\ r.cut = flow[f].cut /\ r.live = flow[f].live
    BY DEF CallsTyped, Call
  <2>. HIDE DEF r
  <2>. QED
    BY <1>1, <2>1, <2>2, SetMoves
       DEF ProbeDaemon, Probes, KeptMarks, Guards, guardVars, callVars, procVars
<1>2. CASE DaemonProbed(f)
  BY <1>2, GoMoves DEF DaemonProbed, Probes, Kept, Guards, guardVars, callVars, procVars
<1>3. CASE DaemonResumed(f)
  <2>1. CASE Go(f, "up") /\ accepting' = TRUE
    BY <1>3, <2>1, GoMoves DEF DaemonResumed, Probes, Kept, Guards, guardVars, callVars
  <2>2. CASE Throws(f) /\ UNCHANGED accepting /\ (Listening = {} \/ "resume" \in faulted')
    BY <1>3, <2>2, ThrowMoves DEF DaemonResumed, Probes, Kept, Guards, guardVars, callVars
  <2>. QED
    BY <1>3, <2>1, <2>2 DEF DaemonResumed, Fault
<1>. QED
  BY <1>1, <1>2, <1>3

(* spawnChild                                                              *)
Spawns(f) ==
  /\ Moved(f) /\ KeptMarks(f) /\ At(f, "spawn") /\ Guards
  /\ UNCHANGED <<accepting, lost, envVars, tunnel>>
  /\ daemon = None /\ daemon' \in Fresh /\ mine' = mine \cup {daemon'}
  /\ flow'[f].child = daemon'
  /\ \/ /\ file' = Snapshot("starting", daemon', tunnel) /\ flow'[f].pc = "up"
        /\ proc' = [proc EXCEPT ![daemon'] = "starting"]
     \/ /\ UNCHANGED file /\ flow'[f].pc = "kill"
        /\ proc' = [proc EXCEPT ![daemon'] = "dying"]

LEMMA SpawnMoves ==
  ASSUME CallsTyped, NEW f \in Flows, SpawnDaemon(f)
  PROVE  Spawns(f)
<1>1. PICK c \in Fresh :
           /\ daemon' = c /\ mine' = mine \cup {c}
           /\ \/ /\ RecordChild(c)
                 /\ proc' = [proc EXCEPT ![c] = "starting"]
                 /\ flow' = [flow EXCEPT ![f].pc = "up", ![f].child = c, ![f].fresh = TRUE]
              \/ /\ UNCHANGED file
                 /\ proc' = [proc EXCEPT ![c] = "dying"]
                 /\ flow' = [flow EXCEPT ![f].pc = "kill", ![f].child = c]
  BY Spawned
<1>. DEFINE up0 == [flow[f] EXCEPT !.pc = "up", !.child = c, !.fresh = TRUE]
            kill0 == [flow[f] EXCEPT !.pc = "kill", !.child = c]
<1>2. c \in Children
  BY DEF Fresh
<1>3. /\ up0 \in Call /\ up0.pc = "up" /\ up0.child = c /\ up0.mode = flow[f].mode
      /\ up0.drained = flow[f].drained /\ up0.cut = flow[f].cut /\ up0.live = flow[f].live
  BY <1>2, PlaceNames DEF CallsTyped, Call
<1>4. /\ kill0 \in Call /\ kill0.pc = "kill" /\ kill0.child = c /\ kill0.mode = flow[f].mode
      /\ kill0.drained = flow[f].drained /\ kill0.cut = flow[f].cut /\ kill0.live = flow[f].live
  BY <1>2, PlaceNames DEF CallsTyped, Call
<1>5. /\ At(f, "spawn") /\ Guards /\ UNCHANGED <<accepting, lost, envVars, tunnel>>
      /\ daemon = None
  BY DEF SpawnDaemon, HasChild, Guards, guardVars, callVars
<1>6. CASE /\ RecordChild(c) /\ proc' = [proc EXCEPT ![c] = "starting"]
           /\ flow' = [flow EXCEPT ![f] = up0]
  <2>. HIDE DEF up0
  <2>. QED
    BY <1>1, <1>3, <1>5, <1>6, SetMoves DEF Spawns, KeptMarks, RecordChild
<1>7. CASE /\ UNCHANGED file /\ proc' = [proc EXCEPT ![c] = "dying"]
           /\ flow' = [flow EXCEPT ![f] = kill0]
  <2>. HIDE DEF kill0
  <2>. QED
    BY <1>1, <1>4, <1>5, <1>7, SetMoves DEF Spawns, KeptMarks
<1>. QED
  BY <1>1, <1>6, <1>7 DEF CallsTyped

\* stopChild, with the child that is held.
Ends(f) == /\ daemon # None /\ flow'[f].pc = "kill" /\ flow'[f].child = daemon
           /\ Moved(f) /\ KeptMarks(f)
           /\ proc' = [proc EXCEPT ![daemon] = "dying"]
           /\ accepting' = (accepting /\ proc[daemon] # "up")

LEMMA StopChildMoves ==
  ASSUME CallsTyped, KidsTyped, NEW f \in Flows, StopChild(f)
  PROVE  \/ Ends(f)
         \/ /\ UNCHANGED procVars /\ daemon = None
            /\ Moved(f) /\ Kept(f) /\ flow'[f].pc = Thrown(f)
<1>1. CASE daemon = None
  BY <1>1, ThrowMoves DEF StopChild
<1>2. CASE daemon # None
  <2>. DEFINE r == [flow[f] EXCEPT !.pc = "kill", !.child = daemon]
  <2>1. /\ r \in Call /\ r.pc = "kill" /\ r.child = daemon /\ r.mode = flow[f].mode
        /\ r.drained = flow[f].drained /\ r.cut = flow[f].cut /\ r.live = flow[f].live
    BY PlaceNames DEF CallsTyped, Call, KidsTyped
  <2>2. flow' = [flow EXCEPT ![f] = r]
    BY <1>2 DEF StopChild, CallsTyped
  <2>. HIDE DEF r
  <2>. QED
    BY <1>2, <2>1, <2>2, SetMoves DEF StopChild, Ends, KeptMarks
<1>. QED
  BY <1>1, <1>2

(* waitForProxy                                                            *)
Readies(f) ==
  /\ At(f, "up") /\ Guards /\ UNCHANGED <<daemon, mine, file, lost, envVars, tunnel>>
  /\ \/ /\ UNCHANGED procVars /\ Moved(f) /\ f \notin Recoveries /\ Kept(f)
        /\ flow'[f].pc = (IF f = "start" THEN "ready" ELSE "undone")
     \/ /\ UNCHANGED procVars /\ Moved(f) /\ f \in Recoveries
        /\ flow'[f].pc = "check" /\ flow'[f].mode = "run"
     \/ Ends(f)
     \/ UNCHANGED procVars /\ Moved(f) /\ Kept(f) /\ flow'[f].pc = Thrown(f)

LEMMA ReadyMoves ==
  ASSUME CallsTyped, KidsTyped, NEW f \in Flows, DaemonUp(f)
  PROVE  Readies(f)
<1>1. /\ At(f, "up") /\ Guards /\ UNCHANGED <<daemon, mine, file, lost, envVars, tunnel>>
  BY DEF DaemonUp, Guards, guardVars, callVars
<1>2. CASE f \in Recoveries /\ flow' = [flow EXCEPT ![f] = [Idle EXCEPT !.pc = "check"]]
           /\ UNCHANGED procVars
  <2>. DEFINE r == [Idle EXCEPT !.pc = "check"]
  <2>1. r \in Call /\ r.pc = "check" /\ r.mode = "run"
    BY PlaceNames, NoFileTyped DEF Idle, Call
  <2>. HIDE DEF r
  <2>. QED
    BY <1>1, <1>2, <2>1, SetMoves DEF Readies, r
<1>3. CASE f \notin Recoveries /\ Go(f, IF f = "start" THEN "ready" ELSE "undone")
           /\ UNCHANGED procVars
  <2>. DEFINE p == IF f = "start" THEN "ready" ELSE "undone"
  <2>1. p \in Places
    BY PlaceNames
  <2>. HIDE DEF p
  <2>2. Moved(f) /\ Kept(f) /\ flow'[f].pc = p
    BY <1>3, <2>1, GoMoves DEF p
  <2>. QED
    BY <1>1, <1>3, <2>2 DEF Readies, p
<1>4. CASE StopChild(f)
  BY <1>1, <1>4, StopChildMoves DEF Readies
<1>5. CASE Throws(f) /\ UNCHANGED procVars
  BY <1>1, <1>5, ThrowMoves DEF Readies
<1>. QED
  BY <1>2, <1>3, <1>4, <1>5 DEF DaemonUp, procVars

(* stopChild's child has exited.                                           *)
Buries(f) ==
  /\ At(f, "kill") /\ flow[f].child \notin Alive
  /\ Forget(flow[f].child) /\ Guards
  /\ UNCHANGED <<procVars, file, mine, envVars, tunnel>>
  /\ Moved(f) /\ Kept(f)
  /\ flow'[f].pc = IF flow[f].mode = "clean" THEN "cleaned" ELSE Thrown(f)

LEMMA KillMoves ==
  ASSUME CallsTyped, NEW f \in Flows, ChildKilled(f)
  PROVE  Buries(f)
  BY PlaceNames, GoMoves, ThrowMoves DEF ChildKilled, Buries, Guards, guardVars

(* acquireDrain, and the resume that gives a daemon back.                  *)
Given == \/ accepting' = (Listening # {})
         \/ "resume" \in faulted'

DrainMoves(f) ==
  /\ Guards /\ UNCHANGED <<proc, childVars, file, lost, envVars, tunnel>>
  /\ \/ At(f, "drain") /\ accepting' = FALSE /\ UNCHANGED flow
     \/ /\ At(f, "drain") /\ accepting' = FALSE /\ Moved(f)
        /\ flow'[f].mode = flow[f].mode /\ flow'[f].child = flow[f].child
        /\ flow'[f].cut = flow[f].cut /\ flow'[f].drained
        /\ flow'[f].pc = Drained(f)
     \/ /\ At(f, "drain") \/ At(f, "giveback")
        /\ Moved(f) /\ Kept(f) /\ flow'[f].pc = "threw" /\ Given

LEMMA DrainsMove ==
  ASSUME CallsTyped, NEW f \in Flows, DrainPolls(f) \/ DrainIdle(f) \/ DrainFails(f) \/ GiveBack(f)
  PROVE  DrainMoves(f)
<1>1. CASE DrainPolls(f)
  BY <1>1 DEF DrainPolls, DrainMoves, Guards, guardVars, callVars
<1>2. CASE DrainIdle(f)
  <2>. DEFINE p == Drained(f)
              r == [flow[f] EXCEPT !.pc = p, !.drained = TRUE]
  <2>1. p \in Places
    BY PlaceNames DEF Drained
  <2>. HIDE DEF p
  <2>2. /\ r \in Call /\ r.pc = p /\ r.mode = flow[f].mode /\ r.child = flow[f].child
        /\ r.drained /\ r.cut = flow[f].cut
    BY <2>1 DEF CallsTyped, Call
  <2>3. flow' = [flow EXCEPT ![f].pc = p, ![f].drained = TRUE]
    BY <1>2 DEF DrainIdle, p
  <2>4. flow' = [flow EXCEPT ![f] = r]
    BY <2>3 DEF CallsTyped
  <2>. HIDE DEF r
  <2>. QED
    BY <1>2, <2>2, <2>4, SetMoves DEF DrainIdle, DrainMoves, Guards, guardVars, callVars, p
<1>3. CASE DrainFails(f)
  BY <1>3, GoMoves, PlaceNames
     DEF DrainFails, DrainMoves, DrainRefused, Given, Fault, Guards, guardVars, callVars
<1>4. CASE GiveBack(f)
  BY <1>4, GoMoves, PlaceNames
     DEF GiveBack, DrainMoves, DrainRefused, Given, Fault, Guards, guardVars, callVars
<1>. QED
  BY <1>1, <1>2, <1>3, <1>4

(* /admin/shutdown                                                         *)
Shuts(f) ==
  /\ At(f, "shutdown") /\ Moved(f) /\ KeptMarks(f) /\ Guards
  /\ UNCHANGED <<accepting, childVars, file, lost, envVars, tunnel>>
  /\ \/ /\ daemon = None /\ flow[f].mode # "stale" /\ UNCHANGED proc
        /\ flow'[f].pc = IF flow[f].mode = "clean" THEN "cleaned" ELSE "ready"
     \/ /\ flow'[f].pc = "exit"
        /\ flow'[f].child = IF flow[f].mode = "stale" THEN flow[f].child ELSE daemon
        /\ \E c \in Listening : proc' = [proc EXCEPT ![c] = "exiting"]
     \/ flow'[f].pc = Refused(f) /\ Kept(f) /\ UNCHANGED proc

LEMMA ShutdownMoves ==
  ASSUME CallsTyped, KidsTyped, NEW f \in Flows, Shutdown(f)
  PROVE  Shuts(f)
<1>1. /\ At(f, "shutdown") /\ Guards
      /\ UNCHANGED <<accepting, childVars, file, lost, envVars, tunnel>>
  BY DEF Shutdown, Guards, guardVars, callVars
<1>2. CASE /\ daemon = None /\ flow[f].mode # "stale" /\ UNCHANGED proc
           /\ Go(f, IF flow[f].mode = "clean" THEN "cleaned" ELSE "ready")
  BY <1>1, <1>2, GoMoves, PlaceNames DEF Shuts, Kept
<1>3. CASE \E c \in Listening :
             /\ proc' = [proc EXCEPT ![c] = "exiting"]
             /\ flow' = [flow EXCEPT ![f].pc = "exit",
                           ![f].child = IF flow[f].mode = "stale" THEN @ ELSE daemon]
  <2>. DEFINE c0 == IF flow[f].mode = "stale" THEN flow[f].child ELSE daemon
              r == [flow[f] EXCEPT !.pc = "exit", !.child = c0]
  <2>1. c0 \in Children \cup {None}
    BY DEF CallsTyped, Call, KidsTyped
  <2>2. flow' = [flow EXCEPT ![f].pc = "exit", ![f].child = c0]
    BY <1>3 DEF CallsTyped, Call
  <2>. HIDE DEF c0
  <2>3. /\ r \in Call /\ r.pc = "exit" /\ r.child = c0 /\ r.mode = flow[f].mode
        /\ r.drained = flow[f].drained /\ r.cut = flow[f].cut /\ r.live = flow[f].live
    BY <2>1, PlaceNames DEF CallsTyped, Call
  <2>4. flow' = [flow EXCEPT ![f] = r]
    BY <2>2 DEF CallsTyped
  <2>. HIDE DEF r
  <2>5. Moved(f) /\ flow'[f] = r
    BY <2>3, <2>4, SetMoves
  <2>. QED
    BY <1>1, <1>3, <2>3, <2>5 DEF Shuts, KeptMarks, c0
<1>4. CASE Go(f, Refused(f)) /\ UNCHANGED proc
  <2>1. Refused(f) \in Places
    BY PlaceNames DEF Refused
  <2>. QED
    BY <1>1, <1>4, <2>1, GoMoves DEF Shuts, Kept
<1>. QED
  BY <1>2, <1>3, <1>4 DEF Shutdown

\* Where a call goes on whose daemon has ended.
Ended(f) == CASE flow[f].mode = "stale" -> IF flow[f].live THEN "sever" ELSE "cleaned"
              [] flow[f].mode = "clean" -> "cleaned"
              [] OTHER -> "ready"

Leaves(f) ==
  /\ At(f, "exit") /\ Moved(f) /\ Kept(f) /\ Guards
  /\ UNCHANGED <<procVars, file, mine, envVars, tunnel>>
  /\ \/ /\ flow[f].child \notin Alive /\ PortFree /\ flow'[f].pc = Ended(f)
        /\ IF flow[f].mode = "stale" THEN UNCHANGED <<daemon, lost>> ELSE Forget(flow[f].child)
     \/ UNCHANGED <<daemon, lost>> /\ flow'[f].pc = Refused(f)

LEMMA ExitMoves ==
  ASSUME CallsTyped, NEW f \in Flows, ShutDown(f)
  PROVE  Leaves(f)
<1>1. Ended(f) \in Places /\ Refused(f) \in Places
  BY PlaceNames DEF Ended, Refused
<1>2. CASE Go(f, Ended(f)) /\ flow[f].child \notin Alive /\ PortFree
           /\ IF flow[f].mode = "stale" THEN UNCHANGED <<daemon, lost>>
                                        ELSE Forget(flow[f].child)
  BY <1>1, <1>2, GoMoves DEF ShutDown, Leaves, Guards, guardVars
<1>3. CASE Go(f, Refused(f)) /\ UNCHANGED <<daemon, lost>>
  BY <1>1, <1>3, GoMoves DEF ShutDown, Leaves, Guards, guardVars
<1>. QED
  BY <1>2, <1>3 DEF ShutDown, Ended

(* stopTunnelGracefully                                                    *)
Severed(f) == CASE flow[f].mode = "run" -> IF daemon = None THEN "ready"
                                           ELSE IF flow[f].drained THEN "shutdown" ELSE "threw"
                [] flow[f].mode = "clean" -> "none"
                [] OTHER -> "cleaned"

Severs(f) ==
  /\ At(f, "sever") /\ Moved(f) /\ Machines /\ UNCHANGED <<stopping, timers, envVars>>
  /\ flow'[f].mode = flow[f].mode /\ flow'[f].drained = flow[f].drained
  /\ flow'[f].child = flow[f].child
  /\ flow'[f].pc \in {Severed(f), "threw"}

LEMMA SeverMoves ==
  ASSUME CallsTyped, NEW f \in Flows, Sever(f)
  PROVE  Severs(f)
<1>1. At(f, "sever") /\ Machines /\ UNCHANGED <<stopping, timers, envVars>>
  BY DEF Sever, Machines, callVars
<1>2. CASE flow' = [flow EXCEPT ![f].cut = TRUE, ![f].pc = Severed(f)]
  <2>. DEFINE p == Severed(f)
              r == [flow[f] EXCEPT !.cut = TRUE, !.pc = p]
  <2>1. p \in Places
    BY PlaceNames DEF Severed
  <2>. HIDE DEF p
  <2>2. /\ r \in Call /\ r.pc = p /\ r.mode = flow[f].mode /\ r.child = flow[f].child
        /\ r.drained = flow[f].drained
    BY <2>1 DEF CallsTyped, Call
  <2>3. flow' = [flow EXCEPT ![f].cut = TRUE, ![f].pc = p]
    BY <1>2 DEF p
  <2>4. flow' = [flow EXCEPT ![f] = r]
    BY <2>3 DEF CallsTyped
  <2>. HIDE DEF r
  <2>. QED
    BY <1>1, <2>2, <2>4, SetMoves DEF Severs, p
<1>3. CASE Go(f, "threw")
  BY <1>1, <1>3, GoMoves, PlaceNames DEF Severs, Kept, KeptMarks
<1>. QED
  BY <1>2, <1>3 DEF Sever, Severed

(* stopStaleOwnedRuntime                                                   *)
StaleMoves(f) ==
  /\ Moved(f) /\ UNCHANGED <<procVars, childVars, envVars, tunnel>> /\ Guards
  /\ \/ /\ At(f, "stale") /\ KeptMarks(f) /\ UNCHANGED <<file, lost>>
        /\ \/ flow'[f].pc = "threw"
           \/ /\ flow'[f].pc = "staletunnel"
              /\ \/ flow'[f].child \in Listening /\ flow'[f].child = file.daemon
                 \/ flow'[f].child = None /\ file.daemon \notin Alive
     \/ /\ At(f, "staletunnel") /\ UNCHANGED <<file, lost>>
        /\ flow'[f].mode = flow[f].mode /\ flow'[f].child = flow[f].child
        /\ flow'[f].drained = flow[f].drained /\ flow'[f].cut = flow[f].cut
        /\ \/ flow'[f].pc = "threw"
           \/ flow'[f].pc = "drain" /\ flow[f].child # None
           \/ flow'[f].pc \in {"sever", "cleaned"} /\ flow[f].child = None
     \/ /\ At(f, "cleaned") /\ flow[f].mode = "stale"
        /\ file' = NoFile /\ lost' = (lost \/ daemon # None)
        /\ Anew(f, IF f = "start" THEN "begin" ELSE "ready", "run")

LEMMA StalesMove ==
  ASSUME CallsTyped, Flags, NEW f \in Flows, StaleStep(f)
  PROVE  StaleMoves(f)
<1>1. CASE StaleHealth(f)
  <2>. DEFINE c == CHOOSE c \in Listening : TRUE
              fits(seen) == IF seen THEN c = file.daemon ELSE file.daemon \notin Alive
              p(seen) == IF fits(seen) THEN "staletunnel" ELSE "threw"
              d(seen) == IF seen THEN c ELSE None
  <2>1. PICK seen \in BOOLEAN :
          /\ Probe(seen, recognised /\ Listening # {})
          /\ flow' = [flow EXCEPT ![f].pc = p(seen), ![f].child = d(seen)]
    BY <1>1 DEF StaleHealth
  <2>2. Listening # {} => c \in Listening
    OBVIOUS
  <2>3. seen => c \in Listening
    BY <2>1, <2>2 DEF Probe
  <2>4. p(seen) \in Places /\ d(seen) \in Children \cup {None}
    BY <2>3, PlaceNames DEF Listening
  <2>5. /\ p(seen) \in {"staletunnel", "threw"}
        /\ p(seen) = "staletunnel" =>
             \/ d(seen) \in Listening /\ d(seen) = file.daemon
             \/ d(seen) = None /\ file.daemon \notin Alive
    BY <2>3
  <2>. HIDE DEF c, fits, p, d
  <2>. DEFINE r == [flow[f] EXCEPT !.pc = p(seen), !.child = d(seen)]
  <2>6. /\ r \in Call /\ r.pc = p(seen) /\ r.child = d(seen) /\ r.mode = flow[f].mode
        /\ r.drained = flow[f].drained /\ r.cut = flow[f].cut /\ r.live = flow[f].live
    BY <2>4 DEF CallsTyped, Call
  <2>7. flow' = [flow EXCEPT ![f] = r]
    BY <2>1 DEF CallsTyped
  <2>. HIDE DEF r
  <2>8. Moved(f) /\ flow'[f] = r
    BY <2>6, <2>7, SetMoves
  <2>. QED
    BY <1>1, <2>5, <2>6, <2>8
       DEF StaleHealth, StaleMoves, KeptMarks, Guards, guardVars, callVars
<1>2. CASE StaleTunnel(f)
  <2>. DEFINE p == IF flow[f].child # None THEN "drain"
                   ELSE IF native THEN "sever" ELSE "cleaned"
  <2>1. CASE flow' = [flow EXCEPT ![f].live = native, ![f].pc = p]
    <3>1. p \in Places
      BY PlaceNames
    <3>2. \/ p = "drain" /\ flow[f].child # None
          \/ p \in {"sever", "cleaned"} /\ flow[f].child = None
      OBVIOUS
    <3>. HIDE DEF p
    <3>. DEFINE r == [flow[f] EXCEPT !.live = native, !.pc = p]
    <3>3. /\ r \in Call /\ r.pc = p /\ r.child = flow[f].child /\ r.mode = flow[f].mode
          /\ r.drained = flow[f].drained /\ r.cut = flow[f].cut
      BY <3>1 DEF CallsTyped, Call, Flags
    <3>4. flow' = [flow EXCEPT ![f] = r]
      BY <2>1 DEF CallsTyped
    <3>. HIDE DEF r
    <3>. QED
      BY <1>2, <3>2, <3>3, <3>4, SetMoves
         DEF StaleTunnel, StaleMoves, Guards, guardVars, callVars
  <2>2. CASE Go(f, "threw")
    BY <1>2, <2>2, GoMoves, PlaceNames
       DEF StaleTunnel, StaleMoves, Kept, KeptMarks, Guards, guardVars, callVars
  <2>. QED
    BY <1>2, <2>1, <2>2 DEF StaleTunnel
<1>3. CASE StaleGone(f)
  <2>. DEFINE p == IF f = "start" THEN "begin" ELSE "ready"
  <2>1. p \in Places
    BY PlaceNames
  <2>. DEFINE r == [Idle EXCEPT !.pc = p]
  <2>2. /\ r \in Call /\ r.pc = p /\ r.mode = "run" /\ r.child = None /\ ~r.drained
        /\ ~r.cut
    BY <2>1, NoFileTyped DEF Idle, Call
  <2>3. flow' = [flow EXCEPT ![f] = r]
    BY <1>3 DEF StaleGone
  <2>. HIDE DEF r, p
  <2>4. Moved(f) /\ flow'[f] = r
    BY <2>2, <2>3, SetMoves
  <2>. QED
    BY <1>3, <2>2, <2>4 DEF StaleGone, StaleMoves, Anew, Guards, guardVars, p
<1>. QED
  BY <1>1, <1>2, <1>3 DEF StaleStep

(* cleanupFailedStart                                                      *)
CleanMoves(f) ==
  /\ UNCHANGED <<daemon, mine, file, lost, envVars, tunnel>> /\ Guards
  /\ \/ /\ At(f, "cleanup") /\ UNCHANGED procVars /\ Moved(f) /\ Kept(f)
        /\ \/ daemon = None /\ flow'[f].pc = "cleaned"
           \/ daemon # None /\ flow'[f].pc = "drain"
     \/ At(f, "cleanup") /\ Ends(f)
     \/ /\ At(f, "cleaned") /\ flow[f].mode = "clean" /\ UNCHANGED procVars
        /\ Moved(f) /\ Kept(f) /\ flow'[f].pc \in {"sever", "none"}

LEMMA CleansMove ==
  ASSUME CallsTyped, KidsTyped, NEW f \in Flows, CleanStep(f)
  PROVE  CleanMoves(f)
<1>1. CASE CleanDaemon(f)
  <2>1. CASE daemon = None
    BY <1>1, <2>1, GoMoves, PlaceNames DEF CleanDaemon, CleanMoves, Guards, guardVars, callVars
  <2>2. CASE daemon # None /\ Go(f, "drain") /\ UNCHANGED procVars
    BY <1>1, <2>2, GoMoves, PlaceNames DEF CleanDaemon, CleanMoves, Guards, guardVars, callVars
  <2>3. CASE daemon # None /\ StopChild(f)
    BY <1>1, <2>3, StopChildMoves DEF CleanDaemon, CleanMoves, Guards, guardVars, callVars
  <2>. QED
    BY <1>1, <2>1, <2>2, <2>3 DEF CleanDaemon
<1>2. CASE CleanTunnel(f)
  <2>. DEFINE p == IF tunnel THEN "sever" ELSE "none"
  <2>1. p \in Places /\ p \in {"sever", "none"}
    BY PlaceNames
  <2>2. Go(f, p)
    BY <1>2 DEF CleanTunnel
  <2>. HIDE DEF p
  <2>. QED
    BY <1>2, <2>1, <2>2, GoMoves
       DEF CleanTunnel, CleanMoves, Guards, guardVars, callVars, childVars
<1>. QED
  BY <1>1, <1>2 DEF CleanStep

(* A record that names a live process is kept by writeExternal, ExternalState.       *)
Outside == \/ UNCHANGED file
           \/ file' = Snapshot("external", daemon, tunnel) /\ (file = NoFile \/ ~Running(file))

(* startConfigured                                                         *)
StartAsks ==
  LET f == "start" IN
  /\ Moved(f) /\ UNCHANGED <<stopping, timers>>
  /\ \/ /\ up /\ Quiet /\ flow[f].pc = "idle" /\ Kept(f) /\ UNCHANGED file
        /\ flow'[f].pc = IF flow["stop"].pc = "idle" THEN "enter" ELSE "await"
     \/ /\ At(f, "enter") \/ (At(f, "await") /\ flow["stop"].pc = "idle")
        /\ Kept(f) /\ UNCHANGED file
        /\ flow'[f].pc = IF daemon = None /\ ~tunnel THEN "look" ELSE "begin"
     \/ /\ At(f, "look")
        /\ \/ /\ ~MayBeLive(file) /\ flow'[f].pc = "begin" /\ Kept(f) /\ UNCHANGED file
           \/ file = NoFile /\ flow'[f] = Idle /\ Outside
           \/ /\ flow'[f].pc = "stale" /\ flow'[f].mode = "stale" /\ UNCHANGED file

StartGoes ==
  LET f == "start" IN
  /\ Moved(f) /\ UNCHANGED timers
  /\ \/ /\ At(f, "begin") /\ flow'[f].pc = "status" /\ Kept(f)
        /\ UNCHANGED file /\ stopping' = FALSE
     \/ /\ At(f, "ready") /\ UNCHANGED stopping
        /\ \/ file' = Snapshot("ready", daemon, tunnel) /\ flow'[f] = Idle
           \/ UNCHANGED file /\ flow'[f].pc = "threw" /\ Kept(f)

StartLoses ==
  LET f == "start" IN
  /\ Moved(f)
  /\ \/ /\ At(f, "threw") /\ UNCHANGED timers
        /\ \/ /\ flow[f].mode = "run" /\ stopping' = TRUE /\ UNCHANGED file
              /\ Anew(f, "cleanup", "clean")
           \/ /\ flow[f].mode = "clean" /\ flow'[f].pc = "none" /\ Kept(f)
              /\ UNCHANGED <<file, stopping>>
           \/ /\ flow[f].mode \notin {"run", "clean"} /\ flow'[f] = Idle /\ Outside
              /\ UNCHANGED stopping
     \/ /\ At(f, "none") /\ flow'[f] = Idle
        /\ \/ /\ stopping' = FALSE /\ UNCHANGED timers
              /\ file' = Snapshot("failed", daemon, tunnel)
           \/ stopping' = TRUE /\ timers' = {} /\ UNCHANGED file

StartMoves == /\ UNCHANGED <<procVars, childVars, monitor, lost, envVars, tunnel>>
              /\ StartAsks \/ StartGoes \/ StartLoses

StartOwn == StartCall \/ StartEnters \/ StartLooks \/ StartBegins \/ StartReady \/ StartThrew
            \/ StartFailed

LEMMA StartsMove ==
  ASSUME CallsTyped, StartOwn
  PROVE  StartMoves
<1>. USE PlaceNames DEF Flows
<1>1. CASE StartCall
  <2>. DEFINE p == IF flow["stop"].pc = "idle" THEN "enter" ELSE "await"
  <2>1. Moved("start") /\ Kept("start") /\ flow'["start"].pc = p
    BY <1>1, GoMoves DEF StartCall
  <2>. HIDE DEF p
  <2>. QED
    BY <1>1, <2>1 DEF StartCall, StartMoves, StartAsks, guardVars, p
<1>2. CASE StartEnters
  <2>. DEFINE p == IF daemon = None /\ ~tunnel THEN "look" ELSE "begin"
  <2>1. Moved("start") /\ Kept("start") /\ flow'["start"].pc = p
    BY <1>2, GoMoves DEF StartEnters
  <2>. HIDE DEF p
  <2>. QED
    BY <1>2, <2>1 DEF StartEnters, StartMoves, StartAsks, guardVars, p
<1>3. ASSUME External PROVE Outside /\ Leave("start")
  BY <1>3 DEF External, ExternalState, Outside
<1>4. CASE StartLooks
  <2>0. /\ At("start", "look")
        /\ UNCHANGED <<procVars, childVars, lost, envVars, tunnel, stopping, timers, monitor>>
    BY <1>4 DEF StartLooks, guardVars, callVars
  <2>1. CASE ~MayBeLive(file) /\ Go("start", "begin") /\ UNCHANGED file
    BY <2>0, <2>1, GoMoves DEF StartMoves, StartAsks
  <2>2. CASE file = NoFile /\ External
    BY <1>3, <2>0, <2>2, LeaveMoves DEF StartMoves, StartAsks
  <2>3. CASE /\ UNCHANGED file
             /\ flow' = [flow EXCEPT !["start"].pc = "stale", !["start"].mode = "stale"]
    <3>. DEFINE r == [flow["start"] EXCEPT !.pc = "stale", !.mode = "stale"]
    <3>1. r \in Call /\ r.pc = "stale" /\ r.mode = "stale"
      BY DEF CallsTyped, Call
    <3>2. flow' = [flow EXCEPT !["start"] = r]
      BY <2>3 DEF CallsTyped
    <3>. HIDE DEF r
    <3>. QED
      BY <2>0, <2>3, <3>1, <3>2, SetMoves DEF StartMoves, StartAsks
  <2>. QED
    BY <1>4, <2>1, <2>2, <2>3 DEF StartLooks
<1>5. CASE StartBegins
  BY <1>5, GoMoves DEF StartBegins, StartMoves, StartGoes, callVars
<1>6. CASE StartReady
  BY <1>6, GoMoves, LeaveMoves DEF StartReady, StartMoves, StartGoes, callVars
<1>7. CASE StartThrew
  <2>0. /\ At("start", "threw") /\ UNCHANGED timers
        /\ UNCHANGED <<procVars, childVars, lost, envVars, tunnel, monitor>>
    BY <1>7 DEF StartThrew, callVars
  <2>1. CASE /\ flow["start"].mode = "run" /\ stopping' = TRUE /\ UNCHANGED file
             /\ flow' = [flow EXCEPT !["start"] = [Idle EXCEPT !.pc = "cleanup", !.mode = "clean"]]
    BY <2>0, <2>1, AnewMoves DEF StartMoves, StartLoses
  <2>2. CASE flow["start"].mode = "clean" /\ Go("start", "none") /\ UNCHANGED <<stopping, file>>
    BY <2>0, <2>2, GoMoves DEF StartMoves, StartLoses
  <2>3. CASE /\ flow["start"].mode \notin {"run", "clean"} /\ External
             /\ UNCHANGED stopping
    BY <1>3, <2>0, <2>3, LeaveMoves DEF StartMoves, StartLoses
  <2>. QED
    BY <1>7, <2>1, <2>2, <2>3 DEF StartThrew
<1>8. CASE StartFailed
  BY <1>8, LeaveMoves DEF StartFailed, StartMoves, StartLoses, callVars
<1>. QED
  BY <1>1, <1>2, <1>4, <1>5, <1>6, <1>7, <1>8 DEF StartOwn

(* performStopForSetup and its compensation                                *)
StopAsks ==
  LET f == "stop" IN
  /\ Moved(f) /\ UNCHANGED <<file, lost, tunnel>>
  /\ \/ /\ up /\ Quiet /\ flow[f].pc = "idle" /\ Kept(f) /\ Guards
        /\ flow'[f].pc = IF flow["start"].pc = "idle" THEN "enter" ELSE "await"
     \/ /\ At(f, "enter") \/ (At(f, "await") /\ flow["start"].pc = "idle")
        /\ Kept(f) /\ flow'[f].pc = "recoveries"
        /\ stopping' = TRUE /\ monitor' = FALSE /\ timers' = {}
     \/ /\ At(f, "recoveries") /\ (\A n \in Recoveries : flow[n].pc = "idle") /\ Guards
        /\ flow'[f].pc = "asked" /\ Kept(f) /\ flow'[f].read = file
     \/ /\ At(f, "asked") /\ Guards
        /\ flow'[f].pc \in {"adopt", "branch"} /\ flow'[f].mode = flow[f].mode
        /\ flow'[f].drained = flow[f].drained /\ flow'[f].cut = flow[f].cut
        /\ MayBeLive(flow[f].read) => flow'[f].live

StopAims ==
  LET f == "stop" IN
  /\ Moved(f) /\ UNCHANGED file /\ Guards
  /\ \/ /\ At(f, "adopt") /\ Kept(f)
        /\ \/ /\ flow'[f].pc = "branch" /\ tunnel' = (tunnel \/ native)
              /\ lost' = (lost \/ (native /\ daemon = None /\ Serving # {}))
           \/ flow'[f].pc = "threw" /\ UNCHANGED <<tunnel, lost>>
     \/ /\ At(f, "branch") /\ UNCHANGED <<tunnel, lost>>
        /\ \/ daemon # None /\ flow'[f].pc = "health" /\ Kept(f)
           \/ daemon = None /\ tunnel /\ flow'[f].pc = "sever" /\ Kept(f)
           \/ daemon = None /\ ~flow[f].live /\ flow'[f].pc = "ready" /\ Kept(f)
           \/ daemon = None /\ ~tunnel /\ flow'[f].pc = "threw" /\ Kept(f)
           \/ daemon = None /\ ~tunnel /\ flow'[f].pc = "stale" /\ flow'[f].mode = "stale"
     \/ /\ At(f, "health") /\ Kept(f) /\ UNCHANGED <<tunnel, lost>>
        /\ flow'[f].pc = "drain" => recognised
        /\ flow'[f].pc \in {"drain", "threw"}

\* A stop that throws moves nothing but a start that awaits it, which throws too.
StopThrown == /\ flow' \in [Flows -> Call] /\ flow'["stop"] = Idle
              /\ \A g \in Flows \ {"stop"} :
                   \/ flow'[g] = flow[g]
                   \/ g = "start" /\ flow[g].pc = "await" /\ flow'[g] = Idle

StopEnds ==
  LET f == "stop" IN
  /\ UNCHANGED <<tunnel, monitor>>
  /\ \/ /\ At(f, "ready") /\ Moved(f) /\ flow'[f] = Idle
        /\ file' = NoFile /\ stopping' = FALSE /\ UNCHANGED <<lost, timers>>
     \/ /\ At(f, "verdict") /\ StopThrown /\ stopping' = FALSE
        /\ timers' \in {timers, {}} /\ Written(daemon, tunnel)
        /\ lost' = (lost \/ (daemon = None /\ Serving # {}))

StopGivesBack ==
  LET f == "stop" IN
  /\ Moved(f) /\ UNCHANGED <<file, lost, tunnel>> /\ Guards
  /\ \/ /\ At(f, "threw") /\ flow'[f].pc = "undone" /\ flow'[f].mode = "undo"
        /\ flow'[f].cut = (flow[f].mode = "run" /\ flow[f].cut)
        /\ flow'[f].drained = (flow[f].mode = "run" /\ flow[f].drained)
     \/ /\ At(f, "undone") /\ flow'[f].mode = flow[f].mode
        /\ \/ flow[f].cut /\ flow'[f].pc = "status" /\ flow'[f].drained = flow[f].drained
           \/ flow[f].drained /\ flow'[f].pc = "restore"
           \/ ~flow[f].drained /\ flow'[f].pc = "verdict" /\ KeptMarks(f)
     \/ /\ At(f, "restore") /\ KeptMarks(f)
        /\ \/ daemon = None /\ flow'[f].pc = "port"
           \/ daemon # None /\ flow'[f].pc = "resume"
           \/ /\ daemon # None /\ flow'[f].pc = "undone"
              /\ ~Healthy(daemon) \/ "probe" \in faulted'
     \/ At(f, "port") /\ KeptMarks(f) /\ flow'[f].pc \in {"spawn", "undone"}

StopMoves == /\ UNCHANGED <<procVars, childVars, envVars>>
             /\ StopAsks \/ StopAims \/ StopEnds \/ StopGivesBack

StopOwn == StopCall \/ StopEnters \/ StopReads \/ StopLooks \/ StopAdopts \/ StopBranches
           \/ StopIdentifies \/ StopDone \/ StopThrew \/ StopUndoes \/ StopRestores
           \/ StopAwaitsPort \/ StopFails

LEMMA StopsMove ==
  ASSUME CallsTyped, FileTyped, KidsTyped, StopOwn
  PROVE  StopMoves
<1>. USE PlaceNames DEF Flows
<1>. DEFINE f == "stop"
<1>0. f \in Flows /\ flow[f] \in Call
  BY CallType
<1>1. CASE StopCall
  <2>. DEFINE p == IF flow["start"].pc = "idle" THEN "enter" ELSE "await"
  <2>1. Moved("stop") /\ Kept("stop") /\ flow'["stop"].pc = p
    BY <1>1, GoMoves DEF StopCall
  <2>. HIDE DEF p
  <2>. QED
    BY <1>1, <2>1 DEF StopCall, StopAsks, StopMoves, Guards, guardVars, p
<1>2. CASE StopEnters
  BY <1>2, GoMoves DEF StopEnters, StopAsks, StopMoves, callVars, Disarmed
<1>3. CASE StopLooks
  <2>. DEFINE read == flow["stop"].read
  <2>1. PICK seen \in BOOLEAN :
          flow' = [flow EXCEPT !["stop"].live = seen \/ MayBeLive(read), !["stop"].read = NoFile,
            !["stop"].pc = IF ~tunnel /\ ((seen \/ MayBeLive(read)) \/ read = NoFile)
                           THEN "adopt" ELSE "branch"]
    BY <1>3 DEF StopLooks
  <2>. DEFINE live == seen \/ MayBeLive(read)
              p == IF ~tunnel /\ (live \/ read = NoFile) THEN "adopt" ELSE "branch"
  <2>2. live \in BOOLEAN /\ (MayBeLive(read) => live)
    BY DEF MayBeLive
  <2>3. p \in Places /\ p \in {"adopt", "branch"}
    OBVIOUS
  <2>4. flow' = [flow EXCEPT !["stop"].live = live, !["stop"].read = NoFile, !["stop"].pc = p]
    BY <2>1
  <2>. HIDE DEF live, p
  <2>. DEFINE r == [flow[f] EXCEPT !.live = live, !.read = NoFile, !.pc = p]
  <2>5. /\ r \in Call /\ r.pc = p /\ r.mode = flow[f].mode /\ r.live = live
        /\ r.drained = flow[f].drained /\ r.cut = flow[f].cut
    BY <2>2, <2>3, <1>0, NoFileTyped DEF Call
  <2>6. flow' = [flow EXCEPT !["stop"] = r]
    BY <2>4 DEF CallsTyped
  <2>. HIDE DEF r
  <2>7. Moved("stop") /\ flow'["stop"] = r
    BY <2>5, <2>6, SetMoves
  <2>8. /\ At("stop", "asked")
        /\ Guards /\ UNCHANGED <<procVars, childVars, envVars, file, lost, tunnel>>
    BY <1>3 DEF StopLooks, Guards, guardVars, callVars
  <2>. QED
    BY <2>2, <2>3, <2>5, <2>7, <2>8 DEF StopAsks, StopMoves
<1>4. CASE StopAdopts
  BY <1>4, GoMoves DEF StopAdopts, StopAims, StopMoves, Guards, guardVars
<1>5. CASE StopBranches
  <2>0. /\ At("stop", "branch") /\ Guards
        /\ UNCHANGED <<procVars, childVars, envVars, file, lost, tunnel>>
    BY <1>5 DEF StopBranches, Guards, guardVars, callVars
  <2>1. CASE daemon # None
    BY <1>5, <2>0, <2>1, GoMoves DEF StopBranches, StopAims, StopMoves
  <2>2. CASE daemon = None /\ tunnel
    BY <1>5, <2>0, <2>2, GoMoves DEF StopBranches, StopAims, StopMoves
  <2>3. CASE daemon = None /\ ~tunnel /\ ~flow["stop"].live
    BY <1>5, <2>0, <2>3, GoMoves DEF StopBranches, StopAims, StopMoves
  <2>4. CASE daemon = None /\ ~tunnel /\ flow["stop"].live /\ file = NoFile
    BY <1>5, <2>0, <2>4, GoMoves DEF StopBranches, StopAims, StopMoves
  <2>5. CASE daemon = None /\ ~tunnel /\ flow["stop"].live /\ file # NoFile
    <3>. DEFINE r == [flow[f] EXCEPT !.pc = "stale", !.mode = "stale"]
    <3>1. r \in Call /\ r.pc = "stale" /\ r.mode = "stale"
      BY <1>0 DEF Call
    <3>2. flow' = [flow EXCEPT !["stop"] = r]
      BY <1>5, <2>5 DEF StopBranches, CallsTyped
    <3>. HIDE DEF r
    <3>3. Moved("stop") /\ flow'["stop"] = r
      BY <3>1, <3>2, SetMoves
    <3>. QED
      BY <2>0, <2>5, <3>1, <3>3 DEF StopAims, StopMoves
  <2>. QED
    BY <2>1, <2>2, <2>3, <2>4, <2>5
<1>6. CASE StopIdentifies
  <2>0. /\ At("stop", "health") /\ Guards
        /\ UNCHANGED <<procVars, childVars, envVars, file, lost, tunnel>>
    BY <1>6 DEF StopIdentifies, Guards, guardVars, callVars
  <2>1. \/ Go("stop", "drain") /\ recognised
        \/ Go("stop", "threw")
    BY <1>6 DEF StopIdentifies, Probe, Healthy
  <2>. QED
    BY <2>0, <2>1, GoMoves DEF StopAims, StopMoves
<1>7. CASE StopDone
  BY <1>7, LeaveMoves DEF StopDone, StopEnds, StopMoves
<1>8. CASE StopThrew
  <2>. DEFINE cut == flow[f].mode = "run" /\ flow[f].cut
              drained == flow[f].mode = "run" /\ flow[f].drained
              r == [Idle EXCEPT !.pc = "undone", !.mode = "undo", !.cut = cut,
                                !.drained = drained]
  <2>1. cut \in BOOLEAN /\ drained \in BOOLEAN
    BY <1>0 DEF Call
  <2>2. flow' = [flow EXCEPT !["stop"] = [Idle EXCEPT !.pc = "undone", !.mode = "undo",
                   !.cut = FALSE \/ cut, !.drained = FALSE \/ drained]]
    BY <1>8 DEF StopThrew, Idle
  <2>3. (FALSE \/ cut) = cut /\ (FALSE \/ drained) = drained
    BY <2>1
  <2>4. flow' = [flow EXCEPT !["stop"] = r]
    BY <2>2, <2>3
  <2>. HIDE DEF cut, drained
  <2>5. /\ r \in Call /\ r.pc = "undone" /\ r.mode = "undo" /\ r.cut = cut
        /\ r.drained = drained
    BY <2>1, NoFileTyped DEF Call, Idle
  <2>. HIDE DEF r
  <2>6. Moved("stop") /\ flow'["stop"] = r
    BY <2>4, <2>5, SetMoves
  <2>. QED
    BY <1>8, <2>5, <2>6
       DEF StopThrew, StopGivesBack, StopMoves, Guards, guardVars, callVars, cut, drained
<1>9. CASE StopUndoes
  <2>0. /\ At("stop", "undone") /\ Guards
        /\ UNCHANGED <<procVars, childVars, envVars, file, lost, tunnel>>
    BY <1>9 DEF StopUndoes, Guards, guardVars, callVars
  <2>. DEFINE r == Undone(flow[f])
  <2>1. /\ r \in Call /\ r.mode = flow[f].mode
        /\ \/ flow[f].cut /\ r.pc = "status" /\ r.drained = flow[f].drained
           \/ flow[f].drained /\ r.pc = "restore"
           \/ /\ ~flow[f].drained /\ r.pc = "verdict" /\ r.drained = flow[f].drained
              /\ r.cut = flow[f].cut /\ r.live = flow[f].live
    <3>1. CASE flow[f].cut /\ ~tunnel
      BY <1>0, <3>1 DEF Undone, Call
    <3>2. CASE ~(flow[f].cut /\ ~tunnel) /\ flow[f].drained
      BY <1>0, <3>2 DEF Undone, Call
    <3>3. CASE ~(flow[f].cut /\ ~tunnel) /\ ~flow[f].drained
      BY <1>0, <3>3 DEF Undone, Call
    <3>. QED
      BY <3>1, <3>2, <3>3
  <2>2. flow' = [flow EXCEPT !["stop"] = r]
    BY <1>9 DEF StopUndoes
  <2>. HIDE DEF r
  <2>3. Moved("stop") /\ flow'["stop"] = r
    BY <2>1, <2>2, SetMoves
  <2>. QED
    BY <2>0, <2>1, <2>3 DEF StopGivesBack, StopMoves, KeptMarks
<1>10. CASE StopRestores
  <2>0. /\ At("stop", "restore") /\ Guards
        /\ UNCHANGED <<procVars, childVars, envVars, file, lost, tunnel>>
    BY <1>10 DEF StopRestores, Guards, guardVars, callVars
  <2>1. CASE daemon = None
    BY <1>10, <2>0, <2>1, GoMoves DEF StopRestores, StopGivesBack, StopMoves, Kept
  <2>2. CASE daemon # None
    <3>1. PICK seen \in BOOLEAN :
            /\ Probe(seen, Healthy(daemon))
            /\ flow' = [flow EXCEPT !["stop"].pc = IF seen THEN "resume" ELSE "undone",
                                    !["stop"].child = daemon, !["stop"].fresh = FALSE,
                                    !["stop"].err = @ \/ ~seen]
      BY <1>10, <2>2 DEF StopRestores
    <3>. DEFINE p == IF seen THEN "resume" ELSE "undone"
                e == flow[f].err \/ ~seen
                r == [flow[f] EXCEPT !.pc = p, !.child = daemon, !.fresh = FALSE, !.err = e]
    <3>2. /\ p \in Places /\ e \in BOOLEAN
          /\ p = "resume" \/ (p = "undone" /\ (~Healthy(daemon) \/ "probe" \in faulted'))
      BY <1>0, <3>1 DEF Call, Probe, Fault
    <3>3. flow' = [flow EXCEPT !["stop"].pc = p, !["stop"].child = daemon,
                               !["stop"].fresh = FALSE, !["stop"].err = e]
      BY <3>1, <1>0 DEF CallsTyped, Call
    <3>. HIDE DEF p, e
    <3>4. /\ r \in Call /\ r.pc = p /\ r.mode = flow[f].mode /\ r.live = flow[f].live
          /\ r.drained = flow[f].drained /\ r.cut = flow[f].cut
      BY <3>2, <1>0 DEF Call, KidsTyped
    <3>5. flow' = [flow EXCEPT !["stop"] = r]
      BY <3>3 DEF CallsTyped
    <3>. HIDE DEF r
    <3>6. Moved("stop") /\ flow'["stop"] = r
      BY <3>4, <3>5, SetMoves
    <3>. QED
      BY <2>0, <2>2, <3>2, <3>4, <3>6 DEF StopGivesBack, StopMoves, KeptMarks
  <2>. QED
    BY <2>1, <2>2
<1>11. CASE StopAwaitsPort
  BY <1>11, GoMoves, ThrowMoves
     DEF StopAwaitsPort, StopGivesBack, StopMoves, Kept, Thrown, Guards, guardVars, callVars
<1>12. CASE StopFails
  <2>1. \E s \in Statuses : s = IF ~flow["stop"].err /\ Ready /\ tunnel /\ native
                                THEN "ready" ELSE "failed"
    BY DEF Statuses
  <2>2. StopThrown
    <3>. DEFINE i == IF flow["start"].pc = "await" THEN Idle ELSE flow["start"]
    <3>1. i \in Call /\ Idle \in Call
      BY CallType, IdleFields
    <3>2. flow' = [flow EXCEPT !["stop"] = Idle, !["start"] = i]
      BY <1>12 DEF StopFails, CallsTyped
    <3>. QED
      BY <3>1, <3>2 DEF CallsTyped, StopThrown
  <2>. QED
    BY <1>12, <2>1, <2>2 DEF StopFails, StopEnds, StopMoves, Written
<1>13. CASE StopReads
  <2>. DEFINE r == [flow[f] EXCEPT !.pc = "asked", !.read = file]
  <2>1. /\ r \in Call /\ r.pc = "asked" /\ r.read = file /\ r.mode = flow[f].mode
        /\ r.live = flow[f].live /\ r.drained = flow[f].drained /\ r.cut = flow[f].cut
        /\ r.child = flow[f].child
    BY <1>0 DEF Call, FileTyped
  <2>2. flow' = [flow EXCEPT !["stop"] = r]
    BY <1>13 DEF StopReads, CallsTyped
  <2>. HIDE DEF r
  <2>3. Moved("stop") /\ flow'["stop"] = r
    BY <2>1, <2>2, SetMoves
  <2>4. /\ At("stop", "recoveries") /\ \A n \in Recoveries : flow[n].pc = "idle"
        /\ Guards /\ UNCHANGED <<procVars, childVars, envVars, file, lost, tunnel>>
    BY <1>13 DEF StopReads, Recovered, Guards, guardVars, callVars
  <2>. QED
    BY <2>1, <2>3, <2>4 DEF StopAsks, StopMoves, Kept, KeptMarks
<1>. QED
  BY <1>1, <1>2, <1>3, <1>4, <1>5, <1>6, <1>7, <1>8, <1>9, <1>10, <1>11, <1>12, <1>13 DEF StopOwn

(* recover                                                                 *)
Fires(n) ==
  /\ up /\ Quiet /\ n \in timers /\ flow[n].pc = "idle"
  /\ UNCHANGED <<file, tunnel, stopping>> /\ timers' = timers \ {n}
  /\ \/ stopping /\ UNCHANGED flow
     \/ /\ ~stopping /\ Moved(n) /\ Kept(n)
        /\ flow'[n].pc = IF n = "tunnel" THEN "status" ELSE "spawn"

Rechecks(n) ==
  /\ \/ At(n, "check") /\ flow'[n].pc \in {"threw", "proxy"}
     \/ At(n, "proxy") /\ flow'[n].pc \in {"threw", "settle"}
     \/ At(n, "settle") /\ flow'[n].pc = "threw"
  /\ Moved(n) /\ Kept(n) /\ UNCHANGED <<file, tunnel, stopping, timers>>

Settles(n) ==
  /\ Moved(n) /\ Armed(n) /\ Written(daemon, tunnel')
  /\ \/ At(n, "settle") /\ flow'[n] = Idle
     \/ /\ At(n, "settle") /\ "write" \in faulted'
        /\ Anew(n, "cleanup", "clean")
     \/ (At(n, "threw") \/ At(n, "none")) /\ flow'[n] = Idle

RecoverMoves(n) == /\ UNCHANGED <<procVars, childVars, lost, envVars, monitor>>
                   /\ Fires(n) \/ Rechecks(n) \/ Settles(n)

LEMMA RecoversMove ==
  ASSUME CallsTyped, NEW n \in Recoveries,
         \/ TimerFires(n) \/ RecoveryChecks(n) \/ RecoveryProxy(n) \/ RecoverySettles(n)
         \/ RecoveryFails(n)
  PROVE  RecoverMoves(n)
<1>. USE PlaceNames
<1>0. n \in Flows /\ Thrown(n) = "threw"
  BY DEF Flows, Recoveries, Thrown
<1>1. CASE TimerFires(n)
  <2>. DEFINE p == IF n = "tunnel" THEN "status" ELSE "spawn"
  <2>1. p \in Places
    OBVIOUS
  <2>. HIDE DEF p
  <2>2. Go(n, p) => Moved(n) /\ Kept(n) /\ flow'[n].pc = p
    BY <1>0, <2>1, GoMoves
  <2>3. /\ up /\ Quiet /\ n \in timers /\ flow[n].pc = "idle"
        /\ UNCHANGED <<file, tunnel, stopping>> /\ timers' = timers \ {n}
        /\ UNCHANGED <<procVars, childVars, lost, envVars, monitor>>
    BY <1>1 DEF TimerFires, callVars
  <2>4. (stopping /\ UNCHANGED flow) \/ (~stopping /\ Go(n, p))
    BY <1>1 DEF TimerFires, p
  <2>5. RecoverMoves(n) \/ p # (IF n = "tunnel" THEN "status" ELSE "spawn")
    BY <2>2, <2>3, <2>4 DEF RecoverMoves, Fires
  <2>. QED
    BY <2>5 DEF p
<1>2. CASE RecoveryChecks(n)
  BY <1>0, <1>2, GoMoves, ThrowMoves DEF RecoveryChecks, RecoverMoves, Rechecks, guardVars, callVars
<1>3. CASE RecoveryProxy(n)
  BY <1>0, <1>3, GoMoves, ThrowMoves DEF RecoveryProxy, RecoverMoves, Rechecks, guardVars, callVars
<1>4. CASE RecoverySettles(n)
  <2>0. At(n, "settle") /\ UNCHANGED <<procVars, childVars, lost, envVars, monitor>>
    BY <1>4 DEF RecoverySettles, callVars
  <2>1. CASE Throws(n) /\ UNCHANGED <<tunnel, file, stopping, timers>>
    BY <1>0, <2>0, <2>1, ThrowMoves DEF RecoverMoves, Rechecks, Settles
  <2>2. CASE /\ tunnel' = TRUE /\ TryWriteState("ready", daemon, TRUE)
             /\ IF faulted' = faulted THEN Leave(n)
                ELSE flow' = [flow EXCEPT ![n] = [Idle EXCEPT !.pc = "cleanup", !.mode = "clean"]]
    <3>1. Armed(n) /\ Written(daemon, TRUE)
      BY <2>2, WriteTried DEF Statuses
    <3>2. CASE Leave(n)
      BY <1>0, <2>0, <2>2, <3>1, <3>2, LeaveMoves DEF RecoverMoves, Rechecks, Settles
    <3>3. CASE faulted' # faulted
      <4>2. Moved(n) /\ Anew(n, "cleanup", "clean")
        BY <1>0, <2>2, <3>3, AnewMoves
      <4>3. "write" \in faulted'
        BY <2>2, <3>3 DEF TryWriteState, NoFault, Fault
      <4>. QED
        BY <2>0, <2>2, <3>1, <4>2, <4>3 DEF RecoverMoves, Rechecks, Settles
    <3>. QED
      BY <2>2, <3>2, <3>3
  <2>. QED
    BY <1>4, <2>1, <2>2 DEF RecoverySettles
<1>5. CASE RecoveryFails(n)
  <2>1. Armed(n) /\ Written(daemon, tunnel)
    BY <1>5, Scheduled DEF Statuses, RecoveryFails
  <2>. QED
    BY <1>0, <1>5, <2>1, LeaveMoves DEF RecoveryFails, RecoverMoves, Settles, callVars
<1>. QED
  BY <1>1, <1>2, <1>3, <1>4, <1>5

(* The monitor, the launcher's end and begin, and the processes.           *)
Ticks ==
  /\ up /\ Quiet /\ monitor /\ ~stopping /\ UNCHANGED <<procVars, childVars, flow, lost, envVars>>
  /\ Written(daemon, tunnel') /\ Armed("tunnel")

Dies ==
  /\ up /\ ~up' /\ file' = [file EXCEPT !.own = FALSE]
  /\ daemon' = None /\ tunnel' = FALSE /\ stopping' = FALSE /\ monitor' = FALSE
  /\ timers' = {} /\ mine' = {} /\ flow' = [f \in Flows |-> Idle]
  /\ UNCHANGED <<lost, procVars, recognised>>

Rises == /\ ~up /\ up'
         /\ UNCHANGED <<procVars, file, childVars, tunnel, flow, lost, recognised>> /\ Guards

Crashing(c) ==
  /\ Quiet /\ proc[c] \in {"starting", "up"} /\ proc' = [proc EXCEPT ![c] = "dying"]
  /\ accepting' = (accepting /\ proc[c] # "up")
  /\ UNCHANGED <<file, childVars, tunnel, flow, lost, envVars>> /\ Guards

Exited(c) ==
  /\ Quiet /\ proc[c] \in {"exiting", "dying", "starting"} /\ proc' = [proc EXCEPT ![c] = "none"]
  /\ UNCHANGED <<accepting, tunnel, monitor, flow, lost, envVars>>
  /\ \/ /\ c \in mine /\ daemon' = Without(c) /\ mine' = mine \ {c}
        /\ Written(daemon', tunnel) /\ Armed("daemon")
     \/ c \notin mine /\ UNCHANGED <<childVars, file, stopping, timers>>

Listened(c) ==
  /\ Quiet /\ proc[c] = "starting" /\ PortFree /\ proc' = [proc EXCEPT ![c] = "up"]
  /\ accepting' = TRUE
  /\ UNCHANGED <<file, childVars, tunnel, flow, lost, envVars>> /\ Guards

Rests == UNCHANGED <<procVars, file, childVars, tunnel, flow, lost, envVars>> /\ Guards

LEMMA MachinesMove ==
  ASSUME MonitorTick \/ LauncherDies \/ LauncherStarts \/ Machine
  PROVE  \/ Ticks \/ Dies \/ Rises \/ Rests
         \/ \E c \in Children : Crashing(c) \/ Exited(c) \/ Listened(c)
<1>1. CASE MonitorTick
  <2>1. {"degraded", "ready"} \subseteq Statuses
    BY DEF Statuses
  <2>2. Written(daemon, tunnel') /\ Armed("tunnel")
    BY <1>1, <2>1, WriteTried, Scheduled DEF MonitorTick
  <2>. QED
    BY <1>1, <2>2 DEF MonitorTick, Ticks, callVars
<1>2. CASE LauncherDies
  BY <1>2 DEF LauncherDies, Dies, procVars
<1>3. CASE LauncherStarts
  BY <1>3 DEF LauncherStarts, Rises, Guards, guardVars, callVars
<1>4. CASE TunnelDies
  BY <1>4 DEF TunnelDies, Rests, Guards, guardVars, callVars
<1>5. ASSUME NEW c \in Children, Crashes(c)
      PROVE  Crashing(c)
  BY <1>5 DEF Crashes, Crashing, Guards, guardVars, callVars
<1>6. ASSUME NEW c \in Children, Exits(c)
      PROVE  Exited(c)
  <2>1. Quiet /\ proc[c] \in {"exiting", "dying", "starting"}
    BY <1>6 DEF Exits
  <2>. QED
    BY <1>6, <2>1, HandledExit DEF Exited, callVars
<1>7. ASSUME NEW c \in Children, Listens(c)
      PROVE  Listened(c)
  BY <1>7 DEF Listens, Listened, Guards, guardVars, callVars
<1>. QED
  BY <1>1, <1>2, <1>3, <1>4, <1>5, <1>6, <1>7 DEF Machine

(* Every step is one of these, and what has gone wrong stays so.           *)
Shared(f) == Tunnels(f) \/ Probes(f) \/ Spawns(f) \/ Readies(f) \/ Buries(f)
             \/ DrainMoves(f) \/ Shuts(f) \/ Leaves(f) \/ Severs(f)

Moves == \/ \E f \in Flows : Shared(f)
         \/ \E f \in {"start", "stop"} : StaleMoves(f)
         \/ \E f \in {"start"} \cup Recoveries : CleanMoves(f)
         \/ StartMoves \/ StopMoves \/ \E n \in Recoveries : RecoverMoves(n)
         \/ Ticks \/ Dies \/ Rises \/ Rests
         \/ \E c \in Children : Crashing(c) \/ Exited(c) \/ Listened(c)

LEMMA NextMoves ==
  ASSUME CallsTyped, FileTyped, KidsTyped, Flags, Next
  PROVE  Moves
<1>1. ASSUME NEW f \in Flows, TunnelStep(f) \/ DaemonStep(f) \/ EndStep(f) \/ DrainPolls(f)
      PROVE  Moves
  <2>1. CASE TunnelStep(f)
    BY <2>1, TunnelMoves DEF Moves, Shared
  <2>2. CASE DaemonStep(f)
    BY <2>2, ProbeMoves, SpawnMoves, ReadyMoves, KillMoves DEF Moves, Shared, DaemonStep
  <2>3. CASE EndStep(f) \/ DrainPolls(f)
    BY <2>3, DrainsMove, ShutdownMoves, ExitMoves, SeverMoves DEF Moves, Shared, EndStep
  <2>. QED
    BY <1>1, <2>1, <2>2, <2>3
<1>2. ASSUME NEW f \in {"start", "stop"}, StaleStep(f)
      PROVE  Moves
  BY <1>2, StalesMove DEF Moves, Flows
<1>3. ASSUME NEW f \in {"start"} \cup Recoveries, CleanStep(f)
      PROVE  Moves
  BY <1>3, CleansMove DEF Moves, Flows, Recoveries
<1>4. CASE StartOwn
  BY <1>4, StartsMove DEF Moves
<1>5. CASE StopOwn
  BY <1>5, StopsMove DEF Moves
<1>6. ASSUME NEW n \in Recoveries,
             \/ TimerFires(n) \/ RecoveryChecks(n) \/ RecoveryProxy(n) \/ RecoverySettles(n)
             \/ RecoveryFails(n)
      PROVE  Moves
  BY <1>6, RecoversMove DEF Moves
<1>7. CASE MonitorTick \/ LauncherDies \/ LauncherStarts \/ Machine
  BY <1>7, MachinesMove DEF Moves
<1>8. CASE StartStep
  BY <1>1, <1>2, <1>3, <1>4, <1>8 DEF StartStep, Common, StartOwn, Flows
<1>9. CASE StopStep
  BY <1>1, <1>2, <1>5, <1>9 DEF StopStep, Common, StopOwn, Flows
<1>10. ASSUME NEW n \in Recoveries, RecoverStep(n)
       PROVE  Moves
  BY <1>1, <1>3, <1>6, <1>10 DEF RecoverStep, Common, Flows, Recoveries
<1>. QED
  BY <1>1, <1>4, <1>5, <1>7, <1>8, <1>9, <1>10 DEF Next, Launcher, StartOwn, StopOwn

LEMMA LostGrows ==
  ASSUME Moves, lost
  PROVE  lost'
<1>1. ASSUME NEW f \in Flows, Shared(f) PROVE lost'
  BY <1>1 DEF Shared, Tunnels, Machines, Probes, Spawns, Readies, Buries, Forget, DrainMoves,
              Shuts, Leaves, Severs
<1>2. ASSUME NEW f \in Flows, StaleMoves(f) \/ CleanMoves(f) PROVE lost'
  BY <1>2 DEF StaleMoves, CleanMoves
<1>3. CASE StartMoves
  BY <1>3 DEF StartMoves
<1>4. CASE StopMoves
  BY <1>4 DEF StopMoves, StopAsks, StopAims, StopEnds, StopThrown, StopGivesBack
<1>5. ASSUME NEW n \in Recoveries, RecoverMoves(n) PROVE lost'
  BY <1>5 DEF RecoverMoves
<1>6. CASE Ticks \/ Dies \/ Rises \/ Rests
  BY <1>6 DEF Ticks, Dies, Rises, Rests
<1>7. ASSUME NEW c \in Children, Crashing(c) \/ Exited(c) \/ Listened(c) PROVE lost'
  BY <1>7 DEF Crashing, Exited, Listened
<1>. QED
  BY <1>1, <1>2, <1>3, <1>4, <1>5, <1>6, <1>7 DEF Moves, Flows, Recoveries

LEMMA FaultsGrow ==
  ASSUME Next
  PROVE  faulted \subseteq faulted'
<1>. USE DEF Fault, NoFault
<1>1. ASSUME NEW f \in Flows, TunnelStep(f) PROVE faulted \subseteq faulted'
  BY <1>1 DEF TunnelStep, TunnelStatus, FailTunnel, TunnelCut, TunnelConnect, TunnelVerify,
              TunnelClean
<1>2. ASSUME NEW f \in Flows, DaemonStep(f) PROVE faulted \subseteq faulted'
  BY <1>2 DEF DaemonStep, SpawnDaemon, ProbeDaemon, DaemonProbed, Probe, DaemonResumed,
              DaemonUp, TimesOut, ChildKilled
<1>3. ASSUME NEW f \in Flows, EndStep(f) \/ DrainPolls(f) PROVE faulted \subseteq faulted'
  BY <1>3 DEF EndStep, DrainPolls, DrainIdle, DrainFails, DrainRefused, GiveBack, Shutdown,
              ShutDown, WaitExpires, Sever
<1>4. ASSUME NEW f \in Flows, StaleStep(f) \/ CleanStep(f) PROVE faulted \subseteq faulted'
  BY <1>4 DEF StaleStep, CleanStep, StaleHealth, Probe, StaleTunnel, StaleGone, CleanDaemon,
              CleanTunnel
<1>5. ASSUME StartOwn PROVE faulted \subseteq faulted'
  BY <1>5 DEF StartOwn, StartCall, StartEnters, StartLooks, Probe, StartBegins, StartReady,
              StartThrew, StartFailed
<1>6. ASSUME StopOwn PROVE faulted \subseteq faulted'
  BY <1>6 DEF StopOwn, StopCall, StopEnters, StopReads, StopLooks, Probe, StopAdopts, StopBranches,
              StopIdentifies, StopDone, StopThrew, StopUndoes, StopRestores, StopAwaitsPort,
              WaitExpires, StopFails
<1>7. ASSUME NEW n \in Recoveries,
             \/ TimerFires(n) \/ RecoveryChecks(n) \/ RecoveryProxy(n) \/ RecoverySettles(n)
             \/ RecoveryFails(n)
      PROVE  faulted \subseteq faulted'
  BY <1>7 DEF TimerFires, RecoveryChecks, RecoveryProxy, TimesOut, RecoverySettles,
              RecoveryFails, TryWriteState, ScheduleRecovery
<1>8. ASSUME MonitorTick \/ LauncherDies \/ LauncherStarts \/ Machine
      PROVE  faulted \subseteq faulted'
  BY <1>8 DEF MonitorTick, LauncherDies, LauncherStarts, Machine, TunnelDies, Crashes, Exits,
              Listens, HandleTerminal, TryWriteState, ScheduleRecovery
<1>9. CASE StartStep
  BY <1>1, <1>2, <1>3, <1>4, <1>5, <1>9 DEF StartStep, Common, StartOwn, Flows
<1>10. CASE StopStep
  BY <1>1, <1>2, <1>3, <1>4, <1>6, <1>10 DEF StopStep, Common, StopOwn, Flows
<1>11. ASSUME NEW n \in Recoveries, RecoverStep(n)
       PROVE  faulted \subseteq faulted'
  BY <1>1, <1>2, <1>3, <1>4, <1>7, <1>11 DEF RecoverStep, Common, Flows, Recoveries
<1>. QED
  BY <1>3, <1>5, <1>6, <1>8, <1>9, <1>10, <1>11 DEF Next, Launcher, StartOwn, StopOwn

-----------------------------------------------------------------------------
(* Each part of the invariant survives each effect.                        *)

(* The types of the calls.                                                 *)
LEMMA CallsStep ==
  ASSUME CallsTyped, Moves
  PROVE  CallsTyped'
<1>0. Idle \in Call /\ Recoveries \subseteq Flows
  BY IdleFields DEF Recoveries, Flows
<1>1. ASSUME NEW f \in Flows, Shared(f) PROVE CallsTyped'
  <2>1. CASE Tunnels(f)
    BY <2>1 DEF Tunnels, Machines, At, Thrown, CallsTyped, Moved, Anew
  <2>2. CASE Probes(f)
    BY <2>2 DEF Probes, Guards, At, Thrown, CallsTyped, Moved, Anew
  <2>3. CASE Spawns(f)
    BY <2>3 DEF Spawns, Guards, At, CallsTyped, Moved, Anew
  <2>4. CASE Readies(f)
    BY <2>4 DEF Readies, Ends, Guards, At, Thrown, CallsTyped, Moved, Anew
  <2>5. CASE Buries(f)
    BY <2>5 DEF Buries, Guards, At, Thrown, CallsTyped, Moved, Anew
  <2>6. CASE DrainMoves(f)
    BY <2>6 DEF DrainMoves, Drained, Guards, At, CallsTyped, Moved, Anew
  <2>7. CASE Shuts(f)
    BY <2>7 DEF Shuts, Refused, Guards, At, CallsTyped, Moved, Anew
  <2>8. CASE Leaves(f)
    BY <2>8 DEF Leaves, Ended, Refused, Guards, At, CallsTyped, Moved, Anew
  <2>9. CASE Severs(f)
    BY <2>9 DEF Severs, Severed, Machines, At, CallsTyped, Moved, Anew
  <2>. QED
    BY <1>1, <2>1, <2>2, <2>3, <2>4, <2>5, <2>6, <2>7, <2>8, <2>9 DEF Shared
<1>2. ASSUME NEW f \in {"start", "stop"}, StaleMoves(f) PROVE CallsTyped'
  BY <1>2, <1>0 DEF StaleMoves, Guards, At, CallsTyped, Moved, Anew
<1>3. ASSUME NEW f \in {"start"} \cup Recoveries, CleanMoves(f) PROVE CallsTyped'
  BY <1>3, <1>0 DEF CleanMoves, Ends, Guards, At, CallsTyped, Moved, Anew
<1>4. CASE StartMoves
  <2>1. CASE StartAsks
    BY <1>4, <2>1 DEF StartAsks, Guards, At, StartMoves, CallsTyped, Moved, Anew
  <2>2. CASE StartGoes
    BY <1>4, <2>2 DEF StartGoes, Guards, At, StartMoves, CallsTyped, Moved, Anew
  <2>3. CASE StartLoses
    BY <1>4, <2>3 DEF StartLoses, At, StartMoves, CallsTyped, Moved, Anew
  <2>. QED
    BY <1>4, <2>1, <2>2, <2>3 DEF StartMoves
<1>5. CASE StopMoves
  <2>1. CASE StopAsks
    BY <1>5, <2>1 DEF StopAsks, Guards, At, StopMoves, CallsTyped, Moved, Anew
  <2>2. CASE StopAims
    BY <1>5, <2>2 DEF StopAims, Guards, At, StopMoves, CallsTyped, Moved, Anew
  <2>3. CASE StopEnds
    BY <1>5, <2>3 DEF StopEnds, StopThrown, At, StopMoves, CallsTyped, Moved, Anew
  <2>4. CASE StopGivesBack
    BY <1>5, <2>4 DEF StopGivesBack, Guards, At, StopMoves, CallsTyped, Moved, Anew
  <2>. QED
    BY <1>5, <2>1, <2>2, <2>3, <2>4 DEF StopMoves
<1>6. ASSUME NEW n \in Recoveries, RecoverMoves(n) PROVE CallsTyped'
  <2>1. CASE Fires(n)
    BY <1>6, <2>1 DEF Fires, RecoverMoves, CallsTyped, Moved, Anew
  <2>2. CASE Rechecks(n)
    BY <1>6, <2>2 DEF Rechecks, At, RecoverMoves, CallsTyped, Moved, Anew
  <2>3. CASE Settles(n)
    BY <1>6, <2>3 DEF Settles, At, Armed, RecoverMoves, CallsTyped, Moved, Anew
  <2>. QED
    BY <1>6, <2>1, <2>2, <2>3 DEF RecoverMoves
<1>7. CASE Ticks
  BY <1>7 DEF Ticks, Armed, CallsTyped, Moved, Anew
<1>8. CASE Dies
  BY <1>8, <1>0 DEF Dies, CallsTyped, Moved, Anew
<1>9. CASE Rises
  BY <1>9 DEF Rises, Guards, CallsTyped, Moved, Anew
<1>10. CASE Rests
  BY <1>10 DEF Rests, Guards, CallsTyped, Moved, Anew
<1>11. ASSUME NEW c \in Children, Crashing(c) PROVE CallsTyped'
  BY <1>11 DEF Crashing, Guards, CallsTyped, Moved, Anew
<1>12. ASSUME NEW c \in Children, Exited(c) PROVE CallsTyped'
  BY <1>12 DEF Exited, Armed, CallsTyped, Moved, Anew
<1>13. ASSUME NEW c \in Children, Listened(c) PROVE CallsTyped'
  BY <1>13 DEF Listened, Guards, CallsTyped, Moved, Anew
<1>. QED
  BY <1>1, <1>2, <1>3, <1>4, <1>5, <1>6, <1>7, <1>8, <1>9, <1>10, <1>11, <1>12, <1>13 DEF Moves

(* A daemon listens only once the port is free.                            *)
LEMMA PortStep ==
  ASSUME KidsTyped, OnePort, Moves
  PROVE  OnePort'
<1>1. ASSUME NEW f \in Flows, Shared(f) PROVE OnePort'
  <2>1. CASE Tunnels(f)
    BY <2>1 DEF Tunnels, Machines, At, Thrown, OnePort, KidsTyped, procVars
  <2>2. CASE Probes(f)
    BY <2>2 DEF Probes, Guards, At, Thrown, OnePort, KidsTyped, procVars
  <2>3. CASE Spawns(f)
    BY <2>3 DEF Spawns, Guards, At, OnePort, KidsTyped, procVars, Fresh
  <2>4. CASE Readies(f)
    BY <2>4 DEF Readies, Ends, Guards, At, Thrown, OnePort, KidsTyped, procVars
  <2>5. CASE Buries(f)
    BY <2>5 DEF Buries, Guards, At, Thrown, OnePort, KidsTyped, procVars
  <2>6. CASE DrainMoves(f)
    BY <2>6 DEF DrainMoves, Drained, Guards, At, OnePort, KidsTyped, procVars
  <2>7. CASE Shuts(f)
    BY <2>7 DEF Shuts, Refused, Guards, At, OnePort, KidsTyped, procVars, Listening
  <2>8. CASE Leaves(f)
    BY <2>8 DEF Leaves, Ended, Refused, Guards, At, OnePort, KidsTyped, procVars
  <2>9. CASE Severs(f)
    BY <2>9 DEF Severs, Severed, Machines, At, OnePort, KidsTyped, procVars
  <2>. QED
    BY <1>1, <2>1, <2>2, <2>3, <2>4, <2>5, <2>6, <2>7, <2>8, <2>9 DEF Shared
<1>2. ASSUME NEW f \in {"start", "stop"}, StaleMoves(f) PROVE OnePort'
  BY <1>2 DEF StaleMoves, Guards, At, OnePort, KidsTyped, procVars
<1>3. ASSUME NEW f \in {"start"} \cup Recoveries, CleanMoves(f) PROVE OnePort'
  BY <1>3 DEF CleanMoves, Ends, Guards, At, OnePort, KidsTyped, procVars
<1>4. CASE StartMoves
  <2>1. CASE StartAsks
    BY <1>4, <2>1 DEF StartAsks, Guards, At, StartMoves, OnePort, KidsTyped, procVars
  <2>2. CASE StartGoes
    BY <1>4, <2>2 DEF StartGoes, Guards, At, StartMoves, OnePort, KidsTyped, procVars
  <2>3. CASE StartLoses
    BY <1>4, <2>3 DEF StartLoses, At, StartMoves, OnePort, KidsTyped, procVars
  <2>. QED
    BY <1>4, <2>1, <2>2, <2>3 DEF StartMoves
<1>5. CASE StopMoves
  <2>1. CASE StopAsks
    BY <1>5, <2>1 DEF StopAsks, Guards, At, StopMoves, OnePort, KidsTyped, procVars
  <2>2. CASE StopAims
    BY <1>5, <2>2 DEF StopAims, Guards, At, StopMoves, OnePort, KidsTyped, procVars
  <2>3. CASE StopEnds
    BY <1>5, <2>3 DEF StopEnds, StopThrown, At, StopMoves, OnePort, KidsTyped, procVars
  <2>4. CASE StopGivesBack
    BY <1>5, <2>4 DEF StopGivesBack, Guards, At, StopMoves, OnePort, KidsTyped, procVars
  <2>. QED
    BY <1>5, <2>1, <2>2, <2>3, <2>4 DEF StopMoves
<1>6. ASSUME NEW n \in Recoveries, RecoverMoves(n) PROVE OnePort'
  <2>1. CASE Fires(n)
    BY <1>6, <2>1 DEF Fires, RecoverMoves, OnePort, KidsTyped, procVars
  <2>2. CASE Rechecks(n)
    BY <1>6, <2>2 DEF Rechecks, At, RecoverMoves, OnePort, KidsTyped, procVars
  <2>3. CASE Settles(n)
    BY <1>6, <2>3 DEF Settles, At, Armed, RecoverMoves, OnePort, KidsTyped, procVars
  <2>. QED
    BY <1>6, <2>1, <2>2, <2>3 DEF RecoverMoves
<1>7. CASE Ticks
  BY <1>7 DEF Ticks, Armed, OnePort, KidsTyped, procVars
<1>8. CASE Dies
  BY <1>8 DEF Dies, OnePort, KidsTyped, procVars
<1>9. CASE Rises
  BY <1>9 DEF Rises, Guards, OnePort, KidsTyped, procVars
<1>10. CASE Rests
  BY <1>10 DEF Rests, Guards, OnePort, KidsTyped, procVars
<1>11. ASSUME NEW c \in Children, Crashing(c) PROVE OnePort'
  BY <1>11 DEF Crashing, Guards, OnePort, KidsTyped, procVars
<1>12. ASSUME NEW c \in Children, Exited(c) PROVE OnePort'
  BY <1>12 DEF Exited, Armed, OnePort, KidsTyped, procVars
<1>13. ASSUME NEW c \in Children, Listened(c) PROVE OnePort'
  BY <1>13 DEF Listened, Guards, OnePort, KidsTyped, procVars, PortFree
<1>. QED
  BY <1>1, <1>2, <1>3, <1>4, <1>5, <1>6, <1>7, <1>8, <1>9, <1>10, <1>11, <1>12, <1>13 DEF Moves

(* Where a call of each kind goes.                                         *)
LEMMA PlacedStep ==
  ASSUME CallsTyped, Placed, Moves
  PROVE  Placed'
<1>1. ASSUME NEW f \in Flows, Shared(f) PROVE Placed'
  <2>1. CASE Tunnels(f)
    BY <2>1, IdleFields
       DEF Tunnels, Machines, At, Thrown, Placed, Moved, Kept, KeptMarks, Anew, PlacesOf,
           ModesOf, Starting, Ending, Flows, Recoveries
  <2>2. CASE Probes(f)
    BY <2>2, IdleFields
       DEF Probes, Guards, At, Thrown, Placed, Moved, Kept, KeptMarks, Anew, PlacesOf, ModesOf,
           Starting, Ending, Flows, Recoveries
  <2>3. CASE Spawns(f)
    BY <2>3, IdleFields
       DEF Spawns, Guards, At, Placed, Moved, Kept, KeptMarks, Anew, PlacesOf, ModesOf,
           Starting, Ending, Flows, Recoveries
  <2>4. CASE Readies(f)
    BY <2>4, IdleFields
       DEF Readies, Ends, Guards, At, Thrown, Placed, Moved, Kept, KeptMarks, Anew, PlacesOf,
           ModesOf, Starting, Ending, Flows, Recoveries
  <2>5. CASE Buries(f)
    BY <2>5, IdleFields
       DEF Buries, Guards, At, Thrown, Placed, Moved, Kept, KeptMarks, Anew, PlacesOf, ModesOf,
           Starting, Ending, Flows, Recoveries
  <2>6. CASE DrainMoves(f)
    BY <2>6, IdleFields
       DEF DrainMoves, Drained, Guards, At, Placed, Moved, Kept, KeptMarks, Anew, PlacesOf,
           ModesOf, Starting, Ending, Flows, Recoveries
  <2>7. CASE Shuts(f)
    BY <2>7, IdleFields
       DEF Shuts, Refused, Guards, At, Placed, Moved, Kept, KeptMarks, Anew, PlacesOf, ModesOf,
           Starting, Ending, Flows, Recoveries
  <2>8. CASE Leaves(f)
    BY <2>8, IdleFields
       DEF Leaves, Ended, Refused, Guards, At, Placed, Moved, Kept, KeptMarks, Anew, PlacesOf,
           ModesOf, Starting, Ending, Flows, Recoveries
  <2>9. CASE Severs(f)
    BY <2>9, IdleFields
       DEF Severs, Severed, Machines, At, Placed, Moved, Kept, KeptMarks, Anew, PlacesOf,
           ModesOf, Starting, Ending, Flows, Recoveries
  <2>. QED
    BY <1>1, <2>1, <2>2, <2>3, <2>4, <2>5, <2>6, <2>7, <2>8, <2>9 DEF Shared
<1>2. ASSUME NEW f \in {"start", "stop"}, StaleMoves(f) PROVE Placed'
  BY <1>2, IdleFields
     DEF StaleMoves, Guards, At, Placed, Moved, Kept, KeptMarks, Anew, PlacesOf, ModesOf,
         Starting, Ending, Flows, Recoveries
<1>3. ASSUME NEW f \in {"start"} \cup Recoveries, CleanMoves(f) PROVE Placed'
  BY <1>3, IdleFields
     DEF CleanMoves, Ends, Guards, At, Placed, Moved, Kept, KeptMarks, Anew, PlacesOf, ModesOf,
         Starting, Ending, Flows, Recoveries
<1>4. CASE StartMoves
  <2>1. CASE StartAsks
    BY <1>4, <2>1, IdleFields
       DEF StartAsks, Guards, At, StartMoves, Placed, Moved, Kept, KeptMarks, Anew, PlacesOf,
           ModesOf, Starting, Ending, Flows, Recoveries
  <2>2. CASE StartGoes
    BY <1>4, <2>2, IdleFields
       DEF StartGoes, Guards, At, StartMoves, Placed, Moved, Kept, KeptMarks, Anew, PlacesOf,
           ModesOf, Starting, Ending, Flows, Recoveries
  <2>3. CASE StartLoses
    BY <1>4, <2>3, IdleFields
       DEF StartLoses, At, StartMoves, Placed, Moved, Kept, KeptMarks, Anew, PlacesOf, ModesOf,
           Starting, Ending, Flows, Recoveries
  <2>. QED
    BY <1>4, <2>1, <2>2, <2>3 DEF StartMoves
<1>5. CASE StopMoves
  <2>1. CASE StopAsks
    BY <1>5, <2>1, IdleFields
       DEF StopAsks, Guards, At, StopMoves, Placed, Moved, Kept, KeptMarks, Anew, PlacesOf,
           ModesOf, Starting, Ending, Flows, Recoveries
  <2>2. CASE StopAims
    BY <1>5, <2>2, IdleFields
       DEF StopAims, Guards, At, StopMoves, Placed, Moved, Kept, KeptMarks, Anew, PlacesOf,
           ModesOf, Starting, Ending, Flows, Recoveries
  <2>3. CASE StopEnds
    BY <1>5, <2>3, IdleFields
       DEF StopEnds, StopThrown, At, StopMoves, Placed, Moved, Kept, KeptMarks, Anew, PlacesOf, ModesOf,
           Starting, Ending, Flows, Recoveries
  <2>4. CASE StopGivesBack
    BY <1>5, <2>4, IdleFields
       DEF StopGivesBack, Guards, At, StopMoves, Placed, Moved, Kept, KeptMarks, Anew,
           PlacesOf, ModesOf, Starting, Ending, Flows, Recoveries
  <2>. QED
    BY <1>5, <2>1, <2>2, <2>3, <2>4 DEF StopMoves
<1>6. ASSUME NEW n \in Recoveries, RecoverMoves(n) PROVE Placed'
  <2>1. CASE Fires(n)
    BY <1>6, <2>1, IdleFields
       DEF Fires, RecoverMoves, Placed, Moved, Kept, KeptMarks, Anew, PlacesOf, ModesOf,
           Starting, Ending, Flows, Recoveries
  <2>2. CASE Rechecks(n)
    BY <1>6, <2>2, IdleFields
       DEF Rechecks, At, RecoverMoves, Placed, Moved, Kept, KeptMarks, Anew, PlacesOf, ModesOf,
           Starting, Ending, Flows, Recoveries
  <2>3. CASE Settles(n)
    BY <1>6, <2>3, IdleFields
       DEF Settles, At, Armed, RecoverMoves, Placed, Moved, Kept, KeptMarks, Anew, PlacesOf,
           ModesOf, Starting, Ending, Flows, Recoveries
  <2>. QED
    BY <1>6, <2>1, <2>2, <2>3 DEF RecoverMoves
<1>7. CASE Ticks
  BY <1>7, IdleFields
     DEF Ticks, Armed, Placed, Moved, Kept, KeptMarks, Anew, PlacesOf, ModesOf, Starting,
         Ending, Flows, Recoveries
<1>8. CASE Dies
  BY <1>8, IdleFields
     DEF Dies, Placed, Moved, Kept, KeptMarks, Anew, PlacesOf, ModesOf, Starting, Ending,
         Flows, Recoveries
<1>9. CASE Rises
  BY <1>9, IdleFields
     DEF Rises, Guards, Placed, Moved, Kept, KeptMarks, Anew, PlacesOf, ModesOf, Starting,
         Ending, Flows, Recoveries
<1>10. CASE Rests
  BY <1>10, IdleFields
     DEF Rests, Guards, Placed, Moved, Kept, KeptMarks, Anew, PlacesOf, ModesOf, Starting,
         Ending, Flows, Recoveries
<1>11. ASSUME NEW c \in Children, Crashing(c) PROVE Placed'
  BY <1>11, IdleFields
     DEF Crashing, Guards, Placed, Moved, Kept, KeptMarks, Anew, PlacesOf, ModesOf, Starting,
         Ending, Flows, Recoveries
<1>12. ASSUME NEW c \in Children, Exited(c) PROVE Placed'
  BY <1>12, IdleFields
     DEF Exited, Armed, Placed, Moved, Kept, KeptMarks, Anew, PlacesOf, ModesOf, Starting,
         Ending, Flows, Recoveries
<1>13. ASSUME NEW c \in Children, Listened(c) PROVE Placed'
  BY <1>13, IdleFields
     DEF Listened, Guards, Placed, Moved, Kept, KeptMarks, Anew, PlacesOf, ModesOf, Starting,
         Ending, Flows, Recoveries
<1>. QED
  BY <1>1, <1>2, <1>3, <1>4, <1>5, <1>6, <1>7, <1>8, <1>9, <1>10, <1>11, <1>12, <1>13 DEF Moves

(* What a stop has severed and drained before it acts: nothing.             *)
LEMMA EnteringStep ==
  ASSUME CallsTyped, Placed, Entering, Moves
  PROVE  Entering'
<1>1. ASSUME NEW f \in Flows, Shared(f) PROVE Entering'
  <2>1. CASE Tunnels(f)
    BY <2>1, IdleFields
       DEF Tunnels, Machines, At, Thrown, Entering, Placed, Moved, Kept, KeptMarks, Anew,
           Flows, Recoveries
  <2>2. CASE Probes(f)
    BY <2>2, IdleFields
       DEF Probes, Guards, At, Thrown, Entering, Placed, Moved, Kept, KeptMarks, Anew, Flows,
           Recoveries
  <2>3. CASE Spawns(f)
    BY <2>3, IdleFields
       DEF Spawns, Guards, At, Entering, Placed, Moved, Kept, KeptMarks, Anew, Flows,
           Recoveries
  <2>4. CASE Readies(f)
    BY <2>4, IdleFields
       DEF Readies, Ends, Guards, At, Thrown, Entering, Placed, Moved, Kept, KeptMarks, Anew,
           Flows, Recoveries
  <2>5. CASE Buries(f)
    BY <2>5, IdleFields
       DEF Buries, Guards, At, Thrown, Entering, Placed, Moved, Kept, KeptMarks, Anew, Flows,
           Recoveries
  <2>6. CASE DrainMoves(f)
    BY <2>6, IdleFields
       DEF DrainMoves, Drained, Guards, At, Entering, Placed, Moved, Kept, KeptMarks, Anew,
           Flows, Recoveries
  <2>7. CASE Shuts(f)
    BY <2>7, IdleFields
       DEF Shuts, Refused, Guards, At, Entering, Placed, Moved, Kept, KeptMarks, Anew, Flows,
           Recoveries
  <2>8. CASE Leaves(f)
    BY <2>8, IdleFields
       DEF Leaves, Ended, Refused, Guards, At, Entering, Placed, Moved, Kept, KeptMarks, Anew,
           Flows, Recoveries
  <2>9. CASE Severs(f)
    BY <2>9, IdleFields
       DEF Severs, Severed, Machines, At, Entering, Placed, Moved, Kept, KeptMarks, Anew,
           Flows, Recoveries
  <2>. QED
    BY <1>1, <2>1, <2>2, <2>3, <2>4, <2>5, <2>6, <2>7, <2>8, <2>9 DEF Shared
<1>2. ASSUME NEW f \in {"start", "stop"}, StaleMoves(f) PROVE Entering'
  BY <1>2, IdleFields
     DEF StaleMoves, Guards, At, Entering, Placed, Moved, Kept, KeptMarks, Anew, Flows,
         Recoveries
<1>3. ASSUME NEW f \in {"start"} \cup Recoveries, CleanMoves(f) PROVE Entering'
  BY <1>3, IdleFields
     DEF CleanMoves, Ends, Guards, At, Entering, Placed, Moved, Kept, KeptMarks, Anew, Flows,
         Recoveries
<1>4. CASE StartMoves
  <2>1. CASE StartAsks
    BY <1>4, <2>1, IdleFields
       DEF StartAsks, Guards, At, StartMoves, Entering, Placed, Moved, Kept, KeptMarks, Anew,
           Flows, Recoveries
  <2>2. CASE StartGoes
    BY <1>4, <2>2, IdleFields
       DEF StartGoes, Guards, At, StartMoves, Entering, Placed, Moved, Kept, KeptMarks, Anew,
           Flows, Recoveries
  <2>3. CASE StartLoses
    BY <1>4, <2>3, IdleFields
       DEF StartLoses, At, StartMoves, Entering, Placed, Moved, Kept, KeptMarks, Anew, Flows,
           Recoveries
  <2>. QED
    BY <1>4, <2>1, <2>2, <2>3 DEF StartMoves
<1>5. CASE StopMoves
  <2>1. CASE StopAsks
    BY <1>5, <2>1, IdleFields
       DEF StopAsks, Guards, At, StopMoves, Entering, Placed, Moved, Kept, KeptMarks, Anew,
           Flows, Recoveries
  <2>2. CASE StopAims
    BY <1>5, <2>2, IdleFields
       DEF StopAims, Guards, At, StopMoves, Entering, Placed, Moved, Kept, KeptMarks, Anew,
           Flows, Recoveries
  <2>3. CASE StopEnds
    BY <1>5, <2>3, IdleFields
       DEF StopEnds, StopThrown, At, StopMoves, Entering, Placed, Moved, Kept, KeptMarks, Anew, Flows,
           Recoveries
  <2>4. CASE StopGivesBack
    BY <1>5, <2>4, IdleFields
       DEF StopGivesBack, Guards, At, StopMoves, Entering, Placed, Moved, Kept, KeptMarks,
           Anew, Flows, Recoveries
  <2>. QED
    BY <1>5, <2>1, <2>2, <2>3, <2>4 DEF StopMoves
<1>6. ASSUME NEW n \in Recoveries, RecoverMoves(n) PROVE Entering'
  <2>1. CASE Fires(n)
    BY <1>6, <2>1, IdleFields
       DEF Fires, RecoverMoves, Entering, Placed, Moved, Kept, KeptMarks, Anew, Flows,
           Recoveries
  <2>2. CASE Rechecks(n)
    BY <1>6, <2>2, IdleFields
       DEF Rechecks, At, RecoverMoves, Entering, Placed, Moved, Kept, KeptMarks, Anew, Flows,
           Recoveries
  <2>3. CASE Settles(n)
    BY <1>6, <2>3, IdleFields
       DEF Settles, At, Armed, RecoverMoves, Entering, Placed, Moved, Kept, KeptMarks, Anew,
           Flows, Recoveries
  <2>. QED
    BY <1>6, <2>1, <2>2, <2>3 DEF RecoverMoves
<1>7. CASE Ticks
  BY <1>7, IdleFields
     DEF Ticks, Armed, Entering, Placed, Moved, Kept, KeptMarks, Anew, Flows, Recoveries
<1>8. CASE Dies
  BY <1>8, IdleFields
     DEF Dies, Entering, Placed, Moved, Kept, KeptMarks, Anew, Flows, Recoveries
<1>9. CASE Rises
  BY <1>9, IdleFields
     DEF Rises, Guards, Entering, Placed, Moved, Kept, KeptMarks, Anew, Flows, Recoveries
<1>10. CASE Rests
  BY <1>10, IdleFields
     DEF Rests, Guards, Entering, Placed, Moved, Kept, KeptMarks, Anew, Flows, Recoveries
<1>11. ASSUME NEW c \in Children, Crashing(c) PROVE Entering'
  BY <1>11, IdleFields
     DEF Crashing, Guards, Entering, Placed, Moved, Kept, KeptMarks, Anew, Flows, Recoveries
<1>12. ASSUME NEW c \in Children, Exited(c) PROVE Entering'
  BY <1>12, IdleFields
     DEF Exited, Armed, Entering, Placed, Moved, Kept, KeptMarks, Anew, Flows, Recoveries
<1>13. ASSUME NEW c \in Children, Listened(c) PROVE Entering'
  BY <1>13, IdleFields
     DEF Listened, Guards, Entering, Placed, Moved, Kept, KeptMarks, Anew, Flows, Recoveries
<1>. QED
  BY <1>1, <1>2, <1>3, <1>4, <1>5, <1>6, <1>7, <1>8, <1>9, <1>10, <1>11, <1>12, <1>13 DEF Moves

(* Start and stop wait for each other.                                     *)
LEMMA AloneStep ==
  ASSUME CallsTyped, Placed, Alone, Moves
  PROVE  Alone'
<1>1. ASSUME NEW f \in Flows, Shared(f) PROVE Alone'
  <2>1. CASE Tunnels(f)
    BY <2>1, IdleFields
       DEF Tunnels, Machines, At, Thrown, Alone, Moved, Kept, KeptMarks, Anew, Flows,
           Recoveries
  <2>2. CASE Probes(f)
    BY <2>2, IdleFields
       DEF Probes, Guards, At, Thrown, Alone, Moved, Kept, KeptMarks, Anew, Flows, Recoveries
  <2>3. CASE Spawns(f)
    BY <2>3, IdleFields
       DEF Spawns, Guards, At, Alone, Moved, Kept, KeptMarks, Anew, Flows, Recoveries
  <2>4. CASE Readies(f)
    BY <2>4, IdleFields
       DEF Readies, Ends, Guards, At, Thrown, Alone, Moved, Kept, KeptMarks, Anew, Flows,
           Recoveries
  <2>5. CASE Buries(f)
    BY <2>5, IdleFields
       DEF Buries, Guards, At, Thrown, Alone, Moved, Kept, KeptMarks, Anew, Flows, Recoveries
  <2>6. CASE DrainMoves(f)
    BY <2>6, IdleFields
       DEF DrainMoves, Drained, Guards, At, Alone, Moved, Kept, KeptMarks, Anew, Flows,
           Recoveries
  <2>7. CASE Shuts(f)
    BY <2>7, IdleFields
       DEF Shuts, Refused, Guards, At, Alone, Moved, Kept, KeptMarks, Anew, Flows, Recoveries
  <2>8. CASE Leaves(f)
    BY <2>8, IdleFields
       DEF Leaves, Ended, Refused, Guards, At, Alone, Moved, Kept, KeptMarks, Anew, Flows,
           Recoveries
  <2>9. CASE Severs(f)
    BY <2>9, IdleFields
       DEF Severs, Severed, Machines, At, Alone, Moved, Kept, KeptMarks, Anew, Flows,
           Recoveries
  <2>. QED
    BY <1>1, <2>1, <2>2, <2>3, <2>4, <2>5, <2>6, <2>7, <2>8, <2>9 DEF Shared
<1>2. ASSUME NEW f \in {"start", "stop"}, StaleMoves(f) PROVE Alone'
  BY <1>2, IdleFields
     DEF StaleMoves, Guards, At, Alone, Moved, Kept, KeptMarks, Anew, Flows, Recoveries
<1>3. ASSUME NEW f \in {"start"} \cup Recoveries, CleanMoves(f) PROVE Alone'
  BY <1>3, IdleFields
     DEF CleanMoves, Ends, Guards, At, Alone, Moved, Kept, KeptMarks, Anew, Flows, Recoveries
<1>4. CASE StartMoves
  <2>1. CASE StartAsks
    BY <1>4, <2>1, IdleFields
       DEF StartAsks, Guards, At, StartMoves, Alone, Moved, Kept, KeptMarks, Anew, Flows,
           Recoveries, Quiet, Rushing
  <2>2. CASE StartGoes
    BY <1>4, <2>2, IdleFields
       DEF StartGoes, Guards, At, StartMoves, Alone, Moved, Kept, KeptMarks, Anew, Flows,
           Recoveries
  <2>3. CASE StartLoses
    BY <1>4, <2>3, IdleFields, SMTT(30)
       DEF StartLoses, At, StartMoves, Alone, Moved, Kept, KeptMarks, Anew, Flows, Recoveries
  <2>. QED
    BY <1>4, <2>1, <2>2, <2>3 DEF StartMoves
<1>5. CASE StopMoves
  <2>1. CASE StopAsks
    BY <1>5, <2>1, IdleFields
       DEF StopAsks, Guards, At, StopMoves, Alone, Moved, Kept, KeptMarks, Anew, Flows,
           Recoveries, Quiet, Rushing
  <2>2. CASE StopAims
    BY <1>5, <2>2, IdleFields
       DEF StopAims, Guards, At, StopMoves, Alone, Moved, Kept, KeptMarks, Anew, Flows,
           Recoveries
  <2>3. CASE StopEnds
    BY <1>5, <2>3, IdleFields
       DEF StopEnds, StopThrown, At, StopMoves, Alone, Moved, Kept, KeptMarks, Anew, Flows, Recoveries
  <2>4. CASE StopGivesBack
    BY <1>5, <2>4, IdleFields
       DEF StopGivesBack, Guards, At, StopMoves, Alone, Moved, Kept, KeptMarks, Anew, Flows,
           Recoveries
  <2>. QED
    BY <1>5, <2>1, <2>2, <2>3, <2>4 DEF StopMoves
<1>6. ASSUME NEW n \in Recoveries, RecoverMoves(n) PROVE Alone'
  <2>1. CASE Fires(n)
    BY <1>6, <2>1, IdleFields
       DEF Fires, RecoverMoves, Alone, Moved, Kept, KeptMarks, Anew, Flows, Recoveries
  <2>2. CASE Rechecks(n)
    BY <1>6, <2>2, IdleFields
       DEF Rechecks, At, RecoverMoves, Alone, Moved, Kept, KeptMarks, Anew, Flows, Recoveries
  <2>3. CASE Settles(n)
    BY <1>6, <2>3, IdleFields
       DEF Settles, At, Armed, RecoverMoves, Alone, Moved, Kept, KeptMarks, Anew, Flows,
           Recoveries
  <2>. QED
    BY <1>6, <2>1, <2>2, <2>3 DEF RecoverMoves
<1>7. CASE Ticks
  BY <1>7, IdleFields DEF Ticks, Armed, Alone, Moved, Kept, KeptMarks, Anew, Flows, Recoveries
<1>8. CASE Dies
  BY <1>8, IdleFields DEF Dies, Alone, Moved, Kept, KeptMarks, Anew, Flows, Recoveries
<1>9. CASE Rises
  BY <1>9, IdleFields DEF Rises, Guards, Alone, Moved, Kept, KeptMarks, Anew, Flows, Recoveries
<1>10. CASE Rests
  BY <1>10, IdleFields
     DEF Rests, Guards, Alone, Moved, Kept, KeptMarks, Anew, Flows, Recoveries
<1>11. ASSUME NEW c \in Children, Crashing(c) PROVE Alone'
  BY <1>11, IdleFields
     DEF Crashing, Guards, Alone, Moved, Kept, KeptMarks, Anew, Flows, Recoveries
<1>12. ASSUME NEW c \in Children, Exited(c) PROVE Alone'
  BY <1>12, IdleFields
     DEF Exited, Armed, Alone, Moved, Kept, KeptMarks, Anew, Flows, Recoveries
<1>13. ASSUME NEW c \in Children, Listened(c) PROVE Alone'
  BY <1>13, IdleFields
     DEF Listened, Guards, Alone, Moved, Kept, KeptMarks, Anew, Flows, Recoveries
<1>. QED
  BY <1>1, <1>2, <1>3, <1>4, <1>5, <1>6, <1>7, <1>8, <1>9, <1>10, <1>11, <1>12, <1>13 DEF Moves

(* A drain for stop begins with a /healthz that was recognised.            *)
LEMMA KnownStep ==
  ASSUME CallsTyped, Placed, Entering, Known, Moves
  PROVE  Known'
<1>1. ASSUME NEW f \in Flows, Shared(f) PROVE Known'
  <2>1. CASE Tunnels(f)
    BY <2>1, IdleFields
       DEF Tunnels, Machines, At, Thrown, Known, envVars, Moved, Kept, KeptMarks, Anew, Flows,
           Recoveries
  <2>2. CASE Probes(f)
    BY <2>2, IdleFields
       DEF Probes, Guards, At, Thrown, Known, envVars, Moved, Kept, KeptMarks, Anew, Flows,
           Recoveries
  <2>3. CASE Spawns(f)
    BY <2>3, IdleFields
       DEF Spawns, Guards, At, Known, envVars, Moved, Kept, KeptMarks, Anew, Flows, Recoveries
  <2>4. CASE Readies(f)
    BY <2>4, IdleFields
       DEF Readies, Ends, Guards, At, Thrown, Known, envVars, Moved, Kept, KeptMarks, Anew,
           Flows, Recoveries
  <2>5. CASE Buries(f)
    BY <2>5, IdleFields
       DEF Buries, Guards, At, Thrown, Known, envVars, Moved, Kept, KeptMarks, Anew, Flows,
           Recoveries
  <2>6. CASE DrainMoves(f)
    BY <2>6, IdleFields
       DEF DrainMoves, Drained, Guards, At, Known, envVars, Moved, Kept, KeptMarks, Anew,
           Flows, Recoveries, Placed, PlacesOf, Starting, Ending
  <2>7. CASE Shuts(f)
    BY <2>7, IdleFields
       DEF Shuts, Refused, Guards, At, Known, envVars, Moved, Kept, KeptMarks, Anew, Flows,
           Recoveries
  <2>8. CASE Leaves(f)
    BY <2>8, IdleFields
       DEF Leaves, Ended, Refused, Guards, At, Known, envVars, Moved, Kept, KeptMarks, Anew,
           Flows, Recoveries
  <2>9. CASE Severs(f)
    BY <2>9, IdleFields
       DEF Severs, Severed, Machines, At, Known, envVars, Moved, Kept, KeptMarks, Anew, Flows,
           Recoveries
  <2>. QED
    BY <1>1, <2>1, <2>2, <2>3, <2>4, <2>5, <2>6, <2>7, <2>8, <2>9 DEF Shared
<1>2. ASSUME NEW f \in {"start", "stop"}, StaleMoves(f) PROVE Known'
  BY <1>2, IdleFields
     DEF StaleMoves, Guards, At, Known, envVars, Moved, Kept, KeptMarks, Anew, Flows,
         Recoveries, Placed, PlacesOf, Starting, Ending
<1>3. ASSUME NEW f \in {"start"} \cup Recoveries, CleanMoves(f) PROVE Known'
  BY <1>3, IdleFields
     DEF CleanMoves, Ends, Guards, At, Known, envVars, Moved, Kept, KeptMarks, Anew, Flows,
         Recoveries
<1>4. CASE StartMoves
  <2>1. CASE StartAsks
    BY <1>4, <2>1, IdleFields
       DEF StartAsks, Guards, At, StartMoves, Known, envVars, Moved, Kept, KeptMarks, Anew,
           Flows, Recoveries
  <2>2. CASE StartGoes
    BY <1>4, <2>2, IdleFields
       DEF StartGoes, Guards, At, StartMoves, Known, envVars, Moved, Kept, KeptMarks, Anew,
           Flows, Recoveries
  <2>3. CASE StartLoses
    BY <1>4, <2>3, IdleFields
       DEF StartLoses, At, StartMoves, Known, envVars, Moved, Kept, KeptMarks, Anew, Flows,
           Recoveries
  <2>. QED
    BY <1>4, <2>1, <2>2, <2>3 DEF StartMoves
<1>5. CASE StopMoves
  <2>1. CASE StopAsks
    BY <1>5, <2>1, IdleFields
       DEF StopAsks, Guards, At, StopMoves, Known, envVars, Moved, Kept, KeptMarks, Anew,
           Flows, Recoveries
  <2>2. CASE StopAims
    BY <1>5, <2>2, IdleFields
       DEF StopAims, Guards, At, StopMoves, Known, envVars, Moved, Kept, KeptMarks, Anew,
           Flows, Recoveries
  <2>3. CASE StopEnds
    BY <1>5, <2>3, IdleFields
       DEF StopEnds, StopThrown, At, StopMoves, Known, envVars, Moved, Kept, KeptMarks, Anew, Flows,
           Recoveries
  <2>4. CASE StopGivesBack
    BY <1>5, <2>4, IdleFields
       DEF StopGivesBack, Guards, At, StopMoves, Known, envVars, Moved, Kept, KeptMarks, Anew,
           Flows, Recoveries
  <2>. QED
    BY <1>5, <2>1, <2>2, <2>3, <2>4 DEF StopMoves
<1>6. ASSUME NEW n \in Recoveries, RecoverMoves(n) PROVE Known'
  <2>1. CASE Fires(n)
    BY <1>6, <2>1, IdleFields
       DEF Fires, RecoverMoves, Known, envVars, Moved, Kept, KeptMarks, Anew, Flows, Recoveries
  <2>2. CASE Rechecks(n)
    BY <1>6, <2>2, IdleFields
       DEF Rechecks, At, RecoverMoves, Known, envVars, Moved, Kept, KeptMarks, Anew, Flows,
           Recoveries
  <2>3. CASE Settles(n)
    BY <1>6, <2>3, IdleFields
       DEF Settles, At, Armed, RecoverMoves, Known, envVars, Moved, Kept, KeptMarks, Anew,
           Flows, Recoveries
  <2>. QED
    BY <1>6, <2>1, <2>2, <2>3 DEF RecoverMoves
<1>7. CASE Ticks
  BY <1>7, IdleFields
     DEF Ticks, Armed, Known, envVars, Moved, Kept, KeptMarks, Anew, Flows, Recoveries
<1>8. CASE Dies
  BY <1>8, IdleFields DEF Dies, Known, envVars, Moved, Kept, KeptMarks, Anew, Flows, Recoveries
<1>9. CASE Rises
  BY <1>9, IdleFields
     DEF Rises, Guards, Known, envVars, Moved, Kept, KeptMarks, Anew, Flows, Recoveries
<1>10. CASE Rests
  BY <1>10, IdleFields
     DEF Rests, Guards, Known, envVars, Moved, Kept, KeptMarks, Anew, Flows, Recoveries
<1>11. ASSUME NEW c \in Children, Crashing(c) PROVE Known'
  BY <1>11, IdleFields
     DEF Crashing, Guards, Known, envVars, Moved, Kept, KeptMarks, Anew, Flows, Recoveries
<1>12. ASSUME NEW c \in Children, Exited(c) PROVE Known'
  BY <1>12, IdleFields
     DEF Exited, Armed, Known, envVars, Moved, Kept, KeptMarks, Anew, Flows, Recoveries
<1>13. ASSUME NEW c \in Children, Listened(c) PROVE Known'
  BY <1>13, IdleFields
     DEF Listened, Guards, Known, envVars, Moved, Kept, KeptMarks, Anew, Flows, Recoveries
<1>. QED
  BY <1>1, <1>2, <1>3, <1>4, <1>5, <1>6, <1>7, <1>8, <1>9, <1>10, <1>11, <1>12, <1>13 DEF Moves

(* A stop keeps stopping, and no timer fires into it.                      *)
LEMMA StopsStep ==
  ASSUME CallsTyped, Placed, Alone, Stops, faulted \subseteq faulted', Moves
  PROVE  Stops'
<1>1. ASSUME NEW f \in Flows, Shared(f) PROVE Stops'
  <2>1. CASE Tunnels(f)
    BY <2>1, IdleFields
       DEF Tunnels, Machines, At, Thrown, Stops, Moved, Kept, KeptMarks, Anew, Flows,
           Recoveries
  <2>2. CASE Probes(f)
    BY <2>2, IdleFields
       DEF Probes, Guards, At, Thrown, Stops, Moved, Kept, KeptMarks, Anew, Flows, Recoveries
  <2>3. CASE Spawns(f)
    BY <2>3, IdleFields
       DEF Spawns, Guards, At, Stops, Moved, Kept, KeptMarks, Anew, Flows, Recoveries
  <2>4. CASE Readies(f)
    BY <2>4, IdleFields
       DEF Readies, Ends, Guards, At, Thrown, Stops, Moved, Kept, KeptMarks, Anew, Flows,
           Recoveries
  <2>5. CASE Buries(f)
    BY <2>5, IdleFields
       DEF Buries, Guards, At, Thrown, Stops, Moved, Kept, KeptMarks, Anew, Flows, Recoveries
  <2>6. CASE DrainMoves(f)
    BY <2>6, IdleFields
       DEF DrainMoves, Drained, Guards, At, Stops, Moved, Kept, KeptMarks, Anew, Flows,
           Recoveries
  <2>7. CASE Shuts(f)
    BY <2>7, IdleFields
       DEF Shuts, Refused, Guards, At, Stops, Moved, Kept, KeptMarks, Anew, Flows, Recoveries
  <2>8. CASE Leaves(f)
    BY <2>8, IdleFields
       DEF Leaves, Ended, Refused, Guards, At, Stops, Moved, Kept, KeptMarks, Anew, Flows,
           Recoveries
  <2>9. CASE Severs(f)
    BY <2>9, IdleFields
       DEF Severs, Severed, Machines, At, Stops, Moved, Kept, KeptMarks, Anew, Flows,
           Recoveries
  <2>. QED
    BY <1>1, <2>1, <2>2, <2>3, <2>4, <2>5, <2>6, <2>7, <2>8, <2>9 DEF Shared
<1>2. ASSUME NEW f \in {"start", "stop"}, StaleMoves(f) PROVE Stops'
  BY <1>2, IdleFields
     DEF StaleMoves, Guards, At, Stops, Moved, Kept, KeptMarks, Anew, Flows, Recoveries
<1>3. ASSUME NEW f \in {"start"} \cup Recoveries, CleanMoves(f) PROVE Stops'
  BY <1>3, IdleFields
     DEF CleanMoves, Ends, Guards, At, Stops, Moved, Kept, KeptMarks, Anew, Flows, Recoveries
<1>4. CASE StartMoves
  <2>1. CASE StartAsks
    BY <1>4, <2>1, IdleFields
       DEF StartAsks, Guards, At, StartMoves, Stops, Moved, Kept, KeptMarks, Anew, Flows,
           Recoveries
  <2>2. CASE StartGoes
    BY <1>4, <2>2, IdleFields
       DEF StartGoes, Guards, At, StartMoves, Stops, Moved, Kept, KeptMarks, Anew, Flows,
           Recoveries, Placed, PlacesOf, ModesOf, Starting, Ending, Alone
  <2>3. CASE StartLoses
    BY <1>4, <2>3, IdleFields
       DEF StartLoses, At, StartMoves, Stops, Moved, Kept, KeptMarks, Anew, Flows, Recoveries,
           Placed, PlacesOf, ModesOf, Starting, Ending, Alone
  <2>. QED
    BY <1>4, <2>1, <2>2, <2>3 DEF StartMoves
<1>5. CASE StopMoves
  <2>1. CASE StopAsks
    BY <1>5, <2>1, IdleFields
       DEF StopAsks, Guards, At, StopMoves, Stops, Moved, Kept, KeptMarks, Anew, Flows,
           Recoveries
  <2>2. CASE StopAims
    BY <1>5, <2>2, IdleFields
       DEF StopAims, Guards, At, StopMoves, Stops, Moved, Kept, KeptMarks, Anew, Flows,
           Recoveries
  <2>3. CASE StopEnds
    BY <1>5, <2>3, IdleFields
       DEF StopEnds, StopThrown, At, StopMoves, Stops, Moved, Kept, KeptMarks, Anew, Flows, Recoveries,
           Placed, PlacesOf, ModesOf, Starting, Ending, Alone
  <2>4. CASE StopGivesBack
    BY <1>5, <2>4, IdleFields
       DEF StopGivesBack, Guards, At, StopMoves, Stops, Moved, Kept, KeptMarks, Anew, Flows,
           Recoveries
  <2>. QED
    BY <1>5, <2>1, <2>2, <2>3, <2>4 DEF StopMoves
<1>6. ASSUME NEW n \in Recoveries, RecoverMoves(n) PROVE Stops'
  <2>1. CASE Fires(n)
    BY <1>6, <2>1, IdleFields
       DEF Fires, RecoverMoves, Stops, Moved, Kept, KeptMarks, Anew, Flows, Recoveries, Placed,
           PlacesOf, ModesOf, Starting, Ending, Alone
  <2>2. CASE Rechecks(n)
    BY <1>6, <2>2, IdleFields
       DEF Rechecks, At, RecoverMoves, Stops, Moved, Kept, KeptMarks, Anew, Flows, Recoveries
  <2>3. CASE Settles(n)
    BY <1>6, <2>3, IdleFields
       DEF Settles, At, Armed, RecoverMoves, Stops, Moved, Kept, KeptMarks, Anew, Flows,
           Recoveries
  <2>. QED
    BY <1>6, <2>1, <2>2, <2>3 DEF RecoverMoves
<1>7. CASE Ticks
  BY <1>7, IdleFields DEF Ticks, Armed, Stops, Moved, Kept, KeptMarks, Anew, Flows, Recoveries
<1>8. CASE Dies
  BY <1>8, IdleFields DEF Dies, Stops, Moved, Kept, KeptMarks, Anew, Flows, Recoveries
<1>9. CASE Rises
  BY <1>9, IdleFields DEF Rises, Guards, Stops, Moved, Kept, KeptMarks, Anew, Flows, Recoveries
<1>10. CASE Rests
  BY <1>10, IdleFields
     DEF Rests, Guards, Stops, Moved, Kept, KeptMarks, Anew, Flows, Recoveries
<1>11. ASSUME NEW c \in Children, Crashing(c) PROVE Stops'
  BY <1>11, IdleFields
     DEF Crashing, Guards, Stops, Moved, Kept, KeptMarks, Anew, Flows, Recoveries
<1>12. ASSUME NEW c \in Children, Exited(c) PROVE Stops'
  BY <1>12, IdleFields
     DEF Exited, Armed, Stops, Moved, Kept, KeptMarks, Anew, Flows, Recoveries
<1>13. ASSUME NEW c \in Children, Listened(c) PROVE Stops'
  BY <1>13, IdleFields
     DEF Listened, Guards, Stops, Moved, Kept, KeptMarks, Anew, Flows, Recoveries
<1>. QED
  BY <1>1, <1>2, <1>3, <1>4, <1>5, <1>6, <1>7, <1>8, <1>9, <1>10, <1>11, <1>12, <1>13 DEF Moves

(* Between the check for a child and the spawn no other call moves.        *)
LEMMA Lonely ==
  ASSUME SpawnAlone, NEW h \in Flows, flow[h].pc = "spawn"
  PROVE  ~Quiet /\ \A g \in Flows \ {h} : \A p : ~At(g, p)
<1>1. Rushing(h)
  BY DEF Rushing, Sync
<1>. QED
  BY <1>1 DEF SpawnAlone, Quiet, At

\* A call comes to the spawn while nothing rushes.
BySpawn == \A h \in Flows : flow'[h].pc = "spawn" =>
  \/ flow[h].pc = "spawn" /\ UNCHANGED <<flow, proc, stopping>>
  \/ /\ Quiet /\ UNCHANGED <<proc, stopping>>
     /\ \A g \in Flows \ {h} : flow'[g] = flow[g]
     /\ h \in Recoveries => ~stopping

LEMMA ToSpawn ==
  ASSUME CallsTyped, Placed, SpawnAlone, Moves
  PROVE  BySpawn
<1>1. ASSUME NEW f \in Flows, Shared(f) PROVE BySpawn
  <2>1. CASE Tunnels(f)
    BY <2>1, Lonely, IdleFields
       DEF Tunnels, Machines, At, Thrown, BySpawn, procVars, Moved, Anew, Flows, Recoveries,
           Rushing, Sync
  <2>2. CASE Probes(f)
    BY <2>2, Lonely, IdleFields, SMTT(30)
       DEF Probes, Guards, At, Thrown, BySpawn, procVars, Moved, Anew, Flows, Recoveries
  <2>3. CASE Spawns(f)
    BY <2>3, Lonely, IdleFields
       DEF Spawns, Guards, At, BySpawn, procVars, Moved, Anew, Flows, Recoveries, Rushing,
           Sync, Quiet
  <2>4. CASE Readies(f)
    BY <2>4, Lonely, IdleFields
       DEF Readies, Ends, Guards, At, Thrown, BySpawn, procVars, Moved, Anew, Flows, Recoveries
  <2>5. CASE Buries(f)
    BY <2>5, Lonely, IdleFields
       DEF Buries, Guards, At, Thrown, BySpawn, procVars, Moved, Anew, Flows, Recoveries
  <2>6. CASE DrainMoves(f)
    BY <2>6, Lonely, IdleFields
       DEF DrainMoves, Drained, Guards, At, BySpawn, procVars, Moved, Anew, Flows, Recoveries
  <2>7. CASE Shuts(f)
    BY <2>7, Lonely, IdleFields
       DEF Shuts, Refused, Guards, At, BySpawn, procVars, Moved, Anew, Flows, Recoveries
  <2>8. CASE Leaves(f)
    BY <2>8, Lonely, IdleFields
       DEF Leaves, Ended, Refused, Guards, At, BySpawn, procVars, Moved, Anew, Flows,
           Recoveries
  <2>9. CASE Severs(f)
    BY <2>9, Lonely, IdleFields
       DEF Severs, Severed, Machines, At, BySpawn, procVars, Moved, Anew, Flows, Recoveries
  <2>. QED
    BY <1>1, <2>1, <2>2, <2>3, <2>4, <2>5, <2>6, <2>7, <2>8, <2>9, SMTT(30) DEF Shared
<1>2. ASSUME NEW f \in {"start", "stop"}, StaleMoves(f) PROVE BySpawn
  BY <1>2, Lonely, IdleFields
     DEF StaleMoves, Guards, At, BySpawn, procVars, Moved, Anew, Flows, Recoveries
<1>3. ASSUME NEW f \in {"start"} \cup Recoveries, CleanMoves(f) PROVE BySpawn
  BY <1>3, Lonely, IdleFields
     DEF CleanMoves, Ends, Guards, At, BySpawn, procVars, Moved, Anew, Flows, Recoveries
<1>4. CASE StartMoves
  <2>1. CASE StartAsks
    BY <1>4, <2>1, Lonely, IdleFields
       DEF StartAsks, Guards, At, StartMoves, BySpawn, procVars, Moved, Anew, Flows, Recoveries
  <2>2. CASE StartGoes
    BY <1>4, <2>2, Lonely, IdleFields
       DEF StartGoes, Guards, At, StartMoves, BySpawn, procVars, Moved, Anew, Flows, Recoveries
  <2>3. CASE StartLoses
    BY <1>4, <2>3, Lonely, IdleFields
       DEF StartLoses, At, StartMoves, BySpawn, procVars, Moved, Anew, Flows, Recoveries
  <2>. QED
    BY <1>4, <2>1, <2>2, <2>3 DEF StartMoves
<1>5. CASE StopMoves
  <2>1. CASE StopAsks
    BY <1>5, <2>1, Lonely, IdleFields
       DEF StopAsks, Guards, At, StopMoves, BySpawn, procVars, Moved, Anew, Flows, Recoveries
  <2>2. CASE StopAims
    BY <1>5, <2>2, Lonely, IdleFields
       DEF StopAims, Guards, At, StopMoves, BySpawn, procVars, Moved, Anew, Flows, Recoveries
  <2>3. CASE StopEnds
    BY <1>5, <2>3, Lonely, IdleFields, SMTT(30)
       DEF StopEnds, StopThrown, At, StopMoves, BySpawn, procVars, Moved, Anew, Flows, Recoveries
  <2>4. CASE StopGivesBack
    BY <1>5, <2>4, Lonely, IdleFields
       DEF StopGivesBack, Guards, At, StopMoves, BySpawn, procVars, Moved, Anew, Flows,
           Recoveries, Rushing, Sync
  <2>. QED
    BY <1>5, <2>1, <2>2, <2>3, <2>4 DEF StopMoves
<1>6. ASSUME NEW n \in Recoveries, RecoverMoves(n) PROVE BySpawn
  <2>1. CASE Fires(n)
    BY <1>6, <2>1, Lonely, IdleFields
       DEF Fires, RecoverMoves, BySpawn, procVars, Moved, Anew, Flows, Recoveries
  <2>2. CASE Rechecks(n)
    BY <1>6, <2>2, Lonely, IdleFields
       DEF Rechecks, At, RecoverMoves, BySpawn, procVars, Moved, Anew, Flows, Recoveries
  <2>3. CASE Settles(n)
    BY <1>6, <2>3, Lonely, IdleFields
       DEF Settles, At, Armed, RecoverMoves, BySpawn, procVars, Moved, Anew, Flows, Recoveries
  <2>. QED
    BY <1>6, <2>1, <2>2, <2>3 DEF RecoverMoves
<1>7. CASE Ticks
  BY <1>7, Lonely, IdleFields
     DEF Ticks, Armed, BySpawn, procVars, Moved, Anew, Flows, Recoveries
<1>8. CASE Dies
  BY <1>8, Lonely, IdleFields DEF Dies, BySpawn, procVars, Moved, Anew, Flows, Recoveries
<1>9. CASE Rises
  BY <1>9, Lonely, IdleFields
     DEF Rises, Guards, BySpawn, procVars, Moved, Anew, Flows, Recoveries
<1>10. CASE Rests
  BY <1>10, Lonely, IdleFields
     DEF Rests, Guards, BySpawn, procVars, Moved, Anew, Flows, Recoveries
<1>11. ASSUME NEW c \in Children, Crashing(c) PROVE BySpawn
  BY <1>11, Lonely, IdleFields
     DEF Crashing, Guards, BySpawn, procVars, Moved, Anew, Flows, Recoveries
<1>12. ASSUME NEW c \in Children, Exited(c) PROVE BySpawn
  BY <1>12, Lonely, IdleFields
     DEF Exited, Armed, BySpawn, procVars, Moved, Anew, Flows, Recoveries
<1>13. ASSUME NEW c \in Children, Listened(c) PROVE BySpawn
  BY <1>13, Lonely, IdleFields
     DEF Listened, Guards, BySpawn, procVars, Moved, Anew, Flows, Recoveries
<1>. QED
  BY <1>1, <1>2, <1>3, <1>4, <1>5, <1>6, <1>7, <1>8, <1>9, <1>10, <1>11, <1>12, <1>13 DEF Moves

LEMMA SpawnAloneStep ==
  ASSUME SpawnAlone, BySpawn
  PROVE  SpawnAlone'
<1>. SUFFICES ASSUME NEW h \in Flows, flow'[h].pc = "spawn"
              PROVE  /\ \A g \in Flows \ {h} : ~Rushing(g)'
                     /\ h \in Recoveries => ~stopping'
  BY DEF SpawnAlone
<1>1. CASE flow[h].pc = "spawn" /\ UNCHANGED <<flow, proc, stopping>>
  BY <1>1 DEF SpawnAlone, Rushing, Recovered, Alive
<1>2. CASE /\ Quiet /\ UNCHANGED <<proc, stopping>>
           /\ \A g \in Flows \ {h} : flow'[g] = flow[g]
           /\ h \in Recoveries => ~stopping
  <2>1. ASSUME NEW g \in Flows \ {h} PROVE ~Rushing(g)'
    <3>1. ~Rushing(g) /\ flow'[g] = flow[g]
      BY <1>2 DEF Quiet
    <3>2. \A k \in Flows : flow'[k].pc = "idle" => flow[k].pc = "idle"
      BY <1>2
    <3>. QED
      BY <1>2, <3>1, <3>2 DEF Rushing, Recovered, Alive, Flows, Recoveries
  <2>. QED
    BY <1>2, <2>1
<1>. QED
  BY <1>1, <1>2 DEF BySpawn

LEMMA HoldStep ==
  ASSUME faulted \subseteq faulted', Moves
  PROVE  Hold' => Hold
  BY LostGrows DEF Hold

(* The child that is ended stays the one held until it has exited: another *)
(* call cannot spawn, for it would have to find no child.                  *)
LEMMA KillsStep ==
  ASSUME CallsTyped, KidsTyped, Placed, SpawnAlone, Exiting, Kills,
         faulted \subseteq faulted', Hold' => Hold, Moves
  PROVE  Kills'
<1>1. ASSUME NEW f \in Flows, Shared(f) PROVE Kills'
  <2>1. CASE Tunnels(f)
    BY <2>1, IdleFields, BoundsAssumption
       DEF Tunnels, Machines, At, Thrown, Kills, KidsTyped, Alive, Moved, Kept, KeptMarks,
           Anew, procVars, childVars, Flows, Recoveries
  <2>2. CASE Probes(f)
    BY <2>2, IdleFields, BoundsAssumption
       DEF Probes, Guards, At, Thrown, Kills, KidsTyped, Alive, Moved, Kept, KeptMarks, Anew,
           procVars, childVars, Flows, Recoveries
  <2>3. CASE Spawns(f)
    BY <2>3, IdleFields, BoundsAssumption, Lonely
       DEF Spawns, Guards, At, Kills, KidsTyped, Alive, Moved, Kept, KeptMarks, Anew, procVars,
           childVars, Flows, Recoveries, SpawnAlone, Rushing, Fresh
  <2>4. CASE Readies(f)
    BY <2>4, IdleFields, BoundsAssumption
       DEF Readies, Ends, Guards, At, Thrown, Kills, KidsTyped, Alive, Moved, Kept, KeptMarks,
           Anew, procVars, childVars, Flows, Recoveries
  <2>5. CASE Buries(f)
    BY <2>5, IdleFields, BoundsAssumption
       DEF Buries, Guards, At, Thrown, Kills, KidsTyped, Alive, Moved, Kept, KeptMarks, Anew,
           procVars, childVars, Flows, Recoveries, Forget
  <2>6. CASE DrainMoves(f)
    BY <2>6, IdleFields, BoundsAssumption
       DEF DrainMoves, Drained, Guards, At, Kills, KidsTyped, Alive, Moved, Kept, KeptMarks,
           Anew, procVars, childVars, Flows, Recoveries
  <2>7. CASE Shuts(f)
    BY <2>7, IdleFields, BoundsAssumption
       DEF Shuts, Refused, Guards, At, Kills, KidsTyped, Alive, Moved, Kept, KeptMarks, Anew,
           procVars, childVars, Flows, Recoveries, Listening
  <2>8. CASE Leaves(f)
    <3>1. flow'[f].pc # "kill" /\ Alive' = Alive
      BY <2>8 DEF Leaves, Ended, Refused, procVars, Alive
    <3>2. CASE UNCHANGED daemon
      BY <2>8, <3>1, <3>2 DEF Leaves, Moved, Kills
    <3>3. CASE daemon' # daemon
      <4>1. flow[f].mode # "stale" /\ flow[f].child \notin Alive /\ daemon' = None
        BY <2>8, <3>3 DEF Leaves, Forget
      <4>2. Hold' => daemon = flow[f].child
        BY <2>8, <3>3, <4>1 DEF Leaves, At, Forget, Hold, Exiting
      <4>3. ASSUME NEW g \in Flows, flow[g].pc = "kill", Hold' PROVE FALSE
        BY <3>3, <4>1, <4>2, <4>3, BoundsAssumption DEF Kills, Alive
      <4>. QED
        BY <2>8, <3>1, <4>3 DEF Leaves, Moved, Kills
    <3>. QED
      BY <3>2, <3>3
  <2>9. CASE Severs(f)
    BY <2>9, IdleFields, BoundsAssumption
       DEF Severs, Severed, Machines, At, Kills, KidsTyped, Alive, Moved, Kept, KeptMarks,
           Anew, procVars, childVars, Flows, Recoveries
  <2>. QED
    BY <1>1, <2>1, <2>2, <2>3, <2>4, <2>5, <2>6, <2>7, <2>8, <2>9 DEF Shared
<1>2. ASSUME NEW f \in {"start", "stop"}, StaleMoves(f) PROVE Kills'
  BY <1>2, IdleFields, BoundsAssumption
     DEF StaleMoves, Guards, At, Kills, KidsTyped, Alive, Moved, Kept, KeptMarks, Anew,
         procVars, childVars, Flows, Recoveries
<1>3. ASSUME NEW f \in {"start"} \cup Recoveries, CleanMoves(f) PROVE Kills'
  BY <1>3, IdleFields, BoundsAssumption
     DEF CleanMoves, Ends, Guards, At, Kills, KidsTyped, Alive, Moved, Kept, KeptMarks, Anew,
         procVars, childVars, Flows, Recoveries
<1>4. CASE StartMoves
  <2>1. CASE StartAsks
    BY <1>4, <2>1, IdleFields, BoundsAssumption
       DEF StartAsks, Guards, At, StartMoves, Kills, KidsTyped, Alive, Moved, Kept, KeptMarks,
           Anew, procVars, childVars, Flows, Recoveries
  <2>2. CASE StartGoes
    BY <1>4, <2>2, IdleFields, BoundsAssumption
       DEF StartGoes, Guards, At, StartMoves, Kills, KidsTyped, Alive, Moved, Kept, KeptMarks,
           Anew, procVars, childVars, Flows, Recoveries
  <2>3. CASE StartLoses
    BY <1>4, <2>3, IdleFields, BoundsAssumption
       DEF StartLoses, At, StartMoves, Kills, KidsTyped, Alive, Moved, Kept, KeptMarks, Anew,
           procVars, childVars, Flows, Recoveries
  <2>. QED
    BY <1>4, <2>1, <2>2, <2>3 DEF StartMoves
<1>5. CASE StopMoves
  <2>1. CASE StopAsks
    BY <1>5, <2>1, IdleFields, BoundsAssumption
       DEF StopAsks, Guards, At, StopMoves, Kills, KidsTyped, Alive, Moved, Kept, KeptMarks,
           Anew, procVars, childVars, Flows, Recoveries
  <2>2. CASE StopAims
    BY <1>5, <2>2, IdleFields, BoundsAssumption
       DEF StopAims, Guards, At, StopMoves, Kills, KidsTyped, Alive, Moved, Kept, KeptMarks,
           Anew, procVars, childVars, Flows, Recoveries
  <2>3. CASE StopEnds
    BY <1>5, <2>3, IdleFields, BoundsAssumption
       DEF StopEnds, StopThrown, At, StopMoves, Kills, KidsTyped, Alive, Moved, Kept, KeptMarks, Anew,
           procVars, childVars, Flows, Recoveries
  <2>4. CASE StopGivesBack
    BY <1>5, <2>4, IdleFields, BoundsAssumption
       DEF StopGivesBack, Guards, At, StopMoves, Kills, KidsTyped, Alive, Moved, Kept,
           KeptMarks, Anew, procVars, childVars, Flows, Recoveries
  <2>. QED
    BY <1>5, <2>1, <2>2, <2>3, <2>4 DEF StopMoves
<1>6. ASSUME NEW n \in Recoveries, RecoverMoves(n) PROVE Kills'
  <2>1. CASE Fires(n)
    BY <1>6, <2>1, IdleFields, BoundsAssumption
       DEF Fires, RecoverMoves, Kills, KidsTyped, Alive, Moved, Kept, KeptMarks, Anew,
           procVars, childVars, Flows, Recoveries
  <2>2. CASE Rechecks(n)
    BY <1>6, <2>2, IdleFields, BoundsAssumption
       DEF Rechecks, At, RecoverMoves, Kills, KidsTyped, Alive, Moved, Kept, KeptMarks, Anew,
           procVars, childVars, Flows, Recoveries
  <2>3. CASE Settles(n)
    BY <1>6, <2>3, IdleFields, BoundsAssumption
       DEF Settles, At, Armed, RecoverMoves, Kills, KidsTyped, Alive, Moved, Kept, KeptMarks,
           Anew, procVars, childVars, Flows, Recoveries
  <2>. QED
    BY <1>6, <2>1, <2>2, <2>3 DEF RecoverMoves
<1>7. CASE Ticks
  BY <1>7, IdleFields, BoundsAssumption
     DEF Ticks, Armed, Kills, KidsTyped, Alive, Moved, Kept, KeptMarks, Anew, procVars,
         childVars, Flows, Recoveries
<1>8. CASE Dies
  BY <1>8, IdleFields, BoundsAssumption
     DEF Dies, Kills, KidsTyped, Alive, Moved, Kept, KeptMarks, Anew, procVars, childVars,
         Flows, Recoveries
<1>9. CASE Rises
  BY <1>9, IdleFields, BoundsAssumption
     DEF Rises, Guards, Kills, KidsTyped, Alive, Moved, Kept, KeptMarks, Anew, procVars,
         childVars, Flows, Recoveries
<1>10. CASE Rests
  BY <1>10, IdleFields, BoundsAssumption
     DEF Rests, Guards, Kills, KidsTyped, Alive, Moved, Kept, KeptMarks, Anew, procVars,
         childVars, Flows, Recoveries
<1>11. ASSUME NEW c \in Children, Crashing(c) PROVE Kills'
  BY <1>11, IdleFields, BoundsAssumption
     DEF Crashing, Guards, Kills, KidsTyped, Alive, Moved, Kept, KeptMarks, Anew, procVars,
         childVars, Flows, Recoveries
<1>12. ASSUME NEW c \in Children, Exited(c) PROVE Kills'
  BY <1>12, IdleFields, BoundsAssumption
     DEF Exited, Armed, Kills, KidsTyped, Alive, Moved, Kept, KeptMarks, Anew, procVars,
         childVars, Flows, Recoveries, Without
<1>13. ASSUME NEW c \in Children, Listened(c) PROVE Kills'
  BY <1>13, IdleFields, BoundsAssumption
     DEF Listened, Guards, Kills, KidsTyped, Alive, Moved, Kept, KeptMarks, Anew, procVars,
         childVars, Flows, Recoveries
<1>. QED
  BY <1>1, <1>2, <1>3, <1>4, <1>5, <1>6, <1>7, <1>8, <1>9, <1>10, <1>11, <1>12, <1>13 DEF Moves

(* While a daemon shuts down nothing else is spawned.                      *)
LEMMA ExitingStep ==
  ASSUME CallsTyped, KidsTyped, Placed, Alone, Stops, SpawnAlone, Exiting,
         faulted \subseteq faulted', Moves
  PROVE  Exiting'
<1>1. ASSUME NEW f \in Flows, Shared(f) PROVE Exiting'
  <2>1. CASE Tunnels(f)
    BY <2>1, IdleFields
       DEF Tunnels, Machines, At, Thrown, Exiting, KidsTyped, Moved, Kept, KeptMarks, Anew,
           procVars, childVars, Flows, Recoveries
  <2>2. CASE Probes(f)
    BY <2>2, IdleFields
       DEF Probes, Guards, At, Thrown, Exiting, KidsTyped, Moved, Kept, KeptMarks, Anew,
           procVars, childVars, Flows, Recoveries
  <2>3. CASE Spawns(f)
    BY <2>3, IdleFields
       DEF Spawns, Guards, At, Exiting, KidsTyped, Moved, Kept, KeptMarks, Anew, procVars,
           childVars, Flows, Recoveries, SpawnAlone, Stops, Alone, Placed, PlacesOf, ModesOf,
           Starting, Ending
  <2>4. CASE Readies(f)
    BY <2>4, IdleFields
       DEF Readies, Ends, Guards, At, Thrown, Exiting, KidsTyped, Moved, Kept, KeptMarks, Anew,
           procVars, childVars, Flows, Recoveries
  <2>5. CASE Buries(f)
    BY <2>5, IdleFields
       DEF Buries, Guards, At, Thrown, Exiting, KidsTyped, Moved, Kept, KeptMarks, Anew,
           procVars, childVars, Flows, Recoveries, Forget
  <2>6. CASE DrainMoves(f)
    BY <2>6, IdleFields
       DEF DrainMoves, Drained, Guards, At, Exiting, KidsTyped, Moved, Kept, KeptMarks, Anew,
           procVars, childVars, Flows, Recoveries
  <2>7. CASE Shuts(f)
    BY <2>7, IdleFields
       DEF Shuts, Refused, Guards, At, Exiting, KidsTyped, Moved, Kept, KeptMarks, Anew,
           procVars, childVars, Flows, Recoveries
  <2>8. CASE Leaves(f)
    BY <2>8, IdleFields
       DEF Leaves, Ended, Refused, Guards, At, Exiting, KidsTyped, Moved, Kept, KeptMarks,
           Anew, procVars, childVars, Flows, Recoveries, Forget
  <2>9. CASE Severs(f)
    BY <2>9, IdleFields
       DEF Severs, Severed, Machines, At, Exiting, KidsTyped, Moved, Kept, KeptMarks, Anew,
           procVars, childVars, Flows, Recoveries
  <2>. QED
    BY <1>1, <2>1, <2>2, <2>3, <2>4, <2>5, <2>6, <2>7, <2>8, <2>9 DEF Shared
<1>2. ASSUME NEW f \in {"start", "stop"}, StaleMoves(f) PROVE Exiting'
  BY <1>2, IdleFields
     DEF StaleMoves, Guards, At, Exiting, KidsTyped, Moved, Kept, KeptMarks, Anew, procVars,
         childVars, Flows, Recoveries
<1>3. ASSUME NEW f \in {"start"} \cup Recoveries, CleanMoves(f) PROVE Exiting'
  BY <1>3, IdleFields
     DEF CleanMoves, Ends, Guards, At, Exiting, KidsTyped, Moved, Kept, KeptMarks, Anew,
         procVars, childVars, Flows, Recoveries
<1>4. CASE StartMoves
  <2>1. CASE StartAsks
    BY <1>4, <2>1, IdleFields
       DEF StartAsks, Guards, At, StartMoves, Exiting, KidsTyped, Moved, Kept, KeptMarks, Anew,
           procVars, childVars, Flows, Recoveries
  <2>2. CASE StartGoes
    BY <1>4, <2>2, IdleFields
       DEF StartGoes, Guards, At, StartMoves, Exiting, KidsTyped, Moved, Kept, KeptMarks, Anew,
           procVars, childVars, Flows, Recoveries
  <2>3. CASE StartLoses
    BY <1>4, <2>3, IdleFields
       DEF StartLoses, At, StartMoves, Exiting, KidsTyped, Moved, Kept, KeptMarks, Anew,
           procVars, childVars, Flows, Recoveries
  <2>. QED
    BY <1>4, <2>1, <2>2, <2>3 DEF StartMoves
<1>5. CASE StopMoves
  <2>1. CASE StopAsks
    BY <1>5, <2>1, IdleFields
       DEF StopAsks, Guards, At, StopMoves, Exiting, KidsTyped, Moved, Kept, KeptMarks, Anew,
           procVars, childVars, Flows, Recoveries
  <2>2. CASE StopAims
    BY <1>5, <2>2, IdleFields
       DEF StopAims, Guards, At, StopMoves, Exiting, KidsTyped, Moved, Kept, KeptMarks, Anew,
           procVars, childVars, Flows, Recoveries
  <2>3. CASE StopEnds
    BY <1>5, <2>3, IdleFields
       DEF StopEnds, StopThrown, At, StopMoves, Exiting, KidsTyped, Moved, Kept, KeptMarks, Anew, procVars,
           childVars, Flows, Recoveries
  <2>4. CASE StopGivesBack
    BY <1>5, <2>4, IdleFields
       DEF StopGivesBack, Guards, At, StopMoves, Exiting, KidsTyped, Moved, Kept, KeptMarks,
           Anew, procVars, childVars, Flows, Recoveries
  <2>. QED
    BY <1>5, <2>1, <2>2, <2>3, <2>4 DEF StopMoves
<1>6. ASSUME NEW n \in Recoveries, RecoverMoves(n) PROVE Exiting'
  <2>1. CASE Fires(n)
    BY <1>6, <2>1, IdleFields
       DEF Fires, RecoverMoves, Exiting, KidsTyped, Moved, Kept, KeptMarks, Anew, procVars,
           childVars, Flows, Recoveries
  <2>2. CASE Rechecks(n)
    BY <1>6, <2>2, IdleFields
       DEF Rechecks, At, RecoverMoves, Exiting, KidsTyped, Moved, Kept, KeptMarks, Anew,
           procVars, childVars, Flows, Recoveries
  <2>3. CASE Settles(n)
    BY <1>6, <2>3, IdleFields
       DEF Settles, At, Armed, RecoverMoves, Exiting, KidsTyped, Moved, Kept, KeptMarks, Anew,
           procVars, childVars, Flows, Recoveries
  <2>. QED
    BY <1>6, <2>1, <2>2, <2>3 DEF RecoverMoves
<1>7. CASE Ticks
  BY <1>7, IdleFields
     DEF Ticks, Armed, Exiting, KidsTyped, Moved, Kept, KeptMarks, Anew, procVars, childVars,
         Flows, Recoveries
<1>8. CASE Dies
  BY <1>8, IdleFields
     DEF Dies, Exiting, KidsTyped, Moved, Kept, KeptMarks, Anew, procVars, childVars, Flows,
         Recoveries
<1>9. CASE Rises
  BY <1>9, IdleFields
     DEF Rises, Guards, Exiting, KidsTyped, Moved, Kept, KeptMarks, Anew, procVars, childVars,
         Flows, Recoveries
<1>10. CASE Rests
  BY <1>10, IdleFields
     DEF Rests, Guards, Exiting, KidsTyped, Moved, Kept, KeptMarks, Anew, procVars, childVars,
         Flows, Recoveries
<1>11. ASSUME NEW c \in Children, Crashing(c) PROVE Exiting'
  BY <1>11, IdleFields
     DEF Crashing, Guards, Exiting, KidsTyped, Moved, Kept, KeptMarks, Anew, procVars,
         childVars, Flows, Recoveries
<1>12. ASSUME NEW c \in Children, Exited(c) PROVE Exiting'
  BY <1>12, IdleFields
     DEF Exited, Armed, Exiting, KidsTyped, Moved, Kept, KeptMarks, Anew, procVars, childVars,
         Flows, Recoveries, Without
<1>13. ASSUME NEW c \in Children, Listened(c) PROVE Exiting'
  BY <1>13, IdleFields
     DEF Listened, Guards, Exiting, KidsTyped, Moved, Kept, KeptMarks, Anew, procVars,
         childVars, Flows, Recoveries
<1>. QED
  BY <1>1, <1>2, <1>3, <1>4, <1>5, <1>6, <1>7, <1>8, <1>9, <1>10, <1>11, <1>12, <1>13 DEF Moves

(* A daemon is forgotten only once it has exited.                          *)
LEMMA HeldStep ==
  ASSUME CallsTyped, KidsTyped, Down, Exiting, Kills, Held, faulted \subseteq faulted',
         Hold' => Hold, Moves
  PROVE  Held'
<1>1. ASSUME NEW f \in Flows, Shared(f) PROVE Held'
  <2>1. CASE Tunnels(f)
    BY <2>1, BoundsAssumption
       DEF Tunnels, Machines, At, Thrown, Held, envVars, KidsTyped, Serving, Moved, Kept,
           KeptMarks, Anew, procVars, childVars, Flows, Recoveries
  <2>2. CASE Probes(f)
    BY <2>2, BoundsAssumption
       DEF Probes, Guards, At, Thrown, Held, envVars, KidsTyped, Serving, Moved, Kept,
           KeptMarks, Anew, procVars, childVars, Flows, Recoveries
  <2>3. CASE Spawns(f)
    BY <2>3, BoundsAssumption
       DEF Spawns, Guards, At, Held, envVars, KidsTyped, Serving, Moved, Kept, KeptMarks, Anew,
           procVars, childVars, Flows, Recoveries, Fresh
  <2>4. CASE Readies(f)
    BY <2>4, BoundsAssumption
       DEF Readies, Ends, Guards, At, Thrown, Held, envVars, KidsTyped, Serving, Moved, Kept,
           KeptMarks, Anew, procVars, childVars, Flows, Recoveries
  <2>5. CASE Buries(f)
    BY <2>5, BoundsAssumption
       DEF Buries, Guards, At, Thrown, Held, envVars, KidsTyped, Serving, Moved, Kept,
           KeptMarks, Anew, procVars, childVars, Flows, Recoveries, Forget, Kills, Alive
  <2>6. CASE DrainMoves(f)
    BY <2>6, BoundsAssumption
       DEF DrainMoves, Drained, Guards, At, Held, envVars, KidsTyped, Serving, Moved, Kept,
           KeptMarks, Anew, procVars, childVars, Flows, Recoveries
  <2>7. CASE Shuts(f)
    BY <2>7, BoundsAssumption
       DEF Shuts, Refused, Guards, At, Held, envVars, KidsTyped, Serving, Moved, Kept,
           KeptMarks, Anew, procVars, childVars, Flows, Recoveries, Listening
  <2>8. CASE Leaves(f)
    BY <2>8, BoundsAssumption, ZenonT(60)
       DEF Leaves, Ended, Refused, Guards, At, Held, envVars, KidsTyped, Serving, Moved, Kept,
           KeptMarks, Anew, procVars, childVars, Flows, Recoveries, Exiting, Hold, Forget,
           Alive
  <2>9. CASE Severs(f)
    BY <2>9, BoundsAssumption
       DEF Severs, Severed, Machines, At, Held, envVars, KidsTyped, Serving, Moved, Kept,
           KeptMarks, Anew, procVars, childVars, Flows, Recoveries
  <2>. QED
    BY <1>1, <2>1, <2>2, <2>3, <2>4, <2>5, <2>6, <2>7, <2>8, <2>9 DEF Shared
<1>2. ASSUME NEW f \in {"start", "stop"}, StaleMoves(f) PROVE Held'
  BY <1>2, BoundsAssumption
     DEF StaleMoves, Guards, At, Held, envVars, KidsTyped, Serving, Moved, Kept, KeptMarks,
         Anew, procVars, childVars, Flows, Recoveries
<1>3. ASSUME NEW f \in {"start"} \cup Recoveries, CleanMoves(f) PROVE Held'
  BY <1>3, BoundsAssumption
     DEF CleanMoves, Ends, Guards, At, Held, envVars, KidsTyped, Serving, Moved, Kept,
         KeptMarks, Anew, procVars, childVars, Flows, Recoveries
<1>4. CASE StartMoves
  <2>1. CASE StartAsks
    BY <1>4, <2>1, BoundsAssumption
       DEF StartAsks, Guards, At, StartMoves, Held, envVars, KidsTyped, Serving, Moved, Kept,
           KeptMarks, Anew, procVars, childVars, Flows, Recoveries
  <2>2. CASE StartGoes
    BY <1>4, <2>2, BoundsAssumption
       DEF StartGoes, Guards, At, StartMoves, Held, envVars, KidsTyped, Serving, Moved, Kept,
           KeptMarks, Anew, procVars, childVars, Flows, Recoveries
  <2>3. CASE StartLoses
    BY <1>4, <2>3, BoundsAssumption
       DEF StartLoses, At, StartMoves, Held, envVars, KidsTyped, Serving, Moved, Kept,
           KeptMarks, Anew, procVars, childVars, Flows, Recoveries
  <2>. QED
    BY <1>4, <2>1, <2>2, <2>3 DEF StartMoves
<1>5. CASE StopMoves
  <2>1. CASE StopAsks
    BY <1>5, <2>1, BoundsAssumption
       DEF StopAsks, Guards, At, StopMoves, Held, envVars, KidsTyped, Serving, Moved, Kept,
           KeptMarks, Anew, procVars, childVars, Flows, Recoveries
  <2>2. CASE StopAims
    BY <1>5, <2>2, BoundsAssumption
       DEF StopAims, Guards, At, StopMoves, Held, envVars, KidsTyped, Serving, Moved, Kept,
           KeptMarks, Anew, procVars, childVars, Flows, Recoveries
  <2>3. CASE StopEnds
    BY <1>5, <2>3, BoundsAssumption
       DEF StopEnds, StopThrown, At, StopMoves, Held, envVars, KidsTyped, Serving, Moved, Kept, KeptMarks,
           Anew, procVars, childVars, Flows, Recoveries
  <2>4. CASE StopGivesBack
    BY <1>5, <2>4, BoundsAssumption
       DEF StopGivesBack, Guards, At, StopMoves, Held, envVars, KidsTyped, Serving, Moved,
           Kept, KeptMarks, Anew, procVars, childVars, Flows, Recoveries
  <2>. QED
    BY <1>5, <2>1, <2>2, <2>3, <2>4 DEF StopMoves
<1>6. ASSUME NEW n \in Recoveries, RecoverMoves(n) PROVE Held'
  <2>1. CASE Fires(n)
    BY <1>6, <2>1, BoundsAssumption
       DEF Fires, RecoverMoves, Held, envVars, KidsTyped, Serving, Moved, Kept, KeptMarks,
           Anew, procVars, childVars, Flows, Recoveries
  <2>2. CASE Rechecks(n)
    BY <1>6, <2>2, BoundsAssumption
       DEF Rechecks, At, RecoverMoves, Held, envVars, KidsTyped, Serving, Moved, Kept,
           KeptMarks, Anew, procVars, childVars, Flows, Recoveries
  <2>3. CASE Settles(n)
    BY <1>6, <2>3, BoundsAssumption
       DEF Settles, At, Armed, RecoverMoves, Held, envVars, KidsTyped, Serving, Moved, Kept,
           KeptMarks, Anew, procVars, childVars, Flows, Recoveries
  <2>. QED
    BY <1>6, <2>1, <2>2, <2>3 DEF RecoverMoves
<1>7. CASE Ticks
  BY <1>7, BoundsAssumption
     DEF Ticks, Armed, Held, envVars, KidsTyped, Serving, Moved, Kept, KeptMarks, Anew,
         procVars, childVars, Flows, Recoveries
<1>8. CASE Dies
  BY <1>8, BoundsAssumption
     DEF Dies, Held, envVars, KidsTyped, Serving, Moved, Kept, KeptMarks, Anew, procVars,
         childVars, Flows, Recoveries
<1>9. CASE Rises
  BY <1>9, BoundsAssumption
     DEF Rises, Guards, Held, envVars, KidsTyped, Serving, Moved, Kept, KeptMarks, Anew,
         procVars, childVars, Flows, Recoveries, Down
<1>10. CASE Rests
  BY <1>10, BoundsAssumption
     DEF Rests, Guards, Held, envVars, KidsTyped, Serving, Moved, Kept, KeptMarks, Anew,
         procVars, childVars, Flows, Recoveries
<1>11. ASSUME NEW c \in Children, Crashing(c) PROVE Held'
  BY <1>11, BoundsAssumption
     DEF Crashing, Guards, Held, envVars, KidsTyped, Serving, Moved, Kept, KeptMarks, Anew,
         procVars, childVars, Flows, Recoveries
<1>12. ASSUME NEW c \in Children, Exited(c) PROVE Held'
  BY <1>12, BoundsAssumption
     DEF Exited, Armed, Held, envVars, KidsTyped, Serving, Moved, Kept, KeptMarks, Anew,
         procVars, childVars, Flows, Recoveries, Without
<1>13. ASSUME NEW c \in Children, Listened(c) PROVE Held'
  BY <1>13, BoundsAssumption
     DEF Listened, Guards, Held, envVars, KidsTyped, Serving, Moved, Kept, KeptMarks, Anew,
         procVars, childVars, Flows, Recoveries
<1>. QED
  BY <1>1, <1>2, <1>3, <1>4, <1>5, <1>6, <1>7, <1>8, <1>9, <1>10, <1>11, <1>12, <1>13 DEF Moves

(* A stop about to be answered holds no daemon.                            *)
LEMMA ReadyGoneStep ==
  ASSUME CallsTyped, KidsTyped, Placed, Alone, Stops, ReadyGone, lost => lost', Moves
  PROVE  ReadyGone'
<1>1. ASSUME NEW f \in Flows, Shared(f) PROVE ReadyGone'
  <2>1. CASE Tunnels(f)
    BY <2>1, IdleFields
       DEF Tunnels, Machines, At, Thrown, ReadyGone, Moved, Kept, KeptMarks, Anew, procVars,
           childVars, Flows, Recoveries
  <2>2. CASE Probes(f)
    BY <2>2, IdleFields
       DEF Probes, Guards, At, Thrown, ReadyGone, Moved, Kept, KeptMarks, Anew, procVars,
           childVars, Flows, Recoveries
  <2>3. CASE Spawns(f)
    BY <2>3, IdleFields
       DEF Spawns, Guards, At, ReadyGone, Moved, Kept, KeptMarks, Anew, procVars, childVars,
           Flows, Recoveries, Alone, Stops, Placed, PlacesOf, Starting, Ending
  <2>4. CASE Readies(f)
    BY <2>4, IdleFields
       DEF Readies, Ends, Guards, At, Thrown, ReadyGone, Moved, Kept, KeptMarks, Anew,
           procVars, childVars, Flows, Recoveries
  <2>5. CASE Buries(f)
    BY <2>5, IdleFields
       DEF Buries, Guards, At, Thrown, ReadyGone, Moved, Kept, KeptMarks, Anew, procVars,
           childVars, Flows, Recoveries, Forget
  <2>6. CASE DrainMoves(f)
    BY <2>6, IdleFields
       DEF DrainMoves, Drained, Guards, At, ReadyGone, Moved, Kept, KeptMarks, Anew, procVars,
           childVars, Flows, Recoveries
  <2>7. CASE Shuts(f)
    BY <2>7, IdleFields
       DEF Shuts, Refused, Guards, At, ReadyGone, Moved, Kept, KeptMarks, Anew, procVars,
           childVars, Flows, Recoveries
  <2>8. CASE Leaves(f)
    BY <2>8, IdleFields
       DEF Leaves, Ended, Refused, Guards, At, ReadyGone, Moved, Kept, KeptMarks, Anew,
           procVars, childVars, Flows, Recoveries, Forget
  <2>9. CASE Severs(f)
    BY <2>9, IdleFields
       DEF Severs, Severed, Machines, At, ReadyGone, Moved, Kept, KeptMarks, Anew, procVars,
           childVars, Flows, Recoveries
  <2>. QED
    BY <1>1, <2>1, <2>2, <2>3, <2>4, <2>5, <2>6, <2>7, <2>8, <2>9 DEF Shared
<1>2. ASSUME NEW f \in {"start", "stop"}, StaleMoves(f) PROVE ReadyGone'
  BY <1>2, IdleFields
     DEF StaleMoves, Guards, At, ReadyGone, Moved, Kept, KeptMarks, Anew, procVars, childVars,
         Flows, Recoveries
<1>3. ASSUME NEW f \in {"start"} \cup Recoveries, CleanMoves(f) PROVE ReadyGone'
  BY <1>3, IdleFields
     DEF CleanMoves, Ends, Guards, At, ReadyGone, Moved, Kept, KeptMarks, Anew, procVars,
         childVars, Flows, Recoveries
<1>4. CASE StartMoves
  <2>1. CASE StartAsks
    BY <1>4, <2>1, IdleFields
       DEF StartAsks, Guards, At, StartMoves, ReadyGone, Moved, Kept, KeptMarks, Anew,
           procVars, childVars, Flows, Recoveries
  <2>2. CASE StartGoes
    BY <1>4, <2>2, IdleFields
       DEF StartGoes, Guards, At, StartMoves, ReadyGone, Moved, Kept, KeptMarks, Anew,
           procVars, childVars, Flows, Recoveries
  <2>3. CASE StartLoses
    BY <1>4, <2>3, IdleFields
       DEF StartLoses, At, StartMoves, ReadyGone, Moved, Kept, KeptMarks, Anew, procVars,
           childVars, Flows, Recoveries
  <2>. QED
    BY <1>4, <2>1, <2>2, <2>3 DEF StartMoves
<1>5. CASE StopMoves
  <2>1. CASE StopAsks
    BY <1>5, <2>1, IdleFields
       DEF StopAsks, Guards, At, StopMoves, ReadyGone, Moved, Kept, KeptMarks, Anew, procVars,
           childVars, Flows, Recoveries
  <2>2. CASE StopAims
    BY <1>5, <2>2, IdleFields
       DEF StopAims, Guards, At, StopMoves, ReadyGone, Moved, Kept, KeptMarks, Anew, procVars,
           childVars, Flows, Recoveries
  <2>3. CASE StopEnds
    BY <1>5, <2>3, IdleFields
       DEF StopEnds, StopThrown, At, StopMoves, ReadyGone, Moved, Kept, KeptMarks, Anew, procVars,
           childVars, Flows, Recoveries
  <2>4. CASE StopGivesBack
    BY <1>5, <2>4, IdleFields
       DEF StopGivesBack, Guards, At, StopMoves, ReadyGone, Moved, Kept, KeptMarks, Anew,
           procVars, childVars, Flows, Recoveries
  <2>. QED
    BY <1>5, <2>1, <2>2, <2>3, <2>4 DEF StopMoves
<1>6. ASSUME NEW n \in Recoveries, RecoverMoves(n) PROVE ReadyGone'
  <2>1. CASE Fires(n)
    BY <1>6, <2>1, IdleFields
       DEF Fires, RecoverMoves, ReadyGone, Moved, Kept, KeptMarks, Anew, procVars, childVars,
           Flows, Recoveries
  <2>2. CASE Rechecks(n)
    BY <1>6, <2>2, IdleFields
       DEF Rechecks, At, RecoverMoves, ReadyGone, Moved, Kept, KeptMarks, Anew, procVars,
           childVars, Flows, Recoveries
  <2>3. CASE Settles(n)
    BY <1>6, <2>3, IdleFields
       DEF Settles, At, Armed, RecoverMoves, ReadyGone, Moved, Kept, KeptMarks, Anew, procVars,
           childVars, Flows, Recoveries
  <2>. QED
    BY <1>6, <2>1, <2>2, <2>3 DEF RecoverMoves
<1>7. CASE Ticks
  BY <1>7, IdleFields
     DEF Ticks, Armed, ReadyGone, Moved, Kept, KeptMarks, Anew, procVars, childVars, Flows,
         Recoveries
<1>8. CASE Dies
  BY <1>8, IdleFields
     DEF Dies, ReadyGone, Moved, Kept, KeptMarks, Anew, procVars, childVars, Flows, Recoveries
<1>9. CASE Rises
  BY <1>9, IdleFields
     DEF Rises, Guards, ReadyGone, Moved, Kept, KeptMarks, Anew, procVars, childVars, Flows,
         Recoveries
<1>10. CASE Rests
  BY <1>10, IdleFields
     DEF Rests, Guards, ReadyGone, Moved, Kept, KeptMarks, Anew, procVars, childVars, Flows,
         Recoveries
<1>11. ASSUME NEW c \in Children, Crashing(c) PROVE ReadyGone'
  BY <1>11, IdleFields
     DEF Crashing, Guards, ReadyGone, Moved, Kept, KeptMarks, Anew, procVars, childVars, Flows,
         Recoveries
<1>12. ASSUME NEW c \in Children, Exited(c) PROVE ReadyGone'
  BY <1>12, IdleFields
     DEF Exited, Armed, ReadyGone, Moved, Kept, KeptMarks, Anew, procVars, childVars, Flows,
         Recoveries, Without
<1>13. ASSUME NEW c \in Children, Listened(c) PROVE ReadyGone'
  BY <1>13, IdleFields
     DEF Listened, Guards, ReadyGone, Moved, Kept, KeptMarks, Anew, procVars, childVars, Flows,
         Recoveries
<1>. QED
  BY <1>1, <1>2, <1>3, <1>4, <1>5, <1>6, <1>7, <1>8, <1>9, <1>10, <1>11, <1>12, <1>13 DEF Moves

(* Daemons of this launcher, and of the one before.                        *)
LEMMA OwnDaemon ==
  ASSUME up, ~lost, Held, Orphans = {}
  PROVE  \A c \in Serving : c = daemon
  BY DEF Held, Hold, Orphans

LEMMA NoOrphans ==
  ASSUME up, ~lost, Inherited,
         \/ mine # {} \/ monitor
         \/ \E n \in Recoveries : flow[n].pc # "idle"
         \/ /\ flow["start"].mode # "stale"
            /\ flow["start"].pc \notin {"idle", "await", "enter", "look"}
         \/ /\ flow["stop"].mode # "stale"
            /\ flow["stop"].pc \notin {"idle", "await", "enter", "recoveries", "asked", "adopt",
                                       "branch", "threw", "undone", "verdict"}
  PROVE  Orphans = {}
  BY DEF Inherited

LEMMA OrphanLives ==
  ASSUME ~lost, Recorded, Orphans # {}
  PROVE  file # NoFile /\ Running(file) /\ MayBeLive(file)
<1>1. PICK c \in Children : c \in Serving
  BY DEF Orphans, Serving
<1>2. file.daemon = c /\ c \in Alive /\ c # None
  BY <1>1, BoundsAssumption DEF Recorded, Serving, Alive
<1>. QED
  BY <1>2 DEF Running, MayBeLive, NoFile

LEMMA RecordsLive ==
  ASSUME ~lost, Recorded, Outside
  PROVE  file' = file \/ Serving = {}
<1>1. ASSUME NEW c \in Serving
      PROVE  file # NoFile /\ Running(file)
  <2>1. file.daemon = c /\ c \in Alive /\ c # None
    BY <1>1, BoundsAssumption DEF Recorded, Serving, Alive
  <2>. QED
    BY <2>1 DEF Running, NoFile
<1>. QED
  BY <1>1 DEF Outside

LEMMA SnapshotNames ==
  \A s, d, t : Snapshot(s, d, t).daemon = d
  BY DEF Snapshot


(* The file is written only with the daemon that is held, while no other   *)
(* serves, or with none, once none serves.                                 *)
LEMMA RecordedStep ==
  ASSUME CallsTyped, FileTyped, KidsTyped, Down, Placed, Held, ReadyGone, Recorded, Inherited,
         TakesOver, lost => lost', Moves
  PROVE  Recorded'
<1>1. ASSUME NEW f \in Flows, Shared(f) PROVE Recorded'
  <2>1. CASE Tunnels(f)
    BY <2>1, IdleFields, BoundsAssumption
       DEF Tunnels, Machines, At, Thrown, Recorded, Serving, Moved, Kept, KeptMarks, Anew,
           procVars, childVars, envVars, Flows, Recoveries
  <2>2. CASE Probes(f)
    BY <2>2, IdleFields, BoundsAssumption
       DEF Probes, Guards, At, Thrown, Recorded, Serving, Moved, Kept, KeptMarks, Anew,
           procVars, childVars, envVars, Flows, Recoveries
  <2>3. CASE Spawns(f)
    <3>1. ~lost => up /\ Orphans = {}
      BY <2>3, NoOrphans DEF Spawns, At, Placed, PlacesOf, ModesOf, Starting, Ending, Flows, Recoveries
    <3>2. ~lost => Serving = {}
      BY <2>3, <3>1, OwnDaemon, BoundsAssumption DEF Spawns, Serving
    <3>3. daemon' \in Children /\ lost' = lost
      BY <2>3 DEF Spawns, Fresh
    <3>4. CASE UNCHANGED file /\ proc' = [proc EXCEPT ![daemon'] = "dying"]
      BY <3>2, <3>3, <3>4 DEF Recorded, Serving, KidsTyped
    <3>5. CASE /\ file' = Snapshot("starting", daemon', tunnel)
               /\ proc' = [proc EXCEPT ![daemon'] = "starting"]
      BY <3>2, <3>3, <3>5, SnapshotNames DEF Recorded, Serving, KidsTyped
    <3>. QED
      BY <2>3, <3>4, <3>5 DEF Spawns
  <2>4. CASE Readies(f)
    <3>1. file' = file /\ lost' = lost
      BY <2>4 DEF Readies
    <3>2. Serving' \subseteq Serving
      BY <2>4 DEF Readies, Ends, procVars, Serving, KidsTyped
    <3>. QED
      BY <3>1, <3>2 DEF Recorded
  <2>5. CASE Buries(f)
    BY <2>5, IdleFields, BoundsAssumption
       DEF Buries, Guards, At, Thrown, Recorded, Serving, Moved, Kept, KeptMarks, Anew,
           procVars, childVars, envVars, Flows, Recoveries, Forget
  <2>6. CASE DrainMoves(f)
    BY <2>6, IdleFields, BoundsAssumption
       DEF DrainMoves, Drained, Guards, At, Recorded, Serving, Moved, Kept, KeptMarks, Anew,
           procVars, childVars, envVars, Flows, Recoveries
  <2>7. CASE Shuts(f)
    <3>1. file' = file /\ lost' = lost
      BY <2>7 DEF Shuts
    <3>2. Serving' \subseteq Serving
      BY <2>7 DEF Shuts, Ends, procVars, Serving, KidsTyped, Listening
    <3>. QED
      BY <3>1, <3>2 DEF Recorded
  <2>8. CASE Leaves(f)
    BY <2>8, IdleFields, BoundsAssumption
       DEF Leaves, Ended, Refused, Guards, At, Recorded, Serving, Moved, Kept, KeptMarks, Anew,
           procVars, childVars, envVars, Flows, Recoveries, Forget
  <2>9. CASE Severs(f)
    BY <2>9, IdleFields, BoundsAssumption
       DEF Severs, Severed, Machines, At, Recorded, Serving, Moved, Kept, KeptMarks, Anew,
           procVars, childVars, envVars, Flows, Recoveries
  <2>. QED
    BY <1>1, <2>1, <2>2, <2>3, <2>4, <2>5, <2>6, <2>7, <2>8, <2>9 DEF Shared
<1>2. ASSUME NEW f \in {"start", "stop"}, StaleMoves(f) PROVE Recorded'
  BY <1>2, IdleFields, BoundsAssumption, OwnDaemon, ZenonT(60)
     DEF StaleMoves, Guards, At, Recorded, Serving, Moved, Kept, KeptMarks, Anew, procVars,
         childVars, envVars, Flows, Recoveries, TakesOver, NoFile
<1>3. ASSUME NEW f \in {"start"} \cup Recoveries, CleanMoves(f) PROVE Recorded'
  <2>1. file' = file /\ lost' = lost
    BY <1>3 DEF CleanMoves
  <2>2. Serving' \subseteq Serving
    BY <1>3 DEF CleanMoves, Ends, procVars, Serving, KidsTyped
  <2>. QED
    BY <2>1, <2>2 DEF Recorded
<1>4. CASE StartMoves
  <2>1. CASE StartAsks
    BY <1>4, <2>1, IdleFields, BoundsAssumption, RecordsLive
       DEF StartAsks, Guards, At, StartMoves, Recorded, Serving, Moved, Kept, KeptMarks, Anew,
           procVars, childVars, envVars, Flows, Recoveries
  <2>2. CASE StartGoes
    BY <1>4, <2>2, IdleFields, BoundsAssumption, OwnDaemon, NoOrphans, SnapshotNames
       DEF StartGoes, Guards, At, StartMoves, Recorded, Serving, Moved, Kept, KeptMarks, Anew,
           procVars, childVars, envVars, Flows, Recoveries, Placed, PlacesOf, ModesOf,
           Starting, Ending
  <2>3. CASE StartLoses
    BY <1>4, <2>3, IdleFields, BoundsAssumption, RecordsLive, OwnDaemon, NoOrphans,
       SnapshotNames
       DEF StartLoses, At, StartMoves, Recorded, Serving, Moved, Kept, KeptMarks, Anew,
           procVars, childVars, envVars, Flows, Recoveries, Placed, PlacesOf, ModesOf,
           Starting, Ending
  <2>. QED
    BY <1>4, <2>1, <2>2, <2>3 DEF StartMoves
<1>5. CASE StopMoves
  <2>1. CASE StopAsks
    BY <1>5, <2>1, IdleFields, BoundsAssumption
       DEF StopAsks, Guards, At, StopMoves, Recorded, Serving, Moved, Kept, KeptMarks, Anew,
           procVars, childVars, envVars, Flows, Recoveries
  <2>2. CASE StopAims
    BY <1>5, <2>2, IdleFields, BoundsAssumption
       DEF StopAims, Guards, At, StopMoves, Recorded, Serving, Moved, Kept, KeptMarks, Anew,
           procVars, childVars, envVars, Flows, Recoveries
  <2>3. CASE StopEnds
    <3>1. Serving' = Serving
      BY <1>5 DEF StopMoves, procVars, Serving
    <3>2. CASE At("stop", "ready") /\ lost' = lost
      <4>1. ~lost => up /\ Orphans = {}
        BY <3>2, NoOrphans DEF At, Placed, PlacesOf, ModesOf, Ending, Flows
      <4>2. ~lost => Serving = {}
        BY <3>2, <4>1, OwnDaemon, BoundsAssumption DEF ReadyGone, At, Serving
      <4>. QED
        BY <3>1, <3>2, <4>2 DEF Recorded
    <3>3. CASE /\ At("stop", "verdict") /\ Written(daemon, tunnel)
               /\ lost' = (lost \/ (daemon = None /\ Serving # {}))
      <4>1. ASSUME ~lost', Serving # {} PROVE Orphans = {} /\ up
        BY <3>3, <4>1 DEF At, Inherited, KidsTyped
      <4>2. ~lost' => \A c \in Serving : c = daemon
        BY <3>3, <4>1, OwnDaemon
      <4>. QED
        BY <3>1, <3>3, <4>2, SnapshotNames DEF Recorded, Written
    <3>. QED
      BY <2>3, <3>2, <3>3 DEF StopEnds
  <2>4. CASE StopGivesBack
    BY <1>5, <2>4, IdleFields, BoundsAssumption
       DEF StopGivesBack, Guards, At, StopMoves, Recorded, Serving, Moved, Kept, KeptMarks,
           Anew, procVars, childVars, envVars, Flows, Recoveries
  <2>. QED
    BY <1>5, <2>1, <2>2, <2>3, <2>4 DEF StopMoves
<1>6. ASSUME NEW n \in Recoveries, RecoverMoves(n) PROVE Recorded'
  <2>1. CASE Fires(n)
    BY <1>6, <2>1, IdleFields, BoundsAssumption
       DEF Fires, RecoverMoves, Recorded, Serving, Moved, Kept, KeptMarks, Anew, procVars,
           childVars, envVars, Flows, Recoveries
  <2>2. CASE Rechecks(n)
    BY <1>6, <2>2, IdleFields, BoundsAssumption
       DEF Rechecks, At, RecoverMoves, Recorded, Serving, Moved, Kept, KeptMarks, Anew,
           procVars, childVars, envVars, Flows, Recoveries
  <2>3. CASE Settles(n)
    BY <1>6, <2>3, IdleFields, BoundsAssumption, OwnDaemon, NoOrphans, SnapshotNames
       DEF Settles, At, Armed, RecoverMoves, Recorded, Serving, Moved, Kept, KeptMarks, Anew,
           procVars, childVars, envVars, Flows, Recoveries, Written
  <2>. QED
    BY <1>6, <2>1, <2>2, <2>3 DEF RecoverMoves
<1>7. CASE Ticks
  BY <1>7, IdleFields, BoundsAssumption, OwnDaemon, NoOrphans, SnapshotNames
     DEF Ticks, Armed, Recorded, Serving, Moved, Kept, KeptMarks, Anew, procVars, childVars,
         envVars, Flows, Recoveries, Written
<1>8. CASE Dies
  BY <1>8, IdleFields, BoundsAssumption
     DEF Dies, Recorded, Serving, Moved, Kept, KeptMarks, Anew, procVars, childVars, envVars,
         Flows, Recoveries, FileTyped, Record
<1>9. CASE Rises
  BY <1>9, IdleFields, BoundsAssumption
     DEF Rises, Guards, Recorded, Serving, Moved, Kept, KeptMarks, Anew, procVars, childVars,
         envVars, Flows, Recoveries
<1>10. CASE Rests
  BY <1>10, IdleFields, BoundsAssumption
     DEF Rests, Guards, Recorded, Serving, Moved, Kept, KeptMarks, Anew, procVars, childVars,
         envVars, Flows, Recoveries
<1>11. ASSUME NEW c \in Children, Crashing(c) PROVE Recorded'
  BY <1>11, IdleFields, BoundsAssumption
     DEF Crashing, Guards, Recorded, Serving, Moved, Kept, KeptMarks, Anew, procVars,
         childVars, envVars, Flows, Recoveries
<1>12. ASSUME NEW c \in Children, Exited(c) PROVE Recorded'
  <2>0. lost' = lost /\ Serving' = Serving \ {c}
    BY <1>12 DEF Exited, Serving, KidsTyped
  <2>1. CASE UNCHANGED file
    BY <2>0, <2>1 DEF Recorded
  <2>2. CASE c \in mine /\ daemon' = Without(c) /\ Written(daemon', tunnel)
    <3>1. ~lost => \A d \in Serving : d = daemon
      BY <2>2, OwnDaemon, NoOrphans DEF Down
    <3>2. ~lost => \A d \in Serving' : d = daemon'
      BY <2>0, <2>2, <3>1 DEF Without
    <3>. QED
      BY <2>0, <2>2, <3>2, SnapshotNames DEF Recorded, Written
  <2>. QED
    BY <1>12, <2>1, <2>2 DEF Exited, childVars
<1>13. ASSUME NEW c \in Children, Listened(c) PROVE Recorded'
  BY <1>13, IdleFields, BoundsAssumption
     DEF Listened, Guards, Recorded, Serving, Moved, Kept, KeptMarks, Anew, procVars,
         childVars, envVars, Flows, Recoveries
<1>. QED
  BY <1>1, <1>2, <1>3, <1>4, <1>5, <1>6, <1>7, <1>8, <1>9, <1>10, <1>11, <1>12, <1>13 DEF Moves

\* The launcher makes no orphans, and they listen until they end.
OrphansShrink == up /\ up' => /\ Orphans' \subseteq Orphans
                              /\ \A c \in Orphans' : proc[c] = "up" => proc'[c] = "up"

LEMMA OrphansStep ==
  ASSUME KidsTyped, Down, Moves
  PROVE  OrphansShrink
<1>1. ASSUME NEW f \in Flows, Shared(f) PROVE OrphansShrink
  <2>1. CASE Tunnels(f)
    BY <2>1, BoundsAssumption
       DEF Tunnels, Machines, At, Thrown, OrphansShrink, Orphans, Serving, procVars, childVars,
           envVars, KidsTyped
  <2>2. CASE Probes(f)
    BY <2>2, BoundsAssumption
       DEF Probes, Guards, At, Thrown, OrphansShrink, Orphans, Serving, procVars, childVars,
           envVars, KidsTyped
  <2>3. CASE Spawns(f)
    BY <2>3, BoundsAssumption
       DEF Spawns, Guards, At, OrphansShrink, Orphans, Serving, procVars, childVars, envVars,
           KidsTyped, Fresh
  <2>4. CASE Readies(f)
    BY <2>4, BoundsAssumption
       DEF Readies, Ends, Guards, At, Thrown, OrphansShrink, Orphans, Serving, procVars,
           childVars, envVars, KidsTyped
  <2>5. CASE Buries(f)
    BY <2>5, BoundsAssumption
       DEF Buries, Guards, At, Thrown, OrphansShrink, Orphans, Serving, procVars, childVars,
           envVars, KidsTyped
  <2>6. CASE DrainMoves(f)
    BY <2>6, BoundsAssumption
       DEF DrainMoves, Drained, Guards, At, OrphansShrink, Orphans, Serving, procVars,
           childVars, envVars, KidsTyped
  <2>7. CASE Shuts(f)
    BY <2>7, BoundsAssumption
       DEF Shuts, Refused, Guards, At, OrphansShrink, Orphans, Serving, procVars, childVars,
           envVars, KidsTyped, Listening
  <2>8. CASE Leaves(f)
    BY <2>8, BoundsAssumption
       DEF Leaves, Ended, Refused, Guards, At, OrphansShrink, Orphans, Serving, procVars,
           childVars, envVars, KidsTyped
  <2>9. CASE Severs(f)
    BY <2>9, BoundsAssumption
       DEF Severs, Severed, Machines, At, OrphansShrink, Orphans, Serving, procVars, childVars,
           envVars, KidsTyped
  <2>. QED
    BY <1>1, <2>1, <2>2, <2>3, <2>4, <2>5, <2>6, <2>7, <2>8, <2>9 DEF Shared
<1>2. ASSUME NEW f \in {"start", "stop"}, StaleMoves(f) PROVE OrphansShrink
  BY <1>2, BoundsAssumption
     DEF StaleMoves, Guards, At, OrphansShrink, Orphans, Serving, procVars, childVars, envVars,
         KidsTyped
<1>3. ASSUME NEW f \in {"start"} \cup Recoveries, CleanMoves(f) PROVE OrphansShrink
  BY <1>3, BoundsAssumption
     DEF CleanMoves, Ends, Guards, At, OrphansShrink, Orphans, Serving, procVars, childVars,
         envVars, KidsTyped
<1>4. CASE StartMoves
  <2>1. CASE StartAsks
    BY <1>4, <2>1, BoundsAssumption
       DEF StartAsks, Guards, At, StartMoves, OrphansShrink, Orphans, Serving, procVars,
           childVars, envVars, KidsTyped
  <2>2. CASE StartGoes
    BY <1>4, <2>2, BoundsAssumption
       DEF StartGoes, Guards, At, StartMoves, OrphansShrink, Orphans, Serving, procVars,
           childVars, envVars, KidsTyped
  <2>3. CASE StartLoses
    BY <1>4, <2>3, BoundsAssumption
       DEF StartLoses, At, StartMoves, OrphansShrink, Orphans, Serving, procVars, childVars,
           envVars, KidsTyped
  <2>. QED
    BY <1>4, <2>1, <2>2, <2>3 DEF StartMoves
<1>5. CASE StopMoves
  <2>1. CASE StopAsks
    BY <1>5, <2>1, BoundsAssumption
       DEF StopAsks, Guards, At, StopMoves, OrphansShrink, Orphans, Serving, procVars,
           childVars, envVars, KidsTyped
  <2>2. CASE StopAims
    BY <1>5, <2>2, BoundsAssumption
       DEF StopAims, Guards, At, StopMoves, OrphansShrink, Orphans, Serving, procVars,
           childVars, envVars, KidsTyped
  <2>3. CASE StopEnds
    BY <1>5, <2>3, BoundsAssumption
       DEF StopEnds, StopThrown, At, StopMoves, OrphansShrink, Orphans, Serving, procVars, childVars,
           envVars, KidsTyped
  <2>4. CASE StopGivesBack
    BY <1>5, <2>4, BoundsAssumption
       DEF StopGivesBack, Guards, At, StopMoves, OrphansShrink, Orphans, Serving, procVars,
           childVars, envVars, KidsTyped
  <2>. QED
    BY <1>5, <2>1, <2>2, <2>3, <2>4 DEF StopMoves
<1>6. ASSUME NEW n \in Recoveries, RecoverMoves(n) PROVE OrphansShrink
  <2>1. CASE Fires(n)
    BY <1>6, <2>1, BoundsAssumption
       DEF Fires, RecoverMoves, OrphansShrink, Orphans, Serving, procVars, childVars, envVars,
           KidsTyped
  <2>2. CASE Rechecks(n)
    BY <1>6, <2>2, BoundsAssumption
       DEF Rechecks, At, RecoverMoves, OrphansShrink, Orphans, Serving, procVars, childVars,
           envVars, KidsTyped
  <2>3. CASE Settles(n)
    BY <1>6, <2>3, BoundsAssumption
       DEF Settles, At, Armed, RecoverMoves, OrphansShrink, Orphans, Serving, procVars,
           childVars, envVars, KidsTyped
  <2>. QED
    BY <1>6, <2>1, <2>2, <2>3 DEF RecoverMoves
<1>7. CASE Ticks
  BY <1>7, BoundsAssumption
     DEF Ticks, Armed, OrphansShrink, Orphans, Serving, procVars, childVars, envVars, KidsTyped
<1>8. CASE Dies
  BY <1>8, BoundsAssumption
     DEF Dies, OrphansShrink, Orphans, Serving, procVars, childVars, envVars, KidsTyped
<1>9. CASE Rises
  BY <1>9, BoundsAssumption
     DEF Rises, Guards, OrphansShrink, Orphans, Serving, procVars, childVars, envVars,
         KidsTyped
<1>10. CASE Rests
  BY <1>10, BoundsAssumption
     DEF Rests, Guards, OrphansShrink, Orphans, Serving, procVars, childVars, envVars,
         KidsTyped
<1>11. ASSUME NEW c \in Children, Crashing(c) PROVE OrphansShrink
  BY <1>11, BoundsAssumption
     DEF Crashing, Guards, OrphansShrink, Orphans, Serving, procVars, childVars, envVars,
         KidsTyped
<1>12. ASSUME NEW c \in Children, Exited(c) PROVE OrphansShrink
  BY <1>12, BoundsAssumption
     DEF Exited, Armed, OrphansShrink, Orphans, Serving, procVars, childVars, envVars,
         KidsTyped, Without
<1>13. ASSUME NEW c \in Children, Listened(c) PROVE OrphansShrink
  BY <1>13, BoundsAssumption
     DEF Listened, Guards, OrphansShrink, Orphans, Serving, procVars, childVars, envVars,
         KidsTyped
<1>. QED
  BY <1>1, <1>2, <1>3, <1>4, <1>5, <1>6, <1>7, <1>8, <1>9, <1>10, <1>11, <1>12, <1>13 DEF Moves

(* While a daemon of another launcher serves, this one does not get past   *)
(* the places where a start or a stop takes it over.                       *)
LEMMA InheritedStep ==
  ASSUME CallsTyped, KidsTyped, Down, Placed, Entering, Recorded, Inherited, TakesOver,
         lost => lost', OrphansShrink, Moves
  PROVE  Inherited'
<1>1. ASSUME NEW f \in Flows, Shared(f) PROVE Inherited'
  <2>1. CASE Tunnels(f)
    BY <2>1, IdleFields
       DEF Tunnels, Machines, At, Thrown, Inherited, OrphansShrink, Moved, Kept, KeptMarks,
           Anew, procVars, childVars, envVars, KidsTyped, Flows, Recoveries, Placed, PlacesOf,
           ModesOf, Starting, Ending
  <2>2. CASE Probes(f)
    BY <2>2, IdleFields
       DEF Probes, Guards, At, Thrown, Inherited, OrphansShrink, Moved, Kept, KeptMarks, Anew,
           procVars, childVars, envVars, KidsTyped, Flows, Recoveries, Placed, PlacesOf,
           ModesOf, Starting, Ending
  <2>3. CASE Spawns(f)
    BY <2>3, IdleFields
       DEF Spawns, Guards, At, Inherited, OrphansShrink, Moved, Kept, KeptMarks, Anew,
           procVars, childVars, envVars, KidsTyped, Flows, Recoveries, Placed, PlacesOf,
           ModesOf, Starting, Ending
  <2>4. CASE Readies(f)
    BY <2>4, IdleFields
       DEF Readies, Ends, Guards, At, Thrown, Inherited, OrphansShrink, Moved, Kept, KeptMarks,
           Anew, procVars, childVars, envVars, KidsTyped, Flows, Recoveries, Placed, PlacesOf,
           ModesOf, Starting, Ending
  <2>5. CASE Buries(f)
    BY <2>5, IdleFields
       DEF Buries, Guards, At, Thrown, Inherited, OrphansShrink, Moved, Kept, KeptMarks, Anew,
           procVars, childVars, envVars, KidsTyped, Flows, Recoveries, Placed, PlacesOf,
           ModesOf, Starting, Ending
  <2>6. CASE DrainMoves(f)
    BY <2>6, IdleFields
       DEF DrainMoves, Drained, Guards, At, Inherited, OrphansShrink, Moved, Kept, KeptMarks,
           Anew, procVars, childVars, envVars, KidsTyped, Flows, Recoveries, Placed, PlacesOf,
           ModesOf, Starting, Ending
  <2>7. CASE Shuts(f)
    BY <2>7, IdleFields
       DEF Shuts, Refused, Guards, At, Inherited, OrphansShrink, Moved, Kept, KeptMarks, Anew,
           procVars, childVars, envVars, KidsTyped, Flows, Recoveries, Placed, PlacesOf,
           ModesOf, Starting, Ending
  <2>8. CASE Leaves(f)
    BY <2>8, IdleFields
       DEF Leaves, Ended, Refused, Guards, At, Inherited, OrphansShrink, Moved, Kept,
           KeptMarks, Anew, procVars, childVars, envVars, KidsTyped, Flows, Recoveries, Placed,
           PlacesOf, ModesOf, Starting, Ending
  <2>9. CASE Severs(f)
    BY <2>9, IdleFields
       DEF Severs, Severed, Machines, At, Inherited, OrphansShrink, Moved, Kept, KeptMarks,
           Anew, procVars, childVars, envVars, KidsTyped, Flows, Recoveries, Placed, PlacesOf,
           ModesOf, Starting, Ending, TakesOver
  <2>. QED
    BY <1>1, <2>1, <2>2, <2>3, <2>4, <2>5, <2>6, <2>7, <2>8, <2>9 DEF Shared
<1>2. ASSUME NEW f \in {"start", "stop"}, StaleMoves(f) PROVE Inherited'
  BY <1>2, IdleFields
     DEF StaleMoves, Guards, At, Inherited, OrphansShrink, Moved, Kept, KeptMarks, Anew,
         procVars, childVars, envVars, KidsTyped, Flows, Recoveries, Placed, PlacesOf, ModesOf,
         Starting, Ending, TakesOver
<1>3. ASSUME NEW f \in {"start"} \cup Recoveries, CleanMoves(f) PROVE Inherited'
  BY <1>3, IdleFields
     DEF CleanMoves, Ends, Guards, At, Inherited, OrphansShrink, Moved, Kept, KeptMarks, Anew,
         procVars, childVars, envVars, KidsTyped, Flows, Recoveries, Placed, PlacesOf, ModesOf,
         Starting, Ending
<1>4. CASE StartMoves
  <2>1. CASE StartAsks
    BY <1>4, <2>1, IdleFields, OrphanLives
       DEF StartAsks, Guards, At, StartMoves, Inherited, OrphansShrink, Moved, Kept, KeptMarks,
           Anew, procVars, childVars, envVars, KidsTyped, Flows, Recoveries, Placed, PlacesOf,
           ModesOf, Starting, Ending
  <2>2. CASE StartGoes
    BY <1>4, <2>2, IdleFields
       DEF StartGoes, Guards, At, StartMoves, Inherited, OrphansShrink, Moved, Kept, KeptMarks,
           Anew, procVars, childVars, envVars, KidsTyped, Flows, Recoveries, Placed, PlacesOf,
           ModesOf, Starting, Ending
  <2>3. CASE StartLoses
    BY <1>4, <2>3, IdleFields
       DEF StartLoses, At, StartMoves, Inherited, OrphansShrink, Moved, Kept, KeptMarks, Anew,
           procVars, childVars, envVars, KidsTyped, Flows, Recoveries, Placed, PlacesOf,
           ModesOf, Starting, Ending
  <2>. QED
    BY <1>4, <2>1, <2>2, <2>3 DEF StartMoves
<1>5. CASE StopMoves
  <2>1. CASE StopAsks
    <3>1. CASE At("stop", "recoveries")
      <4>1. /\ flow'["stop"].pc = "asked" /\ flow'["stop"].read = file /\ file' = file
            /\ \A g \in Flows \ {"stop"} : flow'[g] = flow[g]
        BY <2>1, <3>1 DEF StopAsks, At, Moved, Kept, Flows
      <4>. QED
        BY <1>5, <2>1, <3>1, <4>1, IdleFields
           DEF StopAsks, Guards, StopMoves, Inherited, OrphansShrink, Recorded, Orphans, At,
               procVars, childVars, envVars, Flows, Recoveries
    <3>2. CASE At("stop", "asked")
      <4>1. Orphans # {} /\ up /\ ~lost => MayBeLive(flow["stop"].read)
        <5>. SUFFICES ASSUME Orphans # {}, up, ~lost
                      PROVE  Running(flow["stop"].read)
          BY DEF MayBeLive
        <5>1. \A c \in Orphans : flow["stop"].read.daemon = c
          BY <3>2 DEF Inherited, At, Placed, PlacesOf, Starting, Ending, Flows, ModesOf, Recoveries
        <5>. QED
          BY <5>1 DEF Running, Orphans, Serving, Alive
      <4>2. /\ flow'["stop"].pc \in {"adopt", "branch"}
            /\ MayBeLive(flow["stop"].read) => flow'["stop"].live
            /\ \A g \in Flows \ {"stop"} : flow'[g] = flow[g]
        BY <2>1, <3>2 DEF StopAsks, At, Moved, Kept, Flows
      <4>. QED
        BY <1>5, <2>1, <3>2, <4>1, <4>2, IdleFields
           DEF StopAsks, Guards, StopMoves, Inherited, OrphansShrink, At,
               procVars, childVars, envVars, Flows, Recoveries
    <3>3. CASE ~At("stop", "recoveries") /\ ~At("stop", "asked")
      BY <1>5, <2>1, <3>3, IdleFields
         DEF StopAsks, Guards, At, StopMoves, Inherited, OrphansShrink, Moved, Kept, KeptMarks,
             Anew, procVars, childVars, envVars, KidsTyped, Flows, Recoveries, Placed, PlacesOf,
             ModesOf, Starting, Ending
    <3>. QED
      BY <3>1, <3>2, <3>3
  <2>2. CASE StopAims
    BY <1>5, <2>2, IdleFields
       DEF StopAims, Guards, At, StopMoves, Inherited, OrphansShrink, Moved, Kept, KeptMarks,
           Anew, procVars, childVars, envVars, KidsTyped, Flows, Recoveries, Placed, PlacesOf,
           ModesOf, Starting, Ending, Entering, Orphans
  <2>3. CASE StopEnds
    BY <1>5, <2>3, IdleFields
       DEF StopEnds, StopThrown, At, StopMoves, Inherited, OrphansShrink, Moved, Kept, KeptMarks, Anew,
           procVars, childVars, envVars, KidsTyped, Flows, Recoveries, Placed, PlacesOf,
           ModesOf, Starting, Ending
  <2>4. CASE StopGivesBack
    BY <1>5, <2>4, IdleFields, ZenonT(60)
       DEF StopGivesBack, Guards, At, StopMoves, Inherited, OrphansShrink, Moved, Kept,
           KeptMarks, Anew, procVars, childVars, envVars, KidsTyped, Flows, Recoveries, Placed,
           PlacesOf, ModesOf, Starting, Ending
  <2>. QED
    BY <1>5, <2>1, <2>2, <2>3, <2>4 DEF StopMoves
<1>6. ASSUME NEW n \in Recoveries, RecoverMoves(n) PROVE Inherited'
  <2>1. CASE Fires(n)
    BY <1>6, <2>1, IdleFields
       DEF Fires, RecoverMoves, Inherited, OrphansShrink, Moved, Kept, KeptMarks, Anew,
           procVars, childVars, envVars, KidsTyped, Flows, Recoveries
  <2>2. CASE Rechecks(n)
    BY <1>6, <2>2, IdleFields
       DEF Rechecks, At, RecoverMoves, Inherited, OrphansShrink, Moved, Kept, KeptMarks, Anew,
           procVars, childVars, envVars, KidsTyped, Flows, Recoveries
  <2>3. CASE Settles(n)
    BY <1>6, <2>3, IdleFields
       DEF Settles, At, Armed, RecoverMoves, Inherited, OrphansShrink, Moved, Kept, KeptMarks,
           Anew, procVars, childVars, envVars, KidsTyped, Flows, Recoveries
  <2>. QED
    BY <1>6, <2>1, <2>2, <2>3 DEF RecoverMoves
<1>7. CASE Ticks
  BY <1>7, IdleFields
     DEF Ticks, Armed, Inherited, OrphansShrink, Moved, Kept, KeptMarks, Anew, procVars,
         childVars, envVars, KidsTyped, Flows, Recoveries
<1>8. CASE Dies
  BY <1>8, IdleFields
     DEF Dies, Inherited, OrphansShrink, Moved, Kept, KeptMarks, Anew, procVars, childVars,
         envVars, KidsTyped, Flows, Recoveries
<1>9. CASE Rises
  BY <1>9, IdleFields
     DEF Rises, Guards, Inherited, OrphansShrink, Moved, Kept, KeptMarks, Anew, procVars,
         childVars, envVars, KidsTyped, Flows, Recoveries, Down, Idle, Orphans
<1>10. CASE Rests
  BY <1>10, IdleFields
     DEF Rests, Guards, Inherited, OrphansShrink, Moved, Kept, KeptMarks, Anew, procVars,
         childVars, envVars, KidsTyped, Flows, Recoveries
<1>11. ASSUME NEW c \in Children, Crashing(c) PROVE Inherited'
  BY <1>11, IdleFields
     DEF Crashing, Guards, Inherited, OrphansShrink, Moved, Kept, KeptMarks, Anew, procVars,
         childVars, envVars, KidsTyped, Flows, Recoveries
<1>12. ASSUME NEW c \in Children, Exited(c) PROVE Inherited'
  BY <1>12, IdleFields
     DEF Exited, Armed, Inherited, OrphansShrink, Moved, Kept, KeptMarks, Anew, procVars,
         childVars, envVars, KidsTyped, Flows, Recoveries, Without
<1>13. ASSUME NEW c \in Children, Listened(c) PROVE Inherited'
  BY <1>13, IdleFields
     DEF Listened, Guards, Inherited, OrphansShrink, Moved, Kept, KeptMarks, Anew, procVars,
         childVars, envVars, KidsTyped, Flows, Recoveries
<1>. QED
  BY <1>1, <1>2, <1>3, <1>4, <1>5, <1>6, <1>7, <1>8, <1>9, <1>10, <1>11, <1>12, <1>13 DEF Moves

(* What a take-over shuts down is the daemon that the file names.          *)
LEMMA TakesOverStep ==
  ASSUME CallsTyped, KidsTyped, OnePort, Down, Placed, Recorded, TakesOver, lost => lost',
         OrphansShrink, Moves
  PROVE  TakesOver'
<1>1. ASSUME NEW f \in Flows, Shared(f) PROVE TakesOver'
  <2>1. CASE Tunnels(f)
    BY <2>1, IdleFields, BoundsAssumption
       DEF Tunnels, Machines, At, Thrown, TakesOver, OrphansShrink, Moved, Kept, KeptMarks,
           Anew, procVars, childVars, envVars, KidsTyped, Flows, Recoveries, Placed, PlacesOf,
           ModesOf, Starting, Ending
  <2>2. CASE Probes(f)
    BY <2>2, IdleFields, BoundsAssumption
       DEF Probes, Guards, At, Thrown, TakesOver, OrphansShrink, Moved, Kept, KeptMarks, Anew,
           procVars, childVars, envVars, KidsTyped, Flows, Recoveries, Placed, PlacesOf,
           ModesOf, Starting, Ending
  <2>3. CASE Spawns(f)
    BY <2>3, IdleFields, BoundsAssumption
       DEF Spawns, Guards, At, TakesOver, OrphansShrink, Moved, Kept, KeptMarks, Anew,
           procVars, childVars, envVars, KidsTyped, Flows, Recoveries, Placed, PlacesOf,
           ModesOf, Starting, Ending
  <2>4. CASE Readies(f)
    BY <2>4, IdleFields, BoundsAssumption
       DEF Readies, Ends, Guards, At, Thrown, TakesOver, OrphansShrink, Moved, Kept, KeptMarks,
           Anew, procVars, childVars, envVars, KidsTyped, Flows, Recoveries, Placed, PlacesOf,
           ModesOf, Starting, Ending
  <2>5. CASE Buries(f)
    BY <2>5, IdleFields, BoundsAssumption
       DEF Buries, Guards, At, Thrown, TakesOver, OrphansShrink, Moved, Kept, KeptMarks, Anew,
           procVars, childVars, envVars, KidsTyped, Flows, Recoveries, Placed, PlacesOf,
           ModesOf, Starting, Ending
  <2>6. CASE DrainMoves(f)
    BY <2>6, IdleFields, BoundsAssumption
       DEF DrainMoves, Drained, Guards, At, TakesOver, OrphansShrink, Moved, Kept, KeptMarks,
           Anew, procVars, childVars, envVars, KidsTyped, Flows, Recoveries
  <2>7. CASE Shuts(f)
    BY <2>7, IdleFields, BoundsAssumption
       DEF Shuts, Refused, Guards, At, TakesOver, OrphansShrink, Moved, Kept, KeptMarks, Anew,
           procVars, childVars, envVars, KidsTyped, Flows, Recoveries, Placed, PlacesOf,
           ModesOf, Starting, Ending, OnePort, Orphans, Serving, Listening
  <2>8. CASE Leaves(f)
    BY <2>8, IdleFields, BoundsAssumption
       DEF Leaves, Ended, Refused, Guards, At, TakesOver, OrphansShrink, Moved, Kept,
           KeptMarks, Anew, procVars, childVars, envVars, KidsTyped, Flows, Recoveries
  <2>9. CASE Severs(f)
    BY <2>9, IdleFields, BoundsAssumption
       DEF Severs, Severed, Machines, At, TakesOver, OrphansShrink, Moved, Kept, KeptMarks,
           Anew, procVars, childVars, envVars, KidsTyped, Flows, Recoveries
  <2>. QED
    BY <1>1, <2>1, <2>2, <2>3, <2>4, <2>5, <2>6, <2>7, <2>8, <2>9 DEF Shared
<1>2. ASSUME NEW f \in {"start", "stop"}, StaleMoves(f) PROVE TakesOver'
  BY <1>2, IdleFields, BoundsAssumption
     DEF StaleMoves, Guards, At, TakesOver, OrphansShrink, Moved, Kept, KeptMarks, Anew,
         procVars, childVars, envVars, KidsTyped, Flows, Recoveries, Placed, PlacesOf, ModesOf,
         Starting, Ending, Recorded, Orphans, Serving, Listening, Alive
<1>3. ASSUME NEW f \in {"start"} \cup Recoveries, CleanMoves(f) PROVE TakesOver'
  BY <1>3, IdleFields, BoundsAssumption
     DEF CleanMoves, Ends, Guards, At, TakesOver, OrphansShrink, Moved, Kept, KeptMarks, Anew,
         procVars, childVars, envVars, KidsTyped, Flows, Recoveries, Placed, PlacesOf, ModesOf,
         Starting, Ending
<1>4. CASE StartMoves
  <2>1. CASE StartAsks
    BY <1>4, <2>1, IdleFields, BoundsAssumption
       DEF StartAsks, Guards, At, StartMoves, TakesOver, OrphansShrink, Moved, Kept, KeptMarks,
           Anew, procVars, childVars, envVars, KidsTyped, Flows, Recoveries, Placed, PlacesOf,
           ModesOf, Starting, Ending
  <2>2. CASE StartGoes
    BY <1>4, <2>2, IdleFields, BoundsAssumption
       DEF StartGoes, Guards, At, StartMoves, TakesOver, OrphansShrink, Moved, Kept, KeptMarks,
           Anew, procVars, childVars, envVars, KidsTyped, Flows, Recoveries, Placed, PlacesOf,
           ModesOf, Starting, Ending
  <2>3. CASE StartLoses
    BY <1>4, <2>3, IdleFields, BoundsAssumption
       DEF StartLoses, At, StartMoves, TakesOver, OrphansShrink, Moved, Kept, KeptMarks, Anew,
           procVars, childVars, envVars, KidsTyped, Flows, Recoveries, Placed, PlacesOf,
           ModesOf, Starting, Ending
  <2>. QED
    BY <1>4, <2>1, <2>2, <2>3 DEF StartMoves
<1>5. CASE StopMoves
  <2>1. CASE StopAsks
    BY <1>5, <2>1, IdleFields, BoundsAssumption
       DEF StopAsks, Guards, At, StopMoves, TakesOver, OrphansShrink, Moved, Kept, KeptMarks,
           Anew, procVars, childVars, envVars, KidsTyped, Flows, Recoveries, Placed, PlacesOf,
           ModesOf, Starting, Ending
  <2>2. CASE StopAims
    BY <1>5, <2>2, IdleFields, BoundsAssumption
       DEF StopAims, Guards, At, StopMoves, TakesOver, OrphansShrink, Moved, Kept, KeptMarks,
           Anew, procVars, childVars, envVars, KidsTyped, Flows, Recoveries, Placed, PlacesOf,
           ModesOf, Starting, Ending
  <2>3. CASE StopEnds
    BY <1>5, <2>3, IdleFields, BoundsAssumption
       DEF StopEnds, StopThrown, At, StopMoves, TakesOver, OrphansShrink, Moved, Kept, KeptMarks, Anew,
           procVars, childVars, envVars, KidsTyped, Flows, Recoveries, Placed, PlacesOf,
           ModesOf, Starting, Ending
  <2>4. CASE StopGivesBack
    BY <1>5, <2>4, IdleFields, BoundsAssumption
       DEF StopGivesBack, Guards, At, StopMoves, TakesOver, OrphansShrink, Moved, Kept,
           KeptMarks, Anew, procVars, childVars, envVars, KidsTyped, Flows, Recoveries, Placed,
           PlacesOf, ModesOf, Starting, Ending
  <2>. QED
    BY <1>5, <2>1, <2>2, <2>3, <2>4 DEF StopMoves
<1>6. ASSUME NEW n \in Recoveries, RecoverMoves(n) PROVE TakesOver'
  <2>1. CASE Fires(n)
    BY <1>6, <2>1, IdleFields, BoundsAssumption
       DEF Fires, RecoverMoves, TakesOver, OrphansShrink, Moved, Kept, KeptMarks, Anew,
           procVars, childVars, envVars, KidsTyped, Flows, Recoveries
  <2>2. CASE Rechecks(n)
    BY <1>6, <2>2, IdleFields, BoundsAssumption
       DEF Rechecks, At, RecoverMoves, TakesOver, OrphansShrink, Moved, Kept, KeptMarks, Anew,
           procVars, childVars, envVars, KidsTyped, Flows, Recoveries
  <2>3. CASE Settles(n)
    BY <1>6, <2>3, IdleFields, BoundsAssumption
       DEF Settles, At, Armed, RecoverMoves, TakesOver, OrphansShrink, Moved, Kept, KeptMarks,
           Anew, procVars, childVars, envVars, KidsTyped, Flows, Recoveries
  <2>. QED
    BY <1>6, <2>1, <2>2, <2>3 DEF RecoverMoves
<1>7. CASE Ticks
  BY <1>7, IdleFields, BoundsAssumption
     DEF Ticks, Armed, TakesOver, OrphansShrink, Moved, Kept, KeptMarks, Anew, procVars,
         childVars, envVars, KidsTyped, Flows, Recoveries
<1>8. CASE Dies
  BY <1>8, IdleFields, BoundsAssumption
     DEF Dies, TakesOver, OrphansShrink, Moved, Kept, KeptMarks, Anew, procVars, childVars,
         envVars, KidsTyped, Flows, Recoveries
<1>9. CASE Rises
  BY <1>9, IdleFields, BoundsAssumption
     DEF Rises, Guards, TakesOver, OrphansShrink, Moved, Kept, KeptMarks, Anew, procVars,
         childVars, envVars, KidsTyped, Flows, Recoveries, Down, Idle
<1>10. CASE Rests
  BY <1>10, IdleFields, BoundsAssumption
     DEF Rests, Guards, TakesOver, OrphansShrink, Moved, Kept, KeptMarks, Anew, procVars,
         childVars, envVars, KidsTyped, Flows, Recoveries
<1>11. ASSUME NEW c \in Children, Crashing(c) PROVE TakesOver'
  BY <1>11, IdleFields, BoundsAssumption
     DEF Crashing, Guards, TakesOver, OrphansShrink, Moved, Kept, KeptMarks, Anew, procVars,
         childVars, envVars, KidsTyped, Flows, Recoveries
<1>12. ASSUME NEW c \in Children, Exited(c) PROVE TakesOver'
  BY <1>12, IdleFields, BoundsAssumption
     DEF Exited, Armed, TakesOver, OrphansShrink, Moved, Kept, KeptMarks, Anew, procVars,
         childVars, envVars, KidsTyped, Flows, Recoveries
<1>13. ASSUME NEW c \in Children, Listened(c) PROVE TakesOver'
  BY <1>13, IdleFields, BoundsAssumption
     DEF Listened, Guards, TakesOver, OrphansShrink, Moved, Kept, KeptMarks, Anew, procVars,
         childVars, envVars, KidsTyped, Flows, Recoveries
<1>. QED
  BY <1>1, <1>2, <1>3, <1>4, <1>5, <1>6, <1>7, <1>8, <1>9, <1>10, <1>11, <1>12, <1>13 DEF Moves

(* A launcher that is not there stays as it is.                            *)
LEMMA DownStep ==
  ASSUME CallsTyped, KidsTyped, Down, Moves
  PROVE  Down'
<1>1. ASSUME NEW f \in Flows, Shared(f) PROVE Down'
  <2>1. CASE Tunnels(f)
    BY <2>1
       DEF Tunnels, Machines, At, Thrown, Down, procVars, childVars, envVars, KidsTyped, Flows,
           Recoveries
  <2>2. CASE Probes(f)
    BY <2>2
       DEF Probes, Guards, At, Thrown, Down, procVars, childVars, envVars, KidsTyped, Flows,
           Recoveries
  <2>3. CASE Spawns(f)
    BY <2>3
       DEF Spawns, Guards, At, Down, procVars, childVars, envVars, KidsTyped, Flows, Recoveries
  <2>4. CASE Readies(f)
    BY <2>4
       DEF Readies, Ends, Guards, At, Thrown, Down, procVars, childVars, envVars, KidsTyped,
           Flows, Recoveries
  <2>5. CASE Buries(f)
    BY <2>5
       DEF Buries, Guards, At, Thrown, Down, procVars, childVars, envVars, KidsTyped, Flows,
           Recoveries
  <2>6. CASE DrainMoves(f)
    BY <2>6
       DEF DrainMoves, Drained, Guards, At, Down, procVars, childVars, envVars, KidsTyped,
           Flows, Recoveries
  <2>7. CASE Shuts(f)
    BY <2>7
       DEF Shuts, Refused, Guards, At, Down, procVars, childVars, envVars, KidsTyped, Flows,
           Recoveries
  <2>8. CASE Leaves(f)
    BY <2>8
       DEF Leaves, Ended, Refused, Guards, At, Down, procVars, childVars, envVars, KidsTyped,
           Flows, Recoveries
  <2>9. CASE Severs(f)
    BY <2>9
       DEF Severs, Severed, Machines, At, Down, procVars, childVars, envVars, KidsTyped, Flows,
           Recoveries
  <2>. QED
    BY <1>1, <2>1, <2>2, <2>3, <2>4, <2>5, <2>6, <2>7, <2>8, <2>9 DEF Shared
<1>2. ASSUME NEW f \in {"start", "stop"}, StaleMoves(f) PROVE Down'
  BY <1>2
     DEF StaleMoves, Guards, At, Down, procVars, childVars, envVars, KidsTyped, Flows,
         Recoveries
<1>3. ASSUME NEW f \in {"start"} \cup Recoveries, CleanMoves(f) PROVE Down'
  BY <1>3
     DEF CleanMoves, Ends, Guards, At, Down, procVars, childVars, envVars, KidsTyped, Flows,
         Recoveries
<1>4. CASE StartMoves
  <2>1. CASE StartAsks
    BY <1>4, <2>1
       DEF StartAsks, Guards, At, StartMoves, Down, procVars, childVars, envVars, KidsTyped,
           Flows, Recoveries
  <2>2. CASE StartGoes
    BY <1>4, <2>2
       DEF StartGoes, Guards, At, StartMoves, Down, procVars, childVars, envVars, KidsTyped,
           Flows, Recoveries
  <2>3. CASE StartLoses
    BY <1>4, <2>3
       DEF StartLoses, At, StartMoves, Down, procVars, childVars, envVars, KidsTyped, Flows,
           Recoveries
  <2>. QED
    BY <1>4, <2>1, <2>2, <2>3 DEF StartMoves
<1>5. CASE StopMoves
  <2>1. CASE StopAsks
    BY <1>5, <2>1
       DEF StopAsks, Guards, At, StopMoves, Down, procVars, childVars, envVars, KidsTyped,
           Flows, Recoveries
  <2>2. CASE StopAims
    BY <1>5, <2>2
       DEF StopAims, Guards, At, StopMoves, Down, procVars, childVars, envVars, KidsTyped,
           Flows, Recoveries
  <2>3. CASE StopEnds
    BY <1>5, <2>3
       DEF StopEnds, StopThrown, At, StopMoves, Down, procVars, childVars, envVars, KidsTyped, Flows,
           Recoveries
  <2>4. CASE StopGivesBack
    BY <1>5, <2>4
       DEF StopGivesBack, Guards, At, StopMoves, Down, procVars, childVars, envVars, KidsTyped,
           Flows, Recoveries
  <2>. QED
    BY <1>5, <2>1, <2>2, <2>3, <2>4 DEF StopMoves
<1>6. ASSUME NEW n \in Recoveries, RecoverMoves(n) PROVE Down'
  <2>1. CASE Fires(n)
    BY <1>6, <2>1
       DEF Fires, RecoverMoves, Down, procVars, childVars, envVars, KidsTyped, Flows,
           Recoveries
  <2>2. CASE Rechecks(n)
    BY <1>6, <2>2
       DEF Rechecks, At, RecoverMoves, Down, procVars, childVars, envVars, KidsTyped, Flows,
           Recoveries
  <2>3. CASE Settles(n)
    BY <1>6, <2>3
       DEF Settles, At, Armed, RecoverMoves, Down, procVars, childVars, envVars, KidsTyped,
           Flows, Recoveries
  <2>. QED
    BY <1>6, <2>1, <2>2, <2>3 DEF RecoverMoves
<1>7. CASE Ticks
  BY <1>7 DEF Ticks, Armed, Down, procVars, childVars, envVars, KidsTyped, Flows, Recoveries
<1>8. CASE Dies
  BY <1>8 DEF Dies, Down, procVars, childVars, envVars, KidsTyped, Flows, Recoveries
<1>9. CASE Rises
  BY <1>9 DEF Rises, Guards, Down, procVars, childVars, envVars, KidsTyped, Flows, Recoveries
<1>10. CASE Rests
  BY <1>10 DEF Rests, Guards, Down, procVars, childVars, envVars, KidsTyped, Flows, Recoveries
<1>11. ASSUME NEW c \in Children, Crashing(c) PROVE Down'
  BY <1>11
     DEF Crashing, Guards, Down, procVars, childVars, envVars, KidsTyped, Flows, Recoveries
<1>12. ASSUME NEW c \in Children, Exited(c) PROVE Down'
  BY <1>12
     DEF Exited, Armed, Down, procVars, childVars, envVars, KidsTyped, Flows, Recoveries,
         Without
<1>13. ASSUME NEW c \in Children, Listened(c) PROVE Down'
  BY <1>13
     DEF Listened, Guards, Down, procVars, childVars, envVars, KidsTyped, Flows, Recoveries
<1>. QED
  BY <1>1, <1>2, <1>3, <1>4, <1>5, <1>6, <1>7, <1>8, <1>9, <1>10, <1>11, <1>12, <1>13 DEF Moves

(* Three ways in which admission is still owed, or owed no more.           *)
LEMMA StillReleased ==
  ASSUME Released, lost => lost', faulted \subseteq faulted', up' => up,
         mine' \cap Listening' \subseteq mine \cap Listening, accepting => accepting',
         \A g \in Flows : Drains(g) => Drains(g)'
  PROVE  Released'
  BY DEF Released

LEMMA NowReleased ==
  ASSUME accepting' \/ ~up' \/ lost' \/ faulted' \cap {"resume", "probe"} # {}
         \/ mine' \cap Listening' = {}
  PROVE  Released'
  BY DEF Released

LEMMA OneDrains ==
  ASSUME NEW f \in Flows, Drains(f)'
  PROVE  Released'
  BY DEF Released

LEMMA NoneServes ==
  ASSUME up, ~lost, Held, daemon = None
  PROVE  mine \cap Listening = {}
  BY BoundsAssumption DEF Held, Hold, Serving, Listening

LEMMA OthersDrain ==
  ASSUME NEW f \in Flows, Moved(f)
  PROVE  \A g \in Flows \ {f} : Drains(g) => Drains(g)'
  BY DEF Moved, Drains

LEMMA EndsReleases ==
  ASSUME KidsTyped, OnePort, NEW f \in Flows, Ends(f), mine' = mine
  PROVE  \/ mine' \cap Listening' = {}
         \/ (accepting => accepting') /\ mine' \cap Listening' \subseteq mine \cap Listening
<1>1. daemon \in Children
  BY DEF Ends, KidsTyped
<1>2. CASE proc[daemon] = "up"
  BY <1>1, <1>2 DEF Ends, Listening, OnePort, KidsTyped
<1>3. CASE proc[daemon] # "up"
  <2>1. accepting => accepting'
    BY <1>3 DEF Ends
  <2>2. Listening' \subseteq Listening
    BY <1>1 DEF Ends, Listening, KidsTyped
  <2>. QED
    BY <2>1, <2>2
<1>. QED
  BY <1>2, <1>3


(* Whoever closes admission owes it, or gives it back.                     *)
LEMMA ReleasedStep ==
  ASSUME CallsTyped, KidsTyped, OnePort, Down, Placed, Entering, Held, ReadyGone, Known,
         Released, lost => lost', faulted \subseteq faulted', Moves
  PROVE  Released'
<1>1. ASSUME NEW f \in Flows, Shared(f) PROVE Released'
  <2>1. CASE Tunnels(f)
    BY <2>1, IdleFields
       DEF Tunnels, Machines, At, Thrown, Released, Drains, Listening, Moved, Kept, KeptMarks,
           Anew, procVars, childVars, envVars, KidsTyped, Flows, Recoveries, Placed, PlacesOf,
           ModesOf, Starting, Ending
  <2>2. CASE Probes(f)
    BY <2>2, IdleFields
       DEF Probes, Guards, At, Thrown, Released, Drains, Listening, Moved, Kept, KeptMarks,
           Anew, procVars, childVars, envVars, KidsTyped, Flows, Recoveries, Placed, PlacesOf,
           ModesOf, Starting, Ending
  <2>3. CASE Spawns(f)
    BY <2>3, IdleFields
       DEF Spawns, Guards, At, Released, Drains, Listening, Moved, Kept, KeptMarks, Anew,
           procVars, childVars, envVars, KidsTyped, Flows, Recoveries, Placed, PlacesOf,
           ModesOf, Starting, Ending
  <2>4. CASE Readies(f)
    <3>1. up /\ mine' = mine /\ lost' = lost
      BY <2>4 DEF Readies, At
    <3>2. \A g \in Flows : Drains(g) => Drains(g)'
      <4>1. Moved(f) /\ (Drains(f) => Drains(f)')
        BY <2>4 DEF Readies, Ends, At, Kept, KeptMarks, Drains, Placed, PlacesOf, ModesOf, Flows,
                  Recoveries
      <4>. QED
        BY <4>1, OthersDrain
    <3>3. CASE Ends(f)
      BY <3>1, <3>2, <3>3, EndsReleases, StillReleased, NowReleased
    <3>4. CASE UNCHANGED procVars
      BY <3>1, <3>2, <3>4, StillReleased DEF procVars, Listening
    <3>. QED
      BY <2>4, <3>3, <3>4 DEF Readies
  <2>5. CASE Buries(f)
    BY <2>5, IdleFields
       DEF Buries, Guards, At, Thrown, Released, Drains, Listening, Moved, Kept, KeptMarks,
           Anew, procVars, childVars, envVars, KidsTyped, Flows, Recoveries, Placed, PlacesOf,
           ModesOf, Starting, Ending
  <2>6. CASE DrainMoves(f)
    <3>1. CASE Given /\ proc' = proc
      BY <3>1, NowReleased DEF Given, Listening
    <3>2. CASE At(f, "drain") /\ UNCHANGED flow
      <4>1. Drains(f)'
        BY <3>2 DEF Drains, At, Placed, PlacesOf, ModesOf, Starting, Ending, Flows, Recoveries
      <4>. QED
        BY <4>1, OneDrains
    <3>3. CASE /\ At(f, "drain") /\ flow'[f].mode = flow[f].mode /\ flow'[f].drained
               /\ flow'[f].pc = Drained(f)
      <4>1. Drains(f)'
        BY <3>3 DEF Drains, Drained, At, Placed, PlacesOf, ModesOf, Starting, Ending, Flows,
                    Recoveries
      <4>. QED
        BY <4>1, OneDrains
    <3>. QED
      BY <2>6, <3>1, <3>2, <3>3 DEF DrainMoves
  <2>7. CASE Shuts(f)
    <3>1. up /\ mine' = mine /\ lost' = lost /\ Moved(f) /\ UNCHANGED <<accepting, envVars>>
      BY <2>7 DEF Shuts, At, childVars
    <3>2. CASE daemon = None /\ UNCHANGED proc
      BY <3>1, <3>2, NoneServes, NowReleased DEF Listening
    <3>3. CASE \E c \in Listening : proc' = [proc EXCEPT ![c] = "exiting"]
      <4>1. Listening' = {}
        BY <3>3 DEF Listening, OnePort, KidsTyped
      <4>. QED
        BY <4>1, NowReleased
    <3>4. CASE flow'[f].pc = Refused(f) /\ Kept(f) /\ UNCHANGED proc
      <4>1. Drains(f) => Drains(f)'
        BY <2>7, <3>4 DEF Shuts, At, Drains, Refused, Kept, KeptMarks, Placed, PlacesOf, ModesOf,
                        Flows, Recoveries
      <4>2. \A g \in Flows : Drains(g) => Drains(g)'
        BY <3>1, <4>1, OthersDrain
      <4>. QED
        BY <3>1, <3>4, <4>2, StillReleased DEF Listening, envVars
    <3>. QED
      BY <2>7, <3>2, <3>3, <3>4 DEF Shuts
  <2>8. CASE Leaves(f)
    BY <2>8, IdleFields
       DEF Leaves, Ended, Refused, Guards, At, Released, Drains, Listening, Moved, Kept,
           KeptMarks, Anew, procVars, childVars, envVars, KidsTyped, Flows, Recoveries
  <2>9. CASE Severs(f)
    BY <2>9, IdleFields
       DEF Severs, Severed, Machines, At, Released, Drains, Listening, Moved, Kept, KeptMarks,
           Anew, procVars, childVars, envVars, KidsTyped, Flows, Recoveries
  <2>. QED
    BY <1>1, <2>1, <2>2, <2>3, <2>4, <2>5, <2>6, <2>7, <2>8, <2>9 DEF Shared
<1>2. ASSUME NEW f \in {"start", "stop"}, StaleMoves(f) PROVE Released'
  BY <1>2, IdleFields
     DEF StaleMoves, Guards, At, Released, Drains, Listening, Moved, Kept, KeptMarks, Anew,
         procVars, childVars, envVars, KidsTyped, Flows, Recoveries
<1>3. ASSUME NEW f \in {"start"} \cup Recoveries, CleanMoves(f) PROVE Released'
  <2>1. f \in Flows /\ up /\ mine' = mine /\ lost' = lost /\ Moved(f)
    BY <1>3 DEF CleanMoves, At, Flows, Recoveries, Ends
  <2>2. Drains(f) => Drains(f)'
    BY <1>3, <2>1 DEF CleanMoves, At, Drains, Ends, Placed, PlacesOf, ModesOf, Starting, Ending,
                    Flows, Recoveries
  <2>3. \A g \in Flows : Drains(g) => Drains(g)'
    BY <2>1, <2>2, OthersDrain
  <2>4. CASE Ends(f)
    BY <2>1, <2>3, <2>4, EndsReleases, StillReleased, NowReleased
  <2>5. CASE UNCHANGED procVars
    BY <2>1, <2>3, <2>5, StillReleased DEF procVars, Listening
  <2>. QED
    BY <1>3, <2>4, <2>5 DEF CleanMoves
<1>4. CASE StartMoves
  <2>1. CASE StartAsks
    BY <1>4, <2>1, IdleFields
       DEF StartAsks, Guards, At, StartMoves, Released, Drains, Listening, Moved, Kept,
           KeptMarks, Anew, procVars, childVars, envVars, KidsTyped, Flows, Recoveries
  <2>2. CASE StartGoes
    BY <1>4, <2>2, IdleFields
       DEF StartGoes, Guards, At, StartMoves, Released, Drains, Listening, Moved, Kept,
           KeptMarks, Anew, procVars, childVars, envVars, KidsTyped, Flows, Recoveries
  <2>3. CASE StartLoses
    BY <1>4, <2>3, IdleFields
       DEF StartLoses, At, StartMoves, Released, Drains, Listening, Moved, Kept, KeptMarks,
           Anew, procVars, childVars, envVars, KidsTyped, Flows, Recoveries
  <2>. QED
    BY <1>4, <2>1, <2>2, <2>3 DEF StartMoves
<1>5. CASE StopMoves
  <2>1. CASE StopAsks
    BY <1>5, <2>1, IdleFields
       DEF StopAsks, Guards, At, StopMoves, Released, Drains, Listening, Moved, Kept,
           KeptMarks, Anew, procVars, childVars, envVars, KidsTyped, Flows, Recoveries
  <2>2. CASE StopAims
    <3>1. /\ up /\ Moved("stop") /\ UNCHANGED <<accepting, mine>> /\ Listening' = Listening
          /\ lost => lost'
      BY <1>5, <2>2 DEF StopMoves, StopAims, At, procVars, childVars, Listening
    <3>0. "stop" \in Flows
      BY DEF Flows
    <3>2. CASE Drains("stop") => Drains("stop")'
      <4>1. \A g \in Flows : Drains(g) => Drains(g)'
        BY <3>0, <3>1, <3>2, OthersDrain
      <4>. QED
        BY <3>1, <4>1, StillReleased
    <3>3. ~Drains("stop")
      BY <2>2 DEF StopAims, At, Drains, Entering, Placed, PlacesOf, ModesOf, Starting, Ending, Flows,
                Recoveries
    <3>. QED
      BY <3>2, <3>3
  <2>3. CASE StopEnds
    <3>1. /\ up /\ UNCHANGED <<accepting, mine>> /\ Listening' = Listening
          /\ lost => lost'
      BY <1>5, <2>3 DEF StopMoves, StopEnds, At, procVars, childVars, Listening
    <3>2. CASE StopThrown /\ ~Drains("stop")
      <4>1. ASSUME NEW g \in Flows, Drains(g)
            PROVE  Drains(g)'
        <5>1. g # "stop" /\ ~(g = "start" /\ flow[g].pc = "await")
          BY <3>2, <4>1 DEF Drains, Placed, PlacesOf, ModesOf, Starting, Ending, Flows, Recoveries
        <5>2. flow'[g] = flow[g]
          BY <3>2, <4>1, <5>1 DEF StopThrown
        <5>. QED
          BY <4>1, <5>2 DEF Drains
      <4>. QED
        BY <3>1, <4>1, StillReleased
    <3>3. CASE At("stop", "ready")
      <4>1. lost \/ daemon = None
        BY <3>3 DEF ReadyGone, At
      <4>. QED
        BY <3>1, <4>1, NoneServes, NowReleased
    <3>4. CASE At("stop", "verdict") /\ StopThrown
      <4>1. ~Drains("stop")
        BY <3>4 DEF Entering, At, Drains, Placed, PlacesOf, ModesOf, Starting, Ending, Flows,
                    Recoveries
      <4>. QED
        BY <3>2, <3>4, <4>1
    <3>. QED
      BY <2>3, <3>3, <3>4 DEF StopEnds
  <2>4. CASE StopGivesBack
    <3>1. /\ up /\ Moved("stop") /\ UNCHANGED <<accepting, mine>> /\ Listening' = Listening
          /\ lost => lost'
      BY <1>5, <2>4 DEF StopMoves, StopGivesBack, At, procVars, childVars, Listening
    <3>0. "stop" \in Flows
      BY DEF Flows
    <3>2. CASE Drains("stop") => Drains("stop")'
      <4>1. \A g \in Flows : Drains(g) => Drains(g)'
        BY <3>0, <3>1, <3>2, OthersDrain
      <4>. QED
        BY <3>1, <4>1, StillReleased
    <3>3. CASE At("stop", "threw") \/ At("stop", "undone") \/ At("stop", "port")
      <4>1. Drains("stop") => Drains("stop")'
        BY <2>4, <3>3 DEF StopGivesBack, At, KeptMarks, Drains, Placed, PlacesOf, ModesOf, Starting,
                        Ending, Flows, Recoveries
      <4>. QED
        BY <3>2, <4>1
    <3>4. CASE At("stop", "restore")
      <4>1. CASE daemon = None
        BY <3>1, <4>1, NoneServes, NowReleased
      <4>2. CASE flow'["stop"].pc = "resume" /\ flow'["stop"].mode = flow["stop"].mode
        <5>1. Drains("stop")'
          BY <3>4, <4>2 DEF At, Drains, Placed, PlacesOf, ModesOf, Starting, Ending, Flows,
                            Recoveries
        <5>. QED
          BY <3>0, <5>1, OneDrains
      <4>3. CASE ~Healthy(daemon)
        <5>1. recognised
          BY <3>4 DEF Known, At, Placed, PlacesOf, ModesOf, Starting, Ending, Flows, Recoveries
        <5>2. ~lost => mine \cap Listening = {}
          BY <3>1, <4>3, <5>1, BoundsAssumption
             DEF Healthy, Held, Hold, Serving, Listening
        <5>. QED
          BY <3>1, <5>2, NowReleased
      <4>4. CASE "probe" \in faulted'
        BY <4>4, NowReleased
      <4>. QED
        BY <2>4, <3>4, <4>1, <4>2, <4>3, <4>4 DEF StopGivesBack, At, KeptMarks
    <3>. QED
      BY <2>4, <3>3, <3>4 DEF StopGivesBack
  <2>. QED
    BY <1>5, <2>1, <2>2, <2>3, <2>4 DEF StopMoves
<1>6. ASSUME NEW n \in Recoveries, RecoverMoves(n) PROVE Released'
  <2>1. CASE Fires(n)
    BY <1>6, <2>1, IdleFields
       DEF Fires, RecoverMoves, Released, Drains, Listening, Moved, Kept, KeptMarks, Anew,
           procVars, childVars, envVars, KidsTyped, Flows, Recoveries
  <2>2. CASE Rechecks(n)
    BY <1>6, <2>2, IdleFields
       DEF Rechecks, At, RecoverMoves, Released, Drains, Listening, Moved, Kept, KeptMarks,
           Anew, procVars, childVars, envVars, KidsTyped, Flows, Recoveries
  <2>3. CASE Settles(n)
    BY <1>6, <2>3, IdleFields
       DEF Settles, At, Armed, RecoverMoves, Released, Drains, Listening, Moved, Kept,
           KeptMarks, Anew, procVars, childVars, envVars, KidsTyped, Flows, Recoveries
  <2>. QED
    BY <1>6, <2>1, <2>2, <2>3 DEF RecoverMoves
<1>7. CASE Ticks
  BY <1>7, IdleFields
     DEF Ticks, Armed, Released, Drains, Listening, Moved, Kept, KeptMarks, Anew, procVars,
         childVars, envVars, KidsTyped, Flows, Recoveries
<1>8. CASE Dies
  BY <1>8, IdleFields
     DEF Dies, Released, Drains, Listening, Moved, Kept, KeptMarks, Anew, procVars, childVars,
         envVars, KidsTyped, Flows, Recoveries
<1>9. CASE Rises
  <2>1. mine' = {}
    BY <1>9 DEF Rises, Down, childVars
  <2>. QED
    BY <2>1, NowReleased
<1>10. CASE Rests
  BY <1>10, IdleFields
     DEF Rests, Guards, Released, Drains, Listening, Moved, Kept, KeptMarks, Anew, procVars,
         childVars, envVars, KidsTyped, Flows, Recoveries
<1>11. ASSUME NEW c \in Children, Crashing(c) PROVE Released'
  <2>1. UNCHANGED <<mine, flow, lost, up>>
    BY <1>11 DEF Crashing, childVars, envVars
  <2>2. CASE proc[c] = "up"
    <3>1. Listening' = {}
      BY <1>11, <2>2 DEF Crashing, Listening, OnePort, KidsTyped
    <3>. QED
      BY <3>1, NowReleased
  <2>3. CASE proc[c] # "up"
    <3>1. (accepting => accepting') /\ Listening' \subseteq Listening
      BY <1>11, <2>3 DEF Crashing, Listening, KidsTyped
    <3>2. \A g \in Flows : Drains(g) => Drains(g)'
      BY <2>1 DEF Drains
    <3>. QED
      BY <2>1, <3>1, <3>2, StillReleased
  <2>. QED
    BY <2>2, <2>3
<1>12. ASSUME NEW c \in Children, Exited(c) PROVE Released'
  BY <1>12, IdleFields
     DEF Exited, Armed, Released, Drains, Listening, Moved, Kept, KeptMarks, Anew, procVars,
         childVars, envVars, KidsTyped, Flows, Recoveries
<1>13. ASSUME NEW c \in Children, Listened(c) PROVE Released'
  BY <1>13, IdleFields
     DEF Listened, Guards, Released, Drains, Listening, Moved, Kept, KeptMarks, Anew, procVars,
         childVars, envVars, KidsTyped, Flows, Recoveries
<1>. QED
  BY <1>1, <1>2, <1>3, <1>4, <1>5, <1>6, <1>7, <1>8, <1>9, <1>10, <1>11, <1>12, <1>13 DEF Moves

-----------------------------------------------------------------------------
(* The invariant is inductive.                                             *)

LEMMA InitInv ==
  ASSUME Init
  PROVE  IInv
<1>. USE BoundsAssumption, IdleFields DEF Init
<1>1. \A f \in Flows : flow[f] = Idle
  BY DEF Flows
<1>2. /\ flow["start"] = Idle /\ flow["stop"] = Idle
      /\ \A n \in Recoveries : n \in Flows /\ flow[n] = Idle
  BY <1>1 DEF Flows, Recoveries
<1>3. Serving = {} /\ Listening = {} /\ Orphans = {}
  BY DEF Serving, Listening, Orphans
<1>4. Shapes
  BY DEF Shapes, CallsTyped, FileTyped, KidsTyped, Flags, Record, NoFile, Recoveries
<1>5. OnePort /\ Down
  BY DEF OnePort, Down
<1>6. Placed
  BY <1>1 DEF Placed, ModesOf, PlacesOf, Flows, Recoveries
<1>7. Order
  BY <1>1, <1>2 DEF Order, Entering, Alone, Stops, SpawnAlone, Known
<1>8. Holding
  BY <1>1, <1>2, <1>3 DEF Holding, Kills, Exiting, Held, ReadyGone
<1>9. Owning /\ Released
  BY <1>1, <1>2, <1>3 DEF Owning, Recorded, Inherited, TakesOver, Released
<1>. QED
  BY <1>4, <1>5, <1>6, <1>7, <1>8, <1>9 DEF IInv

LEMMA StepInv ==
  ASSUME IInv, Next
  PROVE  IInv'
<1>1. /\ CallsTyped /\ FileTyped /\ KidsTyped /\ Flags /\ OnePort /\ Down /\ Placed
      /\ Entering /\ Alone /\ Stops /\ SpawnAlone /\ Known
      /\ Kills /\ Exiting /\ Held /\ ReadyGone
      /\ Recorded /\ Inherited /\ TakesOver /\ Released
  BY DEF IInv, Shapes, Order, Holding, Owning
<1>2. Moves /\ faulted \subseteq faulted'
  BY <1>1, NextMoves, FaultsGrow
<1>3. (lost => lost') /\ (Hold' => Hold)
  BY <1>2, LostGrows, HoldStep
<1>4. CallsTyped' /\ KidsTyped' /\ Flags'
  BY <1>1, <1>2, CallsStep, KidsStep, FlagsStep
<1>5. FileTyped'
  BY <1>1, <1>4, FileWritten, FileStep
<1>6. OnePort' /\ Down' /\ Placed'
  BY <1>1, <1>2, PortStep, DownStep, PlacedStep
<1>7. Entering' /\ Alone' /\ Known'
  BY <1>1, <1>2, EnteringStep, AloneStep, KnownStep
<1>8. Stops'
  BY <1>1, <1>2, StopsStep
<1>9. SpawnAlone'
  BY <1>1, <1>2, ToSpawn, SpawnAloneStep
<1>10. Kills' /\ Exiting'
  BY <1>1, <1>2, <1>3, KillsStep, ExitingStep
<1>11. Held' /\ ReadyGone'
  BY <1>1, <1>2, <1>3, HeldStep, ReadyGoneStep
<1>12. OrphansShrink
  BY <1>1, <1>2, OrphansStep
<1>13. Recorded' /\ Inherited' /\ TakesOver'
  BY <1>1, <1>2, <1>3, <1>12, RecordedStep, InheritedStep, TakesOverStep
<1>14. Released'
  BY <1>1, <1>2, <1>3, ReleasedStep
<1>. QED
  BY <1>4, <1>5, <1>6, <1>7, <1>8, <1>9, <1>10, <1>11, <1>13, <1>14
     DEF IInv, Shapes, Order, Holding, Owning

LEMMA StutterInv ==
  ASSUME IInv, UNCHANGED vars
  PROVE  IInv'
<1>. USE DEF vars, procVars, callVars, childVars, guardVars, envVars
<1>1. Shapes' /\ OnePort' /\ Down' /\ Placed'
  BY DEF IInv, Shapes, CallsTyped, FileTyped, KidsTyped, Flags, OnePort, Down, Placed
<1>2. Order'
  BY DEF IInv, Order, Entering, Alone, Stops, SpawnAlone, Rushing, Recovered, Alive, Known
<1>3. Holding'
  BY DEF IInv, Holding, Kills, Hold, Alive, Exiting, Held, Serving, ReadyGone
<1>4. Owning'
  BY DEF IInv, Owning, Recorded, Inherited, TakesOver, Orphans, Serving
<1>5. Released'
  BY DEF IInv, Released, Drains, Listening
<1>. QED
  BY <1>1, <1>2, <1>3, <1>4, <1>5 DEF IInv

(* The inductive invariant holds in every state of every run.              *)
THEOREM Inductive == Spec => []IInv
<1>1. Init => IInv
  BY InitInv
<1>2. IInv /\ [Next]_vars => IInv'
  BY StepInv, StutterInv
<1>. QED
  BY <1>1, <1>2, PTL DEF Spec

-----------------------------------------------------------------------------
(* What follows.                                                           *)

(* Every variable keeps its type, and at most one daemon listens.          *)
THEOREM TypeCorrect == Spec => []TypeOK
<1>1. ASSUME IInv PROVE TypeOK
  <2>1. Shapes /\ OnePort
    BY <1>1 DEF IInv
  <2>2. Cardinality(Listening) <= 1
    <3>1. CASE Listening = {}
      BY <3>1, FS_EmptySet
    <3>2. ASSUME NEW c \in Listening PROVE Cardinality(Listening) <= 1
      <4>1. Listening = {c}
        BY <2>1, <3>2 DEF OnePort, Listening
      <4>2. Cardinality({c}) = 1
        BY FS_Singleton
      <4>. QED
        BY <4>1, <4>2
    <3>. QED
      BY <3>1, <3>2
  <2>3. proc \in [Children -> {"none", "starting", "up", "exiting", "dying"}]
    BY <2>1 DEF Shapes, KidsTyped
  <2>4. flow \in [Flows -> Call] /\ file \in Record
    BY <2>1 DEF Shapes, CallsTyped, FileTyped
  <2>5. /\ daemon \in mine \cup {None} /\ expected \subseteq mine /\ restartable \subseteq mine
        /\ timers \subseteq Recoveries
    BY <2>1 DEF Shapes, KidsTyped
  <2>. QED
    BY <2>2, <2>3, <2>4, <2>5 DEF TypeOK
<1>. QED
  BY <1>1, Inductive, PTL

(* A daemon of this launcher that still serves is the one it holds: no     *)
(* call loses sight of a child that another call has spawned.              *)
THEOREM DaemonsAreHeld == Spec => []DaemonHeld
<1>1. IInv => DaemonHeld
  BY DEF IInv, Holding, Held, Hold, DaemonHeld
<1>. QED
  BY <1>1, Inductive, PTL

(* Whenever the launcher dies, the ownership file names each daemon that   *)
(* it leaves serving.                                                      *)
THEOREM OwnershipIsRecorded == Spec => []OwnershipRecorded
<1>1. IInv => OwnershipRecorded
  BY DEF IInv, Owning, Recorded, OwnershipRecorded
<1>. QED
  BY <1>1, Inductive, PTL

(* When no call is left, a daemon drained for a stop that failed admits    *)
(* turns again, unless a resume or a probe failed.                         *)
THEOREM DrainsAreReleased == Spec => []DrainReleased
<1>1. ASSUME IInv, up, \A f \in Flows : flow[f].pc = "idle" PROVE \A f \in Flows : ~Drains(f)
  <2>1. \A f \in Flows : flow[f] = Idle
    BY <1>1 DEF IInv, Placed
  <2>. QED
    BY <2>1, IdleFields DEF Drains
<1>2. IInv => DrainReleased
  BY <1>1 DEF IInv, Released, DrainReleased
<1>. QED
  BY <1>2, Inductive, PTL

-----------------------------------------------------------------------------
(* What the answer "stopped" means.                                        *)

LEMMA StoppedOnce ==
  ASSUME Next, stopped'
  PROVE  stopped \/ StopDone
<1>. USE DEF callVars
<1>1. ASSUME NEW f \in Flows, TunnelStep(f) PROVE stopped
  BY <1>1 DEF TunnelStep, TunnelStatus, TunnelCut, TunnelConnect, TunnelVerify, TunnelClean
<1>2. ASSUME NEW f \in Flows, DaemonStep(f) PROVE stopped
  BY <1>2 DEF DaemonStep, SpawnDaemon, ProbeDaemon, DaemonProbed, DaemonResumed, DaemonUp,
              ChildKilled
<1>3. ASSUME NEW f \in Flows, EndStep(f) \/ DrainPolls(f) PROVE stopped
  BY <1>3 DEF EndStep, DrainPolls, DrainIdle, DrainFails, GiveBack, Shutdown, ShutDown, Sever
<1>4. ASSUME NEW f \in Flows, StaleStep(f) \/ CleanStep(f) PROVE stopped
  BY <1>4 DEF StaleStep, CleanStep, StaleHealth, StaleTunnel, StaleGone, CleanDaemon,
              CleanTunnel
<1>5. ASSUME StartOwn PROVE stopped
  BY <1>5 DEF StartOwn, StartCall, StartEnters, StartLooks, StartBegins, StartReady,
              StartThrew, StartFailed
<1>6. ASSUME StopOwn PROVE stopped \/ StopDone
  BY <1>6 DEF StopOwn, StopCall, StopEnters, StopReads, StopLooks, StopAdopts, StopBranches,
              StopIdentifies, StopThrew, StopUndoes, StopRestores, StopAwaitsPort, StopFails
<1>7. ASSUME NEW n \in Recoveries,
             \/ TimerFires(n) \/ RecoveryChecks(n) \/ RecoveryProxy(n) \/ RecoverySettles(n)
             \/ RecoveryFails(n)
      PROVE  stopped
  BY <1>7 DEF TimerFires, RecoveryChecks, RecoveryProxy, RecoverySettles, RecoveryFails
<1>8. ASSUME MonitorTick \/ LauncherDies \/ LauncherStarts \/ Machine
      PROVE  stopped
  BY <1>8 DEF MonitorTick, LauncherDies, LauncherStarts, Machine, TunnelDies, Crashes, Exits,
              Listens
<1>9. CASE StartStep
  BY <1>1, <1>2, <1>3, <1>4, <1>5, <1>9 DEF StartStep, Common, StartOwn, Flows
<1>10. CASE StopStep
  BY <1>1, <1>2, <1>3, <1>4, <1>6, <1>10 DEF StopStep, Common, StopOwn, Flows
<1>11. ASSUME NEW n \in Recoveries, RecoverStep(n)
       PROVE  stopped
  BY <1>1, <1>2, <1>3, <1>4, <1>7, <1>11 DEF RecoverStep, Common, Flows, Recoveries
<1>. QED
  BY <1>3, <1>5, <1>6, <1>8, <1>9, <1>10, <1>11 DEF Next, Launcher, StartOwn, StopOwn

LEMMA StopLeavesNone ==
  ASSUME IInv, Next, ~stopped, stopped', ~lost'
  PROVE  Serving' = {}
<1>1. StopDone
  BY StoppedOnce
<1>2. /\ At("stop", "ready") /\ ~lost /\ Serving' = Serving
  BY <1>1 DEF StopDone, procVars, Serving
<1>3. up /\ Orphans = {}
  <2>1. flow["stop"].mode # "stale"
    BY <1>2 DEF IInv, Placed, PlacesOf, ModesOf, Ending, At, Flows
  <2>. QED
    BY <1>2, <2>1, NoOrphans DEF IInv, Owning, At
<1>4. daemon = None
  BY <1>2 DEF IInv, Holding, ReadyGone, At
<1>. QED
  BY <1>2, <1>3, <1>4, OwnDaemon, BoundsAssumption DEF IInv, Holding, Serving

(* A stop is answered "stopped" only when no daemon serves, of this        *)
(* launcher or of one before, except where the code has lost sight of one  *)
(* (lost, as in supervisor_stale).                                         *)
THEOREM StopIsComplete == Spec => [][~stopped /\ stopped' /\ ~lost' => Serving' = {}]_vars
<1>1. IInv /\ [Next]_vars => [~stopped /\ stopped' /\ ~lost' => Serving' = {}]_vars
  BY StopLeavesNone
<1>. QED
  BY <1>1, Inductive, PTL DEF Spec

-----------------------------------------------------------------------------
(* What a stop leaves behind.                                              *)

\* Calls that have not looked at anything yet.
Early == {"idle", "await", "enter"}

\* A call that is about to take the tunnel's runtime down.
Cutting(f) == \/ flow[f].pc = "cut"
              \/ flow[f].pc = "clean" /\ "command" \in faulted

\* A runtime that a dead launcher left, and that this one has not looked at.
Unclaimed ==
  /\ "launcher" \in faulted /\ ~monitor /\ "tunnel" \notin timers /\ flow["tunnel"].pc = "idle"
  /\ \A f \in Flows : /\ flow[f].pc \notin {"connect", "verify"}
                      /\ flow[f].pc = "sever" => flow[f].mode = "stale"

Claimed == native /\ ~tunnel => (\E f \in Flows : Cutting(f)) \/ Unclaimed

\* A stop that goes through leaves no monitor: one that a recovery has started
\* meanwhile comes with a tunnel, which the stop severs.
Redone(f) == flow[f].pc \in {"cut", "connect", "clean"}

Watched ==
  "write" \notin faulted /\ flow["stop"].pc \notin Early /\ monitor /\ ~tunnel =>
    \/ flow["stop"].mode = "undo" \/ flow["stop"].pc = "threw"
    \/ flow["stop"].pc = "recoveries" /\ \E n \in Recoveries : Redone(n)

Untied ==
  LET s == flow["stop"] IN
  s.mode = "stale" \/ (s.mode = "run" /\ s.pc \in {"shutdown", "exit", "ready"}) => ~tunnel

\* Only the daemon that is held is this launcher's child.
OneChild == up /\ ~lost => mine \subseteq {daemon} /\ mine \subseteq Alive

\* The recovery of the tunnel spawns no daemon.
Apart == flow["tunnel"].pc # "spawn"

Answered == stopped => up /\ flow["stop"].pc = "idle" /\ flow["start"].pc \in Early

Gone == stopped /\ ~lost => /\ daemon = None /\ mine = {} /\ Serving = {}
                            /\ flow["daemon"].pc = "idle" /\ "daemon" \notin timers

Silent == stopped /\ ~lost /\ "write" \notin faulted =>
            /\ timers = {} /\ ~monitor /\ ~tunnel
            /\ \A n \in Recoveries : flow[n].pc = "idle"

Left == /\ Claimed /\ Watched /\ Untied /\ OneChild /\ Apart
        /\ Answered /\ Gone /\ Silent

(* The kinds of steps.                                                     *)
RecoverOwn(n) == TimerFires(n) \/ RecoveryChecks(n) \/ RecoveryProxy(n) \/ RecoverySettles(n)
                 \/ RecoveryFails(n)

LEMMA NextActs ==
  ASSUME Next
  PROVE  \/ \E f \in Flows : \/ TunnelStep(f) \/ DaemonStep(f)
                             \/ (EndStep(f) /\ ~Sever(f)) \/ DrainPolls(f) \/ Sever(f)
         \/ \E f \in {"start", "stop"} : StaleStep(f)
         \/ \E f \in {"start"} \cup Recoveries : CleanStep(f)
         \/ StartOwn \/ StopOwn \/ \E n \in Recoveries : RecoverOwn(n)
         \/ LauncherDies \/ LauncherStarts \/ MonitorTick \/ Machine
<1>1. CASE StartStep
  BY <1>1 DEF StartStep, Common, StartOwn, Flows
<1>2. CASE StopStep
  BY <1>2 DEF StopStep, Common, StopOwn, Flows
<1>3. ASSUME NEW n \in Recoveries, RecoverStep(n)
      PROVE  \/ TunnelStep(n) \/ DaemonStep(n) \/ EndStep(n)
             \/ CleanStep(n) \/ RecoverOwn(n)
  BY <1>3 DEF RecoverStep, Common, RecoverOwn
<1>. QED
  BY <1>1, <1>2, <1>3 DEF Next, Launcher, StartOwn, StopOwn, Flows, Recoveries

(* The tunnel in the steps that are not about it: no runtime and no        *)
(* monitor appear, and nobody who restarts the tunnel is disturbed.        *)
Calm == /\ monitor' => monitor
        /\ native' => native
        /\ tunnel' \/ tunnel' = tunnel \/ (~native' /\ ~monitor')
        /\ \A f \in Flows : Redone(f) => flow'[f] = flow[f]
        /\ native /\ ~tunnel /\ ~tunnel' /\ Unclaimed => Unclaimed'

LEMMA CalmSteps ==
  ASSUME CallsTyped, FileTyped, KidsTyped, Flags, Placed, faulted \subseteq faulted', Next
  PROVE  \/ \E f \in Flows : TunnelStep(f) \/ Sever(f)
         \/ LauncherDies \/ Calm
<1>. USE DEF guardVars, callVars, procVars, childVars, envVars
<1>1. ASSUME NEW f \in Flows, DaemonStep(f)
      PROVE  Calm
  <2>1. UNCHANGED <<native, tunnel, monitor, timers>>
    BY <1>1 DEF DaemonStep, SpawnDaemon, ProbeDaemon, DaemonProbed, DaemonResumed, DaemonUp,
                ChildKilled
  <2>2. Probes(f) \/ Spawns(f) \/ Readies(f) \/ Buries(f)
    BY <1>1, ProbeMoves, SpawnMoves, ReadyMoves, KillMoves DEF DaemonStep
  <2>3. /\ \A g \in Flows \ {f} : flow'[g] = flow[g]
        /\ flow[f].pc \in {"spawn", "probe", "resume", "up", "kill"}
        /\ flow'[f].pc \notin {"connect", "verify", "sever"}
    BY <2>2 DEF Probes, Spawns, Readies, Buries, Ends, Moved, At, Thrown
  <2>. QED
    BY <2>1, <2>3 DEF Calm, Redone, Unclaimed, Flows
<1>2. ASSUME NEW f \in Flows, EndStep(f) \/ DrainPolls(f), ~Sever(f)
      PROVE  Calm
  <2>1. UNCHANGED <<native, tunnel, monitor, timers>>
    BY <1>2 DEF EndStep, DrainPolls, DrainIdle, DrainFails, GiveBack, Shutdown, ShutDown
  <2>2. DrainMoves(f) \/ Shuts(f) \/ Leaves(f)
    BY <1>2, DrainsMove, ShutdownMoves, ExitMoves DEF EndStep
  <2>3. /\ \A g \in Flows \ {f} : flow'[g] = flow[g]
        /\ flow[f].pc \in {"drain", "giveback", "shutdown", "exit"}
        /\ flow'[f] = flow[f] \/ flow'[f].pc \notin {"connect", "verify"}
        /\ flow'[f].pc = "sever" => tunnel \/ flow'[f].mode = "stale"
    BY <2>2 DEF DrainMoves, Shuts, Leaves, Drained, Refused, Ended, Moved, Kept, KeptMarks, At
  <2>. QED
    BY <2>1, <2>3 DEF Calm, Redone, Unclaimed, Flows
<1>3. ASSUME NEW f \in {"start", "stop"}, StaleStep(f)
      PROVE  Calm
  <2>1. UNCHANGED <<native, tunnel, monitor, timers>>
    BY <1>3 DEF StaleStep, StaleHealth, StaleTunnel, StaleGone
  <2>2. StaleMoves(f) /\ f \in Flows
    BY <1>3, StalesMove DEF Flows
  <2>3. /\ \A g \in Flows \ {f} : flow'[g] = flow[g]
        /\ flow[f].pc \in {"stale", "staletunnel", "cleaned"}
        /\ flow'[f].pc \notin {"connect", "verify"}
        /\ flow'[f].pc = "sever" => flow[f].pc = "staletunnel" /\ flow'[f].mode = flow[f].mode
    BY <2>2 DEF StaleMoves, Moved, Anew, At
  <2>4. flow[f].pc = "staletunnel" => flow[f].mode = "stale"
    BY <2>2 DEF Placed, PlacesOf, ModesOf, Starting, Ending
  <2>. QED
    BY <2>1, <2>2, <2>3, <2>4 DEF Calm, Redone, Unclaimed, Flows
<1>4. ASSUME NEW f \in {"start"} \cup Recoveries, CleanStep(f)
      PROVE  Calm
  <2>1. UNCHANGED <<native, tunnel, monitor, timers>>
    BY <1>4 DEF CleanStep, CleanDaemon, CleanTunnel
  <2>2. CleanMoves(f) /\ f \in Flows
    BY <1>4, CleansMove DEF Flows, Recoveries
  <2>3. /\ \A g \in Flows \ {f} : flow'[g] = flow[g]
        /\ flow[f].pc \in {"cleanup", "cleaned"}
        /\ flow'[f].pc \notin {"connect", "verify"}
    BY <2>2 DEF CleanMoves, Ends, Moved, At
  <2>4. flow'[f].pc = "sever" => tunnel
    <3>1. CASE CleanDaemon(f)
      BY <2>2, <3>1 DEF CleanDaemon, CleanMoves, Ends, At
    <3>2. CASE CleanTunnel(f)
      BY <2>2, <3>2, GoMoves, PlaceNames DEF CleanTunnel
    <3>. QED
      BY <1>4, <3>1, <3>2 DEF CleanStep
  <2>. QED
    BY <2>1, <2>2, <2>3, <2>4 DEF Calm, Redone, Unclaimed, Flows
<1>5. CASE StartOwn
  <2>1. UNCHANGED <<native, tunnel, monitor>>
    BY <1>5 DEF StartOwn, StartCall, StartEnters, StartLooks, StartBegins, StartReady,
                StartThrew, StartFailed
  <2>2. StartMoves
    BY <1>5, StartsMove
  <2>3. /\ \A g \in Flows \ {"start"} : flow'[g] = flow[g]
        /\ ~Redone("start") /\ timers' \subseteq timers
        /\ flow'["start"].pc \notin {"connect", "verify", "sever"}
    BY <2>2, IdleFields DEF StartMoves, StartAsks, StartGoes, StartLoses, Moved, Kept, Anew, At,
                            Redone
  <2>. QED
    BY <2>1, <2>3 DEF Calm, Redone, Unclaimed, Flows
<1>6. CASE StopOwn
  <2>1. native' = native /\ (monitor' => monitor) /\ (tunnel' \/ tunnel' = tunnel)
    <3>1. CASE StopAdopts
      BY <3>1 DEF StopAdopts, Flags
    <3>2. CASE StopEnters
      BY <3>2 DEF StopEnters
    <3>3. CASE ~StopAdopts /\ ~StopEnters
      <4>1. UNCHANGED <<native, tunnel, monitor>>
        BY <1>6, <3>3 DEF StopOwn, StopCall, StopReads, StopLooks, StopBranches, StopIdentifies, StopDone,
                          StopThrew, StopUndoes, StopRestores, StopAwaitsPort, StopFails
      <4>. QED
        BY <4>1
    <3>. QED
      BY <3>1, <3>2, <3>3
  <2>2. StopMoves
    BY <1>6, StopsMove
  <2>3. /\ \A g \in Flows \ {"stop"} : flow'[g] = flow[g] \/ (flow[g].pc = "await" /\ flow'[g] = Idle)
        /\ ~Redone("stop") /\ timers' \subseteq timers
        /\ flow'["stop"].pc \notin {"connect", "verify"}
        /\ flow'["stop"].pc = "sever" => tunnel
    BY <2>2, IdleFields DEF StopMoves, StopAsks, StopAims, StopEnds, StopThrown, StopGivesBack, Moved, Kept,
                            Guards, At, Redone
  <2>. QED
    BY <2>1, <2>3, IdleFields DEF Calm, Redone, Unclaimed, Flows
<1>7. ASSUME NEW n \in Recoveries, RecoverOwn(n)
      PROVE  Calm
  <2>1. /\ UNCHANGED <<native, monitor>>
        /\ tunnel' \/ tunnel' = tunnel
    BY <1>7 DEF RecoverOwn, TimerFires, RecoveryChecks, RecoveryProxy, RecoverySettles,
                RecoveryFails
  <2>2. RecoverMoves(n) /\ n \in Flows
    BY <1>7, RecoversMove DEF RecoverOwn, Flows, Recoveries
  <2>3. CASE Fires(n)
    <3>1. /\ \A g \in Flows \ {n} : flow'[g] = flow[g]
          /\ n \in timers /\ timers' = timers \ {n} /\ flow[n].pc = "idle"
          /\ flow'[n].pc \in {"idle", "status", "spawn"}
      BY <2>3 DEF Fires, Moved
    <3>. QED
      BY <1>7, <2>1, <2>2, <3>1 DEF Calm, Redone, Unclaimed, Flows, Recoveries
  <2>4. CASE Rechecks(n) \/ Settles(n)
    <3>1. /\ \A g \in Flows \ {n} : flow'[g] = flow[g]
          /\ timers' \subseteq timers \cup {n}
          /\ flow[n].pc \in {"check", "proxy", "settle", "threw", "none"}
          /\ flow'[n].pc \in {"threw", "proxy", "settle", "idle", "cleanup"}
      BY <2>4, IdleFields DEF Rechecks, Settles, Moved, Anew, Armed, At
    <3>. QED
      BY <2>1, <2>2, <3>1 DEF Calm, Redone, Unclaimed, Flows
  <2>. QED
    BY <2>2, <2>3, <2>4 DEF RecoverMoves
<1>8. CASE LauncherStarts \/ Machine
  <2>1. UNCHANGED <<tunnel, monitor, flow>> /\ (native' => native)
    BY <1>8 DEF LauncherStarts, Machine, TunnelDies, Crashes, Exits, Listens
  <2>2. timers' \subseteq timers \cup {"daemon"}
    <3>1. ASSUME NEW c \in Children, Exits(c) PROVE timers' \subseteq timers \cup {"daemon"}
      BY <3>1 DEF Exits, HandleTerminal, TryWriteState, ScheduleRecovery
    <3>. QED
      BY <1>8, <3>1 DEF LauncherStarts, Machine, TunnelDies, Crashes, Listens
  <2>. QED
    BY <2>1, <2>2 DEF Calm, Redone, Unclaimed
<1>9. CASE MonitorTick
  BY <1>9 DEF MonitorTick, Calm, Redone, Unclaimed
<1>. QED
  BY <1>1, <1>2, <1>3, <1>4, <1>5, <1>6, <1>7, <1>8, <1>9, NextActs

(* A runtime that is up without being known is being taken down, or the    *)
(* legacy of a dead launcher.                                              *)
LEMMA ClaimedStep ==
  ASSUME CallsTyped, FileTyped, KidsTyped, Flags, Placed, Claimed, faulted \subseteq faulted', Next
  PROVE  Claimed'
<1>. SUFFICES ASSUME native', ~tunnel'
              PROVE  (\E f \in Flows : Cutting(f)') \/ Unclaimed'
  BY DEF Claimed
<1>1. CASE Calm
  <2>1. native /\ ~tunnel
    BY <1>1 DEF Calm, Flags
  <2>2. CASE Unclaimed
    BY <1>1, <2>1, <2>2 DEF Calm
  <2>3. CASE \E f \in Flows : Cutting(f)
    BY <1>1, <2>3 DEF Calm, Cutting, Redone
  <2>. QED
    BY <2>1, <2>2, <2>3 DEF Claimed
<1>2. ASSUME NEW f \in Flows, TunnelStep(f)
      PROVE  (\E g \in Flows : Cutting(g)') \/ Unclaimed'
  <2>. USE PlaceNames
  <2>1. CASE TunnelStatus(f)
    <3>1. tunnel' \/ flow'[f].pc = "cut" \/ (flow'[f].pc = "clean" /\ "command" \in faulted')
      BY <2>1, GoMoves DEF TunnelStatus, FailTunnel, Fault
    <3>. QED
      BY <3>1 DEF Cutting
  <2>2. CASE TunnelCut(f)
    <3>1. ~native' \/ (flow'[f].pc = "clean" /\ "command" \in faulted')
      BY <2>2, GoMoves DEF TunnelCut, FailTunnel, Fault
    <3>. QED
      BY <3>1 DEF Cutting
  <2>3. CASE TunnelConnect(f)
    <3>1. tunnel' \/ (flow'[f].pc = "clean" /\ "command" \in faulted')
      BY <2>3, GoMoves DEF TunnelConnect, FailTunnel, Fault
    <3>. QED
      BY <3>1 DEF Cutting
  <2>4. CASE TunnelVerify(f)
    <3>1. /\ native /\ ~tunnel /\ flow[f].pc = "verify"
          /\ \A g \in Flows \ {f} : flow'[g] = flow[g]
      <4>1. Moved(f)
        BY <2>4, TunnelMoves DEF TunnelStep, Tunnels
      <4>. QED
        BY <2>4, <4>1 DEF TunnelVerify, At, Moved
    <3>2. PICK g \in Flows : Cutting(g)
      BY <3>1 DEF Claimed, Unclaimed
    <3>3. g # f
      BY <3>1, <3>2 DEF Cutting
    <3>. QED
      BY <3>1, <3>2, <3>3 DEF Cutting
  <2>5. CASE TunnelClean(f)
    <3>1. /\ native /\ ~tunnel /\ "command" \notin faulted /\ flow[f].pc = "clean"
          /\ "command" \in faulted' /\ ~monitor' /\ timers' = timers
      <4>1. Fault("command") /\ UNCHANGED <<native, tunnel>>
        BY <2>5 DEF TunnelClean
      <4>2. flow[f].pc = "clean" /\ ~monitor' /\ timers' = timers
        BY <2>5 DEF TunnelClean, At
      <4>. QED
        BY <4>1, <4>2 DEF Fault
    <3>2. /\ \A g \in Flows \ {f} : flow'[g] = flow[g]
          /\ flow'[f].pc \in {"threw", "undone"}
      BY <1>2, <2>5, TunnelMoves DEF TunnelClean, Tunnels, Moved, Thrown, At
    <3>3. CASE Unclaimed
      BY <3>1, <3>2, <3>3 DEF Unclaimed, Flows
    <3>4. ASSUME NEW g \in Flows, Cutting(g)
          PROVE  Cutting(g)'
      BY <3>1, <3>2, <3>4 DEF Cutting
    <3>. QED
      BY <3>1, <3>3, <3>4 DEF Claimed
  <2>. QED
    BY <1>2, <2>1, <2>2, <2>3, <2>4, <2>5 DEF TunnelStep
<1>3. ASSUME NEW f \in Flows, Sever(f)
      PROVE  (\E g \in Flows : Cutting(g)') \/ Unclaimed'
  <2>1. /\ native /\ ~tunnel /\ flow[f].pc = "sever" /\ timers' = timers
        /\ monitor' = (monitor \/ flow[f].mode # "stale") /\ Go(f, "threw")
    <3>1. UNCHANGED <<native, tunnel>>
      BY <1>3 DEF Sever
    <3>2. flow[f].pc = "sever" /\ timers' = timers
      BY <1>3 DEF Sever, At
    <3>3. monitor' = (monitor \/ flow[f].mode # "stale") /\ Go(f, "threw")
      BY <1>3 DEF Sever
    <3>. QED
      BY <3>1, <3>2, <3>3
  <2>2. /\ \A g \in Flows \ {f} : flow'[g] = flow[g]
        /\ flow'[f].pc = "threw"
    BY <2>1, GoMoves, PlaceNames DEF Moved
  <2>3. CASE Unclaimed
    BY <2>1, <2>2, <2>3 DEF Unclaimed, Flows
  <2>4. ASSUME NEW g \in Flows, Cutting(g)
        PROVE  Cutting(g)'
    BY <2>1, <2>2, <2>4 DEF Cutting
  <2>. QED
    BY <2>1, <2>3, <2>4 DEF Claimed
<1>4. CASE LauncherDies
  <2>1. /\ flow' = [f \in Flows |-> Idle] /\ ~monitor' /\ timers' = {}
        /\ "launcher" \in faulted'
    BY <1>4 DEF LauncherDies, Fault
  <2>. QED
    BY <2>1, IdleFields DEF Unclaimed, Flows
<1>. QED
  BY <1>1, <1>2, <1>3, <1>4, CalmSteps

(* Where a stop goes.                                                      *)
Onward ==
  LET s == flow["stop"]
      t == flow'["stop"]
  IN /\ s.pc \in Early => t.pc \in Early \/ (t.pc = "recoveries" /\ ~monitor')
     /\ s.mode = "undo" => t.mode = "undo" \/ t.pc \in Early
     /\ s.pc = "threw" => t = s \/ t.mode = "undo" \/ t.pc \in Early
     /\ s.pc = "recoveries" => t = s \/ t.pc \in Early \/ \A n \in Recoveries : flow[n].pc = "idle"

LEMMA OnwardStep ==
  ASSUME CallsTyped, Placed, Moves
  PROVE  Onward
<1>1. ASSUME NEW f \in Flows, Shared(f) PROVE Onward
  <2>1. CASE Tunnels(f)
    BY <2>1, IdleFields
       DEF Tunnels, Machines, At, Thrown, Onward, Early, Placed, PlacesOf, ModesOf, Starting,
           Ending, Moved, Kept, KeptMarks, Anew, Flows, Recoveries
  <2>2. CASE Probes(f)
    BY <2>2, IdleFields
       DEF Probes, Guards, At, Thrown, Onward, Early, Placed, PlacesOf, ModesOf, Starting,
           Ending, Moved, Kept, KeptMarks, Anew, Flows, Recoveries
  <2>3. CASE Spawns(f)
    BY <2>3, IdleFields
       DEF Spawns, Guards, At, Onward, Early, Placed, PlacesOf, ModesOf, Starting, Ending, Moved,
           Kept, KeptMarks, Anew, Flows, Recoveries
  <2>4. CASE Readies(f)
    BY <2>4, IdleFields
       DEF Readies, Ends, Guards, At, Thrown, Onward, Early, Placed, PlacesOf, ModesOf, Starting,
           Ending, Moved, Kept, KeptMarks, Anew, Flows, Recoveries
  <2>5. CASE Buries(f)
    BY <2>5, IdleFields
       DEF Buries, Guards, At, Thrown, Onward, Early, Placed, PlacesOf, ModesOf, Starting,
           Ending, Moved, Kept, KeptMarks, Anew, Flows, Recoveries
  <2>6. CASE DrainMoves(f)
    BY <2>6, IdleFields
       DEF DrainMoves, Drained, Guards, At, Onward, Early, Placed, PlacesOf, ModesOf, Starting,
           Ending, Moved, Kept, KeptMarks, Anew, Flows, Recoveries
  <2>7. CASE Shuts(f)
    BY <2>7, IdleFields
       DEF Shuts, Refused, Guards, At, Onward, Early, Placed, PlacesOf, ModesOf, Starting,
           Ending, Moved, Kept, KeptMarks, Anew, Flows, Recoveries
  <2>8. CASE Leaves(f)
    BY <2>8, IdleFields
       DEF Leaves, Ended, Refused, Guards, At, Onward, Early, Placed, PlacesOf, ModesOf,
           Starting, Ending, Moved, Kept, KeptMarks, Anew, Flows, Recoveries
  <2>9. CASE Severs(f)
    BY <2>9, IdleFields
       DEF Severs, Severed, Machines, At, Onward, Early, Placed, PlacesOf, ModesOf, Starting,
           Ending, Moved, Kept, KeptMarks, Anew, Flows, Recoveries
  <2>. QED
    BY <1>1, <2>1, <2>2, <2>3, <2>4, <2>5, <2>6, <2>7, <2>8, <2>9 DEF Shared
<1>2. ASSUME NEW f \in {"start", "stop"}, StaleMoves(f) PROVE Onward
  BY <1>2, IdleFields
     DEF StaleMoves, Guards, At, Onward, Early, Placed, PlacesOf, ModesOf, Starting, Ending,
         Moved, Kept, KeptMarks, Anew, Flows, Recoveries
<1>3. ASSUME NEW f \in {"start"} \cup Recoveries, CleanMoves(f) PROVE Onward
  BY <1>3, IdleFields
     DEF CleanMoves, Ends, Guards, At, Onward, Early, Placed, PlacesOf, ModesOf, Starting,
         Ending, Moved, Kept, KeptMarks, Anew, Flows, Recoveries
<1>4. CASE StartMoves
  <2>1. CASE StartAsks
    BY <1>4, <2>1, IdleFields
       DEF StartAsks, Guards, At, StartMoves, Onward, Early, Placed, PlacesOf, ModesOf, Starting,
           Ending, Moved, Kept, KeptMarks, Anew, Flows, Recoveries
  <2>2. CASE StartGoes
    BY <1>4, <2>2, IdleFields
       DEF StartGoes, Guards, At, StartMoves, Onward, Early, Placed, PlacesOf, ModesOf, Starting,
           Ending, Moved, Kept, KeptMarks, Anew, Flows, Recoveries
  <2>3. CASE StartLoses
    BY <1>4, <2>3, IdleFields
       DEF StartLoses, Guards, At, StartMoves, Onward, Early, Placed, PlacesOf, ModesOf,
           Starting, Ending, Moved, Kept, KeptMarks, Anew, Flows, Recoveries
  <2>. QED
    BY <1>4, <2>1, <2>2, <2>3 DEF StartMoves
<1>5. CASE StopMoves
  <2>1. CASE StopAsks
    BY <1>5, <2>1, IdleFields
       DEF StopAsks, Guards, At, StopMoves, Onward, Early, Placed, PlacesOf, ModesOf, Starting,
           Ending, Moved, Kept, KeptMarks, Anew, Flows, Recoveries
  <2>2. CASE StopAims
    BY <1>5, <2>2, IdleFields
       DEF StopAims, Guards, At, StopMoves, Onward, Early, Placed, PlacesOf, ModesOf, Starting,
           Ending, Moved, Kept, KeptMarks, Anew, Flows, Recoveries
  <2>3. CASE StopEnds
    BY <1>5, <2>3, IdleFields
       DEF StopEnds, StopThrown, Guards, At, StopMoves, Onward, Early, Placed, PlacesOf, ModesOf, Starting,
           Ending, Moved, Kept, KeptMarks, Anew, Flows, Recoveries
  <2>4. CASE StopGivesBack
    BY <1>5, <2>4, IdleFields
       DEF StopGivesBack, Guards, At, StopMoves, Onward, Early, Placed, PlacesOf, ModesOf,
           Starting, Ending, Moved, Kept, KeptMarks, Anew, Flows, Recoveries
  <2>. QED
    BY <1>5, <2>1, <2>2, <2>3, <2>4 DEF StopMoves
<1>6. ASSUME NEW n \in Recoveries, RecoverMoves(n) PROVE Onward
  <2>1. CASE Fires(n)
    BY <1>6, <2>1, IdleFields
       DEF Fires, At, Armed, RecoverMoves, Onward, Early, Placed, PlacesOf, ModesOf, Starting,
           Ending, Moved, Kept, KeptMarks, Anew, Flows, Recoveries
  <2>2. CASE Rechecks(n)
    BY <1>6, <2>2, IdleFields
       DEF Rechecks, At, Armed, RecoverMoves, Onward, Early, Placed, PlacesOf, ModesOf, Starting,
           Ending, Moved, Kept, KeptMarks, Anew, Flows, Recoveries
  <2>3. CASE Settles(n)
    BY <1>6, <2>3, IdleFields
       DEF Settles, At, Armed, RecoverMoves, Onward, Early, Placed, PlacesOf, ModesOf, Starting,
           Ending, Moved, Kept, KeptMarks, Anew, Flows, Recoveries
  <2>. QED
    BY <1>6, <2>1, <2>2, <2>3 DEF RecoverMoves
<1>7. CASE Ticks
  BY <1>7, IdleFields
     DEF Ticks, Armed, Guards, Onward, Early, Placed, PlacesOf, ModesOf, Starting, Ending, Moved,
         Kept, KeptMarks, Anew, Flows, Recoveries
<1>8. CASE Dies
  BY <1>8, IdleFields
     DEF Dies, Onward, Early, Placed, PlacesOf, ModesOf, Starting, Ending, Moved, Kept,
         KeptMarks, Anew, Flows, Recoveries
<1>9. CASE Rises
  BY <1>9, IdleFields
     DEF Rises, Armed, Guards, Onward, Early, Placed, PlacesOf, ModesOf, Starting, Ending, Moved,
         Kept, KeptMarks, Anew, Flows, Recoveries
<1>10. CASE Rests
  BY <1>10, IdleFields
     DEF Rests, Armed, Guards, Onward, Early, Placed, PlacesOf, ModesOf, Starting, Ending, Moved,
         Kept, KeptMarks, Anew, Flows, Recoveries
<1>11. ASSUME NEW c \in Children, Crashing(c) PROVE Onward
  BY <1>11, IdleFields
     DEF Crashing, Guards, Armed, Onward, Early, Placed, PlacesOf, ModesOf, Starting, Ending,
         Moved, Kept, KeptMarks, Anew, Flows, Recoveries
<1>12. ASSUME NEW c \in Children, Exited(c) PROVE Onward
  BY <1>12, IdleFields
     DEF Exited, Guards, Armed, Onward, Early, Placed, PlacesOf, ModesOf, Starting, Ending,
         Moved, Kept, KeptMarks, Anew, Flows, Recoveries
<1>13. ASSUME NEW c \in Children, Listened(c) PROVE Onward
  BY <1>13, IdleFields
     DEF Listened, Guards, Armed, Onward, Early, Placed, PlacesOf, ModesOf, Starting, Ending,
         Moved, Kept, KeptMarks, Anew, Flows, Recoveries
<1>. QED
  BY <1>1, <1>2, <1>3, <1>4, <1>5, <1>6, <1>7, <1>8, <1>9, <1>10, <1>11, <1>12, <1>13 DEF Moves

(* The child that is held is the only one, and it lives.                   *)
LEMMA OneChildStep ==
  ASSUME KidsTyped, Down, OneChild, lost => lost', Moves
  PROVE  OneChild'
<1>1. ASSUME NEW f \in Flows, Shared(f) PROVE OneChild'
  <2>1. CASE Tunnels(f)
    BY <2>1, BoundsAssumption
       DEF Tunnels, Machines, At, Thrown, OneChild, Alive, KidsTyped, procVars, childVars,
           envVars
  <2>2. CASE Probes(f)
    BY <2>2, BoundsAssumption
       DEF Probes, Guards, At, Thrown, OneChild, Alive, KidsTyped, procVars, childVars, envVars
  <2>3. CASE Spawns(f)
    BY <2>3, BoundsAssumption
       DEF Spawns, Guards, At, Fresh, OneChild, Alive, KidsTyped, procVars, childVars, envVars
  <2>4. CASE Readies(f)
    BY <2>4, BoundsAssumption
       DEF Readies, Ends, Guards, At, Thrown, OneChild, Alive, KidsTyped, procVars, childVars,
           envVars
  <2>5. CASE Buries(f)
    BY <2>5, BoundsAssumption
       DEF Buries, Guards, At, Thrown, Forget, OneChild, Alive, KidsTyped, procVars, childVars,
           envVars
  <2>6. CASE DrainMoves(f)
    BY <2>6, BoundsAssumption
       DEF DrainMoves, Drained, Guards, At, OneChild, Alive, KidsTyped, procVars, childVars,
           envVars
  <2>7. CASE Shuts(f)
    BY <2>7, BoundsAssumption
       DEF Shuts, Refused, Guards, At, Listening, OneChild, Alive, KidsTyped, procVars,
           childVars, envVars
  <2>8. CASE Leaves(f)
    BY <2>8, BoundsAssumption
       DEF Leaves, Ended, Refused, Guards, At, Forget, OneChild, Alive, KidsTyped, procVars,
           childVars, envVars
  <2>9. CASE Severs(f)
    BY <2>9, BoundsAssumption
       DEF Severs, Severed, Machines, At, OneChild, Alive, KidsTyped, procVars, childVars,
           envVars
  <2>. QED
    BY <1>1, <2>1, <2>2, <2>3, <2>4, <2>5, <2>6, <2>7, <2>8, <2>9 DEF Shared
<1>2. ASSUME NEW f \in {"start", "stop"}, StaleMoves(f) PROVE OneChild'
  BY <1>2, BoundsAssumption
     DEF StaleMoves, Guards, At, OneChild, Alive, KidsTyped, procVars, childVars, envVars
<1>3. ASSUME NEW f \in {"start"} \cup Recoveries, CleanMoves(f) PROVE OneChild'
  BY <1>3, BoundsAssumption
     DEF CleanMoves, Ends, Guards, At, OneChild, Alive, KidsTyped, procVars, childVars, envVars
<1>4. CASE StartMoves
  <2>1. CASE StartAsks
    BY <1>4, <2>1, BoundsAssumption
       DEF StartAsks, Guards, At, StartMoves, OneChild, Alive, KidsTyped, procVars, childVars,
           envVars
  <2>2. CASE StartGoes
    BY <1>4, <2>2, BoundsAssumption
       DEF StartGoes, Guards, At, StartMoves, OneChild, Alive, KidsTyped, procVars, childVars,
           envVars
  <2>3. CASE StartLoses
    BY <1>4, <2>3, BoundsAssumption
       DEF StartLoses, Guards, At, StartMoves, OneChild, Alive, KidsTyped, procVars, childVars,
           envVars
  <2>. QED
    BY <1>4, <2>1, <2>2, <2>3 DEF StartMoves
<1>5. CASE StopMoves
  <2>1. CASE StopAsks
    BY <1>5, <2>1, BoundsAssumption
       DEF StopAsks, Guards, At, StopMoves, OneChild, Alive, KidsTyped, procVars, childVars,
           envVars
  <2>2. CASE StopAims
    BY <1>5, <2>2, BoundsAssumption
       DEF StopAims, Guards, At, StopMoves, OneChild, Alive, KidsTyped, procVars, childVars,
           envVars
  <2>3. CASE StopEnds
    BY <1>5, <2>3, BoundsAssumption
       DEF StopEnds, StopThrown, Guards, At, StopMoves, OneChild, Alive, KidsTyped, procVars, childVars,
           envVars
  <2>4. CASE StopGivesBack
    BY <1>5, <2>4, BoundsAssumption
       DEF StopGivesBack, Guards, At, StopMoves, OneChild, Alive, KidsTyped, procVars, childVars,
           envVars
  <2>. QED
    BY <1>5, <2>1, <2>2, <2>3, <2>4 DEF StopMoves
<1>6. ASSUME NEW n \in Recoveries, RecoverMoves(n) PROVE OneChild'
  <2>1. CASE Fires(n)
    BY <1>6, <2>1, BoundsAssumption
       DEF Fires, At, Armed, RecoverMoves, OneChild, Alive, KidsTyped, procVars, childVars,
           envVars
  <2>2. CASE Rechecks(n)
    BY <1>6, <2>2, BoundsAssumption
       DEF Rechecks, At, Armed, RecoverMoves, OneChild, Alive, KidsTyped, procVars, childVars,
           envVars
  <2>3. CASE Settles(n)
    BY <1>6, <2>3, BoundsAssumption
       DEF Settles, At, Armed, RecoverMoves, OneChild, Alive, KidsTyped, procVars, childVars,
           envVars
  <2>. QED
    BY <1>6, <2>1, <2>2, <2>3 DEF RecoverMoves
<1>7. CASE Ticks
  BY <1>7, BoundsAssumption
     DEF Ticks, Armed, Guards, OneChild, Alive, KidsTyped, procVars, childVars, envVars
<1>8. CASE Dies
  BY <1>8, BoundsAssumption
     DEF Dies, OneChild, Alive, KidsTyped, procVars, childVars, envVars
<1>9. CASE Rises
  BY <1>9, BoundsAssumption
     DEF Rises, Armed, Guards, Down, OneChild, Alive, KidsTyped, procVars, childVars, envVars
<1>10. CASE Rests
  BY <1>10, BoundsAssumption
     DEF Rests, Armed, Guards, OneChild, Alive, KidsTyped, procVars, childVars, envVars
<1>11. ASSUME NEW c \in Children, Crashing(c) PROVE OneChild'
  BY <1>11, BoundsAssumption
     DEF Crashing, Guards, Armed, OneChild, Alive, KidsTyped, procVars, childVars, envVars
<1>12. ASSUME NEW c \in Children, Exited(c) PROVE OneChild'
  BY <1>12, BoundsAssumption
     DEF Exited, Guards, Armed, Without, OneChild, Alive, KidsTyped, procVars, childVars, envVars
<1>13. ASSUME NEW c \in Children, Listened(c) PROVE OneChild'
  BY <1>13, BoundsAssumption
     DEF Listened, Guards, Armed, OneChild, Alive, KidsTyped, procVars, childVars, envVars
<1>. QED
  BY <1>1, <1>2, <1>3, <1>4, <1>5, <1>6, <1>7, <1>8, <1>9, <1>10, <1>11, <1>12, <1>13 DEF Moves

(* A monitor that runs while a stop is under way comes with a tunnel.      *)
LEMMA WatchedStep ==
  ASSUME CallsTyped, FileTyped, KidsTyped, Flags, Placed, Alone, Stops, Claimed, Watched, Onward,
         faulted \subseteq faulted', Next
  PROVE  Watched'
<1>. DEFINE s == flow["stop"]
            t == flow'["stop"]
<1>. SUFFICES ASSUME "write" \notin faulted', t.pc \notin Early, monitor', ~tunnel'
              PROVE  \/ t.mode = "undo" \/ t.pc = "threw"
                     \/ t.pc = "recoveries" /\ \E n \in Recoveries : Redone(n)'
  BY DEF Watched, Early, Redone
<1>0. "write" \notin faulted
  OBVIOUS
<1>1. CASE Calm
  <2>1. monitor /\ ~tunnel
    BY <1>1 DEF Calm, Flags
  <2>2. s.pc \notin Early
    BY DEF Onward
  <2>3. CASE s.mode = "undo" \/ s.pc = "threw"
    BY <2>3 DEF Onward
  <2>4. ASSUME s.pc = "recoveries", NEW n \in Recoveries, Redone(n)
        PROVE  t.pc = "recoveries" /\ Redone(n)'
    <3>1. flow'[n] = flow[n]
      BY <1>1, <2>4 DEF Calm, Flows, Recoveries
    <3>2. t = s
      BY <2>4 DEF Onward, Redone
    <3>. QED
      BY <2>4, <3>1, <3>2 DEF Redone
  <2>. QED
    BY <1>0, <2>1, <2>2, <2>3, <2>4 DEF Watched
<1>2. ASSUME NEW f \in Flows, TunnelStep(f)
      PROVE  \/ t.mode = "undo"
             \/ t.pc = "recoveries" /\ \E n \in Recoveries : Redone(n)'
  <2>1. /\ Tunnels(f) /\ up
        /\ flow[f].pc \in {"status", "cut", "connect", "verify", "clean"}
    BY <1>2, TunnelMoves DEF Tunnels, At
  <2>2. \A g \in Flows \ {f} : flow'[g] = flow[g]
    BY <2>1 DEF Tunnels, Moved
  <2>3. f # "start"
    BY <2>1, <2>2 DEF Alone, Early, Flows
  <2>4. CASE f = "stop"
    <3>1. s.mode = "undo"
      BY <2>1, <2>4 DEF Placed, PlacesOf, ModesOf, Ending, Recoveries
    <3>. QED
      BY <2>1, <2>4, <3>1 DEF Tunnels, Kept, KeptMarks
  <2>5. CASE f \in Recoveries
    <3>1. t = s /\ s.pc = "recoveries"
      BY <2>1, <2>2, <2>5 DEF Stops, Early, Flows, Recoveries
    <3>2. CASE TunnelVerify(f)
      <4>1. flow'[f].pc = "clean" \/ (flow[f].pc = "verify" /\ native /\ ~tunnel)
        <5>1. flow[f].pc = "verify" /\ tunnel' = tunnel
          BY <3>2 DEF TunnelVerify, At
        <5>2. native \/ Go(f, "clean")
          BY <3>2 DEF TunnelVerify
        <5>. QED
          BY <5>1, <5>2, GoMoves, PlaceNames
      <4>. SUFFICES ASSUME flow'[f].pc # "clean"
                    PROVE  t.pc = "recoveries" /\ \E n \in Recoveries : Redone(n)'
        BY <2>5, <3>1 DEF Redone
      <4>2. PICK g \in Flows : Cutting(g)
        BY <4>1 DEF Claimed, Unclaimed
      <4>3. g # f /\ g \in Recoveries
        BY <2>2, <3>1, <4>1, <4>2 DEF Cutting, Alone, Flows, Recoveries
      <4>. QED
        BY <2>2, <3>1, <4>2, <4>3 DEF Cutting, Redone
    <3>3. CASE TunnelStatus(f) \/ TunnelCut(f) \/ TunnelConnect(f)
      <4>1. flow'[f].pc \in {"cut", "connect", "clean"}
        BY <3>3, GoMoves, PlaceNames
           DEF TunnelStatus, TunnelCut, TunnelConnect, FailTunnel
      <4>. QED
        BY <2>5, <3>1, <4>1 DEF Redone
    <3>4. ~TunnelClean(f)
      BY DEF TunnelClean
    <3>. QED
      BY <1>2, <3>2, <3>3, <3>4 DEF TunnelStep
  <2>. QED
    BY <2>3, <2>4, <2>5 DEF Flows, Recoveries
<1>3. ASSUME NEW f \in Flows, Sever(f)
      PROVE  t.mode = "undo" \/ t.pc = "threw"
  <2>1. Severs(f) /\ flow[f].pc = "sever"
    BY <1>3, SeverMoves DEF Severs, At
  <2>2. \A g \in Flows \ {f} : flow'[g] = flow[g]
    BY <2>1 DEF Severs, Moved
  <2>3. f # "start"
    BY <2>1, <2>2 DEF Alone, Early, Flows
  <2>4. f \notin Recoveries
    BY <1>0, <2>1 DEF Stops, Placed, PlacesOf, ModesOf, Starting, Recoveries
  <2>5. f = "stop"
    BY <2>3, <2>4 DEF Flows, Recoveries
  <2>6. CASE flow[f].mode = "stale"
    <3>1. (tunnel' = tunnel /\ monitor' = monitor) \/ Go(f, "threw")
      BY <1>3, <2>6 DEF Sever
    <3>2. ASSUME tunnel' = tunnel, monitor' = monitor
          PROVE  FALSE
      <4>1. monitor
        BY <3>2
      <4>2. ~tunnel
        BY <3>2
      <4>. QED
        BY <1>0, <2>1, <2>5, <2>6, <4>1, <4>2 DEF Watched, Early
    <3>. QED
      BY <2>5, <3>1, <3>2, GoMoves, PlaceNames
  <2>7. CASE flow[f].mode # "stale"
    <3>1. Go(f, "threw")
      BY <1>3, <2>7 DEF Sever
    <3>. QED
      BY <2>5, <3>1, GoMoves, PlaceNames
  <2>. QED
    BY <2>6, <2>7
<1>4. CASE LauncherDies
  BY <1>4 DEF LauncherDies
<1>. QED
  BY <1>1, <1>2, <1>3, <1>4, CalmSteps

(* A stop that goes through has severed the tunnel.                        *)
LEMMA UntiedStep ==
  ASSUME CallsTyped, FileTyped, KidsTyped, Flags, Placed, Alone, Stops, Untied, Next
  PROVE  Untied'
<1>. DEFINE s == flow["stop"]
            t == flow'["stop"]
            Past(r) == r.mode = "stale" \/ (r.mode = "run" /\ r.pc \in {"shutdown", "exit", "ready"})
<1>. USE DEF guardVars, callVars, procVars, childVars, envVars
<1>. SUFFICES ASSUME Past(t), tunnel'
              PROVE  FALSE
  BY DEF Untied
<1>0. /\ flow["start"].pc \notin {"idle", "await"} => s.pc \in {"idle", "await"}
      /\ s.pc \notin Early \cup {"recoveries"} =>
           stopping /\ \A n \in Recoveries : flow[n].pc = "idle"
      /\ Past(s) => ~tunnel
      /\ s.pc \in Early \cup {"recoveries"} => ~Past(s)
  BY DEF Alone, Stops, Early, Untied, Placed, PlacesOf, ModesOf, Ending, Flows, Recoveries
<1>1. ASSUME NEW f \in Flows, TunnelStep(f)
      PROVE  FALSE
  <2>1. /\ Tunnels(f) /\ flow[f].pc \in {"status", "cut", "connect", "verify", "clean"}
    BY <1>1, TunnelMoves DEF Tunnels, At
  <2>2. CASE f = "stop"
    <3>1. s.mode = "undo"
      BY <2>1, <2>2 DEF Placed, PlacesOf, ModesOf, Ending, Recoveries
    <3>. QED
      BY <2>1, <2>2, <3>1 DEF Tunnels, Kept, KeptMarks
  <2>3. CASE f # "stop"
    <3>1. t = s
      BY <2>1, <2>3 DEF Tunnels, Moved, Flows
    <3>2. s.pc \in Early \cup {"recoveries"}
      BY <1>0, <2>1, <2>3 DEF Early, Flows, Recoveries
    <3>. QED
      BY <1>0, <3>1, <3>2
  <2>. QED
    BY <2>2, <2>3
<1>2. ASSUME NEW f \in Flows, DaemonStep(f)
      PROVE  FALSE
  <2>1. UNCHANGED tunnel
    BY <1>2 DEF DaemonStep, SpawnDaemon, ProbeDaemon, DaemonProbed, DaemonResumed, DaemonUp,
                ChildKilled
  <2>2. Probes(f) \/ Spawns(f) \/ Readies(f) \/ Buries(f)
    BY <1>2, ProbeMoves, SpawnMoves, ReadyMoves, KillMoves DEF DaemonStep
  <2>3. /\ \A g \in Flows \ {f} : flow'[g] = flow[g]
        /\ flow[f].pc \in {"spawn", "probe", "resume", "up", "kill"}
        /\ f \notin Recoveries => flow'[f].mode = flow[f].mode
    BY <2>2 DEF Probes, Spawns, Readies, Buries, Ends, Moved, Kept, KeptMarks, At
  <2>4. CASE f = "stop"
    <3>1. s.mode = "undo"
      BY <2>3, <2>4 DEF Placed, PlacesOf, ModesOf, Ending, Recoveries
    <3>. QED
      BY <2>3, <2>4, <3>1 DEF Recoveries
  <2>. QED
    BY <1>0, <2>1, <2>3, <2>4 DEF Flows
<1>3. ASSUME NEW f \in Flows, EndStep(f) \/ DrainPolls(f), ~Sever(f)
      PROVE  FALSE
  <2>1. UNCHANGED tunnel
    BY <1>3 DEF EndStep, DrainPolls, DrainIdle, DrainFails, GiveBack, Shutdown, ShutDown
  <2>2. DrainMoves(f) \/ Shuts(f) \/ Leaves(f)
    BY <1>3, DrainsMove, ShutdownMoves, ExitMoves DEF EndStep
  <2>3. /\ \A g \in Flows \ {f} : flow'[g] = flow[g]
        /\ flow'[f].mode = flow[f].mode
        /\ \/ flow'[f] = flow[f]
           \/ flow[f].pc \in {"shutdown", "exit"}
           \/ flow'[f].pc = "threw"
           \/ flow'[f].pc = Drained(f)
    BY <2>2 DEF DrainMoves, Shuts, Leaves, Moved, Kept, KeptMarks, At
  <2>4. Past(t) => Past(s) \/ ~tunnel
    BY <2>3 DEF Drained, Flows
  <2>. QED
    BY <1>0, <2>1, <2>4
<1>4. ASSUME NEW f \in Flows, Sever(f)
      PROVE  FALSE
  <2>1. Severs(f) /\ flow'[f].mode = flow[f].mode /\ flow[f].pc = "sever"
    BY <1>4, SeverMoves DEF Severs, At
  <2>2. CASE f # "stop"
    <3>1. t = s
      BY <2>1, <2>2 DEF Severs, Moved, Flows
    <3>2. ~tunnel' \/ tunnel' = tunnel
      BY <1>4 DEF Sever
    <3>. QED
      BY <1>0, <3>1, <3>2
  <2>3. CASE f = "stop" /\ flow[f].mode = "stale"
    <3>1. tunnel' = tunnel
      BY <1>4, <2>3 DEF Sever
    <3>. QED
      BY <1>0, <2>3, <3>1
  <2>4. CASE f = "stop" /\ flow[f].mode # "stale"
    <3>1. ~tunnel' \/ Go(f, "threw")
      BY <1>4, <2>4 DEF Sever
    <3>. QED
      BY <2>1, <2>4, <3>1, GoMoves, PlaceNames
  <2>. QED
    BY <2>2, <2>3, <2>4
<1>5. ASSUME NEW f \in {"start", "stop"}, StaleStep(f)
      PROVE  FALSE
  <2>1. StaleMoves(f) /\ tunnel' = tunnel /\ f \in Flows
    BY <1>5, StalesMove, ZenonT(60)
       DEF StaleMoves, Flows
  <2>2. f = "stop" => s.mode = "stale"
    BY <2>1 DEF StaleMoves, At, Placed, PlacesOf, ModesOf, Starting, Ending, Recoveries
  <2>3. f # "stop" => t = s
    BY <2>1 DEF StaleMoves, Moved, Flows
  <2>. QED
    BY <1>0, <1>5, <2>1, <2>2, <2>3
<1>6. CASE StartOwn \/ \E f \in {"start"} \cup Recoveries : CleanStep(f)
  <2>1. t = s /\ tunnel' = tunnel
    BY <1>6, StartsMove, CleansMove DEF StartMoves, StartAsks, StartGoes, StartLoses, CleanMoves,
       Ends, Moved, Flows, Recoveries
  <2>. QED
    BY <1>0, <2>1
<1>7. CASE StopOwn
  <2>1. CASE StopBranches
    <3>1. tunnel' = tunnel
      BY <2>1 DEF StopBranches
    <3>2. Go("stop", "health") \/ Go("stop", "sever") \/ Go("stop", "threw")
      BY <2>1, <3>1 DEF StopBranches
    <3>3. s.pc = "branch"
      BY <2>1 DEF StopBranches, At
    <3>. QED
      BY <3>2, <3>3, GoMoves, PlaceNames DEF Kept, KeptMarks, Placed, PlacesOf, ModesOf, Ending,
         Starting, Flows, Recoveries
  <2>2. CASE StopAdopts \/ StopIdentifies
    <3>1. /\ s.mode = "run" /\ t.mode = s.mode /\ t.pc \in {"branch", "threw", "drain"}
      BY <2>2, GoMoves, PlaceNames, ZenonT(60)
         DEF StopAdopts, StopIdentifies, At, Placed, PlacesOf, ModesOf,
         Ending, Starting, Kept, KeptMarks, Flows, Recoveries
    <3>. QED
      BY <3>1
  <2>3. CASE ~StopBranches /\ ~StopAdopts /\ ~StopIdentifies
    <3>1. StopMoves /\ tunnel' = tunnel
      BY <1>7, <2>3, StopsMove, ZenonT(60)
         DEF StopOwn, StopCall, StopEnters, StopReads, StopLooks, StopDone, StopThrew,
         StopUndoes, StopRestores, StopAwaitsPort, StopFails
    <3>2. StopOwn /\ s.pc \notin {"branch", "adopt", "health"}
      BY <1>7, <2>3 DEF StopOwn, StopCall, StopEnters, StopReads, StopLooks, StopDone, StopThrew,
         StopUndoes, StopRestores, StopAwaitsPort, StopFails, At
    <3>3. StopAsks \/ StopEnds \/ StopGivesBack
      BY <3>1, <3>2 DEF StopMoves, StopAims, At
    <3>4. ~Past(t) \/ Past(s)
      BY <3>3, IdleFields DEF StopAsks, StopEnds, StopThrown, StopGivesBack, Kept, KeptMarks, At, Placed,
         PlacesOf, ModesOf, Ending, Starting, Flows, Recoveries
    <3>. QED
      BY <1>0, <3>1, <3>4
  <2>. QED
    BY <2>1, <2>2, <2>3
<1>8. ASSUME NEW n \in Recoveries, RecoverOwn(n)
      PROVE  FALSE
  <2>1. RecoverMoves(n)
    BY <1>8, RecoversMove DEF RecoverOwn
  <2>2. t = s
    BY <2>1 DEF RecoverMoves, Fires, Rechecks, Settles, Moved, Flows, Recoveries
  <2>3. tunnel' = tunnel \/ flow[n].pc # "idle"
    BY <2>1 DEF RecoverMoves, Fires, Rechecks, Settles, At
  <2>. QED
    BY <1>0, <2>2, <2>3
<1>9. CASE MonitorTick \/ LauncherStarts \/ Machine
  <2>1. flow' = flow
    BY <1>9 DEF MonitorTick, LauncherStarts, Machine, TunnelDies, Crashes, Exits, Listens
  <2>2. tunnel' = tunnel \/ ~stopping
    BY <1>9 DEF MonitorTick, LauncherStarts, Machine, TunnelDies, Crashes, Exits, Listens
  <2>. QED
    BY <1>0, <2>1, <2>2
<1>10. CASE LauncherDies
  BY <1>10 DEF LauncherDies
<1>. QED
  BY <1>1, <1>2, <1>3, <1>4, <1>5, <1>6, <1>7, <1>8, <1>9, <1>10, NextActs

(* A daemon is spawned by a start, by a stop that compensates, and by the  *)
(* recovery of the daemon.                                                 *)
LEMMA ApartStep ==
  ASSUME CallsTyped, FileTyped, KidsTyped, Flags, Apart, Next
  PROVE  Apart'
<1>. DEFINE s == flow["tunnel"]
            t == flow'["tunnel"]
<1>1. ASSUME NEW f \in Flows, \/ TunnelStep(f) \/ DaemonStep(f) \/ EndStep(f)
                              \/ DrainPolls(f) \/ Sever(f)
      PROVE  t.pc # "spawn"
  <2>1. Shared(f)
    BY <1>1, TunnelMoves, ProbeMoves, SpawnMoves, ReadyMoves, KillMoves, DrainsMove,
       ShutdownMoves, ExitMoves, SeverMoves DEF Shared, DaemonStep, EndStep
  <2>2. t = s \/ t.pc # "spawn"
    BY <2>1 DEF Shared, Tunnels, Probes, Spawns, Readies, Buries, DrainMoves, Shuts, Leaves,
                Severs, Ends, Moved, Thrown, Drained, Refused, Ended, Severed, Flows
  <2>. QED
    BY <2>2 DEF Apart
<1>2. ASSUME NEW n \in Recoveries, RecoverOwn(n)
      PROVE  t.pc # "spawn"
  <2>1. RecoverMoves(n)
    BY <1>2, RecoversMove DEF RecoverOwn
  <2>2. t = s \/ t.pc # "spawn"
    BY <2>1, IdleFields DEF RecoverMoves, Fires, Rechecks, Settles, Moved, Anew, Flows,
                            Recoveries
  <2>. QED
    BY <2>2 DEF Apart
<1>3. ASSUME \/ \E f \in {"start", "stop"} : StaleStep(f)
             \/ \E f \in {"start"} \cup Recoveries : CleanStep(f)
             \/ StartOwn \/ StopOwn
      PROVE  t.pc # "spawn"
  <2>1. t = s \/ t.pc # "spawn"
    BY <1>3, StalesMove, CleansMove, StartsMove, StopsMove
       DEF StaleMoves, CleanMoves, Ends, StartMoves, StartAsks, StartGoes, StartLoses, StopMoves,
           StopAsks, StopAims, StopEnds, StopThrown, StopGivesBack, Moved, Flows, Recoveries
  <2>. QED
    BY <2>1 DEF Apart
<1>4. CASE LauncherDies \/ LauncherStarts \/ MonitorTick \/ Machine
  <2>1. flow' = flow \/ flow' = [f \in Flows |-> Idle]
    BY <1>4 DEF LauncherDies, LauncherStarts, MonitorTick, Machine, TunnelDies, Crashes, Exits,
                Listens
  <2>. QED
    BY <2>1, IdleFields DEF Apart, Flows
<1>. QED
  BY <1>1, <1>2, <1>3, <1>4, NextActs DEF Apart

(* After the answer no call is under way that acts on the daemon.          *)
LEMMA StopAnswers ==
  ASSUME IInv, Claimed, Watched, Untied, OneChild, StopDone
  PROVE  Answered' /\ Gone' /\ Silent'
<1>. DEFINE s == flow["stop"]
<1>1. /\ up /\ s.pc = "ready" /\ flow' = [flow EXCEPT !["stop"] = Idle]
      /\ UNCHANGED <<up, daemon, mine, proc, tunnel, monitor, timers, lost, faulted>>
  BY DEF StopDone, Leave, At, envVars, procVars, childVars
<1>2. /\ flow["start"].pc \in {"idle", "await"} /\ timers = {}
      /\ \A n \in Recoveries : flow[n].pc = "idle"
  BY <1>1 DEF IInv, Order, Alone, Stops
<1>3. /\ flow' \in [Flows -> Call] /\ flow'["stop"] = Idle
      /\ \A g \in Flows \ {"stop"} : flow'[g] = flow[g]
  BY <1>1, IdleFields DEF IInv, Shapes, CallsTyped, Flows
<1>4. ~lost => daemon = None /\ mine = {}
  BY <1>1, BoundsAssumption DEF IInv, Shapes, KidsTyped, Holding, ReadyGone, OneChild
<1>5. s.mode = "run"
  BY <1>1 DEF IInv, Placed, PlacesOf, ModesOf, Starting, Ending, Flows, Recoveries
<1>6. ~lost => Serving = {}
  BY <1>1, <1>4, <1>5, NoOrphans DEF IInv, Owning, Orphans
<1>7. ~tunnel /\ ("write" \notin faulted => ~monitor)
  BY <1>1, <1>5 DEF Untied, Watched, Early
<1>8. Answered'
  BY <1>1, <1>2, <1>3, IdleFields DEF Answered, Early, Flows
<1>9. Gone'
  BY <1>1, <1>2, <1>3, <1>4, <1>6 DEF Gone, Serving, Flows, Recoveries
<1>10. Silent'
  BY <1>1, <1>2, <1>3, <1>7 DEF Silent, Flows, Recoveries
<1>. QED
  BY <1>8, <1>9, <1>10

(* What goes on after the answer.                                          *)
LEMMA AfterAnswer ==
  ASSUME CallsTyped, KidsTyped, Answered, stopped, stopped', Next, ~StopDone
  PROVE  \/ StartCall \/ \E n \in Recoveries : \/ TunnelStep(n) \/ DaemonStep(n) \/ EndStep(n)
                                               \/ DrainPolls(n) \/ CleanStep(n) \/ RecoverOwn(n)
         \/ MonitorTick \/ Machine
<1>1. up /\ flow["stop"].pc = "idle" /\ flow["start"].pc \in Early
  BY DEF Answered
<1>2. ASSUME NEW f \in {"start", "stop"}, \/ TunnelStep(f) \/ DaemonStep(f) \/ EndStep(f)
                                          \/ DrainPolls(f) \/ Sever(f) \/ StaleStep(f)
                                          \/ CleanStep(f)
      PROVE  FALSE
  <2>1. flow[f].pc \notin Early
    BY <1>2 DEF TunnelStep, TunnelStatus, TunnelCut, TunnelConnect, TunnelVerify, TunnelClean,
       DaemonStep, SpawnDaemon, ProbeDaemon, DaemonProbed, DaemonResumed, DaemonUp, ChildKilled,
       EndStep, DrainPolls, DrainIdle, DrainFails, GiveBack, Shutdown, ShutDown, Sever,
       StaleStep, StaleHealth, StaleTunnel, StaleGone, CleanStep, CleanDaemon, CleanTunnel, At,
       Early
  <2>. QED
    BY <1>1, <1>2, <2>1, SMTT(30) DEF Early
<1>3. ASSUME StartOwn, ~StartCall
      PROVE  FALSE
  <2>1. ~StartEnters
    BY DEF StartEnters
  <2>. QED
    BY <1>1, <1>3, <2>1 DEF StartOwn, StartLooks, StartBegins, StartReady, StartThrew, StartFailed,
                            At, Early
<1>4. ~StopOwn
  <2>1. ~StopCall
    BY DEF StopCall
  <2>. QED
    BY <1>1, <2>1 DEF StopOwn, StopEnters, StopReads, StopLooks, StopAdopts, StopBranches, StopIdentifies,
                      StopThrew, StopUndoes, StopRestores, StopAwaitsPort, StopFails, At
<1>5. ~LauncherDies /\ ~LauncherStarts
  BY <1>1 DEF LauncherDies, LauncherStarts
<1>. QED
  BY <1>2, <1>3, <1>4, <1>5, NextActs DEF EndStep, Flows, Recoveries

(* Calls stay away until the next one is asked for.                        *)
LEMMA AnsweredStep ==
  ASSUME CallsTyped, KidsTyped, Answered, Next, ~StopDone
  PROVE  Answered'
<1>. SUFFICES ASSUME stopped'
              PROVE  up' /\ flow'["stop"].pc = "idle" /\ flow'["start"].pc \in Early
  BY DEF Answered, Early
<1>1. stopped /\ up /\ flow["stop"].pc = "idle" /\ flow["start"].pc \in Early
  BY StoppedOnce DEF Answered
<1>2. CASE StartCall
  <2>1. Moved("start") /\ flow'["start"].pc \in Early /\ up' = up
    BY <1>2, GoMoves, PlaceNames DEF StartCall, Early, Flows, envVars
  <2>. QED
    BY <1>1, <2>1 DEF Moved, Flows
<1>3. ASSUME NEW n \in Recoveries, \/ TunnelStep(n) \/ DaemonStep(n) \/ EndStep(n)
                                   \/ DrainPolls(n) \/ CleanStep(n) \/ RecoverOwn(n)
      PROVE  up' = up /\ \A f \in {"start", "stop"} : flow'[f] = flow[f]
  <2>1. CASE TunnelStep(n) \/ DaemonStep(n) \/ EndStep(n) \/ DrainPolls(n)
    <3>1. Shared(n) /\ n \in Flows
      BY <2>1, TunnelMoves, ProbeMoves, SpawnMoves, ReadyMoves, KillMoves, DrainsMove,
         ShutdownMoves, ExitMoves, SeverMoves DEF Shared, DaemonStep, EndStep, Flows, Recoveries
    <3>. QED
      BY <3>1 DEF Shared, Tunnels, Probes, Spawns, Readies, Buries, DrainMoves, Shuts, Leaves,
                  Severs, Ends, Moved, Flows, Recoveries, envVars
  <2>2. CASE CleanStep(n) \/ RecoverOwn(n)
    <3>1. CleanMoves(n) \/ RecoverMoves(n)
      <4>0. n \in Flows
        BY DEF Flows, Recoveries
      <4>1. CASE CleanStep(n)
        BY <4>0, <4>1, CleansMove
      <4>2. CASE RecoverOwn(n)
        BY <4>2, RecoversMove DEF RecoverOwn
      <4>. QED
        BY <2>2, <4>1, <4>2
    <3>. QED
      BY <3>1 DEF CleanMoves, Ends, RecoverMoves, Fires, Rechecks, Settles, Moved, Flows,
                  Recoveries, envVars
  <2>. QED
    BY <1>3, <2>1, <2>2
<1>4. ASSUME MonitorTick \/ Machine
      PROVE  up' = up /\ flow' = flow
  BY <1>4 DEF MonitorTick, Machine, TunnelDies, Crashes, Exits, Listens, envVars
<1>. QED
  BY <1>1, <1>2, <1>3, <1>4, AfterAnswer

(* No daemon comes back: nobody is left who spawns one.                    *)
LEMMA GoneStep ==
  ASSUME CallsTyped, KidsTyped, Flags, Apart, Answered, Gone, lost => lost', Next, ~StopDone
  PROVE  Gone'
<1>. USE BoundsAssumption
<1>. DEFINE Same == /\ daemon' \in {daemon, None} /\ mine' \subseteq mine
                    /\ Serving' \subseteq Serving
            Still == flow'["daemon"].pc = "idle" /\ "daemon" \notin timers'
<1>. SUFFICES ASSUME stopped', ~lost'
              PROVE  daemon' = None /\ mine' = {} /\ Serving' = {} /\ Still
  BY DEF Gone
<1>1. /\ stopped /\ ~lost /\ daemon = None /\ mine = {} /\ Serving = {}
      /\ flow["daemon"].pc = "idle" /\ "daemon" \notin timers
  BY StoppedOnce DEF Gone
<1>2. CASE StartCall
  BY <1>1, <1>2, GoMoves, PlaceNames DEF StartCall, Moved, Serving, Flows, procVars, childVars,
     guardVars
<1>3. ASSUME NEW n \in Recoveries, \/ TunnelStep(n) \/ DaemonStep(n) \/ EndStep(n)
                                   \/ DrainPolls(n)
      PROVE  Same /\ Still
  <2>1. Shared(n) /\ n \in Flows
    BY <1>3, TunnelMoves, ProbeMoves, SpawnMoves, ReadyMoves, KillMoves, DrainsMove,
       ShutdownMoves, ExitMoves, SeverMoves DEF Shared, DaemonStep, EndStep, Flows, Recoveries
  <2>2. n # "daemon" /\ ~Spawns(n)
    BY <1>1, <2>1 DEF Shared, Tunnels, Probes, Spawns, Readies, Buries, DrainMoves, Shuts,
                      Leaves, Severs, At, Apart, Recoveries
  <2>3. Still
    BY <1>1, <2>1, <2>2 DEF Shared, Tunnels, Probes, Readies, Buries, DrainMoves, Shuts, Leaves,
                            Severs, Ends, Moved, Guards, Flows
  <2>4. /\ daemon' \in {daemon, None} /\ mine' \subseteq mine
        /\ \A c \in Children : proc'[c] \in {"starting", "up"} => proc[c] \in {"starting", "up"}
    BY <2>1, <2>2 DEF Shared, Tunnels, Machines, Probes, Readies, Buries, Forget, DrainMoves,
       Shuts, Leaves, Severs, Ends, KidsTyped, procVars, childVars
  <2>. QED
    BY <2>3, <2>4 DEF Serving
<1>4. ASSUME NEW n \in Recoveries, CleanStep(n) \/ RecoverOwn(n)
      PROVE  Same /\ Still
  <2>1. CleanMoves(n) \/ RecoverMoves(n)
    <3>0. n \in Flows
      BY DEF Flows, Recoveries
    <3>1. CASE CleanStep(n)
      BY <3>0, <3>1, CleansMove
    <3>2. CASE RecoverOwn(n)
      BY <3>2, RecoversMove DEF RecoverOwn
    <3>. QED
      BY <1>4, <3>1, <3>2
  <2>2. n # "daemon"
    BY <1>1, <2>1 DEF CleanMoves, RecoverMoves, Fires, Rechecks, Settles, At
  <2>3. Still
    BY <1>1, <2>1, <2>2 DEF CleanMoves, Ends, RecoverMoves, Fires, Rechecks, Settles, Armed,
                            Moved, Guards, Flows
  <2>4. /\ daemon' = daemon /\ mine' = mine
        /\ \A c \in Children : proc'[c] \in {"starting", "up"} => proc[c] \in {"starting", "up"}
    BY <2>1 DEF CleanMoves, Ends, RecoverMoves, KidsTyped, procVars, childVars
  <2>. QED
    BY <2>3, <2>4 DEF Serving
<1>5. CASE MonitorTick
  <2>1. UNCHANGED <<procVars, childVars, flow>> /\ timers' \subseteq timers \cup {"tunnel"}
    BY <1>5 DEF MonitorTick, TryWriteState, ScheduleRecovery
  <2>. QED
    BY <1>1, <2>1 DEF Serving, procVars, childVars
<1>6. ASSUME NEW c \in Children, Crashes(c) \/ Exits(c) \/ Listens(c)
      PROVE  Same /\ Still
  <2>1. proc[c] \notin {"starting", "up"} /\ c \notin mine
    BY <1>1 DEF Serving
  <2>2. Exits(c)
    BY <1>6, <2>1 DEF Crashes, Listens
  <2>. QED
    BY <1>1, <2>1, <2>2 DEF Exits, Serving, KidsTyped, childVars
<1>7. CASE TunnelDies
  BY <1>1, <1>7 DEF TunnelDies, Serving, procVars, childVars, guardVars
<1>. QED
  BY <1>1, <1>2, <1>3, <1>4, <1>5, <1>6, <1>7, AfterAnswer DEF Machine

(* Nothing is scheduled, and the tunnel stays down.                        *)
LEMMA SilentStep ==
  ASSUME CallsTyped, KidsTyped, Answered, Gone, Silent, lost => lost',
         faulted \subseteq faulted', Next, ~StopDone
  PROVE  Silent'
<1>. SUFFICES ASSUME stopped', ~lost', "write" \notin faulted'
              PROVE  /\ timers' = {} /\ ~monitor' /\ ~tunnel'
                     /\ \A n \in Recoveries : flow'[n].pc = "idle"
  BY DEF Silent
<1>1. /\ stopped /\ ~lost /\ timers = {} /\ ~monitor /\ ~tunnel /\ mine = {}
      /\ \A n \in Recoveries : flow[n].pc = "idle"
  BY StoppedOnce DEF Silent, Gone
<1>2. CASE StartCall
  BY <1>1, <1>2, GoMoves, PlaceNames DEF StartCall, Moved, Flows, Recoveries, guardVars
<1>3. ASSUME NEW n \in Recoveries, \/ TunnelStep(n) \/ DaemonStep(n) \/ EndStep(n)
                                   \/ DrainPolls(n) \/ CleanStep(n) \/ RecoverOwn(n)
      PROVE  FALSE
  <2>1. flow[n].pc # "idle" \/ n \in timers
    BY <1>3 DEF TunnelStep, TunnelStatus, TunnelCut, TunnelConnect, TunnelVerify, TunnelClean,
       DaemonStep, SpawnDaemon, ProbeDaemon, DaemonProbed, DaemonResumed, DaemonUp, ChildKilled,
       EndStep, DrainPolls, DrainIdle, DrainFails, GiveBack, Shutdown, ShutDown, Sever,
       CleanStep, CleanDaemon, CleanTunnel, RecoverOwn, TimerFires, RecoveryChecks,
       RecoveryProxy, RecoverySettles, RecoveryFails, At
  <2>. QED
    BY <1>1, <2>1, SMTT(30)
<1>4. ~MonitorTick
  BY <1>1 DEF MonitorTick
<1>5. ASSUME Machine
      PROVE  UNCHANGED <<timers, monitor, tunnel, flow>>
  BY <1>1, <1>5 DEF Machine, TunnelDies, Crashes, Exits, Listens, guardVars
<1>. QED
  BY <1>1, <1>2, <1>3, <1>4, <1>5, AfterAnswer

(* All of this is inductive relative to IInv.                              *)
LEMMA LeftInv ==
  ASSUME IInv, Left, Next
  PROVE  Left'
<1>1. /\ CallsTyped /\ FileTyped /\ KidsTyped /\ Flags /\ Down /\ Placed /\ Alone /\ Stops
      /\ Claimed /\ Watched /\ Untied /\ OneChild /\ Apart /\ Answered /\ Gone /\ Silent
  BY DEF IInv, Shapes, Order, Left
<1>2. Moves /\ faulted \subseteq faulted' /\ (lost => lost')
  BY <1>1, NextMoves, FaultsGrow, LostGrows
<1>3. Claimed' /\ Apart' /\ Untied'
  BY <1>1, <1>2, ClaimedStep, ApartStep, UntiedStep
<1>4. Watched'
  BY <1>1, <1>2, OnwardStep, WatchedStep
<1>5. OneChild'
  BY <1>1, <1>2, OneChildStep
<1>6. CASE StopDone
  BY <1>1, <1>3, <1>4, <1>5, <1>6, StopAnswers DEF Left
<1>7. CASE ~StopDone
  BY <1>1, <1>2, <1>3, <1>4, <1>5, <1>7, AnsweredStep, GoneStep, SilentStep DEF Left
<1>. QED
  BY <1>6, <1>7

LEMMA LeftRests ==
  ASSUME Left, UNCHANGED vars
  PROVE  Left'
<1>. USE DEF vars, procVars, callVars, childVars, guardVars, envVars
<1>1. Claimed'
  BY DEF Left, Claimed, Unclaimed, Cutting
<1>2. Watched' /\ Untied'
  BY DEF Left, Watched, Redone, Untied, Early
<1>3. OneChild' /\ Apart' /\ Answered'
  BY DEF Left, OneChild, Alive, Apart, Answered, Early
<1>4. Gone' /\ Silent'
  BY DEF Left, Gone, Serving, Silent
<1>. QED
  BY <1>1, <1>2, <1>3, <1>4 DEF Left

(* After a stop was answered "stopped" no daemon serves until the next     *)
(* call, and, unless a write of the ownership file has failed, no restart  *)
(* is armed and no runtime of the tunnel is up but a dead launcher's.      *)
THEOREM StopsLast == Spec => []StoppedStaysStopped
<1>1. Init => Left
  BY BoundsAssumption, IdleFields
     DEF Init, Left, Claimed, Watched, Untied, OneChild, Apart, Answered, Gone, Silent, Flows,
         Early
<1>2. IInv /\ Left /\ [Next]_vars => Left'
  BY LeftInv, LeftRests
<1>3. ASSUME Left PROVE StoppedStaysStopped
  <2>. SUFFICES ASSUME stopped, ~lost
                PROVE  /\ Serving = {}
                       /\ "write" \notin faulted => timers = {} /\ (native => "launcher" \in faulted)
    BY DEF StoppedStaysStopped
  <2>1. Serving = {} /\ flow["stop"].pc = "idle" /\ flow["start"].pc \in Early
    BY <1>3 DEF Left, Gone, Answered
  <2>2. ASSUME "write" \notin faulted
        PROVE  timers = {} /\ (native => "launcher" \in faulted)
    <3>1. timers = {} /\ ~tunnel /\ \A n \in Recoveries : flow[n].pc = "idle"
      BY <1>3, <2>2 DEF Left, Silent
    <3>2. \A f \in Flows : ~Cutting(f)
      BY <2>1, <3>1 DEF Cutting, Early, Flows, Recoveries
    <3>. QED
      BY <1>3, <3>1, <3>2 DEF Left, Claimed, Unclaimed
  <2>. QED
    BY <2>1, <2>2
<1>. QED
  BY <1>1, <1>2, <1>3, Inductive, PTL DEF Spec
=============================================================================
