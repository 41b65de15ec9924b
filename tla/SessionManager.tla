--------------------------- MODULE SessionManager ---------------------------
(***************************************************************************)
(* Turn admission, per-session serialization and bounded execution of the  *)
(* bridge: SessionManager (send, cancel, close, shutdown, startup recovery) *)
(* with the Mutex of each session and the shared TurnScheduler.            *)
(*                                                                         *)
(* A call of send() or close() is an actor.  It runs from one await to the *)
(* next without interruption, so an action is the code between two awaits; *)
(* settling a promise (granting a lock or a slot, rejecting a waiter) and  *)
(* the continuation that it resumes are two actions, because other         *)
(* continuations run in between.                                           *)
(***************************************************************************)
EXTENDS Naturals, Sequences, FiniteSets

CONSTANTS
  Sessions,     \* conversations, all created before the calls start
  Sends,        \* calls of send()
  Closers,      \* calls of close()
  TurnIds,      \* request ids; a client may repeat one
  MaxActive,    \* TurnScheduler.maxActive
  MaxQueued,    \* TurnScheduler.maxQueued
  MaxCrashes,   \* bound on process restarts
  None          \* "undefined"

Calls == Sends \cup Closers

ASSUME CallsAssumption == Sends \cap Closers = {} /\ None \notin Calls
ASSUME NoneAssumption == None \notin Sessions /\ None \notin TurnIds
ASSUME NoTurnAssumption ==
  None \notin [session : Sessions, id : TurnIds, base : Seq(TurnIds)]
ASSUME FiniteAssumption == IsFiniteSet(Sends)
ASSUME CapacityAssumption == MaxActive \in Nat \ {0} /\ MaxQueued \in Nat
ASSUME CrashAssumption == MaxCrashes \in Nat

VARIABLES
  pc,             \* where each call is
  sess, prio,     \* the session a call is for, the priority of a send
  tid,            \* turnId of a send, None while undefined
  history,        \* the transcript a send read for its provider request
  seen,           \* the status that resolveSession has read for a call
  signal,         \* the client's AbortSignal of a send has fired
  controller,     \* the AbortController of a running turn has fired
  locked,         \* Mutex.locked, per session
  lockQueue,      \* Mutex.queue, per session
  active,         \* TurnScheduler.active
  capQueue,       \* TurnScheduler.queue: one FIFO per priority
  admittedTurns,
  activeTurns,    \* the send whose turn is registered for a session
  shuttingDown,
  status,         \* sessions.status, persisted
  turns,          \* turns.status, persisted
  messages,       \* the turns whose messages are stored, persisted
  crashes

callVars == <<pc, sess, prio, tid, history, seen, signal, controller>>
lockVars == <<locked, lockQueue>>
capVars  == <<active, capQueue>>
dbVars   == <<status, turns, messages>>
vars     == <<callVars, lockVars, capVars, admittedTurns, activeTurns,
              shuttingDown, dbVars, crashes>>

Priorities   == {"interactive", "normal"}
SessionStatus == {"ready", "busy", "closing", "closed"}
TurnStatus   == {"none", "running", "completed", "failed", "cancelled"}
PCs == {"idle", "lockWait", "lockRejected", "locked", "checking", "capWait",
        "capRejected", "capGranted", "running", "reading", "cancelling", "done"}

Elems(q) == {q[i] : i \in DOMAIN q}

\* Mutant: an aborted waiter stays queued.
KeepsAborted(q, c) == q

\* queue.splice(queue.indexOf(c), 1), if c is there
Without(q, c) ==
  IF c \in Elems(q)
  THEN LET k == CHOOSE i \in DOMAIN q : q[i] = c
       IN [i \in 1..(Len(q) - 1) |-> IF i < k THEN q[i] ELSE q[i + 1]]
  ELSE q

-----------------------------------------------------------------------------
Init ==
  /\ pc = [c \in Calls |-> "idle"]
  /\ sess = [c \in Calls |-> None]
  /\ prio = [s \in Sends |-> "normal"]
  /\ tid = [s \in Sends |-> None]
  /\ history = [s \in Sends |-> <<>>]
  /\ seen = [c \in Calls |-> None]
  /\ signal = [s \in Sends |-> FALSE]
  /\ controller = [s \in Sends |-> FALSE]
  /\ locked = [x \in Sessions |-> FALSE]
  /\ lockQueue = [x \in Sessions |-> <<>>]
  /\ active = 0
  /\ capQueue = [p \in Priorities |-> <<>>]
  /\ admittedTurns = 0
  /\ activeTurns = [x \in Sessions |-> None]
  /\ shuttingDown = FALSE
  /\ status = [x \in Sessions |-> "ready"]
  /\ turns = [t \in TurnIds |-> "none"]
  /\ messages = [x \in Sessions |-> <<>>]
  /\ crashes = 0

-----------------------------------------------------------------------------
\* Mutant: acquire does not look at the lock.
AcquireUnchecked(c, x) ==
  /\ pc' = [pc EXCEPT ![c] = "locked"]
  /\ locked' = [locked EXCEPT ![x] = TRUE]
  /\ UNCHANGED lockQueue

(* Mutex.acquire: a free lock is taken at once, else the call queues.      *)
Acquire(c, x) ==
  IF locked[x]
  THEN /\ pc' = [pc EXCEPT ![c] = "lockWait"]
       /\ lockQueue' = [lockQueue EXCEPT ![x] = Append(@, c)]
       /\ UNCHANGED locked
  ELSE /\ pc' = [pc EXCEPT ![c] = "locked"]
       /\ locked' = [locked EXCEPT ![x] = TRUE]
       /\ UNCHANGED lockQueue

(* Mutex.release hands the lock to the first waiter.  An aborted waiter    *)
(* has left the queue already (QueuesExact), so the loop of the code that  *)
(* rejects aborted waiters at the head ends in its first round.            *)
\* Mutant: release shifts the waiter and forgets to grant it the lock.
NextOwnerForgotten(x) == None

NextOwner(x) == IF lockQueue[x] = <<>> THEN None ELSE Head(lockQueue[x])

Release(x) ==
  IF lockQueue[x] = <<>>
  THEN /\ locked' = [locked EXCEPT ![x] = FALSE]
       /\ UNCHANGED lockQueue
  ELSE /\ lockQueue' = [lockQueue EXCEPT ![x] = Tail(@)]
       /\ UNCHANGED locked

(* TurnScheduler: the queue sorted by priority and arrival is the          *)
(* concatenation of one FIFO per priority, interactive first.              *)
Queued == Len(capQueue["interactive"]) + Len(capQueue["normal"])

FirstPriority ==
  IF capQueue["interactive"] # <<>> THEN "interactive" ELSE "normal"

\* Mutant: drain shifts the waiter and forgets to resolve it.
NextTurnForgotten == None

NextTurn == IF Queued = 0 THEN None ELSE Head(capQueue[FirstPriority])

\* Mutant: drain hands the slot over without counting it.
ReleaseSlotUncounted ==
  /\ active' = active - 1
  /\ capQueue' = IF Queued = 0 THEN capQueue
                 ELSE [capQueue EXCEPT ![FirstPriority] = Tail(@)]

(* releaseHandle and drain: the freed slot goes to the first waiter.       *)
ReleaseSlot ==
  IF Queued = 0
  THEN active' = active - 1 /\ UNCHANGED capQueue
  ELSE /\ capQueue' = [capQueue EXCEPT ![FirstPriority] = Tail(@)]
       /\ UNCHANGED active

\* Mutant: the finally block compares turn ids the wrong way round.
OwnsOther(s, act) ==
  tid[s] = None \/ (act[sess[s]] # None /\ tid[act[sess[s]]] # tid[s])

(* The finally block drops the registration of its own turn, and any       *)
(* registration when the send never got a turn id.                         *)
Owns(s, act) ==
  tid[s] = None \/ (act[sess[s]] # None /\ tid[act[sess[s]]] = tid[s])

\* Mutant: the status is reset without a look at it.
AfterTurnBlind(v) == "ready"

AfterTurn(v) == IF v = "busy" THEN "ready" ELSE v

(* The finally block of send(), entered with the locks that s holds and    *)
(* the turn registrations act and statuses st of that moment.  It forgets  *)
(* the call's local variables.                                             *)
Finally(s, holdsLock, holdsSlot, act, st) ==
  LET x == sess[s]
      slotTo == IF holdsSlot THEN NextTurn ELSE None
      lockTo == IF holdsLock THEN NextOwner(x) ELSE None
  IN /\ activeTurns' = IF Owns(s, act) THEN [act EXCEPT ![x] = None] ELSE act
     /\ status' = [st EXCEPT ![x] = AfterTurn(@)]
     /\ IF holdsSlot THEN ReleaseSlot ELSE UNCHANGED capVars
     /\ IF holdsLock THEN Release(x) ELSE UNCHANGED lockVars
     /\ admittedTurns' = admittedTurns - 1
     /\ pc' = [c \in Calls |-> CASE c = s -> "done"
                                 [] c = slotTo -> "capGranted"
                                 [] c = lockTo -> "locked"
                                 [] OTHER -> pc[c]]
     /\ sess' = [sess EXCEPT ![s] = None]
     /\ tid' = [tid EXCEPT ![s] = None]
     /\ history' = [history EXCEPT ![s] = <<>>]
     /\ seen' = [seen EXCEPT ![s] = None]
     /\ controller' = [controller EXCEPT ![s] = FALSE]
     /\ UNCHANGED <<prio, signal, shuttingDown, crashes>>

-----------------------------------------------------------------------------
\* Mutant: one admission too many.
AtCapacityLate == admittedTurns > MaxActive + MaxQueued

AtCapacity == admittedTurns >= MaxActive + MaxQueued

(* send() is refused before admission: aborted, draining or at capacity.   *)
SendRefused(s) ==
  /\ pc[s] = "idle"
  /\ signal[s] \/ shuttingDown \/ AtCapacity
  /\ pc' = [pc EXCEPT ![s] = "done"]
  /\ UNCHANGED <<sess, prio, tid, history, seen, signal, controller, lockVars,
                 capVars, admittedTurns, activeTurns, shuttingDown, dbVars,
                 crashes>>

(* send() up to the await of the session lock.  It resolves the session for *)
(* its id alone; what is tested before that await is tested again after it, *)
(* and a signal that fires in it fails the wait for the lock like one that  *)
(* fires right after.                                                       *)
SendBegin(s, x, p) ==
  /\ pc[s] = "idle"
  /\ ~signal[s]
  /\ ~shuttingDown
  /\ ~AtCapacity
  /\ admittedTurns' = admittedTurns + 1
  /\ sess' = [sess EXCEPT ![s] = x]
  /\ prio' = [prio EXCEPT ![s] = p]
  /\ Acquire(s, x)
  /\ UNCHANGED <<tid, history, seen, signal, controller, capVars, activeTurns,
                 shuttingDown, dbVars, crashes>>

(* The lock is granted to a send that is aborted, or the bridge drains.    *)
SendLockedThrows(s) ==
  /\ pc[s] = "locked"
  /\ signal[s] \/ shuttingDown
  /\ Finally(s, TRUE, FALSE, activeTurns, status)
  /\ UNCHANGED <<turns, messages>>

(* The lock is granted: resolveSession reads the status once more.         *)
SendReads(s) ==
  /\ pc[s] = "locked"
  /\ ~signal[s] /\ ~shuttingDown
  /\ seen' = [seen EXCEPT ![s] = status[sess[s]]]
  /\ pc' = [pc EXCEPT ![s] = "checking"]
  /\ UNCHANGED <<sess, prio, tid, history, signal, controller, lockVars,
                 capVars, admittedTurns, activeTurns, shuttingDown, dbVars,
                 crashes>>

\* Mutant: a session that is closed or closing is not refused.
AdmissibleAlways(s) == TRUE

(* The test, after the await, of the status that was read before it.       *)
Admissible(s) == seen[s] \notin {"closed", "closing"}

(* The session is closed, the content invalid or the provider unknown:     *)
(* turnId is still undefined.                                              *)
SendCheckThrows(s) ==
  /\ pc[s] = "checking"
  /\ Finally(s, TRUE, FALSE, activeTurns, status)
  /\ UNCHANGED <<turns, messages>>

(* Read the transcript, name the turn and ask for a slot: the scheduler    *)
(* rejects an aborted send and one that finds its queue full, grants a     *)
(* free slot, or queues the send.                                          *)
SendAsks(s, t) ==
  /\ pc[s] = "checking"
  /\ Admissible(s)
  /\ history' = [history EXCEPT ![s] = messages[sess[s]]]
  /\ tid' = [tid EXCEPT ![s] = t]
  /\ seen' = [seen EXCEPT ![s] = None]
  /\ \/ /\ signal[s] \/ (active >= MaxActive /\ Queued >= MaxQueued)
        /\ pc' = [pc EXCEPT ![s] = "capRejected"]
        /\ UNCHANGED capVars
     \/ /\ ~signal[s] /\ active < MaxActive
        /\ active' = active + 1
        /\ pc' = [pc EXCEPT ![s] = "capGranted"]
        /\ UNCHANGED capQueue
     \/ /\ ~signal[s] /\ active >= MaxActive /\ Queued < MaxQueued
        /\ capQueue' = [capQueue EXCEPT ![prio[s]] = Append(@, s)]
        /\ pc' = [pc EXCEPT ![s] = "capWait"]
        /\ UNCHANGED active
  /\ UNCHANGED <<sess, prio, signal, controller, lockVars, admittedTurns,
                 activeTurns, shuttingDown, dbVars, crashes>>

(* The slot is granted: register the turn, persist it, call the provider.  *)
SendStarts(s) ==
  LET x == sess[s] IN
  /\ pc[s] = "capGranted"
  /\ ~shuttingDown
  /\ turns[tid[s]] = "none"
  /\ activeTurns' = [activeTurns EXCEPT ![x] = s]
  /\ turns' = [turns EXCEPT ![tid[s]] = "running"]
  /\ status' = [status EXCEPT ![x] = "busy"]
  /\ pc' = [pc EXCEPT ![s] = "running"]
  /\ UNCHANGED <<sess, prio, tid, history, seen, signal, controller, lockVars,
                 capVars, admittedTurns, shuttingDown, messages, crashes>>

(* The slot is granted but the bridge is draining, or the turn id is taken *)
(* (turnStore.create throws after the turn was registered).                *)
SendStartThrows(s) ==
  /\ pc[s] = "capGranted"
  /\ \/ /\ shuttingDown
        /\ Finally(s, TRUE, TRUE, activeTurns, status)
     \/ /\ ~shuttingDown
        /\ turns[tid[s]] # "none"
        /\ Finally(s, TRUE, TRUE, [activeTurns EXCEPT ![sess[s]] = s], status)
  /\ UNCHANGED <<turns, messages>>

(* provider.runTurn returns a result or throws; the turn is settled, a     *)
(* completed turn's messages are stored, and the finally block runs.  A    *)
(* thrown error of an aborted controller settles the turn as cancelled.    *)
TurnSettles(s, outcome) ==
  /\ pc[s] = "running"
  /\ turns' = [turns EXCEPT ![tid[s]] = outcome]
  /\ messages' = IF outcome = "completed"
                 THEN [messages EXCEPT ![sess[s]] = Append(@, tid[s])]
                 ELSE messages
  /\ Finally(s, TRUE, TRUE, activeTurns, status)

(* A waiter whose signal fired resumes with the rejection.                 *)
SendLockRejected(s) ==
  /\ pc[s] = "lockRejected"
  /\ Finally(s, FALSE, FALSE, activeTurns, status)
  /\ UNCHANGED <<turns, messages>>

SendCapRejected(s) ==
  /\ pc[s] = "capRejected"
  /\ Finally(s, TRUE, FALSE, activeTurns, status)
  /\ UNCHANGED <<turns, messages>>

-----------------------------------------------------------------------------
(* The client's signal fires.  A waiter's listener removes it from the     *)
(* queue and rejects it; a running turn's listener aborts its controller.  *)
(* No listener is there between a grant and the continuation it resumes.   *)
ClientAborts(s) ==
  /\ pc[s] # "done"
  /\ ~signal[s]
  /\ signal' = [signal EXCEPT ![s] = TRUE]
  /\ pc' = [pc EXCEPT ![s] = CASE @ = "lockWait" -> "lockRejected"
                               [] @ = "capWait" -> "capRejected"
                               [] OTHER -> @]
  /\ lockQueue' = [x \in Sessions |-> Without(lockQueue[x], s)]
  /\ capQueue' = [p \in Priorities |-> Without(capQueue[p], s)]
  /\ controller' = [controller EXCEPT ![s] = @ \/ pc[s] = "running"]
  /\ UNCHANGED <<sess, prio, tid, history, seen, locked, active, admittedTurns,
                 activeTurns, shuttingDown, dbVars, crashes>>

(* cancel(session, "latest") of a session that has a registered turn.  Its  *)
(* test for a closed session looks at a status read before an await; a call *)
(* that read it before the close passes whenever it resumes, and any number *)
(* of calls may be on their way: the test restricts nothing.                *)
Cancel(x) ==
  /\ activeTurns[x] # None
  /\ controller' = [controller EXCEPT ![activeTurns[x]] = TRUE]
  /\ UNCHANGED <<pc, sess, prio, tid, history, seen, signal, lockVars, capVars,
                 admittedTurns, activeTurns, shuttingDown, dbVars, crashes>>

(* close() resolves the session; its continuation has the status of now.   *)
CloseReads(c, x) ==
  /\ pc[c] = "idle"
  /\ pc' = [pc EXCEPT ![c] = "reading"]
  /\ sess' = [sess EXCEPT ![c] = x]
  /\ seen' = [seen EXCEPT ![c] = status[x]]
  /\ UNCHANGED <<prio, tid, history, signal, controller, lockVars, capVars,
                 admittedTurns, activeTurns, shuttingDown, dbVars, crashes>>

StillOpen(c) == seen[c] # "closed"

(* A session that was not closed when it was read is marked, whatever its  *)
(* status is by now; close() aborts its turn and waits for the provider's  *)
(* cancelTurn, or else goes for the lock.                                  *)
CloseBegin(c) ==
  LET x == sess[c] IN
  /\ pc[c] = "reading"
  /\ StillOpen(c)
  /\ seen' = [seen EXCEPT ![c] = None]
  /\ status' = [status EXCEPT ![x] = "closing"]
  /\ IF activeTurns[x] # None /\ ~controller[activeTurns[x]]
     THEN /\ controller' = [controller EXCEPT ![activeTurns[x]] = TRUE]
          /\ pc' = [pc EXCEPT ![c] = "cancelling"]
          /\ UNCHANGED lockVars
     ELSE Acquire(c, x) /\ UNCHANGED controller
  /\ UNCHANGED <<sess, prio, tid, history, signal, capVars, admittedTurns,
                 activeTurns, shuttingDown, turns, messages, crashes>>

(* close() of a session that was closed when it was read.                  *)
CloseReturns(c) ==
  /\ pc[c] = "reading"
  /\ ~StillOpen(c)
  /\ pc' = [pc EXCEPT ![c] = "done"]
  /\ sess' = [sess EXCEPT ![c] = None]
  /\ seen' = [seen EXCEPT ![c] = None]
  /\ UNCHANGED <<prio, tid, history, signal, controller, lockVars, capVars,
                 admittedTurns, activeTurns, shuttingDown, dbVars, crashes>>

CloseCancelled(c) ==
  /\ pc[c] = "cancelling"
  /\ Acquire(c, sess[c])
  /\ UNCHANGED <<sess, prio, tid, history, seen, signal, controller, capVars,
                 admittedTurns, activeTurns, shuttingDown, dbVars, crashes>>

CloseUnlocks(c) ==
  LET x == sess[c] IN
  /\ Release(x)
  /\ pc' = [d \in Calls |-> CASE d = c -> "done"
                              [] d = NextOwner(x) -> "locked"
                              [] OTHER -> pc[d]]
  /\ sess' = [sess EXCEPT ![c] = None]

(* The lock is granted and provider.closeSession settles: the session is   *)
(* closed, or the error leaves it closing.                                 *)
CloseFinishes(c) ==
  /\ pc[c] = "locked"
  /\ \/ /\ status' = [status EXCEPT ![sess[c]] = "closed"]
        /\ activeTurns' = [activeTurns EXCEPT ![sess[c]] = None]
     \/ UNCHANGED <<status, activeTurns>>
  /\ CloseUnlocks(c)
  /\ UNCHANGED <<prio, tid, history, seen, signal, controller, capVars,
                 admittedTurns, shuttingDown, turns, messages, crashes>>

(* shutdown() refuses new turns and aborts every registered one; it then   *)
(* polls admittedTurns.                                                    *)
Shutdown ==
  /\ ~shuttingDown
  /\ shuttingDown' = TRUE
  /\ controller' = [s \in Sends |-> controller[s] \/ s \in Elems(activeTurns)]
  /\ UNCHANGED <<pc, sess, prio, tid, history, seen, signal, lockVars, capVars,
                 admittedTurns, activeTurns, dbVars, crashes>>

\* Mutant: the recovery fails settled turns as well.
RecoveredAll(t) == IF turns[t] = "none" THEN "none" ELSE "failed"

\* Mutant: the recovery is skipped.
RecoveredNot(t) == turns[t]

(* recoverInterruptedTurns: markInterruptedTurnsFailed                     *)
Recovered(t) == IF turns[t] = "running" THEN "failed" ELSE turns[t]

(* The process dies and starts again: every call is lost, the database is  *)
(* kept, and recoverInterruptedTurns fails the turns left running.         *)
Restart ==
  /\ crashes < MaxCrashes
  /\ crashes' = crashes + 1
  /\ pc' = [c \in Calls |-> IF pc[c] = "idle" THEN "idle" ELSE "done"]
  /\ sess' = [c \in Calls |-> None]
  /\ prio' = [s \in Sends |-> "normal"]
  /\ tid' = [s \in Sends |-> None]
  /\ history' = [s \in Sends |-> <<>>]
  /\ seen' = [c \in Calls |-> None]
  /\ signal' = [s \in Sends |-> FALSE]
  /\ controller' = [s \in Sends |-> FALSE]
  /\ locked' = [x \in Sessions |-> FALSE]
  /\ lockQueue' = [x \in Sessions |-> <<>>]
  /\ active' = 0
  /\ capQueue' = [p \in Priorities |-> <<>>]
  /\ admittedTurns' = 0
  /\ activeTurns' = [x \in Sessions |-> None]
  /\ shuttingDown' = FALSE
  /\ turns' = [t \in TurnIds |-> Recovered(t)]
  /\ UNCHANGED <<status, messages>>

-----------------------------------------------------------------------------
Outcomes == {"completed", "failed", "cancelled"}

(* The steps the event loop takes on its own once a call is resumed.       *)
SendStep(s) ==
  \/ SendLockedThrows(s)
  \/ SendReads(s)
  \/ SendCheckThrows(s)
  \/ \E t \in TurnIds : SendAsks(s, t)
  \/ SendStarts(s)
  \/ SendStartThrows(s)
  \/ \E o \in Outcomes : TurnSettles(s, o)
  \/ SendLockRejected(s)
  \/ SendCapRejected(s)

CloseStep(c) == CloseBegin(c) \/ CloseReturns(c) \/ CloseCancelled(c) \/ CloseFinishes(c)

(* Every call has returned: nothing is left to do.                         *)
Quiet == (\A c \in Calls : pc[c] = "done") /\ UNCHANGED vars

Next ==
  \/ \E s \in Sends : \/ SendRefused(s)
                      \/ \E x \in Sessions, p \in Priorities : SendBegin(s, x, p)
                      \/ SendStep(s)
                      \/ ClientAborts(s)
  \/ \E c \in Closers : \/ \E x \in Sessions : CloseReads(c, x)
                        \/ CloseStep(c)
  \/ \E x \in Sessions : Cancel(x)
  \/ Shutdown
  \/ Restart
  \/ Quiet

Spec == Init /\ [][Next]_vars

(* Fairness: the event loop resumes every settled promise, a provider      *)
(* settles every turn, cancellation and close it was asked for (each has a  *)
(* timeout of its own).  Nobody is obliged to call, abort or cancel.       *)
Fairness ==
  /\ \A s \in Sends : WF_vars(SendStep(s))
  /\ \A c \in Closers : WF_vars(CloseStep(c))

FairSpec == Spec /\ Fairness
-----------------------------------------------------------------------------
HoldsLock(c) == pc[c] \in {"locked", "checking", "capWait", "capRejected", "capGranted",
                           "running"}
HoldsSlot(s) == pc[s] \in {"capGranted", "running"}
Admitted(s)  == pc[s] \notin {"idle", "done"}
Waiting(c)   == pc[c] = "lockWait"

TypeOK ==
  /\ pc \in [Calls -> PCs]
  /\ sess \in [Calls -> Sessions \cup {None}]
  /\ prio \in [Sends -> Priorities]
  /\ tid \in [Sends -> TurnIds \cup {None}]
  /\ history \in [Sends -> Seq(TurnIds)]
  /\ seen \in [Calls -> SessionStatus \cup {None}]
  /\ signal \in [Sends -> BOOLEAN]
  /\ controller \in [Sends -> BOOLEAN]
  /\ locked \in [Sessions -> BOOLEAN]
  /\ lockQueue \in [Sessions -> Seq(Calls)]
  /\ active \in 0..MaxActive
  /\ capQueue \in [Priorities -> Seq(Sends)]
  /\ admittedTurns \in Nat
  /\ activeTurns \in [Sessions -> Sends \cup {None}]
  /\ shuttingDown \in BOOLEAN
  /\ status \in [Sessions -> SessionStatus]
  /\ turns \in [TurnIds -> TurnStatus]
  /\ messages \in [Sessions -> Seq(TurnIds)]
  /\ crashes \in 0..MaxCrashes

(* One call at a time owns a session, and it does as long as its Mutex is  *)
(* locked: whatever waiters are aborted, turns fail or closes interleave,  *)
(* the lock is neither shared nor leaked (docs/development.md:36, "one-    *)
(* active-turn-per-session serialization").                                *)
SerialSessions ==
  \A x \in Sessions :
    LET owners == {c \in Calls : HoldsLock(c) /\ sess[c] = x}
    IN Cardinality(owners) = IF locked[x] THEN 1 ELSE 0

(* TurnScheduler.active counts exactly the calls that hold a slot: no slot *)
(* is leaked by an abort, an error or a refused start, none is given twice.*)
SlotsExact == active = Cardinality({s \in Sends : HoldsSlot(s)})

(* The queues are exact.  A waiter is there once, still waits for it, and  *)
(* is alive: an aborted waiter never reaches the head, so a lock or a slot *)
(* is never handed to a call that will not take it.  And no wakeup is lost:*)
(* a call that waits is in the queue of a lock that is held, or of a       *)
(* scheduler whose slots are all taken.  And they never overflow:          *)
(* admittedTurns counts the sends in flight, so a send that got past the   *)
(* admission check never meets a full scheduler queue; local_queue_full    *)
(* comes from admitTurn or not at all, never after the wait for the lock.  *)
QueuesExact ==
  /\ \A x \in Sessions : \A i \in DOMAIN lockQueue[x] :
       LET c == lockQueue[x][i]
       IN /\ Waiting(c) /\ sess[c] = x
          /\ c \in Sends => ~signal[c]
          /\ \A j \in DOMAIN lockQueue[x] : lockQueue[x][j] = c => j = i
  /\ \A p \in Priorities : \A i \in DOMAIN capQueue[p] :
       LET s == capQueue[p][i]
       IN /\ pc[s] = "capWait" /\ prio[s] = p /\ ~signal[s]
          /\ \A j \in DOMAIN capQueue[p] : capQueue[p][j] = s => j = i
  /\ \A c \in Calls : Waiting(c) =>
       locked[sess[c]] /\ c \in Elems(lockQueue[sess[c]])
  /\ \A s \in Sends : pc[s] = "capWait" =>
       active = MaxActive /\ s \in Elems(capQueue[prio[s]])
  /\ admittedTurns = Cardinality({s \in Sends : Admitted(s)})
  /\ admittedTurns <= MaxActive + MaxQueued
  /\ \A s \in Sends : pc[s] = "checking" => active < MaxActive \/ Queued < MaxQueued

(* Memory and store agree.  A turn is stored as running exactly as long as *)
(* a send runs it, in particular after a restart; and a registered turn    *)
(* runs, in that session: cancel() and close() never abort the turn of     *)
(* another session or of a later send.                                     *)
MemoryMatchesStore ==
  /\ \A t \in TurnIds : turns[t] = "running" <=>
       \E s \in Sends : pc[s] = "running" /\ tid[s] = t
  /\ \A x \in Sessions : activeTurns[x] # None =>
       pc[activeTurns[x]] = "running" /\ sess[activeTurns[x]] = x

\* A send that holds the lock and has been let into its session.
LetIn(s) ==
  \/ pc[s] \in {"capWait", "capGranted", "running"}
  \/ pc[s] = "checking" /\ Admissible(s)

\* No turn runs in x, and none can start.
Retired(x) ==
  /\ status[x] \in {"closing", "closed"}
  /\ \A s \in Sends : LetIn(s) => sess[s] # x

(* A session that was closed is closed for good.  Its status alone does not *)
(* show it: a second close() writes "closing" over "closed" when it had     *)
(* read the status before, and leaves it so when the provider's error ends  *)
(* it; and a session that is only closing becomes ready again when a send   *)
(* that was let in before ends its turn.  But once it was closed no turn    *)
(* runs or starts in it, its transcript stays, and it is never ready.       *)
ClosedIsFinal ==
  [][\A x \in Sessions : status[x] = "closed" \/ Retired(x) =>
       Retired(x)' /\ messages'[x] = messages[x]]_vars

(* A settled turn keeps its outcome: a retried request id, a late abort, a *)
(* restart never change it.                                                *)
TurnOutcomesFinal ==
  [][\A t \in TurnIds : turns[t] \in Outcomes => turns'[t] = turns[t]]_vars

(* Every call that started returns, whatever is aborted meanwhile; and a   *)
(* shutdown drains: shutdown() polls admittedTurns, and none stays admitted.*)
CallsReturn ==
  /\ \A c \in Calls : (pc[c] # "idle") ~> (pc[c] = "done")
  /\ shuttingDown ~> (admittedTurns = 0)

(* docs/API.md:66-68: cancelling a session cancels its active turn, so a   *)
(* running turn must be registered.                                        *)
RunningTurnCancellable ==
  \A s \in Sends : pc[s] = "running" => activeTurns[sess[s]] = s

(* The promise to the clients, SerialTurns: a turn runs while its provider *)
(* does, from the transcript its send read before it waited for a slot.    *)
AbsTurn == [s \in Sends |->
  IF pc[s] = "running"
  THEN [session |-> sess[s], id |-> tid[s], base |-> history[s]]
  ELSE None]

Serial == INSTANCE SerialTurns WITH turn <- AbsTurn, transcript <- messages

(* Every step of the session manager is a step of SerialTurns or leaves    *)
(* turns and transcripts alone.                                            *)
ImplementsSerialTurns == Serial!Spec
=============================================================================
