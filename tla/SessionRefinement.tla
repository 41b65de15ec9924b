-------------------------- MODULE SessionRefinement --------------------------
(***************************************************************************)
(* SessionManager implements SerialTurns, what it stores agrees with what  *)
(* it holds in memory, settled turns keep their outcome and no turn runs   *)
(* in a session once it was closed: for any number of calls, sessions,     *)
(* slots, queue places and request ids and any bound on restarts.  Locks   *)
(* and slots come from SessionManagerProofs; what is added here is that a  *)
(* send holds the transcript of its session until its turn ends (Fresh),   *)
(* that no request runs twice at a time (RunsOnce), and that a session is  *)
(* not closed while a send that was let into it holds its lock             *)
(* (OpenWhileHeld).                                                        *)
(***************************************************************************)
EXTENDS SessionManagerProofs

Places == {"capWait", "capGranted", "running"}

(* The transcript that a send has read is the stored one until it ends.    *)
Fresh == \A s \in Sends : pc[s] \in Places => history[s] = messages[sess[s]]

RInv == IInv /\ Fresh

(* What each step is shown to do.                                          *)
Step == [Serial!Next]_(Serial!vars) /\ Fresh'

-----------------------------------------------------------------------------
(* The instance counts as this module does.                                *)
LEMMA SameCardinality == \A S : Serial!Cardinality(S) = Cardinality(S)
BY DEF Serial!Cardinality, Cardinality

(* A step that begins and ends no turn, and stores none.                   *)
LEMMA Quietly ==
  ASSUME RInv, messages' = messages,
         \A r \in Sends :
           /\ pc'[r] = "running" <=> pc[r] = "running"
           /\ pc'[r] \in Places => /\ pc[r] \in Places /\ sess'[r] = sess[r]
                                   /\ tid'[r] = tid[r] /\ history'[r] = history[r]
  PROVE  Step
<1>1. Fresh'
  BY DEF RInv, Fresh, Places
<1>2. AbsTurn' = AbsTurn
  BY DEF AbsTurn, Places
<1> QED
  BY <1>1, <1>2 DEF Step, Serial!vars

(* The finally block: what it does to the other sends.                     *)
LEMMA FinallyOthers ==
  ASSUME IInv, NEW s \in Sends, NEW hl \in BOOLEAN, NEW hs \in BOOLEAN,
         hl <=> HoldsLock(s), hs <=> HoldsSlot(s),
         pc[s] \notin {"idle", "lockWait", "capWait", "done"},
         NEW act, NEW st, Finally(s, hl, hs, act, st)
  PROVE  /\ pc'[s] = "done"
         /\ \A r \in Sends \ {s} :
              /\ pc'[r] = "running" <=> pc[r] = "running"
              /\ pc'[r] \in Places => pc[r] \in Places
              /\ LetIn(r)' => LetIn(r)
              /\ sess'[r] = sess[r] /\ tid'[r] = tid[r] /\ history'[r] = history[r]
<1>1. Settles(s, hl, hs)
  BY DEF Finally, Settles
<1>2. /\ pc'[s] = "done"
      /\ hs /\ NextTurn # None => /\ pc'[NextTurn] = "capGranted"
                                  /\ pc[NextTurn] = "capWait"
      /\ hl /\ NextOwner(sess[s]) # None =>
           /\ pc'[NextOwner(sess[s])] = "locked"
           /\ pc[NextOwner(sess[s])] = "lockWait"
      /\ \A d \in Calls : d # s /\ ~(hs /\ d = NextTurn)
                          /\ ~(hl /\ d = NextOwner(sess[s])) => pc'[d] = pc[d]
  BY <1>1, SettlesKeepsCalls
<1>3. Sends \subseteq Calls /\ None \notin Calls
  BY CallsAssumption DEF Calls
<1>4. \A r \in Sends \ {s} :
        /\ pc'[r] = "running" <=> pc[r] = "running"
        /\ pc'[r] \in Places => pc[r] \in Places
        /\ pc'[r] = "checking" => pc[r] = "checking"
  BY <1>2, <1>3 DEF Places
<1>5. \A r \in Sends \ {s} :
        /\ sess'[r] = sess[r] /\ tid'[r] = tid[r] /\ history'[r] = history[r]
        /\ seen'[r] = seen[r]
  BY <1>3 DEF Finally, IInv, TypeOK
<1>6. \A r \in Sends \ {s} : LetIn(r)' => LetIn(r)
  BY <1>4, <1>5 DEF LetIn, Admissible, Places
<1> QED
  BY <1>2, <1>4, <1>5, <1>6

(* A send that leaves before its turn began.                               *)
LEMMA Leaves ==
  ASSUME RInv, NEW s \in Sends, NEW hl \in BOOLEAN, NEW hs \in BOOLEAN,
         hl <=> HoldsLock(s), hs <=> HoldsSlot(s),
         pc[s] \in {"lockRejected", "locked", "checking", "capRejected", "capGranted"},
         NEW act, NEW st, Finally(s, hl, hs, act, st), messages' = messages
  PROVE  Step
<1>1. /\ pc'[s] = "done"
      /\ \A r \in Sends \ {s} :
           /\ pc'[r] = "running" <=> pc[r] = "running"
           /\ pc'[r] \in Places => pc[r] \in Places
           /\ sess'[r] = sess[r] /\ tid'[r] = tid[r] /\ history'[r] = history[r]
  BY FinallyOthers DEF RInv
<1>2. \A r \in Sends :
        /\ pc'[r] = "running" <=> pc[r] = "running"
        /\ pc'[r] \in Places => /\ pc[r] \in Places /\ sess'[r] = sess[r]
                                /\ tid'[r] = tid[r] /\ history'[r] = history[r]
  BY <1>1 DEF Places
<1> QED
  BY <1>2, Quietly

(* A turn starts in an idle session, within the slots, from the transcript.*)
LEMMA Starts ==
  ASSUME RInv, NEW s \in Sends, SendStarts(s)
  PROVE  Step
<1> DEFINE x == sess[s]
           t == tid[s]
<1>1. /\ Sends \subseteq Calls /\ pc[s] = "capGranted" /\ messages' = messages
      /\ pc' = [pc EXCEPT ![s] = "running"]
      /\ sess' = sess /\ tid' = tid /\ history' = history
  BY DEF SendStarts, Calls
<1>2. /\ x \in Sessions /\ t \in TurnIds /\ history[s] = messages[x]
      /\ history \in [Sends -> Seq(TurnIds)] /\ pc \in [Calls -> PCs]
  BY <1>1 DEF RInv, IInv, TypeOK, CallShape, Fresh, Places
<1>3. Fresh'
  BY <1>1, <1>2 DEF RInv, Fresh, Places
<1>4. AbsTurn' = [AbsTurn EXCEPT ![s] = [session |-> x, id |-> t, base |-> messages[x]]]
  BY <1>1, <1>2 DEF AbsTurn
<1>5. AbsTurn[s] = None
  BY <1>1 DEF AbsTurn
<1>6. ASSUME NEW r \in Sends, AbsTurn[r] # None
      PROVE  pc[r] = "running" /\ AbsTurn[r].session = sess[r] /\ sess[r] # x
  <2>1. pc[r] = "running" /\ AbsTurn[r].session = sess[r]
    BY <1>6 DEF AbsTurn
  <2>2. HoldsLock(r) /\ HoldsLock(s) /\ r # s
    BY <1>1, <2>1 DEF HoldsLock
  <2> QED
    BY <1>1, <2>1, <2>2 DEF RInv, IInv, LockOwned
<1>7. Cardinality({r \in Sends : AbsTurn[r] # None}) < MaxActive
  <2> DEFINE R == {r \in Sends : AbsTurn[r] # None}
  <2>1. R \subseteq Holders \ {s} /\ s \in Holders
    BY <1>1, <1>5, <1>6 DEF Holders, HoldsSlot
  <2>2. /\ Cardinality(Holders \ {s}) = Cardinality(Holders) - 1
        /\ Cardinality(Holders) \in Nat \ {0} /\ IsFiniteSet(Holders \ {s})
    BY <2>1, HoldersFinite, CountOneLess, FS_Subset
  <2>3. Cardinality(R) <= Cardinality(Holders \ {s}) /\ Cardinality(R) \in Nat
    BY <2>1, <2>2, FS_Subset, FS_CardinalityType
  <2>4. Cardinality(Holders) <= MaxActive /\ MaxActive \in Nat
    BY CapacityAssumption DEF RInv, IInv, TypeOK, SlotsExact, Holders
  <2> QED
    BY <2>2, <2>3, <2>4
<1>8. Serial!Start(s, x, t)
  <2>1. ~Serial!Running(s)
    BY <1>5 DEF Serial!Running
  <2>2. \A r \in Sends : Serial!Running(r) => AbsTurn[r].session # x
    BY <1>6 DEF Serial!Running
  <2>3. Serial!Cardinality({r \in Sends : Serial!Running(r)}) < MaxActive
    <3>1. {r \in Sends : Serial!Running(r)} = {r \in Sends : AbsTurn[r] # None}
      BY DEF Serial!Running
    <3> QED
      BY <1>7, <3>1, SameCardinality
  <2> HIDE DEF x, t
  <2> QED
    BY <1>1, <1>4, <2>1, <2>2, <2>3 DEF Serial!Start
<1> QED
  BY <1>2, <1>3, <1>8 DEF Step, Serial!Next

(* A turn ends without a trace or extends what it was started from.        *)
LEMMA Ends ==
  ASSUME RInv, NEW s \in Sends, NEW o \in Outcomes, TurnSettles(s, o)
  PROVE  Step
<1>1. /\ Sends \subseteq Calls /\ pc[s] = "running" /\ HoldsLock(s) /\ HoldsSlot(s)
      /\ Finally(s, TRUE, TRUE, activeTurns, status)
  BY DEF TurnSettles, HoldsLock, HoldsSlot, Calls
<1>2. /\ pc'[s] = "done"
      /\ \A r \in Sends \ {s} :
           /\ pc'[r] = "running" <=> pc[r] = "running"
           /\ pc'[r] \in Places => pc[r] \in Places
           /\ sess'[r] = sess[r] /\ tid'[r] = tid[r] /\ history'[r] = history[r]
  BY <1>1, FinallyOthers DEF RInv
<1>3. /\ sess[s] \in Sessions /\ tid[s] \in TurnIds /\ history[s] = messages[sess[s]]
      /\ history \in [Sends -> Seq(TurnIds)] /\ messages \in [Sessions -> Seq(TurnIds)]
  BY <1>1 DEF RInv, IInv, TypeOK, CallShape, Fresh, Places
<1>4. \/ messages' = messages
      \/ messages' = [messages EXCEPT ![sess[s]] = Append(history[s], tid[s])]
  BY <1>3 DEF TurnSettles
<1>5. ASSUME NEW r \in Sends, pc'[r] \in Places
      PROVE  history'[r] = messages'[sess'[r]]
  <2>1. r # s /\ pc[r] \in Places /\ sess'[r] = sess[r] /\ history'[r] = history[r]
    BY <1>2, <1>5 DEF Places
  <2>2. HoldsLock(r)
    BY <2>1 DEF HoldsLock, Places
  <2>3. sess[r] # sess[s] /\ history[r] = messages[sess[r]]
    BY <1>1, <2>1, <2>2 DEF RInv, IInv, LockOwned, Fresh
  <2>4. sess[r] \in Sessions
    BY <1>1, <2>1 DEF RInv, IInv, CallShape, Places
  <2>5. messages'[sess[r]] = messages[sess[r]]
    BY <1>3, <1>4, <2>3, <2>4
  <2> QED
    BY <2>1, <2>3, <2>5
<1>6. /\ AbsTurn[s] = [session |-> sess[s], id |-> tid[s], base |-> history[s]]
      /\ AbsTurn[s] # None
  <2>1. AbsTurn[s] = [session |-> sess[s], id |-> tid[s], base |-> history[s]]
    BY <1>1 DEF AbsTurn
  <2>2. AbsTurn[s] \in [session : Sessions, id : TurnIds, base : Seq(TurnIds)]
    BY <1>3, <2>1
  <2> QED
    BY <2>1, <2>2, NoTurnAssumption
<1>7. AbsTurn' = [AbsTurn EXCEPT ![s] = None]
  <2>1. \A r \in Sends \ {s} : AbsTurn'[r] = AbsTurn[r]
    BY <1>2 DEF AbsTurn
  <2>2. AbsTurn'[s] = None
    BY <1>2 DEF AbsTurn
  <2> QED
    BY <2>1, <2>2 DEF AbsTurn
<1>8. Serial!End(s)
  <2>1. messages' = messages
        \/ messages' = [messages EXCEPT ![AbsTurn[s].session] =
                                          Append(AbsTurn[s].base, AbsTurn[s].id)]
    BY <1>4, <1>6
  <2> QED
    BY <1>6, <1>7, <2>1 DEF Serial!End, Serial!Running
<1> QED
  BY <1>5, <1>8 DEF Step, Serial!Next, Fresh

(* The steps of a send.                                                    *)
LEMMA SendSteps ==
  ASSUME RInv, NEW s \in Sends, SendStep(s)
  PROVE  Step
<1>0. Sends \subseteq Calls /\ pc \in [Calls -> PCs]
  BY DEF Calls, RInv, IInv, TypeOK
<1>1. CASE SendLockedThrows(s)
  BY <1>1, Leaves DEF SendLockedThrows, HoldsLock, HoldsSlot
<1>2. ASSUME NEW t \in TurnIds, SendAsks(s, t)
      PROVE  Step
  <2>1. /\ pc[s] = "checking" /\ messages' = messages /\ sess' = sess
        /\ history' = [history EXCEPT ![s] = messages[sess[s]]]
        /\ tid' = [tid EXCEPT ![s] = t]
        /\ \E v \in {"capGranted", "capWait", "capRejected"} : pc' = [pc EXCEPT ![s] = v]
    BY <1>2 DEF SendAsks, dbVars
  <2>2. \A r \in Sends \ {s} :
          pc'[r] = pc[r] /\ tid'[r] = tid[r] /\ history'[r] = history[r]
    BY <1>0, <2>1 DEF RInv, IInv, TypeOK
  <2>3. pc'[s] # "running" /\ history'[s] = messages[sess[s]]
    BY <1>0, <2>1 DEF RInv, IInv, TypeOK
  <2>4. Fresh'
    BY <2>1, <2>2, <2>3 DEF RInv, Fresh
  <2>5. AbsTurn' = AbsTurn
    BY <2>1, <2>2, <2>3 DEF AbsTurn
  <2> QED
    BY <2>1, <2>4, <2>5 DEF Step, Serial!vars
<1>3. CASE SendStarts(s)
  BY <1>3, Starts
<1>4. CASE SendStartThrows(s)
  BY <1>4, Leaves DEF SendStartThrows, HoldsLock, HoldsSlot
<1>5. ASSUME NEW o \in Outcomes, TurnSettles(s, o)
      PROVE  Step
  BY <1>5, Ends
<1>6. CASE SendLockRejected(s) \/ SendCapRejected(s)
  BY <1>6, Leaves DEF SendLockRejected, SendCapRejected, HoldsLock, HoldsSlot
<1>7. CASE SendReads(s)
  BY <1>0, <1>7, Quietly DEF SendReads, dbVars, Places
<1>8. CASE SendCheckThrows(s)
  BY <1>8, Leaves DEF SendCheckThrows, HoldsLock, HoldsSlot
<1> QED
  BY <1>1, <1>2, <1>3, <1>4, <1>5, <1>6, <1>7, <1>8 DEF SendStep

(* The steps of everybody else.                                            *)
LEMMA EveryStep == RInv /\ [Next]_vars => Step
<1> SUFFICES ASSUME RInv, [Next]_vars PROVE Step
  OBVIOUS
<1>0. /\ Sends \subseteq Calls /\ Closers \subseteq Calls /\ pc \in [Calls -> PCs]
      /\ Sends \cap Closers = {} /\ None \notin Calls
      /\ sess \in [Calls -> Sessions \cup {None}]
  BY CallsAssumption DEF Calls, RInv, IInv, TypeOK
<1>1. ASSUME NEW s \in Sends, SendRefused(s)
      PROVE  Step
  BY <1>0, <1>1, Quietly DEF SendRefused, dbVars, Places
<1>2. ASSUME NEW s \in Sends, NEW x \in Sessions, NEW p \in Priorities, SendBegin(s, x, p)
      PROVE  Step
  <2>1. /\ messages' = messages /\ tid' = tid /\ history' = history
        /\ pc[s] = "idle" /\ pc'[s] \in {"lockWait", "locked"}
        /\ \A r \in Sends \ {s} : pc'[r] = pc[r] /\ sess'[r] = sess[r]
    BY <1>0, <1>2 DEF SendBegin, Acquire, dbVars
  <2> QED
    BY <2>1, Quietly DEF Places
<1>3. ASSUME NEW s \in Sends, ClientAborts(s)
      PROVE  Step
  <2>1. /\ messages' = messages /\ tid' = tid /\ history' = history /\ sess' = sess
        /\ \A r \in Sends : \/ pc'[r] = pc[r]
                            \/ pc'[r] = "lockRejected" /\ pc[r] = "lockWait"
                            \/ pc'[r] = "capRejected" /\ pc[r] = "capWait"
    BY <1>0, <1>3 DEF ClientAborts, dbVars
  <2> QED
    BY <2>1, Quietly DEF Places
<1>4. ASSUME NEW c \in Closers,
             \/ CloseBegin(c) \/ CloseReturns(c)
             \/ \E x \in Sessions : CloseReads(c, x)
      PROVE  Step
  <2>1. /\ messages' = messages /\ tid' = tid /\ history' = history
        /\ \A r \in Sends : pc'[r] = pc[r] /\ sess'[r] = sess[r]
    BY <1>0, <1>4 DEF CloseBegin, CloseReturns, CloseReads, Acquire, dbVars
  <2> QED
    BY <2>1, Quietly
<1>5. ASSUME NEW c \in Closers, CloseStep(c)
      PROVE  Step
  <2>1. CASE CloseCancelled(c)
    <3>1. /\ messages' = messages /\ tid' = tid /\ history' = history
          /\ \A r \in Sends : pc'[r] = pc[r] /\ sess'[r] = sess[r]
      BY <1>0, <2>1 DEF CloseCancelled, Acquire, dbVars
    <3> QED
      BY <3>1, Quietly
  <2>2. CASE CloseFinishes(c)
    <3>1. /\ messages' = messages /\ tid' = tid /\ history' = history
          /\ \A r \in Sends : /\ \/ pc'[r] = pc[r]
                                 \/ pc'[r] = "locked" /\ r = NextOwner(sess[c])
                              /\ sess'[r] = sess[r]
      <4>1. /\ messages' = messages /\ tid' = tid /\ history' = history
            /\ sess' = [sess EXCEPT ![c] = None]
        BY <2>2 DEF CloseFinishes, CloseUnlocks
      <4>2. pc' = [d \in Calls |-> CASE d = c -> "done"
                                     [] d = NextOwner(sess[c]) -> "locked"
                                     [] OTHER -> pc[d]]
        BY <2>2 DEF CloseFinishes, CloseUnlocks
      <4>3. \A r \in Sends : r \in Calls /\ r # c
        BY <1>0
      <4>4. \A r \in Sends : \/ pc'[r] = pc[r]
                             \/ pc'[r] = "locked" /\ r = NextOwner(sess[c])
        BY <4>2, <4>3
      <4> QED
        BY <1>0, <4>1, <4>3, <4>4
    <3>2. ASSUME NEW r \in Sends, r = NextOwner(sess[c])
          PROVE  pc[r] = "lockWait"
      <4>1. sess[c] \in Sessions
        BY <1>0, <2>2 DEF CloseFinishes, RInv, IInv, CallShape
      <4>2. lockQueue[sess[c]] # <<>> /\ lockQueue[sess[c]] \in Seq(Calls)
        BY <1>0, <3>2, <4>1 DEF NextOwner, RInv, IInv, TypeOK
      <4>3. r = lockQueue[sess[c]][1] /\ 1 \in DOMAIN lockQueue[sess[c]]
        BY <3>2, <4>2, EmptySeq, HeadTailProperties DEF NextOwner
      <4> QED
        BY <4>1, <4>3 DEF RInv, IInv, LockQueueOK
    <3> QED
      BY <3>1, <3>2, Quietly DEF Places
  <2> QED
    BY <1>4, <1>5, <2>1, <2>2 DEF CloseStep
<1>6. ASSUME NEW x \in Sessions, Cancel(x)
      PROVE  Step
  BY <1>6, Quietly DEF Cancel, dbVars
<1>7. CASE Shutdown
  BY <1>7, Quietly DEF Shutdown, dbVars
<1>8. CASE Restart
  <2>1. /\ messages' = messages
        /\ \A r \in Sends : pc'[r] \in {"idle", "done"}
    BY <1>0, <1>8 DEF Restart
  <2>2. AbsTurn' = [s \in Sends |-> None]
    BY <2>1 DEF AbsTurn
  <2> QED
    BY <2>1, <2>2 DEF Step, Serial!Next, Serial!EndAll, Fresh, Places
<1>9. CASE UNCHANGED vars
  BY <1>9, Quietly DEF vars, callVars, dbVars
<1> QED
  BY <1>1, <1>2, <1>3, <1>4, <1>5, <1>6, <1>7, <1>8, <1>9, SendSteps DEF Next, Quiet

(* Whatever is aborted, cancelled, closed or restarted, the turns that run *)
(* and the transcripts that are stored behave as SerialTurns promises.     *)
THEOREM TurnsAreSerial == Spec => ImplementsSerialTurns
<1>1. Init => RInv /\ Serial!Init
  BY InitIInv DEF Init, RInv, Fresh, Places, Serial!Init, AbsTurn, Calls
<1>2. RInv /\ [Next]_vars => RInv' /\ [Serial!Next]_(Serial!vars)
  BY NextIInv, EveryStep DEF RInv, Step
<1> QED
  BY <1>1, <1>2, PTL DEF Spec, ImplementsSerialTurns, Serial!Spec

-----------------------------------------------------------------------------
(***************************************************************************)
(* The stored rows and the memory of the session manager.                  *)
(***************************************************************************)
(* A send that has been let into a session runs its turn before a close    *)
(* gets the lock: meanwhile the session is not closed.                     *)
OpenWhileHeld == \A s \in Sends : LetIn(s) => status[sess[s]] # "closed"

(* No request id runs twice at a time.                                     *)
RunsOnce ==
  \A r, s \in Sends : pc[r] = "running" /\ pc[s] = "running" /\ tid[r] = tid[s] => r = s

Stored == OpenWhileHeld /\ RunsOnce /\ MemoryMatchesStore

SInv == IInv /\ Stored

KeepsClosed ==
  \A x \in Sessions : status[x] = "closed" \/ Retired(x) =>
    Retired(x)' /\ messages'[x] = messages[x]

KeepsOutcomes == \A t \in TurnIds : turns[t] \in Outcomes => turns'[t] = turns[t]

(* What each step is shown to do.                                          *)
Sound == Stored' /\ KeepsClosed /\ KeepsOutcomes

-----------------------------------------------------------------------------
(* A closed session is retired, and it stays so in a step that lets nobody  *)
(* into a retired session, opens none and stores nothing in one.           *)
LEMMA ClosedIsRetired ==
  ASSUME SInv
  PROVE  \A x \in Sessions : status[x] = "closed" => Retired(x)
BY DEF SInv, Stored, OpenWhileHeld, Retired

LEMMA StaysRetired ==
  ASSUME SInv,
         \A x \in Sessions : Retired(x) =>
           status'[x] \in {"closing", "closed"} /\ messages'[x] = messages[x],
         \A r \in Sends : LetIn(r)' => LetIn(r) /\ sess'[r] = sess[r]
  PROVE  KeepsClosed
<1> SUFFICES ASSUME NEW x \in Sessions, Retired(x)
             PROVE  Retired(x)' /\ messages'[x] = messages[x]
  BY ClosedIsRetired DEF KeepsClosed
<1>1. \A r \in Sends : LetIn(r)' => sess'[r] # x
  BY DEF Retired
<1> QED
  BY <1>1 DEF Retired

(* A step that begins and ends no turn, stores none, lets nobody in and    *)
(* neither closes nor opens a session, though it may mark one as closing;  *)
(* it may drop registrations of turns that do not run.                     *)
LEMMA Calmly ==
  ASSUME SInv, messages' = messages, turns' = turns,
         \A x \in Sessions : \/ status'[x] = status[x] \/ status'[x] = "closing"
                             \/ status[x] = "busy" /\ status'[x] = "ready",
         \A x \in Sessions : activeTurns'[x] = activeTurns[x] \/ activeTurns'[x] = None,
         \A r \in Sends :
           /\ pc'[r] = "running" <=> pc[r] = "running"
           /\ pc'[r] = "running" => sess'[r] = sess[r] /\ tid'[r] = tid[r]
           /\ LetIn(r)' => LetIn(r) /\ sess'[r] = sess[r]
  PROVE  Sound
<1>1. /\ \A r \in Sends : LetIn(r) => sess[r] \in Sessions
      /\ \A x \in Sessions : activeTurns[x] \in Sends \cup {None}
  BY DEF SInv, IInv, CallShape, TypeOK, LetIn, Calls
<1>2. OpenWhileHeld'
  BY <1>1 DEF SInv, Stored, OpenWhileHeld
<1>3. RunsOnce'
  BY <1>1 DEF SInv, Stored, RunsOnce
<1>4. MemoryMatchesStore'
  <2>1. \A t \in TurnIds : turns'[t] = "running" <=>
          \E s \in Sends : pc'[s] = "running" /\ tid'[s] = t
    BY <1>1 DEF SInv, Stored, MemoryMatchesStore
  <2>2. \A x \in Sessions : activeTurns'[x] # None =>
          pc'[activeTurns'[x]] = "running" /\ sess'[activeTurns'[x]] = x
    BY <1>1 DEF SInv, Stored, MemoryMatchesStore
  <2> QED
    BY <2>1, <2>2 DEF MemoryMatchesStore
<1>5. KeepsClosed
  <2>1. \A x \in Sessions : Retired(x) =>
          status'[x] \in {"closing", "closed"} /\ messages'[x] = messages[x]
    BY DEF Retired
  <2> QED
    BY <2>1, StaysRetired
<1> QED
  BY <1>2, <1>3, <1>4, <1>5 DEF Sound, Stored, KeepsOutcomes

(* Sends that stay where they are, with what they have read, or that leave *)
(* for where nobody has been let in.                                       *)
LEMMA NobodyLetIn ==
  ASSUME NEW r, seen'[r] = seen[r], sess'[r] = sess[r],
         \/ pc'[r] = pc[r]
         \/ pc'[r] \notin {"checking", "capWait", "capGranted", "running"}
  PROVE  LetIn(r)' => LetIn(r) /\ sess'[r] = sess[r]
BY DEF LetIn, Admissible

(* A send that leaves before its turn began.  The registrations are those  *)
(* of the moment, or its own was added to them.                            *)
LEMMA LeavesSound ==
  ASSUME SInv, NEW s \in Sends, NEW hl \in BOOLEAN, NEW hs \in BOOLEAN,
         hl <=> HoldsLock(s), hs <=> HoldsSlot(s),
         pc[s] \in {"lockRejected", "locked", "checking", "capRejected", "capGranted"},
         NEW act, Finally(s, hl, hs, act, status),
         messages' = messages, turns' = turns,
         \/ act = activeTurns
         \/ act = [activeTurns EXCEPT ![sess[s]] = s]
  PROVE  Sound
<1>1. /\ pc'[s] = "done"
      /\ \A r \in Sends \ {s} :
           /\ pc'[r] = "running" <=> pc[r] = "running"
           /\ LetIn(r)' => LetIn(r)
           /\ sess'[r] = sess[r] /\ tid'[r] = tid[r]
  BY FinallyOthers DEF SInv
<1>2. /\ sess[s] \in Sessions /\ status \in [Sessions -> SessionStatus]
      /\ activeTurns \in [Sessions -> Sends \cup {None}] /\ None \notin Sends
  BY CallsAssumption DEF SInv, IInv, CallShape, TypeOK, Calls
<1>3. \A x \in Sessions : \/ status'[x] = status[x]
                          \/ status[x] = "busy" /\ status'[x] = "ready"
  BY <1>2 DEF Finally, AfterTurn
<1>4. \A x \in Sessions : activeTurns'[x] = activeTurns[x] \/ activeTurns'[x] = None
  BY <1>2 DEF Finally, Owns
<1>5. \A r \in Sends :
        /\ pc'[r] = "running" <=> pc[r] = "running"
        /\ pc'[r] = "running" => sess'[r] = sess[r] /\ tid'[r] = tid[r]
        /\ LetIn(r)' => LetIn(r) /\ sess'[r] = sess[r]
  BY <1>1 DEF LetIn
<1> QED
  BY <1>3, <1>4, <1>5, Calmly

(* A turn starts: its id was free, and its session is open.                *)
LEMMA StartsSound ==
  ASSUME SInv, NEW s \in Sends, SendStarts(s)
  PROVE  Sound
<1>1. /\ Sends \subseteq Calls /\ pc[s] = "capGranted" /\ messages' = messages
      /\ pc' = [pc EXCEPT ![s] = "running"] /\ sess' = sess /\ tid' = tid /\ seen' = seen
      /\ status' = [status EXCEPT ![sess[s]] = "busy"]
      /\ turns[tid[s]] = "none" /\ turns' = [turns EXCEPT ![tid[s]] = "running"]
      /\ activeTurns' = [activeTurns EXCEPT ![sess[s]] = s]
  BY DEF SendStarts, Calls
<1>2. /\ sess[s] \in Sessions /\ tid[s] \in TurnIds /\ pc \in [Calls -> PCs]
      /\ status \in [Sessions -> SessionStatus] /\ turns \in [TurnIds -> TurnStatus]
      /\ activeTurns \in [Sessions -> Sends \cup {None}]
  BY <1>1 DEF SInv, IInv, CallShape, TypeOK
<1>3. /\ pc'[s] = "running"
      /\ \A r \in Sends \ {s} : pc'[r] = pc[r]
  BY <1>1, <1>2
<1>4. \A r \in Sends : pc[r] = "running" => tid[r] # tid[s]
  BY <1>1, <1>2 DEF SInv, Stored, MemoryMatchesStore
<1>10. \A r \in Sends : LetIn(r)' => LetIn(r) /\ sess'[r] = sess[r]
  BY <1>1, <1>3 DEF LetIn, Admissible
<1>5. OpenWhileHeld'
  <2> SUFFICES ASSUME NEW r \in Sends, LetIn(r)'
               PROVE  status'[sess[r]] # "closed"
    BY <1>1 DEF OpenWhileHeld
  <2>1. LetIn(r)
    BY <1>10
  <2>2. sess[r] \in Sessions /\ status[sess[r]] # "closed"
    BY <1>1, <2>1 DEF SInv, IInv, CallShape, Stored, OpenWhileHeld, LetIn
  <2> QED
    BY <1>1, <1>2, <2>2
<1>6. RunsOnce'
  BY <1>1, <1>3, <1>4 DEF SInv, Stored, RunsOnce
<1>7. MemoryMatchesStore'
  <2>1. ASSUME NEW t \in TurnIds
        PROVE  turns'[t] = "running" <=> \E r \in Sends : pc'[r] = "running" /\ tid'[r] = t
    <3>1. CASE t = tid[s]
      BY <1>1, <1>2, <1>3, <3>1
    <3>2. CASE t # tid[s]
      <4>1. turns'[t] = turns[t]
        BY <1>1, <1>2, <3>2
      <4>2. \A r \in Sends : pc'[r] = "running" /\ tid'[r] = t <=>
                             pc[r] = "running" /\ tid[r] = t
        BY <1>1, <1>3, <3>2
      <4> QED
        BY <4>1, <4>2 DEF SInv, Stored, MemoryMatchesStore
    <3> QED
      BY <3>1, <3>2
  <2>2. ASSUME NEW x \in Sessions, activeTurns'[x] # None
        PROVE  pc'[activeTurns'[x]] = "running" /\ sess'[activeTurns'[x]] = x
    <3>1. CASE x = sess[s]
      BY <1>1, <1>2, <1>3, <3>1
    <3>2. CASE x # sess[s]
      <4>1. activeTurns'[x] = activeTurns[x] /\ activeTurns[x] \in Sends
        BY <1>1, <1>2, <2>2, <3>2
      <4>2. pc[activeTurns[x]] = "running" /\ sess[activeTurns[x]] = x
        BY <2>2, <4>1 DEF SInv, Stored, MemoryMatchesStore
      <4> QED
        BY <1>1, <1>3, <4>1, <4>2
    <3> QED
      BY <3>1, <3>2
  <2> QED
    BY <2>1, <2>2 DEF MemoryMatchesStore
<1>8. KeepsClosed
  <2>1. \A x \in Sessions : Retired(x) => x # sess[s]
    BY <1>1 DEF Retired, LetIn
  <2>2. \A x \in Sessions : Retired(x) =>
          status'[x] \in {"closing", "closed"} /\ messages'[x] = messages[x]
    BY <1>1, <1>2, <2>1 DEF Retired
  <2> QED
    BY <1>10, <2>2, StaysRetired
<1>9. KeepsOutcomes
  BY <1>1, <1>2 DEF KeepsOutcomes, Outcomes
<1> QED
  BY <1>5, <1>6, <1>7, <1>8, <1>9 DEF Sound, Stored

(* A turn ends: its own registration and row are settled, nobody else's.   *)
LEMMA EndsSound ==
  ASSUME SInv, NEW s \in Sends, NEW o \in Outcomes, TurnSettles(s, o)
  PROVE  Sound
<1>1. /\ Sends \subseteq Calls /\ pc[s] = "running" /\ HoldsLock(s) /\ HoldsSlot(s)
      /\ Finally(s, TRUE, TRUE, activeTurns, status)
      /\ turns' = [turns EXCEPT ![tid[s]] = o]
  BY DEF TurnSettles, HoldsLock, HoldsSlot, Calls
<1>2. /\ pc'[s] = "done"
      /\ \A r \in Sends \ {s} :
           /\ pc'[r] = "running" <=> pc[r] = "running"
           /\ LetIn(r)' => LetIn(r)
           /\ sess'[r] = sess[r] /\ tid'[r] = tid[r]
  BY <1>1, FinallyOthers DEF SInv
<1>3. /\ sess[s] \in Sessions /\ tid[s] \in TurnIds /\ None \notin Sends
      /\ status \in [Sessions -> SessionStatus] /\ turns \in [TurnIds -> TurnStatus]
      /\ activeTurns \in [Sessions -> Sends \cup {None}]
      /\ messages \in [Sessions -> Seq(TurnIds)]
  BY <1>1, CallsAssumption DEF SInv, IInv, CallShape, TypeOK, Calls
<1>4. \A x \in Sessions : \/ status'[x] = status[x]
                          \/ status[x] = "busy" /\ status'[x] = "ready"
  BY <1>1, <1>3 DEF Finally, AfterTurn
<1>5. \A r \in Sends : LetIn(r)' => LetIn(r) /\ sess'[r] = sess[r]
  BY <1>2 DEF LetIn
<1>6. OpenWhileHeld'
  <2>1. \A r \in Sends : LetIn(r) => sess[r] \in Sessions /\ status[sess[r]] # "closed"
    BY <1>1 DEF SInv, IInv, CallShape, Stored, OpenWhileHeld, LetIn
  <2> QED
    BY <1>4, <1>5, <2>1 DEF OpenWhileHeld
<1>7. RunsOnce'
  BY <1>2 DEF SInv, Stored, RunsOnce
<1>8. MemoryMatchesStore'
  <2>1. ASSUME NEW t \in TurnIds
        PROVE  turns'[t] = "running" <=> \E r \in Sends : pc'[r] = "running" /\ tid'[r] = t
    <3>1. CASE t = tid[s]
      <4>1. turns'[t] # "running"
        BY <1>1, <1>3, <3>1 DEF Outcomes
      <4>2. \A r \in Sends : ~(pc'[r] = "running" /\ tid'[r] = t)
        BY <1>1, <1>2, <3>1 DEF SInv, Stored, RunsOnce
      <4> QED
        BY <4>1, <4>2
    <3>2. CASE t # tid[s]
      <4>1. turns'[t] = turns[t]
        BY <1>1, <1>3, <3>2
      <4>2. \A r \in Sends : pc'[r] = "running" /\ tid'[r] = t <=>
                             pc[r] = "running" /\ tid[r] = t
        BY <1>1, <1>2, <3>2
      <4> QED
        BY <4>1, <4>2 DEF SInv, Stored, MemoryMatchesStore
    <3> QED
      BY <3>1, <3>2
  <2>2. ASSUME NEW x \in Sessions, activeTurns'[x] # None
        PROVE  pc'[activeTurns'[x]] = "running" /\ sess'[activeTurns'[x]] = x
    <3>1. /\ activeTurns'[x] = activeTurns[x] /\ activeTurns[x] \in Sends
          /\ x = sess[s] => ~Owns(s, activeTurns)
      BY <1>1, <1>3, <2>2 DEF Finally
    <3>2. pc[activeTurns[x]] = "running" /\ sess[activeTurns[x]] = x
      BY <2>2, <3>1 DEF SInv, Stored, MemoryMatchesStore
    <3>3. activeTurns[x] # s
      BY <1>3, <3>1, <3>2 DEF Owns
    <3> QED
      BY <1>2, <3>1, <3>2, <3>3
  <2> QED
    BY <2>1, <2>2 DEF MemoryMatchesStore
<1>9. KeepsClosed
  <2>1. \A x \in Sessions : x # sess[s] => messages'[x] = messages[x]
    BY <1>3 DEF TurnSettles
  <2>2. \A x \in Sessions : Retired(x) => x # sess[s]
    BY <1>1 DEF Retired, LetIn
  <2>3. \A x \in Sessions : Retired(x) =>
          status'[x] \in {"closing", "closed"} /\ messages'[x] = messages[x]
    BY <1>4, <2>1, <2>2 DEF Retired
  <2> QED
    BY <1>5, <2>3, StaysRetired
<1>10. KeepsOutcomes
  <2>1. turns[tid[s]] = "running"
    BY <1>1, <1>3 DEF SInv, Stored, MemoryMatchesStore
  <2> QED
    BY <1>1, <1>3, <2>1 DEF KeepsOutcomes, Outcomes
<1> QED
  BY <1>6, <1>7, <1>8, <1>9, <1>10 DEF Sound, Stored

(* The lock is granted to a send: it is let in if its session is open, and *)
(* nobody can close the session before the send is done.                   *)
LEMMA ReadsSound ==
  ASSUME SInv, NEW s \in Sends, SendReads(s)
  PROVE  Sound
<1>1. /\ Sends \subseteq Calls /\ pc[s] = "locked" /\ sess' = sess /\ tid' = tid
      /\ seen' = [seen EXCEPT ![s] = status[sess[s]]] /\ pc' = [pc EXCEPT ![s] = "checking"]
      /\ status' = status /\ turns' = turns /\ messages' = messages
      /\ activeTurns' = activeTurns
  BY DEF SendReads, dbVars, Calls
<1>2. /\ pc \in [Calls -> PCs] /\ seen \in [Calls -> SessionStatus \cup {None}]
      /\ activeTurns \in [Sessions -> Sends \cup {None}]
  BY DEF SInv, IInv, TypeOK
<1>3. /\ pc'[s] = "checking" /\ seen'[s] = status[sess[s]]
      /\ \A r \in Sends \ {s} : pc'[r] = pc[r] /\ seen'[r] = seen[r]
  BY <1>1, <1>2
<1>4. \A r \in Sends : pc'[r] = "running" <=> pc[r] = "running"
  BY <1>1, <1>3
<1>5. /\ \A r \in Sends \ {s} : LetIn(r)' <=> LetIn(r)
      /\ LetIn(s)' => status[sess[s]] \notin {"closing", "closed"}
  BY <1>1, <1>3 DEF LetIn, Admissible
<1>6. OpenWhileHeld'
  BY <1>1, <1>5 DEF SInv, Stored, OpenWhileHeld
<1>7. RunsOnce'
  BY <1>1, <1>4 DEF SInv, Stored, RunsOnce
<1>8. MemoryMatchesStore'
  <2>1. \A u \in TurnIds : turns'[u] = "running" <=>
          \E r \in Sends : pc'[r] = "running" /\ tid'[r] = u
    BY <1>1, <1>4 DEF SInv, Stored, MemoryMatchesStore
  <2>2. \A x \in Sessions : activeTurns'[x] # None =>
          pc'[activeTurns'[x]] = "running" /\ sess'[activeTurns'[x]] = x
    BY <1>1, <1>2, <1>4 DEF SInv, Stored, MemoryMatchesStore
  <2> QED
    BY <2>1, <2>2 DEF MemoryMatchesStore
<1>9. KeepsClosed
  <2> SUFFICES ASSUME NEW x \in Sessions, Retired(x)
               PROVE  Retired(x)'
    BY <1>1, ClosedIsRetired DEF KeepsClosed
  <2>1. \A r \in Sends : LetIn(r)' => sess'[r] # x
    BY <1>1, <1>5 DEF Retired
  <2> QED
    BY <1>1, <2>1 DEF Retired
<1> QED
  BY <1>1, <1>6, <1>7, <1>8, <1>9 DEF Sound, Stored, KeepsOutcomes

(* A send that was let in asks for a slot.                                 *)
LEMMA AsksSound ==
  ASSUME SInv, NEW s \in Sends, NEW t \in TurnIds, SendAsks(s, t)
  PROVE  Sound
<1>1. /\ Sends \subseteq Calls /\ pc[s] = "checking" /\ LetIn(s) /\ sess' = sess
      /\ tid' = [tid EXCEPT ![s] = t] /\ seen' = [seen EXCEPT ![s] = None]
      /\ \E v \in {"capGranted", "capWait", "capRejected"} : pc' = [pc EXCEPT ![s] = v]
      /\ status' = status /\ turns' = turns /\ messages' = messages
      /\ activeTurns' = activeTurns
  BY DEF SendAsks, LetIn, dbVars, Calls
<1>2. /\ pc \in [Calls -> PCs] /\ tid \in [Sends -> TurnIds \cup {None}]
      /\ seen \in [Calls -> SessionStatus \cup {None}]
  BY DEF SInv, IInv, TypeOK
<1>3. /\ pc'[s] # "running"
      /\ \A r \in Sends \ {s} : pc'[r] = pc[r] /\ tid'[r] = tid[r] /\ seen'[r] = seen[r]
  BY <1>1, <1>2
<1>4. \A r \in Sends : LetIn(r)' => LetIn(r)
  BY <1>1, <1>3 DEF LetIn, Admissible
<1>5. \A r \in Sends :
        /\ pc'[r] = "running" <=> pc[r] = "running"
        /\ pc'[r] = "running" => sess'[r] = sess[r] /\ tid'[r] = tid[r]
  BY <1>1, <1>3
<1> QED
  BY <1>1, <1>4, <1>5, Calmly

(* A close that has the lock: no send has been let into the session.       *)
LEMMA CloseFinishesSound ==
  ASSUME SInv, NEW c \in Closers, CloseFinishes(c)
  PROVE  Sound
<1>1. /\ Sends \subseteq Calls /\ c \in Calls /\ c \notin Sends /\ None \notin Sends
      /\ pc[c] = "locked" /\ HoldsLock(c) /\ sess[c] \in Sessions
      /\ pc \in [Calls -> PCs] /\ sess \in [Calls -> Sessions \cup {None}]
      /\ status \in [Sessions -> SessionStatus]
      /\ activeTurns \in [Sessions -> Sends \cup {None}]
      /\ lockQueue \in [Sessions -> Seq(Calls)]
  BY CallsAssumption DEF CloseFinishes, HoldsLock, Calls, SInv, IInv, CallShape, TypeOK
<1>2. /\ messages' = messages /\ turns' = turns /\ tid' = tid /\ seen' = seen
      /\ sess' = [sess EXCEPT ![c] = None]
      /\ \/ /\ status' = [status EXCEPT ![sess[c]] = "closed"]
            /\ activeTurns' = [activeTurns EXCEPT ![sess[c]] = None]
         \/ status' = status /\ activeTurns' = activeTurns
  BY DEF CloseFinishes, CloseUnlocks
<1>3. \A r \in Sends :
        /\ sess'[r] = sess[r] /\ tid'[r] = tid[r]
        /\ \/ pc'[r] = pc[r]
           \/ pc'[r] = "locked" /\ r = NextOwner(sess[c])
  <2>1. pc' = [d \in Calls |-> CASE d = c -> "done"
                                 [] d = NextOwner(sess[c]) -> "locked"
                                 [] OTHER -> pc[d]]
    BY DEF CloseFinishes, CloseUnlocks
  <2> QED
    BY <1>1, <1>2, <2>1
<1>4. ASSUME NEW r \in Sends, r = NextOwner(sess[c])
      PROVE  pc[r] = "lockWait"
  <2>1. lockQueue[sess[c]] # <<>> /\ lockQueue[sess[c]] \in Seq(Calls)
    BY <1>1, <1>4 DEF NextOwner
  <2>2. r = lockQueue[sess[c]][1] /\ 1 \in DOMAIN lockQueue[sess[c]]
    BY <1>4, <2>1, EmptySeq, HeadTailProperties DEF NextOwner
  <2> QED
    BY <1>1, <2>2 DEF SInv, IInv, LockQueueOK
<1>5. \A r \in Sends :
        /\ pc'[r] = "running" <=> pc[r] = "running"
        /\ LetIn(r)' => LetIn(r) /\ sess'[r] = sess[r]
  BY <1>2, <1>3, <1>4 DEF LetIn, Admissible
<1>6. ASSUME NEW r \in Sends, LetIn(r)
      PROVE  /\ sess[r] \in Sessions /\ sess[r] # sess[c]
             /\ status[sess[r]] # "closed" /\ status'[sess[r]] # "closed"
  <2>1. HoldsLock(r) /\ sess[r] \in Sessions /\ status[sess[r]] # "closed"
    BY <1>1, <1>6 DEF HoldsLock, LetIn, SInv, IInv, CallShape, Stored, OpenWhileHeld
  <2>2. sess[r] # sess[c]
    BY <1>1, <2>1 DEF SInv, IInv, LockOwned
  <2> QED
    BY <1>1, <1>2, <2>1, <2>2
<1>7. OpenWhileHeld'
  BY <1>3, <1>5, <1>6 DEF OpenWhileHeld
<1>8. RunsOnce'
  BY <1>2, <1>5 DEF SInv, Stored, RunsOnce
<1>9. MemoryMatchesStore'
  <2>1. \A t \in TurnIds : turns'[t] = "running" <=>
          \E s \in Sends : pc'[s] = "running" /\ tid'[s] = t
    BY <1>2, <1>5 DEF SInv, Stored, MemoryMatchesStore
  <2>2. ASSUME NEW x \in Sessions, activeTurns'[x] # None
        PROVE  pc'[activeTurns'[x]] = "running" /\ sess'[activeTurns'[x]] = x
    <3>1. activeTurns'[x] = activeTurns[x] /\ activeTurns[x] \in Sends
      BY <1>1, <1>2, <2>2
    <3>2. pc[activeTurns[x]] = "running" /\ sess[activeTurns[x]] = x
      BY <2>2, <3>1 DEF SInv, Stored, MemoryMatchesStore
    <3> QED
      BY <1>3, <1>5, <3>1, <3>2
  <2> QED
    BY <2>1, <2>2 DEF MemoryMatchesStore
<1>10. KeepsClosed
  <2>1. \A x \in Sessions : Retired(x) =>
          status'[x] \in {"closing", "closed"} /\ messages'[x] = messages[x]
    BY <1>1, <1>2 DEF Retired
  <2> QED
    BY <1>5, <2>1, StaysRetired
<1> QED
  BY <1>2, <1>7, <1>8, <1>9, <1>10 DEF Sound, Stored, KeepsOutcomes

(* A restart settles the turns that ran, and runs none.                    *)
LEMMA RestartSound ==
  ASSUME SInv, Restart
  PROVE  Sound
<1>1. /\ Sends \subseteq Calls /\ messages' = messages /\ status' = status
      /\ turns' = [t \in TurnIds |-> Recovered(t)]
      /\ activeTurns' = [x \in Sessions |-> None]
      /\ \A r \in Sends : pc'[r] \in {"idle", "done"}
  BY DEF Restart, Calls
<1>2. \A r \in Sends : ~LetIn(r)'
  BY <1>1 DEF LetIn
<1>3. OpenWhileHeld' /\ RunsOnce' /\ MemoryMatchesStore'
  BY <1>1, <1>2 DEF OpenWhileHeld, RunsOnce, MemoryMatchesStore, Recovered
<1>4. KeepsClosed
  BY <1>1, <1>2, StaysRetired DEF Retired
<1>5. KeepsOutcomes
  BY <1>1 DEF KeepsOutcomes, Recovered, Outcomes
<1> QED
  BY <1>3, <1>4, <1>5 DEF Sound, Stored

-----------------------------------------------------------------------------
(* The steps of a send.                                                    *)
LEMMA SendStepsSound ==
  ASSUME SInv, NEW s \in Sends, SendStep(s)
  PROVE  Sound
<1>1. CASE SendLockedThrows(s)
  BY <1>1, LeavesSound DEF SendLockedThrows, HoldsLock, HoldsSlot
<1>2. ASSUME NEW t \in TurnIds, SendAsks(s, t)
      PROVE  Sound
  BY <1>2, AsksSound
<1>3. CASE SendStarts(s)
  BY <1>3, StartsSound
<1>4. CASE SendStartThrows(s)
  <2>1. /\ pc[s] = "capGranted" /\ messages' = messages /\ turns' = turns
        /\ HoldsLock(s) /\ HoldsSlot(s)
    BY <1>4 DEF SendStartThrows, HoldsLock, HoldsSlot
  <2>2. CASE Finally(s, TRUE, TRUE, activeTurns, status)
    BY <2>1, <2>2, LeavesSound
  <2>3. CASE Finally(s, TRUE, TRUE, [activeTurns EXCEPT ![sess[s]] = s], status)
    BY <2>1, <2>3, LeavesSound
  <2> QED
    BY <1>4, <2>2, <2>3 DEF SendStartThrows
<1>5. ASSUME NEW o \in Outcomes, TurnSettles(s, o)
      PROVE  Sound
  BY <1>5, EndsSound
<1>6. CASE SendLockRejected(s) \/ SendCapRejected(s)
  BY <1>6, LeavesSound DEF SendLockRejected, SendCapRejected, HoldsLock, HoldsSlot
<1>7. CASE SendReads(s)
  BY <1>7, ReadsSound
<1>8. CASE SendCheckThrows(s)
  BY <1>8, LeavesSound DEF SendCheckThrows, HoldsLock, HoldsSlot
<1> QED
  BY <1>1, <1>2, <1>3, <1>4, <1>5, <1>6, <1>7, <1>8 DEF SendStep

(* Every step keeps memory and store together.                             *)
LEMMA StepsSound == SInv /\ [Next]_vars => Sound
<1> SUFFICES ASSUME SInv, [Next]_vars PROVE Sound
  OBVIOUS
<1>0. /\ Sends \subseteq Calls /\ Closers \subseteq Calls /\ pc \in [Calls -> PCs]
      /\ Sends \cap Closers = {} /\ None \notin Calls
      /\ sess \in [Calls -> Sessions \cup {None}]
      /\ status \in [Sessions -> SessionStatus]
      /\ seen \in [Calls -> SessionStatus \cup {None}]
  BY CallsAssumption DEF Calls, SInv, IInv, TypeOK
<1>1. ASSUME NEW s \in Sends, SendRefused(s)
      PROVE  Sound
  <2>1. /\ messages' = messages /\ turns' = turns /\ status' = status /\ tid' = tid
        /\ activeTurns' = activeTurns /\ pc[s] = "idle" /\ pc'[s] = "done"
        /\ sess' = sess /\ seen' = seen
        /\ \A r \in Sends \ {s} : pc'[r] = pc[r]
    BY <1>0, <1>1 DEF SendRefused, dbVars
  <2>2. \A r \in Sends : LetIn(r)' => LetIn(r) /\ sess'[r] = sess[r]
    BY <2>1, NobodyLetIn
  <2> QED
    BY <2>1, <2>2, Calmly
<1>2. ASSUME NEW s \in Sends, NEW x \in Sessions, NEW p \in Priorities, SendBegin(s, x, p)
      PROVE  Sound
  <2>1. /\ messages' = messages /\ turns' = turns /\ status' = status /\ tid' = tid
        /\ activeTurns' = activeTurns /\ pc[s] = "idle" /\ pc'[s] \in {"lockWait", "locked"}
        /\ \A r \in Sends \ {s} : pc'[r] = pc[r] /\ sess'[r] = sess[r]
        /\ seen' = seen
    BY <1>0, <1>2 DEF SendBegin, Acquire, dbVars
  <2>2. \A r \in Sends : LetIn(r)' => LetIn(r) /\ sess'[r] = sess[r]
    BY <2>1 DEF LetIn, Admissible
  <2> QED
    BY <2>1, <2>2, Calmly
<1>3. ASSUME NEW s \in Sends, ClientAborts(s)
      PROVE  Sound
  <2>1. /\ messages' = messages /\ turns' = turns /\ status' = status /\ tid' = tid
        /\ activeTurns' = activeTurns /\ sess' = sess /\ seen' = seen
        /\ \A r \in Sends : \/ pc'[r] = pc[r]
                            \/ pc'[r] = "lockRejected" /\ pc[r] = "lockWait"
                            \/ pc'[r] = "capRejected" /\ pc[r] = "capWait"
    BY <1>0, <1>3 DEF ClientAborts, dbVars
  <2>2. \A r \in Sends : LetIn(r)' => LetIn(r) /\ sess'[r] = sess[r]
    BY <2>1, NobodyLetIn
  <2> QED
    BY <2>1, <2>2, Calmly
<1>4. ASSUME NEW c \in Closers,
             \/ CloseBegin(c) \/ CloseReturns(c) \/ CloseCancelled(c)
             \/ \E x \in Sessions : CloseReads(c, x)
      PROVE  Sound
  <2>1. /\ messages' = messages /\ turns' = turns /\ tid' = tid
        /\ activeTurns' = activeTurns
        /\ \A r \in Sends : pc'[r] = pc[r] /\ sess'[r] = sess[r] /\ seen'[r] = seen[r]
    BY <1>0, <1>4 DEF CloseBegin, CloseReturns, CloseCancelled, CloseReads, Acquire, dbVars
  <2>2. status' = status \/ status' = [status EXCEPT ![sess[c]] = "closing"]
    BY <1>4 DEF CloseBegin, CloseReturns, CloseCancelled, CloseReads, dbVars
  <2>3. \A y \in Sessions : status'[y] = status[y] \/ status'[y] = "closing"
    BY <1>0, <2>2
  <2>4. \A r \in Sends : LetIn(r)' => LetIn(r) /\ sess'[r] = sess[r]
    BY <2>1, NobodyLetIn
  <2> QED
    BY <2>1, <2>3, <2>4, Calmly
<1>5. ASSUME NEW c \in Closers, CloseStep(c)
      PROVE  Sound
  BY <1>4, <1>5, CloseFinishesSound DEF CloseStep
<1>6. ASSUME UNCHANGED <<pc, sess, tid, seen, status, turns, messages, activeTurns>>
      PROVE  Sound
  <2>1. \A r \in Sends : LetIn(r)' => LetIn(r) /\ sess'[r] = sess[r]
    BY <1>6 DEF LetIn, Admissible
  <2> QED
    BY <1>6, <2>1, Calmly
<1>7. ASSUME NEW x \in Sessions, Cancel(x)
      PROVE  Sound
  BY <1>6, <1>7 DEF Cancel, dbVars
<1>8. CASE Shutdown
  BY <1>6, <1>8 DEF Shutdown, dbVars
<1>9. CASE Restart
  BY <1>9, RestartSound
<1>10. CASE UNCHANGED vars
  BY <1>6, <1>10 DEF vars, callVars, dbVars
<1> QED
  BY <1>1, <1>2, <1>3, <1>4, <1>5, <1>7, <1>8, <1>9, <1>10, SendStepsSound DEF Next, Quiet

(* The invariant of all three results.                                     *)
LEMMA SpecSInv == Spec => []SInv
<1>1. Init => SInv
  BY InitIInv DEF Init, SInv, Stored, OpenWhileHeld, RunsOnce, MemoryMatchesStore,
                  LetIn, Calls
<1>2. SInv /\ [Next]_vars => SInv'
  BY NextIInv, StepsSound DEF SInv, Sound
<1> QED
  BY <1>1, <1>2, PTL DEF Spec

(* A turn is stored as running exactly while a send runs it, and what      *)
(* cancel() and close() abort is a running turn of their session.          *)
THEOREM StoreMatchesMemory == Spec => []MemoryMatchesStore
<1>1. SInv => MemoryMatchesStore
  BY DEF SInv, Stored
<1> QED
  BY <1>1, SpecSInv, PTL

(* Once a session was closed no turn runs or starts in it and its          *)
(* transcript stays, whoever queued before the close, whatever status      *)
(* another close had read before, and whether that close fails or not.     *)
THEOREM ClosedSessionsRetire == Spec => ClosedIsFinal
<1>1. SInv /\ [Next]_vars =>
        [\A x \in Sessions : status[x] = "closed" \/ Retired(x) =>
           Retired(x)' /\ messages'[x] = messages[x]]_vars
  BY StepsSound DEF Sound, KeepsClosed
<1> QED
  BY <1>1, SpecSInv, PTL DEF Spec, ClosedIsFinal

(* From the moment close() has stored "closed" the session is closing or   *)
(* closed and lets nobody in, for good.                                    *)
THEOREM NeverReopened ==
  \A x \in Sessions : Spec => [](status[x] = "closed" => []Retired(x))
<1> SUFFICES ASSUME NEW x \in Sessions
             PROVE  Spec => [](status[x] = "closed" => []Retired(x))
  OBVIOUS
<1>1. SInv => (status[x] = "closed" => Retired(x))
  BY ClosedIsRetired
<1>2. SInv /\ [Next]_vars /\ Retired(x) => Retired(x)'
  BY StepsSound DEF Sound, KeepsClosed
<1> QED
  BY <1>1, <1>2, SpecSInv, PTL DEF Spec

(* A repeated request id, a late abort or a restart never changes the      *)
(* outcome of a settled turn.                                              *)
THEOREM OutcomesStay == Spec => TurnOutcomesFinal
<1>1. SInv /\ [Next]_vars =>
        [\A t \in TurnIds : turns[t] \in Outcomes => turns'[t] = turns[t]]_vars
  BY StepsSound DEF Sound, KeepsOutcomes
<1> QED
  BY <1>1, SpecSInv, PTL DEF Spec, TurnOutcomesFinal
=============================================================================
