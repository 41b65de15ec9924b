------------------------ MODULE SessionManagerProofs ------------------------
(***************************************************************************)
(* Proofs about SessionManager: one owner per session lock, exact counting *)
(* of the scheduler's slots, and exact queues: nobody waits without being  *)
(* queued, nobody dead is queued, and a send that was admitted never meets *)
(* a full scheduler.  For any number of calls, sessions, slots and queue   *)
(* places.                                                                 *)
(***************************************************************************)
EXTENDS SessionManager, FiniteSetTheorems, SequenceTheorems, TLAPS

(* What a call may be doing, and what it knows by then.                    *)
CallShape ==
  /\ \A c \in Closers : pc[c] \in {"idle", "reading", "lockWait", "locked", "cancelling", "done"}
  /\ \A s \in Sends : pc[s] \notin {"reading", "cancelling"}
  /\ \A c \in Calls : pc[c] \notin {"idle", "done"} => sess[c] \in Sessions
  /\ \A s \in Sends : pc[s] \in {"capWait", "capRejected", "capGranted", "running"} =>
       tid[s] \in TurnIds

(* SerialSessions without counting.                                        *)
LockOwned ==
  /\ \A c, d \in Calls : HoldsLock(c) /\ HoldsLock(d) /\ sess[c] = sess[d] => c = d
  /\ \A c \in Calls : HoldsLock(c) => locked[sess[c]]
  /\ \A x \in Sessions : locked[x] => \E c \in Calls : HoldsLock(c) /\ sess[c] = x

(* The waiters of the queues, each there once.                             *)
LockQueueOK ==
  \A x \in Sessions : \A i \in DOMAIN lockQueue[x] :
    /\ pc[lockQueue[x][i]] = "lockWait"
    /\ sess[lockQueue[x][i]] = x
    /\ \A j \in DOMAIN lockQueue[x] : lockQueue[x][j] = lockQueue[x][i] => j = i

CapQueueOK ==
  \A p \in Priorities : \A i \in DOMAIN capQueue[p] :
    /\ pc[capQueue[p][i]] = "capWait"
    /\ prio[capQueue[p][i]] = p
    /\ \A j \in DOMAIN capQueue[p] : capQueue[p][j] = capQueue[p][i] => j = i

(* admittedTurns counts the sends in flight.                               *)
InFlight == {s \in Sends : Admitted(s)}

AdmittedExact == admittedTurns = Cardinality(InFlight)

IInv ==
  /\ TypeOK
  /\ CallShape
  /\ LockOwned
  /\ LockQueueOK
  /\ CapQueueOK
  /\ SlotsExact
  /\ AdmittedExact

-----------------------------------------------------------------------------
(* Removing a call from a queue leaves the others, once each.              *)
LEMMA WithoutSeq ==
  ASSUME NEW S, NEW q \in Seq(S), NEW c
  PROVE  Without(q, c) \in Seq(S)
<1>1. CASE c \notin Elems(q)
  BY <1>1 DEF Without
<1>2. CASE c \in Elems(q)
  <2> DEFINE k == CHOOSE i \in DOMAIN q : q[i] = c
  <2>1. k \in 1..Len(q) /\ q[k] = c
    BY <1>2 DEF Elems
  <2>2. Without(q, c) = [i \in 1..(Len(q) - 1) |-> IF i < k THEN q[i] ELSE q[i + 1]]
    BY <1>2 DEF Without
  <2>3. Len(q) - 1 \in Nat
    BY <2>1
  <2>4. \A i \in 1..(Len(q) - 1) : (IF i < k THEN q[i] ELSE q[i + 1]) \in S
    BY <2>1
  <2> QED
    BY <2>2, <2>3, <2>4, IsASeq
<1> QED
  BY <1>1, <1>2

LEMMA WithoutElements ==
  ASSUME NEW S, NEW q \in Seq(S), NEW c,
         \A i, j \in DOMAIN q : q[i] = q[j] => i = j
  PROVE  \A i \in DOMAIN Without(q, c) :
           /\ Without(q, c)[i] # c
           /\ \E n \in DOMAIN q : Without(q, c)[i] = q[n]
           /\ \A j \in DOMAIN Without(q, c) :
                Without(q, c)[i] = Without(q, c)[j] => i = j
<1>1. CASE c \notin Elems(q)
  BY <1>1 DEF Without, Elems
<1>2. CASE c \in Elems(q)
  <2> DEFINE k == CHOOSE i \in DOMAIN q : q[i] = c
             r == [i \in 1..(Len(q) - 1) |-> IF i < k THEN q[i] ELSE q[i + 1]]
  <2>1. k \in 1..Len(q) /\ q[k] = c
    BY <1>2 DEF Elems
  <2>2. Without(q, c) = r
    BY <1>2 DEF Without
  <2>3. DOMAIN r = 1..(Len(q) - 1) /\ DOMAIN q = 1..Len(q)
    OBVIOUS
  <2>4. ASSUME NEW i \in 1..(Len(q) - 1)
        PROVE  r[i] # c /\ \E n \in DOMAIN q : r[i] = q[n]
    BY <2>1, <2>3
  <2>5. ASSUME NEW i \in 1..(Len(q) - 1), NEW j \in 1..(Len(q) - 1), r[i] = r[j]
        PROVE  i = j
    BY <2>1, <2>3, <2>5
  <2> HIDE DEF r
  <2> QED
    BY <2>2, <2>3, <2>4, <2>5
<1> QED
  BY <1>1, <1>2

(* Taking the head off a queue leaves the others, once each.               *)
LEMMA TailElements ==
  ASSUME NEW S, NEW q \in Seq(S), q # <<>>,
         \A i, j \in DOMAIN q : q[i] = q[j] => i = j
  PROVE  /\ Head(q) \in S /\ Head(q) = q[1] /\ 1 \in DOMAIN q
         /\ Tail(q) \in Seq(S)
         /\ \A i \in DOMAIN Tail(q) :
              /\ i + 1 \in DOMAIN q /\ Tail(q)[i] = q[i + 1] /\ Tail(q)[i] # Head(q)
              /\ \A j \in DOMAIN Tail(q) : Tail(q)[i] = Tail(q)[j] => i = j
<1>1. Len(q) \in Nat /\ Len(q) > 0 /\ DOMAIN q = 1..Len(q)
  BY EmptySeq
<1>2. /\ Head(q) = q[1] /\ 1 \in DOMAIN q
      /\ Tail(q) \in Seq(S) /\ Len(Tail(q)) = Len(q) - 1
      /\ \A i \in 1..Len(Tail(q)) : Tail(q)[i] = q[i + 1]
  BY <1>1, HeadTailProperties
<1>3. DOMAIN Tail(q) = 1..(Len(q) - 1)
  BY <1>2
<1> QED
  BY <1>1, <1>2, <1>3

(* A new call at the end of a queue.                                       *)
LEMMA AppendElements ==
  ASSUME NEW S, NEW q \in Seq(S), NEW c \in S
  PROVE  /\ Append(q, c) \in Seq(S)
         /\ DOMAIN Append(q, c) = DOMAIN q \cup {Len(q) + 1}
         /\ Len(q) + 1 \notin DOMAIN q
         /\ \A i \in DOMAIN q : Append(q, c)[i] = q[i]
         /\ Append(q, c)[Len(q) + 1] = c
  BY AppendProperties

(* Counting the holders of a slot when one comes, goes or is replaced.     *)
LEMMA CountOneMore ==
  ASSUME NEW S, NEW T, NEW s, IsFiniteSet(S), s \notin S, T = S \cup {s}
  PROVE  Cardinality(T) = Cardinality(S) + 1
  BY FS_AddElement

LEMMA CountOneLess ==
  ASSUME NEW S, NEW T, NEW s, IsFiniteSet(S), s \in S, T = S \ {s}
  PROVE  Cardinality(T) = Cardinality(S) - 1 /\ Cardinality(S) \in Nat \ {0}
<1>1. IsFiniteSet(T) /\ s \notin T /\ S = T \cup {s}
  BY FS_Subset
<1>2. Cardinality(S) = Cardinality(T) + 1 /\ Cardinality(T) \in Nat
  BY <1>1, FS_AddElement, FS_CardinalityType
<1> QED
  BY <1>2

LEMMA CountReplaced ==
  ASSUME NEW S, NEW T, NEW s, NEW w, IsFiniteSet(S), s \in S, w \notin S,
         T = (S \ {s}) \cup {w}
  PROVE  Cardinality(T) = Cardinality(S)
<1>1. Cardinality(S \ {s}) = Cardinality(S) - 1 /\ Cardinality(S) \in Nat \ {0}
  BY CountOneLess
<1>2. IsFiniteSet(S \ {s}) /\ w \notin S \ {s}
  BY FS_Subset
<1>3. Cardinality(T) = Cardinality(S \ {s}) + 1
  BY <1>2, FS_AddElement
<1> QED
  BY <1>1, <1>3

Holders == {s \in Sends : HoldsSlot(s)}

LEMMA HoldersFinite == IsFiniteSet(Holders)
  BY FiniteAssumption, FS_Subset DEF Holders

-----------------------------------------------------------------------------
(* A call that goes for the lock of x owns it or queues for it.            *)
LEMMA AcquireKeepsLocks ==
  ASSUME IInv, NEW c \in Calls, NEW x \in Sessions,
         pc[c] \in {"idle", "reading", "cancelling"},
         sess' = [sess EXCEPT ![c] = x],
         Acquire(c, x)
  PROVE  /\ pc' \in [Calls -> PCs] /\ locked' \in [Sessions -> BOOLEAN]
         /\ lockQueue' \in [Sessions -> Seq(Calls)]
         /\ sess' \in [Calls -> Sessions \cup {None}]
         /\ pc'[c] \in {"lockWait", "locked"}
         /\ \A d \in Calls : d # c => pc'[d] = pc[d] /\ sess'[d] = sess[d]
         /\ LockOwned' /\ LockQueueOK'
<1> USE DEF IInv, TypeOK, PCs
<1>1. CASE locked[x]
  <2>1. /\ pc' = [pc EXCEPT ![c] = "lockWait"]
        /\ lockQueue' = [lockQueue EXCEPT ![x] = Append(@, c)]
        /\ locked' = locked
    BY <1>1 DEF Acquire
  <2>2. \A d \in Calls : HoldsLock(d)' <=> HoldsLock(d)
    BY <2>1 DEF HoldsLock
  <2>3. LockOwned'
    <3>1. \A d \in Calls : HoldsLock(d) => sess'[d] = sess[d]
      BY DEF HoldsLock
    <3> QED
      BY <2>1, <2>2, <3>1 DEF LockOwned
  <2>4. lockQueue[x] \in Seq(Calls)
    OBVIOUS
  <2>5. LockQueueOK'
    <3> SUFFICES ASSUME NEW y \in Sessions, NEW i \in DOMAIN lockQueue'[y]
                 PROVE  /\ pc'[lockQueue'[y][i]] = "lockWait"
                        /\ sess'[lockQueue'[y][i]] = y
                        /\ \A j \in DOMAIN lockQueue'[y] :
                             lockQueue'[y][j] = lockQueue'[y][i] => j = i
      BY DEF LockQueueOK
    <3>1. \A j \in DOMAIN lockQueue[y] :
             lockQueue[y][j] \in Calls /\ lockQueue[y][j] # c
      BY DEF LockQueueOK
    <3>2. CASE y # x
      BY <2>1, <3>1, <3>2 DEF LockQueueOK
    <3>3. CASE y = x
      BY <2>1, <2>4, <3>1, <3>3, AppendElements DEF LockQueueOK
    <3> QED
      BY <3>2, <3>3
  <2> QED
    BY <2>1, <2>3, <2>4, <2>5, AppendElements
<1>2. CASE ~locked[x]
  <2>1. /\ pc' = [pc EXCEPT ![c] = "locked"]
        /\ locked' = [locked EXCEPT ![x] = TRUE]
        /\ lockQueue' = lockQueue
    BY <1>2 DEF Acquire
  <2>2. \A d \in Calls : d # c => (HoldsLock(d)' <=> HoldsLock(d))
    BY <2>1 DEF HoldsLock
  <2>3. HoldsLock(c)' /\ ~HoldsLock(c)
    BY <2>1 DEF HoldsLock
  <2>4. \A d \in Calls : HoldsLock(d) => sess[d] # x
    BY <1>2 DEF LockOwned
  <2>5. \A d \in Calls : HoldsLock(d) => sess[d] \in Sessions
    BY DEF HoldsLock, CallShape
  <2>6. LockOwned'
    <3>1. \A d, e \in Calls : HoldsLock(d)' /\ HoldsLock(e)' /\ sess'[d] = sess'[e] => d = e
      BY <2>1, <2>2, <2>3, <2>4, <2>5 DEF LockOwned
    <3>2. \A d \in Calls : HoldsLock(d)' => locked'[sess'[d]]
      BY <2>1, <2>2, <2>3, <2>4, <2>5 DEF LockOwned
    <3>3. \A y \in Sessions : locked'[y] => \E d \in Calls : HoldsLock(d)' /\ sess'[d] = y
      BY <2>1, <2>2, <2>3, <2>4, <2>5 DEF LockOwned
    <3> QED
      BY <3>1, <3>2, <3>3 DEF LockOwned
  <2>7. LockQueueOK'
    BY <2>1 DEF LockQueueOK
  <2> QED
    BY <2>1, <2>6, <2>7
<1> QED
  BY <1>1, <1>2

(* The owner of a lock hands it to the first waiter or unlocks it.         *)
LEMMA ReleaseKeepsLocks ==
  ASSUME IInv, NEW c \in Calls, HoldsLock(c), Release(sess[c]),
         sess' = [sess EXCEPT ![c] = None],
         pc' \in [Calls -> PCs], pc'[c] = "done",
         NextOwner(sess[c]) # None => pc'[NextOwner(sess[c])] = "locked",
         \A d \in Calls : d # c /\ d # NextOwner(sess[c]) =>
           /\ HoldsLock(d)' <=> HoldsLock(d)
           /\ pc'[d] = "lockWait" <=> pc[d] = "lockWait"
  PROVE  /\ locked' \in [Sessions -> BOOLEAN]
         /\ lockQueue' \in [Sessions -> Seq(Calls)]
         /\ LockOwned' /\ LockQueueOK'
<1> USE DEF IInv, TypeOK, PCs
<1> DEFINE x == sess[c]
<1>0. x \in Sessions /\ locked[x] /\ lockQueue[x] \in Seq(Calls) /\ ~HoldsLock(c)'
  <2>1. x \in Sessions
    BY DEF CallShape, HoldsLock
  <2>2. locked[x]
    BY <2>1 DEF HoldsLock, LockOwned
  <2>3. lockQueue[x] \in Seq(Calls)
    BY <2>1
  <2>4. ~HoldsLock(c)'
    BY DEF HoldsLock
  <2> QED
    BY <2>1, <2>2, <2>3, <2>4
<1>1. \A i \in DOMAIN lockQueue[x] : lockQueue[x][i] \in Calls
  BY <1>0
<1>2. CASE lockQueue[x] = <<>>
  <2>1. locked' = [locked EXCEPT ![x] = FALSE] /\ lockQueue' = lockQueue
    BY <1>2 DEF Release
  <2>2. NextOwner(x) = None /\ None \notin Calls
    BY <1>2, CallsAssumption DEF NextOwner
  <2>3. \A d \in Calls : d # c => /\ HoldsLock(d)' <=> HoldsLock(d)
                                  /\ pc'[d] = "lockWait" <=> pc[d] = "lockWait"
                                  /\ sess'[d] = sess[d]
    BY <2>2
  <2>4. LockOwned'
    <3>1. \A d, e \in Calls : HoldsLock(d)' /\ HoldsLock(e)' /\ sess'[d] = sess'[e] => d = e
      BY <1>0, <2>1, <2>3 DEF LockOwned
    <3>2. \A d \in Calls : HoldsLock(d)' => locked'[sess'[d]]
      BY <1>0, <2>1, <2>3 DEF LockOwned
    <3>3. ASSUME NEW y \in Sessions, locked'[y]
          PROVE  \E d \in Calls : HoldsLock(d)' /\ sess'[d] = y
      <4>1. y # x /\ locked[y]
        BY <1>0, <2>1, <3>3
      <4>2. PICK d \in Calls : HoldsLock(d) /\ sess[d] = y
        BY <4>1 DEF LockOwned
      <4> QED
        BY <2>3, <4>1, <4>2
    <3> QED
      BY <3>1, <3>2, <3>3 DEF LockOwned
  <2>5. pc[c] # "lockWait"
    BY DEF HoldsLock
  <2>6. LockQueueOK'
    <3> SUFFICES ASSUME NEW y \in Sessions, NEW i \in DOMAIN lockQueue[y]
                 PROVE  /\ pc'[lockQueue[y][i]] = "lockWait"
                        /\ sess'[lockQueue[y][i]] = y
                        /\ \A j \in DOMAIN lockQueue[y] :
                             lockQueue[y][j] = lockQueue[y][i] => j = i
      BY <2>1 DEF LockQueueOK
    <3>1. lockQueue[y][i] \in Calls /\ lockQueue[y][i] # c
      BY <2>5 DEF LockQueueOK
    <3> QED
      BY <2>3, <3>1 DEF LockQueueOK
  <2> QED
    BY <1>0, <2>1, <2>4, <2>6
<1>3. CASE lockQueue[x] # <<>>
  <2>1. lockQueue' = [lockQueue EXCEPT ![x] = Tail(@)] /\ locked' = locked
    BY <1>3 DEF Release
  <2>2. \A i, j \in DOMAIN lockQueue[x] : lockQueue[x][i] = lockQueue[x][j] => i = j
    BY <1>0 DEF LockQueueOK
  <2>3. PICK n \in Calls :
          /\ n = Head(lockQueue[x]) /\ n = lockQueue[x][1] /\ 1 \in DOMAIN lockQueue[x]
          /\ Tail(lockQueue[x]) \in Seq(Calls)
          /\ \A i \in DOMAIN Tail(lockQueue[x]) :
               /\ i + 1 \in DOMAIN lockQueue[x]
               /\ Tail(lockQueue[x])[i] = lockQueue[x][i + 1]
               /\ Tail(lockQueue[x])[i] # n
               /\ \A j \in DOMAIN Tail(lockQueue[x]) :
                    Tail(lockQueue[x])[i] = Tail(lockQueue[x])[j] => i = j
    <3> HIDE DEF x
    <3> QED
      BY <1>0, <1>3, <2>2, TailElements
  <2>4. NextOwner(x) = n /\ n # None /\ pc'[n] = "locked"
    BY <1>3, <2>3, CallsAssumption DEF NextOwner
  <2>5. pc[n] = "lockWait" /\ sess[n] = x /\ n # c
    BY <1>0, <2>3 DEF LockQueueOK, HoldsLock
  <2>6. \A d \in Calls : d # c => sess'[d] = sess[d]
    OBVIOUS
  <2>7. HoldsLock(n)' /\ ~HoldsLock(n)
    BY <2>4, <2>5 DEF HoldsLock
  <2>8. LockOwned'
    <3>1. \A d, e \in Calls : HoldsLock(d)' /\ HoldsLock(e)' /\ sess'[d] = sess'[e] => d = e
      BY <1>0, <2>1, <2>3, <2>4, <2>5, <2>6, <2>7 DEF LockOwned
    <3>2. \A d \in Calls : HoldsLock(d)' => locked'[sess'[d]]
      BY <1>0, <2>1, <2>3, <2>4, <2>5, <2>6, <2>7 DEF LockOwned
    <3>3. ASSUME NEW y \in Sessions, locked'[y]
          PROVE  \E d \in Calls : HoldsLock(d)' /\ sess'[d] = y
      <4>1. CASE y = x
        BY <2>5, <2>6, <2>7, <4>1
      <4>2. CASE y # x
        <5>1. PICK d \in Calls : HoldsLock(d) /\ sess[d] = y
          BY <2>1, <3>3 DEF LockOwned
        <5> QED
          BY <2>4, <2>5, <2>6, <4>2, <5>1
      <4> QED
        BY <4>1, <4>2
    <3> QED
      BY <3>1, <3>2, <3>3 DEF LockOwned
  <2>9. pc[c] # "lockWait"
    BY DEF HoldsLock
  <2>10. LockQueueOK'
    <3> SUFFICES ASSUME NEW y \in Sessions, NEW i \in DOMAIN lockQueue'[y]
                 PROVE  /\ pc'[lockQueue'[y][i]] = "lockWait"
                        /\ sess'[lockQueue'[y][i]] = y
                        /\ \A j \in DOMAIN lockQueue'[y] :
                             lockQueue'[y][j] = lockQueue'[y][i] => j = i
      BY DEF LockQueueOK
    <3>1. CASE y = x
      <4>1. lockQueue'[y] = Tail(lockQueue[x])
        BY <1>0, <2>1, <3>1
      <4>2. PICK k \in DOMAIN lockQueue[x] : lockQueue'[y][i] = lockQueue[x][k]
        BY <2>3, <4>1
      <4>3. lockQueue'[y][i] # n /\ lockQueue'[y][i] \in Calls /\ lockQueue'[y][i] # c
        BY <1>0, <1>1, <2>3, <2>9, <4>1, <4>2 DEF LockQueueOK
      <4> QED
        BY <1>0, <2>3, <2>4, <2>6, <3>1, <4>1, <4>2, <4>3 DEF LockQueueOK
    <3>2. CASE y # x
      <4>1. lockQueue'[y] = lockQueue[y]
        BY <1>0, <2>1, <3>2
      <4>2. lockQueue[y][i] \in Calls /\ lockQueue[y][i] # c /\ lockQueue[y][i] # n
        BY <2>5, <2>9, <3>2, <4>1 DEF LockQueueOK
      <4> QED
        BY <2>4, <2>6, <4>1, <4>2 DEF LockQueueOK
    <3> QED
      BY <3>1, <3>2
  <2> QED
    BY <1>0, <2>1, <2>3, <2>8, <2>10
<1> QED
  BY <1>2, <1>3

(* A freed slot goes to a call that waits for one, if there is any.        *)
LEMMA NextTurnWaits ==
  ASSUME IInv, NextTurn # None
  PROVE  /\ NextTurn \in Sends /\ pc[NextTurn] = "capWait"
         /\ FirstPriority \in Priorities
         /\ capQueue[FirstPriority] # <<>>
         /\ NextTurn = Head(capQueue[FirstPriority])
<1> USE DEF IInv, TypeOK, Priorities
<1>1. Queued # 0 /\ NextTurn = Head(capQueue[FirstPriority])
  BY DEF NextTurn
<1>2. /\ capQueue["interactive"] \in Seq(Sends) /\ capQueue["normal"] \in Seq(Sends)
      /\ FirstPriority \in Priorities
  BY DEF FirstPriority
<1>3. capQueue[FirstPriority] # <<>>
  BY <1>1, <1>2 DEF Queued, FirstPriority
<1>4. capQueue[FirstPriority] \in Seq(Sends)
  BY <1>2
<1>5. /\ Head(capQueue[FirstPriority]) = capQueue[FirstPriority][1]
      /\ 1 \in DOMAIN capQueue[FirstPriority]
      /\ Head(capQueue[FirstPriority]) \in Sends
  BY <1>3, <1>4, EmptySeq, HeadTailProperties
<1> QED
  BY <1>1, <1>2, <1>3, <1>5 DEF CapQueueOK

(* The part of the finally block that hands over the lock and the slot.    *)
Settles(s, holdsLock, holdsSlot) ==
  LET slotTo == IF holdsSlot THEN NextTurn ELSE None
      lockTo == IF holdsLock THEN NextOwner(sess[s]) ELSE None
  IN /\ IF holdsSlot THEN ReleaseSlot ELSE UNCHANGED capVars
     /\ IF holdsLock THEN Release(sess[s]) ELSE UNCHANGED lockVars
     /\ pc' = [c \in Calls |-> CASE c = s -> "done"
                                 [] c = slotTo -> "capGranted"
                                 [] c = lockTo -> "locked"
                                 [] OTHER -> pc[c]]
     /\ sess' = [sess EXCEPT ![s] = None]
     /\ tid' = [tid EXCEPT ![s] = None]
     /\ prio' = prio

LEMMA SettlesKeepsCalls ==
  ASSUME IInv, NEW s \in Sends, NEW hl \in BOOLEAN, NEW hs \in BOOLEAN,
         hl <=> HoldsLock(s), hs <=> HoldsSlot(s),
         pc[s] \notin {"idle", "lockWait", "capWait", "done"},
         Settles(s, hl, hs)
  PROVE  /\ pc' \in [Calls -> PCs]
         /\ pc'[s] = "done"
         /\ hs /\ NextTurn # None => /\ pc'[NextTurn] = "capGranted"
                                     /\ NextTurn # s /\ NextTurn \in Sends
                                     /\ pc[NextTurn] = "capWait"
         /\ hl /\ NextOwner(sess[s]) # None =>
              /\ pc'[NextOwner(sess[s])] = "locked"
              /\ NextOwner(sess[s]) # s /\ NextOwner(sess[s]) \in Calls
              /\ pc[NextOwner(sess[s])] = "lockWait"
         /\ \A d \in Calls : d # s /\ ~(hs /\ d = NextTurn)
                             /\ ~(hl /\ d = NextOwner(sess[s])) => pc'[d] = pc[d]
<1> USE DEF IInv, TypeOK, PCs, Calls
<1>1. hs /\ NextTurn # None => NextTurn \in Sends /\ pc[NextTurn] = "capWait"
  BY NextTurnWaits
<1>2. hl /\ NextOwner(sess[s]) # None =>
        NextOwner(sess[s]) \in Calls /\ pc[NextOwner(sess[s])] = "lockWait"
  <2>1. SUFFICES ASSUME hl, lockQueue[sess[s]] # <<>>
                 PROVE  /\ Head(lockQueue[sess[s]]) \in Calls
                        /\ pc[Head(lockQueue[sess[s]])] = "lockWait"
    BY DEF NextOwner
  <2>2. sess[s] \in Sessions /\ lockQueue[sess[s]] \in Seq(Calls)
    BY <2>1 DEF CallShape, HoldsLock
  <2>3. /\ Head(lockQueue[sess[s]]) = lockQueue[sess[s]][1]
        /\ 1 \in DOMAIN lockQueue[sess[s]]
        /\ Head(lockQueue[sess[s]]) \in Calls
    BY <2>1, <2>2, EmptySeq, HeadTailProperties
  <2> QED
    BY <2>2, <2>3 DEF LockQueueOK
<1>3. None \notin Calls
  BY CallsAssumption
<1> QED
  BY <1>1, <1>2, <1>3 DEF Settles

LEMMA SettlesKeepsLocks ==
  ASSUME IInv, NEW s \in Sends, NEW hl \in BOOLEAN, NEW hs \in BOOLEAN,
         hl <=> HoldsLock(s), hs <=> HoldsSlot(s),
         pc[s] \notin {"idle", "lockWait", "capWait", "done"},
         Settles(s, hl, hs)
  PROVE  /\ locked' \in [Sessions -> BOOLEAN]
         /\ lockQueue' \in [Sessions -> Seq(Calls)]
         /\ LockOwned' /\ LockQueueOK'
<1>1. s \in Calls /\ None \notin Calls
  BY CallsAssumption DEF Calls
<1>2. /\ pc' \in [Calls -> PCs]
      /\ pc'[s] = "done"
      /\ hs /\ NextTurn # None => /\ pc'[NextTurn] = "capGranted"
                                  /\ NextTurn # s /\ NextTurn \in Sends
                                  /\ pc[NextTurn] = "capWait"
      /\ hl /\ NextOwner(sess[s]) # None => pc'[NextOwner(sess[s])] = "locked"
      /\ \A d \in Calls : d # s /\ ~(hs /\ d = NextTurn)
                          /\ ~(hl /\ d = NextOwner(sess[s])) => pc'[d] = pc[d]
  BY SettlesKeepsCalls
<1>3. sess' = [sess EXCEPT ![s] = None]
  BY DEF Settles
<1>4. \A d \in Calls : d # s /\ ~(hl /\ d = NextOwner(sess[s])) =>
        /\ HoldsLock(d)' <=> HoldsLock(d)
        /\ pc'[d] = "lockWait" <=> pc[d] = "lockWait"
  <2> SUFFICES ASSUME NEW d \in Calls, d # s, ~(hl /\ d = NextOwner(sess[s]))
               PROVE  /\ HoldsLock(d)' <=> HoldsLock(d)
                      /\ pc'[d] = "lockWait" <=> pc[d] = "lockWait"
    OBVIOUS
  <2>1. CASE hs /\ d = NextTurn
    <3>1. pc'[d] = "capGranted" /\ pc[d] = "capWait"
      BY <1>1, <1>2, <2>1
    <3> QED
      BY <3>1 DEF HoldsLock
  <2>2. CASE ~(hs /\ d = NextTurn)
    <3>1. pc'[d] = pc[d]
      BY <1>2, <2>2
    <3> QED
      BY <3>1 DEF HoldsLock
  <2> QED
    BY <2>1, <2>2
<1>5. CASE hl
  <2>1. Release(sess[s])
    BY <1>5 DEF Settles
  <2> QED
    BY <1>1, <1>2, <1>3, <1>4, <1>5, <2>1, ReleaseKeepsLocks
<1>6. CASE ~hl
  <2> USE DEF IInv, TypeOK
  <2>1. locked' = locked /\ lockQueue' = lockQueue
    BY <1>6 DEF Settles, lockVars
  <2>2. ~HoldsLock(s)' /\ ~HoldsLock(s) /\ pc[s] # "lockWait"
    BY <1>2, <1>6 DEF HoldsLock
  <2>3. \A d \in Calls : d # s => sess'[d] = sess[d]
    BY <1>1, <1>3
  <2>4. \A d \in Calls : HoldsLock(d)' <=> HoldsLock(d)
    BY <1>4, <1>6, <2>2
  <2>6. LockOwned'
    <3>1. \A d \in Calls : HoldsLock(d) => sess'[d] = sess[d]
      BY <2>2, <2>3
    <3>2. \A d, e \in Calls : HoldsLock(d)' /\ HoldsLock(e)' /\ sess'[d] = sess'[e] => d = e
      BY <2>4, <3>1 DEF LockOwned
    <3>3. \A d \in Calls : HoldsLock(d)' => locked'[sess'[d]]
      BY <2>1, <2>4, <3>1 DEF LockOwned
    <3>4. \A y \in Sessions : locked'[y] => \E d \in Calls : HoldsLock(d)' /\ sess'[d] = y
      BY <2>1, <2>4, <3>1 DEF LockOwned
    <3> QED
      BY <3>2, <3>3, <3>4 DEF LockOwned
  <2>5. LockQueueOK'
    BY <1>4, <1>6, <2>1, <2>2, <2>3 DEF LockQueueOK
  <2> QED
    BY <2>1, <2>5, <2>6
<1> QED
  BY <1>5, <1>6

LEMMA SettlesKeepsSlots ==
  ASSUME IInv, NEW s \in Sends, NEW hl \in BOOLEAN, NEW hs \in BOOLEAN,
         hl <=> HoldsLock(s), hs <=> HoldsSlot(s),
         pc[s] \notin {"idle", "lockWait", "capWait", "done"},
         Settles(s, hl, hs)
  PROVE  /\ active' \in 0..MaxActive
         /\ capQueue' \in [Priorities -> Seq(Sends)]
         /\ CapQueueOK' /\ SlotsExact'
<1> USE DEF IInv, TypeOK
<1>1. s \in Calls /\ None \notin Calls /\ Sends \subseteq Calls /\ MaxActive \in Nat
  BY CallsAssumption, CapacityAssumption DEF Calls
<1>2. /\ pc'[s] = "done"
      /\ hs /\ NextTurn # None => /\ pc'[NextTurn] = "capGranted"
                                  /\ NextTurn # s /\ NextTurn \in Sends
                                  /\ pc[NextTurn] = "capWait"
      /\ hl /\ NextOwner(sess[s]) # None =>
           /\ pc'[NextOwner(sess[s])] = "locked"
           /\ NextOwner(sess[s]) # s /\ NextOwner(sess[s]) \in Calls
           /\ pc[NextOwner(sess[s])] = "lockWait"
      /\ \A d \in Calls : d # s /\ ~(hs /\ d = NextTurn)
                          /\ ~(hl /\ d = NextOwner(sess[s])) => pc'[d] = pc[d]
  BY SettlesKeepsCalls
<1>3. active = Cardinality(Holders) /\ (s \in Holders <=> hs)
  BY DEF SlotsExact, Holders
<1>4. \A d \in Sends : d # s /\ ~(hs /\ d = NextTurn) =>
        /\ d \in Holders' <=> d \in Holders
        /\ pc[d] = "capWait" => pc'[d] = "capWait"
  <2> SUFFICES ASSUME NEW d \in Sends, d # s, ~(hs /\ d = NextTurn)
               PROVE  /\ d \in Holders' <=> d \in Holders
                      /\ pc[d] = "capWait" => pc'[d] = "capWait"
    OBVIOUS
  <2>1. CASE hl /\ d = NextOwner(sess[s])
    BY <1>1, <1>2, <2>1 DEF Holders, HoldsSlot
  <2>2. CASE ~(hl /\ d = NextOwner(sess[s]))
    BY <1>1, <1>2, <2>2 DEF Holders, HoldsSlot
  <2> QED
    BY <2>1, <2>2
<1>5. s \notin Holders' /\ Holders' \subseteq Sends /\ Holders \subseteq Sends
  BY <1>2 DEF Holders, HoldsSlot
<1>6. prio' = prio
  BY DEF Settles
<1>7. CASE ~hs
  <2>1. active' = active /\ capQueue' = capQueue
    BY <1>7 DEF Settles, capVars
  <2>2. Holders' = Holders
    <3>1. \A d \in Sends : d # s => (d \in Holders' <=> d \in Holders)
      BY <1>4, <1>7
    <3>2. s \notin Holders
      BY <1>3, <1>7
    <3> QED
      BY ONLY <1>5, <3>1, <3>2
  <2>3. SlotsExact'
    BY <1>3, <2>1, <2>2 DEF SlotsExact, Holders
  <2>4. CapQueueOK'
    <3>1. \A p \in Priorities : \A i \in DOMAIN capQueue[p] :
            capQueue[p][i] \in Sends /\ capQueue[p][i] # s
      BY DEF CapQueueOK
    <3>2. \A d \in Sends : d # s /\ pc[d] = "capWait" => pc'[d] = "capWait"
      BY <1>4, <1>7
    <3>3. ASSUME NEW p \in Priorities, NEW i \in DOMAIN capQueue[p]
          PROVE  /\ pc'[capQueue[p][i]] = "capWait"
                 /\ prio[capQueue[p][i]] = p
                 /\ \A j \in DOMAIN capQueue[p] : capQueue[p][j] = capQueue[p][i] => j = i
      BY <3>1, <3>2 DEF CapQueueOK
    <3> QED
      BY <1>6, <2>1, <3>3 DEF CapQueueOK
  <2> QED
    BY <2>1, <2>3, <2>4
<1>8. CASE hs /\ NextTurn = None
  <2>1. Queued = 0
    <3>1. SUFFICES ASSUME Queued # 0 PROVE FALSE
      OBVIOUS
    <3>2. NextTurn = Head(capQueue[FirstPriority])
      BY <3>1 DEF NextTurn
    <3>3. FirstPriority \in Priorities /\ capQueue[FirstPriority] # <<>>
      BY <3>1 DEF FirstPriority, Queued, Priorities
    <3>4. capQueue[FirstPriority] \in Seq(Sends)
      BY <3>3
    <3>5. Head(capQueue[FirstPriority]) \in Sends
      BY <3>3, <3>4, HeadTailProperties
    <3> QED
      BY <1>1, <1>8, <3>2, <3>5
  <2>2. active' = active - 1 /\ capQueue' = capQueue
    BY <1>8, <2>1 DEF Settles, ReleaseSlot
  <2>3. \A d \in Sends : ~(hs /\ d = NextTurn)
    BY <1>1, <1>8
  <2>4. Holders' = Holders \ {s}
    BY <1>4, <1>5, <2>3
  <2>5. Cardinality(Holders') = Cardinality(Holders) - 1 /\ Cardinality(Holders) > 0
    <3>1. s \in Holders /\ IsFiniteSet(Holders)
      BY <1>3, <1>8, HoldersFinite
    <3>2. Cardinality(Holders') = Cardinality(Holders) - 1 /\ Cardinality(Holders) \in Nat \ {0}
      BY ONLY <2>4, <3>1, CountOneLess
    <3> QED
      BY <3>2
  <2>6. SlotsExact'
    BY <1>3, <2>2, <2>5 DEF SlotsExact, Holders
  <2>7. CapQueueOK'
    <3>1. \A p \in Priorities : \A i \in DOMAIN capQueue[p] :
            capQueue[p][i] \in Sends /\ capQueue[p][i] # s
      BY DEF CapQueueOK
    <3>2. \A d \in Sends : d # s /\ pc[d] = "capWait" => pc'[d] = "capWait"
      BY <1>4, <2>3
    <3>3. ASSUME NEW p \in Priorities, NEW i \in DOMAIN capQueue[p]
          PROVE  /\ pc'[capQueue[p][i]] = "capWait"
                 /\ prio[capQueue[p][i]] = p
                 /\ \A j \in DOMAIN capQueue[p] : capQueue[p][j] = capQueue[p][i] => j = i
      BY <3>1, <3>2 DEF CapQueueOK
    <3> QED
      BY <1>6, <2>2, <3>3 DEF CapQueueOK
  <2>8. active' \in 0..MaxActive
    BY <1>1, <1>3, <2>2, <2>5
  <2> QED
    BY <2>2, <2>6, <2>7, <2>8
<1>9. CASE hs /\ NextTurn # None
  <2>1. PICK w \in Sends, p \in Priorities :
          /\ w = NextTurn /\ p = FirstPriority /\ pc[w] = "capWait"
          /\ capQueue[p] # <<>> /\ w = Head(capQueue[p])
    BY <1>9, NextTurnWaits
  <2>2. active' = active /\ capQueue' = [capQueue EXCEPT ![p] = Tail(@)]
    <3>1. Queued # 0
      BY <1>9 DEF NextTurn
    <3> QED
      BY <1>9, <2>1, <3>1 DEF Settles, ReleaseSlot
  <2>3. w \notin Holders /\ w \in Holders' /\ w # s
    BY <1>2, <1>9, <2>1 DEF Holders, HoldsSlot
  <2>4. Holders' = (Holders \ {s}) \cup {w}
    BY <1>4, <1>5, <2>1, <2>3
  <2>5. Cardinality(Holders') = Cardinality(Holders)
    BY <1>3, <1>9, <2>3, <2>4, HoldersFinite, CountReplaced
  <2>6. SlotsExact'
    BY <1>3, <2>2, <2>5 DEF SlotsExact, Holders
  <2>7. capQueue[p] \in Seq(Sends)
        /\ \A i, j \in DOMAIN capQueue[p] : capQueue[p][i] = capQueue[p][j] => i = j
    BY DEF CapQueueOK
  <2>8. /\ Tail(capQueue[p]) \in Seq(Sends)
        /\ \A i \in DOMAIN Tail(capQueue[p]) :
             /\ i + 1 \in DOMAIN capQueue[p]
             /\ Tail(capQueue[p])[i] = capQueue[p][i + 1]
             /\ Tail(capQueue[p])[i] # w
             /\ \A j \in DOMAIN Tail(capQueue[p]) :
                  Tail(capQueue[p])[i] = Tail(capQueue[p])[j] => i = j
    BY ONLY <2>1, <2>7, TailElements
  <2>9. CapQueueOK'
    <3> SUFFICES ASSUME NEW q \in Priorities, NEW i \in DOMAIN capQueue'[q]
                 PROVE  /\ pc'[capQueue'[q][i]] = "capWait"
                        /\ prio'[capQueue'[q][i]] = q
                        /\ \A j \in DOMAIN capQueue'[q] :
                             capQueue'[q][j] = capQueue'[q][i] => j = i
      BY DEF CapQueueOK
    <3>1. CASE q = p
      <4>1. capQueue'[q] = Tail(capQueue[p])
        BY <2>2, <3>1
      <4>2. /\ capQueue'[q][i] \in Sends /\ capQueue'[q][i] # w
            /\ pc[capQueue'[q][i]] = "capWait" /\ prio[capQueue'[q][i]] = p
        <5>1. i \in DOMAIN Tail(capQueue[p])
          BY <4>1
        <5>2. i + 1 \in DOMAIN capQueue[p] /\ capQueue'[q][i] = capQueue[p][i + 1]
          BY <2>8, <4>1, <5>1
        <5>3. capQueue'[q][i] # w
          BY <2>8, <4>1, <5>1
        <5> QED
          BY <2>7, <5>2, <5>3 DEF CapQueueOK
      <4>3. capQueue'[q][i] # s
        BY <4>2
      <4> QED
        BY <1>4, <1>6, <2>1, <2>8, <3>1, <4>1, <4>2, <4>3
    <3>2. CASE q # p
      <4>1. capQueue'[q] = capQueue[q]
        BY <2>2, <3>2
      <4>2. /\ capQueue[q][i] \in Sends /\ pc[capQueue[q][i]] = "capWait"
            /\ prio[capQueue[q][i]] = q
        BY <4>1 DEF CapQueueOK
      <4>3. prio[w] = p
        <5>1. w = capQueue[p][1] /\ 1 \in DOMAIN capQueue[p]
          BY <2>1, <2>7, TailElements
        <5> QED
          BY <5>1 DEF CapQueueOK
      <4>4. capQueue[q][i] # w /\ capQueue[q][i] # s
        BY <3>2, <4>2, <4>3
      <4> QED
        BY <1>4, <1>6, <2>1, <4>1, <4>2, <4>4 DEF CapQueueOK
    <3> QED
      BY <3>1, <3>2
  <2> QED
    BY <2>2, <2>6, <2>8, <2>9
<1> QED
  BY <1>7, <1>8, <1>9

LEMMA SettlesKeepsAdmitted ==
  ASSUME IInv, NEW s \in Sends, NEW hl \in BOOLEAN, NEW hs \in BOOLEAN,
         hl <=> HoldsLock(s), hs <=> HoldsSlot(s),
         pc[s] \notin {"idle", "lockWait", "capWait", "done"},
         Settles(s, hl, hs), admittedTurns' = admittedTurns - 1
  PROVE  admittedTurns' \in Nat /\ AdmittedExact'
<1>1. s \in Calls /\ Sends \subseteq Calls
  BY DEF Calls
<1>2. \A d \in Sends : d # s => (Admitted(d)' <=> Admitted(d))
  <2> SUFFICES ASSUME NEW d \in Sends, d # s PROVE Admitted(d)' <=> Admitted(d)
    OBVIOUS
  <2>1. CASE hs /\ d = NextTurn
    <3>1. NextTurn # None
      BY <1>1, <2>1, CallsAssumption
    <3>2. pc'[d] = "capGranted" /\ pc[d] = "capWait"
      BY <2>1, <3>1, SettlesKeepsCalls
    <3> QED
      BY <3>2 DEF Admitted
  <2>2. CASE hl /\ d = NextOwner(sess[s])
    <3>1. NextOwner(sess[s]) # None
      BY <1>1, <2>2, CallsAssumption
    <3>2. pc'[d] = "locked" /\ pc[d] = "lockWait"
      BY <2>2, <3>1, SettlesKeepsCalls
    <3> QED
      BY <3>2 DEF Admitted
  <2>3. CASE ~(hs /\ d = NextTurn) /\ ~(hl /\ d = NextOwner(sess[s]))
    <3>1. pc'[d] = pc[d]
      BY <1>1, <2>3, SettlesKeepsCalls
    <3> QED
      BY <3>1 DEF Admitted
  <2> QED
    BY <2>1, <2>2, <2>3
<1>3. Admitted(s) /\ ~Admitted(s)'
  BY SettlesKeepsCalls DEF Admitted
<1>4. InFlight' = InFlight \ {s}
  BY ONLY <1>2, <1>3 DEF InFlight
<1>5. s \in InFlight /\ IsFiniteSet(InFlight)
  BY <1>3, FiniteAssumption, FS_Subset DEF InFlight
<1>6. Cardinality(InFlight') = Cardinality(InFlight) - 1 /\ Cardinality(InFlight) \in Nat \ {0}
  BY ONLY <1>4, <1>5, CountOneLess
<1> QED
  BY <1>6 DEF IInv, AdmittedExact

(* A send that leaves through the finally block keeps the invariant.       *)
LEMMA FinallyKeepsIInv ==
  ASSUME IInv, NEW s \in Sends, NEW hl \in BOOLEAN, NEW hs \in BOOLEAN,
         hl <=> HoldsLock(s), hs <=> HoldsSlot(s),
         pc[s] \notin {"idle", "lockWait", "capWait", "done"},
         Settles(s, hl, hs), admittedTurns' = admittedTurns - 1,
         history' = [history EXCEPT ![s] = <<>>],
         seen' = [seen EXCEPT ![s] = None],
         controller' = [controller EXCEPT ![s] = FALSE],
         activeTurns' \in [Sessions -> Sends \cup {None}],
         status' \in [Sessions -> SessionStatus],
         turns' \in [TurnIds -> TurnStatus],
         messages' \in [Sessions -> Seq(TurnIds)],
         signal' = signal, shuttingDown' = shuttingDown, crashes' = crashes
  PROVE  IInv'
<1>1. /\ pc' \in [Calls -> PCs]
      /\ pc'[s] = "done"
      /\ hs /\ NextTurn # None => /\ pc'[NextTurn] = "capGranted"
                                  /\ NextTurn # s /\ NextTurn \in Sends
                                  /\ pc[NextTurn] = "capWait"
      /\ hl /\ NextOwner(sess[s]) # None =>
           /\ pc'[NextOwner(sess[s])] = "locked"
           /\ NextOwner(sess[s]) # s /\ NextOwner(sess[s]) \in Calls
           /\ pc[NextOwner(sess[s])] = "lockWait"
      /\ \A d \in Calls : d # s /\ ~(hs /\ d = NextTurn)
                          /\ ~(hl /\ d = NextOwner(sess[s])) => pc'[d] = pc[d]
  BY SettlesKeepsCalls
<1>2. /\ locked' \in [Sessions -> BOOLEAN]
      /\ lockQueue' \in [Sessions -> Seq(Calls)]
      /\ LockOwned' /\ LockQueueOK'
  BY SettlesKeepsLocks
<1>3. /\ active' \in 0..MaxActive
      /\ capQueue' \in [Priorities -> Seq(Sends)]
      /\ CapQueueOK' /\ SlotsExact'
  BY SettlesKeepsSlots
<1>4. admittedTurns' \in Nat /\ AdmittedExact'
  BY SettlesKeepsAdmitted
<1>5. sess' = [sess EXCEPT ![s] = None] /\ tid' = [tid EXCEPT ![s] = None] /\ prio' = prio
  BY DEF Settles
<1>6. s \in Calls /\ Sends \subseteq Calls /\ Closers \subseteq Calls
      /\ Sends \cap Closers = {} /\ None \notin Calls
  BY CallsAssumption DEF Calls
<1>7. \A d \in Calls : d # s => \/ pc'[d] = pc[d]
                                \/ pc[d] = "capWait" /\ pc'[d] = "capGranted"
                                \/ pc[d] = "lockWait" /\ pc'[d] = "locked"
  <2> SUFFICES ASSUME NEW d \in Calls, d # s
               PROVE  \/ pc'[d] = pc[d]
                      \/ pc[d] = "capWait" /\ pc'[d] = "capGranted"
                      \/ pc[d] = "lockWait" /\ pc'[d] = "locked"
    OBVIOUS
  <2>1. CASE hs /\ d = NextTurn
    BY <1>1, <1>6, <2>1
  <2>2. CASE hl /\ d = NextOwner(sess[s])
    BY <1>1, <1>6, <2>2
  <2> QED
    BY <1>1, <2>1, <2>2
<1>8. CallShape'
  <2>1. CallShape /\ sess \in [Calls -> Sessions \cup {None}]
        /\ tid \in [Sends -> TurnIds \cup {None}]
    BY DEF IInv, TypeOK
  <2> QED
    BY ONLY <2>1, <1>1, <1>5, <1>6, <1>7 DEF CallShape
<1>9. TypeOK'
  <2>1. history' \in [Sends -> Seq(TurnIds)] /\ controller' \in [Sends -> BOOLEAN]
    <3>1. <<>> \in Seq(TurnIds)
      BY EmptySeq
    <3> QED
      BY <3>1 DEF IInv, TypeOK
  <2>2. /\ sess' \in [Calls -> Sessions \cup {None}]
        /\ tid' \in [Sends -> TurnIds \cup {None}]
        /\ prio' \in [Sends -> Priorities]
        /\ seen' \in [Calls -> SessionStatus \cup {None}]
        /\ signal' \in [Sends -> BOOLEAN] /\ shuttingDown' \in BOOLEAN
        /\ crashes' \in 0..MaxCrashes
    BY <1>5 DEF IInv, TypeOK
  <2> QED
    BY <1>1, <1>2, <1>3, <1>4, <2>1, <2>2 DEF TypeOK
<1> QED
  BY <1>2, <1>3, <1>4, <1>8, <1>9 DEF IInv

-----------------------------------------------------------------------------
LEMMA InitIInv == Init => IInv
<1> SUFFICES ASSUME Init PROVE IInv
  OBVIOUS
<1>1. TypeOK
  <2>1. <<>> \in Seq(TurnIds) /\ <<>> \in Seq(Calls) /\ <<>> \in Seq(Sends)
    BY EmptySeq
  <2>2. 0 \in 0..MaxActive /\ 0 \in 0..MaxCrashes /\ 0 \in Nat
    BY CapacityAssumption, CrashAssumption
  <2>3. /\ "idle" \in PCs /\ "normal" \in Priorities /\ "ready" \in SessionStatus
        /\ "none" \in TurnStatus
    BY DEF PCs, Priorities, SessionStatus, TurnStatus
  <2> QED
    BY <2>1, <2>2, <2>3 DEF Init, TypeOK
<1>2. CallShape /\ LockOwned
  BY DEF Init, CallShape, LockOwned, HoldsLock, Calls
<1>3. LockQueueOK /\ CapQueueOK
  BY DEF Init, LockQueueOK, CapQueueOK
<1>4. Holders = {} /\ InFlight = {}
  BY DEF Init, Holders, HoldsSlot, InFlight, Admitted, Calls
<1>5. SlotsExact /\ AdmittedExact
  BY <1>4, FS_EmptySet DEF Init, SlotsExact, AdmittedExact, Holders
<1> QED
  BY <1>1, <1>2, <1>3, <1>5 DEF IInv

(* Counting one more send in flight.                                       *)
LEMMA AdmitOneMore ==
  ASSUME IInv, NEW s \in Sends, ~Admitted(s), Admitted(s)',
         \A d \in Sends : d # s => (Admitted(d)' <=> Admitted(d)),
         admittedTurns' = admittedTurns + 1
  PROVE  admittedTurns' \in Nat /\ AdmittedExact'
<1>1. InFlight' = InFlight \cup {s} /\ s \notin InFlight
  BY DEF InFlight
<1>2. IsFiniteSet(InFlight)
  BY FiniteAssumption, FS_Subset DEF InFlight
<1>3. Cardinality(InFlight') = Cardinality(InFlight) + 1
  BY ONLY <1>1, <1>2, CountOneMore
<1> QED
  BY <1>3 DEF IInv, TypeOK, AdmittedExact

(* Steps that move no call between the sets that are counted.              *)
LEMMA CountsUnchanged ==
  ASSUME IInv, active' = active, admittedTurns' = admittedTurns,
         \A d \in Sends : (HoldsSlot(d)' <=> HoldsSlot(d)) /\ (Admitted(d)' <=> Admitted(d))
  PROVE  SlotsExact' /\ AdmittedExact'
<1>1. Holders' = Holders /\ InFlight' = InFlight
  BY DEF Holders, InFlight
<1> QED
  BY <1>1 DEF IInv, SlotsExact, AdmittedExact, Holders

LEMMA NextIInv == IInv /\ [Next]_vars => IInv'
<1> SUFFICES ASSUME IInv, [Next]_vars PROVE IInv'
  OBVIOUS
<1>0. /\ Sends \subseteq Calls /\ Closers \subseteq Calls
      /\ Sends \cap Closers = {} /\ None \notin Calls
      /\ \A c \in Calls : c \in Sends \/ c \in Closers
  BY CallsAssumption DEF Calls
<1>1. ASSUME NEW s \in Sends, SendRefused(s)
      PROVE  IInv'
  <2> USE DEF IInv, TypeOK
  <2>1. /\ pc[s] = "idle" /\ pc' = [pc EXCEPT ![s] = "done"] /\ "done" \in PCs
    BY <1>1 DEF SendRefused, PCs
  <2>2. UNCHANGED <<sess, prio, tid, history, seen, signal, controller, locked, lockQueue, active,
                    capQueue, admittedTurns, activeTurns, shuttingDown, status, turns,
                    messages, crashes>>
    BY <1>1 DEF SendRefused, lockVars, capVars, dbVars
  <2>3. TypeOK'
    BY <2>1, <2>2
  <2>4. CallShape'
    BY <1>0, <2>1, <2>2 DEF CallShape
  <2>5. \A d \in Calls : HoldsLock(d)' <=> HoldsLock(d)
    BY <2>1 DEF HoldsLock
  <2>6. LockOwned'
    BY <2>2, <2>5 DEF LockOwned
  <2>7. LockQueueOK' /\ CapQueueOK'
    BY <1>0, <2>1, <2>2 DEF LockQueueOK, CapQueueOK
  <2>8. SlotsExact' /\ AdmittedExact'
    <3>1. \A d \in Sends : (HoldsSlot(d)' <=> HoldsSlot(d)) /\ (Admitted(d)' <=> Admitted(d))
      BY <1>0, <2>1 DEF HoldsSlot, Admitted
    <3> QED
      BY <2>2, <3>1, CountsUnchanged
  <2> QED
    BY <2>3, <2>4, <2>6, <2>7, <2>8
<1>2. ASSUME NEW s \in Sends, NEW x \in Sessions, NEW p \in Priorities, SendBegin(s, x, p)
      PROVE  IInv'
  <2>1. /\ pc[s] = "idle" /\ Acquire(s, x) /\ sess' = [sess EXCEPT ![s] = x]
        /\ prio' = [prio EXCEPT ![s] = p] /\ admittedTurns' = admittedTurns + 1
    BY <1>2 DEF SendBegin
  <2>2. UNCHANGED <<tid, history, seen, signal, controller, active, capQueue, activeTurns,
                    shuttingDown, status, turns, messages, crashes>>
    BY <1>2 DEF SendBegin, capVars, dbVars
  <2>3. /\ pc' \in [Calls -> PCs] /\ locked' \in [Sessions -> BOOLEAN]
        /\ lockQueue' \in [Sessions -> Seq(Calls)]
        /\ sess' \in [Calls -> Sessions \cup {None}]
        /\ pc'[s] \in {"lockWait", "locked"}
        /\ \A d \in Calls : d # s => pc'[d] = pc[d] /\ sess'[d] = sess[d]
        /\ LockOwned' /\ LockQueueOK'
    BY <1>0, <2>1, AcquireKeepsLocks
  <2>4. CapQueueOK'
    <3>1. \A q \in Priorities : \A i \in DOMAIN capQueue[q] :
            capQueue[q][i] \in Sends /\ capQueue[q][i] # s
      BY <2>1 DEF IInv, TypeOK, CapQueueOK
    <3>2. \A q \in Priorities : \A i \in DOMAIN capQueue[q] :
            /\ pc'[capQueue[q][i]] = "capWait"
            /\ prio'[capQueue[q][i]] = q
      BY <1>0, <2>1, <2>3, <3>1 DEF IInv, TypeOK, CapQueueOK
    <3>3. CapQueueOK
      BY DEF IInv
    <3> QED
      BY ONLY <2>2, <3>2, <3>3 DEF CapQueueOK
  <2>5. admittedTurns' \in Nat /\ AdmittedExact'
    <3>1. ~Admitted(s) /\ Admitted(s)'
      BY <2>1, <2>3 DEF Admitted
    <3>2. \A d \in Sends : d # s => (Admitted(d)' <=> Admitted(d))
      BY <1>0, <2>3 DEF Admitted
    <3> QED
      BY <2>1, <3>1, <3>2, AdmitOneMore
  <2>6. SlotsExact'
    <3>1. \A d \in Sends : HoldsSlot(d)' <=> HoldsSlot(d)
      BY <1>0, <2>1, <2>3 DEF HoldsSlot
    <3> QED
      BY <2>2, <3>1 DEF IInv, SlotsExact
  <2>7. CallShape'
    <3>1. CallShape
      BY DEF IInv
    <3> QED
      BY ONLY <1>0, <2>1, <2>2, <2>3, <3>1, s \in Sends, x \in Sessions DEF CallShape
  <2>8. TypeOK'
    BY <2>1, <2>2, <2>3, <2>5 DEF IInv, TypeOK
  <2> QED
    BY <2>3, <2>4, <2>5, <2>6, <2>7, <2>8 DEF IInv
<1>3. ASSUME NEW s \in Sends, SendLockedThrows(s)
      PROVE  IInv'
  <2>1. pc[s] = "locked" /\ HoldsLock(s) /\ ~HoldsSlot(s)
    BY <1>3 DEF SendLockedThrows, HoldsLock, HoldsSlot
  <2>2. Finally(s, TRUE, FALSE, activeTurns, status)
    BY <1>3 DEF SendLockedThrows
  <2>3. turns' \in [TurnIds -> TurnStatus] /\ messages' \in [Sessions -> Seq(TurnIds)]
    BY <1>3 DEF SendLockedThrows, IInv, TypeOK
  <2>4. Settles(s, TRUE, FALSE)
    BY <2>2 DEF Finally, Settles
  <2>5. /\ activeTurns' \in [Sessions -> Sends \cup {None}]
        /\ status' \in [Sessions -> SessionStatus]
    BY <2>2 DEF Finally, AfterTurn, SessionStatus, IInv, TypeOK
  <2>6. /\ admittedTurns' = admittedTurns - 1
        /\ history' = [history EXCEPT ![s] = <<>>]
        /\ seen' = [seen EXCEPT ![s] = None]
        /\ controller' = [controller EXCEPT ![s] = FALSE]
        /\ signal' = signal /\ shuttingDown' = shuttingDown /\ crashes' = crashes
    BY <2>2 DEF Finally
  <2> QED
    BY <2>1, <2>3, <2>4, <2>5, <2>6, FinallyKeepsIInv
<1>4. ASSUME NEW s \in Sends, NEW t \in TurnIds, SendAsks(s, t)
      PROVE  IInv'
  <2> USE DEF IInv, TypeOK
  <2>1. /\ pc[s] = "checking" /\ tid' = [tid EXCEPT ![s] = t]
        /\ seen' = [seen EXCEPT ![s] = None]
        /\ history' = [history EXCEPT ![s] = messages[sess[s]]]
    BY <1>4 DEF SendAsks
  <2>2. UNCHANGED <<sess, prio, signal, controller, locked, lockQueue, admittedTurns,
                    activeTurns, shuttingDown, status, turns, messages, crashes>>
    BY <1>4 DEF SendAsks, lockVars, dbVars
  <2>3. sess[s] \in Sessions
    BY <1>0, <2>1 DEF CallShape
  <2>4. CASE /\ active < MaxActive /\ active' = active + 1
             /\ pc' = [pc EXCEPT ![s] = "capGranted"] /\ capQueue' = capQueue
    <3>1. /\ active' = active + 1 /\ pc' = [pc EXCEPT ![s] = "capGranted"]
          /\ capQueue' = capQueue
      BY <2>4
    <3>2. active' \in 0..MaxActive
      BY <2>4, CapacityAssumption
    <3>3. TypeOK'
      BY <1>0, <2>1, <2>2, <2>3, <3>1, <3>2 DEF PCs
    <3>4. CallShape'
      BY <1>0, <2>1, <2>2, <2>3, <3>1 DEF CallShape
    <3>5. \A d \in Calls : HoldsLock(d)' <=> HoldsLock(d)
      BY <1>0, <2>1, <3>1 DEF HoldsLock
    <3>6. LockOwned'
      BY <2>2, <3>5 DEF LockOwned
    <3>7. LockQueueOK' /\ CapQueueOK'
      BY <1>0, <2>1, <2>2, <3>1 DEF LockQueueOK, CapQueueOK
    <3>8. SlotsExact'
      <4>1. /\ s \notin Holders /\ s \in Holders'
            /\ \A d \in Sends : d # s => (d \in Holders' <=> d \in Holders)
        BY <1>0, <2>1, <3>1 DEF Holders, HoldsSlot
      <4>2. Holders' = Holders \cup {s}
        BY ONLY <4>1, s \in Sends DEF Holders
      <4>3. Cardinality(Holders') = Cardinality(Holders) + 1
        BY ONLY <4>1, <4>2, HoldersFinite, CountOneMore
      <4> QED
        BY <3>1, <4>3 DEF SlotsExact, Holders
    <3>9. AdmittedExact'
      <4>1. \A d \in Sends : Admitted(d)' <=> Admitted(d)
        BY <1>0, <2>1, <3>1 DEF Admitted
      <4> QED
        BY <2>2, <4>1 DEF AdmittedExact, InFlight
    <3> QED
      BY <3>3, <3>4, <3>6, <3>7, <3>8, <3>9
  <2>5. CASE /\ capQueue' = [capQueue EXCEPT ![prio[s]] = Append(@, s)]
             /\ pc' = [pc EXCEPT ![s] = "capWait"] /\ active' = active
    <3>1. /\ capQueue' = [capQueue EXCEPT ![prio[s]] = Append(@, s)]
          /\ pc' = [pc EXCEPT ![s] = "capWait"] /\ active' = active
      BY <2>5
    <3>2. capQueue[prio[s]] \in Seq(Sends) /\ prio[s] \in Priorities
      OBVIOUS
    <3>3. /\ Append(capQueue[prio[s]], s) \in Seq(Sends)
          /\ DOMAIN Append(capQueue[prio[s]], s)
               = DOMAIN capQueue[prio[s]] \cup {Len(capQueue[prio[s]]) + 1}
          /\ Len(capQueue[prio[s]]) + 1 \notin DOMAIN capQueue[prio[s]]
          /\ \A i \in DOMAIN capQueue[prio[s]] :
               Append(capQueue[prio[s]], s)[i] = capQueue[prio[s]][i]
          /\ Append(capQueue[prio[s]], s)[Len(capQueue[prio[s]]) + 1] = s
      BY ONLY <3>2, s \in Sends, AppendElements
    <3>4. TypeOK'
      BY <1>0, <2>1, <2>2, <2>3, <3>1, <3>3 DEF PCs
    <3>5. CallShape'
      BY <1>0, <2>1, <2>2, <2>3, <3>1 DEF CallShape
    <3>6. \A d \in Calls : HoldsLock(d)' <=> HoldsLock(d)
      BY <1>0, <2>1, <3>1 DEF HoldsLock
    <3>7. LockOwned'
      BY <2>2, <3>6 DEF LockOwned
    <3>8. LockQueueOK'
      BY <1>0, <2>1, <2>2, <3>1 DEF LockQueueOK
    <3>9. CapQueueOK'
      <4> SUFFICES ASSUME NEW q \in Priorities, NEW i \in DOMAIN capQueue'[q]
                   PROVE  /\ pc'[capQueue'[q][i]] = "capWait"
                          /\ prio[capQueue'[q][i]] = q
                          /\ \A j \in DOMAIN capQueue'[q] :
                               capQueue'[q][j] = capQueue'[q][i] => j = i
        BY <2>2 DEF CapQueueOK
      <4>1. \A j \in DOMAIN capQueue[q] :
              /\ capQueue[q][j] \in Sends /\ capQueue[q][j] # s
              /\ pc'[capQueue[q][j]] = "capWait" /\ prio[capQueue[q][j]] = q
              /\ \A k \in DOMAIN capQueue[q] : capQueue[q][k] = capQueue[q][j] => k = j
        BY <1>0, <2>1, <3>1 DEF CapQueueOK
      <4>2. CASE q # prio[s]
        BY <3>1, <4>1, <4>2
      <4>3. CASE q = prio[s]
        <5>1. capQueue'[q] = Append(capQueue[q], s)
          BY <3>1, <3>2, <4>3
        <5>2. pc'[s] = "capWait"
          BY <1>0, <3>1
        <5> QED
          BY ONLY <3>3, <4>1, <4>3, <5>1, <5>2, i \in DOMAIN capQueue'[q]
      <4> QED
        BY <4>2, <4>3
    <3>10. SlotsExact' /\ AdmittedExact'
      <4>1. \A d \in Sends : (HoldsSlot(d)' <=> HoldsSlot(d)) /\ (Admitted(d)' <=> Admitted(d))
        BY <1>0, <2>1, <3>1 DEF HoldsSlot, Admitted
      <4> QED
        BY <2>2, <3>1, <4>1, CountsUnchanged
    <3> QED
      BY <3>4, <3>5, <3>7, <3>8, <3>9, <3>10
  <2>6. CASE pc' = [pc EXCEPT ![s] = "capRejected"] /\ active' = active /\ capQueue' = capQueue
    <3>1. TypeOK'
      BY <1>0, <2>1, <2>2, <2>3, <2>6 DEF PCs
    <3>2. CallShape'
      BY <1>0, <2>1, <2>2, <2>3, <2>6 DEF CallShape
    <3>3. \A d \in Calls : HoldsLock(d)' <=> HoldsLock(d)
      BY <1>0, <2>1, <2>6 DEF HoldsLock
    <3>4. LockOwned'
      BY <2>2, <3>3 DEF LockOwned
    <3>5. LockQueueOK' /\ CapQueueOK'
      BY <1>0, <2>1, <2>2, <2>6 DEF LockQueueOK, CapQueueOK
    <3>6. SlotsExact' /\ AdmittedExact'
      <4>1. \A d \in Sends : (HoldsSlot(d)' <=> HoldsSlot(d)) /\ (Admitted(d)' <=> Admitted(d))
        BY <1>0, <2>1, <2>6 DEF HoldsSlot, Admitted
      <4> QED
        BY <2>2, <2>6, <4>1, CountsUnchanged
    <3> QED
      BY <3>1, <3>2, <3>4, <3>5, <3>6
  <2> QED
    BY <1>4, <2>4, <2>5, <2>6 DEF SendAsks, capVars
<1>5. ASSUME NEW s \in Sends, SendStarts(s)
      PROVE  IInv'
  <2> USE DEF IInv, TypeOK
  <2>1. /\ pc[s] = "capGranted" /\ pc' = [pc EXCEPT ![s] = "running"]
        /\ activeTurns' = [activeTurns EXCEPT ![sess[s]] = s]
        /\ turns' = [turns EXCEPT ![tid[s]] = "running"]
        /\ status' = [status EXCEPT ![sess[s]] = "busy"]
    BY <1>5 DEF SendStarts
  <2>2. UNCHANGED <<sess, prio, tid, history, seen, signal, controller, locked, lockQueue, active,
                    capQueue, admittedTurns, shuttingDown, messages, crashes>>
    BY <1>5 DEF SendStarts, lockVars, capVars
  <2>3. TypeOK'
    BY <1>0, <2>1, <2>2 DEF PCs, SessionStatus, TurnStatus
  <2>4. CallShape'
    BY <1>0, <2>1, <2>2 DEF CallShape
  <2>5. \A d \in Calls : HoldsLock(d)' <=> HoldsLock(d)
    BY <2>1 DEF HoldsLock
  <2>6. LockOwned'
    BY <2>2, <2>5 DEF LockOwned
  <2>7. LockQueueOK' /\ CapQueueOK'
    BY <1>0, <2>1, <2>2 DEF LockQueueOK, CapQueueOK
  <2>8. SlotsExact' /\ AdmittedExact'
    <3>1. \A d \in Sends : (HoldsSlot(d)' <=> HoldsSlot(d)) /\ (Admitted(d)' <=> Admitted(d))
      BY <1>0, <2>1 DEF HoldsSlot, Admitted
    <3> QED
      BY <2>2, <3>1, CountsUnchanged
  <2> QED
    BY <2>3, <2>4, <2>6, <2>7, <2>8
<1>6. ASSUME NEW s \in Sends, SendStartThrows(s)
      PROVE  IInv'
  <2>1. pc[s] = "capGranted" /\ HoldsLock(s) /\ HoldsSlot(s)
    BY <1>6 DEF SendStartThrows, HoldsLock, HoldsSlot
  <2>2. PICK act \in [Sessions -> Sends \cup {None}] : Finally(s, TRUE, TRUE, act, status)
    <3>1. CASE Finally(s, TRUE, TRUE, activeTurns, status)
      BY <3>1 DEF IInv, TypeOK
    <3>2. CASE Finally(s, TRUE, TRUE, [activeTurns EXCEPT ![sess[s]] = s], status)
      <4>1. [activeTurns EXCEPT ![sess[s]] = s] \in [Sessions -> Sends \cup {None}]
        BY DEF IInv, TypeOK
      <4> QED
        BY <3>2, <4>1
    <3> QED
      BY <1>6, <3>1, <3>2 DEF SendStartThrows
  <2>3. turns' \in [TurnIds -> TurnStatus] /\ messages' \in [Sessions -> Seq(TurnIds)]
    BY <1>6 DEF SendStartThrows, IInv, TypeOK
  <2>4. Settles(s, TRUE, TRUE)
    BY <2>2 DEF Finally, Settles
  <2>5. /\ activeTurns' \in [Sessions -> Sends \cup {None}]
        /\ status' \in [Sessions -> SessionStatus]
    BY <2>2 DEF Finally, AfterTurn, SessionStatus, IInv, TypeOK
  <2>6. /\ admittedTurns' = admittedTurns - 1
        /\ history' = [history EXCEPT ![s] = <<>>]
        /\ seen' = [seen EXCEPT ![s] = None]
        /\ controller' = [controller EXCEPT ![s] = FALSE]
        /\ signal' = signal /\ shuttingDown' = shuttingDown /\ crashes' = crashes
    BY <2>2 DEF Finally
  <2> QED
    BY <2>1, <2>3, <2>4, <2>5, <2>6, FinallyKeepsIInv
<1>7. ASSUME NEW s \in Sends, NEW o \in Outcomes, TurnSettles(s, o)
      PROVE  IInv'
  <2>1. pc[s] = "running" /\ HoldsLock(s) /\ HoldsSlot(s)
    BY <1>7 DEF TurnSettles, HoldsLock, HoldsSlot
  <2>2. Finally(s, TRUE, TRUE, activeTurns, status)
    BY <1>7 DEF TurnSettles
  <2>3. turns' \in [TurnIds -> TurnStatus] /\ messages' \in [Sessions -> Seq(TurnIds)]
    <3>1. sess[s] \in Sessions /\ tid[s] \in TurnIds
      BY <1>0, <2>1 DEF IInv, CallShape
    <3>2. messages[sess[s]] \in Seq(TurnIds)
      BY <3>1 DEF IInv, TypeOK
    <3>3. Append(messages[sess[s]], tid[s]) \in Seq(TurnIds)
      BY ONLY <3>1, <3>2, AppendProperties
    <3> QED
      BY <1>7, <3>1, <3>3 DEF TurnSettles, Outcomes, TurnStatus, IInv, TypeOK
  <2>4. Settles(s, TRUE, TRUE)
    BY <2>2 DEF Finally, Settles
  <2>5. /\ activeTurns' \in [Sessions -> Sends \cup {None}]
        /\ status' \in [Sessions -> SessionStatus]
    BY <2>2 DEF Finally, AfterTurn, SessionStatus, IInv, TypeOK
  <2>6. /\ admittedTurns' = admittedTurns - 1
        /\ history' = [history EXCEPT ![s] = <<>>]
        /\ seen' = [seen EXCEPT ![s] = None]
        /\ controller' = [controller EXCEPT ![s] = FALSE]
        /\ signal' = signal /\ shuttingDown' = shuttingDown /\ crashes' = crashes
    BY <2>2 DEF Finally
  <2> QED
    BY <2>1, <2>3, <2>4, <2>5, <2>6, FinallyKeepsIInv
<1>8. ASSUME NEW s \in Sends, SendLockRejected(s)
      PROVE  IInv'
  <2>1. pc[s] = "lockRejected" /\ ~HoldsLock(s) /\ ~HoldsSlot(s)
    BY <1>8 DEF SendLockRejected, HoldsLock, HoldsSlot
  <2>2. Finally(s, FALSE, FALSE, activeTurns, status)
    BY <1>8 DEF SendLockRejected
  <2>3. turns' \in [TurnIds -> TurnStatus] /\ messages' \in [Sessions -> Seq(TurnIds)]
    BY <1>8 DEF SendLockRejected, IInv, TypeOK
  <2>4. Settles(s, FALSE, FALSE)
    BY <2>2 DEF Finally, Settles
  <2>5. /\ activeTurns' \in [Sessions -> Sends \cup {None}]
        /\ status' \in [Sessions -> SessionStatus]
    BY <2>2 DEF Finally, AfterTurn, SessionStatus, IInv, TypeOK
  <2>6. /\ admittedTurns' = admittedTurns - 1
        /\ history' = [history EXCEPT ![s] = <<>>]
        /\ seen' = [seen EXCEPT ![s] = None]
        /\ controller' = [controller EXCEPT ![s] = FALSE]
        /\ signal' = signal /\ shuttingDown' = shuttingDown /\ crashes' = crashes
    BY <2>2 DEF Finally
  <2> QED
    BY <2>1, <2>3, <2>4, <2>5, <2>6, FinallyKeepsIInv
<1>9. ASSUME NEW s \in Sends, SendCapRejected(s)
      PROVE  IInv'
  <2>1. pc[s] = "capRejected" /\ HoldsLock(s) /\ ~HoldsSlot(s)
    BY <1>9 DEF SendCapRejected, HoldsLock, HoldsSlot
  <2>2. Finally(s, TRUE, FALSE, activeTurns, status)
    BY <1>9 DEF SendCapRejected
  <2>3. turns' \in [TurnIds -> TurnStatus] /\ messages' \in [Sessions -> Seq(TurnIds)]
    BY <1>9 DEF SendCapRejected, IInv, TypeOK
  <2>4. Settles(s, TRUE, FALSE)
    BY <2>2 DEF Finally, Settles
  <2>5. /\ activeTurns' \in [Sessions -> Sends \cup {None}]
        /\ status' \in [Sessions -> SessionStatus]
    BY <2>2 DEF Finally, AfterTurn, SessionStatus, IInv, TypeOK
  <2>6. /\ admittedTurns' = admittedTurns - 1
        /\ history' = [history EXCEPT ![s] = <<>>]
        /\ seen' = [seen EXCEPT ![s] = None]
        /\ controller' = [controller EXCEPT ![s] = FALSE]
        /\ signal' = signal /\ shuttingDown' = shuttingDown /\ crashes' = crashes
    BY <2>2 DEF Finally
  <2> QED
    BY <2>1, <2>3, <2>4, <2>5, <2>6, FinallyKeepsIInv
<1>10. ASSUME NEW s \in Sends, ClientAborts(s)
       PROVE  IInv'
  <2> USE DEF IInv, TypeOK
  <2>1. /\ pc[s] # "done"
        /\ pc' = [pc EXCEPT ![s] = CASE @ = "lockWait" -> "lockRejected"
                                     [] @ = "capWait" -> "capRejected"
                                     [] OTHER -> @]
        /\ lockQueue' = [x \in Sessions |-> Without(lockQueue[x], s)]
        /\ capQueue' = [p \in Priorities |-> Without(capQueue[p], s)]
        /\ signal' = [signal EXCEPT ![s] = TRUE]
        /\ controller' = [controller EXCEPT ![s] = @ \/ pc[s] = "running"]
    BY <1>10 DEF ClientAborts
  <2>2. UNCHANGED <<sess, prio, tid, history, seen, locked, active, admittedTurns, activeTurns,
                    shuttingDown, status, turns, messages, crashes>>
    BY <1>10 DEF ClientAborts, dbVars
  <2>3. /\ \A d \in Calls : d # s => pc'[d] = pc[d]
        /\ pc'[s] = IF pc[s] = "lockWait" THEN "lockRejected"
                    ELSE IF pc[s] = "capWait" THEN "capRejected" ELSE pc[s]
        /\ pc' \in [Calls -> PCs]
    BY <1>0, <2>1 DEF PCs
  <2>4. \A x \in Sessions : lockQueue'[x] \in Seq(Calls)
    BY <2>1, WithoutSeq
  <2>5. \A p \in Priorities : capQueue'[p] \in Seq(Sends)
    BY <2>1, WithoutSeq
  <2>6. TypeOK'
    BY <2>1, <2>2, <2>3, <2>4, <2>5
  <2>7. CallShape'
    BY <1>0, <2>2, <2>3 DEF CallShape
  <2>8. \A d \in Calls : HoldsLock(d)' <=> HoldsLock(d)
    BY <1>0, <2>3 DEF HoldsLock
  <2>9. LockOwned'
    BY <2>2, <2>8 DEF LockOwned
  <2>10. LockQueueOK'
    <3> SUFFICES ASSUME NEW y \in Sessions, NEW i \in DOMAIN lockQueue'[y]
                 PROVE  /\ pc'[lockQueue'[y][i]] = "lockWait"
                        /\ sess'[lockQueue'[y][i]] = y
                        /\ \A j \in DOMAIN lockQueue'[y] :
                             lockQueue'[y][j] = lockQueue'[y][i] => j = i
      BY DEF LockQueueOK
    <3>1. /\ lockQueue[y] \in Seq(Calls) /\ lockQueue'[y] = Without(lockQueue[y], s)
          /\ \A k, j \in DOMAIN lockQueue[y] : lockQueue[y][k] = lockQueue[y][j] => k = j
      BY <2>1 DEF LockQueueOK
    <3>2. /\ lockQueue'[y][i] # s
          /\ \E n \in DOMAIN lockQueue[y] : lockQueue'[y][i] = lockQueue[y][n]
          /\ \A j \in DOMAIN lockQueue'[y] :
               lockQueue'[y][i] = lockQueue'[y][j] => i = j
      BY ONLY <3>1, WithoutElements, i \in DOMAIN lockQueue'[y]
    <3>3. PICK n \in DOMAIN lockQueue[y] : lockQueue'[y][i] = lockQueue[y][n]
      BY <3>2
    <3> QED
      BY <2>2, <2>3, <3>1, <3>2, <3>3 DEF LockQueueOK
  <2>11. CapQueueOK'
    <3> SUFFICES ASSUME NEW p \in Priorities, NEW i \in DOMAIN capQueue'[p]
                 PROVE  /\ pc'[capQueue'[p][i]] = "capWait"
                        /\ prio'[capQueue'[p][i]] = p
                        /\ \A j \in DOMAIN capQueue'[p] :
                             capQueue'[p][j] = capQueue'[p][i] => j = i
      BY DEF CapQueueOK
    <3>1. /\ capQueue[p] \in Seq(Sends) /\ capQueue'[p] = Without(capQueue[p], s)
          /\ \A k, j \in DOMAIN capQueue[p] : capQueue[p][k] = capQueue[p][j] => k = j
      BY <2>1 DEF CapQueueOK
    <3>2. /\ capQueue'[p][i] # s
          /\ \E n \in DOMAIN capQueue[p] : capQueue'[p][i] = capQueue[p][n]
          /\ \A j \in DOMAIN capQueue'[p] : capQueue'[p][i] = capQueue'[p][j] => i = j
      BY ONLY <3>1, WithoutElements, i \in DOMAIN capQueue'[p]
    <3>3. PICK n \in DOMAIN capQueue[p] : capQueue'[p][i] = capQueue[p][n]
      BY <3>2
    <3> QED
      BY <1>0, <2>2, <2>3, <3>1, <3>2, <3>3 DEF CapQueueOK
  <2>12. SlotsExact' /\ AdmittedExact'
    <3>1. \A d \in Sends : (HoldsSlot(d)' <=> HoldsSlot(d)) /\ (Admitted(d)' <=> Admitted(d))
      BY <1>0, <2>3 DEF HoldsSlot, Admitted
    <3> QED
      BY <2>2, <3>1, CountsUnchanged
  <2> QED
    BY <2>6, <2>7, <2>9, <2>10, <2>11, <2>12
<1>11. ASSUME UNCHANGED <<pc, sess, prio, tid, history, seen, signal, locked, lockQueue, active,
                          capQueue, admittedTurns, activeTurns, status, turns, messages,
                          crashes>>,
              controller' \in [Sends -> BOOLEAN], shuttingDown' \in BOOLEAN
       PROVE  IInv'
  <2>1. TypeOK'
    BY <1>11 DEF IInv, TypeOK
  <2>2. /\ CallShape' /\ LockOwned' /\ LockQueueOK' /\ CapQueueOK'
    BY <1>11 DEF IInv, CallShape, LockOwned, LockQueueOK, CapQueueOK, HoldsLock
  <2>3. SlotsExact' /\ AdmittedExact'
    BY <1>11, CountsUnchanged DEF HoldsSlot, Admitted
  <2> QED
    BY <2>1, <2>2, <2>3 DEF IInv
<1>12. ASSUME NEW x \in Sessions, Cancel(x)
       PROVE  IInv'
  <2>1. controller' \in [Sends -> BOOLEAN] /\ shuttingDown' \in BOOLEAN
    BY <1>12 DEF Cancel, IInv, TypeOK
  <2> QED
    BY <1>11, <1>12, <2>1 DEF Cancel, lockVars, capVars, dbVars
<1>13. ASSUME Shutdown
       PROVE  IInv'
  <2>1. controller' \in [Sends -> BOOLEAN] /\ shuttingDown' \in BOOLEAN
    BY <1>13 DEF Shutdown, IInv, TypeOK
  <2> QED
    BY <1>11, <1>13, <2>1 DEF Shutdown, lockVars, capVars, dbVars
<1>14. ASSUME UNCHANGED vars
       PROVE  IInv'
  BY <1>11, <1>14 DEF vars, callVars, lockVars, capVars, dbVars, IInv, TypeOK
\* A close leaves the sends' counts and the scheduler's queue alone.
<1>15. ASSUME NEW c \in Closers, pc' \in [Calls -> PCs],
              \A d \in Calls : d # c => \/ pc'[d] = pc[d]
                                        \/ pc[d] = "lockWait" /\ pc'[d] = "locked",
              UNCHANGED <<active, capQueue, prio, admittedTurns>>
       PROVE  CapQueueOK' /\ SlotsExact' /\ AdmittedExact'
  <2>1. \A d \in Sends : \/ pc'[d] = pc[d]
                         \/ pc[d] = "lockWait" /\ pc'[d] = "locked"
    BY <1>0, <1>15
  <2>2. \A d \in Sends : (HoldsSlot(d)' <=> HoldsSlot(d)) /\ (Admitted(d)' <=> Admitted(d))
    BY <2>1 DEF HoldsSlot, Admitted
  <2>3. CapQueueOK'
    <3>1. CapQueueOK /\ capQueue \in [Priorities -> Seq(Sends)]
      BY DEF IInv, TypeOK
    <3>2. \A p \in Priorities : \A i \in DOMAIN capQueue[p] : capQueue[p][i] \in Sends
      BY ONLY <3>1
    <3>3. \A p \in Priorities : \A i \in DOMAIN capQueue[p] : pc'[capQueue[p][i]] = "capWait"
      BY ONLY <2>1, <3>1, <3>2 DEF CapQueueOK
    <3> QED
      BY ONLY <1>15, <3>1, <3>3 DEF CapQueueOK
  <2> QED
    BY <1>15, <2>2, <2>3, CountsUnchanged
<1>16. ASSUME NEW c \in Closers, CloseReturns(c)
       PROVE  IInv'
  <2>1. /\ pc[c] = "reading" /\ pc' = [pc EXCEPT ![c] = "done"]
        /\ sess' = [sess EXCEPT ![c] = None] /\ seen' = [seen EXCEPT ![c] = None]
    BY <1>16 DEF CloseReturns
  <2>2. UNCHANGED <<prio, tid, history, signal, controller, locked, lockQueue, active,
                    capQueue, admittedTurns, activeTurns, shuttingDown, status, turns,
                    messages, crashes>>
    BY <1>16 DEF CloseReturns, lockVars, capVars, dbVars
  <2>3. /\ pc' \in [Calls -> PCs] /\ pc'[c] = "done"
        /\ sess' \in [Calls -> Sessions \cup {None}]
        /\ seen' \in [Calls -> SessionStatus \cup {None}]
        /\ \A d \in Calls : d # c => pc'[d] = pc[d] /\ sess'[d] = sess[d]
    BY <1>0, <2>1 DEF IInv, TypeOK, PCs
  <2>4. TypeOK'
    BY <2>2, <2>3 DEF IInv, TypeOK
  <2>5. CapQueueOK' /\ SlotsExact' /\ AdmittedExact'
    BY <1>15, <2>2, <2>3
  <2>6. CallShape'
    <3>1. CallShape
      BY DEF IInv
    <3> QED
      BY ONLY <1>0, <2>2, <2>3, <3>1, c \in Closers DEF CallShape
  <2>7. \A d \in Calls : HoldsLock(d)' <=> HoldsLock(d)
    BY <1>0, <2>1, <2>3 DEF HoldsLock
  <2>8. LockOwned'
    <3>1. \A d \in Calls : HoldsLock(d) => sess'[d] = sess[d]
      BY <1>0, <2>1, <2>3 DEF HoldsLock
    <3> QED
      BY <2>2, <2>7, <3>1 DEF IInv, LockOwned
  <2>9. LockQueueOK'
    BY <1>0, <2>1, <2>2, <2>3 DEF IInv, TypeOK, LockQueueOK
  <2> QED
    BY <2>4, <2>5, <2>6, <2>8, <2>9 DEF IInv
<1>17. ASSUME NEW c \in Closers, CloseBegin(c)
       PROVE  IInv'
  <2> DEFINE x == sess[c]
  <2>1. /\ pc[c] = "reading" /\ x \in Sessions /\ sess' = [sess EXCEPT ![c] = x]
        /\ status' = [status EXCEPT ![x] = "closing"]
        /\ seen' = [seen EXCEPT ![c] = None]
    BY <1>0, <1>17 DEF CloseBegin, IInv, TypeOK, CallShape
  <2>2. UNCHANGED <<prio, tid, history, signal, active, capQueue, admittedTurns, activeTurns,
                    shuttingDown, turns, messages, crashes>>
    BY <1>17 DEF CloseBegin, capVars
  <2>3. controller' \in [Sends -> BOOLEAN]
    BY <1>17 DEF CloseBegin, IInv, TypeOK
  <2>4. /\ pc' \in [Calls -> PCs] /\ locked' \in [Sessions -> BOOLEAN]
        /\ lockQueue' \in [Sessions -> Seq(Calls)]
        /\ sess' \in [Calls -> Sessions \cup {None}]
        /\ pc'[c] \in {"cancelling", "lockWait", "locked"}
        /\ \A d \in Calls : d # c => pc'[d] = pc[d] /\ sess'[d] = sess[d]
        /\ LockOwned' /\ LockQueueOK'
    <3>1. CASE Acquire(c, x)
      BY <1>0, <2>1, <3>1, AcquireKeepsLocks
    <3>2. CASE pc' = [pc EXCEPT ![c] = "cancelling"] /\ UNCHANGED lockVars
      <4>1. /\ pc' \in [Calls -> PCs] /\ locked' = locked /\ lockQueue' = lockQueue
            /\ sess' \in [Calls -> Sessions \cup {None}]
            /\ pc'[c] = "cancelling"
            /\ \A d \in Calls : d # c => pc'[d] = pc[d] /\ sess'[d] = sess[d]
        BY <1>0, <2>1, <3>2 DEF lockVars, IInv, TypeOK, PCs
      <4>2. \A d \in Calls : HoldsLock(d)' <=> HoldsLock(d)
        BY <1>0, <2>1, <4>1 DEF HoldsLock
      <4>3. \A d \in Calls : HoldsLock(d) => sess'[d] = sess[d]
        BY <1>0, <2>1, <4>1 DEF HoldsLock
      <4>4. LockOwned'
        BY <4>1, <4>2, <4>3 DEF IInv, LockOwned
      <4>5. LockQueueOK'
        BY <1>0, <2>1, <4>1 DEF IInv, TypeOK, LockQueueOK
      <4> QED
        BY <4>1, <4>4, <4>5 DEF IInv, TypeOK
    <3>3. \/ Acquire(c, x)
          \/ pc' = [pc EXCEPT ![c] = "cancelling"] /\ UNCHANGED lockVars
      BY <1>17 DEF CloseBegin
    <3> QED
      BY <3>1, <3>2, <3>3
  <2>5. TypeOK'
    BY <2>1, <2>2, <2>3, <2>4 DEF IInv, TypeOK, SessionStatus
  <2>6. CapQueueOK' /\ SlotsExact' /\ AdmittedExact'
    BY <1>15, <2>2, <2>4
  <2>7. CallShape'
    <3>1. CallShape /\ sess'[c] = x
      BY <1>0, <2>1 DEF IInv, TypeOK
    <3> QED
      BY ONLY <1>0, <2>1, <2>2, <2>4, <3>1, c \in Closers DEF CallShape
  <2> QED
    BY <2>4, <2>5, <2>6, <2>7 DEF IInv
<1>18. ASSUME NEW c \in Closers, CloseCancelled(c)
       PROVE  IInv'
  <2>1. pc[c] = "cancelling" /\ Acquire(c, sess[c])
    BY <1>18 DEF CloseCancelled
  <2>2. UNCHANGED <<sess, prio, tid, history, seen, signal, controller, active, capQueue,
                    admittedTurns, activeTurns, shuttingDown, status, turns, messages,
                    crashes>>
    BY <1>18 DEF CloseCancelled, capVars, dbVars
  <2>3. sess[c] \in Sessions /\ sess' = [sess EXCEPT ![c] = sess[c]]
    BY <1>0, <2>1, <2>2 DEF IInv, TypeOK, CallShape
  <2>4. /\ pc' \in [Calls -> PCs] /\ locked' \in [Sessions -> BOOLEAN]
        /\ lockQueue' \in [Sessions -> Seq(Calls)]
        /\ sess' \in [Calls -> Sessions \cup {None}]
        /\ pc'[c] \in {"lockWait", "locked"}
        /\ \A d \in Calls : d # c => pc'[d] = pc[d] /\ sess'[d] = sess[d]
        /\ LockOwned' /\ LockQueueOK'
    BY <1>0, <2>1, <2>3, AcquireKeepsLocks
  <2>5. TypeOK'
    BY <2>2, <2>4 DEF IInv, TypeOK
  <2>6. CapQueueOK' /\ SlotsExact' /\ AdmittedExact'
    BY <1>15, <2>2, <2>4
  <2>7. CallShape'
    <3>1. CallShape
      BY DEF IInv
    <3> QED
      BY ONLY <1>0, <2>2, <2>3, <2>4, <3>1, c \in Closers DEF CallShape
  <2> QED
    BY <2>4, <2>5, <2>6, <2>7 DEF IInv
<1>19. ASSUME NEW c \in Closers, CloseFinishes(c)
       PROVE  IInv'
  <2>1. /\ pc[c] = "locked" /\ HoldsLock(c) /\ c \in Calls
        /\ Release(sess[c]) /\ sess' = [sess EXCEPT ![c] = None]
        /\ pc' = [d \in Calls |-> CASE d = c -> "done"
                                    [] d = NextOwner(sess[c]) -> "locked"
                                    [] OTHER -> pc[d]]
    BY <1>0, <1>19 DEF CloseFinishes, CloseUnlocks, HoldsLock
  <2>2. UNCHANGED <<prio, tid, history, seen, signal, controller, active, capQueue, admittedTurns,
                    shuttingDown, turns, messages, crashes>>
    BY <1>19 DEF CloseFinishes, capVars
  <2>3. /\ status' \in [Sessions -> SessionStatus]
        /\ activeTurns' \in [Sessions -> Sends \cup {None}]
    BY <1>19 DEF CloseFinishes, IInv, TypeOK, SessionStatus
  <2>4. NextOwner(sess[c]) # None =>
          NextOwner(sess[c]) \in Calls /\ pc[NextOwner(sess[c])] = "lockWait"
    <3>1. SUFFICES ASSUME lockQueue[sess[c]] # <<>>
                   PROVE  /\ Head(lockQueue[sess[c]]) \in Calls
                          /\ pc[Head(lockQueue[sess[c]])] = "lockWait"
      BY DEF NextOwner
    <3>2. sess[c] \in Sessions /\ lockQueue[sess[c]] \in Seq(Calls)
      BY <2>1 DEF IInv, TypeOK, CallShape
    <3>3. /\ Head(lockQueue[sess[c]]) = lockQueue[sess[c]][1]
          /\ 1 \in DOMAIN lockQueue[sess[c]]
          /\ Head(lockQueue[sess[c]]) \in Calls
      BY ONLY <3>1, <3>2, EmptySeq, HeadTailProperties
    <3> QED
      BY <3>2, <3>3 DEF IInv, LockQueueOK
  <2>5. /\ pc' \in [Calls -> PCs] /\ pc'[c] = "done"
        /\ NextOwner(sess[c]) # None => pc'[NextOwner(sess[c])] = "locked"
        /\ \A d \in Calls : d # c /\ d # NextOwner(sess[c]) => pc'[d] = pc[d]
    BY <1>0, <2>1, <2>4 DEF IInv, TypeOK, PCs
  <2>6. \A d \in Calls : d # c => \/ pc'[d] = pc[d]
                                  \/ pc[d] = "lockWait" /\ pc'[d] = "locked"
    BY <1>0, <2>4, <2>5
  <2>7. \A d \in Calls : d # c /\ d # NextOwner(sess[c]) =>
          /\ HoldsLock(d)' <=> HoldsLock(d)
          /\ pc'[d] = "lockWait" <=> pc[d] = "lockWait"
    BY <2>5 DEF HoldsLock
  <2>8. /\ locked' \in [Sessions -> BOOLEAN]
        /\ lockQueue' \in [Sessions -> Seq(Calls)]
        /\ LockOwned' /\ LockQueueOK'
    BY <2>1, <2>5, <2>7, ReleaseKeepsLocks
  <2>9. CapQueueOK' /\ SlotsExact' /\ AdmittedExact'
    BY <1>15, <2>2, <2>5, <2>6
  <2>10. sess' \in [Calls -> Sessions \cup {None}]
    BY <2>1 DEF IInv, TypeOK
  <2>11. TypeOK'
    BY <2>2, <2>3, <2>5, <2>8, <2>10 DEF IInv, TypeOK
  <2>12. CallShape'
    <3>1. CallShape /\ \A d \in Calls : d # c => sess'[d] = sess[d]
      BY <2>1 DEF IInv, TypeOK
    <3> QED
      BY ONLY <1>0, <2>2, <2>5, <2>6, <3>1, c \in Closers DEF CallShape
  <2> QED
    BY <2>8, <2>9, <2>11, <2>12 DEF IInv
<1>20. ASSUME Restart
       PROVE  IInv'
  <2>1. /\ crashes < MaxCrashes /\ crashes' = crashes + 1
        /\ pc' = [c \in Calls |-> IF pc[c] = "idle" THEN "idle" ELSE "done"]
        /\ sess' = [c \in Calls |-> None] /\ tid' = [s \in Sends |-> None]
        /\ prio' = [s \in Sends |-> "normal"]
        /\ history' = [s \in Sends |-> <<>>]
        /\ seen' = [c \in Calls |-> None]
        /\ signal' = [s \in Sends |-> FALSE] /\ controller' = [s \in Sends |-> FALSE]
        /\ locked' = [x \in Sessions |-> FALSE] /\ lockQueue' = [x \in Sessions |-> <<>>]
        /\ active' = 0 /\ capQueue' = [p \in Priorities |-> <<>>]
        /\ admittedTurns' = 0 /\ activeTurns' = [x \in Sessions |-> None]
        /\ shuttingDown' = FALSE
        /\ turns' = [t \in TurnIds |-> Recovered(t)]
        /\ status' = status /\ messages' = messages
    BY <1>20 DEF Restart
  <2>2. TypeOK'
    <3>1. <<>> \in Seq(TurnIds) /\ <<>> \in Seq(Calls) /\ <<>> \in Seq(Sends)
      BY EmptySeq
    <3>2. /\ "idle" \in PCs /\ "done" \in PCs /\ "normal" \in Priorities
      BY DEF PCs, Priorities
    <3>3. turns' \in [TurnIds -> TurnStatus]
      BY <2>1 DEF Recovered, TurnStatus, IInv, TypeOK
    <3>4. crashes' \in 0..MaxCrashes /\ active' \in 0..MaxActive /\ admittedTurns' \in Nat
      BY <2>1, CrashAssumption, CapacityAssumption DEF IInv, TypeOK
    <3> QED
      BY <2>1, <3>1, <3>2, <3>3, <3>4 DEF IInv, TypeOK
  <2>3. CallShape' /\ LockOwned'
    BY <1>0, <2>1 DEF CallShape, LockOwned, HoldsLock
  <2>4. LockQueueOK' /\ CapQueueOK'
    BY <2>1 DEF LockQueueOK, CapQueueOK
  <2>5. Holders' = {} /\ InFlight' = {}
    BY <1>0, <2>1 DEF Holders, HoldsSlot, InFlight, Admitted
  <2>6. SlotsExact' /\ AdmittedExact'
    BY <2>1, <2>5, FS_EmptySet DEF SlotsExact, AdmittedExact, Holders
  <2> QED
    BY <2>2, <2>3, <2>4, <2>6 DEF IInv
<1>21. ASSUME NEW s \in Sends, SendReads(s)
       PROVE  IInv'
  <2> USE DEF IInv, TypeOK
  <2>1. /\ pc[s] = "locked" /\ pc' = [pc EXCEPT ![s] = "checking"]
        /\ seen' = [seen EXCEPT ![s] = status[sess[s]]]
    BY <1>21 DEF SendReads
  <2>2. UNCHANGED <<sess, prio, tid, history, signal, controller, locked, lockQueue, active,
                    capQueue, admittedTurns, activeTurns, shuttingDown, status, turns,
                    messages, crashes>>
    BY <1>21 DEF SendReads, lockVars, capVars, dbVars
  <2>3. sess[s] \in Sessions
    BY <1>0, <2>1 DEF CallShape
  <2>4. TypeOK'
    BY <1>0, <2>1, <2>2, <2>3 DEF PCs
  <2>5. CallShape'
    BY <1>0, <2>1, <2>2 DEF CallShape
  <2>6. \A d \in Calls : HoldsLock(d)' <=> HoldsLock(d)
    BY <2>1 DEF HoldsLock
  <2>7. LockOwned'
    BY <2>2, <2>6 DEF LockOwned
  <2>8. LockQueueOK' /\ CapQueueOK'
    BY <1>0, <2>1, <2>2 DEF LockQueueOK, CapQueueOK
  <2>9. SlotsExact' /\ AdmittedExact'
    <3>1. \A d \in Sends : (HoldsSlot(d)' <=> HoldsSlot(d)) /\ (Admitted(d)' <=> Admitted(d))
      BY <1>0, <2>1 DEF HoldsSlot, Admitted
    <3> QED
      BY <2>2, <3>1, CountsUnchanged
  <2> QED
    BY <2>4, <2>5, <2>7, <2>8, <2>9
<1>22. ASSUME NEW s \in Sends, SendCheckThrows(s)
       PROVE  IInv'
  <2>1. pc[s] = "checking" /\ HoldsLock(s) /\ ~HoldsSlot(s)
    BY <1>22 DEF SendCheckThrows, HoldsLock, HoldsSlot
  <2>2. Finally(s, TRUE, FALSE, activeTurns, status)
    BY <1>22 DEF SendCheckThrows
  <2>3. turns' \in [TurnIds -> TurnStatus] /\ messages' \in [Sessions -> Seq(TurnIds)]
    BY <1>22 DEF SendCheckThrows, IInv, TypeOK
  <2>4. Settles(s, TRUE, FALSE)
    BY <2>2 DEF Finally, Settles
  <2>5. /\ activeTurns' \in [Sessions -> Sends \cup {None}]
        /\ status' \in [Sessions -> SessionStatus]
    BY <2>2 DEF Finally, AfterTurn, SessionStatus, IInv, TypeOK
  <2>6. /\ admittedTurns' = admittedTurns - 1
        /\ history' = [history EXCEPT ![s] = <<>>]
        /\ seen' = [seen EXCEPT ![s] = None]
        /\ controller' = [controller EXCEPT ![s] = FALSE]
        /\ signal' = signal /\ shuttingDown' = shuttingDown /\ crashes' = crashes
    BY <2>2 DEF Finally
  <2> QED
    BY <2>1, <2>3, <2>4, <2>5, <2>6, FinallyKeepsIInv
<1>23. ASSUME NEW c \in Closers, NEW x \in Sessions, CloseReads(c, x)
       PROVE  IInv'
  <2>1. /\ pc[c] = "idle" /\ pc' = [pc EXCEPT ![c] = "reading"]
        /\ sess' = [sess EXCEPT ![c] = x] /\ seen' = [seen EXCEPT ![c] = status[x]]
    BY <1>23 DEF CloseReads
  <2>2. UNCHANGED <<prio, tid, history, signal, controller, locked, lockQueue, active,
                    capQueue, admittedTurns, activeTurns, shuttingDown, status, turns,
                    messages, crashes>>
    BY <1>23 DEF CloseReads, lockVars, capVars, dbVars
  <2>3. /\ pc' \in [Calls -> PCs] /\ pc'[c] = "reading" /\ sess'[c] = x
        /\ sess' \in [Calls -> Sessions \cup {None}]
        /\ seen' \in [Calls -> SessionStatus \cup {None}]
        /\ \A d \in Calls : d # c => pc'[d] = pc[d] /\ sess'[d] = sess[d]
    BY <1>0, <2>1 DEF IInv, TypeOK, PCs
  <2>4. TypeOK'
    BY <2>2, <2>3 DEF IInv, TypeOK
  <2>5. CapQueueOK' /\ SlotsExact' /\ AdmittedExact'
    BY <1>15, <2>2, <2>3
  <2>6. CallShape'
    <3>1. CallShape
      BY DEF IInv
    <3> QED
      BY ONLY <1>0, <2>2, <2>3, <3>1, c \in Closers, x \in Sessions DEF CallShape
  <2>7. \A d \in Calls : HoldsLock(d)' <=> HoldsLock(d)
    BY <1>0, <2>1, <2>3 DEF HoldsLock
  <2>8. LockOwned'
    <3>1. \A d \in Calls : HoldsLock(d) => sess'[d] = sess[d]
      BY <1>0, <2>1, <2>3 DEF HoldsLock
    <3> QED
      BY <2>2, <2>7, <3>1 DEF IInv, LockOwned
  <2>9. LockQueueOK'
    BY <1>0, <2>1, <2>2, <2>3 DEF IInv, TypeOK, LockQueueOK
  <2> QED
    BY <2>4, <2>5, <2>6, <2>8, <2>9 DEF IInv
<1> QED
  BY <1>1, <1>2, <1>3, <1>4, <1>5, <1>6, <1>7, <1>8, <1>9, <1>10, <1>12, <1>13,
     <1>14, <1>16, <1>17, <1>18, <1>19, <1>20, <1>21, <1>22, <1>23
  DEF Next, SendStep, CloseStep, Quiet

-----------------------------------------------------------------------------
(* IInv holds in every reachable state.                                    *)
LEMMA SpecIInv == Spec => []IInv
  BY InitIInv, NextIInv, PTL DEF Spec

(* Every variable keeps its type; active never leaves 0..MaxActive, so no  *)
(* slot of TurnScheduler is released twice and none is granted in excess.  *)
THEOREM TypeCorrect == Spec => []TypeOK
<1>1. IInv => TypeOK
  BY DEF IInv
<1> QED
  BY <1>1, SpecIInv, PTL

(* The lock of a session has exactly one owner while it is locked and none *)
(* otherwise, for any number of sends, closes, aborts and restarts.        *)
THEOREM SessionsAreSerial == Spec => []SerialSessions
<1>1. IInv => SerialSessions
  <2> SUFFICES ASSUME IInv, NEW x \in Sessions
               PROVE  Cardinality({c \in Calls : HoldsLock(c) /\ sess[c] = x})
                        = IF locked[x] THEN 1 ELSE 0
    BY DEF SerialSessions
  <2> DEFINE owners == {c \in Calls : HoldsLock(c) /\ sess[c] = x}
  <2>1. CASE locked[x]
    <3>1. PICK c \in Calls : HoldsLock(c) /\ sess[c] = x
      BY <2>1 DEF IInv, LockOwned
    <3>2. \A d \in Calls : HoldsLock(d) /\ sess[d] = x => d = c
      BY <3>1 DEF IInv, LockOwned
    <3>3. owners = {c}
      BY <3>1, <3>2
    <3> QED
      BY <2>1, <3>3, FS_Singleton
  <2>2. CASE ~locked[x]
    <3>1. owners = {}
      BY <2>2 DEF IInv, LockOwned
    <3> QED
      BY <2>2, <3>1, FS_EmptySet
  <2> QED
    BY <2>1, <2>2
<1> QED
  BY <1>1, SpecIInv, PTL

(* TurnScheduler counts exactly the slots that are held.                   *)
THEOREM SlotsCounted == Spec => []SlotsExact
<1>1. IInv => SlotsExact
  BY DEF IInv
<1> QED
  BY <1>1, SpecIInv, PTL

-----------------------------------------------------------------------------
(***************************************************************************)
(* The queues of the session locks and of the scheduler.  Locks and slots  *)
(* are exact already; what is added is that who waits is queued.           *)
(***************************************************************************)
(* A call that waits for a lock is in the queue of one that is held.       *)
LockWaits ==
  \A c \in Calls : Waiting(c) => locked[sess[c]] /\ c \in Elems(lockQueue[sess[c]])

(* A send that waits for a slot is queued, and no slot is free.            *)
SlotWaits ==
  \A s \in Sends : pc[s] = "capWait" =>
    active = MaxActive /\ s \in Elems(capQueue[prio[s]])

(* An aborted send does not wait.                                          *)
Alive == \A s \in Sends : pc[s] \in {"lockWait", "capWait"} => ~signal[s]

AdmissionBounded == admittedTurns <= MaxActive + MaxQueued

Waits == LockWaits /\ SlotWaits /\ Alive /\ AdmissionBounded

QInv == IInv /\ Waits

-----------------------------------------------------------------------------
(* Who is in a queue after an append, a shift, a removal.                  *)
LEMMA ElemsAppend ==
  ASSUME NEW S, NEW q \in Seq(S), NEW c \in S
  PROVE  c \in Elems(Append(q, c)) /\ Elems(q) \subseteq Elems(Append(q, c))
  BY AppendElements DEF Elems

LEMMA ElemsTail ==
  ASSUME NEW S, NEW q \in Seq(S), q # <<>>, NEW d \in Elems(q), d # Head(q)
  PROVE  d \in Elems(Tail(q))
<1>1. Len(q) \in Nat /\ Len(q) > 0 /\ DOMAIN q = 1..Len(q)
  BY EmptySeq
<1>2. /\ Head(q) = q[1] /\ Tail(q) \in Seq(S) /\ Len(Tail(q)) = Len(q) - 1
      /\ \A i \in 1..Len(Tail(q)) : Tail(q)[i] = q[i + 1]
  BY <1>1, HeadTailProperties
<1>3. PICK i \in 1..Len(q) : q[i] = d
  BY <1>1 DEF Elems
<1>4. i - 1 \in 1..Len(Tail(q)) /\ Tail(q)[i - 1] = d
  BY <1>1, <1>2, <1>3
<1>5. DOMAIN Tail(q) = 1..Len(Tail(q))
  BY <1>2
<1> QED
  BY <1>4, <1>5 DEF Elems

LEMMA ElemsWithout ==
  ASSUME NEW S, NEW q \in Seq(S), NEW c, NEW d \in Elems(q), d # c
  PROVE  d \in Elems(Without(q, c))
<1>1. CASE c \notin Elems(q)
  BY <1>1 DEF Without
<1>2. CASE c \in Elems(q)
  <2> DEFINE k == CHOOSE i \in DOMAIN q : q[i] = c
             r == [i \in 1..(Len(q) - 1) |-> IF i < k THEN q[i] ELSE q[i + 1]]
  <2>1. k \in 1..Len(q) /\ q[k] = c /\ Len(q) \in Nat
    BY <1>2 DEF Elems
  <2>2. Without(q, c) = r
    BY <1>2 DEF Without
  <2>3. PICK i \in 1..Len(q) : q[i] = d
    BY DEF Elems
  <2>4. \E j \in 1..(Len(q) - 1) : r[j] = d
    <3>1. CASE i < k
      <4>1. i \in 1..(Len(q) - 1) /\ r[i] = d
        BY <2>1, <2>3, <3>1
      <4> QED
        BY <4>1
    <3>2. CASE i > k
      <4>1. i - 1 \in 1..(Len(q) - 1) /\ r[i - 1] = d
        BY <2>1, <2>3, <3>2
      <4> QED
        BY <4>1
    <3>3. i # k /\ i \in Nat /\ k \in Nat
      BY <2>1, <2>3
    <3> HIDE DEF k, r
    <3> QED
      BY <3>1, <3>2, <3>3
  <2>5. DOMAIN r = 1..(Len(q) - 1)
    OBVIOUS
  <2> HIDE DEF r
  <2> QED
    BY <2>2, <2>4, <2>5 DEF Elems
<1> QED
  BY <1>1, <1>2

(* A queue in which each is once has as many places as waiters.            *)
LEMMA QueueCount ==
  ASSUME NEW S, NEW q \in Seq(S), \A i, j \in DOMAIN q : q[i] = q[j] => i = j
  PROVE  IsFiniteSet(Elems(q)) /\ Cardinality(Elems(q)) = Len(q)
<1>1. Len(q) \in Nat /\ DOMAIN q = 1..Len(q) /\ q \in [1..Len(q) -> Elems(q)]
  BY DEF Elems
<1>2. IsFiniteSet(1..Len(q)) /\ Cardinality(1..Len(q)) = Len(q)
  BY <1>1, FS_Interval
<1>3. q \in Bijection(1..Len(q), Elems(q))
  BY <1>1 DEF Bijection, Injection, Surjection, IsInjective, Elems
<1> QED
  BY <1>2, <1>3, FS_Bijection DEF ExistsBijection

LEMMA SumOfLengths ==
  ASSUME NEW m \in Nat, NEW n \in Nat
  PROVE  m + n \in Nat /\ (m # 0 \/ n # 0 => m + n # 0)
  OBVIOUS

-----------------------------------------------------------------------------
(* The locks are left alone and nobody begins to wait for one.             *)
LEMMA LocksAlone ==
  ASSUME LockWaits, locked' = locked, lockQueue' = lockQueue,
         \A c \in Calls : pc'[c] = "lockWait" => pc[c] = "lockWait" /\ sess'[c] = sess[c]
  PROVE  LockWaits'
  BY DEF LockWaits, Waiting

(* A call that goes for a lock gets it or queues for it.                   *)
LEMMA AcquireWaits ==
  ASSUME IInv, LockWaits, NEW c \in Calls, NEW x \in Sessions,
         pc[c] \in {"idle", "reading", "cancelling"},
         sess' = [sess EXCEPT ![c] = x], Acquire(c, x)
  PROVE  LockWaits'
<1>1. /\ pc \in [Calls -> PCs] /\ sess \in [Calls -> Sessions \cup {None}]
      /\ lockQueue \in [Sessions -> Seq(Calls)] /\ locked \in [Sessions -> BOOLEAN]
  BY DEF IInv, TypeOK
<1> SUFFICES ASSUME NEW d \in Calls, pc'[d] = "lockWait"
             PROVE  locked'[sess'[d]] /\ d \in Elems(lockQueue'[sess'[d]])
  BY DEF LockWaits, Waiting
<1>2. CASE d = c
  <2>1. locked[x] /\ locked' = locked /\ lockQueue' = [lockQueue EXCEPT ![x] = Append(@, c)]
    BY <1>1, <1>2 DEF Acquire
  <2>2. sess'[d] = x /\ lockQueue'[x] = Append(lockQueue[x], c)
    BY <1>1, <1>2, <2>1
  <2>3. c \in Elems(Append(lockQueue[x], c))
    BY <1>1, ElemsAppend
  <2> QED
    BY <1>2, <2>1, <2>2, <2>3
<1>3. CASE d # c
  <2>1. pc[d] = "lockWait" /\ sess'[d] = sess[d]
    BY <1>1, <1>3 DEF Acquire
  <2>2. /\ sess[d] \in Sessions /\ locked[sess[d]]
        /\ d \in Elems(lockQueue[sess[d]])
    BY <2>1 DEF IInv, CallShape, LockWaits, Waiting
  <2>3. locked'[sess[d]]
    BY <1>1, <2>2 DEF Acquire
  <2>4. \/ lockQueue'[sess[d]] = lockQueue[sess[d]]
        \/ lockQueue'[sess[d]] = Append(lockQueue[sess[d]], c)
    BY <1>1, <2>2 DEF Acquire
  <2>5. Elems(lockQueue[sess[d]]) \subseteq Elems(Append(lockQueue[sess[d]], c))
    BY <1>1, <2>2, ElemsAppend
  <2> QED
    BY <2>1, <2>2, <2>3, <2>4, <2>5
<1> QED
  BY <1>2, <1>3

(* The lock is handed over: the one who gets it waits no more.             *)
LEMMA ReleaseWaits ==
  ASSUME IInv, LockWaits, NEW x \in Sessions, Release(x),
         \A d \in Calls : pc'[d] = "lockWait" =>
           pc[d] = "lockWait" /\ sess'[d] = sess[d] /\ d # NextOwner(x)
  PROVE  LockWaits'
<1>1. lockQueue \in [Sessions -> Seq(Calls)] /\ locked \in [Sessions -> BOOLEAN]
  BY DEF IInv, TypeOK
<1> SUFFICES ASSUME NEW d \in Calls, pc'[d] = "lockWait"
             PROVE  locked'[sess'[d]] /\ d \in Elems(lockQueue'[sess'[d]])
  BY DEF LockWaits, Waiting
<1> DEFINE y == sess[d]
<1>2. /\ pc[d] = "lockWait" /\ sess'[d] = y /\ d # NextOwner(x)
      /\ y \in Sessions /\ locked[y] /\ d \in Elems(lockQueue[y])
  BY DEF IInv, CallShape, LockWaits, Waiting
<1> HIDE DEF y
<1>3. CASE y # x
  BY <1>1, <1>2, <1>3 DEF Release
<1>4. CASE y = x
  <2>1. lockQueue[x] # <<>> /\ d # Head(lockQueue[x])
    BY <1>2, <1>4 DEF NextOwner, Elems
  <2>2. locked' = locked /\ lockQueue'[x] = Tail(lockQueue[x])
    BY <1>1, <2>1 DEF Release
  <2>3. d \in Elems(Tail(lockQueue[x]))
    BY <1>1, <1>2, <1>4, <2>1, ElemsTail
  <2> QED
    BY <1>2, <1>4, <2>2, <2>3
<1> QED
  BY <1>3, <1>4

(* Nobody comes to wait for a slot, and the slots are left alone.          *)
LEMMA SlotsAlone ==
  ASSUME SlotWaits, active' = active, capQueue' = capQueue, prio' = prio,
         \A s \in Sends : pc'[s] = "capWait" => pc[s] = "capWait"
  PROVE  SlotWaits'
  BY DEF SlotWaits

(* The slot is handed over: the one who gets it waits no more.             *)
LEMMA ReleaseSlotWaits ==
  ASSUME IInv, SlotWaits, ReleaseSlot, prio' = prio,
         \A s \in Sends : pc'[s] = "capWait" => pc[s] = "capWait" /\ s # NextTurn
  PROVE  SlotWaits'
<1>1. capQueue \in [Priorities -> Seq(Sends)] /\ prio \in [Sends -> Priorities]
  BY DEF IInv, TypeOK
<1> SUFFICES ASSUME NEW s \in Sends, pc'[s] = "capWait"
             PROVE  active' = MaxActive /\ s \in Elems(capQueue'[prio[s]])
  BY DEF SlotWaits
<1>2. /\ s # NextTurn /\ active = MaxActive
      /\ prio[s] \in Priorities /\ s \in Elems(capQueue[prio[s]])
  BY <1>1 DEF SlotWaits
<1>3. Queued # 0
  <2>1. s \in Elems(capQueue["interactive"]) \/ s \in Elems(capQueue["normal"])
    BY <1>2 DEF Priorities
  <2>2. capQueue["interactive"] \in Seq(Sends) /\ capQueue["normal"] \in Seq(Sends)
    BY <1>1 DEF Priorities
  <2>3. Len(capQueue["interactive"]) # 0 \/ Len(capQueue["normal"]) # 0
    BY <2>1, <2>2 DEF Elems
  <2>4. Len(capQueue["interactive"]) \in Nat /\ Len(capQueue["normal"]) \in Nat
    BY <2>2
  <2>5. Len(capQueue["interactive"]) + Len(capQueue["normal"]) # 0
    BY <2>3, <2>4, SumOfLengths
  <2> QED
    BY ONLY <2>5, Zenon DEF Queued
<1>4. /\ capQueue' = [capQueue EXCEPT ![FirstPriority] = Tail(@)] /\ active' = active
      /\ s # Head(capQueue[FirstPriority])
  BY <1>2, <1>3 DEF ReleaseSlot, NextTurn
<1>5. CASE prio[s] = FirstPriority
  <2>1. capQueue[prio[s]] # <<>> /\ capQueue'[prio[s]] = Tail(capQueue[prio[s]])
    BY <1>1, <1>2, <1>4, <1>5 DEF Elems
  <2>2. s \in Elems(Tail(capQueue[prio[s]]))
    BY <1>1, <1>2, <1>4, <1>5, <2>1, ElemsTail
  <2> QED
    BY <1>2, <1>4, <2>1, <2>2
<1>6. CASE prio[s] # FirstPriority
  BY <1>1, <1>2, <1>4, <1>6
<1> QED
  BY <1>5, <1>6

(* The finally block wakes those to whom it hands the lock and the slot.   *)
LEMMA FinallyWaits ==
  ASSUME QInv, NEW s \in Sends, NEW hl \in BOOLEAN, NEW hs \in BOOLEAN,
         hl <=> HoldsLock(s), hs <=> HoldsSlot(s),
         pc[s] \notin {"idle", "lockWait", "capWait", "done"},
         NEW act, NEW st, Finally(s, hl, hs, act, st)
  PROVE  Waits'
<1>0. /\ Sends \subseteq Calls /\ s \in Calls /\ None \notin Calls
      /\ sess[s] \in Sessions /\ sess \in [Calls -> Sessions \cup {None}]
      /\ admittedTurns \in Nat /\ MaxActive \in Nat /\ MaxQueued \in Nat
  BY CallsAssumption, CapacityAssumption DEF Calls, QInv, IInv, TypeOK, CallShape
<1>1. Settles(s, hl, hs)
  BY DEF Finally, Settles
<1>2. /\ pc'[s] = "done"
      /\ hs /\ NextTurn # None => pc'[NextTurn] = "capGranted"
      /\ hl /\ NextOwner(sess[s]) # None => pc'[NextOwner(sess[s])] = "locked"
      /\ \A d \in Calls : d # s /\ ~(hs /\ d = NextTurn)
                          /\ ~(hl /\ d = NextOwner(sess[s])) => pc'[d] = pc[d]
  BY <1>1, SettlesKeepsCalls DEF QInv
<1>3. \A d \in Calls : pc'[d] \in {"lockWait", "capWait"} =>
        /\ d # s /\ pc[d] = pc'[d]
        /\ hs => d # NextTurn
        /\ hl => d # NextOwner(sess[s])
  BY <1>0, <1>2
<1>4. \A d \in Calls : d # s => sess'[d] = sess[d]
  BY <1>0, <1>1 DEF Settles
<1>5. LockWaits'
  <2>1. CASE hl
    <3>1. Release(sess[s])
      BY <1>1, <2>1 DEF Settles
    <3> QED
      BY <1>0, <1>3, <1>4, <2>1, <3>1, ReleaseWaits DEF QInv, Waits
  <2>2. CASE ~hl
    <3>1. locked' = locked /\ lockQueue' = lockQueue
      BY <1>1, <2>2 DEF Settles, lockVars
    <3> QED
      BY <1>3, <1>4, <3>1, LocksAlone DEF QInv, Waits
  <2> QED
    BY <2>1, <2>2
<1>6. SlotWaits'
  <2>0. prio' = prio
    BY <1>1 DEF Settles
  <2>1. CASE hs
    <3>1. ReleaseSlot
      BY <1>1, <2>1 DEF Settles
    <3> QED
      BY <1>0, <1>3, <2>0, <2>1, <3>1, ReleaseSlotWaits DEF QInv, Waits
  <2>2. CASE ~hs
    <3>1. active' = active /\ capQueue' = capQueue
      BY <1>1, <2>2 DEF Settles, capVars
    <3> QED
      BY <1>0, <1>3, <2>0, <3>1, SlotsAlone DEF QInv, Waits
  <2> QED
    BY <2>1, <2>2
<1>7. Alive' /\ AdmissionBounded'
  BY <1>0, <1>3 DEF Finally, QInv, Waits, Alive, AdmissionBounded
<1> QED
  BY <1>5, <1>6, <1>7 DEF Waits

-----------------------------------------------------------------------------
(* A send asks for a slot: it gets a free one or queues for a taken one.   *)
LEMMA SendAsksWaits ==
  ASSUME QInv, NEW s \in Sends, NEW t \in TurnIds, SendAsks(s, t)
  PROVE  Waits'
<1>0. /\ Sends \subseteq Calls /\ pc \in [Calls -> PCs] /\ prio \in [Sends -> Priorities]
      /\ capQueue \in [Priorities -> Seq(Sends)]
      /\ active \in 0..MaxActive /\ MaxActive \in Nat
  BY CapacityAssumption DEF Calls, QInv, IInv, TypeOK
<1>1. /\ sess' = sess /\ prio' = prio /\ signal' = signal /\ admittedTurns' = admittedTurns
      /\ locked' = locked /\ lockQueue' = lockQueue /\ pc[s] = "checking"
  BY DEF SendAsks, lockVars
<1>2. \/ /\ pc' = [pc EXCEPT ![s] = "capRejected"]
         /\ active' = active /\ capQueue' = capQueue
      \/ /\ pc' = [pc EXCEPT ![s] = "capGranted"]
         /\ active < MaxActive /\ active' = active + 1 /\ capQueue' = capQueue
      \/ /\ pc' = [pc EXCEPT ![s] = "capWait"] /\ ~signal[s]
         /\ active = MaxActive /\ active' = active
         /\ capQueue' = [capQueue EXCEPT ![prio[s]] = Append(@, s)]
  BY <1>0 DEF SendAsks, capVars
<1>3. /\ pc'[s] \in {"capRejected", "capGranted", "capWait"}
      /\ \A d \in Calls \ {s} : pc'[d] = pc[d]
      /\ pc'[s] = "capWait" => ~signal[s]
  BY <1>0, <1>2
<1>4. LockWaits'
  BY <1>1, <1>3, LocksAlone DEF QInv, Waits
<1>5. Alive' /\ AdmissionBounded'
  BY <1>0, <1>1, <1>3 DEF QInv, Waits, Alive, AdmissionBounded
<1>6. SlotWaits'
  <2> SUFFICES ASSUME NEW r \in Sends, pc'[r] = "capWait"
               PROVE  active' = MaxActive /\ r \in Elems(capQueue'[prio[r]])
    BY <1>1 DEF SlotWaits
  <2>1. r # s => pc[r] = "capWait" /\ active = MaxActive /\ r \in Elems(capQueue[prio[r]])
    BY <1>0, <1>3 DEF QInv, Waits, SlotWaits
  <2>2. CASE pc'[s] # "capWait"
    <3>1. r # s /\ capQueue' = capQueue /\ (active' = active \/ active < MaxActive)
      BY <1>0, <1>2, <2>2
    <3> QED
      BY <1>0, <2>1, <3>1
  <2>3. CASE pc'[s] = "capWait"
    <3>1. /\ active = MaxActive /\ active' = active
          /\ capQueue' = [capQueue EXCEPT ![prio[s]] = Append(@, s)]
      BY <1>0, <1>2, <2>3
    <3>2. prio[r] \in Priorities /\ prio[s] \in Priorities
      BY <1>0
    <3>3. CASE r = s
      <4>1. capQueue'[prio[s]] = Append(capQueue[prio[s]], s)
        BY <1>0, <3>1, <3>2
      <4>2. s \in Elems(Append(capQueue[prio[s]], s))
        BY <1>0, <3>2, ElemsAppend
      <4> QED
        BY <3>1, <3>3, <4>1, <4>2
    <3>4. CASE r # s
      <4>1. \/ capQueue'[prio[r]] = capQueue[prio[r]]
            \/ capQueue'[prio[r]] = Append(capQueue[prio[r]], s)
        BY <1>0, <3>1, <3>2
      <4>2. Elems(capQueue[prio[r]]) \subseteq Elems(Append(capQueue[prio[r]], s))
        BY <1>0, <3>2, ElemsAppend
      <4> QED
        BY <2>1, <3>1, <3>4, <4>1, <4>2
    <3> QED
      BY <3>3, <3>4
  <2> QED
    BY <2>2, <2>3
<1> QED
  BY <1>4, <1>5, <1>6 DEF Waits

(* An abort takes its own call out of the queues and leaves the others in. *)
LEMMA AbortWaits ==
  ASSUME QInv, NEW s \in Sends, ClientAborts(s)
  PROVE  Waits'
<1>0. /\ Sends \subseteq Calls /\ pc \in [Calls -> PCs] /\ prio \in [Sends -> Priorities]
      /\ capQueue \in [Priorities -> Seq(Sends)] /\ lockQueue \in [Sessions -> Seq(Calls)]
      /\ signal \in [Sends -> BOOLEAN]
      /\ \A c \in Calls : pc[c] \notin {"idle", "done"} => sess[c] \in Sessions
  BY DEF Calls, QInv, IInv, TypeOK, CallShape
<1>1. /\ sess' = sess /\ prio' = prio /\ admittedTurns' = admittedTurns
      /\ locked' = locked /\ active' = active
      /\ \A r \in Sends \ {s} : signal'[r] = signal[r]
  BY <1>0 DEF ClientAborts
<1>2. /\ lockQueue' = [x \in Sessions |-> Without(lockQueue[x], s)]
      /\ capQueue' = [p \in Priorities |-> Without(capQueue[p], s)]
  BY DEF ClientAborts
<1>3. \A d \in Calls : pc'[d] \in {"lockWait", "capWait"} => d # s /\ pc[d] = pc'[d]
  BY <1>0 DEF ClientAborts
<1>4. LockWaits'
  <2> SUFFICES ASSUME NEW d \in Calls, pc'[d] = "lockWait"
               PROVE  locked[sess[d]] /\ d \in Elems(lockQueue'[sess[d]])
    BY <1>1 DEF LockWaits, Waiting
  <2>1. d # s /\ sess[d] \in Sessions /\ locked[sess[d]] /\ d \in Elems(lockQueue[sess[d]])
    BY <1>0, <1>3 DEF QInv, Waits, LockWaits, Waiting
  <2>2. d \in Elems(Without(lockQueue[sess[d]], s))
    BY <1>0, <2>1, ElemsWithout
  <2> QED
    BY <1>2, <2>1, <2>2
<1>5. SlotWaits'
  <2> SUFFICES ASSUME NEW r \in Sends, pc'[r] = "capWait"
               PROVE  active = MaxActive /\ r \in Elems(capQueue'[prio[r]])
    BY <1>1 DEF SlotWaits
  <2>1. /\ r # s /\ prio[r] \in Priorities /\ active = MaxActive
        /\ r \in Elems(capQueue[prio[r]])
    BY <1>0, <1>3 DEF QInv, Waits, SlotWaits
  <2>2. r \in Elems(Without(capQueue[prio[r]], s))
    BY <1>0, <2>1, ElemsWithout
  <2> QED
    BY <1>2, <2>1, <2>2
<1>6. Alive' /\ AdmissionBounded'
  BY <1>0, <1>1, <1>3 DEF QInv, Waits, Alive, AdmissionBounded
<1> QED
  BY <1>4, <1>5, <1>6 DEF Waits

(* A step that leaves locks, slots and the admission count alone.          *)
LEMMA NobodyWaits ==
  ASSUME QInv, locked' = locked, lockQueue' = lockQueue, active' = active,
         capQueue' = capQueue, prio' = prio, signal' = signal,
         admittedTurns' = admittedTurns,
         \A c \in Calls : pc'[c] \in {"lockWait", "capWait"} =>
           pc[c] = pc'[c] /\ sess'[c] = sess[c]
  PROVE  Waits'
<1>1. Sends \subseteq Calls
  BY DEF Calls
<1> QED
  BY <1>1, LocksAlone, SlotsAlone
  DEF QInv, Waits, Alive, AdmissionBounded

(* close() goes for the lock.                                              *)
LEMMA CloseAcquireWaits ==
  ASSUME QInv, NEW c \in Closers, NEW x \in Sessions,
         pc[c] \in {"idle", "reading", "cancelling"},
         sess' = [sess EXCEPT ![c] = x], Acquire(c, x),
         active' = active, capQueue' = capQueue, prio' = prio, signal' = signal,
         admittedTurns' = admittedTurns
  PROVE  Waits'
<1>1. /\ Sends \subseteq Calls /\ c \in Calls /\ c \notin Sends /\ pc \in [Calls -> PCs]
  BY CallsAssumption DEF Calls, QInv, IInv, TypeOK
<1>2. \A s \in Sends : pc'[s] = pc[s]
  BY <1>1 DEF Acquire
<1>3. LockWaits'
  BY <1>1, AcquireWaits DEF QInv, Waits
<1> QED
  BY <1>2, <1>3, SlotsAlone DEF QInv, Waits, Alive, AdmissionBounded

(* The steps of a send.                                                    *)
LEMMA SendStepsWait ==
  ASSUME QInv, NEW s \in Sends, SendStep(s)
  PROVE  Waits'
<1>1. CASE SendLockedThrows(s)
  BY <1>1, FinallyWaits DEF SendLockedThrows, HoldsLock, HoldsSlot
<1>2. CASE SendStarts(s)
  <2>1. pc \in [Calls -> PCs]
    BY DEF QInv, IInv, TypeOK
  <2>2. /\ locked' = locked /\ lockQueue' = lockQueue /\ active' = active
        /\ capQueue' = capQueue /\ prio' = prio /\ signal' = signal
        /\ admittedTurns' = admittedTurns /\ sess' = sess
        /\ pc' = [pc EXCEPT ![s] = "running"]
    BY <1>2 DEF SendStarts, lockVars, capVars
  <2> QED
    BY <2>1, <2>2, NobodyWaits
<1>3. CASE SendStartThrows(s)
  BY <1>3, FinallyWaits DEF SendStartThrows, HoldsLock, HoldsSlot
<1>4. ASSUME NEW o \in Outcomes, TurnSettles(s, o)
      PROVE  Waits'
  BY <1>4, FinallyWaits DEF TurnSettles, HoldsLock, HoldsSlot
<1>5. CASE SendLockRejected(s) \/ SendCapRejected(s)
  BY <1>5, FinallyWaits DEF SendLockRejected, SendCapRejected, HoldsLock, HoldsSlot
<1>6. CASE SendReads(s)
  <2>1. pc \in [Calls -> PCs]
    BY DEF QInv, IInv, TypeOK
  <2>2. /\ locked' = locked /\ lockQueue' = lockQueue /\ active' = active
        /\ capQueue' = capQueue /\ prio' = prio /\ signal' = signal
        /\ admittedTurns' = admittedTurns /\ sess' = sess
        /\ pc' = [pc EXCEPT ![s] = "checking"]
    BY <1>6 DEF SendReads, lockVars, capVars
  <2> QED
    BY <2>1, <2>2, NobodyWaits
<1>7. CASE SendCheckThrows(s)
  BY <1>7, FinallyWaits DEF SendCheckThrows, HoldsLock, HoldsSlot
<1> QED
  BY <1>1, <1>2, <1>3, <1>4, <1>5, <1>6, <1>7, SendAsksWaits DEF SendStep

LEMMA StepsWait == QInv /\ [Next]_vars => Waits'
<1> SUFFICES ASSUME QInv, [Next]_vars PROVE Waits'
  OBVIOUS
<1>0. /\ Sends \subseteq Calls /\ Closers \subseteq Calls /\ pc \in [Calls -> PCs]
      /\ Sends \cap Closers = {} /\ sess \in [Calls -> Sessions \cup {None}]
      /\ signal \in [Sends -> BOOLEAN] /\ prio \in [Sends -> Priorities]
      /\ MaxActive \in Nat /\ MaxQueued \in Nat /\ admittedTurns \in Nat
  BY CallsAssumption, CapacityAssumption DEF Calls, QInv, IInv, TypeOK
<1>1. ASSUME NEW s \in Sends, SendRefused(s)
      PROVE  Waits'
  <2>1. /\ locked' = locked /\ lockQueue' = lockQueue /\ active' = active
        /\ capQueue' = capQueue /\ prio' = prio /\ signal' = signal
        /\ admittedTurns' = admittedTurns /\ sess' = sess
        /\ pc' = [pc EXCEPT ![s] = "done"]
    BY <1>1 DEF SendRefused, lockVars, capVars
  <2> QED
    BY <1>0, <2>1, NobodyWaits
<1>2. ASSUME NEW s \in Sends, NEW x \in Sessions, NEW p \in Priorities, SendBegin(s, x, p)
      PROVE  Waits'
  <2>1. /\ pc[s] = "idle" /\ ~signal[s] /\ signal' = signal
        /\ prio' = [prio EXCEPT ![s] = p]
        /\ active' = active /\ capQueue' = capQueue
        /\ pc'[s] \in {"lockWait", "locked"}
        /\ \A r \in Calls \ {s} : pc'[r] = pc[r]
    BY <1>0, <1>2 DEF SendBegin, Acquire, capVars
  <2>2. LockWaits'
    BY <1>0, <1>2, AcquireWaits DEF QInv, Waits, SendBegin
  <2>3. SlotWaits'
    <3> SUFFICES ASSUME NEW r \in Sends, pc'[r] = "capWait"
                 PROVE  active = MaxActive /\ r \in Elems(capQueue[prio'[r]])
      BY <2>1 DEF SlotWaits
    <3>1. r # s /\ pc[r] = "capWait" /\ prio'[r] = prio[r]
      BY <1>0, <2>1
    <3> QED
      BY <3>1 DEF QInv, Waits, SlotWaits
  <2>4. Alive'
    BY <1>0, <2>1 DEF QInv, Waits, Alive
  <2>5. AdmissionBounded'
    BY <1>0, <1>2 DEF SendBegin, AtCapacity, AdmissionBounded
  <2> QED
    BY <2>2, <2>3, <2>4, <2>5 DEF Waits
<1>3. ASSUME NEW s \in Sends, SendStep(s) \/ ClientAborts(s)
      PROVE  Waits'
  BY <1>3, SendStepsWait, AbortWaits
<1>4. ASSUME NEW c \in Closers, CloseBegin(c)
      PROVE  Waits'
  <2>1. /\ sess' = sess /\ prio' = prio /\ signal' = signal
        /\ active' = active /\ capQueue' = capQueue /\ admittedTurns' = admittedTurns
        /\ pc[c] = "reading"
        /\ \/ Acquire(c, sess[c])
           \/ /\ pc' = [pc EXCEPT ![c] = "cancelling"]
              /\ locked' = locked /\ lockQueue' = lockQueue
    BY <1>4 DEF CloseBegin, lockVars, capVars
  <2>2. sess[c] \in Sessions /\ sess' = [sess EXCEPT ![c] = sess[c]]
    BY <1>0, <2>1 DEF QInv, IInv, CallShape
  <2>3. CASE Acquire(c, sess[c])
    BY <2>1, <2>2, <2>3, CloseAcquireWaits
  <2>4. CASE pc' = [pc EXCEPT ![c] = "cancelling"] /\ locked' = locked /\ lockQueue' = lockQueue
    <3>1. \A d \in Calls : pc'[d] \in {"lockWait", "capWait"} =>
            pc[d] = pc'[d] /\ sess'[d] = sess[d]
      BY <1>0, <2>1, <2>4
    <3> QED
      BY <2>1, <2>4, <3>1, NobodyWaits
  <2> QED
    BY <2>1, <2>3, <2>4
<1>5. ASSUME NEW c \in Closers,
             CloseReturns(c) \/ \E x \in Sessions : CloseReads(c, x)
      PROVE  Waits'
  <2>1. /\ locked' = locked /\ lockQueue' = lockQueue /\ active' = active
        /\ capQueue' = capQueue /\ prio' = prio /\ signal' = signal
        /\ admittedTurns' = admittedTurns
        /\ \E v \in Sessions \cup {None} : sess' = [sess EXCEPT ![c] = v]
        /\ pc' = [pc EXCEPT ![c] = "done"] \/ pc' = [pc EXCEPT ![c] = "reading"]
    BY <1>5 DEF CloseReturns, CloseReads, lockVars, capVars
  <2>2. \A d \in Calls : pc'[d] \in {"lockWait", "capWait"} =>
          pc[d] = pc'[d] /\ sess'[d] = sess[d]
    BY <1>0, <2>1
  <2> QED
    BY <2>1, <2>2, NobodyWaits
<1>6. ASSUME NEW c \in Closers, CloseCancelled(c)
      PROVE  Waits'
  <2>1. /\ sess' = sess /\ prio' = prio /\ signal' = signal /\ active' = active
        /\ capQueue' = capQueue /\ admittedTurns' = admittedTurns
        /\ pc[c] = "cancelling" /\ Acquire(c, sess[c])
    BY <1>6 DEF CloseCancelled, capVars
  <2>2. sess[c] \in Sessions /\ sess' = [sess EXCEPT ![c] = sess[c]]
    BY <1>0, <2>1 DEF QInv, IInv, CallShape
  <2> QED
    BY <2>1, <2>2, CloseAcquireWaits
<1>7. ASSUME NEW c \in Closers, CloseFinishes(c)
      PROVE  Waits'
  <2>1. /\ pc[c] = "locked" /\ Release(sess[c]) /\ sess' = [sess EXCEPT ![c] = None]
        /\ pc' = [d \in Calls |-> CASE d = c -> "done"
                                    [] d = NextOwner(sess[c]) -> "locked"
                                    [] OTHER -> pc[d]]
        /\ active' = active /\ capQueue' = capQueue /\ prio' = prio /\ signal' = signal
        /\ admittedTurns' = admittedTurns
    BY <1>7 DEF CloseFinishes, CloseUnlocks, capVars
  <2>2. \A d \in Calls : pc'[d] \in {"lockWait", "capWait"} =>
          d # c /\ d # NextOwner(sess[c]) /\ pc[d] = pc'[d]
    BY <2>1
  <2>3. \A d \in Calls : pc'[d] \in {"lockWait", "capWait"} => sess'[d] = sess[d]
    BY <1>0, <2>1, <2>2
  <2>4. sess[c] \in Sessions
    BY <1>0, <2>1 DEF QInv, IInv, CallShape
  <2>5. LockWaits'
    BY <2>1, <2>2, <2>3, <2>4, ReleaseWaits DEF QInv, Waits
  <2> QED
    BY <1>0, <2>1, <2>2, <2>5, SlotsAlone DEF QInv, Waits, Alive, AdmissionBounded
<1>8. ASSUME NEW x \in Sessions, Cancel(x)
      PROVE  Waits'
  BY <1>8, NobodyWaits DEF Cancel, lockVars, capVars
<1>9. CASE Shutdown
  BY <1>9, NobodyWaits DEF Shutdown, lockVars, capVars
<1>10. CASE Restart
  <2>1. \A d \in Calls : pc'[d] \in {"idle", "done"}
    BY <1>10 DEF Restart
  <2>2. admittedTurns' = 0
    BY <1>10 DEF Restart
  <2> QED
    BY <1>0, <2>1, <2>2
    DEF Waits, LockWaits, Waiting, SlotWaits, Alive, AdmissionBounded
<1>11. CASE UNCHANGED vars
  BY <1>11, NobodyWaits DEF vars, callVars, lockVars, capVars
<1> QED
  BY <1>1, <1>2, <1>3, <1>4, <1>5, <1>6, <1>7, <1>8, <1>9, <1>10, <1>11
  DEF Next, CloseStep, Quiet

LEMMA SpecQInv == Spec => []QInv
<1>1. Init => QInv
  <2> SUFFICES ASSUME Init PROVE Waits
    BY InitIInv DEF QInv
  <2>1. \A c \in Calls : pc[c] = "idle"
    BY DEF Init
  <2>2. Sends \subseteq Calls /\ admittedTurns = 0 /\ MaxActive \in Nat /\ MaxQueued \in Nat
    BY CapacityAssumption DEF Init, Calls
  <2> QED
    BY <2>1, <2>2 DEF Waits, LockWaits, Waiting, SlotWaits, Alive, AdmissionBounded
<1>2. QInv /\ [Next]_vars => QInv'
  BY NextIInv, StepsWait DEF QInv
<1> QED
  BY <1>1, <1>2, PTL DEF Spec

-----------------------------------------------------------------------------
(* The holders of a slot, the waiters for one and a send that is about to  *)
(* ask for one are different sends in flight: there is room for it.        *)
LEMMA RoomToQueue ==
  ASSUME QInv, NEW s \in Sends, pc[s] = "checking"
  PROVE  active < MaxActive \/ Queued < MaxQueued
<1> DEFINE I == Elems(capQueue["interactive"])
           N == Elems(capQueue["normal"])
           busy == Holders \cup (I \cup N)
<1>0. /\ capQueue["interactive"] \in Seq(Sends) /\ capQueue["normal"] \in Seq(Sends)
      /\ active \in Nat /\ MaxActive \in Nat /\ MaxQueued \in Nat
  BY CapacityAssumption DEF QInv, IInv, TypeOK, Priorities
<1>1. /\ I \subseteq Sends /\ N \subseteq Sends
      /\ \A r \in I : pc[r] = "capWait" /\ prio[r] = "interactive"
      /\ \A r \in N : pc[r] = "capWait" /\ prio[r] = "normal"
  BY <1>0 DEF QInv, IInv, CapQueueOK, Priorities, Elems
<1>2. /\ IsFiniteSet(I) /\ Cardinality(I) = Len(capQueue["interactive"])
      /\ IsFiniteSet(N) /\ Cardinality(N) = Len(capQueue["normal"])
  <2>1. /\ \A i, j \in DOMAIN capQueue["interactive"] :
             capQueue["interactive"][i] = capQueue["interactive"][j] => i = j
        /\ \A i, j \in DOMAIN capQueue["normal"] :
             capQueue["normal"][i] = capQueue["normal"][j] => i = j
    BY DEF QInv, IInv, CapQueueOK, Priorities
  <2> HIDE DEF I, N
  <2> QED
    BY <1>0, <2>1, QueueCount DEF I, N
<1>3. \A r \in Holders : r \in Sends /\ pc[r] \in {"capGranted", "running"}
  BY DEF Holders, HoldsSlot
<1> HIDE DEF I, N
<1>4. I \cap N = {} /\ Holders \cap (I \cup N) = {} /\ s \notin busy
  BY <1>1, <1>3
<1>5. busy \cup {s} \subseteq InFlight
  BY <1>1, <1>3 DEF InFlight, Admitted
<1>6. Cardinality(I \cup N) = Queued /\ IsFiniteSet(I \cup N)
  <2>1. Cardinality(I \cup N) = Cardinality(I) + Cardinality(N) - Cardinality(I \cap N)
        /\ IsFiniteSet(I \cup N)
    BY <1>2, FS_Union
  <2>2. Cardinality(I \cap N) = 0
    BY <1>4, FS_EmptySet
  <2>3. Cardinality(I) \in Nat /\ Cardinality(N) \in Nat
    BY <1>2, FS_CardinalityType
  <2> QED
    BY <1>2, <2>1, <2>2, <2>3 DEF Queued
<1>7. Cardinality(busy) = active + Queued /\ IsFiniteSet(busy)
  <2>1. /\ Cardinality(busy) = Cardinality(Holders) + Cardinality(I \cup N)
                                - Cardinality(Holders \cap (I \cup N))
        /\ IsFiniteSet(busy)
    BY <1>6, HoldersFinite, FS_Union
  <2>2. Cardinality(Holders \cap (I \cup N)) = 0
    BY <1>4, FS_EmptySet
  <2>3. Cardinality(Holders) = active
    BY DEF QInv, IInv, SlotsExact, Holders
  <2>4. Cardinality(I \cup N) \in Nat
    BY <1>6, FS_CardinalityType
  <2> QED
    BY <1>0, <1>6, <2>1, <2>2, <2>3, <2>4
<1> HIDE DEF busy
<1>8. Cardinality(busy \cup {s}) = active + Queued + 1
  BY <1>4, <1>7, FS_AddElement
<1>9. Cardinality(busy \cup {s}) <= admittedTurns
  <2>1. IsFiniteSet(InFlight)
    BY FiniteAssumption, FS_Subset DEF InFlight
  <2> QED
    BY <1>5, <2>1, FS_Subset DEF QInv, IInv, AdmittedExact
<1>10. admittedTurns <= MaxActive + MaxQueued /\ admittedTurns \in Nat
  BY DEF QInv, Waits, AdmissionBounded, IInv, TypeOK
<1>11. Queued \in Nat
  <2>1. Len(capQueue["interactive"]) \in Nat /\ Len(capQueue["normal"]) \in Nat
    BY <1>0
  <2>2. Len(capQueue["interactive"]) + Len(capQueue["normal"]) \in Nat
    BY <2>1, SumOfLengths
  <2> QED
    BY ONLY <2>2, Zenon DEF Queued
<1> QED
  BY <1>0, <1>8, <1>9, <1>10, <1>11

(* The queues of the locks and of the scheduler are exact for any number   *)
(* of sends, closes, sessions, slots and places: a waiter is in its queue  *)
(* once, alive, until it is woken, and a send that was admitted never      *)
(* meets a full scheduler queue.                                           *)
THEOREM QueuesAreExact == Spec => []QueuesExact
<1>1. QInv => QueuesExact
  <2> SUFFICES ASSUME QInv PROVE QueuesExact
    OBVIOUS
  <2>1. \A x \in Sessions : \A i \in DOMAIN lockQueue[x] :
          LET c == lockQueue[x][i]
          IN /\ Waiting(c) /\ sess[c] = x
             /\ c \in Sends => ~signal[c]
             /\ \A j \in DOMAIN lockQueue[x] : lockQueue[x][j] = c => j = i
    BY DEF QInv, IInv, LockQueueOK, Waits, Alive, Waiting
  <2>2. \A p \in Priorities : \A i \in DOMAIN capQueue[p] :
          LET s == capQueue[p][i]
          IN /\ pc[s] = "capWait" /\ prio[s] = p /\ ~signal[s]
             /\ \A j \in DOMAIN capQueue[p] : capQueue[p][j] = s => j = i
    <3>1. \A p \in Priorities : \A i \in DOMAIN capQueue[p] : capQueue[p][i] \in Sends
      BY DEF QInv, IInv, TypeOK
    <3> QED
      BY <3>1 DEF QInv, IInv, CapQueueOK, Waits, Alive
  <2>3. /\ \A c \in Calls : Waiting(c) => locked[sess[c]] /\ c \in Elems(lockQueue[sess[c]])
        /\ \A s \in Sends : pc[s] = "capWait" =>
             active = MaxActive /\ s \in Elems(capQueue[prio[s]])
    BY DEF QInv, Waits, LockWaits, SlotWaits
  <2>4. /\ admittedTurns = Cardinality({s \in Sends : Admitted(s)})
        /\ admittedTurns <= MaxActive + MaxQueued
    BY DEF QInv, IInv, AdmittedExact, InFlight, Waits, AdmissionBounded
  <2>5. \A s \in Sends : pc[s] = "checking" => active < MaxActive \/ Queued < MaxQueued
    BY RoomToQueue
  <2> QED
    BY ONLY <2>1, <2>2, <2>3, <2>4, <2>5, ZenonT(30) DEF QueuesExact
<1> QED
  BY <1>1, SpecQInv, PTL
=============================================================================
