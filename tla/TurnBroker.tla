------------------------------ MODULE TurnBroker ------------------------------
(***************************************************************************)
(* One turn channel of the TurnBroker: the ledger of tool calls between    *)
(* ChatGPT's MCP requests and the Codex adapter that executes them, the    *)
(* activity leases, the completion fence of the browser, compaction and    *)
(* the start, Sent and completion states of a Zero Risk ("safe") turn.     *)
(*                                                                         *)
(* Channels share nothing but the registry, so one stands for all.  A      *)
(* handler runs without interruption except where it waits for the user's  *)
(* Sent confirmation.  The expiry check that every handler begins with     *)
(* (prune) is Revoke, taken just before the handler.  ToolBridge says who  *)
(* calls which operation.                                                  *)
(***************************************************************************)
EXTENDS Naturals, Sequences, FiniteSets

CONSTANTS
  Requests,   \* MCP tool requests: each owns one activity id and one call id
  Answers,    \* final answers a Zero Risk turn may be completed with
  None        \* "undefined"

ASSUME RequestsAssumption == IsFiniteSet(Requests)
ASSUME NamesAssumption == Requests \cap Answers = {} /\ None \notin Requests \cup Answers

VARIABLES
  open,         \* the channel is registered and not revoked
  activities,   \* leases of MCP requests from claim to settlement
  ended,        \* completedActivities
  revision,     \* activityRevision
  fence,        \* completionRevision; None until completionCommitted
  queued,       \* queuedCallIds
  delivered,    \* deliveredCallIds
  invocations,  \* pending calls
  waiter,       \* the adapter waits for a tool batch
  timer,        \* batchTimer is armed
  compacting,   \* compactionRequested
  interrupted,  \* compactionDeliveryCount
  safe,         \* "native" or the SafeTurnState
  sent,         \* launcherSent
  started,      \* connectorStarted
  answer,       \* finalAnswer
  parked,       \* sentWaiters: claims and completions held until Sent
  woken         \* the same after the Sent promise resolved, not yet resumed

leaseVars == <<activities, ended, revision, fence>>
callVars  == <<queued, delivered, invocations, waiter, timer>>
compVars  == <<compacting, interrupted>>
safeVars  == <<safe, sent, started, answer>>
waitVars  == <<parked, woken>>
brokerVars == <<open, leaseVars, callVars, compVars, safeVars, waitVars>>

SafeStates == {"awaiting_start", "running", "completed", "revoked"}
InSequence(s) == {s[i] : i \in DOMAIN s}

BrokerTypeOK ==
  /\ {open, waiter, timer, compacting, sent, started} \subseteq BOOLEAN
  /\ {activities, ended, delivered, invocations} \subseteq SUBSET Requests
  /\ revision \in Nat /\ fence \in Nat \cup {None} /\ interrupted \in Nat
  /\ queued \in Seq(Requests)
  /\ safe \in SafeStates \cup {"native"}
  /\ answer \in Answers \cup {None}
  /\ {parked, woken} \subseteq SUBSET (Requests \cup Answers)

(* register and registerSafe.                                              *)
Register ==
  /\ open = TRUE
  /\ activities = {} /\ ended = {} /\ revision = 0 /\ fence = None
  /\ queued = <<>> /\ delivered = {} /\ invocations = {}
  /\ waiter = FALSE /\ timer = FALSE
  /\ compacting = FALSE /\ interrupted = 0
  /\ safe \in {"native", "awaiting_start"}
  /\ sent = FALSE /\ started = FALSE /\ answer = None
  /\ parked = {} /\ woken = {}

-----------------------------------------------------------------------------
(* Leases.                                                                 *)

(* assertSafeHarnessRunning.                                               *)
HarnessRunning(allowCompaction) ==
  \/ safe = "native"
  \/ safe = "running" /\ (compacting => allowCompaction)

(* The claim of a Zero Risk turn that the user has not confirmed waits.    *)
MustWaitForSent == open /\ safe = "awaiting_start" /\ ~sent

Park(x) == parked' = parked \cup {x}

\* Mutant: the committed fence does not refuse claims.
ClaimBehindFence(r) == open /\ HarnessRunning(FALSE) /\ r \notin ended

(* What the claim checks after its wait, if any.                           *)
ClaimAllowed(r) ==
  /\ open /\ fence = None
  /\ HarnessRunning(FALSE)
  /\ r \notin ended

GrantClaim(r) ==
  /\ ClaimAllowed(r)
  /\ activities' = activities \cup {r}
  /\ revision' = IF r \in activities THEN revision ELSE revision + 1
  /\ UNCHANGED <<open, ended, fence, callVars, compVars, safeVars>>

(* activity_complete: a settlement that overtakes its claim leaves a       *)
(* tombstone as well.                                                      *)
CompleteActivity(r) ==
  /\ IF open /\ r \notin ended
     THEN /\ activities' = activities \ {r}
          /\ ended' = ended \cup {r}
          /\ revision' = revision + 1
     ELSE UNCHANGED <<activities, ended, revision>>
  /\ UNCHANGED <<open, fence, callVars, compVars, safeVars, waitVars>>

-----------------------------------------------------------------------------
(* The completion fence.                                                   *)

Quiet == activities = {} /\ invocations = {}

\* Mutant: the revision is not compared.
CommitAnyRevision(rev) == IF fence # None THEN fence = rev ELSE Quiet

(* commitCompletionFence with the revision that beginCompletionFence gave. *)
CommitAllowed(rev) ==
  IF fence # None THEN fence = rev ELSE revision = rev /\ Quiet

CommitFence(rev) ==
  /\ open /\ CommitAllowed(rev)
  /\ fence' = rev
  /\ UNCHANGED <<open, activities, ended, revision, callVars, compVars, safeVars, waitVars>>

-----------------------------------------------------------------------------
(* The ledger of calls.                                                    *)

(* scheduleToolWaiters.                                                    *)
Scheduled(q) == timer \/ (q # <<>> /\ waiter)

InvokeAllowed == open /\ HarnessRunning(FALSE)

(* invoke before compaction: the call is queued.                           *)
QueueCall(r) ==
  /\ InvokeAllowed /\ ~compacting
  /\ invocations' = invocations \cup {r}
  /\ queued' = Append(queued, r)
  /\ timer' = Scheduled(queued')
  /\ UNCHANGED <<open, leaseVars, delivered, waiter, compVars, safeVars, waitVars>>

(* invoke after compaction was requested: the call is answered at once.    *)
InterceptCall(r) ==
  /\ InvokeAllowed /\ compacting
  /\ interrupted' = interrupted + 1
  /\ UNCHANGED <<open, leaseVars, callVars, compacting, safeVars, waitVars>>

(* takeQueued.                                                             *)
Taken == InSequence(queued) \cap invocations

(* nextToolBatch, once the turn may run tools and with no waiter: what was *)
(* delivered before and not answered comes first, then what is queued.     *)
NextAllowed == open /\ HarnessRunning(FALSE) /\ ~compacting

Batch == IF delivered # {} THEN delivered ELSE Taken

TakeBatch ==
  /\ NextAllowed /\ Batch # {}
  /\ delivered' = Batch
  /\ queued' = IF delivered # {} THEN queued ELSE <<>>
  /\ UNCHANGED <<open, leaseVars, invocations, waiter, timer, compVars, safeVars, waitVars>>

AwaitBatch ==
  /\ NextAllowed /\ Batch = {}
  /\ waiter' = TRUE /\ queued' = <<>>
  /\ UNCHANGED <<open, leaseVars, delivered, invocations, timer, compVars, safeVars, waitVars>>

(* The batch timer, 15 ms after a call found a waiter.                     *)
TimerWithBatch == timer /\ queued # <<>> /\ waiter

DeliverBatch ==
  /\ TimerWithBatch
  /\ timer' = FALSE /\ waiter' = FALSE
  /\ delivered' = delivered \cup Taken /\ queued' = <<>>
  /\ UNCHANGED <<open, leaseVars, invocations, compVars, safeVars, waitVars>>

TimerIdle ==
  /\ timer /\ ~TimerWithBatch
  /\ timer' = FALSE
  /\ UNCHANGED <<open, leaseVars, queued, delivered, invocations, waiter, compVars, safeVars, waitVars>>

(* The AbortSignal of a waiting nextToolBatch.                             *)
AbortWaiter ==
  /\ waiter' = FALSE
  /\ UNCHANGED <<open, leaseVars, queued, delivered, invocations, timer, compVars, safeVars, waitVars>>

CompleteAllowed(r) == open /\ HarnessRunning(TRUE) /\ r \in invocations \cap delivered

CompleteTool(r) ==
  /\ CompleteAllowed(r)
  /\ delivered' = delivered \ {r}
  /\ invocations' = invocations \ {r}
  /\ UNCHANGED <<open, leaseVars, queued, waiter, timer, compVars, safeVars, waitVars>>

\* Mutant: the queue is read but not spliced.
CompactionKeepsQueue ==
  /\ open /\ HarnessRunning(FALSE) /\ ~compacting
  /\ compacting' = TRUE /\ timer' = FALSE
  /\ invocations' = invocations \ InSequence(queued)
  /\ interrupted' = interrupted + Cardinality(Taken)
  /\ UNCHANGED <<open, leaseVars, queued, delivered, waiter, safeVars, waitVars>>

\* Mutant: delivered calls are dropped with the queued ones.
CompactionDropsAll ==
  /\ open /\ HarnessRunning(FALSE) /\ ~compacting
  /\ compacting' = TRUE /\ timer' = FALSE
  /\ queued' = <<>> /\ invocations' = {}
  /\ interrupted' = interrupted + Cardinality(Taken)
  /\ UNCHANGED <<open, leaseVars, delivered, waiter, safeVars, waitVars>>

(* requestCompaction: the queued calls are answered, delivered ones stay.  *)
RequestCompaction ==
  /\ open /\ HarnessRunning(FALSE) /\ ~compacting
  /\ compacting' = TRUE /\ timer' = FALSE
  /\ queued' = <<>> /\ invocations' = invocations \ InSequence(queued)
  /\ interrupted' = interrupted + Cardinality(Taken)
  /\ UNCHANGED <<open, leaseVars, delivered, waiter, safeVars, waitVars>>

-----------------------------------------------------------------------------
(* Zero Risk turns.                                                        *)

Activated(s, c) == IF safe = "awaiting_start" /\ s /\ c THEN "running" ELSE safe

StartSafeTurn ==
  /\ open /\ safe \in {"awaiting_start", "running"} /\ ~started
  /\ started' = TRUE /\ safe' = Activated(sent, TRUE)
  /\ UNCHANGED <<open, leaseVars, callVars, compVars, sent, answer, waitVars>>

ConfirmSent ==
  /\ open /\ safe \in {"awaiting_start", "running"} /\ ~sent
  /\ sent' = TRUE /\ safe' = Activated(TRUE, started)
  /\ parked' = {} /\ woken' = woken \cup parked
  /\ UNCHANGED <<open, leaseVars, callVars, compVars, started, answer>>

\* Mutant: pending calls and leases do not refuse.
CompleteWithCalls == open /\ safe = "running"

(* completeSafeTurn: pending calls and live leases refuse the completion.  *)
SafeCompleteAllowed == open /\ safe = "running" /\ Quiet

CompleteSafeTurn(a) ==
  /\ SafeCompleteAllowed
  /\ safe' = "completed" /\ answer' = a
  /\ UNCHANGED <<open, leaseVars, callVars, compVars, sent, started>>

-----------------------------------------------------------------------------
(* revoke: every waiter and every pending call is rejected.  The claims    *)
(* and completions that already woke find the channel gone.                *)
Revoke ==
  /\ open' = FALSE
  /\ safe' = IF safe = "native" THEN safe ELSE "revoked"
  /\ queued' = <<>> /\ delivered' = {} /\ invocations' = {}
  /\ waiter' = FALSE /\ timer' = FALSE
  /\ parked' = {}
  /\ UNCHANGED <<leaseVars, compVars, sent, started, answer, woken>>
=============================================================================
