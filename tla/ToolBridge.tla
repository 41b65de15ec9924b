------------------------------ MODULE ToolBridge ------------------------------
(***************************************************************************)
(* One tool-capable ChatGPT web turn: the channel of TurnBroker with those *)
(* who call it.  MCP handlers claim, invoke and settle over a socket whose *)
(* requests may arrive late, in any order, or never; the adapter's rounds  *)
(* take tool batches, journal them for Codex and return the results; the   *)
(* browser observes the page and commits its completion under the fence.   *)
(***************************************************************************)
EXTENDS TurnBroker

CONSTANTS MaxDisconnects   \* bound on Codex closing its stream

ASSUME DisconnectsAssumption == MaxDisconnects \in Nat

VARIABLES
  mcp,          \* where each MCP request handler is
  wire,         \* requests on their way to the broker
  round,        \* what the adapter's exclusive round does
  outstanding,  \* outstandingById: the batch journaled for Codex
  batch,        \* the batch a round holds and has not journaled
  activeCalls,  \* activeToolCalls of ChatGptExternalTurnProgress
  retired,      \* its retirementError is set
  mirror,       \* activeToolCalls as the browser last saw it
  browser,      \* the browser turn; of a Zero Risk turn, runManual
  fenceSeen,    \* completionFenceRevision
  stirred,      \* history: a lease began or ended since the fence was read
  disconnects

mcpVars   == <<mcp, wire>>
roundVars == <<round, outstanding, batch, disconnects>>
progVars  == <<activeCalls, retired>>
pageVars  == <<mirror, browser, fenceSeen>>
vars == <<brokerVars, mcpVars, roundVars, progVars, pageVars, stirred>>

HandlerStates == {"idle", "claiming", "claimed", "invoking", "releasing",
                  "leaving", "settling", "retrying", "done"}
Methods == {"claim", "invoke", "release", "settle", "retry"}
RoundStates == {"idle", "starting", "asking", "waiting", "holding", "returning",
                "compacting", "ended"}

TypeOK ==
  /\ BrokerTypeOK
  /\ mcp \in [Requests -> HandlerStates]
  /\ wire \subseteq Requests \X Methods
  /\ round \in RoundStates
  /\ outstanding \subseteq Requests /\ batch \subseteq Requests
  /\ activeCalls \in Nat /\ mirror \in Nat /\ disconnects \in 0..MaxDisconnects
  /\ retired \in BOOLEAN /\ stirred \in BOOLEAN
  /\ browser \in {"running", "fenced", "answered", "failed"}
  /\ fenceSeen \in Nat \cup {None}

Init ==
  /\ Register
  /\ mcp = [r \in Requests |-> "idle"] /\ wire = {}
  /\ round = "idle" /\ outstanding = {} /\ batch = {} /\ disconnects = 0
  /\ activeCalls = 0 /\ retired = FALSE
  /\ mirror = 0 /\ browser = "running" /\ fenceSeen = None
  /\ stirred = FALSE

-----------------------------------------------------------------------------
(* MCP handlers.                                                           *)

(* Request r goes on to s and sends m; what it sent before may arrive yet. *)
Send(r, s, m) ==
  /\ mcp' = [mcp EXCEPT ![r] = s]
  /\ wire' = wire \cup {<<r, m>>}

Arrives(r, m) == <<r, m>> \in wire /\ wire' = wire \ {<<r, m>>}

(* The handlers in D get an answer: those still waiting for it in the      *)
(* state s go on to t, the others have given up.                           *)
Answered(D, s, t) ==
  mcp' = [r \in Requests |-> IF r \in D /\ mcp[r] = s THEN t ELSE mcp[r]]

BeginClaim(r) ==
  /\ mcp[r] = "idle" /\ Send(r, "claiming", "claim")
  /\ UNCHANGED <<brokerVars, roundVars, progVars, pageVars, stirred>>

(* The broker decides on a claim that need not, or no longer, wait.        *)
DecideClaim(r) ==
  \/ /\ GrantClaim(r)
     /\ Answered({r}, "claiming", "claimed")
     /\ stirred' = TRUE
  \/ /\ ~ClaimAllowed(r)
     /\ Answered({r}, "claiming", "leaving")
     /\ UNCHANGED <<open, leaseVars, callVars, compVars, safeVars, stirred>>

ClaimArrives(r) ==
  /\ Arrives(r, "claim")
  /\ IF MustWaitForSent
     THEN /\ Park(r)
          /\ UNCHANGED <<open, leaseVars, callVars, compVars, safeVars, woken, mcp, stirred>>
     ELSE DecideClaim(r) /\ UNCHANGED waitVars
  /\ UNCHANGED <<roundVars, progVars, pageVars>>

(* The claim resumes after Sent and reads the channel again.               *)
ResumeClaim(r) ==
  /\ r \in woken /\ woken' = woken \ {r}
  /\ DecideClaim(r)
  /\ UNCHANGED <<parked, wire, roundVars, progVars, pageVars>>

(* Every handler settles its lease, also after a claim that failed or that *)
(* it gave up; a timeout is answered by one retry.                         *)
BeginSettle(r) ==
  /\ \/ mcp[r] = "leaving" /\ Send(r, "settling", "settle")
     \/ mcp[r] = "settling" /\ Send(r, "retrying", "retry")
  /\ UNCHANGED <<brokerVars, roundVars, progVars, pageVars, stirred>>

(* Timeout or cancellation of a claim; a claim parked in the broker goes   *)
(* with its connection.                                                    *)
AbandonClaim(r) ==
  /\ mcp[r] = "claiming"
  /\ mcp' = [mcp EXCEPT ![r] = "leaving"]
  /\ parked' = parked \ {r}
  /\ UNCHANGED <<open, leaseVars, callVars, compVars, safeVars, woken, wire,
                 roundVars, progVars, pageVars, stirred>>

(* A tool that Codex executes, or one the handler answers by itself.       *)
BeginInvoke(r) ==
  /\ mcp[r] = "claimed" /\ Send(r, "invoking", "invoke")
  /\ UNCHANGED <<brokerVars, roundVars, progVars, pageVars, stirred>>

AnswerLocally(r) ==
  /\ mcp[r] = "claimed"
  /\ mcp' = [mcp EXCEPT ![r] = "leaving"]
  /\ UNCHANGED <<brokerVars, wire, roundVars, progVars, pageVars, stirred>>

InvokeArrives(r) ==
  /\ Arrives(r, "invoke")
  /\ \/ QueueCall(r) /\ UNCHANGED mcp
     \/ InterceptCall(r) /\ Answered({r}, "invoking", "leaving")
     \/ /\ ~InvokeAllowed
        /\ Answered({r}, "invoking", "releasing")
        /\ UNCHANGED brokerVars
  /\ UNCHANGED <<roundVars, progVars, pageVars, stirred>>

(* Timeout or cancellation of an invocation: nobody waits for its result.  *)
AbandonInvoke(r) ==
  /\ mcp[r] = "invoking"
  /\ mcp' = [mcp EXCEPT ![r] = "releasing"]
  /\ UNCHANGED <<brokerVars, wire, roundVars, progVars, pageVars, stirred>>

(* The failed invocation releases the binding, waits for the answer or its *)
(* own timeout, and settles.                                               *)
BeginRelease(r) ==
  /\ mcp[r] = "releasing" /\ Send(r, "leaving", "release")
  /\ UNCHANGED <<brokerVars, roundVars, progVars, pageVars, stirred>>

SettleArrives(r, m) ==
  /\ m \in {"settle", "retry"} /\ Arrives(r, m)
  /\ CompleteActivity(r)
  /\ mcp' = [mcp EXCEPT ![r] = IF @ \in {"settling", "retrying"} THEN "done" ELSE @]
  /\ stirred' = (stirred \/ r \in activities)
  /\ UNCHANGED <<roundVars, progVars, pageVars>>

(* What a revocation does to those who wait: the pending calls fail and    *)
(* so do the claims that wait for Sent.                                    *)
RevokeTurn ==
  /\ open /\ Revoke
  /\ mcp' = [r \in Requests |->
       IF mcp[r] = "invoking" /\ r \in invocations THEN "releasing"
       ELSE IF mcp[r] = "claiming" /\ r \in parked THEN "leaving" ELSE mcp[r]]

ReleaseArrives(r) ==
  /\ Arrives(r, "release")
  /\ \/ RevokeTurn
     \/ ~open /\ UNCHANGED <<brokerVars, mcp>>
  /\ UNCHANGED <<roundVars, progVars, pageVars, stirred>>

-----------------------------------------------------------------------------
(* The user and the connector of a Zero Risk turn.                         *)

Start ==
  /\ StartSafeTurn
  /\ UNCHANGED <<mcpVars, roundVars, progVars, pageVars, stirred>>

(* The user presses Sent; runManual, which waits for it, tells the broker. *)
Sent ==
  /\ browser = "running" /\ ConfirmSent
  /\ UNCHANGED <<mcpVars, roundVars, progVars, pageVars, stirred>>

ParkCompletion(a) ==
  /\ MustWaitForSent /\ Park(a)
  /\ UNCHANGED <<open, leaseVars, callVars, compVars, safeVars, woken,
                 mcpVars, roundVars, progVars, pageVars, stirred>>

Complete(a) ==
  /\ CompleteSafeTurn(a)
  /\ UNCHANGED <<waitVars, mcpVars, roundVars, progVars, pageVars, stirred>>

ResumeCompletion(a) ==
  /\ a \in woken /\ woken' = woken \ {a}
  /\ \/ CompleteSafeTurn(a)
     \/ ~SafeCompleteAllowed /\ UNCHANGED <<open, leaseVars, callVars, compVars, safeVars>>
  /\ UNCHANGED <<parked, mcpVars, roundVars, progVars, pageVars, stirred>>

-----------------------------------------------------------------------------
(* The adapter's rounds.                                                   *)

RoundIs(s) == round' = s /\ UNCHANGED <<disconnects>>

\* Mutant: a batch counts as one call.
HoldOne(B) ==
  /\ batch' = B /\ activeCalls' = activeCalls + 1
  /\ UNCHANGED retired

(* recordToolBatch, in the continuation of nextToolBatch.                  *)
Hold(B) ==
  /\ batch' = B
  /\ activeCalls' = activeCalls + Cardinality(B)
  /\ UNCHANGED retired

(* The results of the whole journaled batch come back with the request     *)
(* that begins the round, one after the other.                             *)
ReturnResult(r) ==
  /\ round \in {"idle", "returning", "compacting"} /\ r \in outstanding
  /\ CompleteTool(r)
  /\ Answered({r}, "invoking", "leaving")
  /\ activeCalls' = activeCalls - 1
  /\ outstanding' = outstanding \ {r}
  /\ RoundIs(IF round = "compacting" THEN round
             ELSE IF outstanding' = {} THEN "asking" ELSE "returning")
  /\ UNCHANGED <<wire, batch, retired, pageVars, stirred>>

\* Mutant: the round asks with results outstanding.
BeginsAskingAlways == round \in {"asking", "idle", "starting"}

(* nextToolBatch; a Zero Risk turn first waits for its start.              *)
BeginsAsking ==
  \/ round = "asking"
  \/ round \in {"idle", "starting"} /\ outstanding = {}

AskTools ==
  /\ BeginsAsking /\ browser \in {"running", "fenced"}
  /\ \/ /\ open /\ safe = "awaiting_start" /\ round = "idle"
        /\ RoundIs("starting")
        /\ UNCHANGED <<brokerVars, batch, progVars>>
     \/ /\ TakeBatch
        /\ Hold(Batch) /\ RoundIs("holding")
     \/ /\ AwaitBatch
        /\ RoundIs("waiting") /\ UNCHANGED <<batch, progVars>>
  /\ UNCHANGED <<outstanding, mcpVars, pageVars, stirred>>

BatchTimer ==
  /\ \/ DeliverBatch /\ Hold(Taken) /\ RoundIs("holding")
     \/ TimerIdle /\ UNCHANGED <<batch, progVars, round, disconnects>>
  /\ UNCHANGED <<outstanding, mcpVars, pageVars, stirred>>

(* The browser has acknowledged the batch; the round journals it, emits it *)
(* to Codex and ends.                                                      *)
JournalBatch ==
  /\ round = "holding" /\ ~retired /\ browser \in {"running", "fenced"}
  /\ outstanding = {}   \* setOutstanding throws otherwise
  /\ outstanding' = batch /\ batch' = {}
  /\ RoundIs("idle")
  /\ UNCHANGED <<brokerVars, mcpVars, progVars, pageVars, stirred>>

(* Codex closes its stream before the batch is journaled.  An automatic    *)
(* turn keeps its execution for a reconnect; a Zero Risk turn is retired.  *)
Disconnect ==
  /\ round \in {"starting", "waiting", "holding"} /\ disconnects < MaxDisconnects
  /\ disconnects' = disconnects + 1 /\ batch' = {}
  /\ \/ /\ safe = "native"
        /\ AbortWaiter /\ round' = "idle" /\ UNCHANGED <<mcp, browser>>
     \/ /\ safe # "native"
        /\ \/ RevokeTurn
           \/ ~open /\ UNCHANGED <<brokerVars, mcp>>
        /\ round' = "ended" /\ browser' = IF browser = "running" THEN "failed" ELSE browser
  /\ UNCHANGED <<wire, outstanding, progVars, mirror, fenceSeen, stirred>>

(* A round that finds the capability gone fails and cancels the browser.   *)
RoundFails ==
  /\ ~open /\ round # "ended"
  /\ RoundIs("ended") /\ batch' = {}
  /\ browser' = IF browser \in {"running", "fenced"} THEN "failed" ELSE browser
  /\ UNCHANGED <<brokerVars, mcpVars, outstanding, progVars, mirror, fenceSeen, stirred>>

(* The browser's outcome ends the round that waits for it, and a session   *)
(* without a round.                                                        *)
FinishTurn ==
  /\ browser \in {"answered", "failed"} /\ open
  /\ \/ round \in {"idle", "starting", "asking", "waiting", "holding"}
     \/ round = "compacting" /\ outstanding = {}
  /\ RevokeTurn
  /\ RoundIs("ended") /\ batch' = {}
  /\ UNCHANGED <<wire, outstanding, progVars, pageVars, stirred>>

(* A mid-turn compaction takes a round of its own and brings the results   *)
(* of the journaled batch.                                                 *)
BeginCompaction ==
  /\ round = "idle" /\ browser \in {"running", "fenced"}
  /\ RequestCompaction
  /\ Answered(Taken, "invoking", "leaving")
  /\ RoundIs("compacting")
  /\ UNCHANGED <<wire, outstanding, batch, progVars, pageVars, stirred>>

(* Interrupts, supersession, expiry and shutdown revoke at any time.       *)
CancelTurn ==
  /\ RevokeTurn
  /\ UNCHANGED <<wire, roundVars, progVars, pageVars, stirred>>

(* waitForRetirement resolves: the progress is retired, the browser told.  *)
ObserveRetirement ==
  /\ ~open /\ ~retired
  /\ retired' = TRUE /\ activeCalls' = 0
  /\ browser' = IF browser \in {"running", "fenced"} THEN "failed" ELSE browser
  /\ UNCHANGED <<brokerVars, mcpVars, roundVars, mirror, fenceSeen, stirred>>

-----------------------------------------------------------------------------
(* The browser.                                                            *)

(* The helper process receives the newest progress frame.                  *)
MirrorProgress ==
  /\ mirror # activeCalls /\ mirror' = activeCalls
  /\ UNCHANGED <<brokerVars, mcpVars, roundVars, progVars, browser, fenceSeen, stirred>>

(* The page looks complete and no tool call is known to be in flight.      *)
BeginFence ==
  /\ safe = "native" /\ open /\ browser = "running" /\ mirror = 0
  /\ Quiet
  /\ browser' = "fenced" /\ fenceSeen' = revision /\ stirred' = FALSE
  /\ UNCHANGED <<brokerVars, mcpVars, roundVars, progVars, mirror>>

(* The page read after the fence must look complete too.                   *)
DropFence ==
  /\ browser = "fenced"
  /\ browser' = "running" /\ fenceSeen' = None
  /\ UNCHANGED <<brokerVars, mcpVars, roundVars, progVars, mirror, stirred>>

Commit ==
  /\ browser = "fenced" /\ mirror = 0
  /\ CommitFence(fenceSeen)
  /\ browser' = "answered"
  /\ UNCHANGED <<mcpVars, roundVars, progVars, mirror, fenceSeen, stirred>>

(* Of a Zero Risk turn the accepted completion is the answer.              *)
SafeAnswer ==
  /\ safe = "completed" /\ browser = "running" /\ browser' = "answered"
  /\ UNCHANGED <<brokerVars, mcpVars, roundVars, progVars, mirror, fenceSeen, stirred>>

BrowserFails ==
  /\ browser \in {"running", "fenced"} /\ browser' = "failed"
  /\ UNCHANGED <<brokerVars, mcpVars, roundVars, progVars, mirror, fenceSeen, stirred>>

-----------------------------------------------------------------------------
Handlers(r) ==
  \/ BeginClaim(r) \/ AbandonClaim(r) \/ BeginSettle(r)
  \/ BeginInvoke(r) \/ AnswerLocally(r) \/ AbandonInvoke(r)
  \/ BeginRelease(r)

Dispatch(r) ==
  \/ ClaimArrives(r) \/ ResumeClaim(r) \/ InvokeArrives(r) \/ ReleaseArrives(r)
  \/ \E m \in Methods : SettleArrives(r, m)

Rounds ==
  \/ AskTools \/ BatchTimer \/ JournalBatch \/ Disconnect
  \/ RoundFails \/ FinishTurn \/ BeginCompaction
  \/ \E r \in Requests : ReturnResult(r)

Browser ==
  \/ MirrorProgress \/ BeginFence \/ DropFence \/ Commit \/ SafeAnswer \/ BrowserFails

Next ==
  \/ \E r \in Requests : Handlers(r) \/ Dispatch(r)
  \/ Start \/ Sent
  \/ \E a \in Answers : ParkCompletion(a) \/ Complete(a) \/ ResumeCompletion(a)
  \/ Rounds \/ Browser \/ CancelTurn \/ ObserveRetirement

Spec == Init /\ [][Next]_vars

-----------------------------------------------------------------------------
(* Properties.                                                             *)

(* A pending call is queued or delivered, never both nor neither, none     *)
(* stays queued once compaction superseded delivery, and none is queued    *)
(* behind a waiting adapter without the batch timer that will wake it.     *)
LedgerExact ==
  /\ open => /\ invocations = InSequence(queued) \cup delivered
             /\ InSequence(queued) \cap delivered = {}
             /\ Len(queued) = Cardinality(InSequence(queued))
             /\ compacting => queued = <<>>
  /\ queued # <<>> /\ waiter => timer

(* Whoever waits for the broker's answer is on the wire or held by it: an  *)
(* answer is owed to every handler that still expects one.  Conversely a   *)
(* lease has someone who will end it: its handler has not sent the         *)
(* settlement yet, or the settlement is on the wire.                       *)
AnswersOwed ==
  /\ \A r \in Requests :
       /\ mcp[r] = "invoking" => <<r, "invoke">> \in wire \/ r \in invocations
       /\ mcp[r] = "claiming" => <<r, "claim">> \in wire \/ r \in parked \cup woken
  /\ open => \A r \in activities :
       \/ mcp[r] \in {"claimed", "invoking", "releasing", "leaving"}
       \/ \E m \in {"settle", "retry"} : <<r, m>> \in wire

(* What the adapter has journaled or holds is still owed its result by the *)
(* broker, also after reconnects; a journaled batch is never replaced.     *)
JournalMatchesBroker ==
  open => /\ outstanding \subseteq delivered
          /\ round = "holding" => batch = delivered /\ outstanding = {}

(* Once the browser's completion is committed no handler holds a lease,    *)
(* runs a tool or waits for one.  (An invocation that its handler gave up  *)
(* may still arrive, and is queued; nobody waits for it.)  Likewise a Zero *)
(* Risk turn does no work before Sent and start, and none after its        *)
(* completion, whatever woke late.                                         *)
NoWorkBehindFence ==
  /\ open /\ fence # None =>
       activities = {} /\ \A r \in Requests : mcp[r] \notin {"claimed", "invoking"}
  /\ safe \in {"awaiting_start", "completed"} => Quiet

(* The page that completes a turn was read after the last tool activity:   *)
(* no lease began or ended between reading and committing the fence.       *)
FenceSeesAll == [][fence = None /\ fence' # None => ~stirred]_vars

(* "Only unresolved native tool calls veto browser-turn completion": while *)
(* the progress counts calls, the broker has delivered calls to resolve.   *)
VetoIsReal == open /\ activeCalls > 0 => delivered # {}
=============================================================================
