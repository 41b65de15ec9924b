-------------------------- MODULE ToolBridgeProofs --------------------------
(***************************************************************************)
(* The tool channel of a turn keeps its ledger exact, owes every waiting   *)
(* handler an answer, agrees with the adapter's journal and does no work   *)
(* behind a committed fence: for any number of requests and answers and    *)
(* any bound on disconnects.                                               *)
(***************************************************************************)
EXTENDS ToolBridge, FiniteSetTheorems, SequenceTheorems, TLAPS

-----------------------------------------------------------------------------
(* The inductive invariant, part by part.                                  *)

\* What is on the wire or held by the broker fits where the handler is.
Wired ==
  \A r \in Requests :
    /\ mcp[r] = "idle" => r \notin parked \cup woken /\ \A m \in Methods : <<r, m>> \notin wire
    /\ mcp[r] \in {"idle", "claiming", "claimed"} => <<r, "invoke">> \notin wire /\ r \notin invocations
    /\ <<r, "invoke">> \in wire => r \notin invocations
    /\ <<r, "claim">> \in wire => r \notin parked \cup woken
    /\ mcp[r] \in {"settling", "retrying"} => <<r, "settle">> \in wire
    /\ <<r, "settle">> \in wire \/ <<r, "retry">> \in wire => mcp[r] \in {"settling", "retrying", "done"}
    /\ mcp[r] = "invoking" => <<r, "invoke">> \in wire \/ r \in invocations
    /\ mcp[r] = "claiming" => <<r, "claim">> \in wire \/ r \in parked \cup woken

\* Claims and completions are parked before Sent and woken by it.
SentOnce == (parked # {} => ~sent) /\ (woken # {} => sent)

\* A lease begins with the claim and ends with the settlement, once.
Leases ==
  /\ activities \cap ended = {}
  /\ \A r \in Requests :
       /\ mcp[r] = "idle" => r \notin activities
       /\ <<r, "claim">> \in wire \/ r \in parked \cup woken => r \notin activities
  /\ open => \A r \in Requests :
       /\ mcp[r] \in {"claimed", "invoking"} => r \in activities
       /\ mcp[r] = "done" => r \in ended
       /\ r \in activities => \/ mcp[r] \in {"claimed", "invoking", "releasing", "leaving"}
                              \/ \E m \in {"settle", "retry"} : <<r, m>> \in wire

\* A revoked channel holds nothing.
Closed == ~open => queued = <<>> /\ delivered = {} /\ invocations = {} /\ ~waiter

\* Only a waiting round waits in the broker, and nothing is delivered then.
Waits ==
  /\ waiter => round = "waiting"
  /\ round = "waiting" => outstanding = {} /\ delivered = {}
  /\ round = "asking" => outstanding = {}

\* The progress counts at least what is journaled or held.
Counted ==
  /\ retired => ~open
  /\ open => /\ activeCalls >= Cardinality(outstanding)
             /\ round = "holding" => activeCalls >= Cardinality(batch)

\* The fence that the browser has read falls behind when a lease begins or ends.
FenceRead ==
  open /\ browser = "fenced" =>
    /\ fenceSeen \in Nat /\ fenceSeen <= revision
    /\ stirred => fenceSeen < revision

IInv ==
  /\ TypeOK /\ Wired /\ SentOnce /\ Leases
  /\ Closed /\ LedgerExact
  /\ Waits /\ Counted /\ JournalMatchesBroker
  /\ FenceRead /\ NoWorkBehindFence



-----------------------------------------------------------------------------
(* Sequences and sizes.                                                    *)

(* InSequence: an appended call is the only one added.                     *)
LEMMA InEmpty == InSequence(<<>>) = {}
  BY DEF InSequence

LEMMA InSequenceType ==
  ASSUME NEW S, NEW s \in Seq(S)
  PROVE  InSequence(s) \subseteq S
  BY DEF InSequence

LEMMA InAppend ==
  ASSUME NEW S, NEW s \in Seq(S), NEW x \in S
  PROVE  InSequence(Append(s, x)) = InSequence(s) \cup {x}
<1>. DEFINE t == Append(s, x)
<1>1. t \in Seq(S) /\ Len(t) = Len(s) + 1 /\ t[Len(s) + 1] = x
      /\ \A i \in 1..Len(s) : t[i] = s[i]
  BY AppendProperties
<1>2. DOMAIN t = 1..(Len(s) + 1) /\ DOMAIN s = 1..Len(s) /\ Len(s) \in Nat
  BY <1>1
<1>. QED  BY <1>1, <1>2 DEF InSequence

LEMMA FiniteParts == ASSUME NEW S, S \subseteq Requests PROVE IsFiniteSet(S)
  BY RequestsAssumption, FS_Subset

LEMMA SizeOf == ASSUME NEW S, S \subseteq Requests PROVE Cardinality(S) \in Nat
  BY FiniteParts, FS_CardinalityType

(* One result less is owed.                                                *)
LEMMA SizeWithout ==
  ASSUME NEW S, S \subseteq Requests, NEW r \in S
  PROVE  Cardinality(S \ {r}) = Cardinality(S) - 1 /\ Cardinality(S) >= 1
<1>1. IsFiniteSet(S) /\ Cardinality(S) \in Nat
  BY FiniteParts, SizeOf
<1>2. IsFiniteSet(S \ {r}) /\ Cardinality(S \ {r}) \in Nat
  BY SizeOf, FiniteParts
<1>3. Cardinality(S \ {r}) = Cardinality(S) - 1
  BY <1>1, FS_RemoveElement
<1>. QED  BY <1>1, <1>2, <1>3

-----------------------------------------------------------------------------
(* Type correctness.                                                       *)

\* TypeOK in two parts: the Boolean variables and the others.
Flags ==
  /\ open \in BOOLEAN /\ waiter \in BOOLEAN /\ timer \in BOOLEAN
  /\ compacting \in BOOLEAN /\ sent \in BOOLEAN /\ started \in BOOLEAN
  /\ retired \in BOOLEAN /\ stirred \in BOOLEAN

Shapes ==
  /\ activities \in SUBSET Requests /\ ended \in SUBSET Requests
  /\ delivered \in SUBSET Requests /\ invocations \in SUBSET Requests
  /\ revision \in Nat /\ fence \in Nat \cup {None} /\ interrupted \in Nat
  /\ queued \in Seq(Requests)
  /\ safe \in SafeStates \cup {"native"} /\ answer \in Answers \cup {None}
  /\ parked \in SUBSET (Requests \cup Answers) /\ woken \in SUBSET (Requests \cup Answers)
  /\ mcp \in [Requests -> HandlerStates]
  /\ wire \in SUBSET (Requests \X Methods)
  /\ round \in RoundStates
  /\ outstanding \in SUBSET Requests /\ batch \in SUBSET Requests
  /\ activeCalls \in Nat /\ mirror \in Nat /\ disconnects \in 0..MaxDisconnects
  /\ browser \in {"running", "fenced", "answered", "failed"}
  /\ fenceSeen \in Nat \cup {None}

LEMMA TypeParts == TypeOK => Flags /\ Shapes
<1>1. TypeOK => Flags
  BY DEF TypeOK, BrokerTypeOK, Flags
<1>2. TypeOK => Shapes
  BY DEF TypeOK, BrokerTypeOK, Shapes
<1>. QED  BY <1>1, <1>2

LEMMA TypeWhole == Flags' /\ Shapes' => TypeOK'
  BY DEF TypeOK, BrokerTypeOK, Flags, Shapes

LEMMA InitType == Init => TypeOK
<1>. SUFFICES ASSUME Init PROVE TypeOK
  OBVIOUS
<1>1. Flags
  BY DEF Init, Register, Flags
<1>2. Shapes
  BY DisconnectsAssumption DEF Init, Register, Shapes, SafeStates, HandlerStates,
                               RoundStates
<1>. QED  BY <1>1, <1>2 DEF Flags, Shapes, TypeOK, BrokerTypeOK

LEMMA FlagsStep == ASSUME Flags, Next PROVE Flags'
<1>. USE DEF Flags, brokerVars, leaseVars, callVars, compVars, safeVars, waitVars, mcpVars,
             roundVars, progVars, pageVars
<1>1. ASSUME NEW r \in Requests, Handlers(r) PROVE Flags'
  BY <1>1 DEF Handlers, BeginClaim, AbandonClaim, BeginSettle, BeginInvoke, AnswerLocally,
     AbandonInvoke, BeginRelease
<1>2. ASSUME NEW r \in Requests, ClaimArrives(r) \/ ResumeClaim(r) PROVE Flags'
  BY <1>2 DEF ClaimArrives, ResumeClaim, DecideClaim, GrantClaim
<1>3. ASSUME NEW r \in Requests, InvokeArrives(r) PROVE Flags'
  BY <1>3 DEF InvokeArrives, QueueCall, InterceptCall, Scheduled
<1>4. ASSUME NEW r \in Requests, ReleaseArrives(r) PROVE Flags'
  BY <1>4 DEF ReleaseArrives, RevokeTurn, Revoke
<1>5. ASSUME NEW r \in Requests, NEW m \in Methods, SettleArrives(r, m) PROVE Flags'
  BY <1>5 DEF SettleArrives, CompleteActivity
<1>6. CASE Start \/ Sent
  BY <1>6 DEF Start, Sent, StartSafeTurn, ConfirmSent
<1>7. ASSUME NEW a \in Answers, ParkCompletion(a) \/ Complete(a) \/ ResumeCompletion(a)
      PROVE  Flags'
  BY <1>7 DEF ParkCompletion, Complete, ResumeCompletion, CompleteSafeTurn
<1>8. CASE AskTools
  BY <1>8 DEF AskTools, TakeBatch, AwaitBatch, Hold
<1>9. CASE BatchTimer
  BY <1>9 DEF BatchTimer, DeliverBatch, TimerIdle, Hold
<1>10. CASE JournalBatch \/ RoundFails
  BY <1>10 DEF JournalBatch, RoundFails
<1>11. CASE Disconnect
  BY <1>11 DEF Disconnect, AbortWaiter, RevokeTurn, Revoke
<1>12. CASE FinishTurn \/ CancelTurn
  BY <1>12 DEF FinishTurn, CancelTurn, RevokeTurn, Revoke
<1>13. CASE BeginCompaction
  BY <1>13 DEF BeginCompaction, RequestCompaction
<1>14. ASSUME NEW r \in Requests, ReturnResult(r) PROVE Flags'
  BY <1>14 DEF ReturnResult, CompleteTool
<1>15. CASE Browser
  BY <1>15 DEF Browser, MirrorProgress, BeginFence, DropFence, Commit, CommitFence,
               SafeAnswer,
     BrowserFails
<1>16. CASE ObserveRetirement
  BY <1>16 DEF ObserveRetirement
<1>. QED
  BY <1>1, <1>2, <1>3, <1>4, <1>5, <1>6, <1>7, <1>8, <1>9, <1>10, <1>11, <1>12, <1>13,
     <1>14,
     <1>15, <1>16 DEF Next, Dispatch, Rounds

LEMMA ShapesStep == ASSUME Shapes, Counted, Next PROVE Shapes'
<1>. USE DEF Shapes, brokerVars, leaseVars, callVars, compVars, safeVars, waitVars, mcpVars,
             roundVars, progVars, pageVars
<1>0. ASSUME NEW D, NEW s, NEW t \in HandlerStates, Answered(D, s, t)
      PROVE  mcp' \in [Requests -> HandlerStates]
  BY <1>0 DEF Answered
<1>19. ASSUME RevokeTurn
       PROVE  /\ activities' = activities /\ ended' = ended /\ revision' = revision /\ fence' = fence
              /\ interrupted' = interrupted /\ answer' = answer /\ woken' = woken
              /\ queued' = <<>> /\ delivered' = {} /\ invocations' = {} /\ parked' = {}
              /\ safe' \in SafeStates \cup {"native"}
              /\ mcp' \in [Requests -> HandlerStates]
  BY <1>19 DEF RevokeTurn, Revoke, SafeStates, HandlerStates
<1>1. ASSUME NEW r \in Requests, Handlers(r) PROVE Shapes'
  BY <1>1 DEF Handlers, BeginClaim, AbandonClaim, BeginSettle, BeginInvoke, AnswerLocally,
     AbandonInvoke, BeginRelease, Send, HandlerStates, Methods
<1>2. ASSUME NEW r \in Requests, ClaimArrives(r) \/ ResumeClaim(r) PROVE Shapes'
  <2>1. DecideClaim(r) => mcp' \in [Requests -> HandlerStates]
    BY <1>0 DEF DecideClaim, HandlerStates
  <2>2. CASE ClaimArrives(r)
    BY <2>1, <2>2 DEF ClaimArrives, DecideClaim, GrantClaim, Arrives, Park
  <2>3. CASE ResumeClaim(r)
    BY <2>1, <2>3 DEF ResumeClaim, DecideClaim, GrantClaim
  <2>. QED  BY <1>2, <2>2, <2>3
<1>3. ASSUME NEW r \in Requests, InvokeArrives(r) PROVE Shapes'
  <2>1. mcp' \in [Requests -> HandlerStates]
    BY <1>0, <1>3 DEF InvokeArrives, HandlerStates
  <2>2. CASE QueueCall(r)
    BY <1>3, <2>1, <2>2 DEF InvokeArrives, Arrives, QueueCall
  <2>3. CASE InterceptCall(r)
    BY <1>3, <2>1, <2>3 DEF InvokeArrives, Arrives, InterceptCall
  <2>4. CASE UNCHANGED brokerVars
    BY <1>3, <2>1, <2>4 DEF InvokeArrives, Arrives
  <2>. QED  BY <1>3, <2>2, <2>3, <2>4 DEF InvokeArrives
<1>4. ASSUME NEW r \in Requests, ReleaseArrives(r) PROVE Shapes'
  <2>1. CASE RevokeTurn
    BY <1>4, <2>1, <1>19 DEF ReleaseArrives, Arrives
  <2>2. CASE UNCHANGED <<brokerVars, mcp>>
    BY <1>4, <2>2 DEF ReleaseArrives, Arrives
  <2>. QED  BY <1>4, <2>1, <2>2 DEF ReleaseArrives
<1>5. ASSUME NEW r \in Requests, NEW m \in Methods, SettleArrives(r, m) PROVE Shapes'
  BY <1>5 DEF SettleArrives, Arrives, CompleteActivity, HandlerStates
<1>6. CASE Start \/ Sent
  BY <1>6 DEF Start, Sent, StartSafeTurn, ConfirmSent, Activated, SafeStates
<1>7. ASSUME NEW a \in Answers, ParkCompletion(a) \/ Complete(a) \/ ResumeCompletion(a)
      PROVE  Shapes'
  BY <1>7 DEF ParkCompletion, Park, Complete, ResumeCompletion, CompleteSafeTurn,
              SafeStates
<1>8. Taken \in SUBSET Requests /\ Batch \in SUBSET Requests
  BY DEF Taken, Batch
<1>9. ASSUME NEW B \in SUBSET Requests, Hold(B)
      PROVE  activeCalls' \in Nat /\ batch' \in SUBSET Requests
  <2>1. Cardinality(B) \in Nat
    BY SizeOf
  <2>. QED  BY <1>9, <2>1 DEF Hold
<1>10. CASE AskTools
  <2>1. activeCalls' \in Nat /\ batch' \in SUBSET Requests
    BY <1>8, <1>9, <1>10 DEF AskTools
  <2>2. /\ delivered' \in SUBSET Requests /\ queued' \in Seq(Requests)
        /\ invocations' = invocations /\ interrupted' = interrupted
        /\ UNCHANGED <<leaseVars, safeVars, waitVars>>
    <3>1. CASE TakeBatch
      BY <1>8, <3>1 DEF TakeBatch
    <3>2. CASE AwaitBatch
      BY <3>2 DEF AwaitBatch
    <3>3. CASE UNCHANGED brokerVars
      BY <3>3
    <3>. QED  BY <1>10, <3>1, <3>2, <3>3 DEF AskTools
  <2>3. round' \in RoundStates /\ disconnects' = disconnects
    BY <1>10 DEF AskTools, RoundIs, RoundStates
  <2>. QED  BY <1>10, <2>1, <2>2, <2>3 DEF AskTools
<1>11. CASE BatchTimer
  <2>1. activeCalls' \in Nat /\ batch' \in SUBSET Requests
    BY <1>8, <1>9, <1>11 DEF BatchTimer
  <2>2. /\ delivered' \in SUBSET Requests /\ queued' \in Seq(Requests)
        /\ invocations' = invocations /\ interrupted' = interrupted
        /\ UNCHANGED <<leaseVars, safeVars, waitVars>>
    <3>1. CASE DeliverBatch
      BY <1>8, <3>1 DEF DeliverBatch
    <3>2. CASE TimerIdle
      BY <3>2 DEF TimerIdle
    <3>. QED  BY <1>11, <3>1, <3>2 DEF BatchTimer
  <2>3. round' \in RoundStates /\ disconnects' = disconnects
    BY <1>11 DEF BatchTimer, RoundIs, RoundStates
  <2>. QED  BY <1>11, <2>1, <2>2, <2>3 DEF BatchTimer
<1>12. CASE JournalBatch \/ RoundFails
  <2>1. CASE JournalBatch
    BY <2>1 DEF JournalBatch, RoundIs, RoundStates
  <2>2. CASE RoundFails
    BY <2>2 DEF RoundFails, RoundIs, RoundStates
  <2>. QED  BY <1>12, <2>1, <2>2
<1>13. CASE Disconnect
  <2>1. disconnects' \in 0..MaxDisconnects
    BY <1>13, DisconnectsAssumption DEF Disconnect
  <2>2. round' \in RoundStates /\ browser' \in {"running", "fenced", "answered", "failed"}
    BY <1>13 DEF Disconnect, RoundStates
  <2>3. CASE AbortWaiter /\ UNCHANGED mcp
    BY <1>13, <2>1, <2>2, <2>3 DEF Disconnect, AbortWaiter
  <2>4. CASE RevokeTurn
    BY <1>13, <1>19, <2>1, <2>2, <2>4 DEF Disconnect
  <2>5. CASE UNCHANGED <<brokerVars, mcp>>
    BY <1>13, <2>1, <2>2, <2>5 DEF Disconnect
  <2>. QED  BY <1>13, <2>3, <2>4, <2>5 DEF Disconnect
<1>14. CASE FinishTurn \/ CancelTurn
  <2>1. RevokeTurn
    BY <1>14 DEF FinishTurn, CancelTurn
  <2>2. /\ round' \in RoundStates /\ disconnects' = disconnects /\ batch' \in SUBSET Requests
        /\ UNCHANGED <<wire, outstanding, progVars, pageVars>>
    BY <1>14 DEF FinishTurn, CancelTurn, RoundIs, RoundStates
  <2>. QED  BY <1>19, <2>1, <2>2
<1>15. CASE BeginCompaction
  <2>1. Cardinality(Taken) \in Nat
    BY <1>8, SizeOf
  <2>2. mcp' \in [Requests -> HandlerStates]
    BY <1>0, <1>15 DEF BeginCompaction, HandlerStates
  <2>. QED  BY <1>15, <2>1, <2>2 DEF BeginCompaction, RequestCompaction, RoundIs, RoundStates
<1>16. ASSUME NEW r \in Requests, ReturnResult(r) PROVE Shapes'
  <2>1. open /\ r \in outstanding /\ activeCalls' = activeCalls - 1
    BY <1>16 DEF ReturnResult, CompleteTool, CompleteAllowed
  <2>2. activeCalls >= Cardinality(outstanding)
    BY <2>1 DEF Counted
  <2>3. Cardinality(outstanding) \in Nat /\ Cardinality(outstanding) >= 1
    BY <2>1, SizeOf, SizeWithout
  <2>4. activeCalls' \in Nat
    BY <2>1, <2>2, <2>3
  <2>5. mcp' \in [Requests -> HandlerStates]
    BY <1>0, <1>16 DEF ReturnResult, HandlerStates
  <2>. QED  BY <1>16, <2>4, <2>5 DEF ReturnResult, CompleteTool, RoundIs, RoundStates
<1>17. CASE Browser
  BY <1>17 DEF Browser, MirrorProgress, BeginFence, DropFence, Commit, CommitFence,
               SafeAnswer,
     BrowserFails
<1>18. CASE ObserveRetirement
  BY <1>18 DEF ObserveRetirement
<1>. QED
  BY <1>1, <1>2, <1>3, <1>4, <1>5, <1>6, <1>7, <1>10, <1>11, <1>12, <1>13, <1>14,
     <1>15, <1>16,
     <1>17, <1>18 DEF Next, Dispatch, Rounds

LEMMA TypeStep == ASSUME TypeOK, Counted, Next PROVE TypeOK'
  BY TypeParts, FlagsStep, ShapesStep, TypeWhole

-----------------------------------------------------------------------------
(* Who waits for what.                                                     *)

\* What the steps that touch neither handlers nor requests leave alone.
WiredFrame == UNCHANGED <<mcp, wire, invocations, parked, woken>>

LEMMA RevokeEffect ==
  ASSUME RevokeTurn
  PROVE  /\ ~open' /\ invocations' = {} /\ delivered' = {} /\ queued' = <<>> /\ parked' = {}
         /\ ~waiter' /\ woken' = woken /\ activities' = activities /\ ended' = ended
         /\ sent' = sent /\ fence' = fence /\ safe' \notin {"awaiting_start", "completed"}
         /\ \A q \in Requests :
              \/ mcp'[q] = mcp[q] /\ ~(mcp[q] = "invoking" /\ q \in invocations)
                                 /\ ~(mcp[q] = "claiming" /\ q \in parked)
              \/ mcp'[q] = "releasing" /\ mcp[q] = "invoking"
              \/ mcp'[q] = "leaving" /\ mcp[q] = "claiming"
  BY DEF RevokeTurn, Revoke, leaseVars, compVars

LEMMA WiredStep == ASSUME Shapes, Wired, Next PROVE Wired'
<1>. USE DEF Shapes, brokerVars, leaseVars, callVars, compVars, safeVars, waitVars, mcpVars,
             roundVars, progVars, pageVars
<1>1. CASE WiredFrame
  BY <1>1 DEF Wired, WiredFrame
<1>2. ASSUME NEW r \in Requests, Handlers(r) PROVE Wired'
  <2>. USE <1>2 DEF Wired, Send, Methods
  <2>1. CASE BeginClaim(r)
    BY <2>1 DEF BeginClaim
  <2>2. CASE AbandonClaim(r)
    BY <2>2 DEF AbandonClaim
  <2>3. CASE BeginSettle(r)
    <3>1. CASE mcp[r] = "leaving" /\ Send(r, "settling", "settle")
      BY <2>3, <3>1 DEF BeginSettle
    <3>2. CASE mcp[r] = "settling" /\ Send(r, "retrying", "retry")
      BY <2>3, <3>2 DEF BeginSettle
    <3>. QED  BY <2>3, <3>1, <3>2 DEF BeginSettle
  <2>4. CASE BeginInvoke(r)
    BY <2>4 DEF BeginInvoke
  <2>5. CASE AnswerLocally(r)
    BY <2>5 DEF AnswerLocally
  <2>6. CASE AbandonInvoke(r)
    BY <2>6 DEF AbandonInvoke
  <2>7. CASE BeginRelease(r)
    BY <2>7 DEF BeginRelease
  <2>. QED  BY <2>1, <2>2, <2>3, <2>4, <2>5, <2>6, <2>7 DEF Handlers
<1>3. ASSUME NEW r \in Requests, DecideClaim(r)
      PROVE  \A q \in Requests : mcp'[q] = IF q = r /\ mcp[q] = "claiming" THEN mcp'[q] ELSE mcp[q]
  BY <1>3 DEF DecideClaim, Answered
<1>4. ASSUME NEW r \in Requests, DecideClaim(r)
      PROVE  invocations' = invocations /\ (mcp[r] = "claiming" => mcp'[r] \in {"claimed", "leaving"})
  BY <1>4 DEF DecideClaim, Answered, GrantClaim
<1>5. ASSUME NEW r \in Requests, ClaimArrives(r) PROVE Wired'
  <2>1. CASE MustWaitForSent
    BY <1>5, <2>1 DEF ClaimArrives, Arrives, Park, Wired, Methods
  <2>2. CASE ~MustWaitForSent
    BY <1>3, <1>4, <1>5, <2>2 DEF ClaimArrives, Arrives, Wired, Methods
  <2>. QED  BY <2>1, <2>2
<1>6. ASSUME NEW r \in Requests, ResumeClaim(r) PROVE Wired'
  BY <1>3, <1>4, <1>6 DEF ResumeClaim, Wired, Methods
<1>7. ASSUME NEW r \in Requests, InvokeArrives(r) PROVE Wired'
  <2>1. /\ <<r, "invoke">> \in wire /\ UNCHANGED <<parked, woken>>
        /\ \A q \in Requests : \A m \in Methods :
             <<q, m>> \in wire' <=> <<q, m>> \in wire /\ ~(q = r /\ m = "invoke")
    BY <1>7 DEF InvokeArrives, Arrives, QueueCall, InterceptCall
  <2>2. \/ invocations' = invocations \cup {r} /\ mcp' = mcp
        \/ /\ invocations' = invocations
           /\ \A q \in Requests : \/ mcp'[q] = mcp[q] /\ ~(q = r /\ mcp[q] = "invoking")
                                  \/ mcp[q] = "invoking" /\ mcp'[q] \in {"releasing", "leaving"}
    <3>1. CASE QueueCall(r) /\ UNCHANGED mcp
      BY <3>1 DEF QueueCall
    <3>2. CASE InterceptCall(r) /\ Answered({r}, "invoking", "leaving")
      BY <3>2 DEF InterceptCall, Answered
    <3>3. CASE UNCHANGED brokerVars /\ Answered({r}, "invoking", "releasing")
      BY <3>3 DEF Answered
    <3>. QED  BY <1>7, <3>1, <3>2, <3>3 DEF InvokeArrives
  <2>. HIDE DEF brokerVars, leaseVars, callVars, compVars, safeVars, waitVars, mcpVars
  <2>3. CASE invocations' = invocations \cup {r} /\ mcp' = mcp
    BY <2>1, <2>3 DEF Wired, Methods
  <2>4. CASE invocations' = invocations
    BY <2>1, <2>2, <2>4 DEF Wired, Methods
  <2>. QED  BY <2>2, <2>3, <2>4
<1>8. ASSUME RevokeTurn, wire' \subseteq wire,
             \A q \in Requests : \A m \in Methods \ {"release"} : <<q, m>> \in wire <=> <<q, m>> \in wire'
      PROVE  Wired'
  BY <1>8, RevokeEffect DEF Wired, Methods
<1>9. ASSUME NEW r \in Requests, ReleaseArrives(r) PROVE Wired'
  <2>1. CASE RevokeTurn
    BY <1>8, <1>9, <2>1 DEF ReleaseArrives, Arrives, Methods
  <2>2. CASE UNCHANGED <<brokerVars, mcp>>
    BY <1>9, <2>2 DEF ReleaseArrives, Arrives, Wired, Methods
  <2>. QED  BY <1>9, <2>1, <2>2 DEF ReleaseArrives
<1>10. ASSUME NEW r \in Requests, NEW m \in Methods, SettleArrives(r, m) PROVE Wired'
  BY <1>10 DEF SettleArrives, Arrives, CompleteActivity, Wired, Methods
<1>11. CASE Sent
  BY <1>11 DEF Sent, ConfirmSent, Wired
<1>12. ASSUME NEW a \in Answers, ParkCompletion(a) \/ Complete(a) \/ ResumeCompletion(a)
       PROVE  Wired'
  <2>1. UNCHANGED <<mcp, wire, invocations>>
    BY <1>12 DEF ParkCompletion, Complete, ResumeCompletion, CompleteSafeTurn
  <2>2. \A q \in Requests : q \in parked' \cup woken' <=> q \in parked \cup woken
    BY <1>12, NamesAssumption DEF ParkCompletion, Park, Complete, ResumeCompletion
  <2>. QED  BY <2>1, <2>2 DEF Wired
<1>13. CASE Disconnect
  <2>1. CASE RevokeTurn
    BY <1>8, <1>13, <2>1 DEF Disconnect
  <2>2. CASE AbortWaiter /\ UNCHANGED mcp
    BY <1>1, <1>13, <2>2 DEF Disconnect, AbortWaiter, WiredFrame
  <2>3. CASE UNCHANGED <<brokerVars, mcp>>
    BY <1>1, <1>13, <2>3 DEF Disconnect, WiredFrame
  <2>. QED  BY <1>13, <2>1, <2>2, <2>3 DEF Disconnect
<1>14. CASE FinishTurn \/ CancelTurn
  BY <1>8, <1>14 DEF FinishTurn, CancelTurn
<1>15. CASE BeginCompaction
  BY <1>15 DEF BeginCompaction, RequestCompaction, Answered, Taken, Wired
<1>16. ASSUME NEW r \in Requests, ReturnResult(r) PROVE Wired'
  BY <1>16 DEF ReturnResult, CompleteTool, Answered, Wired
<1>17. CASE AskTools \/ BatchTimer \/ JournalBatch \/ RoundFails
  <2>1. CASE AskTools
    BY <1>1, <2>1 DEF AskTools, TakeBatch, AwaitBatch, WiredFrame
  <2>2. CASE BatchTimer
    BY <1>1, <2>2 DEF BatchTimer, DeliverBatch, TimerIdle, WiredFrame
  <2>3. CASE JournalBatch \/ RoundFails
    BY <1>1, <2>3 DEF JournalBatch, RoundFails, WiredFrame
  <2>. QED  BY <1>17, <2>1, <2>2, <2>3
<1>18. CASE Browser
  BY <1>1, <1>18 DEF Browser, MirrorProgress, BeginFence, DropFence, Commit, CommitFence,
     SafeAnswer, BrowserFails, WiredFrame
<1>19. CASE Start \/ ObserveRetirement
  BY <1>1, <1>19 DEF Start, StartSafeTurn, ObserveRetirement, WiredFrame
<1>. QED
  BY <1>2, <1>5, <1>6, <1>7, <1>9, <1>10, <1>11, <1>12, <1>13, <1>14, <1>15, <1>16, <1>17,
     <1>18, <1>19 DEF Next, Dispatch, Rounds

-----------------------------------------------------------------------------
(* Leases.                                                                 *)

LEMMA SentOnceStep == ASSUME Shapes, SentOnce, Next PROVE SentOnce'
<1>. USE DEF SentOnce, brokerVars, leaseVars, callVars, compVars, safeVars, waitVars, mcpVars
<1>1. CASE UNCHANGED <<parked, woken, sent>>
  BY <1>1
<1>2. ASSUME NEW r \in Requests, Handlers(r) PROVE SentOnce'
  BY <1>2 DEF Handlers, BeginClaim, AbandonClaim, BeginSettle, BeginInvoke, AnswerLocally,
     AbandonInvoke, BeginRelease
<1>3. ASSUME NEW r \in Requests, Dispatch(r) PROVE SentOnce'
  <2>1. CASE ClaimArrives(r) \/ ResumeClaim(r)
    BY <2>1 DEF ClaimArrives, ResumeClaim, DecideClaim, GrantClaim, MustWaitForSent, Park
  <2>2. CASE InvokeArrives(r)
    BY <2>2 DEF InvokeArrives, QueueCall, InterceptCall
  <2>3. CASE ReleaseArrives(r)
    BY <2>3, RevokeEffect DEF ReleaseArrives
  <2>4. CASE \E m \in Methods : SettleArrives(r, m)
    BY <2>4 DEF SettleArrives, CompleteActivity
  <2>. QED  BY <1>3, <2>1, <2>2, <2>3, <2>4 DEF Dispatch
<1>4. CASE Start \/ Sent
  <2>1. CASE Start
    BY <1>1, <2>1 DEF Start, StartSafeTurn
  <2>2. CASE Sent
    BY <2>2 DEF Sent, ConfirmSent
  <2>. QED  BY <1>4, <2>1, <2>2
<1>5. ASSUME NEW a \in Answers, ParkCompletion(a) \/ Complete(a) \/ ResumeCompletion(a)
      PROVE  SentOnce'
  BY <1>5 DEF ParkCompletion, MustWaitForSent, Park, Complete, ResumeCompletion,
              CompleteSafeTurn
<1>6. CASE AskTools \/ BatchTimer \/ JournalBatch \/ RoundFails
  BY <1>1, <1>6 DEF AskTools, TakeBatch, AwaitBatch, BatchTimer, DeliverBatch, TimerIdle,
     JournalBatch, RoundFails
<1>7. CASE Disconnect \/ FinishTurn \/ CancelTurn
  BY <1>7, RevokeEffect DEF Disconnect, AbortWaiter, FinishTurn, CancelTurn
<1>8. CASE BeginCompaction \/ \E r \in Requests : ReturnResult(r)
  BY <1>1, <1>8 DEF BeginCompaction, RequestCompaction, ReturnResult, CompleteTool
<1>9. CASE Browser \/ ObserveRetirement
  BY <1>1, <1>9 DEF Browser, MirrorProgress, BeginFence, DropFence, Commit, CommitFence,
     SafeAnswer, BrowserFails, ObserveRetirement
<1>. QED  BY <1>2, <1>3, <1>4, <1>5, <1>6, <1>7, <1>8, <1>9 DEF Next, Rounds

\* What the steps that touch no lease leave alone.
LeaseFrame == UNCHANGED <<open, activities, ended, mcp, wire, parked, woken>>

LEMMA LeasesStep == ASSUME Shapes, Wired, SentOnce, Leases, Next PROVE Leases'
<1>. USE DEF Shapes, brokerVars, leaseVars, callVars, compVars, safeVars, waitVars, mcpVars
<1>1. CASE LeaseFrame
  BY <1>1 DEF Leases, LeaseFrame
<1>2. ASSUME NEW r \in Requests, Handlers(r) PROVE Leases'
  <2>. USE <1>2 DEF Leases, Wired, Send, Methods
  <2>1. CASE BeginClaim(r)
    BY <2>1 DEF BeginClaim
  <2>2. CASE AbandonClaim(r)
    BY <2>2 DEF AbandonClaim
  <2>3. CASE BeginSettle(r)
    <3>1. CASE mcp[r] = "leaving" /\ Send(r, "settling", "settle")
      BY <2>3, <3>1 DEF BeginSettle
    <3>2. CASE mcp[r] = "settling" /\ Send(r, "retrying", "retry")
      BY <2>3, <3>2 DEF BeginSettle
    <3>. QED  BY <2>3, <3>1, <3>2 DEF BeginSettle
  <2>4. CASE BeginInvoke(r)
    BY <2>4 DEF BeginInvoke
  <2>5. CASE AnswerLocally(r)
    BY <2>5 DEF AnswerLocally
  <2>6. CASE AbandonInvoke(r)
    BY <2>6 DEF AbandonInvoke
  <2>7. CASE BeginRelease(r)
    BY <2>7 DEF BeginRelease
  <2>. QED  BY <2>1, <2>2, <2>3, <2>4, <2>5, <2>6, <2>7 DEF Handlers
<1>3. ASSUME NEW r \in Requests, DecideClaim(r)
      PROVE  /\ open' = open /\ ended' = ended
             /\ \/ /\ open /\ r \notin ended /\ activities' = activities \cup {r}
                   /\ \A q \in Requests :
                        mcp'[q] = IF q = r /\ mcp[q] = "claiming" THEN "claimed" ELSE mcp[q]
                \/ /\ activities' = activities
                   /\ \A q \in Requests :
                        mcp'[q] = IF q = r /\ mcp[q] = "claiming" THEN "leaving" ELSE mcp[q]
  BY <1>3 DEF DecideClaim, GrantClaim, ClaimAllowed, Answered
<1>17. ASSUME NEW r \in Requests, DecideClaim(r),
              <<r, "claim">> \in wire \/ r \in woken,
              <<r, "claim">> \notin wire', r \notin parked' \cup woken',
              \A q \in Requests : q \in parked' \cup woken' => q \in parked \cup woken,
              \A q \in Requests : \A m \in Methods :
                <<q, m>> \in wire' <=> <<q, m>> \in wire /\ ~(q = r /\ m = "claim" /\ <<r, "claim">> \in wire)
       PROVE  Leases'
  <2>1. mcp[r] # "idle" /\ r \notin activities
    BY <1>17 DEF Leases, Wired, Methods
  <2>2. open' = open /\ ended' = ended
    BY <1>3, <1>17
  <2>. HIDE DEF brokerVars, leaseVars, callVars, compVars, safeVars, waitVars, mcpVars
  <2>3. CASE /\ open /\ r \notin ended /\ activities' = activities \cup {r}
             /\ \A q \in Requests :
                  mcp'[q] = IF q = r /\ mcp[q] = "claiming" THEN "claimed" ELSE mcp[q]
    <3>1. mcp[r] \in {"settling", "retrying"} => <<r, "settle">> \in wire'
      BY <1>17 DEF Wired, Methods
    <3>2. mcp[r] # "done"
      BY <2>3 DEF Leases
    <3>3. mcp'[r] \in {"claimed", "invoking", "releasing", "leaving"} \/ <<r, "settle">> \in wire'
      BY <2>1, <2>3, <3>1, <3>2 DEF HandlerStates
    <3>4. \A q \in Requests :
            /\ mcp'[q] \in {"claimed", "invoking"} => q \in activities'
            /\ mcp'[q] = "done" => q \in ended'
      BY <2>2, <2>3 DEF Leases
    <3>5. \A q \in Requests : q \in activities' =>
            \/ mcp'[q] \in {"claimed", "invoking", "releasing", "leaving"}
            \/ \E m \in {"settle", "retry"} : <<q, m>> \in wire'
      BY <1>17, <2>3, <3>3 DEF Leases, Methods
    <3>6. \A q \in Requests :
            /\ mcp'[q] = "idle" => q \notin activities'
            /\ <<q, "claim">> \in wire' \/ q \in parked' \cup woken' => q \notin activities'
      BY <1>17, <2>1, <2>3 DEF Leases, Methods
    <3>. QED  BY <2>2, <2>3, <3>4, <3>5, <3>6 DEF Leases
  <2>4. CASE /\ activities' = activities
             /\ \A q \in Requests :
                  mcp'[q] = IF q = r /\ mcp[q] = "claiming" THEN "leaving" ELSE mcp[q]
    BY <1>17, <2>1, <2>2, <2>4 DEF Leases, Methods
  <2>. QED  BY <1>3, <1>17, <2>3, <2>4
<1>4. ASSUME NEW r \in Requests, ClaimArrives(r) PROVE Leases'
  <2>1. CASE MustWaitForSent
    BY <1>4, <2>1 DEF ClaimArrives, Arrives, Park, Leases, Wired, Methods
  <2>2. CASE ~MustWaitForSent
    <3>1. /\ <<r, "claim">> \in wire /\ wire' = wire \ {<<r, "claim">>}
          /\ DecideClaim(r) /\ parked' = parked /\ woken' = woken
      BY <1>4, <2>2 DEF ClaimArrives, Arrives
    <3>2. r \notin parked \cup woken
      BY <3>1 DEF Wired
    <3>. QED  BY <1>17, <3>1, <3>2 DEF Methods
  <2>. QED  BY <2>1, <2>2
<1>5. ASSUME NEW r \in Requests, ResumeClaim(r) PROVE Leases'
  <2>1. /\ r \in woken /\ woken' = woken \ {r} /\ parked' = parked /\ wire' = wire
        /\ r \notin parked /\ DecideClaim(r)
    BY <1>5 DEF ResumeClaim, SentOnce
  <2>2. <<r, "claim">> \notin wire
    BY <2>1 DEF Wired
  <2>. QED  BY <1>17, <2>1, <2>2
<1>6. ASSUME NEW r \in Requests, InvokeArrives(r) PROVE Leases'
  <2>1. /\ UNCHANGED <<open, activities, ended, parked, woken>>
        /\ \A q \in Requests : \A m \in Methods \ {"invoke"} : <<q, m>> \in wire' <=> <<q, m>> \in wire
    BY <1>6 DEF InvokeArrives, Arrives, QueueCall, InterceptCall
  <2>2. \A q \in Requests : \/ mcp'[q] = mcp[q]
                            \/ mcp[q] = "invoking" /\ mcp'[q] \in {"releasing", "leaving"}
    BY <1>6 DEF InvokeArrives, Answered
  <2>. HIDE DEF brokerVars, leaseVars, callVars, compVars, safeVars, waitVars, mcpVars
  <2>. QED  BY <2>1, <2>2 DEF Leases, Methods
<1>7. ASSUME RevokeTurn, wire' \subseteq wire PROVE Leases'
  BY <1>7, RevokeEffect DEF Leases
<1>8. ASSUME NEW r \in Requests, ReleaseArrives(r) PROVE Leases'
  <2>1. CASE RevokeTurn
    BY <1>7, <1>8, <2>1 DEF ReleaseArrives, Arrives
  <2>2. CASE UNCHANGED <<brokerVars, mcp>>
    BY <1>8, <2>2 DEF ReleaseArrives, Arrives, Leases, Methods
  <2>. QED  BY <1>8, <2>1, <2>2 DEF ReleaseArrives
<1>9. ASSUME NEW r \in Requests, NEW m \in Methods, SettleArrives(r, m) PROVE Leases'
  <2>1. /\ m \in {"settle", "retry"} /\ <<r, m>> \in wire /\ wire' = wire \ {<<r, m>>}
        /\ UNCHANGED <<open, parked, woken>>
        /\ \A q \in Requests :
             mcp'[q] = IF q = r /\ mcp[q] \in {"settling", "retrying"} THEN "done" ELSE mcp[q]
    BY <1>9 DEF SettleArrives, Arrives, CompleteActivity
  <2>2. \/ open /\ r \notin ended /\ activities' = activities \ {r} /\ ended' = ended \cup {r}
        \/ ~(open /\ r \notin ended) /\ activities' = activities /\ ended' = ended
    BY <1>9 DEF SettleArrives, CompleteActivity
  <2>. HIDE DEF brokerVars, leaseVars, callVars, compVars, safeVars, waitVars, mcpVars
  <2>3. mcp[r] \in {"settling", "retrying", "done"}
    BY <2>1 DEF Wired
  <2>. QED  BY <2>1, <2>2, <2>3 DEF Leases, Methods
<1>10. CASE Sent
  BY <1>10 DEF Sent, ConfirmSent, Leases
<1>11. ASSUME NEW a \in Answers, ParkCompletion(a) \/ Complete(a) \/ ResumeCompletion(a)
       PROVE  Leases'
  <2>1. UNCHANGED <<open, activities, ended, mcp, wire>>
    BY <1>11 DEF ParkCompletion, Complete, ResumeCompletion, CompleteSafeTurn
  <2>2. \A q \in Requests : q \in parked' \cup woken' <=> q \in parked \cup woken
    BY <1>11, NamesAssumption DEF ParkCompletion, Park, Complete, ResumeCompletion
  <2>. QED  BY <2>1, <2>2 DEF Leases
<1>12. CASE Disconnect
  <2>1. CASE RevokeTurn
    BY <1>7, <1>12, <2>1 DEF Disconnect
  <2>2. CASE AbortWaiter /\ UNCHANGED mcp
    BY <1>1, <1>12, <2>2 DEF Disconnect, AbortWaiter, LeaseFrame
  <2>3. CASE UNCHANGED <<brokerVars, mcp>>
    BY <1>1, <1>12, <2>3 DEF Disconnect, LeaseFrame
  <2>. QED  BY <1>12, <2>1, <2>2, <2>3 DEF Disconnect
<1>13. CASE FinishTurn \/ CancelTurn
  BY <1>7, <1>13 DEF FinishTurn, CancelTurn
<1>18. ASSUME UNCHANGED <<open, activities, ended, wire, parked, woken>>,
              \A q \in Requests : \/ mcp'[q] = mcp[q]
                                  \/ mcp[q] = "invoking" /\ mcp'[q] = "leaving"
       PROVE  Leases'
  <2>. HIDE DEF Shapes, brokerVars, leaseVars, callVars, compVars, safeVars, waitVars, mcpVars
  <2>. QED  BY <1>18 DEF Leases
<1>20. ASSUME NEW D, Answered(D, "invoking", "leaving")
       PROVE  \A q \in Requests : mcp'[q] = mcp[q] \/ (mcp[q] = "invoking" /\ mcp'[q] = "leaving")
  <2>. HIDE DEF Shapes
  <2>. SUFFICES ASSUME NEW q \in Requests
                PROVE  mcp'[q] = mcp[q] \/ (mcp[q] = "invoking" /\ mcp'[q] = "leaving")
    OBVIOUS
  <2>1. mcp'[q] = IF q \in D /\ mcp[q] = "invoking" THEN "leaving" ELSE mcp[q]
    BY <1>20 DEF Answered
  <2>. QED  BY <2>1
<1>14. CASE BeginCompaction
  <2>1. UNCHANGED <<open, activities, ended, wire, parked, woken>>
    BY <1>14 DEF BeginCompaction, RequestCompaction
  <2>2. Answered(Taken, "invoking", "leaving")
    BY <1>14 DEF BeginCompaction
  <2>3. \A q \in Requests : mcp'[q] = mcp[q] \/ (mcp[q] = "invoking" /\ mcp'[q] = "leaving")
    BY <1>20, <2>2
  <2>. QED  BY <1>18, <2>1, <2>3
<1>19. ASSUME NEW r \in Requests, ReturnResult(r) PROVE Leases'
  <2>1. UNCHANGED <<open, activities, ended, wire, parked, woken>>
    BY <1>19 DEF ReturnResult, CompleteTool
  <2>2. \A q \in Requests : mcp'[q] = mcp[q] \/ (mcp[q] = "invoking" /\ mcp'[q] = "leaving")
    BY <1>19, <1>20 DEF ReturnResult
  <2>. QED  BY <1>18, <2>1, <2>2
<1>15. CASE AskTools \/ BatchTimer \/ JournalBatch \/ RoundFails
  BY <1>1, <1>15 DEF AskTools, TakeBatch, AwaitBatch, BatchTimer, DeliverBatch, TimerIdle,
     JournalBatch, RoundFails, LeaseFrame
<1>16. CASE Browser \/ Start \/ ObserveRetirement
  BY <1>1, <1>16 DEF Browser, MirrorProgress, BeginFence, DropFence, Commit, CommitFence,
     SafeAnswer, BrowserFails, Start, StartSafeTurn, ObserveRetirement, LeaseFrame
<1>. QED
  BY <1>2, <1>4, <1>5, <1>6, <1>8, <1>9, <1>10, <1>11, <1>12, <1>13, <1>14, <1>15, <1>16,
     <1>19 DEF Next, Dispatch, Rounds

-----------------------------------------------------------------------------
(* The ledger.                                                             *)

Ledger == Closed /\ LedgerExact

LedgerFrame == UNCHANGED <<open, queued, delivered, invocations, waiter, timer, compacting>>

LEMMA LedgerQueue ==
  ASSUME Shapes, Ledger, NEW r \in Requests, r \notin invocations, QueueCall(r)
  PROVE  Ledger'
<1>1. /\ open /\ ~compacting /\ invocations' = invocations \cup {r} /\ queued' = Append(queued, r)
      /\ UNCHANGED <<open, delivered, waiter, compacting>>
      /\ timer' = (timer \/ (queued' # <<>> /\ waiter))
  BY DEF QueueCall, InvokeAllowed, Scheduled, compVars
<1>2. queued \in Seq(Requests)
  BY DEF Shapes
<1>3. InSequence(queued') = InSequence(queued) \cup {r} /\ InSequence(queued) \subseteq Requests
  BY <1>1, <1>2, InAppend, InSequenceType
<1>4. r \notin InSequence(queued) /\ r \notin delivered
  BY <1>1 DEF Ledger, LedgerExact
<1>5. Len(queued') = Len(queued) + 1
  BY <1>1, <1>2
<1>6. Cardinality(InSequence(queued')) = Cardinality(InSequence(queued)) + 1
  BY <1>3, <1>4, FiniteParts, FS_AddElement
<1>7. /\ invocations = InSequence(queued) \cup delivered /\ InSequence(queued) \cap delivered = {}
      /\ Len(queued) = Cardinality(InSequence(queued))
  BY <1>1 DEF Ledger, LedgerExact
<1>8. /\ invocations' = InSequence(queued') \cup delivered' /\ InSequence(queued') \cap delivered' = {}
      /\ Len(queued') = Cardinality(InSequence(queued'))
  BY <1>1, <1>3, <1>4, <1>5, <1>6, <1>7
<1>9. queued' # <<>> /\ waiter' => timer'
  BY <1>1
<1>10. open' /\ ~compacting'
  BY <1>1
<1>. QED  BY <1>8, <1>9, <1>10 DEF Ledger, Closed, LedgerExact

(* What nextToolBatch and the timer do with the queue.                     *)
LEMMA EmptyQueue == InSequence(<<>>) = {} /\ Len(<<>>) = Cardinality({})
  BY InEmpty, FS_EmptySet

LEMMA LedgerTake == ASSUME Shapes, Ledger, TakeBatch PROVE Ledger'
<1>1. /\ open /\ ~compacting /\ UNCHANGED <<open, invocations, waiter, timer, compacting>>
      /\ delivered' = Batch /\ queued' = IF delivered # {} THEN queued ELSE <<>>
  BY DEF TakeBatch, NextAllowed, compVars
<1>2. CASE delivered # {}
  BY <1>1, <1>2 DEF Batch, Ledger, Closed, LedgerExact
<1>3. CASE delivered = {}
  <2>1. delivered' = InSequence(queued) \cap invocations /\ queued' = <<>>
    BY <1>1, <1>3 DEF Batch, Taken
  <2>2. invocations = InSequence(queued) \cup delivered
    BY <1>1 DEF Ledger, LedgerExact
  <2>3. invocations' = delivered'
    BY <1>1, <1>3, <2>1, <2>2
  <2>. QED  BY <1>1, <2>1, <2>3, EmptyQueue DEF Ledger, Closed, LedgerExact
<1>. QED  BY <1>2, <1>3

LEMMA LedgerAwait == ASSUME Shapes, Ledger, AwaitBatch PROVE Ledger' /\ delivered = {}
<1>1. /\ open /\ ~compacting /\ UNCHANGED <<open, delivered, invocations, timer, compacting>>
      /\ Batch = {} /\ queued' = <<>>
  BY DEF AwaitBatch, NextAllowed, compVars
<1>2. delivered = {}
  BY <1>1 DEF Batch
<1>3. InSequence(queued) \cap invocations = {}
  BY <1>1, <1>2 DEF Batch, Taken
<1>4. invocations = InSequence(queued) \cup delivered
  BY <1>1 DEF Ledger, LedgerExact
<1>5. invocations = {}
  BY <1>2, <1>3, <1>4
<1>. QED  BY <1>1, <1>2, <1>5, EmptyQueue DEF Ledger, Closed, LedgerExact

LEMMA LedgerDeliver == ASSUME Shapes, Ledger, DeliverBatch PROVE Ledger'
<1>1. /\ queued # <<>> /\ waiter /\ UNCHANGED <<open, invocations, compacting>>
      /\ waiter' = FALSE /\ queued' = <<>> /\ delivered' = delivered \cup Taken
  BY DEF DeliverBatch, TimerWithBatch, compVars
<1>2. open /\ invocations = InSequence(queued) \cup delivered
  BY <1>1 DEF Ledger, Closed, LedgerExact
<1>3. invocations' = delivered'
  BY <1>1, <1>2 DEF Taken
<1>. QED  BY <1>1, <1>2, <1>3, EmptyQueue DEF Ledger, Closed, LedgerExact

LEMMA LedgerComplete ==
  ASSUME Shapes, Ledger, NEW r \in Requests, CompleteTool(r)
  PROVE  Ledger'
<1>1. /\ open /\ r \in delivered
      /\ UNCHANGED <<open, queued, waiter, timer, compacting>>
      /\ delivered' = delivered \ {r} /\ invocations' = invocations \ {r}
  BY DEF CompleteTool, CompleteAllowed, compVars
<1>2. invocations = InSequence(queued) \cup delivered /\ InSequence(queued) \cap delivered = {}
  BY <1>1 DEF Ledger, LedgerExact
<1>3. /\ invocations' = InSequence(queued) \cup delivered'
      /\ InSequence(queued) \cap delivered' = {}
  BY <1>1, <1>2
<1>. QED  BY <1>1, <1>3 DEF Ledger, Closed, LedgerExact

LEMMA LedgerCompaction == ASSUME Shapes, Ledger, RequestCompaction PROVE Ledger'
<1>1. /\ open /\ UNCHANGED <<open, delivered, waiter>>
      /\ queued' = <<>> /\ invocations' = invocations \ InSequence(queued)
  BY DEF RequestCompaction
<1>2. invocations = InSequence(queued) \cup delivered /\ InSequence(queued) \cap delivered = {}
  BY <1>1 DEF Ledger, LedgerExact
<1>3. invocations' = delivered'
  BY <1>1, <1>2
<1>. QED  BY <1>1, <1>3, EmptyQueue DEF Ledger, Closed, LedgerExact

LEMMA LedgerRevoke == ASSUME RevokeTurn PROVE Ledger'
  BY RevokeEffect DEF Ledger, Closed, LedgerExact

LEMMA LedgerStep == ASSUME Shapes, Wired, Ledger, Next PROVE Ledger'
<1>. USE DEF brokerVars, callVars, compVars
<1>1. CASE LedgerFrame
  BY <1>1 DEF LedgerFrame, Ledger, Closed, LedgerExact
<1>2. ASSUME NEW r \in Requests, Handlers(r) PROVE Ledger'
  BY <1>1, <1>2 DEF Handlers, BeginClaim, AbandonClaim, BeginSettle, BeginInvoke,
                    AnswerLocally,
     AbandonInvoke, BeginRelease, LedgerFrame
<1>3. ASSUME NEW r \in Requests, Dispatch(r) PROVE Ledger'
  <2>1. CASE ClaimArrives(r) \/ ResumeClaim(r)
    BY <1>1, <2>1 DEF ClaimArrives, ResumeClaim, DecideClaim, GrantClaim, LedgerFrame
  <2>2. CASE InvokeArrives(r)
    <3>1. r \notin invocations
      BY <2>2 DEF InvokeArrives, Arrives, Wired
    <3>2. CASE QueueCall(r)
      BY <3>1, <3>2, LedgerQueue
    <3>3. CASE InterceptCall(r) \/ UNCHANGED brokerVars
      BY <1>1, <3>3 DEF InterceptCall, LedgerFrame
    <3>. QED  BY <2>2, <3>2, <3>3 DEF InvokeArrives
  <2>3. CASE ReleaseArrives(r)
    BY <1>1, <2>3, LedgerRevoke DEF ReleaseArrives, LedgerFrame
  <2>4. CASE \E m \in Methods : SettleArrives(r, m)
    BY <1>1, <2>4 DEF SettleArrives, CompleteActivity, LedgerFrame
  <2>. QED  BY <1>3, <2>1, <2>2, <2>3, <2>4 DEF Dispatch
<1>4. CASE Start \/ Sent
  BY <1>1, <1>4 DEF Start, Sent, StartSafeTurn, ConfirmSent, LedgerFrame
<1>5. ASSUME NEW a \in Answers, ParkCompletion(a) \/ Complete(a) \/ ResumeCompletion(a)
      PROVE  Ledger'
  BY <1>1, <1>5 DEF ParkCompletion, Complete, ResumeCompletion, CompleteSafeTurn,
                    LedgerFrame
<1>6. CASE AskTools
  BY <1>1, <1>6, LedgerTake, LedgerAwait DEF AskTools, LedgerFrame
<1>7. CASE BatchTimer
  <2>1. CASE TimerIdle
    <3>1. /\ UNCHANGED <<open, queued, delivered, invocations, waiter, compacting>>
          /\ ~(queued # <<>> /\ waiter)
      BY <2>1 DEF TimerIdle, TimerWithBatch
    <3>. QED  BY <3>1 DEF Ledger, Closed, LedgerExact
  <2>. QED  BY <1>7, <2>1, LedgerDeliver DEF BatchTimer
<1>8. CASE JournalBatch \/ RoundFails
  BY <1>1, <1>8 DEF JournalBatch, RoundFails, LedgerFrame
<1>9. CASE Disconnect
  <2>1. CASE AbortWaiter
    <3>1. /\ UNCHANGED <<open, queued, delivered, invocations, timer, compacting>> /\ ~waiter'
      BY <2>1 DEF AbortWaiter
    <3>. QED  BY <3>1 DEF Ledger, Closed, LedgerExact
  <2>. QED  BY <1>1, <1>9, <2>1, LedgerRevoke DEF Disconnect, LedgerFrame
<1>10. CASE FinishTurn \/ CancelTurn
  BY <1>10, LedgerRevoke DEF FinishTurn, CancelTurn
<1>11. CASE BeginCompaction \/ \E r \in Requests : ReturnResult(r)
  BY <1>11, LedgerCompaction, LedgerComplete DEF BeginCompaction, ReturnResult
<1>12. CASE Browser \/ ObserveRetirement
  BY <1>1, <1>12 DEF Browser, MirrorProgress, BeginFence, DropFence, Commit, CommitFence,
     SafeAnswer, BrowserFails, ObserveRetirement, LedgerFrame
<1>. QED
  BY <1>2, <1>3, <1>4, <1>5, <1>6, <1>7, <1>8, <1>9, <1>10, <1>11, <1>12 DEF Next, Rounds

-----------------------------------------------------------------------------
(* The adapter's rounds and its journal.                                   *)

Journal == Waits /\ Counted /\ JournalMatchesBroker

JournalFrame ==
  UNCHANGED <<open, outstanding, delivered, batch, round, waiter, activeCalls, retired>>

LEMMA JournalRevoke ==
  ASSUME Shapes, Journal, RevokeTurn, UNCHANGED <<outstanding, retired>>, round' \in {round, "ended"}
  PROVE  Journal'
  BY RevokeEffect DEF Journal, Waits, Counted, JournalMatchesBroker

LEMMA JournalStep == ASSUME Shapes, Ledger, Journal, Next PROVE Journal'
<1>. USE DEF brokerVars, callVars, compVars, roundVars, progVars
<1>1. CASE JournalFrame
  BY <1>1 DEF JournalFrame, Journal, Waits, Counted, JournalMatchesBroker
<1>2. ASSUME NEW r \in Requests, Handlers(r) PROVE Journal'
  BY <1>1, <1>2 DEF Handlers, BeginClaim, AbandonClaim, BeginSettle, BeginInvoke,
                    AnswerLocally,
     AbandonInvoke, BeginRelease, JournalFrame
<1>3. ASSUME NEW r \in Requests, Dispatch(r) PROVE Journal'
  <2>1. CASE ClaimArrives(r) \/ ResumeClaim(r)
    BY <1>1, <2>1 DEF ClaimArrives, ResumeClaim, DecideClaim, GrantClaim, JournalFrame
  <2>2. CASE InvokeArrives(r)
    BY <1>1, <2>2 DEF InvokeArrives, QueueCall, InterceptCall, JournalFrame
  <2>3. CASE ReleaseArrives(r)
    BY <1>1, <2>3, JournalRevoke DEF ReleaseArrives, JournalFrame
  <2>4. CASE \E m \in Methods : SettleArrives(r, m)
    BY <1>1, <2>4 DEF SettleArrives, CompleteActivity, JournalFrame
  <2>. QED  BY <1>3, <2>1, <2>2, <2>3, <2>4 DEF Dispatch
<1>4. CASE Start \/ Sent
  BY <1>1, <1>4 DEF Start, Sent, StartSafeTurn, ConfirmSent, JournalFrame
<1>5. ASSUME NEW a \in Answers, ParkCompletion(a) \/ Complete(a) \/ ResumeCompletion(a)
      PROVE  Journal'
  BY <1>1, <1>5 DEF ParkCompletion, Complete, ResumeCompletion, CompleteSafeTurn,
                    JournalFrame
<1>6. ASSUME NEW B \in SUBSET Requests, Hold(B), outstanding = {}, delivered' = B,
             round' = "holding", ~waiter',
             UNCHANGED <<open, outstanding>>
      PROVE  Journal'
  <2>1. activeCalls' = activeCalls + Cardinality(B) /\ batch' = B /\ retired' = retired
    BY <1>6 DEF Hold
  <2>2. Cardinality(B) \in Nat /\ Cardinality(outstanding') = 0 /\ activeCalls \in Nat
    BY <1>6, SizeOf, FS_EmptySet DEF Shapes
  <2>3. activeCalls' >= Cardinality(batch') /\ activeCalls' >= Cardinality(outstanding')
    BY <2>1, <2>2
  <2>. QED  BY <1>6, <2>1, <2>3 DEF Journal, Waits, Counted, JournalMatchesBroker
<1>7. Taken \in SUBSET Requests /\ Batch \in SUBSET Requests
  BY DEF Shapes, Taken, Batch
<1>8. CASE AskTools
  <2>1. outstanding = {} /\ outstanding' = outstanding /\ round # "waiting"
    BY <1>8 DEF AskTools, BeginsAsking, Journal, Waits
  <2>2. CASE TakeBatch /\ Hold(Batch) /\ RoundIs("holding")
    <3>1. delivered' = Batch /\ open' = open /\ waiter' = waiter /\ ~waiter
      BY <2>1, <2>2 DEF TakeBatch, Journal, Waits
    <3>. QED  BY <1>6, <1>7, <2>1, <2>2, <3>1 DEF RoundIs
  <2>3. CASE AwaitBatch /\ RoundIs("waiting") /\ UNCHANGED <<batch, progVars>>
    <3>1. delivered = {} /\ delivered' = delivered /\ open' = open
      BY <2>3, LedgerAwait DEF AwaitBatch
    <3>. QED  BY <2>1, <2>3, <3>1 DEF RoundIs, Journal, Waits, Counted, JournalMatchesBroker
  <2>4. CASE RoundIs("starting") /\ UNCHANGED <<brokerVars, batch, progVars>>
    BY <2>1, <2>4 DEF RoundIs, Journal, Waits, Counted, JournalMatchesBroker
  <2>. QED  BY <1>8, <2>2, <2>3, <2>4 DEF AskTools
<1>9. CASE BatchTimer
  <2>1. CASE DeliverBatch /\ Hold(Taken) /\ RoundIs("holding")
    <3>1. waiter /\ ~waiter' /\ delivered' = delivered \cup Taken /\ open' = open
      BY <2>1 DEF DeliverBatch, TimerWithBatch
    <3>2. outstanding = {} /\ delivered' = Taken
      BY <3>1 DEF Journal, Waits
    <3>3. outstanding' = outstanding
      BY <1>9 DEF BatchTimer
    <3>. QED  BY <1>6, <1>7, <2>1, <3>1, <3>2, <3>3 DEF RoundIs
  <2>2. CASE TimerIdle /\ UNCHANGED <<batch, progVars, round>>
    BY <1>1, <1>9, <2>2 DEF BatchTimer, TimerIdle, JournalFrame
  <2>. QED  BY <1>9, <2>1, <2>2 DEF BatchTimer
<1>10. CASE JournalBatch
  <2>1. /\ round = "holding" /\ outstanding' = batch /\ round' = "idle"
        /\ UNCHANGED <<open, delivered, waiter, activeCalls, retired>>
    BY <1>10 DEF JournalBatch, RoundIs
  <2>. QED  BY <2>1 DEF Journal, Waits, Counted, JournalMatchesBroker
<1>11. CASE RoundFails
  <2>1. ~open /\ UNCHANGED <<open, outstanding, delivered, waiter, activeCalls, retired>> /\ round' = "ended"
    BY <1>11 DEF RoundFails, RoundIs
  <2>2. ~waiter
    BY <2>1 DEF Ledger, Closed
  <2>. QED  BY <2>1, <2>2 DEF Journal, Waits, Counted, JournalMatchesBroker
<1>12. CASE Disconnect
  <2>1. CASE RevokeTurn /\ round' = "ended"
    BY <1>12, <2>1, JournalRevoke DEF Disconnect
  <2>2. CASE AbortWaiter /\ round' = "idle"
    <3>1. ~waiter' /\ UNCHANGED <<open, delivered, outstanding, activeCalls, retired>>
      BY <1>12, <2>2 DEF Disconnect, AbortWaiter
    <3>. QED  BY <2>2, <3>1 DEF Journal, Waits, Counted, JournalMatchesBroker
  <2>3. CASE ~open /\ UNCHANGED brokerVars /\ round' = "ended"
    <3>1. ~waiter /\ UNCHANGED <<open, delivered, waiter, outstanding, activeCalls, retired>>
      BY <1>12, <2>3 DEF Disconnect, Ledger, Closed
    <3>. QED  BY <2>3, <3>1 DEF Journal, Waits, Counted, JournalMatchesBroker
  <2>. QED  BY <1>12, <2>1, <2>2, <2>3 DEF Disconnect
<1>13. CASE FinishTurn \/ CancelTurn
  BY <1>13, JournalRevoke DEF FinishTurn, CancelTurn, RoundIs
<1>14. CASE BeginCompaction
  <2>1. round = "idle" /\ round' = "compacting"
        /\ UNCHANGED <<open, outstanding, delivered, batch, waiter, activeCalls, retired>>
    BY <1>14 DEF BeginCompaction, RequestCompaction, RoundIs
  <2>. QED  BY <2>1 DEF Journal, Waits, Counted, JournalMatchesBroker
<1>15. ASSUME NEW r \in Requests, ReturnResult(r) PROVE Journal'
  <2>1. /\ open /\ round \in {"idle", "returning", "compacting"} /\ r \in outstanding
        /\ delivered' = delivered \ {r} /\ outstanding' = outstanding \ {r}
        /\ activeCalls' = activeCalls - 1
        /\ UNCHANGED <<open, waiter, retired>>
    BY <1>15 DEF ReturnResult, CompleteTool, CompleteAllowed
  <2>2. round' \in {"asking", "returning", "compacting"} /\ (round' = "asking" => outstanding' = {})
    BY <1>15, <2>1 DEF ReturnResult, RoundIs
  <2>3. activeCalls >= Cardinality(outstanding) /\ ~retired
    BY <2>1 DEF Journal, Counted
  <2>4. /\ Cardinality(outstanding \ {r}) = Cardinality(outstanding) - 1
        /\ Cardinality(outstanding) \in Nat /\ activeCalls \in Nat
    BY <2>1, SizeOf, SizeWithout DEF Shapes
  <2>5. activeCalls' >= Cardinality(outstanding')
    BY <2>1, <2>3, <2>4
  <2>6. ~waiter
    BY <2>1 DEF Journal, Waits
  <2>7. outstanding' \subseteq delivered'
    BY <2>1 DEF Journal, JournalMatchesBroker
  <2>. QED  BY <2>1, <2>2, <2>3, <2>5, <2>6, <2>7 DEF Journal, Waits, Counted, JournalMatchesBroker
<1>16. CASE ObserveRetirement
  <2>1. ~open /\ UNCHANGED <<open, outstanding, delivered, batch, round, waiter>>
    BY <1>16 DEF ObserveRetirement
  <2>. QED  BY <2>1 DEF Journal, Waits, Counted, JournalMatchesBroker
<1>17. CASE Browser
  BY <1>1, <1>17 DEF Browser, MirrorProgress, BeginFence, DropFence, Commit, CommitFence,
     SafeAnswer, BrowserFails, JournalFrame
<1>. QED
  BY <1>2, <1>3, <1>4, <1>5, <1>8, <1>9, <1>10, <1>11, <1>12, <1>13, <1>14, <1>15,
     <1>16, <1>17
     DEF Next, Rounds

-----------------------------------------------------------------------------
(* The completion fence.                                                   *)

Fenced == FenceRead /\ NoWorkBehindFence

FenceFrame == UNCHANGED <<open, browser, fenceSeen, revision, stirred, fence, activities, safe>>

(* Handlers that stop, and calls that end, cannot break the fence.         *)
LEMMA FenceQuieter ==
  ASSUME Fenced, FenceFrame, invocations' \subseteq invocations,
         \A q \in Requests : mcp'[q] \in {"claimed", "invoking"} => mcp[q] \in {"claimed", "invoking"}
  PROVE  Fenced'
  BY DEF FenceFrame, Fenced, FenceRead, NoWorkBehindFence, Quiet

LEMMA FenceRevoke == ASSUME RevokeTurn PROVE Fenced'
  BY RevokeEffect DEF Fenced, FenceRead, NoWorkBehindFence, Quiet

LEMMA FenceStep == ASSUME Shapes, Wired, Leases, Fenced, Next PROVE Fenced'
<1>. USE DEF brokerVars, leaseVars, callVars, compVars, safeVars, pageVars
<1>1. CASE FenceFrame /\ UNCHANGED <<mcp, invocations>>
  BY <1>1, FenceQuieter
<1>2. ASSUME NEW r \in Requests, Handlers(r) PROVE Fenced'
  <2>1. FenceFrame /\ invocations' = invocations
    BY <1>2 DEF Handlers, BeginClaim, AbandonClaim, BeginSettle, BeginInvoke,
                AnswerLocally,
       AbandonInvoke, BeginRelease, FenceFrame
  <2>2. \A q \in Requests : mcp'[q] \in {"claimed", "invoking"} => mcp[q] \in {"claimed", "invoking"}
    BY <1>2 DEF Handlers, BeginClaim, AbandonClaim, BeginSettle, BeginInvoke,
                AnswerLocally,
       AbandonInvoke, BeginRelease, Send, Shapes
  <2>. QED  BY <2>1, <2>2, FenceQuieter
<1>3. ASSUME NEW r \in Requests, NEW D, NEW s, NEW t \in {"releasing", "leaving"}, Answered(D, s, t)
      PROVE  \A q \in Requests : mcp'[q] \in {"claimed", "invoking"} => mcp[q] \in {"claimed", "invoking"}
  BY <1>3 DEF Answered
<1>4. ASSUME NEW r \in Requests, DecideClaim(r), <<r, "claim">> \in wire \/ r \in woken,
             UNCHANGED <<pageVars>>
      PROVE  Fenced'
  <2>1. CASE GrantClaim(r) /\ Answered({r}, "claiming", "claimed") /\ stirred' = TRUE
    <3>1. r \notin activities
      BY <1>4 DEF Leases
    <3>2. /\ open /\ fence = None /\ safe \notin {"awaiting_start", "completed"}
          /\ revision' = revision + 1
          /\ UNCHANGED <<open, fence, safe, browser, fenceSeen>>
      BY <1>4, <2>1, <3>1 DEF GrantClaim, ClaimAllowed, HarnessRunning
    <3>3. revision \in Nat
      BY DEF Shapes
    <3>4. NoWorkBehindFence'
      BY <3>2 DEF NoWorkBehindFence
    <3>5. FenceRead'
      BY <3>2, <3>3 DEF Fenced, FenceRead
    <3>. QED  BY <3>4, <3>5 DEF Fenced
  <2>2. CASE /\ Answered({r}, "claiming", "leaving")
             /\ UNCHANGED <<open, leaseVars, callVars, compVars, safeVars, stirred>>
    <3>1. FenceFrame /\ invocations' = invocations
      BY <1>4, <2>2 DEF FenceFrame
    <3>2. \A q \in Requests : mcp'[q] \in {"claimed", "invoking"} => mcp[q] \in {"claimed", "invoking"}
      BY <1>3, <2>2
    <3>. QED  BY <3>1, <3>2, FenceQuieter
  <2>. QED  BY <1>4, <2>1, <2>2 DEF DecideClaim
<1>5. ASSUME NEW r \in Requests, Dispatch(r) PROVE Fenced'
  <2>1. CASE ClaimArrives(r)
    BY <1>1, <1>4, <2>1 DEF ClaimArrives, Arrives, FenceFrame
  <2>2. CASE ResumeClaim(r)
    BY <1>4, <2>2 DEF ResumeClaim
  <2>3. CASE InvokeArrives(r)
    <3>1. CASE QueueCall(r) /\ UNCHANGED mcp
      <4>1. safe \notin {"awaiting_start", "completed"}
        BY <3>1 DEF QueueCall, InvokeAllowed, HarnessRunning
      <4>2. FenceFrame /\ mcp' = mcp
        BY <2>3, <3>1 DEF InvokeArrives, QueueCall, FenceFrame
      <4>. QED  BY <4>1, <4>2 DEF FenceFrame, Fenced, FenceRead, NoWorkBehindFence
    <3>2. CASE InterceptCall(r) /\ Answered({r}, "invoking", "leaving")
      <4>1. FenceFrame /\ invocations' = invocations
        BY <2>3, <3>2 DEF InvokeArrives, InterceptCall, FenceFrame
      <4>2. \A q \in Requests : mcp'[q] \in {"claimed", "invoking"} => mcp[q] \in {"claimed", "invoking"}
        BY <1>3, <3>2
      <4>. QED  BY <4>1, <4>2, FenceQuieter
    <3>3. CASE Answered({r}, "invoking", "releasing") /\ UNCHANGED brokerVars
      <4>1. FenceFrame /\ invocations' = invocations
        BY <2>3, <3>3 DEF InvokeArrives, FenceFrame
      <4>2. \A q \in Requests : mcp'[q] \in {"claimed", "invoking"} => mcp[q] \in {"claimed", "invoking"}
        BY <1>3, <3>3
      <4>. QED  BY <4>1, <4>2, FenceQuieter
    <3>. QED  BY <2>3, <3>1, <3>2, <3>3 DEF InvokeArrives
  <2>4. CASE ReleaseArrives(r)
    BY <1>1, <2>4, FenceRevoke DEF ReleaseArrives, FenceFrame
  <2>5. ASSUME NEW m \in Methods, SettleArrives(r, m)
        PROVE  Fenced'
    <3>1. /\ UNCHANGED <<open, browser, fenceSeen, fence, safe, invocations>>
          /\ \A q \in Requests : mcp'[q] = mcp[q] \/ mcp'[q] = "done"
      BY <2>5 DEF SettleArrives, CompleteActivity, Shapes
    <3>2. CASE open /\ r \notin ended
      <4>1. /\ activities' = activities \ {r} /\ revision' = revision + 1
        BY <2>5, <3>2 DEF SettleArrives, CompleteActivity
      <4>2. revision \in Nat
        BY DEF Shapes
      <4>3. FenceRead'
        BY <3>1, <4>1, <4>2 DEF Fenced, FenceRead
      <4>4. NoWorkBehindFence'
        BY <3>1, <4>1 DEF Fenced, NoWorkBehindFence, Quiet
      <4>. QED  BY <4>3, <4>4 DEF Fenced
    <3>3. CASE ~(open /\ r \notin ended)
      <4>1. UNCHANGED <<activities, revision>> /\ stirred' = (stirred \/ r \in activities)
        BY <2>5, <3>3 DEF SettleArrives, CompleteActivity
      <4>2. open => r \notin activities
        BY <3>3 DEF Leases
      <4>3. FenceRead'
        BY <3>1, <4>1, <4>2 DEF Fenced, FenceRead
      <4>4. NoWorkBehindFence'
        BY <3>1, <4>1 DEF Fenced, NoWorkBehindFence, Quiet
      <4>. QED  BY <4>3, <4>4 DEF Fenced
    <3>. QED  BY <3>2, <3>3
  <2>. QED  BY <1>5, <2>1, <2>2, <2>3, <2>4, <2>5 DEF Dispatch
<1>6. ASSUME /\ UNCHANGED <<open, browser, fenceSeen, revision, stirred, fence, activities, mcp, invocations>>
             /\ safe' \in {"awaiting_start", "completed"} => Quiet
      PROVE  Fenced'
  BY <1>6 DEF Fenced, FenceRead, NoWorkBehindFence, Quiet
<1>7. CASE Start \/ Sent
  <2>1. UNCHANGED <<open, browser, fenceSeen, revision, stirred, fence, activities, mcp, invocations>>
    BY <1>7 DEF Start, Sent, StartSafeTurn, ConfirmSent, mcpVars
  <2>2. safe' \in {"awaiting_start", "completed"} => Quiet
    BY <1>7 DEF Start, Sent, StartSafeTurn, ConfirmSent, Activated, Fenced,
                NoWorkBehindFence
  <2>. QED  BY <1>6, <2>1, <2>2
<1>8. ASSUME NEW a \in Answers, ParkCompletion(a) \/ Complete(a) \/ ResumeCompletion(a)
      PROVE  Fenced'
  <2>1. UNCHANGED <<open, browser, fenceSeen, revision, stirred, fence, activities, mcp, invocations>>
    BY <1>8 DEF ParkCompletion, Complete, ResumeCompletion, CompleteSafeTurn, mcpVars
  <2>2. safe' \in {"awaiting_start", "completed"} => Quiet
    BY <1>8 DEF ParkCompletion, Complete, ResumeCompletion, CompleteSafeTurn,
                SafeCompleteAllowed,
       Fenced, NoWorkBehindFence
  <2>. QED  BY <1>6, <2>1, <2>2
<1>9. CASE AskTools \/ BatchTimer \/ JournalBatch
  BY <1>1, <1>9 DEF AskTools, TakeBatch, AwaitBatch, BatchTimer, DeliverBatch, TimerIdle,
     JournalBatch, FenceFrame, mcpVars
<1>10. ASSUME UNCHANGED <<open, revision, stirred, fence, activities, mcp, invocations, safe>>,
              browser' # "fenced" \/ ~open
       PROVE  Fenced'
  BY <1>10 DEF Fenced, FenceRead, NoWorkBehindFence, Quiet
<1>11. CASE RoundFails \/ ObserveRetirement
  BY <1>10, <1>11 DEF RoundFails, ObserveRetirement, mcpVars
<1>12. CASE Disconnect
  BY <1>1, <1>10, <1>12, FenceRevoke DEF Disconnect, AbortWaiter, FenceFrame
<1>13. CASE FinishTurn \/ CancelTurn
  BY <1>13, FenceRevoke DEF FinishTurn, CancelTurn
<1>14. CASE BeginCompaction
  <2>1. FenceFrame /\ invocations' \subseteq invocations
    BY <1>14 DEF BeginCompaction, RequestCompaction, FenceFrame
  <2>2. Answered(Taken, "invoking", "leaving")
    BY <1>14 DEF BeginCompaction
  <2>3. \A q \in Requests : mcp'[q] \in {"claimed", "invoking"} => mcp[q] \in {"claimed", "invoking"}
    BY <2>2 DEF Answered
  <2>. QED  BY <2>1, <2>3, FenceQuieter
<1>15. ASSUME NEW r \in Requests, ReturnResult(r) PROVE Fenced'
  <2>1. FenceFrame /\ invocations' \subseteq invocations
    BY <1>15 DEF ReturnResult, CompleteTool, FenceFrame
  <2>2. \A q \in Requests : mcp'[q] \in {"claimed", "invoking"} => mcp[q] \in {"claimed", "invoking"}
    BY <1>3, <1>15 DEF ReturnResult
  <2>. QED  BY <2>1, <2>2, FenceQuieter
<1>16. CASE MirrorProgress
  BY <1>1, <1>16 DEF MirrorProgress, FenceFrame, mcpVars
<1>17. CASE BeginFence
  <2>1. fenceSeen' = revision /\ ~stirred' /\ UNCHANGED <<open, revision, fence, activities, mcp, invocations, safe>>
    BY <1>17 DEF BeginFence, mcpVars
  <2>2. revision \in Nat
    BY DEF Shapes
  <2>. QED  BY <2>1, <2>2 DEF Fenced, FenceRead, NoWorkBehindFence, Quiet
<1>18. CASE DropFence \/ SafeAnswer \/ BrowserFails
  BY <1>10, <1>18 DEF DropFence, SafeAnswer, BrowserFails, mcpVars
<1>19. CASE Commit
  <2>1. /\ open /\ browser' = "answered" /\ CommitAllowed(fenceSeen) /\ fence' = fenceSeen
        /\ UNCHANGED <<open, activities, invocations, safe, mcp>>
    BY <1>19 DEF Commit, CommitFence, mcpVars
  <2>2. activities = {} /\ \A q \in Requests : mcp[q] \notin {"claimed", "invoking"}
    <3>1. CASE fence # None
      BY <2>1, <3>1 DEF Fenced, NoWorkBehindFence
    <3>2. CASE fence = None
      BY <2>1, <3>2 DEF CommitAllowed, Quiet, Leases
    <3>. QED  BY <3>1, <3>2
  <2>. QED  BY <2>1, <2>2 DEF Fenced, FenceRead, NoWorkBehindFence, Quiet
<1>. QED
  BY <1>2, <1>5, <1>7, <1>8, <1>9, <1>11, <1>12, <1>13, <1>14, <1>15, <1>16, <1>17,
     <1>18, <1>19
     DEF Next, Rounds, Browser

(* Only the browser's commit sets the fence.                               *)
LEMMA CommitSeesAll ==
  ASSUME Shapes, FenceRead, Next, fence = None, fence' # None
  PROVE  ~stirred
<1>. USE DEF brokerVars, leaseVars
<1>1. ASSUME NEW r \in Requests, Handlers(r) \/ Dispatch(r) PROVE fence' = fence
  <2>1. CASE Handlers(r)
    BY <2>1 DEF Handlers, BeginClaim, AbandonClaim, BeginSettle, BeginInvoke,
                AnswerLocally,
       AbandonInvoke, BeginRelease
  <2>2. CASE ClaimArrives(r) \/ ResumeClaim(r)
    BY <2>2 DEF ClaimArrives, ResumeClaim, DecideClaim, GrantClaim
  <2>3. CASE InvokeArrives(r) \/ ReleaseArrives(r)
    BY <2>3, RevokeEffect DEF InvokeArrives, QueueCall, InterceptCall, ReleaseArrives
  <2>4. CASE \E m \in Methods : SettleArrives(r, m)
    BY <2>4 DEF SettleArrives, CompleteActivity
  <2>. QED  BY <1>1, <2>1, <2>2, <2>3, <2>4 DEF Dispatch
<1>2. CASE Start \/ Sent
  BY <1>2 DEF Start, Sent, StartSafeTurn, ConfirmSent
<1>3. ASSUME NEW a \in Answers, ParkCompletion(a) \/ Complete(a) \/ ResumeCompletion(a)
      PROVE  fence' = fence
  BY <1>3 DEF ParkCompletion, Complete, ResumeCompletion, CompleteSafeTurn
<1>4. CASE Rounds
  BY <1>4, RevokeEffect DEF Rounds, AskTools, TakeBatch, AwaitBatch, BatchTimer,
                            DeliverBatch,
     TimerIdle, JournalBatch, Disconnect, AbortWaiter, RoundFails, FinishTurn, BeginCompaction,
     RequestCompaction, ReturnResult, CompleteTool
<1>5. CASE MirrorProgress \/ BeginFence \/ DropFence \/ SafeAnswer \/ BrowserFails
  BY <1>5 DEF MirrorProgress, BeginFence, DropFence, SafeAnswer, BrowserFails
<1>6. CASE Commit
  <2>1. open /\ browser = "fenced" /\ revision = fenceSeen
    BY <1>6 DEF Commit, CommitFence, CommitAllowed
  <2>2. stirred => fenceSeen < revision
    BY <2>1 DEF FenceRead
  <2>. QED  BY <2>1, <2>2 DEF Shapes
<1>7. CASE CancelTurn \/ ObserveRetirement
  BY <1>7, RevokeEffect DEF CancelTurn, ObserveRetirement
<1>. QED  BY <1>1, <1>2, <1>3, <1>4, <1>5, <1>6, <1>7 DEF Next, Browser

-----------------------------------------------------------------------------
(* The theorems.                                                           *)

LEMMA InitIInv == Init => IInv
<1>. SUFFICES ASSUME Init PROVE IInv
  OBVIOUS
<1>1. TypeOK
  BY InitType
<1>2. /\ activities = {} /\ ended = {} /\ fence = None /\ queued = <<>> /\ delivered = {}
      /\ invocations = {} /\ ~waiter /\ parked = {} /\ woken = {} /\ open
      /\ \A r \in Requests : mcp[r] = "idle"
      /\ wire = {} /\ round = "idle" /\ outstanding = {} /\ batch = {} /\ activeCalls = 0
      /\ ~retired /\ browser = "running" /\ ~stirred
  BY DEF Init, Register
<1>3. Wired /\ SentOnce /\ Leases
  BY <1>2 DEF Wired, SentOnce, Leases
<1>4. Closed /\ LedgerExact
  BY <1>2, EmptyQueue DEF Closed, LedgerExact
<1>5. Waits /\ Counted /\ JournalMatchesBroker
  BY <1>2, FS_EmptySet DEF Waits, Counted, JournalMatchesBroker
<1>6. FenceRead /\ NoWorkBehindFence
  BY <1>2 DEF FenceRead, NoWorkBehindFence, Quiet
<1>. QED  BY <1>1, <1>3, <1>4, <1>5, <1>6 DEF IInv

LEMMA StepIInv == IInv /\ [Next]_vars => IInv'
<1>. SUFFICES ASSUME IInv, [Next]_vars PROVE IInv'
  OBVIOUS
<1>1. CASE Next
  <2>1. Shapes /\ TypeOK /\ Wired /\ SentOnce /\ Leases /\ Ledger /\ Counted /\ Journal /\ Fenced
    BY TypeParts DEF IInv, Ledger, Journal, Fenced
  <2>2. TypeOK'
    BY <1>1, <2>1, TypeStep
  <2>3. Wired' /\ SentOnce' /\ Leases'
    BY <1>1, <2>1, WiredStep, SentOnceStep, LeasesStep
  <2>4. Ledger' /\ Journal' /\ Fenced'
    BY <1>1, <2>1, LedgerStep, JournalStep, FenceStep
  <2>. QED  BY <2>2, <2>3, <2>4 DEF IInv, Ledger, Journal, Fenced
<1>2. CASE UNCHANGED vars
  <2>. USE <1>2 DEF IInv, vars, brokerVars, leaseVars, callVars, compVars, safeVars, waitVars, mcpVars,
                   roundVars, progVars, pageVars
  <2>1. TypeOK'
    BY DEF TypeOK, BrokerTypeOK
  <2>2. Wired' /\ SentOnce' /\ Leases'
    BY DEF Wired, SentOnce, Leases
  <2>3. Closed' /\ LedgerExact'
    BY DEF Closed, LedgerExact
  <2>4. Waits' /\ Counted' /\ JournalMatchesBroker'
    BY DEF Waits, Counted, JournalMatchesBroker
  <2>5. FenceRead' /\ NoWorkBehindFence'
    BY DEF FenceRead, NoWorkBehindFence, Quiet
  <2>. QED  BY <2>1, <2>2, <2>3, <2>4, <2>5
<1>. QED  BY <1>1, <1>2

(* All parts together are an invariant of the channel.                     *)
THEOREM Inductive == Spec => []IInv
  BY InitIInv, StepIInv, PTL DEF Spec

(* The broker's, the handlers' and the adapter's variables keep their      *)
(* types; above all, activeToolCalls never goes below zero.                *)
THEOREM TypeCorrect == Spec => []TypeOK
<1>1. IInv => TypeOK
  BY DEF IInv
<1>. QED  BY Inductive, <1>1, PTL

(* invoke, nextToolBatch, the batch timer, completeTool and                *)
(* requestCompaction keep the ledger of pending calls exact, and a queue   *)
(* with a waiting adapter has its timer armed.                             *)
THEOREM LedgerIsExact == Spec => []LedgerExact
<1>1. IInv => LedgerExact
  BY DEF IInv
<1>. QED  BY Inductive, <1>1, PTL

(* No MCP handler waits for an answer that nobody owes it, and no lease is *)
(* left that nobody will settle.                                           *)
THEOREM AnswersAreOwed == Spec => []AnswersOwed
<1>1. IInv => AnswersOwed
  <2>. SUFFICES ASSUME Wired, Leases, TypeOK PROVE AnswersOwed
    BY DEF IInv
  <2>1. \A r \in Requests :
          /\ mcp[r] = "invoking" => <<r, "invoke">> \in wire \/ r \in invocations
          /\ mcp[r] = "claiming" => <<r, "claim">> \in wire \/ r \in parked \cup woken
    BY DEF Wired
  <2>2. activities \subseteq Requests
    BY TypeParts DEF Shapes
  <2>3. open => \A r \in activities :
          \/ mcp[r] \in {"claimed", "invoking", "releasing", "leaving"}
          \/ \E m \in {"settle", "retry"} : <<r, m>> \in wire
    BY <2>2 DEF Leases
  <2>. QED  BY <2>1, <2>3 DEF AnswersOwed
<1>. QED  BY Inductive, <1>1, PTL

(* The batch that a round holds or has journaled for Codex is what the     *)
(* broker has delivered and still waits for.                               *)
THEOREM JournalIsOwed == Spec => []JournalMatchesBroker
<1>1. IInv => JournalMatchesBroker
  BY DEF IInv
<1>. QED  BY Inductive, <1>1, PTL

(* Behind the committed completion fence, before the start of a Zero Risk  *)
(* turn and after its completion no tool runs.                             *)
THEOREM FenceHolds == Spec => []NoWorkBehindFence
<1>1. IInv => NoWorkBehindFence
  BY DEF IInv
<1>. QED  BY Inductive, <1>1, PTL

(* The page that completes the turn was read after the last tool activity. *)
THEOREM FenceSaw == Spec => FenceSeesAll
<1>1. IInv /\ [Next]_vars => [fence = None /\ fence' # None => ~stirred]_vars
  <2>1. IInv => Shapes /\ FenceRead
    BY TypeParts DEF IInv
  <2>2. IInv /\ Next => (fence = None /\ fence' # None => ~stirred)
    BY <2>1, CommitSeesAll
  <2>. QED  BY <2>2
<1>. QED  BY Inductive, <1>1, PTL DEF Spec, FenceSeesAll
=============================================================================
