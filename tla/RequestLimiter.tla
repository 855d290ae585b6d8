--------------------------- MODULE RequestLimiter ---------------------------
(***************************************************************************)
(* internal/exprruntime/validation_limits.go: the transport that every     *)
(* validation request goes through. It composes a request budget for each  *)
(* target, a global and a per-rule request rate, and a timeout that a      *)
(* request shares with the redirects that follow it.                       *)
(*                                                                         *)
(* A chain is a request with its redirects. Time is discrete; a goroutine  *)
(* may be delayed between any two steps.                                   *)
(***************************************************************************)
EXTENDS Integers, Sequences, FiniteSets

CONSTANTS
  Chains, Rules, Targets,
  Rule,           (* the rule each chain is sent for                        *)
  Route,          (* the targets of each chain: a sequence, one per hop     *)
  MaxRequests,    (* MaxRequestsPerTarget, 0: no limit                      *)
  GlobalInterval, (* between two requests, 0: no limit                      *)
  RuleInterval,   (* the same for each rule                                 *)
  Timeout,        (* the client's timeout, 0: none                          *)
  MaxTime         (* bound: how far time goes                               *)

ASSUME RouteAssumption ==
  /\ IsFiniteSet(Chains)
  /\ Rule \in [Chains -> Rules]
  /\ Route \in [Chains -> Seq(Targets) \ {<<>>}]
ASSUME LimitAssumption ==
  /\ {MaxRequests, GlobalInterval, Timeout, MaxTime} \subseteq Nat
  /\ RuleInterval \in [Rules -> Nat]

VARIABLES
  now,
  globalNext, ruleNext, (* when the next request may be sent                *)
  sent,       (* requestsByTarget                                           *)
  pc,         (* where each chain is in RoundTrip                           *)
  hop,        (* which request of the chain that is                         *)
  clock,      (* what it read the clock to be                               *)
  wake,       (* when its timer fires                                       *)
  remaining,  (* its timeout budget                                         *)
  started,    (* when its provider request began                            *)
  ctxDone,    (* its context is cancelled                                   *)
  outcome,
  granted,    (* the slots given by wait, to each rule                      *)
  total,      (* ... and altogether                                         *)
  last,       (* the time for which the last one was given                  *)
  received,   (* the requests each target received                          *)
  active      (* the time each chain's requests spent at providers          *)

limits == <<globalNext, ruleNext, sent>>
chain  == <<pc, hop, clock, wake, remaining, started, outcome>>
grants == <<granted, total, last>>
vars == <<now, limits, chain, ctxDone, grants, received, active>>

Stages == {"check", "read", "lock", "sleep", "granted", "admit", "start", "sending",
           "body", "drained", "done"}

TypeOK ==
  /\ now \in Nat /\ globalNext \in Nat /\ ruleNext \in [Rules -> Nat]
  /\ sent \in [Targets -> Nat] /\ received \in [Targets -> Nat]
  /\ pc \in [Chains -> Stages]
  /\ hop \in [Chains -> Nat \ {0}] /\ \A c \in Chains : hop[c] <= Len(Route[c])
  /\ clock \in [Chains -> Nat] /\ wake \in [Chains -> Nat]
  /\ remaining \in [Chains -> 0 .. Timeout] /\ started \in [Chains -> Nat]
  /\ active \in [Chains -> Nat] /\ ctxDone \in [Chains -> BOOLEAN]
  /\ outcome \in [Chains -> {"none", "ok", "limit", "canceled", "timeout", "failed"}]
  /\ granted \in [Rules -> Nat] /\ total \in Nat /\ last \in Nat

Init ==
  /\ now = 0 /\ globalNext = 0 /\ ruleNext = [r \in Rules |-> 0]
  /\ sent = [t \in Targets |-> 0] /\ received = [t \in Targets |-> 0]
  /\ pc = [c \in Chains |-> "check"] /\ hop = [c \in Chains |-> 1]
  /\ clock = [c \in Chains |-> 0] /\ wake = [c \in Chains |-> 0]
  /\ remaining = [c \in Chains |-> Timeout] /\ started = [c \in Chains |-> 0]
  /\ active = [c \in Chains |-> 0] /\ ctxDone = [c \in Chains |-> FALSE]
  /\ outcome = [c \in Chains |-> "none"]
  /\ granted = [r \in Rules |-> 0] /\ total = 0 /\ last = 0

Target(c)   == Route[c][hop[c]]
Interval(c) == RuleInterval[Rule[c]]
AtProvider  == {"sending", "body"}

Goto(c, stage) == pc' = [pc EXCEPT ![c] = stage] /\ UNCHANGED outcome

Fail(c, why) ==
  /\ pc' = [pc EXCEPT ![c] = "done"]
  /\ outcome' = [outcome EXCEPT ![c] = why]

LimitHit(c) == MaxRequests > 0 /\ sent[Target(c)] >= MaxRequests
-----------------------------------------------------------------------------
(* The provider answers or the request is cut off at its deadline; a body  *)
(* may be left unread for longer than that.                                *)
Deadline(c) == started[c] + remaining[c]

Tick ==
  /\ now < MaxTime
  /\ \A c \in Chains : Timeout > 0 /\ pc[c] = "sending" => now < Deadline(c)
  /\ now' = now + 1
  /\ active' = [c \in Chains |-> IF Timeout > 0 /\ pc[c] \in AtProvider /\ now < Deadline(c)
                                THEN active[c] + 1 ELSE active[c]]
  /\ UNCHANGED <<limits, chain, ctxDone, grants, received>>

(* The request's context is cancelled. Later than this its cancellation    *)
(* only makes the request fail, as Respond may.                            *)
Cancel(c) ==
  /\ pc[c] \in {"check", "read", "lock", "sleep", "granted"} /\ ~ctxDone[c]
  /\ ctxDone' = [ctxDone EXCEPT ![c] = TRUE]
  /\ UNCHANGED <<now, limits, chain, grants, received, active>>

(* limitHit, before any waiting; wait returns at once without a rate.      *)
Check(c) ==
  /\ pc[c] = "check"
  /\ \/ LimitHit(c) /\ Fail(c, "limit")
     \/ /\ ~LimitHit(c)
        /\ Goto(c, IF GlobalInterval = 0 /\ Interval(c) = 0 THEN "granted" ELSE "read")
  /\ UNCHANGED <<now, limits, hop, clock, wake, remaining, started, ctxDone, grants,
                 received, active>>

(* wait reads the clock, and only then takes the lock.                     *)
ReadClock(c) ==
  /\ pc[c] = "read"
  /\ clock' = [clock EXCEPT ![c] = now]
  /\ Goto(c, "lock")
  /\ UNCHANGED <<now, limits, hop, wake, remaining, started, ctxDone, grants, received,
                 active>>

(* Both slots must be there at the time that was read.                     *)
SlotFree(c) ==
  /\ GlobalInterval > 0 => globalNext <= clock[c]
  /\ Interval(c) > 0 => ruleNext[Rule[c]] <= clock[c]

Later(a, b) == IF a >= b THEN a ELSE b

SendAt(c) == Later(IF GlobalInterval > 0 THEN globalNext ELSE 0,
                   IF Interval(c) > 0 THEN ruleNext[Rule[c]] ELSE 0)

Take(c) ==
  /\ globalNext' = IF GlobalInterval > 0 THEN clock[c] + GlobalInterval ELSE globalNext
  /\ ruleNext' = IF Interval(c) > 0 THEN [ruleNext EXCEPT ![Rule[c]] = clock[c] + Interval(c)]
                 ELSE ruleNext
  /\ granted' = [granted EXCEPT ![Rule[c]] = @ + 1] /\ total' = total + 1
  /\ last' = clock[c]
  /\ Goto(c, "granted") /\ UNCHANGED wake

Sleep(c) ==
  /\ wake' = [wake EXCEPT ![c] = SendAt(c)]
  /\ Goto(c, "sleep")

(* The lock is left, and the time that was read is forgotten.              *)
Unlock(c) ==
  /\ clock' = [clock EXCEPT ![c] = 0]
  /\ UNCHANGED <<now, sent, hop, remaining, started, ctxDone, received, active>>

(* Mutants: the rule's rate replaces the global one; a request that has to *)
(* wait reserves the global slot for when it has waited.                   *)
SlotRuleFirst(c) ==
  /\ pc[c] = "lock" /\ Unlock(c)
  /\ LET free == IF Interval(c) > 0 THEN ruleNext[Rule[c]] <= clock[c] ELSE SlotFree(c) IN
     \/ free /\ Take(c)
     \/ ~free /\ Sleep(c) /\ UNCHANGED <<globalNext, ruleNext, grants>>

SlotReserved(c) ==
  /\ pc[c] = "lock" /\ Unlock(c)
  /\ \/ SlotFree(c) /\ Take(c)
     \/ /\ ~SlotFree(c) /\ Sleep(c)
        /\ globalNext' = SendAt(c) + GlobalInterval
        /\ UNCHANGED <<ruleNext, grants>>

Slot(c) ==
  /\ pc[c] = "lock" /\ Unlock(c)
  /\ \/ SlotFree(c) /\ Take(c)
     \/ ~SlotFree(c) /\ Sleep(c) /\ UNCHANGED <<globalNext, ruleNext, grants>>

(* Mutant: a request that has waited is sent without another look.         *)
WakeSends(c) ==
  /\ pc[c] = "sleep"
  /\ \/ /\ now >= wake[c] /\ Goto(c, "granted")
        /\ granted' = [granted EXCEPT ![Rule[c]] = @ + 1]
        /\ total' = total + 1 /\ last' = now
     \/ ctxDone[c] /\ Fail(c, "canceled") /\ UNCHANGED grants
  /\ wake' = [wake EXCEPT ![c] = 0]
  /\ UNCHANGED <<now, limits, hop, clock, remaining, started, ctxDone, received, active>>

(* The timer fires and the loop begins anew, or the context ends the wait. *)
Wake(c) ==
  /\ pc[c] = "sleep"
  /\ \/ now >= wake[c] /\ Goto(c, "read")
     \/ ctxDone[c] /\ Fail(c, "canceled")
  /\ wake' = [wake EXCEPT ![c] = 0]
  /\ UNCHANGED <<now, limits, hop, clock, remaining, started, ctxDone, grants, received,
                 active>>

(* Mutant: a request is counted before its timeout is looked at.           *)
GrantedCounts(c) ==
  /\ pc[c] = "granted"
  /\ \/ ctxDone[c] /\ Fail(c, "canceled") /\ sent' = [sent EXCEPT ![Target(c)] = @ + 1]
     \/ ~ctxDone[c] /\ Goto(c, "admit") /\ UNCHANGED sent
  /\ UNCHANGED <<now, globalNext, ruleNext, hop, clock, wake, remaining, started, ctxDone,
                 grants, received, active>>

(* After the wait: the context, then what is left of the timeout.          *)
Granted(c) ==
  /\ pc[c] = "granted"
  /\ \/ ctxDone[c] /\ Fail(c, "canceled")
     \/ ~ctxDone[c] /\ Timeout > 0 /\ remaining[c] = 0 /\ Fail(c, "timeout")
     \/ ~ctxDone[c] /\ (Timeout > 0 => remaining[c] > 0) /\ Goto(c, "admit")
  /\ UNCHANGED <<now, limits, hop, clock, wake, remaining, started, ctxDone, grants,
                 received, active>>

(* Mutant: the budget is only looked at before the wait.                   *)
AdmitUnchecked(c) ==
  /\ pc[c] = "admit"
  /\ sent' = [sent EXCEPT ![Target(c)] = @ + 1] /\ Goto(c, "start")
  /\ UNCHANGED <<now, globalNext, ruleNext, hop, clock, wake, remaining, started, ctxDone,
                 grants, received, active>>

(* admit: the check and the count under one lock.                          *)
Admit(c) ==
  /\ pc[c] = "admit"
  /\ \/ LimitHit(c) /\ Fail(c, "limit") /\ UNCHANGED sent
     \/ /\ ~LimitHit(c)
        /\ sent' = IF MaxRequests > 0 THEN [sent EXCEPT ![Target(c)] = @ + 1] ELSE sent
        /\ Goto(c, "start")
  /\ UNCHANGED <<now, globalNext, ruleNext, hop, clock, wake, remaining, started, ctxDone,
                 grants, received, active>>

Start(c) ==
  /\ pc[c] = "start"
  /\ started' = [started EXCEPT ![c] = now]
  /\ received' = [received EXCEPT ![Target(c)] = @ + 1]
  /\ Goto(c, "sending")
  /\ UNCHANGED <<now, limits, hop, clock, wake, remaining, ctxDone, grants, active>>

Elapsed(c) == now - started[c]

(* finish, once for each request.                                          *)
Charge(c) ==
  /\ remaining' = [remaining EXCEPT ![c] = IF @ >= Elapsed(c) THEN @ - Elapsed(c) ELSE 0]
  /\ started' = [started EXCEPT ![c] = 0]

(* The provider's answer, or a failure.                                    *)
Respond(c) ==
  /\ pc[c] = "sending"
  /\ \/ Goto(c, "body") /\ UNCHANGED <<remaining, started>>
     \/ Fail(c, "failed") /\ Charge(c)
  /\ UNCHANGED <<now, limits, hop, clock, wake, ctxDone, grants, received, active>>

(* The body is read to its end, or to an error: finish runs.               *)
DrainBody(c) ==
  /\ pc[c] = "body" /\ Goto(c, "drained") /\ Charge(c)
  /\ UNCHANGED <<now, limits, hop, clock, wake, ctxDone, grants, received, active>>

(* The client follows a redirect, once it has closed the body.             *)
Follow(c) ==
  /\ IF hop[c] < Len(Route[c])
     THEN hop' = [hop EXCEPT ![c] = @ + 1] /\ Goto(c, "check")
     ELSE Fail(c, "ok") /\ UNCHANGED hop
  /\ UNCHANGED <<now, limits, clock, wake, ctxDone, grants, received, active>>

(* Mutants: Close charges what Read has charged already; each request has  *)
(* a timeout of its own.                                                   *)
CloseChargesAgain(c) ==
  /\ \/ pc[c] = "body" /\ Charge(c)
     \/ pc[c] = "drained" /\ remaining' = [remaining EXCEPT ![c] = 0] /\ UNCHANGED started
  /\ Follow(c)

CloseForgets(c) ==
  /\ pc[c] \in {"body", "drained"} /\ Follow(c)
  /\ remaining' = [remaining EXCEPT ![c] = Timeout] /\ UNCHANGED started

CloseBody(c) ==
  /\ \/ pc[c] = "body" /\ Charge(c)
     \/ pc[c] = "drained" /\ UNCHANGED <<remaining, started>>
  /\ Follow(c)

Step(c) ==
  \/ Check(c) \/ ReadClock(c) \/ Slot(c) \/ Wake(c) \/ Granted(c) \/ Admit(c)
  \/ Start(c) \/ Respond(c) \/ DrainBody(c) \/ CloseBody(c)

(* All chains are done, or time has reached its bound.                     *)
Finished == (now = MaxTime \/ \A c \in Chains : pc[c] = "done") /\ UNCHANGED vars

Next == Tick \/ (\E c \in Chains : Step(c) \/ Cancel(c)) \/ Finished

Spec == Init /\ [][Next]_vars
-----------------------------------------------------------------------------
(* No target ever receives more requests than its budget, however many     *)
(* requests passed the first check together and waited for the rate.       *)
BudgetRespected == MaxRequests > 0 => \A t \in Targets : received[t] <= MaxRequests

(* Only requests that are sent count: what was cancelled or timed out      *)
(* while it waited leaves the budget to others.                            *)
SentOrAboutTo ==
  MaxRequests > 0 => \A t \in Targets :
    sent[t] # received[t] => \E c \in Chains : pc[c] = "start" /\ Target(c) = t

(* A budget is spent on requests that reach the target, and never beyond.  *)
BudgetExact == BudgetRespected /\ SentOrAboutTo

(* The aggregate rate holds from the start of the run up to any moment,    *)
(* and so does each rule's, although the clock is read before the lock     *)
(* (two slots may be given within one interval, never more than were due). *)
RateHolds == total * GlobalInterval <= now + GlobalInterval

RuleRateHolds ==
  \A r \in Rules : granted[r] * RuleInterval[r] <= now + RuleInterval[r]

(* Neither rate is ever exceeded over the whole run.                       *)
RatesHold == RateHolds /\ RuleRateHolds

(* A slow rule cannot block unrelated ones (the comment on wait): a        *)
(* request without a rule rate waits for the last request that was         *)
(* admitted, never for one that is itself waiting.                         *)
SlowRuleBlocksNobody ==
  \A c \in Chains : pc[c] = "sleep" /\ Interval(c) = 0 =>
    total > 0 /\ wake[c] <= last + GlobalInterval

(* The requests of a chain spend at most the client's timeout at           *)
(* providers, all together.                                                *)
ActiveBounded == Timeout > 0 => \A c \in Chains : active[c] <= Timeout

(* A chain times out before a request only when the earlier ones have used *)
(* the whole timeout: waiting for the rate costs nothing, and nothing is   *)
(* charged twice.                                                          *)
WaitingIsFree == \A c \in Chains : outcome[c] = "timeout" => active[c] >= Timeout

(* One timeout for a chain, for the time at providers and nothing else.    *)
TimeoutShared == ActiveBounded /\ WaitingIsFree
=============================================================================
