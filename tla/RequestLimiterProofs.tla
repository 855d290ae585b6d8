------------------------ MODULE RequestLimiterProofs ------------------------
(***************************************************************************)
(* The safety properties of RequestLimiter, for any chains, rules, rates,  *)
(* budgets and timeouts, and any time. The inductive invariant is made of  *)
(* the types and five parts: when a clock was read (Timing), what a        *)
(* timeout was spent on (Spent), how far the rates allow (Rates), what a   *)
(* sleeper waits for (Waits) and who is counted in a budget (Budgets).     *)
(***************************************************************************)
EXTENDS RequestLimiter, FiniteSetTheorems, TLAPS

Timing ==
  \A c \in Chains : clock[c] <= now /\ (pc[c] \in AtProvider => started[c] <= now)

(* What is left of a timeout and what was spent at providers add up to the *)
(* whole, until the deadline has passed.                                   *)
Spent ==
  /\ Timeout > 0 => \A c \in Chains :
       IF pc[c] \notin AtProvider THEN active[c] + remaining[c] = Timeout
       ELSE IF Elapsed(c) <= remaining[c]
            THEN active[c] + remaining[c] = Timeout + Elapsed(c)
            ELSE active[c] = Timeout
  /\ \A c \in Chains : outcome[c] = "timeout" =>
       Timeout > 0 /\ pc[c] = "done" /\ remaining[c] = 0

(* The next slot of a rate is at least one interval per slot given away,   *)
(* and at most one interval from now.                                      *)
Rates ==
  /\ globalNext <= now + GlobalInterval
  /\ GlobalInterval > 0 => total * GlobalInterval <= globalNext
  /\ GlobalInterval > 0 => IF total = 0 THEN globalNext = 0
                           ELSE globalNext = last + GlobalInterval
  /\ \A r \in Rules :
       /\ ruleNext[r] <= now + RuleInterval[r]
       /\ RuleInterval[r] > 0 => granted[r] * RuleInterval[r] <= ruleNext[r]

(* Whoever has no rate of its own sleeps until the global rate allows.     *)
Waits ==
  \A c \in Chains : pc[c] = "sleep" /\ Interval(c) = 0 =>
    GlobalInterval > 0 /\ total > 0 /\ wake[c] <= last + GlobalInterval

(* The requests that have been admitted and not been sent.                 *)
Starting(t) == {c \in Chains : pc[c] = "start" /\ Target(c) = t}

(* Those that are counted have been received or are about to be sent.      *)
Budgets ==
  MaxRequests > 0 => \A t \in Targets :
    /\ sent[t] = received[t] + Cardinality(Starting(t))
    /\ sent[t] <= MaxRequests
-----------------------------------------------------------------------------
(* The types of what the model is instantiated with.                       *)
LEMMA ConstantTypes ==
  /\ MaxRequests \in Nat /\ GlobalInterval \in Nat /\ Timeout \in Nat /\ MaxTime \in Nat
  /\ RuleInterval \in [Rules -> Nat]
  /\ \A c \in Chains : Rule[c] \in Rules /\ Interval(c) \in Nat
BY RouteAssumption, LimitAssumption DEF Interval

(* Every hop of a chain has a target.                                      *)
LEMMA TargetType == TypeOK => \A c \in Chains : Target(c) \in Targets
<1> SUFFICES ASSUME TypeOK, NEW c \in Chains PROVE Target(c) \in Targets
  OBVIOUS
<1>1. Route[c] \in Seq(Targets)
  BY RouteAssumption
<1>2. hop[c] \in 1 .. Len(Route[c])
  BY <1>1 DEF TypeOK
<1>3. QED
  BY <1>1, <1>2 DEF Target

(* Types are preserved by every step.                                      *)
LEMMA TypeStep == TypeOK /\ Timing /\ [Next]_vars => TypeOK'
<1> SUFFICES ASSUME TypeOK, Timing, [Next]_vars PROVE TypeOK'
  OBVIOUS
<1> USE ConstantTypes, TargetType
<1>1. CASE UNCHANGED vars
  BY <1>1 DEF vars, limits, chain, grants, TypeOK
<1>2. CASE Tick
  <2>1. active' \in [Chains -> Nat]
    BY <1>2 DEF Tick, TypeOK
  <2>2. QED
    BY <1>2, <2>1 DEF Tick, limits, chain, grants, TypeOK
<1>3. ASSUME NEW c \in Chains, Cancel(c) PROVE TypeOK'
  BY <1>3 DEF Cancel, limits, chain, grants, TypeOK
<1>4. ASSUME NEW c \in Chains, Check(c) PROVE TypeOK'
  BY <1>4 DEF Check, Fail, Goto, limits, grants, TypeOK, Stages
<1>5. ASSUME NEW c \in Chains, ReadClock(c) PROVE TypeOK'
  BY <1>5 DEF ReadClock, Goto, limits, grants, TypeOK, Stages
<1>6. ASSUME NEW c \in Chains, Slot(c) PROVE TypeOK'
  <2>1. CASE Take(c)
    <3>1. globalNext' \in Nat /\ last' \in Nat /\ total' \in Nat
      <4>1. clock[c] \in Nat /\ globalNext \in Nat /\ total \in Nat
        BY DEF TypeOK
      <4>2. QED
        BY <2>1, <4>1 DEF Take
    <3>2. ruleNext' \in [Rules -> Nat]
      <4>1. clock[c] + Interval(c) \in Nat /\ ruleNext \in [Rules -> Nat]
        BY DEF TypeOK
      <4>2. QED
        BY <2>1, <4>1 DEF Take
    <3>3. granted' \in [Rules -> Nat]
      <4>1. granted[Rule[c]] \in Nat /\ granted \in [Rules -> Nat]
        BY DEF TypeOK
      <4>2. QED
        BY <2>1, <4>1 DEF Take
    <3>4. QED
      BY <1>6, <2>1, <3>1, <3>2, <3>3 DEF Slot, Unlock, Take, Goto, TypeOK, Stages
  <2>2. CASE Sleep(c) /\ UNCHANGED <<globalNext, ruleNext, grants>>
    BY <1>6, <2>2 DEF Slot, Unlock, Sleep, SendAt, Later, Goto, grants, TypeOK, Stages
  <2>3. QED
    BY <1>6, <2>1, <2>2 DEF Slot
<1>7. ASSUME NEW c \in Chains, Wake(c) PROVE TypeOK'
  BY <1>7 DEF Wake, Fail, Goto, limits, grants, TypeOK, Stages
<1>8. ASSUME NEW c \in Chains, Granted(c) PROVE TypeOK'
  BY <1>8 DEF Granted, Fail, Goto, limits, grants, TypeOK, Stages
<1>9. ASSUME NEW c \in Chains, Admit(c) PROVE TypeOK'
  <2>1. sent' \in [Targets -> Nat]
    <3>1. sent[Target(c)] + 1 \in Nat
      BY DEF TypeOK
    <3>2. sent \in [Targets -> Nat]
      BY DEF TypeOK
    <3>3. QED
      BY <1>9, <3>1, <3>2 DEF Admit
  <2>2. QED
    BY <1>9, <2>1 DEF Admit, Fail, Goto, grants, TypeOK, Stages
<1>10. ASSUME NEW c \in Chains, Start(c) PROVE TypeOK'
  <2>1. received' \in [Targets -> Nat]
    <3>1. received[Target(c)] + 1 \in Nat
      BY DEF TypeOK
    <3>2. received \in [Targets -> Nat]
      BY DEF TypeOK
    <3>3. QED
      BY <1>10, <3>1, <3>2 DEF Start
  <2>2. QED
    BY <1>10, <2>1 DEF Start, Goto, limits, grants, TypeOK, Stages
<1>11. ASSUME NEW c \in Chains, pc[c] \in AtProvider, Charge(c)
       PROVE  remaining' \in [Chains -> 0 .. Timeout] /\ started' \in [Chains -> Nat]
  <2>1. (IF remaining[c] >= Elapsed(c) THEN remaining[c] - Elapsed(c) ELSE 0) \in 0 .. Timeout
    <3>1. remaining[c] \in 0 .. Timeout /\ now \in Nat /\ started[c] \in Nat /\ started[c] <= now
      BY <1>11 DEF Timing, TypeOK
    <3>2. QED
      BY <3>1 DEF Elapsed
  <2>2. QED
    BY <1>11, <2>1 DEF Charge, TypeOK
<1>12. ASSUME NEW c \in Chains, Respond(c) PROVE TypeOK'
  <2>1. remaining' \in [Chains -> 0 .. Timeout] /\ started' \in [Chains -> Nat]
    BY <1>11, <1>12 DEF Respond, AtProvider, TypeOK
  <2>2. QED
    BY <1>12, <2>1 DEF Respond, Fail, Goto, limits, grants, TypeOK, Stages
<1>13. ASSUME NEW c \in Chains, DrainBody(c) PROVE TypeOK'
  <2>1. remaining' \in [Chains -> 0 .. Timeout] /\ started' \in [Chains -> Nat]
    BY <1>11, <1>13 DEF DrainBody, AtProvider
  <2>2. QED
    BY <1>13, <2>1 DEF DrainBody, Goto, limits, grants, TypeOK, Stages
<1>14. ASSUME NEW c \in Chains, CloseBody(c) PROVE TypeOK'
  <2>1. remaining' \in [Chains -> 0 .. Timeout] /\ started' \in [Chains -> Nat]
    BY <1>11, <1>14 DEF CloseBody, AtProvider, TypeOK
  <2>2. hop' \in [Chains -> Nat \ {0}] /\ \A d \in Chains : hop'[d] <= Len(Route[d])
    <3>1. Len(Route[c]) \in Nat
      BY RouteAssumption
    <3>2. CASE hop[c] < Len(Route[c])
      <4>1. hop' = [hop EXCEPT ![c] = hop[c] + 1]
        BY <1>14, <3>2 DEF CloseBody, Follow
      <4>2. hop[c] + 1 \in Nat \ {0} /\ hop[c] + 1 <= Len(Route[c])
        <5>1. hop[c] \in Nat \ {0}
          BY DEF TypeOK
        <5>2. QED
          BY <3>1, <3>2, <5>1
      <4>3. QED
        BY <4>1, <4>2 DEF TypeOK
    <3>3. CASE ~(hop[c] < Len(Route[c]))
      BY <1>14, <3>3 DEF CloseBody, Follow, TypeOK
    <3>4. QED
      BY <3>2, <3>3
  <2>3. QED
    BY <1>14, <2>1, <2>2 DEF CloseBody, Follow, Fail, Goto, limits, grants, TypeOK, Stages
<1>15. QED
  BY <1>1, <1>2, <1>3, <1>4, <1>5, <1>6, <1>7, <1>8, <1>9, <1>10, <1>12, <1>13, <1>14
  DEF Next, Step, Finished

(* A clock is read before it is used.                                      *)
LEMMA TimingStep == TypeOK /\ Timing /\ [Next]_vars => Timing'
<1> SUFFICES ASSUME TypeOK, Timing, [Next]_vars PROVE Timing'
  OBVIOUS
<1>1. CASE UNCHANGED vars
  BY <1>1 DEF vars, chain, Timing
<1>2. CASE Tick
  BY <1>2 DEF Tick, chain, Timing, TypeOK
<1>3. ASSUME NEW c \in Chains, Cancel(c) PROVE Timing'
  BY <1>3 DEF Cancel, chain, Timing
<1>4. ASSUME NEW c \in Chains, Step(c) PROVE Timing'
  <2>1. now' = now
    BY <1>4 DEF Step, Check, ReadClock, Slot, Unlock, Wake, Granted, Admit, Start, Respond,
       DrainBody, CloseBody, Follow
  <2>2. ASSUME NEW d \in Chains PROVE clock'[d] <= now
    <3>1. CASE ReadClock(c)
      BY <2>2, <3>1 DEF ReadClock, Timing, TypeOK
    <3>2. CASE Slot(c)
      BY <2>2, <3>2 DEF Slot, Unlock, Timing, TypeOK
    <3>3. CASE ~(ReadClock(c) \/ Slot(c))
      <4>1. UNCHANGED clock
        BY <1>4, <3>3 DEF Step, Check, Wake, Granted, Admit, Start, Respond, DrainBody,
           CloseBody, Follow
      <4>2. QED
        BY <2>2, <4>1 DEF Timing
    <3>4. QED
      BY <3>1, <3>2, <3>3
  <2>3. ASSUME NEW d \in Chains, pc'[d] \in AtProvider PROVE started'[d] <= now
    <3>1. CASE Start(c)
      BY <2>3, <3>1 DEF Start, Goto, Timing, TypeOK
    <3>2. CASE Respond(c)
      BY <2>3, <3>2 DEF Respond, Goto, Fail, Charge, AtProvider, Timing, TypeOK
    <3>3. CASE DrainBody(c) \/ CloseBody(c)
      <4>1. pc'[c] \notin AtProvider
        BY <3>3 DEF DrainBody, CloseBody, Follow, Goto, Fail, AtProvider, TypeOK
      <4>2. \A e \in Chains : e # c => pc'[e] = pc[e] /\ started'[e] = started[e]
        BY <3>3 DEF DrainBody, CloseBody, Follow, Goto, Fail, Charge, TypeOK
      <4>3. QED
        BY <2>3, <4>1, <4>2 DEF Timing
    <3>4. CASE ~(Start(c) \/ Respond(c) \/ DrainBody(c) \/ CloseBody(c))
      BY <1>4, <2>3, <3>4 DEF Step, Check, ReadClock, Slot, Unlock, Take, Sleep, Wake, Granted,
         Admit, Goto, Fail, AtProvider, Timing, TypeOK
    <3>5. QED
      BY <3>1, <3>2, <3>3, <3>4
  <2>4. QED
    BY <2>1, <2>2, <2>3 DEF Timing
<1>5. QED
  BY <1>1, <1>2, <1>3, <1>4 DEF Next, Finished

(* Waiting costs nothing, and the time at providers is charged once.       *)
LEMMA SpentStep == TypeOK /\ Timing /\ Spent /\ [Next]_vars => Spent'
<1> SUFFICES ASSUME TypeOK, Timing, Spent, [Next]_vars PROVE Spent'
  OBVIOUS
<1> USE ConstantTypes
<1>1. CASE UNCHANGED vars
  BY <1>1 DEF vars, chain, Spent, Elapsed
<1>2. CASE Tick
  <2>1. ASSUME Timeout > 0, NEW c \in Chains
        PROVE  IF pc[c] \notin AtProvider THEN active'[c] + remaining[c] = Timeout
               ELSE IF now' - started[c] <= remaining[c]
                    THEN active'[c] + remaining[c] = Timeout + (now' - started[c])
                    ELSE active'[c] = Timeout
    <3>1. /\ active[c] \in Nat /\ remaining[c] \in 0 .. Timeout /\ started[c] \in Nat
          /\ now \in Nat /\ now' = now + 1
      BY <1>2, <2>1 DEF Tick, TypeOK
    <3>2. active'[c] = IF pc[c] \in AtProvider /\ now < Deadline(c) THEN active[c] + 1 ELSE active[c]
      BY <1>2, <2>1 DEF Tick
    <3>3. pc[c] \in AtProvider => started[c] <= now
      BY <2>1 DEF Timing
    <3>4. IF pc[c] \notin AtProvider THEN active[c] + remaining[c] = Timeout
          ELSE IF now - started[c] <= remaining[c]
               THEN active[c] + remaining[c] = Timeout + (now - started[c])
               ELSE active[c] = Timeout
      BY <2>1 DEF Spent, Elapsed
    <3>5. CASE pc[c] \notin AtProvider
      BY <3>2, <3>4, <3>5
    <3>6. CASE pc[c] \in AtProvider /\ now < started[c] + remaining[c]
      <4>1. now - started[c] <= remaining[c] /\ now' - started[c] <= remaining[c]
        BY <3>1, <3>3, <3>6
      <4>2. active[c] + remaining[c] = Timeout + (now - started[c])
        BY <3>4, <3>6, <4>1
      <4>3. active'[c] = active[c] + 1
        BY <3>2, <3>6 DEF Deadline
      <4>4. active'[c] + remaining[c] = Timeout + (now' - started[c])
        BY <3>1, <4>2, <4>3
      <4>5. QED
        BY <3>6, <4>1, <4>4
    <3>7. CASE pc[c] \in AtProvider /\ ~(now < started[c] + remaining[c])
      <4>1. ~(now' - started[c] <= remaining[c])
        BY <3>1, <3>7
      <4>2. active'[c] = active[c]
        BY <3>2, <3>7 DEF Deadline
      <4>3. active[c] = Timeout
        <5>1. CASE now - started[c] <= remaining[c]
          <6>1. active[c] + remaining[c] = Timeout + (now - started[c])
            BY <3>4, <3>7, <5>1
          <6>2. QED
            BY <3>1, <3>7, <5>1, <6>1
        <5>2. CASE ~(now - started[c] <= remaining[c])
          BY <3>4, <3>7, <5>2
        <5>3. QED
          BY <5>1, <5>2
      <4>4. QED
        BY <3>7, <4>1, <4>2, <4>3
    <3>8. QED
      BY <3>5, <3>6, <3>7
  <2>2. QED
    BY <1>2, <2>1 DEF Tick, chain, Spent, Elapsed
<1>3. ASSUME NEW c \in Chains, Cancel(c) PROVE Spent'
  BY <1>3 DEF Cancel, chain, Spent, Elapsed
<1>4. ASSUME NEW c \in Chains, Check(c) \/ ReadClock(c) \/ Slot(c) \/ Wake(c) \/ Granted(c) \/ Admit(c)
      PROVE  Spent'
  <2>1. UNCHANGED <<now, active, remaining, started>>
    BY <1>4 DEF Check, ReadClock, Slot, Unlock, Wake, Granted, Admit
  <2>2. ASSUME NEW d \in Chains
        PROVE  pc'[d] \in AtProvider <=> pc[d] \in AtProvider
    BY <1>4, <2>2 DEF Check, ReadClock, Slot, Unlock, Take, Sleep, Wake, Granted, Admit, Goto,
       Fail, AtProvider, TypeOK
  <2>3. ASSUME NEW d \in Chains, outcome'[d] = "timeout"
        PROVE  Timeout > 0 /\ pc'[d] = "done" /\ remaining[d] = 0
    <3>1. CASE outcome[d] = "timeout"
      <4>1. Timeout > 0 /\ pc[d] = "done" /\ remaining[d] = 0
        BY <3>1 DEF Spent
      <4>2. pc[c] # "done" /\ \A e \in Chains : e # c => pc'[e] = pc[e]
        BY <1>4 DEF Check, ReadClock, Slot, Unlock, Take, Sleep, Wake, Granted, Admit, Goto,
           Fail, TypeOK
      <4>3. QED BY <4>1, <4>2
    <3>2. CASE outcome[d] # "timeout"
      <4>1. CASE Granted(c)
        BY <2>3, <3>2, <4>1 DEF Granted, Goto, Fail, TypeOK
      <4>2. CASE ~Granted(c)
        <5>1. PICK why : why # "timeout" /\ (outcome' = [outcome EXCEPT ![c] = why] \/ outcome' = outcome)
          BY <1>4, <4>2 DEF Check, ReadClock, Slot, Take, Sleep, Wake, Admit, Goto, Fail
        <5>2. QED BY <2>3, <3>2, <5>1 DEF TypeOK
      <4>3. QED BY <4>1, <4>2
    <3>3. QED BY <3>1, <3>2
  <2>4. QED
    BY <2>1, <2>2, <2>3 DEF Spent, Elapsed
<1>5. ASSUME NEW c \in Chains, Start(c) PROVE Spent'
  <2>1. /\ UNCHANGED <<now, active, remaining, outcome>>
        /\ started'[c] = now /\ pc[c] = "start" /\ pc'[c] = "sending"
        /\ \A d \in Chains : d # c => pc'[d] = pc[d] /\ started'[d] = started[d]
    BY <1>5 DEF Start, Goto, TypeOK
  <2>2. now \in Nat /\ \A d \in Chains : remaining[d] \in 0 .. Timeout /\ active[d] \in Nat
    BY DEF TypeOK
  <2>3. now - now = 0
    BY <2>2
  <2>4. ASSUME Timeout > 0
        PROVE  IF pc'[c] \notin AtProvider THEN active'[c] + remaining'[c] = Timeout
               ELSE IF now' - started'[c] <= remaining'[c]
                    THEN active'[c] + remaining'[c] = Timeout + (now' - started'[c])
                    ELSE active'[c] = Timeout
    <3>1. active[c] + remaining[c] = Timeout
      BY <2>1, <2>4 DEF Spent, AtProvider
    <3>2. QED
      BY <2>1, <2>2, <2>3, <3>1 DEF AtProvider
  <2>5. ASSUME Timeout > 0, NEW d \in Chains, d # c
        PROVE  IF pc'[d] \notin AtProvider THEN active'[d] + remaining'[d] = Timeout
               ELSE IF now' - started'[d] <= remaining'[d]
                    THEN active'[d] + remaining'[d] = Timeout + (now' - started'[d])
                    ELSE active'[d] = Timeout
    BY <2>1, <2>5 DEF Spent, Elapsed
  <2>6. ASSUME NEW d \in Chains, outcome'[d] = "timeout"
        PROVE  Timeout > 0 /\ pc'[d] = "done" /\ remaining'[d] = 0
    BY <2>1, <2>6 DEF Spent
  <2>7. QED
    BY <2>4, <2>5, <2>6 DEF Spent, Elapsed
<1>6. ASSUME NEW c \in Chains, pc[c] \in AtProvider, Charge(c), pc'[c] \notin AtProvider,
             outcome'[c] # "timeout",
             \A d \in Chains : d # c => pc'[d] = pc[d] /\ outcome'[d] = outcome[d],
             UNCHANGED <<now, active>>
      PROVE  Spent'
  <2>1. remaining'[c] = IF remaining[c] >= Elapsed(c) THEN remaining[c] - Elapsed(c) ELSE 0
    BY <1>6 DEF Charge, TypeOK
  <2>2. \A d \in Chains : d # c => remaining'[d] = remaining[d] /\ started'[d] = started[d]
    BY <1>6 DEF Charge, TypeOK
  <2>3. /\ now \in Nat /\ remaining[c] \in 0 .. Timeout /\ active[c] \in Nat
        /\ started[c] \in Nat /\ started[c] <= now
    BY <1>6 DEF TypeOK, Timing
  <2>4. ASSUME Timeout > 0 PROVE active'[c] + remaining'[c] = Timeout
    <3>1. CASE Elapsed(c) <= remaining[c]
      <4>1. active[c] + remaining[c] = Timeout + Elapsed(c)
        BY <1>6, <2>4, <3>1 DEF Spent
      <4>2. remaining'[c] = remaining[c] - Elapsed(c)
        BY <2>1, <2>3, <3>1 DEF Elapsed
      <4>3. QED
        BY <1>6, <2>3, <4>1, <4>2 DEF Elapsed
    <3>2. CASE ~(Elapsed(c) <= remaining[c])
      <4>1. active[c] = Timeout
        BY <1>6, <2>4, <3>2 DEF Spent
      <4>2. remaining'[c] = 0
        BY <2>1, <2>3, <3>2 DEF Elapsed
      <4>3. QED
        BY <1>6, <2>3, <4>1, <4>2
    <3>3. QED
      BY <3>1, <3>2
  <2>5. ASSUME Timeout > 0, NEW d \in Chains, d # c
        PROVE  IF pc'[d] \notin AtProvider THEN active'[d] + remaining'[d] = Timeout
               ELSE IF now' - started'[d] <= remaining'[d]
                    THEN active'[d] + remaining'[d] = Timeout + (now' - started'[d])
                    ELSE active'[d] = Timeout
    BY <1>6, <2>2, <2>5 DEF Spent, Elapsed
  <2>6. ASSUME NEW d \in Chains, outcome'[d] = "timeout"
        PROVE  Timeout > 0 /\ pc'[d] = "done" /\ remaining'[d] = 0
    BY <1>6, <2>2, <2>6 DEF Spent
  <2>7. QED
    BY <1>6, <2>4, <2>5, <2>6 DEF Spent, Elapsed
<1>7. ASSUME NEW c \in Chains, Respond(c) PROVE Spent'
  <2>1. CASE Goto(c, "body") /\ UNCHANGED <<remaining, started>>
    BY <1>7, <2>1 DEF Respond, Goto, Spent, Elapsed, AtProvider, TypeOK
  <2>2. CASE Fail(c, "failed") /\ Charge(c)
    BY <1>6, <1>7, <2>2 DEF Respond, Fail, AtProvider, TypeOK
  <2>3. QED
    BY <1>7, <2>1, <2>2 DEF Respond
<1>8. ASSUME NEW c \in Chains, DrainBody(c) PROVE Spent'
  BY <1>6, <1>8 DEF DrainBody, Goto, AtProvider, Spent, TypeOK
<1>9. ASSUME NEW c \in Chains, CloseBody(c) PROVE Spent'
  <2>1. /\ pc'[c] \notin AtProvider /\ outcome'[c] # "timeout"
        /\ \A d \in Chains : d # c => pc'[d] = pc[d] /\ outcome'[d] = outcome[d]
        /\ UNCHANGED <<now, active>>
    BY <1>9 DEF CloseBody, Follow, Goto, Fail, AtProvider, Spent, TypeOK
  <2>2. CASE pc[c] = "body" /\ Charge(c)
    BY <1>6, <2>1, <2>2 DEF AtProvider
  <2>3. CASE pc[c] = "drained" /\ UNCHANGED <<remaining, started>>
    BY <2>1, <2>3 DEF AtProvider, Spent, Elapsed
  <2>4. QED
    BY <1>9, <2>2, <2>3 DEF CloseBody
<1>10. QED
  BY <1>1, <1>2, <1>3, <1>4, <1>5, <1>7, <1>8, <1>9 DEF Next, Step, Finished

(* One more slot, one more interval.                                       *)
LEMMA OneMore ==
  ASSUME NEW n \in Nat, NEW i \in Nat, NEW next \in Nat, NEW at \in Nat,
         n * i <= next, next <= at
  PROVE  (n + 1) * i <= at + i
<1>1. (n + 1) * i = n * i + i
  OBVIOUS
<1>2. n * i \in Nat
  OBVIOUS
<1>3. QED
  BY <1>1, <1>2

(* What is due within an interval from now is so later.                    *)
LEMMA StillWithin ==
  ASSUME NEW due \in Nat, NEW i \in Nat, NEW at \in Nat, NEW later \in Nat,
         due <= at + i, at <= later
  PROVE  due <= later + i
OBVIOUS

(* A slot is given when both rates have one, and moves them on.            *)
LEMMA RateStep == TypeOK /\ Timing /\ Rates /\ [Next]_vars => Rates'
<1> SUFFICES ASSUME TypeOK, Timing, Rates, [Next]_vars PROVE Rates'
  OBVIOUS
<1> USE ConstantTypes
<1>1. ASSUME UNCHANGED <<globalNext, ruleNext, granted, total, last>>, now' \in Nat, now <= now'
      PROVE  Rates'
  <2>1. now \in Nat /\ globalNext \in Nat /\ \A r \in Rules : ruleNext[r] \in Nat /\ RuleInterval[r] \in Nat
    BY DEF TypeOK
  <2>2. globalNext' <= now' + GlobalInterval
    <3>1. globalNext <= now + GlobalInterval
      BY DEF Rates
    <3>2. globalNext' = globalNext /\ now <= now' /\ now' \in Nat
      BY <1>1
    <3>3. globalNext <= now' + GlobalInterval
      BY <2>1, <3>1, <3>2, StillWithin
    <3>4. QED
      BY <3>2, <3>3
  <2>3. ASSUME NEW r \in Rules PROVE ruleNext'[r] <= now' + RuleInterval[r]
    <3>1. ruleNext[r] <= now + RuleInterval[r]
      BY DEF Rates
    <3>2. QED
      BY <1>1, <2>1, <3>1
  <2>4. QED
    BY <1>1, <2>2, <2>3 DEF Rates
<1>2. ASSUME NEW c \in Chains, Unlock(c), SlotFree(c), Take(c) PROVE Rates'
  <2>1. /\ clock[c] \in Nat /\ clock[c] <= now /\ now \in Nat /\ now' = now
        /\ globalNext \in Nat /\ total \in Nat /\ last \in Nat
    BY <1>2 DEF Unlock, Timing, TypeOK
  <2>2. globalNext' <= now' + GlobalInterval
    BY <1>2, <2>1 DEF Take, Rates
  <2>3. ASSUME GlobalInterval > 0
        PROVE  total' * GlobalInterval <= globalNext' /\ globalNext' = last' + GlobalInterval /\ total' # 0
    <3>1. globalNext <= clock[c] /\ total * GlobalInterval <= globalNext
      BY <1>2, <2>3 DEF SlotFree, Rates
    <3>2. (total + 1) * GlobalInterval <= clock[c] + GlobalInterval
      BY <2>1, <3>1, OneMore
    <3>3. globalNext' = clock[c] + GlobalInterval /\ total' = total + 1 /\ last' = clock[c]
      BY <1>2, <2>3 DEF Take
    <3>4. QED
      BY <2>1, <3>2, <3>3
  <2>4. ASSUME NEW r \in Rules
        PROVE  /\ ruleNext'[r] <= now' + RuleInterval[r]
               /\ RuleInterval[r] > 0 => granted'[r] * RuleInterval[r] <= ruleNext'[r]
    <3>1. /\ ruleNext[r] \in Nat /\ granted[r] \in Nat /\ RuleInterval[r] \in Nat
          /\ ruleNext[r] <= now + RuleInterval[r]
          /\ RuleInterval[r] > 0 => granted[r] * RuleInterval[r] <= ruleNext[r]
      BY DEF TypeOK, Rates
    <3>2. CASE r = Rule[c] /\ RuleInterval[r] > 0
      <4>1. Interval(c) = RuleInterval[r]
        BY <3>2 DEF Interval
      <4>2. ruleNext'[r] = clock[c] + RuleInterval[r] /\ granted'[r] = granted[r] + 1
        BY <1>2, <3>2, <4>1 DEF Take, TypeOK
      <4>3. ruleNext[r] <= clock[c]
        BY <1>2, <3>2, <4>1 DEF SlotFree
      <4>4. (granted[r] + 1) * RuleInterval[r] <= clock[c] + RuleInterval[r]
        BY <2>1, <3>1, <3>2, <4>3, OneMore
      <4>5. QED
        BY <2>1, <3>1, <4>2, <4>4
    <3>3. CASE r = Rule[c] /\ ~(RuleInterval[r] > 0)
      <4>1. ruleNext' = ruleNext
        BY <1>2, <3>3 DEF Take, Interval
      <4>2. QED
        BY <2>1, <3>1, <3>3, <4>1
    <3>4. CASE r # Rule[c]
      <4>1. ruleNext'[r] = ruleNext[r] /\ granted'[r] = granted[r]
        BY <1>2, <3>4 DEF Take, TypeOK
      <4>2. QED
        BY <2>1, <3>1, <4>1
    <3>5. QED
      BY <3>2, <3>3, <3>4
  <2>5. QED
    BY <2>2, <2>3, <2>4 DEF Rates
<1>3. CASE UNCHANGED vars
  BY <1>1, <1>3 DEF vars, limits, grants, TypeOK
<1>4. CASE Tick
  BY <1>1, <1>4 DEF Tick, limits, grants, TypeOK
<1>5. ASSUME NEW c \in Chains, Cancel(c) PROVE Rates'
  BY <1>1, <1>5 DEF Cancel, limits, grants, TypeOK
<1>6. ASSUME NEW c \in Chains, Slot(c) PROVE Rates'
  <2>1. CASE SlotFree(c) /\ Take(c)
    BY <1>2, <1>6, <2>1 DEF Slot
  <2>2. CASE UNCHANGED <<globalNext, ruleNext, grants>>
    BY <1>1, <1>6, <2>2 DEF Slot, Unlock, grants, TypeOK
  <2>3. QED
    BY <1>6, <2>1, <2>2 DEF Slot
<1>7. ASSUME NEW c \in Chains, Step(c), ~Slot(c) PROVE Rates'
  <2>1. UNCHANGED <<now, globalNext, ruleNext, granted, total, last>>
    BY <1>7 DEF Step, Check, ReadClock, Wake, Granted, Admit, Start, Respond, DrainBody,
       CloseBody, Follow, limits, grants
  <2>2. QED
    BY <1>1, <2>1 DEF TypeOK
<1>8. QED
  BY <1>3, <1>4, <1>5, <1>6, <1>7 DEF Next, Finished

(* What a sleeper waits for was there when it went to sleep, and moves only *)
(* forward.                                                                *)
LEMMA WaitStep == TypeOK /\ Rates /\ Waits /\ [Next]_vars => Waits'
<1> SUFFICES ASSUME TypeOK, Rates, Waits, [Next]_vars PROVE Waits'
  OBVIOUS
<1> USE ConstantTypes
<1>1. ASSUME UNCHANGED <<total, last>>,
             \A d \in Chains : pc'[d] = "sleep" => pc[d] = "sleep" /\ wake'[d] = wake[d]
      PROVE  Waits'
  BY <1>1 DEF Waits, Interval
<1>2. ASSUME NEW c \in Chains, Unlock(c), SlotFree(c), Take(c) PROVE Waits'
  <2>1. ASSUME NEW d \in Chains, pc'[d] = "sleep", Interval(d) = 0
        PROVE  GlobalInterval > 0 /\ total' > 0 /\ wake'[d] <= last' + GlobalInterval
    <3>1. pc[d] = "sleep" /\ wake'[d] = wake[d]
      BY <1>2, <2>1 DEF Take, Goto, TypeOK
    <3>2. GlobalInterval > 0 /\ total > 0 /\ wake[d] <= last + GlobalInterval
      BY <2>1, <3>1 DEF Waits
    <3>3. globalNext = last + GlobalInterval /\ globalNext <= clock[c]
      BY <1>2, <3>2 DEF SlotFree, Rates
    <3>4. total' = total + 1 /\ last' = clock[c]
      BY <1>2 DEF Take
    <3>5. total \in Nat /\ last \in Nat /\ clock[c] \in Nat /\ wake[d] \in Nat
      BY <2>1 DEF TypeOK
    <3>6. QED
      BY <3>1, <3>2, <3>3, <3>4, <3>5
  <2>2. QED
    BY <2>1 DEF Waits, Interval
<1>3. ASSUME NEW c \in Chains, ~SlotFree(c), Sleep(c), UNCHANGED <<total, last>> PROVE Waits'
  <2>1. ASSUME NEW d \in Chains, d # c, pc'[d] = "sleep" PROVE pc[d] = "sleep" /\ wake'[d] = wake[d]
    BY <1>3, <2>1 DEF Sleep, Goto, TypeOK
  <2>2. ASSUME Interval(c) = 0
        PROVE  GlobalInterval > 0 /\ total > 0 /\ wake'[c] <= last + GlobalInterval
    <3>1. GlobalInterval > 0 /\ ~(globalNext <= clock[c])
      BY <1>3, <2>2 DEF SlotFree
    <3>2. /\ globalNext \in Nat /\ clock[c] \in Nat /\ total \in Nat /\ last \in Nat
      BY DEF TypeOK
    <3>3. wake'[c] = Later(globalNext, 0)
      BY <1>3, <2>2, <3>1 DEF Sleep, SendAt, TypeOK
    <3>4. wake'[c] = globalNext
      BY <3>2, <3>3 DEF Later
    <3>5. total # 0 /\ globalNext = last + GlobalInterval
      BY <3>1, <3>2 DEF Rates
    <3>6. QED
      BY <3>1, <3>2, <3>4, <3>5
  <2>3. QED
    BY <1>3, <2>1, <2>2 DEF Waits, Interval
<1>4. CASE UNCHANGED vars
  BY <1>1, <1>4 DEF vars, chain, grants
<1>5. CASE Tick
  BY <1>1, <1>5 DEF Tick, chain, grants
<1>6. ASSUME NEW c \in Chains, Cancel(c) PROVE Waits'
  BY <1>1, <1>6 DEF Cancel, chain, grants
<1>7. ASSUME NEW c \in Chains, Slot(c) PROVE Waits'
  <2>1. CASE SlotFree(c) /\ Take(c)
    BY <1>2, <1>7, <2>1 DEF Slot
  <2>2. CASE ~SlotFree(c) /\ Sleep(c) /\ UNCHANGED <<globalNext, ruleNext, grants>>
    BY <1>3, <2>2 DEF grants
  <2>3. QED
    BY <1>7, <2>1, <2>2 DEF Slot
<1>8. ASSUME NEW c \in Chains, Step(c), ~Slot(c) PROVE Waits'
  <2>1. UNCHANGED <<total, last>>
    BY <1>8 DEF Step, Check, ReadClock, Wake, Granted, Admit, Start, Respond, DrainBody,
       CloseBody, Follow, grants
  <2>2. ASSUME NEW d \in Chains, pc'[d] = "sleep" PROVE pc[d] = "sleep" /\ wake'[d] = wake[d]
    BY <1>8, <2>2 DEF Step, Check, ReadClock, Wake, Granted, Admit, Start, Respond, DrainBody,
       CloseBody, Follow, Goto, Fail, TypeOK
  <2>3. QED
    BY <1>1, <2>1, <2>2
<1>9. QED
  BY <1>4, <1>5, <1>6, <1>7, <1>8 DEF Next, Finished

(* Who is about to be sent changes only when a request is admitted or sent. *)
LEMMA StartingSame ==
  ASSUME \A d \in Chains : /\ pc'[d] = "start" <=> pc[d] = "start"
                           /\ pc[d] = "start" => Target(d)' = Target(d)
  PROVE  \A t \in Targets : Starting(t)' = Starting(t)
BY DEF Starting

LEMMA StartingFinite == \A t \in Targets : IsFiniteSet(Starting(t))
BY RouteAssumption, FS_Subset DEF Starting

(* A request is counted as it is admitted, and leaves those that are about *)
(* to be sent as it is received.                                           *)
LEMMA BudgetStep == TypeOK /\ Budgets /\ [Next]_vars => Budgets'
<1> SUFFICES ASSUME TypeOK, Budgets, [Next]_vars PROVE Budgets'
  OBVIOUS
<1> USE ConstantTypes
<1>1. ASSUME UNCHANGED <<sent, received>>,
             \A d \in Chains : /\ pc'[d] = "start" <=> pc[d] = "start"
                               /\ pc[d] = "start" => hop'[d] = hop[d]
      PROVE  Budgets'
  <2>1. \A t \in Targets : Starting(t)' = Starting(t)
    BY <1>1, StartingSame DEF Target
  <2>2. QED
    BY <1>1, <2>1 DEF Budgets
<1>2. ASSUME NEW c \in Chains, Admit(c), MaxRequests > 0, ~LimitHit(c) PROVE Budgets'
  <2> DEFINE T == Target(c)
  <2>1. /\ sent' = [sent EXCEPT ![T] = sent[T] + 1]
        /\ UNCHANGED <<received, hop>> /\ pc' = [pc EXCEPT ![c] = "start"] /\ pc[c] = "admit"
    BY <1>2 DEF Admit, Goto
  <2>2. T \in Targets /\ sent[T] \in Nat /\ sent[T] < MaxRequests
    <3>1. T \in Targets
      BY TargetType
    <3>2. sent[T] \in Nat
      BY <3>1 DEF TypeOK
    <3>3. ~(sent[T] >= MaxRequests)
      BY <1>2 DEF LimitHit
    <3>4. QED
      BY <3>1, <3>2, <3>3
  <2>3. ASSUME NEW t \in Targets
        PROVE  sent'[t] = received'[t] + Cardinality(Starting(t)') /\ sent'[t] <= MaxRequests
    <3>1. /\ sent[t] = received[t] + Cardinality(Starting(t)) /\ sent[t] <= MaxRequests
          /\ received[t] \in Nat /\ IsFiniteSet(Starting(t)) /\ Cardinality(Starting(t)) \in Nat
      BY <1>2, StartingFinite, FS_CardinalityType DEF Budgets, TypeOK
    <3>2. CASE t = T
      <4>1. Starting(t)' = Starting(t) \cup {c} /\ c \notin Starting(t)
        BY <2>1, <3>2 DEF Starting, Target, TypeOK
      <4>2. Cardinality(Starting(t) \cup {c}) = Cardinality(Starting(t)) + 1
        BY <3>1, <4>1, FS_AddElement
      <4>3. sent'[t] = sent[t] + 1
        BY <2>1, <2>2, <3>2 DEF TypeOK
      <4>4. QED
        BY <2>1, <2>2, <3>1, <3>2, <4>1, <4>2, <4>3
    <3>3. CASE t # T
      <4>1. Starting(t)' = Starting(t)
        BY <2>1, <3>3 DEF Starting, Target, TypeOK
      <4>2. sent'[t] = sent[t]
        BY <2>1, <3>3 DEF TypeOK
      <4>3. QED
        BY <2>1, <3>1, <4>1, <4>2
    <3>4. QED
      BY <3>2, <3>3
  <2>4. QED
    BY <2>3 DEF Budgets
<1>3. ASSUME NEW c \in Chains, Start(c), MaxRequests > 0 PROVE Budgets'
  <2> DEFINE T == Target(c)
  <2>1. /\ received' = [received EXCEPT ![T] = received[T] + 1]
        /\ UNCHANGED <<sent, hop>> /\ pc' = [pc EXCEPT ![c] = "sending"] /\ pc[c] = "start"
    BY <1>3 DEF Start, Goto, limits
  <2>2. T \in Targets /\ received[T] \in Nat
    BY TargetType DEF TypeOK
  <2>3. ASSUME NEW t \in Targets
        PROVE  sent'[t] = received'[t] + Cardinality(Starting(t)') /\ sent'[t] <= MaxRequests
    <3>1. /\ sent[t] = received[t] + Cardinality(Starting(t)) /\ sent[t] <= MaxRequests
          /\ received[t] \in Nat /\ IsFiniteSet(Starting(t)) /\ Cardinality(Starting(t)) \in Nat
      BY <1>3, StartingFinite, FS_CardinalityType DEF Budgets, TypeOK
    <3>2. CASE t = T
      <4>1. Starting(t)' = Starting(t) \ {c} /\ c \in Starting(t)
        BY <2>1, <3>2 DEF Starting, Target, TypeOK
      <4>2. Cardinality(Starting(t) \ {c}) = Cardinality(Starting(t)) - 1
        BY <3>1, <4>1, FS_RemoveElement
      <4>3. received'[t] = received[t] + 1
        BY <2>1, <2>2, <3>2 DEF TypeOK
      <4>4. QED
        BY <2>1, <2>2, <3>1, <4>1, <4>2, <4>3
    <3>3. CASE t # T
      <4>1. Starting(t)' = Starting(t)
        BY <2>1, <3>3 DEF Starting, Target, TypeOK
      <4>2. received'[t] = received[t]
        BY <2>1, <3>3 DEF TypeOK
      <4>3. QED
        BY <2>1, <3>1, <4>1, <4>2
    <3>4. QED
      BY <3>2, <3>3
  <2>4. QED
    BY <2>3 DEF Budgets
<1>4. CASE UNCHANGED vars
  BY <1>1, <1>4 DEF vars, limits, chain
<1>5. CASE Tick
  BY <1>1, <1>5 DEF Tick, limits, chain
<1>6. ASSUME NEW c \in Chains, Cancel(c) PROVE Budgets'
  BY <1>1, <1>6 DEF Cancel, limits, chain
<1>7. ASSUME NEW c \in Chains, Admit(c) PROVE Budgets'
  <2>1. CASE LimitHit(c)
    <3>1. UNCHANGED <<sent, received, hop>> /\ pc' = [pc EXCEPT ![c] = "done"] /\ pc[c] = "admit"
      BY <1>7, <2>1 DEF Admit, Fail
    <3>2. QED
      BY <1>1, <3>1 DEF TypeOK
  <2>2. CASE ~LimitHit(c)
    BY <1>2, <1>7, <2>2 DEF Budgets
  <2>3. QED
    BY <2>1, <2>2
<1>8. ASSUME NEW c \in Chains, Start(c) PROVE Budgets'
  BY <1>3, <1>8 DEF Budgets
<1>9. ASSUME NEW c \in Chains, Step(c), ~Admit(c), ~Start(c) PROVE Budgets'
  <2>1. UNCHANGED <<sent, received>>
    BY <1>9 DEF Step, Check, ReadClock, Slot, Unlock, Wake, Granted, Respond, DrainBody, CloseBody,
       Follow, limits
  <2>2. ASSUME NEW d \in Chains
        PROVE  (pc'[d] = "start" <=> pc[d] = "start") /\ (pc[d] = "start" => hop'[d] = hop[d])
    <3>1. pc'[d] = "start" <=> pc[d] = "start"
      BY <1>9, <2>2 DEF Step, Check, ReadClock, Slot, Unlock, Take, Sleep, Wake, Granted, Respond,
         DrainBody, CloseBody, Follow, Goto, Fail, TypeOK
    <3>2. pc[d] = "start" => hop'[d] = hop[d]
      BY <1>9, <2>2 DEF Step, Check, ReadClock, Slot, Unlock, Wake, Granted, Respond, DrainBody,
         CloseBody, Follow, TypeOK
    <3>3. QED
      BY <3>1, <3>2
  <2>3. QED
    BY <1>1, <2>1, <2>2
<1>10. QED
  BY <1>4, <1>5, <1>6, <1>7, <1>8, <1>9 DEF Next, Finished
-----------------------------------------------------------------------------
(* The inductive invariant. What it adds to the properties is where the    *)
(* shares of a budget are while a request is between two steps.            *)
IInv == TypeOK /\ Timing /\ Spent /\ Rates /\ Waits /\ Budgets

LEMMA Initially == Init => IInv
<1> SUFFICES ASSUME Init PROVE IInv
  OBVIOUS
<1> USE ConstantTypes
<1>1. TypeOK
  <2>1. \A c \in Chains : 1 <= Len(Route[c])
    <3>1. ASSUME NEW c \in Chains PROVE Route[c] \in Seq(Targets) /\ Route[c] # <<>>
      BY <3>1, RouteAssumption
    <3>2. QED
      BY <3>1
  <2>2. QED
    BY <2>1 DEF Init, TypeOK, Stages
<1>2. Timing
  BY DEF Init, Timing
<1>3. Spent
  BY DEF Init, Spent, AtProvider
<1>4. Rates
  BY DEF Init, Rates
<1>5. Budgets
  <2>1. ASSUME NEW t \in Targets PROVE Cardinality(Starting(t)) = 0
    <3>1. Starting(t) = {}
      BY DEF Init, Starting
    <3>2. QED
      BY <3>1, FS_EmptySet
  <2>2. QED
    BY <2>1 DEF Init, Budgets
<1>6. Waits
  BY DEF Init, Waits
<1>7. QED
  BY <1>1, <1>2, <1>3, <1>4, <1>5, <1>6 DEF IInv

LEMMA Inductive == IInv /\ [Next]_vars => IInv'
BY TypeStep, TimingStep, SpentStep, RateStep, WaitStep, BudgetStep DEF IInv

LEMMA Invariance == Spec => []IInv
<1>1. QED
  BY Initially, Inductive, PTL DEF Spec

(* Types, of which the timeout budget's is the one that could go wrong:    *)
(* finish never leaves a negative remainder.                               *)
THEOREM TypeCorrect == Spec => []TypeOK
<1>1. IInv => TypeOK
  BY DEF IInv
<1>2. QED
  BY <1>1, Invariance, PTL

(* admit never lets a target have more requests than its budget.           *)
LEMMA BudgetIsRespected == Spec => []BudgetRespected
<1>1. IInv => BudgetRespected
  <2> SUFFICES ASSUME IInv, MaxRequests > 0, NEW t \in Targets PROVE received[t] <= MaxRequests
    BY DEF BudgetRespected
  <2>1. sent[t] = received[t] + Cardinality(Starting(t)) /\ sent[t] <= MaxRequests
    BY DEF IInv, Budgets
  <2>2. sent[t] \in Nat /\ received[t] \in Nat /\ MaxRequests \in Nat
    BY ConstantTypes DEF IInv, TypeOK
  <2>3. Cardinality(Starting(t)) \in Nat
    BY StartingFinite, FS_CardinalityType
  <2>4. QED
    BY <2>1, <2>2, <2>3
<1>2. QED
  BY <1>1, Invariance, PTL

(* What admit has counted has been sent, or is about to be.                *)
LEMMA CountedIsSent == Spec => []SentOrAboutTo
<1>1. IInv => SentOrAboutTo
  <2> SUFFICES ASSUME IInv, MaxRequests > 0, NEW t \in Targets, sent[t] # received[t]
               PROVE  \E c \in Chains : pc[c] = "start" /\ Target(c) = t
    BY DEF SentOrAboutTo
  <2>1. sent[t] = received[t] + Cardinality(Starting(t)) /\ received[t] \in Nat
    BY DEF IInv, Budgets, TypeOK
  <2>2. CASE Starting(t) = {}
    <3>1. Cardinality(Starting(t)) = 0
      BY <2>2, FS_EmptySet
    <3>2. QED
      BY <2>1, <3>1
  <2>3. CASE Starting(t) # {}
    BY <2>3 DEF Starting
  <2>4. QED
    BY <2>2, <2>3
<1>2. QED
  BY <1>1, Invariance, PTL

(* The global rate holds over the whole run.                               *)
LEMMA GlobalRateHolds == Spec => []RateHolds
<1>1. IInv => RateHolds
  <2> SUFFICES ASSUME IInv PROVE total * GlobalInterval <= now + GlobalInterval
    BY DEF RateHolds
  <2>1. now \in Nat /\ globalNext \in Nat /\ total \in Nat /\ GlobalInterval \in Nat
    BY ConstantTypes DEF IInv, TypeOK
  <2>2. CASE GlobalInterval > 0
    <3>1. total * GlobalInterval <= globalNext /\ globalNext <= now + GlobalInterval
      BY <2>2 DEF IInv, Rates
    <3>2. total * GlobalInterval \in Nat
      BY <2>1
    <3>3. QED
      BY <2>1, <3>1, <3>2
  <2>3. CASE GlobalInterval = 0
    <3>1. total * GlobalInterval = 0
      BY <2>1, <2>3
    <3>2. QED
      BY <2>1, <2>3, <3>1
  <2>4. QED
    BY <2>1, <2>2, <2>3
<1>2. QED
  BY <1>1, Invariance, PTL

(* ... and so does the rate of each rule.                                  *)
LEMMA RuleRatesHold == Spec => []RuleRateHolds
<1>1. IInv => RuleRateHolds
  <2> SUFFICES ASSUME IInv, NEW r \in Rules
               PROVE  granted[r] * RuleInterval[r] <= now + RuleInterval[r]
    BY DEF RuleRateHolds
  <2>1. now \in Nat /\ ruleNext[r] \in Nat /\ granted[r] \in Nat /\ RuleInterval[r] \in Nat
    BY ConstantTypes DEF IInv, TypeOK
  <2>2. CASE RuleInterval[r] > 0
    <3>1. granted[r] * RuleInterval[r] <= ruleNext[r] /\ ruleNext[r] <= now + RuleInterval[r]
      BY <2>2 DEF IInv, Rates
    <3>2. granted[r] * RuleInterval[r] \in Nat
      BY <2>1
    <3>3. QED
      BY <2>1, <3>1, <3>2
  <2>3. CASE RuleInterval[r] = 0
    <3>1. granted[r] * RuleInterval[r] = 0
      BY <2>1, <2>3
    <3>2. QED
      BY <2>1, <2>3, <3>1
  <2>4. QED
    BY <2>1, <2>2, <2>3
<1>2. QED
  BY <1>1, Invariance, PTL

(* A request without a rate of its own waits for the global rate alone.    *)
THEOREM SlowRulesBlockNobody == Spec => []SlowRuleBlocksNobody
<1>1. IInv => SlowRuleBlocksNobody
  BY DEF IInv, Waits, SlowRuleBlocksNobody
<1>2. QED
  BY <1>1, Invariance, PTL

(* The requests of a chain have one timeout between them.                  *)
LEMMA TimeoutIsBounded == Spec => []ActiveBounded
<1>1. IInv => ActiveBounded
  <2> SUFFICES ASSUME IInv, Timeout > 0, NEW c \in Chains PROVE active[c] <= Timeout
    BY DEF ActiveBounded
  <2>1. /\ active[c] \in Nat /\ remaining[c] \in 0 .. Timeout /\ Timeout \in Nat
        /\ now \in Nat /\ started[c] \in Nat
    BY ConstantTypes DEF IInv, TypeOK
  <2>2. CASE pc[c] \notin AtProvider
    <3>1. active[c] + remaining[c] = Timeout
      BY <2>2 DEF IInv, Spent
    <3>2. QED
      BY <2>1, <3>1
  <2>3. CASE pc[c] \in AtProvider /\ Elapsed(c) <= remaining[c]
    <3>1. active[c] + remaining[c] = Timeout + Elapsed(c)
      BY <2>3 DEF IInv, Spent
    <3>2. QED
      BY <2>1, <2>3, <3>1 DEF Elapsed
  <2>4. CASE pc[c] \in AtProvider /\ ~(Elapsed(c) <= remaining[c])
    <3>1. active[c] = Timeout
      BY <2>4 DEF IInv, Spent
    <3>2. QED
      BY <2>1, <3>1
  <2>5. QED
    BY <2>2, <2>3, <2>4
<1>2. QED
  BY <1>1, Invariance, PTL

(* A chain that times out before a request has spent its whole timeout at  *)
(* providers: none of it in the queue for a slot.                          *)
LEMMA WaitingCostsNothing == Spec => []WaitingIsFree
<1>1. IInv => WaitingIsFree
  <2> SUFFICES ASSUME IInv, NEW c \in Chains, outcome[c] = "timeout" PROVE active[c] >= Timeout
    BY DEF WaitingIsFree
  <2>1. Timeout > 0 /\ pc[c] = "done" /\ remaining[c] = 0
    BY DEF IInv, Spent
  <2>2. active[c] + remaining[c] = Timeout
    BY <2>1 DEF IInv, Spent, AtProvider
  <2>3. active[c] \in Nat
    BY DEF IInv, TypeOK
  <2>4. QED
    BY <2>1, <2>2, <2>3, ConstantTypes
<1>2. QED
  BY <1>1, Invariance, PTL
-----------------------------------------------------------------------------
(* A budget is spent on requests that reach the target, and never beyond:  *)
(* admit and the request that follows it, in any number of goroutines.     *)
THEOREM BudgetIsExact == Spec => []BudgetExact
BY BudgetIsRespected, CountedIsSent, PTL DEF BudgetExact

(* The global and the rules' rates hold over the whole run, although wait  *)
(* reads the clock before it takes the lock.                               *)
THEOREM RatesAlwaysHold == Spec => []RatesHold
BY GlobalRateHolds, RuleRatesHold, PTL DEF RatesHold

(* A chain of redirects has one timeout, for its time at providers alone.  *)
THEOREM TimeoutIsShared == Spec => []TimeoutShared
BY TimeoutIsBounded, WaitingCostsNothing, PTL DEF TimeoutShared
=============================================================================
