------------------------ MODULE AnalyzeStreamProofs ------------------------
(***************************************************************************)
(* Proofs about AnalyzeStream, for every set of findings, workers and      *)
(* credentials: where each finding is between its yield and the handler,   *)
(* and what the answers it is reported with are worth.                     *)
(***************************************************************************)
EXTENDS AnalyzeStream, FiniteSetTheorems, SequenceTheorems, TLAPS

Distinct(q) == \A i, j \in DOMAIN q : q[i] = q[j] => i = j

Idle == {"next", "exited"}

(* The places of an accepted finding.                                      *)
Queued(f)   == f \in Range(jobs)
WorkedOn(f) == \E w \in Workers : job[w] = f
Listed(f)   == f \in Range(results)
Resolved(f) == kind[f] = "validated" /\ (Listed(f) \/ delivered[f] > 0)

(* An accepted finding is in exactly one place, and only there once, until *)
(* the stream is told to stop.                                             *)
JobsInv ==
  /\ Distinct(jobs) /\ Distinct(results)
  /\ \A w \in Workers : job[w] = NoFinding <=> pc[w] \in Idle
  /\ \A w, v \in Workers : job[w] = job[v] /\ job[w] # NoFinding => w = v

PlaceOf(f) ==
  /\ delivered[f] <= 1
  /\ call[f] = "emitting" => kind[f] = "direct"
  /\ call[f] = "submitting" => kind[f] = "validated"
  /\ Queued(f) => /\ call[f] = "accepted" /\ kind[f] = "validated"
                  /\ ~WorkedOn(f) /\ ~Listed(f) /\ delivered[f] = 0
  /\ WorkedOn(f) => /\ call[f] = "accepted" /\ kind[f] = "validated"
                    /\ ~Listed(f) /\ delivered[f] = 0
  /\ Listed(f) => call[f] = "accepted" /\ delivered[f] = 0
  /\ delivered[f] > 0 => call[f] = "accepted"
  /\ call[f] = "accepted" =>
       RunDone \/ Queued(f) \/ WorkedOn(f) \/ Listed(f) \/ delivered[f] = 1

PlaceInv == JobsInv /\ \A f \in Findings : PlaceOf(f)

(* The order in which the stream stops.                                    *)
StopInv ==
  /\ prod # "producing" => Pending = {} /\ (Refused => prodErr)
  /\ \A w \in Workers : pc[w] = "exited" => jobs = <<>> /\ prod # "producing"
  /\ Closed => \A w \in Workers : pc[w] = "exited"
  /\ main = "returned" => results = <<>> /\ Closed /\ verdict = Errors
  /\ main = "handling" => ~handlerErr

(* A worker's answers are those of the first combinations of its finding.  *)
WorkOf(w) ==
  /\ pc[w] \in Idle => answers[w] = <<>> /\ ~cut[w]
  /\ pc[w] \notin Idle =>
       /\ Len(answers[w]) <= Len(Sets[job[w]])
       /\ \A i \in DOMAIN answers[w] :
            /\ answers[w][i].key = Sets[job[w]][i]
            /\ answers[w][i].enriched => answers[w][i].status = "valid"
  /\ pc[w] \in {"ask", "provider", "waiting"} => Len(answers[w]) < Len(Sets[job[w]])
  /\ pc[w] = "emit" => Len(answers[w]) = Len(Sets[job[w]])
  /\ pc[w] = "enrich" =>
       answers[w] # <<>> /\ answers[w][Len(answers[w])].status = "valid"
  /\ cut[w] => RunDone

WorkInv == \A w \in Workers : WorkOf(w)

(* Who asks about a key is alone in that, and nothing is stored yet, unless *)
(* Debug leaves the caches out.                                            *)
FlightInv ==
  ~debug => \A w \in Workers : pc[w] = "provider" => flight[Key(w)] = w /\ store[Key(w)] = "none"

(* All that was learnt and is no failure is in the validation cache.       *)
Stored(a) == debug \/ a.status = "error" \/ store[a.key] = a.status

StoreInv ==
  /\ \A w \in Workers : \A i \in DOMAIN answers[w] : Stored(answers[w][i])
  /\ \A f \in Findings : Resolved(f) =>
       \A i \in DOMAIN outcome[f].tried : Stored(outcome[f].tried[i])

(* A finding for which the provider was asked about a key is done, or its  *)
(* worker waits for that answer or has it.                                 *)
Has(w, k) == \E i \in DOMAIN answers[w] : answers[w][i].key = k
AskedInv ==
  \A f \in Findings, k \in Keys :
    /\ asked[f][k] <= 1
    /\ asked[f][k] = 1 =>
         /\ call[f] = "accepted" /\ ~Queued(f)
         /\ \A w \in Workers : job[w] = f =>
              (pc[w] = "provider" /\ Key(w) = k) \/ Has(w, k)

(* What VerdictEarned says of one finding, apart from the cancellation.    *)
Earned(f) ==
  LET o == outcome[f] IN
  /\ Len(o.tried) = Len(Sets[f])
  /\ o.status = "valid" <=> \E i \in DOMAIN o.tried : o.tried[i].status = "valid"
  /\ \/ \E a \in o.kept : a.status = o.status /\ a.enriched = o.enriched
     \/ f \in Truncated /\ o.status = "needs" /\ ~o.enriched
  /\ f \in Truncated => o.status \in {"valid", "needs"}

OutcomeInv ==
  \A f \in Findings : Resolved(f) =>
    /\ Earned(f)
    /\ outcome[f].cut => RunDone /\ delivered[f] = 0

Inv ==
  TypeOK /\ PlaceInv /\ StopInv /\ WorkInv /\ FlightInv /\ StoreInv /\ AskedInv /\ OutcomeInv

-----------------------------------------------------------------------------
(* The channels as sets.                                                   *)

LEMMA RangeOfAppend ==
  ASSUME NEW S, NEW q \in Seq(S), NEW e \in S
  PROVE  /\ Range(Append(q, e)) = Range(q) \cup {e}
         /\ Distinct(q) /\ e \notin Range(q) => Distinct(Append(q, e))
<1> DEFINE r == Append(q, e)
           n == Len(q)
<1>1. /\ n \in Nat /\ DOMAIN q = 1 .. n
      /\ DOMAIN r = 1 .. n + 1
      /\ \A i \in 1 .. n : r[i] = q[i]
      /\ r[n + 1] = e
  BY AppendProperties, LenProperties
<1> HIDE DEF r, n
<1>2. Range(r) = Range(q) \cup {e}
  <2>1. ASSUME NEW x \in Range(r) PROVE x \in Range(q) \cup {e}
    <3>1. PICK i \in 1 .. n + 1 : x = r[i]
      BY <1>1 DEF Range
    <3>2. CASE i = n + 1
      BY <1>1, <3>1, <3>2
    <3>3. CASE i # n + 1
      <4>1. i \in 1 .. n
        BY <1>1, <3>3
      <4>2. QED BY <1>1, <3>1, <4>1 DEF Range
    <3>4. QED BY <3>2, <3>3
  <2>2. ASSUME NEW x \in Range(q) \cup {e} PROVE x \in Range(r)
    <3>1. n + 1 \in 1 .. n + 1 /\ \A i \in 1 .. n : i \in 1 .. n + 1
      BY <1>1
    <3>2. QED BY <1>1, <3>1 DEF Range
  <2>3. QED BY <2>1, <2>2
<1>3. ASSUME Distinct(q), e \notin Range(q) PROVE Distinct(r)
  <2>1. \A i \in 1 .. n : r[i] # e
    BY <1>1, <1>3 DEF Range
  <2>2. \A i \in 1 .. n + 1 : i \in 1 .. n \/ i = n + 1
    BY <1>1
  <2>3. QED BY <1>1, <1>3, <2>1, <2>2 DEF Distinct
<1>4. QED BY <1>2, <1>3 DEF r

LEMMA RangeOfTail ==
  ASSUME NEW S, NEW q \in Seq(S), q # <<>>, Distinct(q)
  PROVE  /\ Range(Tail(q)) = Range(q) \ {Head(q)}
         /\ Head(q) \in Range(q)
         /\ Distinct(Tail(q))
<1> DEFINE r == Tail(q)
           n == Len(q)
<1>1. /\ n \in Nat \ {0} /\ DOMAIN q = 1 .. n
      /\ DOMAIN r = 1 .. n - 1
      /\ \A i \in 1 .. n - 1 : r[i] = q[i + 1]
      /\ Head(q) = q[1]
  BY HeadTailProperties, LenProperties, EmptySeq
<1> HIDE DEF r, n
<1>2. \A i \in 1 .. n - 1 : i + 1 \in 1 .. n /\ i + 1 # 1
  BY <1>1
<1>3. Head(q) \in Range(q)
  <2>1. 1 \in 1 .. n
    BY <1>1
  <2>2. QED BY <1>1, <2>1 DEF Range
<1>4. Range(r) = Range(q) \ {Head(q)}
  <2>1. ASSUME NEW x \in Range(r) PROVE x \in Range(q) /\ x # Head(q)
    <3>1. PICK i \in 1 .. n - 1 : x = q[i + 1]
      BY <1>1 DEF Range
    <3>2. 1 \in 1 .. n
      BY <1>1
    <3>3. QED BY <1>1, <1>2, <3>1, <3>2 DEF Range, Distinct
  <2>2. ASSUME NEW x \in Range(q), x # Head(q) PROVE x \in Range(r)
    <3>1. PICK i \in 1 .. n : x = q[i]
      BY <1>1 DEF Range
    <3>2. i - 1 \in 1 .. n - 1 /\ (i - 1) + 1 = i
      BY <1>1, <2>2, <3>1
    <3>3. x = r[i - 1]
      BY <1>1, <3>1, <3>2
    <3>4. QED BY <1>1, <3>2, <3>3 DEF Range
  <2>3. QED BY <2>1, <2>2
<1>5. Distinct(r)
  <2> SUFFICES ASSUME NEW i \in 1 .. n - 1, NEW j \in 1 .. n - 1, r[i] = r[j]
               PROVE  i = j
    BY <1>1 DEF Distinct
  <2>1. i + 1 \in DOMAIN q /\ j + 1 \in DOMAIN q /\ q[i + 1] = q[j + 1]
    BY <1>1
  <2>2. i + 1 = j + 1
    BY <1>2, <2>1 DEF Distinct
  <2>3. QED BY <1>1, <2>2
<1>6. QED BY <1>3, <1>4, <1>5 DEF r

LEMMA RangeTyped ==
  ASSUME NEW S, NEW q \in Seq(S) PROVE Range(q) \subseteq S
<1>1. \A i \in DOMAIN q : q[i] \in S
  BY LenProperties
<1>2. QED BY <1>1 DEF Range

-----------------------------------------------------------------------------
(* The steps outside the pool, and those of its workers.                   *)
Outside ==
  \/ Cancel \/ SourceStep \/ MainStep \/ UNCHANGED vars
  \/ \E f \in Findings : (CallYield(f) /\ UNCHANGED setting) \/ YieldStep(f)

LEMMA StepCases == [Next]_vars => Outside \/ \E w \in Workers : WorkerStep(w)
BY DEF Next, Outside, Finished

LEMMA OutsideFrame ==
  ASSUME Outside
  PROVE  UNCHANGED <<kind, debug, pc, job, answers, cut, store, enriched, flight, asked, outcome>>
BY DEF Outside, Cancel, SourceStep, EndProduce, CloseResults, MainStep, Receive, Handle, Return,
   vars, setting, CallYield, YieldStep, EmitDirect, Submit, pool, cache, caller, source

LEMMA WorkerFrame ==
  ASSUME NEW w \in Workers, WorkerStep(w)
  PROVE  UNCHANGED <<kind, debug, call, prod, prodErr, main, current, handlerErr, delivered,
                     verdict, ctxDone>>
BY DEF WorkerStep, TakeJob, Exit, Recall, Ask, Respond, Enrich, EmitResult, setting, pool, cache,
   caller, source

(* A stream that is told to stop stays so: the handler is called only      *)
(* while it has not failed.                                                *)
LEMMA RunDoneStays ==
  ASSUME StopInv, [Next]_vars, RunDone
  PROVE  RunDone'
<1>1. ASSUME NEW w \in Workers, WorkerStep(w) PROVE RunDone'
  BY <1>1, WorkerFrame DEF RunDone
<1>2. CASE Outside
  <2>1. CASE Cancel
    BY <2>1 DEF Cancel, RunDone
  <2>2. CASE Handle
    BY <2>2 DEF Handle, RunDone, StopInv
  <2>3. CASE ~Cancel /\ ~Handle
    <3>1. UNCHANGED <<handlerErr, ctxDone>>
      BY <1>2, <2>3 DEF Outside, SourceStep, EndProduce, CloseResults, MainStep, Receive, Return,
         vars, CallYield, YieldStep, EmitDirect, Submit, caller
    <3>2. QED BY <3>1 DEF RunDone
  <2>4. QED BY <2>1, <2>2, <2>3
<1>3. QED BY <1>1, <1>2, StepCases

(* What a worker is at.                                                    *)
LEMMA SetsTyped ==
  ASSUME TypeOK, NEW f \in Findings
  PROVE  /\ Sets[f] \in Seq(Keys) /\ Len(Sets[f]) \in Nat /\ DOMAIN Sets[f] = 1 .. Len(Sets[f])
         /\ \A i \in 1 .. Len(Sets[f]) : Sets[f][i] \in Keys
         /\ kind[f] = "validated" => Sets[f] # <<>> /\ Len(Sets[f]) > 0
<1>1. Sets[f] \in Seq(Keys)
  BY FindingsAssumption
<1>2. kind[f] = "validated" => Sets[f] # <<>>
  BY FindingsAssumption DEF TypeOK
<1>3. /\ Len(Sets[f]) \in Nat /\ DOMAIN Sets[f] = 1 .. Len(Sets[f])
      /\ \A i \in 1 .. Len(Sets[f]) : Sets[f][i] \in Keys
  BY <1>1, LenProperties
<1>4. Sets[f] # <<>> => Len(Sets[f]) > 0
  BY <1>1, EmptySeq
<1>5. QED BY <1>1, <1>2, <1>3, <1>4

LEMMA AnswersTyped ==
  ASSUME TypeOK, NEW w \in Workers
  PROVE  /\ answers[w] \in Seq(Answer) /\ Len(answers[w]) \in Nat
         /\ DOMAIN answers[w] = 1 .. Len(answers[w])
         /\ \A i \in 1 .. Len(answers[w]) : answers[w][i] \in Answer
         /\ answers[w] # <<>> => Len(answers[w]) > 0
<1>1. answers[w] \in Seq(Answer)
  BY DEF TypeOK
<1>2. QED BY <1>1, LenProperties, EmptySeq

Asking == {"ask", "provider", "waiting"}

LEMMA WorkTyped ==
  ASSUME TypeOK, PlaceInv, NEW w \in Workers, pc[w] \notin Idle
  PROVE  job[w] \in Findings /\ kind[job[w]] = "validated" /\ WorkedOn(job[w])
<1>1. job[w] \in Findings
  BY DEF TypeOK, PlaceInv, JobsInv
<1>2. WorkedOn(job[w])
  BY DEF WorkedOn
<1>3. QED BY <1>1, <1>2 DEF PlaceInv, PlaceOf

LEMMA KeyTyped ==
  ASSUME TypeOK, PlaceInv, WorkInv, NEW w \in Workers, pc[w] \in Asking
  PROVE  Key(w) \in Keys /\ Len(answers[w]) + 1 \in 1 .. Len(Sets[job[w]])
<1>1. job[w] \in Findings
  BY WorkTyped DEF Asking, Idle
<1>2. Len(answers[w]) < Len(Sets[job[w]]) /\ Len(answers[w]) \in Nat
  BY AnswersTyped DEF WorkInv, WorkOf, Asking
<1>3. Len(answers[w]) + 1 \in 1 .. Len(Sets[job[w]])
  BY <1>1, <1>2, SetsTyped
<1>4. QED BY <1>1, <1>3, SetsTyped DEF Key

-----------------------------------------------------------------------------
(* What is learnt about a combination.                                     *)

Grown(v, status) ==
  /\ pc'[v] = After(v, status)
  /\ Len(answers'[v]) = Len(answers[v]) + 1
  /\ DOMAIN answers'[v] = 1 .. Len(answers[v]) + 1
  /\ \A i \in 1 .. Len(answers[v]) : answers'[v][i] = answers[v][i]
  /\ answers'[v][Len(answers[v]) + 1] = [key |-> Key(v), status |-> status, enriched |-> FALSE]

LEMMA Learnt ==
  ASSUME TypeOK, PlaceInv, WorkInv, NEW ws \in SUBSET Workers, NEW status \in Statuses,
         \A v \in ws : pc[v] \in Asking, Learn(ws, status)
  PROVE  /\ answers' \in [Workers -> Seq(Answer)]
         /\ \A v \in Workers \ ws : answers'[v] = answers[v] /\ pc'[v] = pc[v]
         /\ \A v \in ws : Grown(v, status)
<1>1. ASSUME NEW v \in Workers \ ws PROVE answers'[v] = answers[v] /\ pc'[v] = pc[v]
  BY <1>1 DEF Learn
<1>2. ASSUME NEW v \in ws
      PROVE  answers'[v] \in Seq(Answer) /\ Grown(v, status)
  <2> DEFINE a == [key |-> Key(v), status |-> status, enriched |-> FALSE]
  <2>1. a \in Answer
    BY <1>2, KeyTyped DEF Answer
  <2>2. answers'[v] = Append(answers[v], a) /\ pc'[v] = After(v, status)
    BY <1>2 DEF Learn
  <2>3. answers[v] \in Seq(Answer)
    BY AnswersTyped
  <2> HIDE DEF a
  <2>4. /\ Append(answers[v], a) \in Seq(Answer)
        /\ Len(Append(answers[v], a)) = Len(answers[v]) + 1
        /\ \A i \in 1 .. Len(answers[v]) : Append(answers[v], a)[i] = answers[v][i]
        /\ Append(answers[v], a)[Len(answers[v]) + 1] = a
    BY <2>1, <2>3, AppendProperties
  <2>5. DOMAIN Append(answers[v], a) = 1 .. Len(Append(answers[v], a))
    BY <2>4, LenProperties
  <2>6. QED BY <2>2, <2>4, <2>5 DEF a, Grown
<1>3. answers' \in [Workers -> Seq(Answer)]
  <2>1. DOMAIN answers' = Workers /\ answers' = [v \in Workers |-> answers'[v]]
    BY DEF Learn
  <2>2. \A v \in Workers : answers'[v] \in Seq(Answer)
    BY <1>1, <1>2, AnswersTyped
  <2>3. QED BY <2>1, <2>2
<1>4. QED BY <1>1, <1>2, <1>3

(* A worker that learns something was asking.                              *)
LEMMA SharingAsks ==
  ASSUME NEW w \in Workers, pc[w] = "provider"
  PROVE  Sharing(w) \in SUBSET Workers /\ \A v \in Sharing(w) : pc[v] \in Asking
BY DEF Sharing, Asking

LEMMA KnownTyped ==
  ASSUME TypeOK, NEW w \in Workers, NEW status \in Known(w)
  PROVE  /\ status \in Statuses
         /\ \E i \in DOMAIN answers[w] : answers[w][i].key = Key(w) /\ answers[w][i].status = status
<1>1. PICK i \in DOMAIN answers[w] : answers[w][i].key = Key(w) /\ status = answers[w][i].status
  BY DEF Known
<1>2. answers[w][i] \in Answer
  BY AnswersTyped
<1>3. QED BY <1>1, <1>2 DEF Answer

LEMMA RecallLearns ==
  ASSUME TypeOK, PlaceInv, WorkInv, NEW w \in Workers, Recall(w)
  PROVE  \E status \in Statuses :
           /\ Learn({w}, status)
           /\ status \in Known(w) \/ status = store[Key(w)]
<1>1. CASE \E status \in Known(w) : Learn({w}, status)
  BY <1>1, KnownTyped
<1>2. CASE store[Key(w)] # "none" /\ Learn({w}, store[Key(w)])
  <2>1. pc[w] \in Asking
    BY DEF Recall, Asking
  <2>2. store[Key(w)] \in Statuses
    BY <1>2, <2>1, KeyTyped DEF TypeOK
  <2>3. QED BY <1>2, <2>2
<1>3. QED BY <1>1, <1>2 DEF Recall

LEMMA RespondLearns ==
  ASSUME TypeOK, NEW w \in Workers, Respond(w)
  PROVE  \E status \in Statuses :
           /\ Learn(Sharing(w), status)
           /\ store' = IF debug \/ status = "error" THEN store ELSE [store EXCEPT ![Key(w)] = status]
           /\ cut' = [v \in Workers |-> cut[v] \/ (v \in Sharing(w) /\ status = "error" /\ RunDone)]
BY FindingsAssumption DEF Respond, Statuses

LEMMA AfterPlaces == ASSUME NEW w, NEW status PROVE After(w, status) \in {"ask", "enrich", "emit"}
BY DEF After

(* The steps in the middle of a job.                                       *)
Middle(w) == Recall(w) \/ Ask(w) \/ Respond(w) \/ Enrich(w)

LEMMA WorkerStepCases ==
  ASSUME NEW w \in Workers, WorkerStep(w)
  PROVE  TakeJob(w) \/ EmitResult(w) \/ Exit(w) \/ Middle(w)
BY DEF WorkerStep, Middle

LEMMA MiddleCases ==
  ASSUME NEW w \in Workers, Middle(w)
  PROVE  Recall(w) \/ Ask(w) \/ Respond(w) \/ Enrich(w)
BY DEF Middle

LEMMA MiddleFrame ==
  ASSUME TypeOK, PlaceInv, WorkInv, NEW w \in Workers, Middle(w)
  PROVE  /\ UNCHANGED <<jobs, job, results, outcome>>
         /\ pc' \in [Workers -> {"next", "ask", "provider", "waiting", "enrich", "emit", "exited"}]
         /\ \A v \in Workers : pc[v] \in Idle <=> pc'[v] \in Idle
         /\ \A v \in Workers : pc[v] \in Idle => pc'[v] = pc[v] /\ answers'[v] = answers[v]
<1>1. UNCHANGED <<jobs, job, results, outcome>>
  BY DEF Middle, Recall, Ask, Respond, Enrich
<1>2. ASSUME NEW ws \in SUBSET Workers, NEW status \in Statuses,
             \A v \in ws : pc[v] \in Asking, Learn(ws, status)
      PROVE  /\ pc' \in [Workers -> {"next", "ask", "provider", "waiting", "enrich", "emit", "exited"}]
             /\ \A v \in Workers : pc[v] \in Idle <=> pc'[v] \in Idle
             /\ \A v \in Workers : pc[v] \in Idle => pc'[v] = pc[v] /\ answers'[v] = answers[v]
  <2>1. pc' = [v \in Workers |-> IF v \in ws THEN After(v, status) ELSE pc[v]]
    BY <1>2 DEF Learn
  <2>2. \A v \in ws : After(v, status) \in {"ask", "enrich", "emit"}
    BY AfterPlaces
  <2>3. \A v \in Workers \ ws : answers'[v] = answers[v]
    BY <1>2 DEF Learn
  <2>4. QED BY <1>2, <2>1, <2>2, <2>3 DEF Idle, Asking, TypeOK
<1>3. CASE Recall(w)
  <2>1. pc[w] \in Asking
    BY <1>3 DEF Recall, Asking
  <2>2. QED BY <1>1, <1>2, <1>3, <2>1, RecallLearns
<1>4. CASE Respond(w)
  <2>1. pc[w] = "provider"
    BY <1>4 DEF Respond
  <2>2. QED BY <1>1, <1>2, <1>4, <2>1, SharingAsks, RespondLearns
<1>5. CASE Ask(w)
  <2>1. pc[w] \in Asking /\ pc' = [pc EXCEPT ![w] = pc'[w]] /\ pc'[w] \notin Idle
    BY <1>5 DEF Ask, TypeOK, Idle, Asking
  <2>2. /\ UNCHANGED <<jobs, job, results, outcome, answers>>
        /\ \A v \in Workers : v # w => pc'[v] = pc[v]
    BY <1>5, <2>1 DEF Ask, TypeOK
  <2>3. pc'[w] \in {"next", "ask", "provider", "waiting", "enrich", "emit", "exited"}
    BY <1>5, <2>1 DEF Ask, TypeOK
  <2>4. pc' \in [Workers -> {"next", "ask", "provider", "waiting", "enrich", "emit", "exited"}]
    BY <2>1, <2>3 DEF TypeOK
  <2>5. QED BY <1>1, <2>1, <2>2, <2>4 DEF Idle, Asking
<1>6. CASE Enrich(w)
  <2>1. \E at \in {"ask", "emit"} : pc' = [pc EXCEPT ![w] = at]
    BY <1>6 DEF Enrich
  <2>2. \A v \in Workers : v # w => answers'[v] = answers[v]
    BY <1>6 DEF Enrich, TypeOK
  <2>3. pc[w] = "enrich"
    BY <1>6 DEF Enrich
  <2>4. QED BY <1>1, <2>1, <2>2, <2>3 DEF TypeOK, Idle
<1>7. QED BY <1>3, <1>4, <1>5, <1>6 DEF Middle

-----------------------------------------------------------------------------
(* The choice among the combinations. Whatever the answers are, there is   *)
(* one than which none is better: first the status decides, then whether   *)
(* the enrichment succeeded.                                               *)

LEMMA BestExists ==
  ASSUME NEW all \in SUBSET Answer, all # {}
  PROVE  \E a \in all : \A b \in all : ~Better(a, b)
<1> DEFINE Present(s) == \E a \in all : a.status = s
<1>1. /\ Priority["valid"] = 6 /\ Priority["needs"] = 5
      /\ Priority["invalid"] = 2 /\ Priority["error"] = 1
  BY DEF Priority
<1>2. \A a \in all : a.status \in Statuses /\ a.enriched \in BOOLEAN
  BY DEF Answer
<1>3. \E s \in Statuses : Present(s)
  BY <1>2
<1>4. \E s \in Statuses : Present(s) /\ \A t \in Statuses : Present(t) => Priority[t] <= Priority[s]
  <2> HIDE DEF Present
  <2>1. CASE Present("valid")
    BY <1>1, <2>1 DEF Statuses
  <2>2. CASE ~Present("valid") /\ Present("needs")
    BY <1>1, <2>2 DEF Statuses
  <2>3. CASE ~Present("valid") /\ ~Present("needs") /\ Present("invalid")
    BY <1>1, <2>3 DEF Statuses
  <2>4. CASE ~Present("valid") /\ ~Present("needs") /\ ~Present("invalid")
    BY <1>1, <1>3, <2>4 DEF Statuses
  <2>5. QED BY <2>1, <2>2, <2>3, <2>4
<1>5. PICK s \in Statuses :
        Present(s) /\ \A t \in Statuses : Present(t) => Priority[t] <= Priority[s]
  BY <1>4
<1>6. \A t \in Statuses : Priority[t] \in Nat
  BY <1>1 DEF Statuses
<1>7. ASSUME NEW a \in all, a.status = s, NEW b \in all, Better(a, b)
      PROVE  b.status = s /\ b.enriched /\ ~a.enriched
  <2>1. b.status \in Statuses /\ Present(b.status)
    BY <1>2
  <2>2. Priority[b.status] <= Priority[s]
    BY <1>5, <2>1
  <2>3. ~(Priority[b.status] > Priority[s])
    BY <1>6, <2>1, <2>2
  <2>4. b.status = s
    BY <1>7, <2>3 DEF Better
  <2>5. QED BY <1>7, <2>4 DEF Better
<1>8. CASE \E a \in all : a.status = s /\ a.enriched
  BY <1>7, <1>8
<1>9. CASE ~(\E a \in all : a.status = s /\ a.enriched)
  BY <1>5, <1>7, <1>9
<1>10. QED BY <1>8, <1>9

(* The result a finding gets from the answers to its combinations.         *)
LEMMA ResolveSound ==
  ASSUME NEW f \in Findings, NEW tried \in Seq(Answer), tried # <<>>, NEW c \in BOOLEAN,
         \A i \in DOMAIN tried : tried[i].enriched => tried[i].status = "valid"
  PROVE  LET o == Resolve(f, tried, c) IN
         /\ o \in Outcome /\ o.tried = tried /\ o.cut = c
         /\ o.status = "valid" <=> \E i \in DOMAIN o.tried : o.tried[i].status = "valid"
         /\ \/ \E a \in o.kept : a.status = o.status /\ a.enriched = o.enriched
            \/ f \in Truncated /\ o.status = "needs" /\ ~o.enriched
         /\ f \in Truncated => o.status \in {"valid", "needs"}
<1> DEFINE all   == Range(tried)
           best  == CHOOSE a \in all : \A b \in all : ~Better(a, b)
           works == {a \in all : a.status = "valid"}
           o     == Resolve(f, tried, c)
<1>1. all \in SUBSET Answer /\ all # {}
  <2>1. 1 \in DOMAIN tried
    BY LenProperties, EmptySeq
  <2>2. QED BY <2>1, RangeTyped DEF Range
<1>2. best \in all /\ \A b \in all : ~Better(best, b)
  <2> HIDE DEF all
  <2>1. \E a \in all : \A b \in all : ~Better(a, b)
    BY <1>1, BestExists
  <2>2. QED BY <2>1
<1>3. /\ o.status = IF f \in Truncated /\ best.status # "valid" THEN "needs" ELSE best.status
      /\ o.enriched = best.enriched
      /\ o.kept = IF works # {} THEN works ELSE all
      /\ o.tried = tried /\ o.cut = c
      /\ o = [status |-> o.status, enriched |-> o.enriched, kept |-> o.kept, tried |-> tried,
              cut |-> c]
  BY DEF Resolve
<1>4. \A a \in all : /\ a.status \in Statuses /\ a.enriched \in BOOLEAN
                     /\ a.enriched => a.status = "valid"
  BY <1>1 DEF Range, Answer
<1>5. (\E i \in DOMAIN tried : tried[i].status = "valid") <=> works # {}
  BY DEF Range
<1> HIDE DEF all, best, o
<1>6. works # {} => best.status = "valid"
  <2> SUFFICES ASSUME NEW b \in all, b.status = "valid", best.status # "valid" PROVE FALSE
    OBVIOUS
  <2>1. Priority["valid"] = 6 /\ Priority[best.status] \in {1, 2, 5}
    BY <1>2, <1>4 DEF Priority, Statuses
  <2>2. Priority[b.status] > Priority[best.status]
    BY <2>1
  <2>3. QED BY <1>2, <2>2 DEF Better
<1>7. best.status = "valid" => best \in works
  BY <1>2
<1>8. o.status = "valid" <=> works # {}
  BY <1>3, <1>6, <1>7
<1>9. \/ \E a \in o.kept : a.status = o.status /\ a.enriched = o.enriched
      \/ f \in Truncated /\ o.status = "needs" /\ ~o.enriched
  <2>1. CASE best.status = "valid"
    BY <1>3, <1>7, <2>1
  <2>2. CASE best.status # "valid" /\ f \notin Truncated
    BY <1>2, <1>3, <1>6, <2>2
  <2>3. CASE best.status # "valid" /\ f \in Truncated
    BY <1>2, <1>3, <1>4, <2>3
  <2>4. QED BY <2>1, <2>2, <2>3
<1>10. f \in Truncated => o.status \in {"valid", "needs"}
  BY <1>3
<1>11. o \in Outcome
  <2>1. o.status \in Statuses /\ o.enriched \in BOOLEAN
    BY <1>2, <1>3, <1>4 DEF Statuses
  <2>2. o.kept \in SUBSET Answer
    BY <1>1, <1>3
  <2>3. QED BY <1>3, <2>1, <2>2 DEF Outcome
<1>12. QED BY <1>3, <1>5, <1>8, <1>9, <1>10, <1>11 DEF o

-----------------------------------------------------------------------------
(* Types.                                                                  *)

LEMMA OutsideTypes ==
  ASSUME TypeOK, Outside
  PROVE  TypeOK'
<1>1. /\ kind' \in Kinds /\ debug' \in BOOLEAN
      /\ pc' \in [Workers -> {"next", "ask", "provider", "waiting", "enrich", "emit", "exited"}]
      /\ job' \in [Workers -> Findings \cup {NoFinding}]
      /\ answers' \in [Workers -> Seq(Answer)] /\ cut' \in [Workers -> BOOLEAN]
      /\ store' \in [Keys -> Statuses \cup {"none"}] /\ enriched' \subseteq Keys
      /\ flight' \in [Keys -> Workers \cup {NoWorker}]
      /\ asked' \in [Findings -> [Keys -> 0 .. 2]]
      /\ outcome' \in [Findings -> Outcome \cup {Unresolved}]
  BY OutsideFrame DEF TypeOK
<1>2. call' \in [Findings -> {"ready", "emitting", "submitting", "accepted", "refused"}]
  <2>1. CASE UNCHANGED call
    BY <2>1 DEF TypeOK
  <2>2. CASE ~UNCHANGED call
    <3>1. PICK f \in Findings : CallYield(f) \/ EmitDirect(f) \/ Submit(f)
      BY <2>2 DEF Outside, Cancel, SourceStep, EndProduce, CloseResults, MainStep, Receive, Handle,
         Return, vars, source, YieldStep
    <3>2. \E at \in {"emitting", "submitting", "accepted", "refused"} :
            call' = [call EXCEPT ![f] = at]
      BY <3>1 DEF CallYield, EmitDirect, Submit
    <3>3. QED BY <3>2 DEF TypeOK
  <2>3. QED BY <2>1, <2>2
<1>3. jobs' \in Seq(Findings) /\ Len(jobs') <= QueuedJobs
  <2>1. CASE UNCHANGED jobs
    BY <2>1 DEF TypeOK
  <2>2. CASE ~UNCHANGED jobs
    <3>1. PICK f \in Findings : Len(jobs) < QueuedJobs /\ jobs' = Append(jobs, f)
      BY <2>2 DEF Outside, Cancel, SourceStep, EndProduce, CloseResults, MainStep, Receive, Handle,
         Return, vars, pool, YieldStep, CallYield, EmitDirect, Submit
    <3>2. jobs \in Seq(Findings) /\ Len(jobs) \in Nat /\ QueuedJobs \in Nat
      BY LenProperties, WorkersAssumption DEF TypeOK
    <3>3. QED BY <3>1, <3>2, AppendProperties
  <2>3. QED BY <2>1, <2>2
<1>4. results' \in Seq(Findings) /\ Len(results') <= Cardinality(Workers)
  <2>1. results \in Seq(Findings) /\ Len(results) \in Nat /\ Cardinality(Workers) \in Nat
        /\ Len(results) <= Cardinality(Workers)
    BY LenProperties, WorkersAssumption, FS_CardinalityType DEF TypeOK
  <2>2. CASE UNCHANGED results
    BY <2>1, <2>2
  <2>3. CASE Receive
    <3>1. results # <<>> /\ results' = Tail(results)
      BY <2>3 DEF Receive
    <3>2. QED BY <2>1, <3>1, HeadTailProperties
  <2>4. CASE ~UNCHANGED results /\ ~Receive
    <3>1. PICK f \in Findings : HasRoom /\ results' = Append(results, f)
      BY <2>4 DEF Outside, Cancel, SourceStep, EndProduce, CloseResults, MainStep, Handle,
         Return, vars, YieldStep, CallYield, EmitDirect, Submit
    <3>2. QED BY <2>1, <3>1, AppendProperties DEF HasRoom
  <2>5. QED BY <2>2, <2>3, <2>4
<1>5. prod' \in {"producing", "closing", "closed"} /\ prodErr' \in BOOLEAN
  <2>1. CASE EndProduce
    BY <2>1 DEF EndProduce
  <2>2. CASE CloseResults
    BY <2>2 DEF CloseResults, TypeOK
  <2>3. CASE ~EndProduce /\ ~CloseResults
    BY <2>3 DEF Outside, Cancel, SourceStep, MainStep, Receive, Handle,
       Return, vars, source, YieldStep, CallYield, EmitDirect, Submit, TypeOK
  <2>4. QED BY <2>1, <2>2, <2>3
<1>6. /\ main' \in {"receive", "handling", "returned"} /\ current' \in Findings \cup {NoFinding}
      /\ delivered' \in [Findings -> Nat]
  <2>1. CASE Receive
    <3>1. Head(results) \in Findings
      BY <2>1, HeadTailProperties DEF Receive, TypeOK
    <3>2. delivered \in [Findings -> Nat] /\ current \in Findings \cup {NoFinding}
          /\ main \in {"receive", "handling", "returned"}
      BY DEF TypeOK
    <3>3. QED BY <2>1, <3>1, <3>2 DEF Receive
  <2>2. CASE ~Receive
    BY <2>2 DEF Outside, Cancel, SourceStep, EndProduce, CloseResults, MainStep, Handle,
       Return, vars, caller, YieldStep, CallYield, EmitDirect, Submit, TypeOK
  <2>3. QED BY <2>1, <2>2
<1>7. handlerErr' \in BOOLEAN /\ ctxDone' \in BOOLEAN
  BY DEF Outside, Cancel, SourceStep, EndProduce, CloseResults, MainStep, Receive, Handle,
     Return, vars, caller, YieldStep, CallYield, EmitDirect, Submit, TypeOK
<1>8. verdict' \subseteq {"handler", "producer", "ctx"}
  <2>1. Errors \subseteq {"handler", "producer", "ctx"}
    BY DEF Errors
  <2>2. QED BY <2>1 DEF Outside, Cancel, SourceStep, EndProduce, CloseResults, MainStep, Receive,
     Handle, Return, vars, caller, YieldStep, CallYield, EmitDirect, Submit, TypeOK
<1>9. QED BY <1>1, <1>2, <1>3, <1>4, <1>5, <1>6, <1>7, <1>8 DEF TypeOK

(* An enrichment changes one flag of one answer.                           *)
LEMMA Enriched ==
  ASSUME TypeOK, PlaceInv, WorkInv, NEW w \in Workers, Enrich(w)
  PROVE  /\ answers' \in [Workers -> Seq(Answer)] /\ enriched' \subseteq Keys
         /\ Len(answers[w]) \in DOMAIN answers[w]
         /\ \A v \in Workers : v # w => answers'[v] = answers[v]
         /\ DOMAIN answers'[w] = DOMAIN answers[w] /\ Len(answers'[w]) = Len(answers[w])
         /\ \A i \in DOMAIN answers[w] :
              /\ answers'[w][i].key = answers[w][i].key
              /\ answers'[w][i].status = answers[w][i].status
              /\ answers'[w][i].enriched => answers[w][i].enriched \/ i = Len(answers[w])
<1> DEFINE n == Len(answers[w])
           q == answers[w]
           a == [q[n] EXCEPT !.enriched = TRUE]
           r == [q EXCEPT ![n] = a]
<1>1. q \in Seq(Answer) /\ n \in Nat /\ DOMAIN q = 1 .. n /\ n > 0
      /\ \A i \in 1 .. n : q[i] \in Answer
  BY AnswersTyped DEF Enrich, WorkInv, WorkOf
<1>2. n \in 1 .. n
  BY <1>1
<1>3. q[n].key \in Keys /\ a \in Answer /\ a.key = q[n].key /\ a.status = q[n].status
  BY <1>1, <1>2 DEF Answer
<1>4. CASE /\ answers' = [answers EXCEPT ![w][n].enriched = TRUE]
           /\ enriched' = IF debug THEN enriched ELSE enriched \cup {q[n].key}
  <2>1. answers' = [answers EXCEPT ![w] = r]
    BY <1>4 DEF TypeOK
  <2>2. answers'[w] = r /\ \A v \in Workers : v # w => answers'[v] = answers[v]
    BY <2>1 DEF TypeOK
  <2>3. /\ r \in Seq(Answer) /\ Len(r) = n
        /\ \A i \in 1 .. n : r[i] = IF i = n THEN a ELSE q[i]
    <3> HIDE DEF a
    <3>1. QED BY <1>1, <1>2, <1>3, ExceptSeq
  <2>4. DOMAIN r = 1 .. n
    <3> HIDE DEF r
    <3>1. QED BY <2>3, LenProperties
  <2>6. answers' \in [Workers -> Seq(Answer)] /\ enriched' \subseteq Keys
    <3> HIDE DEF r, a
    <3>1. enriched' \subseteq Keys
      BY <1>3, <1>4 DEF TypeOK
    <3>2. answers \in [Workers -> Seq(Answer)]
      BY DEF TypeOK
    <3>3. QED BY <2>1, <2>3, <3>1, <3>2
  <2>7. DOMAIN answers'[w] = DOMAIN answers[w] /\ Len(answers'[w]) = Len(answers[w])
    <3> HIDE DEF r
    <3>1. QED BY <1>1, <2>2, <2>3, <2>4
  <2>8. \A i \in DOMAIN answers[w] :
          /\ answers'[w][i].key = answers[w][i].key
          /\ answers'[w][i].status = answers[w][i].status
          /\ answers'[w][i].enriched => answers[w][i].enriched \/ i = Len(answers[w])
    <3> HIDE DEF r, a
    <3>1. QED BY <1>1, <1>3, <2>2, <2>3
  <2>9. Len(answers[w]) \in DOMAIN answers[w]
    BY <1>1, <1>2
  <2>10. QED BY <2>2, <2>6, <2>7, <2>8, <2>9
<1>5. CASE UNCHANGED <<answers, enriched>>
  BY <1>1, <1>2, <1>5 DEF TypeOK
<1>6. QED BY <1>4, <1>5 DEF Enrich

LEMMA WorkerTypes ==
  ASSUME TypeOK, PlaceInv, WorkInv, NEW w \in Workers, WorkerStep(w)
  PROVE  TypeOK'
<1>1. CASE TakeJob(w)
  <2>1. Head(jobs) \in Findings /\ Tail(jobs) \in Seq(Findings) /\ Len(Tail(jobs)) <= QueuedJobs
    <3>1. jobs \in Seq(Findings) /\ jobs # <<>> /\ Len(jobs) \in Nat /\ QueuedJobs \in Nat
      BY <1>1, LenProperties, WorkersAssumption DEF TakeJob, TypeOK
    <3>2. QED BY <3>1, HeadTailProperties DEF TypeOK
  <2>2. QED BY <1>1, <2>1, WorkerFrame DEF TakeJob, TypeOK, cache
<1>2. CASE Exit(w)
  BY <1>2, WorkerFrame DEF Exit, TypeOK, cache
<1>3. CASE EmitResult(w)
  <2>1. job[w] \in Findings /\ pc[w] = "emit"
    BY <1>3, WorkTyped DEF EmitResult, Idle
  <2>2. answers[w] \in Seq(Answer) /\ cut[w] \in BOOLEAN /\ answers[w] # <<>>
        /\ \A i \in DOMAIN answers[w] : answers[w][i].enriched => answers[w][i].status = "valid"
    <3>1. Len(answers[w]) = Len(Sets[job[w]]) /\ Len(Sets[job[w]]) > 0
      BY <2>1, WorkTyped, SetsTyped DEF WorkInv, WorkOf, Idle
    <3>2. answers[w] # <<>>
      BY <3>1, EmptySeq
    <3>3. QED BY <2>1, <3>2, AnswersTyped DEF TypeOK, WorkInv, WorkOf, Idle
  <2>3. Resolve(job[w], answers[w], cut[w]) \in Outcome
    BY <2>1, <2>2, ResolveSound
  <2>4. outcome' \in [Findings -> Outcome \cup {Unresolved}]
    BY <1>3, <2>1, <2>3 DEF EmitResult, TypeOK
  <2>5. results' \in Seq(Findings) /\ Len(results') <= Cardinality(Workers)
    <3>1. results \in Seq(Findings) /\ Len(results) \in Nat /\ Cardinality(Workers) \in Nat
      BY LenProperties, WorkersAssumption, FS_CardinalityType DEF TypeOK
    <3>2. CASE HasRoom /\ results' = Append(results, job[w])
      BY <2>1, <3>1, <3>2, AppendProperties DEF HasRoom
    <3>3. CASE UNCHANGED results
      BY <3>1, <3>3 DEF TypeOK
    <3>4. QED BY <1>3, <3>2, <3>3 DEF EmitResult
  <2>6. answers' \in [Workers -> Seq(Answer)]
    BY <1>3, EmptySeq DEF EmitResult, TypeOK
  <2>7. QED BY <1>3, <2>4, <2>5, <2>6, WorkerFrame DEF EmitResult, TypeOK, cache
<1>4. CASE Middle(w)
  <2>1. /\ UNCHANGED <<jobs, job, results, outcome>>
        /\ pc' \in [Workers -> {"next", "ask", "provider", "waiting", "enrich", "emit", "exited"}]
    BY <1>4, MiddleFrame
  <2>2. answers' \in [Workers -> Seq(Answer)] /\ enriched' \subseteq Keys
    <3>1. CASE Recall(w)
      <4>1. pc[w] \in Asking /\ UNCHANGED enriched
        BY <3>1 DEF Recall, Asking, cache
      <4>2. PICK status \in Statuses : Learn({w}, status)
        BY <3>1, RecallLearns
      <4>3. QED BY <4>1, <4>2, Learnt DEF TypeOK
    <3>2. CASE Respond(w)
      <4>1. pc[w] = "provider" /\ UNCHANGED enriched
        BY <3>2 DEF Respond
      <4>2. PICK status \in Statuses : Learn(Sharing(w), status)
        BY <3>2, RespondLearns
      <4>3. Sharing(w) \in SUBSET Workers /\ \A v \in Sharing(w) : pc[v] \in Asking
        BY <4>1, SharingAsks
      <4>4. QED BY <4>1, <4>2, <4>3, Learnt DEF TypeOK
    <3>3. CASE Ask(w)
      BY <3>3 DEF Ask, TypeOK
    <3>4. CASE Enrich(w)
      BY <3>4, Enriched
    <3>5. QED BY <1>4, <3>1, <3>2, <3>3, <3>4, MiddleCases
  <2>3. /\ cut' \in [Workers -> BOOLEAN] /\ store' \in [Keys -> Statuses \cup {"none"}]
        /\ flight' \in [Keys -> Workers \cup {NoWorker}]
        /\ asked' \in [Findings -> [Keys -> 0 .. 2]]
    <3> DEFINE Typed == /\ cut' \in [Workers -> BOOLEAN]
                        /\ store' \in [Keys -> Statuses \cup {"none"}]
                        /\ flight' \in [Keys -> Workers \cup {NoWorker}]
                        /\ asked' \in [Findings -> [Keys -> 0 .. 2]]
    <3> SUFFICES Typed
      OBVIOUS
    <3>1. CASE Recall(w)
      BY <3>1 DEF Recall, TypeOK, cache
    <3>2. CASE Respond(w)
      <4>1. PICK status \in Statuses :
              /\ store' = IF debug \/ status = "error" THEN store ELSE [store EXCEPT ![Key(w)] = status]
              /\ cut' = [v \in Workers |->
                           cut[v] \/ (v \in Sharing(w) /\ status = "error" /\ RunDone)]
        BY <3>2, RespondLearns
      <4>2. cut' \in [Workers -> BOOLEAN]
        <5>1. \A v \in Workers :
                (cut[v] \/ (v \in Sharing(w) /\ status = "error" /\ RunDone)) \in BOOLEAN
          BY Zenon
        <5>2. QED BY <4>1, <5>1
      <4>3. store' \in [Keys -> Statuses \cup {"none"}]
        BY <4>1 DEF TypeOK
      <4>4. QED BY <3>2, <4>2, <4>3 DEF Respond, TypeOK
    <3>3. CASE Ask(w)
      <4>1. UNCHANGED <<cut, store>>
        BY <3>3 DEF Ask
      <4>2. flight' \in [Keys -> Workers \cup {NoWorker}]
        <5>1. flight' = flight \/ flight' = [flight EXCEPT ![Key(w)] = w]
          BY <3>3 DEF Ask
        <5>2. QED BY <5>1 DEF TypeOK
      <4>3. ASSUME asked' = [asked EXCEPT ![job[w]][Key(w)] = IF @ = 0 THEN 1 ELSE 2]
            PROVE  asked' \in [Findings -> [Keys -> 0 .. 2]]
        <5>1. job[w] \in Findings /\ Key(w) \in Keys
          BY <3>3, WorkTyped, KeyTyped DEF Ask, Asking, Idle
        <5> DEFINE n == IF asked[job[w]][Key(w)] = 0 THEN 1 ELSE 2
                   row == [asked[job[w]] EXCEPT ![Key(w)] = n]
        <5>2. asked' = [asked EXCEPT ![job[w]] = row] /\ n \in 0 .. 2
          BY <4>3
        <5>3. row \in [Keys -> 0 .. 2]
          <6>1. asked[job[w]] \in [Keys -> 0 .. 2]
            BY <5>1 DEF TypeOK
          <6> HIDE DEF n
          <6>2. QED BY <5>1, <5>2, <6>1
        <5> HIDE DEF row
        <5>4. QED BY <5>1, <5>2, <5>3 DEF TypeOK
      <4>4. asked' \in [Findings -> [Keys -> 0 .. 2]]
        <5>1. CASE UNCHANGED asked
          BY <5>1 DEF TypeOK
        <5>2. QED BY <3>3, <4>3, <5>1 DEF Ask
      <4>5. QED BY <4>1, <4>2, <4>4 DEF TypeOK
    <3>4. CASE Enrich(w)
      <4>1. CASE UNCHANGED cut
        BY <3>4, <4>1 DEF Enrich, TypeOK
      <4>2. CASE cut' = [cut EXCEPT ![w] = @ \/ RunDone]
        <5> DEFINE c == cut[w] \/ RunDone
        <5>0. c \in BOOLEAN /\ cut' = [cut EXCEPT ![w] = c]
          BY <4>2, Zenon
        <5> HIDE DEF c
        <5>1. cut' \in [Workers -> BOOLEAN]
          BY <5>0 DEF TypeOK
        <5>2. QED BY <3>4, <5>1 DEF Enrich, TypeOK
      <4>3. QED BY <3>4, <4>1, <4>2 DEF Enrich
    <3> HIDE DEF Typed
    <3>5. QED BY <1>4, <3>1, <3>2, <3>3, <3>4, MiddleCases
  <2>4. /\ jobs' \in Seq(Findings) /\ Len(jobs') <= QueuedJobs
        /\ job' \in [Workers -> Findings \cup {NoFinding}]
        /\ outcome' \in [Findings -> Outcome \cup {Unresolved}]
        /\ results' \in Seq(Findings) /\ Len(results') <= Cardinality(Workers)
    BY <2>1 DEF TypeOK
  <2>5. /\ kind' \in Kinds /\ debug' \in BOOLEAN
        /\ call' \in [Findings -> {"ready", "emitting", "submitting", "accepted", "refused"}]
        /\ prod' \in {"producing", "closing", "closed"} /\ prodErr' \in BOOLEAN
        /\ main' \in {"receive", "handling", "returned"} /\ current' \in Findings \cup {NoFinding}
        /\ handlerErr' \in BOOLEAN /\ ctxDone' \in BOOLEAN
        /\ delivered' \in [Findings -> Nat] /\ verdict' \subseteq {"handler", "producer", "ctx"}
    BY WorkerFrame DEF TypeOK
  <2>6. QED BY <2>1, <2>2, <2>3, <2>4, <2>5, Zenon DEF TypeOK
<1>5. QED BY <1>1, <1>2, <1>3, <1>4, WorkerStepCases

-----------------------------------------------------------------------------
(* Places. Nothing outside the pool, and nothing in the middle of a job,   *)
(* moves a finding, except for the three channel operations.               *)

LEMMA PlacesQuiet ==
  ASSUME TypeOK, PlaceInv, UNCHANGED <<kind, call, jobs, job, results, delivered>>,
         RunDone => RunDone', \A w \in Workers : pc[w] \in Idle <=> pc'[w] \in Idle
  PROVE  PlaceInv'
<1>1. JobsInv'
  BY DEF PlaceInv, JobsInv
<1>2. ASSUME NEW f \in Findings PROVE PlaceOf(f)'
  BY DEF PlaceInv, PlaceOf, Queued, WorkedOn, Listed
<1>3. QED BY <1>1, <1>2 DEF PlaceInv

LEMMA ChannelsTyped ==
  ASSUME TypeOK
  PROVE  jobs \in Seq(Findings) /\ results \in Seq(Findings)
         /\ Range(jobs) \subseteq Findings /\ Range(results) \subseteq Findings
<1>1. jobs \in Seq(Findings) /\ results \in Seq(Findings)
  BY DEF TypeOK
<1>2. QED BY <1>1, RangeTyped

LEMMA CallYieldPlaces ==
  ASSUME TypeOK, PlaceInv, NEW g \in Findings, CallYield(g), UNCHANGED kind
  PROVE  PlaceInv'
<1>1. UNCHANGED <<jobs, pc, job, results, delivered, handlerErr, ctxDone>>
  BY DEF CallYield, pool, caller
<1>2. /\ call[g] = "ready" /\ \A f \in Findings : f # g => call'[f] = call[f]
      /\ call'[g] \in {"refused", "emitting", "submitting"}
      /\ call'[g] = "emitting" => kind[g] = "direct"
      /\ call'[g] = "submitting" => kind[g] = "validated"
  <2>1. kind[g] \in {"direct", "validated", "bad"}
    BY FindingsAssumption DEF TypeOK
  <2>2. QED BY <2>1 DEF CallYield, TypeOK
<1>3. JobsInv'
  BY <1>1 DEF PlaceInv, JobsInv
<1>4. ASSUME NEW f \in Findings PROVE PlaceOf(f)'
  <2>1. PlaceOf(f)
    BY DEF PlaceInv
  <2>2. CASE f # g
    BY <1>1, <1>2, <2>1, <2>2 DEF PlaceOf, Queued, WorkedOn, Listed, RunDone
  <2>3. CASE f = g
    BY <1>1, <1>2, <2>1, <2>3 DEF PlaceOf, Queued, WorkedOn, Listed
  <2>4. QED BY <2>2, <2>3
<1>5. QED BY <1>3, <1>4 DEF PlaceInv

LEMMA EmitDirectPlaces ==
  ASSUME TypeOK, PlaceInv, NEW g \in Findings, EmitDirect(g), UNCHANGED kind
  PROVE  PlaceInv'
<1>1. UNCHANGED <<jobs, pc, job, delivered, handlerErr, ctxDone>>
  BY DEF EmitDirect, pool, caller
<1>2. /\ call[g] = "emitting" /\ \A f \in Findings : f # g => call'[f] = call[f]
      /\ \/ call'[g] = "accepted" /\ results' = Append(results, g)
         \/ call'[g] = "refused" /\ results' = results
  BY DEF EmitDirect, TypeOK
<1>3. PlaceOf(g) /\ ~Queued(g) /\ ~WorkedOn(g) /\ ~Listed(g)
  BY <1>2 DEF PlaceInv, PlaceOf
<1>4. /\ Distinct(results')
      /\ \A f \in Findings : f # g => (f \in Range(results') <=> f \in Range(results))
      /\ g \in Range(results') <=> call'[g] = "accepted"
  <2>1. Distinct(results) /\ g \notin Range(results) /\ results \in Seq(Findings)
    BY <1>3, ChannelsTyped DEF PlaceInv, JobsInv, Listed
  <2>2. CASE call'[g] = "accepted" /\ results' = Append(results, g)
    <3>1. Range(results') = Range(results) \cup {g} /\ Distinct(results')
      BY <2>1, <2>2, RangeOfAppend
    <3>2. QED BY <2>2, <3>1
  <2>3. CASE call'[g] = "refused" /\ results' = results
    BY <2>1, <2>3
  <2>4. QED BY <1>2, <2>2, <2>3
<1>5. JobsInv'
  BY <1>1, <1>4 DEF PlaceInv, JobsInv
<1>6. ASSUME NEW f \in Findings PROVE PlaceOf(f)'
  <2>1. PlaceOf(f)
    BY DEF PlaceInv
  <2>2. CASE f # g
    BY <1>1, <1>2, <1>4, <2>1, <2>2 DEF PlaceOf, Queued, WorkedOn, Listed, RunDone
  <2>3. CASE f = g
    <3>1. delivered[g] = 0
      BY <1>2, <1>3 DEF PlaceOf, TypeOK
    <3>2. QED BY <1>1, <1>2, <1>3, <1>4, <2>3, <3>1 DEF PlaceOf, Queued, WorkedOn, Listed
  <2>4. QED BY <2>2, <2>3
<1>7. QED BY <1>5, <1>6 DEF PlaceInv

LEMMA SubmitPlaces ==
  ASSUME TypeOK, PlaceInv, NEW g \in Findings, Submit(g), UNCHANGED kind
  PROVE  PlaceInv'
<1>1. UNCHANGED <<results, pc, job, delivered, handlerErr, ctxDone>>
  BY DEF Submit, caller
<1>2. /\ call[g] = "submitting" /\ \A f \in Findings : f # g => call'[f] = call[f]
      /\ \/ call'[g] = "accepted" /\ jobs' = Append(jobs, g)
         \/ call'[g] = "refused" /\ jobs' = jobs
  BY DEF Submit, TypeOK
<1>3. PlaceOf(g) /\ ~Queued(g) /\ ~WorkedOn(g) /\ ~Listed(g) /\ kind[g] = "validated"
  BY <1>2 DEF PlaceInv, PlaceOf
<1>4. /\ Distinct(jobs')
      /\ \A f \in Findings : f # g => (f \in Range(jobs') <=> f \in Range(jobs))
      /\ g \in Range(jobs') <=> call'[g] = "accepted"
  <2>1. Distinct(jobs) /\ g \notin Range(jobs) /\ jobs \in Seq(Findings)
    BY <1>3, ChannelsTyped DEF PlaceInv, JobsInv, Queued
  <2>2. CASE call'[g] = "accepted" /\ jobs' = Append(jobs, g)
    <3>1. Range(jobs') = Range(jobs) \cup {g} /\ Distinct(jobs')
      BY <2>1, <2>2, RangeOfAppend
    <3>2. QED BY <2>2, <3>1
  <2>3. CASE call'[g] = "refused" /\ jobs' = jobs
    BY <2>1, <2>3
  <2>4. QED BY <1>2, <2>2, <2>3
<1>5. JobsInv'
  BY <1>1, <1>4 DEF PlaceInv, JobsInv
<1>6. ASSUME NEW f \in Findings PROVE PlaceOf(f)'
  <2>1. PlaceOf(f)
    BY DEF PlaceInv
  <2>2. CASE f # g
    BY <1>1, <1>2, <1>4, <2>1, <2>2 DEF PlaceOf, Queued, WorkedOn, Listed, RunDone
  <2>3. CASE f = g
    <3>1. delivered[g] = 0
      BY <1>2, <1>3 DEF PlaceOf, TypeOK
    <3>2. QED BY <1>1, <1>2, <1>3, <1>4, <2>3, <3>1 DEF PlaceOf, Queued, WorkedOn, Listed
  <2>4. QED BY <2>2, <2>3
<1>7. QED BY <1>5, <1>6 DEF PlaceInv

LEMMA ReceivePlaces ==
  ASSUME TypeOK, PlaceInv, Receive, UNCHANGED kind
  PROVE  PlaceInv'
<1>0. PICK g \in Findings : g = Head(results)
  <2>1. Head(results) \in Findings
    BY ChannelsTyped, HeadTailProperties DEF Receive
  <2>2. QED BY <2>1
<1>1. UNCHANGED <<call, jobs, pc, job, handlerErr, ctxDone>>
  BY DEF Receive, source, pool
<1>2. results \in Seq(Findings) /\ results # <<>> /\ results' = Tail(results)
  BY DEF Receive, TypeOK
<1>3. /\ Range(results') = Range(results) \ {g} /\ g \in Range(results) /\ Distinct(results')
      /\ g \in Findings
  BY <1>0, <1>2, RangeOfTail DEF PlaceInv, JobsInv
<1>4. /\ \A f \in Findings : f # g => delivered'[f] = delivered[f]
      /\ RunDone \/ delivered'[g] = delivered[g] + 1
      /\ RunDone => delivered' = delivered
  BY <1>0 DEF Receive, TypeOK
<1>5. PlaceOf(g) /\ Listed(g) /\ delivered[g] = 0 /\ call[g] = "accepted"
  BY <1>3 DEF PlaceInv, PlaceOf, Listed
<1>6. JobsInv'
  BY <1>1, <1>3 DEF PlaceInv, JobsInv
<1>7. ASSUME NEW f \in Findings PROVE PlaceOf(f)'
  <2>1. PlaceOf(f)
    BY DEF PlaceInv
  <2>2. CASE f # g
    BY <1>1, <1>3, <1>4, <2>1, <2>2 DEF PlaceOf, Queued, WorkedOn, Listed, RunDone
  <2>3. CASE f = g
    <3>1. /\ ~Queued(g)' /\ ~WorkedOn(g)'
          /\ call'[g] = "accepted" /\ (RunDone => RunDone')
      BY <1>1, <1>5 DEF PlaceOf, Queued, WorkedOn, RunDone
    <3>2. ~Listed(g)'
      BY <1>3 DEF Listed
    <3>3. delivered'[g] = 1 \/ (RunDone /\ delivered'[g] = 0)
      BY <1>4, <1>5
    <3>4. QED BY <2>3, <3>1, <3>2, <3>3 DEF PlaceOf
  <2>4. QED BY <2>2, <2>3
<1>8. QED BY <1>6, <1>7 DEF PlaceInv

LEMMA OutsidePlaces ==
  ASSUME TypeOK, PlaceInv, StopInv, Outside
  PROVE  PlaceInv'
<1>1. UNCHANGED <<kind, pc, job>> /\ (RunDone => RunDone')
  <2>1. [Next]_vars
    BY DEF Outside, Next
  <2>2. QED BY <2>1, OutsideFrame, RunDoneStays
<1>2. CASE \E g \in Findings : CallYield(g) \/ EmitDirect(g) \/ Submit(g)
  BY <1>1, <1>2, CallYieldPlaces, EmitDirectPlaces, SubmitPlaces
<1>3. CASE Receive
  BY <1>1, <1>3, ReceivePlaces
<1>4. CASE ~Receive /\ ~(\E g \in Findings : CallYield(g) \/ EmitDirect(g) \/ Submit(g))
  <2>1. UNCHANGED <<call, jobs, results, delivered>>
    BY <1>4 DEF Outside, Cancel, SourceStep, EndProduce, CloseResults, MainStep, Handle, Return,
       vars, source, pool, caller, YieldStep
  <2>2. QED BY <1>1, <2>1, PlacesQuiet
<1>5. QED BY <1>2, <1>3, <1>4

LEMMA TakeJobPlaces ==
  ASSUME TypeOK, PlaceInv, NEW w \in Workers, TakeJob(w), WorkerStep(w)
  PROVE  PlaceInv'
<1>1. PICK g \in Findings : g = Head(jobs)
  <2>1. Head(jobs) \in Findings
    BY ChannelsTyped, HeadTailProperties DEF TakeJob
  <2>2. QED BY <2>1
<1>2. UNCHANGED <<kind, call, results, delivered, handlerErr, ctxDone>>
  BY WorkerFrame DEF TakeJob
<1>3. Range(jobs') = Range(jobs) \ {g} /\ g \in Range(jobs) /\ Distinct(jobs')
  BY <1>1, ChannelsTyped, RangeOfTail DEF TakeJob, PlaceInv, JobsInv
<1>4. PlaceOf(g) /\ call[g] = "accepted" /\ kind[g] = "validated" /\ ~WorkedOn(g) /\ ~Listed(g)
      /\ delivered[g] = 0
  BY <1>3 DEF PlaceInv, PlaceOf, Queued
<1>5. /\ pc[w] \in Idle /\ job[w] = NoFinding
      /\ job' = [job EXCEPT ![w] = g] /\ pc' = [pc EXCEPT ![w] = "ask"]
  BY <1>1 DEF TakeJob, Idle, PlaceInv, JobsInv
<1>6. /\ job'[w] = g /\ pc'[w] \notin Idle
      /\ \A v \in Workers : v # w => job'[v] = job[v] /\ pc'[v] = pc[v] /\ job[v] # g
  BY <1>4, <1>5 DEF TypeOK, Idle, WorkedOn
<1>7. g # NoFinding
  BY FindingsAssumption
<1>8. JobsInv'
  <2>1. Distinct(jobs') /\ Distinct(results')
    BY <1>2, <1>3 DEF PlaceInv, JobsInv
  <2>2. \A v \in Workers : job'[v] = NoFinding <=> pc'[v] \in Idle
    BY <1>6, <1>7 DEF PlaceInv, JobsInv
  <2>3. \A u, v \in Workers : job'[u] = job'[v] /\ job'[u] # NoFinding => u = v
    BY <1>6 DEF PlaceInv, JobsInv
  <2>4. QED BY <2>1, <2>2, <2>3 DEF JobsInv, Idle
<1>9. ASSUME NEW f \in Findings PROVE PlaceOf(f)'
  <2>1. PlaceOf(f)
    BY DEF PlaceInv
  <2>2. CASE f # g
    <3>1. Queued(f)' <=> Queued(f)
      BY <1>3, <2>2 DEF Queued
    <3>2. WorkedOn(f)' <=> WorkedOn(f)
      <4>1. job[w] # f /\ job'[w] # f
        BY <1>5, <1>6, <2>2, FindingsAssumption
      <4>2. QED BY <1>6, <4>1 DEF WorkedOn
    <3>3. QED BY <1>2, <2>1, <3>1, <3>2 DEF PlaceOf, Listed, RunDone
  <2>3. CASE f = g
    <3>1. ~Queued(g)' /\ WorkedOn(g)' /\ ~Listed(g)'
      BY <1>2, <1>3, <1>4, <1>6 DEF Queued, WorkedOn, Listed
    <3>2. QED BY <1>2, <1>4, <2>3, <3>1 DEF PlaceOf
  <2>4. QED BY <2>2, <2>3
<1>10. QED BY <1>8, <1>9 DEF PlaceInv

LEMMA EmitResultPlaces ==
  ASSUME TypeOK, PlaceInv, NEW w \in Workers, EmitResult(w), WorkerStep(w)
  PROVE  PlaceInv'
<1>1. PICK g \in Findings : g = job[w]
  <2>1. job[w] \in Findings
    BY WorkTyped DEF EmitResult, Idle
  <2>2. QED BY <2>1
<1>2. UNCHANGED <<kind, call, jobs, delivered, handlerErr, ctxDone>>
  BY WorkerFrame DEF EmitResult
<1>3. PlaceOf(g) /\ WorkedOn(g) /\ call[g] = "accepted" /\ kind[g] = "validated" /\ ~Queued(g)
      /\ ~Listed(g) /\ delivered[g] = 0
  BY <1>1 DEF PlaceInv, PlaceOf, WorkedOn
<1>4. /\ Distinct(results')
      /\ \A f \in Findings : f # g => (f \in Range(results') <=> f \in Range(results))
      /\ g \in Range(results') \/ RunDone
  <2>1. Distinct(results) /\ g \notin Range(results) /\ results \in Seq(Findings)
    BY <1>3, ChannelsTyped DEF PlaceInv, JobsInv, Listed
  <2>2. CASE results' = Append(results, g)
    <3>1. Range(results') = Range(results) \cup {g} /\ Distinct(results')
      BY <2>1, <2>2, RangeOfAppend
    <3>2. QED BY <3>1
  <2>3. CASE RunDone /\ results' = results
    BY <2>1, <2>3
  <2>4. QED BY <1>1, <2>2, <2>3 DEF EmitResult
<1>5. /\ job'[w] = NoFinding /\ pc'[w] \in Idle
      /\ \A v \in Workers : v # w => job'[v] = job[v] /\ pc'[v] = pc[v]
  BY DEF EmitResult, TypeOK, Idle
<1>6. g # NoFinding
  BY FindingsAssumption
<1>7. \A v \in Workers : v # w => job[v] # g
  BY <1>1, <1>6 DEF PlaceInv, JobsInv
<1>8. JobsInv'
  <2>1. Distinct(jobs') /\ Distinct(results')
    BY <1>2, <1>4 DEF PlaceInv, JobsInv
  <2>2. \A v \in Workers : job'[v] = NoFinding <=> pc'[v] \in Idle
    BY <1>5 DEF PlaceInv, JobsInv
  <2>3. \A u, v \in Workers : job'[u] = job'[v] /\ job'[u] # NoFinding => u = v
    BY <1>5 DEF PlaceInv, JobsInv
  <2>4. QED BY <2>1, <2>2, <2>3 DEF JobsInv, Idle
<1>9. ASSUME NEW f \in Findings PROVE PlaceOf(f)'
  <2>1. PlaceOf(f)
    BY DEF PlaceInv
  <2>2. CASE f # g
    <3>1. Listed(f)' <=> Listed(f)
      BY <1>4, <2>2 DEF Listed
    <3>2. WorkedOn(f)' <=> WorkedOn(f)
      <4>1. job[w] # f /\ job'[w] # f
        BY <1>1, <1>5, <2>2, FindingsAssumption
      <4>2. QED BY <1>5, <4>1 DEF WorkedOn
    <3>3. QED BY <1>2, <2>1, <3>1, <3>2 DEF PlaceOf, Queued, RunDone
  <2>3. CASE f = g
    <3>1. ~Queued(g)' /\ ~WorkedOn(g)' /\ (Listed(g)' \/ RunDone')
      <4>1. ~WorkedOn(g)'
        BY <1>5, <1>6, <1>7 DEF WorkedOn
      <4>2. Listed(g)' \/ RunDone'
        BY <1>2, <1>4 DEF Listed, RunDone
      <4>3. QED BY <1>2, <1>3, <4>1, <4>2 DEF Queued
    <3>2. QED BY <1>2, <1>3, <2>3, <3>1 DEF PlaceOf
  <2>4. QED BY <2>2, <2>3
<1>10. QED BY <1>8, <1>9 DEF PlaceInv

LEMMA WorkerPlaces ==
  ASSUME TypeOK, PlaceInv, WorkInv, NEW w \in Workers, WorkerStep(w)
  PROVE  PlaceInv'
<1>1. CASE TakeJob(w)
  BY <1>1, TakeJobPlaces
<1>2. CASE EmitResult(w)
  BY <1>2, EmitResultPlaces
<1>3. CASE Exit(w)
  <2>1. UNCHANGED <<jobs, job, results>>
    BY <1>3 DEF Exit
  <2>2. \A v \in Workers : pc[v] \in Idle <=> pc'[v] \in Idle
    BY <1>3 DEF Exit, TypeOK, Idle
  <2>3. QED BY <2>1, <2>2, WorkerFrame, PlacesQuiet DEF RunDone
<1>4. CASE Middle(w)
  BY <1>4, MiddleFrame, WorkerFrame, PlacesQuiet DEF RunDone
<1>5. QED BY <1>1, <1>2, <1>3, <1>4, WorkerStepCases

-----------------------------------------------------------------------------
(* The order of the shutdown.                                              *)

LEMMA WorkerStops ==
  ASSUME TypeOK, PlaceInv, WorkInv, StopInv, NEW w \in Workers, WorkerStep(w)
  PROVE  StopInv'
<1>1. pc[w] # "exited"
  BY DEF WorkerStep, TakeJob, Exit, Recall, Ask, Respond, Enrich, EmitResult
<1>2. ~Closed /\ main # "returned"
  BY <1>1 DEF StopInv
<1>3. UNCHANGED <<prod, main, handlerErr, prodErr, call>>
  BY WorkerFrame
<1>4. ASSUME NEW v \in Workers, pc'[v] = "exited" PROVE jobs' = <<>> /\ prod' # "producing"
  <2>1. CASE TakeJob(w)
    <3>1. pc[v] = "exited"
      BY <1>4, <2>1 DEF TakeJob, TypeOK
    <3>2. QED BY <2>1, <3>1 DEF TakeJob, StopInv
  <2>2. CASE Exit(w)
    BY <1>3, <2>2 DEF Exit
  <2>3. CASE EmitResult(w)
    <3>1. pc[v] = "exited" /\ UNCHANGED jobs
      BY <1>4, <2>3 DEF EmitResult, TypeOK
    <3>2. QED BY <1>3, <3>1 DEF StopInv
  <2>4. CASE Middle(w)
    <3>1. pc[v] = "exited" /\ UNCHANGED jobs
      BY <1>4, <2>4, MiddleFrame DEF Idle
    <3>2. QED BY <1>3, <3>1 DEF StopInv
  <2>5. QED BY <2>1, <2>2, <2>3, <2>4, WorkerStepCases
<1>5. QED BY <1>2, <1>3, <1>4 DEF StopInv, Closed, Pending, Refused

LEMMA OutsideStops ==
  ASSUME TypeOK, StopInv, Outside
  PROVE  StopInv'
<1>1. UNCHANGED pc
  BY OutsideFrame
<1>2. CASE \E f \in Findings : CallYield(f) \/ EmitDirect(f) \/ Submit(f)
  <2>1. PICK f \in Findings : CallYield(f) \/ EmitDirect(f) \/ Submit(f)
    BY <1>2
  <2>2. prod = "producing"
    BY <2>1 DEF CallYield, EmitDirect, Submit, StopInv, Pending
  <2>3. UNCHANGED <<prod, main, handlerErr>>
    BY <2>1 DEF CallYield, EmitDirect, Submit, caller
  <2>4. \A w \in Workers : pc[w] # "exited"
    BY <2>2 DEF StopInv
  <2>5. main # "returned"
    BY <2>2 DEF StopInv, Closed
  <2>6. QED BY <1>1, <2>2, <2>3, <2>4, <2>5 DEF StopInv, Closed
<1>3. CASE EndProduce
  <2>1. /\ Pending' = {} /\ (Refused' => prodErr') /\ prod' = "closing" /\ prod = "producing"
        /\ UNCHANGED <<jobs, main, handlerErr>>
    BY <1>3 DEF EndProduce, Pending, Refused, pool, caller
  <2>2. main # "returned"
    BY <2>1 DEF StopInv, Closed
  <2>3. QED BY <1>1, <2>1, <2>2 DEF StopInv, Closed
<1>4. CASE CloseResults
  <2>1. /\ prod = "closing" /\ prod' = "closed" /\ \A w \in Workers : pc[w] = "exited"
        /\ UNCHANGED <<call, prodErr, jobs, main, handlerErr>>
    BY <1>4 DEF CloseResults, pool, caller
  <2>2. main # "returned"
    BY <2>1 DEF StopInv, Closed
  <2>3. QED BY <1>1, <2>1, <2>2 DEF StopInv, Closed, Pending, Refused
<1>5. CASE Receive \/ Handle
  <2>1. UNCHANGED <<call, prod, prodErr, jobs>> /\ main' # "returned"
        /\ (main' = "handling" => ~handlerErr')
    BY <1>5 DEF Receive, Handle, source, pool, RunDone
  <2>2. QED BY <1>1, <2>1 DEF StopInv, Closed, Pending, Refused
<1>6. CASE Return
  <2>1. UNCHANGED <<call, prod, prodErr, jobs, handlerErr, ctxDone, results>> /\ main' = "returned"
        /\ results = <<>> /\ Closed /\ verdict' = Errors
    BY <1>6 DEF Return, source, pool
  <2>2. Errors' = Errors
    BY <2>1 DEF Errors
  <2>3. QED BY <1>1, <2>1, <2>2 DEF StopInv, Closed, Pending, Refused
<1>7. CASE Cancel
  <2>1. UNCHANGED <<call, prod, prodErr, jobs, main, handlerErr>> /\ main # "returned"
    BY <1>7 DEF Cancel, source, pool, caller
  <2>2. QED BY <1>1, <2>1 DEF StopInv, Closed, Pending, Refused
<1>8. CASE UNCHANGED vars
  <2>1. UNCHANGED <<call, prod, prodErr, jobs, main, handlerErr, results, verdict, ctxDone>>
    BY <1>8 DEF vars, source, pool, caller
  <2>2. Errors' = Errors
    BY <2>1 DEF Errors
  <2>3. QED BY <1>1, <2>1, <2>2 DEF StopInv, Closed, Pending, Refused
<1>9. QED BY <1>2, <1>3, <1>4, <1>5, <1>6, <1>7, <1>8 DEF Outside, SourceStep, MainStep, YieldStep

-----------------------------------------------------------------------------
(* The work on one finding.                                                *)

LEMMA LearnWork ==
  ASSUME TypeOK, PlaceInv, WorkInv, NEW ws \in SUBSET Workers, NEW status \in Statuses,
         \A v \in ws : pc[v] \in Asking, Learn(ws, status), UNCHANGED job,
         \A v \in Workers : cut'[v] => RunDone', \A v \in Workers : v \notin ws => cut'[v] = cut[v]
  PROVE  WorkInv'
<1>1. ASSUME NEW v \in Workers, v \notin ws PROVE WorkOf(v)'
  <2>1. answers'[v] = answers[v] /\ pc'[v] = pc[v] /\ cut'[v] = cut[v] /\ job' = job
    BY <1>1, Learnt
  <2>2. WorkOf(v)
    BY DEF WorkInv
  <2>3. cut'[v] => RunDone'
    OBVIOUS
  <2>4. QED BY <2>1, <2>2, <2>3 DEF WorkOf
<1>2. ASSUME NEW v \in ws PROVE WorkOf(v)'
  <2> DEFINE n == Len(answers[v])
             m == Len(Sets[job[v]])
  <2>1. /\ pc'[v] = After(v, status) /\ Len(answers'[v]) = n + 1
        /\ DOMAIN answers'[v] = 1 .. n + 1 /\ \A i \in 1 .. n : answers'[v][i] = answers[v][i]
        /\ answers'[v][n + 1] = [key |-> Key(v), status |-> status, enriched |-> FALSE]
    <3>1. Grown(v, status)
      BY <1>2, Learnt
    <3>2. QED BY <3>1 DEF Grown
  <2>2. n \in Nat /\ m \in Nat /\ n < m /\ DOMAIN answers[v] = 1 .. n /\ job' = job
    <3>1. job[v] \in Findings
      BY WorkTyped DEF Asking, Idle
    <3>2. QED BY <3>1, SetsTyped, AnswersTyped DEF WorkInv, WorkOf, Asking
  <2>3. \A i \in 1 .. n : /\ answers[v][i].key = Sets[job[v]][i]
                          /\ answers[v][i].enriched => answers[v][i].status = "valid"
    BY <2>2 DEF WorkInv, WorkOf, Asking, Idle
  <2>4. Key(v) = Sets[job[v]][n + 1]
    BY DEF Key
  <2>5. After(v, status) = IF status = "valid" THEN "enrich" ELSE IF n + 1 < m THEN "ask" ELSE "emit"
    BY DEF After
  <2>6. cut'[v] => RunDone'
    OBVIOUS
  <2> HIDE DEF n, m
  <2>7. \A i \in 1 .. n + 1 : /\ answers'[v][i].key = Sets[job'[v]][i]
                              /\ answers'[v][i].enriched => answers'[v][i].status = "valid"
    <3>1. \A i \in 1 .. n + 1 : i \in 1 .. n \/ i = n + 1
      BY <2>2
    <3>2. QED BY <2>1, <2>2, <2>3, <2>4, <3>1
  <2>8. answers'[v] # <<>>
    BY <2>1, <2>2
  <2>9. pc'[v] = "enrich" => answers'[v][Len(answers'[v])].status = "valid"
    BY <2>1, <2>5
  <2>10. n + 1 <= m /\ (n + 1 < m \/ n + 1 = m) /\ m = Len(Sets[job'[v]])
    BY <2>2 DEF m
  <2>11. QED BY <2>1, <2>2, <2>5, <2>6, <2>7, <2>8, <2>9, <2>10 DEF WorkOf, Idle
<1>3. QED BY <1>1, <1>2 DEF WorkInv

LEMMA OutsideWork ==
  ASSUME WorkInv, StopInv, Outside
  PROVE  WorkInv'
<1>1. RunDone => RunDone'
  <2>1. [Next]_vars
    BY DEF Outside, Next
  <2>2. QED BY <2>1, RunDoneStays
<1>2. UNCHANGED <<pc, job, answers, cut>>
  BY OutsideFrame
<1>3. ASSUME NEW v \in Workers PROVE WorkOf(v)'
  BY <1>1, <1>2 DEF WorkInv, WorkOf
<1>4. QED BY <1>3 DEF WorkInv

LEMMA WorkerWork ==
  ASSUME TypeOK, PlaceInv, WorkInv, NEW w \in Workers, WorkerStep(w)
  PROVE  WorkInv'
<1>1. UNCHANGED <<handlerErr, ctxDone>> /\ (RunDone => RunDone')
  BY WorkerFrame DEF RunDone
<1>2. \A v \in Workers : WorkOf(v)
  BY DEF WorkInv
<1>3. CASE TakeJob(w)
  <2>1. pc[w] = "next" /\ answers[w] = <<>> /\ ~cut[w] /\ UNCHANGED <<answers, cut>>
    BY <1>2, <1>3 DEF TakeJob, WorkOf, Idle
  <2>2. job' = [job EXCEPT ![w] = Head(jobs)] /\ pc' = [pc EXCEPT ![w] = "ask"]
    BY <1>3 DEF TakeJob
  <2>3. Head(jobs) \in Findings /\ Queued(Head(jobs))
    BY <1>3, ChannelsTyped, HeadTailProperties, RangeOfTail DEF TakeJob, Queued, PlaceInv, JobsInv
  <2>4. Len(Sets[Head(jobs)]) \in Nat /\ Len(Sets[Head(jobs)]) > 0
    BY <2>3, SetsTyped DEF PlaceInv, PlaceOf
  <2>5. job'[w] = Head(jobs) /\ pc'[w] = "ask" /\ answers'[w] = <<>> /\ ~cut'[w]
    BY <2>1, <2>2 DEF TypeOK
  <2>6. WorkOf(w)'
    <3>1. Len(<<>>) = 0 /\ DOMAIN <<>> = {}
      BY EmptySeq
    <3>2. QED BY <2>4, <2>5, <3>1 DEF WorkOf, Idle
  <2>7. ASSUME NEW v \in Workers, v # w PROVE WorkOf(v)'
    <3>1. job'[v] = job[v] /\ pc'[v] = pc[v] /\ answers'[v] = answers[v] /\ cut'[v] = cut[v]
      BY <2>1, <2>2, <2>7 DEF TypeOK
    <3>2. QED BY <1>1, <1>2, <3>1 DEF WorkOf
  <2>8. QED BY <2>6, <2>7 DEF WorkInv
<1>4. CASE Exit(w)
  <2>1. UNCHANGED <<job, answers, cut>> /\ pc[w] \in Idle /\ pc' = [pc EXCEPT ![w] = "exited"]
    BY <1>4 DEF Exit, Idle
  <2>2. ASSUME NEW v \in Workers PROVE WorkOf(v)'
    <3>1. pc'[v] = IF v = w THEN "exited" ELSE pc[v]
      BY <2>1 DEF TypeOK
    <3>2. QED BY <1>1, <1>2, <2>1, <3>1 DEF WorkOf, Idle
  <2>3. QED BY <2>2 DEF WorkInv
<1>5. CASE EmitResult(w)
  <2>1. /\ job' = [job EXCEPT ![w] = NoFinding] /\ pc' = [pc EXCEPT ![w] = "next"]
        /\ answers' = [answers EXCEPT ![w] = <<>>] /\ cut' = [cut EXCEPT ![w] = FALSE]
    BY <1>5 DEF EmitResult
  <2>2. pc'[w] = "next" /\ answers'[w] = <<>> /\ cut'[w] = FALSE
    BY <2>1 DEF TypeOK
  <2>3. WorkOf(w)'
    BY <2>2 DEF WorkOf, Idle
  <2>4. ASSUME NEW v \in Workers, v # w PROVE WorkOf(v)'
    <3>1. job'[v] = job[v] /\ pc'[v] = pc[v] /\ answers'[v] = answers[v] /\ cut'[v] = cut[v]
      BY <2>1, <2>4 DEF TypeOK
    <3>2. QED BY <1>1, <1>2, <3>1 DEF WorkOf
  <2>5. QED BY <2>3, <2>4 DEF WorkInv
<1>6. CASE Recall(w)
  <2>1. pc[w] \in Asking /\ UNCHANGED <<job, cut>>
    BY <1>6 DEF Recall, Asking
  <2>2. PICK status \in Statuses : Learn({w}, status)
    BY <1>6, RecallLearns
  <2>3. \A v \in Workers : cut'[v] => RunDone'
    BY <1>1, <1>2, <2>1 DEF WorkOf
  <2>4. QED BY <2>1, <2>2, <2>3, LearnWork
<1>7. CASE Respond(w)
  <2>1. pc[w] = "provider" /\ UNCHANGED job
    BY <1>7 DEF Respond
  <2>2. PICK status \in Statuses :
          /\ Learn(Sharing(w), status)
          /\ cut' = [v \in Workers |-> cut[v] \/ (v \in Sharing(w) /\ status = "error" /\ RunDone)]
    BY <1>7, RespondLearns
  <2>3. Sharing(w) \in SUBSET Workers /\ \A v \in Sharing(w) : pc[v] \in Asking
    BY <2>1, SharingAsks
  <2>4. \A v \in Workers : cut'[v] => RunDone'
    BY <1>1, <1>2, <2>2 DEF WorkOf
  <2>5. ASSUME NEW v \in Workers, v \notin Sharing(w) PROVE cut'[v] = cut[v]
    <3>1. cut'[v] = (cut[v] \/ (v \in Sharing(w) /\ status = "error" /\ RunDone))
      BY <2>2
    <3>2. cut[v] \in BOOLEAN
      BY DEF TypeOK
    <3>3. CASE cut[v] = TRUE
      BY <3>1, <3>3
    <3>4. CASE cut[v] = FALSE
      BY <2>5, <3>1, <3>4
    <3>5. QED BY <3>2, <3>3, <3>4
  <2>6. QED BY <2>1, <2>2, <2>3, <2>4, <2>5, LearnWork
<1>8. CASE Ask(w)
  <2>1. UNCHANGED <<job, answers, cut>> /\ pc[w] = "ask"
        /\ \E at \in {"waiting", "provider"} : pc' = [pc EXCEPT ![w] = at]
    BY <1>8 DEF Ask
  <2>2. ASSUME NEW v \in Workers PROVE WorkOf(v)'
    <3>1. v # w => pc'[v] = pc[v]
      BY <2>1 DEF TypeOK
    <3>2. pc'[w] \in {"waiting", "provider"}
      BY <2>1 DEF TypeOK
    <3>3. QED BY <1>1, <1>2, <2>1, <3>1, <3>2 DEF WorkOf, Idle
  <2>3. QED BY <2>2 DEF WorkInv
<1>9. CASE Enrich(w)
  <2> DEFINE n == Len(answers[w])
             m == Len(Sets[job[w]])
  <2>1. UNCHANGED job /\ pc[w] = "enrich"
        /\ pc' = [pc EXCEPT ![w] = IF n < m THEN "ask" ELSE "emit"]
    BY <1>9 DEF Enrich
  <2>2. cut'[w] => RunDone'
    BY <1>1, <1>2, <1>9 DEF Enrich, WorkOf, TypeOK
  <2>3. ASSUME NEW v \in Workers, v # w PROVE WorkOf(v)'
    <3>1. job'[v] = job[v] /\ pc'[v] = pc[v] /\ answers'[v] = answers[v] /\ cut'[v] = cut[v]
      BY <1>9, <2>1, <2>3, Enriched DEF Enrich, TypeOK
    <3>2. QED BY <1>1, <1>2, <3>1 DEF WorkOf
  <2>4. WorkOf(w)'
    <3>1. /\ n \in DOMAIN answers[w] /\ DOMAIN answers'[w] = DOMAIN answers[w]
          /\ Len(answers'[w]) = n
          /\ \A i \in DOMAIN answers[w] :
               /\ answers'[w][i].key = answers[w][i].key
               /\ answers'[w][i].status = answers[w][i].status
               /\ answers'[w][i].enriched => answers[w][i].enriched \/ i = n
      BY <1>9, Enriched
    <3>2. /\ answers[w][n].status = "valid" /\ n <= m
          /\ \A i \in DOMAIN answers[w] :
               /\ answers[w][i].key = Sets[job[w]][i]
               /\ answers[w][i].enriched => answers[w][i].status = "valid"
      BY <1>2, <2>1 DEF WorkOf, Idle
    <3>3. n \in Nat /\ m \in Nat
      <4>1. job[w] \in Findings
        BY <2>1, WorkTyped DEF Idle
      <4>2. QED BY <4>1, AnswersTyped, SetsTyped
    <3>4. pc'[w] = IF n < m THEN "ask" ELSE "emit"
      BY <2>1 DEF TypeOK
    <3>5. job'[w] = job[w] /\ Len(Sets[job'[w]]) = m
      BY <2>1
    <3> HIDE DEF n, m
    <3>6. n < m \/ n = m
      BY <3>2, <3>3
    <3>7. \A i \in DOMAIN answers'[w] : /\ answers'[w][i].key = Sets[job'[w]][i]
                                        /\ answers'[w][i].enriched => answers'[w][i].status = "valid"
      BY <3>1, <3>2, <3>5
    <3>8. pc'[w] \in {"ask", "emit"}
      BY <3>4
    <3>9. QED BY <2>2, <3>1, <3>2, <3>3, <3>4, <3>5, <3>6, <3>7, <3>8 DEF WorkOf, Idle
  <2>5. QED BY <2>3, <2>4 DEF WorkInv
<1>10. QED BY <1>3, <1>4, <1>5, <1>6, <1>7, <1>8, <1>9 DEF WorkerStep

-----------------------------------------------------------------------------
(* The caches.                                                             *)

LEMMA KeyKept ==
  ASSUME NEW v \in Workers, job'[v] = job[v], answers'[v] = answers[v]
  PROVE  Key(v)' = Key(v)
BY DEF Key

(* A step at the ends of a job changes no cache and no other worker.       *)
LEMMA EndsFrame ==
  ASSUME TypeOK, NEW w \in Workers, TakeJob(w) \/ Exit(w) \/ EmitResult(w)
  PROVE  /\ UNCHANGED <<store, enriched, flight, asked>>
         /\ pc'[w] \in {"ask", "next", "exited"}
         /\ \A v \in Workers : v # w =>
              /\ job'[v] = job[v] /\ answers'[v] = answers[v] /\ pc'[v] = pc[v] /\ cut'[v] = cut[v]
         /\ answers'[w] = answers[w] \/ answers'[w] = <<>>
BY DEF TakeJob, Exit, EmitResult, cache, TypeOK

(* Who asks the provider after others have learnt something did before.    *)
LEMMA StillAsks ==
  ASSUME TypeOK, PlaceInv, WorkInv, NEW ws \in SUBSET Workers, NEW status \in Statuses,
         \A u \in ws : pc[u] \in Asking, Learn(ws, status), NEW v \in Workers, pc'[v] = "provider"
  PROVE  v \notin ws /\ pc[v] = "provider" /\ answers'[v] = answers[v]
<1>1. v \notin ws
  <2> SUFFICES ASSUME v \in ws PROVE FALSE
    OBVIOUS
  <2>1. pc'[v] = After(v, status)
    BY Learnt DEF Grown
  <2>2. After(v, status) \in {"ask", "enrich", "emit"}
    BY AfterPlaces
  <2>3. QED BY <2>1, <2>2
<1>2. answers'[v] = answers[v] /\ pc'[v] = pc[v]
  BY <1>1, Learnt
<1>3. QED BY <1>1, <1>2

LEMMA FlightKept ==
  ASSUME TypeOK, PlaceInv, WorkInv, FlightInv, NEW w \in Workers, WorkerStep(w)
  PROVE  FlightInv'
<1> SUFFICES ASSUME ~debug, NEW v \in Workers, pc'[v] = "provider"
             PROVE  flight'[Key(v)'] = v /\ store'[Key(v)'] = "none"
  BY WorkerFrame DEF FlightInv
<1>1. CASE TakeJob(w) \/ Exit(w) \/ EmitResult(w)
  <2>1. v # w /\ pc[v] = "provider" /\ Key(v)' = Key(v) /\ UNCHANGED <<store, flight>>
    BY <1>1, EndsFrame, KeyKept
  <2>2. QED BY <2>1 DEF FlightInv
<1>2. CASE Recall(w)
  <2>1. PICK status \in Statuses : Learn({w}, status)
    BY <1>2, RecallLearns
  <2>2. pc[w] \in Asking /\ UNCHANGED <<job, store, flight>>
    BY <1>2 DEF Recall, Asking, cache
  <2>3. {w} \in SUBSET Workers /\ \A u \in {w} : pc[u] \in Asking
    BY <2>2
  <2>4. v # w /\ pc[v] = "provider" /\ answers'[v] = answers[v]
    BY <2>1, <2>3, StillAsks
  <2>5. Key(v)' = Key(v)
    BY <2>2, <2>4, KeyKept
  <2>6. QED BY <2>2, <2>4, <2>5 DEF FlightInv
<1>3. CASE Ask(w)
  <2>1. UNCHANGED <<job, answers, store>> /\ pc[w] = "ask" /\ store[Key(w)] = "none"
        /\ (v # w => pc'[v] = pc[v])
    BY <1>3 DEF Ask, TypeOK
  <2>2. Key(v)' = Key(v)
    BY <2>1, KeyKept
  <2>3. Key(w) \in Keys
    BY <2>1, KeyTyped DEF Asking
  <2>4. CASE flight[Key(w)] # NoWorker
    <3>1. flight' = flight /\ pc' = [pc EXCEPT ![w] = "waiting"]
      BY <1>3, <2>4 DEF Ask
    <3>2. v # w
      BY <3>1 DEF TypeOK
    <3>3. QED BY <2>1, <2>2, <3>1, <3>2 DEF FlightInv
  <2>5. CASE flight[Key(w)] = NoWorker
    <3>1. flight' = [flight EXCEPT ![Key(w)] = w]
      BY <1>3, <2>5 DEF Ask
    <3>2. CASE v = w
      BY <2>1, <2>2, <2>3, <3>1, <3>2 DEF TypeOK
    <3>3. CASE v # w
      <4>1. flight[Key(v)] = v /\ store[Key(v)] = "none"
        BY <2>1, <3>3 DEF FlightInv
      <4>2. Key(v) # Key(w)
        BY <2>5, <4>1, WorkersAssumption
      <4>3. flight'[Key(v)] = flight[Key(v)]
        BY <3>1, <4>2 DEF TypeOK
      <4>4. QED BY <2>1, <2>2, <4>1, <4>3
    <3>4. QED BY <3>2, <3>3
  <2>6. QED BY <2>4, <2>5
<1>4. CASE Respond(w)
  <2>1. PICK status \in Statuses :
          /\ Learn(Sharing(w), status)
          /\ store' = IF debug \/ status = "error" THEN store ELSE [store EXCEPT ![Key(w)] = status]
    BY <1>4, RespondLearns
  <2>2. pc[w] = "provider" /\ UNCHANGED job /\ flight' = [flight EXCEPT ![Key(w)] = NoWorker]
    BY <1>4 DEF Respond
  <2>3. Sharing(w) \in SUBSET Workers /\ (\A u \in Sharing(w) : pc[u] \in Asking) /\ w \in Sharing(w)
    BY <2>2, SharingAsks DEF Sharing
  <2>4. v \notin Sharing(w) /\ pc[v] = "provider" /\ answers'[v] = answers[v]
    BY <2>1, <2>3, StillAsks
  <2>5. pc[v] = "provider" /\ answers'[v] = answers[v] /\ v # w
    BY <2>3, <2>4
  <2>6. Key(v)' = Key(v) /\ Key(w) \in Keys /\ Key(v) \in Keys
    BY <2>2, <2>5, KeyKept, KeyTyped DEF Asking
  <2>7. flight[Key(v)] = v /\ store[Key(v)] = "none" /\ flight[Key(w)] = w
    BY <2>2, <2>5 DEF FlightInv
  <2>8. Key(v) # Key(w)
    BY <2>5, <2>7
  <2>9. flight'[Key(v)] = flight[Key(v)] /\ store'[Key(v)] = store[Key(v)]
    BY <2>1, <2>2, <2>6, <2>8 DEF TypeOK
  <2>10. QED BY <2>6, <2>7, <2>9
<1>5. CASE Enrich(w)
  <2>1. UNCHANGED <<job, store, flight>> /\ (v # w => pc'[v] = pc[v]) /\ pc'[w] # "provider"
    BY <1>5 DEF Enrich, TypeOK
  <2>2. v # w /\ answers'[v] = answers[v]
    BY <1>5, <2>1, Enriched
  <2>3. Key(v)' = Key(v)
    BY <2>1, <2>2, KeyKept
  <2>4. QED BY <2>1, <2>2, <2>3 DEF FlightInv
<1>6. QED BY <1>1, <1>2, <1>3, <1>4, <1>5 DEF WorkerStep

(* What is stored stays: only the worker that asks about a key stores, and *)
(* it found nothing there.                                                 *)
LEMMA StoreGrows ==
  ASSUME TypeOK, PlaceInv, WorkInv, FlightInv, NEW w \in Workers, WorkerStep(w)
  PROVE  \A a \in Answer : Stored(a) => Stored(a)'
<1>0. debug' = debug
  BY WorkerFrame
<1>1. CASE Respond(w) /\ ~debug
  <2>1. PICK status \in Statuses :
          store' = IF debug \/ status = "error" THEN store ELSE [store EXCEPT ![Key(w)] = status]
    BY <1>1, RespondLearns
  <2>2. store[Key(w)] = "none"
    BY <1>1 DEF Respond, FlightInv
  <2>3. ASSUME NEW a \in Answer, Stored(a) PROVE Stored(a)'
    <3>1. a.status \in Statuses /\ a.key \in Keys /\ "none" \notin Statuses
      BY DEF Answer, Statuses
    <3>2. CASE a.status = "error"
      BY <3>2 DEF Stored
    <3>3. CASE store[a.key] = a.status
      <4>1. a.key # Key(w)
        BY <2>2, <3>1, <3>3
      <4>2. store'[a.key] = store[a.key]
        BY <2>1, <3>1, <4>1 DEF TypeOK
      <4>3. QED BY <3>3, <4>2 DEF Stored
    <3>4. QED BY <1>1, <2>3, <3>2, <3>3 DEF Stored
  <2>4. QED BY <2>3
<1>2. CASE ~Respond(w)
  <2>1. UNCHANGED store
    BY <1>2 DEF WorkerStep, TakeJob, Exit, Recall, Ask, Enrich, EmitResult, cache
  <2>2. QED BY <1>0, <2>1 DEF Stored
<1>3. CASE debug
  BY <1>0, <1>3 DEF Stored
<1>4. QED BY <1>1, <1>2, <1>3

(* What is known of a finding that has been resolved.                      *)
LEMMA OutsideResolved ==
  ASSUME TypeOK, PlaceInv, Outside, NEW f \in Findings, Resolved(f)'
  PROVE  /\ Resolved(f) /\ outcome'[f] = outcome[f]
         /\ delivered'[f] = delivered[f] \/ (delivered[f] = 0 /\ ~RunDone)
<1>1. UNCHANGED <<kind, outcome>> /\ kind[f] = "validated"
  BY OutsideFrame DEF Resolved
<1>2. CASE Receive
  <2>1. /\ results \in Seq(Findings) /\ results # <<>> /\ results' = Tail(results)
        /\ Head(results) \in Findings
    BY <1>2, ChannelsTyped, HeadTailProperties DEF Receive
  <2>2. Range(results') = Range(results) \ {Head(results)} /\ Head(results) \in Range(results)
    BY <2>1, RangeOfTail DEF PlaceInv, JobsInv
  <2>3. Listed(f)' => Listed(f)
    BY <2>2 DEF Listed
  <2>4. CASE RunDone \/ f # Head(results)
    <3>1. delivered'[f] = delivered[f]
      BY <1>2, <2>1, <2>4 DEF Receive, TypeOK
    <3>2. QED BY <1>1, <2>3, <3>1 DEF Resolved
  <2>5. CASE ~RunDone /\ f = Head(results)
    <3>1. Listed(f)
      BY <2>2, <2>5 DEF Listed
    <3>2. delivered[f] = 0
      BY <3>1 DEF PlaceInv, PlaceOf
    <3>3. QED BY <1>1, <2>5, <3>1, <3>2 DEF Resolved
  <2>6. QED BY <2>4, <2>5
<1>3. CASE \E g \in Findings : EmitDirect(g)
  <2>1. PICK g \in Findings : EmitDirect(g)
    BY <1>3
  <2>2. UNCHANGED delivered /\ (results' = results \/ results' = Append(results, g))
    BY <2>1 DEF EmitDirect, caller
  <2>3. kind[g] = "direct"
    BY <2>1 DEF EmitDirect, PlaceInv, PlaceOf
  <2>4. Range(Append(results, g)) = Range(results) \cup {g}
    BY ChannelsTyped, RangeOfAppend
  <2>5. Listed(f)' => Listed(f)
    BY <1>1, <2>2, <2>3, <2>4 DEF Listed
  <2>6. QED BY <1>1, <2>2, <2>5 DEF Resolved
<1>4. CASE ~Receive /\ ~(\E g \in Findings : EmitDirect(g))
  <2>1. UNCHANGED <<results, delivered>>
    BY <1>4 DEF Outside, Cancel, SourceStep, EndProduce, CloseResults, MainStep, Handle, Return,
       vars, caller, YieldStep, CallYield, Submit
  <2>2. QED BY <1>1, <2>1 DEF Resolved, Listed
<1>5. QED BY <1>2, <1>3, <1>4

LEMMA WorkerResolved ==
  ASSUME TypeOK, PlaceInv, WorkInv, NEW w \in Workers, WorkerStep(w),
         NEW f \in Findings, Resolved(f)'
  PROVE  /\ delivered'[f] = delivered[f]
         /\ \/ Resolved(f) /\ outcome'[f] = outcome[f]
            \/ /\ EmitResult(w) /\ f = job[w] /\ delivered[f] = 0
               /\ outcome'[f] = Resolve(f, answers[w], cut[w])
<1>1. UNCHANGED <<kind, delivered>> /\ kind[f] = "validated"
  BY WorkerFrame DEF Resolved
<1>2. CASE EmitResult(w)
  <2>1. job[w] \in Findings /\ WorkedOn(job[w])
    BY <1>2, WorkTyped DEF EmitResult, Idle
  <2>2. ~Listed(job[w]) /\ delivered[job[w]] = 0
    BY <2>1 DEF PlaceInv, PlaceOf
  <2>3. CASE /\ results' = Append(results, job[w])
             /\ outcome' = [outcome EXCEPT ![job[w]] = Resolve(job[w], answers[w], cut[w])]
    <3>1. Range(results') = Range(results) \cup {job[w]}
      BY <2>1, <2>3, ChannelsTyped, RangeOfAppend
    <3>2. CASE f = job[w]
      BY <1>1, <1>2, <2>2, <2>3, <3>2 DEF TypeOK
    <3>3. CASE f # job[w]
      BY <1>1, <2>3, <3>1, <3>3 DEF Resolved, Listed, TypeOK
    <3>4. QED BY <3>2, <3>3
  <2>4. CASE UNCHANGED <<results, outcome>>
    BY <1>1, <2>4 DEF Resolved, Listed
  <2>5. QED BY <1>2, <2>3, <2>4 DEF EmitResult
<1>3. CASE ~EmitResult(w)
  <2>1. UNCHANGED <<results, outcome>>
    BY <1>3 DEF WorkerStep, TakeJob, Exit, Recall, Ask, Respond, Enrich
  <2>2. QED BY <1>1, <2>1 DEF Resolved, Listed
<1>4. QED BY <1>2, <1>3

LEMMA OutsideStored ==
  ASSUME TypeOK, PlaceInv, StoreInv, Outside
  PROVE  StoreInv'
<1>1. UNCHANGED <<debug, answers, store>>
  BY OutsideFrame
<1>2. \A w \in Workers : \A i \in DOMAIN answers'[w] : Stored(answers[w][i])'
  BY <1>1 DEF StoreInv, Stored
<1>3. ASSUME NEW f \in Findings, Resolved(f)'
      PROVE  \A i \in DOMAIN outcome'[f].tried : Stored(outcome[f].tried[i])'
  BY <1>1, <1>3, OutsideResolved DEF StoreInv, Stored
<1>4. QED BY <1>1, <1>2, <1>3 DEF StoreInv

LEMMA LearnStored ==
  ASSUME TypeOK, PlaceInv, WorkInv, StoreInv, NEW ws \in SUBSET Workers, NEW status \in Statuses,
         \A v \in ws : pc[v] \in Asking, Learn(ws, status),
         \A a \in Answer : Stored(a) => Stored(a)',
         \A v \in ws : debug' \/ status = "error" \/ store'[Key(v)] = status,
         NEW v \in Workers, NEW i \in DOMAIN answers'[v]
  PROVE  Stored(answers[v][i])'
<1>1. \A j \in DOMAIN answers[v] : answers[v][j] \in Answer /\ Stored(answers[v][j])
  BY AnswersTyped DEF StoreInv
<1>2. CASE v \notin ws
  <2>1. answers'[v] = answers[v]
    BY <1>2, Learnt
  <2>2. answers[v][i] \in Answer /\ Stored(answers[v][i]) /\ answers'[v][i] = answers[v][i]
    BY <1>1, <2>1
  <2>3. debug' \/ answers'[v][i].status = "error" \/ store'[answers'[v][i].key] = answers'[v][i].status
    BY <2>2 DEF Stored
  <2>4. QED BY <2>3 DEF Stored
<1>3. CASE v \in ws
  <2>1. /\ DOMAIN answers'[v] = 1 .. Len(answers[v]) + 1 /\ Len(answers[v]) \in Nat
        /\ DOMAIN answers[v] = 1 .. Len(answers[v])
        /\ \A j \in 1 .. Len(answers[v]) : answers'[v][j] = answers[v][j]
        /\ answers'[v][Len(answers[v]) + 1] =
             [key |-> Key(v), status |-> status, enriched |-> FALSE]
    <3>1. Grown(v, status)
      BY <1>3, Learnt
    <3>2. Len(answers[v]) \in Nat /\ DOMAIN answers[v] = 1 .. Len(answers[v])
      BY AnswersTyped
    <3>3. QED BY <3>1, <3>2 DEF Grown
  <2>2. CASE i = Len(answers[v]) + 1
    BY <1>3, <2>1, <2>2 DEF Stored
  <2>3. CASE i # Len(answers[v]) + 1
    <3>1. i \in DOMAIN answers[v] /\ answers'[v][i] = answers[v][i]
      BY <2>1, <2>3
    <3>2. answers[v][i] \in Answer /\ Stored(answers[v][i])
      BY <1>1, <3>1
    <3>3. debug' \/ answers'[v][i].status = "error" \/ store'[answers'[v][i].key] = answers'[v][i].status
      BY <3>1, <3>2 DEF Stored
    <3>4. QED BY <3>3 DEF Stored
  <2>4. QED BY <2>2, <2>3
<1>4. QED BY <1>2, <1>3

LEMMA WorkerStored ==
  ASSUME TypeOK, PlaceInv, WorkInv, FlightInv, StoreInv, NEW w \in Workers, WorkerStep(w)
  PROVE  StoreInv'
<1>1. \A a \in Answer : Stored(a) => Stored(a)'
  BY StoreGrows
<1>2. ASSUME NEW v \in Workers, NEW i \in DOMAIN answers'[v] PROVE Stored(answers[v][i])'
  <2>1. \A j \in DOMAIN answers[v] : answers[v][j] \in Answer /\ Stored(answers[v][j])
    BY AnswersTyped DEF StoreInv
  <2>2. ASSUME i \in DOMAIN answers[v], answers'[v][i].key = answers[v][i].key,
               answers'[v][i].status = answers[v][i].status
        PROVE  Stored(answers[v][i])'
    <3>1. debug' \/ answers[v][i].status = "error" \/ store'[answers[v][i].key] = answers[v][i].status
      BY <1>1, <2>1, <2>2 DEF Stored
    <3>2. QED BY <2>2, <3>1 DEF Stored
  <2>3. CASE TakeJob(w) \/ Exit(w) \/ EmitResult(w)
    <3>1. answers'[v] = answers[v] \/ answers'[v] = <<>>
      BY <2>3, EndsFrame
    <3>2. DOMAIN <<>> = {}
      OBVIOUS
    <3>3. answers'[v] = answers[v]
      BY <3>1, <3>2
    <3>4. QED BY <2>2, <3>3
  <2>4. CASE Recall(w)
    <3>1. pc[w] \in Asking /\ UNCHANGED store
      BY <2>4 DEF Recall, Asking, cache
    <3>2. PICK status \in Statuses :
            Learn({w}, status) /\ (status \in Known(w) \/ status = store[Key(w)])
      BY <2>4, RecallLearns
    <3>3. debug' \/ status = "error" \/ store'[Key(w)] = status
      <4>1. CASE status \in Known(w)
        <5>1. PICK j \in DOMAIN answers[w] :
                answers[w][j].key = Key(w) /\ answers[w][j].status = status
          BY <4>1, KnownTyped
        <5>2. QED BY <3>1, <5>1, WorkerFrame DEF StoreInv, Stored
      <4>2. CASE status = store[Key(w)]
        BY <3>1, <4>2
      <4>3. QED BY <3>2, <4>1, <4>2
    <3>4. {w} \in SUBSET Workers /\ (\A u \in {w} : pc[u] \in Asking)
          /\ \A u \in {w} : debug' \/ status = "error" \/ store'[Key(u)] = status
      BY <3>1, <3>3
    <3>5. QED BY <1>1, <3>2, <3>4, LearnStored
  <2>5. CASE Respond(w)
    <3>1. pc[w] = "provider"
      BY <2>5 DEF Respond
    <3>2. PICK status \in Statuses :
            /\ Learn(Sharing(w), status)
            /\ store' = IF debug \/ status = "error" THEN store ELSE [store EXCEPT ![Key(w)] = status]
      BY <2>5, RespondLearns
    <3>3. Sharing(w) \in SUBSET Workers /\ (\A u \in Sharing(w) : pc[u] \in Asking)
          /\ \A u \in Sharing(w) : Key(u) = Key(w)
      BY <3>1, SharingAsks DEF Sharing
    <3>4. Key(w) \in Keys
      BY <3>1, KeyTyped DEF Asking
    <3>5. \A u \in Sharing(w) : debug' \/ status = "error" \/ store'[Key(u)] = status
      BY <3>2, <3>3, <3>4, WorkerFrame DEF TypeOK
    <3>6. QED BY <1>1, <3>2, <3>3, <3>5, LearnStored
  <2>6. CASE Ask(w)
    <3>1. UNCHANGED answers
      BY <2>6 DEF Ask
    <3>2. QED BY <2>2, <3>1
  <2>7. CASE Enrich(w)
    <3>1. v # w => answers'[v] = answers[v]
      BY <2>7, Enriched
    <3>2. /\ DOMAIN answers'[w] = DOMAIN answers[w]
          /\ \A j \in DOMAIN answers[w] : answers'[w][j].key = answers[w][j].key
                                          /\ answers'[w][j].status = answers[w][j].status
      BY <2>7, Enriched
    <3>3. QED BY <2>2, <3>1, <3>2
  <2>8. QED BY <2>3, <2>4, <2>5, <2>6, <2>7 DEF WorkerStep
<1>3. ASSUME NEW f \in Findings, Resolved(f)', NEW i \in DOMAIN outcome'[f].tried
      PROVE  Stored(outcome[f].tried[i])'
  <2>1. CASE Resolved(f) /\ outcome'[f] = outcome[f]
    <3>1. Stored(outcome[f].tried[i])
      BY <1>3, <2>1 DEF StoreInv
    <3>2. outcome[f].tried[i] \in Answer
      <4>1. outcome[f] \in Outcome \cup {Unresolved}
        BY DEF TypeOK
      <4>2. outcome[f].tried \in Seq(Answer)
        <5>1. CASE outcome[f] \in Outcome
          BY <5>1 DEF Outcome
        <5>2. CASE outcome[f] = Unresolved
          <6>1. outcome[f].tried = <<>>
            BY <5>2 DEF Unresolved
          <6>2. QED BY <6>1, EmptySeq
        <5>3. QED BY <4>1, <5>1, <5>2
      <4>3. QED BY <1>3, <2>1, <4>2, LenProperties
    <3>3. /\ outcome'[f].tried[i] = outcome[f].tried[i]
          /\ \/ debug' \/ outcome[f].tried[i].status = "error"
             \/ store'[outcome[f].tried[i].key] = outcome[f].tried[i].status
      BY <1>1, <2>1, <3>1, <3>2 DEF Stored
    <3>4. QED BY <3>3 DEF Stored
  <2>2. CASE EmitResult(w) /\ f = job[w] /\ outcome'[f] = Resolve(f, answers[w], cut[w])
    <3>1. outcome'[f].tried = answers[w] /\ UNCHANGED <<debug, store>>
      BY <2>2, WorkerFrame DEF Resolve, EmitResult, cache
    <3>2. QED BY <1>3, <3>1 DEF StoreInv, Stored
  <2>3. QED BY <1>3, <2>1, <2>2, WorkerResolved
<1>4. QED BY <1>2, <1>3 DEF StoreInv

-----------------------------------------------------------------------------
(* How often the provider is asked.                                        *)

LEMMA OutsideAsked ==
  ASSUME TypeOK, PlaceInv, AskedInv, Outside
  PROVE  AskedInv'
<1>1. UNCHANGED <<asked, pc, job, answers>>
  BY OutsideFrame
<1>2. ASSUME NEW f \in Findings, call[f] = "accepted", ~Queued(f)
      PROVE  call'[f] = "accepted" /\ ~Queued(f)'
  <2>1. CASE \E g \in Findings : CallYield(g) \/ EmitDirect(g)
    <3>1. UNCHANGED jobs
      BY <2>1 DEF CallYield, EmitDirect, pool
    <3>2. call'[f] = call[f]
      BY <1>2, <2>1 DEF CallYield, EmitDirect, TypeOK
    <3>3. QED BY <1>2, <3>1, <3>2 DEF Queued
  <2>2. CASE \E g \in Findings : Submit(g)
    <3>1. PICK g \in Findings : Submit(g)
      BY <2>2
    <3>2. f # g /\ call'[f] = call[f] /\ (jobs' = jobs \/ jobs' = Append(jobs, g))
      BY <1>2, <3>1 DEF Submit, TypeOK
    <3>3. Range(Append(jobs, g)) = Range(jobs) \cup {g}
      BY ChannelsTyped, RangeOfAppend
    <3>4. QED BY <1>2, <3>2, <3>3 DEF Queued
  <2>3. CASE ~(\E g \in Findings : CallYield(g) \/ EmitDirect(g) \/ Submit(g))
    <3>1. UNCHANGED <<call, jobs>>
      BY <2>3 DEF Outside, Cancel, SourceStep, EndProduce, CloseResults, MainStep, Receive, Handle,
         Return, vars, source, pool, YieldStep
    <3>2. QED BY <1>2, <3>1 DEF Queued
  <2>4. QED BY <2>1, <2>2, <2>3
<1>3. \A w \in Workers : Key(w)' = Key(w)
  BY <1>1, KeyKept
<1>4. ASSUME NEW f \in Findings, NEW k \in Keys
      PROVE  /\ asked'[f][k] <= 1
             /\ asked'[f][k] = 1 =>
                  /\ call'[f] = "accepted" /\ ~Queued(f)'
                  /\ \A w \in Workers : job'[w] = f =>
                       (pc'[w] = "provider" /\ Key(w)' = k) \/ Has(w, k)'
  BY <1>1, <1>2, <1>3 DEF AskedInv, Has
<1>5. QED BY <1>4 DEF AskedInv

(* What a worker has asked for its finding it has, or is being told.       *)
AskedBy(w, k) == (pc[w] = "provider" /\ Key(w) = k) \/ Has(w, k)

LEMMA AskedKept ==
  ASSUME TypeOK, PlaceInv, AskedInv, NEW w \in Workers, WorkerStep(w), UNCHANGED asked,
         \A f \in Findings : Queued(f)' => Queued(f),
         \A v \in Workers, k \in Keys, f \in Findings :
           job'[v] = f /\ asked[f][k] = 1 => job[v] = f /\ (AskedBy(v, k) => AskedBy(v, k)')
  PROVE  AskedInv'
<1>1. UNCHANGED call
  BY WorkerFrame
<1>2. ASSUME NEW f \in Findings, NEW k \in Keys
      PROVE  /\ asked'[f][k] <= 1
             /\ asked'[f][k] = 1 =>
                  /\ call'[f] = "accepted" /\ ~Queued(f)'
                  /\ \A v \in Workers : job'[v] = f => AskedBy(v, k)'
  <2>1. asked[f][k] <= 1
    BY DEF AskedInv
  <2>2. ASSUME asked[f][k] = 1
        PROVE  /\ call'[f] = "accepted" /\ ~Queued(f)'
               /\ \A v \in Workers : job'[v] = f => AskedBy(v, k)'
    <3>1. /\ call[f] = "accepted" /\ ~Queued(f)
          /\ \A v \in Workers : job[v] = f => AskedBy(v, k)
      BY <2>2 DEF AskedInv, AskedBy
    <3>2. QED BY <1>1, <2>2, <3>1
  <2>3. QED BY <2>1, <2>2
<1>3. QED BY <1>2 DEF AskedInv, AskedBy

LEMMA LearnAsked ==
  ASSUME TypeOK, PlaceInv, WorkInv, NEW ws \in SUBSET Workers, NEW status \in Statuses,
         \A u \in ws : pc[u] \in Asking, Learn(ws, status), UNCHANGED job,
         NEW v \in Workers, NEW k \in Keys, AskedBy(v, k)
  PROVE  AskedBy(v, k)'
<1>1. CASE v \notin ws
  <2>1. answers'[v] = answers[v] /\ pc'[v] = pc[v] /\ job'[v] = job[v]
    BY <1>1, Learnt
  <2>2. Key(v)' = Key(v)
    BY <2>1, KeyKept
  <2>3. QED BY <2>1, <2>2 DEF AskedBy, Has
<1>2. CASE v \in ws
  <2>1. /\ DOMAIN answers'[v] = 1 .. Len(answers[v]) + 1 /\ Len(answers[v]) \in Nat
        /\ DOMAIN answers[v] = 1 .. Len(answers[v])
        /\ \A j \in 1 .. Len(answers[v]) : answers'[v][j] = answers[v][j]
        /\ answers'[v][Len(answers[v]) + 1] =
             [key |-> Key(v), status |-> status, enriched |-> FALSE]
    <3>1. Grown(v, status)
      BY <1>2, Learnt
    <3>2. Len(answers[v]) \in Nat /\ DOMAIN answers[v] = 1 .. Len(answers[v])
      BY AnswersTyped
    <3>3. QED BY <3>1, <3>2 DEF Grown
  <2>2. CASE Key(v) = k
    <3>1. Len(answers[v]) + 1 \in DOMAIN answers'[v]
          /\ answers'[v][Len(answers[v]) + 1].key = k
      BY <2>1, <2>2
    <3>2. QED BY <3>1 DEF AskedBy, Has
  <2>3. CASE Has(v, k)
    <3>1. PICK j \in DOMAIN answers[v] : answers[v][j].key = k
      BY <2>3 DEF Has
    <3>2. j \in DOMAIN answers'[v] /\ answers'[v][j].key = k
      BY <2>1, <3>1
    <3>3. QED BY <3>2 DEF AskedBy, Has
  <2>4. QED BY <2>2, <2>3 DEF AskedBy
<1>3. QED BY <1>1, <1>2

LEMMA AskAsked ==
  ASSUME TypeOK, PlaceInv, WorkInv, AskedInv, NEW w \in Workers, Ask(w), WorkerStep(w)
  PROVE  AskedInv'
<1>1. /\ UNCHANGED <<jobs, job, answers, call>> /\ pc[w] = "ask" /\ Known(w) = {}
      /\ \A v \in Workers : v # w => pc'[v] = pc[v]
  BY WorkerFrame DEF Ask, TypeOK
<1>2. \A v \in Workers : Key(v)' = Key(v)
  BY <1>1, KeyKept
<1>3. \A v \in Workers, k \in Keys : AskedBy(v, k) => AskedBy(v, k)'
  BY <1>1, <1>2 DEF AskedBy, Has
<1>4. CASE UNCHANGED asked
  <2>1. \A f \in Findings : Queued(f)' => Queued(f)
    BY <1>1 DEF Queued
  <2>2. QED BY <1>1, <1>3, <1>4, <2>1, AskedKept
<1>5. CASE /\ asked' = [asked EXCEPT ![job[w]][Key(w)] = IF @ = 0 THEN 1 ELSE 2]
           /\ pc' = [pc EXCEPT ![w] = "provider"]
  <2>1. PICK g \in Findings : g = job[w]
    <3>1. job[w] \in Findings
      BY <1>1, WorkTyped DEF Idle
    <3>2. QED BY <3>1
  <2>2. PICK h \in Keys : h = Key(w)
    <3>1. Key(w) \in Keys
      BY <1>1, KeyTyped DEF Asking
    <3>2. QED BY <3>1
  <2>3. ~AskedBy(w, h)
    <3>1. ~Has(w, h)
      BY <1>1, <2>2 DEF Has, Known
    <3>2. QED BY <1>1, <3>1 DEF AskedBy
  <2>4. asked[g][h] = 0
    <3>1. asked[g][h] # 1
      BY <2>1, <2>3 DEF AskedInv, AskedBy
    <3>2. asked[g][h] <= 1 /\ asked[g][h] \in 0 .. 2
      BY DEF AskedInv, TypeOK
    <3>3. QED BY <3>1, <3>2
  <2>5. asked'[g][h] = 1 /\ \A f \in Findings, k \in Keys : f # g \/ k # h => asked'[f][k] = asked[f][k]
    <3> DEFINE row == [asked[g] EXCEPT ![h] = 1]
    <3>1. asked' = [asked EXCEPT ![g] = row]
      BY <1>5, <2>1, <2>2, <2>4
    <3>2. row[h] = 1 /\ \A k \in Keys : k # h => row[k] = asked[g][k]
      BY DEF TypeOK
    <3> HIDE DEF row
    <3>3. asked'[g] = row /\ \A f \in Findings : f # g => asked'[f] = asked[f]
      BY <3>1 DEF TypeOK
    <3>4. QED BY <3>2, <3>3
  <2>6. /\ call[g] = "accepted" /\ ~Queued(g) /\ g # NoFinding
        /\ \A v \in Workers : job[v] = g => v = w
    BY <1>1, <2>1, WorkTyped, FindingsAssumption DEF PlaceInv, PlaceOf, JobsInv, Idle
  <2>7. AskedBy(w, h)'
    BY <1>2, <1>5, <2>2 DEF AskedBy, TypeOK
  <2>8. ASSUME NEW f \in Findings, NEW k \in Keys
        PROVE  /\ asked'[f][k] <= 1
               /\ asked'[f][k] = 1 =>
                    /\ call'[f] = "accepted" /\ ~Queued(f)'
                    /\ \A v \in Workers : job'[v] = f => AskedBy(v, k)'
    <3>1. CASE f = g /\ k = h
      <4>1. ~Queued(g)' /\ call'[g] = "accepted"
        BY <1>1, <2>6 DEF Queued
      <4>2. \A v \in Workers : job'[v] = g => AskedBy(v, h)'
        BY <1>1, <2>6, <2>7
      <4>3. QED BY <2>5, <3>1, <4>1, <4>2
    <3>2. CASE f # g \/ k # h
      <4>1. asked'[f][k] = asked[f][k]
        BY <2>5, <3>2
      <4>2. /\ asked[f][k] <= 1
            /\ asked[f][k] = 1 => /\ call[f] = "accepted" /\ ~Queued(f)
                                  /\ \A v \in Workers : job[v] = f => AskedBy(v, k)
        BY DEF AskedInv, AskedBy
      <4>3. Queued(f)' <=> Queued(f)
        BY <1>1 DEF Queued
      <4>4. QED BY <1>1, <1>3, <4>1, <4>2, <4>3
    <3>3. QED BY <3>1, <3>2
  <2>9. QED BY <2>8 DEF AskedInv, AskedBy
<1>6. QED BY <1>4, <1>5 DEF Ask

LEMMA WorkerAsked ==
  ASSUME TypeOK, PlaceInv, WorkInv, AskedInv, NEW w \in Workers, WorkerStep(w)
  PROVE  AskedInv'
<1>1. CASE TakeJob(w)
  <2>1. UNCHANGED asked /\ jobs \in Seq(Findings) /\ jobs # <<>> /\ jobs' = Tail(jobs)
    BY <1>1, EndsFrame, ChannelsTyped DEF TakeJob
  <2>2. Range(jobs') = Range(jobs) \ {Head(jobs)} /\ Head(jobs) \in Range(jobs)
    BY <2>1, RangeOfTail DEF PlaceInv, JobsInv
  <2>3. \A f \in Findings : Queued(f)' => Queued(f)
    BY <2>2 DEF Queued
  <2>4. ASSUME NEW v \in Workers, NEW k \in Keys, NEW f \in Findings,
               job'[v] = f, asked[f][k] = 1
        PROVE  job[v] = f /\ (AskedBy(v, k) => AskedBy(v, k)')
    <3>1. v # w
      <4>1. job'[w] = Head(jobs)
        BY <1>1 DEF TakeJob, TypeOK
      <4>2. ~Queued(f)
        BY <2>4 DEF AskedInv
      <4>3. QED BY <2>2, <2>4, <4>1, <4>2 DEF Queued
    <3>2. job'[v] = job[v] /\ answers'[v] = answers[v] /\ pc'[v] = pc[v]
      BY <1>1, <3>1, EndsFrame
    <3>3. Key(v)' = Key(v)
      BY <3>2, KeyKept
    <3>4. QED BY <2>4, <3>2, <3>3 DEF AskedBy, Has
  <2>5. QED BY <2>1, <2>3, <2>4, AskedKept
<1>2. CASE Exit(w) \/ EmitResult(w)
  <2>1. UNCHANGED <<asked, jobs>>
    BY <1>2, EndsFrame DEF Exit, EmitResult
  <2>2. \A f \in Findings : Queued(f)' => Queued(f)
    BY <2>1 DEF Queued
  <2>3. ASSUME NEW v \in Workers, NEW k \in Keys, NEW f \in Findings, job'[v] = f
        PROVE  job[v] = f /\ (AskedBy(v, k) => AskedBy(v, k)')
    <3>1. v # w
      <4>1. job'[w] = NoFinding
        BY <1>2 DEF Exit, EmitResult, TypeOK, PlaceInv, JobsInv, Idle
      <4>2. QED BY <2>3, <4>1, FindingsAssumption
    <3>2. job'[v] = job[v] /\ answers'[v] = answers[v] /\ pc'[v] = pc[v]
      BY <1>2, <3>1, EndsFrame
    <3>3. Key(v)' = Key(v)
      BY <3>2, KeyKept
    <3>4. QED BY <2>3, <3>2, <3>3 DEF AskedBy, Has
  <2>4. QED BY <2>1, <2>2, <2>3, AskedKept
<1>3. CASE Ask(w)
  BY <1>3, AskAsked
<1>4. ASSUME NEW ws \in SUBSET Workers, NEW status \in Statuses,
             \A u \in ws : pc[u] \in Asking, Learn(ws, status), UNCHANGED <<job, jobs, asked>>
      PROVE  AskedInv'
  <2>1. \A f \in Findings : Queued(f)' => Queued(f)
    BY <1>4 DEF Queued
  <2>2. \A v \in Workers, k \in Keys : AskedBy(v, k) => AskedBy(v, k)'
    BY <1>4, LearnAsked
  <2>3. QED BY <1>4, <2>1, <2>2, AskedKept
<1>5. CASE Recall(w)
  <2>1. pc[w] \in Asking /\ UNCHANGED <<job, jobs, asked>>
    BY <1>5 DEF Recall, Asking, cache
  <2>2. QED BY <1>4, <1>5, <2>1, RecallLearns
<1>6. CASE Respond(w)
  <2>1. pc[w] = "provider" /\ UNCHANGED <<job, jobs, asked>>
    BY <1>6 DEF Respond
  <2>2. QED BY <1>4, <1>6, <2>1, SharingAsks, RespondLearns
<1>7. CASE Enrich(w)
  <2>1. UNCHANGED <<job, jobs, asked>> /\ pc[w] = "enrich"
        /\ \A v \in Workers : v # w => pc'[v] = pc[v]
    BY <1>7 DEF Enrich, TypeOK
  <2>2. \A f \in Findings : Queued(f)' => Queued(f)
    BY <2>1 DEF Queued
  <2>3. ASSUME NEW v \in Workers, NEW k \in Keys, AskedBy(v, k) PROVE AskedBy(v, k)'
    <3>1. CASE v # w
      <4>1. job'[v] = job[v] /\ answers'[v] = answers[v] /\ pc'[v] = pc[v]
        BY <1>7, <2>1, <3>1, Enriched
      <4>2. Key(v)' = Key(v)
        BY <4>1, KeyKept
      <4>3. QED BY <2>3, <4>1, <4>2 DEF AskedBy, Has
    <3>2. CASE v = w
      <4>1. Has(w, k)
        BY <2>1, <2>3, <3>2 DEF AskedBy
      <4>2. Has(w, k)'
        BY <1>7, <4>1, Enriched DEF Has
      <4>3. QED BY <3>2, <4>2 DEF AskedBy
    <3>3. QED BY <3>1, <3>2
  <2>4. QED BY <2>1, <2>2, <2>3, AskedKept
<1>8. QED BY <1>1, <1>2, <1>3, <1>5, <1>6, <1>7 DEF WorkerStep

-----------------------------------------------------------------------------
(* What is reported.                                                       *)

LEMMA OutsideOutcome ==
  ASSUME TypeOK, PlaceInv, StopInv, OutcomeInv, Outside
  PROVE  OutcomeInv'
<1>1. RunDone => RunDone'
  <2>1. [Next]_vars
    BY DEF Outside, Next
  <2>2. QED BY <2>1, RunDoneStays
<1>2. ASSUME NEW f \in Findings, Resolved(f)'
      PROVE  Earned(f)' /\ (outcome'[f].cut => RunDone' /\ delivered'[f] = 0)
  <2>1. /\ Resolved(f) /\ outcome'[f] = outcome[f]
        /\ delivered'[f] = delivered[f] \/ (delivered[f] = 0 /\ ~RunDone)
    BY <1>2, OutsideResolved
  <2>2. Earned(f) /\ (outcome[f].cut => RunDone /\ delivered[f] = 0)
    BY <2>1 DEF OutcomeInv
  <2>3. Earned(f)'
    BY <2>1, <2>2 DEF Earned
  <2>4. QED BY <1>1, <2>1, <2>2, <2>3
<1>3. QED BY <1>2 DEF OutcomeInv

LEMMA WorkerOutcome ==
  ASSUME TypeOK, PlaceInv, WorkInv, OutcomeInv, NEW w \in Workers, WorkerStep(w)
  PROVE  OutcomeInv'
<1>1. RunDone => RunDone'
  BY WorkerFrame DEF RunDone
<1>2. ASSUME NEW f \in Findings, Resolved(f)'
      PROVE  Earned(f)' /\ (outcome'[f].cut => RunDone' /\ delivered'[f] = 0)
  <2>1. CASE Resolved(f) /\ outcome'[f] = outcome[f]
    <3>1. Earned(f) /\ (outcome[f].cut => RunDone /\ delivered[f] = 0)
      BY <2>1 DEF OutcomeInv
    <3>2. Earned(f)'
      BY <2>1, <3>1 DEF Earned
    <3>3. delivered'[f] = delivered[f]
      BY <1>2, WorkerResolved
    <3>4. QED BY <1>1, <2>1, <3>1, <3>2, <3>3
  <2>2. CASE /\ EmitResult(w) /\ f = job[w] /\ delivered[f] = 0
             /\ outcome'[f] = Resolve(f, answers[w], cut[w])
    <3>1. pc[w] = "emit" /\ pc[w] \notin Idle
      BY <2>2 DEF EmitResult, Idle
    <3>2. /\ Len(answers[w]) = Len(Sets[f]) /\ (cut[w] => RunDone)
          /\ \A i \in DOMAIN answers[w] : answers[w][i].enriched => answers[w][i].status = "valid"
      BY <2>2, <3>1 DEF WorkInv, WorkOf
    <3>3. answers[w] # <<>> /\ answers[w] \in Seq(Answer) /\ cut[w] \in BOOLEAN
      <4>1. Len(Sets[f]) > 0
        BY <2>2, <3>1, WorkTyped, SetsTyped
      <4>2. QED BY <3>2, <4>1, AnswersTyped, EmptySeq DEF TypeOK
    <3> DEFINE o == Resolve(f, answers[w], cut[w])
    <3>4. /\ o.tried = answers[w] /\ o.cut = cut[w]
          /\ o.status = "valid" <=> \E i \in DOMAIN o.tried : o.tried[i].status = "valid"
          /\ \/ \E a \in o.kept : a.status = o.status /\ a.enriched = o.enriched
             \/ f \in Truncated /\ o.status = "needs" /\ ~o.enriched
          /\ f \in Truncated => o.status \in {"valid", "needs"}
      BY <3>2, <3>3, ResolveSound
    <3>5. outcome'[f] = o
      BY <2>2
    <3> HIDE DEF o
    <3>6. Earned(f)'
      BY <3>2, <3>4, <3>5 DEF Earned
    <3>7. delivered'[f] = 0
      BY <1>2, <2>2, WorkerResolved
    <3>8. QED BY <1>1, <3>2, <3>4, <3>5, <3>6, <3>7
  <2>3. QED BY <1>2, <2>1, <2>2, WorkerResolved
<1>3. QED BY <1>2 DEF OutcomeInv

-----------------------------------------------------------------------------
(* The induction.                                                          *)

LEMMA InitInv == Init => Inv
<1> SUFFICES ASSUME Init PROVE Inv
  OBVIOUS
<1> USE DEF Init
<1>1. DOMAIN <<>> = {} /\ Len(<<>>) = 0 /\ Range(<<>>) = {}
  BY DEF Range
<1>2. TypeOK
  <2>1. <<>> \in Seq(Findings) /\ <<>> \in Seq(Answer)
    BY EmptySeq
  <2>2. 0 <= QueuedJobs /\ 0 <= Cardinality(Workers)
    BY WorkersAssumption, FS_CardinalityType
  <2>3. outcome \in [Findings -> Outcome \cup {Unresolved}]
    OBVIOUS
  <2>4. asked \in [Findings -> [Keys -> 0 .. 2]]
    OBVIOUS
  <2>5. answers \in [Workers -> Seq(Answer)] /\ cut \in [Workers -> BOOLEAN]
    BY <2>1
  <2>6. flight \in [Keys -> Workers \cup {NoWorker}]
        /\ store \in [Keys -> Statuses \cup {"none"}]
    OBVIOUS
  <2>7. QED BY <1>1, <2>1, <2>2, <2>3, <2>4, <2>5, <2>6 DEF TypeOK
<1>3. PlaceInv
  <2>1. JobsInv
    BY <1>1 DEF JobsInv, Distinct, Idle
  <2>2. ASSUME NEW f \in Findings PROVE PlaceOf(f)
    <3>1. ~Queued(f) /\ ~Listed(f)
      BY <1>1 DEF Queued, Listed
    <3>2. ~WorkedOn(f)
      BY FindingsAssumption DEF WorkedOn
    <3>3. QED BY <3>1, <3>2 DEF PlaceOf
  <2>3. QED BY <2>1, <2>2 DEF PlaceInv
<1>4. StopInv
  BY DEF StopInv, Closed
<1>5. WorkInv
  BY DEF WorkInv, WorkOf, Idle
<1>6. FlightInv
  BY DEF FlightInv
<1>7. ASSUME NEW f \in Findings PROVE ~Resolved(f)
  BY <1>1 DEF Resolved, Listed
<1>8. StoreInv
  BY <1>1, <1>7 DEF StoreInv
<1>9. AskedInv
  BY DEF AskedInv
<1>10. OutcomeInv
  BY <1>7 DEF OutcomeInv
<1>11. QED BY <1>2, <1>3, <1>4, <1>5, <1>6, <1>8, <1>9, <1>10 DEF Inv

LEMMA NextKept == Inv /\ [Next]_vars => Inv'
<1> SUFFICES ASSUME Inv, [Next]_vars PROVE Inv'
  OBVIOUS
<1> USE DEF Inv
<1>1. CASE Outside
  <2>1. FlightInv'
    BY <1>1, OutsideFrame DEF FlightInv, Key
  <2>2. QED BY <1>1, <2>1, OutsideTypes, OutsidePlaces, OutsideStops, OutsideWork, OutsideStored,
       OutsideAsked, OutsideOutcome
<1>2. ASSUME NEW w \in Workers, WorkerStep(w) PROVE Inv'
  BY <1>2, WorkerTypes, WorkerPlaces, WorkerStops, WorkerWork, FlightKept, WorkerStored,
     WorkerAsked, WorkerOutcome
<1>3. QED BY <1>1, <1>2, StepCases

THEOREM InvHolds == Spec => []Inv
<1>1. Init => Inv
  BY InitInv
<1>2. Inv /\ [Next]_vars => Inv'
  BY NextKept
<1>3. QED BY <1>1, <1>2, PTL DEF Spec

(* The stream keeps its types; neither channel ever holds more than its    *)
(* capacity.                                                               *)
THEOREM TypeCorrect == Spec => []TypeOK
BY InvHolds, PTL DEF Inv

(* stream returns nil only if everything that was yielded was accepted and *)
(* handled, once: an accepted finding is always in one place, and at the   *)
(* end no place is left but the handler's.                                 *)
THEOREM NilIsDelivered == Spec => []NilMeansDelivered
<1>1. Inv => NilMeansDelivered
  <2> SUFFICES ASSUME Inv, main = "returned", verdict = {}, NEW f \in Findings
               PROVE  /\ call[f] \in {"ready", "accepted"}
                      /\ delivered[f] = (IF call[f] = "accepted" THEN 1 ELSE 0)
    BY DEF NilMeansDelivered
  <2> USE DEF Inv
  <2>1. results = <<>> /\ Closed /\ Errors = {}
    BY DEF StopInv
  <2>2. ~RunDone /\ ~prodErr
    BY <2>1 DEF Errors, RunDone
  <2>3. Pending = {} /\ ~Refused /\ (\A w \in Workers : pc[w] = "exited")
    BY <2>1, <2>2 DEF StopInv, Closed
  <2>4. jobs = <<>>
    BY <2>3, WorkersAssumption DEF StopInv
  <2>5. ~Queued(f) /\ ~Listed(f)
    BY <2>1, <2>4 DEF Queued, Listed, Range
  <2>6. ~WorkedOn(f)
    BY <2>3, FindingsAssumption DEF WorkedOn, PlaceInv, JobsInv, Idle
  <2>7. call[f] \in {"ready", "accepted"}
    BY <2>3 DEF Pending, Refused, TypeOK
  <2>8. PlaceOf(f) /\ delivered[f] \in Nat
    BY DEF PlaceInv, TypeOK
  <2>9. QED BY <2>2, <2>5, <2>6, <2>7, <2>8 DEF PlaceOf
<1>2. QED BY <1>1, InvHolds, PTL

(* Nobody sends on the closed channel, and stream returns after all the    *)
(* others have stopped.                                                    *)
THEOREM NobodyLeftRunning == Spec => []NothingLeftRunning
<1>1. Inv => NothingLeftRunning
  BY DEF Inv, StopInv, NothingLeftRunning, Closed
<1>2. QED BY <1>1, InvHolds, PTL

(* What is reported of a finding is the best answer to all of its          *)
(* combinations, and nothing is that was found only because the scan was   *)
(* being stopped.                                                          *)
THEOREM VerdictsEarned == Spec => []VerdictEarned
<1>1. Inv => VerdictEarned
  <2> SUFFICES ASSUME Inv, NEW f \in Delivered
               PROVE  ~outcome[f].cut /\ Earned(f)
    BY DEF VerdictEarned, Earned
  <2>1. f \in Findings /\ Resolved(f) /\ delivered[f] > 0
    BY DEF Delivered, Resolved
  <2>2. QED BY <2>1 DEF Inv, OutcomeInv
<1>2. QED BY <1>1, InvHolds, PTL

(* Findings that share a credential agree on it, unless Debug leaves out   *)
(* the caches; and with it and without, no finding makes the provider be   *)
(* asked twice about the same one.                                         *)
THEOREM AnswersAgree == Spec => []AnswersShared
<1>1. Inv => AnswersShared
  <2> SUFFICES ASSUME Inv PROVE AnswersShared
    OBVIOUS
  <2>1. ASSUME NEW f \in Delivered, NEW g \in Delivered,
               NEW i \in DOMAIN outcome[f].tried, NEW j \in DOMAIN outcome[g].tried,
               outcome[f].tried[i].key = outcome[g].tried[j].key,
               "error" \notin {outcome[f].tried[i].status, outcome[g].tried[j].status}
        PROVE  debug \/ outcome[f].tried[i].status = outcome[g].tried[j].status
    <3>1. f \in Findings /\ g \in Findings /\ Resolved(f) /\ Resolved(g)
      BY DEF Delivered, Resolved
    <3>2. Stored(outcome[f].tried[i]) /\ Stored(outcome[g].tried[j])
      BY <3>1 DEF Inv, StoreInv
    <3>3. QED BY <2>1, <3>2 DEF Stored
  <2>2. \A f \in Findings, k \in Keys : asked[f][k] <= 1
    BY DEF Inv, AskedInv
  <2>3. QED BY <2>1, <2>2 DEF AnswersShared
<1>2. QED BY <1>1, InvHolds, PTL

(* The handler is not called again after it has failed.                    *)
THEOREM HandlerStopsForGood == Spec => StopIsFinal
<1>1. [Next]_vars => [handlerErr => delivered' = delivered]_vars
  <2> SUFFICES ASSUME [Next]_vars, handlerErr PROVE delivered' = delivered
    OBVIOUS
  <2>1. ASSUME NEW w \in Workers, WorkerStep(w) PROVE delivered' = delivered
    BY <2>1, WorkerFrame
  <2>2. CASE Outside
    BY <2>2 DEF Outside, Cancel, SourceStep, EndProduce, CloseResults, MainStep, Receive, Handle,
       Return, vars, caller, YieldStep, CallYield, EmitDirect, Submit, RunDone
  <2>3. QED BY <2>1, <2>2, StepCases
<1>2. QED BY <1>1, PTL DEF Spec, StopIsFinal
=============================================================================
