---------------------------- MODULE AnalyzeStream ----------------------------
(***************************************************************************)
(* analyze/analyzer.go: Analyzer.stream, with the worker pool of           *)
(* internal/provider/pool.go that it runs.                                 *)
(*                                                                         *)
(* A producer yields findings, possibly concurrently, and the pool's       *)
(* workers ask the provider about each: once for every combination of its  *)
(* components. The goroutine that called stream gives the results to the   *)
(* handler, one at a time.                                                 *)
(*                                                                         *)
(* The pool's result cache is taken as ResultCache describes it: one       *)
(* computation for each key at a time, whose failures are not stored. Of   *)
(* the statuses, "revoked" and "unknown" are left out: they are treated as *)
(* "invalid" is. An enrichment is abstracted to whether it succeeded. With *)
(* Options.Debug the pool's caches are left out: every worker asks for     *)
(* itself, and what it learns is kept for its finding alone.               *)
(***************************************************************************)
EXTENDS Naturals, FiniteSets, SequencesExt

CONSTANTS
  Findings, Workers, Keys,
  Kinds,     (* what the findings may be: functions to "direct" (its rule   *)
             (* has no validation), "validated" or "bad" (an unknown rule,  *)
             (* a program that does not compile, an invalid credential)     *)
  Debugged,  (* those of Kinds that are also analysed with Options.Debug    *)
  Sets,      (* the cache keys of its combinations, in order                *)
  Truncated, (* the findings with more combinations than were kept          *)
  Verdicts,  (* what a provider may answer                                  *)
  QueuedJobs, (* capacity of the job channel                                *)
  NoFinding, NoWorker

ASSUME WorkersAssumption ==
  /\ IsFiniteSet(Workers) /\ Workers # {} /\ NoWorker \notin Workers
  /\ QueuedJobs \in Nat \ {0}
ASSUME FindingsAssumption ==
  /\ NoFinding \notin Findings
  /\ Kinds \subseteq [Findings -> {"direct", "validated", "bad"}]
  /\ Sets \in [Findings -> Seq(Keys)]
  /\ \A f \in Findings : (\E k \in Kinds : k[f] = "validated") => Sets[f] # <<>>
  /\ Debugged \subseteq Kinds /\ Truncated \subseteq Findings
  /\ Verdicts \subseteq {"valid", "needs", "invalid", "error"}

VARIABLES
  kind,        (* what each finding is                                      *)
  debug,       (* the pool's Debug                                          *)
  call,        (* call[f]: the yield of finding f                           *)
  jobs,        (* the pool's queue                                          *)
  pc, job,     (* the workers, and the finding each works on                *)
  answers,     (* what a worker has learnt about the combinations so far    *)
  cut,         (* one of these answers failed for the cancellation          *)
  store,       (* the validation cache: "none" or a status                  *)
  enriched,    (* the keys in the analysis cache                            *)
  flight,      (* who asks about a key at the moment                        *)
  asked,       (* how often a finding made the provider be asked about a    *)
               (* key, up to "twice or more"                                *)
  outcome,     (* what a finding is resolved to                             *)
  results,     (* the results channel                                       *)
  prod,        (* the producer goroutine                                    *)
  prodErr,     (* the producer's error                                      *)
  main,        (* the goroutine that called stream                          *)
  current,     (* the finding its handler is called with                    *)
  handlerErr,
  ctxDone,     (* the caller's context is cancelled                         *)
  delivered,   (* the handler calls made for each finding                   *)
  verdict      (* the errors that stream returned                           *)

setting == <<kind, debug>>
pool   == <<jobs, pc, job, answers, cut>>
cache  == <<store, enriched, flight, asked>>
source == <<call, prod, prodErr>>
caller == <<main, current, handlerErr, delivered, verdict>>
vars == <<setting, source, pool, cache, outcome, results, caller, ctxDone>>

Statuses == {"valid", "needs", "invalid", "error"}
Priority == [valid |-> 6, needs |-> 5, invalid |-> 2, error |-> 1]
Answer   == [key : Keys, status : Statuses, enriched : BOOLEAN]

(* runCtx: handlerErr and cancel() go together.                            *)
RunDone == ctxDone \/ handlerErr
Closed  == prod = "closed"

Pending == {f \in Findings : call[f] \in {"emitting", "submitting"}}

Outcome == [status : Statuses, enriched : BOOLEAN, kept : SUBSET Answer, tried : Seq(Answer),
            cut : BOOLEAN]
Unresolved == [status |-> "none", enriched |-> FALSE, kept |-> {}, tried |-> <<>>, cut |-> FALSE]

TypeOK ==
  /\ kind \in Kinds /\ debug \in BOOLEAN
  /\ call \in [Findings -> {"ready", "emitting", "submitting", "accepted", "refused"}]
  /\ jobs \in Seq(Findings) /\ Len(jobs) <= QueuedJobs
  /\ pc \in [Workers -> {"next", "ask", "provider", "waiting", "enrich", "emit", "exited"}]
  /\ job \in [Workers -> Findings \cup {NoFinding}]
  /\ answers \in [Workers -> Seq(Answer)] /\ cut \in [Workers -> BOOLEAN]
  /\ store \in [Keys -> Statuses \cup {"none"}] /\ enriched \subseteq Keys
  /\ flight \in [Keys -> Workers \cup {NoWorker}]
  /\ asked \in [Findings -> [Keys -> 0 .. 2]]
  /\ outcome \in [Findings -> Outcome \cup {Unresolved}]
  /\ results \in Seq(Findings) /\ Len(results) <= Cardinality(Workers)
  /\ prod \in {"producing", "closing", "closed"} /\ prodErr \in BOOLEAN
  /\ main \in {"receive", "handling", "returned"} /\ current \in Findings \cup {NoFinding}
  /\ handlerErr \in BOOLEAN /\ ctxDone \in BOOLEAN
  /\ delivered \in [Findings -> Nat]
  /\ verdict \subseteq {"handler", "producer", "ctx"}

Init ==
  /\ kind \in Kinds /\ debug \in BOOLEAN /\ (debug => kind \in Debugged)
  /\ call = [f \in Findings |-> "ready"] /\ jobs = <<>>
  /\ pc = [w \in Workers |-> "next"] /\ job = [w \in Workers |-> NoFinding]
  /\ answers = [w \in Workers |-> <<>>] /\ cut = [w \in Workers |-> FALSE]
  /\ store = [k \in Keys |-> "none"] /\ enriched = {}
  /\ flight = [k \in Keys |-> NoWorker]
  /\ asked = [f \in Findings |-> [k \in Keys |-> 0]]
  /\ outcome = [f \in Findings |-> Unresolved] /\ results = <<>>
  /\ prod = "producing" /\ prodErr = FALSE
  /\ main = "receive" /\ current = NoFinding /\ handlerErr = FALSE /\ ctxDone = FALSE
  /\ delivered = [f \in Findings |-> 0] /\ verdict = {}

Cancel ==
  /\ main # "returned" /\ ~ctxDone /\ ctxDone' = TRUE
  /\ UNCHANGED <<setting, source, pool, cache, outcome, results, caller>>

-----------------------------------------------------------------------------
(* The producer. It stops once one of its yields was refused.              *)

Refused == \E f \in Findings : call[f] = "refused"

(* The yield callback, up to the channel it sends on.                      *)
CallYield(f) ==
  /\ prod = "producing" /\ call[f] = "ready" /\ ~Refused
  /\ call' = [call EXCEPT ![f] = IF RunDone \/ kind[f] = "bad" THEN "refused"
                                 ELSE IF kind[f] = "direct" THEN "emitting" ELSE "submitting"]
  /\ UNCHANGED <<prod, prodErr, pool, cache, outcome, results, caller, ctxDone>>

(* emit: a select between the results and the context.                     *)
HasRoom == Len(results) < Cardinality(Workers)

EmitDirect(f) ==
  /\ call[f] = "emitting"
  /\ \/ /\ HasRoom /\ results' = Append(results, f)
        /\ call' = [call EXCEPT ![f] = "accepted"]
     \/ RunDone /\ call' = [call EXCEPT ![f] = "refused"] /\ UNCHANGED results
  /\ UNCHANGED <<prod, prodErr, pool, cache, outcome, caller, ctxDone>>

(* SubmitWithAnalysisContext: a select between the jobs and the context.   *)
Submit(f) ==
  /\ call[f] = "submitting"
  /\ \/ /\ Len(jobs) < QueuedJobs /\ jobs' = Append(jobs, f)
        /\ call' = [call EXCEPT ![f] = "accepted"]
     \/ RunDone /\ call' = [call EXCEPT ![f] = "refused"] /\ UNCHANGED jobs
  /\ UNCHANGED <<prod, prodErr, pc, job, answers, cut, cache, outcome, results, caller, ctxDone>>

(* produce returns, and propagates a refusal; it may fail by itself.       *)
EndProduce ==
  /\ prod = "producing" /\ Pending = {}
  /\ prod' = "closing"
  /\ prodErr' \in (IF Refused THEN {TRUE} ELSE BOOLEAN)
  /\ UNCHANGED <<call, pool, cache, outcome, results, caller, ctxDone>>

(* Mutant: pool.Close does not wait for the workers.                       *)
CloseResultsEarly ==
  /\ prod = "closing" /\ prod' = "closed"
  /\ UNCHANGED <<call, prodErr, pool, cache, outcome, results, caller, ctxDone>>

(* pool.Close returns, and the results are closed.                         *)
CloseResults ==
  /\ prod = "closing" /\ \A w \in Workers : pc[w] = "exited"
  /\ prod' = "closed"
  /\ UNCHANGED <<call, prodErr, pool, cache, outcome, results, caller, ctxDone>>

-----------------------------------------------------------------------------
(* The workers.                                                            *)

TakeJob(w) ==
  /\ pc[w] = "next" /\ jobs # <<>>
  /\ job' = [job EXCEPT ![w] = Head(jobs)] /\ jobs' = Tail(jobs)
  /\ pc' = [pc EXCEPT ![w] = "ask"]
  /\ UNCHANGED <<answers, cut, source, cache, outcome, results, caller, ctxDone>>

Exit(w) ==
  /\ pc[w] = "next" /\ jobs = <<>> /\ prod # "producing"
  /\ pc' = [pc EXCEPT ![w] = "exited"]
  /\ UNCHANGED <<jobs, job, answers, cut, source, cache, outcome, results, caller, ctxDone>>

(* The combination a worker is at.                                         *)
Key(w) == Sets[job[w]][Len(answers[w]) + 1]

(* A worker of ws has the status of its combination: the enrichment of a   *)
(* valid one follows, or the next combination, or the end of the job.      *)
After(w, status) ==
  IF status = "valid" THEN "enrich"
  ELSE IF Len(answers[w]) + 1 < Len(Sets[job[w]]) THEN "ask" ELSE "emit"

Learn(ws, status) ==
  /\ answers' = [w \in Workers |-> IF w \notin ws THEN answers[w] ELSE
       Append(answers[w], [key |-> Key(w), status |-> status, enriched |-> FALSE])]
  /\ pc' = [w \in Workers |-> IF w \in ws THEN After(w, status) ELSE pc[w]]

(* Mutant: without validationResults.                                      *)
KnownNothing(w) == {}

(* validationResults: what earlier combinations of the finding have shown. *)
Known(w) == {answers[w][i].status : i \in {j \in DOMAIN answers[w] : answers[w][j].key = Key(w)}}

Recall(w) ==
  /\ pc[w] = "ask"
  /\ \/ \E status \in Known(w) : Learn({w}, status)
     \/ Known(w) = {} /\ store[Key(w)] # "none" /\ Learn({w}, store[Key(w)])
  /\ UNCHANGED <<jobs, job, cut, source, cache, outcome, results, caller, ctxDone>>

(* evalWithCacheKey: asks the provider, or waits for a worker that does.   *)
(* With Debug nobody is waited for.                                        *)
Ask(w) ==
  /\ pc[w] = "ask" /\ Known(w) = {} /\ store[Key(w)] = "none"
  /\ IF flight[Key(w)] # NoWorker
     THEN pc' = [pc EXCEPT ![w] = "waiting"] /\ UNCHANGED <<flight, asked>>
     ELSE /\ flight' = IF debug THEN flight ELSE [flight EXCEPT ![Key(w)] = w]
          /\ asked' = [asked EXCEPT ![job[w]][Key(w)] = IF @ = 0 THEN 1 ELSE 2]
          /\ pc' = [pc EXCEPT ![w] = "provider"]
  /\ UNCHANGED <<jobs, job, answers, cut, source, store, enriched, outcome, results, caller,
                 ctxDone>>

Sharing(w) == {w} \cup {v \in Workers : pc[v] = "waiting" /\ Key(v) = Key(w)}

(* Mutant: statuses are not kept for later findings.                       *)
RespondForgets(w) ==
  /\ pc[w] = "provider"
  /\ \E status \in Verdicts : Learn(Sharing(w), status)
  /\ cut' = cut /\ store' = store
  /\ flight' = [flight EXCEPT ![Key(w)] = NoWorker]
  /\ UNCHANGED <<jobs, job, source, enriched, asked, outcome, results, caller, ctxDone>>

(* Mutant: an error is retried until the provider has an answer.           *)
RespondRetries(w) ==
  /\ pc[w] = "provider"
  /\ \E status \in Verdicts :
       IF status = "error" THEN pc' = [pc EXCEPT ![w] = "ask"] /\ UNCHANGED <<answers, store>>
       ELSE Learn(Sharing(w), status)
            /\ store' = IF debug THEN store ELSE [store EXCEPT ![Key(w)] = status]
  /\ flight' = [flight EXCEPT ![Key(w)] = NoWorker]
  /\ UNCHANGED <<jobs, job, cut, source, enriched, asked, outcome, results, caller, ctxDone>>

(* The program ends: with a status, or with an error, be it the provider's *)
(* or that of the cancelled context. All but errors are stored.            *)
Respond(w) ==
  /\ pc[w] = "provider"
  /\ \E status \in Verdicts :
       /\ Learn(Sharing(w), status)
       /\ store' = IF debug \/ status = "error" THEN store ELSE [store EXCEPT ![Key(w)] = status]
       /\ cut' = [v \in Workers |-> cut[v] \/ (v \in Sharing(w) /\ status = "error" /\ RunDone)]
  /\ flight' = [flight EXCEPT ![Key(w)] = NoWorker]
  /\ UNCHANGED <<jobs, job, source, enriched, asked, outcome, results, caller, ctxDone>>

(* The enrichment of a valid credential: a success is stored, a failure    *)
(* leaves the status alone.                                                *)
Enrich(w) ==
  /\ pc[w] = "enrich"
  /\ LET n == Len(answers[w])
         k == answers[w][n].key IN
     \/ /\ answers' = [answers EXCEPT ![w][n].enriched = TRUE]
        /\ enriched' = (IF debug THEN enriched ELSE enriched \cup {k}) /\ UNCHANGED cut
     \/ /\ k \notin enriched
        /\ cut' = [cut EXCEPT ![w] = @ \/ RunDone]
        /\ UNCHANGED <<answers, enriched>>
  /\ pc' = [pc EXCEPT ![w] = IF Len(answers[w]) < Len(Sets[job[w]]) THEN "ask" ELSE "emit"]
  /\ UNCHANGED <<jobs, job, source, store, flight, asked, outcome, results, caller, ctxDone>>

(* Mutant: the weaker of two statuses is preferred.                        *)
BetterWeak(chosen, candidate) ==
  IF candidate.status # chosen.status
  THEN Priority[candidate.status] < Priority[chosen.status]
  ELSE candidate.enriched /\ ~chosen.enriched

(* betterAnalysis                                                          *)
Better(chosen, candidate) ==
  IF candidate.status # chosen.status
  THEN Priority[candidate.status] > Priority[chosen.status]
  ELSE candidate.enriched /\ ~chosen.enriched

(* The finding gets one whole result, than which none is better; the       *)
(* combinations that failed are dropped when one is valid; a search that   *)
(* was cut short proves nothing.                                           *)
Resolve(f, tried, wasCut) ==
  LET all  == Range(tried)
      best == CHOOSE a \in all : \A b \in all : ~Better(a, b)
      works == {a \in all : a.status = "valid"}
  IN [status |-> IF f \in Truncated /\ best.status # "valid" THEN "needs" ELSE best.status,
      enriched |-> best.enriched,
      kept |-> IF works # {} THEN works ELSE all,
      tried |-> tried, cut |-> wasCut]

(* Mutant: a result that finds no room is dropped.                         *)
EmitIfRoom(w) ==
  /\ pc[w] = "emit"
  /\ results' = IF HasRoom THEN Append(results, job[w]) ELSE results
  /\ outcome' = [outcome EXCEPT ![job[w]] = Resolve(job[w], answers[w], cut[w])]
  /\ pc' = [pc EXCEPT ![w] = "next"] /\ job' = [job EXCEPT ![w] = NoFinding]
  /\ answers' = [answers EXCEPT ![w] = <<>>] /\ cut' = [cut EXCEPT ![w] = FALSE]
  /\ UNCHANGED <<jobs, source, cache, caller, ctxDone>>

(* Emit: a select as for direct findings, but the result may be dropped.   *)
EmitResult(w) ==
  /\ pc[w] = "emit"
  /\ \/ /\ HasRoom /\ results' = Append(results, job[w])
        /\ outcome' = [outcome EXCEPT ![job[w]] = Resolve(job[w], answers[w], cut[w])]
     \/ RunDone /\ UNCHANGED <<results, outcome>>
  /\ pc' = [pc EXCEPT ![w] = "next"] /\ job' = [job EXCEPT ![w] = NoFinding]
  /\ answers' = [answers EXCEPT ![w] = <<>>] /\ cut' = [cut EXCEPT ![w] = FALSE]
  /\ UNCHANGED <<jobs, source, cache, caller, ctxDone>>

-----------------------------------------------------------------------------
(* The caller of stream.                                                   *)

(* Mutant: results are handled although the stream is being stopped.       *)
ReceiveAlways ==
  /\ main = "receive" /\ results # <<>>
  /\ results' = Tail(results)
  /\ main' = "handling" /\ current' = Head(results)
  /\ delivered' = [delivered EXCEPT ![Head(results)] = @ + 1]
  /\ UNCHANGED <<source, pool, cache, outcome, handlerErr, verdict, ctxDone>>

(* for finding := range results, up to the handler.                        *)
Receive ==
  /\ main = "receive" /\ results # <<>>
  /\ results' = Tail(results)
  /\ IF RunDone THEN UNCHANGED <<main, current, delivered>>
     ELSE /\ main' = "handling" /\ current' = Head(results)
          /\ delivered' = [delivered EXCEPT ![Head(results)] = @ + 1]
  /\ UNCHANGED <<source, pool, cache, outcome, handlerErr, verdict, ctxDone>>

(* The handler returns; its error also cancels everything.                 *)
Handle ==
  /\ main = "handling"
  /\ main' = "receive" /\ current' = NoFinding
  /\ handlerErr' \in BOOLEAN
  /\ UNCHANGED <<source, pool, cache, outcome, results, delivered, verdict, ctxDone>>

(* errors.Join(handlerErr, producerErr, ctx.Err())                         *)
Errors == {e \in {"handler", "producer", "ctx"} :
             \/ e = "handler" /\ handlerErr
             \/ e = "producer" /\ prodErr
             \/ e = "ctx" /\ ctxDone}

(* Mutant: the loop ends at the handler's error, without draining.         *)
ReturnAtError ==
  /\ main = "receive" /\ (handlerErr \/ (results = <<>> /\ Closed))
  /\ main' = "returned" /\ verdict' = Errors
  /\ UNCHANGED <<source, pool, cache, outcome, results, current, handlerErr, delivered, ctxDone>>

Return ==
  /\ main = "receive" /\ results = <<>> /\ Closed
  /\ main' = "returned" /\ verdict' = Errors
  /\ UNCHANGED <<source, pool, cache, outcome, results, current, handlerErr, delivered, ctxDone>>

-----------------------------------------------------------------------------
YieldStep(f) == (EmitDirect(f) \/ Submit(f)) /\ UNCHANGED setting
SourceStep   == (EndProduce \/ CloseResults) /\ UNCHANGED setting
MainStep     == (Receive \/ Handle \/ Return) /\ UNCHANGED setting
WorkerStep(w) ==
  /\ \/ TakeJob(w) \/ Exit(w) \/ Recall(w) \/ Ask(w) \/ Respond(w) \/ Enrich(w)
     \/ EmitResult(w)
  /\ UNCHANGED setting

Finished == main = "returned" /\ UNCHANGED vars

Next ==
  \/ Cancel \/ SourceStep \/ MainStep \/ Finished
  \/ \E f \in Findings : (CallYield(f) /\ UNCHANGED setting) \/ YieldStep(f)
  \/ \E w \in Workers : WorkerStep(w)

Spec == Init /\ [][Next]_vars

(* The producer ends, the handler returns, every provider request ends (it *)
(* has a timeout), and Go schedules every runnable goroutine.              *)
FairSpec ==
  /\ Spec /\ WF_vars(SourceStep) /\ WF_vars(MainStep)
  /\ \A f \in Findings : WF_vars(YieldStep(f))
  /\ \A w \in Workers : WF_vars(WorkerStep(w))
-----------------------------------------------------------------------------
(* A nil error: nothing that was yielded has been refused, and all of it   *)
(* has been handled, each finding once.                                    *)
NilMeansDelivered ==
  main = "returned" /\ verdict = {} => \A f \in Findings :
    /\ call[f] \in {"ready", "accepted"}
    /\ delivered[f] = (IF call[f] = "accepted" THEN 1 ELSE 0)

(* Nobody sends on the closed results channel, and stream "waits for them  *)
(* to stop" (the comment on AnalyzeStream): it returns after that.         *)
NothingLeftRunning ==
  /\ Closed => Pending = {} /\ \A w \in Workers : pc[w] = "exited"
  /\ main = "returned" => Closed

(* After the handler has failed it is never called again.                  *)
StopIsFinal == [][handlerErr => delivered' = delivered]_vars

Delivered == {f \in Findings : delivered[f] > 0 /\ kind[f] = "validated"}

(* What is reported is the best of all combinations, and describes one of  *)
(* those that are listed with it: "valid" if and only if one works, never  *)
(* "invalid" or "error" when the search for one was cut short, and nothing *)
(* that was found only because the scan was being stopped when the         *)
(* provider was asked.                                                     *)
VerdictEarned ==
  \A f \in Delivered :
    LET o == outcome[f] IN
    /\ ~o.cut
    /\ Len(o.tried) = Len(Sets[f])
    /\ o.status = "valid" <=> \E i \in DOMAIN o.tried : o.tried[i].status = "valid"
    /\ \/ \E a \in o.kept : a.status = o.status /\ a.enriched = o.enriched
       \/ f \in Truncated /\ o.status = "needs" /\ ~o.enriched
    /\ f \in Truncated => o.status \in {"valid", "needs"}

(* Findings of one stream that share a credential agree on its status,     *)
(* unless the provider could not be asked, or Debug bypasses the caches;   *)
(* with Debug too, "repeated locations of the same component combination   *)
(* share even failures within this finding" (the comment in                *)
(* resolveAnalysis), so that no finding asks twice about one key.          *)
AnswersShared ==
  /\ ~debug => \A f, g \in Delivered :
       \A i \in DOMAIN outcome[f].tried, j \in DOMAIN outcome[g].tried :
         LET x == outcome[f].tried[i]
             y == outcome[g].tried[j] IN
         x.key = y.key /\ "error" \notin {x.status, y.status} => x.status = y.status
  /\ \A f \in Findings, k \in Keys : asked[f][k] <= 1

(* stream returns, whoever fails and whenever it is cancelled.             *)
Returns == <>(main = "returned")
=============================================================================
