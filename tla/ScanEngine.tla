----------------------------- MODULE ScanEngine -----------------------------
(***************************************************************************)
(* The concurrent core of scan/scanner.go: Scanner.Scan, Scanner.run and   *)
(* Scanner.ScanString on ONE Scanner, whose worker semaphore every call    *)
(* shares.                                                                 *)
(*                                                                         *)
(* One scan has three kinds of goroutines:                                 *)
(*   - the source, which calls yield (possibly concurrently), and then the *)
(*     producer, which waits for the workers, reports the source's error   *)
(*     and closes the results channel;                                     *)
(*   - one worker per accepted fragment, which detects while it holds a    *)
(*     permit of the shared semaphore and then publishes its result;       *)
(*   - the consumer (the caller of Scan), which takes results off the      *)
(*     channel and calls the handler, one finding at a time.               *)
(* A handler may itself call Scan or ScanString on the same Scanner.       *)
(*                                                                         *)
(* What a fragment contains is abstracted to the number of findings that   *)
(* detection reports in it.                                                *)
(***************************************************************************)
EXTENDS Naturals, FiniteSets, SequencesExt

CONSTANTS
  Scans,      (* the calls of Scan                                          *)
  Callers,    (* the calls of ScanString                                    *)
  Yields,     (* the calls of yield a source can make                       *)
  SourceEnd,  (* the producer's own report, after the source has returned   *)
  NoParent,   (* the parent of a call that no handler starts                *)
  Parent,     (* the scan whose handler starts a call, or NoParent          *)
  Workers,    (* Scanner.workers: semaphore size and both channel bounds    *)
  Offers      (* what the sources may offer: functions [Yields -> Item]     *)

(* An offered item: a fragment with its findings, a fragment on which      *)
(* detection fails (a regex that does not compile) after some findings, an *)
(* empty fragment, a yielded source error, or a yielded cancellation.      *)
Kinds == {"fragment", "broken", "empty", "error", "canceled"}
Item  == [kind : Kinds, found : Nat]

ASSUME WorkersAssumption == Workers \in Nat \ {0}
ASSUME CallsAssumption ==
  /\ IsFiniteSet(Yields) /\ IsFiniteSet(Scans) /\ IsFiniteSet(Callers)
  /\ SourceEnd \notin Yields
  /\ (Scans \X Yields) \cap Callers = {}
  /\ NoParent \notin Scans
  /\ Parent \in [Scans \cup Callers -> Scans \cup {NoParent}]
ASSUME OffersAssumption == Offers \subseteq [Scans -> [Yields -> Item]]

Parties == Yields \cup {SourceEnd}     \* who can send on resultsCh
Tasks   == (Scans \X Yields) \cup Callers \* who can hold a semaphore permit

VARIABLES
  offer,      (* offer[s][y]: the item of yield call y                      *)
  pc,         (* pc[s][p]: the yield call and, once accepted, its worker    *)
  result,     (* result[s][p]: what party p sends or has sent               *)
  queue,      (* queue[s]: resultsCh, a buffered channel of senders         *)
  slots,      (* slots[s]: tokens in resultSlots                            *)
  held,       (* the tasks that hold a permit of Scanner.workerSlots        *)
  waiters,    (* the semaphore's FIFO of blocked Acquire calls              *)
  src,        (* src[s]: the producer goroutine                             *)
  srcErr,     (* srcErr[s]: the classes of errors the source returned       *)
  con,        (* con[s]: the consumer                                       *)
  cur,        (* cur[s]: the party whose result the consumer is at          *)
  left,       (* left[s]: findings of that result not yet handled           *)
  handled,    (* handled[s][y]: handler calls made for y's findings         *)
  scanErr,    (* scanErr[s]: the classes of errors joined in Scan's result  *)
  ctxDone,    (* ctxDone[s]: the caller's context is cancelled              *)
  canceled,   (* canceled[s]: run's own cancel() was called                 *)
  call        (* call[c]: the ScanString call c                             *)

calls   == <<pc, result, queue, slots>>
sem     == <<held, waiters>>
source  == <<src, srcErr>>
consume == <<con, cur, left, handled, scanErr, canceled>>
vars == <<offer, calls, sem, source, consume, ctxDone, call>>

Results == [found : Nat, err : {"none", "source", "detect"}]

(* Mutant: any error of the source counts as a stop.                       *)
IsPipelineStopAny(errs) == errs # {}

(* isPipelineStop: errors.Is(err, errStopScan) || errors.Is(err, Canceled). *)
IsPipelineStop(errs) == "stop" \in errs

(* runCtx is derived from the caller's context. *)
RunDone(s) == ctxDone[s] \/ canceled[s]

TypeOK ==
  /\ offer \in [Scans -> [Yields -> Item]]
  /\ pc \in [Scans -> [Parties -> {"ready", "reserving", "reserved", "acquiring",
       "detecting", "publishing", "sent", "skipped", "refused"}]]
  /\ result \in [Scans -> [Parties -> Results]]
  /\ queue \in [Scans -> Seq(Parties)]
  /\ slots \in [Scans -> Nat]
  /\ held \subseteq Tasks
  /\ waiters \in Seq(Tasks)
  /\ src \in [Scans -> {"idle", "fragments", "waiting", "reporting", "closed"}]
  /\ srcErr \in [Scans -> SUBSET {"stop", "fail"}]
  /\ con \in [Scans -> {"idle", "receive", "release", "handle", "calling",
                        "drain", "drainRelease", "done"}]
  /\ cur \in [Scans -> Parties]
  /\ left \in [Scans -> Nat]
  /\ handled \in [Scans -> [Parties -> Nat]]
  /\ scanErr \in [Scans -> SUBSET {"source", "detect", "handler", "ctx"}]
  /\ ctxDone \in [Scans -> BOOLEAN]
  /\ canceled \in [Scans -> BOOLEAN]
  /\ call \in [Callers -> {"idle", "acquiring", "detecting", "done"}]

NoResult == [found |-> 0, err |-> "none"]

Init ==
  /\ offer \in Offers
  /\ pc = [s \in Scans |-> [p \in Parties |-> "ready"]]
  /\ result = [s \in Scans |-> [p \in Parties |-> NoResult]]
  /\ queue = [s \in Scans |-> <<>>]
  /\ slots = [s \in Scans |-> 0]
  /\ held = {}
  /\ waiters = <<>>
  /\ src = [s \in Scans |-> "idle"]
  /\ srcErr = [s \in Scans |-> {}]
  /\ con = [s \in Scans |-> "idle"]
  /\ cur = [s \in Scans |-> SourceEnd]
  /\ left = [s \in Scans |-> 0]
  /\ handled = [s \in Scans |-> [p \in Parties |-> 0]]
  /\ scanErr = [s \in Scans |-> {}]
  /\ ctxDone = [s \in Scans |-> FALSE]
  /\ canceled = [s \in Scans |-> FALSE]
  /\ call = [c \in Callers |-> "idle"]

Goto(s, p, at) == pc' = [pc EXCEPT ![s][p] = at]

(***************************************************************************)
(* The weighted semaphore of golang.org/x/sync, every request for one unit *)
(* (external: modelled from its use). Acquire takes a free permit or joins *)
(* a FIFO; Release hands its permit to the longest waiter.                 *)
(***************************************************************************)
Acquire(t) ==
  IF Cardinality(held) < Workers /\ waiters = <<>>
  THEN held' = held \cup {t} /\ UNCHANGED waiters
  ELSE waiters' = Append(waiters, t) /\ UNCHANGED held

Release(t) ==
  IF waiters = <<>>
  THEN held' = held \ {t} /\ UNCHANGED waiters
  ELSE held' = (held \ {t}) \cup {Head(waiters)} /\ waiters' = Tail(waiters)

Withdraw(t) ==
  /\ \E i \in DOMAIN waiters : waiters[i] = t /\ waiters' = RemoveAt(waiters, i)
  /\ UNCHANGED held

-----------------------------------------------------------------------------
(* Starting calls. A nested call starts only inside its parent's handler.  *)

MayStart(c) == Parent[c] # NoParent => con[Parent[c]] = "calling"

StartScan(s) ==
  /\ con[s] = "idle" /\ MayStart(s)
  /\ con' = [con EXCEPT ![s] = "receive"]
  /\ src' = [src EXCEPT ![s] = "fragments"]
  /\ UNCHANGED <<offer, calls, sem, srcErr, cur, left, handled, scanErr,
                 canceled, ctxDone, call>>

(* The caller cancels its context, at any time.                            *)
CancelCaller(s) ==
  /\ ~ctxDone[s] /\ con[s] # "done"
  /\ ctxDone' = [ctxDone EXCEPT ![s] = TRUE]
  /\ UNCHANGED <<offer, calls, sem, source, consume, call>>

-----------------------------------------------------------------------------
(* The source and run's yield callback.                                    *)

(* The source calls yield for y. A cancellation that is yielded (or a      *)
(* failure joined to one) is refused whether or not runCtx is done: it may *)
(* stem from a context of the source's own.                                *)
BeginYield(s, y) ==
  /\ src[s] = "fragments" /\ pc[s][y] = "ready"
  /\ Goto(s, y, CASE offer[s][y].kind = "empty"    -> "skipped"
                  [] offer[s][y].kind = "canceled" -> "refused"
                  [] OTHER                         -> "reserving")
  /\ UNCHANGED <<offer, result, queue, slots, sem, source, consume, ctxDone, call>>

(* reserveResult: a select between runCtx.Done() and a free result slot.   *)
(* emitError sends as soon as it has its slot; a fragment goes on to the   *)
(* semaphore.                                                              *)
SendsError(s, p) == p = SourceEnd \/ offer[s][p].kind = "error"

(* Mutant: one result slot too many.                                       *)
ReserveSlotOver(s, p) ==
  /\ pc[s][p] = "reserving"
  /\ slots[s] <= Workers
  /\ slots' = [slots EXCEPT ![s] = @ + 1]
  /\ Goto(s, p, IF SendsError(s, p) THEN "publishing" ELSE "reserved")
  /\ result' = [result EXCEPT ![s][p] =
                  IF SendsError(s, p) THEN [found |-> 0, err |-> "source"] ELSE @]
  /\ UNCHANGED <<offer, queue, sem, source, consume, ctxDone, call>>

ReserveSlot(s, p) ==
  /\ pc[s][p] = "reserving"
  /\ slots[s] < Workers
  /\ slots' = [slots EXCEPT ![s] = @ + 1]
  /\ Goto(s, p, IF SendsError(s, p) THEN "publishing" ELSE "reserved")
  /\ result' = [result EXCEPT ![s][p] =
                  IF SendsError(s, p) THEN [found |-> 0, err |-> "source"] ELSE @]
  /\ UNCHANGED <<offer, queue, sem, source, consume, ctxDone, call>>

ReserveStopped(s, p) ==
  /\ pc[s][p] = "reserving"
  /\ RunDone(s)
  /\ Goto(s, p, "refused")
  /\ UNCHANGED <<offer, result, queue, slots, sem, source, consume, ctxDone, call>>

(* s.workerSlots.Acquire(runCtx, 1): a context that is already done wins.  *)
EnterAcquire(s, y) ==
  /\ pc[s][y] = "reserved" /\ ~RunDone(s)
  /\ Acquire(<<s, y>>)
  /\ Goto(s, y, IF <<s, y>> \in held' THEN "detecting" ELSE "acquiring")
  /\ UNCHANGED <<offer, result, queue, slots, source, consume, ctxDone, call>>

(* A blocked Acquire finds its permit granted, with the context still      *)
(* live: the worker starts and yield returns nil.                          *)
Granted(s, y) ==
  /\ pc[s][y] = "acquiring" /\ <<s, y>> \in held /\ ~RunDone(s)
  /\ Goto(s, y, "detecting")
  /\ UNCHANGED <<offer, result, queue, slots, sem, source, consume, ctxDone, call>>

(* Mutants: the failed Acquire keeps the result slot, or the permit that    *)
(* was granted together with the cancellation.                             *)
AcquireFailsKeepsSlot(s, y) ==
  /\ RunDone(s) /\ pc[s][y] = "reserved"
  /\ Goto(s, y, "refused")
  /\ UNCHANGED <<offer, result, queue, slots, sem, source, consume, ctxDone, call>>

AcquireFailsKeepsPermit(s, y) ==
  /\ RunDone(s)
  /\ \/ pc[s][y] \in {"reserved", "acquiring"} /\ <<s, y>> \notin Range(waiters) /\ UNCHANGED sem
     \/ pc[s][y] = "acquiring" /\ Withdraw(<<s, y>>)
  /\ Goto(s, y, "refused")
  /\ slots' = [slots EXCEPT ![s] = @ - 1]
  /\ UNCHANGED <<offer, result, queue, source, consume, ctxDone, call>>

(* Acquire fails: before it queues, while it waits, or when the permit was *)
(* granted but the context is done too and the permit goes back. The slot  *)
(* is returned in every case.                                              *)
AcquireFails(s, y) ==
  /\ RunDone(s)
  /\ \/ pc[s][y] = "reserved" /\ UNCHANGED sem
     \/ pc[s][y] = "acquiring" /\ <<s, y>> \notin held /\ Withdraw(<<s, y>>)
     \/ pc[s][y] = "acquiring" /\ <<s, y>> \in held /\ Release(<<s, y>>)
  /\ Goto(s, y, "refused")
  /\ slots' = [slots EXCEPT ![s] = @ - 1]
  /\ UNCHANGED <<offer, result, queue, source, consume, ctxDone, call>>

(* A yield call that has not returned to the source.                       *)
Active(s, y) ==
  \/ pc[s][y] \in {"reserving", "reserved", "acquiring"}
  \/ pc[s][y] = "publishing" /\ offer[s][y].kind = "error"

(* Fragments returns, every yield call having returned, with any errors    *)
(* joined: a failure, errStopScan or a cancellation ("stop"), or both. The *)
(* scanner asks no more of a source than that nil means exhausted, unless  *)
(* a yield call was refused: a refusal need not be propagated, and a       *)
(* cancellation may be returned while runCtx is live.                      *)
SourceReturn(s) ==
  /\ src[s] = "fragments"
  /\ \A y \in Yields : ~Active(s, y)
  /\ \E errs \in SUBSET {"stop", "fail"} :
       /\ errs = {} => \/ \A y \in Yields : pc[s][y] # "ready" \/ offer[s][y].kind = "canceled"
                       \/ \E y \in Yields : pc[s][y] = "refused"
       /\ srcErr' = [srcErr EXCEPT ![s] = errs]
  /\ src' = [src EXCEPT ![s] = "waiting"]
  /\ UNCHANGED <<offer, calls, sem, consume, ctxDone, call>>

(* workers.Wait() returns; the source's own error is reported unless it    *)
(* only says that the pipeline stopped.                                    *)
Working(s, y) == pc[s][y] \in {"detecting", "publishing"}

(* Mutant: the channel is closed without waiting for the workers.          *)
WorkersDoneEarly(s) ==
  /\ src[s] = "waiting"
  /\ src' = [src EXCEPT ![s] = "closed"]
  /\ UNCHANGED <<offer, calls, sem, srcErr, consume, ctxDone, call>>

WorkersDone(s) ==
  /\ src[s] = "waiting"
  /\ \A y \in Yields : ~Working(s, y)
  /\ IF srcErr[s] # {} /\ ~IsPipelineStop(srcErr[s])
     THEN /\ src' = [src EXCEPT ![s] = "reporting"]
          /\ Goto(s, SourceEnd, "reserving")
     ELSE /\ src' = [src EXCEPT ![s] = "closed"]
          /\ UNCHANGED pc
  /\ UNCHANGED <<offer, result, queue, slots, sem, srcErr, consume, ctxDone, call>>

(* The producer's deferred close(resultsCh).                               *)
CloseResults(s) ==
  /\ src[s] = "reporting" /\ pc[s][SourceEnd] \in {"sent", "refused"}
  /\ src' = [src EXCEPT ![s] = "closed"]
  /\ UNCHANGED <<offer, calls, sem, srcErr, consume, ctxDone, call>>

-----------------------------------------------------------------------------
(* The workers.                                                            *)

(* Mutant: the worker ends without releasing its permit.                   *)
DetectKeepsPermit(s, y) ==
  /\ pc[s][y] = "detecting"
  /\ result' = [result EXCEPT ![s][y].found = offer[s][y].found]
  /\ Goto(s, y, "publishing")
  /\ UNCHANGED <<offer, queue, slots, sem, source, consume, ctxDone, call>>

(* detectFragmentWithState ends and the permit is released. A cancelled    *)
(* context breaks detection silently: the findings so far are returned     *)
(* with a nil error. A failing rule ends it with an error and the findings *)
(* so far.                                                                 *)
Detect(s, y) ==
  /\ pc[s][y] = "detecting"
  /\ LET total == offer[s][y].found
     IN \E n \in 0 .. total :
          \E err \in {"none", "detect"} :
            /\ err = "detect" => offer[s][y].kind = "broken"
            /\ err = "none" /\ ~RunDone(s) => offer[s][y].kind = "fragment" /\ n = total
            /\ result' = [result EXCEPT ![s][y] = [found |-> n, err |-> err]]
  /\ Release(<<s, y>>)
  /\ Goto(s, y, "publishing")
  /\ UNCHANGED <<offer, queue, slots, source, consume, ctxDone, call>>

(* resultsCh <- fragmentResult{...}, by a worker, by yield or by the       *)
(* producer. The send is not guarded by the context.                       *)
Publish(s, p) ==
  /\ pc[s][p] = "publishing"
  /\ Len(queue[s]) < Workers
  /\ queue' = [queue EXCEPT ![s] = Append(@, p)]
  /\ Goto(s, p, "sent")
  /\ UNCHANGED <<offer, result, slots, sem, source, consume, ctxDone, call>>

-----------------------------------------------------------------------------
(* The consumer.                                                           *)

(* for result := range resultsCh                                           *)
Receive(s) ==
  /\ con[s] = "receive" /\ queue[s] # <<>>
  /\ cur' = [cur EXCEPT ![s] = Head(queue[s])]
  /\ queue' = [queue EXCEPT ![s] = Tail(@)]
  /\ con' = [con EXCEPT ![s] = "release"]
  /\ UNCHANGED <<offer, pc, result, slots, sem, source, left, handled, scanErr,
                 canceled, ctxDone, call>>

ReleaseSlot(s) ==
  /\ con[s] = "release" /\ slots[s] > 0
  /\ slots' = [slots EXCEPT ![s] = @ - 1]
  /\ left' = [left EXCEPT ![s] = result[s][cur[s]].found]
  /\ con' = [con EXCEPT ![s] = "handle"]
  /\ UNCHANGED <<offer, pc, result, queue, sem, source, cur, handled, scanErr,
                 canceled, ctxDone, call>>

(* The next finding: summary.Findings++ and the handler is called.         *)
CallHandler(s) ==
  /\ con[s] = "handle" /\ left[s] > 0 /\ ~RunDone(s)
  /\ handled' = [handled EXCEPT ![s][cur[s]] = @ + 1]
  /\ con' = [con EXCEPT ![s] = "calling"]
  /\ UNCHANGED <<offer, calls, sem, source, cur, left, scanErr, canceled, ctxDone, call>>

(* The handler returns once the calls it started have returned.            *)
ChildrenReturned(s) ==
  /\ \A t \in Scans : Parent[t] = s => con[t] \in {"idle", "done"}
  /\ \A c \in Callers : Parent[c] = s => call[c] \in {"idle", "done"}

HandlerOK(s) ==
  /\ con[s] = "calling" /\ ChildrenReturned(s)
  /\ left' = [left EXCEPT ![s] = @ - 1]
  /\ con' = [con EXCEPT ![s] = "handle"]
  /\ UNCHANGED <<offer, calls, sem, source, cur, handled, scanErr, canceled, ctxDone, call>>

(* Leaving the loop: the deferred function calls cancel() and drains.      *)
Leave(s, errs) ==
  /\ con' = [con EXCEPT ![s] = "drain"]
  /\ canceled' = [canceled EXCEPT ![s] = TRUE]
  /\ scanErr' = [scanErr EXCEPT ![s] = @ \cup errs]

(* Mutant: the handler's error is joined but the loop goes on.             *)
HandlerFailsGoesOn(s) ==
  /\ con[s] = "calling" /\ ChildrenReturned(s)
  /\ scanErr' = [scanErr EXCEPT ![s] = @ \cup {"handler"}]
  /\ left' = [left EXCEPT ![s] = @ - 1]
  /\ con' = [con EXCEPT ![s] = "handle"]
  /\ UNCHANGED <<offer, calls, sem, source, cur, handled, canceled, ctxDone, call>>

HandlerFails(s) ==
  /\ con[s] = "calling" /\ ChildrenReturned(s)
  /\ Leave(s, {"handler"})
  /\ UNCHANGED <<offer, calls, sem, source, cur, left, handled, ctxDone, call>>

(* runCtx.Err() is checked before every finding.                           *)
StopBetweenFindings(s) ==
  /\ con[s] = "handle" /\ left[s] > 0 /\ RunDone(s)
  /\ Leave(s, {})
  /\ UNCHANGED <<offer, calls, sem, source, cur, left, handled, ctxDone, call>>

(* Mutant: the error of a result is dropped.                               *)
EndResultSilent(s) ==
  /\ con[s] = "handle" /\ left[s] = 0
  /\ con' = [con EXCEPT ![s] = "receive"]
  /\ UNCHANGED <<offer, calls, sem, source, cur, left, handled, scanErr, canceled,
                 ctxDone, call>>

(* After its findings the result's error is joined; a detection failure is *)
(* fatal.                                                                  *)
EndResult(s) ==
  /\ con[s] = "handle" /\ left[s] = 0
  /\ LET err == result[s][cur[s]].err
     IN \/ /\ err = "detect"
           /\ Leave(s, {"detect"})
        \/ /\ err # "detect"
           /\ scanErr' = [scanErr EXCEPT ![s] = @ \cup ({err} \ {"none"})]
           /\ con' = [con EXCEPT ![s] = "receive"]
           /\ UNCHANGED canceled
  /\ UNCHANGED <<offer, calls, sem, source, cur, left, handled, ctxDone, call>>

(* The channel is closed and empty: the loop ends.                         *)
ResultsExhausted(s) ==
  /\ con[s] = "receive" /\ queue[s] = <<>> /\ src[s] = "closed"
  /\ Leave(s, {})
  /\ UNCHANGED <<offer, calls, sem, source, cur, left, handled, ctxDone, call>>

(* for range resultsCh { <-resultSlots }                                   *)
Drain(s) ==
  /\ con[s] = "drain" /\ queue[s] # <<>>
  /\ cur' = [cur EXCEPT ![s] = Head(queue[s])]
  /\ queue' = [queue EXCEPT ![s] = Tail(@)]
  /\ con' = [con EXCEPT ![s] = "drainRelease"]
  /\ UNCHANGED <<offer, pc, result, slots, sem, source, left, handled, scanErr,
                 canceled, ctxDone, call>>

DrainRelease(s) ==
  /\ con[s] = "drainRelease" /\ slots[s] > 0
  /\ slots' = [slots EXCEPT ![s] = @ - 1]
  /\ con' = [con EXCEPT ![s] = "drain"]
  /\ UNCHANGED <<offer, pc, result, queue, sem, source, cur, left, handled,
                 scanErr, canceled, ctxDone, call>>

(* The drain ends with the channel; Scan joins ctx.Err() and returns.      *)
Return(s) ==
  /\ con[s] = "drain" /\ queue[s] = <<>> /\ src[s] = "closed"
  /\ con' = [con EXCEPT ![s] = "done"]
  /\ scanErr' = [scanErr EXCEPT ![s] = @ \cup IF ctxDone[s] THEN {"ctx"} ELSE {}]
  /\ UNCHANGED <<offer, calls, sem, source, cur, left, handled, canceled, ctxDone, call>>

-----------------------------------------------------------------------------
(* ScanString: detectFragment with the background context.                 *)

StartCall(c) ==
  /\ call[c] = "idle" /\ MayStart(c)
  /\ Acquire(c)
  /\ call' = [call EXCEPT ![c] = IF c \in held' THEN "detecting" ELSE "acquiring"]
  /\ UNCHANGED <<offer, calls, source, consume, ctxDone>>

CallGranted(c) ==
  /\ call[c] = "acquiring" /\ c \in held
  /\ call' = [call EXCEPT ![c] = "detecting"]
  /\ UNCHANGED <<offer, calls, sem, source, consume, ctxDone>>

(* Mutant: ScanString returns without its deferred Release.                *)
FinishCallLeaks(c) ==
  /\ call[c] = "detecting"
  /\ call' = [call EXCEPT ![c] = "done"]
  /\ UNCHANGED <<offer, calls, sem, source, consume, ctxDone>>

FinishCall(c) ==
  /\ call[c] = "detecting"
  /\ Release(c)
  /\ call' = [call EXCEPT ![c] = "done"]
  /\ UNCHANGED <<offer, calls, source, consume, ctxDone>>

-----------------------------------------------------------------------------
YieldStep(s, y) == BeginYield(s, y) \/ EnterAcquire(s, y) \/ Granted(s, y)
                   \/ AcquireFails(s, y) \/ Detect(s, y)

PartyStep(s, p) == ReserveSlot(s, p) \/ ReserveStopped(s, p) \/ Publish(s, p)

ProducerStep(s) == SourceReturn(s) \/ WorkersDone(s) \/ CloseResults(s)

ConsumerStep(s) ==
  \/ Receive(s) \/ ReleaseSlot(s) \/ CallHandler(s) \/ HandlerOK(s)
  \/ HandlerFails(s) \/ StopBetweenFindings(s) \/ EndResult(s)
  \/ ResultsExhausted(s) \/ Drain(s) \/ DrainRelease(s) \/ Return(s)

CallerStep(c) == StartCall(c) \/ CallGranted(c) \/ FinishCall(c)

(* Every call that was started has returned, and no handler is left that   *)
(* could start the others.                                                 *)
Quiescent ==
  /\ \A s \in Scans : con[s] = "done" \/ (con[s] = "idle" /\ Parent[s] # NoParent)
  /\ \A c \in Callers : call[c] = "done" \/ (call[c] = "idle" /\ Parent[c] # NoParent)

Finished == Quiescent /\ UNCHANGED vars

Next ==
  \/ \E s \in Scans :
       \/ StartScan(s) \/ CancelCaller(s) \/ ProducerStep(s) \/ ConsumerStep(s)
       \/ \E y \in Yields : YieldStep(s, y)
       \/ \E p \in Parties : PartyStep(s, p)
  \/ \E c \in Callers : CallerStep(c)
  \/ Finished

Spec == Init /\ [][Next]_vars

(***************************************************************************)
(* Fairness. Go schedules every runnable goroutine; detection terminates;  *)
(* handlers return; a source keeps yielding and finally returns. Callers   *)
(* need not start a scan and need not cancel one.                          *)
(***************************************************************************)
Fairness ==
  /\ \A s \in Scans :
       /\ WF_vars(ProducerStep(s))
       /\ WF_vars(ConsumerStep(s))
       /\ \A y \in Yields : WF_vars(YieldStep(s, y))
       /\ \A p \in Parties : WF_vars(PartyStep(s, p))
  /\ \A c \in Callers : WF_vars(CallGranted(c) \/ FinishCall(c))

FairSpec == Spec /\ Fairness
-----------------------------------------------------------------------------
(***************************************************************************)
(* Properties.                                                             *)
(***************************************************************************)

(* Who holds a result slot besides the queued results: a yield call or a   *)
(* worker that has reserved one and has not sent yet.                      *)
Reserved(s) ==
  {p \in Parties : pc[s][p] \in {"reserved", "acquiring", "detecting", "publishing"}}

Popped(s) == IF con[s] \in {"release", "drainRelease"} THEN 1 ELSE 0

(* Every token of resultSlots stands for exactly one reservation, one      *)
(* queued result, or the one result the consumer has just taken: no path   *)
(* through run, cancelled or not, loses a slot or returns it twice.        *)
SlotsAccounted ==
  \A s \in Scans :
    /\ slots[s] = Cardinality(Reserved(s)) + Len(queue[s]) + Popped(s)
    /\ slots[s] <= Workers

(* The two channel operations of run that no context guards never block: a *)
(* party that reached its send finds room in resultsCh, and the consumer   *)
(* finds a token to take from resultSlots.                                 *)
NothingBlocks ==
  \A s \in Scans :
    /\ \A p \in Parties : pc[s][p] = "publishing" => Len(queue[s]) < Workers
    /\ con[s] \in {"release", "drainRelease"} => slots[s] > 0

(* The semaphore's view of a task: what the goroutine that acquires is at. *)
Status(t) == IF t \in Callers THEN call[t] ELSE pc[t[1]][t[2]]

(* The shared semaphore: at most Workers detections at a time over all     *)
(* scans, every permit is held by a detection or by a call about to see    *)
(* its grant, nobody waits while a permit is free, and no waiter is queued *)
(* twice or queued with a permit.                                          *)
PermitsSound ==
  /\ Cardinality(held) <= Workers
  /\ waiters # <<>> => Cardinality(held) = Workers
  /\ \A t \in Tasks : Status(t) = "detecting" => t \in held
  /\ \A t \in held : Status(t) \in {"acquiring", "detecting"}
  /\ \A t \in Range(waiters) : t \notin held /\ Status(t) = "acquiring"
  /\ \A i, j \in DOMAIN waiters : waiters[i] = waiters[j] => i = j

(* resultsCh is closed after the last send: a send on a closed channel     *)
(* would panic, so no party may still be on its way to one.                *)
NoSendOnClosed ==
  \A s \in Scans : src[s] = "closed" =>
    \A p \in Parties : pc[s][p] \in {"ready", "sent", "skipped", "refused"}

(* Together: the sends of run, none of them in a select with a context,    *)
(* can neither hang nor panic.                                             *)
SendsSafe == NothingBlocks /\ NoSendOnClosed

(* When Scan returns it leaves nothing behind on the shared Scanner: no    *)
(* yield call, worker or waiter of it, no permit, no slot, no result.      *)
CleanReturn ==
  \A s \in Scans : con[s] = "done" =>
    /\ slots[s] = 0 /\ queue[s] = <<>>
    /\ Reserved(s) = {}
    /\ \A y \in Yields : <<s, y>> \notin held /\ <<s, y>> \notin Range(waiters)

(* The yield calls the source has made.                                    *)
Offered(s) == {y \in Yields : pc[s][y] # "ready"}

(* The source has yielded or returned a cancellation, whatever failure was *)
(* joined to it and whether or not the scan was cancelled.                 *)
SaidStopped(s) ==
  "stop" \in srcErr[s] \/ \E y \in Offered(s) : offer[s][y].kind = "canceled"

(* A nil error is a promise: everything the source handed over was scanned *)
(* to its end, with every finding given to the handler, and neither the    *)
(* detection nor a yielded error failed; and unless the source spoke of a  *)
(* cancellation it returned no error and handed over all that it has.      *)
NilMeansComplete ==
  \A s \in Scans : con[s] = "done" /\ scanErr[s] = {} =>
    /\ \A y \in Offered(s) :
         /\ offer[s][y].kind \notin {"error", "broken"}
         /\ offer[s][y].kind = "fragment" => handled[s][y] = offer[s][y].found
    /\ \/ SaidStopped(s)
       \/ srcErr[s] = {} /\ \A y \in Yields \ Offered(s) : offer[s][y].kind = "canceled"

(* Fragments the source was allowed to hand over and whose findings are    *)
(* not all handled: a slow handler stops the source after Workers + 1.     *)
InFlight(s) ==
  {y \in Yields : \/ pc[s][y] \in {"detecting", "publishing"}
                  \/ y \in Range(queue[s])
                  \/ cur[s] = y /\ con[s] \in {"release", "handle", "calling"}}

ReadAheadBounded == \A s \in Scans : Cardinality(InFlight(s)) <= Workers + 1

(* The joined error only grows, and from the moment a handler has failed   *)
(* or detection has failed no handler is called again in that scan.        *)
StopIsFinal ==
  [][\A s \in Scans :
       /\ scanErr[s] \subseteq scanErr'[s]
       /\ scanErr[s] \cap {"handler", "detect"} # {} => handled'[s] = handled[s]]_vars

(* What a caller of Scan may rely on, as a specification of its own, and   *)
(* what of the scanner its caller sees.                                    *)
Phase(s)   == IF con[s] = "idle" THEN "idle" ELSE IF con[s] = "done" THEN "returned" ELSE "running"
Verdict(s) == IF con[s] # "done" THEN "none" ELSE IF scanErr[s] = {} THEN "nil" ELSE "error"

Contract == INSTANCE ScanContract WITH
  phase     <- [s \in Scans |-> Phase(s)],
  offered   <- [s \in Scans |-> Offered(s)],
  said      <- srcErr,
  delivered <- [s \in Scans |-> [y \in Yields |-> handled[s][y]]],
  verdict   <- [s \in Scans |-> Verdict(s)]

(* The scanner, its channels and its semaphore implement that promise.     *)
ImplementsContract == Contract!Spec

(* Every scan that was started returns, also when its handler starts other *)
(* scans on the same Scanner and all of them wait for the same permits; a  *)
(* ScanString call that has to wait for a permit gets one and returns.     *)
Returns ==
  /\ \A s \in Scans : con[s] = "receive" ~> con[s] = "done"
  /\ \A c \in Callers : call[c] = "acquiring" ~> call[c] = "done"
=============================================================================
