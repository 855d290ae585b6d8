------------------------------ MODULE S3Source ------------------------------
(***************************************************************************)
(* sources/s3/s3.go: Fragments, scanEnumerated and scanBucket. One lister  *)
(* goroutine pages through a bucket and starts one task per object in an   *)
(* errgroup with a limit; each task fetches its object and yields it.      *)
(*                                                                         *)
(* Three contexts are nested: the caller's, Fragments' own (cancelled with *)
(* the error of a refused yield as its cause) and the bucket's errgroup    *)
(* context (cancelled by the first task error or by scanBucket itself).    *)
(* Errors are abstracted to what the scanner tells apart: "refused" and    *)
(* "canceled" count as a stop, "fail" is anything else.                    *)
(***************************************************************************)
EXTENDS Naturals, Sequences, FiniteSets

CONSTANTS
  Objects,    (* the objects of all buckets                                 *)
  Targets,    (* what may be scanned: whether the target is a bucket glob,  *)
              (* the matched buckets (each a sequence of pages, a page a    *)
              (* sequence of objects), and the requests that may fail       *)
  Limit       (* errgroup.SetLimit                                          *)

Assumptions ==
  /\ Limit \in Nat \ {0} /\ IsFiniteSet(Objects)
  /\ \A t \in Targets :
       /\ t.enumerate \in BOOLEAN
       /\ t.buckets \in Seq(Seq(Seq(Objects)))
       /\ (~t.enumerate => Len(t.buckets) = 1)
       /\ t.faults \subseteq {"list", "buckets", "object"}

VARIABLES
  target,   (* the target being scanned                                     *)
  at,       (* the lister: Fragments, scanEnumerated and scanBucket         *)
  bucket,   (* index of the bucket being scanned                            *)
  page,     (* index of the page being listed                               *)
  pos,      (* index of the object being considered                         *)
  exitErr,  (* errors scanBucket joins with the group's                     *)
  obj,      (* what has become of each object                               *)
  groupErr, (* the errgroup's first error                                   *)
  groupCause, (* why the errgroup's context is done, if not by its parent   *)
  ctxDone,  (* the caller's context is cancelled                            *)
  cause,    (* context.Cause of Fragments' context                          *)
  listFailed, (* a listing failed while nothing had stopped the source      *)
  verdict   (* what Fragments returned, once at = "returned"                *)

lister == <<at, bucket, page, pos, exitErr>>
group  == <<obj, groupErr, groupCause>>
vars == <<target, lister, group, ctxDone, cause, listFailed, verdict>>

Stops == {"refused", "canceled"}

Enumerate == target.enumerate
Buckets   == target.buckets
Faults    == target.faults

Init ==
  /\ target \in Targets
  /\ at = "begin" /\ bucket = 1 /\ page = 1 /\ pos = 1 /\ exitErr = {}
  /\ obj = [o \in Objects |-> "unlisted"]
  /\ groupErr = "none" /\ groupCause = "none"
  /\ ctxDone = FALSE /\ cause = "none"
  /\ listFailed = FALSE /\ verdict = {}

(* context.Cause of the bucket's context.                                  *)
GroupCause == IF groupCause # "none" THEN groupCause ELSE cause
GroupDone  == GroupCause # "none"

Running == {o \in Objects : obj[o] \in {"queued", "fetching", "yielding", "cutOff", "failing"}}

Pages == Buckets[bucket]
Considered == Pages[page][pos]

-----------------------------------------------------------------------------
(* The caller cancels, or the scanner that runs the source stops.          *)
Cancel ==
  /\ at # "returned" /\ ~ctxDone
  /\ ctxDone' = TRUE
  /\ cause' = IF cause = "none" THEN "canceled" ELSE cause
  /\ UNCHANGED <<target, lister, group, listFailed, verdict>>

(* Fragments: a cause of its own context replaces the error.               *)
Return(errs) ==
  /\ at' = "returned"
  /\ verdict' = IF cause # "none" THEN {cause} ELSE errs

(* s3ListAllBuckets, in enumerate mode.                                    *)
Begin ==
  /\ at = "begin"
  /\ \/ /\ Enumerate => cause = "none"
        /\ at' = "bucket"
        /\ UNCHANGED <<listFailed, verdict>>
     \/ /\ Enumerate /\ ("buckets" \in Faults \/ cause # "none")
        /\ Return({"fail"})
        /\ listFailed' = (cause = "none")
  /\ UNCHANGED <<bucket, page, pos, exitErr, group, ctxDone, cause>>

(* The bucket loop of scanEnumerated ends, on a done context or after the  *)
(* last bucket.                                                            *)
EndEnumeration ==
  /\ at = "bucket" /\ Enumerate
  /\ bucket > Len(Buckets) \/ cause # "none"
  /\ Return({})
  /\ UNCHANGED <<bucket, page, pos, exitErr, group, ctxDone, cause, listFailed>>

(* scanBucket starts, with an errgroup of its own. A bucket that the       *)
(* prefilter excludes, or whose region cannot be found, is skipped.        *)
NextIsBucket ==
  /\ at = "bucket" /\ bucket <= Len(Buckets)
  /\ Enumerate => cause = "none"

StartBucket ==
  /\ NextIsBucket
  /\ at' = "list"
  /\ page' = 1 /\ exitErr' = {} /\ groupErr' = "none" /\ groupCause' = "none"
  /\ UNCHANGED <<bucket, pos, obj, ctxDone, cause, listFailed, verdict>>

SkipBucket ==
  /\ NextIsBucket
  /\ IF Enumerate
     THEN bucket' = bucket + 1 /\ UNCHANGED at
     ELSE at' = "end" /\ UNCHANGED bucket
  /\ UNCHANGED <<page, pos, exitErr, group, ctxDone, cause, listFailed, verdict>>

(* s3ListPage.                                                             *)
ListPage ==
  /\ at = "list"
  /\ at' = "check" /\ pos' = 1
  /\ UNCHANGED <<bucket, page, exitErr, group, ctxDone, cause, listFailed, verdict>>

(* The listing fails: scanBucket cancels its own context and joins the     *)
(* error of the tasks that it stops by that.                               *)
ListFails ==
  /\ at = "list"
  /\ \/ "list" \in Faults /\ exitErr' = {"fail"} /\ listFailed' = (~GroupDone /\ ~Enumerate)
     \/ GroupDone /\ exitErr' = {GroupCause} /\ UNCHANGED listFailed
  /\ groupCause' = IF GroupDone THEN groupCause ELSE "canceled"
  /\ at' = "wait"
  /\ UNCHANGED <<bucket, page, pos, obj, groupErr, ctxDone, cause, verdict>>

(* The body of the object loop, up to g.Go: the context, then skipReason   *)
(* and the prefilter.                                                      *)
CheckObject ==
  /\ at = "check" /\ pos <= Len(Pages[page])
  /\ \/ /\ GroupDone
        /\ at' = "wait" /\ exitErr' = {"canceled"}
        /\ UNCHANGED <<pos, obj>>
     \/ /\ ~GroupDone
        /\ at' = "submit"
        /\ UNCHANGED <<pos, obj, exitErr>>
     \/ /\ ~GroupDone
        /\ obj' = [obj EXCEPT ![Considered] = "skipped"]
        /\ pos' = pos + 1
        /\ UNCHANGED <<at, exitErr>>
  /\ UNCHANGED <<bucket, page, groupErr, groupCause, ctxDone, cause, listFailed, verdict>>

(* g.Go blocks while Limit tasks run.                                      *)
Submit ==
  /\ at = "submit" /\ Cardinality(Running) < Limit
  /\ obj' = [obj EXCEPT ![Considered] = "queued"]
  /\ pos' = pos + 1 /\ at' = "check"
  /\ UNCHANGED <<bucket, page, exitErr, groupErr, groupCause, ctxDone, cause, listFailed, verdict>>

(* Mutants: the continuation token is ignored, or is never replaced.       *)
EndPageFirstOnly ==
  /\ at = "check" /\ pos > Len(Pages[page]) /\ at' = "wait"
  /\ UNCHANGED <<bucket, page, pos, exitErr, group, ctxDone, cause, listFailed, verdict>>

EndPageSameToken ==
  /\ at = "check" /\ pos > Len(Pages[page])
  /\ at' = IF page < Len(Pages) THEN "list" ELSE "wait"
  /\ UNCHANGED <<bucket, page, pos, exitErr, group, ctxDone, cause, listFailed, verdict>>

EndPage ==
  /\ at = "check" /\ pos > Len(Pages[page])
  /\ IF page < Len(Pages)
     THEN page' = page + 1 /\ at' = "list"
     ELSE UNCHANGED page /\ at' = "wait"
  /\ UNCHANGED <<bucket, pos, exitErr, group, ctxDone, cause, listFailed, verdict>>

(* Mutant: g.Wait is dropped.                                              *)
EndBucketNoWait ==
  /\ at = "wait" /\ at' = "end"
  /\ UNCHANGED <<bucket, page, pos, exitErr, group, ctxDone, cause, listFailed, verdict>>

(* g.Wait() returns; scanBucket returns what it joins. In enumerate mode   *)
(* the error is logged and the next bucket follows.                        *)
EndBucket ==
  /\ at = "wait" /\ Running = {}
  /\ exitErr' = exitErr \cup ({groupErr} \ {"none"})
  /\ at' = "end"
  /\ UNCHANGED <<bucket, page, pos, group, ctxDone, cause, listFailed, verdict>>

(* Mutant: the first bucket that fails ends the enumeration silently.      *)
NextBucketStops ==
  /\ at = "end" /\ Enumerate
  /\ IF exitErr = {} THEN at' = "bucket" /\ UNCHANGED verdict ELSE Return({})
  /\ bucket' = bucket + 1
  /\ UNCHANGED <<page, pos, exitErr, group, ctxDone, cause, listFailed>>

NextBucket ==
  /\ at = "end" /\ Enumerate
  /\ bucket' = bucket + 1 /\ at' = "bucket"
  /\ UNCHANGED <<page, pos, exitErr, group, ctxDone, cause, listFailed, verdict>>

Finish ==
  /\ at = "end" /\ ~Enumerate
  /\ Return(exitErr)
  /\ UNCHANGED <<bucket, page, pos, exitErr, group, ctxDone, cause, listFailed>>

-----------------------------------------------------------------------------
(* The tasks.                                                              *)

(* A task returns an error: the group keeps the first one and is done.     *)
TaskFails(o, err) ==
  /\ obj' = [obj EXCEPT ![o] = "stopped"]
  /\ groupErr' = IF groupErr = "none" THEN err ELSE groupErr
  /\ groupCause' = IF GroupDone THEN groupCause ELSE err

StartTask(o) ==
  /\ obj[o] = "queued"
  /\ \/ GroupDone /\ TaskFails(o, "canceled")
     \/ ~GroupDone /\ obj' = [obj EXCEPT ![o] = "fetching"] /\ UNCHANGED <<groupErr, groupCause>>
  /\ UNCHANGED <<lister, ctxDone, cause, listFailed, verdict>>

(* scanObject gets to a fragment, or to a failed read that it yields as an *)
(* error; or to a read that its done context has cut off.                  *)
CallYield(o) ==
  /\ obj[o] = "fetching"
  /\ \/ obj' = [obj EXCEPT ![o] = "yielding"]
     \/ GroupDone /\ obj' = [obj EXCEPT ![o] = "cutOff"]
  /\ UNCHANGED <<lister, groupErr, groupCause, ctxDone, cause, listFailed, verdict>>

(* The fragment is accepted; File.Fragments then ends with its context's   *)
(* error, if that is done.                                                 *)
YieldAccepts(o) ==
  /\ obj[o] = "yielding"
  /\ \/ obj' = [obj EXCEPT ![o] = "scanned"]
     \/ GroupDone /\ obj' = [obj EXCEPT ![o] = "failing"]
  /\ UNCHANGED <<lister, groupErr, groupCause, ctxDone, cause, listFailed, verdict>>

(* The scanner refuses when it is stopped itself, and refuses a yielded    *)
(* cancellation always. The refusal becomes the cause of Fragments'        *)
(* context.                                                                *)
YieldRefuses(o) ==
  /\ obj[o] = "cutOff" \/ (obj[o] = "yielding" /\ ctxDone)
  /\ obj' = [obj EXCEPT ![o] = "failing"]
  /\ cause' = IF cause = "none" THEN "refused" ELSE cause
  /\ UNCHANGED <<lister, groupErr, groupCause, ctxDone, listFailed, verdict>>

FetchFails(o) ==
  /\ obj[o] = "fetching" /\ ("object" \in Faults \/ GroupDone)
  /\ obj' = [obj EXCEPT ![o] = "failing"]
  /\ UNCHANGED <<lister, groupErr, groupCause, ctxDone, cause, listFailed, verdict>>

(* scanObject has failed: with a done context the cause is the task's      *)
(* error, otherwise the failure is logged and the object is skipped.       *)
EndFailing(o) ==
  /\ obj[o] = "failing"
  /\ \/ GroupDone /\ TaskFails(o, GroupCause)
     \/ ~GroupDone /\ obj' = [obj EXCEPT ![o] = "lost"] /\ UNCHANGED <<groupErr, groupCause>>
  /\ UNCHANGED <<lister, ctxDone, cause, listFailed, verdict>>

ListerStep ==
  /\ \/ Begin \/ EndEnumeration \/ StartBucket \/ SkipBucket \/ ListPage \/ ListFails
     \/ CheckObject \/ Submit \/ EndPage \/ EndBucket \/ NextBucket \/ Finish
  /\ UNCHANGED target

TaskStep(o) ==
  /\ \/ StartTask(o) \/ CallYield(o) \/ YieldAccepts(o) \/ YieldRefuses(o)
     \/ FetchFails(o) \/ EndFailing(o)
  /\ UNCHANGED target

Progress == ListerStep \/ \E o \in Objects : TaskStep(o)

Finished == at = "returned" /\ UNCHANGED vars

Next == Cancel \/ Progress \/ Finished

-----------------------------------------------------------------------------
(* A nil error: of one bucket, that its listing was read to the last page  *)
(* and every object was scanned, skipped or logged as lost, unless all of  *)
(* it was excluded; of an enumeration, that every matched bucket was       *)
(* tried, whatever happened to the ones before it.                         *)
NilMeansTried ==
  at = "returned" /\ verdict = {} =>
    IF Enumerate THEN bucket = Len(Buckets) + 1
    ELSE \/ \A o \in Objects : obj[o] \in {"skipped", "scanned", "lost"}
         \/ \A o \in Objects : obj[o] = "unlisted"

(* Fragments waits for every task that it has started.                     *)
NothingLeftBehind == at = "returned" => Running = {}

(* What SourceContract sees of it. A failed listing of a single bucket may *)
(* also say "stopped" (FailureReported is the stronger promise).           *)
Phase    == IF at = "returned" THEN "returned" ELSE "running"
Yielding == {o \in Objects : obj[o] \in {"yielding", "cutOff"}}
Stopped  == cause # "none" \/ (~Enumerate /\ listFailed)
Failed   == listFailed

(* A bucket that could not be listed is reported as such: unless the       *)
(* caller stopped the scan, the error is not one that the scanner takes    *)
(* for a stop and drops (sources/source.go: "the returned error reports    *)
(* why the source could not finish").                                      *)
FailureReported ==
  at = "returned" /\ listFailed /\ ~ctxDone => verdict \cap Stops = {}

(* In enumerate mode the failure of one bucket is not fatal: unless the    *)
(* caller stopped the scan or the buckets could not be listed, every       *)
(* bucket is tried (the comment on scanEnumerated).                        *)
BucketFailuresNotFatal ==
  at = "returned" /\ Enumerate /\ ~listFailed /\ ~ctxDone =>
    bucket = Len(Buckets) + 1
=============================================================================
