------------------------- MODULE HuggingFaceSource --------------------------
(***************************************************************************)
(* sources/huggingface/huggingface.go. Its repository half is a script in  *)
(* the vocabulary of SourceScript (at the end), which SourceScan runs. The *)
(* rest is the bucket half of Fragments, with enumerateBuckets,            *)
(* streamBuckets, scanBucket and streamBucketTree. An enumerator goroutine *)
(* sends the buckets through a channel of one, a second goroutine scans    *)
(* them one after the other, each with an errgroup of object tasks, and    *)
(* Fragments waits for both.                                               *)
(*                                                                         *)
(* Unlike S3, a task returns every failure to its group, so the failure of *)
(* one object ends the bucket. Errors are abstracted as in S3Source.       *)
(***************************************************************************)
EXTENDS SourceScript

CONSTANTS
  Objects,  (* the objects of all buckets                                   *)
  Buckets,  (* the buckets enumerated: a sequence of sequences of pages,    *)
            (* a page being a sequence of objects                           *)
  Limit,    (* errgroup.SetLimit                                            *)
  Faults    (* the requests that may fail: "enumerate", "list", "object"    *)

Assumptions ==
  /\ Limit \in Nat \ {0} /\ IsFiniteSet(Objects) /\ Buckets \in Seq(Seq(Seq(Objects)))
  /\ Faults \subseteq {"enumerate", "list", "object"}

VARIABLES
  enum,       (* the enumerator: "sending", "reporting" or "done"           *)
  nextBucket, (* index of the bucket it sends next                          *)
  ch,         (* bucketCh                                                   *)
  enumErr,    (* what it sends on enumErrCh                                 *)
  main,       (* Fragments: waits for the enumeration, then for the scans   *)
  at,         (* the goroutine that scans the buckets                       *)
  bucket,     (* index of the bucket it scans                               *)
  page, pos,  (* the lister's place in that bucket                          *)
  listErr,    (* what streamBucketTree returned                             *)
  firstErr,   (* the first bucket's errors                                  *)
  obj,        (* what has become of each object                             *)
  groupErr, groupCause, ctxDone, cause, (* as in S3Source                   *)
  failed,     (* a request failed while nothing had stopped the source      *)
  verdict     (* what Fragments returned, once main = "returned"            *)

enumerator == <<enum, nextBucket, enumErr>>
lister     == <<bucket, page, pos, listErr, firstErr>>
group      == <<obj, groupErr, groupCause>>
vars == <<enumerator, ch, main, at, lister, group, ctxDone, cause, failed, verdict>>

Stops  == {"refused", "canceled"}

Init ==
  /\ enum = "sending" /\ nextBucket = 1 /\ ch = <<>> /\ enumErr = "none"
  /\ main = "enumeration" /\ at = "receive"
  /\ bucket = 0 /\ page = 1 /\ pos = 1 /\ listErr = {} /\ firstErr = {}
  /\ obj = [o \in Objects |-> "unlisted"]
  /\ groupErr = "none" /\ groupCause = "none"
  /\ ctxDone = FALSE /\ cause = "none" /\ failed = FALSE /\ verdict = {}

GroupCause == IF groupCause # "none" THEN groupCause ELSE cause
GroupDone  == GroupCause # "none"
Running == {o \in Objects : obj[o] \in {"queued", "fetching", "yielding"}}
Pages == Buckets[bucket]
Considered == Pages[page][pos]

Because(err) == IF cause = "none" THEN err ELSE cause

(* A request of Fragments' context fails: by itself, or because that       *)
(* context is done.                                                        *)
Fails(kind) == kind \in Faults /\ failed' = (failed \/ cause = "none")

Cancel ==
  /\ main # "returned" /\ ~ctxDone
  /\ ctxDone' = TRUE /\ cause' = Because("canceled")
  /\ UNCHANGED <<enumerator, ch, main, at, lister, group, failed, verdict>>

-----------------------------------------------------------------------------
(* The enumerator and Fragments.                                           *)

(* send: a select between the channel of one and the context.              *)
SendBucket ==
  /\ enum = "sending" /\ nextBucket <= Len(Buckets) /\ ch = <<>>
  /\ ch' = Append(ch, nextBucket) /\ nextBucket' = nextBucket + 1
  /\ UNCHANGED <<enum, enumErr, main, at, lister, group, ctxDone, cause, failed, verdict>>

EnumerationFails ==
  /\ enum = "sending"
  /\ \/ Fails("enumerate") /\ enumErr' = "fail"
     \/ cause # "none" /\ enumErr' = "canceled" /\ UNCHANGED failed
  /\ enum' = "reporting"
  /\ UNCHANGED <<nextBucket, ch, main, at, lister, group, ctxDone, cause, verdict>>

EnumerationEnds ==
  /\ enum = "sending" /\ nextBucket > Len(Buckets)
  /\ enum' = "reporting"
  /\ UNCHANGED <<nextBucket, enumErr, ch, main, at, lister, group, ctxDone, cause,
                 failed, verdict>>

(* enumErrCh, buffered, gets the outcome; both channels are closed.        *)
CloseBuckets ==
  /\ enum = "reporting" /\ enum' = "done"
  /\ UNCHANGED <<nextBucket, enumErr, ch, main, at, lister, group, ctxDone, cause,
                 failed, verdict>>

(* Mutant: the outcome of the enumeration is received and forgotten.       *)
EnumerationForgotten ==
  /\ main = "enumeration" /\ enum = "done"
  /\ main' = "scans"
  /\ UNCHANGED <<enumerator, ch, at, lister, group, ctxDone, cause, failed, verdict>>

(* <-enumErrCh: a failed enumeration cancels the scans, with itself as the *)
(* cause.                                                                  *)
EnumerationKnown ==
  /\ main = "enumeration" /\ enum = "done"
  /\ main' = "scans"
  /\ cause' = IF enumErr = "none" THEN cause ELSE Because(enumErr)
  /\ UNCHANGED <<enumerator, ch, at, lister, group, ctxDone, failed, verdict>>

(* Mutant: without scans.Wait().                                           *)
ReturnAtOnce ==
  /\ main = "scans"
  /\ main' = "returned"
  /\ verdict' = IF cause # "none" THEN {cause} ELSE firstErr
  /\ UNCHANGED <<enumerator, ch, at, lister, group, ctxDone, cause, failed>>

(* scans.Wait(); a cause replaces the buckets' error.                      *)
Return ==
  /\ main = "scans" /\ at = "done"
  /\ main' = "returned"
  /\ verdict' = IF cause # "none" THEN {cause} ELSE firstErr
  /\ UNCHANGED <<enumerator, ch, at, lister, group, ctxDone, cause, failed>>

-----------------------------------------------------------------------------
(* The goroutine that scans: for bucket := range bucketCh.                 *)

ReceiveBucket ==
  /\ at = "receive" /\ ch # <<>>
  /\ ch' = Tail(ch)
  /\ \/ /\ cause # "none"
        /\ at' = "done" /\ firstErr' = {cause}
        /\ UNCHANGED <<bucket, page, listErr, groupErr, groupCause>>
     \/ /\ cause = "none"
        /\ bucket' = Head(ch) /\ at' = "list" /\ page' = 1
        /\ listErr' = {} /\ groupErr' = "none" /\ groupCause' = "none"
        /\ UNCHANGED firstErr
     \/ /\ cause = "none"                   \* the prefilter excludes the bucket
        /\ UNCHANGED <<at, firstErr, bucket, page, listErr, groupErr, groupCause>>
  /\ UNCHANGED <<enumerator, main, pos, obj, ctxDone, cause, failed, verdict>>

NoMoreBuckets ==
  /\ at = "receive" /\ ch = <<>> /\ enum = "done"
  /\ at' = "done"
  /\ UNCHANGED <<enumerator, ch, main, lister, group, ctxDone, cause, failed, verdict>>

(* A page of the bucket's tree.                                            *)
ListPage ==
  /\ at = "list" /\ ~GroupDone
  /\ at' = "entry" /\ pos' = 1
  /\ UNCHANGED <<enumerator, ch, main, bucket, page, listErr, firstErr, group, ctxDone,
                 cause, failed, verdict>>

(* The listing ends with an error, and scanBucket cancels its tasks.       *)
ListEnds(errs) ==
  /\ at' = "wait" /\ listErr' = errs
  /\ groupCause' = IF GroupDone THEN groupCause ELSE "canceled"

ListFails ==
  /\ at = "list"
  /\ \/ /\ "list" \in Faults /\ ListEnds({"fail"})
        /\ failed' = (failed \/ ~GroupDone)
     \/ GroupDone /\ ListEnds({GroupCause}) /\ UNCHANGED failed
  /\ UNCHANGED <<enumerator, ch, main, bucket, page, pos, firstErr, obj, groupErr, ctxDone,
                 cause, verdict>>

(* The callback of streamBucketTree: the context first, then the filters,  *)
(* then g.Go, which blocks while Limit tasks run.                          *)
ConsiderEntry ==
  /\ at = "entry" /\ pos <= Len(Pages[page])
  /\ \/ /\ GroupDone /\ ListEnds({"canceled"})
        /\ UNCHANGED <<pos, obj>>
     \/ /\ ~GroupDone /\ at' = "submit"
        /\ UNCHANGED <<pos, obj, listErr, groupCause>>
     \/ /\ ~GroupDone
        /\ obj' = [obj EXCEPT ![Considered] = "skipped"] /\ pos' = pos + 1
        /\ UNCHANGED <<at, listErr, groupCause>>
  /\ UNCHANGED <<enumerator, ch, main, bucket, page, firstErr, groupErr, ctxDone, cause,
                 failed, verdict>>

Submit ==
  /\ at = "submit" /\ Cardinality(Running) < Limit
  /\ obj' = [obj EXCEPT ![Considered] = "queued"]
  /\ pos' = pos + 1 /\ at' = "entry"
  /\ UNCHANGED <<enumerator, ch, main, bucket, page, listErr, firstErr, groupErr, groupCause,
                 ctxDone, cause, failed, verdict>>

(* Mutant: the next page's URL is not taken over.                          *)
EndPageSameURL ==
  /\ at = "entry" /\ pos > Len(Pages[page])
  /\ at' = IF page < Len(Pages) THEN "list" ELSE "wait"
  /\ UNCHANGED <<enumerator, ch, main, bucket, page, pos, listErr, firstErr, group, ctxDone,
                 cause, failed, verdict>>

EndPage ==
  /\ at = "entry" /\ pos > Len(Pages[page])
  /\ IF page < Len(Pages)
     THEN page' = page + 1 /\ at' = "list"
     ELSE UNCHANGED page /\ at' = "wait"
  /\ UNCHANGED <<enumerator, ch, main, bucket, pos, listErr, firstErr, group, ctxDone,
                 cause, failed, verdict>>

(* errors.Join(listErr, g.Wait()), of which Fragments keeps the first.     *)
EndBucket ==
  /\ at = "wait" /\ Running = {}
  /\ firstErr' = IF firstErr # {} THEN firstErr ELSE listErr \cup ({groupErr} \ {"none"})
  /\ at' = "receive"
  /\ UNCHANGED <<enumerator, ch, main, bucket, page, pos, listErr, group, ctxDone, cause,
                 failed, verdict>>

-----------------------------------------------------------------------------
(* The tasks: download the object to a file, then scan the file.           *)

TaskFails(o, err) ==
  /\ obj' = [obj EXCEPT ![o] = "stopped"]
  /\ groupErr' = IF groupErr = "none" THEN err ELSE groupErr
  /\ groupCause' = IF GroupDone THEN groupCause ELSE err

StartTask(o) ==
  /\ obj[o] = "queued"
  /\ \/ GroupDone /\ TaskFails(o, "canceled")
     \/ ~GroupDone /\ obj' = [obj EXCEPT ![o] = "fetching"] /\ UNCHANGED <<groupErr, groupCause>>
  /\ UNCHANGED <<enumerator, ch, main, at, lister, ctxDone, cause, failed, verdict>>

FetchFails(o) ==
  /\ obj[o] = "fetching"
  /\ \/ /\ "object" \in Faults /\ TaskFails(o, "fail")
        /\ failed' = (failed \/ ~GroupDone)
     \/ GroupDone /\ TaskFails(o, "canceled") /\ UNCHANGED failed
  /\ UNCHANGED <<enumerator, ch, main, at, lister, ctxDone, cause, verdict>>

CallYield(o) ==
  /\ obj[o] = "fetching"
  /\ obj' = [obj EXCEPT ![o] = "yielding"]
  /\ UNCHANGED <<enumerator, ch, main, at, lister, groupErr, groupCause, ctxDone, cause,
                 failed, verdict>>

(* File.Fragments ends with its context's error, if that is done.          *)
YieldAccepts(o) ==
  /\ obj[o] = "yielding"
  /\ \/ obj' = [obj EXCEPT ![o] = "scanned"] /\ UNCHANGED <<groupErr, groupCause>>
     \/ GroupDone /\ TaskFails(o, "canceled")
  /\ UNCHANGED <<enumerator, ch, main, at, lister, ctxDone, cause, failed, verdict>>

(* The scanner refuses once it is stopped. The refusal becomes the cause   *)
(* of Fragments' context.                                                  *)
YieldRefuses(o) ==
  /\ obj[o] = "yielding" /\ ctxDone
  /\ TaskFails(o, "refused")
  /\ cause' = Because("refused")
  /\ UNCHANGED <<enumerator, ch, main, at, lister, ctxDone, failed, verdict>>

EnumStep == SendBucket \/ EnumerationFails \/ EnumerationEnds \/ CloseBuckets
MainStep == EnumerationKnown \/ Return
ScanStep == ReceiveBucket \/ NoMoreBuckets \/ ListPage \/ ListFails \/ ConsiderEntry
            \/ Submit \/ EndPage \/ EndBucket
TaskStep(o) == StartTask(o) \/ FetchFails(o) \/ CallYield(o) \/ YieldAccepts(o) \/ YieldRefuses(o)

Progress == EnumStep \/ MainStep \/ ScanStep \/ \E o \in Objects : TaskStep(o)

Finished == main = "returned" /\ UNCHANGED vars

Next == Cancel \/ Progress \/ Finished

-----------------------------------------------------------------------------
(* Fragments waits for the enumerator, for the scans and for their tasks.  *)
NothingLeftBehind == main = "returned" => enum = "done" /\ at = "done" /\ Running = {}

(* What SourceContract sees of it. What Fragments returns may also say     *)
(* "stopped" when it was a failure of its own that stopped it              *)
(* (FailureReported is the stronger promise).                              *)
Phase    == IF main = "returned" THEN "returned" ELSE "running"
Yielding == {o \in Objects : obj[o] = "yielding"}
Stopped  == ctxDone \/ failed

(* A failed enumeration is what Fragments returns, and nothing else, even  *)
(* when a bucket or an object has failed before it: unless the caller      *)
(* stopped the scan first.                                                 *)
EnumerationReported ==
  main = "returned" /\ enumErr = "fail" /\ ~ctxDone => verdict = {"fail"}

(* A failed request is reported, whatever else runs at the time: unless    *)
(* the caller stopped the scan, Fragments returns an error that the        *)
(* scanner does not take for a stop and drop (sources/source.go: "the      *)
(* returned error reports why the source could not finish").               *)
FailureReported ==
  main = "returned" /\ failed /\ ~ctxDone => verdict # {} /\ verdict \cap Stops = {}

-----------------------------------------------------------------------------
(* The repositories. The first failure ends the scan of one.               *)
ResolveResources(t) == ({"repos"} \cup t.include) \ t.exclude

(* emitDiscussionEvents, for the discussions and pull requests asked for.  *)
Wanted(d, res) == (IF d.isPullRequest THEN "prs" ELSE "discussions") \in res

EmitDiscussionEvents(d) == ForEach(d.events, Emit)

ScanCommunity(repo, res) ==
  Paged(repo.discussions, LAMBDA d : When(Wanted(d, res), Fetch \o EmitDiscussionEvents(d)))

ScanRepoGit(repo) == Fetch \o ForEach(repo.git, Emit)

ScanRepo(repo, res) ==
  When("repos" \in res, ScanRepoGit(repo)) \o
  When({"discussions", "prs"} \cap res # {}, ScanCommunity(repo, res))

(* enumerateRepos: one repository, or an owner's models, datasets and      *)
(* spaces, without those that are excluded.                                *)
StreamReposByAuthor(pages) ==
  Paged(pages, LAMBDA repo : When(~repo.excluded, Send(repo.name)))

EnumerateRepos(t) == SentOnce(ForEach(t.listings, StreamReposByAuthor))

Plan(t) ==
  LET res == ResolveResources(t)
  IN  [OneScript(<<>>) EXCEPT
         !.wrapped = TRUE,
         !.enumerate = res # {},
         !.listing = EnumerateRepos(t),
         !.scripts = [name \in {repo.name : repo \in ToSet(t.contents)} |->
            ScanRepo(CHOOSE repo \in ToSet(t.contents) : repo.name = name, res)]]
=============================================================================
