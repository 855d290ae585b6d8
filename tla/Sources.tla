------------------------------ MODULE Sources -------------------------------
(***************************************************************************)
(* Every source of the scanner, one at a time, against the one contract    *)
(* that sources/source.go gives them. The variables are those of all the   *)
(* sources, under their own names; a source that is not the one scanned    *)
(* has no state.                                                           *)
(***************************************************************************)
EXTENDS Naturals, FiniteSets

CONSTANTS
  Scanned,       (* which sources to scan: "hosts", "S3", "HF", "git"       *)
  Inputs,        (* what there is to read in any of them                    *)
  Workers,       (* of a group of goroutines, and of the history            *)
  MaxFaults,     (* bound: how often a request or a read may fail of itself *)
  HostTargets,   (* the targets of SourceScan                               *)
  PlanOf(_),     (* what Fragments is to do with one of them                *)
  S3Targets,     (* the targets of S3Source                                 *)
  Objects, Limit, (* the objects of S3 and Hugging Face buckets; how many   *)
                 (* tasks run at once                                       *)
  HFBuckets, HFFaults, (* the buckets of HuggingFaceSource; what may fail   *)
  Repositories   (* the targets of GitSource                                *)

VARIABLES
  which,         (* the source that is scanned                              *)
  target, at, refused, cause, yielded, lost, faults,
  verdict, bucket, page, pos, obj, groupErr, groupCause,
  ctxDone,  (* of several *)
  todo, state, err, repoCh, runCh, visited, told,  (* of SourceScan *)
  exitErr, listFailed,  (* of S3Source *)
  enum, nextBucket, ch, enumErr, main, listErr, firstErr,
  failed,  (* of HuggingFaceSource *)
  phase, stage, cur, errs, git, listener  (* of GitSource *)

HostPlans == [t \in DOMAIN HostTargets |-> PlanOf(HostTargets[t])]

Hosts == INSTANCE SourceScan WITH Targets <- HostTargets, Plans <- HostPlans
S3    == INSTANCE S3Source WITH Targets <- S3Targets
HF    == INSTANCE HuggingFaceSource WITH Buckets <- HFBuckets, Faults <- HFFaults
Git   == INSTANCE GitSource WITH Targets <- Repositories

ASSUME InstancesAreAdmissible == Hosts!Assumptions /\ S3!Assumptions /\ HF!Assumptions /\ Git!Assumptions

(* The inputs are all that the sources read.                               *)
ASSUME InputsAreAll ==
  /\ Objects \subseteq Inputs
  /\ \A t \in DOMAIN HostTargets : \A script \in Hosts!Scripts(HostPlans[t]) :
       \A k \in DOMAIN script : script[k].op = "yield" => script[k].in \in Inputs
  /\ \A t \in DOMAIN Repositories, p \in Git!Readers, s \in Git!Stages :
       LET prints == Git!Prints(Repositories[t], p, s)
       IN  \A k \in DOMAIN prints : prints[k].kind = "warning" \/ prints[k].in \in Inputs

ASSUME PlansAreRegular == \A t \in DOMAIN HostPlans : Hosts!Regular(HostPlans[t])

NotHosts == <<bucket, page, pos, exitErr, obj, groupErr, groupCause, ctxDone,
             listFailed, enum, nextBucket, ch, enumErr, main, listErr,
             firstErr, failed, phase, stage, cur, errs, git, listener>>
NotS3 == <<todo, state, err, refused, repoCh, runCh, visited, yielded, told,
          lost, faults, enum, nextBucket, ch, enumErr, main, listErr,
          firstErr, failed, phase, stage, cur, errs, git, listener>>
NotHF == <<target, todo, state, err, refused, repoCh, runCh, visited, yielded,
          told, lost, faults, exitErr, listFailed, phase, stage, cur, errs,
          git, listener>>
NotGit == <<todo, state, err, repoCh, runCh, cause, visited, told, bucket,
           page, pos, exitErr, obj, groupCause, listFailed, enum, nextBucket,
           ch, enumErr, main, listErr, firstErr, failed>>

vars ==
  <<which, target, at, refused, cause, yielded, lost, faults, verdict,
    bucket, page, pos, obj, groupErr, groupCause, ctxDone,
    todo, state, err, repoCh, runCh, visited, told, exitErr, listFailed,
    enum, nextBucket, ch, enumErr, main, listErr, firstErr, failed,
    phase, stage, cur, errs, git, listener>>

Unused(x) == x = "unused"

Init ==
  /\ which \in Scanned
  /\ \/ /\ which = "hosts" /\ Hosts!Init
        /\ Unused(bucket) /\ Unused(page) /\ Unused(pos) /\ Unused(exitErr) /\ Unused(obj)
        /\ Unused(groupErr) /\ Unused(groupCause) /\ Unused(ctxDone) /\ Unused(listFailed)
        /\ Unused(enum) /\ Unused(nextBucket) /\ Unused(ch) /\ Unused(enumErr) /\ Unused(main)
        /\ Unused(listErr) /\ Unused(firstErr) /\ Unused(failed) /\ Unused(phase)
        /\ Unused(stage) /\ Unused(cur) /\ Unused(errs) /\ Unused(git) /\ Unused(listener)
     \/ /\ which = "S3" /\ S3!Init
        /\ Unused(todo) /\ Unused(state) /\ Unused(err) /\ Unused(refused) /\ Unused(repoCh)
        /\ Unused(runCh) /\ Unused(visited) /\ Unused(yielded) /\ Unused(told) /\ Unused(lost)
        /\ Unused(faults) /\ Unused(enum) /\ Unused(nextBucket) /\ Unused(ch)
        /\ Unused(enumErr) /\ Unused(main) /\ Unused(listErr) /\ Unused(firstErr)
        /\ Unused(failed) /\ Unused(phase) /\ Unused(stage) /\ Unused(cur) /\ Unused(errs)
        /\ Unused(git) /\ Unused(listener)
     \/ /\ which = "HF" /\ HF!Init
        /\ Unused(target) /\ Unused(todo) /\ Unused(state) /\ Unused(err) /\ Unused(refused)
        /\ Unused(repoCh) /\ Unused(runCh) /\ Unused(visited) /\ Unused(yielded)
        /\ Unused(told) /\ Unused(lost) /\ Unused(faults) /\ Unused(exitErr)
        /\ Unused(listFailed) /\ Unused(phase) /\ Unused(stage) /\ Unused(cur) /\ Unused(errs)
        /\ Unused(git) /\ Unused(listener)
     \/ /\ which = "git" /\ Git!Init
        /\ Unused(todo) /\ Unused(state) /\ Unused(err) /\ Unused(repoCh) /\ Unused(runCh)
        /\ Unused(cause) /\ Unused(visited) /\ Unused(told) /\ Unused(bucket) /\ Unused(page)
        /\ Unused(pos) /\ Unused(exitErr) /\ Unused(obj) /\ Unused(groupCause)
        /\ Unused(listFailed) /\ Unused(enum) /\ Unused(nextBucket) /\ Unused(ch)
        /\ Unused(enumErr) /\ Unused(main) /\ Unused(listErr) /\ Unused(firstErr)
        /\ Unused(failed)

Next ==
  \/ which = "hosts" /\ Hosts!Next /\ UNCHANGED <<which, NotHosts>>
  \/ which = "S3"    /\ S3!Next    /\ UNCHANGED <<which, NotS3>>
  \/ which = "HF"    /\ HF!Next    /\ UNCHANGED <<which, NotHF>>
  \/ which = "git"   /\ Git!Next   /\ UNCHANGED <<which, NotGit>>

Progress ==
  \/ which = "hosts" /\ Hosts!Progress /\ UNCHANGED <<which, NotHosts>>
  \/ which = "S3"    /\ S3!Progress    /\ UNCHANGED <<which, NotS3>>
  \/ which = "HF"    /\ HF!Progress    /\ UNCHANGED <<which, NotHF>>
  \/ which = "git"   /\ Git!Progress   /\ UNCHANGED <<which, NotGit>>

Spec == Init /\ [][Next]_vars

(* Requests, reads and processes end (they have timeouts), yield returns,  *)
(* and Go runs some runnable goroutine. That it runs each of them is not   *)
(* needed, as none of them goes on forever.                                *)
FairSpec == Spec /\ WF_vars(Progress)

-----------------------------------------------------------------------------
(* What targets list by hand as wanted is what there is to read of them,   *)
(* once: in the scripts of a plan, in what git prints, in the pages of a   *)
(* bucket. No listing passes over a repository, and the scripts of         *)
(* containers pass over nothing without a word.                            *)
WantedIsListed ==
  /\ \A t \in DOMAIN HostTargets :
       LET plan == HostPlans[t]
       IN  /\ Hosts!ReadOnce(plan) /\ (HostTargets[t].host = "container" => Hosts!Tells(plan))
           /\ plan.accepted => HostTargets[t].wanted = Hosts!InPlan(plan)
           /\ plan.accepted /\ plan.enumerate =>
                Hosts!SendsAll(plan.listing) /\ HostTargets[t].wantedRepos = Hosts!SendsOf(plan.listing)
  /\ \A t \in DOMAIN Repositories :
       Git!ReadOnce(Repositories[t]) /\ Repositories[t].wanted = Git!AllReads(Repositories[t])
  /\ \A t \in S3Targets :
       t.enumerate \/ \A o \in Objects : \E k \in DOMAIN t.buckets[1] : o \in Git!ToSet(t.buckets[1][k])

(* A nil error means that the target was scanned: everything selected was  *)
(* yielded, or passed over by a failure that is yielded or logged, nothing *)
(* else was, and every bucket of an enumeration was tried; a failed        *)
(* enumeration of buckets is never hidden by the failure of one of them;   *)
(* and what a container image does not show is yielded, never only logged. *)
NilMeansScanned ==
  /\ WantedIsListed
  /\ which = "hosts" => Hosts!NilMeansScanned /\ Hosts!CoverageReported
  /\ which = "S3"    => S3!NilMeansTried
  /\ which = "HF"    => HF!EnumerationReported
  /\ which = "git"   => Git!NilMeansAllRead

(* No fragment of a host, a tree or an image is yielded twice, and the     *)
(* failure of one repository keeps no other from being scanned.            *)
EachScannedOnce == which = "hosts" => Hosts!YieldedOnce /\ Hosts!EveryRepository

(* A refused yield ends a file's or a container's scan for good, and the   *)
(* killing of git that follows is not taken for a failure of git.          *)
RefusalIsFinal ==
  /\ which = "hosts" => Hosts!RefusalIsFinal
  /\ which = "git"   => Git!KillNotReported

(* No goroutine of a host that was refused a fragment yields another       *)
(* (sources/source.go: "A source must stop producing when yield returns an *)
(* error and propagate that error").                                       *)
StopsAfterRefusal == which = "hosts" => Hosts!StopsAfterRefusal

(* No goroutine of a source, no git process and nobody who listens to one  *)
(* outlives its scan.                                                      *)
NothingLeftBehind ==
  /\ which = "hosts" => Hosts!NothingLeftBehind
  /\ which = "S3"    => S3!NothingLeftBehind
  /\ which = "HF"    => HF!NothingLeftBehind
  /\ which = "git"   => Git!NothingLeftBehind

(* A failure to list or to read a bucket is reported as a failure.         *)
FailureReported ==
  /\ which = "S3" => S3!FailureReported
  /\ which = "HF" => HF!FailureReported

(* In an enumeration the failure of one bucket is not fatal.               *)
BucketFailuresNotFatal == which = "S3" => S3!BucketFailuresNotFatal

(* What the contract sees of the source that is scanned.                   *)
Choose(hosts, s3, hf, repository) ==
  IF which = "hosts" THEN hosts ELSE IF which = "S3" THEN s3 ELSE IF which = "HF" THEN hf ELSE repository

Phase    == Choose(Hosts!Phase, S3!Phase, HF!Phase, Git!Phase)
Yielding == Choose(Hosts!Yielding, S3!Yielding, HF!Yielding, Git!Yielding)
Stopped  == Choose(Hosts!Stopped, S3!Stopped, HF!Stopped, Git!Stopped)
Failed   == Choose(Hosts!Failed, S3!Failed, failed, Git!Failed)

(* Each of them is a Source as sources/source.go defines it.               *)
Source == INSTANCE SourceContract WITH
  Stops <- {"refused", "canceled"},
  phase <- Phase, yielding <- Yielding, stopped <- Stopped, failed <- Failed, verdict <- verdict

ImplementsSource == Source!Spec

(* Fragments returns, whatever fails and whenever it is cancelled: no      *)
(* goroutine waits for ever for a channel, a mutex, a pipe or a process.   *)
Returns == <>(Phase = "returned")
=============================================================================
