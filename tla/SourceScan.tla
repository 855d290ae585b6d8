----------------------------- MODULE SourceScan -----------------------------
(***************************************************************************)
(* The goroutines of the scan of a GitHub, GitLab or Hugging Face target,  *)
(* of a file tree or of container images: Fragments of sources/github,     *)
(* sources/gitlab, sources/huggingface, sources/files.go and               *)
(* sources/container. "main" resolves the target and scans what is not a   *)
(* repository; "enum" lists repositories into a channel of one; "scan"     *)
(* takes them from there, one at a time; and in an errgroup, for the       *)
(* workflow runs of a GitHub repository and for the files of a tree,       *)
(* "list" feeds a channel that Workers empty. Each of them works through a *)
(* script; what it is comes from the resources modules.                    *)
(*                                                                         *)
(* Errors are abstracted to what the scanner tells apart: "refused" and    *)
(* "canceled" count as a stop, "fail" is anything else.                    *)
(***************************************************************************)
EXTENDS SourceScript

CONSTANTS
  Targets,    (* what may be scanned, by name: a host, a kind, options and  *)
              (* contents (see the resources modules)                       *)
  Plans,      (* what Fragments is to do with each (see MCSources)          *)
  Workers,    (* the workers of scanActions, the readers of Files           *)
  MaxFaults   (* bound: how often a request or a read may fail of itself    *)

(* What the scripts of a plan may consist of. A source that does not wrap  *)
(* yield, and so is not cancelled by a refusal, ends what it does with it, *)
(* and enumerates nothing.                                                 *)
Scripts(plan) ==
  {plan.dispatch, plan.main, plan.listing}
    \cup {plan.scripts[name] : name \in DOMAIN plan.scripts}
    \cup {plan.groups[name] : name \in DOMAIN plan.groups}

StepOf(plan, step) ==
  /\ step.op \in {"fetch", "fail", "yield", "tell", "send", "group"}
  /\ step.onErr \in Nat \cup {Fatal} /\ step.onGone \in Nat \cup {Fatal}
  /\ step.onStop \in Nat \cup {Fatal} /\ (~plan.wrapped => step.onStop = Fatal)
  /\ step.op = "send" => step.in \in DOMAIN plan.scripts
  /\ step.op = "group" => step.in \in DOMAIN plan.groups

ScriptOf(plan, script) == script \in Seq(ToSet(script)) /\ \A step \in ToSet(script) : StepOf(plan, step)

Assumptions ==
  /\ IsFiniteSet(Workers) /\ Workers # {} /\ Workers \cap {"main", "enum", "scan", "list"} = {}
  /\ DOMAIN Plans = DOMAIN Targets /\ MaxFaults \in Nat
  /\ \A t \in DOMAIN Plans :
       /\ \A script \in Scripts(Plans[t]) : ScriptOf(Plans[t], script)
       /\ Plans[t].enumerate => Plans[t].wrapped

VARIABLES
  target,   (* the target being scanned                                     *)
  at,       (* where Fragments is                                           *)
  todo,     (* of each goroutine, what is left of its script                *)
  state,    (* of each goroutine: "idle", "busy", "yielding" or "done"      *)
  err,      (* of each goroutine, the first error it has met                *)
  refused,  (* the goroutines to which yield has returned an error          *)
  repoCh,   (* the channel between enum and scan, of capacity 1             *)
  runCh,    (* the channel between list and the workers                     *)
  cause,    (* context.Cause of Fragments' context                          *)
  visited,  (* the repositories handed to scanRepo, in order                *)
  yielded,  (* the inputs that yield has accepted                           *)
  told,     (* the inputs passed over by a failure that was yielded         *)
  lost,     (* the inputs passed over by a failure that was only logged     *)
  faults,   (* how often a request has failed of itself                     *)
  verdict   (* what Fragments returned, once at = "returned"                *)

goroutines == <<todo, state, err, refused, repoCh, runCh>>
results == <<visited, yielded, told, lost>>
vars == <<target, at, goroutines, cause, results, faults, verdict>>

Group == {"list"} \cup Workers
Procs == {"main", "enum", "scan"} \cup Group

Plan == Plans[target]

Init ==
  /\ target \in DOMAIN Targets
  /\ at = "begin"
  /\ todo = [p \in Procs |-> <<>>] /\ state = [p \in Procs |-> "idle"]
  /\ err = [p \in Procs |-> "none"] /\ refused = {}
  /\ repoCh = <<>> /\ runCh = <<>>
  /\ cause = "none" /\ visited = <<>> /\ yielded = {} /\ told = {} /\ lost = {}
  /\ faults = 0 /\ verdict = {}

(* The errgroup keeps its first error, and its context is done by it.      *)
GroupErr == err["list"]
Done(p) == cause # "none" \/ (p \in Group /\ GroupErr # "none")

First(old, new) == IF old = "none" THEN new ELSE old

-----------------------------------------------------------------------------
(* A step of a script fails with error e. Where that is not returned the   *)
(* goroutine goes on behind what it passes over, in a container with an    *)
(* error that it yields; otherwise its script ends.                        *)
Over(step, e) ==
  IF e = "gone" THEN step.onGone ELSE IF e = "fail" THEN step.onErr ELSE step.onStop

Passed(script) ==
  InputsOf(script) \cup
  UNION {InputsOf(Plan.scripts[step.in]) : step \in {x \in ToSet(script) : x.op = "send"}}

Handle(p, e) ==
  LET step   == Head(todo[p])
      over   == Over(step, e)
      passed == Passed(SubSeq(todo[p], 1, over + 1))
      rest   == SubSeq(todo[p], over + 2, Len(todo[p]))
      of     == IF p \in Group THEN "list" ELSE p
  IN  IF over = Fatal
      THEN /\ todo' = [todo EXCEPT ![p] = <<>>]
           /\ LET kept == IF e = "gone" THEN "fail" ELSE e
                 IN  err' = [err EXCEPT ![p] = First(@, kept), ![of] = First(@, kept)]
           /\ UNCHANGED lost
      ELSE LET tells == step.tell /\ e \in {"fail", "gone"}
           IN  /\ todo' = [todo EXCEPT ![p] = When(tells, <<[Step("tell", "none") EXCEPT !.of = passed]>>) \o rest]
               /\ lost' = IF tells THEN lost ELSE lost \cup passed
               /\ UNCHANGED err

NextIs(p, ops) == state[p] = "busy" /\ todo[p] # <<>> /\ Head(todo[p]).op \in ops
Drop(p) == [todo EXCEPT ![p] = Tail(@)]

(* A request is answered; with a done context it never is.                 *)
Request(p) ==
  /\ NextIs(p, {"fetch"}) /\ ~Done(p)
  /\ todo' = Drop(p)
  /\ UNCHANGED <<at, state, err, refused, repoCh, runCh, cause, results, faults, verdict>>

RequestFails(p) ==
  /\ NextIs(p, {"fetch"})
  /\ \/ /\ ~Done(p) /\ faults < MaxFaults /\ faults' = faults + 1
        /\ \E e \in {"fail", "gone"} : Handle(p, e)
     \/ Done(p) /\ Handle(p, "canceled") /\ UNCHANGED faults
  /\ UNCHANGED <<at, state, refused, repoCh, runCh, cause, visited, yielded, told, verdict>>

(* What is read is too deep, too large or not what it should be.           *)
Reject(p) ==
  /\ NextIs(p, {"fail"}) /\ Handle(p, "fail")
  /\ UNCHANGED <<at, state, refused, repoCh, runCh, cause, visited, yielded, told, faults, verdict>>

(* The session of a container scan keeps its yield from being called once  *)
(* it was refused, or once the context is done.                            *)
Withheld(p) == Targets[target].host = "container" /\ (refused # {} \/ Done(p))

WithholdYield(p) ==
  /\ NextIs(p, {"yield", "tell"}) /\ Withheld(p)
  /\ Handle(p, IF refused # {} THEN "refused" ELSE "canceled")
  /\ UNCHANGED <<at, state, refused, repoCh, runCh, cause, visited, yielded, told, faults, verdict>>

(* yield: the wrapper of wrapYieldWithAttrs takes the repository's mutex.  *)
(* The other sources call it as they are.                                  *)
(* Mutant: the wrapper takes no mutex.                                     *)
CallYieldUnlocked(p) ==
  /\ NextIs(p, {"yield", "tell"}) /\ ~Withheld(p)
  /\ state' = [state EXCEPT ![p] = "yielding"]
  /\ UNCHANGED <<at, todo, err, refused, repoCh, runCh, cause, results, faults, verdict>>

CallYield(p) ==
  /\ NextIs(p, {"yield", "tell"}) /\ ~Withheld(p)
  /\ (Plan.wrapped => \A q \in Procs : state[q] # "yielding")
  /\ state' = [state EXCEPT ![p] = "yielding"]
  /\ UNCHANGED <<at, todo, err, refused, repoCh, runCh, cause, results, faults, verdict>>

YieldAccepts(p) ==
  /\ state[p] = "yielding"
  /\ state' = [state EXCEPT ![p] = "busy"]
  /\ LET step == Head(todo[p])
     IN  IF step.op = "tell" THEN told' = told \cup step.of /\ UNCHANGED yielded
                             ELSE yielded' = yielded \cup {step.in} /\ UNCHANGED told
  /\ todo' = Drop(p)
  /\ UNCHANGED <<at, err, refused, repoCh, runCh, cause, visited, lost, faults, verdict>>

(* The refusal becomes the cause of Fragments' context, then the error of  *)
(* whatever called yield.                                                  *)
YieldRefuses(p) ==
  /\ state[p] = "yielding"
  /\ state' = [state EXCEPT ![p] = "busy"]
  /\ refused' = refused \cup {p}
  /\ cause' = IF Plan.wrapped THEN First(cause, "refused") ELSE cause
  /\ Handle(p, "refused")
  /\ UNCHANGED <<at, repoCh, runCh, visited, yielded, told, faults, verdict>>

ScriptStep(p) ==
  Request(p) \/ RequestFails(p) \/ Reject(p) \/ WithholdYield(p) \/ CallYield(p) \/ YieldAccepts(p) \/ YieldRefuses(p)

Ended(p) == state[p] = "busy" /\ todo[p] = <<>>

-----------------------------------------------------------------------------
(* Fragments.                                                              *)
Return(errs) ==
  /\ at' = "returned"
  /\ verdict' = (IF cause # "none" THEN {cause} ELSE errs) \ {"none"}

Begin ==
  /\ at = "begin"
  /\ IF Plan.accepted
     THEN /\ at' = "dispatch"
          /\ todo' = [todo EXCEPT !["main"] = Plan.dispatch]
          /\ state' = [state EXCEPT !["main"] = "busy"]
          /\ UNCHANGED verdict
     ELSE at' = "returned" /\ verdict' = {"fail"} /\ UNCHANGED <<todo, state>>
  /\ UNCHANGED <<err, refused, repoCh, runCh, cause, results, faults>>

(* The target is known: the one resource, or a user's gists, come first.   *)
Dispatched ==
  /\ at = "dispatch" /\ Ended("main")
  /\ IF err["main"] = "none"
     THEN at' = "alone" /\ todo' = [todo EXCEPT !["main"] = Plan.main] /\ UNCHANGED verdict
     ELSE Return({err["main"]}) /\ UNCHANGED todo
  /\ UNCHANGED <<state, err, refused, repoCh, runCh, cause, results, faults>>

StartEnumeration ==
  /\ at = "alone" /\ Ended("main")
  /\ IF Plan.enumerate /\ cause = "none"
     THEN /\ at' = "enumerating"
          /\ todo' = [todo EXCEPT !["enum"] = Plan.listing]
          /\ state' = [state EXCEPT !["main"] = "idle", !["enum"] = "busy", !["scan"] = "busy"]
          /\ UNCHANGED verdict
     ELSE Return({err["main"]}) /\ UNCHANGED <<todo, state>>
  /\ UNCHANGED <<err, refused, repoCh, runCh, cause, results, faults>>

(* The listing's error arrives, and cancels the scans.                     *)
(* Mutant: it is dropped.                                                  *)
EnumerationIgnored ==
  /\ at = "enumerating" /\ state["enum"] = "done" /\ at' = "joining"
  /\ UNCHANGED <<goroutines, cause, results, faults, verdict>>

EnumerationEnds ==
  /\ at = "enumerating" /\ state["enum"] = "done"
  /\ at' = "joining"
  /\ cause' = IF err["enum"] = "none" THEN cause ELSE First(cause, "fail")
  /\ UNCHANGED <<goroutines, results, faults, verdict>>

Join ==
  /\ at = "joining" /\ state["scan"] = "done"
  /\ Return({err["main"], err["scan"]})
  /\ UNCHANGED <<goroutines, cause, results, faults>>

-----------------------------------------------------------------------------
(* enumerateRepos and enumerateProjects: a repository is sent, or dropped  *)
(* once the context is done.                                               *)
SendRepo ==
  /\ NextIs("enum", {"send"})
  /\ \/ repoCh = <<>> /\ repoCh' = <<Head(todo["enum"]).in>>
     \/ Done("enum") /\ UNCHANGED repoCh
  /\ todo' = Drop("enum")
  /\ UNCHANGED <<at, state, err, refused, runCh, cause, results, faults, verdict>>

EndEnum ==
  /\ Ended("enum")
  /\ state' = [state EXCEPT !["enum"] = "done"]
  /\ UNCHANGED <<at, todo, err, refused, repoCh, runCh, cause, results, faults, verdict>>

(* The scan goroutine: the failure of one repository is kept, and does not *)
(* keep it from the next one; a done context does.                         *)
(* Mutant: the first failure ends the loop.                                *)
NextRepoUnlessFailed ==
  /\ Ended("scan") /\ repoCh # <<>> /\ repoCh' = <<>>
  /\ IF cause # "none" \/ err["scan"] # "none"
     THEN state' = [state EXCEPT !["scan"] = "done"] /\ UNCHANGED <<todo, visited>>
     ELSE /\ visited' = Append(visited, Head(repoCh))
          /\ todo' = [todo EXCEPT !["scan"] = Plan.scripts[Head(repoCh)]]
          /\ UNCHANGED state
  /\ UNCHANGED <<at, err, refused, runCh, cause, yielded, told, lost, faults, verdict>>

NextRepo ==
  /\ Ended("scan") /\ repoCh # <<>> /\ repoCh' = <<>>
  /\ IF cause # "none"
     THEN state' = [state EXCEPT !["scan"] = "done"] /\ UNCHANGED <<todo, visited>>
     ELSE /\ visited' = Append(visited, Head(repoCh))
          /\ todo' = [todo EXCEPT !["scan"] = Plan.scripts[Head(repoCh)]]
          /\ UNCHANGED state
  /\ UNCHANGED <<at, err, refused, runCh, cause, yielded, told, lost, faults, verdict>>

EndScan ==
  /\ Ended("scan") /\ repoCh = <<>> /\ state["enum"] = "done"
  /\ state' = [state EXCEPT !["scan"] = "done"]
  /\ UNCHANGED <<at, todo, err, refused, repoCh, runCh, cause, results, faults, verdict>>

-----------------------------------------------------------------------------
(* scanActions of a GitHub repository and Fragments of a file tree: an     *)
(* errgroup of a lister and workers.                                       *)
StartGroup(p) ==
  /\ NextIs(p, {"group"}) /\ state["list"] = "idle"
  /\ state' = [q \in Procs |-> IF q \in Group THEN "busy" ELSE state[q]]
  /\ todo' = [todo EXCEPT !["list"] = Plan.groups[Head(todo[p]).in]]
  /\ UNCHANGED <<at, err, refused, repoCh, runCh, cause, results, faults, verdict>>

(* An item is handed over; or the group is done: the lister's error.       *)
SendItem ==
  /\ NextIs("list", {"send"})
  /\ \/ /\ Len(runCh) < Cardinality(Workers)
        /\ runCh' = Append(runCh, Head(todo["list"]).in)
        /\ todo' = Drop("list") /\ UNCHANGED <<err, lost>>
     \/ Done("list") /\ Handle("list", "canceled") /\ UNCHANGED runCh
  /\ UNCHANGED <<at, state, refused, repoCh, cause, visited, yielded, told, faults, verdict>>

EndList ==
  /\ Ended("list")
  /\ state' = [state EXCEPT !["list"] = "done"]
  /\ UNCHANGED <<at, todo, err, refused, repoCh, runCh, cause, results, faults, verdict>>

(* Mutant: a worker goes on after an error.                                *)
TakeItemRegardless(w) ==
  /\ Ended(w) /\ runCh # <<>>
  /\ runCh' = Tail(runCh)
  /\ todo' = [todo EXCEPT ![w] = Plan.scripts[Head(runCh)]]
  /\ UNCHANGED <<at, state, err, refused, repoCh, cause, results, faults, verdict>>

TakeItem(w) ==
  /\ Ended(w) /\ err[w] = "none" /\ runCh # <<>>
  /\ runCh' = Tail(runCh)
  /\ todo' = [todo EXCEPT ![w] = Plan.scripts[Head(runCh)]]
  /\ UNCHANGED <<at, state, err, refused, repoCh, cause, results, faults, verdict>>

(* A worker leaves when the channel is closed and empty, or the group done *)
(* (in a file tree it then takes what is left, to no effect).              *)
EndWorker(w) ==
  /\ Ended(w) /\ ((runCh = <<>> /\ state["list"] = "done") \/ Done(w))
  /\ state' = [state EXCEPT ![w] = "done"]
  /\ UNCHANGED <<at, todo, err, refused, repoCh, runCh, cause, results, faults, verdict>>

(* g.Wait: the group's error is that of the resource.                      *)
(* Mutant: it is not returned.                                             *)
EndGroupQuietly(p) ==
  /\ NextIs(p, {"group"}) /\ \A q \in Group : state[q] = "done"
  /\ todo' = Drop(p)
  /\ state' = [q \in Procs |-> IF q \in Group THEN "idle" ELSE state[q]]
  /\ err' = [q \in Procs |-> IF q \in Group THEN "none" ELSE err[q]] /\ runCh' = <<>>
  /\ UNCHANGED <<at, refused, repoCh, cause, results, faults, verdict>>

EndGroup(p) ==
  /\ NextIs(p, {"group"}) /\ \A q \in Group : state[q] = "done"
  /\ todo' = IF GroupErr = "none" THEN Drop(p) ELSE [todo EXCEPT ![p] = <<>>]
  /\ err' = [q \in Procs |-> IF q \in Group THEN "none"
                              ELSE IF q = p THEN First(err[p], GroupErr) ELSE err[q]]
  /\ state' = [q \in Procs |-> IF q \in Group THEN "idle" ELSE state[q]]
  /\ runCh' = <<>>
  /\ UNCHANGED <<at, refused, repoCh, cause, results, faults, verdict>>

-----------------------------------------------------------------------------
(* The scan is cancelled from outside.                                     *)
Cancel ==
  /\ at # "returned" /\ cause = "none"
  /\ cause' = "canceled"
  /\ UNCHANGED <<target, at, goroutines, results, faults, verdict>>

Step1(p) ==
  /\ \/ ScriptStep(p)
     \/ p = "main" /\ (Begin \/ Dispatched \/ StartEnumeration \/ EnumerationEnds \/ Join)
     \/ p = "enum" /\ (SendRepo \/ EndEnum)
     \/ p = "scan" /\ (NextRepo \/ EndScan)
     \/ p \in {"main", "scan"} /\ (StartGroup(p) \/ EndGroup(p))
     \/ p = "list" /\ (SendItem \/ EndList)
     \/ p \in Workers /\ (TakeItem(p) \/ EndWorker(p))
  /\ UNCHANGED target

Progress == \E p \in Procs : Step1(p)

Finished == at = "returned" /\ UNCHANGED vars

Next == Cancel \/ Progress \/ Finished
-----------------------------------------------------------------------------
(* What the steps of a plan read: one of a worker's script what it yields; *)
(* one of a group's list also what the script yields that it sends to a    *)
(* worker; one that starts a group all that the group's list reads; and    *)
(* one of an enumeration all of the repository that it sends.              *)
YieldOf(x) == IF x.op = "yield" THEN {x.in} ELSE {}

InList(plan, x) == IF x.op = "send" THEN InputsOf(plan.scripts[x.in]) ELSE YieldOf(x)

InScript(plan, x) ==
  IF x.op = "group" THEN UNION {InList(plan, y) : y \in ToSet(plan.groups[x.in])} ELSE YieldOf(x)

Reads(plan, x) ==
  IF x.op = "send" THEN UNION {InScript(plan, y) : y \in ToSet(plan.scripts[x.in])}
  ELSE IF x.op = "tell" THEN x.of
  ELSE InScript(plan, x)

AllReads(plan, script) == UNION {Reads(plan, x) : x \in ToSet(script)}

Listing(plan) == IF plan.enumerate THEN plan.listing ELSE <<>>

InPlan(plan) == AllReads(plan, plan.dispatch) \cup AllReads(plan, plan.main) \cup AllReads(plan, Listing(plan))

(* What is sent sends nothing itself, and workers start no groups; and     *)
(* what a failure passes over is neither a group nor a repository with     *)
(* groups.                                                                 *)
Simple(plan, x) ==
  x.op # "group" /\ (x.op = "send" => \A y \in ToSet(plan.scripts[x.in]) : y.op # "group")

PassesOver(plan, script, k) ==
  \A over \in {script[k].onErr, script[k].onGone, script[k].onStop} \ {Fatal} :
    k + over \in DOMAIN script /\ \A j \in k..k + over : Simple(plan, script[j])

Regular(plan) ==
  /\ \A name \in DOMAIN plan.scripts : \A x \in ToSet(plan.scripts[name]) : x.op # "send"
  /\ \A name \in DOMAIN plan.groups : \A x \in ToSet(plan.groups[name]) : Simple(plan, x)
  /\ \A script \in Scripts(plan) : \A k \in DOMAIN script :
       script[k].op # "tell" /\ PassesOver(plan, script, k)

(* What a script sends, and one in which no failure passes that over.      *)
SendsOf(script) == {x.in : x \in {y \in ToSet(script) : y.op = "send"}}

SendsAll(script) ==
  \A k \in DOMAIN script : \A over \in {script[k].onErr, script[k].onGone} \ {Fatal} :
    \A j \in k..k + over : script[j].op # "send"

(* Nothing is passed over without being told.                              *)
Tells(plan) ==
  ~plan.wrapped /\ \A script \in Scripts(plan) : \A x \in ToSet(script) :
    x.tell \/ (x.onErr = Fatal /\ x.onGone = Fatal)

(* No input is in two places of a plan.                                    *)
Separate(plan, script) ==
  \A j, k \in DOMAIN script : j # k => Reads(plan, script[j]) \cap Reads(plan, script[k]) = {}

ReadOnce(plan) ==
  /\ \A script \in Scripts(plan) : Separate(plan, script)
  /\ AllReads(plan, plan.dispatch) \cap (AllReads(plan, plan.main) \cup AllReads(plan, Listing(plan))) = {}
  /\ AllReads(plan, plan.main) \cap AllReads(plan, Listing(plan)) = {}

(* The inputs that the options of a target select are listed by hand in    *)
(* the targets, as wanted and wantedRepos.                                 *)

(* A nil error: every selected input was yielded, or was passed over by a  *)
(* failure that was yielded or logged; and nothing else was yielded.       *)
NilMeansScanned ==
  at = "returned" /\ verdict = {} => Targets[target].wanted = yielded \cup told \cup lost

Yielders == {p \in Procs : state[p] = "yielding" /\ Head(todo[p]).op = "yield"}

(* No input is yielded twice: not by a second listing, a repository of two *)
(* groups, a page that is asked for again, two workers or a second link;   *)
(* and a wrapped yield is never called by two goroutines at once.          *)
YieldedOnce ==
  \A p \in Yielders :
    /\ Head(todo[p]).in \in Targets[target].wanted \ (yielded \cup told \cup lost)
    /\ Plan.wrapped => Yielders = {p}

(* Unless the scan was stopped, the failure of one repository keeps no     *)
(* other from being scanned.                                               *)
EveryRepository ==
  at = "returned" /\ cause = "none" /\ state["enum"] = "done" =>
    ToSet(visited) = Targets[target].wantedRepos

(* A container's layers may hide any failure in a later layer or a nested  *)
(* archive: whatever was passed over was yielded as a coverage failure.    *)
CoverageReported == Targets[target].host = "container" => lost = {}

(* Where no context is cancelled by it, a refusal alone ends everything a  *)
(* goroutine has still to do, however deep in archives or layers it is.    *)
RefusalIsFinal == ~Plan.wrapped => \A p \in refused : todo[p] = <<>>

(* Fragments waits for every goroutine that it has started.                *)
NothingLeftBehind ==
  at = "returned" =>
    /\ \A p \in Procs \ {"main"} : state[p] \in {"idle", "done"}
    /\ state["main"] # "yielding" /\ todo["main"] = <<>>

(* sources/source.go: "A source must stop producing when yield returns an  *)
(* error and propagate that error." No goroutine that was refused a        *)
(* fragment yields another.                                                *)
StopsAfterRefusal == \A p \in refused : state[p] # "yielding"

(* What SourceContract sees of it.                                         *)
Phase    == IF at = "returned" THEN "returned" ELSE "running"
Yielding == {Head(todo[p]).in : p \in Yielders}
Stopped  == cause # "none" \/ refused # {}
Failed   == \E p \in Procs \ Workers : err[p] = "fail"
=============================================================================
