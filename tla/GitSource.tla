----------------------------- MODULE GitSource -----------------------------
(***************************************************************************)
(* sources/git.go: the scan of a local repository by git processes. A      *)
(* reader starts one git process at a time and takes records (hunks,       *)
(* messages) from its standard output: the history workers read the        *)
(* patches of a chunk of commits and then their messages, and "main" reads *)
(* the reflogs and then the tag messages, or the whole history itself.     *)
(* Next to a process that prints patches a listener reads its standard     *)
(* error and hands over what it has collected when that ends.              *)
(*                                                                         *)
(* External: git itself, its two pipes of bounded capacity, and os/exec,   *)
(* which kills the process when the reader's context is done and whose     *)
(* Wait then returns the context's error.                                  *)
(***************************************************************************)
EXTENDS Naturals, Sequences, FiniteSets, SequencesExt

CONSTANTS
  Workers,      (* the history workers, at most four in the code            *)
  Targets,      (* repositories and options, by name: the commits (each     *)
                (* with its hunks, a sequence of records, and its message), *)
                (* reflogs, tags, include, and whether main reads the       *)
                (* history (full) because of log options                    *)
  MaxFaults     (* bound: how often something fails of itself               *)

VARIABLES
  target,     (* what is scanned                                            *)
  phase,      (* where Fragments is                                         *)
  at,         (* of each reader: what it does                               *)
  stage,      (* of each reader: what its process prints                    *)
  cur,        (* of each reader: the record in hand                         *)
  errs,       (* of each reader: the errors that it joins                   *)
  git,        (* of each reader: its process                                *)
  listener,   (* of each reader: the goroutine at the process' stderr       *)
  groupErr,   (* the first error of the workers' errgroup                   *)
  ctxDone,    (* the caller's context is cancelled                          *)
  refused,    (* yield has returned an error                                *)
  yielded, lost, (* the inputs accepted; the archives lost, and logged      *)
  faults,     (* how often something has failed of itself                   *)
  verdict     (* what Fragments returned                                    *)

reader == <<at, stage, cur, errs, git, listener>>
vars == <<target, phase, reader, groupErr, ctxDone, refused, yielded, lost, faults, verdict>>

Readers == Workers \cup {"main"}
T == Targets[target]

NoProcess == [run |-> "none", out |-> <<>>, stdout |-> <<>>, stderr |-> <<>>, code |-> "ok", stopped |-> FALSE]

Init ==
  /\ target \in DOMAIN Targets /\ phase = "begin"
  /\ at = [p \in Readers |-> "idle"] /\ stage = [p \in Readers |-> "log"]
  /\ cur = [p \in Readers |-> <<>>] /\ errs = [p \in Readers |-> {}]
  /\ git = [p \in Readers |-> NoProcess] /\ listener = [p \in Readers |-> "none"]
  /\ groupErr = {} /\ ctxDone = FALSE /\ refused = FALSE
  /\ yielded = {} /\ lost = {} /\ faults = 0 /\ verdict = {}

(* The context of a worker is done with its group's.                       *)
Done(p) == ctxDone \/ (p # "main" /\ groupErr # {})

-----------------------------------------------------------------------------
(* fragmentsFromRepo: the commits are cut into chunks of equal size, the   *)
(* last one shorter, and none is left for the last workers.                *)
WorkerNo == CHOOSE f \in [Workers -> 0..Cardinality(Workers) - 1] :
              \A v, w \in Workers : f[v] = f[w] => v = w

(* Mutant: the size of a chunk is rounded down.                            *)
ChunkRoundedDown(t, w) ==
  LET n == Len(t.commits)
      workers == IF Cardinality(Workers) < n THEN Cardinality(Workers) ELSE n
      size == n \div workers
      first == WorkerNo[w] * size
  IN  SubSeq(t.commits, first + 1, IF first + size < n THEN first + size ELSE n)

Chunk(t, w) ==
  LET n == Len(t.commits)
      workers == IF Cardinality(Workers) < n THEN Cardinality(Workers) ELSE n
      size == (n + workers - 1) \div workers
      first == WorkerNo[w] * size
  IN  SubSeq(t.commits, first + 1, IF first + size < n THEN first + size ELSE n)

Commits(t, p) == IF p = "main" THEN t.commits ELSE Chunk(t, p)

(* What the process of a stage prints. Tags are asked for one by one; one  *)
(* that tags another tag appends it, and none is asked for twice.          *)
TagOrder(t) ==
  LET Nested(tag) == SelectSeq(t.tags, LAMBDA other : other.in = tag.nested)
      all == t.refs \o FlattenSeq([k \in DOMAIN t.refs |-> Nested(t.refs[k])])
  IN  FlattenSeq([k \in DOMAIN all |->
        IF \E j \in 1..k - 1 : all[j].in = all[k].in THEN <<>>
        ELSE <<[in |-> all[k].in, kind |-> "record"]>>])

Prints(t, p, s) ==
  IF s = "log" THEN FlattenSeq([k \in DOMAIN Commits(t, p) |-> Commits(t, p)[k].hunks])
  ELSE IF s = "messages"
    THEN [k \in DOMAIN Commits(t, p) |-> [in |-> Commits(t, p)[k].message, kind |-> "record"]]
  ELSE IF s = "reflogs" THEN [k \in DOMAIN t.reflogs |-> [in |-> t.reflogs[k], kind |-> "record"]]
  ELSE TagOrder(t)

Stages == {"log", "messages", "reflogs", "tags"}
Kinds == {"record", "archive", "warning"}

(* Git prints records; archives are found in patches only.                 *)
Assumptions ==
  /\ IsFiniteSet(Workers) /\ Workers # {} /\ "main" \notin Workers /\ MaxFaults \in Nat
  /\ \A t \in DOMAIN Targets, p \in Readers, s \in Stages :
       LET prints == Prints(Targets[t], p, s)
       IN  /\ prints \in Seq(ToSet(prints))
           /\ \A x \in ToSet(prints) : x.kind \in IF s = "log" THEN Kinds ELSE {"record"}

-----------------------------------------------------------------------------
(* The git process, external: it writes while its pipes have room (for one *)
(* record and for one line), it may break off, and it ends.                *)
GitWrites(p) ==
  /\ git[p].run = "running" /\ git[p].out # <<>>
  /\ LET x == Head(git[p].out)
     IN  IF x.kind = "warning"
         THEN git[p].stderr = <<>> /\ git' = [git EXCEPT ![p].out = Tail(@), ![p].stderr = <<"warning">>]
         ELSE git[p].stdout = <<>> /\ git' = [git EXCEPT ![p].out = Tail(@), ![p].stdout = <<x>>]
  /\ UNCHANGED <<phase, at, stage, cur, errs, listener, groupErr, ctxDone, refused, yielded, lost, faults, verdict>>

GitBreaksOff(p) ==
  /\ git[p].run = "running" /\ git[p].stderr = <<>>
  /\ faults < MaxFaults /\ faults' = faults + 1
  /\ \E said \in {<<>>, <<"error">>} :
       git' = [git EXCEPT ![p].out = <<>>, ![p].run = "ended", ![p].code = "exit", ![p].stderr = said]
  /\ UNCHANGED <<phase, at, stage, cur, errs, listener, groupErr, ctxDone, refused, yielded, lost, verdict>>

(* With a done context os/exec kills the process; one that has exited      *)
(* without a failure by then may still get the context's error.            *)
GitEnds(p) ==
  /\ git[p].run = "running"
  /\ \/ git[p].out = <<>> /\ git' = [git EXCEPT ![p].run = "ended"]
     \/ /\ Done(p) /\ \E code \in {"killed", "late"} :
             /\ code = "late" => git[p].out = <<>>
             /\ git' = [git EXCEPT ![p].run = "ended", ![p].out = <<>>, ![p].code = code]
  /\ UNCHANGED <<phase, at, stage, cur, errs, listener, groupErr, ctxDone, refused, yielded, lost, faults, verdict>>

-----------------------------------------------------------------------------
(* listenForStdErr: known warnings are logged, other lines are joined into *)
(* one error, which is sent on an unbuffered channel at the end.           *)
Listen(p) ==
  /\ listener[p] \in {"quiet", "heard"} /\ git[p].stderr # <<>>
  /\ git' = [git EXCEPT ![p].stderr = <<>>]
  /\ listener' = [listener EXCEPT ![p] = IF git[p].stderr = <<"error">> THEN "heard" ELSE @]
  /\ UNCHANGED <<phase, at, stage, cur, errs, groupErr, ctxDone, refused, yielded, lost, faults, verdict>>

ListenEnds(p) ==
  /\ listener[p] \in {"quiet", "heard"} /\ git[p].stderr = <<>> /\ git[p].run # "running"
  /\ listener' = [listener EXCEPT ![p] = IF @ = "heard" THEN "sending" ELSE "closed"]
  /\ UNCHANGED <<phase, at, stage, cur, errs, git, groupErr, ctxDone, refused, yielded, lost, faults, verdict>>

-----------------------------------------------------------------------------
(* A reader starts a process, with a listener only where it prints patches;*)
(* the others keep stderr in a buffer.                                     *)
Start(p) ==
  /\ at[p] = "start"
  /\ IF Done(p)
     THEN at' = [at EXCEPT ![p] = "ended"] /\ errs' = [errs EXCEPT ![p] = @ \cup {"canceled"}] /\ UNCHANGED <<git, listener>>
     ELSE /\ at' = [at EXCEPT ![p] = "read"]
          /\ git' = [git EXCEPT ![p] = [NoProcess EXCEPT !.run = "running", !.out = Prints(T, p, stage[p])]]
          /\ listener' = [listener EXCEPT ![p] = IF stage[p] = "log" THEN "quiet" ELSE "none"]
          /\ UNCHANGED errs
  /\ UNCHANGED <<phase, stage, cur, groupErr, ctxDone, refused, yielded, lost, faults, verdict>>

(* readGitPatch and the loops over messages check the context before they  *)
(* take a record, which may have arrived or may be cut off.                *)
Fails(p, e, next) ==
  errs' = [errs EXCEPT ![p] = @ \cup {e}] /\ at' = [at EXCEPT ![p] = next]

ReadRecord(p) ==
  /\ at[p] = "read"
  /\ \/ /\ git[p].stdout # <<>>
        /\ cur' = [cur EXCEPT ![p] = git[p].stdout]
        /\ git' = [git EXCEPT ![p].stdout = <<>>]
        /\ at' = [at EXCEPT ![p] = IF Head(git[p].stdout).kind = "archive" THEN "blob" ELSE "yield"]
        /\ UNCHANGED <<errs, faults>>
     \/ Done(p) /\ Fails(p, "canceled", "kill") /\ UNCHANGED <<cur, git, faults>>
     \/ /\ git[p].stdout # <<>> /\ faults < MaxFaults /\ faults' = faults + 1
        /\ Fails(p, "fail", "kill") /\ UNCHANGED <<cur, git>>
  /\ UNCHANGED <<phase, stage, listener, groupErr, ctxDone, refused, yielded, lost, verdict>>

(* The output ends: fine behind the last record, and in a patch wherever   *)
(* the process stopped between two records. A loop over a known number of  *)
(* messages finds an end that comes too early; the one over reflogs ends   *)
(* with its process.                                                       *)
Complete(p) == \A x \in ToSet(Prints(T, p, stage[p])) : x.kind = "warning" \/ x.in \in yielded

ReadEnd(p) ==
  /\ at[p] = "read" /\ git[p].stdout = <<>> /\ git[p].run = "ended"
  /\ IF stage[p] \in {"messages", "tags"} /\ ~Complete(p) THEN Fails(p, "fail", "kill")
     ELSE \/ git[p].code # "ok" /\ Fails(p, "fail", "kill")
          \/ Done(p) /\ Fails(p, "canceled", "kill")
          \/ ~Done(p) /\ at' = [at EXCEPT ![p] = "drain"] /\ UNCHANGED errs
  /\ UNCHANGED <<phase, stage, cur, git, listener, groupErr, ctxDone, refused, yielded, lost, faults, verdict>>

(* fragmentsFromArchive: a second process prints the archive. One that     *)
(* cannot be started is logged; blobReader.Close drains and waits.         *)
OpenBlob(p) ==
  /\ at[p] = "blob"
  /\ \/ at' = [at EXCEPT ![p] = "yield"] /\ UNCHANGED <<lost, faults>>
     \/ /\ Done(p) \/ faults < MaxFaults
        /\ faults' = IF Done(p) THEN faults ELSE faults + 1
        /\ lost' = lost \cup {Head(cur[p]).in} /\ at' = [at EXCEPT ![p] = "read"]
  /\ UNCHANGED <<phase, stage, cur, errs, git, listener, groupErr, ctxDone, refused, yielded, verdict>>

YieldAccepts(p) ==
  /\ at[p] = "yield"
  /\ yielded' = yielded \cup {Head(cur[p]).in} /\ at' = [at EXCEPT ![p] = "read"]
  /\ UNCHANGED <<phase, stage, cur, errs, git, listener, groupErr, ctxDone, refused, lost, faults, verdict>>

YieldRefuses(p) ==
  /\ at[p] = "yield"
  /\ refused' = TRUE /\ Fails(p, "refused", "kill")
  /\ UNCHANGED <<phase, stage, cur, git, listener, groupErr, ctxDone, yielded, lost, faults, verdict>>

(* After an error the process is killed, unless it has ended: Kill in      *)
(* runGitCmd, and the cancel of the other readers.                         *)
Kill(p) ==
  /\ at[p] = "kill" /\ at' = [at EXCEPT ![p] = "drain"]
  /\ git' = IF git[p].run = "running"
            THEN [git EXCEPT ![p].run = "ended", ![p].out = <<>>, ![p].code = "killed", ![p].stopped = TRUE]
            ELSE [git EXCEPT ![p].stopped = TRUE]
  /\ UNCHANGED <<phase, stage, cur, errs, listener, groupErr, ctxDone, refused, yielded, lost, faults, verdict>>

(* for err := range cmd.errCh: the listener's error is taken, until it has *)
(* closed the channel.                                                     *)
(* Mutant: the channel is not read.                                        *)
DrainNothing(p) ==
  /\ at[p] = "drain" /\ at' = [at EXCEPT ![p] = "wait"]
  /\ UNCHANGED <<phase, stage, cur, errs, git, listener, groupErr, ctxDone, refused, yielded, lost, faults, verdict>>

Drain(p) ==
  /\ at[p] = "drain"
  /\ \/ listener[p] = "sending" /\ listener' = [listener EXCEPT ![p] = "closed"]
        /\ errs' = [errs EXCEPT ![p] = @ \cup {"fail"}] /\ UNCHANGED at
     \/ listener[p] \in {"closed", "none"} /\ at' = [at EXCEPT ![p] = "wait"] /\ UNCHANGED <<errs, listener>>
  /\ UNCHANGED <<phase, stage, cur, git, groupErr, ctxDone, refused, yielded, lost, faults, verdict>>

(* cmd.Wait: the exit by a signal adds nothing to the error for which the  *)
(* reader has killed the process.                                          *)
(* Mutant: it is reported as well.                                         *)
WaitErrorOfSignal(p) ==
  IF git[p].code \in {"exit", "killed"} THEN {"fail"}
  ELSE IF git[p].code = "late" THEN {"canceled"} ELSE {}

WaitError(p) ==
  IF git[p].code = "exit" \/ (git[p].code = "killed" /\ ~git[p].stopped) THEN {"fail"}
  ELSE IF git[p].code = "late" THEN {"canceled"} ELSE {}

(* The messages of the commits come behind their patches, and main's own   *)
(* stages behind the history.                                              *)
Follows(p, s) ==
  IF s = "log" /\ "messages" \in T.include THEN "messages"
  ELSE IF p = "main" /\ s \in {"log", "messages"} /\ "reflogs" \in T.include THEN "reflogs"
  ELSE IF p = "main" /\ s # "tags" /\ "tags" \in T.include /\ T.refs # <<>> THEN "tags"
  ELSE "end"

WaitProcess(p) ==
  /\ at[p] = "wait" /\ git[p].run = "ended"
  /\ git' = [git EXCEPT ![p] = NoProcess]
  /\ LET all == IF stage[p] = "log" THEN errs[p] \cup WaitError(p)
                ELSE IF errs[p] = {} THEN WaitError(p) ELSE errs[p]
     IN  /\ errs' = [errs EXCEPT ![p] = all]
         /\ IF all = {} /\ Follows(p, stage[p]) # "end"
            THEN at' = [at EXCEPT ![p] = "start"] /\ stage' = [stage EXCEPT ![p] = Follows(p, @)]
            ELSE at' = [at EXCEPT ![p] = "ended"] /\ UNCHANGED stage
  /\ UNCHANGED <<phase, cur, listener, groupErr, ctxDone, refused, yielded, lost, faults, verdict>>

ReaderStep(p) ==
  /\ \/ GitWrites(p) \/ GitBreaksOff(p) \/ GitEnds(p) \/ Listen(p) \/ ListenEnds(p) \/ Start(p) \/ ReadRecord(p)
     \/ ReadEnd(p) \/ OpenBlob(p) \/ YieldAccepts(p) \/ YieldRefuses(p) \/ Kill(p) \/ Drain(p) \/ WaitProcess(p)
  /\ UNCHANGED target

-----------------------------------------------------------------------------
(* Fragments: with log options one process walks the history; otherwise    *)
(* the commits are listed and cut into chunks.                             *)
Return(errors) == phase' = "returned" /\ verdict' = errors

Begin ==
  /\ phase = "begin"
  /\ \/ T.full /\ phase' = "reading" /\ at' = [at EXCEPT !["main"] = "start"] /\ UNCHANGED <<faults, verdict>>
     \/ /\ ~T.full /\ ~ctxDone /\ UNCHANGED <<faults, verdict>>
        /\ phase' = "workers"
        /\ at' = [p \in Readers |-> IF p # "main" /\ Chunk(T, p) # <<>> THEN "start" ELSE at[p]]
     \/ /\ ~T.full /\ (ctxDone \/ faults < MaxFaults) /\ UNCHANGED at
        /\ faults' = IF ctxDone THEN faults ELSE faults + 1
        /\ \E e \in {"fail"} \cup (IF ctxDone THEN {"canceled"} ELSE {}) : Return({e})
  /\ UNCHANGED <<stage, cur, errs, git, listener, groupErr, ctxDone, refused, yielded, lost>>

(* A worker returns: the errgroup keeps the first error.                   *)
WorkerReturns(p) ==
  /\ p # "main" /\ at[p] = "ended"
  /\ at' = [at EXCEPT ![p] = "returned"]
  /\ groupErr' = IF groupErr = {} THEN errs[p] ELSE groupErr
  /\ UNCHANGED <<phase, stage, cur, errs, git, listener, ctxDone, refused, yielded, lost, faults, verdict>>

(* g.Wait returns; without an error the reflogs and tags follow.           *)
(* Mutant: it is not waited for.                                           *)
JoinEarly ==
  /\ phase = "workers" /\ Return(groupErr)
  /\ UNCHANGED <<at, stage, cur, errs, git, listener, groupErr, ctxDone, refused, yielded, lost, faults>>

Join ==
  /\ phase = "workers" /\ \A p \in Workers : at[p] \in {"idle", "returned"}
  /\ IF groupErr = {} /\ Follows("main", "messages") # "end"
     THEN /\ phase' = "reading" /\ at' = [at EXCEPT !["main"] = "start"]
          /\ stage' = [stage EXCEPT !["main"] = Follows("main", "messages")] /\ UNCHANGED verdict
     ELSE Return(groupErr) /\ UNCHANGED <<at, stage>>
  /\ UNCHANGED <<cur, errs, git, listener, groupErr, ctxDone, refused, yielded, lost, faults>>

Finish ==
  /\ phase = "reading" /\ at["main"] = "ended"
  /\ Return(errs["main"])
  /\ UNCHANGED <<reader, groupErr, ctxDone, refused, yielded, lost, faults>>

Cancel ==
  /\ phase # "returned" /\ ~ctxDone /\ ctxDone' = TRUE
  /\ UNCHANGED <<target, phase, reader, groupErr, refused, yielded, lost, faults, verdict>>

Control == (Begin \/ Join \/ Finish \/ \E p \in Workers : WorkerReturns(p)) /\ UNCHANGED target

Progress == Control \/ \E p \in Readers : ReaderStep(p)

Finished == phase = "returned" /\ UNCHANGED vars

Next == Cancel \/ Progress \/ Finished

-----------------------------------------------------------------------------
(* The stages that a reader comes to, and what is to be read in them.      *)
StagesOf(t, p) ==
  IF p = "main"
  THEN {s \in Stages :
          \/ s = "log" /\ t.full
          \/ s = "messages" /\ t.full /\ s \in t.include
          \/ s = "reflogs" /\ s \in t.include
          \/ s = "tags" /\ s \in t.include /\ t.refs # <<>>}
  ELSE {s \in {"log", "messages"} :
          ~t.full /\ Chunk(t, p) # <<>> /\ (s = "messages" => s \in t.include)}

InputsIn(lines) == {x.in : x \in {y \in ToSet(lines) : y.kind # "warning"}}

AllReads(t) == UNION {UNION {InputsIn(Prints(t, p, s)) : s \in StagesOf(t, p)} : p \in Readers}

(* No input is printed twice.                                              *)
Separate(lines) ==
  \A j, k \in DOMAIN lines :
    j # k /\ lines[j].kind # "warning" /\ lines[k].kind # "warning" => lines[j].in # lines[k].in

ReadOnce(t) ==
  \A p, q \in Readers : \A s \in StagesOf(t, p), r \in StagesOf(t, q) :
    IF p = q /\ s = r THEN Separate(Prints(t, p, s))
    ELSE InputsIn(Prints(t, p, s)) \cap InputsIn(Prints(t, q, r)) = {}

(* A nil error: each selected record of the repository was yielded once,   *)
(* but for archives whose loss was logged: the chunks overlap nowhere and  *)
(* leave nothing out, and no process was cut short without being noticed.  *)
NilMeansAllRead ==
  /\ phase = "returned" /\ verdict = {} => T.wanted = yielded \cup lost
  /\ \A p \in Readers : at[p] = "yield" => Head(cur[p]).in \in T.wanted \ (yielded \cup lost)

(* When Fragments returns, no git process is left unreaped, no listener is *)
(* left blocked at its channel, and no reader is left.                     *)
NothingLeftBehind ==
  phase = "returned" =>
    \A p \in Readers : git[p].run = "none" /\ listener[p] \in {"none", "closed"} /\ at[p] \in {"idle", "ended", "returned"}

(* "Killing Git is cleanup after the original failure": what is returned   *)
(* for a refused fragment, while nothing failed, names no failure.         *)
KillNotReported ==
  phase = "returned" /\ refused /\ faults = 0 /\ ~ctxDone => verdict = {"refused"}

(* What SourceContract sees of it.                                         *)
Phase    == IF phase = "returned" THEN "returned" ELSE "running"
Yielding == {Head(cur[p]).in : p \in {q \in Readers : at[q] = "yield"}}
Stopped  == ctxDone \/ refused
Failed   == \E p \in Readers : "fail" \in errs[p]
=============================================================================
