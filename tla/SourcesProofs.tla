--------------------------- MODULE SourcesProofs ----------------------------
(***************************************************************************)
(* Proofs about the sources: for any target, any number of workers and of  *)
(* failures, no goroutine and no process of a source is left behind when   *)
(* it returns, a refusal is final, and each source is one as               *)
(* sources/source.go defines it. Each source has an inductive invariant of *)
(* its own, and a lemma that says which steps of the contract it takes.    *)
(***************************************************************************)
EXTENDS Sources, TLAPS, SequenceTheorems, FiniteSetTheorems

Errors == {"fail", "canceled", "refused"}

-----------------------------------------------------------------------------
(* GitSource: what its variables hold.                                     *)
GitLines ==
  UNION {Git!ToSet(Git!Prints(Repositories[t], p, s)) :
           t \in DOMAIN Repositories, p \in Git!Readers, s \in Git!Stages}

Processes ==
  [run : {"none", "running", "ended"}, out : Seq(GitLines), stdout : Seq(GitLines),
   stderr : {<<>>, <<"warning">>, <<"error">>}, code : {"ok", "exit", "killed", "late"},
   stopped : BOOLEAN]

GitTypes ==
  /\ target \in DOMAIN Repositories
  /\ phase \in {"begin", "workers", "reading", "returned"}
  /\ at \in [Git!Readers -> {"idle", "start", "read", "blob", "yield", "kill", "drain", "wait",
                             "ended", "returned"}]
  /\ stage \in [Git!Readers -> Git!Stages]
  /\ cur \in [Git!Readers -> Seq(GitLines)]
  /\ errs \in [Git!Readers -> SUBSET Errors]
  /\ git \in [Git!Readers -> Processes]
  /\ listener \in [Git!Readers -> {"none", "quiet", "heard", "sending", "closed"}]
  /\ groupErr \subseteq Errors /\ verdict \subseteq Errors
  /\ ctxDone \in BOOLEAN /\ refused \in BOOLEAN /\ faults \in Nat

(* Where Fragments is decides who reads.                                   *)
GitPhases ==
  /\ phase = "begin" => \A p \in Git!Readers : at[p] = "idle"
  /\ phase \in {"begin", "workers"} => at["main"] = "idle"
  /\ phase \in {"begin", "reading"} => groupErr = {}
  /\ phase \in {"reading", "returned"} => \A p \in Workers : at[p] \in {"idle", "returned"}
  /\ phase = "returned" => at["main"] \in {"idle", "ended"}
  /\ at["main"] # "returned"

(* A process and its listener exist only between start and wait.           *)
GitProcess(p) ==
  /\ at[p] \in {"idle", "start", "ended", "returned"} =>
       git[p] = Git!NoProcess /\ listener[p] \in {"none", "closed"}
  /\ at[p] \in {"read", "blob", "yield", "kill", "drain", "wait"} => git[p].run # "none"
  /\ at[p] = "wait" => listener[p] \in {"none", "closed"}
  /\ git[p].run = "ended" => git[p].out = <<>>
  /\ \A k \in DOMAIN git[p].stdout : k = 1 /\ git[p].stdout[k].kind # "warning"
  /\ at[p] \in {"blob", "yield"} => cur[p] # <<>> /\ Head(cur[p]).kind # "warning"

(* What a reader's errors say of the scan; a worker's reach the group.     *)
GitErrors(p) ==
  /\ at[p] \in {"idle", "start", "read", "blob", "yield"} => errs[p] = {}
  /\ "refused" \in errs[p] => refused
  /\ "canceled" \in errs[p] => Git!Done(p)
  /\ git[p].code = "late" => Git!Done(p)
  /\ at[p] = "returned" /\ errs[p] # {} => groupErr # {}

GitGroup ==
  /\ "refused" \in groupErr => refused
  /\ "canceled" \in groupErr => ctxDone
  /\ refused => \E p \in Git!Readers : "refused" \in errs[p]

(* Nothing has failed, and nobody has stopped reader p from outside.       *)
Undisturbed(p) == faults = 0 /\ ~ctxDone /\ (p = "main" \/ groupErr = {})

(* Then its process is cut short by the reader only, after a refusal.      *)
GitClean(p) ==
  Undisturbed(p) =>
    /\ errs[p] \subseteq {"refused"}
    /\ git[p].stderr # <<"error">> /\ listener[p] \notin {"heard", "sending"}
    /\ git[p].code = "ok" \/ (git[p].code = "killed" /\ git[p].stopped /\ at[p] \in {"drain", "wait"})

(* Every record of the loops over messages and tags is yielded, in hand,   *)
(* in the pipe, or yet to be written, unless the process was cut short.    *)
GitRecords(p) ==
  stage[p] # "log" =>
    /\ at[p] # "blob"
    /\ \A k \in DOMAIN git[p].out : git[p].out[k].kind = "record"
    /\ \A k \in DOMAIN git[p].stdout : git[p].stdout[k].kind = "record"
    /\ at[p] \in {"read", "yield"} /\ git[p].code = "ok" =>
         \A x \in Git!ToSet(Git!Prints(Git!T, p, stage[p])) :
           \/ x.in \in yielded \/ x \in Git!ToSet(git[p].out) \/ x \in Git!ToSet(git[p].stdout)
           \/ at[p] = "yield" /\ x = Head(cur[p])

GitReader(p) == GitProcess(p) /\ GitErrors(p) /\ GitClean(p) /\ GitRecords(p)

GitInv ==
  /\ GitTypes /\ GitPhases /\ GitGroup
  /\ \A p \in Git!Readers : GitReader(p)
  /\ faults = 0 /\ ~ctxDone => groupErr \subseteq {"refused"}
  /\ Git!KillNotReported

-----------------------------------------------------------------------------
(* What git prints is a sequence of lines.                                 *)
LEMMA PrintsAreLines ==
  ASSUME NEW t \in DOMAIN Repositories, NEW p \in Git!Readers, NEW s \in Git!Stages
  PROVE  /\ Git!Prints(Repositories[t], p, s) \in Seq(GitLines)
         /\ s # "log" => \A k \in DOMAIN Git!Prints(Repositories[t], p, s) :
                            Git!Prints(Repositories[t], p, s)[k].kind = "record"
<1> DEFINE prints == Git!Prints(Repositories[t], p, s)
<1>1. /\ prints \in Seq(Git!ToSet(prints))
      /\ \A x \in Git!ToSet(prints) : x.kind \in IF s = "log" THEN Git!Kinds ELSE {"record"}
  BY InstancesAreAdmissible DEF Git!Assumptions
<1>2. Git!ToSet(prints) \subseteq GitLines
  BY DEF GitLines
<1> HIDE DEF prints
<1>3. prints \in Seq(GitLines)
  BY <1>1, <1>2
<1>4. s # "log" => \A k \in DOMAIN prints : prints[k].kind = "record"
  BY <1>1 DEF Git!ToSet
<1>5. QED
  BY <1>3, <1>4 DEF prints

(* A sequence is its head and its tail.                                    *)
LEMMA HeadAndTail ==
  ASSUME NEW S, NEW s \in Seq(S), s # <<>>
  PROVE  /\ Head(s) \in S /\ Tail(s) \in Seq(S)
         /\ Git!ToSet(s) = {Head(s)} \cup Git!ToSet(Tail(s))
         /\ Head(s) = s[1] /\ 1 \in DOMAIN s
         /\ \A k \in DOMAIN Tail(s) : k + 1 \in DOMAIN s /\ Tail(s)[k] = s[k + 1]
<1>1. Len(s) \in Nat \ {0} /\ DOMAIN s = 1..Len(s)
  OBVIOUS
<1>2. Head(s) = s[1] /\ 1 \in DOMAIN s /\ Head(s) \in S /\ Tail(s) \in Seq(S)
  BY <1>1
<1>3. DOMAIN Tail(s) = 1..Len(s) - 1
  BY <1>1
<1>4. \A k \in DOMAIN Tail(s) : k + 1 \in DOMAIN s /\ Tail(s)[k] = s[k + 1]
  BY <1>1, <1>3
<1>5. Git!ToSet(s) \subseteq {Head(s)} \cup Git!ToSet(Tail(s))
  <2> SUFFICES ASSUME NEW k \in DOMAIN s, k # 1
               PROVE  s[k] \in Git!ToSet(Tail(s))
    BY <1>2 DEF Git!ToSet
  <2>1. k - 1 \in DOMAIN Tail(s) /\ Tail(s)[k - 1] = s[k]
    BY <1>1, <1>3, <1>4
  <2>2. QED
    BY <2>1 DEF Git!ToSet
<1>6. {Head(s)} \cup Git!ToSet(Tail(s)) \subseteq Git!ToSet(s)
  BY <1>2, <1>4 DEF Git!ToSet
<1>7. QED
  BY <1>2, <1>4, <1>5, <1>6

(* What a reader's own step may touch.                                     *)
GitSame(q) ==
  /\ at'[q] = at[q] /\ stage'[q] = stage[q] /\ cur'[q] = cur[q]
  /\ errs'[q] = errs[q] /\ git'[q] = git[q] /\ listener'[q] = listener[q]

GitFrame(p) ==
  /\ \A q \in Git!Readers \ {p} : GitSame(q)
  /\ UNCHANGED <<target, phase, groupErr, ctxDone, verdict>>
  /\ refused => refused'
  /\ refused' => refused \/ "refused" \in errs'[p]
  /\ "refused" \in errs[p] => "refused" \in errs'[p]
  /\ yielded \subseteq yielded'
  /\ faults' = 0 => faults = 0

(* The others keep their part of the invariant.                            *)
LEMMA GitOthers ==
  ASSUME GitInv, NEW p \in Git!Readers, GitFrame(p), NEW q \in Git!Readers, q # p
  PROVE  GitReader(q)'
<1>1. GitReader(q) /\ GitSame(q)
  BY DEF GitInv, GitFrame
<1>2. GitProcess(q)'
  BY <1>1 DEF GitReader, GitProcess, GitSame
<1>3. Git!Done(q)' <=> Git!Done(q)
  BY DEF Git!Done, GitFrame
<1>4. GitErrors(q)'
  BY <1>1, <1>3 DEF GitReader, GitErrors, GitSame, GitFrame
<1>5. GitClean(q)'
  BY <1>1 DEF GitReader, GitClean, Undisturbed, GitSame, GitFrame
<1>6. Git!Prints(Git!T, q, stage[q])' = Git!Prints(Git!T, q, stage[q])
  BY <1>1 DEF GitSame, GitFrame, Git!T
<1>7. GitRecords(q)'
  <2> DEFINE prints == Git!Prints(Git!T, q, stage[q])
  <2>1. prints' = prints
    BY <1>6
  <2> HIDE DEF prints
  <2>2. QED
    BY <1>1, <2>1 DEF GitReader, GitRecords, GitSame, GitFrame, prints
<1>8. QED
  BY <1>2, <1>4, <1>5, <1>7 DEF GitReader

(* So a step of a reader keeps the invariant if it keeps the reader's part.*)
LEMMA GitFrameInv ==
  ASSUME GitInv, NEW p \in Git!Readers, GitFrame(p), GitTypes', GitReader(p)',
         at[p] \notin {"idle", "ended", "returned"}, at'[p] \notin {"idle", "returned"}
  PROVE  GitInv'
<1>1. \A q \in Git!Readers : GitReader(q)'
  BY GitOthers
<1>2. phase \notin {"begin", "returned"} /\ (p = "main" => phase = "reading") /\ (p # "main" => phase = "workers")
  BY DEF GitInv, GitPhases, GitTypes, Git!Readers
<1>3. GitPhases'
  <2>1. \A q \in Git!Readers : q # p => at'[q] = at[q]
    BY DEF GitFrame, GitSame
  <2>2. phase' = phase /\ groupErr' = groupErr
    BY DEF GitFrame
  <2>3. p # "main" => at'["main"] = at["main"]
    BY <2>1 DEF Git!Readers
  <2>4. p = "main" => \A q \in Workers : at'[q] = at[q]
    BY <2>1, InstancesAreAdmissible DEF Git!Readers, Git!Assumptions
  <2>5. QED
    BY <1>2, <2>1, <2>2, <2>3, <2>4 DEF GitInv, GitPhases
<1>4. GitGroup'
  <2>1. groupErr' = groupErr /\ ctxDone' = ctxDone /\ (refused => refused')
    BY DEF GitFrame
  <2>2. refused' => \E q \in Git!Readers : "refused" \in errs'[q]
    <3>1. CASE "refused" \in errs'[p]
      BY <3>1
    <3>2. CASE "refused" \notin errs'[p]
      <4>1. refused' => \E q \in Git!Readers : "refused" \in errs[q] /\ q # p
        BY <3>2 DEF GitFrame, GitInv, GitGroup
      <4>2. QED
        BY <4>1 DEF GitFrame, GitSame
    <3>3. QED
      BY <3>1, <3>2
  <2>3. QED
    BY <2>1, <2>2 DEF GitInv, GitGroup
<1>5. faults' = 0 /\ ~ctxDone' => groupErr' \subseteq {"refused"}
  BY DEF GitInv, GitFrame
<1>6. Git!KillNotReported'
  BY <1>2 DEF GitFrame, Git!KillNotReported
<1>7. QED
  BY <1>1, <1>3, <1>4, <1>5, <1>6 DEF GitInv

(* The variables of one reader.                                            *)
LEMMA GitRow ==
  ASSUME GitInv, NEW p \in Git!Readers
  PROVE  /\ GitReader(p)
         /\ stage[p] \in Git!Stages /\ cur[p] \in Seq(GitLines) /\ errs[p] \in SUBSET Errors
         /\ git[p] \in Processes
         /\ git[p].run \in {"none", "running", "ended"} /\ git[p].out \in Seq(GitLines)
         /\ git[p].stdout \in Seq(GitLines) /\ git[p].stderr \in {<<>>, <<"warning">>, <<"error">>}
         /\ git[p].code \in {"ok", "exit", "killed", "late"}
<1>1. GitTypes /\ GitReader(p)
  BY DEF GitInv
<1>2. git[p] \in Processes
  BY <1>1 DEF GitTypes
<1>3. stage[p] \in Git!Stages /\ cur[p] \in Seq(GitLines) /\ errs[p] \in SUBSET Errors
  BY <1>1 DEF GitTypes
<1>4. /\ git[p].run \in {"none", "running", "ended"} /\ git[p].out \in Seq(GitLines)
      /\ git[p].stdout \in Seq(GitLines) /\ git[p].stderr \in {<<>>, <<"warning">>, <<"error">>}
      /\ git[p].code \in {"ok", "exit", "killed", "late"}
  BY <1>2 DEF Processes
<1>5. QED
  BY <1>1, <1>2, <1>3, <1>4

(* The process writes a line into one of its pipes.                        *)
LEMMA GitWritesInv ==
  ASSUME GitInv, NEW p \in Git!Readers, Git!GitWrites(p), target' = target
  PROVE  GitInv'
<1> DEFINE g == git[p]
           x == Head(g.out)
<1>1. /\ GitReader(p) /\ g \in Processes /\ g.out \in Seq(GitLines) /\ g.out # <<>>
      /\ g.stdout \in Seq(GitLines) /\ g.run = "running" /\ stage[p] \in Git!Stages
  BY GitRow DEF Git!GitWrites
<1>2. /\ x \in GitLines /\ Tail(g.out) \in Seq(GitLines)
      /\ Git!ToSet(g.out) = {x} \cup Git!ToSet(Tail(g.out))
      /\ 1 \in DOMAIN g.out /\ x = g.out[1]
      /\ \A k \in DOMAIN Tail(g.out) : k + 1 \in DOMAIN g.out /\ Tail(g.out)[k] = g.out[k + 1]
  BY <1>1, HeadAndTail
<1>3. PICK new : /\ git' = [git EXCEPT ![p] = new]
                 /\ \/ /\ x.kind = "warning" /\ g.stderr = <<>>
                       /\ new = [g EXCEPT !.out = Tail(@), !.stderr = <<"warning">>]
                    \/ /\ x.kind # "warning" /\ g.stdout = <<>>
                       /\ new = [g EXCEPT !.out = Tail(@), !.stdout = <<x>>]
  <2>1. CASE x.kind = "warning"
    <3>1. git' = [git EXCEPT ![p] = [g EXCEPT !.out = Tail(@), !.stderr = <<"warning">>]] /\ g.stderr = <<>>
      BY <2>1 DEF Git!GitWrites, GitInv, GitTypes, Processes
    <3>2. QED
      BY <2>1, <3>1
  <2>2. CASE x.kind # "warning"
    <3>1. git' = [git EXCEPT ![p] = [g EXCEPT !.out = Tail(@), !.stdout = <<x>>]] /\ g.stdout = <<>>
      BY <2>2 DEF Git!GitWrites, GitInv, GitTypes, Processes
    <3>2. QED
      BY <2>2, <3>1
  <2>3. QED
    BY <2>1, <2>2
<1> HIDE DEF g, x
<1>4. /\ git'[p] = new /\ new.out = Tail(g.out) /\ new.run = "running" /\ new.code = g.code
      /\ new.stopped = g.stopped /\ (g.stderr # <<"error">> => new.stderr # <<"error">>)
      /\ new.stdout = g.stdout \/ (g.stdout = <<>> /\ new.stdout = <<x>> /\ x.kind # "warning")
      /\ x.kind = "warning" \/ new.stdout = <<x>>
      /\ new \in Processes
  <2>1. git'[p] = new
    BY <1>3 DEF GitInv, GitTypes
  <2>2. CASE x.kind = "warning" /\ new = [g EXCEPT !.out = Tail(@), !.stderr = <<"warning">>]
    <3>1. new \in Processes
      BY <1>1, <1>2, <2>2 DEF Processes
    <3>2. /\ new.out = Tail(g.out) /\ new.run = "running" /\ new.code = g.code
          /\ new.stopped = g.stopped /\ new.stderr = <<"warning">> /\ new.stdout = g.stdout
      BY <1>1, <2>2 DEF Processes
    <3>3. <<"warning">> # <<"error">>
      OBVIOUS
    <3>4. QED
      BY <2>1, <2>2, <3>1, <3>2, <3>3
  <2>3. CASE /\ x.kind # "warning" /\ g.stdout = <<>>
             /\ new = [g EXCEPT !.out = Tail(@), !.stdout = <<x>>]
    <3>0. <<x>> \in Seq(GitLines)
      BY <1>2
    <3>1. new \in Processes
      BY <1>1, <1>2, <2>3, <3>0 DEF Processes
    <3>2. /\ new.out = Tail(g.out) /\ new.run = "running" /\ new.code = g.code
          /\ new.stopped = g.stopped /\ new.stderr = g.stderr /\ new.stdout = <<x>>
      BY <1>1, <2>3 DEF Processes
    <3>3. QED
      BY <2>1, <2>3, <3>1, <3>2
  <2>4. QED
    BY <1>3, <2>2, <2>3
<1>5. new \in Processes
  BY <1>4
<1> USE DEF g, x
<1>6. GitFrame(p)
  BY <1>3 DEF Git!GitWrites, GitFrame, GitSame, GitInv, GitTypes
<1>7. GitTypes'
  <2>1. git' \in [Git!Readers -> Processes]
    BY <1>3, <1>5 DEF GitInv, GitTypes
  <2>2. QED
    BY <2>1 DEF Git!GitWrites, GitInv, GitTypes
<1>8. at[p] \in {"read", "blob", "yield", "kill", "drain", "wait"} /\ at'[p] = at[p]
  BY <1>1 DEF GitReader, GitProcess, Git!GitWrites, GitInv, GitTypes, Git!NoProcess
<1>9. GitProcess(p)'
  <2>1. DOMAIN <<x>> = {1} /\ <<x>>[1] = x
    OBVIOUS
  <2> HIDE DEF x
  <2>2. \A k \in DOMAIN new.stdout : k = 1 /\ new.stdout[k].kind # "warning"
    BY <1>1, <1>4, <2>1 DEF GitReader, GitProcess
  <2>3. QED
    BY <1>1, <1>4, <1>8, <2>2 DEF GitReader, GitProcess, Git!GitWrites
<1>10. GitErrors(p)'
  BY <1>1, <1>4, <1>8 DEF GitReader, GitErrors, Git!Done, Git!GitWrites
<1>11. GitClean(p)'
  BY <1>1, <1>4, <1>8 DEF GitReader, GitClean, Undisturbed, Git!GitWrites
<1>12. GitRecords(p)'
  <2> DEFINE prints == Git!Prints(Git!T, p, stage[p])
  <2>1. prints' = prints
    BY DEF Git!GitWrites, Git!T
  <2> HIDE DEF prints
  <2> SUFFICES ASSUME stage[p] # "log"
               PROVE  GitRecords(p)'
    BY DEF GitRecords, Git!GitWrites
  <2>2. x.kind = "record" /\ new.stdout = <<x>> /\ g.stdout = <<>>
    BY <1>1, <1>2, <1>3, <1>4 DEF GitReader, GitRecords
  <2>3. \A k \in DOMAIN new.out : new.out[k].kind = "record"
    BY <1>1, <1>2, <1>4 DEF GitReader, GitRecords
  <2>4. DOMAIN <<x>> = {1} /\ <<x>>[1] = x /\ Git!ToSet(<<x>>) = {x} /\ Git!ToSet(g.stdout) = {}
    BY <2>2 DEF Git!ToSet
  <2>5. \A k \in DOMAIN new.stdout : new.stdout[k].kind = "record"
    BY <2>2, <2>4
  <2>6. Git!ToSet(g.out) \cup Git!ToSet(g.stdout) = Git!ToSet(new.out) \cup Git!ToSet(new.stdout)
    BY <1>2, <1>4, <2>2, <2>4
  <2>7. QED
    BY <1>1, <1>4, <1>8, <2>1, <2>3, <2>5, <2>6 DEF GitReader, GitRecords, Git!GitWrites, prints
<1>13. QED
  BY <1>4, <1>6, <1>7, <1>8, <1>9, <1>10, <1>11, <1>12, GitFrameInv DEF GitReader

(* The process breaks off, which counts as a failure.                      *)
LEMMA GitBreaksOffInv ==
  ASSUME GitInv, NEW p \in Git!Readers, Git!GitBreaksOff(p), target' = target
  PROVE  GitInv'
<1>1. /\ GitReader(p) /\ git[p] \in Processes /\ git[p].run = "running" /\ stage[p] \in Git!Stages
      /\ git[p].stdout \in Seq(GitLines)
  BY GitRow DEF Git!GitBreaksOff
<1>2. PICK said \in {<<>>, <<"error">>} :
        git' = [git EXCEPT ![p] = [git[p] EXCEPT !.out = <<>>, !.run = "ended", !.code = "exit", !.stderr = said]]
  <2>1. PICK said \in {<<>>, <<"error">>} :
          git' = [git EXCEPT ![p].out = <<>>, ![p].run = "ended", ![p].code = "exit", ![p].stderr = said]
    BY DEF Git!GitBreaksOff
  <2>2. git' = [git EXCEPT ![p] = [git[p] EXCEPT !.out = <<>>, !.run = "ended", !.code = "exit", !.stderr = said]]
    BY <2>1 DEF GitInv, GitTypes
  <2>3. QED
    BY <2>2
<1>3. git'[p] = [git[p] EXCEPT !.out = <<>>, !.run = "ended", !.code = "exit", !.stderr = said]
  BY <1>2 DEF GitInv, GitTypes
<1>4. <<>> \in Seq(GitLines) /\ <<"error">> \in {<<>>, <<"warning">>, <<"error">>}
  OBVIOUS
<1>5. /\ git'[p] \in Processes /\ git'[p].out = <<>> /\ git'[p].run = "ended" /\ git'[p].code = "exit"
      /\ git'[p].stdout = git[p].stdout
  <2>1. said \in {<<>>, <<"warning">>, <<"error">>}
    OBVIOUS
  <2>2. git'[p] \in Processes
    BY <1>1, <1>3, <1>4, <2>1 DEF Processes
  <2>3. QED
    BY <1>1, <1>3, <2>2 DEF Processes
<1>6. faults' # 0
  BY DEF Git!GitBreaksOff, GitInv, GitTypes
<1>7. GitFrame(p)
  BY <1>2, <1>6 DEF Git!GitBreaksOff, GitFrame, GitSame, GitInv, GitTypes
<1>8. GitTypes'
  <2>1. git' \in [Git!Readers -> Processes]
    BY <1>2, <1>3, <1>5 DEF GitInv, GitTypes
  <2>2. QED
    BY <2>1 DEF Git!GitBreaksOff, GitInv, GitTypes
<1>9. at[p] \in {"read", "blob", "yield", "kill", "drain", "wait"} /\ at'[p] = at[p]
  BY <1>1 DEF GitReader, GitProcess, Git!GitBreaksOff, GitInv, GitTypes, Git!NoProcess
<1>10. GitProcess(p)'
  BY <1>1, <1>5, <1>9 DEF GitReader, GitProcess, Git!GitBreaksOff
<1>11. GitErrors(p)'
  BY <1>1, <1>5, <1>9 DEF GitReader, GitErrors, Git!Done, Git!GitBreaksOff
<1>12. GitClean(p)'
  BY <1>6 DEF GitClean, Undisturbed
<1>13. GitRecords(p)'
  <2>1. DOMAIN git'[p].out = {}
    BY <1>5
  <2>2. QED
    BY <1>1, <1>5, <1>9, <2>1 DEF GitReader, GitRecords, Git!GitBreaksOff
<1>14. QED
  BY <1>7, <1>8, <1>9, <1>10, <1>11, <1>12, <1>13, GitFrameInv DEF GitReader

(* The process ends, or is killed because the context is done.             *)
LEMMA GitEndsInv ==
  ASSUME GitInv, NEW p \in Git!Readers, Git!GitEnds(p), target' = target
  PROVE  GitInv'
<1>1. /\ GitReader(p) /\ git[p] \in Processes /\ git[p].run = "running" /\ stage[p] \in Git!Stages
      /\ git[p].stdout \in Seq(GitLines) /\ git[p].out \in Seq(GitLines)
  BY GitRow DEF Git!GitEnds
<1>2. PICK new : /\ git' = [git EXCEPT ![p] = new]
                 /\ \/ git[p].out = <<>> /\ new = [git[p] EXCEPT !.run = "ended"]
                    \/ /\ Git!Done(p)
                       /\ \E code \in {"killed", "late"} :
                            new = [git[p] EXCEPT !.run = "ended", !.out = <<>>, !.code = code]
  <2>1. CASE git[p].out = <<>> /\ git' = [git EXCEPT ![p].run = "ended"]
    <3>1. git' = [git EXCEPT ![p] = [git[p] EXCEPT !.run = "ended"]]
      BY <2>1 DEF GitInv, GitTypes
    <3>2. QED
      BY <2>1, <3>1
  <2>2. CASE Git!Done(p) /\ \E code \in {"killed", "late"} :
               git' = [git EXCEPT ![p].run = "ended", ![p].out = <<>>, ![p].code = code]
    <3>1. PICK code \in {"killed", "late"} :
            git' = [git EXCEPT ![p] = [git[p] EXCEPT !.run = "ended", !.out = <<>>, !.code = code]]
      BY <2>2 DEF GitInv, GitTypes
    <3>2. QED
      BY <2>2, <3>1
  <2>3. QED
    BY <2>1, <2>2 DEF Git!GitEnds
<1>3. git'[p] = new
  BY <1>2 DEF GitInv, GitTypes
<1>4. <<>> \in Seq(GitLines)
  OBVIOUS
<1>5. /\ new \in Processes /\ new.out = <<>> /\ new.run = "ended" /\ new.stdout = git[p].stdout
      /\ new.stderr = git[p].stderr /\ new.stopped = git[p].stopped
      /\ \/ git[p].out = <<>> /\ new.code = git[p].code
         \/ Git!Done(p) /\ new.code \in {"killed", "late"}
  <2>1. CASE git[p].out = <<>> /\ new = [git[p] EXCEPT !.run = "ended"]
    BY <1>1, <2>1 DEF Processes
  <2>2. CASE Git!Done(p) /\ \E code \in {"killed", "late"} :
               new = [git[p] EXCEPT !.run = "ended", !.out = <<>>, !.code = code]
    BY <1>1, <1>4, <2>2 DEF Processes
  <2>3. QED
    BY <1>2, <2>1, <2>2
<1>7. GitFrame(p)
  BY <1>2 DEF Git!GitEnds, GitFrame, GitSame, GitInv, GitTypes
<1>8. GitTypes'
  <2>1. git' \in [Git!Readers -> Processes]
    BY <1>2, <1>5 DEF GitInv, GitTypes
  <2>2. QED
    BY <2>1 DEF Git!GitEnds, GitInv, GitTypes
<1>9. at[p] \in {"read", "blob", "yield", "kill", "drain", "wait"} /\ at'[p] = at[p]
  BY <1>1 DEF GitReader, GitProcess, Git!GitEnds, GitInv, GitTypes, Git!NoProcess
<1>10. GitProcess(p)'
  BY <1>1, <1>3, <1>5, <1>9 DEF GitReader, GitProcess, Git!GitEnds
<1>11. GitErrors(p)'
  BY <1>1, <1>3, <1>5, <1>9 DEF GitReader, GitErrors, Git!Done, Git!GitEnds
<1>12. GitClean(p)'
  BY <1>1, <1>3, <1>5, <1>9 DEF GitReader, GitClean, Undisturbed, Git!Done, Git!GitEnds
<1>13. GitRecords(p)'
  <2> DEFINE prints == Git!Prints(Git!T, p, stage[p])
  <2>1. prints' = prints
    BY DEF Git!GitEnds, Git!T
  <2> HIDE DEF prints
  <2>2. CASE git[p].out = <<>> /\ new.code = git[p].code
    BY <1>1, <1>3, <1>5, <1>9, <2>1, <2>2 DEF GitReader, GitRecords, Git!GitEnds, prints
  <2>3. CASE new.code \in {"killed", "late"}
    BY <1>1, <1>3, <1>5, <1>9, <2>3 DEF GitReader, GitRecords, Git!GitEnds
  <2>4. QED
    BY <1>5, <2>2, <2>3
<1>14. QED
  BY <1>7, <1>8, <1>9, <1>10, <1>11, <1>12, <1>13, GitFrameInv DEF GitReader

(* The listener takes a line, or ends with the process.                    *)
LEMMA GitListenInv ==
  ASSUME GitInv, NEW p \in Git!Readers, Git!Listen(p) \/ Git!ListenEnds(p), target' = target
  PROVE  GitInv'
<1>1. /\ GitReader(p) /\ git[p] \in Processes /\ stage[p] \in Git!Stages
      /\ git[p].stderr \in {<<>>, <<"warning">>, <<"error">>}
      /\ listener[p] \in {"quiet", "heard"}
  BY GitRow DEF Git!Listen, Git!ListenEnds
<1>2. PICK new : /\ git' = [git EXCEPT ![p] = new]
                 /\ new = git[p] \/ new = [git[p] EXCEPT !.stderr = <<>>]
  BY DEF Git!Listen, Git!ListenEnds, GitInv, GitTypes
<1>3. git'[p] = new
  BY <1>2 DEF GitInv, GitTypes
<1>4. <<>> # <<"error">>
  OBVIOUS
<1>5. /\ new \in Processes /\ new.out = git[p].out /\ new.run = git[p].run /\ new.stdout = git[p].stdout
      /\ new.stopped = git[p].stopped /\ new.code = git[p].code
      /\ new.stderr \in {git[p].stderr, <<>>}
  BY <1>1, <1>2 DEF Processes
<1>6. /\ listener'[p] \in {"quiet", "heard", "sending", "closed"}
      /\ listener' = [listener EXCEPT ![p] = listener'[p]]
      /\ git[p].stderr # <<"error">> /\ listener[p] # "heard" => listener'[p] \notin {"heard", "sending"}
  BY <1>1 DEF Git!Listen, Git!ListenEnds, GitInv, GitTypes
<1>7. GitFrame(p)
  BY <1>2, <1>6 DEF Git!Listen, Git!ListenEnds, GitFrame, GitSame, GitInv, GitTypes
<1>8. GitTypes'
  <2>1. git' \in [Git!Readers -> Processes]
    BY <1>2, <1>5 DEF GitInv, GitTypes
  <2>2. listener' \in [Git!Readers -> {"none", "quiet", "heard", "sending", "closed"}]
    BY <1>6 DEF GitInv, GitTypes
  <2>3. QED
    BY <2>1, <2>2 DEF Git!Listen, Git!ListenEnds, GitInv, GitTypes
<1>9. at[p] \in {"read", "blob", "yield", "kill", "drain"} /\ at'[p] = at[p]
  BY <1>1 DEF GitReader, GitProcess, Git!Listen, Git!ListenEnds, GitInv, GitTypes
<1>10. GitProcess(p)'
  BY <1>1, <1>3, <1>5, <1>9 DEF GitReader, GitProcess, Git!Listen, Git!ListenEnds
<1>11. GitErrors(p)'
  BY <1>1, <1>3, <1>5, <1>9 DEF GitReader, GitErrors, Git!Done, Git!Listen, Git!ListenEnds
<1>12. GitClean(p)'
  BY <1>1, <1>3, <1>4, <1>5, <1>6, <1>9 DEF GitReader, GitClean, Undisturbed, Git!Listen, Git!ListenEnds
<1>13. GitRecords(p)'
  <2> DEFINE prints == Git!Prints(Git!T, p, stage[p])
  <2>1. prints' = prints
    BY DEF Git!Listen, Git!ListenEnds, Git!T
  <2> HIDE DEF prints
  <2>2. QED
    BY <1>1, <1>3, <1>5, <1>9, <2>1 DEF GitReader, GitRecords, Git!Listen, Git!ListenEnds, prints
<1>14. QED
  BY <1>7, <1>8, <1>9, <1>10, <1>11, <1>12, <1>13, GitFrameInv DEF GitReader

(* A process is started, unless the context is done.                       *)
LEMMA GitStartInv ==
  ASSUME GitInv, NEW p \in Git!Readers, Git!Start(p), target' = target
  PROVE  GitInv'
<1> DEFINE prints == Git!Prints(Git!T, p, stage[p])
<1>1. /\ GitReader(p) /\ stage[p] \in Git!Stages /\ at[p] = "start" /\ errs[p] = {}
      /\ git[p] = Git!NoProcess /\ listener[p] \in {"none", "closed"}
  BY GitRow DEF Git!Start, GitReader, GitProcess, GitErrors
<1>2. prints' = prints
  BY DEF Git!Start, Git!T
<1>3. /\ prints \in Seq(GitLines)
      /\ stage[p] # "log" => \A k \in DOMAIN prints : prints[k].kind = "record"
  BY <1>1, PrintsAreLines DEF GitInv, GitTypes, Git!T
<1> HIDE DEF prints
<1>4. DOMAIN <<>> = {} /\ <<>> \in Seq(GitLines) /\ <<>> # <<"error">>
  OBVIOUS
<1>5. CASE Git!Done(p)
  <2>1. /\ at'[p] = "ended" /\ errs'[p] = {"canceled"} /\ git' = git /\ listener' = listener
        /\ at' = [at EXCEPT ![p] = "ended"] /\ errs' = [errs EXCEPT ![p] = {"canceled"}]
    BY <1>1, <1>5 DEF Git!Start, GitInv, GitTypes
  <2>2. GitFrame(p)
    BY <1>1, <2>1 DEF Git!Start, GitFrame, GitSame, GitInv, GitTypes
  <2>3. GitTypes'
    BY <2>1 DEF Git!Start, GitInv, GitTypes, Errors
  <2>4. GitProcess(p)' /\ GitErrors(p)' /\ GitClean(p)'
    BY <1>1, <1>5, <2>1 DEF GitReader, GitProcess, GitErrors, GitClean, Undisturbed, Git!Done,
         Git!Start, Git!NoProcess
  <2>5. GitRecords(p)'
    BY <1>1, <1>4, <2>1 DEF GitReader, GitRecords, Git!Start, Git!NoProcess
  <2>6. QED
    BY <1>1, <2>1, <2>2, <2>3, <2>4, <2>5, GitFrameInv DEF GitReader
<1>6. CASE ~Git!Done(p)
  <2> DEFINE new == [Git!NoProcess EXCEPT !.run = "running", !.out = prints]
  <2>1. /\ at' = [at EXCEPT ![p] = "read"] /\ at'[p] = "read" /\ errs' = errs
        /\ git' = [git EXCEPT ![p] = new] /\ git'[p] = new
        /\ listener'[p] \in {"quiet", "none"} /\ listener' = [listener EXCEPT ![p] = listener'[p]]
    BY <1>1, <1>6 DEF Git!Start, GitInv, GitTypes, prints
  <2>2. /\ new \in Processes /\ new.run = "running" /\ new.out = prints /\ new.stdout = <<>>
        /\ new.stderr = <<>> /\ new.code = "ok"
    BY <1>3, <1>4 DEF Git!NoProcess, Processes
  <2> HIDE DEF new
  <2>3. GitFrame(p)
    BY <1>1, <2>1 DEF Git!Start, GitFrame, GitSame, GitInv, GitTypes
  <2>4. GitTypes'
    <3>1. git' \in [Git!Readers -> Processes]
      BY <2>1, <2>2 DEF GitInv, GitTypes
    <3>2. listener' \in [Git!Readers -> {"none", "quiet", "heard", "sending", "closed"}]
      BY <2>1 DEF GitInv, GitTypes
    <3>3. QED
      BY <2>1, <3>1, <3>2 DEF Git!Start, GitInv, GitTypes
  <2>5. GitProcess(p)' /\ GitErrors(p)' /\ GitClean(p)'
    BY <1>1, <1>4, <2>1, <2>2 DEF GitProcess, GitErrors, GitClean
  <2>6. GitRecords(p)'
    BY <1>1, <1>2, <1>3, <1>4, <2>1, <2>2 DEF GitRecords, Git!Start, prints
  <2>7. QED
    BY <1>1, <2>1, <2>3, <2>4, <2>5, <2>6, GitFrameInv DEF GitReader
<1>7. QED
  BY <1>5, <1>6

(* A record is taken, or it is not: the context is done, or the read fails.*)
LEMMA GitReadRecordInv ==
  ASSUME GitInv, NEW p \in Git!Readers, Git!ReadRecord(p), target' = target
  PROVE  GitInv'
<1> DEFINE g == git[p]
<1>1. /\ GitReader(p) /\ g \in Processes /\ stage[p] \in Git!Stages /\ at[p] = "read" /\ errs[p] = {}
      /\ g.stdout \in Seq(GitLines)
  BY GitRow DEF Git!ReadRecord, GitReader, GitErrors
<1>2. CASE /\ g.stdout # <<>> /\ cur' = [cur EXCEPT ![p] = g.stdout]
           /\ git' = [git EXCEPT ![p].stdout = <<>>]
           /\ at' = [at EXCEPT ![p] = IF Head(g.stdout).kind = "archive" THEN "blob" ELSE "yield"]
           /\ UNCHANGED <<errs, faults>>
  <2> DEFINE new == [g EXCEPT !.stdout = <<>>]
             prints == Git!Prints(Git!T, p, stage[p])
  <2>1. git' = [git EXCEPT ![p] = new] /\ git'[p] = new
    BY <1>2 DEF GitInv, GitTypes
  <2>2. <<>> \in Seq(GitLines) /\ DOMAIN <<>> = {}
    OBVIOUS
  <2>3. /\ new \in Processes /\ new.run = g.run /\ new.out = g.out /\ new.stdout = <<>>
        /\ new.stderr = g.stderr /\ new.code = g.code /\ new.stopped = g.stopped
    BY <1>1, <2>2 DEF Processes
  <2> HIDE DEF new
  <2>4. GitFrame(p)
    BY <1>1, <1>2, <2>1 DEF Git!ReadRecord, GitFrame, GitSame, GitInv, GitTypes
  <2>5. GitTypes'
    <3>1. git' \in [Git!Readers -> Processes]
      BY <2>1, <2>3 DEF GitInv, GitTypes
    <3>2. cur' \in [Git!Readers -> Seq(GitLines)]
      BY <1>1, <1>2 DEF GitInv, GitTypes
    <3>3. QED
      BY <1>2, <3>1, <3>2 DEF Git!ReadRecord, GitInv, GitTypes
  <2>6. at'[p] \in {"blob", "yield"} /\ cur'[p] = g.stdout /\ (at'[p] = "blob" => Head(g.stdout).kind = "archive")
    BY <1>2 DEF GitInv, GitTypes
  <2>7. Head(g.stdout) = g.stdout[1] /\ 1 \in DOMAIN g.stdout
    BY <1>1, <1>2, HeadAndTail
  <2>8. GitProcess(p)'
    BY <1>1, <1>2, <2>1, <2>3, <2>6, <2>7 DEF GitReader, GitProcess, Git!ReadRecord
  <2>9. GitErrors(p)' /\ GitClean(p)'
    BY <1>1, <1>2, <2>1, <2>3, <2>6 DEF GitReader, GitErrors, GitClean, Undisturbed, Git!Done, Git!ReadRecord
  <2>10. GitRecords(p)'
    <3>1. prints' = prints
      BY DEF Git!ReadRecord, Git!T
    <3> HIDE DEF prints
    <3>2. Git!ToSet(g.stdout) = {Head(g.stdout)} /\ Git!ToSet(new.stdout) = {}
      BY <1>1, <2>2, <2>3, <2>7 DEF GitReader, GitProcess, Git!ToSet
    <3>3. stage[p] # "log" => at'[p] = "yield"
      BY <1>1, <2>6, <2>7 DEF GitReader, GitRecords
    <3>4. QED
      BY <1>1, <1>2, <2>1, <2>2, <2>3, <2>6, <3>1, <3>2, <3>3
      DEF GitReader, GitRecords, Git!ReadRecord, prints
  <2>11. QED
    BY <1>1, <2>4, <2>5, <2>6, <2>8, <2>9, <2>10, GitFrameInv DEF GitReader
<1>3. CASE Git!Fails(p, "canceled", "kill") /\ Git!Done(p) /\ UNCHANGED <<cur, git, faults>>
  <2>1. at'[p] = "kill" /\ errs'[p] = {"canceled"} /\ at' = [at EXCEPT ![p] = "kill"]
        /\ errs' = [errs EXCEPT ![p] = {"canceled"}]
    BY <1>1, <1>3 DEF Git!Fails, GitInv, GitTypes
  <2>2. GitFrame(p)
    BY <1>1, <1>3, <2>1 DEF Git!ReadRecord, GitFrame, GitSame, GitInv, GitTypes
  <2>3. GitTypes'
    BY <1>3, <2>1 DEF Git!ReadRecord, GitInv, GitTypes, Errors
  <2>4. GitReader(p)'
    BY <1>1, <1>3, <2>1 DEF GitReader, GitProcess, GitErrors, GitClean, GitRecords, Undisturbed, Git!Done,
         Git!ReadRecord
  <2>5. QED
    BY <1>1, <2>1, <2>2, <2>3, <2>4, GitFrameInv
<1>4. CASE faults' = faults + 1 /\ Git!Fails(p, "fail", "kill") /\ UNCHANGED <<cur, git>>
  <2>1. at'[p] = "kill" /\ errs'[p] = {"fail"} /\ at' = [at EXCEPT ![p] = "kill"]
        /\ errs' = [errs EXCEPT ![p] = {"fail"}] /\ faults' \in Nat /\ faults' # 0
    BY <1>1, <1>4 DEF Git!Fails, GitInv, GitTypes
  <2>2. GitFrame(p)
    BY <1>1, <1>4, <2>1 DEF Git!ReadRecord, GitFrame, GitSame, GitInv, GitTypes
  <2>3. GitTypes'
    BY <1>4, <2>1 DEF Git!ReadRecord, GitInv, GitTypes, Errors
  <2>4. GitReader(p)'
    BY <1>1, <1>4, <2>1 DEF GitReader, GitProcess, GitErrors, GitClean, GitRecords, Undisturbed, Git!Done,
         Git!ReadRecord
  <2>5. QED
    BY <1>1, <2>1, <2>2, <2>3, <2>4, GitFrameInv
<1>5. QED
  BY <1>2, <1>3, <1>4 DEF Git!ReadRecord

(* Steps in which a reader meets an error e, and kills its process next.   *)
LEMMA GitFailsInv ==
  ASSUME GitInv, NEW p \in Git!Readers, NEW e \in Errors, Git!Fails(p, e, "kill"),
         at[p] \in {"read", "yield"}, ~Undisturbed(p) \/ e = "refused",
         e = "canceled" => Git!Done(p),
         e = "refused" => refused', e # "refused" => refused' = refused, refused' \in BOOLEAN,
         UNCHANGED <<target, phase, stage, cur, git, listener, groupErr, ctxDone, yielded, faults, verdict>>
  PROVE  GitInv'
<1>1. GitReader(p) /\ errs[p] = {} /\ git[p] \in Processes
  BY GitRow DEF GitReader, GitErrors
<1>2. /\ at'[p] = "kill" /\ errs'[p] = {e} /\ at' = [at EXCEPT ![p] = "kill"]
      /\ errs' = [errs EXCEPT ![p] = {e}]
  BY <1>1 DEF Git!Fails, GitInv, GitTypes
<1>3. refused => refused'
  BY DEF Errors
<1>4. GitFrame(p)
  BY <1>1, <1>2, <1>3 DEF GitFrame, GitSame, GitInv, GitTypes, Errors
<1>5. GitTypes'
  BY <1>2 DEF GitInv, GitTypes, Errors
<1>6. GitProcess(p)'
  BY <1>1, <1>2 DEF GitReader, GitProcess
<1>7. GitErrors(p)'
  BY <1>1, <1>2, <1>3 DEF GitReader, GitErrors, Git!Done
<1>8. GitClean(p)'
  BY <1>1, <1>2 DEF GitReader, GitClean, Undisturbed
<1>9. GitRecords(p)'
  BY <1>1, <1>2 DEF GitReader, GitRecords
<1>10. QED
  BY <1>2, <1>4, <1>5, <1>6, <1>7, <1>8, <1>9, GitFrameInv DEF GitReader

(* The output of an undisturbed process ends behind the last record.       *)
LEMMA UndisturbedIsComplete ==
  ASSUME GitInv, NEW p \in Git!Readers, Undisturbed(p), at[p] = "read",
         git[p].stdout = <<>>, git[p].run = "ended"
  PROVE  git[p].code = "ok" /\ (stage[p] # "log" => Git!Complete(p))
<1>1. GitReader(p)
  BY GitRow
<1>2. git[p].code = "ok" /\ git[p].out = <<>>
  BY <1>1 DEF GitReader, GitClean, GitProcess
<1>3. Git!ToSet(git[p].out) = {} /\ Git!ToSet(git[p].stdout) = {}
  BY <1>2 DEF Git!ToSet
<1>4. stage[p] # "log" => \A x \in Git!ToSet(Git!Prints(Git!T, p, stage[p])) : x.in \in yielded
  BY <1>1, <1>2, <1>3 DEF GitReader, GitRecords
<1>5. QED
  BY <1>2, <1>4 DEF Git!Complete

(* The output has ended.                                                   *)
LEMMA GitReadEndInv ==
  ASSUME GitInv, NEW p \in Git!Readers, Git!ReadEnd(p), target' = target
  PROVE  GitInv'
<1>1. /\ GitReader(p) /\ stage[p] \in Git!Stages /\ at[p] = "read" /\ errs[p] = {}
  BY GitRow DEF Git!ReadEnd, GitReader, GitErrors
<1>2. refused \in BOOLEAN
  BY DEF GitInv, GitTypes
<1>3. CASE stage[p] \in {"messages", "tags"} /\ ~Git!Complete(p)
  <2>1. Git!Fails(p, "fail", "kill") /\ ~Undisturbed(p)
    BY <1>1, <1>3, UndisturbedIsComplete DEF Git!ReadEnd
  <2>2. QED
    BY <1>1, <1>2, <2>1, GitFailsInv DEF Git!ReadEnd, Errors
<1>4. CASE git[p].code # "ok" /\ Git!Fails(p, "fail", "kill")
  <2>1. ~Undisturbed(p)
    BY <1>1, <1>4 DEF GitReader, GitClean
  <2>2. QED
    BY <1>1, <1>2, <1>4, <2>1, GitFailsInv DEF Git!ReadEnd, Errors
<1>5. CASE Git!Done(p) /\ Git!Fails(p, "canceled", "kill")
  <2>1. ~Undisturbed(p)
    BY <1>5 DEF Undisturbed, Git!Done
  <2>2. QED
    BY <1>1, <1>2, <1>5, <2>1, GitFailsInv DEF Git!ReadEnd, Errors
<1>6. CASE ~Git!Done(p) /\ at' = [at EXCEPT ![p] = "drain"] /\ UNCHANGED errs
  <2>1. at'[p] = "drain"
    BY <1>6 DEF GitInv, GitTypes
  <2>2. GitFrame(p)
    BY <1>1, <1>6 DEF Git!ReadEnd, GitFrame, GitSame, GitInv, GitTypes
  <2>3. GitTypes'
    BY <1>6 DEF Git!ReadEnd, GitInv, GitTypes
  <2>4. GitProcess(p)'
    BY <1>1, <1>6, <2>1 DEF GitReader, GitProcess, Git!ReadEnd
  <2>5. GitErrors(p)' /\ GitClean(p)' /\ GitRecords(p)'
    BY <1>1, <1>6, <2>1 DEF GitReader, GitErrors, GitClean, GitRecords, Undisturbed, Git!Done, Git!ReadEnd
  <2>6. QED
    BY <1>1, <2>1, <2>2, <2>3, <2>4, <2>5, GitFrameInv DEF GitReader
<1>7. QED
  BY <1>3, <1>4, <1>5, <1>6 DEF Git!ReadEnd

(* The process of an archive is started, or not.                           *)
LEMMA GitOpenBlobInv ==
  ASSUME GitInv, NEW p \in Git!Readers, Git!OpenBlob(p), target' = target
  PROVE  GitInv'
<1>1. GitReader(p) /\ at[p] = "blob" /\ stage[p] = "log"
  BY GitRow DEF Git!OpenBlob, GitReader, GitRecords
<1>2. at'[p] \in {"yield", "read"} /\ at' = [at EXCEPT ![p] = at'[p]]
  BY DEF Git!OpenBlob, GitInv, GitTypes
<1>3. faults' \in Nat /\ (faults' = 0 => faults = 0)
  BY DEF Git!OpenBlob, GitInv, GitTypes
<1>4. GitFrame(p)
  BY <1>2, <1>3 DEF Git!OpenBlob, GitFrame, GitSame, GitInv, GitTypes
<1>5. GitTypes'
  BY <1>2, <1>3 DEF Git!OpenBlob, GitInv, GitTypes
<1>6. GitProcess(p)'
  BY <1>1, <1>2 DEF GitReader, GitProcess, Git!OpenBlob
<1>7. GitErrors(p)' /\ GitRecords(p)'
  BY <1>1, <1>2 DEF GitReader, GitErrors, GitRecords, Git!Done, Git!OpenBlob
<1>8. GitClean(p)'
  BY <1>1, <1>2, <1>3 DEF GitReader, GitClean, Undisturbed, Git!OpenBlob
<1>9. QED
  BY <1>1, <1>2, <1>4, <1>5, <1>6, <1>7, <1>8, GitFrameInv DEF GitReader

(* yield returns.                                                          *)
LEMMA GitYieldInv ==
  ASSUME GitInv, NEW p \in Git!Readers, Git!YieldAccepts(p) \/ Git!YieldRefuses(p), target' = target
  PROVE  GitInv'
<1>1. GitReader(p) /\ at[p] = "yield" /\ errs[p] = {}
  BY GitRow DEF Git!YieldAccepts, Git!YieldRefuses, GitReader, GitErrors
<1>2. CASE Git!YieldRefuses(p)
  BY <1>1, <1>2, GitFailsInv DEF Git!YieldRefuses, Errors
<1>3. CASE Git!YieldAccepts(p)
  <2> DEFINE prints == Git!Prints(Git!T, p, stage[p])
  <2>1. at'[p] = "read" /\ yielded' = yielded \cup {Head(cur[p]).in} /\ at' = [at EXCEPT ![p] = "read"]
    BY <1>3 DEF Git!YieldAccepts, GitInv, GitTypes
  <2>2. GitFrame(p)
    BY <1>3, <2>1 DEF Git!YieldAccepts, GitFrame, GitSame, GitInv, GitTypes
  <2>3. GitTypes'
    BY <1>3, <2>1 DEF Git!YieldAccepts, GitInv, GitTypes
  <2>4. GitProcess(p)' /\ GitErrors(p)' /\ GitClean(p)'
    BY <1>1, <1>3, <2>1 DEF GitReader, GitProcess, GitErrors, GitClean, Undisturbed, Git!Done, Git!YieldAccepts
  <2>5. GitRecords(p)'
    <3>1. prints' = prints
      BY <1>3 DEF Git!YieldAccepts, Git!T
    <3> HIDE DEF prints
    <3>2. QED
      BY <1>1, <1>3, <2>1, <3>1 DEF GitReader, GitRecords, Git!YieldAccepts, prints
  <2>6. QED
    BY <1>1, <2>1, <2>2, <2>3, <2>4, <2>5, GitFrameInv DEF GitReader
<1>4. QED
  BY <1>2, <1>3

(* The process is killed, unless it has ended.                             *)
LEMMA GitKillInv ==
  ASSUME GitInv, NEW p \in Git!Readers, Git!Kill(p), target' = target
  PROVE  GitInv'
<1> DEFINE g == git[p]
<1>1. GitReader(p) /\ at[p] = "kill" /\ g \in Processes /\ stage[p] \in Git!Stages
  BY GitRow DEF Git!Kill
<1>2. PICK new : /\ git' = [git EXCEPT ![p] = new]
                 /\ \/ new = [g EXCEPT !.stopped = TRUE]
                    \/ new = [g EXCEPT !.run = "ended", !.out = <<>>, !.code = "killed", !.stopped = TRUE]
                 /\ g.run = "running" => new.run = "ended"
  <2>1. CASE g.run = "running"
    <3>1. git' = [git EXCEPT ![p] = [g EXCEPT !.run = "ended", !.out = <<>>, !.code = "killed", !.stopped = TRUE]]
      BY <2>1 DEF Git!Kill, GitInv, GitTypes
    <3>2. [g EXCEPT !.run = "ended", !.out = <<>>, !.code = "killed", !.stopped = TRUE].run = "ended"
      BY <1>1 DEF Processes
    <3>3. QED
      BY <3>1, <3>2
  <2>2. CASE g.run # "running"
    <3>1. git' = [git EXCEPT ![p] = [g EXCEPT !.stopped = TRUE]]
      BY <2>2 DEF Git!Kill, GitInv, GitTypes
    <3>2. QED
      BY <2>2, <3>1
  <2>3. QED
    BY <2>1, <2>2
<1>3. git'[p] = new
  BY <1>2 DEF GitInv, GitTypes
<1>4. <<>> \in Seq(GitLines)
  OBVIOUS
<1>5. /\ new \in Processes /\ new.stdout = g.stdout /\ new.stderr = g.stderr /\ new.stopped
      /\ \/ new.out = g.out /\ new.run = g.run /\ new.code = g.code
         \/ new.out = <<>> /\ new.run = "ended" /\ new.code = "killed"
  <2>1. CASE new = [g EXCEPT !.stopped = TRUE]
    BY <1>1, <2>1 DEF Processes
  <2>2. CASE new = [g EXCEPT !.run = "ended", !.out = <<>>, !.code = "killed", !.stopped = TRUE]
    BY <1>1, <1>4, <2>2 DEF Processes
  <2>3. QED
    BY <1>2, <2>1, <2>2
<1>6. at'[p] = "drain" /\ at' = [at EXCEPT ![p] = "drain"]
  BY DEF Git!Kill, GitInv, GitTypes
<1>7. GitFrame(p)
  BY <1>2, <1>6 DEF Git!Kill, GitFrame, GitSame, GitInv, GitTypes
<1>8. GitTypes'
  <2>1. git' \in [Git!Readers -> Processes]
    BY <1>2, <1>5 DEF GitInv, GitTypes
  <2>2. QED
    BY <1>6, <2>1 DEF Git!Kill, GitInv, GitTypes
<1>9. GitProcess(p)'
  <2>1. GitProcess(p) /\ g.run # "none"
    BY <1>1 DEF GitReader, GitProcess
  <2>2. \A k \in DOMAIN new.stdout : k = 1 /\ new.stdout[k].kind # "warning"
    BY <1>5, <2>1 DEF GitProcess
  <2>3. new.run # "none" /\ (new.run = "ended" => new.out = <<>>)
    BY <1>5, <2>1 DEF GitProcess
  <2>4. QED
    BY <1>3, <1>6, <2>2, <2>3 DEF GitProcess
<1>10. GitErrors(p)'
  BY <1>1, <1>3, <1>5, <1>6 DEF GitReader, GitErrors, Git!Done, Git!Kill
<1>11. GitClean(p)'
  BY <1>1, <1>3, <1>5, <1>6 DEF GitReader, GitClean, Undisturbed, Git!Kill
<1>12. GitRecords(p)'
  <2>1. DOMAIN new.out = {} \/ new.out = g.out
    BY <1>5
  <2>2. GitRecords(p) /\ stage' = stage
    BY <1>1 DEF GitReader, Git!Kill
  <2>3. stage[p] # "log" =>
          /\ \A k \in DOMAIN new.out : new.out[k].kind = "record"
          /\ \A k \in DOMAIN new.stdout : new.stdout[k].kind = "record"
    BY <1>5, <2>1, <2>2 DEF GitRecords
  <2>4. QED
    BY <1>3, <1>6, <2>2, <2>3 DEF GitRecords
<1>13. QED
  BY <1>1, <1>6, <1>7, <1>8, <1>9, <1>10, <1>11, <1>12, GitFrameInv DEF GitReader

(* The listener's error is taken, and its channel found closed.            *)
LEMMA GitDrainInv ==
  ASSUME GitInv, NEW p \in Git!Readers, Git!Drain(p), target' = target
  PROVE  GitInv'
<1>1. GitReader(p) /\ at[p] = "drain" /\ errs[p] \in SUBSET Errors
  BY GitRow DEF Git!Drain
<1>2. CASE /\ listener[p] = "sending" /\ listener' = [listener EXCEPT ![p] = "closed"]
           /\ errs' = [errs EXCEPT ![p] = @ \cup {"fail"}] /\ UNCHANGED at
  <2>1. /\ listener'[p] = "closed" /\ errs'[p] = errs[p] \cup {"fail"} /\ at'[p] = "drain"
        /\ errs' = [errs EXCEPT ![p] = errs'[p]]
    BY <1>1, <1>2 DEF GitInv, GitTypes
  <2>2. GitFrame(p)
    BY <1>2, <2>1 DEF Git!Drain, GitFrame, GitSame, GitInv, GitTypes
  <2>3. GitTypes'
    <3>1. errs'[p] \in SUBSET Errors
      BY <1>1, <2>1 DEF Errors
    <3>2. errs' \in [Git!Readers -> SUBSET Errors]
      BY <2>1, <3>1 DEF GitInv, GitTypes
    <3>3. QED
      BY <1>2, <3>2 DEF Git!Drain, GitInv, GitTypes
  <2>4. ~Undisturbed(p)
    BY <1>1, <1>2 DEF GitReader, GitClean
  <2>5. GitProcess(p)' /\ GitErrors(p)' /\ GitRecords(p)'
    BY <1>1, <1>2, <2>1 DEF GitReader, GitProcess, GitErrors, GitRecords, Git!Done, Git!Drain
  <2>6. GitClean(p)'
    BY <2>4 DEF GitClean, Undisturbed, Git!Drain
  <2>7. QED
    BY <1>1, <2>1, <2>2, <2>3, <2>5, <2>6, GitFrameInv DEF GitReader
<1>3. CASE listener[p] \in {"closed", "none"} /\ at' = [at EXCEPT ![p] = "wait"] /\ UNCHANGED <<errs, listener>>
  <2>1. at'[p] = "wait"
    BY <1>3 DEF GitInv, GitTypes
  <2>2. GitFrame(p)
    BY <1>3 DEF Git!Drain, GitFrame, GitSame, GitInv, GitTypes
  <2>3. GitTypes'
    BY <1>3 DEF Git!Drain, GitInv, GitTypes
  <2>4. GitReader(p)'
    BY <1>1, <1>3, <2>1 DEF GitReader, GitProcess, GitErrors, GitClean, GitRecords, Undisturbed, Git!Done, Git!Drain
  <2>5. QED
    BY <1>1, <2>1, <2>2, <2>3, <2>4, GitFrameInv
<1>4. QED
  BY <1>2, <1>3 DEF Git!Drain

(* The process is reaped; the reader ends, or starts the next one.         *)
LEMMA GitWaitInv ==
  ASSUME GitInv, NEW p \in Git!Readers, Git!WaitProcess(p), target' = target
  PROVE  GitInv'
<1> DEFINE all == errs'[p]
<1>1. /\ GitReader(p) /\ at[p] = "wait" /\ errs[p] \in SUBSET Errors /\ stage[p] \in Git!Stages
      /\ git[p].code \in {"ok", "exit", "killed", "late"}
  BY GitRow DEF Git!WaitProcess
<1>2. Git!WaitError(p) \in SUBSET {"fail", "canceled"}
  BY DEF Git!WaitError
<1>3. /\ all \in {errs[p] \cup Git!WaitError(p), errs[p]} \cup {Git!WaitError(p)}
      /\ errs[p] \subseteq all /\ all \subseteq errs[p] \cup Git!WaitError(p)
      /\ errs' = [errs EXCEPT ![p] = all]
  BY <1>1 DEF Git!WaitProcess, GitInv, GitTypes
<1>4. /\ \/ at' = [at EXCEPT ![p] = "start"] /\ all = {} /\ stage' = [stage EXCEPT ![p] = Git!Follows(p, stage[p])]
            /\ Git!Follows(p, stage[p]) # "end"
         \/ at' = [at EXCEPT ![p] = "ended"] /\ stage' = stage
  BY <1>1, <1>3 DEF Git!WaitProcess, GitInv, GitTypes
<1>5. Git!Follows(p, stage[p]) \in {"messages", "reflogs", "tags", "end"}
  BY DEF Git!Follows
<1>6. stage'[p] \in Git!Stages /\ stage' = [stage EXCEPT ![p] = stage'[p]]
  BY <1>1, <1>4, <1>5 DEF GitInv, GitTypes, Git!Stages
<1>7. /\ at'[p] \in {"start", "ended"} /\ at' = [at EXCEPT ![p] = at'[p]]
      /\ at'[p] = "start" => all = {}
  BY <1>4 DEF GitInv, GitTypes
<1>8. git'[p] = Git!NoProcess /\ git' = [git EXCEPT ![p] = Git!NoProcess]
  BY DEF Git!WaitProcess, GitInv, GitTypes
<1>9. all \in SUBSET Errors
  BY <1>1, <1>2, <1>3 DEF Errors
<1> HIDE DEF all
<1>10. GitFrame(p)
  <2>1. refused' = refused /\ ("refused" \in errs[p] => "refused" \in errs'[p])
    BY <1>3 DEF Git!WaitProcess, all
  <2>2. \A q \in Git!Readers \ {p} : GitSame(q)
    BY <1>3, <1>6, <1>7, <1>8 DEF Git!WaitProcess, GitSame, GitInv, GitTypes
  <2>3. QED
    BY <2>1, <2>2 DEF Git!WaitProcess, GitFrame
<1>11. GitTypes'
  <2>1. <<>> \in Seq(GitLines)
    OBVIOUS
  <2>2. Git!NoProcess \in Processes
    BY <2>1 DEF Git!NoProcess, Processes
  <2>3. git' \in [Git!Readers -> Processes]
    BY <1>8, <2>2 DEF GitInv, GitTypes
  <2>4. errs' \in [Git!Readers -> SUBSET Errors]
    BY <1>3, <1>9 DEF GitInv, GitTypes
  <2>5. stage' \in [Git!Readers -> Git!Stages]
    BY <1>6 DEF GitInv, GitTypes
  <2>6. QED
    BY <1>7, <2>3, <2>4, <2>5 DEF Git!WaitProcess, GitInv, GitTypes
<1>12. GitProcess(p)'
  <2>1. DOMAIN Git!NoProcess.stdout = {}
    BY DEF Git!NoProcess
  <2>2. Git!NoProcess.run = "none"
    BY DEF Git!NoProcess
  <2>3. listener'[p] \in {"none", "closed"}
    BY <1>1 DEF Git!WaitProcess, GitReader, GitProcess
  <2>4. QED
    BY <1>7, <1>8, <2>1, <2>2, <2>3 DEF GitProcess
<1>13. GitErrors(p)'
  <2>1. git'[p].code # "late"
    BY <1>8 DEF Git!NoProcess
  <2>2. "canceled" \in Git!WaitError(p) => git[p].code = "late"
    BY DEF Git!WaitError
  <2>3. "refused" \notin Git!WaitError(p)
    BY <1>2
  <2>4. Git!Done(p)' <=> Git!Done(p)
    BY DEF Git!WaitProcess, Git!Done
  <2>5. refused' = refused /\ groupErr' = groupErr
    BY DEF Git!WaitProcess
  <2>6. /\ "canceled" \in errs'[p] => "canceled" \in errs[p] \/ "canceled" \in Git!WaitError(p)
        /\ "refused" \in errs'[p] => "refused" \in errs[p] \/ "refused" \in Git!WaitError(p)
    BY <1>3 DEF all
  <2>7. QED
    BY <1>1, <1>7, <2>1, <2>2, <2>3, <2>4, <2>5, <2>6 DEF GitReader, GitErrors, all
<1>14. GitClean(p)'
  <2> SUFFICES ASSUME Undisturbed(p)
               PROVE  GitClean(p)'
    BY DEF GitClean, Undisturbed, Git!WaitProcess
  <2>1. Git!WaitError(p) = {}
    BY <1>1 DEF GitReader, GitClean, Git!WaitError
  <2>2. all \subseteq {"refused"}
    BY <1>1, <1>3, <2>1 DEF GitReader, GitClean
  <2>3. git'[p].stderr # <<"error">> /\ git'[p].code = "ok"
    BY <1>8 DEF Git!NoProcess
  <2>4. listener'[p] = listener[p] /\ listener[p] \notin {"heard", "sending"}
    BY <1>1 DEF GitReader, GitProcess, Git!WaitProcess
  <2>5. QED
    BY <2>2, <2>3, <2>4 DEF GitClean, all
<1>15. GitRecords(p)'
  <2>1. DOMAIN git'[p].out = {} /\ DOMAIN git'[p].stdout = {}
    BY <1>8 DEF Git!NoProcess
  <2>2. QED
    BY <1>7, <2>1 DEF GitRecords
<1>16. QED
  BY <1>1, <1>7, <1>10, <1>11, <1>12, <1>13, <1>14, <1>15, GitFrameInv DEF GitReader

(* Fragments itself leaves the readers' variables alone, but that it       *)
(* starts a reader and takes the errors of one that has ended.             *)
LEMMA GitControl ==
  ASSUME GitInv, NEW p \in Git!Readers,
         UNCHANGED <<target, cur, errs, git, listener, refused, yielded>>,
         faults' = 0 => faults = 0, ctxDone => ctxDone', groupErr # {} => groupErr' # {},
         \/ at'[p] = at[p] /\ stage'[p] = stage[p]
         \/ at[p] = "idle" /\ at'[p] = "start"
         \/ at[p] = "ended" /\ at'[p] = "returned" /\ (errs[p] # {} => groupErr' # {})
  PROVE  GitReader(p)'
<1>1. GitReader(p)
  BY GitRow
<1>2. at[p] \in {"idle", "ended"} => git[p] = Git!NoProcess
  BY <1>1 DEF GitReader, GitProcess
<1>3. DOMAIN Git!NoProcess.out = {} /\ DOMAIN Git!NoProcess.stdout = {}
  BY DEF Git!NoProcess
<1>4. GitProcess(p)'
  BY <1>1 DEF GitReader, GitProcess
<1>5. GitErrors(p)'
  <2>1. Git!Done(p) => Git!Done(p)'
    BY DEF Git!Done
  <2>2. QED
    BY <1>1, <2>1 DEF GitReader, GitErrors
<1>6. GitClean(p)'
  <2>1. Undisturbed(p)' => Undisturbed(p)
    BY DEF Undisturbed
  <2>2. QED
    BY <1>1, <2>1 DEF GitReader, GitClean
<1>7. GitRecords(p)'
  <2>1. CASE at'[p] = at[p] /\ stage'[p] = stage[p]
    <3> DEFINE prints == Git!Prints(Git!T, p, stage[p])
    <3>1. prints' = prints
      BY <2>1 DEF Git!T
    <3> HIDE DEF prints
    <3>2. QED
      BY <1>1, <2>1, <3>1 DEF GitReader, GitRecords, prints
  <2>2. CASE at[p] \in {"idle", "ended"} /\ at'[p] \in {"start", "returned"}
    BY <1>2, <1>3, <2>2 DEF GitRecords
  <2>3. QED
    BY <2>1, <2>2
<1>8. QED
  BY <1>4, <1>5, <1>6, <1>7 DEF GitReader

(* Fragments of a repository starts its readers, or returns at once;       *)
LEMMA GitBeginInv ==
  ASSUME GitInv, Git!Begin, target' = target
  PROVE  GitInv'
<1>1. /\ UNCHANGED <<stage, cur, errs, git, listener, groupErr, ctxDone, refused, yielded, lost>>
      /\ phase = "begin" /\ groupErr = {} /\ \A p \in Git!Readers : at[p] = "idle"
      /\ GitTypes
  BY DEF Git!Begin, GitInv, GitPhases
<1>2. /\ at' \in [Git!Readers -> {"idle", "start"}]
      /\ \/ phase' = "reading" /\ (\A p \in Workers : at'[p] = "idle") /\ UNCHANGED <<faults, verdict>>
         \/ phase' = "workers" /\ at'["main"] = "idle" /\ UNCHANGED <<faults, verdict>>
         \/ /\ phase' = "returned" /\ at' = at /\ verdict' \subseteq {"fail", "canceled"}
            /\ faults' \in Nat /\ (ctxDone \/ faults' # 0) /\ (faults' = 0 => faults = 0)
  <2>1. CASE Git!T.full /\ phase' = "reading" /\ at' = [at EXCEPT !["main"] = "start"] /\ UNCHANGED <<faults, verdict>>
    <3>1. at' \in [Git!Readers -> {"idle", "start"}]
      BY <1>1, <2>1 DEF GitTypes
    <3>2. \A p \in Workers : at'[p] = "idle"
      BY <1>1, <2>1, InstancesAreAdmissible DEF GitTypes, Git!Readers, Git!Assumptions
    <3>3. QED
      BY <2>1, <3>1, <3>2
  <2>2. CASE /\ phase' = "workers" /\ UNCHANGED <<faults, verdict>>
             /\ at' = [p \in Git!Readers |-> IF p # "main" /\ Git!Chunk(Git!T, p) # <<>> THEN "start" ELSE at[p]]
    BY <1>1, <2>2 DEF GitTypes, Git!Readers
  <2>3. CASE /\ ctxDone \/ faults < MaxFaults
             /\ UNCHANGED at
             /\ faults' = IF ctxDone THEN faults ELSE faults + 1
             /\ \E e \in {"fail"} \cup (IF ctxDone THEN {"canceled"} ELSE {}) : Git!Return({e})
    <3>1. phase' = "returned" /\ verdict' \subseteq {"fail", "canceled"}
      BY <2>3 DEF Git!Return
    <3>2. at' \in [Git!Readers -> {"idle", "start"}]
      BY <1>1, <2>3 DEF GitTypes
    <3>3. faults' \in Nat /\ (ctxDone \/ faults' # 0) /\ (faults' = 0 => faults = 0)
      BY <1>1, <2>3 DEF GitTypes
    <3>4. QED
      BY <2>3, <3>1, <3>2, <3>3
  <2>4. QED
    BY <2>1, <2>2, <2>3 DEF Git!Begin
<1>3. \A p \in Git!Readers : GitReader(p)'
  <2> SUFFICES ASSUME NEW p \in Git!Readers
               PROVE  GitReader(p)'
    OBVIOUS
  <2>1. at'[p] \in {"idle", "start"} /\ at[p] = "idle"
    BY <1>1, <1>2
  <2>2. QED
    BY <1>1, <1>2, <2>1, GitControl
<1>4. GitTypes'
  <2>1. /\ at' \in [Git!Readers -> {"idle", "start", "read", "blob", "yield", "kill", "drain", "wait",
                                    "ended", "returned"}]
        /\ phase' \in {"begin", "workers", "reading", "returned"}
        /\ faults' \in Nat /\ verdict' \subseteq Errors
    BY <1>1, <1>2 DEF GitTypes, Errors
  <2>2. QED
    BY <1>1, <2>1 DEF GitTypes
<1>5. GitPhases'
  <2>1. "main" \in Git!Readers /\ Workers \subseteq Git!Readers
    BY DEF Git!Readers
  <2>2. QED
    BY <1>1, <1>2, <2>1 DEF GitPhases
<1>6. GitGroup' /\ (faults' = 0 /\ ~ctxDone' => groupErr' \subseteq {"refused"})
  BY <1>1 DEF GitInv, GitGroup
<1>7. Git!KillNotReported'
  BY <1>1, <1>2 DEF Git!KillNotReported
<1>8. QED
  BY <1>3, <1>4, <1>5, <1>6, <1>7 DEF GitInv

(* a worker ends, and the group keeps its error if it is the first;        *)
LEMMA GitReturnsInv ==
  ASSUME GitInv, NEW p \in Workers, Git!WorkerReturns(p), target' = target
  PROVE  GitInv'
<1>1. /\ UNCHANGED <<phase, stage, cur, errs, git, listener, ctxDone, refused, yielded, lost, faults, verdict>>
      /\ p # "main" /\ at[p] = "ended" /\ p \in Git!Readers /\ GitTypes /\ GitPhases
      /\ at' = [at EXCEPT ![p] = "returned"]
      /\ groupErr' = IF groupErr = {} THEN errs[p] ELSE groupErr
  BY DEF Git!WorkerReturns, Git!Readers, GitInv
<1>2. at'[p] = "returned" /\ \A q \in Git!Readers : q # p => at'[q] = at[q]
  BY <1>1 DEF GitTypes
<1>3. GitReader(p) /\ errs[p] \in SUBSET Errors
  BY <1>1, GitRow
<1>4. phase = "workers"
  BY <1>1 DEF GitPhases, GitTypes
<1>5. \A q \in Git!Readers : GitReader(q)'
  <2> SUFFICES ASSUME NEW q \in Git!Readers
               PROVE  GitReader(q)'
    OBVIOUS
  <2>1. CASE q = p
    BY <1>1, <1>2, <2>1, GitControl
  <2>2. CASE q # p
    BY <1>1, <1>2, <2>2, GitControl
  <2>3. QED
    BY <2>1, <2>2
<1>6. GitTypes'
  BY <1>1, <1>3 DEF GitTypes
<1>7. GitPhases'
  BY <1>1, <1>2, <1>4 DEF GitPhases, Git!Readers
<1>8. GitGroup'
  BY <1>1, <1>3 DEF GitInv, GitGroup, GitReader, GitErrors, Git!Done
<1>9. faults' = 0 /\ ~ctxDone' => groupErr' \subseteq {"refused"}
  BY <1>1, <1>3 DEF GitInv, GitReader, GitClean, Undisturbed
<1>10. Git!KillNotReported'
  BY <1>1, <1>4 DEF Git!KillNotReported
<1>11. QED
  BY <1>5, <1>6, <1>7, <1>8, <1>9, <1>10 DEF GitInv

(* A refusal reaches what the workers' group returns.                      *)
LEMMA RefusalReachesGroup ==
  ASSUME GitInv, refused, \A q \in Workers : at[q] \in {"idle", "returned"}
  PROVE  groupErr # {} \/ "refused" \in errs["main"]
<1>1. PICK q \in Git!Readers : "refused" \in errs[q]
  BY DEF GitInv, GitGroup
<1>2. CASE q = "main"
  BY <1>1, <1>2
<1>3. CASE q \in Workers
  <2>1. GitErrors(q) /\ at[q] \in {"idle", "returned"}
    BY <1>3 DEF GitInv, GitReader, Git!Readers
  <2>2. QED
    BY <1>1, <2>1 DEF GitErrors
<1>4. QED
  BY <1>2, <1>3 DEF Git!Readers

(* the group is joined, and main reads on or Fragments returns;            *)
LEMMA GitJoinInv ==
  ASSUME GitInv, Git!Join, target' = target
  PROVE  GitInv'
<1>1. /\ UNCHANGED <<cur, errs, git, listener, groupErr, ctxDone, refused, yielded, lost, faults>>
      /\ phase = "workers" /\ (\A p \in Workers : at[p] \in {"idle", "returned"})
      /\ GitTypes /\ GitPhases /\ at["main"] = "idle" /\ "main" \in Git!Readers
  BY DEF Git!Join, Git!Readers, GitInv, GitPhases
<1>2. \/ /\ phase' = "reading" /\ at' = [at EXCEPT !["main"] = "start"] /\ groupErr = {}
         /\ stage' = [stage EXCEPT !["main"] = Git!Follows("main", "messages")] /\ verdict' = verdict
         /\ Git!Follows("main", "messages") # "end"
      \/ phase' = "returned" /\ verdict' = groupErr /\ at' = at /\ stage' = stage
  BY DEF Git!Join, Git!Return
<1>3. Git!Follows("main", "messages") \in {"messages", "reflogs", "tags", "end"}
  BY DEF Git!Follows
<1>4. \A p \in Git!Readers :
        \/ at'[p] = at[p] /\ stage'[p] = stage[p]
        \/ at[p] = "idle" /\ at'[p] = "start"
  BY <1>1, <1>2 DEF GitTypes
<1>5. \A p \in Git!Readers : GitReader(p)'
  <2> SUFFICES ASSUME NEW p \in Git!Readers
               PROVE  GitReader(p)'
    OBVIOUS
  <2>1. QED
    BY <1>1, <1>4, GitControl
<1>6. GitTypes'
  <2>1. stage' \in [Git!Readers -> Git!Stages]
    BY <1>1, <1>2, <1>3 DEF GitTypes, Git!Stages
  <2>2. at' \in [Git!Readers -> {"idle", "start", "read", "blob", "yield", "kill", "drain", "wait",
                                 "ended", "returned"}]
    BY <1>1, <1>2 DEF GitTypes
  <2>3. phase' \in {"begin", "workers", "reading", "returned"} /\ verdict' \subseteq Errors
    BY <1>1, <1>2 DEF GitTypes
  <2>4. QED
    BY <1>1, <2>1, <2>2, <2>3 DEF GitTypes
<1>7. GitPhases'
  <2>1. \A p \in Workers : p # "main" /\ p \in Git!Readers
    BY InstancesAreAdmissible DEF Git!Assumptions, Git!Readers
  <2>2. \A p \in Workers : at'[p] = at[p]
    BY <1>1, <1>2, <2>1 DEF GitTypes
  <2>3. at'["main"] # "returned" /\ (phase' = "returned" => at'["main"] = "idle")
    BY <1>1, <1>2 DEF GitTypes
  <2>4. QED
    BY <1>1, <1>2, <2>2, <2>3 DEF GitPhases
<1>8. GitGroup' /\ (faults' = 0 /\ ~ctxDone' => groupErr' \subseteq {"refused"})
  BY <1>1 DEF GitInv, GitGroup
<1>9. Git!KillNotReported'
  <2>1. errs["main"] = {}
    BY <1>1 DEF GitInv, GitReader, GitErrors
  <2>2. refused => groupErr # {}
    BY <1>1, <2>1, RefusalReachesGroup
  <2>3. faults = 0 /\ ~ctxDone => groupErr \subseteq {"refused"}
    BY DEF GitInv
  <2>4. QED
    BY <1>1, <1>2, <2>2, <2>3 DEF Git!KillNotReported
<1>10. QED
  BY <1>5, <1>6, <1>7, <1>8, <1>9 DEF GitInv

(* main has read everything;                                               *)
LEMMA GitFinishInv ==
  ASSUME GitInv, Git!Finish, target' = target
  PROVE  GitInv'
<1>1. /\ UNCHANGED <<at, stage, cur, errs, git, listener, groupErr, ctxDone, refused, yielded, lost, faults>>
      /\ phase = "reading" /\ at["main"] = "ended" /\ phase' = "returned" /\ verdict' = errs["main"]
      /\ GitTypes /\ GitPhases /\ "main" \in Git!Readers
  BY DEF Git!Finish, Git!Return, Git!reader, Git!Readers, GitInv
<1>2. \A p \in Git!Readers : GitReader(p)'
  BY <1>1, GitControl
<1>3. GitTypes' /\ GitPhases'
  BY <1>1 DEF GitTypes, GitPhases
<1>4. GitGroup' /\ (faults' = 0 /\ ~ctxDone' => groupErr' \subseteq {"refused"})
  BY <1>1 DEF GitInv, GitGroup
<1>5. Git!KillNotReported'
  <2>1. groupErr = {} /\ \A p \in Workers : at[p] \in {"idle", "returned"}
    BY <1>1 DEF GitPhases
  <2>2. refused => "refused" \in errs["main"]
    BY <2>1, RefusalReachesGroup
  <2>3. faults = 0 /\ ~ctxDone => errs["main"] \subseteq {"refused"}
    BY <1>1 DEF GitInv, GitReader, GitClean, Undisturbed
  <2>4. QED
    BY <1>1, <2>2, <2>3 DEF Git!KillNotReported
<1>6. QED
  BY <1>2, <1>3, <1>4, <1>5 DEF GitInv

(* the caller cancels.                                                     *)
LEMMA GitCancelInv ==
  ASSUME GitInv, Git!Cancel
  PROVE  GitInv'
<1>1. /\ UNCHANGED <<target, phase, at, stage, cur, errs, git, listener, groupErr, refused, yielded, lost, faults, verdict>>
      /\ phase # "returned" /\ ctxDone' = TRUE
  BY DEF Git!Cancel, Git!reader
<1>2. \A p \in Git!Readers : GitReader(p)'
  BY <1>1, GitControl
<1>3. QED
  BY <1>1, <1>2 DEF GitInv, GitTypes, GitPhases, GitGroup, Git!KillNotReported

(* GitInv is inductive.                                                    *)
LEMMA GitInit ==
  ASSUME Git!Init
  PROVE  GitInv
<1>1. "main" \in Git!Readers /\ "main" \notin Workers /\ Workers \subseteq Git!Readers
  BY InstancesAreAdmissible DEF Git!Assumptions, Git!Readers
<1>2. <<>> \in Seq(GitLines) /\ DOMAIN <<>> = {}
  OBVIOUS
<1>3. Git!NoProcess \in Processes
  BY <1>2 DEF Git!NoProcess, Processes
<1>4. GitTypes
  <2>1. git \in [Git!Readers -> Processes]
    BY <1>3 DEF Git!Init
  <2>2. QED
    BY <1>2, <2>1 DEF Git!Init, GitTypes, Git!Stages, Errors
<1>5. \A p \in Git!Readers : GitReader(p)
  <2> SUFFICES ASSUME NEW p \in Git!Readers
               PROVE  GitReader(p)
    OBVIOUS
  <2>1. /\ at[p] = "idle" /\ stage[p] = "log" /\ errs[p] = {} /\ git[p] = Git!NoProcess
        /\ listener[p] = "none"
    BY DEF Git!Init
  <2>2. /\ Git!NoProcess.run = "none" /\ Git!NoProcess.code = "ok" /\ Git!NoProcess.stderr # <<"error">>
        /\ DOMAIN Git!NoProcess.stdout = {}
    BY DEF Git!NoProcess
  <2>3. QED
    BY <2>1, <2>2 DEF GitReader, GitProcess, GitErrors, GitClean, GitRecords
<1>6. GitPhases /\ GitGroup /\ groupErr = {} /\ Git!KillNotReported
  BY <1>1 DEF Git!Init, GitPhases, GitGroup, Git!KillNotReported
<1>7. QED
  BY <1>4, <1>5, <1>6 DEF GitInv

(* A step of nobody keeps the invariant,                                   *)
LEMMA GitUnchanged ==
  ASSUME GitInv, UNCHANGED Git!vars
  PROVE  GitInv'
<1>1. /\ UNCHANGED <<target, phase, groupErr, ctxDone, refused, yielded, lost, faults, verdict>>
      /\ UNCHANGED <<at, stage, cur, errs, git, listener>>
  BY DEF Git!vars, Git!reader
<1>2. \A p \in Git!Readers : GitReader(p)'
  BY <1>1, GitControl
<1>3. QED
  BY <1>1, <1>2 DEF GitInv, GitTypes, GitPhases, GitGroup, Git!KillNotReported

(* and so does every step of a repository's scan: GitInv is inductive.     *)
LEMMA GitNextInv ==
  ASSUME GitInv, Git!Next
  PROVE  GitInv'
<1>1. CASE Git!Cancel
  BY <1>1, GitCancelInv
<1>2. CASE Git!Finished
  BY <1>2, GitUnchanged DEF Git!Finished
<1>3. CASE Git!Control
  <2>1. target' = target
    BY <1>3 DEF Git!Control
  <2>2. CASE Git!Begin
    BY <2>1, <2>2, GitBeginInv
  <2>3. CASE Git!Join
    BY <2>1, <2>3, GitJoinInv
  <2>4. CASE Git!Finish
    BY <2>1, <2>4, GitFinishInv
  <2>5. ASSUME NEW p \in Workers, Git!WorkerReturns(p)
        PROVE  GitInv'
    BY <2>1, <2>5, GitReturnsInv
  <2>6. QED
    BY <1>3, <2>2, <2>3, <2>4, <2>5 DEF Git!Control
<1>4. ASSUME NEW p \in Git!Readers, Git!ReaderStep(p)
      PROVE  GitInv'
  <2>1. target' = target
    BY <1>4 DEF Git!ReaderStep
  <2>2. CASE Git!GitWrites(p) \/ Git!GitBreaksOff(p) \/ Git!GitEnds(p)
    BY <2>1, <2>2, GitWritesInv, GitBreaksOffInv, GitEndsInv
  <2>3. CASE Git!Listen(p) \/ Git!ListenEnds(p)
    BY <2>1, <2>3, GitListenInv
  <2>4. CASE Git!Start(p) \/ Git!ReadRecord(p) \/ Git!ReadEnd(p) \/ Git!OpenBlob(p)
    BY <2>1, <2>4, GitStartInv, GitReadRecordInv, GitReadEndInv, GitOpenBlobInv
  <2>5. CASE Git!YieldAccepts(p) \/ Git!YieldRefuses(p)
    BY <2>1, <2>5, GitYieldInv
  <2>6. CASE Git!Kill(p) \/ Git!Drain(p) \/ Git!WaitProcess(p)
    BY <2>1, <2>6, GitKillInv, GitDrainInv, GitWaitInv
  <2>7. QED
    BY <1>4, <2>2, <2>3, <2>4, <2>5, <2>6 DEF Git!ReaderStep
<1>5. QED
  BY <1>1, <1>2, <1>3, <1>4 DEF Git!Next, Git!Progress

(* What it says of the processes when Fragments returns.                   *)
LEMMA GitNothingLeftBehind ==
  ASSUME GitInv
  PROVE  Git!NothingLeftBehind
<1> SUFFICES ASSUME phase = "returned", NEW p \in Git!Readers
             PROVE  /\ git[p].run = "none" /\ listener[p] \in {"none", "closed"}
                    /\ at[p] \in {"idle", "ended", "returned"}
  BY DEF Git!NothingLeftBehind
<1>1. at[p] \in {"idle", "ended", "returned"}
  BY DEF GitInv, GitPhases, Git!Readers
<1>2. git[p] = Git!NoProcess /\ listener[p] \in {"none", "closed"}
  BY <1>1 DEF GitInv, GitReader, GitProcess
<1>3. QED
  BY <1>1, <1>2 DEF Git!NoProcess

-----------------------------------------------------------------------------
(* S3Source. The first error of a group ends its context, and what has     *)
(* ended that of the only bucket is a stop or a failed listing.            *)
Causes == {"none"} \cup Errors

S3Types ==
  /\ target \in S3Targets
  /\ at \in {"begin", "bucket", "list", "check", "submit", "wait", "end", "returned"}
  /\ obj \in [Objects -> {"unlisted", "skipped", "queued", "fetching", "yielding", "cutOff", "failing",
                          "scanned", "stopped", "lost"}]
  /\ exitErr \subseteq Errors /\ groupErr \in Causes /\ groupCause \in Causes /\ cause \in Causes
  /\ ctxDone \in BOOLEAN /\ listFailed \in BOOLEAN /\ verdict \subseteq Errors

(* What an error says of the scan.                                         *)
S3Errors ==
  /\ cause # "fail" /\ (ctxDone => cause # "none")
  /\ groupErr # "none" => S3!GroupDone
  /\ ~S3!Enumerate =>
       /\ at \in {"begin", "bucket"} => groupCause = "none" /\ exitErr = {}
       /\ groupCause # "none" => S3!Stopped
       /\ exitErr \cap S3!Stops # {} => S3!Stopped

(* When a listing has failed the lister is on its way out, with an error.  *)
S3Listing ==
  listFailed =>
    /\ S3!Enumerate => at = "returned"
    /\ at \in {"wait", "end", "returned"}
    /\ at \in {"wait", "end"} => exitErr # {}

S3Inv ==
  /\ S3Types /\ S3Errors /\ S3Listing
  /\ at \notin {"list", "check", "submit", "wait"} => S3!Running = {}

-----------------------------------------------------------------------------
(* HuggingFaceSource. Whatever has stopped it, the caller or a failed      *)
(* request is behind it.                                                   *)
HFTypes ==
  /\ enum \in {"sending", "reporting", "done"} /\ main \in {"enumeration", "scans", "returned"}
  /\ at \in {"receive", "list", "entry", "submit", "wait", "done"}
  /\ enumErr \in {"none", "canceled", "fail"} /\ listErr \subseteq Errors /\ firstErr \subseteq Errors
  /\ obj \in [Objects -> {"unlisted", "skipped", "queued", "fetching", "yielding", "scanned", "stopped"}]
  /\ groupErr \in Causes /\ groupCause \in Causes /\ cause \in Causes
  /\ ctxDone \in BOOLEAN /\ failed \in BOOLEAN /\ verdict \subseteq Errors

HFErrors ==
  cause # "none" \/ groupCause # "none" \/ groupErr # "none" \/ enumErr # "none"
    \/ listErr # {} \/ firstErr # {}
  => HF!Stopped

(* A failed request is on its way to what Fragments returns.               *)
HFFailure ==
  failed =>
    \/ cause # "none" \/ enumErr # "none" \/ firstErr # {}
    \/ at \in {"list", "entry", "submit", "wait"} /\ (listErr # {} \/ groupErr # "none")

(* What the enumeration has come to is the cause, unless there was another.*)
HFCause ==
  /\ enumErr = "canceled" => cause # "none"
  /\ main # "enumeration" /\ enumErr # "none" => cause # "none"
  /\ ~ctxDone => cause \in {"none", "fail"}
  /\ main = "returned" => verdict = IF cause # "none" THEN {cause} ELSE firstErr

HFInv ==
  /\ HFTypes /\ HFErrors /\ HFFailure /\ HFCause
  /\ at \in {"receive", "done"} => HF!Running = {}
  /\ main \in {"scans", "returned"} => enum = "done"
  /\ main = "returned" => at = "done"

-----------------------------------------------------------------------------
(* SourceScan: what its variables hold.                                    *)
HostStep(plan, step) ==
  /\ Hosts!StepOf(plan, step)
  /\ step.op = "yield" => step.in \in Inputs

HostScript(plan, script) ==
  script \in Seq(Hosts!ToSet(script)) /\ \A k \in DOMAIN script : HostStep(plan, script[k])

HostTypes ==
  /\ target \in DOMAIN HostTargets
  /\ at \in {"begin", "dispatch", "alone", "enumerating", "joining", "returned"}
  /\ state \in [Hosts!Procs -> {"idle", "busy", "yielding", "done"}]
  /\ err \in [Hosts!Procs -> Causes] /\ cause \in Causes
  /\ refused \subseteq Hosts!Procs /\ verdict \subseteq Errors
  /\ DOMAIN todo = Hosts!Procs /\ \A p \in Hosts!Procs : HostScript(Hosts!Plan, todo[p])
  /\ repoCh \in Seq(DOMAIN Hosts!Plan.scripts) /\ runCh \in Seq(DOMAIN Hosts!Plan.scripts)

(* Who runs when.                                                          *)
HostPhases ==
  /\ at = "begin" => state["main"] = "idle"
  /\ at \in {"dispatch", "alone"} => state["main"] \in {"busy", "yielding"}
  /\ at \in {"enumerating", "joining"} => state["main"] = "idle" /\ Hosts!Plan.enumerate
  /\ at \in {"begin", "dispatch", "alone"} =>
       \A p \in {"enum", "scan"} : state[p] = "idle" /\ err[p] = "none"
  /\ at = "begin" => err["main"] = "none"
  /\ at = "joining" => state["enum"] = "done" /\ (err["enum"] # "none" => cause # "none")
  /\ at = "returned" => \A p \in {"enum", "scan"} : state[p] \in {"idle", "done"}
  /\ at \in {"begin", "enumerating", "joining", "returned"} => todo["main"] = <<>> /\ state["main"] # "yielding"

(* What a goroutine has to do, and with which error it goes on.            *)
HostWork(p) ==
  /\ state[p] \in {"idle", "done"} => todo[p] = <<>>
  /\ state[p] = "yielding" => todo[p] # <<>> /\ Head(todo[p]).op \in {"yield", "tell"}
  /\ p \in {"main", "enum"} /\ todo[p] # <<>> => err[p] = "none"
  /\ p = "scan" /\ todo[p] # <<>> => err[p] \in {"none", "fail"}
  /\ p \notin Workers => (err[p] = "refused" => refused # {}) /\ (err[p] = "canceled" => cause # "none")
  /\ ~Hosts!Plan.wrapped /\ p \in refused =>
       todo[p] = <<>> /\ (err[p] # "none" \/ (p \in Hosts!Group /\ state["list"] = "idle"))

(* A group is there while its owner waits for it, and its owner alone.     *)
HostGroup ==
  /\ state["list"] = "idle" =>
       /\ runCh = <<>> /\ \A q \in Hosts!Group : state[q] = "idle" /\ err[q] = "none"
  /\ state["list"] # "idle" =>
       Hosts!NextIs(IF at \in {"dispatch", "alone"} THEN "main" ELSE "scan", {"group"})
  /\ \A q \in Workers : err[q] # "none" => Hosts!GroupErr # "none"

(* What a refusal does.                                                    *)
HostRefused ==
  /\ cause = "refused" => refused # {}
  /\ Hosts!Plan.wrapped /\ refused # {} => cause # "none"
  /\ ~Hosts!Plan.wrapped /\ refused # {} =>
       err["main"] # "none" \/ (state["list"] # "idle" /\ Hosts!GroupErr # "none")

HostInv ==
  /\ HostTypes /\ HostPhases /\ HostGroup /\ HostRefused
  /\ \A p \in Hosts!Procs : HostWork(p)

-----------------------------------------------------------------------------
(* S3Inv is inductive: the lister's steps that leave the group alone,      *)
LEMMA S3ListerInv ==
  ASSUME S3Inv, target' = target,
         \/ S3!Begin \/ S3!EndEnumeration \/ S3!SkipBucket \/ S3!ListPage \/ S3!EndPage
         \/ S3!NextBucket \/ S3!Finish
  PROVE  S3Inv'
<1>1. /\ UNCHANGED <<obj, groupErr, groupCause, ctxDone, cause, exitErr>>
      /\ at \notin {"submit", "wait"} /\ S3!Running' = S3!Running
  BY DEF S3!Begin, S3!EndEnumeration, S3!SkipBucket, S3!ListPage, S3!EndPage, S3!NextBucket,
     S3!Finish, S3!NextIsBucket, S3!group, S3!Running
<1>2. /\ S3!Enumerate' = S3!Enumerate /\ S3!GroupDone' = S3!GroupDone /\ (S3!Stopped => S3!Stopped')
      /\ at' \in {"bucket", "list", "check", "wait", "end", "returned"} /\ verdict' \subseteq Errors
      /\ listFailed' \in BOOLEAN
      /\ at' \notin {"list", "check", "submit", "wait"} => at \notin {"list", "check", "submit", "wait"}
      /\ listFailed' => listFailed \/ (S3!Enumerate /\ at' = "returned")
      /\ listFailed => at = "end" /\ at' = "returned"
      /\ ~S3!Enumerate /\ at' = "bucket" => at = "begin"
  <2>1. S3!Enumerate' = S3!Enumerate /\ S3!GroupDone' = S3!GroupDone
    BY <1>1 DEF S3!Enumerate, S3!GroupDone, S3!GroupCause
  <2>0. /\ cause # "none" => {cause} \subseteq Errors
        /\ listFailed => at \in {"wait", "end", "returned"} /\ (S3!Enumerate => at = "returned")
    BY DEF S3Inv, S3Types, S3Listing, Causes
  <2>2. CASE S3!Begin
    <3>1. CASE at' = "bucket" /\ UNCHANGED <<listFailed, verdict>>
      BY <1>1, <2>0, <2>1, <2>2, <3>1 DEF S3!Begin, S3Inv, S3Types, S3!Stopped
    <3>2. CASE S3!Enumerate /\ S3!Return({"fail"}) /\ listFailed' = (cause = "none")
      <4>1. at' = "returned" /\ verdict' \subseteq Errors /\ listFailed' \in BOOLEAN
        BY <2>0, <3>2 DEF S3!Return, Errors
      <4>2. QED
        BY <1>1, <2>0, <2>1, <2>2, <3>2, <4>1 DEF S3!Begin, S3!Stopped
    <3>3. QED
      BY <2>2, <3>1, <3>2 DEF S3!Begin
  <2>3. CASE S3!EndEnumeration \/ S3!Finish
    <3>1. /\ at \in {"bucket", "end"} /\ at' = "returned" /\ listFailed' = listFailed
          /\ (at = "bucket" => S3!Enumerate)
          /\ verdict' \subseteq Errors
      BY <2>0, <2>3 DEF S3!EndEnumeration, S3!Finish, S3!Return, S3Inv, S3Types
    <3>2. QED
      BY <1>1, <2>0, <2>1, <3>1 DEF S3!Stopped, S3Inv, S3Types
  <2>4. CASE S3!SkipBucket \/ S3!NextBucket
    BY <1>1, <2>1, <2>4 DEF S3!SkipBucket, S3!NextBucket, S3!NextIsBucket, S3Inv, S3Types, S3Listing, S3!Stopped
  <2>5. CASE S3!ListPage \/ S3!EndPage
    BY <1>1, <2>1, <2>5 DEF S3!ListPage, S3!EndPage, S3Inv, S3Types, S3Listing, S3!Stopped
  <2>6. QED
    BY <2>2, <2>3, <2>4, <2>5
<1>3. S3Types'
  BY <1>1, <1>2 DEF S3Inv, S3Types
<1>4. S3Errors'
  BY <1>1, <1>2 DEF S3Inv, S3Errors
<1>5. S3Listing'
  BY <1>1, <1>2 DEF S3Inv, S3Listing
<1>6. at' \notin {"list", "check", "submit", "wait"} => S3!Running' = {}
  BY <1>1, <1>2 DEF S3Inv
<1>7. QED
  BY <1>3, <1>4, <1>5, <1>6 DEF S3Inv

(* those that start, fill and end it,                                      *)
LEMMA S3GroupInv ==
  ASSUME S3Inv, target' = target,
         S3!StartBucket \/ S3!ListFails \/ S3!CheckObject \/ S3!Submit \/ S3!EndBucket
  PROVE  S3Inv'
<1>1. S3!Enumerate' = S3!Enumerate
  BY DEF S3!Enumerate
<1>2. CASE S3!StartBucket
  <2>1. S3!Running' = S3!Running /\ S3!Running = {}
    BY <1>2 DEF S3!StartBucket, S3!NextIsBucket, S3!Running, S3Inv
  <2>2. QED
    BY <1>1, <1>2, <2>1 DEF S3!StartBucket, S3!NextIsBucket, S3!group, S3Inv, S3Types, S3Errors, S3Listing,
       Causes, S3!Stopped, S3!GroupDone, S3!GroupCause
<1>3. CASE S3!ListFails
  <2>1. /\ at = "list" /\ at' = "wait" /\ ~listFailed /\ obj' = obj /\ S3!Running' = S3!Running
        /\ UNCHANGED <<groupErr, ctxDone, cause, verdict>>
        /\ groupCause' = IF S3!GroupDone THEN groupCause ELSE "canceled"
        /\ \/ exitErr' = {"fail"} /\ listFailed' = (~S3!GroupDone /\ ~S3!Enumerate)
           \/ S3!GroupDone /\ exitErr' = {S3!GroupCause} /\ UNCHANGED listFailed
    BY <1>3 DEF S3!ListFails, S3!Running, S3Inv, S3Listing
  <2>2. S3!GroupDone => S3!GroupCause \in Errors
    BY DEF S3!GroupDone, S3!GroupCause, S3Inv, S3Types, Causes
  <2>3. S3Types'
    BY <2>1, <2>2 DEF S3Inv, S3Types, Errors, Causes
  <2>4. S3Errors'
    <3>1. S3!GroupDone' /\ (S3!Stopped => S3!Stopped')
      BY <1>1, <2>1 DEF S3!GroupDone, S3!GroupCause, S3!Stopped
    <3>2. ~S3!Enumerate => (S3!GroupDone => S3!Stopped) /\ (~S3!GroupDone => S3!Stopped')
      BY <1>1, <2>1 DEF S3Inv, S3Errors, S3!GroupDone, S3!GroupCause, S3!Stopped
    <3>3. "fail" \notin S3!Stops
      BY DEF S3!Stops
    <3>4. QED
      BY <1>1, <2>1, <3>1, <3>2, <3>3 DEF S3Inv, S3Errors
  <2>5. S3Listing'
    BY <1>1, <2>1 DEF S3Listing
  <2>6. QED
    BY <2>1, <2>3, <2>4, <2>5 DEF S3Inv
<1>4. CASE S3!CheckObject
  <2>1. /\ at = "check" /\ UNCHANGED <<groupErr, groupCause, ctxDone, cause, listFailed, verdict>>
        /\ ~listFailed
        /\ \/ S3!GroupDone /\ at' = "wait" /\ exitErr' = {"canceled"} /\ obj' = obj
           \/ at' = "submit" /\ UNCHANGED <<obj, exitErr>>
           \/ obj' = [obj EXCEPT ![S3!Considered] = "skipped"] /\ at' = at /\ exitErr' = exitErr
    BY <1>4 DEF S3!CheckObject, S3Inv, S3Listing
  <2>2. /\ S3!Stopped' = S3!Stopped /\ S3!GroupDone' = S3!GroupDone
        /\ (~S3!Enumerate /\ S3!GroupDone => S3!Stopped)
    BY <1>1, <2>1 DEF S3!GroupDone, S3!GroupCause, S3!Stopped, S3Inv, S3Errors
  <2>3. S3Types'
    BY <2>1 DEF S3Inv, S3Types, Errors
  <2>4. S3Errors'
    BY <1>1, <2>1, <2>2 DEF S3Inv, S3Errors
  <2>5. QED
    BY <2>1, <2>3, <2>4 DEF S3Inv, S3Listing
<1>5. CASE S3!Submit
  <2>1. /\ at = "submit" /\ at' = "check" /\ obj' = [obj EXCEPT ![S3!Considered] = "queued"] /\ ~listFailed
        /\ UNCHANGED <<exitErr, groupErr, groupCause, ctxDone, cause, listFailed, verdict>>
    BY <1>5 DEF S3!Submit, S3Inv, S3Listing
  <2>2. S3!Stopped' = S3!Stopped /\ S3!GroupDone' = S3!GroupDone
    BY <1>1, <2>1 DEF S3!GroupDone, S3!GroupCause, S3!Stopped
  <2>3. QED
    BY <1>1, <2>1, <2>2 DEF S3Inv, S3Types, S3Errors, S3Listing
<1>6. CASE S3!EndBucket
  <2>1. /\ at = "wait" /\ at' = "end" /\ S3!Running = {} /\ S3!Running' = S3!Running
        /\ exitErr' = exitErr \cup ({groupErr} \ {"none"})
        /\ UNCHANGED <<obj, groupErr, groupCause, ctxDone, cause, listFailed, verdict>>
    BY <1>6 DEF S3!EndBucket, S3!group, S3!Running
  <2>2. /\ S3!Stopped' = S3!Stopped /\ S3!GroupDone' = S3!GroupDone
        /\ (~S3!Enumerate /\ groupErr # "none" => S3!Stopped)
    BY <1>1, <2>1 DEF S3!GroupDone, S3!GroupCause, S3!Stopped, S3Inv, S3Errors
  <2>3. S3Types'
    BY <2>1 DEF S3Inv, S3Types, Causes
  <2>4. S3Errors'
    BY <1>1, <2>1, <2>2 DEF S3Inv, S3Errors
  <2>5. S3Listing'
    BY <1>1, <2>1 DEF S3Inv, S3Listing
  <2>6. QED
    BY <2>1, <2>3, <2>4, <2>5 DEF S3Inv
<1>7. QED
  BY <1>2, <1>3, <1>4, <1>5, <1>6

(* the tasks', and the caller's.                                           *)
LEMMA S3TaskInv ==
  ASSUME S3Inv, NEW o \in Objects, S3!TaskStep(o)
  PROVE  S3Inv'
<1>1. /\ UNCHANGED <<target, at, exitErr, ctxDone, listFailed, verdict>> /\ S3!Enumerate' = S3!Enumerate
      /\ o \in S3!Running
  BY DEF S3!TaskStep, S3!StartTask, S3!CallYield, S3!YieldAccepts, S3!YieldRefuses, S3!FetchFails,
     S3!EndFailing, S3!lister, S3!Enumerate, S3!Running
<1>2. at \in {"list", "check", "submit", "wait"}
  BY <1>1 DEF S3Inv, S3Types
<1>3. \/ /\ cause' \in {cause, "refused"} /\ (cause # "none" => cause' = cause)
         /\ UNCHANGED <<groupErr, groupCause>>
         /\ \E s \in {"fetching", "yielding", "cutOff", "failing", "scanned", "lost"} : obj' = [obj EXCEPT ![o] = s]
      \/ S3!GroupDone /\ cause' = cause /\ \E e \in Errors : S3!TaskFails(o, e)
  <2>1. CASE S3!StartTask(o)
    BY <2>1 DEF S3!StartTask, Errors
  <2>2. CASE S3!CallYield(o) \/ S3!YieldAccepts(o) \/ S3!YieldRefuses(o) \/ S3!FetchFails(o)
    BY <2>2 DEF S3!CallYield, S3!YieldAccepts, S3!YieldRefuses, S3!FetchFails
  <2>3. CASE S3!EndFailing(o)
    <3>1. S3!GroupDone => S3!GroupCause \in Errors
      BY DEF S3!GroupDone, S3!GroupCause, S3Inv, S3Types, Causes
    <3>2. QED
      BY <2>3, <3>1 DEF S3!EndFailing
  <2>4. QED
    BY <2>1, <2>2, <2>3 DEF S3!TaskStep
<1>4. CASE /\ cause' \in {cause, "refused"} /\ (cause # "none" => cause' = cause)
           /\ UNCHANGED <<groupErr, groupCause>>
           /\ \E s \in {"fetching", "yielding", "cutOff", "failing", "scanned", "lost"} : obj' = [obj EXCEPT ![o] = s]
  <2>1. (S3!Stopped => S3!Stopped') /\ (S3!GroupDone => S3!GroupDone')
    BY <1>1, <1>4 DEF S3!GroupDone, S3!GroupCause, S3!Stopped
  <2>2. S3Types'
    BY <1>1, <1>4 DEF S3Inv, S3Types, Causes, Errors
  <2>3. S3Errors'
    BY <1>1, <1>4, <2>1 DEF S3Inv, S3Errors
  <2>4. QED
    BY <1>1, <1>2, <2>2, <2>3 DEF S3Inv, S3Listing
<1>5. CASE S3!GroupDone /\ cause' = cause /\ \E e \in Errors : S3!TaskFails(o, e)
  <2>1. /\ groupCause' = groupCause /\ groupErr' \in Causes /\ obj' = [obj EXCEPT ![o] = "stopped"]
        /\ cause' = cause
    BY <1>5 DEF S3!TaskFails, S3Inv, S3Types, Causes
  <2>2. S3!Stopped' = S3!Stopped /\ S3!GroupDone'
    BY <1>1, <1>5, <2>1 DEF S3!GroupDone, S3!GroupCause, S3!Stopped
  <2>3. S3Types'
    BY <1>1, <2>1 DEF S3Inv, S3Types
  <2>4. S3Errors'
    BY <1>1, <2>1, <2>2 DEF S3Inv, S3Errors
  <2>5. QED
    BY <1>1, <1>2, <2>3, <2>4 DEF S3Inv, S3Listing
<1>6. QED
  BY <1>3, <1>4, <1>5

(* together with the tasks' steps and a cancellation: every step.          *)
LEMMA S3NextInv ==
  ASSUME S3Inv, S3!Next
  PROVE  S3Inv'
<1>1. CASE S3!Cancel
  <2>1. /\ UNCHANGED <<target, at, exitErr, obj, groupErr, groupCause, listFailed, verdict>>
        /\ ctxDone' = TRUE /\ cause' = IF cause = "none" THEN "canceled" ELSE cause
    BY <1>1 DEF S3!Cancel, S3!lister, S3!group
  <2>2. (S3!Stopped => S3!Stopped') /\ (S3!GroupDone => S3!GroupDone') /\ S3!Enumerate' = S3!Enumerate
    BY <2>1 DEF S3!GroupDone, S3!GroupCause, S3!Stopped, S3!Enumerate
  <2>3. S3Errors'
    BY <2>1, <2>2 DEF S3Inv, S3Errors
  <2>4. S3!Running' = S3!Running /\ S3Listing'
    BY <2>1, <2>2 DEF S3Inv, S3Listing, S3!Running
  <2>5. S3Types'
    BY <2>1 DEF S3Inv, S3Types, Causes, Errors
  <2>6. QED
    BY <2>1, <2>3, <2>4, <2>5 DEF S3Inv
<1>2. CASE S3!Finished
  <2>1. UNCHANGED <<target, at, exitErr, obj, groupErr, groupCause, ctxDone, cause, listFailed, verdict>>
    BY <1>2 DEF S3!Finished, S3!vars, S3!lister, S3!group
  <2>2. QED
    BY <2>1 DEF S3Inv, S3Types, S3Errors, S3Listing, S3!GroupDone, S3!GroupCause, S3!Stopped, S3!Enumerate,
       S3!Running
<1>3. CASE S3!ListerStep
  BY <1>3, S3ListerInv, S3GroupInv DEF S3!ListerStep
<1>4. ASSUME NEW o \in Objects, S3!TaskStep(o)
      PROVE  S3Inv'
  BY <1>4, S3TaskInv
<1>5. QED
  BY <1>1, <1>2, <1>3, <1>4 DEF S3!Next, S3!Progress

(* S3Inv holds before the first step.                                      *)
LEMMA S3Init ==
  ASSUME S3!Init
  PROVE  S3Inv
<1>1. S3!Running = {}
  BY DEF S3!Init, S3!Running
<1>2. QED
  BY <1>1 DEF S3!Init, S3Inv, S3Types, S3Errors, S3Listing, Causes, Errors, S3!Stops

-----------------------------------------------------------------------------
(* HFInv is inductive: the steps of the enumerator, of Fragments and of    *)
(* its caller,                                                             *)
LEMMA HFEnumerationInv ==
  ASSUME HFInv, HF!EnumStep \/ HF!MainStep \/ HF!Cancel
  PROVE  HFInv'
<1>1. /\ UNCHANGED <<at, listErr, firstErr, obj, groupErr, groupCause>>
      /\ HF!Running' = HF!Running /\ main # "returned"
  BY DEF HF!EnumStep, HF!MainStep, HF!SendBucket, HF!EnumerationFails, HF!EnumerationEnds, HF!CloseBuckets,
     HF!EnumerationKnown, HF!Return, HF!Cancel, HF!lister, HF!group, HF!Running, HFInv
<1>2. CASE HF!SendBucket \/ HF!EnumerationEnds \/ HF!CloseBuckets
  <2>1. /\ UNCHANGED <<enumErr, main, ctxDone, cause, failed, verdict>> /\ enum # "done"
        /\ enum' \in {"sending", "reporting", "done"}
    BY <1>2 DEF HF!SendBucket, HF!EnumerationEnds, HF!CloseBuckets, HFInv, HFTypes
  <2>2. QED
    BY <1>1, <2>1 DEF HFInv, HFTypes, HFErrors, HFFailure, HFCause, HF!Stopped
<1>3. CASE HF!EnumerationFails
  <2>1. /\ UNCHANGED <<main, ctxDone, cause, verdict>> /\ main = "enumeration" /\ enum' = "reporting"
        /\ \/ enumErr' = "fail" /\ failed' = (failed \/ cause = "none")
           \/ cause # "none" /\ enumErr' = "canceled" /\ failed' = failed
    BY <1>3 DEF HF!EnumerationFails, HF!Fails, HFInv, HFTypes
  <2>2. HF!Stopped'
    BY <2>1 DEF HF!Stopped, HFInv, HFErrors
  <2>3. HFTypes'
    BY <1>1, <2>1 DEF HFInv, HFTypes
  <2>4. HFErrors' /\ HFFailure' /\ HFCause'
    BY <1>1, <2>1, <2>2 DEF HFInv, HFErrors, HFFailure, HFCause
  <2>5. QED
    BY <1>1, <2>1, <2>3, <2>4 DEF HFInv
<1>4. CASE HF!EnumerationKnown
  <2>1. /\ UNCHANGED <<enum, enumErr, ctxDone, failed, verdict>> /\ main' = "scans" /\ enum = "done"
        /\ cause' = IF enumErr = "none" \/ cause # "none" THEN cause ELSE enumErr
    BY <1>4 DEF HF!EnumerationKnown, HF!enumerator, HF!Because
  <2>2. HFTypes'
    BY <1>1, <2>1 DEF HFInv, HFTypes, Causes, Errors
  <2>3. HFErrors' /\ HFFailure' /\ HFCause'
    BY <1>1, <2>1 DEF HFInv, HFTypes, HFErrors, HFFailure, HFCause, HF!Stopped
  <2>4. QED
    BY <1>1, <2>1, <2>2, <2>3 DEF HFInv
<1>5. CASE HF!Return
  <2>1. /\ UNCHANGED <<enum, enumErr, ctxDone, cause, failed>> /\ main' = "returned"
        /\ main = "scans" /\ at = "done" /\ verdict' = IF cause # "none" THEN {cause} ELSE firstErr
    BY <1>5 DEF HF!Return, HF!enumerator
  <2>2. HFTypes'
    BY <1>1, <2>1 DEF HFInv, HFTypes, Causes
  <2>3. HFErrors' /\ HFFailure' /\ HFCause'
    BY <1>1, <2>1 DEF HFInv, HFErrors, HFFailure, HFCause, HF!Stopped
  <2>4. QED
    BY <1>1, <2>1, <2>2, <2>3 DEF HFInv
<1>6. CASE HF!Cancel
  <2>1. /\ UNCHANGED <<enum, enumErr, main, failed, verdict>> /\ ctxDone' = TRUE
        /\ cause' = IF cause = "none" THEN "canceled" ELSE cause
    BY <1>6 DEF HF!Cancel, HF!enumerator, HF!Because
  <2>2. HFTypes'
    BY <1>1, <2>1 DEF HFInv, HFTypes, Causes, Errors
  <2>3. HFErrors' /\ HFFailure' /\ HFCause'
    BY <1>1, <2>1 DEF HFInv, HFErrors, HFFailure, HFCause, HF!Stopped
  <2>4. QED
    BY <1>1, <2>1, <2>2, <2>3 DEF HFInv
<1>7. QED
  BY <1>2, <1>3, <1>4, <1>5, <1>6 DEF HF!EnumStep, HF!MainStep

(* those of the goroutine that scans the buckets,                          *)
LEMMA HFScanInv ==
  ASSUME HFInv, HF!ScanStep
  PROVE  HFInv'
<1>1. /\ UNCHANGED <<enum, enumErr, main, ctxDone, cause, verdict>> /\ main # "returned" /\ at # "done"
  BY DEF HF!ScanStep, HF!ReceiveBucket, HF!NoMoreBuckets, HF!ListPage, HF!ListFails, HF!ConsiderEntry,
     HF!Submit, HF!EndPage, HF!EndBucket, HF!enumerator, HFInv
<1>2. CASE HF!ReceiveBucket
  <2>1. /\ UNCHANGED <<obj, failed>> /\ HF!Running' = HF!Running /\ at = "receive"
        /\ \/ cause # "none" /\ at' = "done" /\ firstErr' = {cause} /\ UNCHANGED <<listErr, groupErr, groupCause>>
           \/ at' = "list" /\ listErr' = {} /\ groupErr' = "none" /\ groupCause' = "none" /\ firstErr' = firstErr
           \/ UNCHANGED <<at, firstErr, listErr, groupErr, groupCause>>
    BY <1>2 DEF HF!ReceiveBucket, HF!Running
  <2>2. HFTypes'
    BY <1>1, <2>1 DEF HFInv, HFTypes, Causes
  <2>3. HFErrors' /\ HFFailure' /\ HFCause'
    BY <1>1, <2>1 DEF HFInv, HFErrors, HFFailure, HFCause, HF!Stopped
  <2>4. QED
    BY <1>1, <2>1, <2>2, <2>3 DEF HFInv
<1>3. CASE HF!NoMoreBuckets \/ HF!ListPage \/ HF!EndPage
  <2>1. /\ UNCHANGED <<obj, failed, listErr, groupErr, groupCause, firstErr>> /\ HF!Running' = HF!Running
        /\ at' \in {"list", "entry", "wait", "done"} /\ (at' = "done" <=> at = "receive")
        /\ at \in {"receive", "list", "entry"}
    BY <1>3 DEF HF!NoMoreBuckets, HF!ListPage, HF!EndPage, HF!lister, HF!group, HF!Running
  <2>2. HFTypes'
    BY <1>1, <2>1 DEF HFInv, HFTypes
  <2>3. HFErrors' /\ HFFailure' /\ HFCause'
    BY <1>1, <2>1 DEF HFInv, HFErrors, HFFailure, HFCause, HF!Stopped
  <2>4. QED
    BY <1>1, <2>1, <2>2, <2>3 DEF HFInv
<1>4. CASE HF!ListFails \/ HF!ConsiderEntry \/ HF!Submit
  <2>1. /\ UNCHANGED <<firstErr, groupErr>> /\ at \in {"list", "entry", "submit"} /\ at' \in {"entry", "submit", "wait"}
        /\ obj' = obj \/ \E s \in {"queued", "skipped"} : obj' = [obj EXCEPT ![HF!Considered] = s]
        /\ \/ UNCHANGED <<listErr, groupCause, failed>>
           \/ /\ listErr' \subseteq Errors /\ listErr' # {}
              /\ groupCause' = IF HF!GroupDone THEN groupCause ELSE "canceled"
              /\ \/ failed' = (failed \/ ~HF!GroupDone)
                 \/ HF!GroupDone /\ failed' = failed
    <3>1. HF!GroupDone => HF!GroupCause \in Errors
      BY DEF HF!GroupDone, HF!GroupCause, HFInv, HFTypes, Causes
    <3>2. CASE HF!ListFails
      BY <3>1, <3>2 DEF HF!ListFails, HF!ListEnds, Errors
    <3>3. CASE HF!ConsiderEntry
      BY <3>1, <3>3 DEF HF!ConsiderEntry, HF!ListEnds, Errors
    <3>4. CASE HF!Submit
      BY <3>4 DEF HF!Submit
    <3>5. QED
      BY <1>4, <3>2, <3>3, <3>4
  <2>2. (HF!GroupDone => HF!Stopped) /\ (HF!Stopped => HF!Stopped')
    <3>1. HF!GroupDone => HF!Stopped
      BY DEF HFInv, HFErrors, HF!GroupDone, HF!GroupCause
    <3>2. failed \in BOOLEAN /\ ctxDone' = ctxDone
      BY <1>1 DEF HFInv, HFTypes
    <3>3. failed => failed'
      BY <2>1, <3>2
    <3>4. QED
      BY <3>1, <3>2, <3>3 DEF HF!Stopped
  <2>3. HFTypes'
    <3>1. obj' \in [Objects -> {"unlisted", "skipped", "queued", "fetching", "yielding", "scanned", "stopped"}]
      BY <2>1 DEF HFInv, HFTypes
    <3>2. groupCause' \in Causes /\ failed' \in BOOLEAN /\ listErr' \subseteq Errors
      BY <2>1 DEF HFInv, HFTypes, Causes, Errors
    <3>3. QED
      BY <1>1, <2>1, <3>1, <3>2 DEF HFInv, HFTypes
  <2>4. HFErrors' /\ HFFailure' /\ HFCause'
    BY <1>1, <2>1, <2>2 DEF HFInv, HFErrors, HFFailure, HFCause, HF!Stopped
  <2>5. QED
    BY <1>1, <2>1, <2>3, <2>4 DEF HFInv
<1>5. CASE HF!EndBucket
  <2>1. /\ UNCHANGED <<obj, failed, listErr, groupErr, groupCause>> /\ HF!Running' = HF!Running
        /\ HF!Running = {} /\ at = "wait" /\ at' = "receive"
        /\ firstErr' = IF firstErr # {} THEN firstErr ELSE listErr \cup ({groupErr} \ {"none"})
    BY <1>5 DEF HF!EndBucket, HF!group, HF!Running
  <2>2. HFTypes'
    BY <1>1, <2>1 DEF HFInv, HFTypes, Causes
  <2>3. HFErrors' /\ HFFailure' /\ HFCause'
    BY <1>1, <2>1 DEF HFInv, HFErrors, HFFailure, HFCause, HF!Stopped
  <2>4. QED
    BY <1>1, <2>1, <2>2, <2>3 DEF HFInv
<1>6. QED
  BY <1>2, <1>3, <1>4, <1>5 DEF HF!ScanStep

(* and the tasks'.                                                         *)
LEMMA HFTaskInv ==
  ASSUME HFInv, NEW o \in Objects, HF!TaskStep(o)
  PROVE  HFInv'
<1>1. /\ UNCHANGED <<enum, enumErr, main, at, listErr, firstErr, ctxDone, verdict>>
      /\ o \in HF!Running
  BY DEF HF!TaskStep, HF!StartTask, HF!FetchFails, HF!CallYield, HF!YieldAccepts, HF!YieldRefuses,
     HF!enumerator, HF!lister, HF!Running
<1>2. at \in {"list", "entry", "submit", "wait"} /\ main # "returned"
  BY <1>1 DEF HFInv, HFTypes
<1>3. \/ /\ UNCHANGED <<groupErr, groupCause, cause, failed>>
         /\ \E s \in {"fetching", "yielding", "scanned"} : obj' = [obj EXCEPT ![o] = s]
      \/ /\ \E e \in Errors : HF!TaskFails(o, e)
         /\ \/ failed' = (failed \/ ~HF!GroupDone) /\ cause' = cause
            \/ HF!GroupDone /\ failed' = failed /\ cause' = cause
            \/ ctxDone /\ failed' = failed /\ cause' = HF!Because("refused")
  BY DEF HF!TaskStep, HF!StartTask, HF!FetchFails, HF!CallYield, HF!YieldAccepts, HF!YieldRefuses, Errors
<1>4. CASE /\ UNCHANGED <<groupErr, groupCause, cause, failed>>
           /\ \E s \in {"fetching", "yielding", "scanned"} : obj' = [obj EXCEPT ![o] = s]
  <2>1. HFTypes'
    BY <1>1, <1>4 DEF HFInv, HFTypes
  <2>2. QED
    BY <1>1, <1>2, <1>4, <2>1 DEF HFInv, HFErrors, HFFailure, HFCause, HF!Stopped
<1>5. CASE /\ \E e \in Errors : HF!TaskFails(o, e)
           /\ \/ failed' = (failed \/ ~HF!GroupDone) /\ cause' = cause
              \/ HF!GroupDone /\ failed' = failed /\ cause' = cause
              \/ ctxDone /\ failed' = failed /\ cause' = HF!Because("refused")
  <2>1. /\ groupErr' \in Errors /\ groupCause' \in Causes
        /\ obj' = [obj EXCEPT ![o] = "stopped"]
    BY <1>5 DEF HF!TaskFails, HFInv, HFTypes, Causes
  <2>2. HF!Stopped'
    <3>1. HF!GroupDone => HF!Stopped
      BY DEF HFInv, HFErrors, HF!GroupDone, HF!GroupCause
    <3>2. failed \in BOOLEAN /\ ctxDone' = ctxDone
      BY <1>1 DEF HFInv, HFTypes
    <3>3. failed' \/ HF!Stopped
      BY <1>5, <3>1, <3>2 DEF HF!Stopped
    <3>4. failed => failed'
      BY <1>5, <3>2
    <3>5. QED
      BY <3>2, <3>3, <3>4 DEF HF!Stopped
  <2>3. /\ cause' \in Causes /\ failed' \in BOOLEAN /\ (cause # "none" => cause' = cause)
        /\ (~ctxDone => cause' = cause)
    BY <1>5 DEF HF!Because, HFInv, HFTypes, Causes, Errors
  <2>4. HFTypes'
    BY <1>1, <2>1, <2>3 DEF HFInv, HFTypes, Causes
  <2>5. groupErr' # "none"
    BY <2>1 DEF Errors
  <2>6. HFErrors' /\ HFFailure'
    BY <1>1, <1>2, <2>2, <2>5 DEF HFErrors, HFFailure
  <2>7. HFCause'
    BY <1>1, <1>2, <2>3 DEF HFInv, HFCause
  <2>8. QED
    BY <1>1, <1>2, <2>4, <2>6, <2>7 DEF HFInv
<1>6. QED
  BY <1>3, <1>4, <1>5

(* HFInv is kept by every step,                                            *)
LEMMA HFNextInv ==
  ASSUME HFInv, HF!Next
  PROVE  HFInv'
<1>1. CASE HF!Finished
  BY <1>1 DEF HF!Finished, HF!vars, HF!enumerator, HF!lister, HF!group, HFInv, HFTypes, HFErrors, HFFailure,
     HFCause, HF!Stopped, HF!Running
<1>2. ASSUME NEW o \in Objects, HF!TaskStep(o)
      PROVE  HFInv'
  BY <1>2, HFTaskInv
<1>3. QED
  BY <1>1, <1>2, HFEnumerationInv, HFScanInv DEF HF!Next, HF!Progress

(* and holds before the first.                                             *)
LEMMA HFInit ==
  ASSUME HF!Init
  PROVE  HFInv
BY DEF HF!Init, HFInv, HFTypes, HFErrors, HFFailure, HFCause, HF!Running, Causes, Errors

-----------------------------------------------------------------------------
(* The scripts of a plan, and what is left of one, consist of its steps.   *)
LEMMA OwnElements ==
  ASSUME NEW S, NEW s \in Seq(S)
  PROVE  s \in Seq(Hosts!ToSet(s))
<1>1. Len(s) \in Nat /\ s = [k \in 1..Len(s) |-> s[k]] /\ DOMAIN s = 1..Len(s)
  OBVIOUS
<1>2. s \in [1..Len(s) -> Hosts!ToSet(s)]
  BY <1>1 DEF Hosts!ToSet
<1>3. QED
  BY <1>1, <1>2, SeqDef

(* The head of a script is a step; its tail, an end of it, the empty       *)
(* script and a step put before it are scripts.                            *)
LEMMA ScriptParts ==
  ASSUME NEW plan, NEW s, HostScript(plan, s)
  PROVE  /\ HostScript(plan, <<>>)
         /\ s # <<>> => HostStep(plan, Head(s)) /\ HostScript(plan, Tail(s))
         /\ \A m \in Nat \ {0} : HostScript(plan, SubSeq(s, m, Len(s)))
         /\ \A step : HostStep(plan, step) => HostScript(plan, <<step>> \o s)
         /\ <<>> \o s = s
<1> DEFINE S == Hosts!ToSet(s)
<1>1. s \in Seq(S) /\ Len(s) \in Nat /\ DOMAIN s = 1..Len(s) /\ \A k \in DOMAIN s : HostStep(plan, s[k])
  BY DEF HostScript
<1> HIDE DEF S
<1>2. HostScript(plan, <<>>)
  <2>1. DOMAIN <<>> = {} /\ <<>> \in Seq(Hosts!ToSet(<<>>))
    OBVIOUS
  <2>2. QED
    BY <2>1 DEF HostScript
<1>3. ASSUME s # <<>>
      PROVE  HostStep(plan, Head(s)) /\ HostScript(plan, Tail(s))
  <2>1. 1 \in DOMAIN s /\ Head(s) = s[1] /\ Tail(s) \in Seq(S) /\ DOMAIN Tail(s) = 1..Len(s) - 1
    BY <1>1, <1>3
  <2>2. \A k \in DOMAIN Tail(s) : Tail(s)[k] = s[k + 1] /\ k + 1 \in DOMAIN s
    BY <1>1, <1>3, <2>1
  <2>3. Tail(s) \in Seq(Hosts!ToSet(Tail(s)))
    BY <2>1, OwnElements
  <2>4. QED
    BY <1>1, <2>1, <2>2, <2>3 DEF HostScript
<1>4. ASSUME NEW m \in Nat \ {0}
      PROVE  HostScript(plan, SubSeq(s, m, Len(s)))
  <2> DEFINE t == SubSeq(s, m, Len(s))
  <2>1. t \in Seq(S)
    <3>1. CASE m <= Len(s) + 1
      <4>1. \A k \in m..Len(s) : s[k] \in S
        BY <1>1
      <4>2. QED
        BY <1>1, <3>1, <4>1, SubSeqProperties
    <3>2. CASE m > Len(s) + 1
      <4>1. t = <<>>
        BY <1>1, <3>2
      <4>2. QED
        BY <4>1
    <3>3. QED
      BY <1>1, <3>1, <3>2
  <2>2. \A k \in DOMAIN t : k + m - 1 \in DOMAIN s /\ t[k] = s[k + m - 1]
    BY <1>1
  <2> HIDE DEF t
  <2>3. t \in Seq(Hosts!ToSet(t))
    BY <2>1, OwnElements
  <2>4. HostScript(plan, t)
    BY <1>1, <2>2, <2>3 DEF HostScript
  <2>5. QED
    BY <2>4 DEF t
<1>5. ASSUME NEW step, HostStep(plan, step)
      PROVE  HostScript(plan, <<step>> \o s)
  <2> DEFINE t == <<step>> \o s
  <2>1. t \in Seq(S \cup {step}) /\ DOMAIN t = 1..Len(s) + 1
    BY <1>1
  <2>2. \A k \in DOMAIN t : t[k] = IF k = 1 THEN step ELSE s[k - 1]
    BY <1>1, <2>1
  <2> HIDE DEF t
  <2>3. t \in Seq(Hosts!ToSet(t))
    BY <2>1, OwnElements
  <2>4. \A k \in DOMAIN t : HostStep(plan, t[k])
    <3> SUFFICES ASSUME NEW k \in DOMAIN t
                 PROVE  HostStep(plan, t[k])
      OBVIOUS
    <3>1. CASE k = 1
      BY <1>5, <2>2, <3>1
    <3>2. CASE k # 1
      BY <1>1, <2>1, <2>2, <3>2
    <3>3. QED
      BY <3>1, <3>2
  <2>5. QED
    BY <2>3, <2>4 DEF HostScript, t
<1>6. <<>> \o s = s
  BY <1>1
<1>7. QED
  BY <1>2, <1>3, <1>4, <1>5, <1>6

(* Whatever a plan contains is a script of its steps.                      *)
LEMMA PlanScripts ==
  ASSUME target \in DOMAIN HostTargets
  PROVE  /\ \A script \in Hosts!Scripts(Hosts!Plan) : HostScript(Hosts!Plan, script)
         /\ HostScript(Hosts!Plan, Hosts!Plan.dispatch) /\ HostScript(Hosts!Plan, Hosts!Plan.main)
         /\ HostScript(Hosts!Plan, Hosts!Plan.listing)
         /\ \A name \in DOMAIN Hosts!Plan.scripts : HostScript(Hosts!Plan, Hosts!Plan.scripts[name])
         /\ \A name \in DOMAIN Hosts!Plan.groups : HostScript(Hosts!Plan, Hosts!Plan.groups[name])
         /\ Hosts!Plan.enumerate => Hosts!Plan.wrapped
         /\ "main" \notin Workers /\ "enum" \notin Workers /\ "scan" \notin Workers /\ "list" \notin Workers
<1> DEFINE plan == HostPlans[target]
<1>1. /\ \A script \in Hosts!Scripts(plan) : Hosts!ScriptOf(plan, script)
      /\ plan.enumerate => plan.wrapped
      /\ "main" \notin Workers /\ "enum" \notin Workers /\ "scan" \notin Workers /\ "list" \notin Workers
  BY InstancesAreAdmissible DEF Hosts!Assumptions
<1>2. \A script \in Hosts!Scripts(plan) : \A k \in DOMAIN script : script[k].op = "yield" => script[k].in \in Inputs
  BY InputsAreAll
<1> HIDE DEF plan
<1>3. \A script \in Hosts!Scripts(plan) : HostScript(plan, script)
  BY <1>1, <1>2 DEF Hosts!ScriptOf, HostScript, HostStep, Hosts!ToSet
<1>4. /\ plan.dispatch \in Hosts!Scripts(plan) /\ plan.main \in Hosts!Scripts(plan)
      /\ plan.listing \in Hosts!Scripts(plan)
      /\ \A name \in DOMAIN plan.scripts : plan.scripts[name] \in Hosts!Scripts(plan)
      /\ \A name \in DOMAIN plan.groups : plan.groups[name] \in Hosts!Scripts(plan)
  BY DEF Hosts!Scripts
<1>5. QED
  BY <1>1, <1>3, <1>4 DEF Hosts!Plan, plan

(* A failure is kept, and ends the script, or is passed over; the group    *)
(* keeps the first that one of its members returns.                        *)
HostKeeps(p, kept) ==
  /\ err' \in [Hosts!Procs -> Causes]
  /\ \A q \in Hosts!Procs :
       err'[q] = IF q = p \/ (q = "list" /\ p \in Hosts!Group) THEN Hosts!First(err[q], kept) ELSE err[q]

(* Handling an error shortens the script of one goroutine, which either    *)
(* keeps the error or goes on; it goes on after a stop only where the plan *)
(* wraps yield.                                                            *)
LEMMA HostHandle ==
  ASSUME HostInv, NEW p \in Hosts!Procs, todo[p] # <<>>, NEW e \in Errors \cup {"gone"}, Hosts!Handle(p, e)
  PROVE  /\ \E script : HostScript(Hosts!Plan, script) /\ todo' = [todo EXCEPT ![p] = script]
         /\ \/ todo'[p] = <<>> /\ HostKeeps(p, IF e = "gone" THEN "fail" ELSE e)
            \/ err' = err /\ (e \in {"refused", "canceled"} => Hosts!Plan.wrapped)
<1> DEFINE step == Head(todo[p])
           over == Hosts!Over(step, e)
           kept == IF e = "gone" THEN "fail" ELSE e
           of   == IF p \in Hosts!Group THEN "list" ELSE p
<1>1. /\ HostTypes /\ HostScript(Hosts!Plan, todo[p]) /\ HostStep(Hosts!Plan, step)
  BY ScriptParts DEF HostInv, HostTypes
<1>2. /\ over \in Nat \cup {Hosts!Fatal}
      /\ e \in {"refused", "canceled"} /\ ~Hosts!Plan.wrapped => over = Hosts!Fatal
  BY <1>1 DEF HostStep, Hosts!StepOf, Hosts!Over
<1>3. HostScript(Hosts!Plan, <<>>)
  BY <1>1, ScriptParts
<1>4. "list" \in Hosts!Procs /\ of \in Hosts!Procs
  BY DEF Hosts!Procs, Hosts!Group
<1>5. CASE over = Hosts!Fatal
  <2>1. /\ todo' = [todo EXCEPT ![p] = <<>>]
        /\ err' = [err EXCEPT ![p] = Hosts!First(@, kept), ![of] = Hosts!First(@, kept)]
    BY <1>5 DEF Hosts!Handle
  <2>2. \A c \in Causes : Hosts!First(c, kept) \in Causes /\ Hosts!First(Hosts!First(c, kept), kept) = Hosts!First(c, kept)
    BY DEF Hosts!First, Causes, Errors
  <2>3. \A q \in Hosts!Procs : err[q] \in Causes
    BY <1>1 DEF HostTypes
  <2>4. \A q \in Hosts!Procs :
          err'[q] = IF q = p \/ q = of THEN Hosts!First(err[q], kept) ELSE err[q]
    BY <1>1, <1>4, <2>1, <2>2, <2>3 DEF HostTypes
  <2>5. err' \in [Hosts!Procs -> Causes]
    BY <1>1, <1>4, <2>1, <2>2, <2>3 DEF HostTypes
  <2>6. HostKeeps(p, kept)
    BY <2>4, <2>5 DEF HostKeeps
  <2>7. todo'[p] = <<>>
    BY <1>1, <2>1 DEF HostTypes
  <2>8. QED
    BY <1>3, <2>1, <2>6, <2>7
<1>6. CASE over # Hosts!Fatal
  <2> DEFINE passed == Hosts!Passed(SubSeq(todo[p], 1, over + 1))
             rest   == SubSeq(todo[p], over + 2, Len(todo[p]))
             tell   == [Hosts!Step("tell", "none") EXCEPT !.of = passed]
  <2>1. PICK tells \in BOOLEAN : /\ todo' = [todo EXCEPT ![p] = Hosts!When(tells, <<tell>>) \o rest]
                                 /\ err' = err
    <3>1. /\ todo' = [todo EXCEPT ![p] = Hosts!When(step.tell /\ e \in {"fail", "gone"}, <<tell>>) \o rest]
          /\ err' = err
      BY <1>6 DEF Hosts!Handle
    <3> HIDE DEF tell, rest, step
    <3>2. CASE step.tell /\ e \in {"fail", "gone"}
      BY <3>1, <3>2 DEF Hosts!When
    <3>3. CASE ~(step.tell /\ e \in {"fail", "gone"})
      BY <3>1, <3>3 DEF Hosts!When
    <3>4. QED
      BY <3>2, <3>3
  <2>2. over + 2 \in Nat \ {0}
    BY <1>2, <1>6
  <2>3. HostScript(Hosts!Plan, rest)
    BY <1>1, <2>2, ScriptParts
  <2>4. HostStep(Hosts!Plan, tell)
    BY DEF HostStep, Hosts!StepOf, Hosts!Step, Hosts!Fatal
  <2> HIDE DEF tell, rest
  <2>5. HostScript(Hosts!Plan, Hosts!When(tells, <<tell>>) \o rest)
    BY <2>3, <2>4, ScriptParts DEF Hosts!When
  <2>6. QED
    BY <1>2, <1>6, <2>1, <2>5
<1>7. QED
  BY <1>5, <1>6

(* A step of a goroutine that has something to do.                         *)
HostMoves(p) ==
  /\ UNCHANGED <<target, at>>
  /\ state[p] \in {"busy", "yielding"} /\ todo[p] # <<>>
  /\ state[p] = "yielding" \/ Head(todo[p]).op # "group"
  /\ state' \in [Hosts!Procs -> {"idle", "busy", "yielding", "done"}]
  /\ \/ state'[p] = "busy"
     \/ state'[p] = "yielding" /\ todo'[p] # <<>> /\ Head(todo'[p]).op \in {"yield", "tell"}
  /\ \A q \in Hosts!Procs : q # p => todo'[q] = todo[q] /\ state'[q] = state[q]
  /\ DOMAIN todo' = Hosts!Procs /\ HostScript(Hosts!Plan, todo'[p])
  /\ \/ err' = err
     \/ /\ todo'[p] = <<>>
        /\ \E kept \in Errors : /\ HostKeeps(p, kept)
                                /\ kept = "refused" => refused' # {}
                                /\ kept = "canceled" => Hosts!Done(p)
  /\ refused' \in {refused, refused \cup {p}} /\ cause' \in Causes /\ verdict' = verdict
  /\ ~Hosts!Plan.wrapped /\ p \in refused' => todo'[p] = <<>> /\ err'[p] # "none"
  /\ cause' # cause => cause = "none" /\ cause' = "refused" /\ refused' # {}
  /\ Hosts!Plan.wrapped /\ refused' # {} => cause' # "none"
  /\ repoCh' \in Seq(DOMAIN Hosts!Plan.scripts) /\ runCh' \in Seq(DOMAIN Hosts!Plan.scripts)
  /\ runCh' = runCh \/ p = "list"

(* The goroutines of a scan are all different.                             *)
LEMMA HostProcs ==
  /\ "main" \in Hosts!Procs /\ "enum" \in Hosts!Procs /\ "scan" \in Hosts!Procs /\ "list" \in Hosts!Procs
  /\ Workers \subseteq Hosts!Procs /\ Hosts!Group = {"list"} \cup Workers /\ Hosts!Group \subseteq Hosts!Procs
  /\ Hosts!Procs = {"main", "enum", "scan", "list"} \cup Workers
  /\ "main" \notin Hosts!Group /\ "enum" \notin Hosts!Group /\ "scan" \notin Hosts!Group
BY InstancesAreAdmissible DEF Hosts!Procs, Hosts!Group, Hosts!Assumptions

(* A step of one goroutine keeps the invariant.                            *)
LEMMA HostMoveInv ==
  ASSUME HostInv, NEW p \in Hosts!Procs, HostMoves(p)
  PROVE  HostInv'
<1>0. /\ HostTypes /\ HostPhases /\ HostGroup /\ HostRefused /\ \A q \in Hosts!Procs : HostWork(q)
      /\ Hosts!Plan' = Hosts!Plan /\ (Hosts!Plan.enumerate => Hosts!Plan.wrapped)
      /\ \A q \in Workers : q \notin {"main", "enum", "scan", "list"}
  BY PlanScripts DEF HostInv, HostMoves, Hosts!Plan, HostTypes
<1> USE HostProcs
<1> DEFINE Kept ==
             /\ \A q \in Hosts!Procs :
                  /\ err'[q] # err[q] => err[q] = "none" /\ (q = p \/ (q = "list" /\ p \in Hosts!Group))
                  /\ err[q] # "none" => err'[q] = err[q]
             /\ err' \in [Hosts!Procs -> Causes]
             /\ p \in Hosts!Group /\ err'[p] # err[p] => err'["list"] # "none"
             /\ todo'[p] # <<>> => err'[p] = err[p]
<1>1. Kept
  <2>1. CASE err' = err
    BY <1>0, <2>1 DEF HostTypes
  <2>2. ASSUME NEW kept \in Errors, HostKeeps(p, kept), todo'[p] = <<>>
        PROVE  Kept
    BY <1>0, <2>2 DEF HostKeeps, Hosts!First, Errors
  <2>3. QED
    BY <2>1, <2>2 DEF HostMoves
<1>2. \A q \in Hosts!Procs \ Workers :
        /\ err'[q] = "refused" => refused' # {}
        /\ err'[q] = "canceled" => cause' # "none"
  <2>0. /\ refused \subseteq refused' /\ (cause # "none" => cause' # "none")
        /\ \A q \in Hosts!Procs \ Workers : (err[q] = "refused" => refused # {}) /\ (err[q] = "canceled" => cause # "none")
    BY <1>0 DEF HostMoves, HostWork
  <2>1. CASE err' = err
    BY <2>0, <2>1
  <2>2. ASSUME NEW kept \in Errors, HostKeeps(p, kept), kept = "refused" => refused' # {},
               kept = "canceled" => Hosts!Done(p), NEW q \in Hosts!Procs \ Workers
        PROVE  /\ err'[q] = "refused" => refused' # {}
               /\ err'[q] = "canceled" => cause' # "none"
    <3>1. CASE q = p \/ (q = "list" /\ p \in Hosts!Group)
      <4>1. err'[q] = IF err[q] = "none" THEN kept ELSE err[q]
        BY <2>2, <3>1 DEF HostKeeps, Hosts!First
      <4>2. err[q] = "none" /\ kept = "canceled" => cause # "none"
        BY <2>2, <3>1 DEF Hosts!Done, Hosts!GroupErr
      <4>3. QED
        BY <2>0, <2>2, <4>1, <4>2
    <3>2. CASE ~(q = p \/ (q = "list" /\ p \in Hosts!Group))
      BY <2>0, <2>2, <3>2 DEF HostKeeps
    <3>3. QED
      BY <3>1, <3>2
  <2>3. QED
    BY <2>1, <2>2 DEF HostMoves
<1>3. HostTypes'
  <2>1. \A q \in Hosts!Procs : HostScript(Hosts!Plan, todo'[q])
    BY <1>0 DEF HostMoves, HostTypes
  <2>2. QED
    BY <1>0, <1>1, <2>1 DEF HostMoves, HostTypes
<1>4. \A q \in Hosts!Procs : state[q] \in {"idle", "done"} => state'[q] = state[q] /\ q # p
  BY DEF HostMoves
<1>5. HostPhases'
  <2>1. at \in {"begin", "enumerating", "joining", "returned"} => p # "main"
    BY <1>0 DEF HostPhases, HostMoves
  <2>2. at' = at /\ (cause # "none" => cause' # "none")
    BY DEF HostMoves
  <2>3. \A q \in {"main", "enum", "scan"} : q # p =>
          err'[q] = err[q] /\ todo'[q] = todo[q] /\ state'[q] = state[q]
    BY <1>1 DEF HostMoves
  <2>4. at \in {"dispatch", "alone"} => state'["main"] \in {"busy", "yielding"}
    BY <1>0, <2>3 DEF HostPhases, HostMoves
  <2>5. at = "begin" => p \notin {"main", "enum", "scan"}
    BY <1>0, <1>4 DEF HostPhases
  <2>6. at \in {"dispatch", "alone"} => p \notin {"enum", "scan"}
    BY <1>0, <1>4 DEF HostPhases
  <2>7. at = "joining" => p # "enum"
    BY <1>0, <1>4 DEF HostPhases
  <2>8. at = "returned" => p \notin {"enum", "scan"}
    BY <1>0, <1>4 DEF HostPhases
  <2>9. QED
    BY <1>0, <2>1, <2>2, <2>3, <2>4, <2>5, <2>6, <2>7, <2>8 DEF HostPhases
<1>6. \A q \in Hosts!Procs : HostWork(q)'
  <2> SUFFICES ASSUME NEW q \in Hosts!Procs
               PROVE  HostWork(q)'
    OBVIOUS
  <2>0. HostWork(q) /\ HostWork(p) /\ state[p] \in {"busy", "yielding"} /\ todo[p] # <<>>
    BY <1>0 DEF HostMoves
  <2>1. state["list"] = "idle" /\ q \in Hosts!Group => q # p
    BY <1>0 DEF HostGroup, HostMoves
  <2>2. state["list"] = "idle" => state'["list"] = "idle"
    BY <1>4
  <2>3. CASE q = p
    <3>1. /\ state'[p] \notin {"idle", "done"}
          /\ state'[p] = "yielding" => todo'[p] # <<>> /\ Head(todo'[p]).op \in {"yield", "tell"}
          /\ ~Hosts!Plan.wrapped /\ p \in refused' => todo'[p] = <<>> /\ err'[p] # "none"
      BY DEF HostMoves
    <3>2. /\ p \in {"main", "enum"} /\ todo'[p] # <<>> => err'[p] = "none"
          /\ p = "scan" /\ todo'[p] # <<>> => err'[p] \in {"none", "fail"}
      BY <1>1, <2>0 DEF HostWork
    <3>3. QED
      BY <1>0, <1>2, <2>3, <3>1, <3>2 DEF HostWork
  <2>4. CASE q # p
    <3>1. todo'[q] = todo[q] /\ state'[q] = state[q] /\ (q \in refused' <=> q \in refused)
      BY <2>4 DEF HostMoves
    <3>2. q # "list" => err'[q] = err[q]
      BY <1>1, <2>4
    <3>3. q = "list" => (err[q] # "none" => err'[q] # "none")
      BY <1>1
    <3>4. QED
      BY <1>0, <1>2, <2>0, <2>2, <3>1, <3>2, <3>3 DEF HostWork
  <2>5. QED
    BY <2>3, <2>4
<1>7. HostGroup'
  <2>1. CASE state["list"] = "idle"
    <3>1. p \notin Hosts!Group
      BY <1>0, <1>4, <2>1 DEF HostGroup
    <3>2. runCh' = runCh /\ \A q \in Hosts!Group : state'[q] = state[q] /\ err'[q] = err[q]
      BY <1>1, <3>1 DEF HostMoves
    <3>3. QED
      BY <1>0, <2>1, <3>2 DEF HostGroup, Hosts!GroupErr
  <2>2. CASE state["list"] # "idle"
    <3> DEFINE owner == IF at \in {"dispatch", "alone"} THEN "main" ELSE "scan"
    <3>1. state[owner] = "busy" /\ todo[owner] # <<>> /\ Head(todo[owner]).op = "group" /\ owner \in Hosts!Procs
      BY <1>0, <2>2 DEF HostGroup, Hosts!NextIs
    <3>2. owner # p
      BY <3>1 DEF HostMoves
    <3>3. state'[owner] = "busy" /\ todo'[owner] = todo[owner] /\ owner' = owner
      BY <3>1, <3>2 DEF HostMoves
    <3>4. state'["list"] # "idle"
      BY <2>2 DEF HostMoves
    <3>5. Hosts!NextIs(owner, {"group"})'
      BY <3>1, <3>3 DEF Hosts!NextIs
    <3>6. \A q \in Workers : err'[q] # "none" => err'["list"] # "none"
      BY <1>0, <1>1 DEF HostGroup, Hosts!GroupErr
    <3>7. QED
      BY <3>4, <3>5, <3>6 DEF HostGroup, Hosts!GroupErr
  <2>3. QED
    BY <2>1, <2>2
<1>8. HostRefused'
  <2>1. /\ cause' = "refused" => refused' # {}
        /\ Hosts!Plan.wrapped /\ refused' # {} => cause' # "none"
    BY <1>0 DEF HostRefused, HostMoves
  <2>2. ASSUME ~Hosts!Plan.wrapped, refused' # {}
        PROVE  err'["main"] # "none" \/ (state'["list"] # "idle" /\ err'["list"] # "none")
    <3>1. CASE refused # {}
      <4>1. err["main"] # "none" \/ (state["list"] # "idle" /\ err["list"] # "none")
        BY <1>0, <2>2, <3>1 DEF HostRefused, Hosts!GroupErr
      <4>2. state["list"] # "idle" => state'["list"] # "idle"
        BY DEF HostMoves
      <4>3. QED
        BY <1>1, <4>1, <4>2
    <3>2. CASE refused = {}
      <4>1. p \in refused' /\ err'[p] # "none"
        BY <2>2, <3>2 DEF HostMoves
      <4>2. p \notin {"enum", "scan"}
        <5>1. at \in {"enumerating", "joining"} => Hosts!Plan.wrapped
          BY <1>0 DEF HostPhases
        <5>2. at \notin {"enumerating", "joining"} => \A q \in {"enum", "scan"} : state[q] \in {"idle", "done"}
          BY <1>0 DEF HostPhases, HostTypes
        <5>3. QED
          BY <1>4, <2>2, <5>1, <5>2
      <4>3. CASE p \in Hosts!Group
        <5>1. state["list"] # "idle"
          BY <1>0, <1>4, <4>3 DEF HostGroup
        <5>2. state'["list"] # "idle"
          BY <5>1 DEF HostMoves
        <5>3. err'["list"] # "none"
          <6>1. CASE err'[p] # err[p]
            BY <1>1, <4>3, <6>1
          <6>2. CASE err'[p] = err[p]
            <7>1. err[p] # "none" => err["list"] # "none"
              BY <1>0, <4>3 DEF HostGroup, Hosts!GroupErr
            <7>2. QED
              BY <1>1, <4>1, <6>2, <7>1
          <6>3. QED
            BY <6>1, <6>2
        <5>4. QED
          BY <5>2, <5>3
      <4>4. QED
        BY <4>1, <4>2, <4>3
    <3>3. QED
      BY <3>1, <3>2
  <2>3. QED
    BY <1>0, <2>1, <2>2 DEF HostRefused, Hosts!GroupErr
<1>9. QED
  BY <1>3, <1>5, <1>6, <1>7, <1>8 DEF HostInv

(* Every step of a script is one, and so are the sendings.                 *)
LEMMA HostScriptMoves ==
  ASSUME HostInv, NEW p \in Hosts!Procs, target' = target,
         Hosts!ScriptStep(p) \/ (p = "enum" /\ Hosts!SendRepo) \/ (p = "list" /\ Hosts!SendItem)
  PROVE  HostMoves(p)
<1>0. /\ HostTypes /\ HostWork(p) /\ HostRefused /\ HostScript(Hosts!Plan, todo[p])
      /\ Hosts!Plan' = Hosts!Plan
  BY DEF HostInv, HostTypes, Hosts!Plan
<1>1. /\ at' = at /\ verdict' = verdict /\ state[p] \in {"busy", "yielding"} /\ todo[p] # <<>>
      /\ state[p] = "yielding" \/ Head(todo[p]).op # "group"
      /\ (p # "enum" => repoCh' = repoCh) /\ (p # "list" => runCh' = runCh)
  BY <1>0 DEF Hosts!ScriptStep, Hosts!Request, Hosts!RequestFails, Hosts!Reject, Hosts!WithholdYield,
     Hosts!CallYield, Hosts!YieldAccepts, Hosts!YieldRefuses, Hosts!SendRepo, Hosts!SendItem, Hosts!NextIs, HostWork
<1>2. /\ HostStep(Hosts!Plan, Head(todo[p])) /\ HostScript(Hosts!Plan, Tail(todo[p]))
      /\ ~Hosts!Plan.wrapped => p \notin refused
      /\ Hosts!Plan.wrapped /\ refused # {} => cause # "none"
  BY <1>0, <1>1, ScriptParts DEF HostWork, HostRefused
<1>3. /\ repoCh' \in Seq(DOMAIN Hosts!Plan.scripts) /\ runCh' \in Seq(DOMAIN Hosts!Plan.scripts)
  <2>1. Head(todo[p]).op = "send" => Head(todo[p]).in \in DOMAIN Hosts!Plan.scripts
    BY <1>2 DEF HostStep, Hosts!StepOf
  <2>2. CASE Hosts!ScriptStep(p)
    BY <1>0, <2>2 DEF Hosts!ScriptStep, Hosts!Request, Hosts!RequestFails, Hosts!Reject, Hosts!WithholdYield,
       Hosts!CallYield, Hosts!YieldAccepts, Hosts!YieldRefuses, HostTypes
  <2>3. CASE p = "enum" /\ Hosts!SendRepo
    <3>1. Head(todo[p]).in \in DOMAIN Hosts!Plan.scripts /\ runCh' = runCh
      BY <2>1, <2>3 DEF Hosts!SendRepo, Hosts!NextIs
    <3>2. repoCh' = <<Head(todo[p]).in>> \/ repoCh' = repoCh
      BY <2>3 DEF Hosts!SendRepo
    <3> DEFINE names == DOMAIN Hosts!Plan.scripts
    <3>3. repoCh \in Seq(names) /\ runCh \in Seq(names) /\ Head(todo[p]).in \in names
      BY <1>0, <3>1 DEF HostTypes
    <3> DEFINE name == Head(todo[p]).in
    <3> HIDE DEF names, name
    <3>4. name \in names
      BY <3>3 DEF name
    <3>5. <<name>> \in Seq(names)
      BY <3>4
    <3>6. repoCh' \in Seq(names) /\ runCh' \in Seq(names)
      BY <3>1, <3>2, <3>3, <3>5 DEF name
    <3>7. QED
      BY <3>6 DEF names
  <2>4. CASE p = "list" /\ Hosts!SendItem
    BY <1>0, <2>1, <2>4 DEF Hosts!SendItem, Hosts!NextIs, HostTypes
  <2>5. QED
    BY <2>2, <2>3, <2>4
<1>4. ASSUME UNCHANGED <<refused, cause, err>>, todo' = [todo EXCEPT ![p] = Tail(todo[p])],
             state'[p] = "busy", state' = [state EXCEPT ![p] = "busy"]
      PROVE  HostMoves(p)
  <2>1. todo'[p] = Tail(todo[p]) /\ DOMAIN todo' = Hosts!Procs
    BY <1>0, <1>4 DEF HostTypes
  <2>2. state' \in [Hosts!Procs -> {"idle", "busy", "yielding", "done"}]
    BY <1>0, <1>4 DEF HostTypes
  <2>3. QED
    BY <1>0, <1>1, <1>2, <1>3, <1>4, <2>1, <2>2 DEF HostMoves, HostTypes
<1>5. ASSUME NEW e \in Errors \cup {"gone"}, Hosts!Handle(p, e), state' = [state EXCEPT ![p] = "busy"],
             refused' \in {refused, refused \cup {p}},
             e # "refused" => refused' = refused, e = "refused" => refused' # {},
             refused' = refused => cause' = cause,
             refused' # refused => cause' = IF Hosts!Plan.wrapped THEN Hosts!First(cause, "refused") ELSE cause,
             e = "canceled" => Hosts!Done(p)
      PROVE  HostMoves(p)
  <2> DEFINE kept == IF e = "gone" THEN "fail" ELSE e
  <2>1. /\ \E script : HostScript(Hosts!Plan, script) /\ todo' = [todo EXCEPT ![p] = script]
        /\ \/ todo'[p] = <<>> /\ HostKeeps(p, kept)
           \/ err' = err /\ (e \in {"refused", "canceled"} => Hosts!Plan.wrapped)
    BY <1>1, <1>5, HostHandle
  <2>2. /\ kept \in Errors /\ (kept = "refused" => refused' # {}) /\ (kept = "canceled" => Hosts!Done(p))
    BY <1>5 DEF Errors
  <2> HIDE DEF kept
  <2>3. /\ DOMAIN todo' = Hosts!Procs /\ HostScript(Hosts!Plan, todo'[p])
        /\ \A q \in Hosts!Procs : q # p => todo'[q] = todo[q]
    BY <1>0, <2>1 DEF HostTypes
  <2>4. /\ state' \in [Hosts!Procs -> {"idle", "busy", "yielding", "done"}] /\ state'[p] = "busy"
        /\ \A q \in Hosts!Procs : q # p => state'[q] = state[q]
    BY <1>0, <1>5 DEF HostTypes
  <2>5. /\ err' = err \/ (todo'[p] = <<>> /\ HostKeeps(p, kept))
    BY <2>1
  <2>6. ~Hosts!Plan.wrapped /\ p \in refused' => todo'[p] = <<>> /\ err'[p] # "none"
    <3> SUFFICES ASSUME ~Hosts!Plan.wrapped, p \in refused'
                 PROVE  todo'[p] = <<>> /\ err'[p] # "none"
      OBVIOUS
    <3>1. e = "refused"
      BY <1>2, <1>5
    <3>2. todo'[p] = <<>> /\ HostKeeps(p, kept)
      BY <2>1, <3>1
    <3>3. err'[p] = Hosts!First(err[p], kept)
      BY <3>2 DEF HostKeeps
    <3>4. QED
      BY <2>2, <3>2, <3>3 DEF Hosts!First, Errors
  <2>7. /\ cause' \in Causes
        /\ cause' # cause => cause = "none" /\ cause' = "refused" /\ refused' # {}
        /\ Hosts!Plan.wrapped /\ refused' # {} => cause' # "none"
    BY <1>0, <1>2, <1>5 DEF HostTypes, Hosts!First, Causes, Errors
  <2>8. QED
    BY <1>1, <1>3, <1>5, <2>2, <2>3, <2>4, <2>5, <2>6, <2>7 DEF HostMoves
<1>6. state[p] = "busy" /\ state' = state => state' = [state EXCEPT ![p] = "busy"] /\ state'[p] = "busy"
  BY <1>0 DEF HostTypes
<1>7. CASE Hosts!Request(p)
  BY <1>4, <1>6, <1>7 DEF Hosts!Request, Hosts!NextIs, Hosts!Drop
<1>8. CASE Hosts!RequestFails(p)
  BY <1>5, <1>6, <1>8 DEF Hosts!RequestFails, Hosts!NextIs, Errors
<1>9. CASE Hosts!Reject(p)
  BY <1>5, <1>6, <1>9 DEF Hosts!Reject, Hosts!NextIs, Errors
<1>10. CASE Hosts!WithholdYield(p)
  <2>1. (refused # {} /\ Hosts!Handle(p, "refused")) \/ (Hosts!Done(p) /\ Hosts!Handle(p, "canceled"))
    BY <1>10 DEF Hosts!WithholdYield, Hosts!Withheld
  <2>2. UNCHANGED <<state, refused, cause>> /\ state[p] = "busy"
    BY <1>10 DEF Hosts!WithholdYield, Hosts!NextIs
  <2>3. QED
    BY <1>5, <1>6, <2>1, <2>2 DEF Errors
<1>11. CASE Hosts!CallYield(p)
  <2>1. /\ state' = [state EXCEPT ![p] = "yielding"] /\ UNCHANGED <<todo, err, refused, cause>>
        /\ Head(todo[p]).op \in {"yield", "tell"}
    BY <1>11 DEF Hosts!CallYield, Hosts!NextIs
  <2>2. /\ state' \in [Hosts!Procs -> {"idle", "busy", "yielding", "done"}] /\ state'[p] = "yielding"
        /\ \A q \in Hosts!Procs : q # p => state'[q] = state[q]
    BY <1>0, <2>1 DEF HostTypes
  <2>3. QED
    BY <1>0, <1>1, <1>2, <1>3, <2>1, <2>2 DEF HostMoves, HostTypes
<1>12. CASE Hosts!YieldAccepts(p)
  <2>1. state' = [state EXCEPT ![p] = "busy"] /\ state'[p] = "busy"
    BY <1>0, <1>12 DEF Hosts!YieldAccepts, HostTypes
  <2>2. QED
    BY <1>4, <1>12, <2>1 DEF Hosts!YieldAccepts, Hosts!Drop
<1>13. CASE Hosts!YieldRefuses(p)
  <2>1. /\ state' = [state EXCEPT ![p] = "busy"] /\ refused' = refused \cup {p} /\ Hosts!Handle(p, "refused")
        /\ cause' = IF Hosts!Plan.wrapped THEN Hosts!First(cause, "refused") ELSE cause
    BY <1>13 DEF Hosts!YieldRefuses
  <2>2. refused' = refused => cause' = cause
    BY <1>2, <2>1 DEF Hosts!First
  <2>3. QED
    BY <1>5, <2>1, <2>2 DEF Errors
<1>14. CASE p = "enum" /\ Hosts!SendRepo
  BY <1>4, <1>6, <1>14 DEF Hosts!SendRepo, Hosts!NextIs, Hosts!Drop
<1>15. CASE p = "list" /\ Hosts!SendItem
  <2>1. UNCHANGED <<state, refused, cause>> /\ state[p] = "busy"
    BY <1>15 DEF Hosts!SendItem, Hosts!NextIs
  <2>2. CASE todo' = Hosts!Drop("list") /\ UNCHANGED <<err, lost>>
    BY <1>4, <1>6, <1>15, <2>1, <2>2 DEF Hosts!Drop
  <2>3. CASE Hosts!Done("list") /\ Hosts!Handle("list", "canceled")
    BY <1>5, <1>6, <1>15, <2>1, <2>3 DEF Errors
  <2>4. QED
    BY <1>15, <2>2, <2>3 DEF Hosts!SendItem
<1>16. QED
  BY <1>7, <1>8, <1>9, <1>10, <1>11, <1>12, <1>13, <1>14, <1>15 DEF Hosts!ScriptStep

(* Steps that leave the group and all errors alone.                        *)
HostOwner == IF at \in {"dispatch", "alone"} THEN "main" ELSE "scan"

HostSingles == {"main", "enum", "scan"}

(* They keep the invariant when they keep the parts that speak of main,    *)
(* enum and scan.                                                          *)
LEMMA HostControlInv ==
  ASSUME HostInv, UNCHANGED <<target, err, refused, runCh>>,
         cause' = cause \/ (cause = "none" /\ cause' \in {"fail", "canceled"}),
         at' \in {"begin", "dispatch", "alone", "enumerating", "joining", "returned"},
         repoCh' \in Seq(DOMAIN Hosts!Plan.scripts), verdict' \subseteq Errors,
         state' \in [Hosts!Procs -> {"idle", "busy", "yielding", "done"}], DOMAIN todo' = Hosts!Procs,
         \A q \in Hosts!Group : todo'[q] = todo[q] /\ state'[q] = state[q],
         \A q \in HostSingles : HostScript(Hosts!Plan, todo'[q]) /\ HostWork(q)',
         state["list"] # "idle" => HostOwner' = HostOwner /\ todo'[HostOwner] = todo[HostOwner] /\ state'[HostOwner] = state[HostOwner],
         HostPhases'
  PROVE  HostInv'
<1>0. /\ HostTypes /\ HostGroup /\ HostRefused /\ \A q \in Hosts!Procs : HostWork(q)
      /\ Hosts!Plan' = Hosts!Plan
  BY DEF HostInv, Hosts!Plan
<1> USE HostProcs
<1>1. \A q \in Hosts!Procs : HostScript(Hosts!Plan, todo'[q])
  BY <1>0 DEF HostTypes, HostSingles
<1>2. HostTypes'
  BY <1>0, <1>1 DEF HostTypes, Causes, Errors
<1>3. HostGroup'
  <2>1. CASE state["list"] = "idle"
    BY <1>0, <2>1 DEF HostGroup, Hosts!GroupErr
  <2>2. CASE state["list"] # "idle"
    <3>1. Hosts!NextIs(HostOwner, {"group"})
      BY <1>0, <2>2 DEF HostGroup, HostOwner
    <3>2. Hosts!NextIs(HostOwner, {"group"})'
      BY <2>2, <3>1 DEF Hosts!NextIs
    <3>3. QED
      BY <1>0, <2>2, <3>2 DEF HostGroup, HostOwner, Hosts!GroupErr
  <2>3. QED
    BY <2>1, <2>2
<1>4. HostRefused'
  BY <1>0 DEF HostRefused, Hosts!GroupErr
<1>5. \A q \in Hosts!Procs : HostWork(q)'
  <2>1. ASSUME NEW q \in Hosts!Group
        PROVE  HostWork(q)'
    BY <1>0, <2>1 DEF HostWork
  <2>2. QED
    BY <2>1 DEF HostSingles
<1>6. QED
  BY <1>2, <1>3, <1>4, <1>5 DEF HostInv

(* The group is there only while its owner waits for it.                   *)
LEMMA HostIdle ==
  ASSUME HostInv
  PROVE  /\ at \in {"begin", "returned"} \/ Hosts!Ended(HostOwner) \/ state[HostOwner] # "busy" => state["list"] = "idle"
         /\ state["list"] # "idle" => state[HostOwner] = "busy" /\ todo[HostOwner] # <<>>
<1>1. HostGroup /\ HostPhases
  BY DEF HostInv
<1>2. state["list"] # "idle" => state[HostOwner] = "busy" /\ todo[HostOwner] # <<>>
  BY <1>1 DEF HostGroup, HostOwner, Hosts!NextIs
<1>3. at \in {"begin", "returned"} => HostOwner = "scan" /\ state["scan"] \in {"idle", "done"}
  BY <1>1 DEF HostPhases, HostOwner
<1>4. QED
  BY <1>2, <1>3 DEF Hosts!Ended

(* Fragments: it begins,                                                   *)
LEMMA HostBeginInv ==
  ASSUME HostInv, Hosts!Begin, target' = target
  PROVE  HostInv'
<1>0. /\ HostTypes /\ HostPhases /\ \A q \in Hosts!Procs : HostWork(q)
      /\ Hosts!Plan' = Hosts!Plan
      /\ UNCHANGED <<err, refused, repoCh, runCh, cause>> /\ at = "begin"
  BY DEF HostInv, Hosts!Plan, Hosts!Begin
<1> USE HostProcs
<1>1. state["list"] = "idle"
  BY <1>0, HostIdle
<1>2. CASE at' = "returned" /\ verdict' = {"fail"} /\ UNCHANGED <<todo, state>>
  <2>1. \A q \in HostSingles : HostScript(Hosts!Plan, todo'[q]) /\ HostWork(q)'
    BY <1>0, <1>2 DEF HostTypes, HostSingles, HostWork
  <2>2. HostPhases'
    BY <1>0, <1>2 DEF HostPhases
  <2>3. QED
    BY <1>0, <1>1, <1>2, <2>1, <2>2, HostControlInv DEF HostTypes, Errors
<1>3. CASE /\ at' = "dispatch" /\ todo' = [todo EXCEPT !["main"] = Hosts!Plan.dispatch]
           /\ state' = [state EXCEPT !["main"] = "busy"] /\ UNCHANGED verdict
  <2>1. /\ todo'["main"] = Hosts!Plan.dispatch /\ state'["main"] = "busy" /\ err["main"] = "none"
        /\ DOMAIN todo' = Hosts!Procs /\ state' \in [Hosts!Procs -> {"idle", "busy", "yielding", "done"}]
        /\ \A q \in Hosts!Procs \ {"main"} : todo'[q] = todo[q] /\ state'[q] = state[q]
        /\ state["main"] = "idle"
    BY <1>0, <1>3 DEF HostTypes, HostPhases
  <2>2. "main" \notin refused \/ Hosts!Plan.wrapped
    BY <1>0, <2>1 DEF HostWork
  <2>3. \A q \in HostSingles : HostScript(Hosts!Plan, todo'[q]) /\ HostWork(q)'
    BY <1>0, <2>1, <2>2, PlanScripts DEF HostTypes, HostSingles, HostWork
  <2>4. HostPhases'
    BY <1>0, <1>3, <2>1 DEF HostPhases
  <2>5. QED
    BY <1>0, <1>1, <1>3, <2>1, <2>3, <2>4, HostControlInv DEF HostTypes
<1>4. QED
  BY <1>2, <1>3 DEF Hosts!Begin

(* scans the resource itself,                                              *)
LEMMA HostDispatchedInv ==
  ASSUME HostInv, Hosts!Dispatched, target' = target
  PROVE  HostInv'
<1>0. /\ HostTypes /\ HostPhases /\ \A q \in Hosts!Procs : HostWork(q)
      /\ Hosts!Plan' = Hosts!Plan
      /\ UNCHANGED <<state, err, refused, repoCh, runCh, cause>> /\ at = "dispatch"
      /\ state["main"] = "busy" /\ todo["main"] = <<>>
  BY DEF HostInv, Hosts!Plan, Hosts!Dispatched, Hosts!Ended
<1> USE HostProcs
<1>1. state["list"] = "idle"
  BY <1>0, HostIdle DEF HostOwner, Hosts!Ended
<1>2. CASE err["main"] = "none"
  <2>1. at' = "alone" /\ todo' = [todo EXCEPT !["main"] = Hosts!Plan.main] /\ verdict' = verdict
    BY <1>2 DEF Hosts!Dispatched
  <2>2. /\ todo'["main"] = Hosts!Plan.main /\ DOMAIN todo' = Hosts!Procs
        /\ \A q \in Hosts!Procs \ {"main"} : todo'[q] = todo[q]
    BY <1>0, <2>1 DEF HostTypes
  <2>3. \A q \in HostSingles : HostScript(Hosts!Plan, todo'[q])
    BY <1>0, <2>2, PlanScripts DEF HostTypes, HostSingles
  <2>4. \A q \in HostSingles : HostWork(q)'
    <3>1. HostWork("main")'
      BY <1>0, <1>2 DEF HostWork
    <3>2. HostWork("enum")' /\ HostWork("scan")'
      BY <1>0, <2>2 DEF HostWork
    <3>3. QED
      BY <3>1, <3>2 DEF HostSingles
  <2>5. HostPhases'
    BY <1>0, <2>1, <2>2 DEF HostPhases
  <2>6. QED
    BY <1>0, <1>1, <2>1, <2>2, <2>3, <2>4, <2>5, HostControlInv DEF HostTypes
<1>3. CASE err["main"] # "none"
  <2>1. at' = "returned" /\ todo' = todo /\ verdict' = (IF cause # "none" THEN {cause} ELSE {err["main"]}) \ {"none"}
    BY <1>3 DEF Hosts!Dispatched, Hosts!Return
  <2>2. verdict' \subseteq Errors
    BY <1>0, <2>1 DEF HostTypes, Causes
  <2>3. \A q \in HostSingles : HostScript(Hosts!Plan, todo'[q]) /\ HostWork(q)'
    BY <1>0, <2>1 DEF HostTypes, HostSingles, HostWork
  <2>4. HostPhases'
    BY <1>0, <2>1 DEF HostPhases
  <2>5. QED
    BY <1>0, <1>1, <2>1, <2>2, <2>3, <2>4, HostControlInv DEF HostTypes
<1>4. QED
  BY <1>2, <1>3

(* starts the enumeration,                                                 *)
LEMMA HostStartInv ==
  ASSUME HostInv, Hosts!StartEnumeration, target' = target
  PROVE  HostInv'
<1>0. /\ HostTypes /\ HostPhases /\ \A q \in Hosts!Procs : HostWork(q)
      /\ Hosts!Plan' = Hosts!Plan /\ (Hosts!Plan.enumerate => Hosts!Plan.wrapped)
      /\ UNCHANGED <<err, refused, repoCh, runCh, cause>> /\ at = "alone"
      /\ state["main"] = "busy" /\ todo["main"] = <<>>
  BY PlanScripts DEF HostInv, Hosts!Plan, Hosts!StartEnumeration, Hosts!Ended, HostTypes
<1> USE HostProcs
<1>1. state["list"] = "idle"
  BY <1>0, HostIdle DEF HostOwner, Hosts!Ended
<1>2. CASE Hosts!Plan.enumerate /\ cause = "none"
  <2>1. /\ at' = "enumerating" /\ todo' = [todo EXCEPT !["enum"] = Hosts!Plan.listing]
        /\ state' = [state EXCEPT !["main"] = "idle", !["enum"] = "busy", !["scan"] = "busy"] /\ verdict' = verdict
    BY <1>2 DEF Hosts!StartEnumeration
  <2>2. /\ todo'["enum"] = Hosts!Plan.listing /\ DOMAIN todo' = Hosts!Procs
        /\ \A q \in Hosts!Procs \ {"enum"} : todo'[q] = todo[q]
        /\ state'["main"] = "idle" /\ state'["enum"] = "busy" /\ state'["scan"] = "busy"
        /\ \A q \in Hosts!Group : state'[q] = state[q]
        /\ state' \in [Hosts!Procs -> {"idle", "busy", "yielding", "done"}]
    BY <1>0, <2>1 DEF HostTypes
  <2>3. \A q \in HostSingles : HostScript(Hosts!Plan, todo'[q])
    BY <1>0, <2>2, PlanScripts DEF HostTypes, HostSingles
  <2>4. \A q \in HostSingles : HostWork(q)'
    <3>1. HostWork("main")'
      BY <1>0, <2>2 DEF HostWork
    <3>2. err["enum"] = "none" /\ err["scan"] = "none"
      BY <1>0 DEF HostPhases
    <3>3. HostWork("enum")'
      BY <1>0, <1>2, <2>2, <3>2 DEF HostWork
    <3>4. HostWork("scan")'
      BY <1>0, <1>2, <2>2, <3>2 DEF HostWork
    <3>5. QED
      BY <3>1, <3>3, <3>4 DEF HostSingles
  <2>5. HostPhases'
    BY <1>0, <1>2, <2>1, <2>2 DEF HostPhases
  <2>6. QED
    BY <1>0, <1>1, <2>1, <2>2, <2>3, <2>4, <2>5, HostControlInv DEF HostTypes
<1>3. CASE ~(Hosts!Plan.enumerate /\ cause = "none")
  <2>1. /\ at' = "returned" /\ todo' = todo /\ state' = state
        /\ verdict' = (IF cause # "none" THEN {cause} ELSE {err["main"]}) \ {"none"}
    BY <1>3 DEF Hosts!StartEnumeration, Hosts!Return
  <2>2. verdict' \subseteq Errors
    BY <1>0, <2>1 DEF HostTypes, Causes
  <2>3. \A q \in HostSingles : HostScript(Hosts!Plan, todo'[q]) /\ HostWork(q)'
    BY <1>0, <2>1 DEF HostTypes, HostSingles, HostWork
  <2>4. HostPhases'
    BY <1>0, <2>1 DEF HostPhases
  <2>5. QED
    BY <1>0, <1>1, <2>1, <2>2, <2>3, <2>4, HostControlInv DEF HostTypes
<1>4. QED
  BY <1>2, <1>3

(* learns how it went and waits for the scans; or it is cancelled.         *)
LEMMA HostJoinInv ==
  ASSUME HostInv,
         \/ target' = target /\ (Hosts!EnumerationEnds \/ Hosts!Join)
         \/ Hosts!Cancel \/ Hosts!Finished
  PROVE  HostInv'
<1>0. /\ HostTypes /\ HostPhases /\ \A q \in Hosts!Procs : HostWork(q)
      /\ UNCHANGED <<target, todo, state, err, refused, repoCh, runCh>> /\ Hosts!Plan' = Hosts!Plan
  BY DEF HostInv, Hosts!Plan, Hosts!EnumerationEnds, Hosts!Join, Hosts!Cancel, Hosts!Finished, Hosts!vars,
     Hosts!goroutines
<1> USE HostProcs
<1>1. cause' = cause \/ (cause = "none" /\ cause' \in {"fail", "canceled"})
  BY DEF Hosts!EnumerationEnds, Hosts!Join, Hosts!Cancel, Hosts!Finished, Hosts!vars, Hosts!First
<1>2. \A q \in HostSingles : HostScript(Hosts!Plan, todo'[q]) /\ HostWork(q)'
  BY <1>0, <1>1 DEF HostTypes, HostSingles, HostWork
<1>3. CASE Hosts!EnumerationEnds
  <2>1. at = "enumerating" /\ at' = "joining" /\ verdict' = verdict /\ state["enum"] = "done"
        /\ (err["enum"] # "none" => cause' # "none")
    BY <1>3 DEF Hosts!EnumerationEnds, Hosts!First
  <2>2. HostPhases'
    BY <1>0, <2>1 DEF HostPhases
  <2>3. QED
    BY <1>0, <1>1, <1>2, <2>1, <2>2, HostControlInv DEF HostTypes, HostOwner
<1>4. CASE Hosts!Join
  <2>1. /\ at = "joining" /\ at' = "returned" /\ state["scan"] = "done" /\ cause' = cause
        /\ verdict' = (IF cause # "none" THEN {cause} ELSE {err["main"], err["scan"]}) \ {"none"}
    BY <1>4 DEF Hosts!Join, Hosts!Return
  <2>2. verdict' \subseteq Errors
    BY <1>0, <2>1 DEF HostTypes, Causes
  <2>3. HostPhases'
    BY <1>0, <2>1 DEF HostPhases
  <2>4. QED
    BY <1>0, <1>1, <1>2, <2>1, <2>2, <2>3, HostControlInv DEF HostTypes, HostOwner
<1>5. CASE Hosts!Cancel \/ Hosts!Finished
  <2>1. at' = at /\ verdict' = verdict
    BY <1>5 DEF Hosts!Cancel, Hosts!Finished, Hosts!vars
  <2>2. HostPhases'
    BY <1>0, <1>1, <2>1 DEF HostPhases
  <2>3. QED
    BY <1>0, <1>1, <1>2, <2>1, <2>2, HostControlInv DEF HostTypes, HostOwner
<1>6. QED
  BY <1>3, <1>4, <1>5

(* The goroutines that list and scan repositories go on, and end.          *)
LEMMA HostReposInv ==
  ASSUME HostInv, target' = target, Hosts!EndEnum \/ Hosts!NextRepo \/ Hosts!EndScan
  PROVE  HostInv'
<1>0. /\ HostTypes /\ HostPhases /\ HostRefused /\ \A q \in Hosts!Procs : HostWork(q)
      /\ Hosts!Plan' = Hosts!Plan /\ (Hosts!Plan.enumerate => Hosts!Plan.wrapped)
      /\ UNCHANGED <<at, err, refused, runCh, cause, verdict>>
  BY PlanScripts DEF HostInv, Hosts!Plan, Hosts!EndEnum, Hosts!NextRepo, Hosts!EndScan, HostTypes
<1> USE HostProcs
<1>1. CASE Hosts!EndEnum
  <2>1. /\ state["enum"] = "busy" /\ todo["enum"] = <<>> /\ state' = [state EXCEPT !["enum"] = "done"]
        /\ UNCHANGED <<todo, repoCh>>
    BY <1>1 DEF Hosts!EndEnum, Hosts!Ended
  <2>2. /\ state'["enum"] = "done" /\ \A q \in Hosts!Procs \ {"enum"} : state'[q] = state[q]
        /\ state' \in [Hosts!Procs -> {"idle", "busy", "yielding", "done"}]
    BY <1>0, <2>1 DEF HostTypes
  <2>3. at = "enumerating"
    BY <1>0, <2>1 DEF HostPhases, HostTypes
  <2>4. \A q \in HostSingles : HostScript(Hosts!Plan, todo'[q]) /\ HostWork(q)'
    BY <1>0, <2>1, <2>2 DEF HostTypes, HostSingles, HostWork
  <2>5. HostPhases'
    BY <1>0, <2>1, <2>2, <2>3 DEF HostPhases
  <2>6. QED
    BY <1>0, <2>1, <2>2, <2>3, <2>4, <2>5, HostControlInv DEF HostTypes, HostOwner
<1>2. CASE Hosts!NextRepo \/ Hosts!EndScan
  <2>1. state["scan"] = "busy" /\ todo["scan"] = <<>>
    BY <1>2 DEF Hosts!NextRepo, Hosts!EndScan, Hosts!Ended
  <2>2. at \in {"enumerating", "joining"} /\ Hosts!Plan.wrapped
    BY <1>0, <2>1 DEF HostPhases, HostTypes
  <2>3. state["list"] = "idle"
    BY <2>1, <2>2, HostIdle DEF HostOwner, Hosts!Ended
  <2>4. CASE /\ state' = [state EXCEPT !["scan"] = "done"] /\ todo' = todo
             /\ repoCh' \in {repoCh, <<>>}
    <3>1. /\ state'["scan"] = "done" /\ \A q \in Hosts!Procs \ {"scan"} : state'[q] = state[q]
          /\ state' \in [Hosts!Procs -> {"idle", "busy", "yielding", "done"}]
      BY <1>0, <2>4 DEF HostTypes
    <3>2. \A q \in HostSingles : HostScript(Hosts!Plan, todo'[q]) /\ HostWork(q)'
      BY <1>0, <2>1, <2>4, <3>1 DEF HostTypes, HostSingles, HostWork
    <3>3. HostPhases'
      BY <1>0, <2>2, <2>4, <3>1 DEF HostPhases
    <3>4. repoCh' \in Seq(DOMAIN Hosts!Plan.scripts)
      <4>1. \A S : <<>> \in Seq(S)
        OBVIOUS
      <4>2. QED
        BY <1>0, <2>4, <4>1 DEF HostTypes
    <3>5. QED
      BY <1>0, <2>3, <2>4, <3>1, <3>2, <3>3, <3>4, HostControlInv DEF HostTypes
  <2>5. CASE /\ repoCh # <<>> /\ repoCh' = <<>> /\ state' = state /\ cause = "none"
             /\ todo' = [todo EXCEPT !["scan"] = Hosts!Plan.scripts[Head(repoCh)]]
    <3> DEFINE names == DOMAIN Hosts!Plan.scripts
    <3>1. repoCh \in Seq(names)
      BY <1>0 DEF HostTypes
    <3> HIDE DEF names
    <3>2. Head(repoCh) \in names /\ repoCh' \in Seq(names)
      BY <2>5, <3>1
    <3> USE DEF names
    <3>3. HostScript(Hosts!Plan, Hosts!Plan.scripts[Head(repoCh)])
      BY <1>0, <3>2, PlanScripts DEF HostTypes
    <3>4. /\ todo'["scan"] = Hosts!Plan.scripts[Head(repoCh)] /\ DOMAIN todo' = Hosts!Procs
          /\ \A q \in Hosts!Procs \ {"scan"} : todo'[q] = todo[q]
      BY <1>0, <2>5 DEF HostTypes
    <3>5. \A q \in HostSingles : HostScript(Hosts!Plan, todo'[q])
      BY <1>0, <3>3, <3>4 DEF HostTypes, HostSingles
    <3>6. err["scan"] \in {"none", "fail"}
      BY <1>0, <2>2, <2>5 DEF HostTypes, HostWork, HostRefused, Causes, Errors
    <3>7. HostWork("scan")'
      BY <1>0, <2>1, <2>2, <2>5, <3>6 DEF HostWork
    <3>8. HostWork("main")' /\ HostWork("enum")'
      BY <1>0, <2>5, <3>4 DEF HostWork
    <3>9. HostPhases'
      BY <1>0, <2>2, <2>5, <3>4 DEF HostPhases
    <3>10. QED
      BY <1>0, <2>3, <2>5, <3>2, <3>4, <3>5, <3>7, <3>8, <3>9, HostControlInv DEF HostTypes, HostSingles
  <2>6. QED
    BY <1>2, <2>4, <2>5 DEF Hosts!NextRepo, Hosts!EndScan
<1>3. QED
  BY <1>1, <1>2

(* A member of the group takes an item, or ends.                           *)
LEMMA HostMemberInv ==
  ASSUME HostInv, target' = target, NEW m \in Hosts!Group,
         \/ m = "list" /\ Hosts!EndList
         \/ m \in Workers /\ (Hosts!TakeItem(m) \/ Hosts!EndWorker(m))
  PROVE  HostInv'
<1>0. /\ HostTypes /\ HostPhases /\ HostGroup /\ HostRefused /\ \A q \in Hosts!Procs : HostWork(q)
      /\ Hosts!Plan' = Hosts!Plan
      /\ UNCHANGED <<at, err, refused, repoCh, cause, verdict>>
      /\ state[m] = "busy" /\ todo[m] = <<>>
  BY DEF HostInv, Hosts!Plan, Hosts!EndList, Hosts!TakeItem, Hosts!EndWorker, Hosts!Ended
<1> USE HostProcs
<1>1. \/ state' = [state EXCEPT ![m] = "done"] /\ UNCHANGED <<todo, runCh>>
      \/ /\ runCh # <<>> /\ runCh' = Tail(runCh) /\ err[m] = "none" /\ state' = state
         /\ todo' = [todo EXCEPT ![m] = Hosts!Plan.scripts[Head(runCh)]]
  BY DEF Hosts!EndList, Hosts!TakeItem, Hosts!EndWorker
<1>2. state["list"] # "idle" /\ state'["list"] # "idle"
  <2>1. state["list"] # "idle"
    BY <1>0 DEF HostGroup
  <2>2. QED
    BY <1>0, <1>1, <2>1 DEF HostTypes
<1>3. /\ HostScript(Hosts!Plan, todo'[m]) /\ runCh' \in Seq(DOMAIN Hosts!Plan.scripts)
  <2> DEFINE names == DOMAIN Hosts!Plan.scripts
  <2>1. runCh \in Seq(names)
    BY <1>0 DEF HostTypes
  <2> HIDE DEF names
  <2>2. runCh # <<>> => Head(runCh) \in names /\ Tail(runCh) \in Seq(names)
    BY <2>1
  <2> USE DEF names
  <2>3. runCh # <<>> => HostScript(Hosts!Plan, Hosts!Plan.scripts[Head(runCh)])
    BY <1>0, <2>2, PlanScripts DEF HostTypes
  <2>4. CASE UNCHANGED <<todo, runCh>>
    BY <1>0, <2>4 DEF HostTypes
  <2>5. CASE /\ runCh # <<>> /\ runCh' = Tail(runCh)
             /\ todo' = [todo EXCEPT ![m] = Hosts!Plan.scripts[Head(runCh)]]
    BY <1>0, <2>2, <2>3, <2>5 DEF HostTypes
  <2>6. QED
    BY <1>1, <2>4, <2>5
<1>4. /\ \A q \in Hosts!Procs \ {m} : todo'[q] = todo[q] /\ state'[q] = state[q]
      /\ DOMAIN todo' = Hosts!Procs /\ state' \in [Hosts!Procs -> {"idle", "busy", "yielding", "done"}]
      /\ \/ state'[m] = "done" /\ todo'[m] = <<>>
         \/ state'[m] = "busy" /\ err[m] = "none"
  BY <1>0, <1>1 DEF HostTypes
<1>5. HostTypes'
  <2>1. \A q \in Hosts!Procs : HostScript(Hosts!Plan, todo'[q])
    BY <1>0, <1>3, <1>4 DEF HostTypes
  <2>2. QED
    BY <1>0, <1>3, <1>4, <2>1 DEF HostTypes
<1>6. HostPhases'
  <2>1. \A q \in HostSingles : todo'[q] = todo[q] /\ state'[q] = state[q]
    BY <1>4 DEF HostSingles
  <2>2. QED
    BY <1>0, <2>1 DEF HostPhases, HostSingles
<1>7. \A q \in Hosts!Procs : HostWork(q)'
  <2>1. ASSUME NEW q \in Hosts!Procs, q # m
        PROVE  HostWork(q)'
    BY <1>0, <1>2, <1>4, <2>1 DEF HostWork
  <2>2. HostWork(m)'
    <3>1. ~Hosts!Plan.wrapped /\ m \in refused => err[m] # "none"
      BY <1>0, <1>2 DEF HostWork
    <3>2. m \notin {"main", "enum", "scan"}
      OBVIOUS
    <3>3. QED
      BY <1>0, <1>4, <3>1, <3>2 DEF HostWork
  <2>3. QED
    BY <2>1, <2>2
<1>8. HostGroup'
  <2>1. Hosts!NextIs(HostOwner, {"group"}) /\ HostOwner \in Hosts!Procs \ {m} /\ HostOwner' = HostOwner
    BY <1>0, <1>2 DEF HostGroup, HostOwner
  <2>2. Hosts!NextIs(HostOwner, {"group"})'
    BY <1>4, <2>1 DEF Hosts!NextIs
  <2>3. QED
    BY <1>0, <1>2, <2>2 DEF HostGroup, HostOwner, Hosts!GroupErr
<1>9. HostRefused'
  BY <1>0, <1>2 DEF HostRefused, Hosts!GroupErr
<1>10. QED
  BY <1>5, <1>6, <1>7, <1>8, <1>9 DEF HostInv

(* Whoever has a group next is the owner.                                  *)
LEMMA HostOwns ==
  ASSUME HostInv, NEW p \in {"main", "scan"}, Hosts!NextIs(p, {"group"})
  PROVE  /\ p = HostOwner /\ at \notin {"begin", "returned"} /\ p \in Hosts!Procs \ Hosts!Group
         /\ (at \notin {"dispatch", "alone"} => Hosts!Plan.wrapped)
         /\ ~Hosts!Plan.wrapped => p \notin refused /\ p = "main"
         /\ (p = "main" => err[p] = "none") /\ err[p] \in {"none", "fail"}
         /\ HostStep(Hosts!Plan, Head(todo[p]))
<1>1. /\ HostTypes /\ HostPhases /\ HostWork(p) /\ state[p] = "busy" /\ todo[p] # <<>> /\ p \in Hosts!Procs
      /\ HostScript(Hosts!Plan, todo[p]) /\ (Hosts!Plan.enumerate => Hosts!Plan.wrapped)
  BY HostProcs, PlanScripts DEF HostInv, Hosts!NextIs, HostTypes
<1>2. HostStep(Hosts!Plan, Head(todo[p]))
  BY <1>1, ScriptParts
<1>3. p = HostOwner /\ at \notin {"begin", "returned"} /\ (at \notin {"dispatch", "alone"} => Hosts!Plan.wrapped)
  BY <1>1 DEF HostPhases, HostOwner, HostTypes
<1>4. QED
  BY <1>1, <1>2, <1>3, HostProcs DEF HostWork, HostOwner

(* The owner starts its group,                                             *)
LEMMA HostStartGroupInv ==
  ASSUME HostInv, target' = target, NEW p \in {"main", "scan"}, Hosts!StartGroup(p)
  PROVE  HostInv'
<1>0. /\ HostTypes /\ HostPhases /\ HostGroup /\ HostRefused /\ \A q \in Hosts!Procs : HostWork(q)
      /\ Hosts!Plan' = Hosts!Plan /\ Hosts!NextIs(p, {"group"}) /\ state["list"] = "idle"
      /\ UNCHANGED <<at, err, refused, repoCh, runCh, cause, verdict>>
      /\ state' = [q \in Hosts!Procs |-> IF q \in Hosts!Group THEN "busy" ELSE state[q]]
      /\ todo' = [todo EXCEPT !["list"] = Hosts!Plan.groups[Head(todo[p]).in]]
  BY DEF HostInv, Hosts!Plan, Hosts!StartGroup
<1> USE HostProcs
<1>1. /\ p = HostOwner /\ p \in Hosts!Procs \ Hosts!Group /\ (~Hosts!Plan.wrapped => p = "main")
      /\ (p = "main" => err[p] = "none")
      /\ HostStep(Hosts!Plan, Head(todo[p])) /\ Head(todo[p]).op = "group"
  BY <1>0, HostOwns DEF Hosts!NextIs
<1>2. ~Hosts!Plan.wrapped => refused = {}
  BY <1>0, <1>1 DEF HostRefused
<1>3. HostScript(Hosts!Plan, Hosts!Plan.groups[Head(todo[p]).in])
  BY <1>0, <1>1, PlanScripts DEF HostStep, Hosts!StepOf, HostTypes
<1>4. /\ state' \in [Hosts!Procs -> {"idle", "busy", "yielding", "done"}] /\ DOMAIN todo' = Hosts!Procs
      /\ \A q \in Hosts!Group : state'[q] = "busy" /\ err[q] = "none"
      /\ \A q \in Hosts!Procs \ Hosts!Group : state'[q] = state[q] /\ todo'[q] = todo[q]
      /\ \A q \in Hosts!Procs : HostScript(Hosts!Plan, todo'[q])
  BY <1>0, <1>3 DEF HostTypes, HostGroup
<1>5. HostTypes'
  BY <1>0, <1>4 DEF HostTypes
<1>6. HostPhases'
  <2>1. \A q \in HostSingles : todo'[q] = todo[q] /\ state'[q] = state[q]
    BY <1>4 DEF HostSingles
  <2>2. QED
    BY <1>0, <2>1 DEF HostPhases, HostSingles
<1>7. \A q \in Hosts!Procs : HostWork(q)'
  <2>1. ASSUME NEW q \in Hosts!Group
        PROVE  HostWork(q)'
    BY <1>0, <1>2, <1>4, <2>1 DEF HostWork
  <2>2. ASSUME NEW q \in Hosts!Procs \ Hosts!Group
        PROVE  HostWork(q)'
    BY <1>0, <1>4, <2>2 DEF HostWork
  <2>3. QED
    BY <2>1, <2>2
<1>8. HostGroup'
  <2>1. Hosts!NextIs(HostOwner, {"group"})' /\ HostOwner' = HostOwner
    BY <1>0, <1>1, <1>4 DEF Hosts!NextIs, HostOwner
  <2>2. QED
    BY <1>0, <1>4, <2>1 DEF HostGroup, HostOwner, Hosts!GroupErr
<1>9. HostRefused'
  BY <1>0, <1>2 DEF HostRefused
<1>10. QED
  BY <1>5, <1>6, <1>7, <1>8, <1>9 DEF HostInv

(* and waits for it to end: the group's error becomes its own.             *)
LEMMA HostEndGroupInv ==
  ASSUME HostInv, target' = target, NEW p \in {"main", "scan"}, Hosts!EndGroup(p)
  PROVE  HostInv'
<1>0. /\ HostTypes /\ HostPhases /\ HostGroup /\ HostRefused /\ \A q \in Hosts!Procs : HostWork(q)
      /\ Hosts!Plan' = Hosts!Plan /\ Hosts!NextIs(p, {"group"}) /\ \A q \in Hosts!Group : state[q] = "done"
      /\ UNCHANGED <<at, refused, repoCh, cause, verdict>> /\ runCh' = <<>>
      /\ todo' = IF err["list"] = "none" THEN [todo EXCEPT ![p] = Tail(todo[p])] ELSE [todo EXCEPT ![p] = <<>>]
      /\ err' = [q \in Hosts!Procs |-> IF q \in Hosts!Group THEN "none"
                                        ELSE IF q = p THEN Hosts!First(err[p], err["list"]) ELSE err[q]]
      /\ state' = [q \in Hosts!Procs |-> IF q \in Hosts!Group THEN "idle" ELSE state[q]]
  BY DEF HostInv, Hosts!Plan, Hosts!EndGroup, Hosts!GroupErr, Hosts!Drop
<1> USE HostProcs
<1>1. /\ p = HostOwner /\ p \in Hosts!Procs \ Hosts!Group /\ at \notin {"begin", "returned"}
      /\ (~Hosts!Plan.wrapped => p = "main" /\ p \notin refused)
      /\ (p = "main" => err[p] = "none") /\ err[p] \in {"none", "fail"}
      /\ state[p] = "busy" /\ todo[p] # <<>>
  BY <1>0, HostOwns DEF Hosts!NextIs
<1>2. /\ HostScript(Hosts!Plan, todo'[p]) /\ DOMAIN todo' = Hosts!Procs
      /\ \A q \in Hosts!Procs \ {p} : todo'[q] = todo[q]
      /\ err["list"] # "none" => todo'[p] = <<>>
  <2>1. HostScript(Hosts!Plan, Tail(todo[p])) /\ HostScript(Hosts!Plan, <<>>)
    BY <1>0, <1>1, ScriptParts DEF HostTypes
  <2>2. QED
    BY <1>0, <1>1, <2>1 DEF HostTypes
<1>3. /\ \A q \in Hosts!Group : state'[q] = "idle" /\ err'[q] = "none" /\ todo'[q] = <<>>
      /\ \A q \in Hosts!Procs \ Hosts!Group : state'[q] = state[q] /\ (q # p => err'[q] = err[q])
      /\ err'[p] = IF err[p] = "none" THEN err["list"] ELSE err[p]
      /\ state' \in [Hosts!Procs -> {"idle", "busy", "yielding", "done"}] /\ err' \in [Hosts!Procs -> Causes]
  <2>1. \A q \in Hosts!Group : state'[q] = "idle" /\ err'[q] = "none" /\ q # p
    BY <1>0, <1>1
  <2>2. \A q \in Hosts!Group : todo[q] = <<>>
    BY <1>0 DEF HostWork
  <2>3. \A q \in Hosts!Group : todo'[q] = <<>>
    BY <1>2, <2>1, <2>2
  <2>4. \A q \in Hosts!Procs \ Hosts!Group : state'[q] = state[q] /\ (q # p => err'[q] = err[q])
    BY <1>0
  <2>5. err'[p] = IF err[p] = "none" THEN err["list"] ELSE err[p]
    BY <1>0, <1>1 DEF Hosts!First
  <2>6. state' \in [Hosts!Procs -> {"idle", "busy", "yielding", "done"}]
    BY <1>0 DEF HostTypes
  <2>7. err' \in [Hosts!Procs -> Causes]
    <3>1. err \in [Hosts!Procs -> Causes] /\ "none" \in Causes
      BY <1>0 DEF HostTypes, Causes
    <3>2. Hosts!First(err[p], err["list"]) \in Causes
      BY <1>1, <3>1 DEF Hosts!First
    <3>3. QED
      BY <1>0, <3>1, <3>2
  <2>8. QED
    BY <2>1, <2>3, <2>4, <2>5, <2>6, <2>7
<1>4. HostTypes'
  <2>1. <<>> \in Seq(DOMAIN Hosts!Plan.scripts)
    OBVIOUS
  <2>2. \A q \in Hosts!Procs : HostScript(Hosts!Plan, todo'[q])
    BY <1>0, <1>2 DEF HostTypes
  <2>3. QED
    BY <1>0, <1>2, <1>3, <2>1, <2>2 DEF HostTypes
<1>5. HostPhases'
  <2>1. \A q \in HostSingles : state'[q] = state[q] /\ (q # p => err'[q] = err[q] /\ todo'[q] = todo[q])
    BY <1>2, <1>3 DEF HostSingles
  <2>2. QED
    BY <1>0, <1>1, <2>1 DEF HostPhases, HostSingles, HostOwner
<1>6. \A q \in Hosts!Procs : HostWork(q)'
  <2>1. ASSUME NEW q \in Hosts!Group
        PROVE  HostWork(q)'
    BY <1>0, <1>3, <2>1 DEF HostWork
  <2>2. ASSUME NEW q \in Hosts!Procs \ Hosts!Group, q # p
        PROVE  HostWork(q)'
    BY <1>0, <1>2, <1>3, <2>2 DEF HostWork
  <2>3. HostWork(p)'
    <3>1. (err["list"] = "refused" => refused # {}) /\ (err["list"] = "canceled" => cause # "none")
      BY <1>0, PlanScripts DEF HostWork, HostTypes
    <3>2. QED
      BY <1>0, <1>1, <1>2, <1>3, <3>1 DEF HostWork
  <2>4. QED
    BY <2>1, <2>2, <2>3
<1>7. HostGroup'
  BY <1>0, <1>3 DEF HostGroup
<1>8. HostRefused'
  <2>1. ~Hosts!Plan.wrapped /\ refused # {} => err["list"] # "none"
    BY <1>0, <1>1 DEF HostRefused, Hosts!GroupErr
  <2>2. QED
    BY <1>0, <1>1, <1>3, <2>1 DEF HostRefused
<1>9. QED
  BY <1>4, <1>5, <1>6, <1>7, <1>8 DEF HostInv

(* HostInv is inductive: every step of a scan keeps it,                    *)
LEMMA HostNextInv ==
  ASSUME HostInv, Hosts!Next
  PROVE  HostInv'
<1>1. CASE Hosts!Cancel \/ Hosts!Finished
  BY <1>1, HostJoinInv
<1>2. ASSUME NEW p \in Hosts!Procs, Hosts!Step1(p)
      PROVE  HostInv'
  <2>0. target' = target
    BY <1>2 DEF Hosts!Step1
  <2>1. CASE Hosts!ScriptStep(p) \/ (p = "enum" /\ Hosts!SendRepo) \/ (p = "list" /\ Hosts!SendItem)
    BY <2>0, <2>1, HostScriptMoves, HostMoveInv
  <2>2. CASE Hosts!Begin \/ Hosts!Dispatched \/ Hosts!StartEnumeration \/ Hosts!EnumerationEnds \/ Hosts!Join
    BY <2>0, <2>2, HostBeginInv, HostDispatchedInv, HostStartInv, HostJoinInv
  <2>3. CASE Hosts!EndEnum \/ Hosts!NextRepo \/ Hosts!EndScan
    BY <2>0, <2>3, HostReposInv
  <2>4. CASE p \in {"main", "scan"} /\ (Hosts!StartGroup(p) \/ Hosts!EndGroup(p))
    BY <2>0, <2>4, HostStartGroupInv, HostEndGroupInv
  <2>5. CASE \/ p = "list" /\ Hosts!EndList
             \/ p \in Workers /\ (Hosts!TakeItem(p) \/ Hosts!EndWorker(p))
    BY <2>0, <2>5, HostMemberInv, HostProcs
  <2>6. QED
    BY <1>2, <2>1, <2>2, <2>3, <2>4, <2>5 DEF Hosts!Step1
<1>3. QED
  BY <1>1, <1>2 DEF Hosts!Next, Hosts!Progress

(* and it holds before the first.                                          *)
LEMMA HostInit ==
  ASSUME Hosts!Init
  PROVE  HostInv
<1> USE HostProcs
<1>1. HostScript(Hosts!Plan, <<>>)
  BY PlanScripts, ScriptParts DEF Hosts!Init
<1>2. \A S : <<>> \in Seq(S)
  OBVIOUS
<1>3. HostTypes
  BY <1>1, <1>2 DEF Hosts!Init, HostTypes, Causes
<1>4. HostPhases /\ HostGroup /\ HostRefused
  BY DEF Hosts!Init, HostPhases, HostGroup, HostRefused
<1>5. \A q \in Hosts!Procs : HostWork(q)
  BY DEF Hosts!Init, HostWork
<1>6. QED
  BY <1>3, <1>4, <1>5 DEF HostInv

-----------------------------------------------------------------------------
(* Of the source that is scanned the invariant holds.                      *)
SourcesInv ==
  /\ which \in {"hosts", "S3", "HF", "git"}
  /\ which = "hosts" => HostInv
  /\ which = "S3"    => S3Inv
  /\ which = "HF"    => HFInv
  /\ which = "git"   => GitInv

(* A step of nobody keeps it.                                              *)
LEMMA SourcesUnchanged ==
  ASSUME SourcesInv, UNCHANGED vars
  PROVE  SourcesInv'
<1>1. UNCHANGED <<which, target, at, refused, cause, verdict, obj, groupErr, groupCause, ctxDone, todo, state, err,
                  repoCh, runCh, exitErr, listFailed, enum, enumErr, main, listErr, firstErr, failed>>
  BY DEF vars
<1>2. UNCHANGED <<which, target, at, refused, cause, yielded, lost, faults, verdict, groupErr, ctxDone,
                  phase, stage, cur, errs, git, listener>>
  BY DEF vars
<1>3. CASE which = "hosts"
  <2>1. HostInv /\ Hosts!Plan' = Hosts!Plan
    BY <1>1, <1>3 DEF SourcesInv, Hosts!Plan
  <2>2. HostTypes'
    BY <1>1, <2>1 DEF HostInv, HostTypes
  <2>3. HostPhases' /\ HostRefused'
    BY <1>1, <2>1 DEF HostInv, HostPhases, HostRefused, Hosts!GroupErr
  <2>4. HostGroup'
    BY <1>1, <2>1 DEF HostInv, HostGroup, Hosts!GroupErr, Hosts!NextIs
  <2>5. \A p \in Hosts!Procs : HostWork(p)'
    BY <1>1, <2>1 DEF HostInv, HostWork
  <2>6. QED
    BY <1>1, <1>3, <2>2, <2>3, <2>4, <2>5 DEF SourcesInv, HostInv
<1>4. CASE which = "S3"
  <2>1. S3Inv'
    BY <1>1, <1>4 DEF SourcesInv, S3Inv, S3Types, S3Errors, S3Listing, S3!GroupDone, S3!GroupCause, S3!Stopped,
       S3!Enumerate, S3!Running
  <2>2. QED
    BY <1>1, <1>4, <2>1 DEF SourcesInv
<1>5. CASE which = "HF"
  <2>1. HFInv'
    BY <1>1, <1>5 DEF SourcesInv, HFInv, HFTypes, HFErrors, HFFailure, HFCause, HF!Stopped, HF!Running
  <2>2. QED
    BY <1>1, <1>5, <2>1 DEF SourcesInv
<1>6. CASE which = "git"
  <2>1. UNCHANGED Git!vars
    BY <1>2 DEF Git!vars, Git!reader
  <2>2. GitInv'
    BY <1>6, <2>1, GitUnchanged DEF SourcesInv
  <2>3. QED
    BY <1>1, <1>6, <2>2 DEF SourcesInv
<1>7. QED
  BY <1>3, <1>4, <1>5, <1>6 DEF SourcesInv

(* Every step of the scanned source keeps the invariant,                   *)
LEMMA SourcesInvInductive ==
  ASSUME SourcesInv, [Next]_vars
  PROVE  SourcesInv'
<1>1. CASE which = "hosts" /\ Hosts!Next /\ which' = which
  BY <1>1, HostNextInv DEF SourcesInv
<1>2. CASE which = "S3" /\ S3!Next /\ which' = which
  BY <1>2, S3NextInv DEF SourcesInv
<1>3. CASE which = "HF" /\ HF!Next /\ which' = which
  BY <1>3, HFNextInv DEF SourcesInv
<1>4. CASE which = "git" /\ Git!Next /\ which' = which
  BY <1>4, GitNextInv DEF SourcesInv
<1>5. CASE UNCHANGED vars
  BY <1>5, SourcesUnchanged
<1>6. QED
  BY <1>1, <1>2, <1>3, <1>4, <1>5 DEF Next

(* which holds before the first.                                           *)
LEMMA SourcesInvInit ==
  ASSUME Init
  PROVE  SourcesInv
<1>1. CASE which = "hosts" /\ Hosts!Init
  BY <1>1, HostInit DEF SourcesInv
<1>2. CASE which = "S3" /\ S3!Init
  BY <1>2, S3Init DEF SourcesInv
<1>3. CASE which = "HF" /\ HF!Init
  BY <1>3, HFInit DEF SourcesInv
<1>4. CASE which = "git" /\ Git!Init
  BY <1>4, GitInit DEF SourcesInv
<1>5. QED
  BY <1>1, <1>2, <1>3, <1>4 DEF Init

(* The invariant of the source that is scanned holds at all times.         *)
THEOREM SourcesInvariant == Spec => []SourcesInv
<1>1. Init => SourcesInv
  BY SourcesInvInit
<1>2. SourcesInv /\ [Next]_vars => SourcesInv'
  BY SourcesInvInductive
<1>3. QED
  BY <1>1, <1>2, PTL DEF Spec

-----------------------------------------------------------------------------
(* When Fragments of a host returns its goroutines are done, and one that  *)
(* was refused, where no context ends by that, has nothing left to do.     *)
LEMMA HostSafe ==
  ASSUME HostInv
  PROVE  Hosts!NothingLeftBehind /\ Hosts!RefusalIsFinal
<1>1. Hosts!NothingLeftBehind
  <2> SUFFICES ASSUME at = "returned"
               PROVE  /\ \A p \in Hosts!Procs \ {"main"} : state[p] \in {"idle", "done"}
                      /\ state["main"] # "yielding" /\ todo["main"] = <<>>
    BY DEF Hosts!NothingLeftBehind
  <2>1. state["list"] = "idle"
    BY HostIdle
  <2>2. \A p \in Hosts!Group : state[p] = "idle"
    BY <2>1 DEF HostInv, HostGroup
  <2>3. QED
    BY <2>2, HostProcs DEF HostInv, HostPhases
<1>2. Hosts!RefusalIsFinal
  BY DEF Hosts!RefusalIsFinal, HostInv, HostTypes, HostWork
<1>3. QED
  BY <1>1, <1>2

(* No goroutine of a source, no git process and nobody who listens to one  *)
(* outlives its scan, whatever is scanned and however many work at it      *)
(* (scans.Wait, g.Wait, and the draining of a process before its Wait).    *)
THEOREM NothingIsLeftBehind == Spec => []NothingLeftBehind
<1>1. SourcesInv => NothingLeftBehind
  <2> SUFFICES ASSUME SourcesInv
               PROVE  NothingLeftBehind
    OBVIOUS
  <2>1. which = "hosts" => Hosts!NothingLeftBehind
    BY HostSafe DEF SourcesInv
  <2>2. which = "S3" => S3!NothingLeftBehind
    BY DEF SourcesInv, S3Inv, S3!NothingLeftBehind
  <2>3. which = "HF" => HF!NothingLeftBehind
    BY DEF SourcesInv, HFInv, HF!NothingLeftBehind
  <2>4. which = "git" => Git!NothingLeftBehind
    BY GitNothingLeftBehind DEF SourcesInv
  <2>5. QED
    BY <2>1, <2>2, <2>3, <2>4 DEF NothingLeftBehind
<1>2. QED
  BY <1>1, SourcesInvariant, PTL

(* A refused yield ends a file's or a container's scan for good, whatever  *)
(* it has still to do; and the killing of git that follows a refusal is    *)
(* never reported as a failure of git (sources/git.go: "Killing Git is     *)
(* cleanup after the original failure").                                   *)
THEOREM ARefusalIsFinal == Spec => []RefusalIsFinal
<1>1. SourcesInv => RefusalIsFinal
  <2> SUFFICES ASSUME SourcesInv
               PROVE  RefusalIsFinal
    OBVIOUS
  <2>1. which = "hosts" => Hosts!RefusalIsFinal
    BY HostSafe DEF SourcesInv
  <2>2. which = "git" => Git!KillNotReported
    BY DEF SourcesInv, GitInv
  <2>3. QED
    BY <2>1, <2>2 DEF RefusalIsFinal
<1>2. QED
  BY <1>1, SourcesInvariant, PTL

(* A failed enumeration of Hugging Face buckets is what Fragments returns, *)
(* and nothing else, unless the caller has stopped the scan: no bucket's   *)
(* or object's failure takes its place.                                    *)
THEOREM BucketEnumerationReported == Spec => [](which = "HF" => HF!EnumerationReported)
<1>1. SourcesInv => (which = "HF" => HF!EnumerationReported)
  BY DEF SourcesInv, HFInv, HFCause, HF!EnumerationReported
<1>2. QED
  BY <1>1, SourcesInvariant, PTL

-----------------------------------------------------------------------------
(* The steps of the contract, as its implementations take them: nothing    *)
(* that it sees, or only that something failed or stopped the source;      *)
LEMMA QuietStep ==
  ASSUME Phase' = Phase, Yielding' = Yielding, verdict' = verdict,
         Stopped \in BOOLEAN, Stopped' \in BOOLEAN, Failed \in BOOLEAN, Failed' \in BOOLEAN,
         Stopped => Stopped', Failed => Failed'
  PROVE  [Source!Next]_(Source!vars)
<1>1. CASE ~Failed /\ Failed'
  <2>1. Failed' = TRUE /\ Stopped' \in {Stopped, TRUE}
    BY <1>1
  <2>2. Source!Fail
    BY <1>1, <2>1 DEF Source!Fail
  <2>3. QED
    BY <2>2 DEF Source!Next
<1>2. CASE Failed' = Failed /\ ~Stopped /\ Stopped'
  <2>1. Stopped' = TRUE
    BY <1>2
  <2>2. Source!Cancel
    BY <1>2, <2>1 DEF Source!Cancel
  <2>3. QED
    BY <2>2 DEF Source!Next
<1>3. CASE Failed' = Failed /\ Stopped' = Stopped
  BY <1>3 DEF Source!vars
<1>4. QED
  BY <1>1, <1>2, <1>3

(* a call of yield;                                                        *)
LEMMA CallStep ==
  ASSUME Phase = "running", Phase' = Phase, NEW i \in Inputs, Yielding' = Yielding \cup {i},
         verdict' = verdict, Stopped \in BOOLEAN, Stopped' = Stopped, Failed \in BOOLEAN, Failed' = Failed
  PROVE  [Source!Next]_(Source!vars)
<1>1. CASE i \in Yielding
  <2>1. Yielding' = Yielding
    BY <1>1
  <2>2. QED
    BY <2>1 DEF Source!vars
<1>2. CASE i \notin Yielding
  <2>1. Source!Call(i)
    BY <1>2 DEF Source!Call
  <2>2. i \in Inputs \cap (Yielding' \ Yielding)
    BY <1>2
  <2>3. QED
    BY <2>1, <2>2 DEF Source!Next
<1>3. QED
  BY <1>1, <1>2

(* the return of one, which may have refused;                              *)
LEMMA AnswerStep ==
  ASSUME Phase' = Phase, NEW i \in Inputs, Yielding' = Yielding \/ Yielding' = Yielding \ {i},
         verdict' = verdict, Stopped \in BOOLEAN, Stopped' \in BOOLEAN, Stopped => Stopped',
         Failed \in BOOLEAN, Failed' = Failed
  PROVE  [Source!Next]_(Source!vars)
<1>1. CASE Yielding' = Yielding
  BY <1>1, QuietStep
<1>2. CASE Yielding' # Yielding
  <2>1. i \in Yielding /\ Yielding' = Yielding \ {i}
    BY <1>2
  <2>2. Stopped' \in {Stopped, TRUE}
    OBVIOUS
  <2>3. Source!Answer(i)
    BY <2>1, <2>2 DEF Source!Answer
  <2>4. QED
    BY <2>1, <2>3 DEF Source!Next
<1>3. QED
  BY <1>1, <1>2

(* and the return of Fragments.                                            *)
LEMMA ReturnStep ==
  ASSUME Phase = "running", Phase' = "returned", Yielding = {}, Yielding' = {},
         Stopped \in BOOLEAN, Stopped' = Stopped, Failed \in BOOLEAN, Failed' \in BOOLEAN, Failed => Failed',
         verdict' \subseteq Errors, Failed' => verdict' # {},
         verdict' \cap {"refused", "canceled"} # {} => Stopped
  PROVE  [Source!Next]_(Source!vars)
<1>1. verdict' \in SUBSET ({"refused", "canceled"} \cup {"fail"})
  BY DEF Errors
<1>2. Failed' \in {Failed, TRUE}
  OBVIOUS
<1>3. Source!Return(verdict')
  BY <1>2 DEF Source!Return
<1>4. QED
  BY <1>1, <1>3 DEF Source!Next

-----------------------------------------------------------------------------
(* What the contract sees of S3Source, and of one of its objects.          *)
LEMMA S3Seen ==
  ASSUME S3Inv, S3Inv', which = "S3", which' = which
  PROVE  /\ Phase = S3!Phase /\ Yielding = S3!Yielding /\ Stopped = S3!Stopped /\ Failed = listFailed
         /\ Phase' = S3!Phase' /\ Yielding' = S3!Yielding' /\ Stopped' = S3!Stopped' /\ Failed' = listFailed'
         /\ Stopped \in BOOLEAN /\ Stopped' \in BOOLEAN /\ Failed \in BOOLEAN /\ Failed' \in BOOLEAN
<1>1. Phase = S3!Phase /\ Yielding = S3!Yielding /\ Phase' = S3!Phase' /\ Yielding' = S3!Yielding'
  BY DEF Phase, Yielding, Choose
<1>2. Stopped = S3!Stopped /\ Failed = listFailed
  BY DEF Stopped, Failed, Choose, S3!Failed
<1>3. Stopped' = S3!Stopped' /\ Failed' = listFailed'
  BY DEF Stopped, Failed, Choose, S3!Failed
<1>4. listFailed \in BOOLEAN /\ listFailed' \in BOOLEAN
  BY DEF S3Inv, S3Types
<1>5. S3!Stopped \in BOOLEAN /\ S3!Stopped' \in BOOLEAN
  BY DEF S3!Stopped
<1>6. QED
  BY <1>1, <1>2, <1>3, <1>4, <1>5

(* An object that goes to a state outside yield is not yielded any more.   *)
LEMMA S3ObjectLeaves ==
  ASSUME S3Inv, NEW o, NEW s \in {"skipped", "queued", "failing", "scanned", "stopped", "lost", "fetching"},
         obj' = [obj EXCEPT ![o] = s]
  PROVE  IF o \in Objects THEN S3!Yielding' = S3!Yielding \ {o} ELSE S3!Yielding' = S3!Yielding
<1>1. CASE o \in Objects
  <2>1. obj'[o] = s /\ \A x \in Objects \ {o} : obj'[x] = obj[x]
    BY <1>1 DEF S3Inv, S3Types
  <2>2. QED
    BY <1>1, <2>1 DEF S3!Yielding
<1>2. CASE o \notin Objects
  <2>1. \A x \in Objects : obj'[x] = obj[x]
    BY <1>2 DEF S3Inv, S3Types
  <2>2. QED
    BY <1>2, <2>1 DEF S3!Yielding
<1>3. QED
  BY <1>1, <1>2

(* It returns with an error when a listing has failed, and says that it    *)
(* was stopped only when it was.                                           *)
LEMMA S3Returns ==
  ASSUME S3Inv, S3Inv', which = "S3", which' = which, target' = target,
         NEW errors, S3!Return(errors), at # "returned", UNCHANGED <<obj, cause>>,
         S3!Running = {}, errors \subseteq Errors,
         listFailed => listFailed', listFailed' => errors # {}, S3!Enumerate \/ listFailed' = listFailed,
         errors \cap {"refused", "canceled"} # {} => S3!Stopped
  PROVE  [Source!Next]_(Source!vars)
<1>1. S3!Phase = "running" /\ S3!Phase' = "returned"
  BY DEF S3!Return, S3!Phase
<1>2. S3!Yielding = {} /\ S3!Yielding' = {}
  BY DEF S3!Running, S3!Yielding
<1>3. S3!Stopped' = S3!Stopped
  BY DEF S3!Stopped, S3!Enumerate
<1>4. verdict' = IF cause # "none" THEN {cause} ELSE errors
  BY DEF S3!Return
<1>5. /\ verdict' \subseteq Errors /\ (listFailed' => verdict' # {})
      /\ verdict' \cap {"refused", "canceled"} # {} => S3!Stopped
  <2>1. CASE cause # "none"
    BY <1>4, <2>1 DEF S3Inv, S3Types, Causes, S3!Stopped
  <2>2. CASE cause = "none"
    BY <1>4, <2>2
  <2>3. QED
    BY <2>1, <2>2
<1>6. QED
  BY <1>1, <1>2, <1>3, <1>5, S3Seen, ReturnStep

(* S3 is a source: every step is one of the contract, or nothing that the  *)
(* contract sees.                                                          *)
LEMMA S3Implements ==
  ASSUME S3Inv, S3Inv', S3!Next, which = "S3", which' = which
  PROVE  [Source!Next]_(Source!vars)
<1>0. Objects \subseteq Inputs
  BY InputsAreAll
<1>1. ASSUME S3!Phase' = S3!Phase, S3!Yielding' = S3!Yielding, verdict' = verdict,
             S3!Stopped => S3!Stopped', listFailed => listFailed'
      PROVE  [Source!Next]_(Source!vars)
  BY <1>1, S3Seen, QuietStep
<1>2. ASSUME S3!Phase' = S3!Phase, NEW o \in Objects, S3!Yielding' = S3!Yielding \ {o}, verdict' = verdict,
             S3!Stopped => S3!Stopped', listFailed' = listFailed
      PROVE  [Source!Next]_(Source!vars)
  BY <1>0, <1>2, S3Seen, AnswerStep
<1>3. CASE S3!Cancel \/ S3!Finished
  <2>1. UNCHANGED <<target, at, obj, listFailed, verdict>> /\ (cause # "none" => cause' = cause)
    BY <1>3 DEF S3!Cancel, S3!Finished, S3!vars, S3!lister, S3!group
  <2>2. QED
    BY <1>1, <2>1 DEF S3!Phase, S3!Yielding, S3!Stopped, S3!Enumerate
<1>4. CASE S3!ListerStep
  <2>1. target' = target /\ S3!Enumerate' = S3!Enumerate
    BY <1>4 DEF S3!ListerStep, S3!Enumerate
  <2>2. CASE S3!StartBucket \/ S3!SkipBucket \/ S3!ListPage \/ S3!EndPage \/ S3!EndBucket \/ S3!NextBucket
    <3>1. UNCHANGED <<obj, cause, listFailed, verdict>> /\ at # "returned" /\ at' # "returned"
      BY <2>2 DEF S3!StartBucket, S3!SkipBucket, S3!ListPage, S3!EndPage, S3!EndBucket, S3!NextBucket,
         S3!NextIsBucket, S3!group
    <3>2. QED
      BY <1>1, <2>1, <3>1 DEF S3!Phase, S3!Yielding, S3!Stopped
  <2>3. CASE S3!ListFails
    <3>1. UNCHANGED <<obj, cause, verdict>> /\ at = "list" /\ at' = "wait" /\ ~listFailed
      BY <2>3 DEF S3!ListFails, S3Inv, S3Listing
    <3>2. QED
      BY <1>1, <2>1, <3>1 DEF S3!Phase, S3!Yielding, S3!Stopped
  <2>4. CASE S3!CheckObject \/ S3!Submit
    <3>1. /\ UNCHANGED <<cause, listFailed, verdict>> /\ at # "returned" /\ at' # "returned"
          /\ obj' = obj \/ \E s \in {"skipped", "queued"} : obj' = [obj EXCEPT ![S3!Considered] = s]
      BY <2>4 DEF S3!CheckObject, S3!Submit
    <3>2. UNCHANGED <<S3!Phase, S3!Stopped>>
      BY <2>1, <3>1 DEF S3!Phase, S3!Stopped
    <3>3. CASE obj' = obj
      BY <1>1, <3>1, <3>2, <3>3 DEF S3!Yielding
    <3>4. ASSUME NEW s \in {"skipped", "queued"}, obj' = [obj EXCEPT ![S3!Considered] = s]
          PROVE  [Source!Next]_(Source!vars)
      <4>1. IF S3!Considered \in Objects THEN S3!Yielding' = S3!Yielding \ {S3!Considered} ELSE S3!Yielding' = S3!Yielding
        BY <3>4, S3ObjectLeaves
      <4>2. QED
        BY <1>1, <1>2, <3>1, <3>2, <4>1
    <3>5. QED
      BY <3>1, <3>3, <3>4
  <2>5. CASE S3!Begin
    <3>1. /\ UNCHANGED <<obj, cause>> /\ at = "begin" /\ ~listFailed /\ S3!Running = {}
          /\ \/ at' = "bucket" /\ UNCHANGED <<listFailed, verdict>>
             \/ S3!Enumerate /\ S3!Return({"fail"}) /\ listFailed' = (cause = "none")
      BY <2>5 DEF S3!Begin, S3!group, S3Inv, S3Listing
    <3>2. CASE at' = "bucket" /\ UNCHANGED <<listFailed, verdict>>
      BY <1>1, <2>1, <3>1, <3>2 DEF S3!Phase, S3!Yielding, S3!Stopped
    <3>3. CASE S3!Enumerate /\ S3!Return({"fail"}) /\ listFailed' = (cause = "none")
      BY <2>1, <3>1, <3>3, S3Returns DEF Errors
    <3>4. QED
      BY <3>1, <3>2, <3>3
  <2>6. CASE S3!EndEnumeration
    <3>1. UNCHANGED <<obj, cause, listFailed>> /\ at = "bucket" /\ ~listFailed /\ S3!Running = {} /\ S3!Return({})
      BY <2>6 DEF S3!EndEnumeration, S3!group, S3Inv, S3Listing
    <3>2. QED
      BY <2>1, <3>1, S3Returns
  <2>7. CASE S3!Finish
    <3>1. /\ UNCHANGED <<obj, cause, listFailed>> /\ at = "end" /\ S3!Running = {} /\ S3!Return(exitErr)
          /\ ~S3!Enumerate /\ exitErr \subseteq Errors /\ (listFailed => exitErr # {})
      BY <2>7 DEF S3!Finish, S3!group, S3Inv, S3Types, S3Listing
    <3>2. exitErr \cap {"refused", "canceled"} # {} => S3!Stopped
      BY <3>1 DEF S3Inv, S3Errors, S3!Stops
    <3>3. QED
      BY <2>1, <3>1, <3>2, S3Returns
  <2>8. QED
    BY <1>4, <2>2, <2>3, <2>4, <2>5, <2>6, <2>7 DEF S3!ListerStep
<1>5. ASSUME NEW o \in Objects, S3!TaskStep(o)
      PROVE  [Source!Next]_(Source!vars)
  <2>1. /\ UNCHANGED <<target, at, listFailed, verdict>> /\ (cause # "none" => cause' = cause)
        /\ obj[o] \in {"queued", "fetching", "yielding", "cutOff", "failing"}
    BY <1>5 DEF S3!TaskStep, S3!StartTask, S3!CallYield, S3!YieldAccepts, S3!YieldRefuses, S3!FetchFails,
       S3!EndFailing, S3!lister
  <2>2. /\ UNCHANGED S3!Phase /\ (S3!Stopped => S3!Stopped')
        /\ cause' = cause => S3!Stopped' = S3!Stopped
    BY <2>1 DEF S3!Phase, S3!Stopped, S3!Enumerate
  <2>3. CASE \E s \in {"yielding", "cutOff"} : obj' = [obj EXCEPT ![o] = s] /\ cause' = cause
    <3>1. S3!Yielding' = S3!Yielding \cup {o}
      <4>1. obj'[o] \in {"yielding", "cutOff"} /\ \A x \in Objects \ {o} : obj'[x] = obj[x]
        BY <2>3 DEF S3Inv, S3Types
      <4>2. QED
        BY <4>1 DEF S3!Yielding
    <3>2. at # "returned"
      BY <2>1 DEF S3Inv, S3!Running
    <3>3. S3!Phase = "running"
      BY <3>2 DEF S3!Phase
    <3>4. QED
      BY <1>0, <2>1, <2>2, <2>3, <3>1, <3>3, S3Seen, CallStep
  <2>4. CASE \E s \in {"failing", "scanned", "stopped", "lost", "fetching"} : obj' = [obj EXCEPT ![o] = s]
    <3>1. S3!Yielding' = S3!Yielding \ {o}
      BY <2>4, S3ObjectLeaves
    <3>2. QED
      BY <1>2, <2>1, <2>2, <3>1
  <2>5. QED
    BY <1>5, <2>3, <2>4 DEF S3!TaskStep, S3!StartTask, S3!CallYield, S3!YieldAccepts, S3!YieldRefuses, S3!FetchFails,
       S3!EndFailing, S3!TaskFails
<1>6. QED
  BY <1>3, <1>4, <1>5 DEF S3!Next, S3!Progress

(* What the contract sees of HuggingFaceSource.                            *)
LEMMA HFSeen ==
  ASSUME HFInv, HFInv', which = "HF", which' = which
  PROVE  /\ Phase = HF!Phase /\ Yielding = HF!Yielding /\ Stopped = HF!Stopped /\ Failed = failed
         /\ Phase' = HF!Phase' /\ Yielding' = HF!Yielding' /\ Stopped' = HF!Stopped' /\ Failed' = failed'
         /\ Stopped \in BOOLEAN /\ Stopped' \in BOOLEAN /\ Failed \in BOOLEAN /\ Failed' \in BOOLEAN
<1>1. Phase = HF!Phase /\ Yielding = HF!Yielding /\ Phase' = HF!Phase' /\ Yielding' = HF!Yielding'
  BY DEF Phase, Yielding, Choose
<1>2. Stopped = HF!Stopped /\ Failed = failed
  BY DEF Stopped, Failed, Choose
<1>3. Stopped' = HF!Stopped' /\ Failed' = failed'
  BY DEF Stopped, Failed, Choose
<1>4. failed \in BOOLEAN /\ failed' \in BOOLEAN
  BY DEF HFInv, HFTypes
<1>5. HF!Stopped \in BOOLEAN /\ HF!Stopped' \in BOOLEAN
  BY DEF HF!Stopped
<1>6. QED
  BY <1>1, <1>2, <1>3, <1>4, <1>5

(* An object that goes to a state outside yield is not yielded any more.   *)
LEMMA HFObjectLeaves ==
  ASSUME HFInv, NEW o, NEW s \in {"skipped", "queued", "fetching", "scanned", "stopped"},
         obj' = [obj EXCEPT ![o] = s]
  PROVE  IF o \in Objects THEN HF!Yielding' = HF!Yielding \ {o} ELSE HF!Yielding' = HF!Yielding
<1>1. CASE o \in Objects
  <2>1. obj'[o] = s /\ \A x \in Objects \ {o} : obj'[x] = obj[x]
    BY <1>1 DEF HFInv, HFTypes
  <2>2. QED
    BY <1>1, <2>1 DEF HF!Yielding
<1>2. CASE o \notin Objects
  <2>1. \A x \in Objects : obj'[x] = obj[x]
    BY <1>2 DEF HFInv, HFTypes
  <2>2. QED
    BY <1>2, <2>1 DEF HF!Yielding
<1>3. QED
  BY <1>1, <1>2

(* The bucket half of Hugging Face is a source: when a request has failed  *)
(* it returns an error, and one that says "stopped" only when it was.      *)
LEMMA HFImplements ==
  ASSUME HFInv, HFInv', HF!Next, which = "HF", which' = which
  PROVE  [Source!Next]_(Source!vars)
<1>0. Objects \subseteq Inputs /\ failed \in BOOLEAN /\ failed' \in BOOLEAN
  BY InputsAreAll DEF HFInv, HFTypes
<1>1. ASSUME UNCHANGED <<HF!Phase, HF!Yielding, verdict>>, HF!Stopped => HF!Stopped', failed => failed'
      PROVE  [Source!Next]_(Source!vars)
  BY <1>1, HFSeen, QuietStep
<1>2. ASSUME UNCHANGED <<HF!Phase, verdict, ctxDone>>, failed => failed', NEW o \in Objects,
             failed' = failed \/ o \notin HF!Yielding, HF!Yielding' = HF!Yielding \ {o}
      PROVE  [Source!Next]_(Source!vars)
  <2>1. CASE failed' = failed
    <3>1. HF!Stopped' = HF!Stopped
      BY <1>2, <2>1 DEF HF!Stopped
    <3>2. QED
      BY <1>0, <1>2, <2>1, <3>1, HFSeen, AnswerStep
  <2>2. CASE o \notin HF!Yielding
    BY <1>1, <1>2, <2>2 DEF HF!Stopped
  <2>3. QED
    BY <1>2, <2>1, <2>2
<1>3. CASE HF!Cancel \/ HF!Finished \/ HF!EnumStep \/ HF!EnumerationKnown
  <2>1. /\ UNCHANGED <<obj, verdict>> /\ (ctxDone => ctxDone') /\ (failed => failed')
        /\ main' = "returned" <=> main = "returned"
    <3>1. CASE HF!Cancel \/ HF!Finished
      BY <3>1 DEF HF!Cancel, HF!Finished, HF!vars, HF!group
    <3>2. CASE HF!EnumStep \/ HF!EnumerationKnown
      BY <1>0, <3>2 DEF HF!EnumStep, HF!SendBucket, HF!EnumerationFails, HF!EnumerationEnds, HF!CloseBuckets, HF!Fails,
         HF!EnumerationKnown, HF!group
    <3>3. QED
      BY <1>3, <3>1, <3>2
  <2>2. QED
    BY <1>1, <2>1 DEF HF!Phase, HF!Yielding, HF!Stopped
<1>4. CASE HF!Return
  <2>1. /\ UNCHANGED <<obj, ctxDone, failed, cause>> /\ main = "scans" /\ main' = "returned" /\ at = "done"
        /\ verdict' = IF cause # "none" THEN {cause} ELSE firstErr
    BY <1>4 DEF HF!Return, HF!group
  <2>2. HF!Phase = "running" /\ HF!Phase' = "returned" /\ HF!Yielding = {} /\ HF!Yielding' = {} /\ HF!Stopped' = HF!Stopped
    BY <2>1 DEF HF!Phase, HF!Yielding, HF!Stopped, HFInv, HF!Running
  <2>3. /\ verdict' \subseteq Errors /\ (failed => verdict' # {}) /\ (verdict' # {} => HF!Stopped)
    BY <2>1 DEF HFInv, HFTypes, HFErrors, HFFailure, HFCause
  <2>4. QED
    BY <2>1, <2>2, <2>3, HFSeen, ReturnStep
<1>5. CASE HF!ScanStep
  <2>1. /\ UNCHANGED <<main, ctxDone, verdict>> /\ (failed => failed')
        /\ obj' = obj \/ failed' = failed
        /\ obj' = obj \/ \E s \in {"skipped", "queued"} : obj' = [obj EXCEPT ![HF!Considered] = s]
    BY <1>0, <1>5 DEF HF!ScanStep, HF!ReceiveBucket, HF!NoMoreBuckets, HF!ListPage, HF!ListFails, HF!ConsiderEntry,
       HF!Submit, HF!EndPage, HF!EndBucket, HF!group, HF!enumerator
  <2>2. UNCHANGED HF!Phase /\ (HF!Stopped => HF!Stopped')
    BY <2>1 DEF HF!Phase, HF!Stopped
  <2>3. CASE obj' = obj
    BY <1>1, <2>1, <2>2, <2>3 DEF HF!Yielding
  <2>4. ASSUME failed' = failed, NEW s \in {"skipped", "queued"}, obj' = [obj EXCEPT ![HF!Considered] = s]
        PROVE  [Source!Next]_(Source!vars)
    <3>1. IF HF!Considered \in Objects THEN HF!Yielding' = HF!Yielding \ {HF!Considered} ELSE HF!Yielding' = HF!Yielding
      BY <2>4, HFObjectLeaves
    <3>2. QED
      BY <1>1, <1>2, <2>1, <2>2, <2>4, <3>1
  <2>5. QED
    BY <2>1, <2>3, <2>4
<1>6. ASSUME NEW o \in Objects, HF!TaskStep(o)
      PROVE  [Source!Next]_(Source!vars)
  <2>1. /\ UNCHANGED <<main, ctxDone, verdict>> /\ (failed => failed')
        /\ obj[o] \in {"queued", "fetching", "yielding"} /\ (failed' = failed \/ o \notin HF!Yielding)
    BY <1>0, <1>6 DEF HF!Yielding, HF!TaskStep, HF!StartTask, HF!FetchFails, HF!CallYield, HF!YieldAccepts, HF!YieldRefuses
  <2>2. UNCHANGED HF!Phase
    BY <2>1 DEF HF!Phase
  <2>3. CASE obj' = [obj EXCEPT ![o] = "yielding"] /\ failed' = failed
    <3>1. HF!Yielding' = HF!Yielding \cup {o}
      <4>1. obj'[o] = "yielding" /\ \A x \in Objects \ {o} : obj'[x] = obj[x]
        BY <2>3 DEF HFInv, HFTypes
      <4>2. QED
        BY <4>1 DEF HF!Yielding
    <3>2. main # "returned"
      BY <2>1 DEF HFInv, HF!Running
    <3>3. HF!Phase = "running" /\ HF!Stopped' = HF!Stopped
      BY <2>1, <2>3, <3>2 DEF HF!Phase, HF!Stopped
    <3>4. QED
      BY <1>0, <2>1, <2>2, <2>3, <3>1, <3>3, HFSeen, CallStep
  <2>4. CASE \E s \in {"fetching", "scanned", "stopped"} : obj' = [obj EXCEPT ![o] = s]
    <3>1. HF!Yielding' = HF!Yielding \ {o}
      BY <2>4, HFObjectLeaves
    <3>2. QED
      BY <1>2, <2>1, <2>2, <3>1
  <2>5. QED
    BY <1>6, <2>3, <2>4 DEF HF!TaskStep, HF!StartTask, HF!FetchFails, HF!CallYield, HF!YieldAccepts, HF!YieldRefuses,
       HF!TaskFails
<1>7. QED
  BY <1>3, <1>4, <1>5, <1>6 DEF HF!Next, HF!Progress, HF!MainStep

-----------------------------------------------------------------------------
(* What the contract sees of GitSource.                                    *)
LEMMA GitSeen ==
  ASSUME GitInv, GitInv', which = "git", which' = which
  PROVE  /\ Phase = Git!Phase /\ Yielding = Git!Yielding /\ Stopped = Git!Stopped /\ Failed = Git!Failed
         /\ Phase' = Git!Phase' /\ Yielding' = Git!Yielding' /\ Stopped' = Git!Stopped' /\ Failed' = Git!Failed'
         /\ Stopped \in BOOLEAN /\ Stopped' \in BOOLEAN /\ Failed \in BOOLEAN /\ Failed' \in BOOLEAN
<1>1. Phase = Git!Phase /\ Yielding = Git!Yielding /\ Phase' = Git!Phase' /\ Yielding' = Git!Yielding'
  BY DEF Phase, Yielding, Choose
<1>2. Stopped = Git!Stopped /\ Failed = Git!Failed
  BY DEF Stopped, Failed, Choose
<1>3. Stopped' = Git!Stopped' /\ Failed' = Git!Failed'
  BY DEF Stopped, Failed, Choose
<1>4. Git!Failed \in BOOLEAN /\ Git!Failed' \in BOOLEAN
  BY DEF Git!Failed
<1>5. Git!Stopped \in BOOLEAN /\ Git!Stopped' \in BOOLEAN
  BY DEF Git!Stopped
<1>6. QED
  BY <1>1, <1>2, <1>3, <1>4, <1>5

(* A record that git prints is one of the inputs.                          *)
LEMMA GitYields ==
  ASSUME NEW x \in GitLines, x.kind # "warning"
  PROVE  x.in \in Inputs
<1>1. PICK t \in DOMAIN Repositories, q \in Git!Readers, s \in Git!Stages :
        x \in Git!ToSet(Git!Prints(Repositories[t], q, s))
  BY DEF GitLines
<1> DEFINE prints == Git!Prints(Repositories[t], q, s)
<1>2. \A k \in DOMAIN prints : prints[k].kind = "warning" \/ prints[k].in \in Inputs
  BY InputsAreAll
<1> HIDE DEF prints
<1>3. x \in Git!ToSet(prints)
  BY <1>1 DEF prints
<1>4. QED
  BY <1>2, <1>3 DEF Git!ToSet

(* What one reader begins or ends to yield.                                *)
LEMMA GitYielding ==
  ASSUME GitInv, NEW p \in Git!Readers,
         \A q \in Git!Readers \ {p} : at'[q] = at[q] /\ cur'[q] = cur[q]
  PROVE  /\ at[p] # "yield" /\ at'[p] # "yield" => Git!Yielding' = Git!Yielding
         /\ at'[p] = at[p] /\ cur'[p] = cur[p] => Git!Yielding' = Git!Yielding
         /\ at[p] # "yield" /\ at'[p] = "yield" => Git!Yielding' = Git!Yielding \cup {Head(cur'[p]).in}
         /\ at[p] = "yield" /\ at'[p] # "yield" =>
              Git!Yielding' = Git!Yielding \/ Git!Yielding' = Git!Yielding \ {Head(cur[p]).in}
<1>1. Git!Yielding = {Head(cur[q]).in : q \in {r \in Git!Readers : at[r] = "yield"}}
  BY DEF Git!Yielding
<1>2. Git!Yielding' = {Head(cur'[q]).in : q \in {r \in Git!Readers : at'[r] = "yield"}}
  BY DEF Git!Yielding
<1>3. QED
  BY <1>1, <1>2

(* When reader p is not done, Fragments has not returned.                  *)
LEMMA GitReaderImplements ==
  ASSUME GitInv, GitInv', NEW p \in Git!Readers, Git!ReaderStep(p), which = "git", which' = which
  PROVE  [Source!Next]_(Source!vars)
<1>0. GitTypes /\ GitTypes'
  BY DEF GitInv
<1>1. /\ UNCHANGED <<phase, verdict, ctxDone>> /\ (refused => refused')
      /\ \A q \in Git!Readers : errs[q] \subseteq errs'[q]
      /\ \A q \in Git!Readers \ {p} : at'[q] = at[q] /\ cur'[q] = cur[q]
      /\ \/ at[p] # "yield" /\ at'[p] # "yield"
         \/ at'[p] = at[p] /\ cur'[p] = cur[p]
         \/ at[p] \in {"read", "blob"} /\ at'[p] = "yield" /\ UNCHANGED <<errs, refused>>
         \/ at[p] = "yield" /\ at'[p] # "yield"
            /\ \A q \in Git!Readers : "fail" \in errs'[q] <=> "fail" \in errs[q]
  <2>1. CASE \/ Git!GitWrites(p) \/ Git!GitBreaksOff(p) \/ Git!GitEnds(p) \/ Git!Listen(p) \/ Git!ListenEnds(p)
    BY <2>1 DEF Git!GitWrites, Git!GitBreaksOff, Git!GitEnds, Git!Listen, Git!ListenEnds
  <2>2. /\ UNCHANGED <<phase, verdict, ctxDone>> /\ (refused => refused')
        /\ at' = at \/ \E a : at' = [at EXCEPT ![p] = a]
        /\ cur' = cur \/ \E c : cur' = [cur EXCEPT ![p] = c]
    <3>1. CASE Git!Start(p) \/ Git!ReadEnd(p) \/ Git!Kill(p) \/ Git!Drain(p)
      BY <3>1 DEF Git!Start, Git!ReadEnd, Git!Kill, Git!Drain, Git!Fails
    <3>2. CASE Git!ReadRecord(p) \/ Git!OpenBlob(p) \/ Git!YieldAccepts(p) \/ Git!YieldRefuses(p) \/ Git!WaitProcess(p)
      BY <3>2 DEF Git!ReadRecord, Git!OpenBlob, Git!YieldAccepts, Git!YieldRefuses, Git!WaitProcess, Git!Fails
    <3>3. CASE Git!GitWrites(p) \/ Git!GitBreaksOff(p) \/ Git!GitEnds(p) \/ Git!Listen(p) \/ Git!ListenEnds(p)
      BY <3>3 DEF Git!GitWrites, Git!GitBreaksOff, Git!GitEnds, Git!Listen, Git!ListenEnds
    <3>4. QED
      BY <3>1, <3>2, <3>3 DEF Git!ReaderStep
  <2>3. \A q \in Git!Readers \ {p} : at'[q] = at[q] /\ cur'[q] = cur[q]
    BY <1>0, <2>2 DEF GitTypes
  <2>4. errs' = errs \/ \E e : errs' = [errs EXCEPT ![p] = errs[p] \cup e]
    <3>1. CASE Git!Start(p) \/ Git!ReadEnd(p) \/ Git!Kill(p) \/ Git!Drain(p)
      BY <3>1 DEF Git!Start, Git!ReadEnd, Git!Kill, Git!Drain, Git!Fails
    <3>2. CASE Git!ReadRecord(p) \/ Git!OpenBlob(p) \/ Git!YieldAccepts(p) \/ Git!YieldRefuses(p)
      BY <3>2 DEF Git!ReadRecord, Git!OpenBlob, Git!YieldAccepts, Git!YieldRefuses, Git!Fails
    <3>3. CASE Git!WaitProcess(p)
      <4>1. \/ errs' = [errs EXCEPT ![p] = errs[p] \cup Git!WaitError(p)]
            \/ errs[p] = {} /\ errs' = [errs EXCEPT ![p] = Git!WaitError(p)]
            \/ errs' = [errs EXCEPT ![p] = errs[p]]
        BY <3>3 DEF Git!WaitProcess
      <4>2. errs[p] = {} => Git!WaitError(p) = errs[p] \cup Git!WaitError(p)
        OBVIOUS
      <4>3. errs[p] = errs[p] \cup {}
        OBVIOUS
      <4>4. QED
        BY <4>1, <4>2, <4>3
    <3>4. QED
      BY <2>1, <3>1, <3>2, <3>3 DEF Git!ReaderStep, Git!GitWrites, Git!GitBreaksOff, Git!GitEnds, Git!Listen,
         Git!ListenEnds
  <2>5. \A q \in Git!Readers : errs[q] \subseteq errs'[q]
    BY <1>0, <2>4 DEF GitTypes
  <2>6. CASE Git!Start(p) \/ Git!ReadEnd(p) \/ Git!Kill(p) \/ Git!Drain(p) \/ Git!WaitProcess(p)
    <3>1. at[p] # "yield" /\ (at' = at \/ \E a : at' = [at EXCEPT ![p] = a] /\ a # "yield")
      BY <2>6 DEF Git!Start, Git!ReadEnd, Git!Kill, Git!Drain, Git!WaitProcess, Git!Fails
    <3>2. at[p] # "yield" /\ at'[p] # "yield"
      BY <1>0, <3>1 DEF GitTypes
    <3>3. QED
      BY <2>2, <2>3, <2>5, <3>2
  <2>7. CASE Git!ReadRecord(p) \/ Git!OpenBlob(p)
    <3>1. /\ at[p] \in {"read", "blob"}
          /\ \/ UNCHANGED <<errs, refused>>
             \/ \E a : at' = [at EXCEPT ![p] = a] /\ a # "yield"
      BY <2>7 DEF Git!ReadRecord, Git!OpenBlob, Git!Fails
    <3>2. CASE at'[p] = "yield"
      <4>1. UNCHANGED <<errs, refused>>
        BY <1>0, <3>1, <3>2 DEF GitTypes
      <4>2. QED
        BY <2>2, <2>3, <2>5, <3>1, <3>2, <4>1
    <3>3. CASE at'[p] # "yield"
      BY <2>2, <2>3, <2>5, <3>1, <3>3
    <3>4. QED
      BY <3>2, <3>3
  <2>8. CASE Git!YieldAccepts(p) \/ Git!YieldRefuses(p)
    <3>1. /\ at[p] = "yield" /\ \E a \in {"read", "kill"} : at' = [at EXCEPT ![p] = a]
          /\ errs' = errs \/ errs' = [errs EXCEPT ![p] = @ \cup {"refused"}]
      BY <2>8 DEF Git!YieldAccepts, Git!YieldRefuses, Git!Fails
    <3>2. at'[p] # "yield"
      BY <1>0, <3>1 DEF GitTypes
    <3>3. \A q \in Git!Readers : "fail" \in errs'[q] <=> "fail" \in errs[q]
      <4>1. errs'[p] \in {errs[p], errs[p] \cup {"refused"}} /\ \A q \in Git!Readers \ {p} : errs'[q] = errs[q]
        BY <1>0, <3>1 DEF GitTypes
      <4>2. QED
        BY <4>1
    <3>4. QED
      BY <2>2, <2>3, <2>5, <3>1, <3>2, <3>3
  <2>9. QED
    BY <2>1, <2>2, <2>3, <2>5, <2>6, <2>7, <2>8 DEF Git!ReaderStep, Git!GitWrites, Git!GitBreaksOff, Git!GitEnds,
       Git!Listen, Git!ListenEnds
<1>2. /\ at[p] = "yield" => Head(cur[p]).in \in Inputs
      /\ at'[p] = "yield" => Head(cur'[p]).in \in Inputs
  <2>1. /\ at[p] = "yield" => cur[p] \in Seq(GitLines) /\ cur[p] # <<>> /\ Head(cur[p]).kind # "warning"
        /\ at'[p] = "yield" => cur'[p] \in Seq(GitLines) /\ cur'[p] # <<>> /\ Head(cur'[p]).kind # "warning"
    BY DEF GitInv, GitTypes, GitReader, GitProcess
  <2>2. (at[p] = "yield" => Head(cur[p]) \in GitLines) /\ (at'[p] = "yield" => Head(cur'[p]) \in GitLines)
    BY <2>1
  <2>3. QED
    BY <2>1, <2>2, GitYields
<1>3. UNCHANGED Git!Phase /\ (Git!Stopped => Git!Stopped') /\ (Git!Failed => Git!Failed')
  BY <1>1 DEF Git!Phase, Git!Stopped, Git!Failed
<1>4. CASE (at[p] # "yield" /\ at'[p] # "yield") \/ (at'[p] = at[p] /\ cur'[p] = cur[p])
  <2>1. Git!Yielding' = Git!Yielding
    BY <1>1, <1>4, GitYielding
  <2>2. QED
    BY <1>1, <1>3, <2>1, GitSeen, QuietStep
<1>5. CASE at[p] \in {"read", "blob"} /\ at'[p] = "yield" /\ UNCHANGED <<errs, refused>>
  <2>1. Git!Yielding' = Git!Yielding \cup {Head(cur'[p]).in}
    BY <1>1, <1>5, GitYielding
  <2>2. Head(cur'[p]).in \in Inputs
    BY <1>2, <1>5
  <2>3. Git!Phase = "running"
    BY <1>5 DEF GitInv, GitPhases, Git!Phase, Git!Readers
  <2>4. Git!Failed' = Git!Failed /\ Git!Stopped' = Git!Stopped
    BY <1>1, <1>5 DEF Git!Failed, Git!Stopped
  <2>5. QED
    BY <1>1, <1>3, <2>1, <2>2, <2>3, <2>4, GitSeen, CallStep
<1>6. CASE /\ at[p] = "yield" /\ at'[p] # "yield"
           /\ \A q \in Git!Readers : "fail" \in errs'[q] <=> "fail" \in errs[q]
  <2>1. Git!Yielding' = Git!Yielding \/ Git!Yielding' = Git!Yielding \ {Head(cur[p]).in}
    BY <1>1, <1>6, GitYielding
  <2>2. Git!Failed' = Git!Failed
    BY <1>6 DEF Git!Failed
  <2>3. Head(cur[p]).in \in Inputs
    BY <1>2, <1>6
  <2>4. QED
    BY <1>1, <1>3, <2>1, <2>2, <2>3, GitSeen, AnswerStep
<1>7. QED
  BY <1>1, <1>4, <1>5, <1>6

(* Local repositories are a source: what a reader has failed with reaches  *)
(* what Fragments returns, through the group or directly.                  *)
LEMMA GitImplements ==
  ASSUME GitInv, GitInv', Git!Next, which = "git", which' = which
  PROVE  [Source!Next]_(Source!vars)
<1>0. GitTypes /\ GitPhases /\ GitGroup /\ \A p \in Git!Readers : GitErrors(p)
  BY DEF GitInv, GitReader
<1>a. "main" \in Git!Readers /\ Workers \subseteq Git!Readers /\ \A p \in Git!Readers : p = "main" \/ p \in Workers
  BY DEF Git!Readers
<1>1. ASSUME UNCHANGED <<Git!Phase, Git!Yielding, verdict, errs>>, Git!Stopped => Git!Stopped'
      PROVE  [Source!Next]_(Source!vars)
  <2>1. Git!Failed' = Git!Failed
    BY <1>1 DEF Git!Failed
  <2>2. QED
    BY <1>1, <2>1, GitSeen, QuietStep
<1>2. ASSUME phase # "returned", NEW errors \in SUBSET Errors, Git!Return(errors), UNCHANGED <<at, errs, ctxDone, refused>>,
             \A p \in Git!Readers : at[p] # "yield", Git!Failed => errors # {},
             "refused" \in errors => refused, "canceled" \in errors => ctxDone
      PROVE  [Source!Next]_(Source!vars)
  <2>1. Git!Phase = "running" /\ Git!Phase' = "returned" /\ verdict' = errors
    BY <1>2 DEF Git!Phase, Git!Return
  <2>2. Git!Yielding = {} /\ Git!Yielding' = {}
    BY <1>2 DEF Git!Yielding
  <2>3. Git!Failed' = Git!Failed /\ Git!Stopped' = Git!Stopped
    BY <1>2 DEF Git!Failed, Git!Stopped
  <2>4. verdict' \cap {"refused", "canceled"} # {} => Git!Stopped
    BY <1>2, <2>1 DEF Git!Stopped
  <2>5. QED
    BY <1>2, <2>1, <2>2, <2>3, <2>4, GitSeen, ReturnStep
<1>3. CASE Git!Cancel \/ Git!Finished
  <2>1. UNCHANGED <<phase, at, cur, errs, refused, verdict>> /\ (ctxDone => ctxDone')
    BY <1>3 DEF Git!Cancel, Git!Finished, Git!vars, Git!reader
  <2>2. QED
    BY <1>1, <2>1 DEF Git!Phase, Git!Yielding, Git!Stopped
<1>4. ASSUME NEW p \in Workers, Git!WorkerReturns(p)
      PROVE  [Source!Next]_(Source!vars)
  <2>1. /\ UNCHANGED <<phase, cur, errs, ctxDone, refused, verdict>> /\ at[p] = "ended"
        /\ at' = [at EXCEPT ![p] = "returned"]
    BY <1>4 DEF Git!WorkerReturns
  <2>2. Git!Yielding' = Git!Yielding
    <3>1. \A q \in Git!Readers : at'[q] = "yield" <=> at[q] = "yield"
      BY <1>0, <2>1 DEF GitTypes
    <3>2. QED
      BY <2>1, <3>1 DEF Git!Yielding
  <2>3. QED
    BY <1>1, <2>1, <2>2 DEF Git!Phase, Git!Stopped
<1>5. CASE Git!Begin
  <2>1. /\ UNCHANGED <<cur, errs, ctxDone, refused>> /\ phase = "begin" /\ \A p \in Git!Readers : at[p] = "idle"
    BY <1>0, <1>5 DEF Git!Begin, GitPhases
  <2>2. \A p \in Git!Readers : errs[p] = {}
    BY <1>0, <2>1 DEF GitErrors
  <2>3. CASE phase' # "returned" /\ verdict' = verdict /\ \A p \in Git!Readers : at'[p] # "yield"
    <3>1. Git!Yielding = {} /\ Git!Yielding' = {}
      BY <2>1, <2>3 DEF Git!Yielding
    <3>2. QED
      BY <1>1, <2>1, <2>3, <3>1 DEF Git!Phase, Git!Stopped
  <2>4. ASSUME at' = at, NEW e \in {"fail", "canceled"}, Git!Return({e}), e = "canceled" => ctxDone
        PROVE  [Source!Next]_(Source!vars)
    BY <1>2, <2>1, <2>4 DEF Errors
  <2>5. \/ phase' # "returned" /\ verdict' = verdict /\ \A p \in Git!Readers : at'[p] # "yield"
        \/ at' = at /\ \E e \in {"fail", "canceled"} : Git!Return({e}) /\ (e = "canceled" => ctxDone)
    BY <1>0, <1>5, <2>1 DEF Git!Begin, GitTypes
  <2>6. QED
    BY <2>3, <2>4, <2>5
<1>6. CASE Git!Join
  <2>1. /\ UNCHANGED <<cur, errs, ctxDone, refused>> /\ phase = "workers"
        /\ \A p \in Workers : at[p] \in {"idle", "returned"}
        /\ at["main"] = "idle"
    BY <1>0, <1>6 DEF Git!Join, GitPhases
  <2>2. \A p \in Git!Readers : errs[p] = {} \/ groupErr # {}
    BY <1>0, <1>a, <2>1 DEF GitErrors
  <2>3. CASE phase' = "reading" /\ at' = [at EXCEPT !["main"] = "start"] /\ verdict' = verdict
    <3>1. \A p \in Git!Readers : at[p] # "yield" /\ at'[p] # "yield"
      BY <1>0, <1>a, <2>1, <2>3 DEF GitTypes
    <3>2. Git!Yielding = {} /\ Git!Yielding' = {}
      BY <3>1 DEF Git!Yielding
    <3>3. QED
      BY <1>1, <2>1, <2>3, <3>2 DEF Git!Phase, Git!Stopped
  <2>4. CASE Git!Return(groupErr) /\ at' = at
    <3>1. \A p \in Git!Readers : at[p] # "yield"
      BY <1>a, <2>1
    <3>2. Git!Failed => groupErr # {}
      BY <2>2 DEF Git!Failed
    <3>3. groupErr \in SUBSET Errors /\ ("refused" \in groupErr => refused) /\ ("canceled" \in groupErr => ctxDone)
      BY <1>0 DEF GitTypes, GitGroup
    <3>4. QED
      BY <1>2, <2>1, <2>4, <3>1, <3>2, <3>3
  <2>5. QED
    BY <1>6, <2>3, <2>4 DEF Git!Join
<1>7. CASE Git!Finish
  <2>1. /\ UNCHANGED <<at, errs, ctxDone, refused>> /\ phase = "reading" /\ at["main"] = "ended"
        /\ Git!Return(errs["main"]) /\ groupErr = {}
        /\ \A p \in Workers : at[p] \in {"idle", "returned"}
    BY <1>0, <1>7 DEF Git!Finish, Git!reader, GitPhases
  <2>2. \A p \in Git!Readers : at[p] # "yield"
    BY <1>a, <2>1
  <2>3. Git!Failed => errs["main"] # {}
    <3>1. \A p \in Workers : errs[p] = {}
      BY <1>0, <1>a, <2>1 DEF GitErrors
    <3>2. QED
      BY <1>a, <3>1 DEF Git!Failed
  <2>4. /\ errs["main"] \in SUBSET Errors /\ ("refused" \in errs["main"] => refused)
        /\ ("canceled" \in errs["main"] => ctxDone)
    BY <1>0, <1>a DEF GitTypes, GitErrors, Git!Done
  <2>5. QED
    BY <1>2, <2>1, <2>2, <2>3, <2>4
<1>8. ASSUME NEW p \in Git!Readers, Git!ReaderStep(p)
      PROVE  [Source!Next]_(Source!vars)
  BY <1>8, GitReaderImplements
<1>9. QED
  BY <1>3, <1>4, <1>5, <1>6, <1>7, <1>8 DEF Git!Next, Git!Progress, Git!Control

(* What the contract sees of SourceScan.                                   *)
LEMMA HostSeen ==
  ASSUME which = "hosts", which' = which
  PROVE  /\ Phase = Hosts!Phase /\ Yielding = Hosts!Yielding /\ Stopped = Hosts!Stopped /\ Failed = Hosts!Failed
         /\ Phase' = Hosts!Phase' /\ Yielding' = Hosts!Yielding' /\ Stopped' = Hosts!Stopped' /\ Failed' = Hosts!Failed'
         /\ Stopped \in BOOLEAN /\ Stopped' \in BOOLEAN /\ Failed \in BOOLEAN /\ Failed' \in BOOLEAN
<1>1. Phase = Hosts!Phase /\ Yielding = Hosts!Yielding /\ Phase' = Hosts!Phase' /\ Yielding' = Hosts!Yielding'
  BY DEF Phase, Yielding, Choose
<1>2. Stopped = Hosts!Stopped /\ Failed = Hosts!Failed
  BY DEF Stopped, Failed, Choose
<1>3. Stopped' = Hosts!Stopped' /\ Failed' = Hosts!Failed'
  BY DEF Stopped, Failed, Choose
<1>4. Hosts!Failed \in BOOLEAN /\ Hosts!Failed' \in BOOLEAN
  BY DEF Hosts!Failed
<1>5. Hosts!Stopped \in BOOLEAN /\ Hosts!Stopped' \in BOOLEAN
  BY DEF Hosts!Stopped
<1>6. QED
  BY <1>1, <1>2, <1>3, <1>4, <1>5

(* What one goroutine begins or ends to yield.                             *)
HostYields(p) == state[p] = "yielding" /\ Head(todo[p]).op = "yield"

(* When goroutine p alone moves, what is yielded changes by p's input.     *)
LEMMA HostYielding ==
  ASSUME NEW p \in Hosts!Procs, \A q \in Hosts!Procs : q # p => todo'[q] = todo[q] /\ state'[q] = state[q]
  PROVE  /\ ~HostYields(p) /\ ~HostYields(p)' => Hosts!Yielding' = Hosts!Yielding
         /\ ~HostYields(p) /\ HostYields(p)' => Hosts!Yielding' = Hosts!Yielding \cup {Head(todo'[p]).in}
         /\ HostYields(p) /\ ~HostYields(p)' =>
              Hosts!Yielding' = Hosts!Yielding \/ Hosts!Yielding' = Hosts!Yielding \ {Head(todo[p]).in}
<1>1. Hosts!Yielding = {Head(todo[q]).in : q \in {r \in Hosts!Procs : HostYields(r)}}
  BY DEF Hosts!Yielding, Hosts!Yielders, HostYields
<1>2. Hosts!Yielding' = {Head(todo'[q]).in : q \in {r \in Hosts!Procs : HostYields(r)'}}
  BY DEF Hosts!Yielding, Hosts!Yielders, HostYields
<1>3. \A q \in Hosts!Procs : q # p => (HostYields(q)' <=> HostYields(q)) /\ Head(todo'[q]).in = Head(todo[q]).in
  BY DEF HostYields
<1>4. QED
  BY <1>1, <1>2, <1>3

(* A step of a goroutine: it calls yield, or the call returns, or else at  *)
(* most a failure is added.                                                *)
LEMMA HostMoveImplements ==
  ASSUME HostInv, HostInv', NEW p \in Hosts!Procs, target' = target,
         Hosts!ScriptStep(p) \/ (p = "enum" /\ Hosts!SendRepo) \/ (p = "list" /\ Hosts!SendItem),
         which = "hosts", which' = which
  PROVE  [Source!Next]_(Source!vars)
<1>0. /\ HostMoves(p) /\ HostTypes /\ HostPhases /\ HostWork(p)
      /\ HostScript(Hosts!Plan, todo[p]) /\ todo[p] # <<>> /\ state[p] \in {"busy", "yielding"}
      /\ \A q \in Hosts!Procs : q # p => todo'[q] = todo[q] /\ state'[q] = state[q]
  BY HostScriptMoves DEF HostInv, HostTypes, HostMoves
<1>1. HostStep(Hosts!Plan, Head(todo[p]))
  BY <1>0, ScriptParts
<1>2. UNCHANGED <<Hosts!Phase, verdict>> /\ (Hosts!Stopped => Hosts!Stopped')
  BY <1>0 DEF HostMoves, Hosts!Phase, Hosts!Stopped
<1>3. Hosts!Failed => Hosts!Failed'
  <2>1. \A q \in Hosts!Procs : err[q] = "fail" => err'[q] = "fail"
    BY <1>0 DEF HostMoves, HostKeeps, Hosts!First
  <2>2. QED
    BY <2>1 DEF Hosts!Failed
<1>4. CASE Hosts!CallYield(p) /\ Head(todo[p]).op = "yield"
  <2>1. /\ UNCHANGED <<todo, err, cause, refused>> /\ state[p] = "busy"
        /\ state' = [state EXCEPT ![p] = "yielding"]
    BY <1>4 DEF Hosts!CallYield, Hosts!NextIs
  <2>2. ~HostYields(p) /\ HostYields(p)'
    BY <1>0, <1>4, <2>1 DEF HostTypes, HostYields
  <2>3. Hosts!Yielding' = Hosts!Yielding \cup {Head(todo[p]).in} /\ Head(todo[p]).in \in Inputs
    BY <1>0, <1>1, <1>4, <2>1, <2>2, HostYielding DEF HostStep
  <2>4. Hosts!Phase = "running"
    BY <1>0, <2>1, HostSafe DEF Hosts!NothingLeftBehind, Hosts!Phase
  <2>5. Hosts!Failed' = Hosts!Failed /\ Hosts!Stopped' = Hosts!Stopped
    BY <2>1 DEF Hosts!Failed, Hosts!Stopped
  <2>6. QED
    BY <1>2, <2>3, <2>4, <2>5, HostSeen, CallStep
<1>5. CASE HostYields(p)
  <2>1. Hosts!YieldAccepts(p) \/ Hosts!YieldRefuses(p)
    BY <1>5, HostProcs DEF HostYields, Hosts!ScriptStep, Hosts!Request, Hosts!RequestFails, Hosts!Reject,
       Hosts!WithholdYield, Hosts!CallYield, Hosts!SendRepo, Hosts!SendItem, Hosts!NextIs
  <2>2. state' = [state EXCEPT ![p] = "busy"]
    BY <2>1 DEF Hosts!YieldAccepts, Hosts!YieldRefuses
  <2>3. ~HostYields(p)'
    BY <1>0, <2>2 DEF HostTypes, HostYields
  <2>4. /\ Hosts!Yielding' = Hosts!Yielding \/ Hosts!Yielding' = Hosts!Yielding \ {Head(todo[p]).in}
        /\ Head(todo[p]).in \in Inputs
    BY <1>0, <1>1, <1>5, <2>3, HostYielding DEF HostStep, HostYields
  <2>5. \A q \in Hosts!Procs : err'[q] = "fail" <=> err[q] = "fail"
    <3>1. CASE Hosts!YieldAccepts(p)
      BY <3>1 DEF Hosts!YieldAccepts
    <3>2. CASE Hosts!YieldRefuses(p)
      <4>1. Hosts!Handle(p, "refused") /\ "refused" \in Errors \cup {"gone"}
        BY <3>2 DEF Hosts!YieldRefuses, Errors
      <4>2. HostKeeps(p, "refused") \/ err' = err
        BY <1>0, <4>1, HostHandle
      <4>3. QED
        BY <4>2 DEF HostKeeps, Hosts!First
    <3>3. QED
      BY <2>1, <3>1, <3>2
  <2>6. Hosts!Failed' = Hosts!Failed
    BY <2>5 DEF Hosts!Failed
  <2>7. QED
    BY <1>2, <2>4, <2>6, HostSeen, AnswerStep
<1>6. CASE ~HostYields(p) /\ ~(Hosts!CallYield(p) /\ Head(todo[p]).op = "yield")
  <2>1. ~HostYields(p)'
    <3>1. CASE Hosts!CallYield(p)
      <4>1. todo' = todo
        BY <3>1 DEF Hosts!CallYield
      <4>2. QED
        BY <1>6, <3>1, <4>1 DEF HostYields
    <3>2. CASE ~Hosts!CallYield(p)
      <4>1. (state[p] = "busy" /\ state' = state) \/ state' = [state EXCEPT ![p] = "busy"]
        BY <3>2 DEF Hosts!ScriptStep, Hosts!Request, Hosts!RequestFails, Hosts!Reject, Hosts!WithholdYield,
           Hosts!YieldAccepts, Hosts!YieldRefuses, Hosts!SendRepo, Hosts!SendItem, Hosts!NextIs
      <4>2. state'[p] = "busy"
        BY <1>0, <4>1 DEF HostTypes
      <4>3. QED
        BY <4>2 DEF HostYields
    <3>3. QED
      BY <3>1, <3>2
  <2>2. Hosts!Yielding' = Hosts!Yielding
    BY <1>0, <1>6, <2>1, HostYielding
  <2>3. QED
    BY <1>2, <1>3, <2>2, HostSeen, QuietStep
<1>7. QED
  BY <1>4, <1>5, <1>6

(* A step that no call of yield begins or ends with.                       *)
LEMMA HostQuiet ==
  ASSUME which = "hosts", which' = which, verdict' = verdict, at # "returned", at' # "returned",
         \A q \in Hosts!Procs : /\ state'[q] = "yielding" <=> state[q] = "yielding"
                                /\ state[q] = "yielding" => todo'[q] = todo[q],
         cause # "none" => cause' # "none", refused' = refused, Hosts!Failed => Hosts!Failed'
  PROVE  [Source!Next]_(Source!vars)
<1>1. Hosts!Phase' = Hosts!Phase /\ (Hosts!Stopped => Hosts!Stopped')
  BY DEF Hosts!Phase, Hosts!Stopped
<1>2. Hosts!Yielding' = Hosts!Yielding
  <2>1. Hosts!Yielding = {Head(todo[q]).in : q \in {r \in Hosts!Procs : HostYields(r)}}
    BY DEF Hosts!Yielding, Hosts!Yielders, HostYields
  <2>2. Hosts!Yielding' = {Head(todo'[q]).in : q \in {r \in Hosts!Procs : HostYields(r)'}}
    BY DEF Hosts!Yielding, Hosts!Yielders, HostYields
  <2>3. \A q \in Hosts!Procs : /\ HostYields(q)' <=> HostYields(q)
                               /\ HostYields(q) => Head(todo'[q]).in = Head(todo[q]).in
    BY DEF HostYields
  <2>4. QED
    BY <2>1, <2>2, <2>3
<1>3. QED
  BY <1>1, <1>2, HostSeen, QuietStep

(* Fragments returns when nobody yields, with an error if there is one.    *)
LEMMA HostReturns ==
  ASSUME HostInv, HostInv', which = "hosts", which' = which, at # "returned", at' = "returned",
         UNCHANGED <<state, todo, err, cause, refused>>,
         state["main"] # "yielding", \A q \in {"enum", "scan"} : state[q] \in {"idle", "done"}, state["list"] = "idle",
         err["main"] = "fail" \/ err["enum"] = "fail" \/ err["scan"] = "fail" => verdict' # {},
         verdict' \cap {"refused", "canceled"} # {} => cause # "none" \/ refused # {}
  PROVE  [Source!Next]_(Source!vars)
<1>1. Hosts!Phase = "running" /\ Hosts!Phase' = "returned" /\ UNCHANGED <<Hosts!Stopped, Hosts!Failed, Hosts!Yielding>>
  BY DEF Hosts!Phase, Hosts!Stopped, Hosts!Failed, Hosts!Yielding, Hosts!Yielders
<1>2. \A q \in Hosts!Group : state[q] = "idle" /\ err[q] = "none"
  BY DEF HostInv, HostGroup
<1>3. Hosts!Yielding = {}
  <2>1. \A q \in Hosts!Procs : state[q] # "yielding"
    BY <1>2, HostProcs
  <2>2. QED
    BY <2>1 DEF Hosts!Yielding, Hosts!Yielders
<1>4. Hosts!Failed => verdict' # {}
  BY <1>2, HostProcs DEF Hosts!Failed
<1>5. verdict' \subseteq Errors /\ (verdict' \cap {"refused", "canceled"} # {} => Hosts!Stopped)
  BY DEF HostInv, HostTypes, Hosts!Stopped
<1>6. QED
  BY <1>1, <1>3, <1>4, <1>5, HostSeen, ReturnStep

(* GitHub, GitLab, Hugging Face repositories, files and containers are     *)
(* sources: the first error of a group, a listing or a repository reaches  *)
(* what Fragments returns.                                                 *)
LEMMA HostImplements ==
  ASSUME HostInv, HostInv', Hosts!Next, which = "hosts", which' = which
  PROVE  [Source!Next]_(Source!vars)
<1>0. HostTypes /\ HostPhases /\ HostGroup /\ \A q \in Hosts!Procs : HostWork(q)
  BY DEF HostInv
<1> USE HostProcs
<1>1. CASE Hosts!Cancel
  <2>1. /\ UNCHANGED <<at, todo, state, err, refused, verdict>> /\ at # "returned" /\ cause' # "none"
    BY <1>1 DEF Hosts!Cancel, Hosts!goroutines
  <2>2. QED
    BY <2>1, HostQuiet DEF Hosts!Failed
<1>2. CASE Hosts!Finished
  <2>1. UNCHANGED <<at, todo, state, err, refused, cause, verdict>>
    BY <1>2 DEF Hosts!Finished, Hosts!vars, Hosts!goroutines
  <2>2. UNCHANGED <<Hosts!Phase, Hosts!Yielding, Hosts!Stopped, Hosts!Failed>>
    BY <2>1 DEF Hosts!Phase, Hosts!Yielding, Hosts!Yielders, Hosts!Stopped, Hosts!Failed
  <2>3. QED
    BY <2>1, <2>2, HostSeen, QuietStep
<1>3. CASE Hosts!Begin
  <2>1. /\ UNCHANGED <<err, refused, cause>> /\ at = "begin" /\ state["main"] = "idle" /\ state["list"] = "idle"
        /\ \A q \in {"enum", "scan"} : state[q] = "idle"
    BY <1>0, <1>3, HostIdle DEF Hosts!Begin, HostPhases
  <2>2. CASE at' = "returned" /\ verdict' = {"fail"} /\ UNCHANGED <<todo, state>>
    BY <2>1, <2>2, HostReturns
  <2>3. CASE /\ at' = "dispatch" /\ todo' = [todo EXCEPT !["main"] = Hosts!Plan.dispatch]
             /\ state' = [state EXCEPT !["main"] = "busy"] /\ UNCHANGED verdict
    <3>1. \A q \in Hosts!Procs : /\ state'[q] = "yielding" <=> state[q] = "yielding"
                                 /\ state[q] = "yielding" => todo'[q] = todo[q]
      BY <1>0, <2>1, <2>3 DEF HostTypes
    <3>2. QED
      BY <2>1, <2>3, <3>1, HostQuiet DEF Hosts!Failed
  <2>4. QED
    BY <1>3, <2>2, <2>3 DEF Hosts!Begin
<1>4. CASE Hosts!Dispatched \/ Hosts!StartEnumeration
  <2>1. /\ UNCHANGED <<err, refused, cause>> /\ at \in {"dispatch", "alone"}
        /\ state["main"] = "busy" /\ todo["main"] = <<>>
        /\ \A q \in {"enum", "scan"} : state[q] = "idle" /\ err[q] = "none"
    BY <1>0, <1>4 DEF Hosts!Dispatched, Hosts!StartEnumeration, Hosts!Ended, HostPhases
  <2>2. state["list"] = "idle"
    BY <2>1, HostIdle DEF HostOwner, Hosts!Ended
  <2>3. CASE Hosts!Return({err["main"]}) /\ UNCHANGED <<todo, state>>
    <3>1. /\ at' = "returned" /\ verdict' = (IF cause # "none" THEN {cause} ELSE {err["main"]}) \ {"none"}
          /\ HostWork("main")
      BY <1>0, <2>3 DEF Hosts!Return
    <3>2. verdict' \cap {"refused", "canceled"} # {} => cause # "none" \/ refused # {}
      BY <3>1 DEF HostWork
    <3>3. QED
      BY <2>1, <2>2, <2>3, <3>1, <3>2, HostReturns
  <2>4. CASE Hosts!Dispatched /\ err["main"] = "none"
    <3>1. at' = "alone" /\ todo' = [todo EXCEPT !["main"] = Hosts!Plan.main] /\ verdict' = verdict /\ state' = state
      BY <2>4 DEF Hosts!Dispatched
    <3>2. \A q \in Hosts!Procs : state[q] = "yielding" => todo'[q] = todo[q]
      BY <1>0, <2>1, <3>1 DEF HostTypes
    <3>3. QED
      BY <2>1, <3>1, <3>2, HostQuiet DEF Hosts!Failed
  <2>5. CASE Hosts!StartEnumeration /\ Hosts!Plan.enumerate /\ cause = "none"
    <3>1. /\ at' = "enumerating" /\ todo' = [todo EXCEPT !["enum"] = Hosts!Plan.listing] /\ verdict' = verdict
          /\ state' = [state EXCEPT !["main"] = "idle", !["enum"] = "busy", !["scan"] = "busy"]
      BY <2>5 DEF Hosts!StartEnumeration
    <3>2. \A q \in Hosts!Procs \ {"main", "enum", "scan"} : state'[q] = state[q] /\ todo'[q] = todo[q]
      BY <1>0, <3>1 DEF HostTypes
    <3>3. state'["main"] = "idle" /\ state'["enum"] = "busy" /\ state'["scan"] = "busy"
      BY <1>0, <3>1 DEF HostTypes
    <3>4. \A q \in Hosts!Procs : /\ state'[q] = "yielding" <=> state[q] = "yielding"
                                 /\ state[q] = "yielding" => todo'[q] = todo[q]
      BY <2>1, <3>2, <3>3
    <3>5. QED
      BY <2>1, <3>1, <3>4, HostQuiet DEF Hosts!Failed
  <2>6. QED
    BY <1>4, <2>3, <2>4, <2>5 DEF Hosts!Dispatched, Hosts!StartEnumeration
<1>5. CASE Hosts!EnumerationEnds
  <2>1. /\ UNCHANGED <<todo, state, err, refused, verdict>> /\ at = "enumerating" /\ at' = "joining"
        /\ cause # "none" => cause' # "none"
    BY <1>5 DEF Hosts!EnumerationEnds, Hosts!goroutines, Hosts!First
  <2>2. QED
    BY <2>1, HostQuiet DEF Hosts!Failed
<1>6. CASE Hosts!Join
  <2>1. /\ UNCHANGED <<todo, state, err, refused, cause>> /\ at = "joining" /\ at' = "returned"
        /\ state["scan"] = "done" /\ state["main"] = "idle" /\ state["enum"] = "done"
        /\ err["enum"] # "none" => cause # "none"
        /\ verdict' = (IF cause # "none" THEN {cause} ELSE {err["main"], err["scan"]}) \ {"none"}
    BY <1>0, <1>6 DEF Hosts!Join, Hosts!Return, Hosts!goroutines, HostPhases
  <2>2. state["list"] = "idle"
    BY <2>1, HostIdle DEF HostOwner
  <2>3. HostWork("main") /\ HostWork("scan")
    BY <1>0
  <2>4. verdict' \cap {"refused", "canceled"} # {} => cause # "none" \/ refused # {}
    BY <2>1, <2>3 DEF HostWork
  <2>5. QED
    BY <2>1, <2>2, <2>4, HostReturns
<1>7. ASSUME NEW p \in Hosts!Procs, Hosts!ScriptStep(p) \/ (p = "enum" /\ Hosts!SendRepo) \/ (p = "list" /\ Hosts!SendItem),
             target' = target
      PROVE  [Source!Next]_(Source!vars)
  BY <1>7, HostMoveImplements
<1>8. ASSUME NEW p \in Hosts!Procs, state[p] = "busy", UNCHANGED <<at, err, refused, cause, verdict>>,
             p # "main" \/ at # "returned",
             state' = state \/ state' = [state EXCEPT ![p] = "done"],
             todo' = todo \/ \E script : todo' = [todo EXCEPT ![p] = script]
      PROVE  [Source!Next]_(Source!vars)
  <2>1. \A q \in Hosts!Procs : /\ state'[q] = "yielding" <=> state[q] = "yielding"
                               /\ state[q] = "yielding" => todo'[q] = todo[q]
    BY <1>0, <1>8 DEF HostTypes
  <2>2. at # "returned"
    BY <1>8, HostSafe DEF Hosts!NothingLeftBehind
  <2>3. QED
    BY <1>8, <2>1, <2>2, HostQuiet DEF Hosts!Failed
<1>9. CASE Hosts!EndEnum \/ Hosts!NextRepo \/ Hosts!EndScan \/ Hosts!EndList
  BY <1>8, <1>9 DEF Hosts!EndEnum, Hosts!NextRepo, Hosts!EndScan, Hosts!EndList, Hosts!Ended
<1>10. ASSUME NEW w \in Workers, Hosts!TakeItem(w) \/ Hosts!EndWorker(w)
       PROVE  [Source!Next]_(Source!vars)
  BY <1>8, <1>10 DEF Hosts!TakeItem, Hosts!EndWorker, Hosts!Ended
<1>11. ASSUME NEW p \in {"main", "scan"}, Hosts!StartGroup(p)
       PROVE  [Source!Next]_(Source!vars)
  <2>1. /\ UNCHANGED <<at, err, refused, cause, verdict>> /\ at # "returned" /\ state["list"] = "idle"
        /\ state' = [q \in Hosts!Procs |-> IF q \in Hosts!Group THEN "busy" ELSE state[q]]
        /\ todo' = [todo EXCEPT !["list"] = Hosts!Plan.groups[Head(todo[p]).in]]
    BY <1>11, HostOwns DEF Hosts!StartGroup
  <2>2. \A q \in Hosts!Group : state[q] = "idle"
    BY <1>0, <2>1 DEF HostGroup
  <2>3. \A q \in Hosts!Procs : /\ state'[q] = "yielding" <=> state[q] = "yielding"
                               /\ state[q] = "yielding" => todo'[q] = todo[q]
    BY <1>0, <2>1, <2>2 DEF HostTypes
  <2>4. QED
    BY <2>1, <2>3, HostQuiet DEF Hosts!Failed
<1>12. ASSUME NEW p \in {"main", "scan"}, Hosts!EndGroup(p)
       PROVE  [Source!Next]_(Source!vars)
  <2>1. /\ UNCHANGED <<at, refused, cause, verdict>> /\ at # "returned" /\ \A q \in Hosts!Group : state[q] = "done"
        /\ state' = [q \in Hosts!Procs |-> IF q \in Hosts!Group THEN "idle" ELSE state[q]]
        /\ err' = [q \in Hosts!Procs |-> IF q \in Hosts!Group THEN "none"
                                          ELSE IF q = p THEN Hosts!First(err[p], err["list"]) ELSE err[q]]
        /\ \E script : todo' = [todo EXCEPT ![p] = script]
        /\ state[p] = "busy" /\ err[p] \in {"none", "fail"} /\ p \in Hosts!Procs \ (Hosts!Group \cup Workers)
    BY <1>12, HostOwns DEF Hosts!EndGroup, Hosts!NextIs, Hosts!Drop, Hosts!GroupErr
  <2>2. \A q \in Hosts!Procs : state'[q] = "yielding" <=> state[q] = "yielding"
    BY <2>1
  <2>3. \A q \in Hosts!Procs : state[q] = "yielding" => todo'[q] = todo[q]
    BY <1>0, <2>1 DEF HostTypes
  <2>4. Hosts!Failed => Hosts!Failed'
    <3>1. err["list"] = "fail" => err'[p] = "fail"
      BY <2>1 DEF Hosts!First
    <3>2. err[p] = "fail" => err'[p] = "fail"
      BY <2>1 DEF Hosts!First
    <3>3. \A q \in Hosts!Procs \ Hosts!Group : q # p => err'[q] = err[q]
      BY <2>1
    <3>4. QED
      BY <2>1, <3>1, <3>2, <3>3 DEF Hosts!Failed
  <2>5. QED
    BY <2>1, <2>2, <2>3, <2>4, HostQuiet
<1>13. ASSUME NEW p \in Hosts!Procs, Hosts!Step1(p)
       PROVE  [Source!Next]_(Source!vars)
  BY <1>3, <1>4, <1>5, <1>6, <1>7, <1>9, <1>10, <1>11, <1>12, <1>13 DEF Hosts!Step1
<1>14. QED
  BY <1>1, <1>2, <1>13 DEF Hosts!Next, Hosts!Progress

-----------------------------------------------------------------------------
(* At first the contract sees a source that has done nothing.              *)
LEMMA SourceInit ==
  ASSUME Init
  PROVE  Source!Init
<1>1. SourcesInv
  BY SourcesInvInit
<1>2. CASE which = "hosts" /\ Hosts!Init
  <2>1. Hosts!Phase = "running" /\ ~Hosts!Stopped /\ verdict = {}
    BY <1>2 DEF Hosts!Init, Hosts!Phase, Hosts!Stopped
  <2>2. Hosts!Yielding = {} /\ ~Hosts!Failed
    BY <1>2, HostProcs DEF Hosts!Init, Hosts!Yielding, Hosts!Yielders, Hosts!Failed
  <2>3. QED
    BY <1>2, <2>1, <2>2 DEF Source!Init, Phase, Yielding, Stopped, Failed, Choose
<1>3. CASE which = "S3" /\ S3!Init
  <2>1. S3!Phase = "running" /\ S3!Yielding = {} /\ ~S3!Stopped /\ ~S3!Failed /\ verdict = {}
    BY <1>3 DEF S3!Init, S3!Phase, S3!Yielding, S3!Stopped, S3!Failed
  <2>2. QED
    BY <1>3, <2>1 DEF Source!Init, Phase, Yielding, Stopped, Failed, Choose
<1>4. CASE which = "HF" /\ HF!Init
  <2>1. HF!Phase = "running" /\ HF!Yielding = {} /\ ~HF!Stopped /\ ~failed /\ verdict = {}
    BY <1>4 DEF HF!Init, HF!Phase, HF!Yielding, HF!Stopped
  <2>2. QED
    BY <1>4, <2>1 DEF Source!Init, Phase, Yielding, Stopped, Failed, Choose
<1>5. CASE which = "git" /\ Git!Init
  <2>1. Git!Phase = "running" /\ ~Git!Stopped /\ verdict = {}
    BY <1>5 DEF Git!Init, Git!Phase, Git!Stopped
  <2>2. Git!Yielding = {} /\ ~Git!Failed
    BY <1>5 DEF Git!Init, Git!Yielding, Git!Failed
  <2>3. QED
    BY <1>5, <2>1, <2>2 DEF Source!Init, Phase, Yielding, Stopped, Failed, Choose
<1>6. QED
  BY <1>2, <1>3, <1>4, <1>5 DEF Init

(* When nothing changes, the contract sees no change.                      *)
LEMMA SourceUnchanged ==
  ASSUME UNCHANGED vars
  PROVE  UNCHANGED <<Phase, Yielding, Stopped, Failed, verdict>>
<1>1. UNCHANGED <<which, at, refused, cause, obj, ctxDone, todo, state, err, listFailed, main, failed>>
  BY DEF vars
<1>2. UNCHANGED <<target, refused, verdict, ctxDone, phase, at, cur, errs>>
  BY DEF vars
<1>3. UNCHANGED <<Hosts!Phase, Hosts!Yielding, Hosts!Stopped, Hosts!Failed>>
  BY <1>1 DEF Hosts!Phase, Hosts!Yielding, Hosts!Yielders, Hosts!Stopped, Hosts!Failed
<1>4. UNCHANGED <<S3!Phase, S3!Yielding, S3!Stopped, S3!Failed>>
  BY <1>1, <1>2 DEF S3!Phase, S3!Yielding, S3!Stopped, S3!Failed, S3!Enumerate
<1>5. UNCHANGED <<HF!Phase, HF!Yielding, HF!Stopped>>
  BY <1>1 DEF HF!Phase, HF!Yielding, HF!Stopped
<1>6. UNCHANGED <<Git!Phase, Git!Yielding, Git!Stopped, Git!Failed>>
  BY <1>2 DEF Git!Phase, Git!Yielding, Git!Stopped, Git!Failed
<1>7. UNCHANGED Phase
  BY <1>1, <1>3, <1>4, <1>5, <1>6 DEF Phase, Choose
<1>8. UNCHANGED Yielding
  BY <1>1, <1>3, <1>4, <1>5, <1>6 DEF Yielding, Choose
<1>9. UNCHANGED Stopped
  BY <1>1, <1>3, <1>4, <1>5, <1>6 DEF Stopped, Choose
<1>10. UNCHANGED Failed
  BY <1>1, <1>3, <1>4, <1>5, <1>6 DEF Failed, Choose
<1>11. QED
  BY <1>2, <1>7, <1>8, <1>9, <1>10

(* Every step of the scanned source is a step of the contract.             *)
LEMMA SourceStep ==
  ASSUME SourcesInv, SourcesInv', [Next]_vars
  PROVE  [Source!Next]_(Source!vars)
<1>1. CASE UNCHANGED vars
  BY <1>1, SourceUnchanged DEF Source!vars
<1>2. CASE which = "hosts" /\ Hosts!Next /\ which' = which
  BY <1>2, HostImplements DEF SourcesInv
<1>3. CASE which = "S3" /\ S3!Next /\ which' = which
  BY <1>3, S3Implements DEF SourcesInv
<1>4. CASE which = "HF" /\ HF!Next /\ which' = which
  BY <1>4, HFImplements DEF SourcesInv
<1>5. CASE which = "git" /\ Git!Next /\ which' = which
  BY <1>5, GitImplements DEF SourcesInv
<1>6. QED
  BY <1>1, <1>2, <1>3, <1>4, <1>5 DEF Next

(* Every source keeps the contract of sources/source.go: each call of      *)
(* yield has returned before Fragments does, a failure that keeps it from  *)
(* finishing is returned as an error, and one that says "stopped" is       *)
(* returned only when the source was stopped.                              *)
THEOREM EverySourceKeepsTheContract == Spec => ImplementsSource
<1>1. Init => Source!Init
  BY SourceInit
<1>2. SourcesInv /\ SourcesInv' /\ [Next]_vars => [Source!Next]_(Source!vars)
  BY SourceStep
<1>3. QED
  BY <1>1, <1>2, SourcesInvariant, PTL DEF Spec, ImplementsSource, Source!Spec
=============================================================================
