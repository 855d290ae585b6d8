------------------------- MODULE SourceResultProofs --------------------------
(***************************************************************************)
(* Proofs about what the sources have read when they return without an     *)
(* error: for any target, any number of workers and of failures, the       *)
(* scripts of a host, the output of git and the listing of a bucket have   *)
(* been run to their end, and nothing has been yielded twice on the way.   *)
(***************************************************************************)
EXTENDS SourcesProofs

(* S3Source: where the lister of the one bucket is, all objects before     *)
(* that place are no longer unlisted; the enumeration goes on to the end.  *)
S3Passed(k, j) == k < page \/ (k = page /\ at \in {"check", "submit"} /\ j < pos)

S3Listed == \A k \in DOMAIN S3!Pages : \A j \in DOMAIN S3!Pages[k] : obj[S3!Pages[k][j]] # "unlisted"
S3Skipped == \A o \in Objects : obj[o] = "unlisted"

S3Enumerates ==
  S3!Enumerate =>
    /\ bucket \in 1..Len(S3!Buckets) + 1
    /\ at \in {"list", "check", "submit", "wait", "end"} => bucket <= Len(S3!Buckets)
    /\ at = "returned" /\ verdict = {} => bucket = Len(S3!Buckets) + 1

S3Lists ==
  ~S3!Enumerate =>
    /\ bucket = 1 /\ page \in Nat /\ pos \in Nat
    /\ at \in {"begin", "bucket"} => S3Skipped /\ groupErr = "none"
    /\ at \in {"begin", "bucket", "list", "check", "submit"} => exitErr = {}
    /\ at \in {"list", "check", "submit"} =>
         \A k \in DOMAIN S3!Pages : \A j \in DOMAIN S3!Pages[k] : S3Passed(k, j) => obj[S3!Pages[k][j]] # "unlisted"
    /\ at = "wait" /\ exitErr = {} => S3Listed
    /\ at = "end" /\ exitErr = {} => S3Listed \/ S3Skipped
    /\ at = "end" /\ exitErr = {} => groupErr = "none"
    /\ (\E o \in Objects : obj[o] = "stopped") => groupErr # "none"
    /\ at = "returned" /\ verdict = {} => (S3Listed \/ S3Skipped) /\ groupErr = "none"

S3Tries == S3Enumerates /\ S3Lists

(* The lister keeps it,                                                    *)
LEMMA S3ListerTries ==
  ASSUME S3Inv, S3Tries, target \in S3Targets, S3!ListerStep
  PROVE  S3Tries'
<1>1. target' = target /\ S3!Buckets' = S3!Buckets /\ S3!Enumerate' = S3!Enumerate /\ S3!Enumerate \in BOOLEAN
      /\ S3!Buckets \in Seq(Seq(Seq(Objects))) /\ Len(S3!Buckets) \in Nat
      /\ (~S3!Enumerate => Len(S3!Buckets) = 1)
  BY InstancesAreAdmissible DEF S3!ListerStep, S3!Assumptions, S3!Buckets, S3!Enumerate
<1>2. S3Enumerates'
  <2> SUFFICES ASSUME S3!Enumerate
               PROVE  S3Enumerates'
    BY <1>1 DEF S3Enumerates
  <2>1. bucket \in Nat
    BY DEF S3Tries, S3Enumerates
  <2>2. CASE S3!Begin \/ S3!EndEnumeration
    <3>1. /\ bucket' = bucket /\ at \in {"begin", "bucket"} /\ at' \in {"bucket", "returned"}
          /\ at' = "returned" => (verdict' # {}) \/ (at = "bucket" /\ bucket > Len(S3!Buckets))
      BY <1>1, <2>2 DEF S3!Begin, S3!EndEnumeration, S3!Return
    <3>2. QED
      BY <1>1, <2>1, <3>1 DEF S3Tries, S3Enumerates
  <2>3. CASE S3!StartBucket \/ S3!SkipBucket \/ S3!NextBucket
    BY <1>1, <2>1, <2>3 DEF S3!StartBucket, S3!SkipBucket, S3!NextBucket, S3!NextIsBucket, S3Tries, S3Enumerates
  <2>4. CASE S3!ListPage \/ S3!ListFails \/ S3!CheckObject \/ S3!Submit \/ S3!EndPage \/ S3!EndBucket
    <3>1. bucket' = bucket /\ at \in {"list", "check", "submit", "wait"} /\ at' \in {"list", "check", "submit", "wait", "end"}
      BY <2>4 DEF S3!ListPage, S3!ListFails, S3!CheckObject, S3!Submit, S3!EndPage, S3!EndBucket
    <3>2. QED
      BY <1>1, <3>1 DEF S3Tries, S3Enumerates
  <2>5. CASE S3!Finish
    BY <2>5 DEF S3!Finish
  <2>6. QED
    BY <2>2, <2>3, <2>4, <2>5 DEF S3!ListerStep
<1>3. S3Lists'
  <2> SUFFICES ASSUME ~S3!Enumerate
               PROVE  S3Lists'
    BY <1>1 DEF S3Lists
  <2>1. /\ bucket = 1 /\ page \in Nat /\ pos \in Nat /\ S3!Pages = S3!Buckets[1]
        /\ S3!Pages \in Seq(Seq(Objects))
        /\ \A k \in DOMAIN S3!Pages : S3!Pages[k] \in Seq(Objects)
    <3>1. bucket = 1 /\ page \in Nat /\ pos \in Nat /\ S3!Pages = S3!Buckets[1]
      BY DEF S3Tries, S3Lists, S3!Pages
    <3>2. S3!Buckets[1] \in Seq(Seq(Objects))
      BY <1>1
    <3>3. QED
      BY <3>1, <3>2
  <2>0. obj = [o \in Objects |-> obj[o]]
    BY DEF S3Inv, S3Types
  <2>2. ASSUME bucket' = bucket
        PROVE  S3!Pages' = S3!Pages
    BY <1>1, <2>2 DEF S3!Pages
  <2>3. CASE S3!Begin \/ S3!Finish
    <3>1. /\ UNCHANGED <<bucket, page, pos, obj, groupErr, exitErr>>
          /\ at \in {"begin", "end"} /\ at' \in {"bucket", "returned"}
          /\ at' = "returned" => at = "end" /\ verdict' = IF cause # "none" THEN {cause} ELSE exitErr
          /\ at' = "bucket" => at = "begin"
      BY <2>3 DEF S3!Begin, S3!Finish, S3!Return, S3!group
    <3>2. S3!Pages' = S3!Pages
      BY <2>2, <3>1
    <3>3. QED
      BY <1>1, <3>1, <3>2 DEF S3Tries, S3Lists, S3Listed, S3Skipped
  <2>4. CASE S3!StartBucket \/ S3!SkipBucket
    <3>1. /\ UNCHANGED <<bucket, pos, obj>> /\ at = "bucket" /\ at' \in {"list", "end"}
          /\ at' = "list" => page' = 1 /\ exitErr' = {} /\ groupErr' = "none"
          /\ at' = "end" => UNCHANGED <<page, exitErr, groupErr>>
      BY <2>4 DEF S3!StartBucket, S3!SkipBucket, S3!NextIsBucket, S3!group
    <3>2. S3!Pages' = S3!Pages
      BY <2>2, <3>1
    <3>3. DOMAIN S3!Pages \subseteq Nat \ {0}
      BY <2>1
    <3>4. S3Skipped /\ exitErr = {} /\ groupErr = "none"
      BY <3>1 DEF S3Tries, S3Lists
    <3>5. S3Skipped'
      BY <3>1, <3>4 DEF S3Skipped
    <3>6. ASSUME at' = "list", NEW k \in DOMAIN S3!Pages', NEW j \in DOMAIN S3!Pages[k]', S3Passed(k, j)'
          PROVE  FALSE
      BY <3>1, <3>2, <3>3, <3>6 DEF S3Passed
    <3>7. \A o \in Objects : obj'[o] # "stopped"
      BY <3>5 DEF S3Skipped
    <3>8. page' \in Nat /\ pos' \in Nat /\ bucket' = 1
      BY <2>1, <3>1
    <3>9. QED
      BY <1>1, <3>1, <3>4, <3>5, <3>6, <3>7, <3>8 DEF S3Lists
  <2>5. CASE S3!ListPage
    <3>1. /\ UNCHANGED <<bucket, page, obj, groupErr, exitErr>> /\ at = "list" /\ at' = "check" /\ pos' = 1
      BY <2>5 DEF S3!ListPage, S3!group
    <3>2. S3!Pages' = S3!Pages
      BY <2>2, <3>1
    <3>3. ASSUME NEW k \in DOMAIN S3!Pages, NEW j \in DOMAIN S3!Pages[k], S3Passed(k, j)'
          PROVE  S3Passed(k, j)
      BY <2>1, <3>1, <3>3 DEF S3Passed
    <3>4. QED
      BY <1>1, <2>1, <3>1, <3>2, <3>3 DEF S3Tries, S3Lists, S3Listed, S3Skipped
  <2>6. CASE S3!ListFails \/ S3!EndBucket
    <3>1. /\ UNCHANGED <<bucket, page, pos, obj, groupErr>> /\ at \in {"list", "wait"} /\ at' \in {"wait", "end"}
          /\ at' = "wait" => exitErr' # {}
          /\ at' = "end" => at = "wait" /\ exitErr' = exitErr \cup ({groupErr} \ {"none"})
      BY <2>6 DEF S3!ListFails, S3!EndBucket, S3!group
    <3>2. S3!Pages' = S3!Pages
      BY <2>2, <3>1
    <3>3. at' = "end" /\ exitErr' = {} => exitErr = {} /\ groupErr = "none"
      BY <3>1
    <3>4. QED
      BY <1>1, <2>1, <3>1, <3>2, <3>3 DEF S3Tries, S3Lists, S3Listed, S3Skipped
  <2>7. CASE S3!CheckObject \/ S3!Submit
    <3>1. /\ UNCHANGED <<bucket, page, groupErr>> /\ at \in {"check", "submit"} /\ at' \in {"check", "submit", "wait"}
          /\ at' = "wait" => exitErr' # {} /\ UNCHANGED <<pos, obj>>
          /\ at' # "wait" => exitErr' = exitErr
      BY <2>7 DEF S3!CheckObject, S3!Submit
    <3>2. /\ pos' \in {pos, pos + 1}
          /\ pos' = pos => obj' = obj
          /\ pos' = pos + 1 => \E new \in {"skipped", "queued"} : obj' = [obj EXCEPT ![S3!Pages[page][pos]] = new]
      BY <2>1, <2>7 DEF S3!CheckObject, S3!Submit, S3!Considered
    <3>3. S3!Pages' = S3!Pages
      BY <2>2, <3>1
    <3>4. ASSUME NEW o \in Objects
          PROVE  /\ obj'[o] \in {obj[o], "skipped", "queued"}
                 /\ pos' = pos + 1 /\ o = S3!Pages[page][pos] => obj'[o] \in {"skipped", "queued"}
      BY <2>0, <2>1, <3>2
    <3>5. ASSUME NEW k \in DOMAIN S3!Pages, NEW j \in DOMAIN S3!Pages[k], S3Passed(k, j)', at' # "wait"
          PROVE  obj'[S3!Pages[k][j]] # "unlisted"
      <4>1. S3!Pages[k][j] \in Objects /\ k \in Nat /\ j \in Nat
        BY <2>1
      <4>2. S3Passed(k, j) \/ (k = page /\ j = pos /\ pos' = pos + 1)
        BY <2>1, <3>1, <3>2, <3>5, <4>1 DEF S3Passed
      <4>3. S3Passed(k, j) => obj[S3!Pages[k][j]] # "unlisted"
        BY <3>1 DEF S3Tries, S3Lists
      <4>4. QED
        BY <3>4, <4>1, <4>2, <4>3
    <3>6. (\E o \in Objects : obj'[o] = "stopped") => groupErr' # "none"
      BY <3>1, <3>4 DEF S3Tries, S3Lists
    <3>7. page' \in Nat /\ pos' \in Nat /\ bucket' = 1
      BY <2>1, <3>1, <3>2
    <3>8. exitErr = {}
      BY <3>1 DEF S3Tries, S3Lists
    <3>9. QED
      BY <1>1, <3>1, <3>3, <3>5, <3>6, <3>7, <3>8 DEF S3Lists
  <2>8. CASE S3!EndPage
    <3>1. /\ UNCHANGED <<bucket, pos, obj, groupErr, exitErr>> /\ at = "check" /\ at' \in {"list", "wait"}
          /\ pos > Len(S3!Pages[page])
          /\ at' = "list" => page' = page + 1
          /\ at' = "wait" => page' = page /\ ~(page < Len(S3!Pages))
      BY <2>8 DEF S3!EndPage, S3!group
    <3>2. S3!Pages' = S3!Pages
      BY <2>2, <3>1
    <3>3. ASSUME NEW k \in DOMAIN S3!Pages, NEW j \in DOMAIN S3!Pages[k], at' = "wait" \/ S3Passed(k, j)'
          PROVE  obj[S3!Pages[k][j]] # "unlisted"
      <4>1. /\ k \in 1..Len(S3!Pages) /\ Len(S3!Pages) \in Nat /\ j \in 1..Len(S3!Pages[k])
            /\ Len(S3!Pages[k]) \in Nat
        BY <2>1
      <4>2. k < page \/ (k = page /\ j < pos)
        <5>1. k <= page
          BY <2>1, <3>1, <3>3, <4>1 DEF S3Passed
        <5>2. k = page => j < pos
          BY <2>1, <3>1, <4>1
        <5>3. QED
          BY <2>1, <4>1, <5>1, <5>2
      <4>3. QED
        BY <3>1, <4>2 DEF S3Tries, S3Lists, S3Passed
    <3>4. S3Listed' \/ at' # "wait"
      BY <3>1, <3>2, <3>3 DEF S3Listed
    <3>5. page' \in Nat /\ pos' \in Nat /\ bucket' = 1
      BY <2>1, <3>1
    <3>6. (\E o \in Objects : obj'[o] = "stopped") => groupErr' # "none"
      BY <3>1 DEF S3Tries, S3Lists
    <3>7. exitErr = {}
      BY <3>1 DEF S3Tries, S3Lists
    <3>8. QED
      BY <1>1, <3>1, <3>2, <3>3, <3>4, <3>5, <3>6, <3>7 DEF S3Lists
  <2>9. QED
    BY <2>3, <2>4, <2>5, <2>6, <2>7, <2>8 DEF S3!ListerStep, S3!EndEnumeration, S3!NextBucket
<1>4. QED
  BY <1>2, <1>3 DEF S3Tries

(* so does a task, which only ever moves an object that was listed, and    *)
(* which when it stops leaves an error to the group;                       *)
LEMMA S3TaskTries ==
  ASSUME S3Inv, S3Tries, target \in S3Targets, NEW o \in Objects, S3!TaskStep(o)
  PROVE  S3Tries'
<1>1. /\ target' = target /\ UNCHANGED <<at, bucket, page, pos, exitErr, verdict>>
      /\ S3!Buckets' = S3!Buckets /\ S3!Enumerate' = S3!Enumerate /\ S3!Pages' = S3!Pages
  BY DEF S3!TaskStep, S3!StartTask, S3!CallYield, S3!YieldAccepts, S3!YieldRefuses, S3!FetchFails, S3!EndFailing,
     S3!lister, S3!Buckets, S3!Enumerate, S3!Pages
<1>2. obj[o] \in {"queued", "fetching", "yielding", "cutOff", "failing"}
  BY DEF S3!TaskStep, S3!StartTask, S3!CallYield, S3!YieldAccepts, S3!YieldRefuses, S3!FetchFails, S3!EndFailing
<1>3. \E new \in {"stopped", "fetching", "yielding", "cutOff", "scanned", "failing", "lost"} :
        /\ obj' = [obj EXCEPT ![o] = new]
        /\ groupErr # "none" => groupErr' # "none"
        /\ new = "stopped" => groupErr' # "none"
  BY DEF S3!TaskStep, S3!StartTask, S3!CallYield, S3!YieldAccepts, S3!YieldRefuses, S3!FetchFails, S3!EndFailing,
     S3!TaskFails, S3!GroupDone
<1>4. at \in {"list", "check", "submit", "wait"}
  BY <1>2 DEF S3Inv, S3!Running
<1>5. \A x \in Objects : (obj'[x] = "unlisted" <=> obj[x] = "unlisted")
                         /\ (obj'[x] = "stopped" => obj[x] = "stopped" \/ groupErr' # "none")
  BY <1>2, <1>3 DEF S3Inv, S3Types
<1>6. S3Enumerates'
  BY <1>1 DEF S3Tries, S3Enumerates
<1>7. S3Lists'
  <2> SUFFICES ASSUME ~S3!Enumerate
               PROVE  S3Lists'
    BY <1>1 DEF S3Lists
  <2>1. bucket = 1 /\ S3!Buckets \in Seq(Seq(Seq(Objects))) /\ Len(S3!Buckets) = 1
    BY InstancesAreAdmissible DEF S3Tries, S3Lists, S3!Assumptions, S3!Buckets, S3!Enumerate
  <2>2. S3!Pages = S3!Buckets[1] /\ S3!Buckets[1] \in Seq(Seq(Objects))
    <3>1. S3!Pages = S3!Buckets[1]
      BY <2>1 DEF S3!Pages
    <3>2. 1 \in 1..Len(S3!Buckets)
      BY <2>1
    <3>3. S3!Buckets[1] \in Seq(Seq(Objects))
      BY <2>1, <3>2, ElementOfSeq
    <3>4. QED
      BY <3>1, <3>3
  <2>3. \A k \in DOMAIN S3!Pages : \A j \in DOMAIN S3!Pages[k] : S3!Pages[k][j] \in Objects
    BY <2>2
  <2>4. \A k \in DOMAIN S3!Pages : \A j \in DOMAIN S3!Pages[k] :
          /\ S3Passed(k, j)' = S3Passed(k, j)
          /\ (obj'[S3!Pages[k][j]] # "unlisted" <=> obj[S3!Pages[k][j]] # "unlisted")
    BY <1>1, <1>5, <2>3 DEF S3Passed
  <2>5. S3Listed' = S3Listed
    BY <1>1, <2>4 DEF S3Listed
  <2>6. (\E x \in Objects : obj'[x] = "stopped") => groupErr' # "none"
    BY <1>3, <1>5 DEF S3Tries, S3Lists
  <2>7. /\ bucket' = 1 /\ page' \in Nat /\ pos' \in Nat
        /\ at' \notin {"begin", "bucket", "end", "returned"} /\ at' \in {"list", "check", "submit", "wait"}
        /\ at' \in {"list", "check", "submit"} => exitErr' = {}
        /\ at' = "wait" /\ exitErr' = {} => S3Listed'
    BY <1>1, <1>4, <2>5 DEF S3Tries, S3Lists
  <2>8. at' \in {"list", "check", "submit"} =>
          \A k \in DOMAIN S3!Pages' : \A j \in DOMAIN S3!Pages[k]' :
            S3Passed(k, j)' => obj'[S3!Pages[k][j]'] # "unlisted"
    BY <1>1, <2>4 DEF S3Tries, S3Lists
  <2>9. QED
    BY <1>1, <2>6, <2>7, <2>8 DEF S3Lists
<1>8. QED
  BY <1>6, <1>7 DEF S3Tries

(* so that every step of S3Source does;                                    *)
LEMMA S3KeepsTrying ==
  ASSUME S3Inv, S3Tries, S3!Next
  PROVE  S3Tries'
<1>1. target \in S3Targets
  BY DEF S3Inv, S3Types
<1>2. CASE S3!ListerStep
  BY <1>1, <1>2, S3ListerTries
<1>3. CASE \E o \in Objects : S3!TaskStep(o)
  BY <1>1, <1>3, S3TaskTries
<1>4. CASE S3!Cancel \/ S3!Finished
  <2>1. UNCHANGED <<target, at, bucket, page, pos, exitErr, obj, groupErr, verdict>>
    BY <1>4 DEF S3!Cancel, S3!Finished, S3!vars, S3!lister, S3!group
  <2>2. QED
    BY <2>1 DEF S3Tries, S3Enumerates, S3Lists, S3Listed, S3Skipped, S3Passed, S3!Enumerate, S3!Buckets, S3!Pages
<1>5. QED
  BY <1>2, <1>3, <1>4 DEF S3!Next, S3!Progress

(* and it holds at the beginning.                                          *)
LEMMA S3TriesFirst ==
  ASSUME S3!Init
  PROVE  S3Tries
<1>1. Len(S3!Buckets) \in Nat
  BY InstancesAreAdmissible DEF S3!Init, S3!Assumptions, S3!Buckets
<1>2. QED
  BY <1>1 DEF S3!Init, S3Tries, S3Enumerates, S3Lists, S3Listed, S3Skipped, S3Passed, S3!Enumerate, S3!Buckets

(* What a nil error of S3Source says is then true, provided that the pages *)
(* of a bucket that is scanned alone list every object.                    *)
LEMMA S3NilMeansTried ==
  ASSUME S3Inv, S3Tries,
         \A t \in S3Targets :
           t.enumerate \/ \A o \in Objects : \E k \in DOMAIN t.buckets[1] : o \in Git!ToSet(t.buckets[1][k])
  PROVE  S3!NilMeansTried
<1> SUFFICES ASSUME at = "returned", verdict = {}
             PROVE  IF S3!Enumerate THEN bucket = Len(S3!Buckets) + 1
                    ELSE \/ \A o \in Objects : obj[o] \in {"skipped", "scanned", "lost"}
                         \/ \A o \in Objects : obj[o] = "unlisted"
  BY DEF S3!NilMeansTried
<1>1. CASE S3!Enumerate
  BY <1>1 DEF S3Tries, S3Enumerates
<1>2. CASE ~S3!Enumerate
  <2>1. (S3Listed \/ S3Skipped) /\ groupErr = "none" /\ S3!Pages = S3!Buckets[1]
    BY <1>2 DEF S3Tries, S3Lists, S3!Pages
  <2>2. \A o \in Objects : obj[o] # "stopped"
    BY <1>2, <2>1 DEF S3Tries, S3Lists
  <2>3. \A o \in Objects : obj[o] \in {"unlisted", "skipped", "scanned", "lost"}
    BY <2>2 DEF S3Inv, S3Types, S3!Running
  <2>4. ASSUME S3Listed, NEW o \in Objects
        PROVE  obj[o] # "unlisted"
    <3>1. target \in S3Targets /\ ~target.enumerate
      BY <1>2 DEF S3Inv, S3Types, S3!Enumerate
    <3>2. PICK k \in DOMAIN S3!Pages : o \in Git!ToSet(S3!Pages[k])
      BY <2>1, <3>1 DEF S3!Buckets
    <3>3. PICK j \in DOMAIN S3!Pages[k] : o = S3!Pages[k][j]
      BY <3>2 DEF Git!ToSet
    <3>4. QED
      BY <2>4, <3>3 DEF S3Listed
  <2>5. QED
    BY <1>2, <2>1, <2>3, <2>4 DEF S3Skipped
<1>3. QED
  BY <1>1, <1>2

-----------------------------------------------------------------------------
(* GitSource. What a reader of a repository is to print at a stage, and    *)
(* which of its stages come behind one.                                    *)
GitPrinted(p, s) == Git!InputsIn(Git!Prints(Git!T, p, s))

GitAfter(p, s) ==
  {r \in Git!StagesOf(Git!T, p) :
     \/ s = "log" /\ r # "log"
     \/ s = "messages" /\ r \in {"reflogs", "tags"}
     \/ s = "reflogs" /\ r = "tags"}

(* What a reader has not begun with, has in hand, and has in its pipe.     *)
GitLater(p) ==
  IF at[p] = "idle" THEN Git!StagesOf(Git!T, p)
  ELSE IF at[p] = "start" THEN {stage[p]} \cup GitAfter(p, stage[p]) ELSE GitAfter(p, stage[p])

GitHand(p) == IF at[p] \in {"blob", "yield"} THEN {Head(cur[p]).in} ELSE {}
GitPipe(p) == Git!InputsIn(git[p].stdout) \cup Git!InputsIn(git[p].out)
GitRead    == yielded \cup lost

(* A reader in trouble will end with an error.                             *)
GitTrouble(p) == errs[p] # {} \/ git[p].code # "ok"

GitWhere(p) ==
  /\ IF at[p] = "idle" THEN stage[p] = "log" ELSE stage[p] \in Git!StagesOf(Git!T, p)
  /\ at[p] = "kill" => errs[p] # {}
  /\ git[p].stopped => errs[p] # {}
  /\ at[p] \in {"drain", "wait"} => errs[p] # {} \/ (git[p].stdout = <<>> /\ git[p].run = "ended")
  /\ at[p] \in {"ended", "returned"} => errs[p] # {} \/ GitAfter(p, stage[p]) = {}

(* What was not read is in hand, in the pipe, or of a stage to come;       *)
GitGets(p) ==
  \/ GitTrouble(p)
  \/ \A s \in Git!StagesOf(Git!T, p) \ GitLater(p) : GitPrinted(p, s) \subseteq GitRead \cup GitHand(p) \cup GitPipe(p)

GitHolds(p) == at[p] # "idle" => GitHand(p) \cup GitPipe(p) \subseteq GitPrinted(p, stage[p])

(* and none of that has been read, if nothing is printed twice.            *)
GitFresh(p) ==
  Git!ReadOnce(Git!T) =>
    /\ GitRead \cap (GitHand(p) \cup GitPipe(p)) = {}
    /\ \A s \in GitLater(p) : GitPrinted(p, s) \cap GitRead = {}
    /\ Git!Separate(git[p].out)
    /\ Git!InputsIn(git[p].stdout) \cap Git!InputsIn(git[p].out) = {}
    /\ GitHand(p) \cap GitPipe(p) = {}

GitProgress(p) == GitWhere(p) /\ GitGets(p) /\ GitHolds(p) /\ GitFresh(p)

GitFull ==
  /\ phase = "workers" => ~Git!T.full
  /\ phase \in {"workers", "reading"} \/ (phase = "returned" /\ verdict = {}) =>
       \A p \in Workers : at[p] = "idle" => Git!StagesOf(Git!T, p) = {}
  /\ phase = "returned" /\ verdict = {} =>
       /\ groupErr = {} /\ errs["main"] = {}
       /\ at["main"] = "idle" => Git!StagesOf(Git!T, "main") = {}

GitReads ==
  /\ \A p \in Git!Readers : GitProgress(p)
  /\ GitRead \subseteq Git!AllReads(Git!T)
  /\ GitFull

-----------------------------------------------------------------------------
(* The inputs in a sequence of lines, from its first on.                   *)
LEMMA InputsFromTheFirst ==
  ASSUME NEW S, NEW s \in Seq(S), s # <<>>
  PROVE  /\ Git!InputsIn(s) = (IF Head(s).kind = "warning" THEN {} ELSE {Head(s).in}) \cup Git!InputsIn(Tail(s))
         /\ Git!Separate(s) =>
              /\ Git!Separate(Tail(s))
              /\ Head(s).kind # "warning" => Head(s).in \notin Git!InputsIn(Tail(s))
<1>1. /\ Git!ToSet(s) = {Head(s)} \cup Git!ToSet(Tail(s)) /\ Head(s) = s[1] /\ 1 \in DOMAIN s
      /\ \A k \in DOMAIN Tail(s) : k + 1 \in DOMAIN s /\ Tail(s)[k] = s[k + 1]
      /\ Tail(s) \in Seq(S)
  BY HeadAndTail
<1>2. DOMAIN Tail(s) \subseteq Nat \ {0}
  BY <1>1
<1>3. Git!InputsIn(s) = (IF Head(s).kind = "warning" THEN {} ELSE {Head(s).in}) \cup Git!InputsIn(Tail(s))
  BY <1>1 DEF Git!InputsIn
<1>4. ASSUME Git!Separate(s)
      PROVE  /\ Git!Separate(Tail(s))
             /\ Head(s).kind # "warning" => Head(s).in \notin Git!InputsIn(Tail(s))
  <2>1. Git!Separate(Tail(s))
    <3> SUFFICES ASSUME NEW j \in DOMAIN Tail(s), NEW k \in DOMAIN Tail(s), j # k,
                        Tail(s)[j].kind # "warning", Tail(s)[k].kind # "warning"
                 PROVE  Tail(s)[j].in # Tail(s)[k].in
      BY DEF Git!Separate
    <3>1. j + 1 \in DOMAIN s /\ k + 1 \in DOMAIN s /\ j + 1 # k + 1 /\ Tail(s)[j] = s[j + 1] /\ Tail(s)[k] = s[k + 1]
      BY <1>1, <1>2
    <3>2. QED
      BY <1>4, <3>1 DEF Git!Separate
  <2>2. ASSUME Head(s).kind # "warning", Head(s).in \in Git!InputsIn(Tail(s))
        PROVE  FALSE
    <3>1. PICK k \in DOMAIN Tail(s) : Tail(s)[k].kind # "warning" /\ Tail(s)[k].in = Head(s).in
      BY <2>2 DEF Git!InputsIn, Git!ToSet
    <3>2. k + 1 \in DOMAIN s /\ 1 # k + 1 /\ Tail(s)[k] = s[k + 1]
      BY <1>1, <1>2
    <3>3. QED
      BY <1>1, <1>4, <2>2, <3>1, <3>2 DEF Git!Separate
  <2>3. QED
    BY <2>1, <2>2
<1>5. QED
  BY <1>3, <1>4

LEMMA InputsOfFew ==
  /\ Git!InputsIn(<<>>) = {} /\ Git!Separate(<<>>)
  /\ \A x : x.kind # "warning" => Git!InputsIn(<<x>>) = {x.in}
<1>1. DOMAIN <<>> = {}
  OBVIOUS
<1>2. \A x : DOMAIN <<x>> = {1} /\ <<x>>[1] = x
  OBVIOUS
<1>3. Git!ToSet(<<>>) = {} /\ \A x : Git!ToSet(<<x>>) = {x}
  BY <1>1, <1>2 DEF Git!ToSet
<1>4. QED
  BY <1>1, <1>3 DEF Git!InputsIn, Git!Separate

(* A reader's pipe holds one line at most.                                 *)
LEMMA InputsOfPipe ==
  ASSUME GitInv, NEW p \in Git!Readers, git[p].stdout # <<>>
  PROVE  Git!InputsIn(git[p].stdout) = {Head(git[p].stdout).in}
<1>1. git[p].stdout \in Seq(GitLines) /\ \A k \in DOMAIN git[p].stdout : k = 1 /\ git[p].stdout[k].kind # "warning"
  BY GitRow DEF GitReader, GitProcess
<1>2. Head(git[p].stdout) = git[p].stdout[1] /\ 1 \in DOMAIN git[p].stdout
  BY <1>1, HeadAndTail
<1>3. Git!ToSet(git[p].stdout) = {Head(git[p].stdout)}
  BY <1>1, <1>2 DEF Git!ToSet
<1>4. QED
  BY <1>1, <1>2, <1>3 DEF Git!InputsIn

(* What two readers print, or one at two stages, is not the same.          *)
LEMMA GitPrintedApart ==
  ASSUME Git!ReadOnce(Git!T), NEW p \in Git!Readers, NEW q \in Git!Readers,
         NEW s \in Git!StagesOf(Git!T, p), NEW r \in Git!StagesOf(Git!T, q), p # q \/ s # r
  PROVE  GitPrinted(p, s) \cap GitPrinted(q, r) = {}
BY DEF Git!ReadOnce, GitPrinted

(* A step of a reader by which it gets on with what it has, moves it, or   *)
(* drops it in trouble.                                                    *)
GitOwn(p) ==
  /\ \A q \in Git!Readers \ {p} : GitSame(q)
  /\ UNCHANGED <<target, phase, groupErr, verdict>>

LEMMA GitGetsOn ==
  ASSUME GitReads, NEW p \in Git!Readers, GitOwn(p), at[p] # "idle", at'[p] # "idle", stage'[p] = stage[p],
         GitRead \subseteq GitRead', GitRead' \subseteq GitRead \cup GitHand(p),
         GitHand(p)' \cup GitPipe(p)' \subseteq GitHand(p) \cup GitPipe(p),
         GitRead' = GitRead \/ (GitHand(p)' = {} /\ GitPipe(p)' \subseteq GitPipe(p)),
         GitLater(p)' \subseteq GitLater(p),
         \/ GitTrouble(p)'
         \/ /\ ~GitTrouble(p) /\ GitLater(p)' = GitLater(p)
            /\ GitRead \cup GitHand(p) \cup GitPipe(p) \subseteq GitRead' \cup GitHand(p)' \cup GitPipe(p)',
         Git!ReadOnce(Git!T) =>
           /\ Git!Separate(git'[p].out)
           /\ Git!InputsIn(git'[p].stdout) \cap Git!InputsIn(git'[p].out) = {}
           /\ GitHand(p)' \cap GitPipe(p)' = {}
  PROVE  GitGets(p)' /\ GitHolds(p)' /\ GitFresh(p)'
<1>1. GitProgress(p) /\ Git!T' = Git!T
  BY DEF GitReads, GitOwn, Git!T
<1>2. \A s : GitPrinted(p, s)' = GitPrinted(p, s)
  BY <1>1 DEF GitPrinted
<1>3. GitHolds(p)'
  BY <1>1, <1>2 DEF GitProgress, GitHolds
<1>4. GitGets(p)'
  <2>1. CASE GitTrouble(p)'
    BY <2>1 DEF GitGets
  <2>2. CASE /\ ~GitTrouble(p) /\ GitLater(p)' = GitLater(p)
             /\ GitRead \cup GitHand(p) \cup GitPipe(p) \subseteq GitRead' \cup GitHand(p)' \cup GitPipe(p)'
    BY <1>1, <1>2, <2>2 DEF GitProgress, GitGets
  <2>3. QED
    BY <2>1, <2>2
<1>5. GitFresh(p)'
  <2> SUFFICES ASSUME Git!ReadOnce(Git!T)
               PROVE  GitFresh(p)'
    BY <1>1 DEF GitFresh
  <2>1. GitRead' \cap (GitHand(p)' \cup GitPipe(p)') = {}
    BY <1>1 DEF GitProgress, GitFresh
  <2>2. ASSUME NEW s \in GitLater(p)'
        PROVE  GitPrinted(p, s) \cap GitRead' = {}
    <3>1. s \in GitLater(p) /\ GitPrinted(p, s) \cap GitRead = {}
      BY <1>1 DEF GitProgress, GitFresh
    <3>2. CASE at[p] \in {"blob", "yield"}
      <4>1. GitHand(p) \subseteq GitPrinted(p, stage[p]) /\ stage[p] \in Git!StagesOf(Git!T, p)
        BY <1>1 DEF GitProgress, GitHolds, GitWhere
      <4>2. s \in Git!StagesOf(Git!T, p) /\ s # stage[p]
        BY <3>1, <3>2 DEF GitLater, GitAfter
      <4>3. GitPrinted(p, s) \cap GitPrinted(p, stage[p]) = {}
        BY <4>1, <4>2, GitPrintedApart
      <4>4. QED
        BY <3>1, <4>1, <4>3
    <3>3. CASE at[p] \notin {"blob", "yield"}
      BY <3>1, <3>3 DEF GitHand
    <3>4. QED
      BY <3>2, <3>3
  <2>3. QED
    BY <1>1, <1>2, <2>1, <2>2 DEF GitFresh
<1>6. QED
  BY <1>3, <1>4, <1>5

(* The other readers keep what they have.                                  *)
LEMMA GitOthersGet ==
  ASSUME GitInv, GitReads, NEW p \in Git!Readers, GitOwn(p), at[p] # "idle",
         GitRead \subseteq GitRead', GitRead' \subseteq GitRead \cup GitHand(p),
         NEW q \in Git!Readers, q # p
  PROVE  GitProgress(q)'
<1>1. /\ GitProgress(q) /\ GitProgress(p) /\ Git!T' = Git!T
      /\ at'[q] = at[q] /\ stage'[q] = stage[q] /\ cur'[q] = cur[q] /\ errs'[q] = errs[q] /\ git'[q] = git[q]
  BY DEF GitReads, GitOwn, GitSame, Git!T
<1>2. /\ \A s : GitPrinted(q, s)' = GitPrinted(q, s)
      /\ \A s : GitAfter(q, s)' = GitAfter(q, s)
      /\ GitLater(q)' = GitLater(q) /\ GitHand(q)' = GitHand(q) /\ GitPipe(q)' = GitPipe(q)
      /\ GitTrouble(q)' = GitTrouble(q)
  BY <1>1 DEF GitPrinted, GitAfter, GitLater, GitHand, GitPipe, GitTrouble
<1>3. GitWhere(q)'
  BY <1>1, <1>2 DEF GitProgress, GitWhere
<1>4. GitGets(q)'
  BY <1>1, <1>2 DEF GitProgress, GitGets
<1>5. GitHolds(q)'
  BY <1>1, <1>2 DEF GitProgress, GitHolds
<1>6. GitFresh(q)'
  <2> SUFFICES ASSUME Git!ReadOnce(Git!T)
               PROVE  GitFresh(q)'
    BY <1>1 DEF GitFresh
  <2>1. GitHand(p) \subseteq GitPrinted(p, stage[p]) /\ stage[p] \in Git!StagesOf(Git!T, p)
    BY <1>1 DEF GitProgress, GitHolds, GitWhere
  <2>2. \A s \in Git!StagesOf(Git!T, q) : GitPrinted(q, s) \cap GitHand(p) = {}
    BY <2>1, GitPrintedApart
  <2>3. GitLater(q) \subseteq Git!StagesOf(Git!T, q)
    BY <1>1 DEF GitProgress, GitWhere, GitLater, GitAfter
  <2>4. (GitHand(q) \cup GitPipe(q)) \cap GitHand(p) = {}
    <3>1. CASE at[q] = "idle"
      <4>1. GitHand(q) = {}
        BY <3>1 DEF GitHand
      <4>2. GitPipe(q) = {}
        <5>1. git[q].stdout = <<>> /\ git[q].out = <<>>
          BY <3>1, GitRow DEF GitReader, GitProcess, Git!NoProcess
        <5>2. QED
          BY <5>1, InputsOfFew DEF GitPipe
      <4>3. QED
        BY <4>1, <4>2
    <3>2. CASE at[q] # "idle"
      <4>1. GitHand(q) \cup GitPipe(q) \subseteq GitPrinted(q, stage[q]) /\ stage[q] \in Git!StagesOf(Git!T, q)
        BY <1>1, <3>2 DEF GitProgress, GitHolds, GitWhere
      <4>2. QED
        BY <2>2, <4>1
    <3>3. QED
      BY <3>1, <3>2
  <2>5. GitRead' \cap (GitHand(q) \cup GitPipe(q)) = {}
    BY <1>1, <2>4 DEF GitProgress, GitFresh
  <2>6. \A s \in GitLater(q) : GitPrinted(q, s) \cap GitRead' = {}
    BY <1>1, <2>2, <2>3 DEF GitProgress, GitFresh
  <2>7. QED
    BY <1>1, <1>2, <2>5, <2>6 DEF GitProgress, GitFresh
<1>7. QED
  BY <1>3, <1>4, <1>5, <1>6 DEF GitProgress

(* So a step of a reader keeps all of it if it keeps the reader's part.    *)
LEMMA GitFrameReads ==
  ASSUME GitInv, GitReads, NEW p \in Git!Readers, GitOwn(p),
         at[p] \notin {"idle", "ended", "returned"}, at'[p] # "idle",
         GitRead \subseteq GitRead', GitRead' \subseteq GitRead \cup GitHand(p),
         GitProgress(p)'
  PROVE  GitReads'
<1>1. \A q \in Git!Readers : GitProgress(q)'
  BY GitOthersGet
<1>2. Git!T' = Git!T
  BY DEF GitOwn, Git!T
<1>3. GitRead' \subseteq Git!AllReads(Git!T)'
  <2>1. GitHand(p) \subseteq GitPrinted(p, stage[p]) /\ stage[p] \in Git!StagesOf(Git!T, p)
    BY DEF GitReads, GitProgress, GitHolds, GitWhere
  <2>2. GitHand(p) \subseteq Git!AllReads(Git!T)
    BY <2>1 DEF Git!AllReads, GitPrinted
  <2>3. QED
    BY <1>2, <2>2 DEF GitReads
<1>4. GitFull'
  <2>1. phase # "returned" /\ UNCHANGED <<phase, verdict, groupErr>>
    BY DEF GitInv, GitPhases, GitOwn, Git!Readers
  <2>2. \A q \in Git!Readers : at'[q] = "idle" => at[q] = "idle"
    BY DEF GitOwn, GitSame
  <2>3. Workers \subseteq Git!Readers
    BY DEF Git!Readers
  <2>4. QED
    BY <1>2, <2>1, <2>2, <2>3 DEF GitReads, GitFull
<1>5. QED
  BY <1>1, <1>3, <1>4 DEF GitReads

(* Steps of the process and of who listens to it, which leave the reader   *)
(* where it is.                                                            *)
LEMMA GitProcessReads ==
  ASSUME GitInv, GitReads, NEW p \in Git!Readers, GitOwn(p), at[p] \notin {"idle", "ended", "returned"},
         UNCHANGED <<at, stage, cur, errs, yielded, lost>>,
         git'[p].stopped = git[p].stopped, GitPipe(p)' \subseteq GitPipe(p),
         git[p].run = "ended" => git'[p].run = "ended" /\ git'[p].stdout = git[p].stdout,
         \/ git'[p].code # "ok"
         \/ git'[p].code = git[p].code /\ GitPipe(p)' = GitPipe(p),
         Git!Separate(git[p].out) => Git!Separate(git'[p].out),
         Git!Separate(git[p].out) /\ Git!InputsIn(git[p].stdout) \cap Git!InputsIn(git[p].out) = {} =>
           Git!InputsIn(git'[p].stdout) \cap Git!InputsIn(git'[p].out) = {}
  PROVE  GitReads'
<1>1. GitProgress(p) /\ Git!T' = Git!T
  BY DEF GitReads, GitOwn, Git!T
<1>2. /\ GitRead' = GitRead /\ GitHand(p)' = GitHand(p) /\ GitLater(p)' = GitLater(p)
      /\ \A s : GitAfter(p, s)' = GitAfter(p, s)
  BY <1>1 DEF GitRead, GitHand, GitLater, GitAfter
<1>3. GitWhere(p)'
  BY <1>1, <1>2 DEF GitProgress, GitWhere
<1>4. GitTrouble(p) \/ GitTrouble(p)' => GitTrouble(p)'
  BY DEF GitTrouble
<1>5. ~GitTrouble(p)' => GitPipe(p)' = GitPipe(p)
  BY DEF GitTrouble
<1>6. GitHand(p)' \cap GitPipe(p)' = {} \/ ~Git!ReadOnce(Git!T)
  BY <1>1, <1>2 DEF GitProgress, GitFresh
<1>7. Git!ReadOnce(Git!T) =>
        /\ Git!Separate(git'[p].out)
        /\ Git!InputsIn(git'[p].stdout) \cap Git!InputsIn(git'[p].out) = {}
        /\ GitHand(p)' \cap GitPipe(p)' = {}
  BY <1>1, <1>6 DEF GitProgress, GitFresh
<1>8. GitGets(p)' /\ GitHolds(p)' /\ GitFresh(p)'
  <2>1. at'[p] # "idle" /\ stage'[p] = stage[p]
    OBVIOUS
  <2>2. \/ GitTrouble(p)'
        \/ /\ ~GitTrouble(p) /\ GitLater(p)' = GitLater(p)
           /\ GitRead \cup GitHand(p) \cup GitPipe(p) \subseteq GitRead' \cup GitHand(p)' \cup GitPipe(p)'
    BY <1>2, <1>4, <1>5
  <2>3. /\ GitRead \subseteq GitRead' /\ GitRead' \subseteq GitRead \cup GitHand(p) /\ GitRead' = GitRead
        /\ GitHand(p)' \cup GitPipe(p)' \subseteq GitHand(p) \cup GitPipe(p)
        /\ GitLater(p)' \subseteq GitLater(p)
    BY <1>2
  <2>4. QED
    BY <1>7, <2>1, <2>2, <2>3, GitGetsOn
<1>9. QED
  BY <1>2, <1>3, <1>8, GitFrameReads DEF GitProgress

LEMMA GitOutputReads ==
  ASSUME GitInv, GitReads, NEW p \in Git!Readers, target' = target,
         Git!GitWrites(p) \/ Git!GitBreaksOff(p) \/ Git!GitEnds(p)
  PROVE  GitReads'
<1> DEFINE g == git[p]
<1>1. /\ GitReader(p) /\ g \in Processes /\ g.out \in Seq(GitLines) /\ g.stdout \in Seq(GitLines)
      /\ g.run = "running" /\ g.code \in {"ok", "exit", "killed", "late"}
  BY GitRow DEF Git!GitWrites, Git!GitBreaksOff, Git!GitEnds
<1>2. at[p] \notin {"idle", "start", "ended", "returned"}
  BY <1>1 DEF GitReader, GitProcess, Git!NoProcess
<1>3. UNCHANGED <<phase, at, stage, cur, errs, groupErr, yielded, lost, verdict>>
  BY DEF Git!GitWrites, Git!GitBreaksOff, Git!GitEnds
<1>4. \A q \in Git!Readers \ {p} : git'[q] = git[q] /\ listener'[q] = listener[q]
  BY DEF Git!GitWrites, Git!GitBreaksOff, Git!GitEnds, GitInv, GitTypes
<1>5. GitOwn(p)
  BY <1>3, <1>4 DEF GitOwn, GitSame
<1>6. CASE Git!GitWrites(p)
  <2> DEFINE x == Head(g.out)
  <2>1. g.out # <<>> /\ Tail(g.out) \in Seq(GitLines)
    BY <1>1, <1>6 DEF Git!GitWrites
  <2>2. \/ /\ x.kind = "warning" /\ git'[p] = [g EXCEPT !.out = Tail(@), !.stderr = <<"warning">>]
        \/ /\ x.kind # "warning" /\ g.stdout = <<>> /\ git'[p] = [g EXCEPT !.out = Tail(@), !.stdout = <<x>>]
    BY <1>6 DEF Git!GitWrites, GitInv, GitTypes, Processes
  <2>3. /\ git'[p].out = Tail(g.out) /\ git'[p].code = g.code /\ git'[p].stopped = g.stopped
        /\ \/ x.kind = "warning" /\ git'[p].stdout = g.stdout
           \/ x.kind # "warning" /\ g.stdout = <<>> /\ git'[p].stdout = <<x>>
    BY <1>1, <2>2 DEF Processes
  <2>4. /\ Git!InputsIn(g.out) = (IF x.kind = "warning" THEN {} ELSE {x.in}) \cup Git!InputsIn(Tail(g.out))
        /\ Git!Separate(g.out) =>
             /\ Git!Separate(Tail(g.out))
             /\ x.kind # "warning" => x.in \notin Git!InputsIn(Tail(g.out))
    BY <1>1, <2>1, InputsFromTheFirst
  <2>5. /\ x.kind = "warning" => Git!InputsIn(git'[p].stdout) = Git!InputsIn(g.stdout)
        /\ x.kind # "warning" => Git!InputsIn(git'[p].stdout) = {x.in} /\ Git!InputsIn(g.stdout) = {}
    BY <2>3, InputsOfFew
  <2> HIDE DEF x
  <2>6. GitPipe(p)' = GitPipe(p)
    BY <2>3, <2>4, <2>5 DEF GitPipe
  <2>7. Git!Separate(g.out) /\ Git!InputsIn(g.stdout) \cap Git!InputsIn(g.out) = {} =>
           Git!InputsIn(git'[p].stdout) \cap Git!InputsIn(git'[p].out) = {}
    BY <2>3, <2>4, <2>5
  <2>8. QED
    BY <1>1, <1>2, <1>3, <1>5, <2>3, <2>4, <2>6, <2>7, GitProcessReads
<1>7. CASE Git!GitBreaksOff(p)
  <2>1. PICK said \in {<<>>, <<"error">>} :
          git'[p] = [g EXCEPT !.out = <<>>, !.run = "ended", !.code = "exit", !.stderr = said]
    BY <1>7 DEF Git!GitBreaksOff, GitInv, GitTypes
  <2>2. /\ git'[p].out = <<>> /\ git'[p].code = "exit" /\ git'[p].stopped = g.stopped
        /\ git'[p].stdout = g.stdout
    BY <1>1, <2>1 DEF Processes
  <2>3. GitPipe(p)' \subseteq GitPipe(p) /\ Git!Separate(git'[p].out) /\ Git!InputsIn(git'[p].out) = {}
    BY <2>2, InputsOfFew DEF GitPipe
  <2>4. QED
    BY <1>1, <1>2, <1>3, <1>5, <2>2, <2>3, GitProcessReads
<1>8. CASE Git!GitEnds(p)
  <2>1. \/ g.out = <<>> /\ git'[p] = [g EXCEPT !.run = "ended"]
        \/ \E code \in {"killed", "late"} : git'[p] = [g EXCEPT !.run = "ended", !.out = <<>>, !.code = code]
    BY <1>8 DEF Git!GitEnds, GitInv, GitTypes
  <2>2. /\ git'[p].out = <<>> /\ git'[p].stopped = g.stopped /\ git'[p].stdout = g.stdout
        /\ \/ g.out = <<>> /\ git'[p].code = g.code
           \/ git'[p].code \in {"killed", "late"}
    <3>1. CASE g.out = <<>> /\ git'[p] = [g EXCEPT !.run = "ended"]
      BY <1>1, <3>1 DEF Processes
    <3>2. CASE \E code \in {"killed", "late"} : git'[p] = [g EXCEPT !.run = "ended", !.out = <<>>, !.code = code]
      BY <1>1, <3>2 DEF Processes
    <3>3. QED
      BY <2>1, <3>1, <3>2
  <2>3. /\ GitPipe(p)' \subseteq GitPipe(p) /\ (g.out = <<>> => GitPipe(p)' = GitPipe(p))
        /\ Git!Separate(git'[p].out) /\ Git!InputsIn(git'[p].out) = {}
    BY <2>2, InputsOfFew DEF GitPipe
  <2>4. git'[p].code # "ok" \/ (git'[p].code = git[p].code /\ GitPipe(p)' = GitPipe(p))
    BY <2>2, <2>3
  <2>5. QED
    BY <1>1, <1>2, <1>3, <1>5, <2>2, <2>3, <2>4, GitProcessReads
<1>9. QED
  BY <1>6, <1>7, <1>8

LEMMA GitListenReads ==
  ASSUME GitInv, GitReads, NEW p \in Git!Readers, target' = target, Git!Listen(p) \/ Git!ListenEnds(p)
  PROVE  GitReads'
<1>1. GitReader(p) /\ git[p] \in Processes
  BY GitRow
<1>2. at[p] \notin {"idle", "start", "ended", "returned"}
  BY <1>1 DEF GitReader, GitProcess, Git!Listen, Git!ListenEnds
<1>3. UNCHANGED <<phase, at, stage, cur, errs, groupErr, yielded, lost, verdict>>
  BY DEF Git!Listen, Git!ListenEnds
<1>4. \A q \in Git!Readers \ {p} : git'[q] = git[q] /\ listener'[q] = listener[q]
  BY DEF Git!Listen, Git!ListenEnds, GitInv, GitTypes
<1>5. GitOwn(p)
  BY <1>3, <1>4 DEF GitOwn, GitSame
<1>6. git'[p] = [git[p] EXCEPT !.stderr = <<>>] \/ git'[p] = git[p]
  BY DEF Git!Listen, Git!ListenEnds, GitInv, GitTypes
<1>7. /\ git'[p].out = git[p].out /\ git'[p].stdout = git[p].stdout /\ git'[p].run = git[p].run
      /\ git'[p].code = git[p].code /\ git'[p].stopped = git[p].stopped
  BY <1>1, <1>6 DEF Processes
<1>8. GitPipe(p)' = GitPipe(p)
  BY <1>7 DEF GitPipe
<1>9. QED
  BY <1>2, <1>3, <1>5, <1>7, <1>8, GitProcessReads

(* A reader that meets an error holds nothing more in hand.                *)
LEMMA GitFailsReads ==
  ASSUME GitInv, GitReads, NEW p \in Git!Readers, target' = target, NEW e, Git!Fails(p, e, "kill"),
         at[p] \in {"read", "yield"},
         UNCHANGED <<phase, stage, cur, git, listener, groupErr, yielded, lost, verdict>>
  PROVE  GitReads'
<1>1. /\ at'[p] = "kill" /\ errs'[p] # {}
      /\ \A q \in Git!Readers \ {p} : at'[q] = at[q] /\ errs'[q] = errs[q]
  BY DEF Git!Fails, GitInv, GitTypes
<1>2. GitOwn(p)
  BY <1>1 DEF GitOwn, GitSame
<1>3. GitProgress(p) /\ Git!T' = Git!T
  BY DEF GitReads, GitOwn, Git!T
<1>4. /\ GitRead' = GitRead /\ GitHand(p)' = {} /\ GitPipe(p)' = GitPipe(p) /\ GitLater(p)' = GitLater(p)
      /\ GitTrouble(p)' /\ \A s : GitAfter(p, s)' = GitAfter(p, s)
  BY <1>1, <1>3 DEF GitRead, GitHand, GitPipe, GitLater, GitAfter, GitTrouble
<1>5. GitWhere(p)'
  BY <1>1, <1>3, <1>4 DEF GitProgress, GitWhere
<1>6. GitGets(p)' /\ GitHolds(p)' /\ GitFresh(p)'
  <2>1. Git!ReadOnce(Git!T) =>
          /\ Git!Separate(git'[p].out)
          /\ Git!InputsIn(git'[p].stdout) \cap Git!InputsIn(git'[p].out) = {}
          /\ GitHand(p)' \cap GitPipe(p)' = {}
    BY <1>3, <1>4 DEF GitProgress, GitFresh
  <2>2. at'[p] # "idle" /\ stage'[p] = stage[p] /\ at[p] # "idle"
    BY <1>1
  <2>3. QED
    BY <1>2, <1>4, <2>1, <2>2, GitGetsOn
<1>7. QED
  BY <1>1, <1>2, <1>4, <1>5, <1>6, GitFrameReads DEF GitProgress

(* A record goes from the pipe into the hand,                              *)
LEMMA GitTakeReads ==
  ASSUME GitInv, GitReads, NEW p \in Git!Readers, Git!ReadRecord(p), target' = target
  PROVE  GitReads'
<1> DEFINE g == git[p]
<1>1. g \in Processes /\ at[p] = "read" /\ g.stdout \in Seq(GitLines)
  BY GitRow DEF Git!ReadRecord
<1>2. CASE /\ g.stdout # <<>> /\ cur' = [cur EXCEPT ![p] = g.stdout]
           /\ git' = [git EXCEPT ![p].stdout = <<>>]
           /\ at' = [at EXCEPT ![p] = IF Head(g.stdout).kind = "archive" THEN "blob" ELSE "yield"]
           /\ UNCHANGED <<errs, faults>>
  <2>1. /\ git'[p] = [g EXCEPT !.stdout = <<>>] /\ cur'[p] = g.stdout /\ at'[p] \in {"blob", "yield"}
        /\ \A q \in Git!Readers \ {p} : git'[q] = git[q] /\ cur'[q] = cur[q] /\ at'[q] = at[q]
    BY <1>2 DEF GitInv, GitTypes
  <2>2. /\ git'[p].out = g.out /\ git'[p].stdout = <<>> /\ git'[p].code = g.code /\ git'[p].stopped = g.stopped
    BY <1>1, <2>1 DEF Processes
  <2>3. GitOwn(p) /\ UNCHANGED <<stage, errs, yielded, lost>>
    BY <1>2, <2>1 DEF GitOwn, GitSame, Git!ReadRecord
  <2>4. GitProgress(p) /\ Git!T' = Git!T
    BY <2>3 DEF GitReads, GitOwn, Git!T
  <2>5. Git!InputsIn(g.stdout) = {Head(g.stdout).in} /\ Git!InputsIn(<<>>) = {}
    BY <1>2, InputsOfPipe, InputsOfFew
  <2>6. /\ GitHand(p)' = Git!InputsIn(g.stdout) /\ GitPipe(p)' = Git!InputsIn(g.out) /\ GitHand(p) = {}
        /\ GitPipe(p) = GitHand(p)' \cup GitPipe(p)'
    BY <1>1, <2>1, <2>2, <2>5 DEF GitHand, GitPipe
  <2>7. /\ GitRead' = GitRead /\ GitLater(p)' = GitLater(p)
        /\ GitTrouble(p)' = GitTrouble(p) /\ \A s : GitAfter(p, s)' = GitAfter(p, s)
    BY <1>1, <2>1, <2>2, <2>3, <2>4 DEF GitRead, GitLater, GitAfter, GitTrouble
  <2>8. GitWhere(p)'
    BY <1>1, <2>1, <2>2, <2>3, <2>4, <2>7 DEF GitProgress, GitWhere
  <2>9. Git!ReadOnce(Git!T) =>
          /\ Git!Separate(git'[p].out)
          /\ Git!InputsIn(git'[p].stdout) \cap Git!InputsIn(git'[p].out) = {}
          /\ GitHand(p)' \cap GitPipe(p)' = {}
    BY <2>2, <2>4, <2>5, <2>6 DEF GitProgress, GitFresh
  <2>10. GitGets(p)' /\ GitHolds(p)' /\ GitFresh(p)'
    <3>1. at'[p] # "idle" /\ stage'[p] = stage[p] /\ at[p] # "idle"
      BY <1>1, <2>1, <2>3
    <3>2. GitTrouble(p)' \/
            /\ ~GitTrouble(p) /\ GitLater(p)' = GitLater(p)
            /\ GitRead \cup GitHand(p) \cup GitPipe(p) \subseteq GitRead' \cup GitHand(p)' \cup GitPipe(p)'
      BY <2>6, <2>7 DEF GitTrouble
    <3>3. GitHand(p)' \cup GitPipe(p)' \subseteq GitHand(p) \cup GitPipe(p)
      BY <2>6
    <3>4. QED
      BY <2>3, <2>7, <2>9, <3>1, <3>2, <3>3, GitGetsOn
  <2>11. QED
    BY <1>1, <2>1, <2>3, <2>7, <2>8, <2>10, GitFrameReads DEF GitProgress
<1>3. CASE \E e : Git!Fails(p, e, "kill") /\ UNCHANGED <<cur, git>>
  BY <1>1, <1>3, GitFailsReads DEF Git!ReadRecord
<1>4. QED
  BY <1>2, <1>3 DEF Git!ReadRecord

(* and from there to what was read, or was lost.                           *)
LEMMA GitHandReads ==
  ASSUME GitInv, GitReads, NEW p \in Git!Readers, Git!OpenBlob(p) \/ Git!YieldAccepts(p), target' = target
  PROVE  GitReads'
<1>1. /\ at[p] \in {"blob", "yield"} /\ at'[p] \in {"yield", "read"}
      /\ UNCHANGED <<phase, stage, cur, errs, git, listener, groupErr, verdict>>
      /\ \A q \in Git!Readers \ {p} : at'[q] = at[q]
  BY DEF Git!OpenBlob, Git!YieldAccepts, GitInv, GitTypes
<1>2. GitRead' = IF at'[p] = "read" THEN GitRead \cup {Head(cur[p]).in} ELSE GitRead
  BY DEF Git!OpenBlob, Git!YieldAccepts, GitInv, GitTypes, GitRead
<1>3. GitOwn(p)
  BY <1>1 DEF GitOwn, GitSame
<1>4. GitProgress(p) /\ Git!T' = Git!T
  BY <1>3 DEF GitReads, GitOwn, Git!T
<1>5. /\ GitHand(p) = {Head(cur[p]).in} /\ GitPipe(p)' = GitPipe(p) /\ GitLater(p)' = GitLater(p)
      /\ GitHand(p)' = (IF at'[p] = "read" THEN {} ELSE GitHand(p))
      /\ GitTrouble(p)' = GitTrouble(p) /\ \A s : GitAfter(p, s)' = GitAfter(p, s)
  BY <1>1, <1>4 DEF GitHand, GitPipe, GitLater, GitAfter, GitTrouble
<1>6. GitWhere(p)'
  BY <1>1, <1>4, <1>5 DEF GitProgress, GitWhere
<1>7. /\ GitRead \subseteq GitRead' /\ GitRead' \subseteq GitRead \cup GitHand(p)
      /\ GitHand(p)' \cup GitPipe(p)' \subseteq GitHand(p) \cup GitPipe(p)
      /\ GitRead' = GitRead \/ (GitHand(p)' = {} /\ GitPipe(p)' \subseteq GitPipe(p))
      /\ GitRead \cup GitHand(p) \cup GitPipe(p) \subseteq GitRead' \cup GitHand(p)' \cup GitPipe(p)'
  BY <1>2, <1>5
<1>8. Git!ReadOnce(Git!T) =>
        /\ Git!Separate(git'[p].out)
        /\ Git!InputsIn(git'[p].stdout) \cap Git!InputsIn(git'[p].out) = {}
        /\ GitHand(p)' \cap GitPipe(p)' = {}
  BY <1>1, <1>4, <1>5 DEF GitProgress, GitFresh
<1>9. GitGets(p)' /\ GitHolds(p)' /\ GitFresh(p)'
  <2>1. at'[p] # "idle" /\ stage'[p] = stage[p] /\ at[p] # "idle" /\ GitLater(p)' \subseteq GitLater(p)
    BY <1>1, <1>5
  <2>2. GitTrouble(p)' \/
          /\ ~GitTrouble(p) /\ GitLater(p)' = GitLater(p)
          /\ GitRead \cup GitHand(p) \cup GitPipe(p) \subseteq GitRead' \cup GitHand(p)' \cup GitPipe(p)'
    BY <1>5, <1>7 DEF GitTrouble
  <2>3. QED
    BY <1>3, <1>7, <1>8, <2>1, <2>2, GitGetsOn
<1>10. QED
  BY <1>1, <1>3, <1>6, <1>7, <1>9, GitFrameReads DEF GitProgress

(* A reader on its way to Wait: nothing is left in its pipe, or it has an  *)
(* error.                                                                  *)
LEMMA GitWindsUpReads ==
  ASSUME GitInv, GitReads, NEW p \in Git!Readers, GitOwn(p),
         at[p] \in {"read", "kill", "drain"}, at'[p] \in {"drain", "wait"},
         UNCHANGED <<stage, yielded, lost>>, errs[p] # {} => errs'[p] # {},
         errs'[p] # {} \/ (git'[p].stdout = <<>> /\ git'[p].run = "ended"),
         git'[p].stopped => errs'[p] # {},
         git'[p].stdout = git[p].stdout,
         git'[p].out = git[p].out \/ (git'[p].out = <<>> /\ errs'[p] # {}),
         git'[p].code = git[p].code \/ errs'[p] # {}
  PROVE  GitReads'
<1>1. GitProgress(p) /\ Git!T' = Git!T
  BY DEF GitReads, GitOwn, Git!T
<1>2. /\ GitRead' = GitRead /\ GitHand(p) = {} /\ GitHand(p)' = {} /\ GitLater(p)' = GitLater(p)
      /\ \A s : GitAfter(p, s)' = GitAfter(p, s)
  BY <1>1 DEF GitRead, GitHand, GitLater, GitAfter
<1>3. GitWhere(p)'
  BY <1>1, <1>2 DEF GitProgress, GitWhere
<1>4. GitTrouble(p) => GitTrouble(p)'
  BY DEF GitTrouble
<1>5. /\ GitPipe(p)' \subseteq GitPipe(p) /\ (~GitTrouble(p)' => GitPipe(p)' = GitPipe(p))
      /\ Git!Separate(git[p].out) => Git!Separate(git'[p].out)
      /\ Git!InputsIn(git'[p].out) \subseteq Git!InputsIn(git[p].out)
  BY InputsOfFew DEF GitPipe, GitTrouble
<1>6. Git!ReadOnce(Git!T) =>
        /\ Git!Separate(git'[p].out)
        /\ Git!InputsIn(git'[p].stdout) \cap Git!InputsIn(git'[p].out) = {}
        /\ GitHand(p)' \cap GitPipe(p)' = {}
  BY <1>1, <1>2, <1>5 DEF GitProgress, GitFresh
<1>7. GitGets(p)' /\ GitHolds(p)' /\ GitFresh(p)'
  <2>1. at'[p] # "idle" /\ stage'[p] = stage[p] /\ at[p] # "idle" /\ GitLater(p)' \subseteq GitLater(p)
    BY <1>2
  <2>2. GitTrouble(p)' \/
          /\ ~GitTrouble(p) /\ GitLater(p)' = GitLater(p)
          /\ GitRead \cup GitHand(p) \cup GitPipe(p) \subseteq GitRead' \cup GitHand(p)' \cup GitPipe(p)'
    BY <1>2, <1>4, <1>5
  <2>3. GitHand(p)' \cup GitPipe(p)' \subseteq GitHand(p) \cup GitPipe(p) /\ GitRead' = GitRead
    BY <1>2, <1>5
  <2>4. QED
    BY <1>6, <2>1, <2>2, <2>3, GitGetsOn
<1>8. QED
  BY <1>2, <1>3, <1>7, GitFrameReads DEF GitProgress

LEMMA GitEndingReads ==
  ASSUME GitInv, GitReads, NEW p \in Git!Readers, target' = target,
         Git!ReadEnd(p) \/ Git!Kill(p) \/ Git!Drain(p)
  PROVE  GitReads'
<1>1. GitProgress(p) /\ git[p] \in Processes
  BY GitRow DEF GitReads
<1>2. CASE Git!ReadEnd(p)
  <2>1. CASE \E e : Git!Fails(p, e, "kill")
    BY <1>2, <2>1, GitFailsReads DEF Git!ReadEnd
  <2>2. CASE at' = [at EXCEPT ![p] = "drain"] /\ UNCHANGED errs
    <3>1. at[p] = "read" /\ at'[p] = "drain" /\ \A q \in Git!Readers \ {p} : at'[q] = at[q]
      BY <1>2, <2>2 DEF Git!ReadEnd, GitInv, GitTypes
    <3>2. /\ UNCHANGED <<phase, stage, cur, errs, git, listener, groupErr, yielded, lost, verdict>>
          /\ git[p].stdout = <<>> /\ git[p].run = "ended"
      BY <1>2, <2>2 DEF Git!ReadEnd
    <3>3. GitOwn(p)
      BY <3>1, <3>2 DEF GitOwn, GitSame
    <3>4. git'[p].stopped => errs'[p] # {}
      BY <1>1, <3>2 DEF GitProgress, GitWhere
    <3>5. QED
      BY <3>1, <3>2, <3>3, <3>4, GitWindsUpReads
  <2>3. QED
    BY <1>2, <2>1, <2>2 DEF Git!ReadEnd
<1>3. CASE Git!Kill(p)
  <2>1. /\ at[p] = "kill" /\ at'[p] = "drain" /\ \A q \in Git!Readers \ {p} : at'[q] = at[q] /\ git'[q] = git[q]
        /\ UNCHANGED <<phase, stage, cur, errs, listener, groupErr, yielded, lost, verdict>>
    BY <1>3 DEF Git!Kill, GitInv, GitTypes
  <2>2. \/ git'[p] = [git[p] EXCEPT !.run = "ended", !.out = <<>>, !.code = "killed", !.stopped = TRUE]
        \/ git'[p] = [git[p] EXCEPT !.stopped = TRUE]
    BY <1>3 DEF Git!Kill, GitInv, GitTypes
  <2>3. errs[p] # {}
    BY <1>1, <2>1 DEF GitProgress, GitWhere
  <2>4. git'[p].stdout = git[p].stdout /\ git'[p].out \in {git[p].out, <<>>}
    <3>1. CASE git'[p] = [git[p] EXCEPT !.run = "ended", !.out = <<>>, !.code = "killed", !.stopped = TRUE]
      BY <1>1, <3>1 DEF Processes
    <3>2. CASE git'[p] = [git[p] EXCEPT !.stopped = TRUE]
      BY <1>1, <3>2 DEF Processes
    <3>3. QED
      BY <2>2, <3>1, <3>2
  <2>5. GitOwn(p)
    BY <2>1 DEF GitOwn, GitSame
  <2>6. QED
    BY <2>1, <2>3, <2>4, <2>5, GitWindsUpReads
<1>4. CASE Git!Drain(p)
  <2>1. /\ at[p] = "drain" /\ at'[p] \in {"drain", "wait"}
        /\ errs'[p] = errs[p] \/ errs'[p] = errs[p] \cup {"fail"}
        /\ \A q \in Git!Readers \ {p} : at'[q] = at[q] /\ errs'[q] = errs[q] /\ listener'[q] = listener[q]
        /\ UNCHANGED <<phase, stage, cur, git, groupErr, yielded, lost, verdict>>
    BY <1>4 DEF Git!Drain, GitInv, GitTypes
  <2>2. GitOwn(p)
    BY <2>1 DEF GitOwn, GitSame
  <2>3. errs[p] # {} => errs'[p] # {}
    BY <2>1
  <2>4. /\ git[p].stopped => errs[p] # {}
        /\ errs[p] # {} \/ (git[p].stdout = <<>> /\ git[p].run = "ended")
    BY <1>1, <2>1 DEF GitProgress, GitWhere
  <2>5. QED
    BY <2>1, <2>2, <2>3, <2>4, GitWindsUpReads
<1>5. QED
  BY <1>2, <1>3, <1>4

(* A process is started for what the stage prints.                         *)
LEMMA GitStartReads ==
  ASSUME GitInv, GitReads, NEW p \in Git!Readers, Git!Start(p), target' = target
  PROVE  GitReads'
<1>1. /\ at[p] = "start" /\ UNCHANGED <<phase, stage, cur, groupErr, yielded, lost, verdict>>
      /\ GitReader(p) /\ errs[p] = {}
  BY GitRow DEF Git!Start, GitReader, GitErrors
<1>2. git[p] = Git!NoProcess
  BY <1>1 DEF GitReader, GitProcess
<1>3. /\ at'[p] \in {"ended", "read"}
      /\ at'[p] = "ended" => errs'[p] # {} /\ git'[p] = git[p]
      /\ at'[p] = "read" => /\ git'[p] = [Git!NoProcess EXCEPT !.run = "running", !.out = Git!Prints(Git!T, p, stage[p])]
                            /\ errs'[p] = {}
      /\ \A q \in Git!Readers \ {p} : at'[q] = at[q] /\ errs'[q] = errs[q] /\ git'[q] = git[q]
                                      /\ listener'[q] = listener[q]
  <2>1. CASE Git!Done(p)
    <3>1. at' = [at EXCEPT ![p] = "ended"] /\ errs' = [errs EXCEPT ![p] = errs[p] \cup {"canceled"}]
          /\ UNCHANGED <<git, listener>>
      BY <2>1 DEF Git!Start
    <3>2. QED
      BY <3>1 DEF GitInv, GitTypes
  <2>2. CASE ~Git!Done(p)
    <3> DEFINE new == [Git!NoProcess EXCEPT !.run = "running", !.out = Git!Prints(Git!T, p, stage[p])]
    <3>1. /\ at' = [at EXCEPT ![p] = "read"] /\ git' = [git EXCEPT ![p] = new] /\ UNCHANGED errs
          /\ listener' = [listener EXCEPT ![p] = IF stage[p] = "log" THEN "quiet" ELSE "none"]
      BY <2>2 DEF Git!Start
    <3> HIDE DEF new
    <3>2. /\ at'[p] = "read" /\ git'[p] = new /\ errs'[p] = {}
          /\ \A q \in Git!Readers \ {p} : at'[q] = at[q] /\ errs'[q] = errs[q] /\ git'[q] = git[q]
                                          /\ listener'[q] = listener[q]
      BY <1>1, <3>1 DEF GitInv, GitTypes
    <3>3. QED
      BY <3>2 DEF new
  <2>3. QED
    BY <2>1, <2>2
<1>4. GitOwn(p)
  BY <1>1, <1>3 DEF GitOwn, GitSame
<1>5. GitProgress(p) /\ Git!T' = Git!T /\ stage[p] \in Git!StagesOf(Git!T, p)
  <2>1. GitProgress(p) /\ Git!T' = Git!T
    BY <1>4 DEF GitReads, GitOwn, Git!T
  <2>2. QED
    BY <1>1, <2>1 DEF GitProgress, GitWhere
<1>6. /\ GitRead' = GitRead /\ GitHand(p) = {} /\ GitHand(p)' = {}
      /\ \A s : GitAfter(p, s)' = GitAfter(p, s) /\ GitPrinted(p, s)' = GitPrinted(p, s)
      /\ GitLater(p) = {stage[p]} \cup GitAfter(p, stage[p]) /\ GitLater(p)' = GitAfter(p, stage[p])
      /\ stage[p] \notin GitAfter(p, stage[p])
  BY <1>1, <1>3, <1>5 DEF GitRead, GitHand, GitLater, GitAfter, GitPrinted
<1>7. Git!NoProcess.out = <<>> /\ Git!NoProcess.stdout = <<>> /\ Git!NoProcess.code = "ok" /\ ~Git!NoProcess.stopped
  BY DEF Git!NoProcess
<1>8. GitPipe(p) = {}
  BY <1>2, <1>7, InputsOfFew DEF GitPipe
<1>9. CASE at'[p] = "ended"
  <2>1. GitPipe(p)' = {} /\ Git!Separate(git'[p].out) /\ Git!InputsIn(git'[p].out) = {}
    BY <1>2, <1>3, <1>7, <1>9, InputsOfFew DEF GitPipe
  <2>2. GitWhere(p)'
    BY <1>1, <1>3, <1>5, <1>9 DEF GitWhere, GitProgress
  <2>3. GitGets(p)'
    BY <1>3, <1>9 DEF GitGets, GitTrouble
  <2>4. GitHolds(p)' /\ GitFresh(p)'
    BY <1>5, <1>6, <2>1 DEF GitHolds, GitFresh, GitProgress
  <2>5. QED
    BY <1>1, <1>3, <1>4, <1>6, <2>2, <2>3, <2>4, GitFrameReads DEF GitProgress
<1>10. CASE at'[p] = "read"
  <2> DEFINE prints == Git!Prints(Git!T, p, stage[p])
  <2>1. git'[p] = [Git!NoProcess EXCEPT !.run = "running", !.out = prints] /\ errs'[p] = {}
    BY <1>3, <1>10
  <2> HIDE DEF prints
  <2>2. /\ git'[p].out = prints /\ git'[p].stdout = <<>> /\ git'[p].code = "ok" /\ ~git'[p].stopped
    BY <2>1 DEF Git!NoProcess
  <2>3. GitPipe(p)' = GitPrinted(p, stage[p]) /\ Git!InputsIn(git'[p].stdout) = {}
    BY <2>2, InputsOfFew DEF GitPipe, GitPrinted, prints
  <2>4. GitWhere(p)'
    BY <1>1, <1>5, <1>10, <2>2 DEF GitWhere
  <2>5. GitGets(p)'
    <3>1. ~GitTrouble(p)
      BY <1>1, <1>2, <1>7 DEF GitTrouble
    <3>2. ASSUME NEW s \in Git!StagesOf(Git!T, p) \ GitLater(p)'
          PROVE  GitPrinted(p, s) \subseteq GitRead' \cup GitPipe(p)'
      <4>1. CASE s = stage[p]
        BY <2>3, <4>1
      <4>2. CASE s # stage[p]
        BY <1>5, <1>6, <1>8, <3>1, <3>2, <4>2 DEF GitProgress, GitGets
      <4>3. QED
        BY <4>1, <4>2
    <3>3. QED
      BY <1>5, <1>6, <3>2 DEF GitGets
  <2>6. GitHolds(p)'
    BY <1>1, <1>6, <2>3 DEF GitHolds
  <2>7. GitFresh(p)'
    <3> SUFFICES ASSUME Git!ReadOnce(Git!T)
                 PROVE  GitFresh(p)'
      BY <1>5 DEF GitFresh
    <3>1. Git!Separate(git'[p].out)
      BY <1>5, <2>2 DEF Git!ReadOnce, prints
    <3>2. GitRead \cap GitPrinted(p, stage[p]) = {} /\ \A s \in GitLater(p)' : GitPrinted(p, s) \cap GitRead = {}
      BY <1>5, <1>6 DEF GitProgress, GitFresh
    <3>3. QED
      BY <1>6, <2>3, <3>1, <3>2 DEF GitFresh
  <2>8. QED
    BY <1>1, <1>4, <1>6, <1>10, <2>4, <2>5, <2>6, <2>7, GitFrameReads DEF GitProgress
<1>11. QED
  BY <1>3, <1>9, <1>10

(* The stages follow each other until none is left.                        *)
LEMMA GitFollows ==
  ASSUME NEW p \in Git!Readers, NEW s \in Git!StagesOf(Git!T, p)
  PROVE  /\ Git!Follows(p, s) = "end" => GitAfter(p, s) = {}
         /\ Git!Follows(p, s) # "end" =>
              /\ Git!Follows(p, s) \in Git!StagesOf(Git!T, p)
              /\ GitAfter(p, s) = {Git!Follows(p, s)} \cup GitAfter(p, Git!Follows(p, s))
<1>1. s \in {"log", "messages", "reflogs", "tags"}
  BY DEF Git!StagesOf, Git!Stages
<1>2. CASE p = "main"
  BY <1>1, <1>2 DEF Git!StagesOf, Git!Follows, GitAfter, Git!Stages
<1>3. CASE p # "main"
  BY <1>1, <1>3 DEF Git!StagesOf, Git!Follows, GitAfter
<1>4. QED
  BY <1>2, <1>3

(* A reader that has read its stage to the end goes on with the next.      *)
LEMMA GitWaitReads ==
  ASSUME GitInv, GitReads, NEW p \in Git!Readers, Git!WaitProcess(p), target' = target
  PROVE  GitReads'
<1> DEFINE next == Git!Follows(p, stage[p])
<1>1. /\ at[p] = "wait" /\ UNCHANGED <<phase, cur, listener, groupErr, yielded, lost, verdict>>
      /\ git'[p] = Git!NoProcess
      /\ \A q \in Git!Readers \ {p} : git'[q] = git[q]
  BY DEF Git!WaitProcess, GitInv, GitTypes
<1>2. /\ \A q \in Git!Readers \ {p} : errs'[q] = errs[q]
      /\ errs'[p] = IF stage[p] = "log" \/ errs[p] = {} THEN errs[p] \cup Git!WaitError(p) ELSE errs[p]
  BY DEF Git!WaitProcess, GitInv, GitTypes
<1>3. /\ \A q \in Git!Readers \ {p} : at'[q] = at[q] /\ stage'[q] = stage[q]
      /\ \/ at'[p] = "start" /\ stage'[p] = next /\ next # "end" /\ errs'[p] = {}
         \/ at'[p] = "ended" /\ stage'[p] = stage[p] /\ (errs'[p] # {} \/ next = "end")
  BY <1>2 DEF Git!WaitProcess, GitInv, GitTypes
<1>4. GitOwn(p)
  BY <1>1, <1>2, <1>3 DEF GitOwn, GitSame
<1>5. GitProgress(p) /\ Git!T' = Git!T /\ stage[p] \in Git!StagesOf(Git!T, p)
  <2>1. GitProgress(p) /\ Git!T' = Git!T
    BY <1>4 DEF GitReads, GitOwn, Git!T
  <2>2. QED
    BY <1>1, <2>1 DEF GitProgress, GitWhere
<1>6. GitReader(p) /\ git[p].code \in {"ok", "exit", "killed", "late"}
  BY GitRow
<1>7. errs'[p] = {} => ~GitTrouble(p) /\ git[p].stdout = <<>> /\ git[p].run = "ended"
  <2> SUFFICES ASSUME errs'[p] = {}
               PROVE  ~GitTrouble(p) /\ git[p].stdout = <<>> /\ git[p].run = "ended"
    OBVIOUS
  <2>1. errs[p] = {} /\ Git!WaitError(p) = {}
    BY <1>2
  <2>2. ~git[p].stopped /\ git[p].stdout = <<>> /\ git[p].run = "ended"
    BY <1>1, <1>5, <2>1 DEF GitProgress, GitWhere
  <2>3. git[p].code = "ok"
    BY <1>6, <2>1, <2>2 DEF Git!WaitError
  <2>4. QED
    BY <2>1, <2>2, <2>3 DEF GitTrouble
<1>8. Git!NoProcess.out = <<>> /\ Git!NoProcess.stdout = <<>> /\ Git!NoProcess.code = "ok" /\ ~Git!NoProcess.stopped
  BY DEF Git!NoProcess
<1>9. /\ GitPipe(p)' = {} /\ Git!Separate(git'[p].out) /\ Git!InputsIn(git'[p].out) = {}
      /\ Git!InputsIn(git'[p].stdout) = {}
  BY <1>1, <1>8, InputsOfFew DEF GitPipe
<1>10. /\ GitRead' = GitRead /\ GitHand(p) = {} /\ GitHand(p)' = {}
       /\ \A s : GitAfter(p, s)' = GitAfter(p, s) /\ GitPrinted(p, s)' = GitPrinted(p, s)
       /\ GitLater(p) = GitAfter(p, stage[p])
  BY <1>1, <1>3, <1>5 DEF GitRead, GitHand, GitLater, GitAfter, GitPrinted
<1>11. /\ next = "end" => GitAfter(p, stage[p]) = {}
       /\ next # "end" => next \in Git!StagesOf(Git!T, p) /\ GitAfter(p, stage[p]) = {next} \cup GitAfter(p, next)
  BY <1>5, GitFollows
<1> HIDE DEF next
<1>12. GitLater(p)' = GitLater(p)
  <2>1. GitAfter(p, stage[p])' = GitAfter(p, stage'[p])
    BY <1>5 DEF GitAfter
  <2>2. GitLater(p)' = IF at'[p] = "start" THEN {stage'[p]} \cup GitAfter(p, stage'[p]) ELSE GitAfter(p, stage'[p])
    BY <1>3, <2>1 DEF GitLater
  <2>3. QED
    BY <1>3, <1>10, <1>11, <2>2
<1>13. GitWhere(p)'
  BY <1>1, <1>3, <1>5, <1>8, <1>10, <1>11 DEF GitWhere
<1>14. GitGets(p)'
  <2> SUFFICES ASSUME errs'[p] = {}
               PROVE  GitGets(p)'
    BY DEF GitGets, GitTrouble
  <2>1. GitPipe(p) = {}
    BY <1>6, <1>7, InputsOfFew DEF GitReader, GitProcess, GitPipe
  <2>2. QED
    BY <1>5, <1>7, <1>10, <1>12, <2>1 DEF GitProgress, GitGets
<1>15. GitHolds(p)' /\ GitFresh(p)'
  BY <1>5, <1>9, <1>10, <1>12 DEF GitHolds, GitFresh, GitProgress
<1>16. QED
  BY <1>1, <1>3, <1>4, <1>10, <1>13, <1>14, <1>15, GitFrameReads DEF GitProgress

(* Fragments starts readers at the first of their stages, and returns.     *)
LEMMA GitControlReads ==
  ASSUME GitInv, GitReads, UNCHANGED <<target, cur, errs, git, yielded, lost>>,
         NEW p \in Git!Readers,
         \/ at'[p] = at[p] /\ stage'[p] = stage[p]
         \/ /\ at[p] = "idle" /\ at'[p] = "start"
            /\ stage'[p] \in Git!StagesOf(Git!T, p)
            /\ Git!StagesOf(Git!T, p) \subseteq {stage'[p]} \cup GitAfter(p, stage'[p])
         \/ at[p] = "ended" /\ at'[p] = "returned" /\ stage'[p] = stage[p]
  PROVE  GitProgress(p)'
<1>1. GitProgress(p) /\ Git!T' = Git!T
  BY DEF GitReads, Git!T
<1>2. /\ \A s : GitPrinted(p, s)' = GitPrinted(p, s)
      /\ GitAfter(p, stage[p])' = GitAfter(p, stage'[p])
      /\ GitRead' = GitRead /\ GitHand(p)' = GitHand(p) /\ GitPipe(p)' = GitPipe(p)
      /\ GitTrouble(p)' = GitTrouble(p)
  BY <1>1 DEF GitPrinted, GitAfter, GitRead, GitHand, GitPipe, GitTrouble
<1>3. GitLater(p)' = GitLater(p)
  BY <1>1, <1>2 DEF GitLater, GitAfter
<1>4. GitWhere(p)'
  BY <1>1, <1>2 DEF GitProgress, GitWhere
<1>5. GitGets(p)'
  BY <1>1, <1>2, <1>3 DEF GitProgress, GitGets
<1>6. GitHolds(p)'
  <2>1. at[p] = "idle" => GitHand(p) \cup GitPipe(p) = {}
    BY GitRow, InputsOfFew DEF GitReader, GitProcess, Git!NoProcess, GitHand, GitPipe
  <2>2. QED
    BY <1>1, <1>2, <2>1 DEF GitProgress, GitHolds
<1>7. GitFresh(p)'
  BY <1>1, <1>2, <1>3 DEF GitProgress, GitFresh
<1>8. QED
  BY <1>4, <1>5, <1>6, <1>7 DEF GitProgress

LEMMA GitStepReads ==
  ASSUME GitInv, GitReads, Git!Control
  PROVE  GitReads'
<1>1. UNCHANGED <<target, cur, errs, git, yielded, lost>>
  BY DEF Git!Control, Git!Begin, Git!Join, Git!Finish, Git!WorkerReturns, Git!reader
<1>2. Git!T' = Git!T /\ GitRead' = GitRead /\ GitRead' \subseteq Git!AllReads(Git!T)'
  BY <1>1 DEF Git!T, GitRead, GitReads
<1>3. \A p \in Git!Readers : GitProgress(p)
  BY DEF GitReads
<1>4. "main" \in Git!Readers /\ "main" \notin Workers /\ Workers \subseteq Git!Readers
  BY InstancesAreAdmissible DEF Git!Readers, Git!Assumptions
<1>5. CASE Git!Begin
  <2>1. UNCHANGED stage /\ \A p \in Git!Readers : at[p] = "idle" /\ stage[p] = "log"
    BY <1>3, <1>5 DEF Git!Begin, GitInv, GitPhases, GitProgress, GitWhere
  <2>2. \/ /\ Git!T.full /\ phase' = "reading" /\ at'["main"] = "start"
           /\ \A p \in Workers : at'[p] = at[p]
        \/ /\ ~Git!T.full /\ phase' = "workers" /\ at'["main"] = at["main"]
           /\ \A p \in Workers : at'[p] = IF Git!Chunk(Git!T, p) # <<>> THEN "start" ELSE at[p]
        \/ phase' = "returned" /\ verdict' # {} /\ UNCHANGED at
    BY <1>4, <1>5 DEF Git!Begin, Git!Return, GitInv, GitTypes
  <2>3. \A p \in Git!Readers :
          \/ at'[p] = at[p]
          \/ at'[p] = "start" /\ "log" \in Git!StagesOf(Git!T, p)
    BY <1>4, <2>2 DEF Git!StagesOf, Git!Stages, Git!Readers
  <2>4. \A p \in Git!Readers : Git!StagesOf(Git!T, p) \subseteq {"log"} \cup GitAfter(p, "log")
    BY DEF GitAfter
  <2>5. \A p \in Git!Readers : GitProgress(p)'
    BY <1>1, <2>1, <2>3, <2>4, GitControlReads
  <2>6. GitFull'
    BY <1>2, <1>4, <2>2 DEF GitFull, Git!StagesOf
  <2>7. QED
    BY <1>2, <2>5, <2>6 DEF GitReads
<1>6. CASE Git!Join
  <2>1. phase = "workers" /\ ~Git!T.full /\ at["main"] = "idle" /\ errs["main"] = {} /\ stage["main"] = "log"
    BY <1>3, <1>4, <1>6, GitRow DEF Git!Join, GitReads, GitFull, GitInv, GitPhases, GitProgress, GitWhere,
         GitReader, GitErrors
  <2>2. /\ Git!Follows("main", "messages") \in {"reflogs", "tags", "end"}
        /\ Git!Follows("main", "messages") = "end" => Git!StagesOf(Git!T, "main") = {}
        /\ Git!Follows("main", "messages") # "end" =>
             /\ Git!Follows("main", "messages") \in Git!StagesOf(Git!T, "main")
             /\ Git!StagesOf(Git!T, "main") \subseteq
                  {Git!Follows("main", "messages")} \cup GitAfter("main", Git!Follows("main", "messages"))
    BY <2>1 DEF Git!Follows, Git!StagesOf, Git!Stages, GitAfter
  <2>3. \/ /\ Git!Follows("main", "messages") # "end" /\ phase' = "reading" /\ at'["main"] = "start"
           /\ stage'["main"] = Git!Follows("main", "messages")
           /\ \A p \in Workers : at'[p] = at[p] /\ stage'[p] = stage[p]
        \/ /\ phase' = "returned" /\ verdict' = groupErr /\ UNCHANGED <<at, stage>>
           /\ groupErr = {} => Git!Follows("main", "messages") = "end"
    BY <1>4, <1>6 DEF Git!Join, Git!Return, GitInv, GitTypes
  <2>4. \A p \in Workers : at[p] = "idle" => Git!StagesOf(Git!T, p) = {}
    BY <2>1 DEF GitReads, GitFull
  <2>5. \A p \in Git!Readers : GitProgress(p)'
    <3>1. \A p \in Workers : GitProgress(p)'
      BY <1>1, <1>4, <2>3, GitControlReads
    <3>2. GitProgress("main")'
      BY <1>1, <1>4, <2>1, <2>2, <2>3, GitControlReads
    <3>3. QED
      BY <3>1, <3>2 DEF Git!Readers
  <2>6. GitFull'
    <3>1. groupErr' = groupErr /\ errs' = errs
      BY <1>6 DEF Git!Join
    <3>2. QED
      BY <1>2, <1>4, <2>1, <2>2, <2>3, <2>4, <3>1 DEF GitFull
  <2>7. QED
    BY <1>2, <2>5, <2>6 DEF GitReads
<1>7. CASE Git!Finish
  <2>1. /\ phase = "reading" /\ phase' = "returned" /\ verdict' = errs["main"] /\ at["main"] = "ended"
        /\ UNCHANGED <<at, stage, errs, groupErr>>
    BY <1>7 DEF Git!Finish, Git!Return, Git!reader
  <2>2. groupErr = {}
    BY <2>1 DEF GitInv, GitPhases
  <2>3. \A p \in Git!Readers : GitProgress(p)'
    BY <1>1, <2>1, GitControlReads
  <2>4. GitFull'
    BY <1>2, <2>1, <2>2 DEF GitReads, GitFull
  <2>5. QED
    BY <1>2, <2>3, <2>4 DEF GitReads
<1>8. CASE \E p \in Workers : Git!WorkerReturns(p)
  <2>1. PICK p \in Workers : Git!WorkerReturns(p)
    BY <1>8
  <2>2. /\ at[p] = "ended" /\ at'[p] = "returned" /\ UNCHANGED <<phase, stage, verdict>>
        /\ \A q \in Git!Readers \ {p} : at'[q] = at[q]
    BY <1>4, <2>1 DEF Git!WorkerReturns, GitInv, GitTypes
  <2>3. phase # "returned"
    BY <2>2 DEF GitInv, GitPhases
  <2>4. \A q \in Git!Readers : GitProgress(q)'
    BY <1>1, <2>2, GitControlReads
  <2>5. GitFull'
    BY <1>2, <1>4, <2>2, <2>3 DEF GitReads, GitFull
  <2>6. QED
    BY <1>2, <2>4, <2>5 DEF GitReads
<1>9. QED
  BY <1>5, <1>6, <1>7, <1>8 DEF Git!Control

(* So every step of GitSource does, and it holds at the beginning.         *)
LEMMA GitNextReads ==
  ASSUME GitInv, GitReads, Git!Next
  PROVE  GitReads'
<1>1. CASE Git!Cancel \/ Git!Finished
  <2>1. UNCHANGED <<target, phase, at, stage, cur, errs, git, groupErr, yielded, lost, verdict>>
    BY <1>1 DEF Git!Cancel, Git!Finished, Git!vars, Git!reader
  <2>2. Git!T' = Git!T /\ GitRead' = GitRead /\ GitFull'
    BY <2>1 DEF Git!T, GitRead, GitReads, GitFull
  <2>3. \A p \in Git!Readers : GitProgress(p)'
    BY <2>1, GitControlReads
  <2>4. QED
    BY <2>2, <2>3 DEF GitReads
<1>2. CASE \E p \in Git!Readers : Git!ReaderStep(p)
  <2>1. PICK p \in Git!Readers : Git!ReaderStep(p)
    BY <1>2
  <2>2. target' = target
    BY <2>1 DEF Git!ReaderStep
  <2>3. CASE Git!YieldRefuses(p)
    BY <2>2, <2>3, GitFailsReads DEF Git!YieldRefuses
  <2>4. QED
    BY <2>1, <2>2, <2>3, GitOutputReads, GitListenReads, GitStartReads, GitTakeReads, GitEndingReads, GitHandReads,
       GitWaitReads DEF Git!ReaderStep
<1>3. QED
  BY <1>1, <1>2, GitStepReads DEF Git!Next, Git!Progress

LEMMA GitReadsFirst ==
  ASSUME Git!Init
  PROVE  GitReads
<1>1. Git!NoProcess.out = <<>> /\ Git!NoProcess.stdout = <<>> /\ Git!NoProcess.code = "ok" /\ ~Git!NoProcess.stopped
  BY DEF Git!NoProcess
<1>2. GitRead = {} /\ phase = "begin"
  BY DEF Git!Init, GitRead
<1>3. ASSUME NEW p \in Git!Readers
      PROVE  GitProgress(p)
  <2>1. /\ at[p] = "idle" /\ stage[p] = "log" /\ errs[p] = {} /\ git[p] = Git!NoProcess
    BY DEF Git!Init
  <2>2. GitHand(p) = {} /\ GitPipe(p) = {} /\ GitLater(p) = Git!StagesOf(Git!T, p)
    BY <1>1, <2>1, InputsOfFew DEF GitHand, GitPipe, GitLater
  <2>3. QED
    BY <1>1, <1>2, <2>1, <2>2, InputsOfFew DEF GitProgress, GitWhere, GitGets, GitHolds, GitFresh
<1>4. QED
  BY <1>2, <1>3 DEF GitReads, GitFull

(* A nil error: nothing is in a hand or a pipe, no stage is to come and    *)
(* nobody is in trouble, so that what was read is all that there is; and a *)
(* record that is yielded is of it, and has not been read.                 *)
LEMMA GitNilMeansAllRead ==
  ASSUME GitInv, GitReads
  PROVE  /\ phase = "returned" /\ verdict = {} => Git!AllReads(Git!T) = GitRead
         /\ \A p \in Git!Readers : at[p] = "yield" =>
              Head(cur[p]).in \in Git!AllReads(Git!T) /\ (Git!ReadOnce(Git!T) => Head(cur[p]).in \notin GitRead)
<1>1. ASSUME phase = "returned", verdict = {}
      PROVE  Git!AllReads(Git!T) = GitRead
  <2>1. GitRead \subseteq Git!AllReads(Git!T)
    BY DEF GitReads
  <2> SUFFICES ASSUME NEW p \in Git!Readers, NEW s \in Git!StagesOf(Git!T, p)
               PROVE  GitPrinted(p, s) \subseteq GitRead
    BY <2>1 DEF Git!AllReads, GitPrinted
  <2>2. GitProgress(p) /\ GitReader(p)
    BY GitRow DEF GitReads
  <2>3. at[p] \in {"idle", "ended", "returned"}
    BY <1>1 DEF GitInv, GitPhases, Git!Readers
  <2>4. /\ groupErr = {} /\ errs["main"] = {}
        /\ at["main"] = "idle" => Git!StagesOf(Git!T, "main") = {}
        /\ \A w \in Workers : at[w] = "idle" => Git!StagesOf(Git!T, w) = {}
    BY <1>1 DEF GitReads, GitFull
  <2>5. at[p] # "idle"
    BY <2>4 DEF Git!Readers
  <2>6. errs[p] = {}
    <3>1. CASE p = "main"
      BY <2>4, <3>1
    <3>2. CASE p # "main"
      <4>1. at[p] = "returned"
        BY <1>1, <2>5, <3>2 DEF GitInv, GitPhases, Git!Readers
      <4>2. QED
        BY <2>2, <2>4, <4>1 DEF GitReader, GitErrors
    <3>3. QED
      BY <3>1, <3>2
  <2>7. git[p] = Git!NoProcess
    BY <2>2, <2>3 DEF GitReader, GitProcess
  <2>8. ~GitTrouble(p) /\ GitPipe(p) = {} /\ GitHand(p) = {}
    BY <2>3, <2>6, <2>7, InputsOfFew DEF GitTrouble, GitPipe, GitHand, Git!NoProcess
  <2>9. GitLater(p) = {}
    BY <2>2, <2>3, <2>5, <2>6 DEF GitProgress, GitWhere, GitLater
  <2>10. QED
    BY <2>2, <2>8, <2>9 DEF GitProgress, GitGets
<1>2. ASSUME NEW p \in Git!Readers, at[p] = "yield"
      PROVE  Head(cur[p]).in \in Git!AllReads(Git!T) /\ (Git!ReadOnce(Git!T) => Head(cur[p]).in \notin GitRead)
  <2>1. GitProgress(p)
    BY DEF GitReads
  <2>2. GitHand(p) = {Head(cur[p]).in}
    BY <1>2 DEF GitHand
  <2>3. stage[p] \in Git!StagesOf(Git!T, p) /\ GitHand(p) \subseteq GitPrinted(p, stage[p])
    BY <1>2, <2>1 DEF GitProgress, GitWhere, GitHolds
  <2>4. QED
    BY <2>1, <2>2, <2>3 DEF GitProgress, GitFresh, Git!AllReads, GitPrinted
<1>3. QED
  BY <1>1, <1>2

-----------------------------------------------------------------------------
(* SourceScan. What a goroutine has still to do; of an open group's owner  *)
(* that is without the group, which others do for it.                      *)
Left(p) == IF state["list"] # "idle" /\ p = HostOwner THEN Tail(todo[p]) ELSE todo[p]

ReadsOf(script) == Hosts!AllReads(Hosts!Plan, script)

Unbegun ==
  IF at = "begin" THEN Hosts!InPlan(Hosts!Plan)
  ELSE IF at = "dispatch" THEN ReadsOf(Hosts!Plan.main) \cup ReadsOf(Hosts!Listing(Hosts!Plan))
  ELSE IF at = "alone" THEN ReadsOf(Hosts!Listing(Hosts!Plan))
  ELSE {}

InRepoCh == IF repoCh = <<>> THEN {} ELSE ReadsOf(Hosts!Plan.scripts[Head(repoCh)])
InRunCh  == UNION {ReadsOf(Hosts!Plan.scripts[runCh[k]]) : k \in DOMAIN runCh}
Handled  == yielded \cup told \cup lost

(* The places in which an input of the plan can be.                        *)
Places == {<<"of", p>> : p \in Hosts!Procs} \cup {<<"in", x>> : x \in {"done", "unbegun", "repoCh", "runCh"}}

Has(c) ==
  IF c[1] = "of" THEN ReadsOf(Left(c[2]))
  ELSE IF c[2] = "done" THEN Handled
  ELSE IF c[2] = "unbegun" THEN Unbegun
  ELSE IF c[2] = "repoCh" THEN InRepoCh
  ELSE InRunCh

HostAll == UNION {Has(c) : c \in Places}

(* Something has failed that Fragments will report.                        *)
HostTrouble ==
  cause # "none" \/ (\E p \in HostSingles : err[p] # "none") \/ Hosts!GroupErr # "none" \/ verdict # {}

HostWhole ==
  /\ HostAll \subseteq Hosts!InPlan(Hosts!Plan)
  /\ HostTrouble \/ Hosts!InPlan(Hosts!Plan) \subseteq HostAll

(* No input is in two of them.                                             *)
HostDisjoint == \A c, d \in Places : c # d => Has(c) \cap Has(d) = {}

HostApart ==
  Hosts!ReadOnce(Hosts!Plan) =>
    /\ HostDisjoint
    /\ \A p \in Hosts!Procs : Hosts!Separate(Hosts!Plan, todo[p])
    /\ \A j, k \in DOMAIN runCh :
         j # k => ReadsOf(Hosts!Plan.scripts[runCh[j]]) \cap ReadsOf(Hosts!Plan.scripts[runCh[k]]) = {}

(* What is left of a script: a failure is told first, and passes over what *)
(* it did in the script.                                                   *)
Sound(script) ==
  /\ \A k \in DOMAIN script :
       /\ script[k].op = "tell" =>
            k = 1 /\ script[k].onErr = Hosts!Fatal /\ script[k].onGone = Hosts!Fatal /\ script[k].onStop = Hosts!Fatal
       /\ Hosts!PassesOver(Hosts!Plan, script, k)
  /\ Hosts!Tells(Hosts!Plan) =>
       \A k \in DOMAIN script : script[k].tell \/ (script[k].onErr = Hosts!Fatal /\ script[k].onGone = Hosts!Fatal)

HostSound == \A p \in Hosts!Procs : Sound(todo[p])

(* Who is done leaves nothing in the channel, or there is trouble.         *)
HostQueues ==
  /\ state["enum"] = "idle" => repoCh = <<>> /\ visited = <<>>
  /\ state["enum"] = "idle" <=> state["scan"] = "idle"
  /\ state["scan"] = "done" => cause # "none" \/ (repoCh = <<>> /\ state["enum"] = "done")
  /\ \A w \in Workers : state[w] = "done" => HostTrouble \/ (runCh = <<>> /\ state["list"] = "done")
  /\ at # "returned" => verdict = {}
  /\ at = "returned" /\ verdict = {} => ~HostTrouble
  /\ at = "returned" /\ cause = "none" => err["enum"] = "none"
  /\ at \notin {"begin", "returned"} \/ (at = "returned" /\ verdict = {}) => Hosts!Plan.accepted
  /\ state["enum"] # "idle" => Hosts!Plan.accepted /\ Hosts!Plan.enumerate

(* A repository is to be sent, in the channel, or visited.                 *)
HostSent == IF repoCh = <<>> THEN {} ELSE {Head(repoCh)}

HostRepos ==
  /\ visited \in Seq(DOMAIN Hosts!Plan.scripts)
  /\ Hosts!SendsAll(Hosts!Plan.listing) => Hosts!SendsAll(todo["enum"])
  /\ Hosts!SendsAll(Hosts!Plan.listing) /\ state["enum"] # "idle" /\ cause = "none" /\ err["enum"] = "none" =>
       Hosts!SendsOf(Hosts!Plan.listing) =
         Hosts!ToSet(visited) \cup Hosts!SendsOf(todo["enum"]) \cup HostSent

HostReads ==
  /\ HostSound /\ HostQueues /\ HostWhole /\ HostApart /\ HostRepos
  /\ Hosts!Tells(Hosts!Plan) => lost = {}
  /\ Hosts!Plan.wrapped => \A p, q \in Hosts!Procs : state[p] = "yielding" /\ state[q] = "yielding" => p = q

-----------------------------------------------------------------------------
(* A script up to its m-th step, and from behind it.                       *)
LEMMA ScriptCut ==
  ASSUME NEW plan, NEW s, HostScript(plan, s), NEW m \in 0..Len(s)
  PROVE  /\ DOMAIN s = 1..Len(s) /\ Len(s) \in Nat /\ m \in Nat
         /\ DOMAIN SubSeq(s, 1, m) = 1..m
         /\ \A k \in 1..m : SubSeq(s, 1, m)[k] = s[k]
         /\ DOMAIN SubSeq(s, m + 1, Len(s)) = 1..Len(s) - m
         /\ \A k \in 1..Len(s) - m : SubSeq(s, m + 1, Len(s))[k] = s[k + m]
         /\ s # <<>> => 1 \in 0..Len(s) /\ Tail(s) = SubSeq(s, 2, Len(s)) /\ Head(s) = s[1]
<1> DEFINE S == Hosts!ToSet(s)
<1>1. s \in Seq(S)
  BY DEF HostScript
<1> HIDE DEF S
<1>2. DOMAIN s = 1..Len(s) /\ Len(s) \in Nat /\ m \in Nat
  BY <1>1
<1>3. DOMAIN SubSeq(s, 1, m) = 1..m /\ \A k \in 1..m : SubSeq(s, 1, m)[k] = s[k]
  BY <1>1, <1>2
<1>4. /\ DOMAIN SubSeq(s, m + 1, Len(s)) = 1..Len(s) - m
      /\ \A k \in 1..Len(s) - m : SubSeq(s, m + 1, Len(s))[k] = s[k + m]
  BY <1>1, <1>2
<1>5. s # <<>> => 1 \in 0..Len(s) /\ Tail(s) = SubSeq(s, 2, Len(s)) /\ Head(s) = s[1]
  BY <1>1, <1>2
<1>6. QED
  BY <1>2, <1>3, <1>4, <1>5

(* What is in a script.                                                    *)
LEMMA InReads ==
  ASSUME NEW plan, NEW s, NEW i
  PROVE  i \in Hosts!AllReads(plan, s) <=> \E k \in DOMAIN s : i \in Hosts!Reads(plan, s[k])
BY DEF Hosts!AllReads, Hosts!ToSet

LEMMA InSends ==
  ASSUME NEW s, NEW i
  PROVE  i \in Hosts!SendsOf(s) <=> \E k \in DOMAIN s : s[k].op = "send" /\ i = s[k].in
BY DEF Hosts!SendsOf, Hosts!ToSet

(* Both parts of a script together read what it reads, and send what it    *)
(* sends.                                                                  *)
LEMMA ReadsCut ==
  ASSUME NEW plan, NEW s, HostScript(plan, s), NEW m \in 0..Len(s)
  PROVE  LET u == SubSeq(s, 1, m)
             t == SubSeq(s, m + 1, Len(s))
         IN  /\ Hosts!AllReads(plan, s) = Hosts!AllReads(plan, u) \cup Hosts!AllReads(plan, t)
             /\ Hosts!SendsOf(s) = Hosts!SendsOf(u) \cup Hosts!SendsOf(t)
             /\ Hosts!Separate(plan, s) =>
                  Hosts!Separate(plan, t) /\ Hosts!AllReads(plan, u) \cap Hosts!AllReads(plan, t) = {}
<1> DEFINE u == SubSeq(s, 1, m)
           t == SubSeq(s, m + 1, Len(s))
<1>1. /\ DOMAIN s = 1..Len(s) /\ Len(s) \in Nat /\ m \in Nat /\ m <= Len(s)
      /\ DOMAIN u = 1..m /\ \A k \in 1..m : u[k] = s[k]
      /\ DOMAIN t = 1..Len(s) - m /\ \A k \in 1..Len(s) - m : t[k] = s[k + m]
  BY ScriptCut
<1> HIDE DEF u, t
<1>2. /\ \A k \in DOMAIN u : k \in DOMAIN s /\ k <= m /\ u[k] = s[k]
      /\ \A k \in DOMAIN t : k + m \in DOMAIN s /\ k + m > m /\ t[k] = s[k + m]
  BY <1>1
<1>3. \A k \in DOMAIN s : (k \in DOMAIN u /\ u[k] = s[k]) \/ (k - m \in DOMAIN t /\ t[k - m] = s[k])
  <2> SUFFICES ASSUME NEW k \in DOMAIN s
               PROVE  (k \in DOMAIN u /\ u[k] = s[k]) \/ (k - m \in DOMAIN t /\ t[k - m] = s[k])
    OBVIOUS
  <2>1. CASE k <= m
    BY <1>1, <2>1
  <2>2. CASE ~(k <= m)
    <3>1. k - m \in 1..Len(s) - m /\ (k - m) + m = k
      BY <1>1, <2>2
    <3>2. t[k - m] = s[(k - m) + m]
      BY <1>1, <3>1
    <3>3. QED
      BY <1>1, <3>1, <3>2
  <2>3. QED
    BY <2>1, <2>2
<1>4. Hosts!AllReads(plan, s) = Hosts!AllReads(plan, u) \cup Hosts!AllReads(plan, t)
  <2>1. ASSUME NEW i \in Hosts!AllReads(plan, s)
        PROVE  i \in Hosts!AllReads(plan, u) \cup Hosts!AllReads(plan, t)
    BY <1>3, InReads
  <2>2. ASSUME NEW i \in Hosts!AllReads(plan, u) \cup Hosts!AllReads(plan, t)
        PROVE  i \in Hosts!AllReads(plan, s)
    BY <1>2, InReads
  <2>3. QED
    BY <2>1, <2>2
<1>5. Hosts!SendsOf(s) = Hosts!SendsOf(u) \cup Hosts!SendsOf(t)
  <2>1. ASSUME NEW i \in Hosts!SendsOf(s)
        PROVE  i \in Hosts!SendsOf(u) \cup Hosts!SendsOf(t)
    BY <1>3, InSends
  <2>2. ASSUME NEW i \in Hosts!SendsOf(u) \cup Hosts!SendsOf(t)
        PROVE  i \in Hosts!SendsOf(s)
    BY <1>2, InSends
  <2>3. QED
    BY <2>1, <2>2
<1>6. ASSUME Hosts!Separate(plan, s)
      PROVE  Hosts!Separate(plan, t) /\ Hosts!AllReads(plan, u) \cap Hosts!AllReads(plan, t) = {}
  <2>1. Hosts!Separate(plan, t)
    <3> SUFFICES ASSUME NEW j \in DOMAIN t, NEW k \in DOMAIN t, j # k
                 PROVE  Hosts!Reads(plan, t[j]) \cap Hosts!Reads(plan, t[k]) = {}
      BY DEF Hosts!Separate
    <3>1. j + m \in DOMAIN s /\ k + m \in DOMAIN s /\ j + m # k + m /\ t[j] = s[j + m] /\ t[k] = s[k + m]
      BY <1>1, <1>2
    <3>2. QED
      BY <1>6, <3>1 DEF Hosts!Separate
  <2>2. ASSUME NEW i, i \in Hosts!AllReads(plan, u), i \in Hosts!AllReads(plan, t)
        PROVE  FALSE
    <3>1. PICK j \in DOMAIN u : i \in Hosts!Reads(plan, u[j])
      BY <2>2, InReads
    <3>2. PICK k \in DOMAIN t : i \in Hosts!Reads(plan, t[k])
      BY <2>2, InReads
    <3>3. j \in DOMAIN s /\ k + m \in DOMAIN s /\ j # k + m /\ u[j] = s[j] /\ t[k] = s[k + m]
      BY <1>1, <1>2
    <3>4. QED
      BY <1>6, <3>1, <3>2, <3>3 DEF Hosts!Separate
  <2>3. QED
    BY <2>1, <2>2
<1>7. QED
  BY <1>4, <1>5, <1>6 DEF u, t

(* In particular what the first step reads and what the others do.         *)
LEMMA ReadsFromTheFirst ==
  ASSUME NEW plan, NEW s, HostScript(plan, s), s # <<>>
  PROVE  /\ Hosts!AllReads(plan, s) = Hosts!Reads(plan, Head(s)) \cup Hosts!AllReads(plan, Tail(s))
         /\ Hosts!SendsOf(s) = (IF Head(s).op = "send" THEN {Head(s).in} ELSE {}) \cup Hosts!SendsOf(Tail(s))
         /\ Hosts!Separate(plan, s) =>
              Hosts!Separate(plan, Tail(s)) /\ Hosts!Reads(plan, Head(s)) \cap Hosts!AllReads(plan, Tail(s)) = {}
<1> DEFINE u == SubSeq(s, 1, 1)
           t == SubSeq(s, 1 + 1, Len(s))
<1>0. 1 \in 0..Len(s)
  <2>1. Len(s) \in Nat /\ 0 \in 0..Len(s)
    BY DEF HostScript
  <2>2. QED
    BY <2>1, ScriptCut
<1>1. DOMAIN u = 1..1 /\ (\A k \in 1..1 : u[k] = s[k]) /\ t = Tail(s) /\ Head(s) = s[1]
  BY <1>0, ScriptCut
<1>2. /\ Hosts!AllReads(plan, s) = Hosts!AllReads(plan, u) \cup Hosts!AllReads(plan, t)
      /\ Hosts!SendsOf(s) = Hosts!SendsOf(u) \cup Hosts!SendsOf(t)
      /\ Hosts!Separate(plan, s) =>
           Hosts!Separate(plan, t) /\ Hosts!AllReads(plan, u) \cap Hosts!AllReads(plan, t) = {}
  BY <1>0, ReadsCut
<1> HIDE DEF u, t
<1>3. DOMAIN u = {1} /\ u[1] = Head(s)
  BY <1>1
<1>4. \A i : i \in Hosts!AllReads(plan, u) <=> i \in Hosts!Reads(plan, Head(s))
  BY <1>3, InReads
<1>5. \A i : i \in Hosts!SendsOf(u) <=> Head(s).op = "send" /\ i = Head(s).in
  BY <1>3, InSends
<1>6. QED
  BY <1>1, <1>2, <1>4, <1>5

(* The empty script reads nothing.                                         *)
LEMMA NothingToRead ==
  ASSUME NEW plan
  PROVE  /\ Hosts!AllReads(plan, <<>>) = {} /\ Hosts!SendsOf(<<>>) = {} /\ Hosts!SendsAll(<<>>)
         /\ Hosts!Separate(plan, <<>>) /\ Sound(<<>>)
<1>1. DOMAIN <<>> = {}
  OBVIOUS
<1>2. QED
  BY <1>1, InReads, InSends DEF Hosts!SendsAll, Hosts!Separate, Sound

(* What is behind a step of a sound script is one, and has nothing to tell *)
(* first.                                                                  *)
LEMMA SoundBehind ==
  ASSUME NEW s, HostScript(Hosts!Plan, s), NEW m \in 1..Len(s), Sound(s)
  PROVE  LET t == SubSeq(s, m + 1, Len(s))
         IN  /\ Sound(t) /\ \A k \in DOMAIN t : t[k].op # "tell"
             /\ Hosts!SendsAll(s) => Hosts!SendsAll(t)
<1> DEFINE t == SubSeq(s, m + 1, Len(s))
<1>0. m \in 0..Len(s) /\ m > 0
  BY DEF HostScript
<1>1. /\ DOMAIN s = 1..Len(s) /\ Len(s) \in Nat /\ m \in Nat /\ m <= Len(s) /\ m > 0
      /\ DOMAIN t = 1..Len(s) - m /\ \A k \in 1..Len(s) - m : t[k] = s[k + m]
  BY <1>0, ScriptCut
<1> HIDE DEF t
<1>2. \A k \in DOMAIN t : k + m \in DOMAIN s /\ k + m > 1 /\ t[k] = s[k + m]
  BY <1>1
<1>3. \A k \in DOMAIN t : t[k].op # "tell"
  BY <1>2 DEF Sound
<1>4. ASSUME NEW k \in DOMAIN t, NEW over \in {t[k].onErr, t[k].onGone, t[k].onStop} \ {Hosts!Fatal}
      PROVE  /\ k + over \in DOMAIN t
             /\ \A j \in k..k + over : j \in DOMAIN t /\ j + m \in k + m..k + m + over /\ t[j] = s[j + m]
             /\ \A j \in k..k + over : Hosts!Simple(Hosts!Plan, t[j])
  <2>1. over \in {s[k + m].onErr, s[k + m].onGone, s[k + m].onStop} \ {Hosts!Fatal} /\ k + m \in DOMAIN s
    BY <1>2, <1>4
  <2>2. over \in Nat
    BY <2>1 DEF HostScript, HostStep, Hosts!StepOf
  <2>3. /\ k + m + over \in DOMAIN s
        /\ \A j \in k + m..k + m + over : Hosts!Simple(Hosts!Plan, s[j])
    BY <2>1 DEF Sound, Hosts!PassesOver
  <2>4. k + over \in DOMAIN t
    BY <1>1, <1>4, <2>2, <2>3
  <2>5. \A j \in k..k + over : j \in DOMAIN t /\ j + m \in k + m..k + m + over
    BY <1>1, <1>4, <2>2, <2>4
  <2>6. QED
    BY <1>2, <2>3, <2>4, <2>5
<1>5. Sound(t)
  BY <1>2, <1>3, <1>4 DEF Sound, Hosts!PassesOver
<1>6. ASSUME Hosts!SendsAll(s)
      PROVE  Hosts!SendsAll(t)
  <2> SUFFICES ASSUME NEW k \in DOMAIN t, NEW over \in {t[k].onErr, t[k].onGone} \ {Hosts!Fatal}, NEW j \in k..k + over
               PROVE  t[j].op # "send"
    BY DEF Hosts!SendsAll
  <2>1. j + m \in k + m..k + m + over /\ t[j] = s[j + m]
    BY <1>4
  <2>2. k + m \in DOMAIN s /\ over \in {s[k + m].onErr, s[k + m].onGone} \ {Hosts!Fatal}
    BY <1>2
  <2>3. QED
    BY <1>6, <2>1, <2>2 DEF Hosts!SendsAll
<1>7. QED
  BY <1>3, <1>5, <1>6 DEF t

(* A failure that is told before a script.                                 *)
LEMMA TellFirst ==
  ASSUME NEW s, HostScript(Hosts!Plan, s), Sound(s), \A k \in DOMAIN s : s[k].op # "tell", NEW of
  PROVE  LET t == <<[Hosts!Step("tell", "none") EXCEPT !.of = of]>> \o s
         IN  /\ Sound(t) /\ ReadsOf(t) = of \cup ReadsOf(s) /\ Hosts!SendsOf(t) = Hosts!SendsOf(s)
             /\ Hosts!SendsAll(s) => Hosts!SendsAll(t)
             /\ Hosts!Separate(Hosts!Plan, s) /\ of \cap ReadsOf(s) = {} => Hosts!Separate(Hosts!Plan, t)
<1> DEFINE x == [Hosts!Step("tell", "none") EXCEPT !.of = of]
           t == <<x>> \o s
<1>1. /\ x.op = "tell" /\ x.of = of
      /\ x.onErr = Hosts!Fatal /\ x.onGone = Hosts!Fatal /\ x.onStop = Hosts!Fatal
      /\ HostStep(Hosts!Plan, x)
  BY DEF Hosts!Step, HostStep, Hosts!StepOf, Hosts!Fatal
<1> HIDE DEF x
<1>2. DOMAIN s = 1..Len(s) /\ Len(s) \in Nat
  BY DEF HostScript
<1>3. /\ DOMAIN t = 1..Len(s) + 1 /\ t # <<>> /\ Head(t) = x /\ Tail(t) = s
      /\ t[1] = x /\ \A k \in DOMAIN t \ {1} : t[k] = s[k - 1]
  <2> DEFINE S == Hosts!ToSet(s)
  <2>1. s \in Seq(S)
    BY DEF HostScript
  <2> HIDE DEF S
  <2>2. DOMAIN t = 1..Len(s) + 1 /\ t[1] = x /\ \A k \in DOMAIN t \ {1} : t[k] = s[k - 1]
    BY <1>2, <2>1
  <2>3. t # <<>> /\ Head(t) = x
    BY <1>2, <2>1
  <2>4. Tail(t) = s
    BY <1>2, <2>1
  <2>5. QED
    BY <2>2, <2>3, <2>4
<1>4. HostScript(Hosts!Plan, t)
  BY <1>1, ScriptParts
<1> HIDE DEF t
<1>5. \A k \in DOMAIN t : k = 1 \/ (k - 1 \in DOMAIN s /\ t[k] = s[k - 1] /\ k \in Nat)
  BY <1>2, <1>3
<1>6. Hosts!Reads(Hosts!Plan, x) = of
  BY <1>1 DEF Hosts!Reads
<1>7. ReadsOf(t) = of \cup ReadsOf(s) /\ Hosts!SendsOf(t) = Hosts!SendsOf(s)
  <2>1. /\ ReadsOf(t) = Hosts!Reads(Hosts!Plan, Head(t)) \cup ReadsOf(Tail(t))
        /\ Hosts!SendsOf(t) = (IF Head(t).op = "send" THEN {Head(t).in} ELSE {}) \cup Hosts!SendsOf(Tail(t))
    BY <1>3, <1>4, ReadsFromTheFirst DEF ReadsOf
  <2>2. QED
    BY <1>1, <1>3, <1>6, <2>1
<1>8. ASSUME NEW k \in DOMAIN t, NEW over \in {t[k].onErr, t[k].onGone, t[k].onStop} \ {Hosts!Fatal}
      PROVE  /\ k - 1 \in DOMAIN s /\ t[k] = s[k - 1] /\ k + over \in DOMAIN t
             /\ \A j \in k..k + over : j - 1 \in k - 1..k - 1 + over /\ t[j] = s[j - 1]
             /\ \A j \in k..k + over : Hosts!Simple(Hosts!Plan, t[j])
  <2>1. k - 1 \in DOMAIN s /\ t[k] = s[k - 1] /\ k \in Nat
    BY <1>1, <1>3, <1>5, <1>8
  <2>2. over \in Nat
    BY <2>1, <1>8 DEF HostScript, HostStep, Hosts!StepOf
  <2>3. k - 1 + over \in DOMAIN s /\ \A j \in k - 1..k - 1 + over : Hosts!Simple(Hosts!Plan, s[j])
    BY <1>8, <2>1 DEF Sound, Hosts!PassesOver
  <2>4. k + over \in DOMAIN t
    BY <1>2, <1>3, <2>1, <2>2, <2>3
  <2>5. \A j \in k..k + over : j \in DOMAIN t \ {1} /\ j - 1 \in k - 1..k - 1 + over
    BY <1>2, <1>3, <2>1, <2>2, <2>4
  <2>6. \A j \in k..k + over : t[j] = s[j - 1]
    BY <1>3, <2>5
  <2>7. QED
    BY <2>1, <2>3, <2>4, <2>5, <2>6
<1>9. Sound(t)
  <2>1. \A k \in DOMAIN t : Hosts!PassesOver(Hosts!Plan, t, k)
    BY <1>8 DEF Hosts!PassesOver
  <2>2. \A k \in DOMAIN t : t[k].op = "tell" =>
          k = 1 /\ t[k].onErr = Hosts!Fatal /\ t[k].onGone = Hosts!Fatal /\ t[k].onStop = Hosts!Fatal
    BY <1>1, <1>3, <1>5
  <2>3. Hosts!Tells(Hosts!Plan) =>
          \A k \in DOMAIN t : t[k].tell \/ (t[k].onErr = Hosts!Fatal /\ t[k].onGone = Hosts!Fatal)
    BY <1>1, <1>3, <1>5 DEF Sound
  <2>4. QED
    BY <2>1, <2>2, <2>3 DEF Sound
<1>10. ASSUME Hosts!SendsAll(s)
       PROVE  Hosts!SendsAll(t)
  <2> SUFFICES ASSUME NEW k \in DOMAIN t, NEW over \in {t[k].onErr, t[k].onGone} \ {Hosts!Fatal}, NEW j \in k..k + over
               PROVE  t[j].op # "send"
    BY DEF Hosts!SendsAll
  <2>1. k - 1 \in DOMAIN s /\ t[k] = s[k - 1] /\ j - 1 \in k - 1..k - 1 + over /\ t[j] = s[j - 1]
    BY <1>8
  <2>2. QED
    BY <1>10, <2>1 DEF Hosts!SendsAll
<1>11. ASSUME Hosts!Separate(Hosts!Plan, s), of \cap ReadsOf(s) = {}
       PROVE  Hosts!Separate(Hosts!Plan, t)
  <2> SUFFICES ASSUME NEW j \in DOMAIN t, NEW k \in DOMAIN t, j # k
               PROVE  Hosts!Reads(Hosts!Plan, t[j]) \cap Hosts!Reads(Hosts!Plan, t[k]) = {}
    BY DEF Hosts!Separate
  <2>1. \A i \in DOMAIN s : Hosts!Reads(Hosts!Plan, s[i]) \subseteq ReadsOf(s)
    BY InReads DEF ReadsOf
  <2>2. j \in Nat /\ k \in Nat
    BY <1>3, <1>2
  <2>3. CASE j = 1
    <3>1. k - 1 \in DOMAIN s /\ t[k] = s[k - 1] /\ t[j] = x
      BY <1>3, <1>5, <2>3
    <3>2. QED
      BY <1>6, <1>11, <2>1, <3>1
  <2>4. CASE k = 1
    <3>1. j - 1 \in DOMAIN s /\ t[j] = s[j - 1] /\ t[k] = x
      BY <1>3, <1>5, <2>4
    <3>2. QED
      BY <1>6, <1>11, <2>1, <3>1
  <2>5. CASE j # 1 /\ k # 1
    <3>1. j - 1 \in DOMAIN s /\ t[j] = s[j - 1] /\ k - 1 \in DOMAIN s /\ t[k] = s[k - 1] /\ j - 1 # k - 1
      BY <1>5, <2>2, <2>5
    <3>2. QED
      BY <1>11, <3>1 DEF Hosts!Separate
  <2>6. QED
    BY <2>3, <2>4, <2>5
<1>12. QED
  BY <1>7, <1>9, <1>10, <1>11 DEF t, x

(* What a failure passes over is what the steps passed over read.          *)
LEMMA PassedReads ==
  ASSUME NEW u, \A k \in DOMAIN u : Hosts!Simple(Hosts!Plan, u[k]) /\ u[k].op # "tell"
  PROVE  Hosts!Passed(u) = ReadsOf(u)
<1>1. ASSUME NEW k \in DOMAIN u
      PROVE  Hosts!Reads(Hosts!Plan, u[k]) =
               IF u[k].op = "send" THEN Hosts!InputsOf(Hosts!Plan.scripts[u[k].in]) ELSE Hosts!YieldOf(u[k])
  <2>1. CASE u[k].op = "send"
    <3> DEFINE t == Hosts!Plan.scripts[u[k].in]
    <3>1. \A y \in Hosts!ToSet(t) : y.op # "group"
      BY <2>1 DEF Hosts!Simple
    <3>2. \A y \in Hosts!ToSet(t) : Hosts!InScript(Hosts!Plan, y) = Hosts!YieldOf(y)
      BY <3>1 DEF Hosts!InScript
    <3>3. Hosts!Reads(Hosts!Plan, u[k]) = UNION {Hosts!YieldOf(y) : y \in Hosts!ToSet(t)}
      BY <2>1, <3>2 DEF Hosts!Reads
    <3> HIDE DEF t
    <3>4. UNION {Hosts!YieldOf(y) : y \in Hosts!ToSet(t)} = Hosts!InputsOf(t)
      BY DEF Hosts!YieldOf, Hosts!InputsOf, Hosts!ToSet
    <3>5. QED
      BY <2>1, <3>3, <3>4 DEF t
  <2>2. CASE u[k].op # "send"
    BY <2>2 DEF Hosts!Reads, Hosts!InScript, Hosts!Simple
  <2>3. QED
    BY <2>1, <2>2
<1>2. ASSUME NEW i \in Hosts!Passed(u)
      PROVE  i \in ReadsOf(u)
  <2>1. PICK k \in DOMAIN u : \/ u[k].op = "yield" /\ i = u[k].in
                              \/ u[k].op = "send" /\ i \in Hosts!InputsOf(Hosts!Plan.scripts[u[k].in])
    <3>1. CASE i \in Hosts!InputsOf(u)
      BY <3>1 DEF Hosts!InputsOf
    <3>2. CASE i \in UNION {Hosts!InputsOf(Hosts!Plan.scripts[step.in]) : step \in {x \in Hosts!ToSet(u) : x.op = "send"}}
      BY <3>2 DEF Hosts!ToSet
    <3>3. QED
      BY <1>2, <3>1, <3>2 DEF Hosts!Passed
  <2>2. i \in Hosts!Reads(Hosts!Plan, u[k])
    BY <1>1, <2>1 DEF Hosts!YieldOf
  <2>3. QED
    BY <2>2, InReads DEF ReadsOf
<1>3. ASSUME NEW i \in ReadsOf(u)
      PROVE  i \in Hosts!Passed(u)
  <2>1. PICK k \in DOMAIN u : i \in Hosts!Reads(Hosts!Plan, u[k])
    BY <1>3, InReads DEF ReadsOf
  <2>2. CASE u[k].op = "send"
    <3>1. i \in Hosts!InputsOf(Hosts!Plan.scripts[u[k].in]) /\ u[k] \in Hosts!ToSet(u)
      BY <1>1, <2>1, <2>2 DEF Hosts!ToSet
    <3>2. QED
      BY <2>2, <3>1 DEF Hosts!Passed
  <2>3. CASE u[k].op # "send"
    <3>1. u[k].op = "yield" /\ i = u[k].in
      BY <1>1, <2>1, <2>3 DEF Hosts!YieldOf
    <3>2. i \in Hosts!InputsOf(u)
      BY <3>1 DEF Hosts!InputsOf
    <3>3. QED
      BY <3>2 DEF Hosts!Passed
  <2>4. QED
    BY <2>2, <2>3
<1>4. QED
  BY <1>2, <1>3

(* The scripts of a plan are sound, read an input once if all do, and have *)
(* nothing to tell.                                                        *)
LEMMA PlanIsSound ==
  ASSUME target \in DOMAIN HostTargets
  PROVE  /\ \A script \in Hosts!Scripts(Hosts!Plan) :
              /\ Sound(script) /\ \A k \in DOMAIN script : script[k].op # "tell"
              /\ Hosts!ReadOnce(Hosts!Plan) => Hosts!Separate(Hosts!Plan, script)
         /\ \A name \in DOMAIN Hosts!Plan.scripts : \A x \in Hosts!ToSet(Hosts!Plan.scripts[name]) : x.op # "send"
         /\ \A name \in DOMAIN Hosts!Plan.groups : \A x \in Hosts!ToSet(Hosts!Plan.groups[name]) : Hosts!Simple(Hosts!Plan, x)
         /\ Hosts!Plan.dispatch \in Hosts!Scripts(Hosts!Plan) /\ Hosts!Plan.main \in Hosts!Scripts(Hosts!Plan)
         /\ Hosts!Plan.listing \in Hosts!Scripts(Hosts!Plan)
         /\ \A name \in DOMAIN Hosts!Plan.scripts : Hosts!Plan.scripts[name] \in Hosts!Scripts(Hosts!Plan)
         /\ \A name \in DOMAIN Hosts!Plan.groups : Hosts!Plan.groups[name] \in Hosts!Scripts(Hosts!Plan)
<1> DEFINE plan == Hosts!Plan
<1>1. Hosts!Regular(plan)
  BY PlansAreRegular DEF Hosts!Plan, HostPlans
<1>2. /\ plan.dispatch \in Hosts!Scripts(plan) /\ plan.main \in Hosts!Scripts(plan)
      /\ plan.listing \in Hosts!Scripts(plan)
      /\ \A name \in DOMAIN plan.scripts : plan.scripts[name] \in Hosts!Scripts(plan)
      /\ \A name \in DOMAIN plan.groups : plan.groups[name] \in Hosts!Scripts(plan)
  BY DEF Hosts!Scripts
<1>3. ASSUME NEW script \in Hosts!Scripts(plan)
      PROVE  /\ Sound(script) /\ \A k \in DOMAIN script : script[k].op # "tell"
             /\ Hosts!ReadOnce(plan) => Hosts!Separate(plan, script)
  <2>1. \A k \in DOMAIN script : script[k].op # "tell" /\ Hosts!PassesOver(plan, script, k)
    BY <1>1, <1>3 DEF Hosts!Regular
  <2>2. Hosts!Tells(plan) =>
          \A k \in DOMAIN script : script[k].tell \/ (script[k].onErr = Hosts!Fatal /\ script[k].onGone = Hosts!Fatal)
    BY <1>3 DEF Hosts!Tells, Hosts!ToSet
  <2>3. Hosts!ReadOnce(plan) => Hosts!Separate(plan, script)
    BY <1>3 DEF Hosts!ReadOnce
  <2>4. QED
    BY <2>1, <2>2, <2>3 DEF Sound
<1>4. QED
  BY <1>1, <1>2, <1>3 DEF Hosts!Regular

(* What is sent, and what starts a group, reads what is done for it.       *)
LEMMA ReadsOfOther ==
  ASSUME target \in DOMAIN HostTargets, NEW x, HostStep(Hosts!Plan, x)
  PROVE  /\ x.op = "send" => x.in \in DOMAIN Hosts!Plan.scripts /\ Hosts!Reads(Hosts!Plan, x) = ReadsOf(Hosts!Plan.scripts[x.in])
         /\ x.op = "group" => x.in \in DOMAIN Hosts!Plan.groups /\ Hosts!Reads(Hosts!Plan, x) = ReadsOf(Hosts!Plan.groups[x.in])
         /\ x.op = "yield" => Hosts!Reads(Hosts!Plan, x) = {x.in}
         /\ x.op = "tell" => Hosts!Reads(Hosts!Plan, x) = x.of
         /\ x.op \in {"fetch", "fail"} => Hosts!Reads(Hosts!Plan, x) = {}
<1> DEFINE plan == Hosts!Plan
<1>1. CASE x.op = "send"
  <2> DEFINE t == plan.scripts[x.in]
  <2>1. x.in \in DOMAIN plan.scripts
    BY <1>1 DEF HostStep, Hosts!StepOf
  <2>2. t \in Hosts!Scripts(plan) /\ \A y \in Hosts!ToSet(t) : y.op # "send"
    BY <2>1, PlanIsSound
  <2>3. \A y \in Hosts!ToSet(t) : y.op # "tell"
    BY <2>2, PlanIsSound DEF Hosts!ToSet
  <2>4. \A y \in Hosts!ToSet(t) : Hosts!InScript(plan, y) = Hosts!Reads(plan, y)
    BY <2>2, <2>3 DEF Hosts!Reads
  <2>5. Hosts!Reads(plan, x) = UNION {Hosts!InScript(plan, y) : y \in Hosts!ToSet(t)}
    BY <1>1 DEF Hosts!Reads
  <2>6. QED
    BY <1>1, <2>1, <2>4, <2>5 DEF ReadsOf, Hosts!AllReads
<1>2. CASE x.op = "group"
  <2> DEFINE t == plan.groups[x.in]
  <2>1. x.in \in DOMAIN plan.groups
    BY <1>2 DEF HostStep, Hosts!StepOf
  <2>2. t \in Hosts!Scripts(plan) /\ \A y \in Hosts!ToSet(t) : Hosts!Simple(plan, y)
    BY <2>1, PlanIsSound
  <2>3. \A y \in Hosts!ToSet(t) : y.op # "tell"
    BY <2>2, PlanIsSound DEF Hosts!ToSet
  <2>4. ASSUME NEW y \in Hosts!ToSet(t)
        PROVE  Hosts!InList(plan, y) = Hosts!Reads(plan, y)
    <3>1. CASE y.op = "send"
      <4> DEFINE z == plan.scripts[y.in]
      <4>1. \A v \in Hosts!ToSet(z) : v.op # "group"
        BY <2>2, <3>1 DEF Hosts!Simple
      <4>2. \A v \in Hosts!ToSet(z) : Hosts!InScript(plan, v) = Hosts!YieldOf(v)
        BY <4>1 DEF Hosts!InScript
      <4>3. Hosts!Reads(plan, y) = UNION {Hosts!YieldOf(v) : v \in Hosts!ToSet(z)}
        BY <3>1, <4>2 DEF Hosts!Reads
      <4> HIDE DEF z
      <4>4. UNION {Hosts!YieldOf(v) : v \in Hosts!ToSet(z)} = Hosts!InputsOf(z)
        BY DEF Hosts!YieldOf, Hosts!InputsOf, Hosts!ToSet
      <4>5. QED
        BY <3>1, <4>3, <4>4 DEF z, Hosts!InList
    <3>2. CASE y.op # "send"
      BY <2>2, <2>3, <3>2 DEF Hosts!InList, Hosts!Reads, Hosts!InScript, Hosts!Simple
    <3>3. QED
      BY <3>1, <3>2
  <2>5. Hosts!Reads(plan, x) = UNION {Hosts!InList(plan, y) : y \in Hosts!ToSet(t)}
    BY <1>2 DEF Hosts!Reads, Hosts!InScript
  <2>6. QED
    BY <1>2, <2>1, <2>4, <2>5 DEF ReadsOf, Hosts!AllReads
<1>3. CASE x.op \notin {"send", "group"}
  BY <1>3 DEF Hosts!Reads, Hosts!InScript, Hosts!YieldOf
<1>4. QED
  BY <1>1, <1>2, <1>3

-----------------------------------------------------------------------------
(* A goroutine that goes on after an error has told or logged exactly what *)
(* it passes over; otherwise the error is kept.                            *)
PassesBy(p, e, script, gone) ==
  /\ todo' = [todo EXCEPT ![p] = script] /\ err' = err /\ lost' = lost \cup gone
  /\ ReadsOf(todo[p]) = ReadsOf(script) \cup gone
  /\ Hosts!Separate(Hosts!Plan, todo[p]) => Hosts!Separate(Hosts!Plan, script) /\ ReadsOf(script) \cap gone = {}
  /\ Sound(script) /\ (Hosts!Tells(Hosts!Plan) => gone = {})
  /\ Hosts!SendsAll(todo[p]) =>
       Hosts!SendsAll(script) /\ (e \in {"fail", "gone"} => Hosts!SendsOf(script) = Hosts!SendsOf(todo[p]))

LEMMA HostHandleReads ==
  ASSUME HostInv, NEW p \in Hosts!Procs, todo[p] # <<>>, Sound(todo[p]),
         NEW e \in Errors \cup {"gone"}, Hosts!Handle(p, e)
  PROVE  \/ todo' = [todo EXCEPT ![p] = <<>>] /\ err'[p] # "none" /\ lost' = lost
            /\ (p \in Hosts!Group => err'["list"] # "none")
         \/ \E script, gone : PassesBy(p, e, script, gone)
<1> DEFINE s    == todo[p]
           step == Head(s)
           over == Hosts!Over(step, e)
<1>1. /\ HostTypes /\ HostScript(Hosts!Plan, s) /\ HostStep(Hosts!Plan, step) /\ target \in DOMAIN HostTargets
  BY ScriptParts DEF HostInv, HostTypes
<1>2. /\ over \in Nat \cup {Hosts!Fatal} /\ over \in {step.onErr, step.onGone, step.onStop}
      /\ e \in {"fail", "gone"} => over \in {step.onErr, step.onGone}
      /\ e \in {"refused", "canceled"} => over = step.onStop
      /\ ~Hosts!Plan.wrapped => step.onStop = Hosts!Fatal
  BY <1>1 DEF HostStep, Hosts!StepOf, Hosts!Over, Errors
<1>3. CASE over = Hosts!Fatal
  <2> DEFINE kept == IF e = "gone" THEN "fail" ELSE e
             of   == IF p \in Hosts!Group THEN "list" ELSE p
  <2>1. /\ todo' = [todo EXCEPT ![p] = <<>>] /\ lost' = lost
        /\ err' = [err EXCEPT ![p] = Hosts!First(@, kept), ![of] = Hosts!First(@, kept)]
    BY <1>3 DEF Hosts!Handle
  <2>2. \A c : Hosts!First(c, kept) # "none"
    BY DEF Hosts!First, Errors
  <2>3. "list" \in Hosts!Procs /\ of \in Hosts!Procs /\ err \in [Hosts!Procs -> Causes]
    BY <1>1, HostProcs DEF HostTypes
  <2> HIDE DEF kept
  <2>4. err'[p] # "none" /\ err'[of] # "none"
    BY <2>1, <2>2, <2>3
  <2>5. QED
    BY <2>1, <2>4
<1>4. CASE over # Hosts!Fatal
  <2> DEFINE m      == over + 1
             u      == SubSeq(s, 1, m)
             rest   == SubSeq(s, m + 1, Len(s))
             passed == Hosts!Passed(u)
             tells  == step.tell /\ e \in {"fail", "gone"}
             tell   == <<[Hosts!Step("tell", "none") EXCEPT !.of = passed]>>
  <2>1. /\ over \in Nat /\ m \in 1..Len(s) /\ m \in 0..Len(s) /\ 1 \in DOMAIN s /\ step = s[1]
        /\ DOMAIN u = 1..m /\ \A k \in 1..m : u[k] = s[k]
        /\ \A j \in 1..m : Hosts!Simple(Hosts!Plan, s[j])
    <3>1. 0 \in 0..Len(s) /\ Len(s) \in Nat /\ DOMAIN s = 1..Len(s)
      BY <1>1 DEF HostScript
    <3>2. step = s[1] /\ 1 \in DOMAIN s
      BY <1>1, <3>1, ScriptCut
    <3>3. over \in Nat /\ over \in {s[1].onErr, s[1].onGone, s[1].onStop} \ {Hosts!Fatal}
      BY <1>2, <1>4, <3>2
    <3>4. 1 + over \in DOMAIN s /\ \A j \in 1..1 + over : Hosts!Simple(Hosts!Plan, s[j])
      BY <3>2, <3>3 DEF Sound, Hosts!PassesOver
    <3>5. m \in 1..Len(s) /\ m \in 0..Len(s)
      BY <3>1, <3>3, <3>4
    <3>6. DOMAIN u = 1..m /\ \A k \in 1..m : u[k] = s[k]
      BY <1>1, <3>5, ScriptCut
    <3>7. 1..m = 1..1 + over
      BY <3>3
    <3>8. QED
      BY <3>2, <3>3, <3>4, <3>5, <3>6, <3>7
  <2>2. /\ todo' = [todo EXCEPT ![p] = Hosts!When(tells, tell) \o rest]
        /\ lost' = (IF tells THEN lost ELSE lost \cup passed) /\ err' = err
    <3>1. over + 2 = m + 1
      BY <2>1
    <3>2. /\ todo' = [todo EXCEPT ![p] = Hosts!When(tells, <<[Hosts!Step("tell", "none") EXCEPT !.of = Hosts!Passed(SubSeq(s, 1, over + 1))]>>)
                                             \o SubSeq(s, over + 2, Len(s))]
          /\ lost' = (IF tells THEN lost ELSE lost \cup Hosts!Passed(SubSeq(s, 1, over + 1))) /\ err' = err
      BY <1>4 DEF Hosts!Handle
    <3>3. QED
      BY <3>1, <3>2
  <2>3. /\ Sound(rest) /\ \A k \in DOMAIN rest : rest[k].op # "tell"
        /\ Hosts!SendsAll(s) => Hosts!SendsAll(rest)
    BY <1>1, <2>1, SoundBehind
  <2>4. /\ ReadsOf(s) = ReadsOf(u) \cup ReadsOf(rest) /\ Hosts!SendsOf(s) = Hosts!SendsOf(u) \cup Hosts!SendsOf(rest)
        /\ Hosts!Separate(Hosts!Plan, s) => Hosts!Separate(Hosts!Plan, rest) /\ ReadsOf(u) \cap ReadsOf(rest) = {}
    BY <1>1, <2>1, ReadsCut DEF ReadsOf
  <2>5. HostScript(Hosts!Plan, rest)
    <3>1. m + 1 \in Nat \ {0}
      BY <2>1
    <3>2. QED
      BY <1>1, <3>1, ScriptParts
  <2>6. passed = ReadsOf(u)
    <3>1. \A k \in 1..m : k \in DOMAIN s
      BY <1>1, <2>1 DEF HostScript
    <3>2. step.op # "tell"
      BY <1>2, <1>4, <2>1 DEF Sound
    <3>3. \A k \in DOMAIN u : Hosts!Simple(Hosts!Plan, u[k]) /\ u[k].op # "tell"
      BY <2>1, <3>1, <3>2 DEF Sound
    <3>4. QED
      BY <3>3, PassedReads
  <2>7. ASSUME Hosts!Tells(Hosts!Plan)
        PROVE  tells
    <3>1. ~Hosts!Plan.wrapped /\ (s[1].tell \/ (s[1].onErr = Hosts!Fatal /\ s[1].onGone = Hosts!Fatal))
      BY <2>1, <2>7 DEF Hosts!Tells, Sound
    <3>2. e \in {"fail", "gone"}
      BY <1>2, <1>4, <3>1 DEF Errors
    <3>3. QED
      BY <1>2, <1>4, <2>1, <3>1, <3>2
  <2>8. ASSUME Hosts!SendsAll(s), e \in {"fail", "gone"}
        PROVE  Hosts!SendsOf(rest) = Hosts!SendsOf(s)
    <3>1. \A j \in 1..1 + over : s[j].op # "send"
      BY <1>2, <1>4, <2>1, <2>8 DEF Hosts!SendsAll
    <3>2. \A j \in DOMAIN u : u[j].op # "send"
      <4>1. 1..m = 1..1 + over
        BY <2>1
      <4>2. QED
        BY <2>1, <3>1, <4>1
    <3>3. Hosts!SendsOf(u) = {}
      BY <3>2, InSends
    <3>4. QED
      BY <2>4, <3>3
  <2> HIDE DEF u, rest, passed, m, s, step, over
  <2>9. CASE tells
    <3>1. Hosts!When(tells, tell) \o rest = tell \o rest
      BY <2>9 DEF Hosts!When
    <3> DEFINE t == tell \o rest
    <3>2. /\ Sound(t) /\ ReadsOf(t) = passed \cup ReadsOf(rest) /\ Hosts!SendsOf(t) = Hosts!SendsOf(rest)
          /\ Hosts!SendsAll(rest) => Hosts!SendsAll(t)
          /\ Hosts!Separate(Hosts!Plan, rest) /\ passed \cap ReadsOf(rest) = {} => Hosts!Separate(Hosts!Plan, t)
      BY <2>3, <2>5, TellFirst
    <3>3. todo' = [todo EXCEPT ![p] = t] /\ err' = err /\ lost' = lost
      BY <2>2, <2>9, <3>1
    <3> HIDE DEF t, tell, tells
    <3>4. PassesBy(p, e, t, {})
      BY <2>3, <2>4, <2>6, <2>8, <3>2, <3>3 DEF PassesBy, s
    <3>5. QED
      BY <3>4
  <2>10. CASE ~tells
    <3>1. Hosts!When(tells, tell) \o rest = rest
      <4>1. Hosts!When(tells, tell) = <<>>
        BY <2>10 DEF Hosts!When
      <4>2. <<>> \o rest = rest
        BY <2>5, ScriptParts
      <4>3. QED
        BY <4>1, <4>2
    <3>2. todo' = [todo EXCEPT ![p] = rest] /\ err' = err /\ lost' = lost \cup passed
      BY <2>2, <2>10, <3>1
    <3>3. ~Hosts!Tells(Hosts!Plan)
      BY <2>7, <2>10
    <3> HIDE DEF tell, tells
    <3>4. PassesBy(p, e, rest, passed)
      BY <2>3, <2>4, <2>6, <2>8, <3>2, <3>3 DEF PassesBy, s
    <3>5. QED
      BY <3>4
  <2>11. QED
    BY <2>9, <2>10
<1>5. QED
  BY <1>3, <1>4

-----------------------------------------------------------------------------
(* The places, before and after a step.                                    *)
LEMMA PlacesAre ==
  /\ \A p \in Hosts!Procs : /\ <<"of", p>> \in Places
                            /\ Has(<<"of", p>>) = ReadsOf(Left(p)) /\ Has(<<"of", p>>)' = ReadsOf(Left(p))'
  /\ \A x \in {"done", "unbegun", "repoCh", "runCh"} : <<"in", x>> \in Places
  /\ Has(<<"in", "done">>) = Handled /\ Has(<<"in", "done">>)' = Handled'
  /\ Has(<<"in", "unbegun">>) = Unbegun /\ Has(<<"in", "unbegun">>)' = Unbegun'
  /\ Has(<<"in", "repoCh">>) = InRepoCh /\ Has(<<"in", "repoCh">>)' = InRepoCh'
  /\ Has(<<"in", "runCh">>) = InRunCh /\ Has(<<"in", "runCh">>)' = InRunCh'
  /\ \A c \in Places : \/ \E p \in Hosts!Procs : c = <<"of", p>>
                       \/ \E x \in {"done", "unbegun", "repoCh", "runCh"} : c = <<"in", x>>
<1>1. /\ \A p \in Hosts!Procs : Has(<<"of", p>>) = ReadsOf(Left(p)) /\ Has(<<"of", p>>)' = ReadsOf(Left(p))'
      /\ Has(<<"in", "done">>) = Handled /\ Has(<<"in", "done">>)' = Handled'
      /\ Has(<<"in", "unbegun">>) = Unbegun /\ Has(<<"in", "unbegun">>)' = Unbegun'
      /\ Has(<<"in", "repoCh">>) = InRepoCh /\ Has(<<"in", "repoCh">>)' = InRepoCh'
      /\ Has(<<"in", "runCh">>) = InRunCh /\ Has(<<"in", "runCh">>)' = InRunCh'
  BY DEF Has
<1>2. QED
  BY <1>1 DEF Places

(* What goes from one place to another stays in the plan, and apart; only  *)
(* with trouble is any of it dropped.                                      *)
LEMMA HostFlows ==
  ASSUME HostWhole, Hosts!ReadOnce(Hosts!Plan) => HostDisjoint, Hosts!Plan' = Hosts!Plan,
         NEW a \in Places, NEW b \in Places,
         \A c \in Places \ {a, b} : Has(c)' = Has(c),
         Has(a)' \cup Has(b)' \subseteq Has(a) \cup Has(b),
         HostTrouble => HostTrouble',
         HostTrouble' \/ Has(a) \cup Has(b) \subseteq Has(a)' \cup Has(b)',
         Hosts!ReadOnce(Hosts!Plan) /\ a # b => Has(a)' \cap Has(b)' = {}
  PROVE  HostWhole' /\ (Hosts!ReadOnce(Hosts!Plan) => HostDisjoint')
<1>1. HostAll' \subseteq HostAll
  <2> SUFFICES ASSUME NEW i \in HostAll'
               PROVE  i \in HostAll
    OBVIOUS
  <2>1. PICK c \in Places : i \in Has(c)'
    BY DEF HostAll
  <2>2. CASE c \in {a, b}
    BY <2>1, <2>2 DEF HostAll
  <2>3. CASE c \notin {a, b}
    BY <2>1, <2>3 DEF HostAll
  <2>4. QED
    BY <2>2, <2>3
<1>2. HostTrouble' \/ HostAll \subseteq HostAll'
  <2> SUFFICES ASSUME ~HostTrouble', NEW i \in HostAll
               PROVE  i \in HostAll'
    OBVIOUS
  <2>1. PICK c \in Places : i \in Has(c)
    BY DEF HostAll
  <2>2. CASE c \in {a, b}
    BY <2>1, <2>2 DEF HostAll
  <2>3. CASE c \notin {a, b}
    BY <2>1, <2>3 DEF HostAll
  <2>4. QED
    BY <2>2, <2>3
<1>3. HostWhole'
  BY <1>1, <1>2 DEF HostWhole
<1>4. ASSUME Hosts!ReadOnce(Hosts!Plan), NEW c \in Places, NEW d \in Places, c # d
      PROVE  Has(c)' \cap Has(d)' = {}
  <2>1. \A x, y \in Places : x # y => Has(x) \cap Has(y) = {}
    BY <1>4 DEF HostDisjoint
  <2>2. \A x \in Places \ {a, b} : Has(x)' \cap (Has(a)' \cup Has(b)') = {}
    BY <2>1
  <2>3. CASE c \in {a, b} /\ d \in {a, b}
    BY <1>4, <2>3
  <2>4. CASE c \notin {a, b} /\ d \in {a, b}
    BY <1>4, <2>2, <2>4
  <2>5. CASE c \in {a, b} /\ d \notin {a, b}
    BY <1>4, <2>2, <2>5
  <2>6. CASE c \notin {a, b} /\ d \notin {a, b}
    <3>1. Has(c)' = Has(c) /\ Has(d)' = Has(d)
      BY <2>6
    <3>2. QED
      BY <1>4, <2>1, <3>1
  <2>7. QED
    BY <2>3, <2>4, <2>5, <2>6
<1>5. QED
  BY <1>3, <1>4 DEF HostDisjoint

(* A goroutine's step hands on, to the place b, what it no longer has to   *)
(* do, unless it keeps an error.                                           *)
HostPasses(p, b) ==
  /\ b \in {<<"in", x>> : x \in {"done", "repoCh", "runCh"}}
  /\ \A x \in {"done", "repoCh", "runCh"} : <<"in", x>> # b => Has(<<"in", x>>)' = Has(<<"in", x>>)
  /\ ReadsOf(todo'[p]) \cup Has(b)' \subseteq ReadsOf(todo[p]) \cup Has(b)
  /\ HostTrouble' \/ ReadsOf(todo[p]) \cup Has(b) \subseteq ReadsOf(todo'[p]) \cup Has(b)'
  /\ Hosts!ReadOnce(Hosts!Plan) =>
       /\ ReadsOf(todo'[p]) \cap Has(b)' = {} /\ Hosts!Separate(Hosts!Plan, todo'[p])
       /\ \A j, k \in DOMAIN runCh' :
            j # k => ReadsOf(Hosts!Plan.scripts[runCh'[j]]) \cap ReadsOf(Hosts!Plan.scripts[runCh'[k]]) = {}
  /\ Sound(todo'[p]) /\ (Hosts!Tells(Hosts!Plan) => lost' = {})
  /\ visited' = visited /\ (repoCh' = repoCh \/ p = "enum")
  /\ Hosts!Plan.wrapped /\ state'[p] = "yielding" => \A q \in Hosts!Procs : q = p \/ state[q] # "yielding"
  /\ p = "enum" /\ Hosts!SendsAll(todo[p]) =>
       /\ Hosts!SendsAll(todo'[p])
       /\ cause' = "none" /\ err'[p] = "none" =>
            Hosts!SendsOf(todo'[p]) \cup HostSent' = Hosts!SendsOf(todo[p]) \cup HostSent

(* Whoever moves owns no open group, and no move ends trouble.             *)
LEMMA HostMoveFrame ==
  ASSUME HostInv, NEW p \in Hosts!Procs, HostMoves(p)
  PROVE  /\ Left(p) = todo[p] /\ Left(p)' = todo'[p]
         /\ \A q \in Hosts!Procs : q # p => Left(q)' = Left(q)
         /\ HostTrouble => HostTrouble'
         /\ at # "returned" /\ Hosts!Plan' = Hosts!Plan /\ UNCHANGED <<target, at, verdict>>
         /\ \A q \in Hosts!Procs : (state'[q] = "idle" <=> state[q] = "idle") /\ (state'[q] = "done" <=> state[q] = "done")
         /\ \A q \in Hosts!Procs : err[q] # "none" => err'[q] # "none"
         /\ state[p] \in {"busy", "yielding"} /\ state'[p] \in {"busy", "yielding"}
<1>0. /\ HostTypes /\ HostPhases /\ HostGroup /\ HostWork(p) /\ Hosts!Plan' = Hosts!Plan
      /\ UNCHANGED <<target, at, verdict>> /\ state[p] \in {"busy", "yielding"} /\ todo[p] # <<>>
      /\ state'[p] \in {"busy", "yielding"}
      /\ \A q \in Hosts!Procs : q # p => todo'[q] = todo[q] /\ state'[q] = state[q]
  BY DEF HostInv, HostMoves, Hosts!Plan
<1> USE HostProcs
<1>1. \A q \in Hosts!Procs : (state'[q] = "idle" <=> state[q] = "idle") /\ (state'[q] = "done" <=> state[q] = "done")
  BY <1>0
<1>2. at # "returned"
  <2> SUFFICES ASSUME at = "returned"
               PROVE  FALSE
    OBVIOUS
  <2>1. state["list"] = "idle"
    BY HostIdle
  <2>2. \A q \in Hosts!Group : state[q] = "idle"
    BY <1>0, <2>1 DEF HostGroup
  <2>3. p \in {"main", "enum", "scan"}
    BY <1>0, <2>2
  <2>4. QED
    BY <1>0, <2>3 DEF HostPhases
<1>3. state["list"] # "idle" => p # HostOwner
  <2>1. state["list"] # "idle" => Hosts!NextIs(HostOwner, {"group"})
    BY <1>0 DEF HostGroup, HostOwner
  <2>2. QED
    BY <2>1 DEF HostMoves, Hosts!NextIs
<1>4. HostOwner' = HostOwner
  BY <1>0 DEF HostOwner
<1>5. (state'["list"] # "idle") <=> (state["list"] # "idle")
  BY <1>1
<1>6. /\ Left(p) = todo[p] /\ Left(p)' = todo'[p]
      /\ \A q \in Hosts!Procs : q # p => Left(q)' = Left(q)
  BY <1>0, <1>3, <1>4, <1>5 DEF Left
<1>7. \A q \in Hosts!Procs : err[q] # "none" => err'[q] # "none"
  <2>1. CASE err' = err
    BY <2>1
  <2>2. CASE \E kept \in Errors : HostKeeps(p, kept)
    BY <2>2 DEF HostKeeps, Hosts!First, Errors
  <2>3. QED
    BY <2>1, <2>2 DEF HostMoves
<1>8. cause # "none" => cause' # "none"
  BY DEF HostMoves
<1>9. HostTrouble => HostTrouble'
  BY <1>0, <1>7, <1>8 DEF HostTrouble, HostSingles, Hosts!GroupErr
<1>10. QED
  BY <1>0, <1>1, <1>2, <1>6, <1>7, <1>9

LEMMA HostMoveQueues ==
  ASSUME HostInv, HostQueues, NEW p \in Hosts!Procs, HostMoves(p),
         visited' = visited, repoCh' = repoCh \/ p = "enum"
  PROVE  HostQueues'
<1>1. /\ HostTrouble => HostTrouble'
      /\ at # "returned" /\ Hosts!Plan' = Hosts!Plan /\ UNCHANGED <<target, at, verdict>>
      /\ \A q \in Hosts!Procs : (state'[q] = "idle" <=> state[q] = "idle") /\ (state'[q] = "done" <=> state[q] = "done")
      /\ state[p] \in {"busy", "yielding"}
  BY HostMoveFrame
<1>2. "enum" \in Hosts!Procs /\ "scan" \in Hosts!Procs /\ "list" \in Hosts!Procs /\ Workers \subseteq Hosts!Procs
  BY HostProcs
<1>3. runCh' = runCh \/ state["list"] \in {"busy", "yielding"}
  BY <1>1 DEF HostMoves
<1>4. repoCh' = repoCh \/ state["enum"] \in {"busy", "yielding"}
  BY <1>1
<1>5. cause # "none" => cause' # "none"
  BY DEF HostMoves
<1>6. /\ state'["enum"] = "idle" => repoCh' = <<>> /\ visited' = <<>>
      /\ state'["enum"] = "idle" <=> state'["scan"] = "idle"
      /\ state'["scan"] = "done" => cause' # "none" \/ (repoCh' = <<>> /\ state'["enum"] = "done")
      /\ state'["enum"] # "idle" => Hosts!Plan.accepted /\ Hosts!Plan.enumerate
  BY <1>1, <1>2, <1>4, <1>5 DEF HostQueues
<1>7. \A w \in Workers : state'[w] = "done" => HostTrouble' \/ (runCh' = <<>> /\ state'["list"] = "done")
  BY <1>1, <1>2, <1>3 DEF HostQueues
<1>8. QED
  BY <1>1, <1>6, <1>7 DEF HostQueues

LEMMA HostMoveReads ==
  ASSUME HostInv, HostReads, NEW p \in Hosts!Procs, HostMoves(p), NEW b, HostPasses(p, b)
  PROVE  HostReads'
<1>0. /\ HostTypes /\ HostSound /\ HostQueues /\ HostWhole /\ HostApart /\ HostRepos
  BY DEF HostInv, HostReads
<1>1. /\ Left(p) = todo[p] /\ Left(p)' = todo'[p]
      /\ \A q \in Hosts!Procs : q # p => Left(q)' = Left(q) /\ todo'[q] = todo[q] /\ state'[q] = state[q]
      /\ HostTrouble => HostTrouble'
      /\ at # "returned" /\ Hosts!Plan' = Hosts!Plan /\ UNCHANGED <<target, at, verdict>>
      /\ \A q \in Hosts!Procs : (state'[q] = "idle" <=> state[q] = "idle") /\ (state'[q] = "done" <=> state[q] = "done")
      /\ \A q \in Hosts!Procs : err[q] # "none" => err'[q] # "none"
      /\ cause # "none" => cause' # "none"
  BY HostMoveFrame DEF HostMoves
<1> USE HostProcs
<1>2. HostQueues'
  BY <1>0, HostMoveQueues DEF HostPasses
<1>3. HostSound'
  BY <1>0, <1>1 DEF HostSound, HostPasses, Sound
<1>4. HostWhole' /\ (Hosts!ReadOnce(Hosts!Plan) => HostDisjoint')
  <2> DEFINE a == <<"of", p>>
  <2>1. /\ a \in Places /\ b \in Places /\ a # b
        /\ Has(a) = ReadsOf(todo[p]) /\ Has(a)' = ReadsOf(todo'[p])
    <3>1. Has(a) = ReadsOf(Left(p)) /\ Has(a)' = ReadsOf(Left(p))' /\ a \in Places
      BY PlacesAre
    <3>2. ReadsOf(Left(p))' = ReadsOf(todo'[p])
      BY <1>1 DEF ReadsOf
    <3>3. b \in Places /\ a # b
      BY PlacesAre DEF HostPasses
    <3>4. QED
      BY <1>1, <3>1, <3>2, <3>3
  <2>2. \A q \in Hosts!Procs : q # p => Has(<<"of", q>>)' = Has(<<"of", q>>)
    <3>1. ASSUME NEW q \in Hosts!Procs, q # p
          PROVE  ReadsOf(Left(q))' = ReadsOf(Left(q))
      BY <1>1, <3>1 DEF ReadsOf
    <3>2. QED
      BY <3>1, PlacesAre
  <2>3. Has(<<"in", "unbegun">>)' = Has(<<"in", "unbegun">>)
    <3>1. Unbegun' = Unbegun
      BY <1>1 DEF Unbegun, ReadsOf
    <3>2. QED
      BY <3>1, PlacesAre
  <2>4. ASSUME NEW c \in Places \ {a, b}
        PROVE  Has(c)' = Has(c)
    <3>1. CASE \E q \in Hosts!Procs : c = <<"of", q>>
      BY <2>2, <2>4, <3>1
    <3>2. CASE \E x \in {"done", "unbegun", "repoCh", "runCh"} : c = <<"in", x>>
      BY <2>3, <2>4, <3>2 DEF HostPasses
    <3>3. QED
      BY <3>1, <3>2, PlacesAre
  <2> HIDE DEF a
  <2>5. /\ Has(a)' \cup Has(b)' \subseteq Has(a) \cup Has(b)
        /\ HostTrouble' \/ Has(a) \cup Has(b) \subseteq Has(a)' \cup Has(b)'
        /\ Hosts!ReadOnce(Hosts!Plan) => Has(a)' \cap Has(b)' = {}
    BY <2>1 DEF HostPasses
  <2>6. QED
    BY <1>0, <1>1, <2>1, <2>4, <2>5, HostFlows DEF HostApart
<1>5. HostApart'
  <2> SUFFICES ASSUME Hosts!ReadOnce(Hosts!Plan)
               PROVE  /\ \A q \in Hosts!Procs : Hosts!Separate(Hosts!Plan, todo'[q])
                      /\ \A j, k \in DOMAIN runCh' :
                           j # k => ReadsOf(Hosts!Plan.scripts[runCh'[j]]) \cap ReadsOf(Hosts!Plan.scripts[runCh'[k]]) = {}
    BY <1>1, <1>4 DEF HostApart, ReadsOf
  <2>1. QED
    BY <1>0, <1>1 DEF HostApart, HostPasses
<1>6. HostRepos'
  <2>1. Hosts!SendsAll(todo["enum"]) =>
          /\ Hosts!SendsAll(todo'["enum"])
          /\ cause' = "none" /\ err'["enum"] = "none" =>
               Hosts!SendsOf(todo'["enum"]) \cup HostSent' = Hosts!SendsOf(todo["enum"]) \cup HostSent
    <3>1. CASE p = "enum"
      BY <3>1 DEF HostPasses
    <3>2. CASE p # "enum"
      BY <1>1, <3>2 DEF HostPasses, HostSent
    <3>3. QED
      BY <3>1, <3>2
  <2>2. visited' = visited
    BY DEF HostPasses
  <2>3. QED
    BY <1>0, <1>1, <2>1, <2>2 DEF HostRepos
<1>7. Hosts!Plan.wrapped => \A q, r \in Hosts!Procs : state'[q] = "yielding" /\ state'[r] = "yielding" => q = r
  <2>1. Hosts!Plan.wrapped => \A q, r \in Hosts!Procs : state[q] = "yielding" /\ state[r] = "yielding" => q = r
    BY DEF HostReads
  <2>2. QED
    BY <1>1, <2>1 DEF HostPasses
<1>8. Hosts!Tells(Hosts!Plan) => lost' = {}
  BY DEF HostPasses
<1>9. QED
  BY <1>1, <1>2, <1>3, <1>4, <1>5, <1>6, <1>7, <1>8 DEF HostReads

-----------------------------------------------------------------------------
(* What a goroutine that moves has still to do, and where none of it is.   *)
LEMMA HostOwn ==
  ASSUME HostInv, HostReads, NEW p \in Hosts!Procs, HostMoves(p)
  PROVE  /\ target \in DOMAIN HostTargets /\ todo[p] # <<>>
         /\ HostScript(Hosts!Plan, todo[p]) /\ Sound(todo[p])
         /\ Hosts!ReadOnce(Hosts!Plan) =>
              /\ Hosts!Separate(Hosts!Plan, todo[p])
              /\ \A x \in {"done", "repoCh", "runCh"} : ReadsOf(todo[p]) \cap Has(<<"in", x>>) = {}
              /\ \A j, k \in DOMAIN runCh :
                   j # k => ReadsOf(Hosts!Plan.scripts[runCh[j]]) \cap ReadsOf(Hosts!Plan.scripts[runCh[k]]) = {}
<1>1. HostTypes /\ HostApart /\ HostSound /\ todo[p] # <<>> /\ Left(p) = todo[p]
  BY HostMoveFrame DEF HostInv, HostReads, HostMoves
<1>2. ASSUME Hosts!ReadOnce(Hosts!Plan), NEW x \in {"done", "repoCh", "runCh"}
      PROVE  ReadsOf(todo[p]) \cap Has(<<"in", x>>) = {}
  <2>1. <<"of", p>> \in Places /\ <<"in", x>> \in Places /\ <<"of", p>> # <<"in", x>> /\ Has(<<"of", p>>) = ReadsOf(todo[p])
    BY <1>1, PlacesAre
  <2>2. QED
    BY <1>1, <1>2, <2>1 DEF HostApart, HostDisjoint
<1>3. QED
  BY <1>1, <1>2 DEF HostTypes, HostSound, HostApart

(* A step is done, and what it reads is handed on.                         *)
LEMMA HostDropReads ==
  ASSUME HostInv, HostReads, NEW p \in Hosts!Procs, HostMoves(p),
         todo'[p] = Tail(todo[p]), state'[p] = "busy", lost' = lost, visited' = visited, repoCh' = repoCh \/ p = "enum",
         NEW b, b \in {<<"in", x>> : x \in {"done", "repoCh", "runCh"}},
         \A x \in {"done", "repoCh", "runCh"} : <<"in", x>> # b => Has(<<"in", x>>)' = Has(<<"in", x>>),
         \/ Has(b)' = Has(b) \cup Hosts!Reads(Hosts!Plan, Head(todo[p]))
         \/ HostTrouble' /\ Has(b)' = Has(b),
         Hosts!ReadOnce(Hosts!Plan) =>
           \A j, k \in DOMAIN runCh' :
             j # k => ReadsOf(Hosts!Plan.scripts[runCh'[j]]) \cap ReadsOf(Hosts!Plan.scripts[runCh'[k]]) = {},
         p = "enum" /\ cause' = "none" => HostSent' = HostSent \cup (IF Head(todo[p]).op = "send" THEN {Head(todo[p]).in} ELSE {})
  PROVE  HostReads'
<1> DEFINE s == todo[p]
<1>1. /\ target \in DOMAIN HostTargets /\ s # <<>> /\ HostScript(Hosts!Plan, s) /\ Sound(s)
      /\ Hosts!ReadOnce(Hosts!Plan) =>
           /\ Hosts!Separate(Hosts!Plan, s)
           /\ \A x \in {"done", "repoCh", "runCh"} : ReadsOf(s) \cap Has(<<"in", x>>) = {}
  BY HostOwn
<1>2. /\ ReadsOf(s) = Hosts!Reads(Hosts!Plan, Head(s)) \cup ReadsOf(Tail(s))
      /\ Hosts!SendsOf(s) = (IF Head(s).op = "send" THEN {Head(s).in} ELSE {}) \cup Hosts!SendsOf(Tail(s))
      /\ Hosts!Separate(Hosts!Plan, s) =>
           Hosts!Separate(Hosts!Plan, Tail(s)) /\ Hosts!Reads(Hosts!Plan, Head(s)) \cap ReadsOf(Tail(s)) = {}
  BY <1>1, ReadsFromTheFirst DEF ReadsOf
<1>3. Sound(Tail(s)) /\ (Hosts!SendsAll(s) => Hosts!SendsAll(Tail(s)))
  <2>1. 0 \in 0..Len(s) /\ Len(s) \in Nat
    BY <1>1 DEF HostScript
  <2>2. 1 \in 1..Len(s) /\ Tail(s) = SubSeq(s, 1 + 1, Len(s))
    BY <1>1, <2>1, ScriptCut
  <2>3. QED
    BY <1>1, <2>2, SoundBehind
<1>4. Hosts!Tells(Hosts!Plan) => lost' = {}
  BY DEF HostReads
<1> HIDE DEF s
<1>5. todo'[p] = Tail(s) /\ s = todo[p]
  BY DEF s
<1>6. /\ ReadsOf(Tail(s)) \cup Has(b)' \subseteq ReadsOf(s) \cup Has(b)
      /\ HostTrouble' \/ ReadsOf(s) \cup Has(b) \subseteq ReadsOf(Tail(s)) \cup Has(b)'
      /\ Hosts!ReadOnce(Hosts!Plan) => ReadsOf(Tail(s)) \cap Has(b)' = {} /\ Hosts!Separate(Hosts!Plan, Tail(s))
  <2>1. Hosts!ReadOnce(Hosts!Plan) => ReadsOf(s) \cap Has(b) = {}
    BY <1>1
  <2>2. QED
    BY <1>1, <1>2, <1>5, <2>1
<1>7. HostPasses(p, b)
  BY <1>2, <1>3, <1>4, <1>5, <1>6 DEF HostPasses
<1>8. QED
  BY <1>7, HostMoveReads

(* An error is kept, or passes some steps by.                              *)
LEMMA HostFailsReads ==
  ASSUME HostInv, HostReads, NEW p \in Hosts!Procs, HostMoves(p),
         NEW e \in Errors \cup {"gone"}, Hosts!Handle(p, e), state'[p] = "busy",
         UNCHANGED <<visited, yielded, told, repoCh, runCh>>,
         e = "refused" => refused' # {}, e = "canceled" => Hosts!Done(p)
  PROVE  HostReads'
<1> DEFINE b == <<"in", "done">>
<1>1. /\ target \in DOMAIN HostTargets /\ todo[p] # <<>> /\ HostScript(Hosts!Plan, todo[p]) /\ Sound(todo[p])
      /\ Hosts!ReadOnce(Hosts!Plan) =>
           /\ Hosts!Separate(Hosts!Plan, todo[p]) /\ ReadsOf(todo[p]) \cap Handled = {}
           /\ \A j, k \in DOMAIN runCh :
                j # k => ReadsOf(Hosts!Plan.scripts[runCh[j]]) \cap ReadsOf(Hosts!Plan.scripts[runCh[k]]) = {}
      /\ Hosts!Plan' = Hosts!Plan
  BY HostOwn, PlacesAre, HostMoveFrame
<1>2. Has(<<"in", "repoCh">>)' = Has(<<"in", "repoCh">>) /\ Has(<<"in", "runCh">>)' = Has(<<"in", "runCh">>)
  <2>1. InRepoCh' = InRepoCh /\ InRunCh' = InRunCh
    BY <1>1 DEF InRepoCh, InRunCh, ReadsOf
  <2>2. QED
    BY <2>1, PlacesAre
<1>3. Has(b) = Handled /\ Has(b)' = Handled' /\ HostSent' = HostSent
  BY PlacesAre DEF HostSent
<1>4. Hosts!Tells(Hosts!Plan) => lost = {}
  BY DEF HostReads
<1>5. DOMAIN todo = Hosts!Procs
  BY DEF HostInv, HostTypes
<1>6. CASE /\ todo' = [todo EXCEPT ![p] = <<>>] /\ err'[p] # "none" /\ lost' = lost
           /\ (p \in Hosts!Group => err'["list"] # "none")
  <2>1. todo'[p] = <<>> /\ ReadsOf(<<>>) = {} /\ Sound(<<>>) /\ Hosts!Separate(Hosts!Plan, <<>>) /\ Hosts!SendsAll(<<>>)
    BY <1>5, <1>6, NothingToRead DEF ReadsOf
  <2>2. Handled' = Handled
    BY <1>6 DEF Handled
  <2>3. HostTrouble'
    <3>1. p \in Hosts!Group \/ p \in HostSingles
      BY HostProcs DEF HostSingles
    <3>2. QED
      BY <1>6, <3>1 DEF HostTrouble, Hosts!GroupErr
  <2> HIDE DEF b
  <2>4. HostPasses(p, b)
    BY <1>1, <1>2, <1>3, <1>4, <1>6, <2>1, <2>2, <2>3 DEF HostPasses, b
  <2>5. QED
    BY <2>4, HostMoveReads
<1>7. CASE \E script, gone : PassesBy(p, e, script, gone)
  <2>1. PICK script, gone : PassesBy(p, e, script, gone)
    BY <1>7
  <2>2. /\ todo'[p] = script /\ lost' = lost \cup gone /\ err' = err
        /\ ReadsOf(todo[p]) = ReadsOf(script) \cup gone
        /\ Hosts!Separate(Hosts!Plan, todo[p]) => Hosts!Separate(Hosts!Plan, script) /\ ReadsOf(script) \cap gone = {}
        /\ Sound(script) /\ (Hosts!Tells(Hosts!Plan) => gone = {})
        /\ Hosts!SendsAll(todo[p]) =>
             Hosts!SendsAll(script) /\ (e \in {"fail", "gone"} => Hosts!SendsOf(script) = Hosts!SendsOf(todo[p]))
    BY <1>5, <2>1 DEF PassesBy
  <2>3. Handled' = Handled \cup gone
    BY <2>2 DEF Handled
  <2>4. p = "enum" /\ cause' = "none" => e \in {"fail", "gone"}
    <3>1. p = "enum" => Hosts!Plan.wrapped
      <4>1. p = "enum" => state["enum"] # "idle"
        BY HostMoveFrame
      <4>2. p = "enum" => Hosts!Plan.enumerate
        BY <4>1 DEF HostReads, HostQueues
      <4>3. QED
        BY <1>1, <4>2, PlanScripts
    <3>2. p = "enum" => p \notin Hosts!Group
      BY HostProcs
    <3>3. cause # "none" => cause' # "none"
      BY DEF HostMoves
    <3>4. QED
      BY <3>1, <3>2, <3>3 DEF HostMoves, Errors, Hosts!Done
  <2>5. /\ ReadsOf(script) \cup Handled' \subseteq ReadsOf(todo[p]) \cup Handled
        /\ ReadsOf(todo[p]) \cup Handled \subseteq ReadsOf(script) \cup Handled'
        /\ Hosts!ReadOnce(Hosts!Plan) => ReadsOf(script) \cap Handled' = {} /\ Hosts!Separate(Hosts!Plan, script)
    BY <1>1, <2>2, <2>3
  <2> HIDE DEF b
  <2>6. HostPasses(p, b)
    BY <1>1, <1>2, <1>3, <1>4, <2>2, <2>4, <2>5 DEF HostPasses, b
  <2>7. QED
    BY <2>6, HostMoveReads
<1>8. QED
  BY <1>1, <1>6, <1>7, HostHandleReads

(* Every step of a script keeps track of the inputs, and so do sendings.   *)
LEMMA HostScriptReads ==
  ASSUME HostInv, HostReads, NEW p \in Hosts!Procs, target' = target,
         Hosts!ScriptStep(p) \/ (p = "enum" /\ Hosts!SendRepo) \/ (p = "list" /\ Hosts!SendItem)
  PROVE  HostReads'
<1>1. HostMoves(p)
  BY HostScriptMoves
<1>2. /\ target \in DOMAIN HostTargets /\ todo[p] # <<>> /\ HostScript(Hosts!Plan, todo[p]) /\ Sound(todo[p])
      /\ Hosts!ReadOnce(Hosts!Plan) =>
           /\ Hosts!Separate(Hosts!Plan, todo[p])
           /\ \A x \in {"done", "repoCh", "runCh"} : ReadsOf(todo[p]) \cap Has(<<"in", x>>) = {}
           /\ \A j, k \in DOMAIN runCh :
                j # k => ReadsOf(Hosts!Plan.scripts[runCh[j]]) \cap ReadsOf(Hosts!Plan.scripts[runCh[k]]) = {}
  BY <1>1, HostOwn
<1>3. /\ HostTypes /\ HostRefused /\ Hosts!Plan' = Hosts!Plan /\ HostWork(p)
      /\ state \in [Hosts!Procs -> {"idle", "busy", "yielding", "done"}] /\ DOMAIN todo = Hosts!Procs
  BY DEF HostInv, HostTypes, Hosts!Plan
<1>4. HostStep(Hosts!Plan, Head(todo[p]))
  BY <1>2, ScriptParts
<1> DEFINE R == Hosts!Reads(Hosts!Plan, Head(todo[p]))
<1>5. /\ Head(todo[p]).op = "send" => Head(todo[p]).in \in DOMAIN Hosts!Plan.scripts /\ R = ReadsOf(Hosts!Plan.scripts[Head(todo[p]).in])
      /\ Head(todo[p]).op = "yield" => R = {Head(todo[p]).in}
      /\ Head(todo[p]).op = "tell" => R = Head(todo[p]).of
      /\ Head(todo[p]).op = "fetch" => R = {}
  BY <1>2, <1>4, ReadsOfOther
<1> HIDE DEF R
<1>6. /\ UNCHANGED repoCh => Has(<<"in", "repoCh">>)' = Has(<<"in", "repoCh">>) /\ HostSent' = HostSent
      /\ UNCHANGED runCh  => Has(<<"in", "runCh">>)' = Has(<<"in", "runCh">>)
      /\ UNCHANGED <<yielded, told, lost>> => Has(<<"in", "done">>)' = Has(<<"in", "done">>)
  <2>1. ASSUME UNCHANGED repoCh
        PROVE  InRepoCh' = InRepoCh /\ HostSent' = HostSent
    BY <1>3, <2>1 DEF InRepoCh, HostSent, ReadsOf
  <2>2. ASSUME UNCHANGED runCh
        PROVE  InRunCh' = InRunCh
    BY <1>3, <2>2 DEF InRunCh, ReadsOf
  <2>3. ASSUME UNCHANGED <<yielded, told, lost>>
        PROVE  Handled' = Handled
    BY <2>3 DEF Handled
  <2>4. QED
    BY <2>1, <2>2, <2>3, PlacesAre
<1>7. ASSUME Hosts!Request(p) \/ Hosts!YieldAccepts(p)
      PROVE  HostReads'
  <2> DEFINE b == <<"in", "done">>
  <2>1. /\ todo' = [todo EXCEPT ![p] = Tail(todo[p])] /\ UNCHANGED <<repoCh, runCh, visited, lost>>
        /\ (state' = state /\ state[p] = "busy") \/ state' = [state EXCEPT ![p] = "busy"]
    <3>1. CASE Hosts!Request(p)
      BY <3>1 DEF Hosts!Request, Hosts!Drop, Hosts!NextIs, Hosts!results
    <3>2. CASE Hosts!YieldAccepts(p)
      BY <3>2 DEF Hosts!YieldAccepts, Hosts!Drop
    <3>3. QED
      BY <1>7, <3>1, <3>2
  <2>2. todo'[p] = Tail(todo[p]) /\ state'[p] = "busy"
    BY <1>3, <2>1
  <2>3. Handled' = Handled \cup R
    <3>1. CASE Hosts!Request(p)
      BY <1>5, <3>1 DEF Hosts!Request, Hosts!NextIs, Hosts!results, Handled
    <3>2. CASE Hosts!YieldAccepts(p)
      <4>1. Head(todo[p]).op \in {"yield", "tell"}
        BY <1>3, <3>2 DEF Hosts!YieldAccepts, HostWork
      <4>2. CASE Head(todo[p]).op = "tell"
        BY <1>5, <3>2, <4>2 DEF Hosts!YieldAccepts, Handled
      <4>3. CASE Head(todo[p]).op = "yield"
        BY <1>5, <3>2, <4>3 DEF Hosts!YieldAccepts, Handled
      <4>4. QED
        BY <4>1, <4>2, <4>3
    <3>3. QED
      BY <1>7, <3>1, <3>2
  <2>4. Head(todo[p]).op # "send"
    BY <1>3, <1>7 DEF Hosts!Request, Hosts!YieldAccepts, Hosts!NextIs, HostWork
  <2>5. Has(b)' = Has(b) \cup R
    BY <2>3, PlacesAre
  <2>6. /\ \A x \in {"done", "repoCh", "runCh"} : <<"in", x>> # b => Has(<<"in", x>>)' = Has(<<"in", x>>)
        /\ HostSent' = HostSent
    BY <1>6, <2>1
  <2>7. Hosts!ReadOnce(Hosts!Plan) =>
          \A j, k \in DOMAIN runCh' :
            j # k => ReadsOf(Hosts!Plan.scripts[runCh'[j]]) \cap ReadsOf(Hosts!Plan.scripts[runCh'[k]]) = {}
    BY <1>2, <2>1
  <2>8. b \in {<<"in", x>> : x \in {"done", "repoCh", "runCh"}}
    OBVIOUS
  <2> HIDE DEF b
  <2>9. QED
    BY <1>1, <2>1, <2>2, <2>4, <2>5, <2>6, <2>7, <2>8, HostDropReads DEF R
<1>8. ASSUME Hosts!CallYield(p)
      PROVE  HostReads'
  <2> DEFINE b == <<"in", "done">>
  <2>1. /\ UNCHANGED <<todo, repoCh, runCh, visited, yielded, told, lost, err>>
        /\ Hosts!Plan.wrapped => \A q \in Hosts!Procs : state[q] # "yielding"
    BY <1>8 DEF Hosts!CallYield, Hosts!results
  <2>2. Hosts!Tells(Hosts!Plan) => lost = {}
    BY DEF HostReads
  <2>3. Hosts!ReadOnce(Hosts!Plan) => ReadsOf(todo[p]) \cap Has(b) = {}
    BY <1>2
  <2>4. /\ \A x \in {"done", "repoCh", "runCh"} : Has(<<"in", x>>)' = Has(<<"in", x>>)
        /\ HostSent' = HostSent /\ Has(b)' = Has(b)
    BY <1>6, <2>1
  <2>5. b \in {<<"in", x>> : x \in {"done", "repoCh", "runCh"}}
    OBVIOUS
  <2> HIDE DEF b
  <2>6. HostPasses(p, b)
    BY <1>2, <2>1, <2>2, <2>3, <2>4, <2>5 DEF HostPasses
  <2>7. QED
    BY <1>1, <2>6, HostMoveReads
<1>9. ASSUME Hosts!RequestFails(p) \/ Hosts!Reject(p) \/ Hosts!WithholdYield(p) \/ Hosts!YieldRefuses(p)
      PROVE  HostReads'
  <2>1. /\ \E e \in Errors \cup {"gone"} :
             Hosts!Handle(p, e) /\ (e = "refused" => refused' # {}) /\ (e = "canceled" => Hosts!Done(p))
        /\ UNCHANGED <<visited, yielded, told, repoCh, runCh>>
    BY <1>9 DEF Hosts!RequestFails, Hosts!Reject, Hosts!WithholdYield, Hosts!Withheld, Hosts!YieldRefuses, Errors
  <2>2. state'[p] = "busy"
    <3>1. (state' = state /\ state[p] = "busy") \/ state' = [state EXCEPT ![p] = "busy"]
      BY <1>9 DEF Hosts!RequestFails, Hosts!Reject, Hosts!WithholdYield, Hosts!YieldRefuses, Hosts!NextIs
    <3>2. QED
      BY <1>3, <3>1
  <2>3. QED
    BY <1>1, <2>1, <2>2, HostFailsReads
<1>10. ASSUME p = "enum", Hosts!SendRepo
       PROVE  HostReads'
  <2> DEFINE b == <<"in", "repoCh">>
  <2>1. /\ todo' = [todo EXCEPT !["enum"] = Tail(todo["enum"])] /\ UNCHANGED <<runCh, visited, yielded, told, lost>>
        /\ state' = state /\ state[p] = "busy" /\ Head(todo[p]).op = "send"
        /\ \/ repoCh = <<>> /\ repoCh' = <<Head(todo[p]).in>>
           \/ Hosts!Done("enum") /\ repoCh' = repoCh
    BY <1>10 DEF Hosts!SendRepo, Hosts!Drop, Hosts!NextIs, Hosts!results
  <2>2. todo'[p] = Tail(todo[p]) /\ state'[p] = "busy"
    BY <1>3, <1>10, <2>1
  <2>3. Hosts!Done("enum") => cause' # "none" /\ HostTrouble'
    <3>1. Hosts!Done("enum") => cause # "none"
      BY HostProcs DEF Hosts!Done
    <3>2. cause # "none" => cause' # "none"
      BY <1>1 DEF HostMoves
    <3>3. QED
      BY <3>1, <3>2 DEF HostTrouble
  <2>4. \/ Has(b)' = Has(b) \cup R /\ HostSent' = HostSent \cup {Head(todo[p]).in}
        \/ HostTrouble' /\ Has(b)' = Has(b) /\ cause' # "none"
    <3>1. CASE repoCh = <<>> /\ repoCh' = <<Head(todo[p]).in>>
      <4>1. repoCh' # <<>> /\ Head(repoCh') = Head(todo[p]).in
        BY <3>1
      <4>2. InRepoCh = {} /\ HostSent = {} /\ HostSent' = {Head(todo[p]).in}
        BY <3>1, <4>1 DEF InRepoCh, HostSent
      <4>3. InRepoCh' = ReadsOf(Hosts!Plan.scripts[Head(todo[p]).in])
        BY <1>3, <4>1 DEF InRepoCh, ReadsOf
      <4>4. InRepoCh' = R
        BY <1>5, <2>1, <4>3
      <4>5. QED
        BY <4>2, <4>4, PlacesAre
    <3>2. CASE Hosts!Done("enum") /\ repoCh' = repoCh
      BY <1>6, <2>3, <3>2
    <3>3. QED
      BY <2>1, <3>1, <3>2
  <2>5. \A x \in {"done", "repoCh", "runCh"} : <<"in", x>> # b => Has(<<"in", x>>)' = Has(<<"in", x>>)
    BY <1>6, <2>1
  <2>6. Hosts!ReadOnce(Hosts!Plan) =>
          \A j, k \in DOMAIN runCh' :
            j # k => ReadsOf(Hosts!Plan.scripts[runCh'[j]]) \cap ReadsOf(Hosts!Plan.scripts[runCh'[k]]) = {}
    BY <1>2, <2>1
  <2>7. b \in {<<"in", x>> : x \in {"done", "repoCh", "runCh"}}
    OBVIOUS
  <2> HIDE DEF b
  <2>8. QED
    BY <1>1, <1>10, <2>1, <2>2, <2>4, <2>5, <2>6, <2>7, HostDropReads DEF R
<1>11. ASSUME p = "list", Hosts!SendItem
       PROVE  HostReads'
  <2>1. /\ UNCHANGED <<repoCh, visited, yielded, told>> /\ state' = state /\ state[p] = "busy" /\ Head(todo[p]).op = "send"
        /\ \/ runCh' = Append(runCh, Head(todo[p]).in) /\ todo' = [todo EXCEPT ![p] = Tail(todo[p])] /\ UNCHANGED <<err, lost>>
           \/ Hosts!Done("list") /\ Hosts!Handle("list", "canceled") /\ UNCHANGED runCh
    BY <1>11 DEF Hosts!SendItem, Hosts!Drop, Hosts!NextIs
  <2>2. CASE runCh' = Append(runCh, Head(todo[p]).in) /\ todo' = [todo EXCEPT ![p] = Tail(todo[p])] /\ UNCHANGED <<err, lost>>
    <3> DEFINE b    == <<"in", "runCh">>
               name == Head(todo[p]).in
               T(n) == ReadsOf(Hosts!Plan.scripts[n])
    <3>1. todo'[p] = Tail(todo[p]) /\ state'[p] = "busy"
      BY <1>3, <2>1, <2>2
    <3>2. R = T(name) /\ name \in DOMAIN Hosts!Plan.scripts
      BY <1>5, <2>1
    <3> HIDE DEF T, name
    <3>3. /\ DOMAIN runCh' = DOMAIN runCh \cup {Len(runCh) + 1} /\ Len(runCh) + 1 \notin DOMAIN runCh
          /\ runCh'[Len(runCh) + 1] = name /\ \A k \in DOMAIN runCh : runCh'[k] = runCh[k]
      <4> DEFINE names == DOMAIN Hosts!Plan.scripts
      <4>1. runCh \in Seq(names)
        BY <1>3 DEF HostTypes
      <4> HIDE DEF names
      <4>2. runCh' = Append(runCh, name)
        BY <2>2 DEF name
      <4>3. QED
        BY <4>1, <4>2
    <3>4. InRunCh = UNION {T(runCh[k]) : k \in DOMAIN runCh}
      BY DEF InRunCh, T
    <3>5. InRunCh' = UNION {T(runCh'[k]) : k \in DOMAIN runCh'}
      BY <1>3 DEF InRunCh, T, ReadsOf
    <3>6. InRunCh' = InRunCh \cup T(name)
      BY <3>3, <3>4, <3>5
    <3>7. Has(b)' = Has(b) \cup R
      BY <3>2, <3>6, PlacesAre
    <3>8. Hosts!ReadOnce(Hosts!Plan) =>
            \A j, k \in DOMAIN runCh' : j # k => T(runCh'[j]) \cap T(runCh'[k]) = {}
      <4>1. SUFFICES ASSUME Hosts!ReadOnce(Hosts!Plan), NEW j \in DOMAIN runCh', NEW k \in DOMAIN runCh', j # k
                     PROVE  T(runCh'[j]) \cap T(runCh'[k]) = {}
        OBVIOUS
      <4>2. \A x, y \in DOMAIN runCh : x # y => T(runCh[x]) \cap T(runCh[y]) = {}
        BY <1>2, <4>1 DEF T
      <4>3. R \cap InRunCh = {}
        <5>1. R \subseteq ReadsOf(todo[p])
          BY <1>2, ReadsFromTheFirst DEF R, ReadsOf
        <5>2. ReadsOf(todo[p]) \cap InRunCh = {}
          BY <1>2, <4>1, PlacesAre
        <5>3. QED
          BY <5>1, <5>2
      <4>4. \A x \in DOMAIN runCh : T(name) \cap T(runCh[x]) = {}
        BY <3>2, <3>4, <4>3
      <4>5. QED
        BY <3>3, <4>1, <4>2, <4>4
    <3>9. \A x \in {"done", "repoCh", "runCh"} : <<"in", x>> # b => Has(<<"in", x>>)' = Has(<<"in", x>>)
      BY <1>6, <2>1, <2>2
    <3>10. b \in {<<"in", x>> : x \in {"done", "repoCh", "runCh"}}
      OBVIOUS
    <3> HIDE DEF b
    <3>11. QED
      BY <1>1, <1>11, <2>1, <2>2, <3>1, <3>7, <3>8, <3>9, <3>10, HostDropReads DEF R, T
  <2>3. CASE Hosts!Done("list") /\ Hosts!Handle("list", "canceled") /\ UNCHANGED runCh
    BY <1>1, <1>3, <1>11, <2>1, <2>3, HostFailsReads DEF Errors
  <2>4. QED
    BY <2>1, <2>2, <2>3
<1>12. QED
  BY <1>7, <1>8, <1>9, <1>10, <1>11 DEF Hosts!ScriptStep

-----------------------------------------------------------------------------
(* A step that belongs to no script: what it hands from one place to       *)
(* another, and what it keeps.                                             *)
LEMMA HostControlReads ==
  ASSUME HostInv, HostReads, target' = target, NEW a \in Places, NEW b \in Places,
         \A q \in Hosts!Procs : <<"of", q>> \notin {a, b} => ReadsOf(Left(q))' = ReadsOf(Left(q)),
         <<"in", "unbegun">> \notin {a, b} => Unbegun' = Unbegun,
         <<"in", "repoCh">> \notin {a, b} => repoCh' = repoCh,
         <<"in", "runCh">> \notin {a, b} => runCh' = runCh,
         UNCHANGED <<yielded, told, lost>>,
         Has(a)' \cup Has(b)' \subseteq Has(a) \cup Has(b),
         HostTrouble => HostTrouble',
         HostTrouble' \/ Has(a) \cup Has(b) \subseteq Has(a)' \cup Has(b)',
         Hosts!ReadOnce(Hosts!Plan) /\ a # b => Has(a)' \cap Has(b)' = {},
         \A q \in Hosts!Procs :
           todo'[q] = todo[q] \/ (Sound(todo'[q]) /\ (Hosts!ReadOnce(Hosts!Plan) => Hosts!Separate(Hosts!Plan, todo'[q]))),
         \/ runCh' = runCh
         \/ Hosts!ReadOnce(Hosts!Plan) =>
              \A j, k \in DOMAIN runCh' :
                j # k => ReadsOf(Hosts!Plan.scripts[runCh'[j]]) \cap ReadsOf(Hosts!Plan.scripts[runCh'[k]]) = {},
         \A q \in Hosts!Procs : state'[q] = "yielding" => state[q] = "yielding",
         HostQueues', HostRepos'
  PROVE  HostReads'
<1>0. Hosts!Plan' = Hosts!Plan /\ HostSound /\ HostWhole /\ HostApart
  BY DEF Hosts!Plan, HostReads
<1>1. ASSUME NEW c \in Places \ {a, b}
      PROVE  Has(c)' = Has(c)
  <2>1. CASE \E q \in Hosts!Procs : c = <<"of", q>>
    BY <1>1, <2>1, PlacesAre
  <2>2. CASE \E x \in {"done", "unbegun", "repoCh", "runCh"} : c = <<"in", x>>
    <3>1. repoCh' = repoCh => InRepoCh' = InRepoCh
      BY <1>0 DEF InRepoCh, ReadsOf
    <3>2. runCh' = runCh => InRunCh' = InRunCh
      BY <1>0 DEF InRunCh, ReadsOf
    <3>3. Handled' = Handled
      BY DEF Handled
    <3>4. PICK x \in {"done", "unbegun", "repoCh", "runCh"} : c = <<"in", x>>
      BY <2>2
    <3>5. CASE x = "done"
      BY <3>3, <3>4, <3>5, PlacesAre
    <3>6. CASE x = "unbegun"
      BY <1>1, <3>4, <3>6, PlacesAre
    <3>7. CASE x = "repoCh"
      BY <1>1, <3>1, <3>4, <3>7, PlacesAre
    <3>8. CASE x = "runCh"
      BY <1>1, <3>2, <3>4, <3>8, PlacesAre
    <3>9. QED
      BY <3>5, <3>6, <3>7, <3>8
  <2>3. QED
    BY <1>1, <2>1, <2>2, PlacesAre
<1>2. HostWhole' /\ (Hosts!ReadOnce(Hosts!Plan) => HostDisjoint')
  BY <1>0, <1>1, HostFlows DEF HostApart
<1>3. HostSound'
  BY <1>0 DEF HostSound, Sound
<1>4. HostApart'
  <2> SUFFICES ASSUME Hosts!ReadOnce(Hosts!Plan)
               PROVE  /\ \A q \in Hosts!Procs : Hosts!Separate(Hosts!Plan, todo'[q])
                      /\ \A j, k \in DOMAIN runCh' :
                           j # k => ReadsOf(Hosts!Plan.scripts[runCh'[j]]) \cap ReadsOf(Hosts!Plan.scripts[runCh'[k]]) = {}
    BY <1>0, <1>2 DEF HostApart, ReadsOf
  <2>1. QED
    BY <1>0 DEF HostApart
<1>5. Hosts!Plan.wrapped => \A q, r \in Hosts!Procs : state'[q] = "yielding" /\ state'[r] = "yielding" => q = r
  BY DEF HostReads
<1>6. Hosts!Tells(Hosts!Plan) => lost' = {}
  BY DEF HostReads
<1>7. QED
  BY <1>0, <1>2, <1>3, <1>4, <1>5, <1>6 DEF HostReads

(* Whoever leaves the enumeration alone.                                   *)
LEMMA HostReposKept ==
  ASSUME HostRepos, target' = target, UNCHANGED <<visited, repoCh>>, todo'["enum"] = todo["enum"],
         err'["enum"] = err["enum"], state["enum"] = "idle" => state'["enum"] = "idle",
         cause' = "none" => cause = "none"
  PROVE  HostRepos'
<1>1. Hosts!Plan' = Hosts!Plan /\ HostSent' = HostSent
  BY DEF Hosts!Plan, HostSent
<1>2. QED
  BY <1>1 DEF HostRepos

(* Without a group everyone's script is his own.                           *)
LEMMA HostLeft ==
  ASSUME HostInv, target' = target, state["list"] = "idle", state'["list"] = "idle"
  PROVE  /\ \A q \in Hosts!Procs : Left(q) = todo[q] /\ Left(q)' = todo'[q]
         /\ \A q \in Hosts!Procs : todo'[q] = todo[q] => ReadsOf(Left(q))' = ReadsOf(Left(q))
         /\ \A q \in Hosts!Procs : <<"of", q>> \in Places /\ Has(<<"of", q>>) = ReadsOf(todo[q])
                                     /\ Has(<<"of", q>>)' = ReadsOf(todo'[q])
         /\ Hosts!GroupErr = "none" /\ runCh = <<>> /\ \A w \in Workers : state[w] = "idle"
<1>1. \A q \in Hosts!Procs : Left(q) = todo[q] /\ Left(q)' = todo'[q]
  BY DEF Left
<1>2. Hosts!Plan' = Hosts!Plan
  BY DEF Hosts!Plan
<1>3. \A q \in Hosts!Procs : ReadsOf(Left(q))' = ReadsOf(todo'[q])
  BY <1>1, <1>2 DEF ReadsOf
<1>4. Hosts!GroupErr = "none" /\ runCh = <<>> /\ \A w \in Workers : state[w] = "idle"
  BY HostProcs DEF HostInv, HostGroup, Hosts!GroupErr
<1>5. QED
  BY <1>1, <1>3, <1>4, PlacesAre

-----------------------------------------------------------------------------
(* Fragments: it begins with the target's own inputs,                      *)
LEMMA HostBeginReads ==
  ASSUME HostInv, HostReads, Hosts!Begin, target' = target
  PROVE  HostReads'
<1>0. /\ HostTypes /\ HostPhases /\ HostQueues /\ HostRepos /\ HostApart
      /\ Hosts!Plan' = Hosts!Plan
      /\ UNCHANGED <<err, refused, repoCh, runCh, cause, visited, yielded, told, lost>> /\ at = "begin" /\ verdict = {}
  BY DEF HostInv, HostReads, HostQueues, Hosts!Plan, Hosts!Begin, Hosts!results
<1> USE HostProcs
<1>1. state["list"] = "idle" /\ \A q \in HostSingles : todo[q] = <<>>
  <2>1. state["list"] = "idle"
    BY <1>0, HostIdle
  <2>2. \A q \in HostSingles : HostWork(q) /\ state[q] = "idle"
    BY <1>0 DEF HostInv, HostPhases, HostSingles
  <2>3. QED
    BY <2>1, <2>2 DEF HostWork
<1> DEFINE U == <<"in", "unbegun">>
<1>2. /\ U \in Places /\ Has(U) = Hosts!InPlan(Hosts!Plan) /\ Has(U)' = Unbegun'
      /\ Hosts!InPlan(Hosts!Plan) =
           ReadsOf(Hosts!Plan.dispatch) \cup (ReadsOf(Hosts!Plan.main) \cup ReadsOf(Hosts!Listing(Hosts!Plan)))
  BY <1>0, PlacesAre DEF Unbegun, Hosts!InPlan, ReadsOf
<1>3. HostTrouble => HostTrouble'
  BY <1>0 DEF HostTrouble, Hosts!GroupErr
<1>4. CASE ~Hosts!Plan.accepted
  <2>1. at' = "returned" /\ verdict' = {"fail"} /\ UNCHANGED <<todo, state>>
    BY <1>4 DEF Hosts!Begin
  <2>2. Unbegun' = {} /\ HostTrouble'
    BY <2>1 DEF Unbegun, HostTrouble
  <2>3. HostQueues'
    <3>1. \A w \in Workers : state'[w] = "idle"
      BY <1>1, <2>1, HostLeft
    <3>2. QED
      BY <1>0, <2>1, <3>1 DEF HostQueues, HostPhases
  <2>4. HostRepos'
    BY <1>0, <2>1, HostReposKept
  <2>5. \A q \in Hosts!Procs : ReadsOf(Left(q))' = ReadsOf(Left(q))
    BY <1>1, <2>1, HostLeft
  <2> HIDE DEF U
  <2>6. QED
    BY <1>0, <1>2, <1>3, <2>1, <2>2, <2>3, <2>4, <2>5, HostControlReads DEF U
<1>5. CASE Hosts!Plan.accepted
  <2> DEFINE M == <<"of", "main">>
  <2>1. /\ at' = "dispatch" /\ todo' = [todo EXCEPT !["main"] = Hosts!Plan.dispatch]
        /\ state' = [state EXCEPT !["main"] = "busy"] /\ UNCHANGED verdict
    BY <1>5 DEF Hosts!Begin
  <2>2. /\ todo'["main"] = Hosts!Plan.dispatch /\ state'["main"] = "busy"
        /\ \A q \in Hosts!Procs \ {"main"} : todo'[q] = todo[q] /\ state'[q] = state[q]
    BY <1>0, <2>1 DEF HostTypes
  <2>3. Unbegun' = ReadsOf(Hosts!Plan.main) \cup ReadsOf(Hosts!Listing(Hosts!Plan))
    BY <1>0, <2>1 DEF Unbegun, ReadsOf
  <2>4. M \in Places /\ U # M /\ Has(M) = {} /\ Has(M)' = ReadsOf(Hosts!Plan.dispatch)
    <3>1. M \in Places /\ Has(M) = ReadsOf(todo["main"]) /\ Has(M)' = ReadsOf(todo'["main"])
      BY <1>1, <2>2, HostLeft
    <3>2. QED
      BY <1>1, <2>2, <3>1, NothingToRead DEF ReadsOf, HostSingles
  <2>5. Hosts!ReadOnce(Hosts!Plan) => Has(M)' \cap Unbegun' = {}
    BY <2>3, <2>4 DEF Hosts!ReadOnce, ReadsOf
  <2>6. HostQueues'
    <3>1. \A w \in Workers : state'[w] = "idle"
      BY <1>1, <2>2, HostLeft
    <3>2. QED
      BY <1>0, <1>5, <2>1, <2>2, <3>1 DEF HostQueues
  <2>7. HostRepos'
    BY <1>0, <2>2, HostReposKept
  <2>8. \A q \in Hosts!Procs : <<"of", q>> # M => ReadsOf(Left(q))' = ReadsOf(Left(q))
    BY <1>1, <2>2, HostLeft
  <2>9. Sound(todo'["main"]) /\ (Hosts!ReadOnce(Hosts!Plan) => Hosts!Separate(Hosts!Plan, todo'["main"]))
    BY <1>0, <2>2, PlanIsSound DEF HostTypes
  <2>10. \A q \in Hosts!Procs :
           /\ todo'[q] = todo[q] \/ (Sound(todo'[q]) /\ (Hosts!ReadOnce(Hosts!Plan) => Hosts!Separate(Hosts!Plan, todo'[q])))
           /\ state'[q] = "yielding" => state[q] = "yielding"
    BY <2>2, <2>9
  <2>11. U \in Places /\ <<"in", "repoCh">> \notin {U, M} /\ <<"in", "runCh">> \notin {U, M}
    BY <1>2
  <2>12. Has(U) = Has(U)' \cup Has(M)'
    BY <1>2, <2>3, <2>4
  <2> HIDE DEF U, M
  <2>13. QED
    BY <1>0, <1>2, <1>3, <2>4, <2>5, <2>6, <2>7, <2>8, <2>10, <2>11, <2>12, HostControlReads DEF U
<1>6. QED
  BY <1>4, <1>5

(* goes on with what comes before any listing,                             *)
LEMMA HostDispatchedReads ==
  ASSUME HostInv, HostReads, Hosts!Dispatched, target' = target
  PROVE  HostReads'
<1>0. /\ HostTypes /\ HostPhases /\ HostQueues /\ HostRepos /\ HostApart
      /\ Hosts!Plan' = Hosts!Plan
      /\ UNCHANGED <<state, err, refused, repoCh, runCh, cause, visited, yielded, told, lost>>
      /\ at = "dispatch" /\ verdict = {} /\ Hosts!Ended("main") /\ todo["main"] = <<>>
  BY DEF HostInv, HostReads, HostQueues, Hosts!Plan, Hosts!Dispatched, Hosts!results, Hosts!Ended
<1> USE HostProcs
<1>1. state["list"] = "idle" /\ state'["list"] = "idle" /\ \A w \in Workers : state'[w] = "idle"
  <2>1. state["list"] = "idle"
    BY <1>0, HostIdle DEF HostOwner
  <2>2. QED
    BY <1>0, <2>1 DEF HostInv, HostGroup
<1> DEFINE U == <<"in", "unbegun">>
<1>2. /\ U \in Places /\ Has(U)' = Unbegun'
      /\ Has(U) = ReadsOf(Hosts!Plan.main) \cup ReadsOf(Hosts!Listing(Hosts!Plan))
  BY <1>0, PlacesAre DEF Unbegun
<1>3. CASE err["main"] # "none"
  <2>1. at' = "returned" /\ todo' = todo /\ verdict' = (IF cause # "none" THEN {cause} ELSE {err["main"]}) \ {"none"}
    BY <1>3 DEF Hosts!Dispatched, Hosts!Return
  <2>2. verdict' # {}
    BY <1>3, <2>1
  <2>3. Unbegun' = {} /\ HostTrouble'
    BY <2>1, <2>2 DEF Unbegun, HostTrouble
  <2>4. HostQueues'
    BY <1>0, <1>1, <2>1, <2>2 DEF HostQueues, HostPhases
  <2>5. HostRepos'
    BY <1>0, <2>1, HostReposKept
  <2>6. \A q \in Hosts!Procs : ReadsOf(Left(q))' = ReadsOf(Left(q))
    BY <1>0, <1>1, <2>1, HostLeft
  <2> HIDE DEF U
  <2>7. QED
    BY <1>0, <1>2, <2>1, <2>3, <2>4, <2>5, <2>6, HostControlReads DEF U
<1>4. CASE err["main"] = "none"
  <2> DEFINE M == <<"of", "main">>
  <2>1. at' = "alone" /\ todo' = [todo EXCEPT !["main"] = Hosts!Plan.main] /\ UNCHANGED verdict
    BY <1>4 DEF Hosts!Dispatched
  <2>2. /\ todo'["main"] = Hosts!Plan.main /\ \A q \in Hosts!Procs \ {"main"} : todo'[q] = todo[q]
    BY <1>0, <2>1 DEF HostTypes
  <2>3. Unbegun' = ReadsOf(Hosts!Listing(Hosts!Plan))
    BY <1>0, <2>1 DEF Unbegun, ReadsOf
  <2>4. M \in Places /\ U # M /\ Has(M) = {} /\ Has(M)' = ReadsOf(Hosts!Plan.main)
    <3>1. M \in Places /\ Has(M) = ReadsOf(todo["main"]) /\ Has(M)' = ReadsOf(todo'["main"])
      BY <1>1, HostLeft
    <3>2. QED
      BY <1>0, <2>2, <3>1, NothingToRead DEF ReadsOf
  <2>5. Hosts!ReadOnce(Hosts!Plan) => Has(M)' \cap Unbegun' = {}
    BY <2>3, <2>4 DEF Hosts!ReadOnce, ReadsOf
  <2>6. HostQueues'
    BY <1>0, <1>1, <2>1 DEF HostQueues
  <2>7. HostRepos'
    BY <1>0, <2>2, HostReposKept
  <2>8. \A q \in Hosts!Procs : <<"of", q>> # M => ReadsOf(Left(q))' = ReadsOf(Left(q))
    BY <1>1, <2>2, HostLeft
  <2>9. Sound(todo'["main"]) /\ (Hosts!ReadOnce(Hosts!Plan) => Hosts!Separate(Hosts!Plan, todo'["main"]))
    BY <1>0, <2>2, PlanIsSound DEF HostTypes
  <2>10. \A q \in Hosts!Procs :
           todo'[q] = todo[q] \/ (Sound(todo'[q]) /\ (Hosts!ReadOnce(Hosts!Plan) => Hosts!Separate(Hosts!Plan, todo'[q])))
    BY <2>2, <2>9
  <2>11. HostTrouble => HostTrouble'
    BY <1>0, <2>1 DEF HostTrouble, Hosts!GroupErr
  <2>12. Has(U) = Has(U)' \cup Has(M)' /\ <<"in", "repoCh">> \notin {U, M} /\ <<"in", "runCh">> \notin {U, M}
    BY <1>2, <2>3, <2>4
  <2> HIDE DEF U, M
  <2>13. QED
    BY <1>0, <1>2, <2>4, <2>5, <2>6, <2>7, <2>8, <2>10, <2>11, <2>12, HostControlReads DEF U
<1>5. QED
  BY <1>3, <1>4

(* and starts the enumeration, if there is one;                            *)
LEMMA HostStartReads ==
  ASSUME HostInv, HostReads, Hosts!StartEnumeration, target' = target
  PROVE  HostReads'
<1>0. /\ HostTypes /\ HostPhases /\ HostQueues /\ HostRepos /\ HostApart /\ HostGroup
      /\ Hosts!Plan' = Hosts!Plan
      /\ UNCHANGED <<err, refused, repoCh, runCh, cause, visited, yielded, told, lost>>
      /\ at = "alone" /\ verdict = {} /\ Hosts!Ended("main") /\ todo["main"] = <<>>
      /\ state["enum"] = "idle" /\ state["scan"] = "idle" /\ Hosts!Plan.accepted /\ HostWork("enum")
  BY HostProcs DEF HostInv, HostReads, HostQueues, Hosts!Plan, Hosts!StartEnumeration, Hosts!results, Hosts!Ended, HostPhases
<1> USE HostProcs
<1>1. state["list"] = "idle" /\ \A w \in Workers : state[w] = "idle"
  <2>1. state["list"] = "idle"
    BY <1>0, HostIdle DEF HostOwner
  <2>2. QED
    BY <1>0, <2>1 DEF HostGroup
<1> DEFINE U == <<"in", "unbegun">>
<1>2. /\ U \in Places /\ Has(U)' = Unbegun' /\ Has(U) = ReadsOf(Hosts!Listing(Hosts!Plan))
  BY <1>0, PlacesAre DEF Unbegun
<1>3. CASE ~(Hosts!Plan.enumerate /\ cause = "none")
  <2>1. /\ at' = "returned" /\ todo' = todo /\ state' = state
        /\ verdict' = (IF cause # "none" THEN {cause} ELSE {err["main"]}) \ {"none"}
    BY <1>3 DEF Hosts!StartEnumeration, Hosts!Return
  <2>2. Unbegun' = {} /\ (HostTrouble' \/ Has(U) = {})
    <3>1. ~Hosts!Plan.enumerate => Has(U) = {}
      BY <1>2, NothingToRead DEF Hosts!Listing, ReadsOf
    <3>2. QED
      BY <1>0, <1>3, <2>1, <3>1 DEF Unbegun, HostTrouble
  <2>3. verdict' = {} => ~HostTrouble'
    BY <1>0, <1>1, <2>1 DEF HostTrouble, HostSingles, HostPhases, HostGroup, Hosts!GroupErr
  <2>4. HostQueues'
    <3>1. \A w \in Workers : state'[w] = "idle"
      BY <1>1, <2>1
    <3>2. QED
      BY <1>0, <2>1, <2>3, <3>1 DEF HostQueues, HostPhases
  <2>5. HostRepos'
    BY <1>0, <2>1, HostReposKept
  <2>6. \A q \in Hosts!Procs : ReadsOf(Left(q))' = ReadsOf(Left(q))
    BY <1>0, <1>1, <2>1, HostLeft
  <2>7. HostTrouble => HostTrouble'
    BY <1>0 DEF HostTrouble, Hosts!GroupErr
  <2> HIDE DEF U
  <2>8. QED
    BY <1>0, <1>2, <2>1, <2>2, <2>4, <2>5, <2>6, <2>7, HostControlReads DEF U
<1>4. CASE Hosts!Plan.enumerate /\ cause = "none"
  <2> DEFINE M == <<"of", "enum">>
  <2>1. /\ at' = "enumerating" /\ todo' = [todo EXCEPT !["enum"] = Hosts!Plan.listing]
        /\ state' = [state EXCEPT !["main"] = "idle", !["enum"] = "busy", !["scan"] = "busy"] /\ verdict' = verdict
    BY <1>4 DEF Hosts!StartEnumeration
  <2>2. /\ todo'["enum"] = Hosts!Plan.listing /\ \A q \in Hosts!Procs \ {"enum"} : todo'[q] = todo[q]
        /\ state'["main"] = "idle" /\ state'["enum"] = "busy" /\ state'["scan"] = "busy"
        /\ \A q \in Hosts!Group : state'[q] = state[q]
    BY <1>0, <2>1 DEF HostTypes
  <2>3. Unbegun' = {}
    BY <2>1 DEF Unbegun
  <2>4. M \in Places /\ U # M /\ Has(M) = {} /\ Has(M)' = ReadsOf(Hosts!Plan.listing) /\ todo["enum"] = <<>>
    <3>1. M \in Places /\ Has(M) = ReadsOf(todo["enum"]) /\ Has(M)' = ReadsOf(todo'["enum"])
      BY <1>1, <2>2, HostLeft
    <3>2. todo["enum"] = <<>>
      BY <1>0 DEF HostWork
    <3>3. QED
      BY <2>2, <3>1, <3>2, NothingToRead DEF ReadsOf
  <2>5. Has(U) = Has(M)'
    BY <1>2, <1>4, <2>4 DEF Hosts!Listing
  <2>6. HostQueues'
    <3>1. \A w \in Workers : state'[w] = "idle"
      BY <1>1, <2>2
    <3>2. QED
      BY <1>0, <1>4, <2>1, <2>2, <3>1 DEF HostQueues
  <2>7. HostRepos'
    <3>1. repoCh' = <<>> /\ visited' = <<>>
      BY <1>0 DEF HostQueues
    <3>2. HostSent' = {} /\ Hosts!ToSet(visited') = {}
      BY <3>1 DEF HostSent, Hosts!ToSet
    <3>3. QED
      BY <1>0, <2>2, <3>2 DEF HostRepos
  <2>8. \A q \in Hosts!Procs : <<"of", q>> # M => ReadsOf(Left(q))' = ReadsOf(Left(q))
    BY <1>1, <2>2, HostLeft
  <2>9. Sound(todo'["enum"]) /\ (Hosts!ReadOnce(Hosts!Plan) => Hosts!Separate(Hosts!Plan, todo'["enum"]))
    BY <1>0, <2>2, PlanIsSound DEF HostTypes
  <2>10. \A q \in Hosts!Procs :
           /\ todo'[q] = todo[q] \/ (Sound(todo'[q]) /\ (Hosts!ReadOnce(Hosts!Plan) => Hosts!Separate(Hosts!Plan, todo'[q])))
           /\ state'[q] = "yielding" => state[q] = "yielding"
    <3>1. \A q \in Hosts!Procs : q \in {"main", "enum", "scan"} \/ q \in Hosts!Group
      OBVIOUS
    <3>2. QED
      BY <2>2, <2>9, <3>1
  <2>11. HostTrouble => HostTrouble'
    BY <1>0, <2>1 DEF HostTrouble, Hosts!GroupErr
  <2>12. <<"in", "repoCh">> \notin {U, M} /\ <<"in", "runCh">> \notin {U, M}
    OBVIOUS
  <2> HIDE DEF U, M
  <2>13. QED
    BY <1>0, <1>2, <2>3, <2>4, <2>5, <2>6, <2>7, <2>8, <2>10, <2>11, <2>12, HostControlReads DEF U
<1>5. QED
  BY <1>3, <1>4

-----------------------------------------------------------------------------
(* Steps with which nothing goes from one place to another:                *)
LEMMA HostRestReads ==
  ASSUME HostInv, HostReads, UNCHANGED <<target, todo, repoCh, runCh, visited, yielded, told, lost, err>>,
         state["list"] = "idle" => state'["list"] = "idle",
         state["list"] # "idle" => state'["list"] # "idle" /\ HostOwner' = HostOwner,
         at' = at \/ (at' \notin {"begin", "dispatch", "alone"} /\ at \notin {"begin", "dispatch", "alone"}),
         cause' = "none" => cause = "none", verdict' = {} => verdict = {},
         \A q \in Hosts!Procs : state'[q] = "yielding" => state[q] = "yielding",
         state["enum"] = "idle" => state'["enum"] = "idle", HostQueues'
  PROVE  HostReads'
<1>0. Hosts!Plan' = Hosts!Plan /\ HostRepos
  BY DEF Hosts!Plan, HostReads
<1> DEFINE U == <<"in", "done">>
<1>1. \A q \in Hosts!Procs : ReadsOf(Left(q))' = ReadsOf(Left(q))
  <2> SUFFICES ASSUME NEW q \in Hosts!Procs
               PROVE  ReadsOf(Left(q))' = ReadsOf(Left(q))
    OBVIOUS
  <2>1. Left(q)' = Left(q)
    BY DEF Left
  <2>2. QED
    BY <1>0, <2>1 DEF ReadsOf
<1>2. Unbegun' = Unbegun
  BY <1>0 DEF Unbegun, ReadsOf
<1>3. U \in Places /\ Has(U)' = Has(U)
  <2>1. Handled' = Handled
    BY DEF Handled
  <2>2. QED
    BY <2>1, PlacesAre
<1>4. HostTrouble => HostTrouble'
  BY DEF HostTrouble, Hosts!GroupErr
<1>5. HostRepos'
  BY <1>0, HostReposKept
<1> HIDE DEF U
<1>6. QED
  BY <1>1, <1>2, <1>3, <1>4, <1>5, HostControlReads

(* main learns how the enumeration went, joins the scans, or it is         *)
(* cancelled;                                                              *)
LEMMA HostJoinReads ==
  ASSUME HostInv, HostReads,
         \/ target' = target /\ (Hosts!EnumerationEnds \/ Hosts!Join)
         \/ Hosts!Cancel \/ Hosts!Finished
  PROVE  HostReads'
<1>0. /\ HostTypes /\ HostPhases /\ HostQueues /\ HostGroup /\ Hosts!Plan' = Hosts!Plan
      /\ UNCHANGED <<target, todo, state, err, repoCh, runCh, visited, yielded, told, lost>>
  BY DEF HostInv, HostReads, Hosts!Plan, Hosts!EnumerationEnds, Hosts!Join, Hosts!Cancel, Hosts!Finished, Hosts!vars,
     Hosts!goroutines, Hosts!results
<1> USE HostProcs
<1>1. CASE Hosts!Finished
  <2>1. UNCHANGED <<at, cause, verdict>>
    BY <1>1 DEF Hosts!Finished, Hosts!vars
  <2>2. HostQueues'
    BY <1>0, <2>1 DEF HostQueues, HostTrouble, Hosts!GroupErr
  <2>3. QED
    BY <1>0, <2>1, <2>2, HostRestReads DEF HostOwner
<1>2. CASE Hosts!Cancel \/ Hosts!EnumerationEnds
  <2>1. /\ at # "returned" /\ at' # "returned" /\ verdict' = verdict
        /\ at' = at \/ (at = "enumerating" /\ at' = "joining")
        /\ cause' = "none" => cause = "none"
    BY <1>2 DEF Hosts!Cancel, Hosts!EnumerationEnds, Hosts!First
  <2>2. HostTrouble => HostTrouble'
    BY <1>0, <2>1 DEF HostTrouble, Hosts!GroupErr
  <2>3. HostQueues'
    BY <1>0, <2>1, <2>2 DEF HostQueues
  <2>4. QED
    BY <1>0, <2>1, <2>3, HostRestReads DEF HostOwner
<1>3. CASE Hosts!Join
  <2>1. /\ at = "joining" /\ at' = "returned" /\ state["scan"] = "done" /\ cause' = cause
        /\ verdict' = (IF cause # "none" THEN {cause} ELSE {err["main"], err["scan"]}) \ {"none"}
    BY <1>3 DEF Hosts!Join, Hosts!Return
  <2>2. state["list"] = "idle" /\ Hosts!GroupErr = "none" /\ \A w \in Workers : state[w] = "idle"
    <3>1. state["list"] = "idle"
      BY <2>1, HostIdle DEF HostOwner
    <3>2. QED
      BY <1>0, <3>1 DEF HostGroup, Hosts!GroupErr
  <2>3. cause = "none" => err["enum"] = "none"
    BY <1>0, <2>1 DEF HostPhases
  <2>4. verdict' = {} => ~HostTrouble'
    BY <1>0, <2>1, <2>2, <2>3 DEF HostTrouble, HostSingles, Hosts!GroupErr
  <2>5. HostQueues'
    <3>1. \A w \in Workers : state'[w] = "idle"
      BY <1>0, <2>2
    <3>2. QED
      BY <1>0, <2>1, <2>3, <2>4, <3>1 DEF HostQueues
  <2>6. verdict = {}
    BY <1>0, <2>1 DEF HostQueues
  <2>7. QED
    BY <1>0, <2>1, <2>2, <2>5, <2>6, HostRestReads
<1>4. QED
  BY <1>1, <1>2, <1>3

(* and a goroutine ends.                                                   *)
LEMMA HostEndReads ==
  ASSUME HostInv, HostReads, target' = target,
         \/ Hosts!EndEnum \/ Hosts!EndScan \/ Hosts!EndList
         \/ \E w \in Workers : Hosts!EndWorker(w)
  PROVE  HostReads'
<1>0. /\ HostTypes /\ HostPhases /\ HostQueues /\ HostGroup /\ Hosts!Plan' = Hosts!Plan
      /\ UNCHANGED <<at, todo, err, cause, repoCh, runCh, visited, yielded, told, lost, verdict>>
  BY DEF HostInv, HostReads, Hosts!Plan, Hosts!EndEnum, Hosts!EndScan, Hosts!EndList, Hosts!EndWorker, Hosts!results
<1> USE HostProcs
<1>1. PICK p \in Hosts!Procs :
        /\ state[p] = "busy" /\ state' = [state EXCEPT ![p] = "done"] /\ p # "main"
        /\ p = "scan" => repoCh = <<>> /\ state["enum"] = "done"
        /\ p \in Workers => (runCh = <<>> /\ state["list"] = "done") \/ Hosts!Done(p)
  <2>1. CASE Hosts!EndEnum
    BY <2>1, PlanScripts DEF Hosts!EndEnum, Hosts!Ended, HostInv, HostTypes
  <2>2. CASE Hosts!EndScan
    BY <1>0, <2>2, PlanScripts DEF Hosts!EndScan, Hosts!Ended, HostTypes
  <2>3. CASE Hosts!EndList
    BY <1>0, <2>3, PlanScripts DEF Hosts!EndList, Hosts!Ended, HostTypes
  <2>4. CASE \E w \in Workers : Hosts!EndWorker(w)
    <3>1. PICK w \in Workers : Hosts!EndWorker(w)
      BY <2>4
    <3>2. QED
      BY <1>0, <3>1, PlanScripts DEF Hosts!EndWorker, Hosts!Ended, HostTypes
  <2>5. QED
    BY <2>1, <2>2, <2>3, <2>4
<1>2. /\ state'[p] = "done" /\ \A q \in Hosts!Procs : q # p => state'[q] = state[q]
  BY <1>0, <1>1 DEF HostTypes
<1>3. HostTrouble' <=> HostTrouble
  BY <1>0 DEF HostTrouble, Hosts!GroupErr
<1>4. p \in Workers => HostTrouble \/ (runCh = <<>> /\ state["list"] = "done")
  BY <1>1 DEF Hosts!Done, HostTrouble
<1>5. HostQueues'
  <2>1. \A w \in Workers : state'[w] = "done" => HostTrouble' \/ (runCh' = <<>> /\ state'["list"] = "done")
    BY <1>0, <1>2, <1>3, <1>4 DEF HostQueues
  <2>2. QED
    BY <1>0, <1>1, <1>2, <1>3, <2>1 DEF HostQueues
<1>6. /\ state["list"] = "idle" <=> state'["list"] = "idle"
      /\ state["enum"] = "idle" <=> state'["enum"] = "idle"
      /\ \A q \in Hosts!Procs : state'[q] = "yielding" => state[q] = "yielding"
  BY <1>1, <1>2
<1>7. QED
  BY <1>0, <1>5, <1>6, HostRestReads DEF HostOwner

(* The scan goroutine takes the repository, or drops it.                   *)
LEMMA HostNextRepoReads ==
  ASSUME HostInv, HostReads, target' = target, Hosts!NextRepo
  PROVE  HostReads'
<1>0. /\ HostTypes /\ HostPhases /\ HostQueues /\ HostGroup /\ HostRepos /\ HostApart /\ Hosts!Plan' = Hosts!Plan
      /\ UNCHANGED <<at, err, cause, runCh, yielded, told, lost, verdict>>
      /\ state["scan"] = "busy" /\ todo["scan"] = <<>> /\ repoCh # <<>> /\ repoCh' = <<>>
  BY DEF HostInv, HostReads, Hosts!Plan, Hosts!NextRepo, Hosts!Ended
<1> USE HostProcs
<1> DEFINE C == <<"in", "repoCh">>
           name == Head(repoCh)
<1>1. state["list"] = "idle" /\ \A w \in Workers : state[w] = "idle"
  <2>1. at \in {"enumerating", "joining"}
    BY <1>0 DEF HostPhases, HostTypes
  <2>2. state["list"] = "idle"
    BY <1>0, <2>1, HostIdle DEF HostOwner, Hosts!Ended
  <2>3. QED
    BY <1>0, <2>2 DEF HostGroup
<1>2. name \in DOMAIN Hosts!Plan.scripts
  <2> DEFINE names == DOMAIN Hosts!Plan.scripts
  <2>1. repoCh \in Seq(names) /\ repoCh # <<>>
    BY <1>0 DEF HostTypes
  <2> HIDE DEF names
  <2>2. Head(repoCh) \in names
    BY <2>1
  <2>3. QED
    BY <2>2 DEF names
<1>3. /\ C \in Places /\ Has(C) = ReadsOf(Hosts!Plan.scripts[name]) /\ Has(C)' = {}
      /\ HostSent = {name} /\ HostSent' = {}
  BY <1>0, PlacesAre DEF InRepoCh, HostSent
<1>4. Unbegun' = Unbegun
  BY <1>0 DEF Unbegun, ReadsOf
<1>5. HostTrouble' <=> HostTrouble
  BY <1>0 DEF HostTrouble, Hosts!GroupErr
<1> HIDE DEF C, name
<1>6. CASE cause # "none"
  <2>1. state' = [state EXCEPT !["scan"] = "done"] /\ UNCHANGED <<todo, visited>>
    BY <1>6 DEF Hosts!NextRepo
  <2>2. state'["scan"] = "done" /\ \A q \in Hosts!Procs \ {"scan"} : state'[q] = state[q]
    BY <1>0, <2>1 DEF HostTypes
  <2>3. HostQueues'
    <3>1. \A w \in Workers : state'[w] = "idle"
      <4>1. "scan" \notin Workers
        BY <1>0, PlanScripts DEF HostTypes
      <4>2. QED
        BY <1>1, <2>2, <4>1
    <3>2. QED
      BY <1>0, <1>5, <1>6, <2>1, <2>2, <3>1 DEF HostQueues
  <2>4. HostRepos'
    BY <1>0, <1>6, <2>1 DEF HostRepos
  <2>5. \A q \in Hosts!Procs : ReadsOf(Left(q))' = ReadsOf(Left(q))
    BY <1>1, <2>1, <2>2, HostLeft
  <2>6. HostTrouble'
    BY <1>0, <1>6 DEF HostTrouble
  <2>7. \A q \in Hosts!Procs : state'[q] = "yielding" => state[q] = "yielding"
    BY <2>2
  <2>8. QED
    BY <1>0, <1>3, <1>4, <2>1, <2>3, <2>4, <2>5, <2>6, <2>7, HostControlReads DEF C
<1>7. CASE cause = "none"
  <2> DEFINE M == <<"of", "scan">>
  <2>1. /\ visited' = Append(visited, name) /\ state' = state
        /\ todo' = [todo EXCEPT !["scan"] = Hosts!Plan.scripts[name]]
    BY <1>7 DEF Hosts!NextRepo, name
  <2>2. todo'["scan"] = Hosts!Plan.scripts[name] /\ \A q \in Hosts!Procs \ {"scan"} : todo'[q] = todo[q]
    BY <1>0, <2>1 DEF HostTypes
  <2>3. M \in Places /\ C # M /\ Has(M) = {} /\ Has(M)' = ReadsOf(Hosts!Plan.scripts[name])
    <3>1. M \in Places /\ Has(M) = ReadsOf(todo["scan"]) /\ Has(M)' = ReadsOf(todo'["scan"])
      BY <1>1, <2>1, HostLeft
    <3>2. QED
      BY <1>0, <2>2, <3>1, NothingToRead DEF ReadsOf, C
  <2>4. HostQueues'
    BY <1>0, <1>1, <1>5, <1>7, <2>1 DEF HostQueues
  <2>5. Hosts!ToSet(visited') = Hosts!ToSet(visited) \cup {name} /\ visited' \in Seq(DOMAIN Hosts!Plan.scripts)
    <3> DEFINE names == DOMAIN Hosts!Plan.scripts
    <3>1. visited \in Seq(names) /\ name \in names
      BY <1>0, <1>2 DEF HostRepos
    <3> HIDE DEF names
    <3>2. /\ visited' \in Seq(names) /\ DOMAIN visited' = DOMAIN visited \cup {Len(visited) + 1}
          /\ Len(visited) + 1 \notin DOMAIN visited
          /\ visited'[Len(visited) + 1] = name /\ \A k \in DOMAIN visited : visited'[k] = visited[k]
      BY <2>1, <3>1
    <3>3. QED
      BY <3>2 DEF Hosts!ToSet, names
  <2>6. HostRepos'
    BY <1>0, <1>3, <2>1, <2>2, <2>5 DEF HostRepos
  <2>7. \A q \in Hosts!Procs : <<"of", q>> # M => ReadsOf(Left(q))' = ReadsOf(Left(q))
    BY <1>1, <2>1, <2>2, HostLeft
  <2>8. Sound(todo'["scan"]) /\ (Hosts!ReadOnce(Hosts!Plan) => Hosts!Separate(Hosts!Plan, todo'["scan"]))
    BY <1>0, <1>2, <2>2, PlanIsSound DEF HostTypes
  <2>9. \A q \in Hosts!Procs :
          todo'[q] = todo[q] \/ (Sound(todo'[q]) /\ (Hosts!ReadOnce(Hosts!Plan) => Hosts!Separate(Hosts!Plan, todo'[q])))
    BY <2>2, <2>8
  <2>10. <<"in", "runCh">> \notin {C, M} /\ <<"in", "unbegun">> \notin {C, M}
    BY DEF C
  <2> HIDE DEF M
  <2>11. QED
    BY <1>0, <1>3, <1>4, <1>5, <2>1, <2>3, <2>4, <2>6, <2>7, <2>9, <2>10, HostControlReads DEF C
<1>8. QED
  BY <1>6, <1>7

-----------------------------------------------------------------------------
(* The group: its owner hands its step to the lister,                      *)
LEMMA HostStartGroupReads ==
  ASSUME HostInv, HostReads, target' = target, NEW p \in {"main", "scan"}, Hosts!StartGroup(p)
  PROVE  HostReads'
<1>0. /\ HostTypes /\ HostQueues /\ HostGroup /\ HostRepos /\ HostApart /\ HostSound /\ Hosts!Plan' = Hosts!Plan
      /\ UNCHANGED <<at, err, cause, repoCh, runCh, visited, yielded, told, lost, verdict>>
      /\ Hosts!NextIs(p, {"group"}) /\ state["list"] = "idle"
      /\ state' = [q \in Hosts!Procs |-> IF q \in Hosts!Group THEN "busy" ELSE state[q]]
      /\ todo' = [todo EXCEPT !["list"] = Hosts!Plan.groups[Head(todo[p]).in]]
  BY DEF HostInv, HostReads, Hosts!Plan, Hosts!StartGroup, Hosts!results
<1> USE HostProcs
<1>1. /\ p = HostOwner /\ HostOwner' = HostOwner /\ p \in Hosts!Procs \ Hosts!Group /\ HostStep(Hosts!Plan, Head(todo[p]))
      /\ Head(todo[p]).op = "group" /\ todo[p] # <<>> /\ HostScript(Hosts!Plan, todo[p])
  BY <1>0, HostOwns DEF Hosts!NextIs, HostOwner, HostTypes
<1> DEFINE name == Head(todo[p]).in
           A    == <<"of", p>>
           B    == <<"of", "list">>
<1>2. /\ name \in DOMAIN Hosts!Plan.groups
      /\ Hosts!Reads(Hosts!Plan, Head(todo[p])) = ReadsOf(Hosts!Plan.groups[name])
  BY <1>0, <1>1, ReadsOfOther DEF HostTypes
<1>3. /\ ReadsOf(todo[p]) = ReadsOf(Hosts!Plan.groups[name]) \cup ReadsOf(Tail(todo[p]))
      /\ Hosts!Separate(Hosts!Plan, todo[p]) => ReadsOf(Hosts!Plan.groups[name]) \cap ReadsOf(Tail(todo[p])) = {}
  BY <1>1, <1>2, ReadsFromTheFirst DEF ReadsOf
<1>4. /\ todo'["list"] = Hosts!Plan.groups[name] /\ \A q \in Hosts!Procs \ {"list"} : todo'[q] = todo[q]
      /\ \A q \in Hosts!Group : state'[q] = "busy"
      /\ \A q \in Hosts!Procs \ Hosts!Group : state'[q] = state[q]
      /\ todo["list"] = <<>>
  <2>1. todo["list"] = <<>>
    BY <1>0 DEF HostInv, HostWork
  <2>2. QED
    BY <1>0, <2>1 DEF HostTypes
<1>5. /\ \A q \in Hosts!Procs : Left(q) = todo[q]
      /\ \A q \in Hosts!Procs \ {p} : Left(q)' = todo'[q]
      /\ Left(p)' = Tail(todo[p])
  BY <1>0, <1>1, <1>4 DEF Left
<1>6. /\ A \in Places /\ B \in Places /\ A # B
      /\ Has(A) = ReadsOf(todo[p]) /\ Has(A)' = ReadsOf(Tail(todo[p]))
      /\ Has(B) = {} /\ Has(B)' = ReadsOf(Hosts!Plan.groups[name])
  <2>1. /\ A \in Places /\ B \in Places
        /\ Has(A) = ReadsOf(Left(p)) /\ Has(A)' = ReadsOf(Left(p))'
        /\ Has(B) = ReadsOf(Left("list")) /\ Has(B)' = ReadsOf(Left("list"))'
    BY <1>1, PlacesAre
  <2>2. ReadsOf(Left(p))' = ReadsOf(Tail(todo[p]))
    BY <1>0, <1>5 DEF ReadsOf
  <2>3. ReadsOf(Left("list"))' = ReadsOf(Hosts!Plan.groups[name])
    BY <1>0, <1>1, <1>4, <1>5 DEF ReadsOf
  <2>4. ReadsOf(Left("list")) = {} /\ ReadsOf(Left(p)) = ReadsOf(todo[p])
    BY <1>1, <1>4, <1>5, NothingToRead DEF ReadsOf
  <2>5. QED
    BY <1>1, <2>1, <2>2, <2>3, <2>4
<1>7. ASSUME NEW q \in Hosts!Procs \ {p, "list"}
      PROVE  ReadsOf(Left(q))' = ReadsOf(Left(q))
  <2>1. Left(q)' = Left(q)
    BY <1>4, <1>5
  <2>2. QED
    BY <1>0, <2>1 DEF ReadsOf
<1>8. Unbegun' = Unbegun
  BY <1>0 DEF Unbegun, ReadsOf
<1>9. HostTrouble' <=> HostTrouble
  BY <1>0 DEF HostTrouble, Hosts!GroupErr
<1>10. HostQueues'
  <2>1. \A w \in Workers : state'[w] = "busy"
    BY <1>4
  <2>2. state'["enum"] = state["enum"] /\ state'["scan"] = state["scan"]
    BY <1>4
  <2>3. QED
    BY <1>0, <1>9, <2>1, <2>2 DEF HostQueues
<1>11. HostRepos'
  <2>1. todo'["enum"] = todo["enum"] /\ state'["enum"] = state["enum"]
    BY <1>4
  <2>2. QED
    BY <1>0, <2>1, HostReposKept
<1>12. Sound(todo'["list"]) /\ (Hosts!ReadOnce(Hosts!Plan) => Hosts!Separate(Hosts!Plan, todo'["list"]))
  BY <1>0, <1>2, <1>4, PlanIsSound DEF HostTypes
<1>13. \A q \in Hosts!Procs :
         /\ todo'[q] = todo[q] \/ (Sound(todo'[q]) /\ (Hosts!ReadOnce(Hosts!Plan) => Hosts!Separate(Hosts!Plan, todo'[q])))
         /\ state'[q] = "yielding" => state[q] = "yielding"
  BY <1>4, <1>12
<1>14. Hosts!ReadOnce(Hosts!Plan) => Hosts!Separate(Hosts!Plan, todo[p])
  BY <1>0, <1>1 DEF HostApart
<1>15. /\ \A q \in Hosts!Procs : <<"of", q>> \notin {A, B} => ReadsOf(Left(q))' = ReadsOf(Left(q))
       /\ Has(A)' \cup Has(B)' = Has(A) \cup Has(B)
       /\ Hosts!ReadOnce(Hosts!Plan) => Has(A)' \cap Has(B)' = {}
  BY <1>3, <1>6, <1>7, <1>14
<1> HIDE DEF A, B, name
<1>16. QED
  BY <1>0, <1>6, <1>8, <1>9, <1>10, <1>11, <1>13, <1>15, HostControlReads

(* a worker takes what the lister has sent,                                *)
LEMMA HostTakeItemReads ==
  ASSUME HostInv, HostReads, target' = target, NEW w \in Workers, Hosts!TakeItem(w)
  PROVE  HostReads'
<1>0. /\ HostTypes /\ HostQueues /\ HostGroup /\ HostRepos /\ HostApart /\ Hosts!Plan' = Hosts!Plan
      /\ UNCHANGED <<at, state, err, cause, repoCh, visited, yielded, told, lost, verdict>>
      /\ todo[w] = <<>> /\ state[w] = "busy" /\ runCh # <<>> /\ runCh' = Tail(runCh)
      /\ todo' = [todo EXCEPT ![w] = Hosts!Plan.scripts[Head(runCh)]]
  BY DEF HostInv, HostReads, Hosts!Plan, Hosts!TakeItem, Hosts!Ended, Hosts!results
<1> USE HostProcs
<1> DEFINE name == Head(runCh)
           T(n) == ReadsOf(Hosts!Plan.scripts[n])
           A    == <<"in", "runCh">>
           B    == <<"of", w>>
<1>1. /\ name \in DOMAIN Hosts!Plan.scripts /\ 1 \in DOMAIN runCh /\ runCh[1] = name
      /\ \A k \in DOMAIN runCh' : k + 1 \in DOMAIN runCh /\ k + 1 # 1 /\ runCh'[k] = runCh[k + 1] /\ k \in Nat
      /\ \A k \in DOMAIN runCh \ {1} : k - 1 \in DOMAIN runCh' /\ runCh'[k - 1] = runCh[k]
  <2> DEFINE names == DOMAIN Hosts!Plan.scripts
  <2>1. runCh \in Seq(names) /\ runCh # <<>> /\ runCh' = Tail(runCh)
    BY <1>0 DEF HostTypes
  <2> HIDE DEF names
  <2>2. Head(runCh) \in names /\ 1 \in DOMAIN runCh /\ runCh[1] = Head(runCh)
    BY <2>1
  <2>3. \A k \in DOMAIN runCh' : k + 1 \in DOMAIN runCh /\ k + 1 # 1 /\ runCh'[k] = runCh[k + 1] /\ k \in Nat
    BY <2>1
  <2>4. \A k \in DOMAIN runCh \ {1} : k - 1 \in DOMAIN runCh' /\ runCh'[k - 1] = runCh[k]
    BY <2>1
  <2>5. QED
    BY <2>2, <2>3, <2>4 DEF names
<1> HIDE DEF name
<1>2. todo'[w] = Hosts!Plan.scripts[name] /\ \A q \in Hosts!Procs \ {w} : todo'[q] = todo[q]
  BY <1>0 DEF HostTypes, name
<1>3. state["list"] # "idle" /\ HostOwner # w /\ HostOwner \in {"main", "scan"} /\ HostOwner' = HostOwner
  <2>1. state["list"] # "idle"
    BY <1>0 DEF HostGroup
  <2>2. HostOwner # w
    BY <1>0, PlanScripts DEF HostOwner, HostTypes
  <2>3. QED
    BY <1>0, <2>1, <2>2 DEF HostOwner
<1>4. /\ Left(w) = <<>> /\ Left(w)' = Hosts!Plan.scripts[name]
      /\ \A q \in Hosts!Procs \ {w} : Left(q)' = Left(q)
  BY <1>0, <1>2, <1>3 DEF Left
<1>5. InRunCh = UNION {T(runCh[k]) : k \in DOMAIN runCh} /\ InRunCh' = UNION {T(runCh'[k]) : k \in DOMAIN runCh'}
  BY <1>0 DEF InRunCh, ReadsOf
<1> HIDE DEF T
<1>6. InRunCh = T(name) \cup InRunCh'
  BY <1>1, <1>5
<1>7. Hosts!ReadOnce(Hosts!Plan) =>
        \A j, k \in DOMAIN runCh : j # k => T(runCh[j]) \cap T(runCh[k]) = {}
  BY <1>0 DEF HostApart, T
<1>8. Hosts!ReadOnce(Hosts!Plan) =>
        /\ \A j, k \in DOMAIN runCh' : j # k => T(runCh'[j]) \cap T(runCh'[k]) = {}
        /\ T(name) \cap InRunCh' = {}
  <2> SUFFICES ASSUME Hosts!ReadOnce(Hosts!Plan)
               PROVE  /\ \A j, k \in DOMAIN runCh' : j # k => T(runCh'[j]) \cap T(runCh'[k]) = {}
                      /\ T(name) \cap InRunCh' = {}
    OBVIOUS
  <2>1. ASSUME NEW j \in DOMAIN runCh', NEW k \in DOMAIN runCh', j # k
        PROVE  T(runCh'[j]) \cap T(runCh'[k]) = {}
    <3>1. j + 1 \in DOMAIN runCh /\ k + 1 \in DOMAIN runCh /\ j + 1 # k + 1 /\ runCh'[j] = runCh[j + 1] /\ runCh'[k] = runCh[k + 1]
      BY <1>1, <2>1
    <3>2. QED
      BY <1>7, <3>1
  <2>2. ASSUME NEW k \in DOMAIN runCh'
        PROVE  T(name) \cap T(runCh'[k]) = {}
    <3>1. k + 1 \in DOMAIN runCh /\ 1 \in DOMAIN runCh /\ k + 1 # 1 /\ runCh'[k] = runCh[k + 1] /\ runCh[1] = name
      BY <1>1, <2>2
    <3>2. QED
      BY <1>7, <3>1
  <2>3. QED
    BY <1>5, <2>1, <2>2
<1>9. /\ A \in Places /\ B \in Places /\ A # B /\ Has(A) = InRunCh /\ Has(A)' = InRunCh'
      /\ Has(B) = {} /\ Has(B)' = T(name)
  <2>1. ReadsOf(Left(w)) = {} /\ ReadsOf(Left(w))' = T(name)
    BY <1>0, <1>4, NothingToRead DEF ReadsOf, T
  <2>2. QED
    BY <2>1, PlacesAre
<1>10. Unbegun' = Unbegun
  BY <1>0 DEF Unbegun, ReadsOf
<1>11. HostTrouble' <=> HostTrouble
  BY <1>0 DEF HostTrouble, Hosts!GroupErr
<1>12. HostQueues'
  BY <1>0, <1>11 DEF HostQueues
<1>13. HostRepos'
  <2>1. todo'["enum"] = todo["enum"]
    BY <1>0, <1>2, PlanScripts DEF HostTypes
  <2>2. QED
    BY <1>0, <2>1, HostReposKept
<1>14. Sound(todo'[w]) /\ (Hosts!ReadOnce(Hosts!Plan) => Hosts!Separate(Hosts!Plan, todo'[w]))
  BY <1>0, <1>1, <1>2, PlanIsSound DEF HostTypes
<1>15. \A q \in Hosts!Procs :
         todo'[q] = todo[q] \/ (Sound(todo'[q]) /\ (Hosts!ReadOnce(Hosts!Plan) => Hosts!Separate(Hosts!Plan, todo'[q])))
  BY <1>2, <1>14
<1>16. /\ \A q \in Hosts!Procs : <<"of", q>> \notin {A, B} => ReadsOf(Left(q))' = ReadsOf(Left(q))
       /\ Has(A)' \cup Has(B)' = Has(A) \cup Has(B)
       /\ Hosts!ReadOnce(Hosts!Plan) => Has(A)' \cap Has(B)' = {}
  <2>1. ASSUME NEW q \in Hosts!Procs \ {w}
        PROVE  ReadsOf(Left(q))' = ReadsOf(Left(q))
    <3>1. Left(q)' = Left(q)
      BY <1>4
    <3>2. QED
      BY <1>0, <3>1 DEF ReadsOf
  <2>2. QED
    BY <1>6, <1>8, <1>9, <2>1
<1>17. <<"in", "repoCh">> \notin {A, B} /\ <<"in", "unbegun">> \notin {A, B}
  OBVIOUS
<1> HIDE DEF A, B
<1>18. QED
  BY <1>0, <1>8, <1>9, <1>10, <1>11, <1>12, <1>13, <1>15, <1>16, <1>17, HostControlReads DEF A, T

(* and its owner goes on with what is behind it; or with the group's error.*)
LEMMA HostEndGroupReads ==
  ASSUME HostInv, HostReads, target' = target, NEW p \in {"main", "scan"}, Hosts!EndGroup(p)
  PROVE  HostReads'
<1>0. /\ HostTypes /\ HostQueues /\ HostGroup /\ HostRepos /\ HostApart /\ HostSound /\ Hosts!Plan' = Hosts!Plan
      /\ UNCHANGED <<at, cause, repoCh, visited, yielded, told, lost, verdict>> /\ runCh' = <<>>
      /\ Hosts!NextIs(p, {"group"}) /\ \A q \in Hosts!Group : state[q] = "done"
      /\ todo' = IF err["list"] = "none" THEN [todo EXCEPT ![p] = Tail(todo[p])] ELSE [todo EXCEPT ![p] = <<>>]
      /\ err' = [q \in Hosts!Procs |-> IF q \in Hosts!Group THEN "none"
                                        ELSE IF q = p THEN Hosts!First(err[p], err["list"]) ELSE err[q]]
      /\ state' = [q \in Hosts!Procs |-> IF q \in Hosts!Group THEN "idle" ELSE state[q]]
  BY DEF HostInv, HostReads, Hosts!Plan, Hosts!EndGroup, Hosts!GroupErr, Hosts!Drop, Hosts!results
<1> USE HostProcs
<1>1. /\ p = HostOwner /\ at # "returned" /\ p \in Hosts!Procs \ Hosts!Group /\ p \in HostSingles
      /\ todo[p] # <<>> /\ HostScript(Hosts!Plan, todo[p])
  BY <1>0, HostOwns DEF Hosts!NextIs, HostTypes, HostSingles
<1> DEFINE A == <<"of", p>>
           B == <<"in", "runCh">>
<1>2. /\ todo'[p] = Tail(todo[p]) \/ (todo'[p] = <<>> /\ err["list"] # "none")
      /\ \A q \in Hosts!Procs \ {p} : todo'[q] = todo[q]
  BY <1>0, <1>1 DEF HostTypes
<1>3. /\ \A q \in Hosts!Group : state'[q] = "idle" /\ err'[q] = "none"
      /\ \A q \in Hosts!Procs \ Hosts!Group : state'[q] = state[q] /\ (q # p => err'[q] = err[q])
      /\ err'[p] = Hosts!First(err[p], err["list"])
  BY <1>0, <1>1
<1>4. HostTrouble => HostTrouble'
  <2>1. /\ err["list"] # "none" => err'[p] # "none"
        /\ \A q \in HostSingles : err[q] # "none" => err'[q] # "none"
    BY <1>1, <1>3 DEF Hosts!First, HostSingles
  <2>2. QED
    BY <1>0, <1>1, <2>1 DEF HostTrouble, Hosts!GroupErr
<1>5. err["list"] # "none" => HostTrouble'
  BY <1>4 DEF HostTrouble, Hosts!GroupErr
<1>6. HostTrouble \/ InRunCh = {}
  <2>1. PICK w \in Workers : TRUE
    BY InstancesAreAdmissible DEF Hosts!Assumptions
  <2>2. HostTrouble \/ runCh = <<>>
    BY <1>0, <2>1 DEF HostQueues
  <2>3. runCh = <<>> => InRunCh = {}
    BY DEF InRunCh
  <2>4. QED
    BY <2>2, <2>3
<1>7. InRunCh' = {}
  BY <1>0 DEF InRunCh
<1>8. /\ Left(p) = Tail(todo[p]) /\ \A q \in Hosts!Procs \ {p} : Left(q) = todo[q]
      /\ \A q \in Hosts!Procs : Left(q)' = todo'[q]
  BY <1>0, <1>1, <1>3 DEF Left
<1>9. /\ A \in Places /\ B \in Places /\ A # B
      /\ Has(A) = ReadsOf(Tail(todo[p])) /\ Has(A)' = ReadsOf(todo'[p]) /\ Has(B) = InRunCh /\ Has(B)' = {}
      /\ ReadsOf(<<>>) = {}
  <2>1. ReadsOf(Left(p)) = ReadsOf(Tail(todo[p])) /\ ReadsOf(Left(p))' = ReadsOf(todo'[p])
    BY <1>0, <1>1, <1>8 DEF ReadsOf
  <2>2. QED
    BY <1>1, <1>7, <2>1, PlacesAre, NothingToRead DEF ReadsOf
<1>10. Unbegun' = Unbegun
  BY <1>0 DEF Unbegun, ReadsOf
<1>11. HostQueues'
  <2>1. \A w \in Workers : state'[w] = "idle"
    BY <1>3
  <2>2. state'["enum"] = state["enum"] /\ state'["scan"] = state["scan"]
    BY <1>3
  <2>3. QED
    BY <1>0, <1>1, <2>1, <2>2 DEF HostQueues
<1>12. HostRepos'
  <2>1. todo'["enum"] = todo["enum"] /\ state'["enum"] = state["enum"] /\ err'["enum"] = err["enum"]
    BY <1>2, <1>3
  <2>2. QED
    BY <1>0, <2>1, HostReposKept
<1>13. Sound(todo'[p]) /\ (Hosts!ReadOnce(Hosts!Plan) => Hosts!Separate(Hosts!Plan, todo'[p]))
  <2>1. 1 \in 1..Len(todo[p]) /\ Tail(todo[p]) = SubSeq(todo[p], 1 + 1, Len(todo[p]))
    <3>1. 0 \in 0..Len(todo[p]) /\ Len(todo[p]) \in Nat
      BY <1>1 DEF HostScript
    <3>2. QED
      BY <1>1, <3>1, ScriptCut
  <2>2. Sound(Tail(todo[p]))
    BY <1>0, <1>1, <2>1, SoundBehind DEF HostSound
  <2>3. Hosts!ReadOnce(Hosts!Plan) => Hosts!Separate(Hosts!Plan, Tail(todo[p]))
    BY <1>0, <1>1, ReadsFromTheFirst DEF HostApart
  <2>4. QED
    BY <1>2, <2>2, <2>3, NothingToRead
<1>14. /\ \A q \in Hosts!Procs : <<"of", q>> \notin {A, B} => ReadsOf(Left(q))' = ReadsOf(Left(q))
       /\ Has(A)' \cup Has(B)' \subseteq Has(A) \cup Has(B)
       /\ HostTrouble' \/ Has(A) \cup Has(B) \subseteq Has(A)' \cup Has(B)'
  <2>1. ASSUME NEW q \in Hosts!Procs \ {p}
        PROVE  ReadsOf(Left(q))' = ReadsOf(Left(q))
    <3>1. Left(q)' = Left(q)
      BY <1>2, <1>8
    <3>2. QED
      BY <1>0, <3>1 DEF ReadsOf
  <2>2. QED
    BY <1>2, <1>4, <1>5, <1>6, <1>9, <2>1
<1>15. \A q \in Hosts!Procs :
         /\ todo'[q] = todo[q] \/ (Sound(todo'[q]) /\ (Hosts!ReadOnce(Hosts!Plan) => Hosts!Separate(Hosts!Plan, todo'[q])))
         /\ state'[q] = "yielding" => state[q] = "yielding"
  BY <1>2, <1>3, <1>13
<1>16. /\ <<"in", "repoCh">> \notin {A, B} /\ <<"in", "unbegun">> \notin {A, B} /\ <<"in", "runCh">> \in {A, B}
       /\ DOMAIN runCh' = {}
  BY <1>0
<1>17. Hosts!ReadOnce(Hosts!Plan) =>
         \A j, k \in DOMAIN runCh' :
           j # k => ReadsOf(Hosts!Plan.scripts[runCh'[j]]) \cap ReadsOf(Hosts!Plan.scripts[runCh'[k]]) = {}
  BY <1>16
<1>18. Has(A)' \cap Has(B)' = {} /\ HostTypes /\ UNCHANGED <<yielded, told, lost, repoCh>>
  BY <1>0, <1>9
<1> HIDE DEF A, B
<1>19. QED
  BY <1>4, <1>9, <1>10, <1>11, <1>12, <1>14, <1>15, <1>16, <1>17, <1>18, HostControlReads

-----------------------------------------------------------------------------
(* HostReads is inductive, given HostInv,                                  *)
LEMMA HostNextReads ==
  ASSUME HostInv, HostReads, Hosts!Next
  PROVE  HostReads'
<1>1. CASE Hosts!Cancel \/ Hosts!Finished
  BY <1>1, HostJoinReads
<1>2. ASSUME NEW p \in Hosts!Procs, Hosts!Step1(p)
      PROVE  HostReads'
  <2>0. target' = target
    BY <1>2 DEF Hosts!Step1
  <2>1. CASE Hosts!ScriptStep(p) \/ (p = "enum" /\ Hosts!SendRepo) \/ (p = "list" /\ Hosts!SendItem)
    BY <2>0, <2>1, HostScriptReads
  <2>2. CASE Hosts!Begin \/ Hosts!Dispatched \/ Hosts!StartEnumeration \/ Hosts!EnumerationEnds \/ Hosts!Join
    BY <2>0, <2>2, HostBeginReads, HostDispatchedReads, HostStartReads, HostJoinReads
  <2>3. CASE Hosts!EndEnum \/ Hosts!EndScan \/ Hosts!EndList \/ (p \in Workers /\ Hosts!EndWorker(p))
    BY <2>0, <2>3, HostEndReads
  <2>4. CASE Hosts!NextRepo
    BY <2>0, <2>4, HostNextRepoReads
  <2>5. CASE p \in {"main", "scan"} /\ (Hosts!StartGroup(p) \/ Hosts!EndGroup(p))
    BY <2>0, <2>5, HostStartGroupReads, HostEndGroupReads
  <2>6. CASE p \in Workers /\ Hosts!TakeItem(p)
    BY <2>0, <2>6, HostTakeItemReads
  <2>7. QED
    BY <1>2, <2>1, <2>2, <2>3, <2>4, <2>5, <2>6 DEF Hosts!Step1
<1>3. QED
  BY <1>1, <1>2 DEF Hosts!Next, Hosts!Progress

(* and it holds before the first step.                                     *)
LEMMA HostReadsFirst ==
  ASSUME Hosts!Init
  PROVE  HostReads
<1>0. /\ at = "begin" /\ todo = [q \in Hosts!Procs |-> <<>>] /\ state = [q \in Hosts!Procs |-> "idle"]
      /\ err = [q \in Hosts!Procs |-> "none"] /\ repoCh = <<>> /\ runCh = <<>>
      /\ cause = "none" /\ visited = <<>> /\ yielded = {} /\ told = {} /\ lost = {} /\ verdict = {}
      /\ target \in DOMAIN HostTargets
  BY DEF Hosts!Init
<1> USE HostProcs
<1>1. \A q \in Hosts!Procs : todo[q] = <<>> /\ Left(q) = <<>> /\ state[q] = "idle" /\ err[q] = "none"
  BY <1>0 DEF Left
<1>2. HostSound
  BY <1>1, NothingToRead DEF HostSound
<1>3. HostQueues
  BY <1>0, <1>1 DEF HostQueues
<1>4. /\ \A q \in Hosts!Procs : Has(<<"of", q>>) = {}
      /\ Has(<<"in", "done">>) = {} /\ Has(<<"in", "repoCh">>) = {} /\ Has(<<"in", "runCh">>) = {}
      /\ Has(<<"in", "unbegun">>) = Hosts!InPlan(Hosts!Plan)
  BY <1>0, <1>1, PlacesAre, NothingToRead DEF ReadsOf, Handled, InRepoCh, InRunCh, Unbegun
<1>5. \A c \in Places : Has(c) = IF c = <<"in", "unbegun">> THEN Hosts!InPlan(Hosts!Plan) ELSE {}
  BY <1>4, PlacesAre
<1>6. HostWhole
  <2>1. HostAll = Hosts!InPlan(Hosts!Plan)
    BY <1>5, PlacesAre DEF HostAll
  <2>2. QED
    BY <2>1 DEF HostWhole
<1>7. HostApart
  <2>1. HostDisjoint
    BY <1>5 DEF HostDisjoint
  <2>2. QED
    BY <1>0, <1>1, <2>1, NothingToRead DEF HostApart
<1>8. HostRepos
  BY <1>0, <1>1, NothingToRead DEF HostRepos
<1>9. QED
  BY <1>0, <1>1, <1>2, <1>3, <1>6, <1>7, <1>8 DEF HostReads

-----------------------------------------------------------------------------
(* What it says of a scan that has ended without an error, and of whoever  *)
(* is yielding, if the plan reads what the target says is wanted.          *)
LEMMA HostNilMeansScanned ==
  ASSUME HostInv, HostReads, WantedIsListed
  PROVE  Hosts!NilMeansScanned /\ Hosts!CoverageReported
<1>0. /\ HostTypes /\ HostPhases /\ HostQueues /\ HostWhole /\ HostGroup
      /\ (Hosts!Plan.accepted => HostTargets[target].wanted = Hosts!InPlan(Hosts!Plan))
      /\ (HostTargets[target].host = "container" => Hosts!Tells(Hosts!Plan))
      /\ Hosts!Tells(Hosts!Plan) => lost = {}
      /\ \A q \in Hosts!Procs : HostWork(q)
  BY DEF HostInv, HostReads, HostTypes, WantedIsListed, Hosts!Plan
<1> USE HostProcs
<1>1. ASSUME at = "returned", verdict = {}
      PROVE  HostTargets[target].wanted = yielded \cup told \cup lost
  <2>1. state["list"] = "idle" /\ ~HostTrouble /\ Hosts!Plan.accepted /\ Unbegun = {} /\ cause = "none"
    <3>1. state["list"] = "idle"
      BY <1>1, HostIdle
    <3>2. QED
      BY <1>0, <1>1, <3>1 DEF HostQueues, Unbegun, HostTrouble
  <2>2. runCh = <<>> /\ repoCh = <<>> /\ \A q \in Hosts!Procs : todo[q] = <<>> /\ Left(q) = <<>>
    <3>1. runCh = <<>> /\ \A q \in Hosts!Group : todo[q] = <<>>
      BY <1>0, <2>1 DEF HostGroup, HostWork
    <3>2. todo["main"] = <<>> /\ state["enum"] \in {"idle", "done"} /\ state["scan"] \in {"idle", "done"}
      BY <1>0, <1>1 DEF HostPhases
    <3>3. todo["enum"] = <<>> /\ todo["scan"] = <<>>
      BY <1>0, <3>2 DEF HostWork
    <3>4. repoCh = <<>>
      BY <1>0, <2>1, <3>2 DEF HostQueues
    <3>5. \A q \in Hosts!Procs : todo[q] = <<>>
      BY <3>1, <3>2, <3>3
    <3>6. QED
      BY <2>1, <3>1, <3>4, <3>5 DEF Left
  <2>3. \A c \in Places : Has(c) = {} \/ Has(c) = Handled
    BY <2>1, <2>2, PlacesAre, NothingToRead DEF ReadsOf, InRepoCh, InRunCh
  <2>4. HostAll = Handled
    BY <2>3, PlacesAre DEF HostAll
  <2>5. QED
    BY <1>0, <2>1, <2>4 DEF HostWhole, Handled
<1>2. QED
  BY <1>0, <1>1 DEF Hosts!NilMeansScanned, Hosts!CoverageReported

LEMMA HostEachOnce ==
  ASSUME HostInv, HostReads, WantedIsListed
  PROVE  Hosts!YieldedOnce /\ Hosts!EveryRepository
<1>0. /\ HostTypes /\ HostPhases /\ HostQueues /\ HostWhole /\ HostGroup /\ HostApart /\ HostRepos
      /\ Hosts!ReadOnce(Hosts!Plan)
      /\ (Hosts!Plan.accepted => HostTargets[target].wanted = Hosts!InPlan(Hosts!Plan))
      /\ (Hosts!Plan.accepted /\ Hosts!Plan.enumerate =>
            Hosts!SendsAll(Hosts!Plan.listing) /\ HostTargets[target].wantedRepos = Hosts!SendsOf(Hosts!Plan.listing))
      /\ \A q \in Hosts!Procs : HostWork(q)
  BY DEF HostInv, HostReads, HostTypes, WantedIsListed, Hosts!Plan
<1> USE HostProcs
<1>1. ASSUME NEW p \in Hosts!Yielders
      PROVE  /\ Head(todo[p]).in \in HostTargets[target].wanted \ (yielded \cup told \cup lost)
             /\ Hosts!Plan.wrapped => Hosts!Yielders = {p}
  <2>1. p \in Hosts!Procs /\ state[p] = "yielding" /\ Head(todo[p]).op = "yield" /\ todo[p] # <<>>
    BY <1>0 DEF Hosts!Yielders, HostWork
  <2>2. at \notin {"begin", "returned"}
    <3> SUFFICES ASSUME at \in {"begin", "returned"}
                 PROVE  FALSE
      OBVIOUS
    <3>1. state["list"] = "idle"
      BY HostIdle
    <3>2. \A q \in Hosts!Group : state[q] = "idle"
      BY <1>0, <3>1 DEF HostGroup
    <3>3. p \in {"main", "enum", "scan"}
      BY <2>1, <3>2
    <3>4. QED
      BY <1>0, <2>1, <3>3 DEF HostPhases
  <2>3. Left(p) = todo[p]
    <3>1. state["list"] # "idle" => p # HostOwner
      BY <2>1, HostIdle
    <3>2. QED
      BY <3>1 DEF Left
  <2>4. {Head(todo[p]).in} \subseteq ReadsOf(todo[p])
    <3>1. HostScript(Hosts!Plan, todo[p]) /\ HostStep(Hosts!Plan, Head(todo[p]))
      BY <1>0, <2>1, ScriptParts DEF HostTypes
    <3>2. Hosts!Reads(Hosts!Plan, Head(todo[p])) = {Head(todo[p]).in}
      BY <1>0, <2>1, <3>1, ReadsOfOther DEF HostTypes
    <3>3. QED
      BY <2>1, <3>1, <3>2, ReadsFromTheFirst DEF ReadsOf
  <2>5. /\ <<"of", p>> \in Places /\ <<"in", "done">> \in Places /\ <<"of", p>> # <<"in", "done">>
        /\ Has(<<"of", p>>) = ReadsOf(todo[p]) /\ Has(<<"in", "done">>) = Handled
    BY <2>1, <2>3, PlacesAre
  <2>6. ReadsOf(todo[p]) \subseteq Hosts!InPlan(Hosts!Plan) /\ ReadsOf(todo[p]) \cap Handled = {}
    BY <1>0, <2>5 DEF HostWhole, HostAll, HostApart, HostDisjoint
  <2>7. Head(todo[p]).in \in HostTargets[target].wanted \ (yielded \cup told \cup lost)
    BY <1>0, <2>2, <2>4, <2>6 DEF HostQueues, Handled
  <2>8. Hosts!Plan.wrapped => Hosts!Yielders = {p}
    BY <2>1 DEF HostReads, Hosts!Yielders
  <2>9. QED
    BY <2>7, <2>8
<1>2. ASSUME at = "returned", cause = "none", state["enum"] = "done"
      PROVE  Hosts!ToSet(visited) = HostTargets[target].wantedRepos
  <2>1. err["enum"] = "none" /\ Hosts!Plan.accepted /\ Hosts!Plan.enumerate
    BY <1>0, <1>2 DEF HostQueues
  <2>2. state["scan"] = "done" /\ repoCh = <<>>
    BY <1>0, <1>2 DEF HostQueues, HostPhases
  <2>3. todo["enum"] = <<>>
    BY <1>0, <1>2 DEF HostWork
  <2>4. Hosts!SendsOf(todo["enum"]) = {} /\ HostSent = {}
    BY <2>2, <2>3, NothingToRead DEF HostSent
  <2>5. QED
    BY <1>0, <1>2, <2>1, <2>4 DEF HostRepos
<1>3. QED
  BY <1>1, <1>2 DEF Hosts!YieldedOnce, Hosts!EveryRepository


-----------------------------------------------------------------------------
(* Of the source that is scanned this holds, too.                          *)
ResultsInv ==
  /\ which = "hosts" => HostReads
  /\ which = "S3"    => S3Tries
  /\ which = "git"   => GitReads

(* A step of nobody keeps it,                                              *)
LEMMA ResultsUnchanged ==
  ASSUME SourcesInv, ResultsInv, UNCHANGED vars
  PROVE  ResultsInv'
<1>1. UNCHANGED <<which, target, at, cause, verdict, obj, groupErr, todo, state, err,
                  repoCh, runCh, exitErr, yielded, lost, told, visited, bucket, page, pos>>
  BY DEF vars
<1>2. UNCHANGED <<which, target, at, yielded, lost, verdict, groupErr, phase, stage, cur, errs, git>>
  BY DEF vars
<1>3. CASE which = "hosts"
  <2>1. HostInv /\ HostReads /\ Hosts!Plan' = Hosts!Plan
    BY <1>1, <1>3 DEF SourcesInv, ResultsInv, Hosts!Plan
  <2>2. HostQueues'
    BY <1>1, <2>1 DEF HostReads, HostQueues, HostTrouble, Hosts!GroupErr
  <2>3. HostReads'
    BY <1>1, <2>1, <2>2, HostRestReads DEF HostOwner
  <2>4. QED
    BY <1>1, <1>3, <2>3 DEF ResultsInv
<1>4. CASE which = "S3"
  <2>1. S3Tries'
    BY <1>1, <1>4 DEF ResultsInv, S3Tries, S3Enumerates, S3Lists, S3Listed, S3Skipped, S3Passed,
       S3!Enumerate, S3!Buckets, S3!Pages
  <2>2. QED
    BY <1>1, <1>4, <2>1 DEF ResultsInv
<1>5. CASE which = "git"
  <2>1. Git!T' = Git!T /\ GitRead' = GitRead
    BY <1>2 DEF Git!T, GitRead
  <2>2. GitFull'
    BY <1>2, <1>5, <2>1 DEF ResultsInv, GitReads, GitFull
  <2>3. ASSUME NEW p \in Git!Readers
        PROVE  GitProgress(p)'
    BY <1>2, <1>5, <2>1 DEF ResultsInv, GitReads, GitProgress, GitWhere, GitGets, GitHolds, GitFresh, GitTrouble,
       GitHand, GitPipe, GitLater, GitAfter, GitPrinted
  <2>4. QED
    BY <1>2, <1>5, <2>1, <2>2, <2>3 DEF ResultsInv, GitReads
<1>6. CASE which = "HF"
  BY <1>1, <1>6 DEF ResultsInv
<1>7. QED
  BY <1>3, <1>4, <1>5, <1>6 DEF SourcesInv

(* every step of the scanned source does,                                  *)
LEMMA ResultsInductive ==
  ASSUME SourcesInv, ResultsInv, [Next]_vars
  PROVE  ResultsInv'
<1>1. CASE which = "hosts" /\ Hosts!Next /\ which' = which
  BY <1>1, HostNextReads DEF SourcesInv, ResultsInv
<1>2. CASE which = "S3" /\ S3!Next /\ which' = which
  BY <1>2, S3KeepsTrying DEF SourcesInv, ResultsInv
<1>3. CASE which = "HF" /\ which' = which
  BY <1>3 DEF ResultsInv
<1>4. CASE which = "git" /\ Git!Next /\ which' = which
  BY <1>4, GitNextReads DEF SourcesInv, ResultsInv
<1>5. CASE UNCHANGED vars
  BY <1>5, ResultsUnchanged
<1>6. QED
  BY <1>1, <1>2, <1>3, <1>4, <1>5 DEF Next

(* and it holds before the first.                                          *)
LEMMA ResultsFirst ==
  ASSUME Init
  PROVE  ResultsInv
<1>1. CASE which = "hosts" /\ Hosts!Init
  BY <1>1, HostReadsFirst DEF ResultsInv
<1>2. CASE which = "S3" /\ S3!Init
  BY <1>2, S3TriesFirst DEF ResultsInv
<1>3. CASE which = "HF"
  BY <1>3 DEF ResultsInv
<1>4. CASE which = "git" /\ Git!Init
  BY <1>4, GitReadsFirst DEF ResultsInv
<1>5. QED
  BY <1>1, <1>2, <1>3, <1>4 DEF Init

(* At all times each source knows where the inputs are that it has still   *)
(* to read, and that none of them is in two places.                        *)
THEOREM ResultsInvariant == Spec => []ResultsInv
<1>1. Init => ResultsInv
  BY ResultsFirst
<1>2. SourcesInv /\ ResultsInv /\ [Next]_vars => ResultsInv'
  BY ResultsInductive
<1>3. QED
  BY <1>1, <1>2, SourcesInvariant, PTL DEF Spec

(* A nil error of Fragments means that the target was scanned: of a host,  *)
(* a tree or an image, of a repository that git prints, of a bucket or of  *)
(* all of them, everything that was selected was yielded, or passed over   *)
(* by a failure that was told or logged; for whatever the target lists,    *)
(* however many workers and failures there are. The hypothesis relates two *)
(* constants: that a target says of itself what its plan reads.            *)
THEOREM NilMeansScannedHolds == Spec => [](WantedIsListed => NilMeansScanned)
<1>1. SourcesInv /\ ResultsInv => (WantedIsListed => NilMeansScanned)
  <2> SUFFICES ASSUME SourcesInv, ResultsInv, WantedIsListed
               PROVE  NilMeansScanned
    OBVIOUS
  <2>1. which = "hosts" => Hosts!NilMeansScanned /\ Hosts!CoverageReported
    BY HostNilMeansScanned DEF SourcesInv, ResultsInv
  <2>2. which = "S3" => S3!NilMeansTried
    BY S3NilMeansTried DEF SourcesInv, ResultsInv, WantedIsListed
  <2>3. which = "HF" => HF!EnumerationReported
    BY DEF SourcesInv, HFInv, HFCause, HF!EnumerationReported
  <2>4. which = "git" => Git!NilMeansAllRead
    <3> SUFFICES ASSUME which = "git"
                 PROVE  Git!NilMeansAllRead
      OBVIOUS
    <3>1. GitInv /\ GitReads
      BY DEF SourcesInv, ResultsInv
    <3>2. Git!ReadOnce(Git!T) /\ Git!T.wanted = Git!AllReads(Git!T)
      BY <3>1 DEF WantedIsListed, GitInv, GitTypes, Git!T
    <3>3. QED
      BY <3>1, <3>2, GitNilMeansAllRead DEF Git!NilMeansAllRead, GitRead
  <2>5. QED
    BY <2>1, <2>2, <2>3, <2>4 DEF NilMeansScanned
<1>2. QED
  BY <1>1, SourcesInvariant, ResultsInvariant, PTL

(* No fragment of a host, a tree or an image is yielded twice, by whatever *)
(* goroutines, and nothing that was not selected; and the failure of one   *)
(* repository keeps no other from being scanned (the scan goroutine goes   *)
(* on with the next one).                                                  *)
THEOREM EachScannedOnceHolds == Spec => [](WantedIsListed => EachScannedOnce)
<1>1. SourcesInv /\ ResultsInv => (WantedIsListed => EachScannedOnce)
  BY HostEachOnce DEF SourcesInv, ResultsInv, EachScannedOnce
<1>2. QED
  BY <1>1, SourcesInvariant, ResultsInvariant, PTL

=============================================================================
