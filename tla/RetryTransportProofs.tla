------------------------ MODULE RetryTransportProofs ------------------------
(***************************************************************************)
(* Proofs about RetryTransport, for every set of goroutines, every number  *)
(* of retries and slots, and whatever the servers ask for.                 *)
(***************************************************************************)
EXTENDS RetryTransport, FiniteSetTheorems, TLAPS

(* The queries that hold a token of gqlSem.                                *)
HoldingSlot == {"enter", "waiting", "send", "inflight", "responded", "retrying", "returned"}
Holders == {c \in Queries : pc[c] \in HoldingSlot}

(* Every token belongs to one query between its Acquire and its release,   *)
(* and only queries are where gqlQuery, not RoundTrip, is running.         *)
SlotInv ==
  /\ slots = Cardinality(Holders)
  /\ \A c \in Callers : pc[c] \in {"slot", "classify", "paused"} => c \in Queries

(* What a goroutine has promised not to send before is never later than    *)
(* the end of its sleep, and it sends only when nothing of it is left.     *)
PauseInv ==
  /\ asked = resume
  /\ \A c \in Callers :
       /\ pc[c] \in {"send", "inflight", "responded"} => promised[c] = 0
       /\ pc[c] \in {"waiting", "retrying"} => promised[c] <= wake[c]

(* While its fate is open, the response a goroutine holds is unread.       *)
BodyInv ==
  /\ ResponsesIntact
  /\ \A c \in Callers :
       /\ pc[c] = "responded" /\ reply[c].kind \in Responses => unread[c] = 1

Inv == TypeOK /\ SlotInv /\ PauseInv /\ BodyInv

-----------------------------------------------------------------------------
(* Numbers, and the arithmetic of waiting.                                 *)

LEMMA Numbers ==
  /\ MaxRetries \in Nat /\ MaxBackoff \in Nat /\ MaxBackoff > 0 /\ MaxFaults \in Nat
  /\ Slots \in Nat /\ \A w \in Waits : w \in Nat
<1>1. {MaxRetries, MaxBackoff, MaxFaults} \subseteq Nat
  BY NumbersAssumption
<1>2. MaxRetries \in Nat
  BY <1>1
<1>3. MaxBackoff \in Nat
  BY <1>1
<1>4. MaxFaults \in Nat
  BY <1>1
<1>5. MaxBackoff > 0 /\ Slots \in Nat \ {0} /\ Waits \subseteq Nat \ {0}
  BY NumbersAssumption
<1>6. (\A w \in Waits : w \in Nat) /\ Slots \in Nat
  BY <1>5
<1>7. MaxBackoff > 0
  BY <1>5
<1>8. QED BY <1>2, <1>3, <1>4, <1>6, <1>7

(* The wait a reply names is a number.                                     *)
LEMMA ReplyWait == ASSUME TypeOK, NEW c \in Callers PROVE reply[c].wait \in Nat
<1>1. reply[c] \in Replies
  BY DEF TypeOK
<1>2. reply[c].wait \in Waits \cup {0}
  BY <1>1 DEF Replies
<1>3. QED BY <1>2, Numbers

LEMMA PowerOfTwo == ASSUME NEW n \in Nat PROVE 2 ^ n \in Nat \ {0}
<1> DEFINE S == 1 .. n
<1>1. IsFiniteSet(S) /\ Cardinality(S) = n
  <2>1. /\ IsFiniteSet(1 .. n)
        /\ Cardinality(1 .. n) = IF 1 > n THEN 0 ELSE n - 1 + 1
    BY FS_Interval
  <2>2. QED BY <2>1
<1> HIDE DEF S
<1>2. IsFiniteSet(SUBSET S) /\ Cardinality(SUBSET S) = 2 ^ n
  BY <1>1, FS_SUBSET
<1>3. Cardinality(SUBSET S) \in Nat /\ Cardinality(SUBSET S) # 0
  <2>1. SUBSET S # {}
    OBVIOUS
  <2>2. QED BY <1>2, <2>1, FS_EmptySet, FS_CardinalityType
<1>4. QED BY <1>2, <1>3

(* A goroutine that retries sleeps at least as long as it was told to, and *)
(* never not at all.                                                       *)
LEMMA BackoffSuffices ==
  ASSUME TypeOK, NEW c \in Callers, NEW w \in Backoff(c)
  PROVE  w \in Nat /\ w > 0 /\ w >= reply[c].wait
<1>1. attempt[c] \in Nat /\ reply[c].wait \in Nat /\ MaxBackoff \in Nat \ {0}
  <2>1. attempt[c] \in 0 .. MaxRetries
    BY DEF TypeOK
  <2>2. QED BY <2>1, Numbers, ReplyWait
<1>2. 2 ^ attempt[c] \in Nat \ {0}
  BY <1>1, PowerOfTwo
<1>3. MaxBackoff \in Nat /\ MaxBackoff > 0
  BY <1>1
<1>4. CASE reply[c].wait > 0
  BY <1>1, <1>4 DEF Backoff
<1>5. CASE ~(reply[c].wait > 0)
  <2> DEFINE n == 2 ^ attempt[c]
             b == IF n > MaxBackoff THEN MaxBackoff ELSE n
  <2>1. n \in Nat /\ n > 0
    BY <1>2
  <2>2. \E j \in {0, 1} : w = b + j
    BY <1>5 DEF Backoff
  <2> HIDE DEF n
  <2>3. b \in Nat /\ b > 0
    BY <1>3, <2>1
  <2>4. QED BY <1>1, <1>5, <2>2, <2>3
<1>6. QED BY <1>4, <1>5

(* Why two deadlines of which one is not later stay so while time passes.  *)
LEMMA NearerTogether ==
  ASSUME NEW a \in Nat, NEW b \in Nat
  PROVE  /\ Nearer(a) \in Nat
         /\ a <= b => Nearer(a) <= Nearer(b)
BY DEF Nearer

-----------------------------------------------------------------------------
(* Types, and the slots of gqlSem.                                         *)

LEMMA HoldersFinite ==
  IsFiniteSet(Queries) /\ IsFiniteSet(Holders) /\ Cardinality(Holders) \in Nat
<1>1. Holders \subseteq Queries
  BY DEF Holders
<1>2. QED BY <1>1, CallersAssumption, FS_Subset, FS_CardinalityType

(* A step of c between two stages with a slot, or two without.             *)
LEMMA HoldersKept ==
  ASSUME TypeOK, NEW c \in Callers, NEW at, Goto(c, at),
         c \in Queries => (at \in HoldingSlot <=> pc[c] \in HoldingSlot)
  PROVE  Holders' = Holders
BY DEF Holders, Goto, TypeOK

LEMMA AcquireCounts ==
  ASSUME TypeOK, SlotInv, NEW c \in Callers, Acquire(c)
  PROVE  slots' = Cardinality(Holders')
<1>1. c \in Queries /\ c \notin Holders /\ Holders' = Holders \cup {c}
  BY DEF Acquire, SlotInv, Holders, HoldingSlot, Goto, TypeOK
<1>2. Cardinality(Holders') = Cardinality(Holders) + 1
  BY <1>1, HoldersFinite, FS_AddElement
<1>3. QED BY <1>2 DEF Acquire, SlotInv

LEMMA ReleaseCounts ==
  ASSUME TypeOK, SlotInv, NEW c \in Callers, ReleaseSlot(c)
  PROVE  slots' = Cardinality(Holders') /\ slots > 0
<1>1. c \in Holders /\ Holders' = Holders \ {c}
  BY DEF ReleaseSlot, Holders, HoldingSlot, Goto, TypeOK
<1>2. /\ Cardinality(Holders') = Cardinality(Holders) - 1
      /\ Cardinality(Holders') \in Nat /\ Cardinality(Holders) \in Nat
  BY <1>1, HoldersFinite, FS_RemoveElement, FS_CardinalityType
<1>3. QED BY <1>2, HoldersFinite DEF ReleaseSlot, SlotInv

(* What one goroutine does leaves the others where they are.               *)
LEMMA OwnStep ==
  ASSUME TypeOK, NEW c \in Callers, Step(c)
  PROVE  /\ pc'[c] \in Stages /\ pc' \in [Callers -> Stages]
         /\ \A d \in Callers : d # c =>
              /\ pc'[d] = pc[d] /\ wake'[d] = wake[d] /\ promised'[d] = promised[d]
              /\ unread'[d] = unread[d] /\ reply'[d] = reply[d]
<1>1. ASSUME NEW at \in Stages, Goto(c, at)
      PROVE  /\ pc'[c] \in Stages /\ pc' \in [Callers -> Stages]
             /\ \A d \in Callers : d # c => pc'[d] = pc[d]
  BY <1>1 DEF Goto, TypeOK
<1>2. \E at \in Stages : Goto(c, at)
  BY DEF Step, Acquire, Leave, Enter, Wake, SleepCanceled, Send, Respond, GiveUp,
         GiveUpBody, Retry, Finish, ReleaseSlot, EndQuery, PauseAll, Stages, Sleeping
<1>3. \A d \in Callers : d # c =>
        wake'[d] = wake[d] /\ promised'[d] = promised[d]
  BY DEF Step, Acquire, Leave, Enter, Wake, SleepCanceled, Send, Respond, GiveUp,
         GiveUpBody, Retry, Finish, ReleaseSlot, EndQuery, PauseAll, call, history, TypeOK
<1>4. \A d \in Callers : d # c =>
        unread'[d] = unread[d] /\ reply'[d] = reply[d]
  BY DEF Step, Acquire, Leave, Enter, Wake, SleepCanceled, Send, Respond, GiveUp,
         GiveUpBody, Retry, Finish, ReleaseSlot, EndQuery, PauseAll, call, history, TypeOK
<1>5. QED BY <1>1, <1>2, <1>3, <1>4

LEMMA CanceledTyped == Reply("canceled", 0) \in Replies
BY DEF Reply, Replies, Failures

LEMMA LaterTyped ==
  ASSUME NEW a \in Nat, NEW b \in Nat
  PROVE  /\ Later(a, b) \in Nat /\ Later(a, b) >= a /\ Later(a, b) >= b
         /\ Later(a, b) \in {a, b}
BY DEF Later

LEMMA TypesKept ==
  ASSUME TypeOK, SlotInv, NEW c \in Callers, Step(c), UNCHANGED request
  PROVE  TypeOK'
<1>1. request' \in Requests /\ pc' \in [Callers -> Stages]
  BY OwnStep DEF TypeOK
<1>2. slots' \in 0 .. Slots
  <2>1. CASE Acquire(c)
    BY <2>1, Numbers DEF Acquire, TypeOK
  <2>2. CASE ReleaseSlot(c)
    <3>1. slots \in 0 .. Slots /\ slots > 0 /\ slots' = slots - 1
      BY <2>2, ReleaseCounts DEF ReleaseSlot, TypeOK
    <3>2. QED BY <3>1, Numbers
  <2>3. CASE ~Acquire(c) /\ ~ReleaseSlot(c)
    BY <2>3 DEF Step, Leave, Enter, Wake, SleepCanceled, Send, Respond, GiveUp, GiveUpBody,
       Retry, Finish, EndQuery, PauseAll, TypeOK
  <2>4. QED BY <2>1, <2>2, <2>3
<1>3. attempt' \in [Callers -> 0 .. MaxRetries]
  <2>1. CASE Retry(c)
    BY <2>1, Numbers DEF Retry, TypeOK
  <2>2. CASE Enter(c)
    BY <2>2, Numbers DEF Enter, TypeOK
  <2>3. CASE ~Retry(c) /\ ~Enter(c)
    BY <2>3 DEF Step, Acquire, Leave, Wake, SleepCanceled, Send, Respond, GiveUp, GiveUpBody,
       Finish, ReleaseSlot, EndQuery, PauseAll, call, TypeOK
  <2>4. QED BY <2>1, <2>2, <2>3
<1>4. wake' \in [Callers -> Nat]
  <2>1. CASE Retry(c)
    BY <2>1, BackoffSuffices DEF Retry, TypeOK
  <2>2. CASE Enter(c)
    BY <2>2 DEF Enter, TypeOK
  <2>3. CASE \E w \in Waits : PauseAll(c, w)
    BY <2>3, Numbers DEF PauseAll, TypeOK
  <2>4. CASE ~Retry(c) /\ ~Enter(c) /\ ~(\E w \in Waits : PauseAll(c, w))
    BY <2>4 DEF Step, Acquire, Leave, Wake, SleepCanceled, Send, Respond, GiveUp, GiveUpBody,
       Finish, ReleaseSlot, EndQuery, call, TypeOK
  <2>5. QED BY <2>1, <2>2, <2>3, <2>4
<1>5. reply' \in [Callers -> Replies]
  <2>1. CASE \E r \in Replies : Respond(c, r)
    BY <2>1 DEF Respond, TypeOK
  <2>2. CASE ~(\E r \in Replies : Respond(c, r))
    BY <2>2, CanceledTyped DEF Step, Acquire, Leave, Enter, Wake, SleepCanceled, Send, GiveUp,
       GiveUpBody, Retry, Finish, ReleaseSlot, EndQuery, PauseAll, call, TypeOK
  <2>3. QED BY <2>1, <2>2
<1>6. ctxDone' \in BOOLEAN
  BY DEF Step, Acquire, Leave, Enter, Wake, SleepCanceled, Send, Respond, GiveUp, GiveUpBody,
     Retry, Finish, ReleaseSlot, EndQuery, PauseAll, TypeOK
<1>7. unread' \in [Callers -> Nat] /\ faults' \in 0 .. MaxFaults
  <2>1. CASE \E r \in Replies : Respond(c, r)
    BY <2>1, Numbers DEF Respond, TypeOK
  <2>2. CASE ~(\E r \in Replies : Respond(c, r))
    BY <2>2 DEF Step, Acquire, Leave, Enter, Wake, SleepCanceled, Send, GiveUp,
       GiveUpBody, Retry, Finish, ReleaseSlot, EndQuery, PauseAll, TypeOK
  <2>3. QED BY <2>1, <2>2
<1>8. resume' \in Nat /\ asked' \in Nat
  <2>1. CASE Retry(c)
    <3>1. reply[c].wait \in Nat
      BY ReplyWait
    <3>2. QED BY <2>1, <3>1, LaterTyped DEF Retry, RecordPause, TypeOK
  <2>2. CASE \E w \in Waits : PauseAll(c, w)
    BY <2>2, LaterTyped, Numbers DEF PauseAll, RecordPause, TypeOK
  <2>3. CASE ~Retry(c) /\ ~(\E w \in Waits : PauseAll(c, w))
    BY <2>3 DEF Step, Acquire, Leave, Enter, Wake, SleepCanceled, Send, Respond, GiveUp, GiveUpBody,
       Finish, ReleaseSlot, EndQuery, history, TypeOK
  <2>4. QED BY <2>1, <2>2, <2>3
<1>9. promised' \in [Callers -> Nat]
  <2>1. CASE Retry(c)
    <3>1. reply[c].wait \in Nat /\ promised[c] \in Nat
      BY ReplyWait DEF TypeOK
    <3>2. Later(promised[c], (IF reply[c].wait > 0 THEN reply[c].wait ELSE 1)) \in Nat
      BY <3>1, LaterTyped
    <3>3. QED BY <2>1, <3>2 DEF Retry, TypeOK
  <2>2. CASE ~Retry(c)
    BY <2>2 DEF Step, Acquire, Leave, Enter, Wake, SleepCanceled, Send, Respond, GiveUp, GiveUpBody,
       Finish, ReleaseSlot, EndQuery, PauseAll, history, TypeOK
  <2>3. QED BY <2>1, <2>2
<1>10. QED BY <1>1, <1>2, <1>3, <1>4, <1>5, <1>6, <1>7, <1>8, <1>9 DEF TypeOK

(* No token of gqlSem is lost or returned twice by a step.                 *)
LEMMA SlotsKept ==
  ASSUME TypeOK, SlotInv, NEW c \in Callers, Step(c)
  PROVE  SlotInv'
<1>1. slots' = Cardinality(Holders')
  <2>1. CASE Acquire(c)
    BY <2>1, AcquireCounts
  <2>2. CASE ReleaseSlot(c)
    BY <2>2, ReleaseCounts
  <2>3. CASE ~Acquire(c) /\ ~ReleaseSlot(c)
    <3>1. slots' = slots
      BY <2>3 DEF Step, Leave, Enter, Wake, SleepCanceled, Send, Respond, GiveUp, GiveUpBody,
         Retry, Finish, EndQuery, PauseAll
    <3>2. \E at : Goto(c, at) /\ (c \in Queries => (at \in HoldingSlot <=> pc[c] \in HoldingSlot))
      <4>1. CASE Wake(c)
        BY <4>1 DEF Wake, Sleeping, HoldingSlot
      <4>2. CASE SleepCanceled(c)
        BY <4>2 DEF SleepCanceled, Sleeping, HoldingSlot
      <4>3. CASE ~Wake(c) /\ ~SleepCanceled(c)
        BY <2>3, <4>3 DEF Step, Leave, Enter, Send, Respond, GiveUp, GiveUpBody,
           Retry, Finish, EndQuery, PauseAll, HoldingSlot
      <4>4. QED BY <4>1, <4>2, <4>3
    <3>3. Holders' = Holders
      BY <3>2, HoldersKept
    <3>4. QED BY <3>1, <3>3 DEF SlotInv
  <2>4. QED BY <2>1, <2>2, <2>3
<1>2. ASSUME NEW d \in Callers, pc'[d] \in {"slot", "classify", "paused"}
      PROVE  d \in Queries
  <2>1. CASE d # c
    BY <1>2, <2>1, OwnStep DEF SlotInv
  <2>2. CASE d = c
    <3>1. \E at \in Stages : Goto(c, at) /\
            (at \in {"slot", "classify", "paused"} => c \in Queries)
      BY DEF Step, Acquire, Leave, Enter, Wake, SleepCanceled, Send, Respond, GiveUp,
         GiveUpBody, Retry, Finish, ReleaseSlot, EndQuery, PauseAll, Stages, Sleeping, SlotInv
    <3>2. QED BY <1>2, <2>2, <3>1 DEF Goto, TypeOK
  <2>3. QED BY <2>1, <2>2
<1>3. QED BY <1>1, <1>2 DEF SlotInv

-----------------------------------------------------------------------------
(* Pauses. What a goroutine has promised, its own step leaves within what  *)
(* it will still sleep.                                                    *)
LEMMA OwnPause ==
  ASSUME TypeOK, PauseInv, NEW c \in Callers, Step(c)
  PROVE  /\ pc'[c] \in {"send", "inflight", "responded"} => promised'[c] = 0
         /\ pc'[c] \in {"waiting", "retrying"} => promised'[c] <= wake'[c]
<1>1. CASE Enter(c)
  BY <1>1 DEF Enter, Goto, TypeOK, PauseInv
<1>2. CASE Wake(c)
  <2>1. promised[c] \in Nat /\ wake[c] = 0 /\ promised' = promised /\ wake' = wake
    BY <1>2 DEF Wake, TypeOK, call, history
  <2>2. pc[c] \in {"waiting", "retrying"} => promised[c] = 0
    BY <2>1 DEF PauseInv
  <2>3. pc'[c] = IF pc[c] = "paused" THEN "slot" ELSE "send"
    BY <1>2 DEF Wake, Goto, TypeOK
  <2>4. QED BY <1>2, <2>1, <2>2, <2>3 DEF Wake, Sleeping
<1>3. CASE Send(c)
  BY <1>3 DEF Send, Goto, TypeOK
<1>4. CASE Retry(c)
  <2>1. promised[c] = 0 /\ reply[c].wait \in Nat
    BY <1>4, ReplyWait DEF Retry, PauseInv
  <2>2. promised'[c] = Later(0, (IF reply[c].wait > 0 THEN reply[c].wait ELSE 1))
    BY <1>4, <2>1 DEF Retry, TypeOK
  <2>3. promised'[c] = IF reply[c].wait > 0 THEN reply[c].wait ELSE 1
    BY <2>1, <2>2 DEF Later
  <2>4. wake'[c] \in Nat /\ wake'[c] > 0 /\ wake'[c] >= reply[c].wait
    BY <1>4, BackoffSuffices DEF Retry, TypeOK
  <2>5. pc'[c] = "retrying"
    BY <1>4 DEF Retry, Goto, TypeOK
  <2>6. QED BY <2>1, <2>3, <2>4, <2>5
<1>5. CASE \E r \in Replies : Respond(c, r)
  BY <1>5 DEF Respond, Goto, TypeOK, PauseInv, history
<1>6. CASE ~Enter(c) /\ ~Wake(c) /\ ~Send(c) /\ ~Retry(c) /\ ~(\E r \in Replies : Respond(c, r))
  <2>1. pc'[c] \notin {"send", "inflight", "responded", "waiting", "retrying"}
    BY <1>6 DEF Step, Acquire, Leave, SleepCanceled, GiveUp, GiveUpBody, Finish, ReleaseSlot,
       EndQuery, PauseAll, Goto, TypeOK
  <2>2. QED BY <2>1
<1>7. QED BY <1>1, <1>2, <1>3, <1>4, <1>5, <1>6 DEF Step

LEMMA PausesKept ==
  ASSUME TypeOK, PauseInv, NEW c \in Callers, Step(c)
  PROVE  PauseInv'
<1>1. asked' = resume'
  BY DEF Step, Acquire, Leave, Enter, Wake, SleepCanceled, Send, Respond, GiveUp, GiveUpBody,
     Retry, Finish, ReleaseSlot, EndQuery, PauseAll, RecordPause, history, PauseInv
<1>2. ASSUME NEW d \in Callers
      PROVE  /\ pc'[d] \in {"send", "inflight", "responded"} => promised'[d] = 0
             /\ pc'[d] \in {"waiting", "retrying"} => promised'[d] <= wake'[d]
  <2>1. CASE d = c
    BY <2>1, OwnPause
  <2>2. CASE d # c
    BY <2>2, OwnStep DEF PauseInv
  <2>3. QED BY <2>1, <2>2
<1>3. QED BY <1>1, <1>2 DEF PauseInv

-----------------------------------------------------------------------------
(* Responses. One goroutine's part of BodyInv.                             *)
BodyOf(d) ==
  /\ unread[d] <= 1
  /\ pc[d] \notin {"responded", "returned"} => unread[d] = 0
  /\ pc[d] = "responded" /\ reply[d].kind \in Responses => unread[d] = 1
  /\ pc[d] = "returned" /\ reply[d].kind \in Responses =>
       unread[d] = 1 \/ (request[d] = "stream" /\ Retryable(d))

LEMMA BodyParts == BodyInv <=> \A d \in Callers : BodyOf(d)
BY DEF BodyInv, BodyOf, ResponsesIntact

LEMMA OwnBody ==
  ASSUME TypeOK, NEW c \in Callers, BodyOf(c), Step(c), UNCHANGED request
  PROVE  BodyOf(c)'
<1> USE DEF BodyOf, Goto, TypeOK
<1>1. CASE \E r \in Replies : Respond(c, r)
  BY <1>1 DEF Respond, Replies
<1>2. CASE GiveUp(c)
  BY <1>2 DEF GiveUp, call, Retryable
<1>3. CASE GiveUpBody(c)
  BY <1>3 DEF GiveUpBody, call, Retryable
<1>4. CASE Retry(c)
  BY <1>4 DEF Retry
<1>5. CASE SleepCanceled(c)
  <2>1. reply'[c].kind = "canceled" /\ unread' = unread
    BY <1>5 DEF SleepCanceled, Reply
  <2>2. unread[c] = 0 /\ pc'[c] # "responded"
    BY <1>5 DEF SleepCanceled, Sleeping
  <2>3. QED BY <2>1, <2>2 DEF Responses, Final
<1>6. CASE Finish(c) \/ ReleaseSlot(c)
  BY <1>6 DEF Finish, ReleaseSlot
<1>7. CASE Acquire(c) \/ Leave(c) \/ Enter(c) \/ Wake(c) \/ Send(c) \/ EndQuery(c)
           \/ \E w \in Waits : PauseAll(c, w)
  <2>1. pc[c] \notin {"responded", "returned"} /\ pc'[c] \notin {"responded", "returned"}
    BY <1>7 DEF Acquire, Leave, Enter, Wake, Send, EndQuery, PauseAll, Sleeping
  <2>2. unread' = unread
    BY <1>7 DEF Acquire, Leave, Enter, Wake, Send, EndQuery, PauseAll
  <2>3. QED BY <2>1, <2>2
<1>8. QED BY <1>1, <1>2, <1>3, <1>4, <1>5, <1>6, <1>7 DEF Step

LEMMA BodiesKept ==
  ASSUME TypeOK, BodyInv, NEW c \in Callers, Step(c), UNCHANGED request
  PROVE  BodyInv'
<1>1. ASSUME NEW d \in Callers PROVE BodyOf(d)'
  <2>1. BodyOf(d)
    BY BodyParts
  <2>2. CASE d = c
    BY <2>1, <2>2, OwnBody
  <2>3. CASE d # c
    BY <2>1, <2>3, OwnStep DEF BodyOf, Retryable
  <2>4. QED BY <2>2, <2>3
<1>2. (\A d \in Callers : BodyOf(d))'
  BY <1>1
<1>3. QED BY <1>2, BodyParts, PTL

-----------------------------------------------------------------------------
(* The steps of nobody in particular, and the induction.                   *)

LEMMA InitInv == Init => Inv
<1> SUFFICES ASSUME Init PROVE Inv
  OBVIOUS
<1>1. TypeOK
  <2>2. pc \in [Callers -> Stages]
    BY DEF Init, Stages
  <2>3. reply \in [Callers -> Replies]
    BY CanceledTyped DEF Init
  <2>4. attempt \in [Callers -> 0 .. MaxRetries] /\ faults \in 0 .. MaxFaults
        /\ slots \in 0 .. Slots
    BY Numbers DEF Init
  <2>5. QED BY <2>2, <2>3, <2>4 DEF Init, TypeOK
<1>2. SlotInv
  <2>1. \A c \in Queries : pc[c] = "slot"
    BY CallersAssumption DEF Init
  <2>2. Holders = {}
    BY <2>1 DEF Holders, HoldingSlot
  <2>3. QED BY <2>2, FS_EmptySet DEF Init, SlotInv
<1>3. PauseInv
  BY DEF Init, PauseInv
<1>4. BodyInv
  BY DEF Init, BodyInv, ResponsesIntact
<1>5. QED BY <1>1, <1>2, <1>3, <1>4 DEF Inv

LEMMA TickKept ==
  ASSUME Inv, Tick, UNCHANGED request
  PROVE  Inv'
<1> USE DEF Inv
<1>1. TypeOK'
  <2>1. Nearer(resume) \in Nat /\ Nearer(asked) \in Nat
    BY NearerTogether DEF TypeOK
  <2>2. wake' \in [Callers -> Nat] /\ promised' \in [Callers -> Nat]
    BY NearerTogether DEF Tick, TypeOK
  <2>3. QED BY <2>1, <2>2 DEF Tick, TypeOK
<1>2. SlotInv'
  BY DEF Tick, SlotInv, Holders
<1>3. PauseInv'
  <2>1. asked' = resume'
    BY DEF Tick, PauseInv
  <2>2. ASSUME NEW c \in Callers
        PROVE  /\ pc'[c] \in {"send", "inflight", "responded"} => promised'[c] = 0
               /\ pc'[c] \in {"waiting", "retrying"} => promised'[c] <= wake'[c]
    <3>1. pc' = pc /\ wake'[c] = Nearer(wake[c]) /\ promised'[c] = Nearer(promised[c])
      BY DEF Tick
    <3>2. wake[c] \in Nat /\ promised[c] \in Nat
      BY DEF TypeOK
    <3>3. /\ pc[c] \in {"send", "inflight", "responded"} => promised[c] = 0
          /\ pc[c] \in {"waiting", "retrying"} => promised[c] <= wake[c]
      BY DEF PauseInv
    <3>4. Nearer(0) = 0
      BY DEF Nearer
    <3>5. QED BY <3>1, <3>2, <3>3, <3>4, NearerTogether
  <2>3. QED BY <2>1, <2>2 DEF PauseInv
<1>4. BodyInv'
  BY DEF Tick, BodyInv, ResponsesIntact, Retryable
<1>5. QED BY <1>1, <1>2, <1>3, <1>4

LEMMA NextKept == Inv /\ [Next]_vars => Inv'
<1> SUFFICES ASSUME Inv, [Next]_vars PROVE Inv'
  OBVIOUS
<1>1. CASE Tick /\ UNCHANGED request
  BY <1>1, TickKept
<1>2. CASE Cancel /\ UNCHANGED request
  <2> USE <1>2 DEF Cancel, call, history
  <2>1. TypeOK'
    BY DEF Inv, TypeOK
  <2>2. SlotInv' /\ PauseInv'
    BY DEF Inv, SlotInv, Holders, PauseInv
  <2>3. BodyInv'
    BY DEF Inv, BodyInv, ResponsesIntact, Retryable
  <2>4. QED BY <2>1, <2>2, <2>3 DEF Inv
<1>3. ASSUME NEW c \in Callers, Step(c), UNCHANGED request
      PROVE  Inv'
  BY <1>3, TypesKept, SlotsKept, PausesKept, BodiesKept DEF Inv
<1>4. CASE UNCHANGED vars
  <2> USE <1>4 DEF vars, call, history
  <2>1. TypeOK'
    BY DEF Inv, TypeOK
  <2>2. SlotInv' /\ PauseInv'
    BY DEF Inv, SlotInv, Holders, PauseInv
  <2>3. BodyInv'
    BY DEF Inv, BodyInv, ResponsesIntact, Retryable
  <2>4. QED BY <2>1, <2>2, <2>3 DEF Inv
<1>5. QED BY <1>1, <1>2, <1>3, <1>4 DEF Next, Finished

THEOREM InvHolds == Spec => []Inv
<1>1. Init => Inv
  BY InitInv
<1>2. Inv /\ [Next]_vars => Inv'
  BY NextKept
<1>3. QED BY <1>1, <1>2, PTL DEF Spec

(* The state of the transport and of gqlQuery keeps its types: no counter  *)
(* runs past its limit, and gqlSem never holds a negative number of tokens *)
(* or more than its capacity.                                              *)
THEOREM TypeCorrect == Spec => []TypeOK
BY InvHolds, PTL DEF Inv

(* gqlQuery gives its slot back "regardless of outcome": at any moment the *)
(* tokens in gqlSem are as many as the queries between taking one and      *)
(* giving it back, so none is lost on an error, a retry or a cancellation, *)
(* and when every call is over the semaphore is empty.                     *)
SlotsAccounted ==
  /\ slots = Cardinality(Holders)
  /\ (\A c \in Callers : pc[c] = "done") => slots = 0

THEOREM SlotsReturned == Spec => []SlotsAccounted
<1>1. Inv => SlotsAccounted
  <2> SUFFICES ASSUME Inv PROVE SlotsAccounted
    OBVIOUS
  <2>1. slots = Cardinality(Holders)
    BY DEF Inv, SlotInv
  <2>2. ASSUME \A c \in Callers : pc[c] = "done" PROVE slots = 0
    <3>1. Holders = {}
      BY <2>2, CallersAssumption DEF Holders, HoldingSlot
    <3>2. QED BY <2>1, <3>1, FS_EmptySet
  <2>3. QED BY <2>1, <2>2 DEF SlotsAccounted
<1>2. QED BY <1>1, InvHolds, PTL

(* The response a caller gets is the last one and unread, and none that    *)
(* was given up keeps its connection.                                      *)
THEOREM BodiesIntact == Spec => []ResponsesIntact
<1>1. Inv => ResponsesIntact
  BY DEF Inv, BodyInv
<1>2. QED BY <1>1, InvHolds, PTL

(* No request is sent before the pause its goroutine has to keep is over.  *)
THEOREM PausesKeptByAll == Spec => PausesHonoured
<1>1. Inv /\ [Next]_vars =>
        [\A c \in Callers : pc[c] = "send" /\ pc'[c] = "inflight" => promised[c] = 0]_vars
  BY DEF Inv, PauseInv
<1>2. QED BY <1>1, InvHolds, PTL DEF Spec, PausesHonoured
=============================================================================
