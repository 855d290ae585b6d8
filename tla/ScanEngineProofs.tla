-------------------------- MODULE ScanEngineProofs --------------------------
(***************************************************************************)
(* Proofs about ScanEngine, for every set of scans, callers and yields,    *)
(* every number of workers, every offer and every nesting of handlers.     *)
(***************************************************************************)
EXTENDS ScanEngine, FiniteSetTheorems, SequenceTheorems, TLAPS

(* Producer and consumer start together, a handler call is for a finding   *)
(* that is still to be handled, and the producer has no report of its own  *)
(* before the workers are done.                                            *)
ControlInv ==
  \A s \in Scans :
    /\ con[s] = "idle" <=> src[s] = "idle"
    /\ con[s] = "calling" => left[s] > 0
    /\ src[s] \in {"idle", "fragments", "waiting"} => pc[s][SourceEnd] = "ready"

(* The first layer: types and slots support each other, since a token is   *)
(* taken from resultSlots only where one is known to be there.             *)
SlotInv == TypeOK /\ SlotsAccounted /\ ControlInv

-----------------------------------------------------------------------------
(* Facts about sequences and about Reserved.                               *)

LEMMA RemoveAtProperties ==
  ASSUME NEW S, NEW q \in Seq(S), NEW i \in 1 .. Len(q)
  PROVE  /\ RemoveAt(q, i) \in Seq(S)
         /\ Len(RemoveAt(q, i)) = Len(q) - 1
         /\ \A j \in 1 .. Len(q) - 1 :
              RemoveAt(q, i)[j] = IF j < i THEN q[j] ELSE q[j + 1]
<1> DEFINE a == SubSeq(q, 1, i - 1)
           b == SubSeq(q, i + 1, Len(q))
<1>1. Len(q) \in Nat /\ \A j \in 1 .. Len(q) : q[j] \in S
  BY LenProperties, ElementOfSeq
<1>2. /\ a \in Seq(S) /\ Len(a) = i - 1
      /\ \A j \in 1 .. i - 1 : a[j] = q[j]
  <2>1. \A j \in 1 .. i - 1 : q[j] \in S
    BY <1>1
  <2>2. QED BY <1>1, <2>1, SubSeqProperties
<1>3. /\ b \in Seq(S) /\ Len(b) = Len(q) - i
      /\ \A j \in 1 .. Len(q) - i : b[j] = q[i + j]
  <2>1. \A j \in i + 1 .. Len(q) : q[j] \in S
    BY <1>1
  <2>2. /\ b \in Seq(S)
        /\ Len(b) = IF i + 1 <= Len(q) THEN Len(q) - (i + 1) + 1 ELSE 0
        /\ \A j \in 1 .. Len(q) - (i + 1) + 1 : b[j] = q[i + 1 + j - 1]
    BY <1>1, <2>1, SubSeqProperties
  <2>3. QED BY <1>1, <2>2
<1>4. /\ a \o b \in Seq(S) /\ Len(a \o b) = Len(a) + Len(b)
      /\ \A j \in 1 .. Len(a) + Len(b) :
           (a \o b)[j] = IF j <= Len(a) THEN a[j] ELSE b[j - Len(a)]
  BY <1>2, <1>3, ConcatProperties
<1>5. RemoveAt(q, i) = a \o b
  BY DEF RemoveAt
<1> HIDE DEF a, b
<1>6. Len(a \o b) = Len(q) - 1 /\ Len(a) + Len(b) = Len(q) - 1
  BY <1>1, <1>2, <1>3, <1>4
<1>7. ASSUME NEW j \in 1 .. Len(q) - 1
      PROVE  (a \o b)[j] = IF j < i THEN q[j] ELSE q[j + 1]
  <2>1. (a \o b)[j] = IF j <= i - 1 THEN a[j] ELSE b[j - (i - 1)]
    BY <1>2, <1>4, <1>6
  <2>2. CASE j < i
    BY <1>1, <1>2, <2>1, <2>2
  <2>3. CASE ~(j < i)
    <3>1. j - (i - 1) \in 1 .. Len(q) - i /\ i + (j - (i - 1)) = j + 1
      BY <1>1, <2>3
    <3>2. QED BY <1>1, <1>3, <2>1, <2>3, <3>1
  <2>4. QED BY <2>2, <2>3
<1>8. QED BY <1>4, <1>5, <1>6, <1>7

(* Who may hold a slot at which program point.                             *)
Holding == {"reserved", "acquiring", "detecting", "publishing"}

LEMMA ReservedFinite ==
  ASSUME NEW s \in Scans
  PROVE  /\ IsFiniteSet(Parties)
         /\ IsFiniteSet(Reserved(s))
         /\ Cardinality(Reserved(s)) \in Nat
<1>1. IsFiniteSet(Parties)
  BY CallsAssumption, FS_AddElement DEF Parties
<1>2. Reserved(s) \subseteq Parties
  BY DEF Reserved
<1>3. QED BY <1>1, <1>2, FS_Subset, FS_CardinalityType

(* A party that moves to a program point where a slot is held, from one    *)
(* where none is, adds one reservation to its own scan; and conversely.    *)
LEMMA ReservedGrows ==
  ASSUME TypeOK, NEW s \in Scans, NEW p \in Parties, NEW at \in Holding,
         pc[s][p] \notin Holding, Goto(s, p, at)
  PROVE  /\ Cardinality(Reserved(s)') = Cardinality(Reserved(s)) + 1
         /\ \A t \in Scans : t # s => Reserved(t)' = Reserved(t)
<1>1. Reserved(s)' = Reserved(s) \cup {p} /\ p \notin Reserved(s)
  BY DEF TypeOK, Goto, Reserved, Holding
<1>2. \A t \in Scans : t # s => Reserved(t)' = Reserved(t)
  BY DEF TypeOK, Goto, Reserved
<1>3. QED BY <1>1, <1>2, ReservedFinite, FS_AddElement

LEMMA ReservedShrinks ==
  ASSUME TypeOK, NEW s \in Scans, NEW p \in Parties, NEW at,
         at \notin Holding, pc[s][p] \in Holding, Goto(s, p, at)
  PROVE  /\ Cardinality(Reserved(s)') = Cardinality(Reserved(s)) - 1
         /\ Cardinality(Reserved(s)) > 0
         /\ \A t \in Scans : t # s => Reserved(t)' = Reserved(t)
<1>1. Reserved(s)' = Reserved(s) \ {p} /\ p \in Reserved(s)
  BY DEF TypeOK, Goto, Reserved, Holding
<1>2. \A t \in Scans : t # s => Reserved(t)' = Reserved(t)
  BY DEF TypeOK, Goto, Reserved
<1>3. /\ Cardinality(Reserved(s) \ {p}) = Cardinality(Reserved(s)) - 1
      /\ Cardinality(Reserved(s) \ {p}) \in Nat
  BY <1>1, ReservedFinite, FS_RemoveElement, FS_CardinalityType
<1>4. QED BY <1>1, <1>2, <1>3, ReservedFinite

LEMMA ReservedKept ==
  ASSUME TypeOK, NEW s \in Scans, NEW p \in Parties, NEW at,
         at \in Holding <=> pc[s][p] \in Holding, Goto(s, p, at)
  PROVE  \A t \in Scans : Reserved(t)' = Reserved(t)
BY DEF TypeOK, Goto, Reserved, Holding

LEMMA ReservedUnchanged ==
  ASSUME UNCHANGED pc
  PROVE  \A t \in Scans : Reserved(t)' = Reserved(t)
BY DEF Reserved

(* The semaphore's operations keep the types of its two variables.         *)
LEMMA SemaphoreTyped ==
  ASSUME held \subseteq Tasks, waiters \in Seq(Tasks), NEW t \in Tasks,
         Acquire(t) \/ Release(t) \/ Withdraw(t)
  PROVE  held' \subseteq Tasks /\ waiters' \in Seq(Tasks)
<1>1. CASE Acquire(t)
  BY <1>1, AppendProperties DEF Acquire
<1>2. CASE Release(t)
  BY <1>2, HeadTailProperties DEF Release
<1>3. CASE Withdraw(t)
  BY <1>3, RemoveAtProperties DEF Withdraw
<1>4. QED BY <1>1, <1>2, <1>3

(* The account of scan s changes by d tokens on both sides, the accounts   *)
(* of the other scans not at all.                                          *)
Account(s) == Cardinality(Reserved(s)) + Len(queue[s]) + Popped(s)

LEMMA AccountMoves ==
  ASSUME SlotInv, NEW s \in Scans, NEW d \in {-1, 0, 1},
         Account(s)' = Account(s) + d,
         slots'[s] = slots[s] + d, slots[s] + d <= Workers,
         \A t \in Scans : t # s => slots'[t] = slots[t] /\ Account(t)' = Account(t)
  PROVE  SlotsAccounted'
<1>1. SUFFICES ASSUME NEW t \in Scans
               PROVE  slots'[t] = Account(t)' /\ slots'[t] <= Workers
  BY DEF SlotsAccounted, Account
<1>2. slots[t] = Account(t) /\ slots[t] <= Workers /\ slots[t] \in Nat
  BY DEF SlotInv, TypeOK, SlotsAccounted, Account
<1>3. CASE t = s
  BY <1>2, <1>3
<1>4. CASE t # s
  BY <1>2, <1>4
<1>5. QED BY <1>3, <1>4

-----------------------------------------------------------------------------
(* Layer one: every action keeps SlotInv.                                  *)

LEMMA SlotInvYield ==
  ASSUME SlotInv, NEW s \in Scans, NEW y \in Yields, YieldStep(s, y)
  PROVE  SlotInv'
<1> USE DEF SlotInv
<1> y \in Parties /\ y # SourceEnd /\ <<s, y>> \in Tasks
  BY CallsAssumption DEF Parties, Tasks
<1>1. CASE BeginYield(s, y)
  <2>1. TypeOK'
    BY <1>1 DEF BeginYield, Goto, TypeOK, source, consume, sem
  <2>2. \A t \in Scans : Reserved(t)' = Reserved(t)
    BY <1>1, ReservedKept DEF BeginYield, Holding
  <2>3. QED
    BY <1>1, <2>1, <2>2 DEF BeginYield, SlotsAccounted, Popped, ControlInv, consume, source, Goto, TypeOK
<1>2. CASE EnterAcquire(s, y)
  <2>1. held' \subseteq Tasks /\ waiters' \in Seq(Tasks)
    BY <1>2, SemaphoreTyped DEF EnterAcquire, TypeOK
  <2>2. TypeOK'
    BY <1>2, <2>1 DEF EnterAcquire, Goto, TypeOK, source, consume
  <2>3. \A t \in Scans : Reserved(t)' = Reserved(t)
    BY <1>2, ReservedKept DEF EnterAcquire, Holding
  <2>4. QED
    BY <1>2, <2>2, <2>3 DEF EnterAcquire, SlotsAccounted, Popped, ControlInv, consume, source, Goto, TypeOK
<1>3. CASE Granted(s, y)
  <2>1. TypeOK'
    BY <1>3 DEF Granted, Goto, TypeOK, source, consume, sem
  <2>2. \A t \in Scans : Reserved(t)' = Reserved(t)
    BY <1>3, ReservedKept DEF Granted, Holding
  <2>3. QED
    BY <1>3, <2>1, <2>2 DEF Granted, SlotsAccounted, Popped, ControlInv, consume, source, Goto, TypeOK
<1>4. CASE AcquireFails(s, y)
  <2>1. held' \subseteq Tasks /\ waiters' \in Seq(Tasks)
    BY <1>4, SemaphoreTyped DEF AcquireFails, TypeOK, sem
  <2>2. /\ Cardinality(Reserved(s)') = Cardinality(Reserved(s)) - 1
        /\ Cardinality(Reserved(s)) > 0
        /\ \A t \in Scans : t # s => Reserved(t)' = Reserved(t)
    BY <1>4, ReservedShrinks DEF AcquireFails, Holding
  <2>3. slots[s] - 1 \in Nat
    <3>1. Len(queue[s]) \in Nat /\ Popped(s) \in {0, 1}
      BY LenProperties DEF TypeOK, Popped
    <3>2. QED BY <2>2, <3>1, ReservedFinite DEF SlotsAccounted, TypeOK
  <2>4. TypeOK'
    BY <1>4, <2>1, <2>3 DEF AcquireFails, Goto, TypeOK, source, consume
  <2>5. SlotsAccounted'
    <3>1. slots'[s] = slots[s] + (-1) /\ slots[s] + (-1) <= Workers
      BY <1>4, WorkersAssumption DEF AcquireFails, SlotsAccounted, TypeOK
    <3>2. Account(s)' = Account(s) + (-1)
      BY <1>4, <2>2, ReservedFinite, LenProperties
      DEF AcquireFails, Account, Popped, consume, TypeOK
    <3>3. \A t \in Scans : t # s => slots'[t] = slots[t] /\ Account(t)' = Account(t)
      BY <1>4, <2>2 DEF AcquireFails, Account, Popped, consume, TypeOK
    <3>4. QED BY <3>1, <3>2, <3>3, AccountMoves
  <2>6. QED
    BY <1>4, <2>4, <2>5 DEF AcquireFails, ControlInv, consume, source, Goto, TypeOK
<1>5. CASE Detect(s, y)
  <2>1. held' \subseteq Tasks /\ waiters' \in Seq(Tasks)
    BY <1>5, SemaphoreTyped DEF Detect, TypeOK
  <2>2. result' \in [Scans -> [Parties -> Results]]
    BY <1>5 DEF Detect, TypeOK, Results, Item
  <2>3. TypeOK'
    BY <1>5, <2>1, <2>2 DEF Detect, Goto, TypeOK, source, consume
  <2>4. \A t \in Scans : Reserved(t)' = Reserved(t)
    BY <1>5, ReservedKept DEF Detect, Holding
  <2>5. QED
    BY <1>5, <2>3, <2>4 DEF Detect, SlotsAccounted, Popped, ControlInv, consume, source, Goto, TypeOK
<1>6. QED BY <1>1, <1>2, <1>3, <1>4, <1>5 DEF YieldStep

LEMMA SlotInvParty ==
  ASSUME SlotInv, NEW s \in Scans, NEW p \in Parties, PartyStep(s, p)
  PROVE  SlotInv'
<1> USE DEF SlotInv
<1>1. CASE ReserveSlot(s, p)
  <2>1. /\ Cardinality(Reserved(s)') = Cardinality(Reserved(s)) + 1
        /\ \A t \in Scans : t # s => Reserved(t)' = Reserved(t)
    BY <1>1, ReservedGrows DEF ReserveSlot, Holding
  <2>2. TypeOK'
    <3> DEFINE at == IF SendsError(s, p) THEN "publishing" ELSE "reserved"
               out == IF SendsError(s, p) THEN [found |-> 0, err |-> "source"]
                                          ELSE result[s][p]
    <3>1. at \in {"publishing", "reserved"} /\ out \in Results
      BY DEF TypeOK, Results
    <3>2. pc' = [pc EXCEPT ![s][p] = at] /\ result' = [result EXCEPT ![s][p] = out]
      BY <1>1 DEF ReserveSlot, Goto
    <3> HIDE DEF at, out
    <3>3. QED
      BY <1>1, <3>1, <3>2 DEF ReserveSlot, TypeOK, source, consume, sem
  <2>3. SlotsAccounted'
    <3>1. slots[s] + 1 <= Workers /\ slots'[s] = slots[s] + 1
      BY <1>1, WorkersAssumption DEF ReserveSlot, TypeOK
    <3>2. Account(s)' = Account(s) + 1
      BY <1>1, <2>1, ReservedFinite, LenProperties
      DEF ReserveSlot, Account, Popped, consume, TypeOK
    <3>3. \A t \in Scans : t # s => slots'[t] = slots[t] /\ Account(t)' = Account(t)
      BY <1>1, <2>1 DEF ReserveSlot, Account, Popped, consume, TypeOK
    <3>4. QED BY <3>1, <3>2, <3>3, AccountMoves
  <2>4. QED
    BY <1>1, <2>2, <2>3 DEF ReserveSlot, ControlInv, consume, source, Goto, TypeOK
<1>2. CASE ReserveStopped(s, p)
  <2>1. TypeOK'
    BY <1>2 DEF ReserveStopped, Goto, TypeOK, source, consume, sem
  <2>2. \A t \in Scans : Reserved(t)' = Reserved(t)
    BY <1>2, ReservedKept DEF ReserveStopped, Holding
  <2>3. QED
    BY <1>2, <2>1, <2>2 DEF ReserveStopped, SlotsAccounted, Popped, ControlInv, consume, source, Goto, TypeOK
<1>3. CASE Publish(s, p)
  <2>1. /\ Cardinality(Reserved(s)') = Cardinality(Reserved(s)) - 1
        /\ \A t \in Scans : t # s => Reserved(t)' = Reserved(t)
    BY <1>3, ReservedShrinks DEF Publish, Holding
  <2>2. queue[s] \in Seq(Parties)
    BY DEF TypeOK
  <2>3. Append(queue[s], p) \in Seq(Parties) /\ Len(Append(queue[s], p)) = Len(queue[s]) + 1
    BY <2>2, AppendProperties
  <2>4. TypeOK'
    BY <1>3, <2>3 DEF Publish, Goto, TypeOK, source, consume, sem
  <2>5. SlotsAccounted'
    <3>1. slots[s] + 0 <= Workers /\ slots'[s] = slots[s] + 0
      BY <1>3 DEF Publish, SlotsAccounted, TypeOK
    <3>2. Account(s)' = Account(s) + 0
      BY <1>3, <2>1, <2>2, <2>3, ReservedFinite, LenProperties
      DEF Publish, Account, Popped, consume, TypeOK
    <3>3. \A t \in Scans : t # s => slots'[t] = slots[t] /\ Account(t)' = Account(t)
      BY <1>3, <2>1 DEF Publish, Account, Popped, consume, TypeOK
    <3>4. QED BY <3>1, <3>2, <3>3, AccountMoves
  <2>6. QED
    BY <1>3, <2>4, <2>5 DEF Publish, ControlInv, consume, source, Goto, TypeOK
<1>4. QED BY <1>1, <1>2, <1>3 DEF PartyStep

LEMMA SlotInvProducer ==
  ASSUME SlotInv, NEW s \in Scans, ProducerStep(s)
  PROVE  SlotInv'
<1> USE DEF SlotInv
<1> SourceEnd \in Parties
  BY DEF Parties
<1>1. CASE SourceReturn(s)
  <2>1. TypeOK'
    BY <1>1 DEF SourceReturn, TypeOK, calls, sem, consume
  <2>2. \A t \in Scans : Reserved(t)' = Reserved(t)
    BY <1>1, ReservedUnchanged DEF SourceReturn, calls
  <2>3. QED
    BY <1>1, <2>1, <2>2
    DEF SourceReturn, SlotsAccounted, Popped, ControlInv, calls, consume
<1>2. CASE WorkersDone(s)
  <2>1. /\ UNCHANGED <<offer, result, queue, slots, held, waiters, srcErr, con, cur,
                       left, handled, scanErr, canceled, ctxDone, call>>
        /\ src[s] = "waiting"
    BY <1>2 DEF WorkersDone, consume, sem
  <2>2. CASE UNCHANGED pc /\ src' = [src EXCEPT ![s] = "closed"]
    <3>1. TypeOK'
      BY <2>1, <2>2 DEF TypeOK
    <3>2. \A t \in Scans : Reserved(t)' = Reserved(t)
      BY <2>2, ReservedUnchanged
    <3>3. QED
      BY <2>1, <2>2, <3>1, <3>2 DEF SlotsAccounted, Popped, ControlInv, TypeOK
  <2>3. CASE Goto(s, SourceEnd, "reserving") /\ src' = [src EXCEPT ![s] = "reporting"]
    <3>1. TypeOK'
      BY <2>1, <2>3 DEF Goto, TypeOK
    <3>2. \A t \in Scans : Reserved(t)' = Reserved(t)
      BY <2>1, <2>3, ReservedKept DEF ControlInv, Holding
    <3>3. QED
      BY <2>1, <2>3, <3>1, <3>2 DEF Goto, SlotsAccounted, Popped, ControlInv, TypeOK
  <2>4. QED BY <1>2, <2>2, <2>3 DEF WorkersDone
<1>3. CASE CloseResults(s)
  <2>1. TypeOK'
    BY <1>3 DEF CloseResults, TypeOK, calls, sem, consume
  <2>2. \A t \in Scans : Reserved(t)' = Reserved(t)
    BY <1>3, ReservedUnchanged DEF CloseResults, calls
  <2>3. QED
    BY <1>3, <2>1, <2>2
    DEF CloseResults, SlotsAccounted, Popped, ControlInv, calls, consume
<1>4. QED BY <1>1, <1>2, <1>3 DEF ProducerStep

LEMMA SlotInvConsumer ==
  ASSUME SlotInv, NEW s \in Scans, ConsumerStep(s)
  PROVE  SlotInv'
<1> USE DEF SlotInv
<1>1. \A t \in Scans : Reserved(t)' = Reserved(t)
  <2>1. UNCHANGED pc
    BY DEF ConsumerStep, Receive, ReleaseSlot, CallHandler, HandlerOK, HandlerFails,
           StopBetweenFindings, EndResult, ResultsExhausted, Drain, DrainRelease,
           Return, calls
  <2>2. QED BY <2>1, ReservedUnchanged
(* Taking a result off the channel moves its token from queued to popped.  *)
<1>2. ASSUME queue[s] # <<>>, con[s] \notin {"release", "drainRelease"},
             con[s] # "idle", queue' = [queue EXCEPT ![s] = Tail(@)],
             cur' = [cur EXCEPT ![s] = Head(queue[s])],
             NEW at \in {"release", "drainRelease"}, con' = [con EXCEPT ![s] = at],
             UNCHANGED <<offer, pc, result, slots, sem, source, left, handled, scanErr,
                         canceled, ctxDone, call>>
      PROVE  SlotInv'
  <2>1. queue[s] \in Seq(Parties)
    BY DEF TypeOK
  <2>2. /\ Head(queue[s]) \in Parties /\ Tail(queue[s]) \in Seq(Parties)
        /\ Len(Tail(queue[s])) = Len(queue[s]) - 1 /\ Len(queue[s]) \in Nat
    BY <1>2, <2>1, HeadTailProperties, LenProperties
  <2>3. TypeOK'
    BY <1>2, <2>2 DEF TypeOK, sem, source
  <2>4. Account(s)' = Account(s) + 0
    BY <1>1, <1>2, <2>2, ReservedFinite DEF Account, Popped, TypeOK
  <2>5. \A t \in Scans : t # s => slots'[t] = slots[t] /\ Account(t)' = Account(t)
    BY <1>1, <1>2 DEF Account, Popped, TypeOK
  <2>6. slots'[s] = slots[s] + 0 /\ slots[s] + 0 <= Workers
    BY <1>2 DEF TypeOK, SlotsAccounted
  <2>7. SlotsAccounted'
    BY <2>4, <2>5, <2>6, AccountMoves
  <2>8. con'[s] = at /\ \A t \in Scans : t # s => con'[t] = con[t]
    BY <1>2 DEF TypeOK
  <2>9. ControlInv'
    BY <1>2, <2>8 DEF ControlInv, source
  <2>10. QED BY <2>3, <2>7, <2>9
(* Returning the token of the result that was taken.                       *)
<1>3. ASSUME slots[s] > 0, con[s] \in {"release", "drainRelease"},
             slots' = [slots EXCEPT ![s] = @ - 1],
             NEW at \in {"handle", "drain"}, con' = [con EXCEPT ![s] = at],
             left' \in [Scans -> Nat], \A t \in Scans : t # s => left'[t] = left[t],
             UNCHANGED <<offer, pc, result, queue, sem, source, cur, handled, scanErr,
                         canceled, ctxDone, call>>
      PROVE  SlotInv'
  <2>1. TypeOK'
    BY <1>3 DEF TypeOK, sem, source
  <2>2. Len(queue[s]) \in Nat
    BY LenProperties DEF TypeOK
  <2>3. Account(s)' = Account(s) + (-1)
    BY <1>1, <1>3, <2>2, ReservedFinite DEF Account, Popped, TypeOK
  <2>4. \A t \in Scans : t # s => slots'[t] = slots[t] /\ Account(t)' = Account(t)
    BY <1>1, <1>3 DEF Account, Popped, TypeOK
  <2>5. slots'[s] = slots[s] + (-1) /\ slots[s] + (-1) <= Workers
    BY <1>3, WorkersAssumption DEF TypeOK, SlotsAccounted
  <2>6. SlotsAccounted'
    BY <2>3, <2>4, <2>5, AccountMoves
  <2>7. con'[s] = at /\ \A t \in Scans : t # s => con'[t] = con[t]
    BY <1>3 DEF TypeOK
  <2>8. ControlInv'
    BY <1>3, <2>7 DEF ControlInv, source
  <2>9. QED BY <2>1, <2>6, <2>8
(* Steps of the consumer that move no token.                               *)
<1>4. ASSUME UNCHANGED <<queue, slots>>, TypeOK', UNCHANGED source,
             con[s] \notin {"idle", "release", "drainRelease"},
             NEW at \in {"receive", "handle", "calling", "drain", "done"},
             con' = [con EXCEPT ![s] = at],
             at = "calling" => left'[s] > 0,
             \A t \in Scans : t # s => left'[t] = left[t]
      PROVE  SlotInv'
  <2>0. con'[s] = at /\ \A t \in Scans : t # s => con'[t] = con[t]
    BY <1>4 DEF TypeOK
  <2>1. \A t \in Scans : Popped(t)' = Popped(t)
    BY <1>4, <2>0 DEF Popped
  <2>2. SlotsAccounted'
    BY <1>1, <1>4, <2>1 DEF SlotsAccounted
  <2>3. UNCHANGED pc
    BY DEF ConsumerStep, Receive, ReleaseSlot, CallHandler, HandlerOK, HandlerFails,
           StopBetweenFindings, EndResult, ResultsExhausted, Drain, DrainRelease,
           Return, calls
  <2>4. QED BY <1>4, <2>0, <2>2, <2>3 DEF ControlInv, source
<1>5. CASE Receive(s)
  BY <1>2, <1>5 DEF Receive
<1>6. CASE Drain(s)
  BY <1>2, <1>6 DEF Drain
<1>7. CASE ReleaseSlot(s)
  <2>1. left' \in [Scans -> Nat] /\ \A t \in Scans : t # s => left'[t] = left[t]
    BY <1>7 DEF ReleaseSlot, TypeOK, Results
  <2>2. QED BY <1>3, <1>7, <2>1 DEF ReleaseSlot
<1>8. CASE DrainRelease(s)
  BY <1>3, <1>8 DEF DrainRelease, TypeOK
<1>9. CASE CallHandler(s)
  <2>1. TypeOK'
    BY <1>9 DEF CallHandler, TypeOK, calls, sem, source
  <2>2. QED BY <1>4, <1>9, <2>1 DEF CallHandler, calls
<1>10. CASE HandlerOK(s)
  <2>1. left[s] - 1 \in Nat
    BY <1>10 DEF HandlerOK, ControlInv, TypeOK
  <2>2. TypeOK'
    BY <1>10, <2>1 DEF HandlerOK, TypeOK, calls, sem, source
  <2>3. \A t \in Scans : t # s => left'[t] = left[t]
    BY <1>10 DEF HandlerOK, TypeOK
  <2>4. QED BY <1>4, <1>10, <2>2, <2>3 DEF HandlerOK, calls
<1>11. CASE HandlerFails(s)
  <2>1. TypeOK'
    BY <1>11 DEF HandlerFails, Leave, TypeOK, calls, sem, source
  <2>2. QED BY <1>4, <1>11, <2>1 DEF HandlerFails, Leave, calls
<1>12. CASE StopBetweenFindings(s)
  <2>1. TypeOK'
    BY <1>12 DEF StopBetweenFindings, Leave, TypeOK, calls, sem, source
  <2>2. QED BY <1>4, <1>12, <2>1 DEF StopBetweenFindings, Leave, calls
<1>13. CASE EndResult(s)
  <2>1. result[s][cur[s]].err \in {"none", "source", "detect"}
    BY DEF TypeOK, Results
  <2>2. TypeOK'
    <3>1. /\ con' \in [Scans -> {"idle", "receive", "release", "handle", "calling",
                                 "drain", "drainRelease", "done"}]
          /\ canceled' \in [Scans -> BOOLEAN]
      BY <1>13 DEF EndResult, Leave, TypeOK
    <3>2. \A E \in SUBSET {"source", "detect", "handler", "ctx"} :
            [scanErr EXCEPT ![s] = @ \cup E]
              \in [Scans -> SUBSET {"source", "detect", "handler", "ctx"}]
      <4>1. scanErr \in [Scans -> SUBSET {"source", "detect", "handler", "ctx"}]
        BY DEF TypeOK
      <4> DEFINE Errs == {"source", "detect", "handler", "ctx"}
      <4> HIDE DEF Errs
      <4>2. scanErr \in [Scans -> SUBSET Errs]
        BY <4>1 DEF Errs
      <4>3. \A E \in SUBSET Errs : [scanErr EXCEPT ![s] = @ \cup E] \in [Scans -> SUBSET Errs]
        BY <4>2
      <4>4. QED BY <4>3 DEF Errs
    <3>3. scanErr' \in [Scans -> SUBSET {"source", "detect", "handler", "ctx"}]
      BY <1>13, <2>1, <3>2 DEF EndResult, Leave
    <3>4. QED BY <1>13, <3>1, <3>3 DEF EndResult, TypeOK, calls, sem, source
  <2>3. QED BY <1>4, <1>13, <2>2 DEF EndResult, Leave, calls
<1>14. CASE ResultsExhausted(s)
  <2>1. TypeOK'
    BY <1>14 DEF ResultsExhausted, Leave, TypeOK, calls, sem, source
  <2>2. QED BY <1>4, <1>14, <2>1 DEF ResultsExhausted, Leave, calls
<1>15. CASE Return(s)
  <2>1. TypeOK'
    BY <1>15 DEF Return, TypeOK, calls, sem, source
  <2>2. QED BY <1>4, <1>15, <2>1 DEF Return, calls
<1>16. QED
  BY <1>5, <1>6, <1>7, <1>8, <1>9, <1>10, <1>11, <1>12, <1>13, <1>14, <1>15
  DEF ConsumerStep

LEMMA SlotInvStep == SlotInv /\ [Next]_vars => SlotInv'
<1> SUFFICES ASSUME SlotInv, [Next]_vars PROVE SlotInv'
  OBVIOUS
<1> USE DEF SlotInv
<1>1. CASE UNCHANGED vars
  <2>1. \A t \in Scans : Reserved(t)' = Reserved(t)
    BY <1>1, ReservedUnchanged DEF vars, calls
  <2>2. QED
    BY <1>1, <2>1
    DEF vars, calls, sem, source, consume, TypeOK, SlotsAccounted, Popped, ControlInv
<1>2. ASSUME NEW s \in Scans, StartScan(s) PROVE SlotInv'
  <2>1. TypeOK'
    BY <1>2 DEF StartScan, TypeOK, calls, sem
  <2>2. \A t \in Scans : Reserved(t)' = Reserved(t)
    BY <1>2, ReservedUnchanged DEF StartScan, calls
  <2>3. SlotsAccounted'
    BY <1>2, <2>2 DEF StartScan, calls, SlotsAccounted, Popped, TypeOK
  <2>4. ControlInv'
    BY <1>2 DEF StartScan, calls, ControlInv, TypeOK
  <2>5. QED BY <2>1, <2>3, <2>4
<1>3. ASSUME NEW s \in Scans, CancelCaller(s) PROVE SlotInv'
  <2>1. TypeOK'
    BY <1>3 DEF CancelCaller, TypeOK, calls, sem, source, consume
  <2>2. \A t \in Scans : Reserved(t)' = Reserved(t)
    BY <1>3, ReservedUnchanged DEF CancelCaller, calls
  <2>3. QED
    BY <1>3, <2>1, <2>2
    DEF CancelCaller, calls, source, consume, SlotsAccounted, Popped, ControlInv
<1>4. ASSUME NEW c \in Callers, CallerStep(c) PROVE SlotInv'
  <2>1. held' \subseteq Tasks /\ waiters' \in Seq(Tasks)
    <3>1. c \in Tasks
      BY DEF Tasks
    <3>2. CASE StartCall(c)
      BY <3>1, <3>2, SemaphoreTyped DEF StartCall, TypeOK
    <3>3. CASE CallGranted(c)
      BY <3>3 DEF CallGranted, TypeOK, sem
    <3>4. CASE FinishCall(c)
      BY <3>1, <3>4, SemaphoreTyped DEF FinishCall, TypeOK
    <3>5. QED BY <1>4, <3>2, <3>3, <3>4 DEF CallerStep
  <2>2. /\ call' \in [Callers -> {"idle", "acquiring", "detecting", "done"}]
        /\ UNCHANGED <<offer, calls, source, consume, ctxDone>>
    BY <1>4 DEF CallerStep, StartCall, CallGranted, FinishCall, TypeOK
  <2>3. TypeOK'
    BY <2>1, <2>2 DEF TypeOK, calls, source, consume
  <2>4. \A t \in Scans : Reserved(t)' = Reserved(t)
    BY <2>2, ReservedUnchanged DEF calls
  <2>5. QED
    BY <2>2, <2>3, <2>4
    DEF calls, source, consume, SlotsAccounted, Popped, ControlInv
<1>5. QED
  BY <1>1, <1>2, <1>3, <1>4, SlotInvProducer, SlotInvConsumer, SlotInvYield, SlotInvParty
  DEF Next, Finished

(* Types, and the accounting of result slots, in every reachable state.    *)
LEMMA SlotInvAlways == Spec => []SlotInv
<1>1. Init => SlotInv
  <2> SUFFICES ASSUME Init PROVE SlotInv
    OBVIOUS
  <2>1. TypeOK
    BY OffersAssumption, EmptySeq
    DEF Init, TypeOK, Results, NoResult, Parties
  <2>2. \A s \in Scans : Cardinality(Reserved(s)) = 0
    <3>1. \A s \in Scans : Reserved(s) = {}
      BY DEF Init, Reserved
    <3>2. QED BY <3>1, FS_EmptySet
  <2>3. SlotsAccounted
    BY <2>2, WorkersAssumption DEF Init, SlotsAccounted, Popped
  <2>4. QED
    BY <2>1, <2>3 DEF Init, SlotInv, ControlInv, Parties
<1>2. QED BY <1>1, SlotInvStep, PTL DEF Spec

(* Type correctness of the scan engine.                                    *)
THEOREM TypeCorrect == Spec => []TypeOK
<1>1. SlotInv => TypeOK
  BY DEF SlotInv
<1>2. QED BY <1>1, SlotInvAlways, PTL

(* run never loses a result slot and never returns one twice, whatever the *)
(* number of workers, the source's concurrency and the moment of a cancel. *)
THEOREM SlotsNeverLost == Spec => []SlotsAccounted
<1>1. SlotInv => SlotsAccounted
  BY DEF SlotInv
<1>2. QED BY <1>1, SlotInvAlways, PTL

(* The reservation scheme works: no send on resultsCh and no receive from  *)
(* resultSlots ever blocks, so a worker never waits for a handler.         *)
LEMMA SendsNeverBlock == Spec => []NothingBlocks
<1>1. SlotInv => NothingBlocks
  <2> SUFFICES ASSUME SlotInv, NEW s \in Scans
               PROVE  /\ \A p \in Parties : pc[s][p] = "publishing" => Len(queue[s]) < Workers
                      /\ con[s] \in {"release", "drainRelease"} => slots[s] > 0
    BY DEF NothingBlocks
  <2>1. /\ slots[s] = Cardinality(Reserved(s)) + Len(queue[s]) + Popped(s)
        /\ slots[s] <= Workers /\ Workers \in Nat
        /\ Len(queue[s]) \in Nat /\ Cardinality(Reserved(s)) \in Nat
        /\ Popped(s) \in {0, 1}
    BY ReservedFinite, LenProperties, WorkersAssumption
    DEF SlotInv, SlotsAccounted, TypeOK, Popped
  <2>2. ASSUME NEW p \in Parties, pc[s][p] = "publishing"
        PROVE  Len(queue[s]) < Workers
    <3>1. p \in Reserved(s)
      BY <2>2 DEF Reserved
    <3>2. Cardinality(Reserved(s)) # 0
      BY <3>1, ReservedFinite, FS_EmptySet
    <3>3. QED BY <2>1, <3>2
  <2>3. con[s] \in {"release", "drainRelease"} => slots[s] > 0
    BY <2>1 DEF Popped
  <2>4. QED BY <2>2, <2>3
<1>2. QED BY <1>1, SlotInvAlways, PTL

-----------------------------------------------------------------------------
(* Layer two: the shared semaphore.                                        *)

(* How the steps of the model look to the semaphore: task t moves to       *)
(* another program point and no other task does.                           *)
StatusMoves(t, at) ==
  /\ Status(t)' = at
  /\ \A u \in Tasks : u # t => Status(u)' = Status(u)

LEMMA HeldFinite ==
  ASSUME TypeOK
  PROVE  IsFiniteSet(held) /\ Cardinality(held) \in Nat
<1>1. IsFiniteSet(Scans \X Yields)
  BY CallsAssumption, FS_Product
<1>2. IsFiniteSet(Tasks)
  BY <1>1, CallsAssumption, FS_Union DEF Tasks
<1>3. QED BY <1>2, FS_Subset, FS_CardinalityType DEF TypeOK

LEMMA AcquireSound ==
  ASSUME TypeOK, PermitsSound, NEW t \in Tasks,
         Status(t) \notin {"acquiring", "detecting"}, Acquire(t),
         StatusMoves(t, IF t \in held' THEN "detecting" ELSE "acquiring")
  PROVE  PermitsSound'
<1>1. t \notin held /\ \A i \in DOMAIN waiters : waiters[i] # t
  BY DEF PermitsSound, Range
<1>2. waiters \in Seq(Tasks) /\ held \subseteq Tasks
  BY DEF TypeOK
<1>3. CASE held' = held \cup {t} /\ UNCHANGED waiters
           /\ Cardinality(held) < Workers /\ waiters = <<>>
  <2>1. Cardinality(held') = Cardinality(held) + 1
    BY <1>1, <1>3, HeldFinite, FS_AddElement
  <2>2. Cardinality(held') <= Workers
    BY <1>3, <2>1, HeldFinite, WorkersAssumption
  <2>3. waiters' = <<>> /\ DOMAIN waiters' = {}
    BY <1>3
  <2>4. Status(t)' = "detecting"
    BY <1>3 DEF StatusMoves
  <2>5. QED BY <1>2, <1>3, <2>2, <2>3, <2>4 DEF PermitsSound, StatusMoves, Range
<1>4. CASE waiters' = Append(waiters, t) /\ UNCHANGED held
           /\ ~(Cardinality(held) < Workers /\ waiters = <<>>)
  <2>1. Status(t)' = "acquiring"
    BY <1>1, <1>4 DEF StatusMoves
  <2>2. /\ Len(waiters') = Len(waiters) + 1 /\ Len(waiters) \in Nat
        /\ \A i \in 1 .. Len(waiters) : waiters'[i] = waiters[i]
        /\ waiters'[Len(waiters) + 1] = t
        /\ DOMAIN waiters = 1 .. Len(waiters) /\ DOMAIN waiters' = 1 .. Len(waiters')
    BY <1>2, <1>4, AppendProperties, LenProperties
  <2>3. \A i \in DOMAIN waiters' :
          \/ i \in DOMAIN waiters /\ waiters'[i] = waiters[i]
          \/ i = Len(waiters) + 1 /\ waiters'[i] = t
    BY <2>2
  <2>4. \A i \in DOMAIN waiters : waiters[i] \in Tasks
    BY <1>2, <2>2, ElementOfSeq
  <2>5. Cardinality(held') = Workers
    BY <1>4, HeldFinite, WorkersAssumption DEF PermitsSound
  <2>6. \A u \in Range(waiters)' : u \notin held' /\ Status(u)' = "acquiring"
    <3>1. \A u \in Range(waiters)' : u = t \/ (u \in Range(waiters) /\ u \in Tasks)
      BY <2>3, <2>4 DEF Range
    <3>2. QED BY <1>1, <1>4, <2>1, <3>1 DEF PermitsSound, StatusMoves
  <2>7. \A i, j \in DOMAIN waiters' : waiters'[i] = waiters'[j] => i = j
    BY <1>1, <2>3 DEF PermitsSound
  <2>8. \A u \in Tasks : Status(u)' = "detecting" => u \in held'
    BY <1>4, <2>1 DEF PermitsSound, StatusMoves
  <2>9. \A u \in held' : Status(u)' \in {"acquiring", "detecting"}
    BY <1>1, <1>2, <1>4 DEF PermitsSound, StatusMoves
  <2>10. QED
    BY <2>5, <2>6, <2>7, <2>8, <2>9, WorkersAssumption DEF PermitsSound
<1>5. QED BY <1>3, <1>4 DEF Acquire

LEMMA ReleaseSound ==
  ASSUME TypeOK, PermitsSound, NEW t \in held, NEW at,
         at \notin {"acquiring", "detecting"}, Release(t), StatusMoves(t, at)
  PROVE  PermitsSound'
<1>1. waiters \in Seq(Tasks) /\ held \subseteq Tasks
  BY DEF TypeOK
<1>2. /\ Cardinality(held \ {t}) = Cardinality(held) - 1
      /\ IsFiniteSet(held \ {t})
  BY HeldFinite, FS_RemoveElement
<1>3. CASE waiters = <<>> /\ held' = held \ {t} /\ UNCHANGED waiters
  <2>1. Cardinality(held') <= Workers
    BY <1>2, <1>3, HeldFinite, WorkersAssumption DEF PermitsSound
  <2>2. waiters' = <<>> /\ DOMAIN waiters' = {}
    BY <1>3
  <2>3. \A u \in Tasks : Status(u)' = "detecting" => u \in held'
    BY <1>3 DEF PermitsSound, StatusMoves
  <2>4. \A u \in held' : Status(u)' \in {"acquiring", "detecting"}
    BY <1>1, <1>3 DEF PermitsSound, StatusMoves
  <2>5. QED BY <2>1, <2>2, <2>3, <2>4 DEF PermitsSound, Range
<1>4. CASE waiters # <<>> /\ held' = (held \ {t}) \cup {Head(waiters)}
           /\ waiters' = Tail(waiters)
  <2> DEFINE h == Head(waiters)
  <2>1. /\ h = waiters[1] /\ 1 \in DOMAIN waiters
        /\ Len(waiters') = Len(waiters) - 1 /\ Len(waiters) \in Nat
        /\ \A i \in 1 .. Len(waiters') : waiters'[i] = waiters[i + 1]
        /\ DOMAIN waiters = 1 .. Len(waiters) /\ DOMAIN waiters' = 1 .. Len(waiters')
    BY <1>1, <1>4, HeadTailProperties, LenProperties, EmptySeq
  <2>2. h \notin held /\ Status(h) = "acquiring" /\ h \in Tasks /\ h # t
    BY <1>1, <2>1, ElementOfSeq DEF PermitsSound, Range
  <2>3. \A i \in DOMAIN waiters' :
          i + 1 \in DOMAIN waiters /\ waiters'[i] = waiters[i + 1] /\ i + 1 # 1
    BY <2>1
  <2>4. Cardinality(held') = Cardinality(held)
    <3>1. Cardinality(held') = Cardinality(held \ {t}) + 1
      BY <1>2, <1>4, <2>2, FS_AddElement
    <3>2. QED BY <1>2, <3>1, HeldFinite
  <2>5. Cardinality(held') = Workers
    BY <1>4, <2>4 DEF PermitsSound
  <2>6. \A i \in DOMAIN waiters' : waiters'[i] \in Tasks /\ waiters'[i] # h
                                   /\ waiters'[i] \notin held /\ waiters'[i] # t
                                   /\ Status(waiters'[i]) = "acquiring"
    BY <1>1, <2>1, <2>3, ElementOfSeq DEF PermitsSound, Range
  <2>7. \A u \in Range(waiters)' : u \notin held' /\ Status(u)' = "acquiring"
    <3>1. \A u \in Range(waiters)' : /\ u \in Tasks /\ u # h /\ u \notin held /\ u # t
                                    /\ Status(u) = "acquiring"
      BY <2>6 DEF Range
    <3>2. QED BY <1>4, <3>1 DEF StatusMoves
  <2>8. \A i, j \in DOMAIN waiters' : waiters'[i] = waiters'[j] => i = j
    <3>1. \A i, j \in DOMAIN waiters' : waiters'[i] = waiters'[j] => i + 1 = j + 1
      BY <2>3 DEF PermitsSound
    <3>2. QED BY <2>1, <3>1
  <2>9. \A u \in Tasks : Status(u)' = "detecting" => u \in held'
    BY <1>4 DEF PermitsSound, StatusMoves
  <2>10. \A u \in held' : Status(u)' \in {"acquiring", "detecting"}
    BY <1>1, <1>4, <2>2 DEF PermitsSound, StatusMoves
  <2>11. QED
    BY <2>5, <2>7, <2>8, <2>9, <2>10, WorkersAssumption DEF PermitsSound
<1>5. QED BY <1>3, <1>4 DEF Release

LEMMA WithdrawSound ==
  ASSUME TypeOK, PermitsSound, NEW t \in Tasks, NEW at,
         at \notin {"acquiring", "detecting"}, Withdraw(t), StatusMoves(t, at)
  PROVE  PermitsSound'
<1>1. PICK k \in DOMAIN waiters : waiters[k] = t /\ waiters' = RemoveAt(waiters, k)
  BY DEF Withdraw
<1>2. waiters \in Seq(Tasks) /\ held' = held /\ held \subseteq Tasks
  BY DEF TypeOK, Withdraw
<1>3. /\ waiters' \in Seq(Tasks) /\ Len(waiters) \in Nat
      /\ DOMAIN waiters = 1 .. Len(waiters) /\ DOMAIN waiters' = 1 .. Len(waiters) - 1
      /\ \A j \in 1 .. Len(waiters) - 1 :
           waiters'[j] = IF j < k THEN waiters[j] ELSE waiters[j + 1]
  BY <1>1, <1>2, RemoveAtProperties, LenProperties
(* Where the j-th remaining waiter stood before.                           *)
<1> DEFINE old(j) == IF j < k THEN j ELSE j + 1
<1>4. \A j \in DOMAIN waiters' :
        old(j) \in DOMAIN waiters /\ old(j) # k /\ waiters'[j] = waiters[old(j)]
  BY <1>1, <1>3
<1>5. \A i, j \in DOMAIN waiters' : old(i) = old(j) => i = j
  BY <1>1, <1>3
<1> HIDE DEF old
<1>6. \A j \in DOMAIN waiters' : /\ waiters'[j] \in Tasks /\ waiters'[j] # t
                                 /\ waiters'[j] \notin held
                                 /\ Status(waiters'[j]) = "acquiring"
  BY <1>1, <1>2, <1>3, <1>4, ElementOfSeq DEF PermitsSound, Range
<1>7. \A u \in Range(waiters)' : u \notin held' /\ Status(u)' = "acquiring"
  <2>1. \A u \in Range(waiters)' : /\ u \in Tasks /\ u # t /\ u \notin held
                                  /\ Status(u) = "acquiring"
    BY <1>6 DEF Range
  <2>2. QED BY <1>2, <2>1 DEF StatusMoves
<1>8. \A i, j \in DOMAIN waiters' : waiters'[i] = waiters'[j] => i = j
  BY <1>4, <1>5 DEF PermitsSound
<1>9. Cardinality(held') = Workers
  BY <1>1, <1>2, <1>3 DEF PermitsSound, Withdraw
<1>10. \A u \in Tasks : Status(u)' = "detecting" => u \in held'
  BY <1>2 DEF PermitsSound, StatusMoves
<1>11. \A u \in held' : Status(u)' \in {"acquiring", "detecting"}
  <2>1. t \notin held
    BY <1>1 DEF PermitsSound, Range
  <2>2. QED BY <1>2, <2>1 DEF PermitsSound, StatusMoves
<1>12. QED
  BY <1>7, <1>8, <1>9, <1>10, <1>11, WorkersAssumption DEF PermitsSound

(* A step that leaves the semaphore alone may move a task that it does not *)
(* know, or start the detection of a task whose permit was granted.        *)
LEMMA UntouchedSound ==
  ASSUME TypeOK, PermitsSound, UNCHANGED sem, NEW t \in Tasks, NEW at,
         StatusMoves(t, at),
         \/ Status(t) \notin {"acquiring", "detecting"} /\ at \notin {"acquiring", "detecting"}
         \/ t \in held /\ at = "detecting"
  PROVE  PermitsSound'
<1>1. held' = held /\ waiters' = waiters /\ waiters \in Seq(Tasks) /\ held \subseteq Tasks
  BY DEF TypeOK, sem
<1>2. \A u \in Range(waiters) : u \in Tasks /\ u \notin held /\ Status(u) = "acquiring"
  BY <1>1, ElementOfSeq DEF PermitsSound, Range
<1>3. t \notin Range(waiters)
  BY <1>2
<1>4. \A u \in Range(waiters)' : u \notin held' /\ Status(u)' = "acquiring"
  <2>1. Range(waiters)' = Range(waiters)
    BY <1>1 DEF Range
  <2>2. QED BY <1>1, <1>2, <1>3, <2>1 DEF StatusMoves
<1>5. \A u \in Tasks : Status(u)' = "detecting" => u \in held'
  BY <1>1 DEF PermitsSound, StatusMoves
<1>6. \A u \in held' : Status(u)' \in {"acquiring", "detecting"}
  BY <1>1 DEF PermitsSound, StatusMoves
<1>7. /\ Cardinality(held') <= Workers
      /\ waiters' # <<>> => Cardinality(held') = Workers
      /\ \A i, j \in DOMAIN waiters' : waiters'[i] = waiters'[j] => i = j
  BY <1>1 DEF PermitsSound
<1>8. QED BY <1>4, <1>5, <1>6, <1>7 DEF PermitsSound

(* What the program-counter updates of the model do to the statuses.       *)
LEMMA GotoMoves ==
  ASSUME TypeOK, NEW s \in Scans, NEW y \in Yields, NEW at,
         Goto(s, y, at), UNCHANGED call
  PROVE  <<s, y>> \in Tasks /\ Status(<<s, y>>) = pc[s][y] /\ StatusMoves(<<s, y>>, at)
<1>1. <<s, y>> \in Tasks /\ <<s, y>> \notin Callers /\ y \in Parties
  BY CallsAssumption DEF Tasks, Parties
<1>2. Status(<<s, y>>) = pc[s][y] /\ Status(<<s, y>>)' = at
  BY <1>1 DEF Status, Goto, TypeOK
<1>3. ASSUME NEW u \in Tasks, u # <<s, y>>
      PROVE  Status(u)' = Status(u)
  <2>1. CASE u \in Callers
    BY <2>1 DEF Status
  <2>2. CASE u \notin Callers
    <3>1. PICK a \in Scans, b \in Yields : u = <<a, b>>
      BY <2>2 DEF Tasks
    <3>2. a # s \/ b # y
      BY <1>3, <3>1
    <3>3. pc'[a][b] = pc[a][b]
      BY <3>2 DEF Goto, TypeOK, Parties
    <3>4. QED BY <2>2, <3>1, <3>3 DEF Status
  <2>3. QED BY <2>1, <2>2
<1>4. QED BY <1>1, <1>2, <1>3 DEF StatusMoves

LEMMA CallMoves ==
  ASSUME TypeOK, NEW c \in Callers, NEW at, UNCHANGED pc,
         call' = [call EXCEPT ![c] = at]
  PROVE  c \in Tasks /\ Status(c) = call[c] /\ StatusMoves(c, at)
BY DEF TypeOK, Tasks, Status, StatusMoves

(* Steps that move no task keep the statuses.                              *)
LEMMA StatusesKept ==
  ASSUME TypeOK, PermitsSound, UNCHANGED sem, \A u \in Tasks : Status(u)' = Status(u)
  PROVE  PermitsSound'
BY DEF TypeOK, PermitsSound, sem, Range

LEMMA PermitsStep ==
  ASSUME TypeOK, PermitsSound, ControlInv, [Next]_vars
  PROVE  PermitsSound'
<1>1. ASSUME NEW s \in Scans, NEW y \in Yields, YieldStep(s, y)
      PROVE  PermitsSound'
  <2>1. CASE BeginYield(s, y)
    <3>1. PICK at \in {"skipped", "refused", "reserving"} : Goto(s, y, at)
      BY <2>1 DEF BeginYield
    <3>2. QED
      BY <2>1, <3>1, GotoMoves, UntouchedSound DEF BeginYield
  <2>2. CASE EnterAcquire(s, y)
    BY <2>2, GotoMoves, AcquireSound DEF EnterAcquire
  <2>3. CASE Granted(s, y)
    BY <2>3, GotoMoves, UntouchedSound DEF Granted
  <2>4. CASE AcquireFails(s, y)
    <3>1. Goto(s, y, "refused") /\ UNCHANGED call
      BY <2>4 DEF AcquireFails
    <3>2. CASE pc[s][y] = "reserved" /\ UNCHANGED sem
      BY <3>1, <3>2, GotoMoves, UntouchedSound
    <3>3. CASE pc[s][y] = "acquiring" /\ Withdraw(<<s, y>>)
      BY <3>1, <3>3, GotoMoves, WithdrawSound
    <3>4. CASE <<s, y>> \in held /\ Release(<<s, y>>)
      BY <3>1, <3>4, GotoMoves, ReleaseSound
    <3>5. QED BY <2>4, <3>2, <3>3, <3>4 DEF AcquireFails
  <2>5. CASE Detect(s, y)
    <3>1. Goto(s, y, "publishing") /\ UNCHANGED call /\ Release(<<s, y>>)
      BY <2>5 DEF Detect
    <3>2. <<s, y>> \in held
      BY <2>5, <3>1, GotoMoves DEF Detect, PermitsSound
    <3>3. QED BY <3>1, <3>2, GotoMoves, ReleaseSound
  <2>6. QED BY <1>1, <2>1, <2>2, <2>3, <2>4, <2>5 DEF YieldStep
<1>2. ASSUME NEW s \in Scans, NEW y \in Yields, PartyStep(s, y)
      PROVE  PermitsSound'
  <2>1. PICK at \in {"publishing", "reserved", "refused", "sent"} :
          /\ Goto(s, y, at) /\ UNCHANGED <<call, sem>>
          /\ pc[s][y] \in {"reserving", "publishing"}
    BY <1>2 DEF PartyStep, ReserveSlot, ReserveStopped, Publish
  <2>2. QED BY <2>1, GotoMoves, UntouchedSound
<1>3. ASSUME NEW s \in Scans, NEW at, Goto(s, SourceEnd, at), UNCHANGED <<call, sem>>
      PROVE  PermitsSound'
  <2>1. \A a \in Scans, b \in Yields : pc'[a][b] = pc[a][b]
    BY <1>3, CallsAssumption DEF Goto, TypeOK, Parties
  <2>2. ASSUME NEW u \in Tasks PROVE Status(u)' = Status(u)
    <3>1. CASE u \in Callers
      BY <1>3, <3>1 DEF Status
    <3>2. CASE u \notin Callers
      <4>1. PICK a \in Scans, b \in Yields : u = <<a, b>>
        BY <3>2 DEF Tasks
      <4>2. QED BY <2>1, <3>2, <4>1 DEF Status
    <3>3. QED BY <3>1, <3>2
  <2>3. QED BY <1>3, <2>2, StatusesKept
<1>4. ASSUME UNCHANGED <<pc, call, sem>> PROVE PermitsSound'
  BY <1>4, StatusesKept DEF Status
<1>5. ASSUME NEW s \in Scans, PartyStep(s, SourceEnd) PROVE PermitsSound'
  <2>1. \E at : Goto(s, SourceEnd, at) /\ UNCHANGED <<call, sem>>
    BY <1>5 DEF PartyStep, ReserveSlot, ReserveStopped, Publish
  <2>2. QED BY <1>3, <2>1
<1>6. ASSUME NEW s \in Scans, ProducerStep(s) PROVE PermitsSound'
  <2>1. \/ Goto(s, SourceEnd, "reserving") /\ UNCHANGED <<call, sem>>
        \/ UNCHANGED <<pc, call, sem>>
    BY <1>6 DEF ProducerStep, SourceReturn, WorkersDone, CloseResults, calls
  <2>2. QED BY <1>3, <1>4, <2>1
<1>7. ASSUME NEW s \in Scans, StartScan(s) \/ CancelCaller(s) \/ ConsumerStep(s)
      PROVE  PermitsSound'
  <2>1. UNCHANGED <<pc, call, sem>>
    BY <1>7 DEF StartScan, CancelCaller, ConsumerStep, Receive, ReleaseSlot, CallHandler,
                HandlerOK, HandlerFails, StopBetweenFindings, EndResult,
                ResultsExhausted, Drain, DrainRelease, Return, calls
  <2>2. QED BY <1>4, <2>1
<1>8. ASSUME NEW c \in Callers, CallerStep(c) PROVE PermitsSound'
  <2>1. CASE StartCall(c)
    BY <2>1, CallMoves, AcquireSound DEF StartCall, calls
  <2>2. CASE CallGranted(c)
    BY <2>2, CallMoves, UntouchedSound DEF CallGranted, calls
  <2>3. CASE FinishCall(c)
    <3>1. c \in held
      BY <2>3, CallMoves DEF FinishCall, PermitsSound, TypeOK, Tasks, Status
    <3>2. QED BY <2>3, <3>1, CallMoves, ReleaseSound DEF FinishCall, calls
  <2>4. QED BY <1>8, <2>1, <2>2, <2>3 DEF CallerStep
<1>9. CASE UNCHANGED vars
  BY <1>4, <1>9 DEF vars, calls
<1>10. QED
  BY <1>1, <1>2, <1>5, <1>6, <1>7, <1>8, <1>9 DEF Next, Finished, Parties

(* The worker semaphore is sound in every reachable state: never more than *)
(* Workers detections over all scans and ScanString calls, no permit is    *)
(* held by anyone but a running or starting detection, and no wake-up is   *)
(* lost, whatever is cancelled while it waits.                             *)
THEOREM PermitsAlwaysSound == Spec => []PermitsSound
<1>1. Init => PermitsSound
  <2> SUFFICES ASSUME Init PROVE PermitsSound
    OBVIOUS
  <2>1. Cardinality(held) = 0 /\ held = {} /\ waiters = <<>> /\ DOMAIN waiters = {}
    BY FS_EmptySet DEF Init
  <2>2. \A t \in Tasks : Status(t) # "detecting"
    BY DEF Init, Status, Tasks, Parties
  <2>3. QED BY <2>1, <2>2, WorkersAssumption DEF PermitsSound, Range
<1>2. SlotInv /\ PermitsSound /\ [Next]_vars => PermitsSound'
  BY PermitsStep DEF SlotInv
<1>3. QED BY <1>1, <1>2, SlotInvAlways, PTL DEF Spec

-----------------------------------------------------------------------------
(* Layer three: the order in which a scan shuts down.                      *)

(* A party that neither has sent nor is on its way to a send is quiet. In  *)
(* this order: the yields return, the workers finish, the producer's own   *)
(* report is done, the channel is closed, the consumer sees it empty.      *)
Quiet == {"ready", "sent", "skipped", "refused"}

ShutdownOrder(s) ==
  /\ src[s] = "idle" => \A y \in Yields : pc[s][y] \in Quiet
  /\ src[s] = "waiting" => \A y \in Yields : pc[s][y] \in Quiet \cup {"detecting", "publishing"}
  /\ src[s] \in {"reporting", "closed"} => \A y \in Yields : pc[s][y] \in Quiet
  /\ src[s] = "closed" => pc[s][SourceEnd] \in Quiet
  /\ con[s] = "done" => src[s] = "closed" /\ queue[s] = <<>>

ShutdownInv == \A s \in Scans : ShutdownOrder(s)

(* A step of one party leaves the other parties and scans where they are.  *)
LEMMA GotoElsewhere ==
  ASSUME TypeOK, NEW s \in Scans, NEW p \in Parties, NEW at, Goto(s, p, at)
  PROVE  /\ pc'[s][p] = at
         /\ \A t \in Scans, q \in Parties : <<t, q>> # <<s, p>> => pc'[t][q] = pc[t][q]
BY DEF TypeOK, Goto

LEMMA ShutdownParty ==
  ASSUME SlotInv, ShutdownInv, NEW s \in Scans, NEW p \in Parties, NEW at,
         Goto(s, p, at), UNCHANGED <<source, con>>,
         \/ UNCHANGED queue
         \/ pc[s][p] = "publishing" /\ \A t \in Scans : t # s => queue'[t] = queue[t],
         \/ at \in Quiet
         \/ pc[s][p] \in {"ready", "reserving", "reserved", "acquiring"}
              /\ ((p \in Yields /\ pc[s][p] = "ready") => src[s] = "fragments")
              /\ (p = SourceEnd => pc[s][p] # "ready")
         \/ pc[s][p] = "detecting" /\ at = "publishing" /\ p \in Yields
  PROVE  ShutdownInv'
<1> SUFFICES ASSUME NEW t \in Scans PROVE ShutdownOrder(t)'
  BY DEF ShutdownInv
<1>1. /\ pc'[s][p] = at
      /\ \A r \in Scans, q \in Parties : <<r, q>> # <<s, p>> => pc'[r][q] = pc[r][q]
  BY GotoElsewhere DEF SlotInv
<1>2. SourceEnd \in Parties /\ Yields \subseteq Parties /\ SourceEnd \notin Yields
      /\ (p \in Yields \/ p = SourceEnd)
  BY CallsAssumption DEF Parties
<1>3. src' = src /\ con' = con
  BY DEF source
<1>4. ShutdownOrder(t) /\ ShutdownOrder(s)
  BY DEF ShutdownInv
<1>5. src[t] \in {"idle", "fragments", "waiting", "reporting", "closed"}
      /\ src[s] \in {"idle", "fragments", "waiting", "reporting", "closed"}
  BY DEF SlotInv, TypeOK
<1>6. CASE t # s
  <2>1. \A q \in Parties : pc'[t][q] = pc[t][q]
    BY <1>1, <1>6
  <2>2. queue'[t] = queue[t]
    BY <1>6
  <2>3. QED BY <1>2, <1>3, <1>4, <2>1, <2>2 DEF ShutdownOrder
<1>7. CASE t = s
  <2>1. \A q \in Parties : q # p => pc'[s][q] = pc[s][q]
    BY <1>1
  <2>2. CASE p = SourceEnd
    <3>1. \A y \in Yields : pc'[s][y] = pc[s][y]
      BY <1>2, <2>1, <2>2
    <3>2. src[s] = "closed" => at \in Quiet
      BY <1>2, <1>4, <2>2 DEF ShutdownOrder, Quiet
    <3>3. con[s] = "done" => UNCHANGED queue
      BY <1>4, <2>2 DEF ShutdownOrder, Quiet
    <3>4. QED BY <1>1, <1>3, <1>4, <1>7, <2>2, <3>1, <3>2, <3>3 DEF ShutdownOrder
  <2>3. CASE p \in Yields
    <3>1. pc'[s][SourceEnd] = pc[s][SourceEnd]
      BY <1>2, <2>1, <2>3
    <3>2. con[s] = "done" => UNCHANGED queue
      BY <1>4, <2>3 DEF ShutdownOrder, Quiet
    <3>3. /\ src[s] \in {"idle", "reporting", "closed"} => at \in Quiet
          /\ src[s] = "waiting" => at \in Quiet \cup {"publishing"}
      BY <1>4, <1>5, <2>3 DEF ShutdownOrder, Quiet
    <3>4. QED
      BY <1>1, <1>3, <1>4, <1>7, <2>1, <3>1, <3>2, <3>3, <1>2 DEF ShutdownOrder
  <2>4. QED BY <1>2, <2>2, <2>3
<1>8. QED BY <1>6, <1>7

LEMMA ShutdownStep ==
  ASSUME SlotInv, ShutdownInv, [Next]_vars
  PROVE  ShutdownInv'
<1> SourceEnd \in Parties /\ Yields \subseteq Parties /\ SourceEnd \notin Yields
  BY CallsAssumption DEF Parties
<1>1. ASSUME NEW s \in Scans, NEW y \in Yields, YieldStep(s, y)
      PROVE  ShutdownInv'
  <2>1. UNCHANGED <<source, con, queue>>
    BY <1>1 DEF YieldStep, BeginYield, EnterAcquire, Granted, AcquireFails, Detect, consume
  <2>2. \E at : /\ Goto(s, y, at)
                 /\ \/ at \in Quiet
                    \/ pc[s][y] \in {"reserved", "acquiring"}
                    \/ pc[s][y] = "ready" /\ src[s] = "fragments"
                    \/ pc[s][y] = "detecting" /\ at = "publishing"
    BY <1>1 DEF YieldStep, BeginYield, EnterAcquire, Granted, AcquireFails, Detect, Quiet
  <2>3. QED BY <2>1, <2>2, ShutdownParty
<1>2. ASSUME NEW s \in Scans, NEW p \in Parties, PartyStep(s, p)
      PROVE  ShutdownInv'
  <2>1. UNCHANGED <<source, con>>
    BY <1>2 DEF PartyStep, ReserveSlot, ReserveStopped, Publish, consume
  <2>2. \/ UNCHANGED queue
        \/ pc[s][p] = "publishing" /\ \A t \in Scans : t # s => queue'[t] = queue[t]
    BY <1>2 DEF PartyStep, ReserveSlot, ReserveStopped, Publish, SlotInv, TypeOK
  <2>3. \E at : Goto(s, p, at) /\ (at \in Quiet \/ pc[s][p] = "reserving")
    BY <1>2 DEF PartyStep, ReserveSlot, ReserveStopped, Publish, Quiet
  <2>4. QED BY <2>1, <2>2, <2>3, ShutdownParty
<1>3. ASSUME NEW s \in Scans, ProducerStep(s)
      PROVE  ShutdownInv'
  <2>1. CASE SourceReturn(s)
    <3>1. \A y \in Yields : pc[s][y] \in Quiet \cup {"detecting", "publishing"}
      BY <2>1 DEF SourceReturn, Active, SlotInv, TypeOK, Quiet
    <3>2. src[s] = "fragments" /\ src'[s] = "waiting" /\ UNCHANGED <<pc, con, queue>>
          /\ \A t \in Scans : t # s => src'[t] = src[t]
      BY <2>1 DEF SourceReturn, calls, consume, SlotInv, TypeOK
    <3>3. QED
      BY <3>1, <3>2 DEF ShutdownInv, ShutdownOrder
  <2>2. CASE WorkersDone(s)
    <3>1. \A y \in Yields : pc[s][y] \in Quiet
      BY <2>2 DEF WorkersDone, Working, ShutdownInv, ShutdownOrder, Quiet
    <3>2. pc[s][SourceEnd] \in Quiet
      BY <2>2 DEF WorkersDone, SlotInv, ControlInv, Quiet
    <3>3. \A t \in Scans, y \in Yields : pc'[t][y] = pc[t][y]
      BY <2>2, GotoElsewhere DEF WorkersDone, SlotInv
    <3>4. \A t \in Scans : t # s => src'[t] = src[t] /\ pc'[t][SourceEnd] = pc[t][SourceEnd]
      <4>1. \A t \in Scans : t # s => pc'[t][SourceEnd] = pc[t][SourceEnd]
        BY <2>2, GotoElsewhere DEF WorkersDone, SlotInv
      <4>2. \A t \in Scans : t # s => src'[t] = src[t]
        BY <2>2 DEF WorkersDone, SlotInv, TypeOK
      <4>3. QED BY <4>1, <4>2
    <3>5. \/ src'[s] = "closed" /\ UNCHANGED pc
          \/ src'[s] = "reporting"
      BY <2>2 DEF WorkersDone, SlotInv, TypeOK
    <3>6. UNCHANGED <<con, queue>> /\ src[s] = "waiting"
      BY <2>2 DEF WorkersDone, consume
    <3>7. QED
      BY <3>1, <3>2, <3>3, <3>4, <3>5, <3>6 DEF ShutdownInv, ShutdownOrder
  <2>3. CASE CloseResults(s)
    <3>1. src[s] = "reporting" /\ src'[s] = "closed" /\ UNCHANGED <<pc, con, queue>>
          /\ \A t \in Scans : t # s => src'[t] = src[t]
      BY <2>3 DEF CloseResults, calls, consume, SlotInv, TypeOK
    <3>2. pc[s][SourceEnd] \in Quiet
      BY <2>3 DEF CloseResults, Quiet
    <3>3. QED
      BY <3>1, <3>2 DEF ShutdownInv, ShutdownOrder
  <2>4. QED BY <1>3, <2>1, <2>2, <2>3 DEF ProducerStep
<1>4. ASSUME NEW s \in Scans, StartScan(s) PROVE ShutdownInv'
  <2>1. con'[s] = "receive" /\ src'[s] = "fragments" /\ UNCHANGED <<pc, queue>>
        /\ \A t \in Scans : t # s => src'[t] = src[t] /\ con'[t] = con[t]
    BY <1>4 DEF StartScan, calls, SlotInv, TypeOK
  <2>2. QED BY <2>1 DEF ShutdownInv, ShutdownOrder
<1>5. ASSUME NEW s \in Scans, ConsumerStep(s) PROVE ShutdownInv'
  <2>1. UNCHANGED <<pc, src>>
    BY <1>5 DEF ConsumerStep, Receive, ReleaseSlot, CallHandler, HandlerOK, HandlerFails,
                StopBetweenFindings, EndResult, ResultsExhausted, Drain, DrainRelease,
                Return, calls, source
  <2>2. \A t \in Scans : t # s => con'[t] = con[t] /\ queue'[t] = queue[t]
    BY <1>5 DEF ConsumerStep, Receive, ReleaseSlot, CallHandler, HandlerOK, HandlerFails,
                StopBetweenFindings, EndResult, ResultsExhausted, Drain, DrainRelease,
                Return, Leave, calls, SlotInv, TypeOK
  <2>3. con'[s] = "done" => src[s] = "closed" /\ queue'[s] = <<>>
    BY <1>5 DEF ConsumerStep, Receive, ReleaseSlot, CallHandler, HandlerOK, HandlerFails,
                StopBetweenFindings, EndResult, ResultsExhausted, Drain, DrainRelease,
                Return, Leave, calls, SlotInv, TypeOK
  <2>4. QED BY <2>1, <2>2, <2>3 DEF ShutdownInv, ShutdownOrder
<1>6. CASE UNCHANGED <<pc, src, con, queue>>
  BY <1>6 DEF ShutdownInv, ShutdownOrder
<1>7. ASSUME NEW s \in Scans, CancelCaller(s) PROVE ShutdownInv'
  BY <1>6, <1>7 DEF CancelCaller, calls, source, consume
<1>8. ASSUME NEW c \in Callers, CallerStep(c) PROVE ShutdownInv'
  BY <1>6, <1>8 DEF CallerStep, StartCall, CallGranted, FinishCall, calls, source, consume
<1>9. CASE UNCHANGED vars
  BY <1>6, <1>9 DEF vars, calls, source, consume
<1>10. QED
  BY <1>1, <1>2, <1>3, <1>4, <1>5, <1>7, <1>8, <1>9 DEF Next, Finished

LEMMA ShutdownAlways == Spec => []ShutdownInv
<1>1. Init => ShutdownInv
  BY DEF Init, ShutdownInv, ShutdownOrder, Quiet, Parties
<1>2. SlotInv /\ ShutdownInv /\ [Next]_vars => ShutdownInv'
  BY ShutdownStep
<1>3. QED BY <1>1, <1>2, SlotInvAlways, PTL DEF Spec

(* No send on a closed channel: run never panics, whatever the source, the *)
(* workers and a cancellation do in which order.                           *)
LEMMA NeverSendsOnClosed == Spec => []NoSendOnClosed
<1>1. SlotInv /\ ShutdownInv => NoSendOnClosed
  BY DEF ShutdownInv, ShutdownOrder, NoSendOnClosed, Quiet, Parties
<1>2. QED BY <1>1, SlotInvAlways, ShutdownAlways, PTL

(* No worker, yield or producer of run ever hangs in a send, or panics.    *)
THEOREM SendsAreSafe == Spec => []SendsSafe
BY SendsNeverBlock, NeverSendsOnClosed, PTL DEF SendsSafe

(* A scan that has returned has left nothing on the shared Scanner.        *)
THEOREM ReturnsClean == Spec => []CleanReturn
<1>1. SlotInv /\ PermitsSound /\ ShutdownInv => CleanReturn
  <2> SUFFICES ASSUME SlotInv, PermitsSound, ShutdownInv, NEW s \in Scans, con[s] = "done"
               PROVE  /\ slots[s] = 0 /\ queue[s] = <<>> /\ Reserved(s) = {}
                      /\ \A y \in Yields : <<s, y>> \notin held /\ <<s, y>> \notin Range(waiters)
    BY DEF CleanReturn
  <2>1. queue[s] = <<>> /\ \A p \in Parties : pc[s][p] \in Quiet
    BY DEF ShutdownInv, ShutdownOrder, Parties
  <2>2. Reserved(s) = {} /\ Cardinality(Reserved(s)) = 0
    BY <2>1, FS_EmptySet DEF Reserved, Quiet
  <2>3. slots[s] = 0
    <3>1. Len(queue[s]) = 0 /\ Popped(s) = 0
      BY <2>1, EmptySeq DEF Popped
    <3>2. slots[s] = Cardinality(Reserved(s)) + Len(queue[s]) + Popped(s)
      BY DEF SlotInv, SlotsAccounted
    <3>3. slots[s] = 0 + 0 + 0
      BY <2>2, <3>1, <3>2
    <3>4. QED BY <3>3
  <2>4. ASSUME NEW y \in Yields
        PROVE  <<s, y>> \notin held /\ <<s, y>> \notin Range(waiters)
    <3>1. <<s, y>> \in Tasks /\ <<s, y>> \notin Callers /\ y \in Parties
      BY CallsAssumption DEF Tasks, Parties
    <3>2. Status(<<s, y>>) \in Quiet
      BY <2>1, <3>1 DEF Status
    <3>3. QED BY <3>2 DEF PermitsSound, Quiet
  <2>5. QED BY <2>1, <2>2, <2>3, <2>4
<1>2. QED BY <1>1, SlotInvAlways, PermitsAlwaysSound, ShutdownAlways, PTL

-----------------------------------------------------------------------------
(***************************************************************************)
(* What the verdict of Scan is worth: the proofs below follow one result   *)
(* from the yield call through resultsCh to the handler. They build on the *)
(* layers above (types, slots, shutdown order).                            *)
(***************************************************************************)

(* The consumer has left its loop; the consumer is at one result.          *)
Over     == {"drain", "drainRelease", "done"}
AtResult == {"release", "handle", "calling"}

Distinct(q) == \A i, j \in DOMAIN q : q[i] = q[j] => i = j

(* A party's result is queued at most once, after it was sent, and not     *)
(* again once the consumer has taken it.                                   *)
QueueInv(s) ==
  /\ Distinct(queue[s])
  /\ \A p \in Range(queue[s]) : pc[s][p] = "sent"
  /\ con[s] \in AtResult => cur[s] \notin Range(queue[s]) /\ pc[s][cur[s]] = "sent"

(* The consumer is done with p's result, and the loop went on after it.    *)
Settled(s, p) ==
  /\ handled[s][p] = result[s][p].found
  /\ result[s][p].err # "detect"
  /\ result[s][p].err = "source" => "source" \in scanErr[s]

(* The consumer has not yet received p's result.                           *)
Pending(s, p) == pc[s][p] # "sent" \/ p \in Range(queue[s])

(* The handler sees the findings of one result after the other: none of a  *)
(* pending one, all of a settled one, and of the current one those that    *)
(* left no longer counts.                                                  *)
HandledInv(s) ==
  /\ \A p \in Parties : Pending(s, p) => handled[s][p] = 0
  /\ con[s] = "release" => handled[s][cur[s]] = 0
  /\ con[s] = "handle" => handled[s][cur[s]] + left[s] = result[s][cur[s]].found
  /\ con[s] = "calling" => handled[s][cur[s]] + left[s] = result[s][cur[s]].found + 1
  /\ \A p \in Parties : \/ Pending(s, p) \/ Settled(s, p)
                        \/ con[s] \in AtResult /\ p = cur[s]
                        \/ con[s] \in Over

(* The result of y says everything about the item that was offered.        *)
Answered(s, y) ==
  \/ offer[s][y].kind = "error" /\ result[s][y].err = "source"
  \/ result[s][y].err = "detect"
  \/ offer[s][y].kind = "fragment" /\ result[s][y].found = offer[s][y].found

(* A result is partial only when the scan was told to stop.                *)
AnswerInv(s) ==
  /\ result[s][SourceEnd].found = 0
  /\ pc[s][SourceEnd] \in {"publishing", "sent"} => result[s][SourceEnd].err = "source"
  /\ \A y \in Yields :
       /\ result[s][y].found <= offer[s][y].found
       /\ pc[s][y] = "skipped" => offer[s][y].kind = "empty"
       /\ pc[s][y] \in {"publishing", "sent"} => RunDone(s) \/ Answered(s, y)

(* Only a cancellation is refused before the scan is told to stop; a nil   *)
(* of the source means exhausted, unless it was refused something; and an  *)
(* error of the source is on the channel before the channel is closed.     *)
Cancellation(s, p) == p \in Yields /\ offer[s][p].kind = "canceled"

SourceInv(s) ==
  /\ src[s] \in {"idle", "fragments"} => srcErr[s] = {}
  /\ \A p \in Parties : pc[s][p] = "refused" => RunDone(s) \/ Cancellation(s, p)
  /\ src[s] \in {"waiting", "reporting", "closed"} /\ srcErr[s] = {} =>
       \/ \A y \in Yields : pc[s][y] # "ready" \/ offer[s][y].kind = "canceled"
       \/ \E y \in Yields : pc[s][y] = "refused"
  /\ src[s] = "closed" =>
       srcErr[s] = {} \/ "stop" \in srcErr[s] \/ pc[s][SourceEnd] \in {"sent", "refused"}

(* What a nil error of scan s promises.                                    *)
Complete(s) ==
  /\ \A y \in Offered(s) :
       /\ offer[s][y].kind \notin {"error", "broken"}
       /\ offer[s][y].kind = "fragment" => handled[s][y] = offer[s][y].found
  /\ \/ SaidStopped(s)
     \/ srcErr[s] = {} /\ \A y \in Yields \ Offered(s) : offer[s][y].kind = "canceled"

(* The loop is left with a reason: an error, a cancelled context, or a     *)
(* closed channel after a complete scan.                                   *)
VerdictInv(s) ==
  /\ canceled[s] <=> con[s] \in Over
  /\ scanErr[s] \cap {"handler", "detect"} # {} => canceled[s]
  /\ con[s] = "done" /\ ctxDone[s] => scanErr[s] # {}
  /\ canceled[s] /\ ~ctxDone[s] /\ scanErr[s] = {} => src[s] = "closed" /\ Complete(s)

ResultOf(s) == QueueInv(s) /\ HandledInv(s) /\ AnswerInv(s) /\ SourceInv(s) /\ VerdictInv(s)

ResultInv == \A s \in Scans : ResultOf(s)

-----------------------------------------------------------------------------
(* The channel as a set.                                                   *)

LEMMA RangeOfAppend ==
  ASSUME NEW S, NEW q \in Seq(S), NEW e \in S
  PROVE  /\ Range(Append(q, e)) = Range(q) \cup {e}
         /\ Distinct(q) /\ e \notin Range(q) => Distinct(Append(q, e))
<1> DEFINE r == Append(q, e)
           n == Len(q)
<1>1. /\ n \in Nat /\ DOMAIN q = 1 .. n
      /\ DOMAIN r = 1 .. n + 1
      /\ \A i \in 1 .. n : r[i] = q[i]
      /\ r[n + 1] = e
  BY AppendProperties, LenProperties
<1> HIDE DEF r, n
<1>2. Range(r) = Range(q) \cup {e}
  <2>1. ASSUME NEW x \in Range(r) PROVE x \in Range(q) \cup {e}
    <3>1. PICK i \in 1 .. n + 1 : x = r[i]
      BY <1>1 DEF Range
    <3>2. CASE i = n + 1
      BY <1>1, <3>1, <3>2
    <3>3. CASE i # n + 1
      <4>1. i \in 1 .. n
        BY <1>1, <3>3
      <4>2. QED BY <1>1, <3>1, <4>1 DEF Range
    <3>4. QED BY <3>2, <3>3
  <2>2. ASSUME NEW x \in Range(q) \cup {e} PROVE x \in Range(r)
    <3>1. n + 1 \in 1 .. n + 1 /\ \A i \in 1 .. n : i \in 1 .. n + 1
      BY <1>1
    <3>2. QED BY <1>1, <3>1 DEF Range
  <2>3. QED BY <2>1, <2>2
<1>3. ASSUME Distinct(q), e \notin Range(q) PROVE Distinct(r)
  <2>1. \A i \in 1 .. n : r[i] # e
    BY <1>1, <1>3 DEF Range
  <2>2. \A i \in 1 .. n + 1 : i \in 1 .. n \/ i = n + 1
    BY <1>1
  <2>3. QED BY <1>1, <1>3, <2>1, <2>2 DEF Distinct
<1>4. QED BY <1>2, <1>3 DEF r

LEMMA RangeOfTail ==
  ASSUME NEW S, NEW q \in Seq(S), q # <<>>, Distinct(q)
  PROVE  /\ Range(Tail(q)) = Range(q) \ {Head(q)}
         /\ Head(q) \in Range(q)
         /\ Distinct(Tail(q))
<1> DEFINE r == Tail(q)
           n == Len(q)
<1>1. /\ n \in Nat \ {0} /\ DOMAIN q = 1 .. n
      /\ DOMAIN r = 1 .. n - 1
      /\ \A i \in 1 .. n - 1 : r[i] = q[i + 1]
      /\ Head(q) = q[1]
  BY HeadTailProperties, LenProperties, EmptySeq
<1> HIDE DEF r, n
<1>2. \A i \in 1 .. n - 1 : i + 1 \in 1 .. n /\ i + 1 # 1
  BY <1>1
<1>3. Head(q) \in Range(q)
  <2>1. 1 \in 1 .. n
    BY <1>1
  <2>2. QED BY <1>1, <2>1 DEF Range
<1>4. Range(r) = Range(q) \ {Head(q)}
  <2>1. ASSUME NEW x \in Range(r) PROVE x \in Range(q) /\ x # Head(q)
    <3>1. PICK i \in 1 .. n - 1 : x = q[i + 1]
      BY <1>1 DEF Range
    <3>2. 1 \in 1 .. n
      BY <1>1
    <3>3. QED BY <1>1, <1>2, <3>1, <3>2 DEF Range, Distinct
  <2>2. ASSUME NEW x \in Range(q), x # Head(q) PROVE x \in Range(r)
    <3>1. PICK i \in 1 .. n : x = q[i]
      BY <1>1 DEF Range
    <3>2. i - 1 \in 1 .. n - 1 /\ (i - 1) + 1 = i
      BY <1>1, <2>2, <3>1
    <3>3. x = r[i - 1]
      BY <1>1, <3>1, <3>2
    <3>4. QED BY <1>1, <3>2, <3>3 DEF Range
  <2>3. QED BY <2>1, <2>2
<1>5. Distinct(r)
  <2> SUFFICES ASSUME NEW i \in 1 .. n - 1, NEW j \in 1 .. n - 1, r[i] = r[j]
               PROVE  i = j
    BY <1>1 DEF Distinct
  <2>1. i + 1 \in DOMAIN q /\ j + 1 \in DOMAIN q /\ q[i + 1] = q[j + 1]
    BY <1>1
  <2>2. i + 1 = j + 1
    BY <1>2, <2>1 DEF Distinct
  <2>3. QED BY <1>1, <2>2
<1>6. QED BY <1>3, <1>4, <1>5 DEF r

-----------------------------------------------------------------------------
(* A step of one scan, and a step of a ScanString call, leave what the     *)
(* other scans are made of alone.                                          *)

Local(t) == <<offer[t], pc[t], result[t], queue[t], src[t], srcErr[t], con[t], cur[t],
              left[t], handled[t], scanErr[t], ctxDone[t], canceled[t]>>

LEMMA ElsewhereSound ==
  ASSUME NEW t \in Scans, ResultOf(t), UNCHANGED Local(t)
  PROVE  ResultOf(t)'
<1> USE DEF Local
<1>1. \A p : Pending(t, p)' <=> Pending(t, p)
  BY DEF Pending
<1>2. QueueInv(t)' /\ SourceInv(t)' /\ VerdictInv(t)'
  BY DEF ResultOf, QueueInv, SourceInv, Cancellation, VerdictInv, Complete, SaidStopped,
         Offered, RunDone, Distinct
<1>3. HandledInv(t)'
  BY <1>1 DEF ResultOf, HandledInv, Settled
<1>4. AnswerInv(t)'
  BY DEF ResultOf, AnswerInv, Answered, RunDone
<1>5. QED BY <1>2, <1>3, <1>4 DEF ResultOf

LEMMA YieldLocal ==
  ASSUME TypeOK, NEW s \in Scans, NEW y \in Yields, YieldStep(s, y),
         NEW t \in Scans, t # s
  PROVE  UNCHANGED Local(t)
BY DEF YieldStep, BeginYield, EnterAcquire, Granted, AcquireFails, Detect, Goto,
       TypeOK, source, consume, sem, Local

LEMMA PartyLocal ==
  ASSUME TypeOK, NEW s \in Scans, NEW p \in Parties, PartyStep(s, p),
         NEW t \in Scans, t # s
  PROVE  UNCHANGED Local(t)
BY DEF PartyStep, ReserveSlot, ReserveStopped, Publish, Goto,
       TypeOK, source, consume, Local

LEMMA ProducerLocal ==
  ASSUME TypeOK, NEW s \in Scans, ProducerStep(s), NEW t \in Scans, t # s
  PROVE  UNCHANGED Local(t)
BY DEF ProducerStep, SourceReturn, WorkersDone, CloseResults, Goto,
       TypeOK, calls, consume, Local

LEMMA ConsumerLocal ==
  ASSUME TypeOK, NEW s \in Scans, ConsumerStep(s), NEW t \in Scans, t # s
  PROVE  UNCHANGED Local(t)
BY DEF ConsumerStep, Receive, ReleaseSlot, CallHandler, HandlerOK, HandlerFails,
       StopBetweenFindings, EndResult, ResultsExhausted, Drain, DrainRelease, Return,
       Leave, TypeOK, calls, source, Local

LEMMA CallerLocal ==
  ASSUME NEW c \in Callers, CallerStep(c), NEW t \in Scans
  PROVE  UNCHANGED Local(t)
BY DEF CallerStep, StartCall, CallGranted, FinishCall, calls, source, consume, Local

-----------------------------------------------------------------------------
(* The steps of the source, the yields, the workers and the producer.      *)

(* A party moves, neither from nor to "sent", and only its own result      *)
(* changes: the channel and the consumer's account of it do not notice.    *)
LEMMA PartyUnnoticed ==
  ASSUME TypeOK, NEW s \in Scans, ResultOf(s), NEW p \in Parties, NEW at,
         Goto(s, p, at), pc[s][p] # "sent", at # "sent",
         \A q \in Parties : q # p => result'[s][q] = result[s][q],
         UNCHANGED <<queue, con, cur, left, handled, scanErr>>
  PROVE  QueueInv(s)' /\ HandledInv(s)'
<1>1. /\ pc'[s][p] = at
      /\ \A q \in Parties : q # p => pc'[s][q] = pc[s][q]
  BY GotoElsewhere
<1>2. cur[s] \in Parties /\ Range(queue[s]) \subseteq Parties
  <2>1. cur[s] \in Parties /\ queue[s] \in Seq(Parties)
    BY DEF TypeOK
  <2>2. /\ DOMAIN queue[s] = 1 .. Len(queue[s])
        /\ \A i \in 1 .. Len(queue[s]) : queue[s][i] \in Parties
    BY <2>1, ElementOfSeq, LenProperties
  <2>3. QED BY <2>1, <2>2 DEF Range
<1>3. p \notin Range(queue[s]) /\ (con[s] \in AtResult => cur[s] # p)
  BY DEF ResultOf, QueueInv
<1>4. QueueInv(s)'
  BY <1>1, <1>2, <1>3 DEF ResultOf, QueueInv
<1>5. \A q \in Parties : Pending(s, q)' <=> Pending(s, q)
  BY <1>1, <1>3 DEF Pending
<1>6. HandledInv(s)'
  <2>1. con[s] \in AtResult => result'[s][cur[s]] = result[s][cur[s]]
    BY <1>2, <1>3
  <2>2. \A q \in Parties : Settled(s, q) /\ q # p => Settled(s, q)'
    BY DEF Settled
  <2>3. Pending(s, p)
    BY DEF Pending
  <2>4. QED BY <1>2, <1>5, <2>1, <2>2, <2>3 DEF ResultOf, HandledInv, AtResult
<1>7. QED BY <1>4, <1>6

LEMMA ResultYield ==
  ASSUME SlotInv, ShutdownInv, NEW s \in Scans, NEW y \in Yields, ResultOf(s),
         YieldStep(s, y)
  PROVE  ResultOf(s)'
<1> y \in Parties /\ SourceEnd \in Parties /\ y # SourceEnd /\ Yields \subseteq Parties
  BY CallsAssumption DEF Parties
<1> TypeOK
  BY DEF SlotInv
<1>1. UNCHANGED <<offer, queue, src, srcErr, con, cur, left, handled, scanErr, canceled, ctxDone>>
  BY DEF YieldStep, BeginYield, EnterAcquire, Granted, AcquireFails, Detect, source, consume
<1>2. PICK at \in {"skipped", "refused", "reserving", "detecting", "acquiring", "publishing"} :
        /\ Goto(s, y, at)
        /\ at = "refused" => RunDone(s) \/ Cancellation(s, y)
        /\ at = "skipped" => offer[s][y].kind = "empty"
        /\ at = "publishing" => pc[s][y] = "detecting"
        /\ pc[s][y] = "ready" => src[s] = "fragments"
  BY DEF YieldStep, BeginYield, EnterAcquire, Granted, AcquireFails, Detect, Cancellation
<1>3. /\ pc'[s][y] = at
      /\ \A q \in Parties : q # y => pc'[s][q] = pc[s][q]
  BY <1>2, GotoElsewhere
<1>4. pc[s][y] \in {"ready", "reserved", "acquiring", "detecting"}
  BY DEF YieldStep, BeginYield, EnterAcquire, Granted, AcquireFails, Detect
<1>5. /\ \A q \in Parties : q # y => result'[s][q] = result[s][q]
      /\ result'[s][y].found <= offer[s][y].found
      /\ at = "publishing" => RunDone(s) \/ Answered(s, y)'
  <2>1. CASE ~Detect(s, y)
    <3>1. pc[s][y] # "detecting" /\ UNCHANGED result
      BY <2>1 DEF YieldStep, BeginYield, EnterAcquire, Granted, AcquireFails
    <3>2. QED BY <1>2, <3>1 DEF ResultOf, AnswerInv
  <2>2. CASE Detect(s, y)
    <3>1. PICK n \in 0 .. offer[s][y].found, err \in {"none", "detect"} :
            /\ err = "none" /\ ~RunDone(s) => offer[s][y].kind = "fragment" /\ n = offer[s][y].found
            /\ result' = [result EXCEPT ![s][y] = [found |-> n, err |-> err]]
      BY <2>2 DEF Detect
    <3>2. /\ result'[s][y] = [found |-> n, err |-> err]
          /\ \A q \in Parties : q # y => result'[s][q] = result[s][q]
      BY <3>1 DEF TypeOK
    <3>3. offer[s][y].found \in Nat
      BY DEF TypeOK, Item
    <3>4. QED BY <1>1, <3>1, <3>2, <3>3 DEF Answered
  <2>3. QED BY <2>1, <2>2
<1>6. QueueInv(s)' /\ HandledInv(s)'
  BY <1>1, <1>2, <1>4, <1>5, PartyUnnoticed
<1>7. RunDone(s)' <=> RunDone(s)
  BY <1>1 DEF RunDone
<1>8. AnswerInv(s)'
  <2>1. \A z \in Yields : z # y => (Answered(s, z)' <=> Answered(s, z))
    BY <1>1, <1>5 DEF Answered
  <2>2. result'[s][SourceEnd] = result[s][SourceEnd] /\ pc'[s][SourceEnd] = pc[s][SourceEnd]
    BY <1>3, <1>5
  <2>3. QED BY <1>1, <1>2, <1>3, <1>5, <1>7, <2>1, <2>2 DEF ResultOf, AnswerInv
<1>9. SourceInv(s)'
  BY <1>1, <1>2, <1>3, <1>4, <1>7 DEF ResultOf, SourceInv, Cancellation
<1>10. VerdictInv(s)'
  <2>1. src[s] = "closed" => FALSE
    BY <1>2, <1>4 DEF ShutdownInv, ShutdownOrder, Quiet
  <2>2. QED BY <1>1, <2>1 DEF ResultOf, VerdictInv
<1>11. QED BY <1>6, <1>8, <1>9, <1>10 DEF ResultOf

LEMMA ResultParty ==
  ASSUME SlotInv, ShutdownInv, NEW s \in Scans, NEW p \in Parties, ResultOf(s),
         PartyStep(s, p)
  PROVE  ResultOf(s)'
<1> SourceEnd \in Parties /\ Yields \subseteq Parties /\ SourceEnd \notin Yields
  BY CallsAssumption DEF Parties
<1> TypeOK
  BY DEF SlotInv
<1>1. UNCHANGED <<offer, src, srcErr, con, cur, left, handled, scanErr, canceled, ctxDone>>
  BY DEF PartyStep, ReserveSlot, ReserveStopped, Publish, source, consume
<1>2. RunDone(s)' <=> RunDone(s)
  BY <1>1 DEF RunDone
<1>3. VerdictInv(s)'
  <2>1. pc[s][p] \in {"reserving", "publishing"}
    BY DEF PartyStep, ReserveSlot, ReserveStopped, Publish
  <2>2. src[s] = "closed" => FALSE
    BY <2>1 DEF ShutdownInv, ShutdownOrder, Quiet, Parties
  <2>3. QED BY <1>1, <2>2 DEF ResultOf, VerdictInv
<1>4. CASE ReserveSlot(s, p) \/ ReserveStopped(s, p)
  <2>1. PICK at \in {"publishing", "reserved", "refused"} :
          /\ Goto(s, p, at)
          /\ at = "refused" => RunDone(s)
          /\ at = "publishing" => SendsError(s, p) /\ result'[s][p] = [found |-> 0, err |-> "source"]
          /\ at # "publishing" => result'[s][p] = result[s][p]
    BY <1>4 DEF ReserveSlot, ReserveStopped, TypeOK
  <2>2. pc[s][p] = "reserving" /\ UNCHANGED queue
    BY <1>4 DEF ReserveSlot, ReserveStopped
  <2>3. \A q \in Parties : q # p => result'[s][q] = result[s][q]
    BY <1>4 DEF ReserveSlot, ReserveStopped, TypeOK
  <2>4. /\ pc'[s][p] = at
        /\ \A q \in Parties : q # p => pc'[s][q] = pc[s][q]
    BY <2>1, GotoElsewhere
  <2>5. QueueInv(s)' /\ HandledInv(s)'
    BY <1>1, <2>1, <2>2, <2>3, PartyUnnoticed
  <2>6. SourceInv(s)'
    BY <1>1, <1>2, <2>1, <2>2, <2>4 DEF ResultOf, SourceInv, Cancellation
  <2>7. AnswerInv(s)'
    <3>1. /\ result'[s][SourceEnd].found = 0
          /\ pc'[s][SourceEnd] \in {"publishing", "sent"} => result'[s][SourceEnd].err = "source"
      BY <2>1, <2>2, <2>3, <2>4 DEF ResultOf, AnswerInv
    <3>2. ASSUME NEW y \in Yields, y = p
          PROVE  /\ result'[s][y].found <= offer'[s][y].found
                 /\ pc'[s][y] = "skipped" => offer'[s][y].kind = "empty"
                 /\ pc'[s][y] \in {"publishing", "sent"} => RunDone(s)' \/ Answered(s, y)'
      <4>1. offer[s][y].found \in Nat /\ result[s][y].found <= offer[s][y].found
        BY DEF TypeOK, Item, ResultOf, AnswerInv
      <4>2. at = "publishing" => offer[s][y].kind = "error"
        BY <2>1, <3>2 DEF SendsError
      <4>3. QED BY <1>1, <2>1, <2>4, <3>2, <4>1, <4>2 DEF Answered
    <3>3. ASSUME NEW y \in Yields, y # p
          PROVE  /\ result'[s][y].found <= offer'[s][y].found
                 /\ pc'[s][y] = "skipped" => offer'[s][y].kind = "empty"
                 /\ pc'[s][y] \in {"publishing", "sent"} => RunDone(s)' \/ Answered(s, y)'
      <4>1. result'[s][y] = result[s][y] /\ pc'[s][y] = pc[s][y] /\ offer' = offer
        BY <1>1, <2>3, <2>4, <3>3
      <4>2. Answered(s, y)' <=> Answered(s, y)
        BY <4>1 DEF Answered
      <4>3. QED BY <1>2, <4>1, <4>2 DEF ResultOf, AnswerInv
    <3>4. QED BY <3>1, <3>2, <3>3 DEF AnswerInv
  <2>8. QED BY <1>3, <2>5, <2>6, <2>7 DEF ResultOf
<1>5. CASE Publish(s, p)
  <2>1. /\ pc[s][p] = "publishing" /\ Goto(s, p, "sent") /\ UNCHANGED result
        /\ queue'[s] = Append(queue[s], p)
    BY <1>5 DEF Publish, TypeOK
  <2>2. /\ pc'[s][p] = "sent"
        /\ \A q \in Parties : q # p => pc'[s][q] = pc[s][q]
    BY <2>1, GotoElsewhere
  <2>3. p \notin Range(queue[s]) /\ (con[s] \in AtResult => cur[s] # p)
    BY <2>1 DEF ResultOf, QueueInv
  <2>4. Range(queue[s])' = Range(queue[s]) \cup {p} /\ Distinct(queue[s])'
    <3>1. queue[s] \in Seq(Parties) /\ Distinct(queue[s])
      BY DEF TypeOK, ResultOf, QueueInv
    <3>2. QED BY <2>1, <2>3, <3>1, RangeOfAppend
  <2>5. Range(queue[s]) \subseteq Parties /\ cur[s] \in Parties
    <3>1. queue[s] \in Seq(Parties) /\ cur[s] \in Parties
      BY DEF TypeOK
    <3>2. /\ DOMAIN queue[s] = 1 .. Len(queue[s])
          /\ \A i \in 1 .. Len(queue[s]) : queue[s][i] \in Parties
      BY <3>1, ElementOfSeq, LenProperties
    <3>3. QED BY <3>1, <3>2 DEF Range
  <2>6. QueueInv(s)'
    BY <1>1, <2>2, <2>3, <2>4, <2>5 DEF ResultOf, QueueInv
  <2>7. \A q \in Parties : Pending(s, q)' <=> Pending(s, q)
    BY <2>1, <2>2, <2>4 DEF Pending
  <2>8. HandledInv(s)'
    BY <1>1, <2>1, <2>7 DEF ResultOf, HandledInv, Settled
  <2>9. AnswerInv(s)'
    BY <1>1, <1>2, <2>1, <2>2 DEF ResultOf, AnswerInv, Answered
  <2>10. SourceInv(s)'
    BY <1>1, <1>2, <2>1, <2>2 DEF ResultOf, SourceInv, Cancellation
  <2>11. QED BY <1>3, <2>6, <2>8, <2>9, <2>10 DEF ResultOf
<1>6. QED BY <1>4, <1>5 DEF PartyStep

LEMMA ResultProducer ==
  ASSUME SlotInv, NEW s \in Scans, ResultOf(s), ProducerStep(s)
  PROVE  ResultOf(s)'
<1> SourceEnd \in Parties /\ Yields \subseteq Parties /\ SourceEnd \notin Yields
  BY CallsAssumption DEF Parties
<1> TypeOK
  BY DEF SlotInv
<1>1. /\ UNCHANGED <<offer, result, queue, con, cur, left, handled, scanErr, canceled, ctxDone>>
      /\ src[s] \in {"fragments", "waiting", "reporting"}
  BY DEF ProducerStep, SourceReturn, WorkersDone, CloseResults, calls, consume
<1>2. RunDone(s)' <=> RunDone(s)
  BY <1>1 DEF RunDone
<1>3. VerdictInv(s)'
  BY <1>1 DEF ResultOf, VerdictInv
<1>4. CASE UNCHANGED pc
  <2>1. \A p : Pending(s, p)' <=> Pending(s, p)
    BY <1>1, <1>4 DEF Pending
  <2>2. HandledInv(s)'
    BY <1>1, <2>1 DEF ResultOf, HandledInv, Settled
  <2>3. QueueInv(s)'
    BY <1>1, <1>4 DEF ResultOf, QueueInv
  <2>4. AnswerInv(s)'
    BY <1>1, <1>2, <1>4 DEF ResultOf, AnswerInv, Answered
  <2>5. SourceInv(s)'
    <3>1. CASE SourceReturn(s)
      <4>1. PICK errs \in SUBSET {"stop", "fail"} :
              /\ errs = {} =>
                   \/ \A y \in Yields : pc[s][y] # "ready" \/ offer[s][y].kind = "canceled"
                   \/ \E y \in Yields : pc[s][y] = "refused"
              /\ srcErr' = [srcErr EXCEPT ![s] = errs]
        BY <3>1 DEF SourceReturn
      <4>2. srcErr'[s] = errs /\ src'[s] = "waiting"
        BY <3>1, <4>1 DEF SourceReturn, TypeOK
      <4>3. QED BY <1>1, <1>2, <1>4, <4>1, <4>2 DEF ResultOf, SourceInv, Cancellation
    <3>2. CASE WorkersDone(s)
      <4>1. src[s] = "waiting" /\ UNCHANGED srcErr
        BY <3>2 DEF WorkersDone
      <4>2. /\ src'[s] \in {"reporting", "closed"}
            /\ srcErr[s] = {} \/ "stop" \in srcErr[s] \/ src'[s] # "closed"
        BY <3>2 DEF WorkersDone, IsPipelineStop, TypeOK
      <4>3. QED BY <1>1, <1>2, <1>4, <4>1, <4>2 DEF ResultOf, SourceInv, Cancellation
    <3>3. CASE CloseResults(s)
      BY <1>1, <1>2, <1>4, <3>3 DEF CloseResults, ResultOf, SourceInv, Cancellation
    <3>4. QED BY <3>1, <3>2, <3>3 DEF ProducerStep
  <2>6. QED BY <1>3, <2>2, <2>3, <2>4, <2>5 DEF ResultOf
<1>5. CASE WorkersDone(s) /\ Goto(s, SourceEnd, "reserving") /\ src' = [src EXCEPT ![s] = "reporting"]
  <2>1. /\ src[s] = "waiting" /\ pc[s][SourceEnd] = "ready" /\ UNCHANGED srcErr
        /\ src'[s] = "reporting"
    BY <1>5 DEF WorkersDone, SlotInv, ControlInv, TypeOK
  <2>2. /\ pc'[s][SourceEnd] = "reserving"
        /\ \A q \in Parties : q # SourceEnd => pc'[s][q] = pc[s][q]
    BY <1>5, GotoElsewhere
  <2>3. QueueInv(s)' /\ HandledInv(s)'
    BY <1>1, <1>5, <2>1, PartyUnnoticed
  <2>4. SourceInv(s)'
    BY <1>1, <1>2, <2>1, <2>2 DEF ResultOf, SourceInv, Cancellation
  <2>5. AnswerInv(s)'
    BY <1>1, <1>2, <2>1, <2>2 DEF ResultOf, AnswerInv, Answered
  <2>6. QED BY <1>3, <2>3, <2>4, <2>5 DEF ResultOf
<1>6. QED
  BY <1>4, <1>5 DEF ProducerStep, SourceReturn, WorkersDone, CloseResults, calls

-----------------------------------------------------------------------------
(* The steps of the consumer.                                              *)

(* What the consumer does never touches the source's side.                 *)
LEMMA SourceSideKept ==
  ASSUME NEW s \in Scans, ResultOf(s), RunDone(s) => RunDone(s)',
         UNCHANGED <<offer, pc, result, src, srcErr>>
  PROVE  AnswerInv(s)' /\ SourceInv(s)'
BY DEF ResultOf, AnswerInv, SourceInv, Cancellation, Answered

(* Out of the loop, the consumer only empties the channel.                 *)
LEMMA OverSound ==
  ASSUME NEW s \in Scans, ResultOf(s), con'[s] \in Over, Distinct(queue'[s]),
         Range(queue'[s]) \subseteq Range(queue[s]), UNCHANGED <<pc, handled>>
  PROVE  QueueInv(s)' /\ HandledInv(s)'
BY DEF ResultOf, QueueInv, HandledInv, Pending, AtResult, Over

LEMMA ResultConsumer ==
  ASSUME SlotInv, ShutdownInv, NEW s \in Scans, ResultOf(s), ConsumerStep(s)
  PROVE  ResultOf(s)'
<1> SourceEnd \in Parties /\ Yields \subseteq Parties /\ SourceEnd \notin Yields
  BY CallsAssumption DEF Parties
<1> TypeOK
  BY DEF SlotInv
<1> DEFINE c == cur[s]
<1>0. c \in Parties /\ queue[s] \in Seq(Parties) /\ left[s] \in Nat
      /\ con[s] \in {"idle", "receive", "release", "handle", "calling", "drain", "drainRelease", "done"}
      /\ \A p \in Parties : handled[s][p] \in Nat
      /\ \A q \in Parties : result[s][q].found \in Nat
  BY DEF TypeOK, Results
<1>1. AnswerInv(s)' /\ SourceInv(s)'
  <2>1. UNCHANGED <<offer, pc, result, src, srcErr, ctxDone>>
    BY DEF ConsumerStep, Receive, ReleaseSlot, CallHandler, HandlerOK, HandlerFails,
           StopBetweenFindings, EndResult, ResultsExhausted, Drain, DrainRelease,
           Return, calls, source
  <2>2. canceled[s] => canceled'[s]
    BY DEF ConsumerStep, Receive, ReleaseSlot, CallHandler, HandlerOK, HandlerFails,
           StopBetweenFindings, EndResult, ResultsExhausted, Drain, DrainRelease,
           Return, Leave, TypeOK
  <2>3. QED BY <2>1, <2>2, SourceSideKept DEF RunDone
<1>2. ASSUME QueueInv(s)', HandledInv(s)', VerdictInv(s)' PROVE ResultOf(s)'
  BY <1>1, <1>2 DEF ResultOf
<1>3. queue[s] # <<>> => /\ Range(Tail(queue[s])) = Range(queue[s]) \ {Head(queue[s])}
                         /\ Head(queue[s]) \in Range(queue[s])
                         /\ Distinct(Tail(queue[s]))
  BY <1>0, RangeOfTail DEF ResultOf, QueueInv
<1>4. CASE Receive(s)
  <2>1. /\ con[s] = "receive" /\ con'[s] = "release" /\ queue[s] # <<>>
        /\ cur'[s] = Head(queue[s]) /\ queue'[s] = Tail(queue[s])
        /\ UNCHANGED <<offer, pc, result, src, srcErr, left, handled, scanErr, canceled, ctxDone>>
    BY <1>4 DEF Receive, TypeOK, source
  <2>2. QueueInv(s)'
    BY <1>3, <2>1 DEF ResultOf, QueueInv
  <2>3. \A p \in Parties : Pending(s, p)' <=> Pending(s, p) /\ p # cur'[s]
    BY <1>3, <2>1 DEF ResultOf, QueueInv, Pending
  <2>4. Pending(s, cur'[s]) /\ cur'[s] \in Parties
    BY <1>0, <1>3, <2>1, HeadTailProperties DEF Pending
  <2>5. HandledInv(s)'
    BY <2>1, <2>3, <2>4 DEF ResultOf, HandledInv, Settled, AtResult, Over
  <2>6. VerdictInv(s)'
    BY <2>1 DEF ResultOf, VerdictInv, Complete, SaidStopped, Offered,
           Over
  <2>7. QED BY <1>2, <2>2, <2>5, <2>6
<1>5. CASE ReleaseSlot(s)
  <2>1. /\ con[s] = "release" /\ con'[s] = "handle" /\ left'[s] = result[s][c].found
        /\ UNCHANGED <<offer, pc, result, queue, src, srcErr, cur, handled, scanErr, canceled, ctxDone>>
    BY <1>5 DEF ReleaseSlot, TypeOK, source
  <2>2. QueueInv(s)'
    BY <2>1 DEF ResultOf, QueueInv, AtResult
  <2>3. HandledInv(s)'
    BY <1>0, <2>1 DEF ResultOf, HandledInv, Pending, Settled, AtResult, Over
  <2>4. VerdictInv(s)'
    BY <2>1 DEF ResultOf, VerdictInv, Complete, SaidStopped, Offered,
           Over
  <2>5. QED BY <1>2, <2>2, <2>3, <2>4
<1>6. CASE CallHandler(s)
  <2>1. /\ con[s] = "handle" /\ con'[s] = "calling"
        /\ handled'[s][c] = handled[s][c] + 1
        /\ \A p \in Parties : p # c => handled'[s][p] = handled[s][p]
        /\ UNCHANGED <<offer, pc, result, queue, src, srcErr, cur, left, scanErr, canceled, ctxDone>>
    BY <1>6 DEF CallHandler, TypeOK, source, calls
  <2>2. QueueInv(s)'
    BY <2>1 DEF ResultOf, QueueInv, AtResult
  <2>3. ~Pending(s, c)
    BY <2>1 DEF ResultOf, QueueInv, AtResult, Pending
  <2>4. \A p \in Parties : Pending(s, p)' <=> Pending(s, p)
    BY <2>1 DEF Pending
  <2>5. HandledInv(s)'
    <3>1. handled'[s][c] + left'[s] = result'[s][c].found + 1
      <4>1. handled[s][c] + left[s] = result[s][c].found
        BY <2>1 DEF ResultOf, HandledInv
      <4>2. handled[s][c] \in Nat /\ left[s] \in Nat /\ result[s][c].found \in Nat
        BY <1>0
      <4>3. left' = left /\ result' = result /\ handled'[s][c] = handled[s][c] + 1
        BY <2>1
      <4> HIDE DEF c
      <4>4. QED BY <4>1, <4>2, <4>3
    <3>2. \A p \in Parties : p # c => (Settled(s, p)' <=> Settled(s, p))
      BY <2>1 DEF Settled
    <3>3. \A p \in Parties : Pending(s, p)' => handled'[s][p] = 0
      BY <2>1, <2>3, <2>4 DEF ResultOf, HandledInv
    <3>4. \A p \in Parties : Pending(s, p)' \/ Settled(s, p)' \/ p = c
      <4>1. \A p \in Parties : Pending(s, p) \/ Settled(s, p) \/ p = c
        BY <2>1 DEF ResultOf, HandledInv, Over
      <4>2. QED BY <2>4, <3>2, <4>1
    <3>5. cur'[s] = c /\ con'[s] = "calling"
      BY <2>1
    <3>6. QED BY <3>1, <3>3, <3>4, <3>5 DEF HandledInv, AtResult
  <2>6. VerdictInv(s)'
    BY <2>1 DEF ResultOf, VerdictInv, Over
  <2>7. QED BY <1>2, <2>2, <2>5, <2>6
<1>7. CASE HandlerOK(s)
  <2>1. /\ con[s] = "calling" /\ con'[s] = "handle" /\ left'[s] = left[s] - 1 /\ left[s] > 0
        /\ UNCHANGED <<offer, pc, result, queue, src, srcErr, cur, handled, scanErr, canceled, ctxDone>>
    BY <1>7 DEF HandlerOK, TypeOK, source, calls, SlotInv, ControlInv
  <2>2. QueueInv(s)'
    BY <2>1 DEF ResultOf, QueueInv, AtResult
  <2>3. HandledInv(s)'
    <3>1. handled'[s][c] + left'[s] = result'[s][c].found
      <4>1. handled[s][c] \in Nat /\ result[s][c].found \in Nat /\ left[s] \in Nat
        BY <1>0
      <4>2. handled[s][c] + left[s] = result[s][c].found + 1
        BY <2>1 DEF ResultOf, HandledInv
      <4>3. QED BY <2>1, <4>1, <4>2
    <3>2. QED BY <2>1, <3>1 DEF ResultOf, HandledInv, Pending, Settled, AtResult, Over
  <2>4. VerdictInv(s)'
    BY <2>1 DEF ResultOf, VerdictInv, Complete, SaidStopped, Offered,
           Over
  <2>5. QED BY <1>2, <2>2, <2>3, <2>4
(* The loop is left for a reason other than a complete scan.               *)
<1>8. ASSUME con[s] \in AtResult, NEW errs, Leave(s, errs), errs # {} \/ ctxDone[s],
             UNCHANGED <<offer, pc, result, queue, src, srcErr, cur, left, handled, ctxDone>>
      PROVE  ResultOf(s)'
  <2>1. con'[s] = "drain" /\ canceled'[s] /\ scanErr'[s] = scanErr[s] \cup errs
    BY <1>8 DEF Leave, TypeOK
  <2>2. QueueInv(s)' /\ HandledInv(s)'
    BY <1>8, <2>1, OverSound DEF ResultOf, QueueInv, Over
  <2>3. VerdictInv(s)'
    BY <1>8, <2>1 DEF VerdictInv, Over
  <2>4. QED BY <1>2, <2>2, <2>3
<1>9. CASE HandlerFails(s)
  BY <1>8, <1>9 DEF HandlerFails, AtResult, calls, source
<1>10. CASE StopBetweenFindings(s)
  <2>1. ctxDone[s]
    BY <1>10 DEF StopBetweenFindings, RunDone, ResultOf, VerdictInv, Over
  <2>2. QED BY <1>8, <1>10, <2>1 DEF StopBetweenFindings, AtResult, calls, source
<1>11. CASE EndResult(s)
  <2>1. CASE Leave(s, {"detect"})
    BY <1>8, <1>11, <2>1 DEF EndResult, AtResult, calls, source
  <2>2. CASE /\ result[s][c].err # "detect"
             /\ scanErr' = [scanErr EXCEPT ![s] = @ \cup ({result[s][c].err} \ {"none"})]
             /\ con' = [con EXCEPT ![s] = "receive"]
             /\ UNCHANGED canceled
    <3>1. /\ con[s] = "handle" /\ con'[s] = "receive" /\ left[s] = 0
          /\ scanErr'[s] = scanErr[s] \cup ({result[s][c].err} \ {"none"})
          /\ UNCHANGED <<offer, pc, result, queue, src, srcErr, cur, handled, canceled, ctxDone>>
      BY <1>11, <2>2 DEF EndResult, TypeOK, source, calls
    <3>2. QueueInv(s)'
      BY <3>1 DEF ResultOf, QueueInv, AtResult
    <3>3. Settled(s, c)'
      BY <1>0, <2>2, <3>1 DEF ResultOf, HandledInv, Settled
    <3>4. \A p \in Parties : Settled(s, p) => Settled(s, p)'
      BY <3>1 DEF Settled
    <3>5. \A p \in Parties : Pending(s, p)' <=> Pending(s, p)
      BY <3>1 DEF Pending
    <3>6. HandledInv(s)'
      BY <3>1, <3>3, <3>4, <3>5 DEF ResultOf, HandledInv, AtResult, Over
    <3>7. result[s][c].err \in {"none", "source"}
      BY <1>0, <2>2 DEF TypeOK, Results
    <3>8. VerdictInv(s)'
      BY <3>1, <3>7 DEF ResultOf, VerdictInv, Over
    <3>9. QED BY <1>2, <3>2, <3>6, <3>8
  <2>3. QED BY <1>11, <2>1, <2>2 DEF EndResult
<1>12. CASE ResultsExhausted(s)
  <2>1. /\ con[s] = "receive" /\ con'[s] = "drain" /\ canceled'[s] /\ queue[s] = <<>>
        /\ src[s] = "closed" /\ scanErr'[s] = scanErr[s]
        /\ UNCHANGED <<offer, pc, result, queue, src, srcErr, cur, left, handled, ctxDone>>
    BY <1>12 DEF ResultsExhausted, Leave, TypeOK, source, calls
  <2>2. QueueInv(s)' /\ HandledInv(s)'
    BY <2>1, OverSound DEF ResultOf, QueueInv, Over
  <2>3. ASSUME ~ctxDone[s], scanErr[s] = {} PROVE Complete(s)
    <3>1. ~RunDone(s)
      BY <2>1, <2>3 DEF ResultOf, VerdictInv, RunDone, Over
    <3>2. Range(queue[s]) = {}
      BY <2>1 DEF Range
    <3>3. \A p \in Parties : pc[s][p] = "sent" => Settled(s, p)
      BY <2>1, <3>2 DEF ResultOf, HandledInv, Pending, AtResult, Over
    <3>4. srcErr[s] = {} \/ "stop" \in srcErr[s]
      <4>1. pc[s][SourceEnd] = "sent" => "source" \in scanErr[s]
        BY <3>3 DEF ResultOf, AnswerInv, Settled
      <4>2. QED BY <2>1, <2>3, <3>1, <4>1 DEF ResultOf, SourceInv, Cancellation
    <3>5. ASSUME NEW y \in Offered(s)
          PROVE  /\ offer[s][y].kind \notin {"error", "broken"}
                 /\ offer[s][y].kind = "fragment" => handled[s][y] = offer[s][y].found
      <4>0. y \in Yields /\ pc[s][y] # "ready"
        BY DEF Offered
      <4>1. pc[s][y] \in {"sent", "skipped", "refused"}
        BY <2>1, <4>0 DEF ShutdownInv, ShutdownOrder, Quiet
      <4>2. CASE pc[s][y] = "refused"
        BY <3>1, <4>0, <4>2 DEF ResultOf, SourceInv, Cancellation
      <4>3. CASE pc[s][y] = "skipped"
        BY <4>0, <4>3 DEF ResultOf, AnswerInv
      <4>4. CASE pc[s][y] = "sent"
        <5>1. Settled(s, y) /\ Answered(s, y)
          BY <3>1, <3>3, <4>0, <4>4 DEF ResultOf, AnswerInv
        <5>2. QED BY <2>3, <5>1 DEF Settled, Answered
      <4>5. QED BY <4>1, <4>2, <4>3, <4>4
    <3>6. ASSUME srcErr[s] = {}, ~SaidStopped(s), NEW y \in Yields \ Offered(s)
          PROVE  offer[s][y].kind = "canceled"
      <4>1. \A z \in Yields : pc[s][z] # "refused"
        BY <3>1, <3>6 DEF ResultOf, SourceInv, Cancellation, SaidStopped, Offered
      <4>2. QED BY <2>1, <3>6, <4>1 DEF ResultOf, SourceInv, Offered
    <3>7. QED BY <3>4, <3>5, <3>6 DEF Complete, SaidStopped
  <2>4. VerdictInv(s)'
    BY <2>1, <2>3 DEF ResultOf, VerdictInv, Complete, SaidStopped, Offered,
           Over
  <2>5. QED BY <1>2, <2>2, <2>4
<1>13. CASE Drain(s)
  <2>1. /\ con[s] = "drain" /\ con'[s] = "drainRelease" /\ queue[s] # <<>>
        /\ queue'[s] = Tail(queue[s])
        /\ UNCHANGED <<offer, pc, result, src, srcErr, handled, scanErr, canceled, ctxDone>>
    BY <1>13 DEF Drain, TypeOK, source
  <2>2. QueueInv(s)' /\ HandledInv(s)'
    BY <1>3, <2>1, OverSound DEF Over
  <2>3. VerdictInv(s)'
    BY <2>1 DEF ResultOf, VerdictInv, Complete, SaidStopped, Offered,
           Over
  <2>4. QED BY <1>2, <2>2, <2>3
<1>14. CASE DrainRelease(s) \/ Return(s)
  <2>1. /\ con[s] \in Over /\ con'[s] \in Over /\ con[s] # "done"
        /\ con'[s] = "done" /\ ctxDone[s] => scanErr'[s] # {}
        /\ scanErr[s] \subseteq scanErr'[s]
        /\ "handler" \in scanErr'[s] => "handler" \in scanErr[s]
        /\ "detect" \in scanErr'[s] => "detect" \in scanErr[s]
        /\ UNCHANGED <<offer, pc, result, queue, src, srcErr, cur, left, handled, canceled, ctxDone>>
    <3>1. CASE DrainRelease(s)
      BY <3>1 DEF DrainRelease, Over, TypeOK, source, calls
    <3>2. CASE Return(s)
      <4>1. scanErr'[s] = scanErr[s] \cup IF ctxDone[s] THEN {"ctx"} ELSE {}
        BY <3>2 DEF Return, TypeOK
      <4>2. con[s] = "drain" /\ con'[s] = "done"
        BY <3>2 DEF Return, TypeOK
      <4>3. QED BY <3>2, <4>1, <4>2 DEF Return, Over, source, calls
    <3>3. QED BY <1>14, <3>1, <3>2
  <2>2. QueueInv(s)' /\ HandledInv(s)'
    BY <2>1, OverSound DEF ResultOf, QueueInv
  <2>3. VerdictInv(s)'
    BY <2>1 DEF ResultOf, VerdictInv, Complete, SaidStopped, Offered
  <2>4. QED BY <1>2, <2>2, <2>3
<1>15. QED
  BY <1>4, <1>5, <1>6, <1>7, <1>9, <1>10, <1>11, <1>12, <1>13, <1>14 DEF ConsumerStep

-----------------------------------------------------------------------------
(* ResultInv is inductive relative to the earlier layers.                  *)

LEMMA ResultStep ==
  ASSUME SlotInv, ShutdownInv, ResultInv, [Next]_vars
  PROVE  ResultInv'
<1> SUFFICES ASSUME NEW t \in Scans PROVE ResultOf(t)'
  BY DEF ResultInv
<1> TypeOK /\ \A s \in Scans : ResultOf(s)
  BY DEF SlotInv, ResultInv
<1>1. ASSUME NEW s \in Scans, NEW y \in Yields, YieldStep(s, y) PROVE ResultOf(t)'
  BY <1>1, ResultYield, YieldLocal, ElsewhereSound
<1>2. ASSUME NEW s \in Scans, NEW p \in Parties, PartyStep(s, p) PROVE ResultOf(t)'
  BY <1>2, ResultParty, PartyLocal, ElsewhereSound
<1>3. ASSUME NEW s \in Scans, ProducerStep(s) PROVE ResultOf(t)'
  BY <1>3, ResultProducer, ProducerLocal, ElsewhereSound
<1>4. ASSUME NEW s \in Scans, ConsumerStep(s) PROVE ResultOf(t)'
  BY <1>4, ResultConsumer, ConsumerLocal, ElsewhereSound
<1>5. ASSUME NEW s \in Scans, StartScan(s) PROVE ResultOf(t)'
  <2>1. CASE t # s
    <3>1. UNCHANGED Local(t)
      BY <1>5, <2>1 DEF StartScan, Local, calls, TypeOK
    <3>2. QED BY <3>1, ElsewhereSound
  <2>2. CASE t = s
    <3>1. /\ con[s] = "idle" /\ con'[s] = "receive"
          /\ src[s] = "idle" /\ src'[s] = "fragments"
          /\ UNCHANGED <<offer, pc, result, queue, srcErr, left, handled, scanErr, canceled, ctxDone>>
      BY <1>5 DEF StartScan, calls, TypeOK, SlotInv, ControlInv
    <3>2. QueueInv(s)' /\ HandledInv(s)'
      BY <3>1 DEF ResultOf, QueueInv, HandledInv, Pending, Settled, AtResult, Over
    <3>3. AnswerInv(s)' /\ SourceInv(s)'
      BY <3>1 DEF ResultOf, AnswerInv, Answered, SourceInv, Cancellation, RunDone
    <3>4. VerdictInv(s)'
      BY <3>1 DEF ResultOf, VerdictInv, Over
    <3>5. QED BY <2>2, <3>2, <3>3, <3>4 DEF ResultOf
  <2>3. QED BY <2>1, <2>2
<1>6. ASSUME NEW s \in Scans, CancelCaller(s) PROVE ResultOf(t)'
  <2>1. CASE t # s
    <3>1. UNCHANGED Local(t)
      BY <1>6, <2>1 DEF CancelCaller, Local, calls, source, consume, TypeOK
    <3>2. QED BY <3>1, ElsewhereSound
  <2>2. CASE t = s
    <3>1. /\ con[s] # "done" /\ ctxDone'[s]
          /\ UNCHANGED <<offer, pc, result, queue, src, srcErr, con, cur, left, handled, scanErr, canceled>>
      BY <1>6 DEF CancelCaller, calls, source, consume, TypeOK
    <3>2. QueueInv(s)' /\ HandledInv(s)'
      BY <3>1 DEF ResultOf, QueueInv, HandledInv, Pending, Settled
    <3>3. AnswerInv(s)' /\ SourceInv(s)'
      BY <3>1, SourceSideKept DEF RunDone
    <3>4. VerdictInv(s)'
      BY <3>1 DEF ResultOf, VerdictInv
    <3>5. QED BY <2>2, <3>2, <3>3, <3>4 DEF ResultOf
  <2>3. QED BY <2>1, <2>2
<1>7. ASSUME NEW c \in Callers, CallerStep(c) PROVE ResultOf(t)'
  BY <1>7, CallerLocal, ElsewhereSound
<1>8. CASE UNCHANGED vars
  <2>1. UNCHANGED Local(t)
    BY <1>8 DEF vars, Local, calls, source, consume
  <2>2. QED BY <2>1, ElsewhereSound
<1>9. QED
  BY <1>1, <1>2, <1>3, <1>4, <1>5, <1>6, <1>7, <1>8 DEF Next, Finished

LEMMA ResultAlways == Spec => []ResultInv
<1>1. Init => ResultInv
  <2> SUFFICES ASSUME Init, NEW s \in Scans PROVE ResultOf(s)
    BY DEF ResultInv
  <2>1. offer \in [Scans -> [Yields -> Item]] /\ SourceEnd \in Parties /\ Yields \subseteq Parties
    BY OffersAssumption DEF Init, Parties
  <2>2. DOMAIN queue[s] = {} /\ Range(queue[s]) = {}
    BY DEF Init, Range
  <2>3. QueueInv(s) /\ HandledInv(s) /\ SourceInv(s) /\ VerdictInv(s)
    BY <2>1, <2>2 DEF Init, QueueInv, Distinct, HandledInv, Pending, SourceInv, VerdictInv,
                      AtResult, Over
  <2>4. AnswerInv(s)
    BY <2>1 DEF Init, AnswerInv, NoResult, Item
  <2>5. QED BY <2>3, <2>4 DEF ResultOf
<1>2. SlotInv /\ ShutdownInv /\ ResultInv /\ [Next]_vars => ResultInv'
  BY ResultStep
<1>3. QED BY <1>1, <1>2, SlotInvAlways, ShutdownAlways, PTL DEF Spec

(* A nil error of Scan is a promise: everything the source handed over was *)
(* scanned to the end, every finding went to the handler, nothing failed,  *)
(* and unless the source spoke of a cancellation it handed over all it has.*)
(* Nothing is assumed of the source but that its nil means exhausted.      *)
THEOREM NilIsComplete == Spec => []NilMeansComplete
<1>1. ResultInv => NilMeansComplete
  BY DEF ResultInv, ResultOf, VerdictInv, NilMeansComplete, Complete, Over
<1>2. QED BY <1>1, ResultAlways, PTL

-----------------------------------------------------------------------------
(* Scan joins errors and never forgets one, and a scan whose handler or    *)
(* whose detection has failed calls no handler again.                      *)
THEOREM StopsForGood == Spec => StopIsFinal
<1> DEFINE A(s) == /\ scanErr[s] \subseteq scanErr'[s]
                   /\ scanErr[s] \cap {"handler", "detect"} # {} => handled'[s] = handled[s]
<1>1. SlotInv /\ ResultInv /\ [Next]_vars => [\A s \in Scans : A(s)]_vars
  <2> SUFFICES ASSUME SlotInv, ResultInv, Next, NEW t \in Scans PROVE A(t)
    OBVIOUS
  <2> TypeOK
    BY DEF SlotInv
  <2>1. CASE UNCHANGED Local(t)
    BY <2>1 DEF Local
  <2>2. ASSUME NEW s \in Scans, NEW y \in Yields, YieldStep(s, y) PROVE A(t)
    BY <2>2 DEF YieldStep, BeginYield, EnterAcquire, Granted, AcquireFails, Detect, consume
  <2>3. ASSUME NEW s \in Scans, NEW p \in Parties, PartyStep(s, p) PROVE A(t)
    BY <2>3 DEF PartyStep, ReserveSlot, ReserveStopped, Publish, consume
  <2>4. ASSUME NEW s \in Scans, ProducerStep(s) PROVE A(t)
    BY <2>4 DEF ProducerStep, SourceReturn, WorkersDone, CloseResults, consume
  <2>5. ASSUME NEW s \in Scans, ConsumerStep(s) PROVE A(t)
    <3>1. CASE t # s
      BY <2>1, <2>5, <3>1, ConsumerLocal
    <3>2. CASE t = s
      <4>1. scanErr[s] \subseteq scanErr'[s]
        BY <2>5 DEF ConsumerStep, Receive, ReleaseSlot, CallHandler, HandlerOK, HandlerFails,
             StopBetweenFindings, EndResult, ResultsExhausted, Drain, DrainRelease, Return,
             Leave, TypeOK
      <4>2. CASE CallHandler(s)
        <5>1. con[s] = "handle" /\ UNCHANGED scanErr
          BY <4>2 DEF CallHandler
        <5>2. scanErr[s] \cap {"handler", "detect"} = {}
          BY <5>1 DEF ResultInv, ResultOf, VerdictInv, Over
        <5>3. QED BY <3>2, <4>1, <5>2
      <4>3. CASE ~CallHandler(s)
        <5>1. UNCHANGED handled
          BY <2>5, <4>3 DEF ConsumerStep, Receive, ReleaseSlot, HandlerOK, HandlerFails,
               StopBetweenFindings, EndResult, ResultsExhausted, Drain, DrainRelease, Return
        <5>2. QED BY <3>2, <4>1, <5>1
      <4>4. QED BY <4>2, <4>3
    <3>3. QED BY <3>1, <3>2
  <2>6. ASSUME NEW s \in Scans, StartScan(s) \/ CancelCaller(s) PROVE A(t)
    BY <2>6 DEF StartScan, CancelCaller, consume
  <2>7. ASSUME NEW c \in Callers, CallerStep(c) PROVE A(t)
    BY <2>1, <2>7, CallerLocal
  <2>8. CASE Finished
    BY <2>1, <2>8 DEF Finished, vars, Local, calls, source, consume
  <2>9. QED
    BY <2>2, <2>3, <2>4, <2>5, <2>6, <2>7, <2>8 DEF Next
<1>2. QED BY <1>1, SlotInvAlways, ResultAlways, PTL DEF Spec, StopIsFinal

-----------------------------------------------------------------------------
(* How far a source can be ahead of the handler.                           *)

LEMMA RangeBounded ==
  ASSUME NEW S, NEW q \in Seq(S)
  PROVE  IsFiniteSet(Range(q)) /\ Cardinality(Range(q)) <= Len(q) /\ Cardinality(Range(q)) \in Nat
<1>1. Len(q) \in Nat /\ DOMAIN q = 1 .. Len(q) /\ q = [i \in 1 .. Len(q) |-> q[i]]
  BY LenProperties
<1>2. q \in Surjection(1 .. Len(q), Range(q))
  <2>1. q \in [1 .. Len(q) -> Range(q)]
    BY <1>1 DEF Range
  <2>2. \A e \in Range(q) : \E i \in 1 .. Len(q) : q[i] = e
    BY <1>1 DEF Range
  <2>3. QED BY <2>1, <2>2 DEF Surjection
<1>3. IsFiniteSet(1 .. Len(q)) /\ Cardinality(1 .. Len(q)) = Len(q)
  <2>1. 1 \in Int /\ Len(q) \in Int
    BY <1>1
  <2>2. /\ IsFiniteSet(1 .. Len(q))
        /\ Cardinality(1 .. Len(q)) = IF 1 > Len(q) THEN 0 ELSE Len(q) - 1 + 1
    BY <2>1, FS_Interval
  <2>3. QED BY <1>1, <2>2
<1>4. QED BY <1>2, <1>3, FS_Surjection, FS_CardinalityType

LEMMA UnionBounded ==
  ASSUME NEW A, NEW B, IsFiniteSet(A), IsFiniteSet(B)
  PROVE  /\ IsFiniteSet(A \cup B)
         /\ Cardinality(A \cup B) <= Cardinality(A) + Cardinality(B)
         /\ Cardinality(A \cup B) \in Nat
<1>1. A \cap B \subseteq A
  OBVIOUS
<1>2. IsFiniteSet(A \cap B)
  BY <1>1, FS_Subset
<1>3. /\ Cardinality(A) \in Nat /\ Cardinality(B) \in Nat /\ Cardinality(A \cap B) \in Nat
  BY <1>2, FS_CardinalityType
<1>4. /\ IsFiniteSet(A \cup B)
      /\ Cardinality(A \cup B) = Cardinality(A) + Cardinality(B) - Cardinality(A \cap B)
  BY FS_Union
<1>5. Cardinality(A \cup B) \in Nat
  BY <1>4, FS_CardinalityType
<1>6. QED BY <1>3, <1>4, <1>5

(* A slow handler stops the source: no more fragments are in flight than   *)
(* there are result slots, and the one whose slot is already free again.   *)
THEOREM ReadsAheadBounded == Spec => []ReadAheadBounded
<1>1. SlotInv => ReadAheadBounded
  <2> SUFFICES ASSUME SlotInv, NEW s \in Scans PROVE Cardinality(InFlight(s)) <= Workers + 1
    BY DEF ReadAheadBounded
  <2> DEFINE Q == Range(queue[s])
             C == IF con[s] \in {"release", "handle", "calling"} THEN {cur[s]} ELSE {}
             n == IF con[s] \in {"release", "handle", "calling"} THEN 1 ELSE 0
  <2>1. InFlight(s) \subseteq (Reserved(s) \cup Q) \cup C
    BY DEF InFlight, Reserved, Parties
  <2>2. /\ IsFiniteSet(Reserved(s)) /\ Cardinality(Reserved(s)) \in Nat
    BY ReservedFinite
  <2>3. IsFiniteSet(Q) /\ Cardinality(Q) <= Len(queue[s]) /\ Cardinality(Q) \in Nat
    <3>1. queue[s] \in Seq(Parties)
      BY DEF SlotInv, TypeOK
    <3>2. QED BY <3>1, RangeBounded
  <2>4. IsFiniteSet(C) /\ Cardinality(C) = n
    BY FS_EmptySet, FS_Singleton
  <2> HIDE DEF Q, C
  <2>5. /\ IsFiniteSet(Reserved(s) \cup Q)
        /\ Cardinality(Reserved(s) \cup Q) <= Cardinality(Reserved(s)) + Cardinality(Q)
        /\ Cardinality(Reserved(s) \cup Q) \in Nat
    BY <2>2, <2>3, UnionBounded
  <2>6. /\ IsFiniteSet((Reserved(s) \cup Q) \cup C)
        /\ Cardinality((Reserved(s) \cup Q) \cup C) <= Cardinality(Reserved(s) \cup Q) + n
        /\ Cardinality((Reserved(s) \cup Q) \cup C) \in Nat
    BY <2>4, <2>5, UnionBounded
  <2>7. /\ Cardinality(InFlight(s)) <= Cardinality((Reserved(s) \cup Q) \cup C)
        /\ Cardinality(InFlight(s)) \in Nat
    <3>1. IsFiniteSet(InFlight(s))
      BY <2>1, <2>6, FS_Subset
    <3>2. QED BY <2>1, <2>6, <3>1, FS_Subset, FS_CardinalityType
  <2>8. /\ slots[s] = Cardinality(Reserved(s)) + Len(queue[s]) + Popped(s)
        /\ slots[s] <= Workers /\ Popped(s) \in {0, 1}
    BY DEF SlotInv, SlotsAccounted, Popped
  <2>9. Len(queue[s]) \in Nat /\ Workers \in Nat /\ n \in {0, 1}
    BY LenProperties, WorkersAssumption DEF SlotInv, TypeOK
  <2> HIDE DEF n
  <2>10. QED BY <2>2, <2>3, <2>5, <2>6, <2>7, <2>8, <2>9
<1>2. QED BY <1>1, SlotInvAlways, PTL

-----------------------------------------------------------------------------
(* The scanner implements ScanContract.                                    *)

(* The caller sees nothing of a step that moves no phase and calls no      *)
(* handler: a returned scan's verdict stands.                              *)
LEMMA Unseen ==
  ASSUME UNCHANGED <<offer, handled, srcErr>>,
         \A t \in Scans : Offered(t)' = Offered(t),
         \A t \in Scans : Phase(t)' = Phase(t) /\ Verdict(t)' = Verdict(t)
  PROVE  UNCHANGED Contract!vars
BY DEF Contract!vars

(* Only a yield call that begins adds to what the source has handed over.  *)
LEMMA OfferedKept ==
  ASSUME TypeOK, NEW s \in Scans, NEW p \in Parties, NEW at, Goto(s, p, at),
         p = SourceEnd \/ (pc[s][p] # "ready" /\ at # "ready")
  PROVE  \A t \in Scans : Offered(t)' = Offered(t)
<1>1. Yields \subseteq Parties /\ SourceEnd \notin Yields
  BY CallsAssumption DEF Parties
<1>2. /\ pc'[s][p] = at
      /\ \A t \in Scans, q \in Parties : <<t, q>> # <<s, p>> => pc'[t][q] = pc[t][q]
  BY GotoElsewhere
<1>3. \A t \in Scans, y \in Yields : pc'[t][y] # "ready" <=> pc[t][y] # "ready"
  BY <1>1, <1>2
<1>4. QED BY <1>3 DEF Offered

LEMMA ContractStep ==
  ASSUME SlotInv, ShutdownInv, ResultInv, Next
  PROVE  Contract!Next \/ UNCHANGED Contract!vars
<1> TypeOK
  BY DEF SlotInv
<1> Yields \subseteq Parties /\ SourceEnd \in Parties
  BY DEF Parties
<1> DEFINE Calls == [t \in Scans |-> Offered(t)]
           P     == [t \in Scans |-> Phase(t)]
           V     == [t \in Scans |-> Verdict(t)]
           D     == [t \in Scans |-> [z \in Yields |-> handled[t][z]]]
<1>0. ASSUME UNCHANGED <<offer, handled, con, scanErr, srcErr>>,
             \A t \in Scans : Offered(t)' = Offered(t)
      PROVE  UNCHANGED Contract!vars
  BY <1>0, Unseen DEF Phase, Verdict
<1>1. CASE UNCHANGED <<offer, handled, con, scanErr, srcErr, pc>>
  BY <1>0, <1>1 DEF Offered
(* While the source runs, the call of Scan has begun and has not returned. *)
<1>a. ASSUME NEW s \in Scans, src[s] = "fragments" PROVE Phase(s) = "running"
  BY <1>a DEF SlotInv, ControlInv, ShutdownInv, ShutdownOrder, Phase
<1>2. ASSUME NEW s \in Scans, NEW y \in Yields, YieldStep(s, y)
      PROVE  Contract!Next \/ UNCHANGED Contract!vars
  <2>1. UNCHANGED <<offer, handled, con, scanErr, srcErr>>
    BY <1>2 DEF YieldStep, BeginYield, EnterAcquire, Granted, AcquireFails, Detect, consume,
                source
  <2>2. CASE BeginYield(s, y)
    <3>1. PICK at : Goto(s, y, at) /\ at # "ready"
      BY <2>2 DEF BeginYield
    <3>2. pc[s][y] = "ready" /\ src[s] = "fragments"
      BY <2>2 DEF BeginYield
    <3>3. Offered(s)' = Offered(s) \cup {y} /\ y \notin Offered(s)
      BY <3>1, <3>2, GotoElsewhere DEF Offered
    <3>4. \A t \in Scans : t # s => Offered(t)' = Offered(t)
      BY <3>1, GotoElsewhere DEF Offered
    <3>5. Calls' = [Calls EXCEPT ![s] = @ \cup {y}] /\ y \notin Calls[s]
      BY <3>3, <3>4
    <3>6. UNCHANGED <<offer, P, srcErr, D, V>> /\ P[s] = "running"
      BY <1>a, <2>1, <3>2 DEF Phase, Verdict
    <3>7. Contract!HandOver(s, y)
      BY <3>5, <3>6 DEF Contract!HandOver
    <3>8. QED BY <3>7 DEF Contract!Next
  <2>3. CASE ~BeginYield(s, y)
    <3>1. PICK at : Goto(s, y, at) /\ at # "ready" /\ pc[s][y] # "ready"
      BY <1>2, <2>3 DEF YieldStep, EnterAcquire, Granted, AcquireFails, Detect
    <3>2. QED BY <1>0, <2>1, <3>1, OfferedKept
  <2>4. QED BY <2>2, <2>3
<1>3. ASSUME NEW s \in Scans, NEW p \in Parties, PartyStep(s, p)
      PROVE  UNCHANGED Contract!vars
  <2>1. UNCHANGED <<offer, handled, con, scanErr, srcErr>>
    BY <1>3 DEF PartyStep, ReserveSlot, ReserveStopped, Publish, consume, source
  <2>2. PICK at : Goto(s, p, at) /\ at # "ready" /\ pc[s][p] # "ready"
    BY <1>3 DEF PartyStep, ReserveSlot, ReserveStopped, Publish
  <2>3. QED BY <1>0, <2>1, <2>2, OfferedKept
<1>4. ASSUME NEW s \in Scans, ProducerStep(s) \/ CancelCaller(s)
      PROVE  Contract!Next \/ UNCHANGED Contract!vars
  <2>1. UNCHANGED <<offer, handled, con, scanErr>>
    BY <1>4 DEF ProducerStep, SourceReturn, WorkersDone, CloseResults, CancelCaller, consume
  <2>2. CASE SourceReturn(s)
    <3>1. PICK errs \in SUBSET {"stop", "fail"} : srcErr' = [srcErr EXCEPT ![s] = errs]
      BY <2>2 DEF SourceReturn
    <3>2. src[s] = "fragments" /\ UNCHANGED pc
      BY <2>2 DEF SourceReturn, calls
    <3>3. srcErr[s] = {}
      BY <3>2 DEF ResultInv, ResultOf, SourceInv
    <3>4. UNCHANGED <<offer, P, Calls, D, V>> /\ P[s] = "running"
      BY <1>a, <2>1, <3>2 DEF Phase, Verdict, Offered
    <3>5. Contract!Say(s)
      BY <3>1, <3>3, <3>4 DEF Contract!Say
    <3>6. QED BY <3>5 DEF Contract!Next
  <2>3. CASE WorkersDone(s) /\ ~UNCHANGED pc
    <3>1. Goto(s, SourceEnd, "reserving") /\ UNCHANGED srcErr
      BY <2>3 DEF WorkersDone
    <3>2. QED BY <1>0, <2>1, <3>1, OfferedKept
  <2>4. CASE UNCHANGED <<pc, srcErr>>
    BY <1>1, <2>1, <2>4
  <2>5. QED
    BY <1>4, <2>2, <2>3, <2>4 DEF ProducerStep, WorkersDone, CloseResults, CancelCaller,
                                  calls, source
<1>5. ASSUME NEW c \in Callers, CallerStep(c)
      PROVE  UNCHANGED <<offer, handled, con, scanErr, srcErr, pc>>
  BY <1>5 DEF CallerStep, StartCall, CallGranted, FinishCall, consume, source, calls
<1>6. ASSUME NEW s \in Scans, StartScan(s) PROVE Contract!Next
  <2>1. /\ UNCHANGED <<offer, pc, handled, scanErr, srcErr>>
        /\ con[s] = "idle" /\ con' = [con EXCEPT ![s] = "receive"]
    BY <1>6 DEF StartScan, calls
  <2>2. Contract!Begin(s)
    BY <2>1 DEF Contract!Begin, Phase, Verdict, Offered, TypeOK
  <2>3. QED BY <2>2 DEF Contract!Next
<1>7. ASSUME NEW s \in Scans, ConsumerStep(s)
      PROVE  Contract!Next \/ UNCHANGED Contract!vars
  <2>0. UNCHANGED <<offer, pc, srcErr>> /\ \A t \in Scans : Offered(t)' = Offered(t)
    BY <1>7 DEF ConsumerStep, Receive, ReleaseSlot, CallHandler, HandlerOK, HandlerFails,
           StopBetweenFindings, EndResult, ResultsExhausted, Drain, DrainRelease, Return,
           calls, source, Offered
  <2>1. CASE CallHandler(s)
    <3>1. /\ con[s] = "handle" /\ left[s] > 0 /\ con' = [con EXCEPT ![s] = "calling"]
          /\ handled' = [handled EXCEPT ![s][cur[s]] = @ + 1] /\ UNCHANGED <<offer, scanErr>>
      BY <2>1 DEF CallHandler
    <3>2. cur[s] \in Yields /\ handled[s][cur[s]] < offer[s][cur[s]].found
      <4>1. /\ cur[s] \in Parties /\ handled[s][cur[s]] \in Nat /\ left[s] \in Nat
            /\ result[s][cur[s]].found \in Nat
        BY DEF TypeOK, Results
      <4>2. handled[s][cur[s]] + left[s] = result[s][cur[s]].found
        BY <3>1 DEF ResultInv, ResultOf, HandledInv
      <4>3. cur[s] # SourceEnd
        BY <3>1, <4>1, <4>2 DEF ResultInv, ResultOf, AnswerInv
      <4>4. cur[s] \in Yields /\ result[s][cur[s]].found <= offer[s][cur[s]].found
        BY <4>1, <4>3 DEF Parties, ResultInv, ResultOf, AnswerInv
      <4>5. offer[s][cur[s]].found \in Nat
        BY <4>4 DEF TypeOK, Item
      <4>6. QED BY <3>1, <4>1, <4>2, <4>4, <4>5
    <3>3. PICK y \in Yields : y = cur[s]
      BY <3>2
    <3>a. y \in Offered(s)
      BY <3>1, <3>3 DEF ResultInv, ResultOf, QueueInv, AtResult, Offered
    <3>4. Contract!Deliver(s, y)
      <4>1. \A t \in Scans : Phase(t)' = Phase(t) /\ Verdict(t)' = Verdict(t)
        BY <3>1 DEF Phase, Verdict, TypeOK
      <4>2. Phase(s) = "running"
        BY <3>1 DEF Phase
      <4>3. \A t \in Scans, z \in Yields :
              handled'[t][z] = IF t = s /\ z = y THEN handled[t][z] + 1 ELSE handled[t][z]
        <5>1. handled' = [handled EXCEPT ![s][y] = @ + 1]
          BY <3>1, <3>3 DEF CallHandler
        <5>2. /\ handled \in [Scans -> [Parties -> Nat]]
              /\ s \in Scans /\ y \in Parties /\ Yields \subseteq Parties
          BY DEF TypeOK, Parties
        <5>3. QED BY <5>1, <5>2
      <4>4. D' = [D EXCEPT ![s][y] = @ + 1]
        <5>0. \A t \in Scans, z \in Yields : handled[t][z] \in Nat
          BY DEF TypeOK, Parties
        <5>1. D \in [Scans -> [Yields -> Nat]] /\ D' \in [Scans -> [Yields -> Nat]]
          BY <4>3, <5>0
        <5>2. \A t \in Scans, z \in Yields :
                D'[t][z] = IF t = s /\ z = y THEN D[t][z] + 1 ELSE D[t][z]
          BY <4>3
        <5> HIDE DEF D
        <5>3. \A t \in Scans : t # s => D'[t] = D[t]
          BY <5>1, <5>2
        <5>4. D'[s] = [D[s] EXCEPT ![y] = @ + 1]
          BY <5>1, <5>2
        <5>5. QED BY <5>1, <5>3, <5>4
      <4>5. D[s][y] < offer[s][y].found
        BY <3>2, <3>3
      <4> HIDE DEF D, P, V, Calls
      <4>6. P' = P /\ V' = V /\ Calls' = Calls
        BY <2>0, <4>1 DEF P, V, Calls
      <4>7. P[s] = "running" /\ y \in Calls[s]
        BY <3>a, <4>2 DEF P, Calls
      <4>8. UNCHANGED <<offer, P, Calls, srcErr, V>>
        BY <2>0, <4>6
      <4>9. QED BY <4>4, <4>5, <4>7, <4>8, Zenon DEF Contract!Deliver, D, P, V, Calls
    <3>5. Contract!Next
      BY <3>4 DEF Contract!Next
    <3>6. QED BY <3>5
  <2>2. CASE Return(s)
    <3>1. /\ con[s] = "drain" /\ con' = [con EXCEPT ![s] = "done"] /\ UNCHANGED <<offer, handled>>
          /\ scanErr' = [scanErr EXCEPT ![s] = @ \cup IF ctxDone[s] THEN {"ctx"} ELSE {}]
      BY <2>2 DEF Return
    <3>2. scanErr'[s] = {} => Contract!Complete(s)
      <4>1. scanErr'[s] = {} => scanErr[s] = {} /\ ~ctxDone[s]
        BY <3>1 DEF TypeOK
      <4>2. scanErr'[s] = {} => Complete(s)
        BY <3>1, <4>1 DEF ResultInv, ResultOf, VerdictInv, Over
      <4>3. QED BY <4>2 DEF Complete, SaidStopped, Offered, Contract!Complete
    <3>3. /\ Phase(s) = "running" /\ Phase(s)' = "returned"
          /\ \A t \in Scans : t # s => Phase(t)' = Phase(t) /\ Verdict(t)' = Verdict(t)
          /\ Verdict(s)' = IF scanErr'[s] = {} THEN "nil" ELSE "error"
      BY <3>1 DEF Phase, Verdict, TypeOK
    <3>4. Contract!Return(s)
      BY <2>0, <3>1, <3>2, <3>3 DEF Contract!Return
    <3>5. QED BY <3>4 DEF Contract!Next
  <2>3. CASE ~CallHandler(s) /\ ~Return(s)
    <3>1. /\ UNCHANGED <<offer, handled>> /\ con[s] \notin {"idle", "done"}
          /\ con'[s] \notin {"idle", "done"}
          /\ \A t \in Scans : t # s => con'[t] = con[t] /\ scanErr'[t] = scanErr[t]
      BY <1>7, <2>3 DEF ConsumerStep, Receive, ReleaseSlot, HandlerOK, HandlerFails,
           StopBetweenFindings, EndResult, ResultsExhausted, Drain, DrainRelease, Leave, TypeOK
    <3>2. QED BY <2>0, <3>1, Unseen DEF Phase, Verdict
  <2>4. QED BY <2>1, <2>2, <2>3
<1>8. CASE Finished
  BY <1>1, <1>8 DEF Finished, vars, consume, calls, source
<1>9. QED
  BY <1>1, <1>2, <1>3, <1>4, <1>5, <1>6, <1>7, <1>8 DEF Next

(* The goroutines, the channels and the semaphore of scan/scanner.go, for  *)
(* any number of scans and workers, implement the promise of Scan: each    *)
(* finding delivered at most once, none after the return, nil only when    *)
(* all that the source handed over was delivered and nothing failed, and   *)
(* the source had no more or spoke of a cancellation.                      *)
THEOREM ScannerKeepsContract == Spec => ImplementsContract
<1>1. Init => Contract!Init
  BY DEF Init, Contract!Init, Phase, Verdict, Offered, Parties
<1>2. SlotInv /\ ShutdownInv /\ ResultInv /\ [Next]_vars => [Contract!Next]_(Contract!vars)
  <2> SUFFICES ASSUME SlotInv, ShutdownInv, ResultInv, [Next]_vars
               PROVE  Contract!Next \/ UNCHANGED Contract!vars
    OBVIOUS
  <2>1. CASE Next
    BY <2>1, ContractStep
  <2>2. CASE UNCHANGED vars
    BY <2>2, Unseen DEF vars, calls, source, consume, Phase, Verdict, Offered
  <2>3. QED BY <2>1, <2>2
<1>3. QED
  BY <1>1, <1>2, SlotInvAlways, ShutdownAlways, ResultAlways, PTL
  DEF Spec, ImplementsContract, Contract!Spec
=============================================================================
