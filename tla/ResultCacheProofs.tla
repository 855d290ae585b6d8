------------------------- MODULE ResultCacheProofs -------------------------
(***************************************************************************)
(* The safety properties of ResultCache, for every set of keys and callers *)
(* and every number of calls. The inductive invariant says who owns a      *)
(* flight (Flights) and what the leader of a flight knows about its        *)
(* computation (Computations).                                             *)
(***************************************************************************)
EXTENDS ResultCache, TLAPS

Leading == {"recheck", "compute", "store", "end"}

(* A flight is held by exactly the caller that leads it, and a caller      *)
(* waits for a leader of its own key.                                      *)
Flights ==
  /\ \A c \in Callers : pc[c] \in Leading => flight[key[c]] = c
  /\ \A k \in Keys : flight[k] # NoCaller => pc[flight[k]] \in Leading /\ key[flight[k]] = k
  /\ \A c \in Callers : pc[c] = "waiting" => pc[leader[c]] \in Leading /\ key[leader[c]] = key[c]

(* What the leader of a flight holds.                                      *)
LeaderHolds(c) ==
  /\ pc[c] \in {"compute", "store", "end"} =>
       /\ result[c] \in 1 .. Len(log)
       /\ log[result[c]].key = key[c]
       /\ log[result[c]].kind # "stored" => result[c] \notin delivered
  /\ pc[c] = "compute" => log[result[c]].kind = "running"
  /\ pc[c] = "store" => log[result[c]].kind = "stored"
  /\ pc[c] = "end" => log[result[c]].kind # "running"
  /\ pc[c] = "compute" =>
       \A n \in 1 .. Len(log) : n > result[c] => log[n].key # key[c]

(* Every computation is accounted for: a running one by its leader, a      *)
(* storable one by the store or by the leader about to store it.           *)
Computations ==
  /\ \A c \in Callers : LeaderHolds(c)
  /\ \A n \in 1 .. Len(log) : log[n].kind = "running" =>
       \E c \in Callers : pc[c] = "compute" /\ result[c] = n
  /\ \A k \in Keys : store[k] # 0 => log[store[k]].key = k /\ log[store[k]].kind = "stored"
  /\ \A n \in 1 .. Len(log) : log[n].kind = "stored" =>
       \/ store[log[n].key] = n
       \/ \E c \in Callers : pc[c] = "store" /\ result[c] = n

Answers == TransientNotReused /\ AnswersOwnKey

CacheInv == TypeOK /\ Flights /\ Computations /\ NeverRecomputed /\ Answers
-----------------------------------------------------------------------------
(* Initially nobody has called.                                            *)
LEMMA CacheInit == Init => CacheInv
BY CallersAssumption DEF Init, CacheInv, TypeOK, Flights, Computations, LeaderHolds, Leading,
   NeverRecomputed, Answers, TransientNotReused, AnswersOwnKey, Returned

(* A computation ends: only its kind changes.                              *)
LEMMA LogUpdate ==
  ASSUME TypeOK, NEW n \in 1 .. Len(log), NEW kind \in Kinds,
         log' = [log EXCEPT ![n].kind = kind]
  PROVE  /\ log' \in Seq(Computation) /\ Len(log') = Len(log)
         /\ \A m \in 1 .. Len(log) : log'[m].key = log[m].key
         /\ \A m \in 1 .. Len(log) : m # n => log'[m] = log[m]
         /\ log'[n].kind = kind
<1>1. log[n] \in Computation
  BY DEF TypeOK
<1>2. log' = [log EXCEPT ![n] = [log[n] EXCEPT !.kind = kind]]
  OBVIOUS
<1>3. /\ [log[n] EXCEPT !.kind = kind] \in Computation
      /\ [log[n] EXCEPT !.kind = kind].kind = kind
      /\ [log[n] EXCEPT !.kind = kind].key = log[n].key
  BY <1>1 DEF Computation
<1>4. QED
  BY <1>2, <1>3 DEF TypeOK

(* A computation begins.                                                   *)
LEMMA LogAppend ==
  ASSUME TypeOK, NEW k \in Keys, log' = Append(log, [key |-> k, kind |-> "running"])
  PROVE  /\ log' \in Seq(Computation) /\ Len(log') = Len(log) + 1
         /\ \A m \in 1 .. Len(log) : log'[m] = log[m]
         /\ log'[Len(log) + 1] = [key |-> k, kind |-> "running"]
BY DEF TypeOK, Computation

(* Types are preserved by every step.                                      *)
LEMMA TypeStep == TypeOK /\ Computations /\ [Next]_vars => TypeOK'
<1> SUFFICES ASSUME TypeOK, Computations, [Next]_vars PROVE TypeOK'
  OBVIOUS
<1>1. CASE UNCHANGED vars
  BY <1>1 DEF vars, TypeOK
<1>2. ASSUME NEW c \in Callers, NEW k \in Keys, Call(c, k) PROVE TypeOK'
  BY <1>2 DEF Call, TypeOK
<1>3. ASSUME NEW c \in Callers, Lookup(c) PROVE TypeOK'
  <2>1. CASE Hit(c, "idle")
    <3>1. result' \in [Callers -> 0 .. Len(log)]
      BY <2>1 DEF Hit, TypeOK
    <3>2. QED
      BY <1>3, <2>1, <3>1 DEF Lookup, Hit, TypeOK
  <2>2. CASE pc' = [pc EXCEPT ![c] = "join"] /\ UNCHANGED <<leader, result, flight, hits, log>>
    BY <1>3, <2>2 DEF Lookup, TypeOK
  <2>3. QED
    BY <1>3, <2>1, <2>2 DEF Lookup
<1>4. ASSUME NEW c \in Callers, Join(c) PROVE TypeOK'
  <2>1. CASE Lead(c)
    BY <1>4, <2>1 DEF Join, Lead, TypeOK
  <2>2. CASE Wait(c)
    <3>1. flight[key[c]] \in Callers
      BY <2>2 DEF Wait, TypeOK
    <3>2. QED
      BY <1>4, <2>2, <3>1 DEF Join, Wait, TypeOK
  <2>3. QED
    BY <1>4, <2>1, <2>2 DEF Join
<1>5. ASSUME NEW c \in Callers, Recheck(c) PROVE TypeOK'
  <2>1. CASE Hit(c, "end")
    BY <1>5, <2>1 DEF Recheck, Hit, TypeOK
  <2>2. CASE Miss(c)
    <3>1. Len(log') = Len(log) + 1 /\ log' \in Seq(Computation)
      BY <2>2, LogAppend DEF Miss, TypeOK
    <3>2. QED
      BY <1>5, <2>2, <3>1 DEF Recheck, Miss, TypeOK
  <2>3. QED
    BY <1>5, <2>1, <2>2 DEF Recheck
<1>6. ASSUME NEW c \in Callers, Compute(c) PROVE TypeOK'
  <2>1. PICK kind \in Kinds :
          /\ log' = [log EXCEPT ![result[c]].kind = kind]
          /\ pc' = [pc EXCEPT ![c] = IF kind = "stored" THEN "store" ELSE "end"]
    BY <1>6 DEF Compute
  <2>2. result[c] \in 1 .. Len(log)
    BY <1>6 DEF Compute, Computations, LeaderHolds
  <2>3. Len(log') = Len(log) /\ log' \in Seq(Computation)
    BY <2>1, <2>2, LogUpdate
  <2>4. QED
    BY <1>6, <2>1, <2>3 DEF Compute, TypeOK
<1>7. ASSUME NEW c \in Callers, Store(c) PROVE TypeOK'
  BY <1>7 DEF Store, TypeOK
<1>8. ASSUME NEW c \in Callers, End(c) PROVE TypeOK'
  <2>1. result[c] \in 1 .. Len(log)
    BY <1>8 DEF End, Computations, LeaderHolds
  <2>2. QED
    BY <1>8, <2>1, CallersAssumption DEF End, Answered, TypeOK
<1>9. QED
  BY <1>1, <1>2, <1>3, <1>4, <1>5, <1>6, <1>7, <1>8 DEF Next, Step, Finished

(* A flight has one leader, and those that wait for it wait for that one.  *)
LEMMA FlightStep == TypeOK /\ Flights /\ [Next]_vars => Flights'
<1> SUFFICES ASSUME TypeOK, Flights, [Next]_vars PROVE Flights'
  OBVIOUS
<1>1. CASE UNCHANGED vars
  BY <1>1 DEF vars, Flights
<1>2. ASSUME NEW c \in Callers, NEW k \in Keys, Call(c, k) PROVE Flights'
  BY <1>2, CallersAssumption DEF Call, Flights, Leading, TypeOK
<1>3. ASSUME NEW c \in Callers, Lookup(c) PROVE Flights'
  <2>1. PICK p \in {"idle", "join"} : pc' = [pc EXCEPT ![c] = p]
    BY <1>3 DEF Lookup, Hit
  <2>2. UNCHANGED <<key, leader, flight>> /\ pc[c] = "lookup"
    BY <1>3 DEF Lookup, Hit
  <2>3. QED
    BY <2>1, <2>2, CallersAssumption DEF Flights, Leading, TypeOK
<1>4. ASSUME NEW c \in Callers, Join(c) PROVE Flights'
  <2>1. CASE Lead(c)
    BY <1>4, <2>1, CallersAssumption DEF Join, Lead, Flights, Leading, TypeOK
  <2>2. CASE Wait(c)
    BY <1>4, <2>2, CallersAssumption DEF Join, Wait, Flights, Leading, TypeOK
  <2>3. QED
    BY <1>4, <2>1, <2>2 DEF Join
<1>5. ASSUME NEW c \in Callers, Recheck(c) \/ Compute(c) \/ Store(c) PROVE Flights'
  <2>1. PICK p \in Leading : pc' = [pc EXCEPT ![c] = p]
    BY <1>5 DEF Recheck, Hit, Miss, Compute, Store, Leading
  <2>2. UNCHANGED <<key, leader, flight>> /\ pc[c] \in Leading
    BY <1>5 DEF Recheck, Hit, Miss, Compute, Store, Leading
  <2>3. QED
    BY <2>1, <2>2, CallersAssumption DEF Flights, Leading, TypeOK
<1>6. ASSUME NEW c \in Callers, End(c) PROVE Flights'
  <2>1. pc[c] \in Leading /\ flight[key[c]] = c
    BY <1>6 DEF End, Flights, Leading
  <2>2. \A d \in Answered(c) : d = c \/ pc[d] = "waiting"
    BY DEF Answered
  <2>3. \A d \in Callers : pc[d] \in Leading /\ d # c => pc'[d] = pc[d] /\ key[d] # key[c]
    BY <1>6, <2>1, <2>2 DEF End, Flights, Leading
  <2>4. \A d \in Callers : pc'[d] \in Leading \cup {"waiting"} => pc'[d] = pc[d] /\ d # c
    BY <1>6 DEF End, Answered, Leading
  <2>5. \A d \in Callers : pc'[d] = "waiting" => leader[d] # c
    BY <1>6, <2>4 DEF End, Answered
  <2>6. \A d \in Callers : pc'[d] \in Leading => flight'[key'[d]] = d
    BY <1>6, <2>3, <2>4 DEF End, Flights, TypeOK
  <2>7. \A k \in Keys : flight'[k] # NoCaller =>
          flight[k] \in Callers /\ flight'[k] = flight[k] /\ k # key[c]
    BY <1>6 DEF End, TypeOK
  <2>8. \A k \in Keys : flight'[k] # NoCaller => pc'[flight'[k]] \in Leading /\ key'[flight'[k]] = k
    BY <1>6, <2>3, <2>7 DEF End, Flights
  <2>9. \A d \in Callers : pc'[d] = "waiting" =>
          pc'[leader'[d]] \in Leading /\ key'[leader'[d]] = key'[d]
    BY <1>6, <2>3, <2>4, <2>5 DEF End, Flights, TypeOK
  <2>10. QED
    BY <2>6, <2>8, <2>9 DEF Flights
<1>7. QED
  BY <1>1, <1>2, <1>3, <1>4, <1>5, <1>6 DEF Next, Step, Finished

(* What is known about computations and answers stays so as long as a step *)
(* changes none of them and no leader moves between its stages.            *)
LEMMA DataUnchanged ==
  ASSUME CacheInv, NEW c \in Callers, NEW p, NEW q,
         pc[c] \notin {"compute", "store", "end"}, p \notin {"compute", "store", "end"},
         pc' = [pc EXCEPT ![c] = p], result' = [result EXCEPT ![c] = q],
         \A d \in Callers : d # c => key'[d] = key[d] /\ since'[d] = since[d],
         UNCHANGED <<store, log, delivered>>,
         p = "idle" => /\ q # 0 => q \in 1 .. Len(log)
                       /\ q # 0 => log[q].key = key'[c] /\ log[q].kind = "stored"
  PROVE  Computations' /\ NeverRecomputed' /\ Answers'
<1>1. \A d \in Callers : d # c => pc'[d] = pc[d] /\ result'[d] = result[d]
  BY DEF CacheInv, TypeOK
<1>2. pc'[c] = p /\ result'[c] = q
  BY DEF CacheInv, TypeOK
<1>3. \A d \in Callers : LeaderHolds(d)'
  BY <1>1, <1>2 DEF CacheInv, Computations, LeaderHolds
<1>4. Computations'
  BY <1>1, <1>2, <1>3 DEF CacheInv, Computations
<1>5. NeverRecomputed'
  BY DEF CacheInv, NeverRecomputed
<1>6. Answers'
  BY <1>1, <1>2 DEF CacheInv, Answers, TransientNotReused, AnswersOwnKey, Returned
<1>7. QED
  BY <1>4, <1>5, <1>6

(* A leader computes nothing while a stored value, or one about to be      *)
(* stored, exists for its key.                                             *)
LEMMA LeaderMissed ==
  ASSUME CacheInv, NEW c \in Callers, pc[c] = "recheck", store[key[c]] = 0
  PROVE  \A n \in 1 .. Len(log) : log[n].key = key[c] => log[n].kind \notin {"stored", "running"}
<1> SUFFICES ASSUME NEW n \in 1 .. Len(log), log[n].key = key[c],
                    log[n].kind \in {"stored", "running"}
             PROVE FALSE
  OBVIOUS
<1>1. PICK d \in Callers : pc[d] \in {"compute", "store"} /\ result[d] = n
  BY DEF CacheInv, Computations
<1>2. key[d] = key[c]
  BY <1>1 DEF CacheInv, Computations, LeaderHolds
<1>3. d = c
  BY <1>1, <1>2 DEF CacheInv, Flights, Leading
<1>4. QED
  BY <1>1, <1>3

LEMMA MissStep ==
  ASSUME CacheInv, NEW c \in Callers, Recheck(c), store[key[c]] = 0, Miss(c)
  PROVE  Computations' /\ NeverRecomputed' /\ Answers'
<1> DEFINE n == Len(log) + 1
<1>1. /\ log' \in Seq(Computation) /\ Len(log') = n /\ Len(log) \in Nat
      /\ \A m \in 1 .. Len(log) : log'[m] = log[m]
      /\ log'[n].key = key[c] /\ log'[n].kind = "running"
  BY LogAppend DEF Miss, CacheInv, TypeOK
<1>2. /\ \A d \in Callers : d # c => pc'[d] = pc[d] /\ result'[d] = result[d]
      /\ pc'[c] = "compute" /\ result'[c] = n /\ pc[c] = "recheck"
      /\ UNCHANGED <<key, since, store, delivered>>
  BY DEF Miss, Recheck, CacheInv, TypeOK
<1>3. \A m \in 1 .. Len(log) : log[m].key = key[c] => log[m].kind \notin {"stored", "running"}
  BY <1>2, LeaderMissed DEF Recheck
<1>4. \A d \in Callers : d # c /\ pc[d] \in Leading => key[d] # key[c]
  BY <1>2 DEF CacheInv, Flights, Leading
<1>5. delivered \subseteq 1 .. Len(log) /\ n \notin delivered
  BY <1>1 DEF CacheInv, TypeOK
<1>6. ASSUME NEW d \in Callers PROVE LeaderHolds(d)'
  <2>1. CASE d = c
    BY <1>1, <1>2, <1>5, <2>1 DEF LeaderHolds
  <2>2. CASE d # c
    <3>1. LeaderHolds(d)
      BY DEF CacheInv, Computations
    <3>2. pc[d] = "compute" => \A m \in 1 .. n : m > result[d] => log'[m].key # key[d]
      BY <1>1, <1>4, <2>2, <3>1 DEF LeaderHolds, Leading
    <3>3. QED
      BY <1>1, <1>2, <2>2, <3>1, <3>2 DEF LeaderHolds
  <2>3. QED
    BY <2>1, <2>2
<1>7. \A m \in 1 .. n : log'[m].kind = "running" =>
        \E d \in Callers : pc'[d] = "compute" /\ result'[d] = m
  BY <1>1, <1>2 DEF CacheInv, Computations
<1>8. \A k \in Keys : store'[k] # 0 => log'[store'[k]].key = k /\ log'[store'[k]].kind = "stored"
  BY <1>1, <1>2 DEF CacheInv, Computations, TypeOK
<1>9. \A m \in 1 .. n : log'[m].kind = "stored" =>
        \/ store'[log'[m].key] = m
        \/ \E d \in Callers : pc'[d] = "store" /\ result'[d] = m
  BY <1>1, <1>2 DEF CacheInv, Computations
<1>10. Computations'
  BY <1>1, <1>6, <1>7, <1>8, <1>9 DEF Computations
<1>11. NeverRecomputed'
  BY <1>1, <1>3 DEF CacheInv, NeverRecomputed
<1>12. Answers'
  <2>1. \A d \in Callers : Returned(d)' => /\ Returned(d) /\ result'[d] = result[d]
                                         /\ result[d] \in 1 .. Len(log)
    BY <1>2 DEF Returned, CacheInv, TypeOK
  <2>2. QED
    BY <1>1, <1>2, <2>1 DEF CacheInv, Answers, TransientNotReused, AnswersOwnKey
<1>13. QED
  BY <1>10, <1>11, <1>12

LEMMA ComputeStep ==
  ASSUME CacheInv, NEW c \in Callers, Compute(c)
  PROVE  Computations' /\ NeverRecomputed' /\ Answers'
<1> DEFINE n == result[c]
<1>1. PICK kind \in Kinds :
        /\ log' = [log EXCEPT ![n].kind = kind]
        /\ pc' = [pc EXCEPT ![c] = IF kind = "stored" THEN "store" ELSE "end"]
  BY DEF Compute
<1>2. /\ LeaderHolds(c) /\ pc[c] = "compute" /\ n \in 1 .. Len(log)
      /\ log[n].key = key[c] /\ log[n].kind = "running" /\ n \notin delivered
  BY DEF Compute, CacheInv, Computations, LeaderHolds
<1>3. /\ Len(log') = Len(log) /\ Len(log) \in Nat
      /\ \A m \in 1 .. Len(log) : log'[m].key = log[m].key
      /\ \A m \in 1 .. Len(log) : m # n => log'[m] = log[m]
      /\ log'[n].kind = kind
  BY <1>1, <1>2, LogUpdate DEF CacheInv, TypeOK
<1>4. /\ \A d \in Callers : d # c => pc'[d] = pc[d]
      /\ pc'[c] = IF kind = "stored" THEN "store" ELSE "end"
      /\ UNCHANGED <<key, result, since, store, delivered>>
  BY <1>1 DEF Compute, CacheInv, TypeOK
<1>5. \A d \in Callers : d # c /\ pc[d] \in {"compute", "store", "end"} => result[d] # n
  BY <1>2 DEF CacheInv, Computations, LeaderHolds, Flights, Leading
<1>6. ASSUME NEW d \in Callers PROVE LeaderHolds(d)'
  <2>1. LeaderHolds(d)
    BY DEF CacheInv, Computations
  <2>2. CASE d = c
    BY <1>2, <1>3, <1>4, <2>2 DEF LeaderHolds, Kinds
  <2>3. CASE d # c
    BY <1>3, <1>4, <1>5, <2>1, <2>3 DEF LeaderHolds
  <2>4. QED
    BY <2>2, <2>3
<1>7. \A m \in 1 .. Len(log) : log'[m].kind = "running" =>
        \E d \in Callers : pc'[d] = "compute" /\ result'[d] = m
  BY <1>2, <1>3, <1>4 DEF CacheInv, Computations, Kinds
<1>8. \A k \in Keys : store'[k] # 0 => log'[store'[k]].key = k /\ log'[store'[k]].kind = "stored"
  <2>1. \A k \in Keys : store[k] # 0 => store[k] \in 1 .. Len(log) /\ store[k] # n
    BY <1>2 DEF CacheInv, Computations, TypeOK
  <2>2. QED
    BY <1>3, <1>4, <2>1 DEF CacheInv, Computations
<1>9. \A m \in 1 .. Len(log) : log'[m].kind = "stored" =>
        \/ store'[log'[m].key] = m
        \/ \E d \in Callers : pc'[d] = "store" /\ result'[d] = m
  <2>1. TAKE m \in 1 .. Len(log)
  <2>2. HAVE log'[m].kind = "stored"
  <2>3. CASE m = n
    BY <1>3, <1>4, <2>2, <2>3
  <2>4. CASE m # n
    BY <1>2, <1>3, <1>4, <2>2, <2>4 DEF CacheInv, Computations
  <2>5. QED
    BY <2>3, <2>4
<1>10. Computations'
  BY <1>3, <1>6, <1>7, <1>8, <1>9 DEF Computations
<1>11. NeverRecomputed'
  BY <1>2, <1>3 DEF CacheInv, NeverRecomputed, LeaderHolds
<1>12. Answers'
  <2>1. \A d \in Callers : Returned(d)' => /\ Returned(d) /\ result'[d] = result[d]
                                         /\ result[d] \in 1 .. Len(log)
    BY <1>4 DEF Returned, CacheInv, TypeOK
  <2>2. \A d \in Callers : Returned(d) => result[d] # n
    BY <1>2 DEF CacheInv, Answers, AnswersOwnKey
  <2>3. QED
    BY <1>2, <1>3, <1>4, <2>1, <2>2 DEF CacheInv, Answers, TransientNotReused, AnswersOwnKey
<1>13. QED
  BY <1>10, <1>11, <1>12

LEMMA StoreStep ==
  ASSUME CacheInv, NEW c \in Callers, Store(c)
  PROVE  Computations' /\ NeverRecomputed' /\ Answers'
<1>1. /\ LeaderHolds(c) /\ pc[c] = "store" /\ result[c] \in 1 .. Len(log) /\ key[c] \in Keys
      /\ log[result[c]].key = key[c] /\ log[result[c]].kind = "stored"
  BY DEF Store, CacheInv, Computations, LeaderHolds, TypeOK
<1>2. /\ \A d \in Callers : d # c => pc'[d] = pc[d]
      /\ pc'[c] = "end"
      /\ \A k \in Keys : store'[k] = IF k = key[c] THEN result[c] ELSE store[k]
      /\ UNCHANGED <<key, result, since, log, delivered>>
  BY DEF Store, CacheInv, TypeOK
<1>3. \A d \in Callers : LeaderHolds(d)'
  BY <1>1, <1>2 DEF LeaderHolds, CacheInv, Computations
<1>4. \A n \in 1 .. Len(log) : log[n].kind = "running" =>
        \E d \in Callers : pc'[d] = "compute" /\ result[d] = n
  BY <1>1, <1>2 DEF CacheInv, Computations
<1>5. \A k \in Keys : store'[k] # 0 => log[store'[k]].key = k /\ log[store'[k]].kind = "stored"
  BY <1>1, <1>2 DEF CacheInv, Computations
<1>6. ASSUME NEW n \in 1 .. Len(log), log[n].kind = "stored"
      PROVE  \/ store'[log[n].key] = n
             \/ \E d \in Callers : pc'[d] = "store" /\ result[d] = n
  <2>1. CASE log[n].key = key[c]
    <3>1. n = result[c]
      BY <1>1, <1>6, <2>1 DEF CacheInv, NeverRecomputed
    <3>2. QED
      BY <1>1, <1>2, <2>1, <3>1
  <2>2. CASE log[n].key # key[c]
    <3>1. n # result[c] /\ log[n] \in Computation
      BY <1>1, <2>2 DEF CacheInv, TypeOK
    <3>2. log[n].key \in Keys /\ store'[log[n].key] = store[log[n].key]
      BY <1>2, <2>2, <3>1 DEF Computation
    <3>3. store[log[n].key] = n \/ \E d \in Callers : pc[d] = "store" /\ result[d] = n
      BY <1>6 DEF CacheInv, Computations
    <3>4. QED
      BY <1>2, <3>1, <3>2, <3>3
  <2>3. QED
    BY <2>1, <2>2
<1>7. Computations'
  BY <1>2, <1>3, <1>4, <1>5, <1>6 DEF Computations
<1>8. NeverRecomputed'
  BY <1>2 DEF CacheInv, NeverRecomputed
<1>9. Answers'
  BY <1>2 DEF CacheInv, Answers, TransientNotReused, AnswersOwnKey, Returned
<1>10. QED
  BY <1>7, <1>8, <1>9

LEMMA EndStep ==
  ASSUME CacheInv, NEW c \in Callers, End(c)
  PROVE  Computations' /\ NeverRecomputed' /\ Answers'
<1> DEFINE n == result[c]
<1>1. /\ pc[c] = "end" /\ n \in 1 .. Len(log)
      /\ log[n].key = key[c] /\ log[n].kind # "running"
      /\ log[n].kind # "stored" => n \notin delivered
  BY DEF End, CacheInv, Computations, LeaderHolds
<1>2. /\ \A d \in Answered(c) : pc'[d] = "idle" /\ result'[d] = n
      /\ \A d \in Callers \ Answered(c) : pc'[d] = pc[d] /\ result'[d] = result[d]
      /\ delivered' = delivered \cup {n}
      /\ UNCHANGED <<key, since, store, log>>
  BY DEF End, Answered
<1>3. \A d \in Answered(c) : d \in Callers /\ key[d] = key[c] /\ (d = c \/ pc[d] = "waiting")
  BY DEF Answered, CacheInv, Flights
<1>4. \A d \in Callers : d # c /\ pc[d] \in Leading => key[d] # key[c]
  BY <1>1 DEF CacheInv, Flights, Leading
<1>5. \A d \in Callers : pc[d] \in {"compute", "store"} => d \notin Answered(c)
  BY <1>1, <1>3
<1>6. ASSUME NEW d \in Callers PROVE LeaderHolds(d)'
  <2>1. LeaderHolds(d)
    BY DEF CacheInv, Computations
  <2>2. CASE d \in Answered(c)
    BY <1>2, <2>2 DEF LeaderHolds
  <2>3. CASE d \notin Answered(c)
    <3>1. d # c
      BY <2>3 DEF Answered
    <3>2. pc[d] \in {"compute", "store", "end"} => result[d] # n
      BY <1>1, <1>4, <2>1, <3>1 DEF LeaderHolds, Leading
    <3>3. QED
      BY <1>2, <2>1, <2>3, <3>2 DEF LeaderHolds
  <2>4. QED
    BY <2>2, <2>3
<1>7. Computations'
  BY <1>2, <1>5, <1>6 DEF CacheInv, Computations
<1>8. NeverRecomputed'
  BY <1>2 DEF CacheInv, NeverRecomputed
<1>9. ASSUME NEW d \in Callers, Returned(d)'
      PROVE  /\ log'[result'[d]].key = key'[d] /\ log'[result'[d]].kind # "running"
             /\ log'[result'[d]].kind # "stored" => result'[d] \notin since'[d]
  <2>1. since[d] \subseteq delivered
    BY DEF CacheInv, TypeOK
  <2>2. CASE d \in Answered(c)
    BY <1>1, <1>2, <1>3, <2>1, <2>2
  <2>3. CASE d \notin Answered(c)
    BY <1>2, <1>9, <2>3 DEF CacheInv, Answers, TransientNotReused, AnswersOwnKey, Returned
  <2>4. QED
    BY <2>2, <2>3
<1>10. Answers'
  BY <1>9 DEF Answers, TransientNotReused, AnswersOwnKey
<1>11. QED
  BY <1>7, <1>8, <1>10

(* The data part of the invariant is preserved by every step.              *)
LEMMA DataStep == CacheInv /\ [Next]_vars => Computations' /\ NeverRecomputed' /\ Answers'
<1> SUFFICES ASSUME CacheInv, [Next]_vars
             PROVE  Computations' /\ NeverRecomputed' /\ Answers'
  OBVIOUS
<1>1. CASE UNCHANGED vars
  BY <1>1 DEF vars, CacheInv, Computations, LeaderHolds, NeverRecomputed, Answers,
     TransientNotReused, AnswersOwnKey, Returned
<1>2. ASSUME NEW c \in Callers, NEW k \in Keys, Call(c, k)
      PROVE  Computations' /\ NeverRecomputed' /\ Answers'
  <2>1. /\ pc[c] = "idle" /\ pc' = [pc EXCEPT ![c] = "lookup"]
        /\ result' = [result EXCEPT ![c] = 0]
        /\ \A d \in Callers : d # c => key'[d] = key[d] /\ since'[d] = since[d]
        /\ UNCHANGED <<store, log, delivered>>
    BY <1>2 DEF Call, CacheInv, TypeOK
  <2>2. QED
    BY <2>1, DataUnchanged
<1>3. ASSUME NEW c \in Callers, Lookup(c) \/ Join(c)
      PROVE  Computations' /\ NeverRecomputed' /\ Answers'
  <2>1. /\ pc[c] \in {"lookup", "join"}
        /\ UNCHANGED <<key, since, store, log, delivered>>
    BY <1>3 DEF Lookup, Hit, Join, Lead, Wait
  <2>2. CASE pc[c] = "lookup" /\ Hit(c, "idle")
    <3>1. /\ pc' = [pc EXCEPT ![c] = "idle"]
          /\ result' = [result EXCEPT ![c] = store[key[c]]]
      BY <2>2 DEF Hit
    <3>2. /\ store[key[c]] \in 1 .. Len(log)
          /\ log[store[key[c]]].key = key[c] /\ log[store[key[c]]].kind = "stored"
      BY <2>2 DEF Hit, CacheInv, TypeOK, Computations
    <3>3. QED
      BY <2>1, <3>1, <3>2, DataUnchanged
  <2>3. CASE ~(pc[c] = "lookup" /\ Hit(c, "idle"))
    <3>1. PICK p \in {"join", "recheck", "waiting"} : pc' = [pc EXCEPT ![c] = p]
      BY <1>3, <2>3 DEF Lookup, Join, Lead, Wait
    <3>2. result' = [result EXCEPT ![c] = result[c]]
      BY <1>3, <2>3 DEF Lookup, Join, CacheInv, TypeOK
    <3>3. QED
      BY <2>1, <3>1, <3>2, DataUnchanged
  <2>4. QED
    BY <2>2, <2>3
<1>4. ASSUME NEW c \in Callers, Recheck(c)
      PROVE  Computations' /\ NeverRecomputed' /\ Answers'
  <2>1. CASE store[key[c]] = 0 /\ Miss(c)
    BY <1>4, <2>1, MissStep
  <2>2. CASE Hit(c, "end")
    <3>1. /\ pc[c] = "recheck" /\ pc'[c] = "end" /\ result'[c] = store[key[c]]
          /\ \A d \in Callers : d # c => pc'[d] = pc[d] /\ result'[d] = result[d]
          /\ UNCHANGED <<key, since, store, log, delivered>>
      BY <1>4, <2>2 DEF Recheck, Hit, CacheInv, TypeOK
    <3>2. /\ store[key[c]] \in 1 .. Len(log)
          /\ log[store[key[c]]].key = key[c] /\ log[store[key[c]]].kind = "stored"
      BY <2>2 DEF Hit, CacheInv, TypeOK, Computations
    <3>3. \A d \in Callers : LeaderHolds(d)'
      BY <3>1, <3>2 DEF CacheInv, Computations, LeaderHolds
    <3>4. Computations'
      BY <3>1, <3>3 DEF CacheInv, Computations
    <3>5. NeverRecomputed' /\ Answers'
      BY <3>1 DEF CacheInv, NeverRecomputed, Answers, TransientNotReused, AnswersOwnKey, Returned
    <3>6. QED
      BY <3>4, <3>5
  <2>3. QED
    BY <1>4, <2>1, <2>2 DEF Recheck
<1>5. QED
  BY <1>1, <1>2, <1>3, <1>4, ComputeStep, StoreStep, EndStep DEF Next, Step, Finished
-----------------------------------------------------------------------------
LEMMA CacheInvariant == Spec => []CacheInv
<1>1. CacheInv /\ [Next]_vars => CacheInv'
  BY TypeStep, FlightStep, DataStep DEF CacheInv
<1>2. QED
  BY CacheInit, <1>1, PTL DEF Spec

(* Every variable keeps its type.                                          *)
THEOREM TypeCorrect == Spec => []TypeOK
BY CacheInvariant, PTL DEF CacheInv

(* A failure is never handed to a call that began after its delivery, and  *)
(* every call gets the finished computation of its own key.                *)
THEOREM AnswersAreRight == Spec => []AnswersRight
BY CacheInvariant, PTL DEF CacheInv, Answers, AnswersRight

(* Nothing that was stored is computed again, however many callers race,   *)
(* and two callers never compute for one key at the same time.             *)
THEOREM ValuesComputedOnce == Spec => []ComputedOnce
<1>1. CacheInv => OneAtATime
  <2> SUFFICES ASSUME CacheInv, NEW m \in 1 .. Len(log), NEW n \in 1 .. Len(log),
                      log[m].kind = "running", log[n].kind = "running", log[m].key = log[n].key
               PROVE  m = n
    BY DEF OneAtATime
  <2>1. PICK c \in Callers : pc[c] = "compute" /\ result[c] = m
    BY DEF CacheInv, Computations
  <2>2. PICK d \in Callers : pc[d] = "compute" /\ result[d] = n
    BY DEF CacheInv, Computations
  <2>3. key[c] = log[m].key /\ key[d] = log[n].key
    BY <2>1, <2>2 DEF CacheInv, Computations, LeaderHolds
  <2>4. QED
    BY <2>1, <2>2, <2>3 DEF CacheInv, Flights, Leading
<1>2. CacheInv => NeverRecomputed
  BY DEF CacheInv
<1>3. QED
  BY CacheInvariant, <1>1, <1>2, PTL DEF ComputedOnce
=============================================================================
