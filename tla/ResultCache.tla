---------------------------- MODULE ResultCache ----------------------------
(***************************************************************************)
(* internal/cache/cache.go: GetOrDo, which memoizes what a computation     *)
(* returns for a key and coalesces concurrent misses (singleflight). The   *)
(* provider pool keeps validation and analysis results in two such caches. *)
(*                                                                         *)
(* A computation is known by its index in log; what it returned is         *)
(* abstracted to "stored", "refused" (a value that the store policy does   *)
(* not keep) or "error".                                                   *)
(***************************************************************************)
EXTENDS Naturals, Sequences

CONSTANTS
  Keys,
  Callers,   (* goroutines                                                  *)
  NoCaller,
  MaxCalls   (* bound: calls of GetOrDo in all                              *)

ASSUME CallersAssumption == NoCaller \notin Callers /\ MaxCalls \in Nat

VARIABLES
  pc,        (* where each caller is in GetOrDo                             *)
  key,       (* what it asks for                                            *)
  leader,    (* whose flight it waits for                                   *)
  result,    (* the computation whose outcome it holds, 0: none             *)
  since,     (* the computations already delivered when its call began      *)
  calls,     (* calls begun so far                                          *)
  store,     (* the computation stored for each key, 0: none                *)
  flight,    (* singleflight's map: the leader for a key, if there is one   *)
  hits,
  log,       (* every computation so far; misses is its length              *)
  delivered  (* the computations a leader has returned with                 *)

vars == <<pc, key, leader, result, since, calls, store, flight, hits, log, delivered>>

Kinds == {"stored", "refused", "error"}
Computation == [key : Keys, kind : Kinds \cup {"running"}]

TypeOK ==
  /\ pc \in [Callers -> {"idle", "lookup", "join", "waiting",
                         "recheck", "compute", "store", "end"}]
  /\ key \in [Callers -> Keys]
  /\ leader \in [Callers -> Callers]
  /\ result \in [Callers -> 0 .. Len(log)]
  /\ since \in [Callers -> SUBSET delivered]
  /\ calls \in Nat
  /\ store \in [Keys -> 0 .. Len(log)]
  /\ flight \in [Keys -> Callers \cup {NoCaller}]
  /\ hits \in Nat
  /\ log \in Seq(Computation)
  /\ delivered \subseteq 1 .. Len(log)

Init ==
  /\ pc = [c \in Callers |-> "idle"]
  /\ key \in [Callers -> Keys]
  /\ leader = [c \in Callers |-> c]
  /\ result = [c \in Callers |-> 0]
  /\ since = [c \in Callers |-> {}]
  /\ calls = 0
  /\ store = [k \in Keys |-> 0]
  /\ flight = [k \in Keys |-> NoCaller]
  /\ hits = 0 /\ log = <<>> /\ delivered = {}
-----------------------------------------------------------------------------
Call(c, k) ==
  /\ pc[c] = "idle" /\ calls < MaxCalls
  /\ calls' = calls + 1
  /\ key' = [key EXCEPT ![c] = k]
  /\ since' = [since EXCEPT ![c] = delivered]
  /\ result' = [result EXCEPT ![c] = 0]
  /\ pc' = [pc EXCEPT ![c] = "lookup"]
  /\ UNCHANGED <<leader, store, flight, hits, log, delivered>>

(* get, under the read lock.                                               *)
Hit(c, next) ==
  /\ store[key[c]] # 0
  /\ result' = [result EXCEPT ![c] = store[key[c]]]
  /\ hits' = hits + 1
  /\ pc' = [pc EXCEPT ![c] = next]
  /\ UNCHANGED <<leader, flight, log>>

Lookup(c) ==
  /\ pc[c] = "lookup"
  /\ \/ Hit(c, "idle")
     \/ /\ store[key[c]] = 0
        /\ pc' = [pc EXCEPT ![c] = "join"]
        /\ UNCHANGED <<leader, result, flight, hits, log>>
  /\ UNCHANGED <<key, since, calls, store, delivered>>

(* singleflight: a caller leads a flight of its own or waits for the       *)
(* leader of the one there is.                                             *)
Lead(c) ==
  /\ flight[key[c]] = NoCaller
  /\ flight' = [flight EXCEPT ![key[c]] = c]
  /\ pc' = [pc EXCEPT ![c] = "recheck"]
  /\ UNCHANGED leader

Wait(c) ==
  /\ flight[key[c]] # NoCaller
  /\ leader' = [leader EXCEPT ![c] = flight[key[c]]]
  /\ pc' = [pc EXCEPT ![c] = "waiting"]
  /\ UNCHANGED flight

(* Mutants: two flights for one key; one flight for all keys.              *)
JoinAlwaysLeads(c) ==
  /\ pc[c] = "join"
  /\ flight' = [flight EXCEPT ![key[c]] = c]
  /\ pc' = [pc EXCEPT ![c] = "recheck"]
  /\ UNCHANGED <<key, leader, result, since, calls, store, hits, log, delivered>>

JoinAnyFlight(c) ==
  /\ pc[c] = "join"
  /\ \/ (\A k \in Keys : flight[k] = NoCaller) /\ Lead(c)
     \/ \E k \in Keys :
          /\ flight[k] # NoCaller
          /\ leader' = [leader EXCEPT ![c] = flight[k]]
          /\ pc' = [pc EXCEPT ![c] = "waiting"]
          /\ UNCHANGED flight
  /\ UNCHANGED <<key, result, since, calls, store, hits, log, delivered>>

Join(c) ==
  /\ pc[c] = "join"
  /\ Lead(c) \/ Wait(c)
  /\ UNCHANGED <<key, result, since, calls, store, hits, log, delivered>>

(* The second lookup, now by the leader alone.                             *)
Miss(c) ==
  /\ log' = Append(log, [key |-> key[c], kind |-> "running"])
  /\ result' = [result EXCEPT ![c] = Len(log) + 1]
  /\ pc' = [pc EXCEPT ![c] = "compute"]
  /\ UNCHANGED <<leader, flight, hits>>

(* Mutant: without the second lookup.                                      *)
RecheckNothing(c) ==
  /\ pc[c] = "recheck" /\ Miss(c)
  /\ UNCHANGED <<key, since, calls, store, delivered>>

Recheck(c) ==
  /\ pc[c] = "recheck"
  /\ Hit(c, "end") \/ (store[key[c]] = 0 /\ Miss(c))
  /\ UNCHANGED <<key, since, calls, store, delivered>>

(* Mutant: whatever fn returns is stored.                                  *)
ComputeStoresAll(c) ==
  /\ pc[c] = "compute"
  /\ \E kind \in Kinds : log' = [log EXCEPT ![result[c]].kind = kind]
  /\ pc' = [pc EXCEPT ![c] = "store"]
  /\ UNCHANGED <<key, leader, result, since, calls, store, flight, hits, delivered>>

(* fn returns: an error, a value to be stored or one that is not.          *)
Compute(c) ==
  /\ pc[c] = "compute"
  /\ \E kind \in Kinds :
       /\ log' = [log EXCEPT ![result[c]].kind = kind]
       /\ pc' = [pc EXCEPT ![c] = IF kind = "stored" THEN "store" ELSE "end"]
  /\ UNCHANGED <<key, leader, result, since, calls, store, flight, hits, delivered>>

Store(c) ==
  /\ pc[c] = "store"
  /\ store' = [store EXCEPT ![key[c]] = result[c]]
  /\ pc' = [pc EXCEPT ![c] = "end"]
  /\ UNCHANGED <<key, leader, result, since, calls, flight, hits, log, delivered>>

(* The callers that get what the flight of c ends with.                    *)
Answered(c) == {d \in Callers : d = c \/ (pc[d] = "waiting" /\ leader[d] = c)}

(* Mutant: the flight of a failed computation stays in the map.            *)
EndKeepsFailed(c) ==
  /\ pc[c] = "end"
  /\ result' = [d \in Callers |-> IF d \in Answered(c) THEN result[c] ELSE result[d]]
  /\ pc' = [d \in Callers |-> IF d \in Answered(c) THEN "idle" ELSE pc[d]]
  /\ flight' = IF log[result[c]].kind = "error" THEN flight
               ELSE [flight EXCEPT ![key[c]] = NoCaller]
  /\ delivered' = delivered \cup {result[c]}
  /\ UNCHANGED <<key, leader, since, calls, store, hits, log>>

(* The flight ends: the leader and those that wait for it return.          *)
End(c) ==
  /\ pc[c] = "end"
  /\ result' = [d \in Callers |-> IF d \in Answered(c) THEN result[c] ELSE result[d]]
  /\ pc' = [d \in Callers |-> IF d \in Answered(c) THEN "idle" ELSE pc[d]]
  /\ flight' = [flight EXCEPT ![key[c]] = NoCaller]
  /\ delivered' = delivered \cup {result[c]}
  /\ UNCHANGED <<key, leader, since, calls, store, hits, log>>

Step(c) == Lookup(c) \/ Join(c) \/ Recheck(c) \/ Compute(c) \/ Store(c) \/ End(c)

(* No further calls are made.                                              *)
Finished == calls = MaxCalls /\ UNCHANGED vars

Next == (\E c \in Callers : Step(c) \/ \E k \in Keys : Call(c, k)) \/ Finished

Spec == Init /\ [][Next]_vars

(* A computation ends and Go schedules every runnable goroutine.           *)
FairSpec == Spec /\ \A c \in Callers : WF_vars(Step(c))
-----------------------------------------------------------------------------
(* Callers of one key never compute at the same time, and a value that     *)
(* was stored, or is about to be, is never computed again: its computation *)
(* is the last one of its key. Without the second lookup a caller that     *)
(* missed before the value was stored would compute it anew and send the   *)
(* provider's requests twice.                                              *)
NeverRecomputed ==
  \A m, n \in 1 .. Len(log) :
    m < n /\ log[m].kind = "stored" => log[n].key # log[m].key

OneAtATime ==
  \A m, n \in 1 .. Len(log) :
    log[m].kind = "running" /\ log[n].kind = "running" /\ log[m].key = log[n].key => m = n

ComputedOnce == NeverRecomputed /\ OneAtATime

(* What a call returns is the finished computation of the key it asked     *)
(* for. A failure, or a value the policy does not keep, goes to the        *)
(* callers of its own flight only: a call that began after it was          *)
(* delivered gets a computation of its own (internal/provider/pool.go:     *)
(* "later findings may retry transient provider errors").                  *)
Returned(c) == pc[c] = "idle" /\ result[c] # 0

TransientNotReused ==
  \A c \in Callers : Returned(c) /\ log[result[c]].kind # "stored" => result[c] \notin since[c]

AnswersOwnKey ==
  \A c \in Callers : Returned(c) =>
    /\ log[result[c]].key = key[c] /\ log[result[c]].kind # "running"

AnswersRight == AnswersOwnKey /\ TransientNotReused

(* Every call returns, whoever computes for it and whatever that returns.  *)
CallsReturn == \A c \in Callers : pc[c] # "idle" ~> pc[c] = "idle"
=============================================================================
