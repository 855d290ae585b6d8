--------------------------- MODULE RetryTransport ---------------------------
(***************************************************************************)
(* internal/httpclient/transport.go: RoundTrip of a transport that several *)
(* goroutines share, with its retries, its shared pause and the bodies of  *)
(* the responses it gives up; and gqlQuery of sources/github/github.go,    *)
(* which sends through it behind a semaphore and pauses everyone when a    *)
(* successful response turns out to be a rate-limit error.                 *)
(*                                                                         *)
(* Time is discrete, and every deadline is kept as the time that is left   *)
(* until then. A goroutine may be delayed between any two steps.           *)
(***************************************************************************)
EXTENDS Naturals, FiniteSets

CONSTANTS
  Callers,    (* the goroutines, each of which makes one call               *)
  Queries,    (* those that call gqlQuery; the others call RoundTrip        *)
  MaxRetries, MaxBackoff,
  Slots,      (* the capacity of gqlSem                                     *)
  Waits,      (* the waits a server asks for                                *)
  MaxFaults   (* bound: requests that do not succeed                        *)

ASSUME CallersAssumption ==
  IsFiniteSet(Callers) /\ Queries \subseteq Callers
ASSUME NumbersAssumption ==
  /\ {MaxRetries, MaxBackoff, MaxFaults} \subseteq Nat
  /\ MaxBackoff > 0 /\ Slots \in Nat \ {0}
  /\ Waits \subseteq Nat \ {0}

(* What the callers may send: a "GET", a "POST" whose body can be had      *)
(* again (as that of gqlQuery, a byte buffer), or a "stream", which can be *)
(* sent only once.                                                         *)
Requests ==
  {r \in [Callers -> {"GET", "POST", "stream"}] : \A c \in Queries : r[c] = "POST"}

VARIABLES
  request,
  resume,    (* how long new calls have to wait: the time until resumeAt    *)
  slots,     (* the tokens in gqlSem                                        *)
  pc,        (* where each goroutine is                                     *)
  attempt, wake, reply, ctxDone,
  unread,    (* response bodies nobody has drained or closed                *)
  faults,    (* requests that have not succeeded                            *)
  asked,     (* how long the longest pause anyone was asked for still lasts *)
  promised   (* how long each goroutine must not send                       *)

call == <<attempt, wake, reply>>
history == <<asked, promised>>
vars == <<request, resume, slots, pc, call, ctxDone, unread, faults, history>>

Sleeping == {"waiting", "retrying", "paused"}
Stages == {"slot", "enter", "send", "inflight", "responded", "returned", "classify", "done"}
          \cup Sleeping

(* What the decider tells apart: a success; a success whose body says      *)
(* "rate limit"; 429, 503 or 403 with a wait; another 5xx; a final failure *)
(* of the request; a connection that broke; the end of the context.        *)
Final == {"ok", "limited", "rejected"}
Responses == Final \cup {"wait", "server"}
Failures == {"broken", "canceled"}
Reply(kind, w) == [kind |-> kind, wait |-> w]
Replies == [kind : Responses \cup Failures, wait : Waits \cup {0}]

TypeOK ==
  /\ request \in Requests
  /\ resume \in Nat /\ slots \in 0 .. Slots
  /\ pc \in [Callers -> Stages]
  /\ attempt \in [Callers -> 0 .. MaxRetries] /\ wake \in [Callers -> Nat]
  /\ reply \in [Callers -> Replies] /\ ctxDone \in BOOLEAN
  /\ unread \in [Callers -> Nat] /\ faults \in 0 .. MaxFaults
  /\ asked \in Nat /\ promised \in [Callers -> Nat]

Init ==
  /\ request \in Requests
  /\ resume = 0 /\ slots = 0
  /\ pc = [c \in Callers |-> IF c \in Queries THEN "slot" ELSE "enter"]
  /\ attempt = [c \in Callers |-> 0] /\ wake = [c \in Callers |-> 0]
  /\ reply = [c \in Callers |-> Reply("canceled", 0)]
  /\ ctxDone = FALSE
  /\ unread = [c \in Callers |-> 0] /\ faults = 0
  /\ asked = 0 /\ promised = [c \in Callers |-> 0]

Goto(c, stage) == pc' = [pc EXCEPT ![c] = stage]
Later(a, b) == IF a > b THEN a ELSE b

Nearer(t) == IF t = 0 THEN 0 ELSE t - 1

Tick ==
  /\ \E c \in Callers : pc[c] \in Sleeping /\ wake[c] > 0
  /\ resume' = Nearer(resume) /\ asked' = Nearer(asked)
  /\ wake' = [c \in Callers |-> Nearer(wake[c])]
  /\ promised' = [c \in Callers |-> Nearer(promised[c])]
  /\ UNCHANGED <<slots, pc, attempt, reply, ctxDone, unread, faults>>

(* The callers share the context of the scan they belong to.               *)
Cancel ==
  /\ ~ctxDone /\ \E c \in Callers : pc[c] # "done"
  /\ ctxDone' = TRUE
  /\ UNCHANGED <<resume, slots, pc, call, unread, faults, history>>

-----------------------------------------------------------------------------
(* gqlQuery takes a slot before each query.                                *)
Acquire(c) ==
  /\ pc[c] = "slot" /\ slots < Slots
  /\ slots' = slots + 1 /\ Goto(c, "enter")
  /\ UNCHANGED <<resume, call, ctxDone, unread, faults, history>>

Leave(c) ==
  /\ pc[c] = "slot" /\ ctxDone
  /\ Goto(c, "done")
  /\ UNCHANGED <<resume, slots, call, ctxDone, unread, faults, history>>

(* waitForResume                                                           *)
Enter(c) ==
  /\ pc[c] = "enter"
  /\ Goto(c, IF resume > 0 THEN "waiting" ELSE "send")
  /\ wake' = [wake EXCEPT ![c] = resume]
  /\ attempt' = [attempt EXCEPT ![c] = 0]
  /\ promised' = [promised EXCEPT ![c] = asked]
  /\ UNCHANGED <<resume, slots, reply, ctxDone, unread, faults, asked>>

(* sleep ends with its timer or with the context of the request.           *)
Wake(c) ==
  /\ pc[c] \in Sleeping /\ wake[c] = 0
  /\ Goto(c, IF pc[c] = "paused" THEN "slot" ELSE "send")
  /\ UNCHANGED <<resume, slots, call, ctxDone, unread, faults, history>>

SleepCanceled(c) ==
  /\ pc[c] \in Sleeping /\ ctxDone
  /\ Goto(c, IF pc[c] = "paused" THEN "done" ELSE "returned")
  /\ reply' = [reply EXCEPT ![c] = Reply("canceled", 0)]
  /\ UNCHANGED <<resume, slots, attempt, wake, ctxDone, unread, faults, history>>

Send(c) ==
  /\ pc[c] = "send"
  /\ Goto(c, "inflight")
  /\ promised' = [promised EXCEPT ![c] = 0]
  /\ UNCHANGED <<resume, slots, call, ctxDone, unread, faults, asked>>

(* The server, or the network, answers.                                    *)
Respond(c, r) ==
  /\ pc[c] = "inflight"
  /\ \/ r.kind = "ok" /\ UNCHANGED faults
     \/ r.kind = "canceled" /\ ctxDone /\ UNCHANGED faults
     \/ r.kind \notin {"ok", "canceled"} /\ faults < MaxFaults /\ faults' = faults + 1
  /\ r.wait > 0 <=> r.kind = "wait"
  /\ reply' = [reply EXCEPT ![c] = r]
  /\ unread' = [unread EXCEPT ![c] = @ + (IF r.kind \in Responses THEN 1 ELSE 0)]
  /\ Goto(c, "responded")
  /\ UNCHANGED <<resume, slots, attempt, wake, ctxDone, history>>

(* The decider, and "network errors only retry idempotent requests".       *)
Retryable(c) ==
  \/ reply[c].kind \in {"wait", "server"}
  \/ reply[c].kind = "broken" /\ request[c] = "GET"

(* Mutant: the response is drained before the last attempt is noticed.     *)
GiveUpDrained(c) ==
  /\ pc[c] = "responded" /\ (~Retryable(c) \/ attempt[c] = MaxRetries)
  /\ Goto(c, "returned")
  /\ unread' = [unread EXCEPT ![c] = IF Retryable(c) THEN 0 ELSE @]
  /\ UNCHANGED <<resume, slots, call, ctxDone, faults, history>>

GiveUp(c) ==
  /\ pc[c] = "responded" /\ (~Retryable(c) \/ attempt[c] = MaxRetries)
  /\ Goto(c, "returned")
  /\ UNCHANGED <<resume, slots, call, ctxDone, unread, faults, history>>

(* The response is drained before the request is found impossible to send  *)
(* again.                                                                  *)
GiveUpBody(c) ==
  /\ pc[c] = "responded" /\ Retryable(c) /\ attempt[c] < MaxRetries
  /\ request[c] = "stream"
  /\ Goto(c, "returned") /\ unread' = [unread EXCEPT ![c] = 0]
  /\ UNCHANGED <<resume, slots, call, ctxDone, faults, history>>

(* Mutant: a shorter pause replaces a longer one.                          *)
RecordLast(w) ==
  /\ resume' = w
  /\ asked' = Later(asked, w)

(* recordPause                                                             *)
RecordPause(w) ==
  /\ resume' = Later(resume, w)
  /\ asked' = Later(asked, w)

(* Mutant: a wait the server asks for is kept for new calls only.          *)
BackoffAlways(c) ==
  {w + j : w \in {IF 2 ^ attempt[c] > MaxBackoff THEN MaxBackoff ELSE 2 ^ attempt[c]}, j \in {0, 1}}

(* An explicit wait, or the backoff with its jitter of up to one unit.     *)
Backoff(c) ==
  IF reply[c].wait > 0 THEN {reply[c].wait}
  ELSE {w + j : w \in {IF 2 ^ attempt[c] > MaxBackoff THEN MaxBackoff ELSE 2 ^ attempt[c]},
                j \in {0, 1}}

Retry(c) ==
  /\ pc[c] = "responded" /\ Retryable(c) /\ attempt[c] < MaxRetries
  /\ request[c] # "stream"
  /\ unread' = [unread EXCEPT ![c] = 0]
  /\ IF reply[c].wait > 0 THEN RecordPause(reply[c].wait) ELSE UNCHANGED <<resume, asked>>
  /\ \E w \in Backoff(c) : wake' = [wake EXCEPT ![c] = w]
  /\ promised' = [promised EXCEPT ![c] =
       Later(@, (IF reply[c].wait > 0 THEN reply[c].wait ELSE 1))]
  /\ attempt' = [attempt EXCEPT ![c] = @ + 1]
  /\ reply' = [reply EXCEPT ![c] = Reply("canceled", 0)]
  /\ Goto(c, "retrying")
  /\ UNCHANGED <<slots, ctxDone, faults>>

(* The caller has read what it got: a plain one is done, gqlQuery gives    *)
(* its slot back "regardless of outcome".                                  *)
Finish(c) ==
  /\ pc[c] = "returned" /\ c \notin Queries
  /\ Goto(c, "done") /\ unread' = [unread EXCEPT ![c] = 0]
  /\ UNCHANGED <<resume, slots, call, ctxDone, faults, history>>

(* Mutant: the slot of a failed query is not given back.                   *)
ReleaseIfOK(c) ==
  /\ pc[c] = "returned" /\ c \in Queries
  /\ slots' = IF reply[c].kind = "ok" THEN slots - 1 ELSE slots
  /\ Goto(c, "classify") /\ unread' = [unread EXCEPT ![c] = 0]
  /\ UNCHANGED <<resume, call, ctxDone, faults, history>>

ReleaseSlot(c) ==
  /\ pc[c] = "returned" /\ c \in Queries
  /\ slots' = slots - 1
  /\ Goto(c, "classify") /\ unread' = [unread EXCEPT ![c] = 0]
  /\ UNCHANGED <<resume, call, ctxDone, faults, history>>

(* Everything but a rate-limit error ends gqlQuery.                        *)
EndQuery(c) ==
  /\ pc[c] = "classify"
  /\ reply[c].kind # "limited" \/ ctxDone
  /\ Goto(c, "done")
  /\ UNCHANGED <<resume, slots, call, ctxDone, unread, faults, history>>

(* Mutant: the query waits alone.                                          *)
PauseAlone(c, w) ==
  /\ pc[c] = "classify" /\ reply[c].kind = "limited" /\ ~ctxDone
  /\ asked' = Later(asked, w) /\ UNCHANGED resume
  /\ wake' = [wake EXCEPT ![c] = w]
  /\ reply' = [reply EXCEPT ![c] = Reply("canceled", 0)]
  /\ Goto(c, "paused")
  /\ UNCHANGED <<slots, attempt, ctxDone, unread, faults, promised>>

(* "the transport pause is set so every goroutine waits before its next    *)
(* request, then this goroutine sleeps and retries". The wait comes from   *)
(* the reset time of whichever response was the last to name one.          *)
PauseAll(c, w) ==
  /\ pc[c] = "classify" /\ reply[c].kind = "limited" /\ ~ctxDone
  /\ RecordPause(w)
  /\ wake' = [wake EXCEPT ![c] = w]
  /\ reply' = [reply EXCEPT ![c] = Reply("canceled", 0)]
  /\ Goto(c, "paused")
  /\ UNCHANGED <<slots, attempt, ctxDone, unread, faults, promised>>

-----------------------------------------------------------------------------
Step(c) ==
  \/ Acquire(c) \/ Leave(c) \/ Enter(c) \/ Wake(c) \/ SleepCanceled(c) \/ Send(c)
  \/ \E r \in Replies : Respond(c, r)
  \/ GiveUp(c) \/ GiveUpBody(c) \/ Retry(c) \/ Finish(c)
  \/ ReleaseSlot(c) \/ EndQuery(c)
  \/ \E w \in Waits : PauseAll(c, w)

Finished == (\A c \in Callers : pc[c] = "done") /\ UNCHANGED vars

Next ==
  \/ (Tick \/ Cancel \/ \E c \in Callers : Step(c)) /\ UNCHANGED request
  \/ Finished

Spec == Init /\ [][Next]_vars

(* Time goes on, servers answer (or the client's timeout does) and Go      *)
(* schedules every runnable goroutine. A slot that is free again and again *)
(* is got in the end: senders on a channel queue in order.                 *)
FairSpec ==
  /\ Spec /\ WF_vars(Tick /\ UNCHANGED request)
  /\ \A c \in Callers : WF_vars(Step(c) /\ UNCHANGED request)
                         /\ SF_vars(Acquire(c) /\ UNCHANGED request)
-----------------------------------------------------------------------------
(* A pause that has been recorded is kept by every call that begins after  *)
(* it, whatever shorter pauses other goroutines record meanwhile, and a    *)
(* goroutine that was told to wait itself sends nothing before that time.  *)
PausesHonoured ==
  [][\A c \in Callers : pc[c] = "send" /\ pc'[c] = "inflight" => promised[c] = 0]_vars

(* The connection of a response that is retried is free again before the   *)
(* next attempt, and what a caller gets is the last response, unread: a    *)
(* drained one is returned only if the request could not be sent again.    *)
ResponsesIntact ==
  \A c \in Callers :
    /\ unread[c] <= 1
    /\ pc[c] \notin {"responded", "returned"} => unread[c] = 0
    /\ pc[c] \in {"responded", "returned"} /\ reply[c].kind \in Responses =>
         unread[c] = 1 \/ (request[c] = "stream" /\ Retryable(c))

(* Every call returns when the servers stop failing: nobody sleeps for     *)
(* ever, and no query is left without a slot.                              *)
Returns == \A c \in Callers : <>(pc[c] = "done")
=============================================================================
