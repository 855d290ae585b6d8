---------------------------- MODULE ScanContract ----------------------------
(***************************************************************************)
(* What Scanner.Scan promises its caller (scan/scanner.go, the comments on *)
(* Scan and Handler), without goroutines, channels or permits: findings    *)
(* are delivered one at a time and each at most once, none after Scan has  *)
(* returned, and a nil error is returned only when everything that the     *)
(* source handed over was scanned to its end, nothing failed, and the      *)
(* source handed over all that it has. The last part is not promised of a  *)
(* source that speaks of a cancellation: Scan then takes its word for it   *)
(* that it was stopped, and says nothing.                                  *)
(***************************************************************************)
EXTENDS Naturals

CONSTANTS Scans, Yields, Offers

VARIABLES
  offer,     (* offer[s][y]: what the source of scan s can hand over        *)
  phase,     (* phase[s]: before, during or after the call of Scan          *)
  offered,   (* offered[s]: what it has handed over                         *)
  said,      (* said[s]: the classes of errors the source returned          *)
  delivered, (* delivered[s][y]: findings of y given to the handler         *)
  verdict    (* verdict[s]: what Scan returned                              *)

vars == <<offer, phase, offered, said, delivered, verdict>>

Init ==
  /\ offer \in Offers
  /\ phase = [s \in Scans |-> "idle"]
  /\ offered = [s \in Scans |-> {}]
  /\ said = [s \in Scans |-> {}]
  /\ delivered = [s \in Scans |-> [y \in Yields |-> 0]]
  /\ verdict = [s \in Scans |-> "none"]

Begin(s) ==
  /\ phase[s] = "idle"
  /\ phase' = [phase EXCEPT ![s] = "running"]
  /\ UNCHANGED <<offer, offered, said, delivered, verdict>>

(* The source hands over y, and ends with errors.                          *)
HandOver(s, y) ==
  /\ phase[s] = "running" /\ y \notin offered[s]
  /\ offered' = [offered EXCEPT ![s] = @ \cup {y}]
  /\ UNCHANGED <<offer, phase, said, delivered, verdict>>

Say(s) ==
  /\ phase[s] = "running" /\ said[s] = {}
  /\ \E errs \in SUBSET {"stop", "fail"} : said' = [said EXCEPT ![s] = errs]
  /\ UNCHANGED <<offer, phase, offered, delivered, verdict>>

Deliver(s, y) ==
  /\ phase[s] = "running" /\ y \in offered[s]
  /\ delivered[s][y] < offer[s][y].found
  /\ delivered' = [delivered EXCEPT ![s][y] = @ + 1]
  /\ UNCHANGED <<offer, phase, offered, said, verdict>>

Complete(s) ==
  /\ \A y \in offered[s] :
       /\ offer[s][y].kind \notin {"error", "broken"}
       /\ offer[s][y].kind = "fragment" => delivered[s][y] = offer[s][y].found
  /\ \/ "stop" \in said[s]
     \/ \E y \in offered[s] : offer[s][y].kind = "canceled"
     \/ said[s] = {} /\ \A y \in Yields \ offered[s] : offer[s][y].kind = "canceled"

Return(s) ==
  /\ phase[s] = "running"
  /\ phase' = [phase EXCEPT ![s] = "returned"]
  /\ \E v \in {"nil", "error"} :
       /\ v = "nil" => Complete(s)
       /\ verdict' = [verdict EXCEPT ![s] = v]
  /\ UNCHANGED <<offer, offered, said, delivered>>

Next == \E s \in Scans : \/ Begin(s) \/ Say(s) \/ Return(s)
                         \/ \E y \in Yields : HandOver(s, y) \/ Deliver(s, y)

Spec == Init /\ [][Next]_vars
=============================================================================
