--------------------------- MODULE SourceContract ---------------------------
(***************************************************************************)
(* What sources/source.go asks of every Source: yield may be called from   *)
(* several goroutines, every call has returned before Fragments does, a    *)
(* refused yield is propagated, a source that could not finish says so,    *)
(* and it says that it was stopped only when it was.                       *)
(***************************************************************************)
CONSTANTS
  Inputs,   (* what the source reads: one yield call each                   *)
  Stops     (* the errors that mean "stopped" to the scanner                *)

VARIABLES
  phase,    (* before or after the return of Fragments                      *)
  yielding, (* the inputs whose yield call is in progress                   *)
  stopped,  (* the context is cancelled, or yield has refused a fragment    *)
  failed,   (* something the source needed in order to finish has failed    *)
  verdict   (* the errors joined in what Fragments returned                 *)

vars == <<phase, yielding, stopped, failed, verdict>>

Init ==
  /\ phase = "running" /\ yielding = {}
  /\ ~stopped /\ ~failed /\ verdict = {}

Call(i) ==
  /\ phase = "running" /\ i \notin yielding
  /\ yielding' = yielding \cup {i}
  /\ UNCHANGED <<phase, stopped, failed, verdict>>

(* The call returns; a refusal stops the source.                           *)
Answer(i) ==
  /\ i \in yielding
  /\ yielding' = yielding \ {i}
  /\ stopped' \in {stopped, TRUE}
  /\ UNCHANGED <<phase, failed, verdict>>

Cancel == ~stopped /\ stopped' = TRUE /\ UNCHANGED <<phase, yielding, failed, verdict>>

(* A failure may stop what is left of the source.                          *)
Fail ==
  /\ ~failed /\ failed' = TRUE
  /\ stopped' \in {stopped, TRUE}
  /\ UNCHANGED <<phase, yielding, verdict>>

Return(errs) ==
  /\ phase = "running" /\ yielding = {}
  /\ failed' \in {failed, TRUE}
  /\ failed' => errs # {}
  /\ errs \cap Stops # {} => stopped
  /\ phase' = "returned" /\ verdict' = errs
  /\ UNCHANGED <<yielding, stopped>>

(* An input that is called is one that yielding gains; TLC tries no other. *)
Next ==
  \/ Cancel \/ Fail
  \/ \E i \in Inputs \cap (yielding' \ yielding) : Call(i)
  \/ \E i \in yielding : Answer(i)
  \/ \E errs \in SUBSET (Stops \cup {"fail"}) : Return(errs)

Spec == Init /\ [][Next]_vars
=============================================================================
