---------------------------- MODULE ScanCommand ----------------------------
(***************************************************************************)
(* A scanning command from the first target to the exit code:              *)
(* pipeline.Scan (pipeline/pipeline.go) on each target in turn, the        *)
(* findingCollector (cmd/findings_collector.go) that is its handler, and   *)
(* findingSummaryAndExit (cmd/root.go). The targets are the paths of       *)
(* cmd/directory.go; every other command has one.                          *)
(*                                                                         *)
(* The scanner is taken as ScanContract describes it and the analyzer as   *)
(* AnalyzeStream does: findings arrive in any order, one at a time, and an *)
(* error is returned unless all of them did, or the source has spoken of a *)
(* cancellation. Writers may fail at every write and the command may be    *)
(* interrupted at any moment.                                              *)
(***************************************************************************)
EXTENDS Naturals, Sequences, FiniteSets

CONSTANTS
  Found,   (* the findings in what each target's source offers              *)
  Setups   (* flags: [terminal, report, validating, hidden, exitCode]       *)

Findings == UNION {Found[t] : t \in DOMAIN Found}

(* hidden: the findings whose status will not be among those asked for.    *)
Flags == [terminal : {"none", "pretty", "jsonl"}, report : {"none", "file"},
          validating : BOOLEAN, hidden : SUBSET Findings, exitCode : Nat]

ASSUME FoundAssumption ==
  /\ Found \in Seq(SUBSET Findings) /\ IsFiniteSet(Findings)
  /\ \A t, u \in DOMAIN Found : t # u => Found[t] \cap Found[u] = {}
ASSUME SetupsAssumption == Setups \subseteq Flags

VARIABLES
  setup,
  at,        (* the command: prepares, scans, finishes, closes, has ended   *)
  target,    (* the target it is at                                         *)
  todo,      (* findings that the scanner has not reported yet              *)
  pending,   (* those that the analyzer has accepted and not resolved       *)
  scanErr,   (* the scan or the producer has an error                       *)
  stopped,   (* ... or the handler                                          *)
  dropped,   (* history: findings lost to a failure the scanner dropped     *)
  ctxDone,   (* the command is interrupted                                  *)
  errs,      (* scanErrs is not empty                                       *)
  detected, resolved, emitted, (* the summary, added up over the targets    *)
  attempted, (* the findings that Add has tried to write                    *)
  numFindings,
  failed,    (* destinations with a sticky error: stdoutErr and reportErr   *)
  content,   (* the findings written to each destination                    *)
  totals,    (* the scan metadata that ends each destination, if any        *)
  state,     (* scan.State                                                  *)
  exit       (* the exit code, once it has ended                            *)

scan      == <<target, todo, pending, scanErr, stopped, dropped>>
summary   == <<detected, resolved, emitted>>
collector == <<attempted, numFindings, failed, content, totals>>
vars == <<setup, at, scan, ctxDone, errs, summary, collector, state, exit>>

Destinations == {"terminal", "report"}
NoTotals == [findings |-> 0, state |-> "none"]

Enabled == {d \in Destinations : setup[d] # "none"}
Writers == {d \in Enabled : setup[d] # "pretty"}

Init ==
  /\ setup \in Setups
  /\ at = "prepare" /\ target = 1 /\ todo = {} /\ pending = {}
  /\ scanErr = FALSE /\ stopped = FALSE /\ dropped = {} /\ ctxDone = FALSE /\ errs = FALSE
  /\ detected = 0 /\ resolved = 0 /\ emitted = 0
  /\ attempted = {} /\ numFindings = 0 /\ failed = {}
  /\ content = [d \in Destinations |-> {}]
  /\ totals = [d \in Destinations |-> NoTotals]
  /\ state = "incomplete" /\ exit = 0
-----------------------------------------------------------------------------
Interrupt ==
  /\ ~ctxDone /\ ctxDone' = TRUE
  /\ UNCHANGED <<setup, at, scan, errs, summary, collector, state, exit>>

(* The filters or the pipeline of a target cannot be set up: no further    *)
(* target is scanned, and the report is finished all the same.             *)
PrepareFails ==
  /\ at = "prepare" /\ target <= Len(Found)
  /\ errs' = TRUE /\ at' = "finish"
  /\ UNCHANGED <<setup, scan, ctxDone, summary, collector, state, exit>>

StartScan ==
  /\ at = "prepare" /\ target <= Len(Found)
  /\ at' = "scanning" /\ todo' = Found[target]
  /\ UNCHANGED <<setup, target, pending, scanErr, stopped, dropped, ctxDone, errs, summary,
                 collector, state, exit>>

(* A recoverable error: what it hides is not scanned, the rest is.         *)
SourceFails ==
  /\ at = "scanning" /\ ~scanErr
  /\ scanErr' = TRUE
  /\ todo' \in SUBSET todo
  /\ UNCHANGED <<setup, at, target, pending, stopped, dropped, ctxDone, errs, summary,
                 collector, state, exit>>

(* A failure that the source joins to a cancellation: the scanner takes    *)
(* the two for a stop and reports neither (ScanContract).                  *)
FailureDropped ==
  /\ at = "scanning" /\ todo # {}
  /\ todo' \in SUBSET todo
  /\ dropped' = dropped \cup (todo \ todo')
  /\ UNCHANGED <<setup, at, target, pending, scanErr, stopped, ctxDone, errs, summary,
                 collector, state, exit>>
-----------------------------------------------------------------------------
(* Add tries both destinations, so that the failure of one does not lose   *)
(* the finding in the other, and nothing is written after a failure.       *)
Deliver(f, bad) ==
  /\ attempted' = attempted \cup {f}
  /\ content' = [d \in Destinations |-> IF d \in Enabled \ bad THEN content[d] \cup {f}
                                        ELSE content[d]]
  /\ numFindings' = IF Enabled = {} \/ Enabled # bad THEN numFindings + 1 ELSE numFindings
  /\ failed' = bad
  /\ UNCHANGED totals

AddForgetsFailure(f) == \E bad \in SUBSET Enabled : Deliver(f, bad)

AddStopsAtFailure(f) ==
  /\ failed = {}
  /\ \E bad \in SUBSET Enabled :
       /\ attempted' = attempted \cup {f}
       /\ content' = [d \in Destinations |-> IF d \in Enabled /\ bad = {} THEN content[d] \cup {f}
                                             ELSE content[d]]
       /\ numFindings' = IF bad = {} THEN numFindings + 1 ELSE numFindings
       /\ failed' = bad
  /\ UNCHANGED totals

Add(f) ==
  \/ failed # {} /\ UNCHANGED collector
  \/ failed = {} /\ \E bad \in SUBSET Enabled : Deliver(f, bad)

(* emit, the handler that pipeline.Scan gives to scanner or analyzer.      *)
EmitCountsAll(f) ==
  /\ resolved' = resolved + 1 /\ emitted' = emitted + 1
  /\ IF f \in setup.hidden THEN UNCHANGED <<collector, stopped>>
     ELSE Add(f) /\ stopped' = (failed' # {})

Emit(f) ==
  /\ resolved' = resolved + 1
  /\ \/ f \in setup.hidden /\ UNCHANGED <<emitted, collector, stopped>>
     \/ f \notin setup.hidden /\ emitted' = emitted + 1 /\ Add(f) /\ stopped' = (failed' # {})

(* Without an analyzer the scanner calls emit itself.                      *)
Report(f) ==
  /\ at = "scanning" /\ ~setup.validating /\ f \in todo /\ ~stopped /\ ~ctxDone
  /\ todo' = todo \ {f} /\ detected' = detected + 1
  /\ Emit(f)
  /\ UNCHANGED <<setup, at, target, pending, scanErr, dropped, ctxDone, errs, state, exit>>

(* With one, the scanner's handler gives the finding to the stream.        *)
Accept(f) ==
  /\ at = "scanning" /\ setup.validating /\ f \in todo /\ ~stopped /\ ~ctxDone
  /\ todo' = todo \ {f} /\ pending' = pending \cup {f} /\ detected' = detected + 1
  /\ UNCHANGED <<setup, at, target, scanErr, stopped, dropped, ctxDone, errs, resolved,
                 emitted, collector, state, exit>>

(* The stream refuses it, as it has stopped or cannot analyze it; that     *)
(* ends the scanner, and what has been accepted before is still resolved.  *)
Refuse(f) ==
  /\ at = "scanning" /\ setup.validating /\ f \in todo
  /\ todo' = {} /\ detected' = detected + 1 /\ scanErr' = TRUE
  /\ UNCHANGED <<setup, at, target, pending, stopped, dropped, ctxDone, errs, resolved,
                 emitted, collector, state, exit>>

Resolve(f) ==
  /\ at = "scanning" /\ f \in pending /\ ~stopped /\ ~ctxDone
  /\ pending' = pending \ {f}
  /\ Emit(f)
  /\ UNCHANGED <<setup, at, target, todo, scanErr, dropped, ctxDone, errs, detected, state,
                 exit>>

(* Scan returns when all is done, or without the rest when it is stopped.  *)
NextTarget ==
  /\ at = "scanning"
  /\ todo \cup pending = {} \/ stopped \/ ctxDone
  /\ at' = "prepare" /\ target' = target + 1
  /\ todo' = {} /\ pending' = {} /\ scanErr' = FALSE /\ stopped' = FALSE
  /\ UNCHANGED <<setup, dropped, ctxDone, summary, collector, state, exit>>

EndScanKeepsLast == NextTarget /\ errs' = (scanErr \/ stopped \/ ctxDone)

EndScan == NextTarget /\ errs' = (errs \/ scanErr \/ stopped \/ ctxDone)
-----------------------------------------------------------------------------
AllScanned ==
  /\ at = "prepare" /\ target > Len(Found)
  /\ at' = "finish"
  /\ UNCHANGED <<setup, scan, ctxDone, errs, summary, collector, state, exit>>

(* The interruption is looked at once more, before the report is closed.   *)
Finish ==
  /\ at = "finish"
  /\ state' = IF errs \/ ctxDone THEN "incomplete" ELSE "complete"
  /\ at' = "close"
  /\ UNCHANGED <<setup, scan, ctxDone, errs, summary, collector, exit>>

(* Close ends every healthy destination with the metadata; an error of it, *)
(* or an earlier one, is fatal (exit code 1) before the results are looked *)
(* at. unclosed is what cannot be ended or closed.                         *)
Close(unfinished, unclosed) ==
  /\ at = "close" /\ at' = "ended"
  /\ totals' = [d \in Destinations |-> IF d \in unfinished THEN NoTotals
                                       ELSE [findings |-> numFindings, state |-> state]]
  /\ exit' = CASE failed \cup unclosed # {} \/ state = "incomplete" -> 1
               [] OTHER -> IF numFindings = 0 THEN 0 ELSE setup.exitCode
  /\ UNCHANGED <<setup, scan, ctxDone, errs, summary, attempted, numFindings, failed,
                 content, state>>

EndAllDestinations == \E bad \in SUBSET Writers : Close((Destinations \ Writers) \cup bad, bad)

End ==
  \E bad \in SUBSET Writers, unclosed \in SUBSET (Enabled \cap {"report"}) :
    Close((Destinations \ Writers) \cup failed \cup bad, bad \cup unclosed)

Finished == at = "ended" /\ UNCHANGED vars

Next ==
  \/ Interrupt \/ PrepareFails \/ StartScan \/ SourceFails \/ FailureDropped
  \/ \E f \in Findings : Report(f) \/ Accept(f) \/ Refuse(f) \/ Resolve(f)
  \/ EndScan \/ AllScanned \/ Finish \/ End \/ Finished

Spec == Init /\ [][Next]_vars
-----------------------------------------------------------------------------
(* "A terminal failure does not lose a finding from a healthy report.      *)
(* Failed destinations receive no misleading final totals" (the comment in *)
(* Add): a healthy destination holds all that was tried, and whatever      *)
(* totals a reader finds are those of the findings before them.            *)
TotalsMatchContent ==
  /\ \A d \in Enabled \ failed : content[d] = attempted /\ Cardinality(content[d]) = numFindings
  /\ \A d \in Destinations : totals[d] # NoTotals =>
       totals[d].findings = Cardinality(content[d]) /\ totals[d].state = state

(* The counts of the summary shrink in their order, and of a run without   *)
(* an error they differ by what was hidden alone: the findings that a      *)
(* dropped failure has lost are in none of them.                           *)
CountsAgree ==
  /\ numFindings <= emitted /\ emitted <= resolved /\ resolved <= detected
  /\ at = "finish" /\ ~errs =>
       resolved = detected /\ numFindings = emitted
       /\ resolved - emitted = Cardinality(setup.hidden \ dropped)

(* A scan is called complete, and a command that found nothing ends with   *)
(* code 0, only if every target was scanned, over all failures of earlier  *)
(* targets, writers and the interruption, and every destination holds      *)
(* every finding. A finding is missing for one reason only: its source     *)
(* joined the failure that lost it to a cancellation. Nothing that the     *)
(* scanner reported to the command, or found, is lost on the way.          *)
OutcomeHonest ==
  /\ state = "complete" =>
       /\ target > Len(Found)
       /\ \A d \in Enabled : content[d] = Findings \ (setup.hidden \cup dropped)
  /\ at = "ended" /\ exit = 0 =>
       /\ state = "complete" /\ (setup.exitCode # 0 => Findings \subseteq setup.hidden \cup dropped)
       /\ \A d \in Writers : totals[d] # NoTotals
=============================================================================
