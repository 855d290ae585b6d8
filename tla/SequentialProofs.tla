-------------------------- MODULE SequentialProofs --------------------------
(***************************************************************************)
(* Proofs about the two state machines that one goroutine runs. The first  *)
(* part is about ScanCommand, for any number of targets and findings and   *)
(* any flags; its inductive invariant has four parts: the types, where     *)
(* findings can be (Places), what the collector holds (Collected) and what *)
(* is known of a command without an error (Faultless). The second part is  *)
(* about ChunkReader, for any streams, buffers and reads.                  *)
(***************************************************************************)
EXTENDS ScanCommand, ChunkReader, FiniteSetTheorems, TLAPS

TypeOK ==
  /\ setup \in Flags
  /\ at \in {"prepare", "scanning", "finish", "close", "ended"}
  /\ target \in 1 .. Len(Found) + 1
  /\ todo \subseteq Findings /\ pending \subseteq Findings /\ attempted \subseteq Findings
  /\ dropped \subseteq Findings
  /\ scanErr \in BOOLEAN /\ stopped \in BOOLEAN /\ errs \in BOOLEAN /\ ctxDone \in BOOLEAN
  /\ detected \in Nat /\ resolved \in Nat /\ emitted \in Nat /\ numFindings \in Nat
  /\ failed \subseteq Enabled
  /\ content \in [Destinations -> SUBSET Findings]
  /\ state \in {"incomplete", "complete"}

(* The findings of the targets before n, and those that are behind us: the *)
(* rest of the current target is still on its way. They are done, unless a *)
(* dropped failure has lost them.                                          *)
Before(n) == UNION {Found[t] : t \in {u \in DOMAIN Found : u < n}}

Passed == IF at = "scanning" THEN (Before(target) \cup Found[target]) \ (todo \cup pending)
          ELSE Before(target)

Done == Passed \ dropped

Places ==
  /\ at = "scanning" => target <= Len(Found) /\ todo \cup pending \subseteq Found[target]
                        /\ todo \cap pending = {}
  /\ at # "scanning" => todo = {} /\ pending = {} /\ scanErr = FALSE /\ stopped = FALSE
  /\ attempted \subseteq Done /\ dropped \subseteq Passed
  /\ at \in {"finish", "close", "ended"} /\ ~errs => target = Len(Found) + 1

Collected ==
  /\ \A d \in Enabled \ failed : content[d] = attempted
  /\ failed = {} \/ Enabled \ failed # {} => numFindings = Cardinality(attempted)
  /\ at # "ended" => \A d \in Destinations : totals[d] = NoTotals
  /\ \A d \in Destinations : totals[d] # NoTotals =>
       totals[d].findings = Cardinality(content[d]) /\ totals[d].state = state
  /\ numFindings <= emitted /\ emitted <= resolved
  /\ resolved + Cardinality(pending) <= detected

(* No error so far: everything dealt with was written, or was hidden.      *)
Faultless ==
  /\ at \in {"prepare", "scanning", "finish"} /\ ~errs /\ ~scanErr /\ ~stopped =>
       /\ failed = {} /\ attempted = Done \ setup.hidden
       /\ detected = resolved + Cardinality(pending)
       /\ numFindings = emitted /\ resolved = emitted + Cardinality(Done \cap setup.hidden)
  /\ state = "complete" =>
       /\ at \in {"close", "ended"} /\ target = Len(Found) + 1
       /\ failed = {} /\ attempted = Findings \ (setup.hidden \cup dropped)

IInv == TypeOK /\ Places /\ Collected /\ Faultless
-----------------------------------------------------------------------------
(* The findings, by target.                                                *)
LEMMA FoundFacts ==
  /\ Len(Found) \in Nat /\ DOMAIN Found = 1 .. Len(Found)
  /\ \A t \in 1 .. Len(Found) : Found[t] \subseteq Findings
  BY FoundAssumption DEF Findings

LEMMA SubsetFinite ==
  ASSUME NEW S, S \subseteq Findings
  PROVE  IsFiniteSet(S) /\ Cardinality(S) \in Nat
  BY FoundAssumption, FS_Subset, FS_CardinalityType

LEMMA BeforeNext ==
  ASSUME NEW n \in 1 .. Len(Found)
  PROVE  /\ Before(n + 1) = Before(n) \cup Found[n]
         /\ Before(n) \cap Found[n] = {}
<1> USE FoundFacts
<1>1. {u \in DOMAIN Found : u < n + 1} = {u \in DOMAIN Found : u < n} \cup {n}
  OBVIOUS
<1>2. Before(n + 1) = Before(n) \cup Found[n]
  BY <1>1 DEF Before
<1>3. Before(n) \cap Found[n] = {}
  BY FoundAssumption DEF Before
<1>4. QED
  BY <1>2, <1>3

LEMMA BeforeEnds == Before(1) = {} /\ Before(Len(Found) + 1) = Findings
<1> USE FoundFacts
<1>1. {u \in DOMAIN Found : u < 1} = {} /\ {u \in DOMAIN Found : u < Len(Found) + 1} = DOMAIN Found
  OBVIOUS
<1>2. QED
  BY <1>1 DEF Before, Findings

LEMMA DoneFindings == TypeOK /\ Places => Done \subseteq Findings
<1> SUFFICES ASSUME TypeOK, Places PROVE Done \subseteq Findings
  OBVIOUS
<1>1. Before(target) \subseteq Findings
  BY DEF Before, Findings
<1>2. at = "scanning" => Found[target] \subseteq Findings
  BY FoundFacts DEF Places, TypeOK
<1>3. QED
  BY <1>1, <1>2 DEF Done, Passed

LEMMA CountsMove ==
  ASSUME NEW d \in Nat, NEW d1 \in Nat, NEW r \in Nat, NEW p \in Nat, NEW p1 \in Nat,
         d1 + p = d + p1 + 1, d = r + p
  PROVE  d1 = (r + 1) + p1
  OBVIOUS

LEMMA HiddenMove ==
  ASSUME NEW r \in Nat, NEW e \in Nat, NEW h \in Nat, r = e + h
  PROVE  r + 1 = (e + 1) + h /\ r + 1 = e + (h + 1)
  OBVIOUS

-----------------------------------------------------------------------------
(* A finding on its way reaches emit: the step that Report and Resolve     *)
(* have in common.                                                         *)
Reaches(f) ==
  /\ at = "scanning" /\ ~stopped /\ f \in todo \cup pending
  /\ todo' \cup pending' = (todo \cup pending) \ {f} /\ todo' \cap pending' = {}
  /\ detected' + Cardinality(pending) = detected + Cardinality(pending') + 1
  /\ detected' \in Nat
  /\ Emit(f)
  /\ UNCHANGED <<setup, at, target, scanErr, dropped, errs, state>>

LEMMA EmitTypes ==
  ASSUME IInv, NEW f \in Findings, Reaches(f)
  PROVE  /\ stopped' \in BOOLEAN /\ resolved' \in Nat /\ emitted' \in Nat
         /\ numFindings' \in Nat /\ attempted' \subseteq Findings /\ failed' \subseteq Enabled
         /\ content' \in [Destinations -> SUBSET Findings]
<1>1. /\ stopped' \in BOOLEAN /\ resolved' \in Nat /\ emitted' \in Nat
  <2>1. stopped' = stopped \/ stopped' = (failed' # {})
    BY Zenon DEF Reaches, Emit
  <2>2. stopped' \in BOOLEAN
    BY <2>1, Zenon DEF IInv, TypeOK
  <2>3. resolved' = resolved + 1 /\ emitted' \in {emitted, emitted + 1}
    BY DEF Reaches, Emit
  <2>4. QED
    BY <2>2, <2>3 DEF IInv, TypeOK
<1>2. CASE UNCHANGED <<attempted, numFindings, failed, content>>
  BY <1>1, <1>2 DEF IInv, TypeOK, Reaches, Enabled
<1>3. CASE \E bad \in SUBSET Enabled : Deliver(f, bad)
  <2> PICK bad \in SUBSET Enabled : Deliver(f, bad)
    BY <1>3
  <2>1. numFindings' \in Nat /\ attempted' \subseteq Findings /\ failed' \subseteq Enabled
    BY DEF IInv, TypeOK, Deliver
  <2>2. content' \in [Destinations -> SUBSET Findings]
    <3>1. \A d \in Destinations : content[d] \subseteq Findings
      BY DEF IInv, TypeOK
    <3>2. QED
      BY <3>1 DEF Deliver
  <2>3. QED
    BY <1>1, <2>1, <2>2
<1>4. QED
  BY <1>2, <1>3 DEF Reaches, Emit, Add, collector

LEMMA DoneGrows ==
  ASSUME IInv, NEW f \in Findings, Reaches(f)
  PROVE  /\ f \notin Done /\ f \notin attempted /\ dropped \subseteq Passed'
         /\ Done' = Done \cup {f} /\ (Done \cup {f}) \subseteq Findings
<1>1. f \notin Passed /\ f \notin attempted /\ dropped \subseteq Passed
  BY DEF IInv, Reaches, Places, Done, Passed
<1>2. f \in Found[target]
  BY DEF IInv, Reaches, Places
<1>3. Passed' = Passed \cup {f}
  BY <1>2, BeforeNext DEF IInv, Reaches, Passed, Before, TypeOK, Places
<1>4. Done' = Done \cup {f}
  BY <1>1, <1>3 DEF Done, Reaches
<1>5. QED
  BY <1>1, <1>3, <1>4, DoneFindings DEF IInv, Done

LEMMA EmitPlaces ==
  ASSUME IInv, NEW f \in Findings, Reaches(f)
  PROVE  Places'
<1>1. attempted' \subseteq attempted \cup {f}
  BY DEF Reaches, Emit, Add, Deliver, collector
<1>2. attempted' \subseteq Done'
  BY <1>1, DoneGrows DEF IInv, Places
<1>3. QED
  BY <1>2, DoneGrows DEF IInv, Places, Reaches

LEMMA EmitCollected ==
  ASSUME IInv, NEW f \in Findings, Reaches(f), pending' \subseteq Findings
  PROVE  Collected'
<1>1. Enabled' = Enabled
  BY DEF Reaches, Enabled
<1>2. Cardinality(attempted \cup {f}) = Cardinality(attempted) + 1
      /\ Cardinality(attempted) \in Nat
  BY DoneGrows, SubsetFinite, FS_AddElement DEF IInv, TypeOK
<1>3. /\ Cardinality(pending) \in Nat /\ Cardinality(pending') \in Nat
  BY SubsetFinite DEF IInv, TypeOK
<1>4. resolved' + Cardinality(pending') <= detected'
  <2>1. resolved' = resolved + 1
    BY DEF Reaches, Emit
  <2>2. QED
    BY <1>3, <2>1 DEF Reaches, IInv, TypeOK, Collected
<1>5. UNCHANGED totals /\ at' = "scanning"
  BY DEF Reaches, Emit, Add, Deliver, collector
<1>6. CASE UNCHANGED <<attempted, numFindings, failed, content>>
  <2>1. emitted' <= resolved' /\ emitted <= emitted'
    BY DEF Reaches, Emit, IInv, TypeOK, Collected
  <2>2. numFindings' <= emitted'
    BY <1>6, <2>1, EmitTypes DEF IInv, TypeOK, Collected
  <2>3. QED
    BY <1>1, <1>4, <1>5, <1>6, <2>1, <2>2 DEF IInv, Collected, Reaches
<1>7. CASE /\ failed = {} /\ emitted' = emitted + 1
           /\ \E bad \in SUBSET Enabled : Deliver(f, bad)
  <2> PICK bad \in SUBSET Enabled : Deliver(f, bad)
    BY <1>7
  <2>1. \A d \in (Enabled \ failed)' : content'[d] = attempted'
    <3>1. ASSUME NEW d \in Enabled \ bad PROVE content'[d] = attempted'
      <4>1. content[d] = attempted
        BY <1>7 DEF IInv, Collected
      <4>2. content'[d] = content[d] \cup {f}
        BY DEF Deliver, Enabled
      <4>3. QED
        BY <4>1, <4>2 DEF Deliver
    <3>2. QED
      BY <1>1, <3>1 DEF Deliver
  <2>2. (failed = {} \/ Enabled \ failed # {})' => numFindings' = Cardinality(attempted')
    <3>1. numFindings = Cardinality(attempted) /\ attempted' = attempted \cup {f}
      BY <1>7 DEF IInv, Collected, Deliver
    <3>2. (failed = {} \/ Enabled \ failed # {})' => numFindings' = numFindings + 1
      BY <1>1 DEF Deliver
    <3>3. QED
      BY <1>2, <3>1, <3>2
  <2>3. numFindings' <= emitted' /\ emitted' <= resolved'
    <3>1. numFindings' \in {numFindings, numFindings + 1} /\ resolved' = resolved + 1
      BY DEF Deliver, Reaches, Emit
    <3>2. QED
      BY <1>7, <3>1 DEF IInv, TypeOK, Collected
  <2>4. \A d \in Destinations : totals'[d] = NoTotals
    BY <1>5 DEF IInv, Collected, Reaches
  <2>5. QED
    BY <1>4, <1>5, <2>1, <2>2, <2>3, <2>4 DEF Collected
<1>8. QED
  BY <1>6, <1>7 DEF Reaches, Emit, Add, collector

LEMMA EmitFaultless ==
  ASSUME IInv, NEW f \in Findings, Reaches(f), pending' \subseteq Findings
  PROVE  Faultless'
<1>1. state' # "complete"
  BY DEF IInv, Faultless, Reaches
<1>2. SUFFICES ASSUME ~errs, ~scanErr, ~stopped'
               PROVE  /\ failed' = {} /\ attempted' = Done' \ setup.hidden
                      /\ detected' = resolved' + Cardinality(pending')
                      /\ numFindings' = emitted'
                      /\ resolved' = emitted' + Cardinality(Done' \cap setup.hidden)
  BY <1>1 DEF Faultless, Reaches
<1>3. /\ failed = {} /\ attempted = Done \ setup.hidden
      /\ detected = resolved + Cardinality(pending)
      /\ numFindings = emitted /\ resolved = emitted + Cardinality(Done \cap setup.hidden)
  BY <1>2 DEF IInv, Faultless, Reaches
<1>4. resolved' = resolved + 1
  BY DEF Reaches, Emit
<1>5. detected' = resolved' + Cardinality(pending')
  <2>1. Cardinality(pending) \in Nat /\ Cardinality(pending') \in Nat
    BY SubsetFinite DEF IInv, TypeOK
  <2>2. /\ detected \in Nat /\ detected' \in Nat /\ resolved \in Nat
        /\ detected' + Cardinality(pending) = detected + Cardinality(pending') + 1
    BY DEF Reaches, IInv, TypeOK
  <2>3. QED
    BY <1>3, <1>4, <2>1, <2>2, CountsMove
<1>6. IsFiniteSet(Done \cap setup.hidden) /\ Cardinality(Done \cap setup.hidden) \in Nat
  BY DoneGrows, SubsetFinite
<1>7. resolved \in Nat /\ emitted \in Nat
  BY DEF IInv, TypeOK
<1>8. CASE f \in setup.hidden
  <2>1. UNCHANGED <<emitted, attempted, numFindings, failed>>
    BY <1>8 DEF Reaches, Emit, collector
  <2>2. Done' \cap setup.hidden = (Done \cap setup.hidden) \cup {f}
        /\ Done' \ setup.hidden = Done \ setup.hidden
    BY <1>8, DoneGrows
  <2>3. Cardinality(Done' \cap setup.hidden) = Cardinality(Done \cap setup.hidden) + 1
    <3>1. f \notin Done \cap setup.hidden
      BY DoneGrows
    <3>2. QED
      BY <1>6, <2>2, <3>1, FS_AddElement
  <2>4. resolved' = emitted' + Cardinality(Done' \cap setup.hidden)
    BY <1>3, <1>4, <1>6, <1>7, <2>1, <2>3, HiddenMove
  <2>5. QED
    BY <1>3, <1>5, <2>1, <2>2, <2>4
<1>9. CASE f \notin setup.hidden
  <2>1. /\ emitted' = emitted + 1 /\ failed' = {}
        /\ attempted' = attempted \cup {f} /\ numFindings' = numFindings + 1
    <3>1. /\ emitted' = emitted + 1 /\ failed' = {}
          /\ \E bad \in SUBSET Enabled : Deliver(f, bad)
      BY <1>2, <1>3, <1>9, Zenon DEF Reaches, Emit, Add
    <3>2. Deliver(f, {})
      BY <3>1 DEF Deliver
    <3>3. QED
      BY <3>1, <3>2 DEF Deliver
  <2>2. Done' \cap setup.hidden = Done \cap setup.hidden
        /\ Done' \ setup.hidden = (Done \ setup.hidden) \cup {f}
    BY <1>9, DoneGrows
  <2>3. resolved' = emitted' + Cardinality(Done' \cap setup.hidden)
    <3>1. resolved + 1 = (emitted + 1) + Cardinality(Done \cap setup.hidden)
      BY <1>3, <1>6, <1>7, HiddenMove
    <3>2. QED
      BY <1>4, <2>1, <2>2, <3>1
  <2>4. QED
    BY <1>3, <1>5, <2>1, <2>2, <2>3
<1>10. QED
  BY <1>8, <1>9
-----------------------------------------------------------------------------
LEMMA InitIInv == Init => IInv
<1> SUFFICES ASSUME Init PROVE IInv
  OBVIOUS
<1>1. setup \in Flags /\ target \in 1 .. Len(Found) + 1
  BY SetupsAssumption, FoundFacts DEF Init
<1>2. TypeOK
  BY <1>1 DEF Init, TypeOK, Destinations
<1>3. Done = {} /\ dropped = {}
  BY BeforeEnds DEF Init, Done, Passed
<1>4. Cardinality({}) = 0
  BY FS_EmptySet
<1>5. Places
  BY <1>3 DEF Init, Places
<1>6. Collected
  BY <1>4 DEF Init, Collected, Enabled
<1>7. Faultless
  <2>1. Done \cap setup.hidden = {} /\ Done \ setup.hidden = {}
    BY <1>3
  <2>2. /\ failed = {} /\ attempted = Done \ setup.hidden /\ numFindings = emitted
        /\ state # "complete"
    BY <2>1 DEF Init
  <2>3. Cardinality(pending) = 0 /\ Cardinality(Done \cap setup.hidden) = 0
    BY <1>4, <2>1 DEF Init
  <2>4. detected = resolved + Cardinality(pending)
        /\ resolved = emitted + Cardinality(Done \cap setup.hidden)
    BY <2>3 DEF Init
  <2>5. QED
    BY <2>2, <2>4 DEF Faultless
<1>8. QED
  BY <1>2, <1>5, <1>6, <1>7 DEF IInv

(* Report, from the scanner, and Resolve, from the analyzer.               *)
LEMMA EmitStep ==
  ASSUME IInv, NEW f \in Findings, Report(f) \/ Resolve(f)
  PROVE  IInv'
<1>1. /\ todo' \subseteq todo /\ pending' \subseteq pending
      /\ UNCHANGED <<setup, at, target, scanErr, dropped, ctxDone, errs, state>>
      /\ detected' \in Nat
  BY DEF Report, Resolve, IInv, TypeOK
<1>2. Cardinality(pending) \in Nat /\ IsFiniteSet(pending)
  BY SubsetFinite DEF IInv, TypeOK
<1>3. todo \cap pending = {}
  BY DEF IInv, Places, Report, Resolve
<1>4. Reaches(f)
  <2>1. CASE Report(f)
    <3>1. pending' = pending /\ detected' = detected + 1 /\ detected \in Nat
      BY <2>1 DEF Report, IInv, TypeOK
    <3>2. detected' + Cardinality(pending) = detected + Cardinality(pending') + 1
      BY <1>2, <3>1
    <3>3. QED
      BY <1>1, <1>3, <2>1, <3>2 DEF Report, Reaches
  <2>2. CASE Resolve(f)
    <3>1. pending' = pending \ {f} /\ f \in pending /\ detected' = detected /\ todo' = todo
      BY <2>2 DEF Resolve
    <3>2. Cardinality(pending') = Cardinality(pending) - 1 /\ detected \in Nat
      BY <1>2, <3>1, FS_RemoveElement DEF IInv, TypeOK
    <3>3. detected' + Cardinality(pending) = detected + Cardinality(pending') + 1
      BY <1>2, <3>1, <3>2
    <3>4. QED
      BY <1>1, <1>3, <2>2, <3>1, <3>3 DEF Resolve, Reaches
  <2>3. QED
    BY <2>1, <2>2
<1>5. TypeOK'
  <2>1. Enabled' = Enabled
    BY <1>1 DEF Enabled
  <2>2. QED
    BY <1>1, <1>4, <2>1, EmitTypes DEF IInv, TypeOK
<1>6. pending' \subseteq Findings
  BY <1>1 DEF IInv, TypeOK
<1>7. QED
  BY <1>4, <1>5, <1>6, EmitPlaces, EmitCollected, EmitFaultless DEF IInv

(* An analyzer takes the finding: it stays on its way.                     *)
LEMMA AcceptStep ==
  ASSUME IInv, NEW f \in Findings, Accept(f)
  PROVE  IInv'
<1>1. /\ at = "scanning" /\ todo' = todo \ {f} /\ pending' = pending \cup {f} /\ f \in todo
      /\ detected' = detected + 1
      /\ UNCHANGED <<setup, at, target, scanErr, stopped, dropped, ctxDone, errs, resolved,
                     emitted, attempted, numFindings, failed, content, totals, state>>
  BY DEF Accept, collector
<1>2. /\ Enabled' = Enabled /\ (todo \cup pending)' = todo \cup pending
      /\ (todo \cap pending)' = {} /\ f \notin pending
  BY <1>1 DEF Enabled, IInv, Places
<1>3. Done' = Done /\ Passed' = Passed
  BY <1>1, <1>2 DEF Done, Passed, Before
<1>4. TypeOK'
  BY <1>1, <1>2 DEF IInv, TypeOK
<1>5. Places'
  BY <1>1, <1>2, <1>3 DEF IInv, Places
<1>6. /\ Cardinality(pending') = Cardinality(pending) + 1 /\ Cardinality(pending) \in Nat
      /\ resolved \in Nat /\ detected \in Nat
  BY <1>1, <1>2, SubsetFinite, FS_AddElement DEF IInv, TypeOK
<1>7. Collected'
  <2>1. resolved' + Cardinality(pending') <= detected'
    BY <1>1, <1>6 DEF IInv, Collected
  <2>2. QED
    BY <1>1, <1>2, <2>1 DEF IInv, Collected
<1>8. Faultless'
  <2>1. detected = resolved + Cardinality(pending) => detected' = resolved' + Cardinality(pending')
    BY <1>1, <1>6
  <2>2. QED
    BY <1>1, <1>3, <2>1 DEF IInv, Faultless
<1>9. QED
  BY <1>4, <1>5, <1>7, <1>8 DEF IInv

(* The errors of a scan: findings are lost, and it is known.               *)
LEMMA FailStep ==
  ASSUME IInv, SourceFails \/ \E f \in Findings : Refuse(f)
  PROVE  IInv'
<1>1. /\ at = "scanning" /\ todo' \subseteq todo /\ scanErr' = TRUE
      /\ detected' \in {detected, detected + 1}
      /\ UNCHANGED <<setup, at, target, pending, stopped, dropped, ctxDone, errs, resolved,
                     emitted, attempted, numFindings, failed, content, totals, state>>
  BY DEF SourceFails, Refuse, collector, summary
<1>2. Enabled' = Enabled
  BY <1>1 DEF Enabled
<1>3. Done \subseteq Done' /\ Passed \subseteq Passed'
  BY <1>1 DEF Done, Passed, Before
<1>4. TypeOK'
  BY <1>1, <1>2 DEF IInv, TypeOK
<1>5. Places'
  BY <1>1, <1>3 DEF IInv, Places
<1>6. Cardinality(pending) \in Nat /\ resolved \in Nat /\ detected \in Nat
  BY SubsetFinite DEF IInv, TypeOK
<1>7. Collected'
  <2>1. resolved' + Cardinality(pending') <= detected'
    BY <1>1, <1>6 DEF IInv, Collected
  <2>2. QED
    BY <1>1, <1>2, <2>1 DEF IInv, Collected
<1>8. Faultless'
  BY <1>1 DEF IInv, Faultless
<1>9. QED
  BY <1>4, <1>5, <1>7, <1>8 DEF IInv

(* A dropped failure: what it loses is behind us, and nobody knows.        *)
LEMMA DropStep ==
  ASSUME IInv, FailureDropped
  PROVE  IInv'
<1>1. /\ at = "scanning" /\ todo' \subseteq todo /\ dropped' = dropped \cup (todo \ todo')
      /\ UNCHANGED <<setup, at, target, pending, scanErr, stopped, ctxDone, errs, detected,
                     resolved, emitted, attempted, numFindings, failed, content, totals, state>>
  BY DEF FailureDropped, collector, summary
<1>2. Enabled' = Enabled /\ Before(target)' = Before(target)
  BY <1>1 DEF Enabled, Before
<1>3. todo \subseteq Found[target] /\ todo \cap pending = {} /\ dropped \subseteq Passed
  BY <1>1 DEF IInv, Places
<1>4. Passed' = Passed \cup (todo \ todo') /\ Passed \cap todo = {}
  BY <1>1, <1>2, <1>3 DEF Passed
<1>5. Done' = Done /\ dropped' \subseteq Passed'
  BY <1>1, <1>3, <1>4 DEF Done
<1>6. TypeOK'
  BY <1>1, <1>2 DEF IInv, TypeOK
<1>7. Places'
  BY <1>1, <1>5 DEF IInv, Places
<1>8. Collected'
  BY <1>1, <1>2 DEF IInv, Collected
<1>9. Faultless'
  BY <1>1, <1>5 DEF IInv, Faultless
<1>10. QED
  BY <1>6, <1>7, <1>8, <1>9 DEF IInv

(* The steps of the command before a scan and beside it, which leave the   *)
(* findings and the report alone.                                          *)
LEMMA CommandStep ==
  ASSUME IInv, Interrupt \/ PrepareFails \/ StartScan \/ AllScanned \/ UNCHANGED vars
  PROVE  IInv'
<1>1. UNCHANGED <<setup, target, pending, scanErr, stopped, dropped, detected, resolved,
                  emitted, attempted, numFindings, failed, content, totals, state>>
  BY DEF Interrupt, PrepareFails, StartScan, AllScanned, vars, scan, collector, summary
<1>2. /\ Enabled' = Enabled /\ Before(target)' = Before(target)
      /\ ctxDone' \in BOOLEAN /\ errs' \in BOOLEAN
  BY <1>1 DEF Enabled, Before, Interrupt, PrepareFails, StartScan, AllScanned, vars, scan, IInv,
              TypeOK
<1>3. CASE UNCHANGED <<at, todo>>
  <2>1. Done' = Done /\ Passed' = Passed /\ errs' = errs
    BY <1>1, <1>2, <1>3 DEF Done, Passed, Interrupt, PrepareFails, StartScan, AllScanned, vars, IInv
  <2>2. QED
    BY <1>1, <1>2, <1>3, <2>1 DEF IInv, TypeOK, Places, Collected, Faultless
<1>4. CASE PrepareFails
  <2>1. at = "prepare" /\ at' = "finish" /\ errs' = TRUE /\ todo' = todo
    BY <1>4 DEF PrepareFails, scan
  <2>2. Done' = Done /\ Passed' = Passed
    BY <1>1, <1>2, <2>1 DEF Done, Passed
  <2>3. QED
    BY <1>1, <1>2, <2>1, <2>2 DEF IInv, TypeOK, Places, Collected, Faultless
<1>5. CASE StartScan
  <2>1. at = "prepare" /\ at' = "scanning" /\ errs' = errs /\ todo' = Found[target]
        /\ target <= Len(Found) /\ pending = {}
    BY <1>5 DEF StartScan, IInv, Places
  <2>2. target \in 1 .. Len(Found)
    BY <2>1, FoundFacts DEF IInv, TypeOK
  <2>3. Found[target] \subseteq Findings /\ Before(target) \cap Found[target] = {}
    BY <2>2, FoundFacts, BeforeNext
  <2>4. Done' = Done /\ Passed' = Passed
    BY <1>1, <1>2, <2>1, <2>3 DEF Done, Passed
  <2>5. QED
    BY <1>1, <1>2, <2>1, <2>3, <2>4 DEF IInv, TypeOK, Places, Collected, Faultless
<1>6. CASE AllScanned
  <2>1. at = "prepare" /\ at' = "finish" /\ errs' = errs /\ todo' = todo
        /\ target > Len(Found)
    BY <1>6 DEF AllScanned, scan
  <2>2. Done' = Done /\ Passed' = Passed /\ target = Len(Found) + 1
    BY <1>1, <1>2, <2>1, FoundFacts DEF Done, Passed, IInv, TypeOK
  <2>3. QED
    BY <1>1, <1>2, <2>1, <2>2 DEF IInv, TypeOK, Places, Collected, Faultless
<1>7. QED
  BY <1>3, <1>4, <1>5, <1>6 DEF Interrupt, vars, scan

(* A scan ends: without an error, every finding of its target is done.     *)
LEMMA EndScanStep ==
  ASSUME IInv, EndScan
  PROVE  IInv'
<1>1. /\ at = "scanning" /\ at' = "prepare" /\ target' = target + 1
      /\ todo' = {} /\ pending' = {} /\ scanErr' = FALSE /\ stopped' = FALSE
      /\ todo \cup pending = {} \/ stopped \/ ctxDone
      /\ UNCHANGED <<setup, dropped, ctxDone, detected, resolved, emitted, attempted,
                     numFindings, failed, content, totals, state>>
  BY DEF EndScan, NextTarget, collector, summary
<1>2. Enabled' = Enabled
  BY <1>1 DEF Enabled
<1>3. target \in 1 .. Len(Found)
  BY <1>1, FoundFacts DEF IInv, Places, TypeOK
<1>4. Passed' = Before(target) \cup Found[target] /\ Done' = Passed' \ dropped
  <2>1. Before(target)' = Before(target + 1)
    BY <1>1 DEF Before
  <2>2. QED
    BY <1>1, <1>3, <2>1, BeforeNext DEF Done, Passed
<1>5. Done \subseteq Done' /\ Passed \subseteq Passed'
  BY <1>1, <1>4 DEF Done, Passed
<1>6. errs' \in BOOLEAN /\ (~errs' => ~errs /\ ~scanErr /\ ~stopped /\ ~ctxDone)
  <2>1. errs' = (errs \/ scanErr \/ stopped \/ ctxDone)
    BY DEF EndScan
  <2>2. errs' \in BOOLEAN
    BY <2>1, Zenon
  <2>3. QED
    BY <2>1, <2>2, Zenon
<1>7. Cardinality(pending') = 0 /\ Cardinality(pending) \in Nat
  <2>1. pending' = {} /\ pending \subseteq Findings
    BY <1>1 DEF IInv, TypeOK
  <2>2. Cardinality(pending') = 0
    BY <2>1, FS_EmptySet, Zenon
  <2>3. QED
    BY <2>1, <2>2, SubsetFinite
<1>8. TypeOK'
  <2>1. target' \in 1 .. Len(Found) + 1 /\ todo' \subseteq Findings /\ pending' \subseteq Findings
        /\ at' \in {"prepare", "scanning", "finish", "close", "ended"}
    BY <1>1, <1>3, FoundFacts
  <2>2. QED
    BY <1>1, <1>2, <1>6, <2>1 DEF IInv, TypeOK
<1>9. Places'
  BY <1>1, <1>5 DEF IInv, Places
<1>10. Collected'
  <2>1. resolved' + Cardinality(pending') <= detected'
    BY <1>1, <1>7 DEF IInv, TypeOK, Collected
  <2>2. QED
    BY <1>1, <1>2, <2>1 DEF IInv, Collected
<1>11. Faultless'
  <2>1. ASSUME ~errs'
        PROVE  todo = {} /\ pending = {} /\ Done' = Done
               /\ ~errs /\ ~scanErr /\ ~stopped
    BY <1>1, <1>4, <1>6, <2>1 DEF Done, Passed
  <2>2. QED
    BY <1>1, <2>1 DEF IInv, Faultless
<1>12. QED
  BY <1>8, <1>9, <1>10, <1>11 DEF IInv

(* The state is set, and what has no error is complete.                    *)
LEMMA FinishStep ==
  ASSUME IInv, Finish
  PROVE  IInv'
<1>1. /\ at = "finish" /\ at' = "close"
      /\ UNCHANGED <<setup, target, todo, pending, scanErr, stopped, dropped, ctxDone, errs,
                     detected, resolved, emitted, attempted, numFindings, failed, content, totals>>
  BY DEF Finish, scan, collector, summary
<1>2. Enabled' = Enabled /\ Done' = Done /\ Passed' = Passed
  BY <1>1 DEF Enabled, Done, Passed, Before
<1>3. state' \in {"incomplete", "complete"} /\ (state' = "complete" => ~errs)
  BY DEF Finish
<1>4. TypeOK' /\ Places'
  BY <1>1, <1>2, <1>3 DEF IInv, TypeOK, Places
<1>5. Collected'
  BY <1>1, <1>2 DEF IInv, Collected
<1>6. Faultless'
  <2>1. ASSUME ~errs
        PROVE  /\ target = Len(Found) + 1 /\ failed = {}
               /\ attempted = Findings \ (setup.hidden \cup dropped)
    <3>1. target = Len(Found) + 1 /\ failed = {} /\ attempted = Done \ setup.hidden
      BY <1>1, <2>1 DEF IInv, Places, Faultless
    <3>2. Done = Findings \ dropped
      BY <1>1, <3>1, BeforeEnds DEF Done, Passed
    <3>3. QED
      BY <3>1, <3>2
  <2>2. QED
    BY <1>1, <1>3, <2>1 DEF Faultless
<1>7. QED
  BY <1>4, <1>5, <1>6 DEF IInv

(* The report is closed.                                                   *)
LEMMA CloseStep ==
  ASSUME IInv, End
  PROVE  IInv'
<1>1. PICK bad \in SUBSET Writers, unclosed \in SUBSET (Enabled \cap {"report"}) :
        Close((Destinations \ Writers) \cup failed \cup bad, bad \cup unclosed)
  BY DEF End
<1>2. /\ at = "close" /\ at' = "ended"
      /\ UNCHANGED <<setup, target, todo, pending, scanErr, stopped, dropped, ctxDone, errs,
                     detected, resolved, emitted, attempted, numFindings, failed, content, state>>
  BY <1>1 DEF Close, scan, summary
<1>3. Enabled' = Enabled /\ Done' = Done /\ Passed' = Passed
  BY <1>2 DEF Enabled, Done, Passed, Before
<1>4. TypeOK' /\ Places' /\ Faultless'
  BY <1>2, <1>3 DEF IInv, TypeOK, Places, Faultless
<1>5. ASSUME NEW d \in Destinations, totals'[d] # NoTotals
      PROVE  totals'[d].findings = Cardinality(content[d]) /\ totals'[d].state = state
  <2>1. d \in Writers /\ d \notin failed
        /\ totals'[d] = [findings |-> numFindings, state |-> state]
    BY <1>1, <1>5 DEF Close
  <2>2. d \in Enabled \ failed
    BY <2>1 DEF Writers
  <2>3. content[d] = attempted /\ numFindings = Cardinality(attempted)
    BY <2>2 DEF IInv, Collected
  <2>4. QED
    BY <2>1, <2>3
<1>6. Collected'
  BY <1>2, <1>3, <1>5 DEF IInv, Collected
<1>7. QED
  BY <1>4, <1>6 DEF IInv

(* The invariant is inductive, step by step.                               *)
THEOREM Invariant == Spec => []IInv
<1>1. IInv /\ [Next]_vars => IInv'
  <2> SUFFICES ASSUME IInv, [Next]_vars PROVE IInv'
    OBVIOUS
  <2>1. CASE UNCHANGED vars
    BY <2>1, CommandStep
  <2>2. CASE Next
    <3>1. CASE Interrupt \/ PrepareFails \/ StartScan \/ AllScanned \/ Finished
      BY <3>1, CommandStep DEF Finished
    <3>2. CASE SourceFails \/ \E f \in Findings : Refuse(f)
      BY <3>2, FailStep
    <3>a. CASE FailureDropped
      BY <3>a, DropStep
    <3>3. CASE \E f \in Findings : Report(f) \/ Resolve(f)
      BY <3>3, EmitStep
    <3>4. CASE \E f \in Findings : Accept(f)
      BY <3>4, AcceptStep
    <3>5. CASE EndScan
      BY <3>5, EndScanStep
    <3>6. CASE Finish
      BY <3>6, FinishStep
    <3>7. CASE End
      BY <3>7, CloseStep
    <3>8. QED
      BY <2>2, <3>1, <3>2, <3>a, <3>3, <3>4, <3>5, <3>6, <3>7 DEF Next
  <2>3. QED
    BY <2>1, <2>2
<1>2. QED
  BY InitIInv, <1>1, PTL DEF Spec
-----------------------------------------------------------------------------
(* Whatever fails and wherever the command is interrupted, a destination   *)
(* without an error holds every finding that Add has tried to write, and   *)
(* totals at the end of one are the totals of what is in it.               *)
THEOREM TotalsTheorem == Spec => []TotalsMatchContent
<1>1. IInv => TotalsMatchContent
  BY DEF IInv, Collected, TotalsMatchContent
<1>2. QED
  BY <1>1, Invariant, PTL

(* The counts of the summary shrink from detected to numFindings, and if   *)
(* no error is recorded, what was hidden of the findings that no dropped   *)
(* failure has lost is all that they differ by.                            *)
THEOREM CountsTheorem == Spec => []CountsAgree
<1>1. IInv => CountsAgree
  <2> SUFFICES ASSUME IInv PROVE CountsAgree
    OBVIOUS
  <2>1. Cardinality(pending) \in Nat
    BY SubsetFinite DEF IInv, TypeOK
  <2>2. numFindings <= emitted /\ emitted <= resolved /\ resolved <= detected
    BY <2>1 DEF IInv, TypeOK, Collected
  <2>3. ASSUME at = "finish", ~errs
        PROVE  /\ resolved = detected /\ numFindings = emitted
               /\ resolved - emitted = Cardinality(setup.hidden \ dropped)
    <3>1. scanErr = FALSE /\ stopped = FALSE /\ pending = {} /\ target = Len(Found) + 1
      BY <2>3 DEF IInv, Places
    <3>2. Done = Findings \ dropped
      BY <2>3, <3>1, BeforeEnds DEF Done, Passed
    <3>3. setup.hidden \subseteq Findings
      BY DEF IInv, TypeOK, Flags
    <3>4. /\ Done \cap setup.hidden = setup.hidden \ dropped
          /\ Cardinality(setup.hidden \ dropped) \in Nat
      BY <3>2, <3>3, SubsetFinite
    <3>5. /\ detected = resolved + Cardinality(pending) /\ numFindings = emitted
          /\ resolved = emitted + Cardinality(setup.hidden \ dropped)
      BY <2>3, <3>1, <3>4 DEF IInv, Faultless
    <3>6. Cardinality(pending) = 0
      BY <3>1, FS_EmptySet
    <3>7. resolved \in Nat /\ emitted \in Nat
      BY DEF IInv, TypeOK
    <3>8. QED
      BY <3>4, <3>5, <3>6, <3>7
  <2>4. QED
    BY <2>2, <2>3 DEF CountsAgree
<1>2. QED
  BY <1>1, Invariant, PTL

(* What the exit code 0 says, once it is set.                              *)
CleanExit ==
  at = "ended" /\ exit = 0 =>
    /\ state = "complete" /\ (setup.exitCode # 0 => numFindings = 0)
    /\ \A d \in Writers : totals[d] # NoTotals

LEMMA CleanExitKept ==
  ASSUME IInv, CleanExit, [Next]_vars
  PROVE  CleanExit'
<1>1. CASE End
  <2>1. PICK bad \in SUBSET Writers, unclosed \in SUBSET (Enabled \cap {"report"}) :
          Close((Destinations \ Writers) \cup failed \cup bad, bad \cup unclosed)
    BY <1>1 DEF End
  <2>2. UNCHANGED <<setup, numFindings, failed, state>> /\ Writers' = Writers
    BY <2>1 DEF Close, Writers, Enabled
  <2>3. SUFFICES ASSUME exit' = 0
                 PROVE  /\ state = "complete" /\ (setup.exitCode # 0 => numFindings = 0)
                        /\ \A d \in Writers : totals'[d] # NoTotals
    BY <2>2 DEF CleanExit
  <2>4. /\ failed = {} /\ bad = {} /\ state # "incomplete"
        /\ (setup.exitCode # 0 => numFindings = 0)
    BY <2>1, <2>3 DEF Close
  <2>5. state = "complete"
    BY <2>4 DEF IInv, TypeOK
  <2>6. ASSUME NEW d \in Writers PROVE totals'[d] # NoTotals
    <3>1. totals'[d] = [findings |-> numFindings, state |-> state]
      BY <2>1, <2>4 DEF Close, Writers, Enabled
    <3>2. totals'[d].state = "complete" /\ NoTotals.state = "none"
      BY <2>5, <3>1 DEF NoTotals
    <3>3. QED
      BY <3>2
  <2>7. QED
    BY <2>4, <2>5, <2>6
<1>2. CASE UNCHANGED <<setup, at, exit, state, numFindings, totals>>
  <2>1. Writers' = Writers
    BY <1>2 DEF Writers, Enabled
  <2>2. QED
    BY <1>2, <2>1 DEF CleanExit
<1>3. CASE at' # "ended"
  BY <1>3 DEF CleanExit
<1>4. CASE Interrupt \/ Finished \/ UNCHANGED vars
  BY <1>2, <1>4 DEF Interrupt, Finished, vars, collector
<1>5. CASE PrepareFails \/ StartScan \/ SourceFails \/ FailureDropped \/ EndScan \/ AllScanned \/ Finish
  BY <1>3, <1>5 DEF PrepareFails, StartScan, SourceFails, FailureDropped, EndScan, NextTarget,
                    AllScanned, Finish
<1>6. CASE \E f \in Findings : Report(f) \/ Accept(f) \/ Refuse(f) \/ Resolve(f)
  <2>1. at' = "scanning"
    BY <1>6 DEF Report, Accept, Refuse, Resolve
  <2>2. QED
    BY <1>3, <2>1
<1>7. QED
  BY <1>1, <1>4, <1>5, <1>6 DEF Next

(* A scan is complete, and a command that found nothing ends with code 0,  *)
(* only if every target was scanned and every destination has every        *)
(* finding but those that a source lost to a failure it called a           *)
(* cancellation: no error of an earlier target, a writer or the            *)
(* interruption is forgotten on the way to the exit code.                  *)
THEOREM OutcomeTheorem == Spec => []OutcomeHonest
<1>1. Init => CleanExit
  BY DEF Init, CleanExit
<1>2. Spec => []CleanExit
  BY <1>1, Invariant, CleanExitKept, PTL DEF Spec
<1>3. IInv /\ CleanExit => OutcomeHonest
  <2> SUFFICES ASSUME IInv, CleanExit PROVE OutcomeHonest
    OBVIOUS
  <2>1. ASSUME state = "complete"
        PROVE  /\ target > Len(Found) /\ attempted = Findings \ (setup.hidden \cup dropped)
               /\ \A d \in Enabled : content[d] = Findings \ (setup.hidden \cup dropped)
               /\ numFindings = Cardinality(attempted)
    BY <2>1, FoundFacts DEF IInv, Faultless, Collected
  <2>2. ASSUME at = "ended", exit = 0, setup.exitCode # 0
        PROVE  Findings \subseteq setup.hidden \cup dropped
    <3>1. attempted = Findings \ (setup.hidden \cup dropped) /\ Cardinality(attempted) = 0
      BY <2>1, <2>2 DEF CleanExit
    <3>2. attempted = {}
      BY <3>1, SubsetFinite, FS_EmptySet DEF IInv, TypeOK
    <3>3. QED
      BY <3>1, <3>2
  <2>3. QED
    BY <2>1, <2>2 DEF OutcomeHonest, CleanExit
<1>4. QED
  BY <1>2, <1>3, Invariant, PTL

-----------------------------------------------------------------------------
(* ChunkReader: the types of its variables.                                *)
Fragments == [from : Nat, to : Nat, line : Nat]

ReaderTypes ==
  /\ stream \in Streams
  /\ place \in {"head", "boundary", "peek", "yield", "tell", "returned"}
  /\ filled \in 0 .. Len(bytes) /\ next \in 0 .. filled
  /\ held \in {"none", "EOF", "failure"} /\ err \in {"none", "EOF", "failure", "stalled"}
  /\ idle \in BOOLEAN
  /\ from \in Nat /\ initial \in Nat /\ newlines \in 0 .. 2 /\ nextLine \in Nat
  /\ raws \in Seq(Fragments)
  /\ told \in BOOLEAN /\ readerDone \in BOOLEAN
  /\ verdict \in {"none", "nil", "canceled", "refused"}

(* An end of the stream is met where its bytes are all read, and is kept   *)
(* until they are all taken; a lookahead that stalled has taken what was   *)
(* read. A reader that goes on has had something of every read.            *)
ReaderEnds ==
  /\ held # "none" => held = stream.end /\ filled = Len(bytes)
  /\ err = "stalled" => idle /\ next = filled
  /\ err \notin {"none", "stalled"} => err = stream.end /\ next = Len(bytes)
  /\ place \in {"head", "boundary", "peek"} => err = "none" /\ ~idle
  /\ idle /\ place = "yield" => err = "stalled"
  /\ place = "tell" => err \in {"failure", "stalled"}

(* How far the stream has been yielded: the next fragment begins there.    *)
Reached == IF raws = <<>> THEN 0 ELSE raws[Len(raws)].to

(* A fragment begins where the last one ended, on the line counted so far. *)
ReaderAt ==
  /\ place \in {"head", "tell"} => Reached = next /\ nextLine = 1 + Newlines(0, next)
  /\ place \in {"boundary", "peek", "yield"} =>
       /\ from = Reached /\ nextLine = 1 + Newlines(0, from)
       /\ initial > 0 /\ from + initial <= next

(* A counted newline is one of the fragment, with only blanks behind it.   *)
ReaderLooks ==
  /\ place = "peek" /\ newlines = 1 =>
       \E k \in from + 1 .. next : bytes[k] = "n" /\ \A j \in k .. next : Blank(j)
  /\ place = "peek" => newlines # 2
  /\ place = "yield" =>
       err # "none" \/ EndsBlank(from, next) \/ next - from > MaxPeek

(* What was yielded is the stream so far, each fragment with its line, cut *)
(* where it may be; and what the verdict and a failure told say of it.     *)
Over == idle /\ place \in {"tell", "returned"}

Faithful(r) ==
  \A i \in DOMAIN r :
    /\ r[i].from = (IF i = 1 THEN 0 ELSE r[i - 1].to) /\ r[i].from < r[i].to
    /\ r[i].to <= Len(bytes)
    /\ r[i].line = 1 + Newlines(0, r[i].from)
    /\ r[i].to < Len(bytes) =>
         EndsBlank(r[i].from, r[i].to) \/ r[i].to - r[i].from > MaxPeek \/ (i = Len(r) /\ Over)

ReaderEarns ==
  /\ place # "returned" => verdict = "none" /\ ~told
  /\ told => stream.end = "failure" \/ idle
  /\ verdict = "nil" \/ told =>
       Reached = filled /\ (~idle => filled = Len(bytes) /\ (stream.end = "failure" => told))
  /\ verdict = "nil" /\ err = "stalled" => told
  /\ verdict = "canceled" => readerDone

ReaderInv == ReaderTypes /\ ReaderEnds /\ ReaderAt /\ ReaderLooks /\ Faithful(raws) /\ ReaderEarns

(* What bufio and the lookahead take is no more than there is.             *)
LEMMA LesserOfTwo ==
  ASSUME NEW a \in Nat, NEW b \in Nat
  PROVE  Lesser(a, b) \in {a, b} /\ Lesser(a, b) <= a /\ Lesser(a, b) <= b
BY DEF Lesser

(* Newlines up to a place are those up to an earlier one and those between.*)
LEMMA NewlinesAdd ==
  ASSUME NEW a \in Nat, NEW b \in Nat, a <= b
  PROVE  /\ Newlines(0, a) \in Nat /\ Newlines(a, b) \in Nat
         /\ Newlines(0, b) = Newlines(0, a) + Newlines(a, b)
         /\ Newlines(0, 0) = 0
<1> DEFINE N(x, y) == {i \in x + 1 .. y : bytes[i] = "n"}
<1>1. \A x, y : Newlines(x, y) = Cardinality(N(x, y))
  BY DEF Newlines, bytes
<1>2. \A x, y \in Nat : IsFiniteSet(N(x, y)) /\ Cardinality(N(x, y)) \in Nat
  <2> SUFFICES ASSUME NEW x \in Nat, NEW y \in Nat
               PROVE  IsFiniteSet(N(x, y)) /\ Cardinality(N(x, y)) \in Nat
    OBVIOUS
  <2>1. IsFiniteSet(x + 1 .. y)
    BY FS_Interval
  <2>2. N(x, y) \subseteq x + 1 .. y
    OBVIOUS
  <2>3. QED
    BY <2>1, <2>2, FS_Subset, FS_CardinalityType
<1>3. N(0, b) = N(0, a) \cup N(a, b) /\ N(0, a) \cap N(a, b) = {}
  OBVIOUS
<1>4. Cardinality(N(0, a) \cap N(a, b)) = 0
  BY <1>3, FS_EmptySet
<1>5. N(0, 0) = {}
  OBVIOUS
<1>6. QED
  <2> HIDE DEF N
  <2>1. Cardinality(N(0, b)) = Cardinality(N(0, a)) + Cardinality(N(a, b)) - 0
    BY <1>2, <1>3, <1>4, FS_Union
  <2>2. QED BY <2>1, <1>1, <1>2, <1>5, FS_EmptySet

(* The assumptions on the constants, one by one.                         *)
LEMMA ReaderConstants ==
  /\ ChunkSize \in Nat \ {0} /\ BufSize \in Nat \ {0} /\ MaxPeek \in Nat \ {0}
  /\ \A t \in Streams : t.bytes \in Seq({"x", "s", "n"}) /\ t.end \in {"EOF", "failure"}
BY ReaderAssumption

(* A second newline is the last of the fragment's end in a blank line.     *)
LEMMA SecondEndsBlank ==
  ASSUME ReaderInv, place = "peek",
         NEW i \in next + 1 .. Len(bytes), Second(i)
  PROVE  EndsBlank(from, i)
<1>0. next \in Nat /\ from \in Nat /\ from < next /\ Len(bytes) \in Nat /\ i \in Nat
  BY ReaderConstants DEF ReaderInv, ReaderTypes, ReaderAt, bytes
<1>1. bytes[i] = "n" /\ Blank(i)
  BY DEF Second, Blank, bytes
<1>2. PICK k \in next .. i - 1 : Counted(k) /\ \A j \in k + 1 .. i - 1 : Blank(j)
  BY DEF Second, OneBehind
<1>3. CASE k # next
  <2>1. bytes[k] = "n" /\ Blank(k)
    BY <1>2, <1>3 DEF Counted, Blank, bytes
  <2>2. \A j \in k .. i : Blank(j)
    BY <1>0, <1>1, <1>2, <2>1
  <2>3. k \in from + 1 .. i /\ i \in from + 1 .. i /\ k < i
    BY <1>0, <1>2, <1>3
  <2>4. QED
    BY <1>1, <2>1, <2>2, <2>3 DEF EndsBlank, bytes
<1>4. CASE k = next
  <2>1. PICK l \in from + 1 .. next : bytes[l] = "n" /\ \A j \in l .. next : Blank(j)
    BY <1>2, <1>4 DEF Counted, ReaderInv, ReaderLooks
  <2>2. \A j \in l .. i : Blank(j)
    BY <1>0, <1>1, <1>2, <1>4, <2>1
  <2>3. l \in from + 1 .. i /\ i \in from + 1 .. i /\ l < i
    BY <1>0, <2>1
  <2>4. QED
    BY <1>1, <2>1, <2>2, <2>3 DEF EndsBlank, bytes
<1>5. QED
  BY <1>3, <1>4

(* What one newline behind a byte says of the fragment up to it.           *)
LEMMA OneBehindLooks ==
  ASSUME ReaderInv, place = "peek",
         NEW i \in next .. Len(bytes), OneBehind(i)
  PROVE  \E k \in from + 1 .. i : bytes[k] = "n" /\ \A j \in k .. i : Blank(j)
<1>0. next \in Nat /\ from \in Nat /\ from < next /\ Len(bytes) \in Nat /\ i \in Nat
  BY ReaderConstants DEF ReaderInv, ReaderTypes, ReaderAt, bytes
<1>1. PICK k \in next .. i : Counted(k) /\ \A j \in k + 1 .. i : Blank(j)
  BY DEF OneBehind
<1>2. CASE k # next
  <2>1. bytes[k] = "n" /\ Blank(k)
    BY <1>1, <1>2 DEF Counted, Blank, bytes
  <2>2. QED
    BY <1>0, <1>1, <2>1
<1>3. CASE k = next
  <2>1. PICK l \in from + 1 .. next : bytes[l] = "n" /\ \A j \in l .. next : Blank(j)
    BY <1>1, <1>3 DEF Counted, ReaderInv, ReaderLooks
  <2>2. \A j \in l .. i : Blank(j)
    BY <1>0, <1>1, <1>3, <2>1
  <2>3. QED
    BY <1>0, <2>1, <2>2
<1>4. QED
  BY <1>2, <1>3

(* The reader begins in its invariant,                                   *)
LEMMA ReaderBegins ==
  ASSUME ReaderInit
  PROVE  ReaderInv
<1>1. Newlines(0, 0) = 0
  BY NewlinesAdd
<1>2. ReaderTypes
  <2>1. <<>> \in Seq(Fragments)
    OBVIOUS
  <2>2. ReaderInit => stream \in Streams /\ Len(bytes) \in Nat
    BY ReaderConstants DEF ReaderInit, bytes
  <2>3. /\ stream \in Streams /\ raws \in Seq(Fragments) /\ filled \in 0 .. Len(bytes)
        /\ next \in 0 .. filled /\ place = "head" /\ held = "none" /\ err = "none" /\ from = 0
        /\ initial = 0 /\ newlines = 0 /\ nextLine = 1 /\ told = FALSE /\ readerDone = FALSE
        /\ verdict = "none"
    BY <2>1, <2>2 DEF ReaderInit
  <2>4. told \in BOOLEAN /\ readerDone \in BOOLEAN /\ idle \in BOOLEAN
    BY <2>3 DEF ReaderInit
  <2>5. QED
    BY <2>3, <2>4 DEF ReaderTypes
<1>3. QED
  BY <1>1, <1>2 DEF ReaderInit, ReaderInv, ReaderEnds, ReaderAt, ReaderLooks, Reached, Faithful, ReaderEarns

(* A step that leaves the stream alone leaves its lines and blanks alone.  *)
LEMMA StreamStays ==
  ASSUME ReaderInv, UNCHANGED stream
  PROVE  /\ bytes' = bytes
         /\ \A a, b : Newlines(a, b)' = Newlines(a, b)
         /\ \A a, b : EndsBlank(a, b)' = EndsBlank(a, b)
         /\ \A a : Blank(a)' = Blank(a)
BY DEF bytes, Newlines, EndsBlank, Blank

(* One that yields nothing either leaves what was yielded as it was.       *)
LEMMA NothingYielded ==
  ASSUME ReaderInv, UNCHANGED <<stream, raws>>, Over => Over'
  PROVE  Faithful(raws)' /\ Reached' = Reached
BY StreamStays DEF ReaderInv, Faithful, Reached

(* The loop over what was peeked, which lies in the stream, and whose end  *)
(* comes with its last byte.                                               *)
LEMMA ConsumeKeeps ==
  ASSUME ReaderInv, place = "peek",
         NEW upTo \in next .. Len(bytes), NEW end \in {"none", "stalled", stream.end},
         end = stream.end => upTo = Len(bytes),
         end = "stalled" => upTo = next /\ upTo = filled',
         idle' \in BOOLEAN, idle' <=> end = "stalled",
         filled' \in upTo .. Len(bytes), held' \in {"none", stream.end},
         held' # "none" => filled' = Len(bytes),
         Consume(upTo, end),
         UNCHANGED <<stream, from, initial, nextLine, raws, told, verdict, readerDone>>
  PROVE  ReaderInv'
<1>0. /\ next \in Nat /\ from \in Nat /\ initial \in Nat /\ Len(bytes) \in Nat /\ bytes' = bytes
      /\ filled' \in Nat /\ upTo \in Nat /\ stream.end \in {"EOF", "failure"}
      /\ from + initial <= next /\ initial > 0
  BY ReaderConstants DEF ReaderInv, ReaderTypes, ReaderAt, bytes
<1>1. /\ \A a, b : Newlines(a, b)' = Newlines(a, b)
      /\ \A a, b : EndsBlank(a, b)' = EndsBlank(a, b)
      /\ \A a : Blank(a)' = Blank(a)
  BY DEF Newlines, EndsBlank, Blank, bytes
<1>2. Faithful(raws)' /\ ReaderEarns' /\ Reached' = Reached /\ ~idle
  <2>1. ~idle /\ verdict = "none" /\ ~told
    BY DEF ReaderInv, ReaderEnds, ReaderEarns
  <2>2. Faithful(raws)' /\ Reached' = Reached
    BY <2>1, NothingYielded DEF Over
  <2>3. QED
    BY <1>0, <2>1, <2>2 DEF ReaderEarns
<1>3. CASE \E i \in next + 1 .. upTo :
             /\ Second(i)
             /\ next' = i /\ newlines' = 2 /\ place' = "yield" /\ UNCHANGED err
  <2>1. PICK i \in next + 1 .. upTo :
             /\ Second(i)
             /\ next' = i /\ newlines' = 2 /\ place' = "yield" /\ UNCHANGED err
    BY <1>3
  <2>0. end # "stalled" /\ ~idle'
    BY <1>0, <2>1
  <2>2. EndsBlank(from, next')
    BY <1>0, <2>1, SecondEndsBlank
  <2>3. ReaderTypes'
    BY <1>0, <2>1 DEF ReaderInv, ReaderTypes
  <2>4. ReaderEnds' /\ ReaderAt'
    BY <1>0, <1>1, <1>2, <2>0, <2>1 DEF ReaderInv, ReaderEnds, ReaderAt
  <2>5. ReaderLooks'
    BY <1>1, <2>1, <2>2 DEF ReaderLooks
  <2>6. QED
    BY <1>2, <2>3, <2>4, <2>5 DEF ReaderInv
<1>4. CASE /\ next' = upTo /\ newlines' = (IF OneBehind(upTo) THEN 1 ELSE 0)
           /\ err' = end /\ place' = (IF end # "none" THEN "yield" ELSE "peek")
  <2>1. ReaderTypes'
    BY <1>0, <1>4 DEF ReaderInv, ReaderTypes
  <2>2. ReaderEnds' /\ ReaderAt'
    BY <1>0, <1>1, <1>2, <1>4 DEF ReaderInv, ReaderEnds, ReaderAt
  <2>3. newlines' = 1 => \E k \in from + 1 .. upTo : bytes[k] = "n" /\ \A j \in k .. upTo : Blank(j)
    BY <1>4, OneBehindLooks
  <2>4. ReaderLooks'
    BY <1>0, <1>1, <1>4, <2>3 DEF ReaderLooks
  <2>5. QED
    BY <1>2, <2>1, <2>2, <2>4 DEF ReaderInv
<1>5. QED
  BY <1>3, <1>4 DEF Consume

(* and each step keeps it: a cancellation changes what is known of the   *)
(* context only,                                                         *)
LEMMA CancelKeeps ==
  ASSUME ReaderInv, Cancel
  PROVE  ReaderInv'
<1> USE DEF Cancel, buffer, chunk, result
<1>1. Faithful(raws)' /\ Reached' = Reached
  BY NothingYielded DEF Over
<1>2. ReaderTypes' /\ ReaderEnds' /\ ReaderEarns'
  BY <1>1, StreamStays DEF ReaderInv, ReaderTypes, ReaderEnds, ReaderEarns
<1>3. ReaderAt' /\ ReaderLooks'
  BY <1>1, StreamStays DEF ReaderInv, ReaderAt, ReaderLooks
<1>4. QED
  BY <1>1, <1>2, <1>3 DEF ReaderInv

(* and is seen at the head of the loop.                                  *)
LEMMA HeadCanceledKeeps ==
  ASSUME ReaderInv, HeadCanceled
  PROVE  ReaderInv'
<1> USE DEF HeadCanceled, Return, buffer, chunk
<1>1. Faithful(raws)' /\ Reached' = Reached
  BY NothingYielded DEF Over
<1>2. ReaderTypes' /\ ReaderEnds' /\ ReaderEarns'
  BY <1>1, StreamStays DEF ReaderInv, ReaderTypes, ReaderEnds, ReaderEarns
<1>3. ReaderAt' /\ ReaderLooks'
  BY <1>1, StreamStays DEF ReaderInv, ReaderAt, ReaderLooks
<1>4. QED
  BY <1>1, <1>2, <1>3 DEF ReaderInv

(* What Read takes lies in what was read, and an end comes with the last.  *)
LEMMA TakeKeeps ==
  ASSUME ReaderInv, place = "head",
         NEW size \in Nat, NEW end \in {"none", stream.end},
         filled' \in next + size .. Len(bytes), held' \in {"none", stream.end},
         held' # "none" => filled' = Len(bytes),
         end # "none" => next + size = Len(bytes),
         idle' \in BOOLEAN, idle' <=> size = 0 /\ end = "none", idle' => filled' = next,
         TakeChunk(size, end),
         UNCHANGED <<stream, nextLine, raws, told, readerDone>>
  PROVE  ReaderInv'
<1>0. /\ next \in Nat /\ from \in Nat /\ Len(bytes) \in Nat /\ bytes' = bytes
      /\ filled' \in Nat /\ stream.end \in {"EOF", "failure"}
      /\ Reached = next /\ nextLine = 1 + Newlines(0, next)
  BY ReaderConstants DEF ReaderInv, ReaderTypes, ReaderAt, bytes
<1>1. Faithful(raws)' /\ Reached' = Reached
  BY NothingYielded DEF Over
<1>2. CASE size = 0
  <2>1. /\ err' = end /\ UNCHANGED <<next, from, initial, newlines>>
        /\ \/ end # "failure" /\ place' = "returned" /\ verdict' = "nil"
           \/ end = "failure" /\ place' = "tell" /\ UNCHANGED verdict
    BY <1>0, <1>2 DEF TakeChunk, Return
  <2>2. ReaderTypes'
    BY <1>0, <1>2, <2>1 DEF ReaderInv, ReaderTypes
  <2>3. ReaderEnds' /\ ReaderEarns'
    BY <1>0, <1>1, <1>2, <2>1 DEF ReaderInv, ReaderEnds, ReaderEarns
  <2>4. ReaderAt' /\ ReaderLooks'
    BY <1>0, <1>1, <2>1, StreamStays DEF ReaderAt, ReaderLooks
  <2>5. QED
    BY <1>1, <2>2, <2>3, <2>4 DEF ReaderInv
<1>3. CASE size # 0
  <2>1. /\ from' = next /\ next' = next + size /\ initial' = size /\ err' = end /\ newlines' = 0
        /\ place' = (IF end = "none" THEN "boundary" ELSE "yield")
        /\ UNCHANGED verdict
    BY <1>3 DEF TakeChunk
  <2>2. ReaderTypes'
    BY <1>0, <1>3, <2>1 DEF ReaderInv, ReaderTypes
  <2>3. ReaderEnds' /\ ReaderEarns'
    BY <1>0, <1>1, <1>3, <2>1 DEF ReaderInv, ReaderEnds, ReaderEarns
  <2>4. ReaderAt' /\ ReaderLooks'
    BY <1>0, <1>1, <1>3, <2>1, StreamStays DEF ReaderAt, ReaderLooks
  <2>5. QED
    BY <1>1, <2>2, <2>3, <2>4 DEF ReaderInv
<1>4. QED
  BY <1>2, <1>3

(* What a stream returns lies in it, with its end only beside the last.    *)
LEMMA DeliveredLies ==
  ASSUME ReaderInv, NEW room \in Nat, NEW d \in Delivered(room)
  PROVE  /\ d.size \in Nat /\ filled + d.size \in filled .. Len(bytes)
         /\ d.end \in {"none", stream.end}
         /\ d.end # "none" => filled + d.size = Len(bytes)
<1>1. filled \in Nat /\ Len(bytes) \in Nat /\ filled <= Len(bytes)
  BY ReaderConstants DEF ReaderInv, ReaderTypes, bytes
<1>2. Len(bytes) - filled \in Nat
  BY <1>1
<1>3. Lesser(room, Len(bytes) - filled) \in Nat /\ Lesser(room, Len(bytes) - filled) <= Len(bytes) - filled
  BY <1>2, LesserOfTwo
<1>4. /\ d.size \in 0 .. Lesser(room, Len(bytes) - filled) /\ d.end \in {"none", stream.end}
      /\ d.end # "none" => d.size = Len(bytes) - filled
  BY DEF Delivered, bytes
<1>5. QED
  BY <1>1, <1>3, <1>4

(* A read takes what bufio holds, or the end it owes, or what the stream *)
(* returns.                                                              *)
LEMMA ReadKeeps ==
  ASSUME ReaderInv, Read
  PROVE  ReaderInv'
<1>0. /\ next \in Nat /\ filled \in Nat /\ next <= filled /\ filled <= Len(bytes) /\ Len(bytes) \in Nat
      /\ held \in {"none", stream.end}
      /\ held # "none" => filled = Len(bytes)
      /\ ChunkSize \in Nat \ {0} /\ stream.end \in {"EOF", "failure"}
  BY ReaderConstants DEF ReaderInv, ReaderTypes, ReaderEnds, bytes
<1>1. /\ place = "head" /\ ~idle /\ idle \in BOOLEAN
      /\ UNCHANGED <<stream, nextLine, raws, told, readerDone>>
  BY DEF Read, ReaderInv, ReaderEnds, ReaderTypes
<1>2. CASE /\ filled > next /\ TakeChunk(Lesser(ChunkSize, filled - next), "none")
           /\ UNCHANGED <<filled, held, idle>>
  <2> DEFINE size == Lesser(ChunkSize, filled - next)
  <2>1. filled - next \in Nat /\ filled - next # 0
    BY <1>0, <1>2
  <2>2. size \in Nat /\ size # 0 /\ size <= filled - next
    BY <1>0, <2>1, LesserOfTwo
  <2> HIDE DEF size
  <2>3. filled' \in next + size .. Len(bytes)
    BY <1>0, <1>2, <2>2
  <2>4. TakeChunk(size, "none")
    BY <1>2 DEF size
  <2>5. held' \in {"none", stream.end} /\ (held' # "none" => filled' = Len(bytes))
        /\ idle' \in BOOLEAN /\ ~idle'
    BY <1>0, <1>1, <1>2
  <2>6. QED
    BY <1>1, <2>2, <2>3, <2>4, <2>5, TakeKeeps
<1>3. CASE /\ filled = next /\ held # "none" /\ TakeChunk(0, held)
           /\ held' = "none" /\ UNCHANGED <<filled, idle>>
  <2>1. filled' \in next + 0 .. Len(bytes) /\ next + 0 = Len(bytes)
        /\ idle' \in BOOLEAN /\ ~idle'
    BY <1>0, <1>1, <1>3
  <2>2. held' = "none" /\ held \in {"none", stream.end} /\ held # "none" /\ TakeChunk(0, held)
    BY <1>0, <1>3
  <2>3. QED
    BY <1>1, <2>1, <2>2, TakeKeeps
<1>4. CASE /\ filled = next /\ held = "none"
           /\ \E d \in Delivered(ChunkSize) :
                TakeChunk(d.size, d.end) /\ filled' = filled + d.size /\ idle' = Nothing(d)
           /\ UNCHANGED held
  <2>1. PICK d \in Delivered(ChunkSize) :
               TakeChunk(d.size, d.end) /\ filled' = filled + d.size /\ idle' = Nothing(d)
    BY <1>4
  <2>2. /\ d.size \in Nat /\ filled + d.size \in filled .. Len(bytes)
        /\ d.end \in {"none", stream.end}
        /\ d.end # "none" => filled + d.size = Len(bytes)
    BY <1>0, DeliveredLies
  <2>3. filled' \in next + d.size .. Len(bytes) /\ held' = "none"
    BY <1>0, <1>4, <2>1, <2>2
  <2>4. /\ d.end # "none" => next + d.size = Len(bytes)
        /\ idle' \in BOOLEAN /\ (idle' <=> d.size = 0 /\ d.end = "none")
        /\ idle' => filled' = next
    <3>1. idle' = Nothing(d) /\ Nothing(d) \in BOOLEAN
      BY <2>1 DEF Nothing
    <3>2. idle' \in BOOLEAN /\ (idle' <=> d.size = 0 /\ d.end = "none")
      BY <3>1, Zenon DEF Nothing
    <3>3. QED
      BY <1>0, <1>4, <2>1, <2>2, <3>2
  <2>5. QED
    BY <1>1, <2>1, <2>2, <2>3, <2>4, TakeKeeps
<1>5. QED
  BY <1>2, <1>3, <1>4 DEF Read, buffer

(* The lookahead is seeded by the last byte, which is one of the         *)
(* fragment.                                                             *)
LEMMA CheckBoundaryKeeps ==
  ASSUME ReaderInv, CheckBoundary
  PROVE  ReaderInv'
<1>0. /\ place = "boundary" /\ UNCHANGED <<stream, filled, held, idle, next, from, initial, err, nextLine, raws, told, verdict, readerDone>>
      /\ place' = (IF EndsBlank(from, next) THEN "yield" ELSE "peek")
      /\ newlines' = (IF bytes[next] = "n" THEN 1 ELSE 0)
  BY DEF CheckBoundary, buffer, result, bytes
<1>1. Faithful(raws)' /\ Reached' = Reached
  BY <1>0, NothingYielded DEF Over
<1>2. ReaderTypes' /\ ReaderEnds' /\ ReaderEarns'
  BY <1>0, <1>1, StreamStays DEF ReaderInv, ReaderTypes, ReaderEnds, ReaderEarns
<1>3. ReaderAt'
  BY <1>0, <1>1, StreamStays DEF ReaderInv, ReaderAt
<1>4. ReaderLooks'
  <2>1. from \in Nat /\ initial \in Nat /\ next \in Nat /\ from < next
    BY <1>0 DEF ReaderInv, ReaderTypes, ReaderAt
  <2>2. bytes[next] = "n" => \A j \in next .. next : Blank(j)
    BY <2>1 DEF Blank, bytes
  <2>3. newlines' = 1 => \E k \in from + 1 .. next : bytes[k] = "n" /\ \A j \in k .. next : Blank(j)
    BY <1>0, <2>1, <2>2
  <2>4. QED
    BY <1>0, <2>3, StreamStays DEF ReaderLooks
<1>5. QED
  BY <1>1, <1>2, <1>3, <1>4 DEF ReaderInv

(* The lookahead has taken maxPeekSize bytes behind the first read.      *)
LEMMA BudgetSpentKeeps ==
  ASSUME ReaderInv, BudgetSpent
  PROVE  ReaderInv'
<1>0. /\ place = "peek" /\ place' = "yield"
      /\ UNCHANGED <<stream, filled, held, idle, next, from, initial, newlines, err, nextLine, raws, told, verdict, readerDone>>
      /\ MaxPeek - ((next - from) - initial) <= 0
  BY DEF BudgetSpent, Budget, buffer, chunk, result
<1>1. Faithful(raws)' /\ Reached' = Reached
  BY <1>0, NothingYielded DEF Over
<1>2. ReaderTypes' /\ ReaderEnds' /\ ReaderEarns'
  BY <1>0, <1>1, StreamStays DEF ReaderInv, ReaderTypes, ReaderEnds, ReaderEarns
<1>3. ReaderAt'
  BY <1>0, <1>1, StreamStays DEF ReaderInv, ReaderAt
<1>4. next - from > MaxPeek
  BY <1>0, ReaderConstants DEF ReaderInv, ReaderTypes, ReaderAt
<1>5. ReaderLooks'
  BY <1>0, <1>4 DEF ReaderLooks
<1>6. QED
  BY <1>1, <1>2, <1>3, <1>5 DEF ReaderInv

(* A peek takes from the same three places as a read.                    *)
LEMMA PeekKeeps ==
  ASSUME ReaderInv, Peek
  PROVE  ReaderInv'
<1>0. /\ next \in Nat /\ filled \in Nat /\ next <= filled /\ filled <= Len(bytes) /\ Len(bytes) \in Nat
      /\ held \in {"none", stream.end}
      /\ held # "none" => filled = Len(bytes)
      /\ from \in Nat /\ initial \in Nat /\ BufSize \in Nat
  BY ReaderConstants DEF ReaderInv, ReaderTypes, ReaderEnds, bytes
<1>1. /\ place = "peek" /\ Budget > 0 /\ ~idle
      /\ UNCHANGED <<stream, from, initial, nextLine, raws, told, verdict, readerDone>>
      /\ stream.end \in {"EOF", "failure"} /\ idle \in BOOLEAN
  BY ReaderConstants DEF Peek, result, ReaderInv, ReaderTypes, ReaderEnds
<1>2. CASE /\ filled > next
           /\ Consume(next + Lesser(Budget, filled - next), "none")
           /\ UNCHANGED <<filled, held, idle>>
  <2> DEFINE upTo == next + Lesser(Budget, filled - next)
  <2>1. filled - next \in Nat /\ Budget \in Nat
    BY <1>0, <1>1, <1>2, ReaderConstants DEF Budget
  <2>2. upTo \in next .. filled
    <3>1. Lesser(Budget, filled - next) \in 0 .. filled - next
      BY <2>1, LesserOfTwo
    <3>2. QED BY <1>0, <3>1
  <2>3. Consume(upTo, "none")
    BY <1>2
  <2> HIDE DEF upTo
  <2>4. /\ upTo \in next .. Len(bytes) /\ filled' \in upTo .. Len(bytes)
        /\ held' \in {"none", stream.end}
        /\ held' # "none" => filled' = Len(bytes)
        /\ idle' \in BOOLEAN /\ ~idle'
    BY <1>0, <1>1, <1>2, <2>2
  <2>5. QED
    BY <1>1, <2>3, <2>4, ConsumeKeeps
<1>3. CASE /\ filled = next /\ held # "none"
           /\ Consume(next, held) /\ held' = "none" /\ UNCHANGED <<filled, idle>>
  <2>1. /\ next \in next .. Len(bytes) /\ filled' \in next .. Len(bytes)
        /\ held \in {"none", stream.end} /\ held' \in {"none", stream.end} /\ held' = "none"
        /\ next = Len(bytes) /\ idle' \in BOOLEAN /\ ~idle' /\ held # "stalled"
    BY <1>0, <1>1, <1>3
  <2>2. QED
    BY <1>1, <1>3, <2>1, ConsumeKeeps
<1>4. CASE /\ filled = next /\ held = "none"
           /\ \E d \in Delivered(BufSize) :
                /\ filled' = filled + d.size /\ idle' = Nothing(d)
                /\ \/ d.size > 0 /\ held' = d.end /\ Consume(next + 1, "none")
                   \/ /\ d.size = 0 /\ held' = "none"
                      /\ Consume(next, IF Nothing(d) THEN "stalled" ELSE d.end)
  <2>1. PICK d \in Delivered(BufSize) :
                /\ filled' = filled + d.size /\ idle' = Nothing(d)
                /\ \/ d.size > 0 /\ held' = d.end /\ Consume(next + 1, "none")
                   \/ /\ d.size = 0 /\ held' = "none"
                      /\ Consume(next, IF Nothing(d) THEN "stalled" ELSE d.end)
    BY <1>4
  <2>0. idle' \in BOOLEAN /\ (idle' <=> Nothing(d))
    <3>1. idle' = Nothing(d) /\ Nothing(d) \in BOOLEAN
      BY <2>1 DEF Nothing
    <3>2. QED BY <3>1, Zenon
  <2>2. /\ d.size \in Nat /\ filled + d.size \in filled .. Len(bytes)
        /\ d.end \in {"none", stream.end}
        /\ d.end # "none" => filled + d.size = Len(bytes)
    BY <1>0, DeliveredLies
  <2>3. CASE d.size > 0 /\ held' = d.end /\ Consume(next + 1, "none")
    <3>1. /\ next + 1 \in next .. Len(bytes) /\ filled' \in next + 1 .. Len(bytes)
          /\ held' \in {"none", stream.end}
          /\ held' # "none" => filled' = Len(bytes)
          /\ idle' \in BOOLEAN /\ ~idle'
      BY <1>0, <1>4, <2>0, <2>1, <2>2, <2>3 DEF Nothing
    <3>2. QED
      BY <1>1, <2>3, <3>1, ConsumeKeeps
  <2>4. CASE /\ d.size = 0 /\ held' = "none"
             /\ Consume(next, IF Nothing(d) THEN "stalled" ELSE d.end)
    <3> DEFINE end == IF Nothing(d) THEN "stalled" ELSE d.end
    <3>1. /\ next \in next .. Len(bytes) /\ filled' \in next .. Len(bytes)
          /\ held' \in {"none", stream.end} /\ held' = "none"
          /\ end \in {"none", "stalled", stream.end}
          /\ end = stream.end => next = Len(bytes)
          /\ end = "stalled" => next = filled'
          /\ idle' \in BOOLEAN /\ (idle' <=> end = "stalled")
      BY <1>0, <1>1, <1>4, <2>0, <2>1, <2>2, <2>4 DEF Nothing
    <3>2. Consume(next, end)
      BY <2>4
    <3> HIDE DEF end
    <3>3. QED
      BY <1>1, <3>1, <3>2, ConsumeKeeps
  <2>5. QED
    BY <2>1, <2>3, <2>4
<1>5. QED
  BY <1>2, <1>3, <1>4 DEF Peek, buffer
-----------------------------------------------------------------------------
(* A fragment joins the one before it, and begins on the line that was     *)
(* counted; and that count goes on behind it.                              *)
LEMMA FragmentJoins ==
  ASSUME ReaderInv, place = "yield", UNCHANGED stream, idle => Over',
         raws' = Append(raws, [from |-> from, to |-> next, line |-> nextLine])
  PROVE  /\ Faithful(raws)' /\ raws' \in Seq(Fragments) /\ Reached' = next
         /\ nextLine + Newlines(from, next) = 1 + Newlines(0, next)
         /\ Newlines(from, next) \in Nat
<1> DEFINE r == [from |-> from, to |-> next, line |-> nextLine]
<1>0. /\ next \in Nat /\ from \in Nat /\ nextLine \in Nat /\ from < next /\ Len(bytes) \in Nat /\ next <= Len(bytes)
      /\ from = Reached /\ nextLine = 1 + Newlines(0, from) /\ raws \in Seq(Fragments)
      /\ err \notin {"none", "stalled"} => next = Len(bytes)
      /\ err = "stalled" => idle
  BY ReaderConstants DEF ReaderInv, ReaderTypes, ReaderAt, ReaderEnds, bytes
<1>1. r \in Fragments
  BY <1>0 DEF Fragments
<1>2. /\ raws' \in Seq(Fragments) /\ Len(raws') = Len(raws) + 1 /\ raws'[Len(raws) + 1] = r
      /\ \A i \in 1 .. Len(raws) : raws'[i] = raws[i]
  BY <1>0, <1>1
<1>3. Reached' = next
  BY <1>0, <1>2 DEF Reached
<1>4. next < Len(bytes) => EndsBlank(from, next) \/ next - from > MaxPeek \/ Over'
  BY <1>0 DEF ReaderInv, ReaderLooks
<1>5. Faithful(raws)'
  <2> SUFFICES ASSUME NEW i \in 1 .. Len(raws) + 1
               PROVE
                 /\ raws'[i].from = (IF i = 1 THEN 0 ELSE raws'[i - 1].to) /\ raws'[i].from < raws'[i].to
                 /\ raws'[i].to <= Len(bytes)
                 /\ raws'[i].line = 1 + Newlines(0, raws'[i].from)
                 /\ raws'[i].to < Len(bytes) =>
                      \/ EndsBlank(raws'[i].from, raws'[i].to)
                      \/ raws'[i].to - raws'[i].from > MaxPeek
                      \/ i = Len(raws') /\ Over'
    <3>1. \A i \in 1 .. Len(raws) + 1 :
            /\ Newlines(0, raws[i].from)' = Newlines(0, raws'[i].from)
            /\ EndsBlank(raws[i].from, raws[i].to)' = EndsBlank(raws'[i].from, raws'[i].to)
      <4> SUFFICES ASSUME NEW i \in 1 .. Len(raws) + 1
                   PROVE  /\ Newlines(0, raws[i].from)' = Newlines(0, raws'[i].from)
                          /\ EndsBlank(raws[i].from, raws[i].to)'
                               = EndsBlank(raws'[i].from, raws'[i].to)
        OBVIOUS
      <4>1. Newlines(0, raws[i].from)' = Newlines(0, raws'[i].from)
        BY DEF Newlines, bytes
      <4>2. EndsBlank(raws[i].from, raws[i].to)' = EndsBlank(raws'[i].from, raws'[i].to)
        BY DEF EndsBlank, Blank, bytes
      <4>3. QED BY <4>1, <4>2
    <3>2. bytes' = bytes /\ DOMAIN raws' = 1 .. Len(raws) + 1
      BY <1>0, <1>2, StreamStays
    <3>3. QED
      BY <3>1, <3>2 DEF Faithful
  <2>1. CASE i = Len(raws) + 1
    <3>1. raws'[i] = r /\ Len(raws) \in Nat /\ (raws = <<>> <=> Len(raws) = 0)
      BY <1>0, <1>2, <2>1
    <3>2. i # 1 => raws'[i - 1] = raws[Len(raws)]
      BY <1>2, <2>1, <3>1
    <3>3. r.from = from /\ r.to = next /\ r.line = nextLine
      OBVIOUS
    <3>4. from = (IF i = 1 THEN 0 ELSE raws'[i - 1].to)
      BY <1>0, <2>1, <3>1, <3>2 DEF Reached
    <3>5. i = Len(raws')
      BY <1>2, <2>1
    <3>6. QED
      BY <1>0, <1>4, <3>1, <3>3, <3>4, <3>5
  <2>2. CASE i \in 1 .. Len(raws)
    <3>1. raws'[i] = raws[i] /\ (i # 1 => raws'[i - 1] = raws[i - 1]) /\ i \in DOMAIN raws
      BY <1>0, <1>2, <2>2
    <3>2. ~Over
      BY DEF Over
    <3>3. QED
      BY <3>1, <3>2 DEF ReaderInv, Faithful
  <2>3. QED
    BY <1>0, <2>1, <2>2
<1>6. /\ nextLine + Newlines(from, next) = 1 + Newlines(0, next)
      /\ Newlines(from, next) \in Nat
  <2>1. from <= next /\ from \in Nat /\ next \in Nat
    BY <1>0
  <2>2. /\ Newlines(0, from) \in Nat /\ Newlines(from, next) \in Nat
        /\ Newlines(0, next) = Newlines(0, from) + Newlines(from, next)
    BY <2>1, NewlinesAdd
  <2>3. QED
    BY <1>0, <2>2
<1>7. QED
  BY <1>2, <1>3, <1>5, <1>6

(* A refused fragment was yielded all the same,                          *)
LEMMA YieldRefusedKeeps ==
  ASSUME ReaderInv, YieldRefused
  PROVE  ReaderInv'
<1>0. /\ place = "yield" /\ place' = "returned" /\ verdict' = "refused"
      /\ raws' = Append(raws, [from |-> from, to |-> next, line |-> nextLine])
      /\ UNCHANGED <<stream, filled, held, idle, next, from, initial, newlines, err, nextLine, told, readerDone>>
  BY DEF YieldRefused, Return, buffer, chunk
<1>1. Faithful(raws)' /\ raws' \in Seq(Fragments)
  BY <1>0, FragmentJoins DEF Over
<1>2. ReaderTypes' /\ ReaderEnds' /\ ReaderEarns'
  BY <1>0, <1>1, StreamStays DEF ReaderInv, ReaderTypes, ReaderEnds, ReaderEarns
<1>3. ReaderAt' /\ ReaderLooks'
  BY <1>0 DEF ReaderAt, ReaderLooks
<1>4. QED
  BY <1>1, <1>2, <1>3 DEF ReaderInv

(* and an accepted one counts its lines; the end of the stream is the    *)
(* verdict.                                                              *)
LEMMA YieldKeeps ==
  ASSUME ReaderInv, Yield
  PROVE  ReaderInv'
<1>0. /\ place = "yield"
      /\ raws' = Append(raws, [from |-> from, to |-> next, line |-> nextLine])
      /\ UNCHANGED <<stream, filled, held, idle, next, from, initial, newlines, err, told, readerDone>>
  BY DEF Yield, Yielded, buffer, chunk
<1>1. /\ Faithful(raws)' /\ raws' \in Seq(Fragments) /\ Reached' = next
      /\ nextLine + Newlines(from, next) = 1 + Newlines(0, next)
      /\ Newlines(from, next) \in Nat
  <2>1. idle => err = "stalled"
    BY <1>0 DEF ReaderInv, ReaderEnds
  <2>2. idle => Over'
    BY <1>0, <2>1 DEF Yield, Yielded, Over
  <2>3. QED
    BY <1>0, <2>2, FragmentJoins
<1>2. /\ err \in {"none", "EOF", "failure", "stalled"} /\ nextLine \in Nat
      /\ err \notin {"none", "stalled"} => err = stream.end /\ next = Len(bytes)
      /\ idle <=> err = "stalled"
      /\ filled \in 0 .. Len(bytes) /\ next \in 0 .. filled /\ Len(bytes) \in Nat
      /\ ~told /\ verdict = "none"
  BY <1>0, ReaderConstants DEF ReaderInv, ReaderTypes, ReaderEnds, ReaderEarns, bytes
<1>3. CASE /\ err = "EOF" /\ place' = "returned"
           /\ verdict' = (IF readerDone THEN "canceled" ELSE "nil")
           /\ UNCHANGED nextLine
  <2>1. ReaderTypes'
    BY <1>0, <1>1, <1>3, StreamStays DEF ReaderInv, ReaderTypes
  <2>2. ReaderEnds'
    BY <1>0, <1>3, StreamStays DEF ReaderInv, ReaderEnds
  <2>3. ReaderEarns'
    BY <1>0, <1>1, <1>2, <1>3, StreamStays DEF ReaderInv, ReaderEarns
  <2>4. ReaderAt' /\ ReaderLooks'
    BY <1>3 DEF ReaderAt, ReaderLooks
  <2>5. QED
    BY <1>1, <2>1, <2>2, <2>3, <2>4 DEF ReaderInv
<1>4. CASE /\ err # "EOF" /\ nextLine' = nextLine + Newlines(from, next)
           /\ place' = (IF err = "none" THEN "head" ELSE "tell") /\ UNCHANGED verdict
  <2>1. ReaderTypes'
    BY <1>0, <1>1, <1>2, <1>4, StreamStays DEF ReaderInv, ReaderTypes
  <2>2. ReaderEnds' /\ ReaderEarns'
    BY <1>0, <1>2, <1>4, StreamStays DEF ReaderInv, ReaderEnds, ReaderEarns
  <2>3. ReaderAt' /\ ReaderLooks'
    BY <1>0, <1>1, <1>4, StreamStays DEF ReaderAt, ReaderLooks
  <2>4. QED
    BY <1>1, <2>1, <2>2, <2>3 DEF ReaderInv
<1>5. QED
  BY <1>3, <1>4 DEF Yield, Yielded, Return

(* A failure is told when all of the stream was yielded.                 *)
LEMMA TellKeeps ==
  ASSUME ReaderInv, Tell
  PROVE  ReaderInv'
<1>0. /\ place = "tell" /\ place' = "returned" /\ told' = TRUE /\ verdict' \in {"nil", "refused"}
      /\ UNCHANGED <<stream, filled, held, idle, next, from, initial, newlines, err, nextLine, raws, readerDone>>
  BY DEF Tell, Return, buffer, chunk
<1>1. Faithful(raws)' /\ Reached' = Reached
  BY <1>0, NothingYielded DEF Over
<1>2. /\ Reached = filled /\ (stream.end = "failure" \/ idle)
      /\ ~idle => filled = Len(bytes)
  BY <1>0, ReaderConstants DEF ReaderInv, ReaderTypes, ReaderAt, ReaderEnds, bytes
<1>3. ReaderTypes' /\ ReaderEnds'
  BY <1>0, StreamStays DEF ReaderInv, ReaderTypes, ReaderEnds
<1>4. ReaderEarns'
  BY <1>0, <1>1, <1>2, StreamStays DEF ReaderEarns
<1>5. ReaderAt' /\ ReaderLooks'
  BY <1>0 DEF ReaderAt, ReaderLooks
<1>6. QED
  BY <1>1, <1>3, <1>4, <1>5 DEF ReaderInv

(* A step of nobody keeps all.                                           *)
LEMMA ReaderStays ==
  ASSUME ReaderInv, UNCHANGED readerVars
  PROVE  ReaderInv'
<1>0. UNCHANGED <<stream, place, filled, held, idle, next, from, initial, newlines, err, nextLine, raws, told, verdict, readerDone>>
  BY DEF readerVars, buffer, chunk, result
<1>1. Faithful(raws)' /\ Reached' = Reached
  BY <1>0, NothingYielded DEF Over
<1>2. ReaderTypes' /\ ReaderEnds' /\ ReaderEarns'
  BY <1>0, <1>1, StreamStays DEF ReaderInv, ReaderTypes, ReaderEnds, ReaderEarns
<1>3. ReaderAt' /\ ReaderLooks'
  BY <1>0, <1>1, StreamStays DEF ReaderInv, ReaderAt, ReaderLooks
<1>4. QED
  BY <1>1, <1>2, <1>3 DEF ReaderInv

(* The inductive invariant of the reader.                                  *)
THEOREM ReaderInvariant == ReaderSpec => []ReaderInv
<1>1. ReaderInit => ReaderInv
  BY ReaderBegins
<1>2. ReaderInv /\ [ReaderNext]_readerVars => ReaderInv'
  BY CancelKeeps, HeadCanceledKeeps, ReadKeeps, CheckBoundaryKeeps, BudgetSpentKeeps, PeekKeeps,
     YieldRefusedKeeps, YieldKeeps, TellKeeps, ReaderStays DEF ReaderNext, Returned
<1>3. QED
  BY <1>1, <1>2, PTL DEF ReaderSpec

(* What readerFragments yields is the stream, for any stream, any sizes of *)
(* its buffers and any reads: byte by byte, each fragment with the line it *)
(* begins on, cut at a blank line or behind maxPeekSize, or where the      *)
(* lookahead stalled; and a nil result says that all that was read was     *)
(* yielded, and that this is the stream, its failure told if it had one,   *)
(* unless the last Read of the stream gave neither a byte nor an end.      *)
THEOREM ChunksAreFaithful ==
  ReaderSpec => []ChunksFaithful
<1>1. ReaderInv => ChunksFaithful
  <2> SUFFICES ASSUME ReaderInv PROVE ChunksFaithful
    OBVIOUS
  <2>1. Faithful(raws) /\ ReaderEarns
    BY DEF ReaderInv
  <2>2. (IF raws = <<>> THEN 0 ELSE raws[Len(raws)].to) = Reached
    BY DEF Reached
  <2>3. QED
    BY <2>1, <2>2 DEF Faithful, Over, ReaderEarns, ChunksFaithful, bytes
<1>2. QED
  BY <1>1, ReaderInvariant, PTL
=============================================================================
