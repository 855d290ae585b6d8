---------------------------- MODULE MCScanEngine ----------------------------
(* Small instances of ScanEngine.                                          *)
EXTENDS ScanEngine, TLC

CONSTANTS outer, inner, first, second, str, str2, y1, y2, y3, none, end

Fragment(n) == [kind |-> "fragment", found |-> n]
Broken(n)   == [kind |-> "broken", found |-> n]
Failing     == [kind |-> "error", found |-> 0]
EmptyItem   == [kind |-> "empty", found |-> 0]
Canceled    == [kind |-> "canceled", found |-> 0]

(* A handler of outer starts the scan inner on the same Scanner.           *)
NestedParent == (outer :> none) @@ (inner :> outer)
NestedOffers ==
  {(outer :> ((y1 :> Fragment(1)) @@ (y2 :> o))) @@
   (inner :> ((y1 :> i) @@ (y2 :> EmptyItem))) :
     o \in {Fragment(1), Failing}, i \in {Fragment(1), Broken(1), Canceled}}

(* A scan and its source race two ScanString calls for the permits, one    *)
(* of them made by the scan's own handler.                                 *)
SharedParent == (first :> none) @@ (str :> first) @@ (str2 :> none)
SharedOffers ==
  {first :> ((y1 :> Fragment(1)) @@ (y2 :> Fragment(0)) @@ (y3 :> b)) :
     b \in {Broken(1), Fragment(2)}}
=============================================================================
