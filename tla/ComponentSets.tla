--------------------------- MODULE ComponentSets ----------------------------
(***************************************************************************)
(* scan/components.go: the combinations of the components found near a     *)
(* credential, one component of each rule, up to a limit. An analysis of   *)
(* them may say "invalid" only if the list is complete, so the flag that   *)
(* says so is as important as the list.                                    *)
(*                                                                         *)
(* A component is a record with its rule; found is a sequence of them in   *)
(* the order of discovery.                                                 *)
(***************************************************************************)
EXTENDS Integers, SequencesExt

(* Rules in the order of their first component, and the components of each *)
RuleOrder(found) ==
  FoldLeft(LAMBDA acc, c : IF Contains(acc, c.rule) THEN acc ELSE Append(acc, c.rule), <<>>, found)
ByRule(found, rule) == SelectSeq(found, LAMBDA c : c.rule = rule)
Groups(found) == [i \in DOMAIN RuleOrder(found) |-> ByRule(found, RuleOrder(found)[i])]

(* Mutant: the product is compared after it has exceeded the limit.        *)
CountLate(total, size, max) == IF total > max THEN -1 ELSE total * size

(* "Count only up to the limit, without overflowing or enumerating extra   *)
(* sets": the product so far, or -1 once it is over the limit.             *)
Count(total, size, max) ==
  IF total = -1 \/ max <= 0 \/ total > max \div size THEN -1 ELSE total * size

Truncated(found, max) ==
  found # <<>> /\
  FoldLeft(LAMBDA total, g : Count(total, Len(g), max), 1, Groups(found)) = -1

(* The mixed-radix counter: the last index is the fastest. Its successor   *)
(* is <<>> when every index has come round.                                *)
Carry(indexes, sizes, position) ==
  [i \in DOMAIN indexes |-> IF i < position THEN indexes[i]
                            ELSE IF i = position THEN indexes[i] + 1 ELSE 1]

(* Mutant: the counter carries from the first index.                       *)
SuccessorOfFirst(indexes, sizes) ==
  LET free == {i \in DOMAIN indexes : indexes[i] < sizes[i]} IN
  IF free = {} THEN <<>>
  ELSE Carry(indexes, sizes, CHOOSE i \in free : \A j \in free : i <= j)

Successor(indexes, sizes) ==
  LET free == {i \in DOMAIN indexes : indexes[i] < sizes[i]} IN
  IF free = {} THEN <<>>
  ELSE Carry(indexes, sizes, CHOOSE i \in free : \A j \in free : j <= i)

Rows(groups, max) ==
  LET sizes == [i \in DOMAIN groups |-> Len(groups[i])]
      row[n \in Nat] == IF n = 1 THEN [i \in DOMAIN groups |-> 1]
                        ELSE IF row[n - 1] = <<>> THEN <<>> ELSE Successor(row[n - 1], sizes)
      count == CHOOSE n \in 0 .. max :
                 (\A k \in 1 .. n : row[k] # <<>>) /\ (n < max => row[n + 1] = <<>>)
  IN  [n \in 1 .. count |-> [i \in DOMAIN groups |-> groups[i][row[n][i]]]]

BuildSets(found, max) ==
  IF found = <<>> \/ max <= 0 THEN <<>> ELSE Rows(Groups(found), max)

-----------------------------------------------------------------------------
(* The reference: all ways to take one component of each rule.             *)
Combinations(found) ==
  {f \in [DOMAIN RuleOrder(found) -> DOMAIN found] :
     \A i \in DOMAIN f : found[f[i]].rule = RuleOrder(found)[i]}

Earlier(f, g) == \E i \in DOMAIN f : f[i] < g[i] /\ \A j \in 1 .. i - 1 : f[j] = g[j]

(* The list holds different complete combinations, those first in the      *)
(* order of discovery; and it is called truncated if and only if some      *)
(* combination is missing from it.                                         *)
SetsRight(found, max) ==
  found # <<>> =>
  LET sets  == BuildSets(found, max)
      all   == {[i \in DOMAIN f |-> found[f[i]]] : f \in Combinations(found)}
      taken == {f \in Combinations(found) :
                  Cardinality({g \in Combinations(found) : Earlier(g, f)}) < max}
  IN  /\ ToSet(sets) = {[i \in DOMAIN f |-> found[f[i]]] : f \in taken}
      /\ Cardinality(ToSet(sets)) = Len(sets)
      /\ Truncated(found, max) <=> Cardinality(all) > Len(sets)
=============================================================================
