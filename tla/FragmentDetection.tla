------------------------- MODULE FragmentDetection --------------------------
(***************************************************************************)
(* scan/scanner.go: detectFragmentWithState, detectFragmentWithRule,       *)
(* processComponents and filterIndexed. One fragment is searched by the    *)
(* rules in the order of their specificity, again after each decoding      *)
(* pass; near components are attached; and what a more specific finding    *)
(* covers is left out, at once or at the end.                              *)
(*                                                                         *)
(* A scenario s has the rules (the most specific first), the matches of    *)
(* each pass and the limits. What the regular expressions, the filters and *)
(* the fingerprints decide (below) is part of a match: its value (a range of the   *)
(* text, so that a part of it is a range within), whether it touches text  *)
(* that was decoded in its pass, whether it is dropped (by an allow        *)
(* signature, a filter or an ignored fingerprint) or weak (its confidence  *)
(* too low to be reported on its own).                                     *)
(***************************************************************************)
EXTENDS Integers, SequencesExt

Sets == INSTANCE ComponentSets

Specificity(s, r) == s.rules[r].specificity
PartOf(v, w) == w[1] <= v[1] /\ v[2] <= w[2]
Components(f) == UNION {ToSet(f.sets[i]) : i \in DOMAIN f.sets}

(* Mutant: rules of the same specificity suppress each other.              *)
CoversEqual(s, g, f) ==
  /\ g.line = f.line /\ g.rule # f.rule
  /\ PartOf(f.value, g.value) /\ Specificity(s, g.rule) >= Specificity(s, f.rule)

Covers(s, g, f) ==
  /\ g.line = f.line /\ g.rule # f.rule
  /\ PartOf(f.value, g.value) /\ Specificity(s, g.rule) > Specificity(s, f.rule)

(* isSuppressedByHigherSpecificityFinding                                  *)
Suppressed(s, f, prior) ==
  \E g \in ToSet(prior) :
    \/ Covers(s, g, f)
    \/ g.rule # f.rule /\ \E c \in Components(g) : Covers(s, c, f)

(* detectFragmentWithRule, as a rule of its own or as another's component. *)
(* After a decoding pass only matches that overlap decoded text are new.   *)
Matches(s, p, r, prior, component) ==
  IF s.rules[r].skip /\ ~component THEN <<>>
  ELSE SelectSeq(s.passes[p], LAMBDA m :
         m.rule = r /\ m.new /\ ~m.dropped /\ ~Suppressed(s, m, prior))

Near(s, f, c) == c.line \in (f.line - s.within) .. (f.line + s.within)

(* Mutant: a required component that is missing is only left out.          *)
CompleteAnyway(s, r, found) == TRUE

Complete(s, r, found) ==
  \A i \in DOMAIN s.rules[r].components :
    s.rules[r].components[i].optional \/ found[i] # <<>>

(* processComponents                                                       *)
NearComponents(s, p, r, f) ==
  [i \in DOMAIN s.rules[r].components |->
     SelectSeq(Matches(s, p, s.rules[r].components[i].rule, <<>>, TRUE), LAMBDA c : Near(s, f, c))]

RuleFindings(s, p, r, prior) ==
  LET primaries == Matches(s, p, r, prior, FALSE)
      complete  == SelectSeq(primaries, LAMBDA f : Complete(s, r, NearComponents(s, p, r, f)))
  IN  [i \in DOMAIN complete |->
         [complete[i] EXCEPT !.sets =
            Sets!BuildSets(FlattenSeq(NearComponents(s, p, r, complete[i])), s.maxSets)]]

(* A pass, rule by rule; what a rule finds is an earlier finding to the    *)
(* next one only.                                                          *)
Pass(s, p, findings) ==
  FoldLeftDomain(LAMBDA acc, r :
      acc \o SelectSeq(RuleFindings(s, p, r, acc), LAMBDA f : ~f.weak),
    findings, s.rules)

Detected(s) == FoldLeftDomain(LAMBDA acc, p : Pass(s, p, acc), <<>>, s.passes)

(* filterIndexed: neither what is a component of some finding nor what     *)
(* another one covers.                                                     *)
IsComponent(f, findings) ==
  \E g \in ToSet(findings) : \E c \in Components(g) :
    c.rule = f.rule /\ c.line = f.line /\ c.value = f.value

(* Mutant: components are reported as findings of their own, too.          *)
FilterKeepsComponents(s, findings) ==
  SelectSeq(findings, LAMBDA f : ~Suppressed(s, f, findings))

Filter(s, findings) ==
  SelectSeq(findings, LAMBDA f : ~IsComponent(f, findings) /\ ~Suppressed(s, f, findings))

Reported(s) == Filter(s, Detected(s))

-----------------------------------------------------------------------------
(* The reference: g names more specifically what f names.                  *)
Specializes(s, g, f) ==
  /\ g.rule # f.rule /\ g.line = f.line
  /\ s.rules[g.rule].specificity > s.rules[f.rule].specificity
  /\ g.value[1] <= f.value[1] /\ f.value[2] <= g.value[2]

(* A finding reaches the report: itself, as a component of a reported one, *)
(* or covered by something more specific that is in the report.            *)
Surfaces(s, f) ==
  \E g \in ToSet(Reported(s)) :
    \/ g = f
    \/ Specializes(s, g, f)
    \/ \E c \in Components(g) :
         Specializes(s, c, f) \/ (c.rule = f.rule /\ c.line = f.line /\ c.value = f.value)

(* The report names no credential twice: no finding is part of a more      *)
(* specific one, or also listed as its component; a finding has all its    *)
(* required components beside it; and if every composite finding is        *)
(* reported, so is everything that was detected, the most specific finding *)
(* of it at least.                                                         *)
ReportRight(s) ==
  LET reported == Reported(s) IN
  /\ \A f \in ToSet(reported) :
       /\ ~IsComponent(f, reported)
       /\ ~\E g \in ToSet(reported) :
            Specializes(s, g, f) \/ (g.rule # f.rule /\ \E k \in Components(g) : Specializes(s, k, f))
  /\ \A f \in ToSet(reported) : \A i \in DOMAIN s.rules[f.rule].components :
       LET required == s.rules[f.rule].components[i] IN
       required.optional \/ \E c \in Components(f) : c.rule = required.rule /\ Near(s, f, c)
  /\ (\A f \in ToSet(Detected(s)) : f.sets # <<>> => f \in ToSet(reported)) =>
       \A f \in ToSet(Detected(s)) : Surfaces(s, f)

(* "Skip findings already surfaced as the same rule's component of a       *)
(* composite finding in this batch" (the comment in filterIndexed): what   *)
(* is skipped is in the report all the same.                               *)
SkippedAreSurfaced(s) ==
  \A f \in ToSet(Detected(s)) : IsComponent(f, Detected(s)) => Surfaces(s, f)

-----------------------------------------------------------------------------
(* What drops a match, and what makes it weak. A rule looks for content,   *)
(* in the files of paths if there are any, or for these files alone; it    *)
(* has a group of its expression's captures, a confidence and a filter. A  *)
(* capture is a range, or <<>> if it took no part in the match.            *)
(*                                                                         *)
(* A filter sets the confidence ("" if it does not), skips findings whose  *)
(* confidence was in skipsAt, or fails.                                    *)
NoFilter == [sets |-> "", skipsAt |-> {}, fails |-> FALSE]

(* rulePathMatchesFragment; the suffixes are in SearchWindows.             *)
PathMatches(rule, fragment) == fragment.path # "" /\ fragment.path \in rule.paths

(* The value of a match: the rule's group, even if it is empty; else the   *)
(* first capture that is not; else all of the match.                       *)
HasGroup(rule, groups) == groups = <<>> \/ rule.group <= Len(groups)
Value(rule, whole, groups) ==
  LET filled == SelectSeq(groups, LAMBDA g : g # <<>> /\ g[1] < g[2]) IN
  IF groups # <<>> /\ rule.group > 0
  THEN IF groups[rule.group] = <<>> THEN <<whole[1], whole[1]>> ELSE groups[rule.group]
  ELSE IF filled = <<>> THEN whole ELSE filled[1]

(* Mutant: a filter that fails does not set the confidence.                *)
FilteredOnSuccess(f, filter) ==
  IF f.out \/ filter.fails THEN f
  ELSE [confidence |-> IF filter.sets = "" THEN f.confidence ELSE filter.sets,
        out |-> f.confidence \in filter.skipsAt]

(* EvalFilter and promoteConfidence: what a filter sets, the next one      *)
(* sees.                                                                   *)
Filtered(f, filter) ==
  IF f.out THEN f
  ELSE [confidence |-> IF filter.sets = "" THEN f.confidence ELSE filter.sets,
        out |-> ~filter.fails /\ f.confidence \in filter.skipsAt]

Judged(rule, global) ==
  FoldLeft(Filtered, [confidence |-> rule.confidence, out |-> FALSE], <<global, rule.filter>>)

ContentFound(rule, global, fragment, m) ==
  /\ rule.content /\ (rule.paths = {} \/ PathMatches(rule, fragment))
  /\ ~m.allowed /\ HasGroup(rule, m.groups) /\ ~Judged(rule, global).out

(* A file's path is a finding of its first fragment, not decoded.          *)
PathFound(rule, global, fragment, depth) ==
  /\ ~rule.content /\ depth = 0 /\ fragment.first # "false"
  /\ PathMatches(rule, fragment) /\ ~Judged(rule, global).out

Ranks == [low |-> 1, medium |-> 2, high |-> 3]
Meets(confidence, minimum) ==
  minimum = "" \/ confidence \notin DOMAIN Ranks \/ Ranks[confidence] >= Ranks[minimum]

(* For a valid rule a match is a finding unless it is allowed or a filter, *)
(* which got as far as to say so, skips it; its value is the group that    *)
(* the rule asks for; a path is found once in a file's chunks and passes;  *)
(* and what is left out as weak was set to be by the last that set it.     *)
JudgedRight(rule, global, path, m, minimum) ==
  LET Says(filter, confidence) == ~filter.fails /\ confidence \in filter.skipsAt
      Last3(a, b, c) == IF c # "" THEN c ELSE IF b # "" THEN b ELSE a
      set     == Last3(rule.confidence, global.sets, rule.filter.sets)
      skipped == \/ Says(global, rule.confidence)
                 \/ Says(rule.filter, Last3(rule.confidence, global.sets, ""))
      inPath  == path # "" /\ path \in rule.paths
      chunk(n) == [path |-> path, first |-> IF n = 1 THEN "true" ELSE "false"]
      value   == Value(rule, <<0, 2>>, m.groups)
      times   == Cardinality({<<n, depth>> \in (1 .. 2) \X (0 .. 1) : PathFound(rule, global, chunk(n), depth)})
  IN  /\ \A n \in 1 .. 2 : ContentFound(rule, global, chunk(n), m) <=>
           rule.content /\ (rule.paths = {} \/ inPath) /\ ~m.allowed /\ ~skipped
      /\ times = IF ~rule.content /\ inPath /\ ~skipped THEN 1 ELSE 0
      /\ ContentFound(rule, global, chunk(1), m) =>
           /\ rule.group > 0 => rule.group \in DOMAIN m.groups /\ m.groups[rule.group] \in {<<>>, value}
           /\ value[1] = value[2] => rule.group > 0
           /\ Meets(Judged(rule, global).confidence, minimum) <=>
                ~(minimum = "medium" /\ set = "low") /\ ~(minimum = "high" /\ set \in {"low", "medium"})
=============================================================================
