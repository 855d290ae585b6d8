--------------------------- MODULE SearchWindows ----------------------------
(***************************************************************************)
(* Where a rule's expression is looked for. An expression that cannot      *)
(* match without one of the rule's keywords is run only on windows around  *)
(* the keywords' occurrences (internal/regexspan, scan/rule.go), and an    *)
(* occurrence that no assignment can follow is passed over                 *)
(* (scan/assignment_guard.go), as is a path without the suffix it needs    *)
(* (scan/path_suffix.go). All of it is to be conservative: narrowing  *)
(* the search must not change what is found.                               *)
(*                                                                         *)
(* A text is a sequence of one-byte characters, UTFMax = 1: the cutting of *)
(* longer runes is left out. An expression is a tree of records, parsed:   *)
(* [op |-> "lit", word], [op |-> "class", set, wide], [op |-> "any"] (any  *)
(* character but a newline), "begin" and "end" (of the text), "quest",     *)
(* "star", "plus", "repeat" (min, max), "capture", "concat", "alt", with   *)
(* sub. A class is wide when it has non-ASCII members that fold to ASCII.  *)
(***************************************************************************)
EXTENDS Integers, SequencesExt, FiniteSetsExt

UTFMax == 1
Punctuation == {"="}
Newline == "n"

RECURSIVE Literals(_), Measure(_), Analyze(_, _), Required(_), FirstBytes(_),
          Ends(_, _, _), MatchesFrom(_, _, _)

(* -1 stands for "unbounded".                                              *)
Plus(a, b)   == IF a < 0 \/ b < 0 THEN -1 ELSE a + b
Times(a, b)  == IF a = 0 \/ b = 0 THEN 0 ELSE IF a < 0 \/ b < 0 THEN -1 ELSE a * b
Widest(S)    == IF \E n \in S : n < 0 THEN -1 ELSE Max({0} \cup S)

Concat(sub) == [op |-> "concat", sub |-> sub]

Newlines(word) == Cardinality({i \in DOMAIN word : word[i] = Newline})
Unbounded(re)  == IF re.op = "repeat" THEN re.max ELSE -1

(* measure: the greatest width of a match, in bytes and in newlines.       *)
Measure(re) ==
  CASE re.op = "lit"   -> [bytes |-> Len(re.word) * UTFMax, lines |-> Newlines(re.word)]
    [] re.op = "class" -> [bytes |-> UTFMax, lines |-> IF Newline \in re.set THEN 1 ELSE 0]
    [] re.op = "any"   -> [bytes |-> UTFMax, lines |-> 0]
    [] re.op \in {"begin", "end"} -> [bytes |-> 0, lines |-> 0]
    [] re.op \in {"star", "plus", "repeat"} ->
         LET w == Measure(re.sub[1])
         IN  [bytes |-> Times(w.bytes, Unbounded(re)), lines |-> Times(w.lines, Unbounded(re))]
    [] re.op = "concat" ->
         IF re.sub = <<>> THEN [bytes |-> 0, lines |-> 0]
         ELSE LET w == Measure(Head(re.sub))
                  v == Measure(Concat(Tail(re.sub)))
              IN  [bytes |-> Plus(w.bytes, v.bytes), lines |-> Plus(w.lines, v.lines)]
    [] re.op \in {"quest", "capture", "alt"} ->
         LET ws == {Measure(re.sub[i]) : i \in DOMAIN re.sub}
         IN  [bytes |-> Widest({w.bytes : w \in ws}), lines |-> Widest({w.lines : w \in ws})]

(* literalAlternatives: the words of an expression that has only a few,    *)
(* else none. (The limits on their number are left out.)                   *)
Literals(re) ==
  CASE re.op = "lit"     -> {re.word}
    [] re.op \in {"begin", "end"} -> {<<>>}
    [] re.op = "quest"   -> LET words == Literals(re.sub[1])
                            IN  words \cup {w \in {<<>>} : words # {}}
    [] re.op = "class"   -> IF re.wide THEN {} ELSE {<<c>> : c \in re.set}
    [] re.op = "concat"  ->
         IF re.sub = <<>> THEN {<<>>}
         ELSE {a \o b : a \in Literals(Head(re.sub)), b \in Literals(Concat(Tail(re.sub)))}
    [] re.op \in {"capture", "alt"} ->
         LET words == {Literals(re.sub[i]) : i \in DOMAIN re.sub}
         IN  IF {} \in words THEN {} ELSE UNION words
    [] OTHER -> {}

-----------------------------------------------------------------------------
NoPlan == [before |-> -2, after |-> -2, lines |-> -2]

At(text, word, i)  == i + Len(word) - 1 <= Len(text) /\ SubSeq(text, i, i + Len(word) - 1) = word
Places(text, word) == {i \in 1 .. Len(text) : At(text, word, i)}

(* analyze, an expression that is only a few words: the first keyword that *)
(* a word contains, where it first occurs.                                 *)
WordPlan(word, keywords) ==
  LET k == SelectInSeq(keywords, LAMBDA w : Places(word, w) # {}) IN
  IF k = 0 THEN NoPlan
  ELSE LET index == Min(Places(word, keywords[k])) - 1
           tail  == SubSeq(word, index + Len(keywords[k]) + 1, Len(word))
       IN  [before |-> index * UTFMax, after |-> Len(tail) * UTFMax, lines |-> Newlines(tail)]

Combine(plans) ==
  IF NoPlan \in plans THEN NoPlan
  ELSE [before |-> Widest({p.before : p \in plans}),
        after |-> Widest({p.after : p \in plans}), lines |-> Widest({p.lines : p \in plans})]

(* analyze, an expression that is only a few words.                        *)
WordsPlan(words, keywords) ==
  IF words = {} THEN NoPlan ELSE Combine({WordPlan(word, keywords) : word \in words})

(* Mutant: the newlines of what follows do not count.                      *)
SuffixedByBytes(before, plan, rest) ==
  [before |-> Plus(before, plan.before), after |-> Plus(plan.after, Measure(rest).bytes),
   lines |-> plan.lines]

(* What stands before and after a plan's part of a concatenation widens    *)
(* the plan.                                                               *)
Suffixed(before, plan, rest) ==
  LET w == Measure(rest)
  IN  [before |-> Plus(before, plan.before), after |-> Plus(plan.after, w.bytes),
       lines |-> Plus(plan.lines, w.lines)]

Widened(subs, i, part) ==
  IF part.plan = NoPlan THEN NoPlan
  ELSE Suffixed(Measure(Concat(SubSeq(subs, 1, i - 1))).bytes, part.plan,
                Concat(SubSeq(subs, part.last + 1, Len(subs))))

(* analyze, a concatenation: a part has its own plan, or the plan of the   *)
(* words which it makes with some of the parts after it; words and plans   *)
(* are those of the part with what follows it, by its last part.           *)
FirstPlan(words, plans, i, n) ==
  LET last == Min({n} \cup {e \in i .. n : plans[e] # NoPlan \/ (e > i /\ words[e] = {})})
  IN  [plan |-> plans[last], last |-> last]

PartPlan(subs, i, words, keywords) ==
  FirstPlan(words,
            [e \in i .. Len(subs) |-> IF e = i THEN Analyze(subs[i], keywords)
                                      ELSE WordsPlan(words[e], keywords)],
            i, Len(subs))

JoinedWords(subs, i) == [e \in i .. Len(subs) |-> Literals(Concat(SubSeq(subs, i, e)))]

(* The first of the parts' plans that is bounded is the plan of the whole. *)
Bounded(plan) == /\ plan # NoPlan /\ plan.before >= 0
                 /\ plan.after >= 0 \/ plan.lines >= 0

FirstBounded(plans) ==
  LET good == {i \in DOMAIN plans : Bounded(plans[i])}
  IN  IF good = {} THEN NoPlan ELSE plans[Min(good)]

ConcatPlan(subs, keywords) ==
  FirstBounded([i \in DOMAIN subs |->
                  Widened(subs, i, PartPlan(subs, i, JoinedWords(subs, i), keywords))])

Analyze(re, keywords) ==
  IF Literals(re) # {} THEN WordsPlan(Literals(re), keywords)
  ELSE CASE re.op \in {"capture", "alt"} ->
              Combine({Analyze(re.sub[i], keywords) : i \in DOMAIN re.sub})
         [] re.op = "concat" -> ConcatPlan(re.sub, keywords)
         [] OTHER -> NoPlan

(* mandatoryPunctuation.                                                   *)
Required(re) ==
  CASE re.op = "lit" -> ToSet(re.word) \cap Punctuation
    [] re.op \in {"capture", "plus"} -> Required(re.sub[1])
    [] re.op = "repeat" -> IF re.min > 0 THEN Required(re.sub[1]) ELSE {}
    [] re.op = "concat" -> UNION {Required(re.sub[i]) : i \in DOMAIN re.sub}
    [] re.op = "alt" ->
         {b \in Punctuation : \A i \in DOMAIN re.sub : b \in Required(re.sub[i])}
    [] OTHER -> {}

(* The punctuation that is in no keyword.                                  *)
RequiredByte(re, keywords) == Required(re) \ UNION {ToSet(keywords[k]) : k \in DOMAIN keywords}

-----------------------------------------------------------------------------
(* compilePrefixWindows: keywords without their trailing punctuation find  *)
(* windows where the keywords themselves have none.                        *)
RECURSIVE Trim(_)
Trim(word) == IF word # <<>> /\ Last(word) \in Punctuation THEN Trim(Front(word)) ELSE word

Compile(re, keywords) ==
  IF \E k \in DOMAIN keywords : keywords[k] = <<>> THEN NoPlan ELSE Analyze(re, keywords)

(* The plan of a rule, the words that its windows are put around, and the  *)
(* punctuation without which it is not looked for.                         *)
Narrowed(plan, anchors, required) ==
  IF plan = NoPlan THEN [plan |-> NoPlan, anchors |-> <<>>, required |-> {}]
  ELSE [plan |-> plan, anchors |-> anchors, required |-> required]

PlannedOr(re, own, prefixes) ==
  IF own.plan # NoPlan \/ prefixes = own.anchors THEN own
  ELSE Narrowed(Compile(re, prefixes), prefixes, RequiredByte(re, prefixes))

Planned(re, keywords) ==
  PlannedOr(re, [Narrowed(Compile(re, keywords), keywords, RequiredByte(re, keywords))
                   EXCEPT !.anchors = keywords],
            [k \in DOMAIN keywords |-> Trim(keywords[k])])

(* guardFoldASCII: K is the capital of k, and "wide" a rune of more than   *)
(* one byte that folds to it.                                              *)
Low(c) == IF c \in {"K", "wide"} THEN "k" ELSE c

(* foldedLiterals: as Literals, but wide members fold to ASCII, and        *)
(* nothing is optional or empty.                                           *)
RECURSIVE Folded(_)
Folded(re) ==
  CASE re.op = "lit"     -> {[i \in DOMAIN re.word |-> Low(re.word[i])]}
    [] re.op = "class"   -> {<<Low(c)>> : c \in re.set}
    [] re.op = "concat"  -> IF re.sub = <<>> THEN {<<>>}
                            ELSE {a \o b : a \in Folded(Head(re.sub)), b \in Folded(Concat(Tail(re.sub)))}
    [] re.op \in {"capture", "alt"} ->
         LET words == {Folded(re.sub[i]) : i \in DOMAIN re.sub}
         IN  IF {} \in words THEN {} ELSE UNION words
    [] OTHER -> {}

(* guardFirstBytes: {} where it does not know.                             *)
FirstBytes(re) ==
  CASE re.op = "lit"   -> {Head(re.word)}
    [] re.op = "class" -> IF re.wide THEN {} ELSE re.set
    [] re.op \in {"capture", "plus", "concat"} -> FirstBytes(re.sub[1])
    [] re.op = "repeat" -> IF re.min > 0 THEN FirstBytes(re.sub[1]) ELSE {}
    [] re.op = "alt"    -> IF \E i \in DOMAIN re.sub : FirstBytes(re.sub[i]) = {} THEN {}
                           ELSE UNION {FirstBytes(re.sub[i]) : i \in DOMAIN re.sub}
    [] OTHER -> {}

(* guardOptionalClass.                                                     *)
Chars(re) == IF re.op = "class" THEN re.set ELSE ToSet(re.word)
OptionalClass(re) ==
  /\ re.op = "repeat" /\ re.min = 0 /\ re.max >= 0
  /\ \/ re.sub[1].op = "class"
     \/ re.sub[1].op = "lit" /\ Len(re.sub[1].word) = 1

(* inferAssignmentGuard: keyword, identifier{0,i}, padding{0,p}, operator. *)
Guarded(re, keywords) ==
  /\ re.op = "concat" /\ Len(re.sub) >= 4
  /\ Folded(re.sub[1]) # {} /\ Folded(re.sub[1]) \subseteq ToSet(keywords) \ {<<>>}
  /\ OptionalClass(re.sub[2]) /\ OptionalClass(re.sub[3])
  /\ FirstBytes(re.sub[4]) # {}
  /\ FirstBytes(re.sub[4]) \cap (Chars(re.sub[2].sub[1]) \cup Chars(re.sub[3].sub[1])) = {}

(* possible: as many characters of each class as there are, then an        *)
(* operator. `after' is the first place after the keyword.                 *)
Consumed(text, from, class) ==
  LET taken == {n \in 0 .. class.max : \A i \in from .. from + n - 1 :
                  i <= Len(text) /\ text[i] \in Chars(class.sub[1])}
  IN  from + Max(taken)

Possible(re, text, after) ==
  LET i == Consumed(text, Consumed(text, after, re.sub[2]), re.sub[3])
  IN  i <= Len(text) /\ text[i] \in FirstBytes(re.sub[4])

(* compilePathSuffixes: the words of which a path must end with one, {} if *)
(* they are not known.                                                     *)
PathSuffixes(re) ==
  IF re.op # "concat" \/ Last(re.sub).op # "end" THEN {}
  ELSE LET n     == Len(re.sub) - 1
           words == [i \in 1 .. n |-> Folded(Concat(SubSeq(re.sub, i, n)))]
           read  == {i \in 1 .. n : \A j \in i .. n : words[j] # {}}
       IN  IF read = {} \/ \E i \in read : <<>> \in words[i] THEN {} ELSE words[Min(read)]

(* pathSuffixPossible: compared from the end, up to a rune of many bytes.  *)
SuffixPossible(path, suffixes) ==
  LET Known(word, i) == i < Len(path) /\ path[Len(path) - i] # "wide"
                          /\ Low(path[Len(path) - i]) = word[Len(word) - i]
      Wide(i) == i < Len(path) /\ path[Len(path) - i] = "wide"
  IN  suffixes = {} \/ \E word \in suffixes :
        \/ \A i \in 0 .. Len(word) - 1 : Known(word, i)
        \/ \E i \in 0 .. Len(word) - 1 : Wide(i) /\ \A j \in 0 .. i - 1 : Known(word, j)

-----------------------------------------------------------------------------
(* Windows.Add: the window of the occurrence start .. end, joined with     *)
(* those before it that it touches. An unbounded plan ends at the newline  *)
(* after plan.lines more.                                                  *)
LineLimit(text, end, lines) ==
  LET after == SetToSortSeq({i \in end + 1 .. Len(text) : text[i] = Newline}, <)
  IN  IF Len(after) > lines THEN after[lines + 1] ELSE Len(text)

Window(text, start, end, plan) ==
  << Max({1, start - plan.before - UTFMax}),
     Min({Len(text), UTFMax + IF plan.after >= 0 THEN end + plan.after
                              ELSE LineLimit(text, end, plan.lines)}) >>

Joined(spans, w) ==
  LET near == {i \in DOMAIN spans : \A j \in i .. Len(spans) : spans[j][2] + 1 >= w[1]}
  IN  Append(SubSeq(spans, 1, Len(spans) - Cardinality(near)),
             << Min({w[1]} \cup {spans[i][1] : i \in near}),
                Max({w[2]} \cup {spans[i][2] : i \in near}) >>)

(* The occurrences of words, in the order in which they end.               *)
Occurrences(text, words) ==
  SetToSortSeq(UNION {{<<i, i + Len(w) - 1>> : i \in Places(text, w)} : w \in words},
               LAMBDA a, b : a[2] < b[2] \/ (a[2] = b[2] /\ a[1] > b[1]))

(* The occurrences that mark a rule.                                       *)
Hits(re, keywords, text) ==
  SelectSeq(Occurrences(text, ToSet(keywords)),
            LAMBDA o : Guarded(re, keywords) => Possible(re, text, o[2] + 1))

(* scanner.go: windows are put around the keywords that mark a rule, or    *)
(* around all of its other anchors.                                        *)
Spans(p, keywords, hits, text) ==
  FoldLeft(LAMBDA spans, o : Joined(spans, Window(text, o[1], o[2], p.plan)), <<>>,
           IF p.anchors = keywords THEN hits ELSE Occurrences(text, ToSet(p.anchors)))

-----------------------------------------------------------------------------
(* External: the regular expression engine, leftmost first. The places     *)
(* where a match from i on can end, the preferred one first.               *)
Ends(re, text, i) ==
  LET Each(s, starts) == FlattenSeq([k \in DOMAIN starts |-> Ends(s, text, starts[k])])
  IN  CASE re.op = "lit"   -> IF At(text, re.word, i) THEN <<i + Len(re.word)>> ELSE <<>>
        [] re.op = "class" -> IF i <= Len(text) /\ text[i] \in re.set THEN <<i + 1>> ELSE <<>>
        [] re.op = "any"   -> IF i <= Len(text) /\ text[i] # Newline THEN <<i + 1>> ELSE <<>>
        [] re.op = "begin" -> IF i = 1 THEN <<i>> ELSE <<>>
        [] re.op = "end"   -> IF i = Len(text) + 1 THEN <<i>> ELSE <<>>
        [] re.op = "capture" -> Ends(re.sub[1], text, i)
        [] re.op = "quest"   -> Ends(re.sub[1], text, i) \o <<i>>
        [] re.op = "alt"     -> FlattenSeq([k \in DOMAIN re.sub |-> Ends(re.sub[k], text, i)])
        [] re.op = "concat"  -> FoldLeft(LAMBDA starts, s : Each(s, starts), <<i>>, re.sub)
        [] re.op = "star"    -> LET more == SelectSeq(Ends(re.sub[1], text, i), LAMBDA e : e > i)
                                IN  Each(re, more) \o <<i>>
        [] re.op = "plus"    -> Each([op |-> "star", sub |-> re.sub], Ends(re.sub[1], text, i))
        [] re.op = "repeat"  ->
             IF re.max = 0 THEN <<i>>
             ELSE Each([re EXCEPT !.min = Max({0, @ - 1}), !.max = Max({-1, @ - 1})],
                       SelectSeq(Ends(re.sub[1], text, i), LAMBDA e : e > i))
                    \o IF re.min = 0 THEN <<i>> ELSE <<>>

MatchesFrom(re, text, i) ==
  IF i > Len(text) THEN {}
  ELSE LET ends == Ends(re, text, i) IN
       IF ends = <<>> THEN MatchesFrom(re, text, i + 1)
       ELSE {<<i, Head(ends)>>} \cup MatchesFrom(re, text, Max({i + 1, Head(ends)}))

(* scanner.go, find: a text without the required byte is not searched.     *)
Find(re, text, required) ==
  IF required # {} /\ required \cap ToSet(text) = {} THEN {} ELSE MatchesFrom(re, text, 1)

FindOn(re, text, spans, required) ==
  UNION {{<<m[1] + spans[k][1] - 1, m[2] + spans[k][1] - 1>> :
            m \in Find(re, SubSeq(text, spans[k][1], spans[k][2]), required)} : k \in DOMAIN spans}

FindMarked(re, keywords, text, p, hits) ==
  IF hits = <<>> THEN {}
  ELSE IF p.plan = NoPlan THEN Find(re, text, {})
  ELSE FindOn(re, text, Spans(p, keywords, hits, text),
              {b \in p.required : b = CHOOSE c \in p.required : TRUE})

FindAll(re, keywords, text) ==
  FindMarked(re, keywords, text, Planned(re, keywords), Hits(re, keywords, text))

-----------------------------------------------------------------------------
(* A guard knows the wide classes of a keyword and a plan does not: then   *)
(* the plan may be made for a keyword further on, whose occurrences the    *)
(* guard rejects.                                                          *)
GuardHidesPlan(re, keywords) == Guarded(re, keywords) /\ Literals(re.sub[1]) = {}

(* In a text with one of the keywords a rule finds on its windows what it  *)
(* would find in the whole text.                                           *)
SearchRight(re, keywords, text) ==
  ~GuardHidesPlan(re, keywords) =>
    FindAll(re, keywords, text) =
      IF Occurrences(text, ToSet(keywords)) = <<>> THEN {} ELSE MatchesFrom(re, text, 1)

(* No path is passed over for its suffix that the expression matches.      *)
SuffixRight(re, path) ==
  (\E i \in 1 .. Len(path) + 1 : Ends(re, path, i) # <<>>) => SuffixPossible(path, PathSuffixes(re))
=============================================================================
