--------------------------- MODULE KeywordMatcher ---------------------------
(***************************************************************************)
(* internal/ahocorasick: all occurrences of the rules' keywords in one     *)
(* pass. A pattern is a sequence of ASCII letters, a text a sequence of    *)
(* runes with the ASCII byte that the matcher folds each to ("" for a rune *)
(* that folds to none) and its width in bytes. Only two runes of more than *)
(* one byte fold to ASCII, the long s and the Kelvin sign, so a match may  *)
(* be longer in the text than its pattern is.                              *)
(*                                                                         *)
(* A state of the automaton is the prefix of a pattern that it stands for. *)
(***************************************************************************)
EXTENDS Integers, SequencesExt

RECURSIVE Next(_, _, _), Fail(_, _), Outputs(_, _)

(* Compile, the trie.                                                      *)
States(patterns) == UNION {{SubSeq(p, 1, k) : k \in 0 .. Len(p)} : p \in ToSet(patterns)}

(* Compile, breadth first: the failure state of a child is what the        *)
(* failure state of its parent does with the same byte.                    *)
Next(patterns, state, byte) ==
  IF Append(state, byte) \in States(patterns) THEN Append(state, byte)
  ELSE IF state = <<>> THEN <<>>
  ELSE Next(patterns, Fail(patterns, state), byte)

Fail(patterns, state) ==
  IF Len(state) <= 1 THEN <<>>
  ELSE Next(patterns, Fail(patterns, Front(state)), Last(state))

Own(patterns, state) == {id \in DOMAIN patterns : patterns[id] = state}

Outputs(patterns, state) ==
  Own(patterns, state)
    \cup IF state = <<>> THEN {} ELSE Outputs(patterns, Fail(patterns, state))

-----------------------------------------------------------------------------
Start(text, i) == FoldLeftDomain(LAMBDA sum, k : IF k < i THEN sum + text[k].width ELSE sum, 0, text)

(* The ring of source offsets: one slot for each of the last Ring matcher  *)
(* bytes. (128 slots in the code, or the longest pattern.)                 *)
Ring(patterns) == Max({1} \cup {Len(p) : p \in ToSet(patterns)})

(* Mutant: the ring starts empty.                                          *)
SeedNothing(patterns, offset) == [slot \in 0 .. Ring(patterns) - 1 |-> 0]

(* The bytes before the first wide rune are their own offsets: Visit needs *)
(* no ring for them, and visitUnicode is seeded with the last of them.     *)
Seed(patterns, offset) ==
  [slot \in 0 .. Ring(patterns) - 1 |->
     LET i == {j \in Max({0, offset - Ring(patterns)}) .. offset - 1 : j % Ring(patterns) = slot}
     IN  IF i = {} THEN 0 ELSE Max(i)]

Wide(rune) == rune.letter # "" /\ rune.width > 1

(* One rune: what Visit does with it before any wide one (wide = FALSE),   *)
(* what visitUnicode does from then on.                                    *)
Step(patterns, text, v, k) ==
  LET i     == Start(text, k)
      rune  == text[k]
      state == Next(patterns, v.state, rune.letter)
      wide  == v.wide \/ Wide(rune)
      begun == IF wide /\ ~v.wide THEN [v EXCEPT !.starts = Seed(patterns, i), !.position = i]
               ELSE v
      starts == [begun.starts EXCEPT ![begun.position % Ring(patterns)] = i]
      From(id) == IF wide THEN starts[(begun.position + 1 - Len(patterns[id])) % Ring(patterns)]
                  ELSE i + 1 - Len(patterns[id])
  IN  IF rune.letter = "" THEN [v EXCEPT !.state = <<>>]
      ELSE [state |-> state, wide |-> wide,
            starts |-> IF wide THEN starts ELSE v.starts,
            position |-> IF wide THEN begun.position + 1 ELSE v.position,
            hits |-> v.hits \cup {<<id, From(id), i + rune.width>> : id \in Outputs(patterns, state)}]

Visit(patterns, text) ==
  FoldLeftDomain(LAMBDA v, k : Step(patterns, text, v, k),
                 [state |-> <<>>, wide |-> FALSE, starts |-> Seed(patterns, 0), position |-> 0,
                  hits |-> {}], text).hits

-----------------------------------------------------------------------------
(* Every occurrence of every keyword is reported, with the bytes of the    *)
(* text that it occupies, and nothing else is.                             *)
VisitRight(patterns, text) ==
  Visit(patterns, text) =
    {<<id, Start(text, k), Start(text, k + Len(patterns[id]))>> :
       <<id, k>> \in {<<p, j>> \in (DOMAIN patterns) \X (1 .. Len(text)) :
                        /\ j + Len(patterns[p]) - 1 <= Len(text)
                        /\ \A q \in 1 .. Len(patterns[p]) :
                             text[j + q - 1].letter = patterns[p][q]}}

-----------------------------------------------------------------------------
(* internal/exprruntime/bindings_filter.go: the lists of patterns and of   *)
(* terms that filters ask for. Each is compiled once and kept under a key  *)
(* made of its members, which a NUL separates. A word is a sequence of     *)
(* letters; A is the capital of a; "(" makes a pattern that is none. An    *)
(* argument is a word, a list of them, or something else.                  *)
Word(w)  == [is |-> "word", list |-> <<w>>]
Words(l) == [is |-> "list", list |-> l]
Mixed    == [is |-> "mixed", list |-> <<>>]

Lower(w) == [i \in DOMAIN w |-> IF w[i] = "A" THEN "a" ELSE w[i]]
Joined(list) == FlattenSeq([i \in DOMAIN list |-> IF i = 1 THEN list[i] ELSE <<"nul">> \o list[i]])

(* Mutant: nothing separates the members of a key.                         *)
OrderedRunTogether(list) == FlattenSeq(list)
OrderedKey(list) == Joined(list)

Rank(w) == [i \in 1 .. 3 |-> IF i > Len(w) THEN 0 ELSE CHOOSE n \in 1 .. 5 : <<"nul", "(", "A", "a", "b">>[n] = w[i]]
Before(v, w) == \E i \in 1 .. 3 : Rank(v)[i] < Rank(w)[i] /\ \A j \in 1 .. i - 1 : Rank(v)[j] = Rank(w)[j]
SortedKey(list) == Joined(SortSeq(list, Before))

Holds(w, part) == \E i \in 1 .. Len(w) - Len(part) + 1 : SubSeq(w, i, i + Len(part) - 1) = part
AnyString(values, list) ==
  values.is # "mixed" /\ \E v \in ToSet(values.list), w \in ToSet(list) : Holds(v, w)
LowerAll(list) == [i \in DOMAIN list |-> Lower(list[i])]

(* What a cache of [key, list] holds for a list: the first one compiled.   *)
Kept(cache, key, list) ==
  IF \E e \in cache : e.key = key THEN (CHOOSE e \in cache : e.key = key).list ELSE list
Keep(cache, key, list) ==
  IF \E e \in cache : e.key = key THEN cache ELSE cache \cup {[key |-> key, list |-> list]}

(* A list that does not compile is not kept. What is no list of words is   *)
(* taken for an empty one, and nothing matches that.                       *)
Compiles(list) == \A w \in ToSet(list) : ~Holds(w, <<"(">>)
MatchesAny(cache, values, patterns) ==
  LET list == IF patterns.is = "list" THEN patterns.list ELSE <<>>
      known == \E e \in cache : e.key = OrderedKey(list)
  IN  CASE list = <<>> -> [cache |-> cache, says |-> "no"]
        [] list # <<>> /\ ~known /\ ~Compiles(list) -> [cache |-> cache, says |-> "error"]
        [] OTHER ->
             [cache |-> Keep(cache, OrderedKey(list), list),
              says  |-> IF AnyString(values, Kept(cache, OrderedKey(list), list))
                        THEN "yes" ELSE "no"]

(* containsAny, whose cache all runtimes share.                            *)
ContainsAny(cache, values, terms) ==
  LET list == IF terms.is = "list" THEN LowerAll(terms.list) ELSE <<>>
  IN  IF list = <<>> THEN [cache |-> cache, says |-> "no"]
      ELSE [cache |-> Keep(cache, SortedKey(list), list),
            says  |-> IF AnyString([values EXCEPT !.list = LowerAll(@)], Kept(cache, SortedKey(list), list))
                      THEN "yes" ELSE "no"]

(* compileAttributeMatch: the usual prefilter asks for one attribute and   *)
(* is compiled with its list; if it cannot be, it is evaluated.            *)
AttributeMatch(cache, value, patterns) ==
  IF patterns.is # "list" \/ ~Compiles(patterns.list) THEN MatchesAny(cache, Word(value), patterns).says
  ELSE IF patterns.list # <<>> /\ AnyString(Word(value), patterns.list) THEN "yes" ELSE "no"

(* What a filter asked before changes no answer, and a compiled prefilter  *)
(* answers as the evaluated one: as long as no member of a list has a NUL. *)
ListsRight(values, before, list) ==
  LET NULs(l) == \E w \in ToSet(l.list) : "nul" \in ToSet(w)
      words == IF list.is = "list" THEN list.list ELSE <<>>
      regex == MatchesAny({}, Word(<<"a">>), before).cache
      terms == ContainsAny({}, Word(<<"a">>), before).cache
      Answer(v, w) == IF AnyString(v, w) THEN "yes" ELSE "no"
  IN  ~NULs(before) /\ ~NULs(list) =>
        /\ ContainsAny(terms, values, list).says = Answer([values EXCEPT !.list = LowerAll(@)], LowerAll(words))
        /\ MatchesAny(regex, values, list).says = IF Compiles(words) THEN Answer(values, words) ELSE "error"
        /\ values.is = "word" =>
             AttributeMatch(regex, values.list[1], list) = MatchesAny({}, values, list).says
=============================================================================
