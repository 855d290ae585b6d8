-------------------------- MODULE ConfigResolution --------------------------
(***************************************************************************)
(* config/config.go: a configuration that extends another one, which may   *)
(* extend a third, becomes one set of rules; then what a rule must have in *)
(* itself (config/rule.go), and what a configuration is known by.          *)
(*                                                                         *)
(* files gives the configuration of each name (the built-in one is among   *)
(* them): its rules in order ([id, components, body], a component being an *)
(* id), the name it extends or "none", or "both" if it names a path and    *)
(* the built-in one; the ids it disables; and the parts of its prefilter   *)
(* and its filter. A name without a file cannot be read. Parsing is left   *)
(* out.                                                                    *)
(***************************************************************************)
EXTENDS Integers, SequencesExt

MaxExtendDepth == 2

Ids(rules) == {r.id : r \in ToSet(rules)}
Duplicates(rules) == Cardinality(Ids(rules)) < Len(rules)
Failed(why) == [err |-> why, rules |-> <<>>, prefilter |-> {}, filter |-> {}]
Sorted(rules) == SortSeq(rules, LAMBDA a, b : a.id < b.id)

(* Mutant: rules are replaced before the disabled ones are left out.       *)
MergeOwnToo(own, base) ==
  [err |-> "none",
   rules |-> Sorted(SelectSeq(own.rules \o SelectSeq(base.rules, LAMBDA r : r.id \notin Ids(own.rules)),
                              LAMBDA r : r.id \notin own.disabled)),
   prefilter |-> base.prefilter \cup own.prefilter,
   filter |-> base.filter \cup own.filter]

(* "Global filters are skip predicates, so extension is additive: either   *)
(* config may suppress the input."                                         *)
Merge(own, base) ==
  [err |-> "none",
   rules |-> Sorted(own.rules \o SelectSeq(base.rules, LAMBDA r :
                      r.id \notin own.disabled /\ r.id \notin Ids(own.rules))),
   prefilter |-> base.prefilter \cup own.prefilter,
   filter |-> base.filter \cup own.filter]

(* Mutant: only the duplicates that are left after merging are seen.       *)
OwnUnchecked(own) ==
  [err |-> IF own.extends = "both" THEN "both" ELSE "none",
   rules |-> own.rules, prefilter |-> own.prefilter, filter |-> own.filter]

Own(own) ==
  [err |-> CASE Duplicates(own.rules) -> "duplicate" [] own.extends = "both" -> "both"
             [] OTHER -> "none",
   rules |-> own.rules, prefilter |-> own.prefilter, filter |-> own.filter]

(* decode and resolve at some depth; each base is resolved before it is    *)
(* merged.                                                                 *)
Resolve(files, name) ==
  LET at[k \in 0 .. MaxExtendDepth] ==
        [n \in DOMAIN files |->
           LET own == files[n]  plain == Own(own) IN
           IF plain.err # "none" \/ own.extends = "none" THEN plain
           ELSE IF k = MaxExtendDepth THEN Failed("depth")
           ELSE IF own.extends \notin DOMAIN files THEN Failed("load")
           ELSE LET base == at[k + 1][own.extends] IN
                IF base.err # "none" THEN Failed(base.err) ELSE Merge(own, base)]
  IN  at[0][name]

(* Config.Validate, of the rules that are left.                            *)
RuleOf(rules, id) == CHOOSE r \in ToSet(rules) : r.id = id
Valid(rules) ==
  /\ ~Duplicates(rules)
  /\ \A r \in ToSet(rules) : \A c \in r.components :
       c \in Ids(rules) /\ c # r.id /\ RuleOf(rules, c).components = {}

(* ParseTOML                                                               *)
Parse(files, name) ==
  LET cfg == Resolve(files, name) IN
  IF cfg.err = "none" /\ ~Valid(cfg.rules) THEN Failed("invalid") ELSE cfg

-----------------------------------------------------------------------------
(* The reference: the chain of configurations, the extending one first.    *)
Chain(files, name) ==
  LET next(n) == IF n \in DOMAIN files THEN files[n].extends ELSE "none"
      link[k \in 1 .. MaxExtendDepth + 2] == IF k = 1 THEN name ELSE next(link[k - 1])
  IN  SelectSeq([k \in 1 .. MaxExtendDepth + 2 |-> link[k]], LAMBDA n : n # "none")

(* A rule holds if no configuration before its own has the id, or disables *)
(* it.                                                                     *)
InForce(files, chain) ==
  {r \in UNION {ToSet(files[chain[k]].rules) : k \in DOMAIN chain} :
     \E k \in DOMAIN chain :
       /\ r \in ToSet(files[chain[k]].rules)
       /\ \A j \in 1 .. k - 1 :
            r.id \notin Ids(files[chain[j]].rules) \cup files[chain[j]].disabled}

Readable(files, chain) ==
  /\ Len(chain) <= MaxExtendDepth + 1
  /\ \A k \in DOMAIN chain : chain[k] \in DOMAIN files
  /\ \A k \in DOMAIN chain : ~Duplicates(files[chain[k]].rules)

(* What is scanned for is what the chain of configurations says, and the   *)
(* filters of all of them; and a chain that cannot be read, or that leaves *)
(* a rule without a component it names, is an error and never a smaller    *)
(* set of rules.                                                           *)
ConfigRight(files, name) ==
  LET cfg   == Parse(files, name)
      chain == Chain(files, name)
      rules == SetToSortSeq(InForce(files, chain), LAMBDA a, b : a.id < b.id)
  IN  IF Readable(files, chain) /\ Valid(rules)
      THEN /\ cfg.err = "none" /\ ToSet(cfg.rules) = ToSet(rules) /\ Len(cfg.rules) = Len(rules)
           /\ Len(chain) > 1 => cfg.rules = rules
           /\ cfg.prefilter = UNION {files[n].prefilter : n \in ToSet(chain)}
           /\ cfg.filter = UNION {files[n].filter : n \in ToSet(chain)}
      ELSE cfg.err # "none"

-----------------------------------------------------------------------------
(* Rule.Validate. A rule says whether it is named, has content and parses, *)
(* how many captures its expression has, and with which programs; a need   *)
(* is a component, within a window that parses or does not.                *)
UniqueNeeds(needs) == \A i, j \in DOMAIN needs : i # j => needs[i].id # needs[j].id

(* Mutant: the group need not be one of the expression.                    *)
RuleValidAnyGroup(r) ==
  /\ r.named /\ (r.content \/ r.paths # {}) /\ r.parses
  /\ r.confidence \in {"", "low", "medium", "high"} /\ r.group >= 0

RuleValid(r) ==
  /\ r.named /\ (r.content \/ r.paths # {}) /\ r.parses
  /\ r.confidence \in {"", "low", "medium", "high"}
  /\ r.group >= 0 /\ (r.content \/ r.group = 0) /\ (r.content => r.group <= r.captures)
  /\ "analyze" \in r.programs => "validate" \in r.programs
  /\ ~r.content => r.needs = <<>> /\ r.programs = {}
  /\ UniqueNeeds(r.needs)
  /\ \A i \in DOMAIN r.needs : r.needs[i].id \notin {"", r.id} /\ r.needs[i].parses

(* Hash and RuleHash: the bytes that are hashed. A number is one byte, as  *)
(* the numbers below 128 are; a text is a sequence of bytes; the SHA-256   *)
(* is external.                                                            *)
HashString(text) == <<Len(text)>> \o text

(* Mutant: a list of texts is not counted.                                 *)
HashStringsUncounted(texts) == FlattenSeq([i \in DOMAIN texts |-> HashString(texts[i])])
HashStrings(texts) == <<Len(texts)>> \o FlattenSeq([i \in DOMAIN texts |-> HashString(texts[i])])

Bit(b) == IF b THEN <<1>> ELSE <<0>>
HashNeed(need) == HashString(need.id) \o HashString(need.within) \o Bit(need.optional)
HashRule(r) ==
  HashString(r.id) \o HashString(r.regex) \o <<r.group>>
    \o HashStrings(r.keywords) \o HashStrings(r.tags) \o Bit(r.skip)
    \o <<Len(r.needs)>> \o FlattenSeq([i \in DOMAIN r.needs |-> HashNeed(r.needs[i])])
    \o HashString(r.validate)

RuleHash(rules, id) ==
  LET rule == RuleOf(rules, id) IN
  HashRule(rule)
    \o FlattenSeq([i \in DOMAIN rule.needs |-> HashRule(RuleOf(rules, rule.needs[i].id))])
ConfigHash(cfg) ==
  HashString(cfg.prefilter) \o HashString(cfg.filter) \o <<Len(cfg.rules)>>
    \o FlattenSeq([i \in DOMAIN cfg.rules |-> HashRule(cfg.rules[i])])

(* A configuration, and a rule with its components, keeps its hash as long *)
(* as it stays what it is, and no longer.                                  *)
HashRight(c, d) ==
  LET Defined(cfg, id) ==
        <<RuleOf(cfg.rules, id)>> \o [i \in DOMAIN RuleOf(cfg.rules, id).needs |->
                                      RuleOf(cfg.rules, RuleOf(cfg.rules, id).needs[i].id)]
  IN  /\ ConfigHash(c) = ConfigHash(d) <=> c = d
      /\ \A id \in Ids(c.rules), other \in Ids(d.rules) :
           RuleHash(c.rules, id) = RuleHash(d.rules, other) <=> Defined(c, id) = Defined(d, other)
=============================================================================
