-------------------------- MODULE CredentialResults --------------------------
(***************************************************************************)
(* What a credential's programs are given, what their results mean, and    *)
(* what of a credential a report shows: the inputs of validate, analyze    *)
(* and revoke (cmd/credential.go), the captures that a program needs       *)
(* (internal/provider), the results of programs (internal/provider,        *)
(* internal/analyze, internal/revoke) and redaction (report).              *)
(*                                                                         *)
(* A text is a sequence of characters; Redacted and Dots are made of       *)
(* characters that are in no secret.                                       *)
(***************************************************************************)
EXTENDS Integers, Sequences, FiniteSets, SequencesExt, FiniteSetsExt

Redacted == <<"R">>
Dots     == <<".">>

-----------------------------------------------------------------------------
(* Redaction                                                               *)
At(text, i, part) == i + Len(part) - 1 <= Len(text) /\ SubSeq(text, i, i + Len(part) - 1) = part
Places(text, part) == {i \in DOMAIN text : At(text, i, part)}

(* strings.Replacer: at each place the first of the pairs that fits.       *)
Replace(text, pairs) ==
  LET from[i \in 1 .. Len(text) + 1] ==
        IF i > Len(text) THEN <<>>
        ELSE LET fits == {j \in DOMAIN pairs : At(text, i, pairs[j][1])}
             IN  IF fits = {} THEN <<text[i]>> \o from[i + 1]
                 ELSE pairs[Min(fits)][2] \o from[i + Len(pairs[Min(fits)][1])]
  IN  from[1]

(* credentialSecretsForRedaction: each once, and the longest first.        *)
Distinct(values) == {values[i] : i \in DOMAIN values} \ {<<>>}

Unordered(values) == SetToSeq(Distinct(values))       \* mutant
Secrets(values) == SetToSortSeq(Distinct(values), LAMBDA v, w : Len(v) > Len(w))

(* MaskSecret: what is kept of a secret, rounded to even.                  *)
Kept(secret, percent) ==
  LET share == Len(secret) * (100 - percent)
      half  == 2 * (share % 100)
  IN  (share \div 100) + IF half > 100 \/ (half = 100 /\ (share \div 100) % 2 = 1) THEN 1 ELSE 0

(* What is shown of a secret must not show a shorter one that is in it.    *)
Shown(secret, secrets, percent) ==
  FoldLeft(LAMBDA visible, other :
             IF Len(other) < Len(secret) /\ Places(visible, other) # {}
             THEN SubSeq(visible, 1, Min(Places(visible, other)) - 1 + Kept(other, percent))
             ELSE visible,
           SubSeq(secret, 1, Kept(secret, percent)), secrets)

Mask(secret, secrets, percent) ==
  IF percent = 100 THEN Redacted ELSE Shown(secret, secrets, percent) \o Dots

(* Finding.Redact on each of a finding's texts, and SanitizeAnalysis on    *)
(* those that a provider wrote.                                            *)
Redact(text, secrets, percent) ==
  Replace(text, [i \in DOMAIN secrets |-> <<secrets[i], Mask(secrets[i], secrets, percent)>>])
Sanitize(text, secrets) ==
  FoldLeft(LAMBDA t, secret : Replace(t, << <<secret, Redacted>> >>), text, secrets)

(* The reference of redaction, told by the places where secrets stand and  *)
(* not by a walk through the text. Of secrets that overlap, the one that   *)
(* starts first wins, and of those that start together the longest. To     *)
(* cross is to overlap without one being a part of the other.              *)
Standing(text, values) ==
  {o \in [from : DOMAIN text, to : DOMAIN text] : SubSeq(text, o.from, o.to) \in Distinct(values)}

Overlapping(o, p) == o.from <= p.to /\ p.from <= o.to
Beats(o, p) == Overlapping(o, p) /\ (o.from < p.from \/ (o.from = p.from /\ o.to > p.to))
Crossing(standing) ==
  \E o, p \in standing : o.from < p.from /\ p.from <= o.to /\ o.to < p.to

(* Won: who is beaten by none of the winners has won.                      *)
Winners(won, standing) ==
  won = {o \in standing : \A p \in won : ~Beats(p, o)}

Covered(occurrences) == UNION {o.from .. o.to : o \in occurrences}

Blanked(text, won) ==
  FlattenSeq([i \in DOMAIN text |->
    IF \E o \in won : o.from = i THEN Redacted ELSE IF i \in Covered(won) THEN <<>> ELSE <<text[i]>>])

(* At 100 %, every secret that wins is gone and the rest of the text is as *)
(* it was. Where no two cross, nothing is left of any, in a finding's text *)
(* and in a provider's alike. Where two cross, the end of the one that     *)
(* starts later stays, even if it is the longer: finding.go:157 says that  *)
(* the longest wins, which the code does only for those that start         *)
(* together. At any percentage no secret can be read whole, unless so      *)
(* little is to be masked of one that nothing is.                          *)
RedactionRight(text, values, percent) ==
  LET secrets  == Secrets(values)
      safe     == {s \in Distinct(values) : \A t \in Distinct(values) : Kept(t, percent) < Len(t)}
      standing == Standing(text, values)
  IN  /\ \E won \in SUBSET standing :
           /\ Winners(won, standing)
           /\ Redact(text, secrets, 100) = Blanked(text, won)
           /\ ~Crossing(standing) => /\ Covered(won) = Covered(standing)
                                    /\ Sanitize(text, secrets) = Blanked(text, won)
      /\ \A s \in safe : Places(Redact(text, secrets, percent), s) = {}
      /\ \A s \in Distinct(values) : Places(Sanitize(text, secrets), s) = {}
      /\ (\A s \in Distinct(values) : Places(text, s) = {}) =>
           Redact(text, secrets, percent) = text /\ Sanitize(text, secrets) = text
      /\ \A s \in Distinct(values) :
           LET alone == <<" ">> \o s \o <<" ">>
           IN  /\ Sanitize(alone, secrets) = <<" ">> \o Redacted \o <<" ">>
               /\ Redact(alone, secrets, 100) = <<" ">> \o Redacted \o <<" ">>

-----------------------------------------------------------------------------
(* Results of programs. A field is absent, or it is of its type, or of     *)
(* another; "any map" is an object whose keys need not be strings.         *)
Statuses == {"valid", "needs_validation", "invalid", "revoked", "unknown", "error"}

Failed == [status |-> "error", facts |-> FALSE, metadata |-> FALSE]

(* parseResultMap: the facts for the analysis are not in the report.       *)
ValidationResult(v) ==
  IF \/ v.shape \notin {"map", "any map"} \/ v.result \notin Statuses \/ v.reason \in {"nil", "other"}
     \/ v.extra \/ v.analysis = "bad keys" \/ v.metadata \in {"bad keys", "other"}
  THEN Failed
  ELSE [status   |-> IF v.analysis = "other" THEN "error" ELSE v.result,
        facts    |-> v.analysis \in {"map", "any map"},
        metadata |-> v.metadata \in {"map", "any map"}]

(* parseResult: only who is certain that it is revoked says so.            *)
RevocationResult(v) ==
  IF \/ v.shape # "map" \/ v.extra \/ v.analysis # "absent"
     \/ v.result \notin {"revoked", "unknown", "error"} \/ v.reason \in {"nil", "other"}
     \/ v.metadata \in {"any map", "bad keys", "other"}
  THEN "error" ELSE v.result

(* revoke.Run: what is not known to be revoked is not said to be.          *)
RevocationOutcome(limited, failure, v) ==
  CASE limited \/ failure = "transport" -> "unknown"
    [] ~limited /\ failure = "other"    -> "error"
    [] OTHER                            -> RevocationResult(v)

(* A status is one that the program gave, with all it gave in order; what  *)
(* failed has no facts to analyze, and a body that a provider sent is not  *)
(* published for being among the fields.                                   *)
WellFormed(v) ==
  /\ v.shape \in {"map", "any map"} /\ ~v.extra /\ v.result \in Statuses
  /\ v.reason \in {"absent", "text"}
  /\ {v.analysis, v.metadata} \subseteq {"absent", "nil", "map", "any map"}

StatusesRight(v) ==
  LET r == ValidationResult(v) IN
  /\ r.status = IF WellFormed(v) THEN v.result ELSE "error"
  /\ r.facts \/ r.metadata => ~v.extra /\ v.result \in Statuses
  /\ r.facts => WellFormed(v)
  /\ RevocationResult(v) # "error" =>
       WellFormed(v) /\ RevocationResult(v) = r.status /\ r.status \in {"revoked", "unknown"}
  /\ \A limited \in BOOLEAN, failure \in {"none", "transport", "other"} :
       RevocationOutcome(limited, failure, v) = "revoked" =>
         ~limited /\ failure = "none" /\ r.status = "revoked"

-----------------------------------------------------------------------------
(* Results of analyses: objects within objects, an absent one the empty    *)
(* sequence. An object's texts are its fields that are not blank; "ill"    *)
(* says that a field is not of its type, "extra" that it is none of the    *)
(* known.                                                                  *)
KnownCapabilities == <<"read", "write", "read_secrets", "create_credentials", "manage_users", "admin">>

(* parseAccount, parseIdentity: an object without a text is none.          *)
Account(given) == SelectSeq(given, LAMBDA a : a.texts # {} \/ a.domains # {})
Identity(given) ==
  SelectSeq([i \in DOMAIN given |->
               [texts |-> given[i].texts, account |-> Account(given[i].account)]],
            LAMBDA d : d.texts # {} \/ d.account # <<>>)

(* stringMap, rejectUnknownFields                                          *)
Faulty(given) == \E i \in DOMAIN given : given[i].ill \/ given[i].extra
FaultyIdentity(given) == Faulty(given) \/ \E i \in DOMAIN given : Faulty(given[i].account)

(* parseCapabilities: each once, in the order of reports.                  *)
FaultyNames(names) == ~(Range(names) \subseteq Range(KnownCapabilities) \cup {""})
Capabilities(names) == SelectSeq(KnownCapabilities, LAMBDA c : c \in Range(names))

AnalysisResult(v) ==
  IF Faulty(<<v.object>>) \/ FaultyIdentity(v.identity) \/ FaultyNames(v.names)
  THEN [ok |-> FALSE, identity |-> <<>>, capabilities |-> <<>>]
  ELSE [ok |-> TRUE, identity |-> Identity(v.identity), capabilities |-> Capabilities(v.names)]

(* An identity says who it is, and one that says so is not lost; and what  *)
(* a program says of capabilities is said once and in one order.           *)
AnalysisRight(v, others) ==
  LET r == AnalysisResult(v)
      Named(names) == Range(names) \ {""}
      Says(object) == object.texts # {} \/ object.domains # {}
      said == \E i \in DOMAIN v.identity :
                \/ v.identity[i].texts # {}
                \/ \E j \in DOMAIN v.identity[i].account : Says(v.identity[i].account[j])
  IN  r.ok =>
        /\ (r.identity # <<>>) <=> said
        /\ Range(r.capabilities) = Named(v.names) /\ Len(r.capabilities) = Cardinality(Named(v.names))
        /\ Named(v.names) = Named(others) => r = AnalysisResult([v EXCEPT !.names = others])

-----------------------------------------------------------------------------
(* Inputs. The components and captures are given as words: a component's   *)
(* rule and secret; a capture's rule, "" for the primary one, with its     *)
(* name and value. A value of "" is an empty one.                          *)
Repeats(words, key(_)) == \E i, j \in DOMAIN words : i # j /\ key(words[i]) = key(words[j])

(* readCredentialInput, validateComponentCaptures                          *)
BadInput(input) ==
  \/ input.secret = ""
  \/ Repeats(input.captures, LAMBDA c : <<c.of, c.name>>) \/ Repeats(input.components, LAMBDA c : c.rule)
  \/ \E i \in DOMAIN input.captures : input.captures[i].name = ""
  \/ \E i \in DOMAIN input.components : input.components[i].rule = "" \/ input.components[i].secret = ""
  \/ \E i \in DOMAIN input.captures :
       input.captures[i].of \notin {""} \cup {c.rule : c \in Range(input.components)}

(* credential, FindingFromCredential: each value goes where it belongs.    *)
Captured(input, of) ==
  LET its == {c \in Range(input.captures) : c.of = of}
  IN  [name \in {c.name : c \in its} |-> (CHOOSE c \in its : c.name = name).value]

(* captureReferences, requiredNames: what the program reads without a      *)
(* default, but for the capture that is the secret itself.                 *)
Required(rule, of) ==
  {r.name : r \in {x \in rule.reads : x.of = of /\ ~x.default}} \ {rule.primary[of]}

(* validateMatch: the capture that is the secret may be given, but not     *)
(* with another value.                                                     *)
BadMatch(rule, of, secret, captures) ==
  \/ rule.primary[of] \in DOMAIN captures /\ captures[rule.primary[of]] # secret
  \/ \E name \in Required(rule, of) : name \notin DOMAIN captures \/ captures[name] = ""

(* ValidateFinding                                                         *)
BadFinding(rule, input) ==
  LET given == {c.rule : c \in Range(input.components)} IN
  \/ BadMatch(rule, "", input.secret, Captured(input, ""))
  \/ ~(given \subseteq rule.optional \cup rule.demanded) \/ ~(rule.demanded \subseteq given)
  \/ \E c \in Range(input.components) : BadMatch(rule, c.rule, c.secret, Captured(input, c.rule))

(* runCredential, resolveCredential, revoke.Run: whatever is refused is    *)
(* refused before a request is sent.                                       *)
Asked(rule, input) == ~BadInput(input) /\ rule.supported /\ ~BadFinding(rule, input)

(* What a program reads of a credential, and what it finds there.          *)
Value(rule, input, of, name) ==
  LET secret == IF of = "" THEN input.secret
                ELSE (CHOOSE c \in Range(input.components) : c.rule = of).secret
      captures == Captured(input, of)
  IN  IF name = rule.primary[of] THEN secret
      ELSE IF name \in DOMAIN captures THEN captures[name] ELSE ""

(* A program that is run finds what it reads, except in a component that   *)
(* may be left out and is; every value that was given is the one that is   *)
(* found by its name; and an input that has all of it is not refused.      *)
InputsRight(rule, input) ==
  LET given == {c.rule : c \in Range(input.components)}
      reads == {r \in rule.reads : ~r.default /\ r.of \in {""} \cup given}
      known == \A c \in Range(input.captures) : c.of \in {""} \cup given
      once  == /\ \A i, j \in DOMAIN input.captures :
                    i # j => input.captures[i].of # input.captures[j].of
                               \/ input.captures[i].name # input.captures[j].name
               /\ Len(input.components) = Cardinality(given)
      found == /\ \A r \in reads : Value(rule, input, r.of, r.name) # ""
               /\ \A c \in Range(input.captures) : Value(rule, input, c.of, c.name) = c.value
      named == /\ "" \notin {c.name : c \in Range(input.captures)} \cup given
               /\ "" \notin {c.secret : c \in Range(input.components)} \cup {input.secret}
  IN  Asked(rule, input) <=>
        /\ rule.supported /\ named /\ known /\ once
        /\ rule.demanded \subseteq given /\ given \subseteq rule.demanded \cup rule.optional
        /\ found
=============================================================================
