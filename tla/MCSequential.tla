---------------------------- MODULE MCSequential ----------------------------
(* The parts of the program that work alone. Each initial state chooses    *)
(* one: the command and its collector, the reader of a stream, or one of   *)
(* the algorithms, whose input is completed by the only step there is.     *)
EXTENDS Integers, ScanCommand, ChunkReader, TLC

CONSTANTS f1, f2, f3, Parts

VARIABLES part, input

(* Two targets with three findings, of which one or all may be hidden, and *)
(* every combination of destinations.                                      *)
TwoTargets == << {f1, f2}, {f3} >>
AllSetups ==
  {s \in [terminal : {"none", "pretty", "jsonl"}, report : {"none", "file"},
          validating : BOOLEAN, hidden : {{}, {f1}, {f1, f2, f3}}, exitCode : {0, 7}] :
     s.validating \/ s.hidden # {f1}}

Words(symbols, n) == UNION {[1 .. k -> symbols] : k \in 0 .. n}

(* Streams of up to five bytes: x, a space and a newline.                  *)
AllStreams == [bytes : Words({"x", "s", "n"}, 5), end : {"EOF", "failure"}]

Detection == INSTANCE FragmentDetection
Sets == INSTANCE ComponentSets
Texts == INSTANCE TextPositions
Contexts == INSTANCE ContextWindow
Overlay == INSTANCE LayerOverlay
Patches == INSTANCE PatchReader
Git == INSTANCE GitHeaders
Configs == INSTANCE ConfigResolution
Keywords == INSTANCE KeywordMatcher
Windows == INSTANCE SearchWindows
Answers == INSTANCE ProviderPrograms
Credentials == INSTANCE CredentialResults
Command == INSTANCE CommandInputs

-----------------------------------------------------------------------------
Ranges(n) == {r \in (0 .. n) \X (0 .. n) : r[1] < r[2]}

(* decoding: up to two encoded values of a text of six bytes, decoded into *)
(* one or two bytes each, and up to two of what that gives.                *)
Encoded(n) == {e \in [range : Ranges(n), length : 1 .. 2] : e.length <= e.range[2] - e.range[1]}
Found2(n) == {<<>>} \cup {<<e>> : e \in Encoded(n)}
               \cup {p \in Encoded(n) \X Encoded(n) : p[1].range[2] <= p[2].range[1]}
FoundInSix == Found2(6)
FoundIn == [n \in 0 .. 6 |-> Found2(n)]
Removed(e) == e.range[2] - e.range[1] - e.length
DecodedLength(found) ==
  6 - CASE found = <<>> -> 0
        [] Len(found) = 1 -> Removed(found[1])
        [] OTHER -> Removed(found[1]) + Removed(found[2])

(* encodings: up to four pieces of text, plain or encoded.                 *)
Pieces == {".", " ", "nl", "escape", "double", "point", "percent", "hex", "base64"}

(* contexts: one to three lines of seven bytes, and a window of lines,     *)
(* columns or both.                                                        *)
Token(side, amount, unit) == [side |-> side, amount |-> amount, unit |-> unit]
Tokens ==
  { <<Token("", 1, "L")>>, <<Token("", 2, "L")>>, <<Token("", 2, "C")>>,
    <<Token("-", 1, "C"), Token("+", 2, "C")>>, <<Token("-", 2, "L"), Token("+", 1, "C")>>,
    <<Token("", 2, "L"), Token("", 1, "C")>>, <<Token("+", 3, "L"), Token("-", 1, "C")>>,
    <<Token("-", 3, "L"), Token("", 2, "L"), Token("-", 2, "C")>> }
FewNewlines == {s \in SUBSET (0 .. 6) : Cardinality(s) <= 3}

(* overlay: two layers of up to two entries and one of up to one entry, a  *)
(* and a file or directory b in it, or one that fails; no two entries of a *)
(* layer are in conflict.                                                  *)
Entries == [kind : {"dir", "file", "whiteout", "opaque"}, path : {<<"a">>, <<"a", "b">>}]
             \cup {[kind |-> "opaque", path |-> <<>>]}
Contradict(e, f) == e = f \/ (e.path = f.path /\ {e.kind, f.kind} = {"dir", "file"})
Layers == {[broken |-> FALSE, entries |-> es] :
             es \in {s \in Words(Entries, 2) : Len(s) < 2 \/ ~Contradict(s[1], s[2])}}
          \cup {[broken |-> TRUE, entries |-> << [kind |-> "whiteout", path |-> <<"a">>] >>]}

(* detection: four rules of which two may be composite, and up to two      *)
(* findings of each rule over two passes of decoding.                      *)
Rule(n, skip, parts) == [specificity |-> n, skip |-> skip, components |-> parts]
Part(r, optional) == [rule |-> r, optional |-> optional]
RuleSets ==
  { <<Rule(3, k, <<>>), Rule(2, FALSE, <<Part(4, o)>>), Rule(n, FALSE, c), Rule(1, FALSE, <<>>)>> :
      k \in BOOLEAN, o \in BOOLEAN, n \in {1, 2}, c \in {<<>>, <<Part(1, FALSE)>>} }
Match(r, v) == [rule |-> r, value |-> v, line |-> 1, new |-> TRUE, dropped |-> FALSE,
                weak |-> FALSE, sets |-> <<>>]
Maybe(r) == {<<>>} \cup {<<Match(r, v)>> : v \in {<<0, 2>>, <<0, 1>>}}
FirstPasses == {a \o b \o c \o d : a \in Maybe(1), b \in Maybe(2), c \in Maybe(3), d \in Maybe(4)}
LaterPasses == {a \o b : a \in Maybe(1), b \in Maybe(3)}

(* sets: up to four components of three rules.                             *)
Components == [rule : 1 .. 3, id : 1 .. 2]
Different(found) == \A i, j \in DOMAIN found : i # j => found[i] # found[j]

(* patches: the lines of hunks, with and without an end of line at the end *)
(* of the file.                                                            *)
Text(class, n) == [class |-> class, text |-> n]
NoEOL == [class |-> "marker"]
HunkLines ==
  { <<Text("add", 1)>>, <<Text("add", 1), Text("add", 2)>>, <<Text("del", 1)>>,
    <<Text("del", 1), NoEOL, Text("add", 1), NoEOL>>, <<Text("old", 1), Text("new", 1)>>,
    <<Text("ctx", 1), Text("add", 2), NoEOL>>, <<Text("del", 1), Text("add", 2), NoEOL>>,
    <<Text("add", 1), Text("empty", 0), NoEOL>>,
    <<Text("del", 1), Text("del", 2), NoEOL, Text("add", 1)>> }
HunksAt(n) == [start : {n}, lines : HunkLines]
File(name, keep, binary, hunks) == [file |-> name, keep |-> keep, binary |-> binary, hunks |-> hunks]
PatchedFiles ==
  {File("f", k, FALSE, h) : k \in BOOLEAN,
       h \in {<<>>} \cup {<<a>> : a \in HunksAt(5)} \cup {<<a, b>> : a \in HunksAt(5), b \in HunksAt(9)}}
    \cup {File("f", k, TRUE, <<>>) : k \in BOOLEAN}
Commit(name, files) == [commit |-> name, files |-> files]
Histories(f) ==
  UNION {{ <<Commit("c", <<f, g>>)>>, <<Commit("c", <<f>>), Commit("d", <<g>>)>>,
           <<Commit("c", <<>>), Commit("d", <<g, f>>)>> } :
         g \in {File("g", TRUE, FALSE, <<h>>) : h \in HunksAt(5)}}

(* pushes: four commits in three shapes, a tag and a tree.                 *)
Objects == {"a", "b", "c", "d", "tag", "tree"}
Resolved == [o \in Objects |-> CASE o = "tag" -> "c" [] o = "tree" -> "none" [] OTHER -> o]
CommitGraphs ==
  { "a" :> {} @@ "b" :> {"a"} @@ "c" :> {"b"} @@ "d" :> {"c"},
    "a" :> {} @@ "b" :> {"a"} @@ "c" :> {"a"} @@ "d" :> {"b", "c"},
    "a" :> {} @@ "b" :> {"a"} @@ "c" :> {"a"} @@ "d" :> {"c"} }
Ids == Objects \cup {"zero", "invalid"}
Updates == [old : Ids, new : Ids]

(* names: of up to five characters, and of all that git may quote.         *)
Proper(name) ==
  /\ name # <<>> /\ name[1] # "/" /\ name[Len(name)] # "/"
  /\ \A i \in 1 .. Len(name) - 1 : name[i] # "/" \/ name[i + 1] # "/"
Special == {"x", " ", "/", "q", "\\", "tab"}
LongNames == {n \in Words({"x", " ", "/"}, 5) \cup Words(Special, 3) : Proper(n)}
ShortNames == {n \in Words(Special, 2) : Proper(n)}
Change(k, old, new, hunks) == [kind |-> k, old |-> old, new |-> new, hunks |-> hunks]
ChangesTo(name) ==
  {Change(k, name, name, h) : k \in {"create", "delete", "mode", "modify"}, h \in BOOLEAN}
    \cup {Change(k, o, name, h) : k \in {"rename", "copy"}, h \in BOOLEAN, o \in ShortNames \ {name}}

(* commits: messages of up to five lines; options: two words.              *)
MessageLines == {<<>>, <<" ">>, <<"x">>, <<" ", "y">>, <<"x", " ", "z">>, <<"y", "tab">>}
Messages == {<<>>} \cup {<<first>> \o more : first \in {<<"x">>, <<"x", " ", "z">>},
                                        more \in Words(MessageLines, 4)}
OptionWords(n) == Words({"x", " ", "'", "q", "\\"}, n) \ {<<>>}

(* configs: three files of up to two rules, each of which may extend any.  *)
ConfigRule(id, parts) == [id |-> id, components |-> parts]
RuleLists == { <<>>, <<ConfigRule(1, {})>>, <<ConfigRule(2, {}), ConfigRule(1, {})>>,
               <<ConfigRule(2, {1})>>, <<ConfigRule(1, {}), ConfigRule(1, {2})>> }
ConfigsOf(n) ==
  {[rules |-> [i \in DOMAIN rs |-> rs[i] @@ [body |-> n]], extends |-> e, disabled |-> d,
    prefilter |-> {n}, filter |-> {n}] :
     rs \in RuleLists, e \in {"none", "c1", "c2", "c3"}, d \in {{}, {1}, {2}}}

(* keywords: texts of up to five runes; s and k have wide forms.           *)
Rune(letter, width) == [letter |-> letter, width |-> width]
Runes == {Rune("s", 1), Rune("k", 1), Rune("s", 2), Rune("k", 3), Rune("", 2), Rune("-", 1)}
PatternLists ==
  { << <<"s">>, <<"k", "s">>, <<"s", "k", "s">> >>, << <<"s", "s">>, <<"s", "s", "s">> >>,
    << <<"k", "k", "s">>, <<"k", "s">>, <<"s", "k">> >>,
    << <<"k", "s", "k", "s">>, <<"s", "k", "k">>, <<"k", "s">> >> }
-----------------------------------------------------------------------------
(* searches: expressions with their keywords, and texts of up to five      *)
(* characters.                                                             *)
Lit(word) == [op |-> "lit", word |-> word]
Class(set) == [op |-> "class", set |-> set, wide |-> FALSE]
FoldClass(set) == [op |-> "class", set |-> set, wide |-> TRUE]
AnyChar == [op |-> "any"]
TextBegin == [op |-> "begin"]
TextEnd == [op |-> "end"]
One(op, re) == [op |-> op, sub |-> <<re>>]
Rep(min, max, re) == [op |-> "repeat", min |-> min, max |-> max, sub |-> <<re>>]
Cat(sub) == [op |-> "concat", sub |-> sub]
Alt(sub) == [op |-> "alt", sub |-> sub]
SearchRule(keywords, re) == [keywords |-> keywords, re |-> re]
SearchRules == {
  (* an assignment, guarded; k=, kx=, kn=                                  *)
  SearchRule(<< <<"k">> >>,
    Cat(<<Lit(<<"k">>), Rep(0, 1, Class({"x"})), Rep(0, 1, Lit(<<"n">>)), Lit(<<"=">>),
          Rep(1, 2, Class({"k", "x"}))>>)),
  SearchRule(<< <<"k">>, <<"k", "x">> >>,
    Cat(<<Alt(<<Lit(<<"k", "x">>), Lit(<<"k">>)>>), Rep(0, 2, Class({"x"})),
          Rep(0, 1, Class({"x", "n"})), Class({"=", "k"})>>)),
  (* the classes of the keyword fold from outside ASCII                    *)
  SearchRule(<< <<"k">>, <<"x">> >>,
    Cat(<<FoldClass({"k", "x"}), Rep(0, 2, Class({"n"})), Rep(0, 1, Class({"n"})), Lit(<<"=">>),
          Class({"k"})>>)),
  (* the ends of the text, within bounded windows and unbounded ones       *)
  SearchRule(<< <<"k">> >>, Cat(<<TextBegin, Rep(0, 1, AnyChar), Lit(<<"k">>)>>)),
  SearchRule(<< <<"k">> >>, Cat(<<Lit(<<"k">>), Rep(0, 2, Class({"x"})), TextEnd>>)),
  SearchRule(<< <<"k">> >>, Cat(<<Lit(<<"k">>), TextEnd>>)),
  SearchRule(<< <<"k">> >>,
    Cat(<<Lit(<<"k">>), One("plus", AnyChar), Lit(<<"n">>), One("star", Class({"x"})), TextEnd>>)),
  SearchRule(<< <<"k">> >>, Cat(<<Rep(0, 1, AnyChar), Lit(<<"k">>), One("star", AnyChar)>>)),
  (* a keyword split by a capture; keywords found by their prefixes        *)
  SearchRule(<< <<"x", "=">>, <<"k", "=">> >>,
    Cat(<<One("capture", Cat(<<Lit(<<"k">>), One("quest", Lit(<<"x">>))>>)), Lit(<<"=">>),
          Rep(2, 3, Class({"k", "x"}))>>)),
  SearchRule(<< <<"k", "=">> >>,
    Cat(<<Lit(<<"k">>), Rep(0, 1, Class({"n"})), Lit(<<"=">>), Rep(1, 3, Class({"x"}))>>)),
  (* no plan: what precedes the keyword, or what follows it, is unbounded  *)
  SearchRule(<< <<"k">> >>, Cat(<<One("plus", Class({"x"})), Lit(<<"k">>)>>)),
  SearchRule(<< <<"k">> >>, Cat(<<Lit(<<"k">>), One("star", Class({"x", "n"})), Lit(<<"=">>)>>)),
  (* alternatives; two keywords in one match                               *)
  SearchRule(<< <<"k">>, <<"x", "x">> >>,
    Alt(<<Cat(<<Lit(<<"k">>), One("star", Class({"x"})), Lit(<<"n">>)>>),
          Cat(<<Lit(<<"x", "x">>), Class({"="})>>)>>)),
  SearchRule(<< <<"k">> >>,
    Cat(<<Rep(0, 1, Lit(<<"k">>)), Lit(<<"x", "k">>), Rep(0, 2, Class({"k", "n"}))>>)) }
Symbols == {"k", "x", "n", "="}

(* Answers of providers, what became of requests, and what grants allow.   *)
AnswerStatuses == {200, 201, 202, 204, 302, 400, 401, 402, 403, 404, 408, 422, 429, 500, 503}
AnswersOf(sayings) == [status : AnswerStatuses, says : sayings]
Exchanges ==
  [says : {s \in SUBSET {"live", "refused", "bound", "ended", "limited", "tokenless"} :
             Cardinality(s) <= 2},
   input : {"good", "incomplete", "bad key", "unreadable", "elsewhere"},
   outcome : {"answered", "cut", "lost", "no host"}]
Grants == {{}, {"read"}, {"read", "write"}, {"write", "manage_users"}, {"create_credentials"},
           {"graphql"}, {"read", "write", "admin"}}

(* Secrets and texts; results of programs; inputs of credentials.          *)
SecretLists == {s \in Words(Words({"a", "b"}, 3), 2) : Len(s) = 2 => Len(s[1]) <= Len(s[2])}
Fields == {"absent", "nil", "map", "any map", "bad keys", "other"}
GivenObjects(more) == {<<>>} \cup {<<o @@ [texts |-> t, ill |-> i, extra |-> e]>> :
                                t \in SUBSET {"id"}, i, e \in BOOLEAN, o \in more}
Accounts == GivenObjects([domains : SUBSET {"d"}])
GivenNames == Words({"read", "write", "", "fly"}, 2)
Reads == {[of |-> o, name |-> n, default |-> FALSE] : o \in {"", "p"}, n \in {"n", "m"}}
         \cup {[of |-> o, name |-> "m", default |-> TRUE] : o \in {"", "p"}}
CredentialRules ==
  {[supported |-> TRUE, demanded |-> ids[1], optional |-> ids[2], reads |-> reads,
    primary |-> "" :> names[1] @@ "p" :> names[2] @@ "q" :> "-"] :
     ids \in {<<{}, {}>>, <<{"p"}, {}>>, <<{}, {"p"}>>},
     reads \in {r \in SUBSET Reads : Cardinality(r) <= 2},
     names \in {<<"-", "-">>, <<"n", "n">>}}
GivenCaptures == {[of |-> o, name |-> n, value |-> v] : o \in {"", "p"}, n \in {"n", "m"}, v \in {"s", ""}}
                 \cup {[of |-> "p", name |-> "", value |-> "s"]}
GivenComponents == {[rule |-> r, secret |-> v] : r \in {"p", "q"}, v \in {"s", ""}}
CredentialInputs ==
  {[secret |-> "s", captures |-> c, components |-> k] :
     c \in {w \in Words(GivenCaptures, 2) : Len(w) = 2 => w[1].of # w[2].of \/ w[1].name = w[2].name},
     k \in {w \in Words(GivenComponents, 2) : Len(w) = 2 => w[1] = [rule |-> "p", secret |-> "s"]}}
  \cup {[secret |-> "", captures |-> <<>>, components |-> <<>>]}

(* A line: a flag or none, and up to four tokens more. Rules of which two  *)
(* may need two others. Targets, and a server that is asked for them.      *)
LeadingTokens == {<<>>, <<"-c", "x">>, <<"--no-color">>, <<"-dr", "x">>, <<"--rule", "config">>}
Tokens4 == {"-c", "-dr=x", "--rule", "-u", "--", "x", "filesystem", "fs", "config", "hash", "show", "ids"}
Needing(id, needs, skip) == [id |-> id, needs |-> needs, skip |-> skip]
NeedingRules ==
  {<<Needing(2, {}, a), Needing(1, n, FALSE), Needing(4, m, b), Needing(3, {}, FALSE)>> :
     n, m \in SUBSET {2, 3}, a, b \in BOOLEAN}
FewOf(S) == {s \in SUBSET S : Cardinality(s) <= 2}
TomlTexts == Words({"x", Command!Quote, "dq", "\\", "nl", "tab", "c"}, 4)
               \cup Words({"x", Command!Quote, "nl"}, 6)
Hosts == {"github.com", "gist.github.com", "gitlab.com", "huggingface.co", "buckets", "other"} \cup Command!S3Hosts
Target(scheme, host, capitals, path) ==
  [scheme |-> scheme, host |-> host, capitals |-> capitals, path |-> path]
Paths ==
  LET start == Words({"o", "x.git", "buckets", "datasets"}, 2)
      rest  == {<<>>, <<"r">>, <<"r", "x.git">>, <<"issues", "1">>, <<"releases", "tag", "t">>, <<"releases", "tag">>,
                <<"-", "issues", "1">>, <<"-", "issues">>, <<"-", "other", "1">>, <<"-", "jobs", "1", "-", "x">>}
      last  == {<<>>, <<"">>}
  IN  {a \o b \o c : a \in start, b \in rest, c \in last}
Packets == {"service", "flush", "version 1", "version 2", "ls-refs", "ref", "bad"}
Replies == {[status |-> s, media |-> m, packets |-> <<>>] : s \in {404, 500, 200}, m \in {FALSE}}
             \cup {[status |-> 200, media |-> TRUE, packets |-> p] : p \in Words(Packets, 4)}
ServerURLs == [scheme : {"", "http", "https"}, host : {"a", "b"}, colons : {FALSE}, port : {0, 80, 443, 8080}]
                \cup [scheme : {"https"}, host : {"::1"}, colons : {TRUE}, port : {0, 443, 80}]
AskedFor == {Target("https", h, FALSE, <<>>) : h \in {"other", "gitlab.com"}}
NotFound == [status |-> 404, media |-> FALSE, packets |-> <<>>]
FewReplies == {r \in Replies : r.status # 404 /\ r.packets \in {<<>>, <<"ref">>} /\ (r.media => r.packets # <<>>)}
Responses ==
  {r \in [status : {200, 500}, size : 0 .. 4, declared : (-1) .. 5, failsAt : (-1) .. 4, cancelled : BOOLEAN] :
     /\ r.failsAt < r.size
     /\ r.declared \in {-1, r.size} \/ (r.declared > r.size /\ r.failsAt # -1)}

(* judging: a rule that is valid, the filters, and a match of the rule.    *)
RuleTexts == [named : BOOLEAN, parses : BOOLEAN, content : BOOLEAN, paths : {{}, {"p"}},
              group : (-1) .. 2, captures : 0 .. 2, confidence : {"", "low", "best"},
              id : {"r"}, needs : {<<>>, << [id |-> "r", parses |-> TRUE] >>}, programs : {{}, {"analyze"}}]
ValidRules == {r \in RuleTexts : Configs!RuleValid(r) /\ (r.content \/ r.captures = 0)}
FilterOf(sets, skipsAt, fails) == [sets |-> sets, skipsAt |-> skipsAt, fails |-> fails]
AllFilters == {Detection!NoFilter, FilterOf("", {"", "low", "high"}, FALSE), FilterOf("low", {}, FALSE),
               FilterOf("high", {"low"}, FALSE), FilterOf("high", {"", "low"}, TRUE)}
Captures(n) == {g \in Words({<<>>, <<0, 0>>, <<0, 1>>, <<1, 2>>}, 2) : Len(g) = n}

(* hashes: pairs of a configuration of one or two rules; bytes 0 and 1     *)
(* are lengths and counts as well.                                         *)
HashedRule(id, regex, list, needs) ==
  [id |-> id, regex |-> regex, group |-> 0, keywords |-> list[1], tags |-> list[2], skip |-> list = <<<<>>, <<>>>>,
   needs |-> needs, validate |-> regex]
Texts01 == {<<>>, <<0>>, <<1>>, <<1, 0>>}
Lists01 == {<<>>, << <<>> >>, << <<0>> >>, << <<1>>, <<>> >>}
Needs01 == {<<>>, << [id |-> <<1>>, within |-> <<>>, optional |-> TRUE] >>,
            << [id |-> <<1>>, within |-> <<0>>, optional |-> FALSE] >>}
HashedRules ==
  {<<HashedRule(<<0>>, <<1>>, l, n), HashedRule(<<1>>, x, <<k, <<>>>>, <<>>)>> :
     l \in Lists01 \X {<<>>, << <<>> >>}, n \in Needs01, x \in Texts01, k \in {<<>>, << <<>> >>}}
HashedConfigs == {[prefilter |-> <<>>, filter |-> <<>>, rules |-> rs] : rs \in HashedRules}
                   \cup {[prefilter |-> p, filter |-> f, rules |-> <<HashedRule(<<1>>, <<0>>, <<<<>>, <<>>>>, <<>>)>>] :
                           p, f \in Texts01}

(* lists: two lists of words that a filter asks for, one after the other;  *)
(* suffixes: expressions for paths.                                        *)
FilterWords == {<<"a">>, <<"b">>, <<"a", "b">>, <<"A">>, <<"(">>, <<"a", "nul", "b">>}
FilterLists == {Keywords!Words(l) : l \in Words(FilterWords, 2)} \cup {Keywords!Mixed, Keywords!Word(<<"a">>)}
FilterValues ==
  {Keywords!Word(w) : w \in Words({"a", "b"}, 2) \cup {<<"A">>}}
    \cup {Keywords!Words(<<v, w>>) : v, w \in {<<"b">>, <<"b", "A", "b">>}} \cup {Keywords!Mixed}
AnyCase == Class({"k", "K", "wide"})
PathExpressions == {
  Cat(<<Lit(<<"=", "x">>), TextEnd>>), Cat(<<One("star", AnyChar), Lit(<<"=">>), AnyCase, TextEnd>>),
  Cat(<<Alt(<<Lit(<<"x">>), Cat(<<Lit(<<"=">>), AnyCase>>)>>), TextEnd>>),
  Cat(<<One("capture", Alt(<<AnyCase, Lit(<<"x", "x">>)>>)), One("quest", Lit(<<"=">>)), Lit(<<"x">>), TextEnd>>),
  Cat(<<Class({"=", "x"}), Alt(<<Lit(<<"K">>), Lit(<<"x">>)>>), AnyCase, TextEnd>>),
  Cat(<<TextBegin, Lit(<<"=">>), TextEnd>>), Cat(<<Lit(<<"=">>), TextEnd, Lit(<<"x">>)>>),
  Cat(<<One("star", AnyCase), TextEnd>>), Lit(<<"x">>),
  Alt(<<Cat(<<Lit(<<"x">>), TextEnd>>), Lit(<<"k">>)>>) }
-----------------------------------------------------------------------------
First(p) ==
  CASE p = "decoding"  -> FoundInSix
    [] p = "locations" -> SUBSET (0 .. 4)
    [] p = "encodings" -> Words(Pieces, 1)
    [] p = "contexts"  -> Tokens
    [] p = "overlay"   -> Layers
    [] p = "detection" -> [rules : RuleSets, maxSets : 1 .. 2]
    [] p = "sets"      -> {s \in Words(Components, 2) : Different(s)}
    [] p = "patches"   -> PatchedFiles
    [] p = "pushes"    -> [parents : CommitGraphs, refs : SUBSET {"a", "c", "tag", "tree"}]
    [] p = "names"     -> LongNames
    [] p = "commits"   -> [sha : {<<"c">>}, merge : BOOLEAN, name : {<<>>, <<"x", " ", "y">>},
                           email : {<<>>, <<"x">>}, date : {<<"x">>}]
    [] p = "options"   -> OptionWords(3)
    [] p = "answers"   -> AnswerStatuses
    [] p = "regions"   -> AnswersOf(SUBSET {"live", "refused"})
    [] p = "grants"    -> SUBSET Grants
    [] p = "redaction" -> SecretLists
    [] p = "results"   -> [shape : {"map", "any map", "bad keys", "text"},
                           result : Credentials!Statuses \cup {"", "dead"}]
    [] p = "identities" -> [object : {[ill |-> i, extra |-> e] : i, e \in BOOLEAN},
                            identity : GivenObjects([account : Accounts])]
    [] p = "inputs"    -> CredentialRules
    [] p = "lines"     -> LeadingTokens
    [] p = "selection" -> NeedingRules
    [] p = "printed"   -> TomlTexts
    [] p = "targets"   -> {Target(s, h, FALSE, <<>>) : s \in {"https", "s3", "hf", "ftp"}, h \in Hosts}
    [] p = "downloads" -> (-1) .. 4
    [] p = "origins"   -> ServerURLs
    [] p = "configs"   -> ConfigsOf("c1")
    [] p = "keywords"  -> [patterns : PatternLists, rune : Runes]
    [] p = "judging"   -> ValidRules
    [] p = "hashes"    -> HashedConfigs
    [] p = "lists"     -> FilterLists
    [] p = "suffixes"  -> PathExpressions
    [] p = "searches"  -> [rule : SearchRules, symbol : Symbols]
    [] OTHER           -> {<<>>}

Rest(p, x) ==
  CASE p = "decoding"  -> FoundIn[DecodedLength(x)] \X Ranges(6)
    [] p = "locations" -> Ranges(5)
    [] p = "encodings" -> Words(Pieces, 3)
    [] p = "contexts"  -> [newlines : FewNewlines, match : {m \in Ranges(7) : m[2] - m[1] <= 4},
                           component : 0 .. 6]
    [] p = "overlay"   -> Layers \X {l \in Layers : Len(l.entries) <= 1}
    [] p = "detection" -> FirstPasses \X LaterPasses
    [] p = "sets"      -> {s \in Words(Components, 2) : Different(x \o s)} \X (0 .. 5)
    [] p = "patches"   -> {<<h, cut>> \in Histories(x) \X (0 .. 40) : cut <= Len(Patches!Lines(h))}
    [] p = "pushes"    -> Updates \X Updates
    [] p = "names"     -> ChangesTo(x)
    [] p = "commits"   -> Messages
    [] p = "answers"   -> Exchanges
    [] p = "regions"   -> AnswersOf(SUBSET {"live", "refused"})
    [] p = "redaction" -> Words({"a", "b"}, 4) \X {100, 50, 34}
    [] p = "results"   -> [reason : {"absent", "text", "nil", "other"}, extra : BOOLEAN,
                           analysis : Fields, metadata : Fields]
    [] p = "identities" -> {<<n, m>> \in GivenNames \X GivenNames : Git!ToSet(n) = Git!ToSet(m)}
    [] p = "inputs"    -> CredentialInputs
    [] p = "grants"    -> Grants \X AnswersOf({{}, {"live"}})
    [] p = "options"   -> {<<word, style, cut>> \in
                             (OptionWords(2) \cup {Git!Dashes}) \X {"escape", "double", "single"} \X (0 .. 3) :
                             style = "single" => "'" \notin Git!ToSet(word) \cup Git!ToSet(x)}
    [] p = "lines"     -> Words(Tokens4, IF x = <<>> THEN 4 ELSE 3)
    [] p = "selection" -> FewOf(1 .. 5) \X FewOf(1 .. 5)
    [] p = "printed"   -> {<<>>}
    [] p = "targets"   -> (Paths \X {FALSE} \X FewReplies) \cup (Paths \X {TRUE} \X {NotFound})
                             \cup (IF x \in AskedFor THEN {<<"o", "r">>} \X {FALSE} \X Replies ELSE {})
    [] p = "downloads" -> BOOLEAN \X Responses
    [] p = "origins"   -> ServerURLs \X {Command!Client(t, <<>>) : t \in {0, 5}} \X
                            {l \in Words({"none", "one", "two"}, 3) : l # <<>>}
    [] p = "configs"   -> ConfigsOf("c2") \X ConfigsOf("c3")
    [] p = "keywords"  -> Words(Runes, 4)
    [] p = "judging"   -> (AllFilters \X AllFilters) \X {"", "p", "q"} \X
                             [allowed : BOOLEAN, groups : Captures(x.captures)] \X {"", "medium"}
    [] p = "hashes"    -> HashedConfigs
    [] p = "lists"     -> FilterLists \X FilterValues
    [] p = "suffixes"  -> Words(Symbols \cup {"K", "wide"}, 4)
    [] p = "searches"  -> Words(Symbols, 4)

Algorithms == Parts \ {"command", "chunks"}

MCInit ==
  /\ part \in Parts
  /\ Init /\ (part = "command" \/ setup = CHOOSE s \in Setups : TRUE)
  /\ ReaderInit /\ (part = "chunks" \/ stream = CHOOSE s \in AllStreams : s.bytes = <<>>)
  /\ \E x \in First(part) : input = <<x>>

Pick ==
  /\ part \in Algorithms /\ Len(input) = 1
  /\ \E y \in Rest(part, input[1]) : input' = Append(input, y)
  /\ UNCHANGED <<part, vars, readerVars>>

Checked == part \in Algorithms /\ Len(input) = 2 /\ UNCHANGED <<part, input, vars, readerVars>>

MCNext ==
  \/ part = "command" /\ Next /\ UNCHANGED <<part, input, readerVars>>
  \/ part = "chunks" /\ ReaderNext /\ UNCHANGED <<part, input, vars>>
  \/ Pick
  \/ Checked

MCSpec == MCInit /\ [][MCNext]_<<part, input, vars, readerVars>>

Given(p) == part = p /\ Len(input) = 2

(* Found, detected and reported: nothing that is complete and not the part *)
(* of something better is lost, and the combinations of its parts are      *)
(* counted out in order.                                                   *)
DetectionCase == [rules |-> input[1].rules, passes |-> input[2], within |-> 0,
                  maxSets |-> input[1].maxSets]
DetectionRight ==
  /\ Given("detection") => Detection!ReportRight(DetectionCase)
  /\ Given("sets") => Sets!SetsRight(input[1] \o input[2][1], input[2][2])
  /\ Given("judging") =>
       Detection!JudgedRight([filter |-> input[2][1][2]] @@ input[1], input[2][1][1], input[2][2],
                             input[2][3], input[2][4])

(* "Skip findings already surfaced as the same rule's component of a       *)
(* composite finding in this batch" (scan/scanner.go, filterIndexed): a    *)
(* finding that is left out for that is in the report as a component.      *)
SkippedAreSurfaced == Given("detection") => Detection!SkippedAreSurfaced(DetectionCase)

(* A place in the text stays that place through decoding, as lines and     *)
(* columns, and in the context that is shown around it.                    *)
PositionsRight ==
  /\ Given("decoding") => Texts!OriginRight(6, input[1], input[2][1], input[2][2])
  /\ Given("encodings") => Texts!DecodingRight(input[1] \o input[2])
  /\ Given("locations") => Texts!LocationRight(input[1], 5, input[2])
  /\ Given("contexts") =>
       Contexts!ContextRight(input[2].newlines, 7, input[1], input[2].match,
                             <<input[2].component, input[2].component + 1>>)

(* The rules are those that the configuration files say, and each finds    *)
(* with its keywords, guard and windows what it would find without.         *)
RulesRight ==
  /\ Given("selection") => Command!SelectionRight(input[1], input[2][1], input[2][2])
  /\ Given("printed") => Command!TomlRight(input[1])
  /\ Given("configs") =>
       Configs!ConfigRight("c1" :> input[1] @@ "c2" :> input[2][1] @@ "c3" :> input[2][2], "c1")
  /\ Given("hashes") => Configs!HashRight(input[1], input[2])
  /\ Given("lists") => Keywords!ListsRight(input[2][2], input[1], input[2][1])
  /\ Given("suffixes") => Windows!SuffixRight(input[1], input[2])
  /\ Given("keywords") => Keywords!VisitRight(input[1].patterns, <<input[1].rune>> \o input[2])
  /\ Given("searches") =>
       Windows!SearchRight(input[1].rule.re, input[1].rule.keywords, <<input[1].symbol>> \o input[2])

(* What a program says of a credential is what the provider's answers say; *)
(* it is run with what it reads, what it returns is taken for what it is,  *)
(* and a report that is redacted wholly shows nothing of a secret that     *)
(* crosses no other, and one redacted by any share shows no secret whole.  *)
CredentialsRight ==
  /\ Given("origins") => Command!LimitsRight(input[1], input[2][1], input[2][2], input[2][3])
  /\ Given("answers") => Answers!VerdictsRight([status |-> input[1]] @@ input[2])
  /\ Given("regions") => Answers!RegionsRight(input[1], input[2])
  /\ Given("grants") => Answers!AnalysesRight(input[2][2], input[1], {input[2][1]})
  /\ Given("redaction") => Credentials!RedactionRight(input[2][1], input[1], input[2][2])
  /\ Given("results") => Credentials!StatusesRight(input[1] @@ input[2])
  /\ Given("identities") =>
       Credentials!AnalysisRight(input[1] @@ [names |-> input[2][1]], input[2][2])
  /\ Given("inputs") => Credentials!InputsRight(input[1], input[2])

PushCase == [parents |-> input[1].parents, resolve |-> Resolved, refs |-> input[1].refs,
             updates |-> input[2]]

(* What git says is scanned: the added lines of a patch, with their file,  *)
(* line and commit, and the commits that a push or the options select. A   *)
(* container's layers are read as the image that they make: each entry is  *)
(* scanned or hidden as it would be there.                                 *)
SourceInputRight ==
  /\ Given("lines") => Command!RouteRight(input[1] \o input[2])
  /\ Given("targets") =>
       Command!TargetRight([input[1] EXCEPT !.path = input[2][1]], input[2][2], input[2][3])
  /\ Given("downloads") => Command!FetchRight(input[2][1], input[1], input[2][2])
  /\ Given("overlay") => Overlay!FatesRight(<<input[1]>> \o input[2])
  /\ Given("patches") => Patches!PatchRight(input[2][1], input[2][2])
  /\ Given("pushes") => Patches!PushRight(PushCase)
  /\ Given("names") => Git!HeaderRight(input[2])
  /\ Given("commits") => Git!CommitRight([message |-> input[2]] @@ input[1])
  /\ Given("options") => Git!OptionsRight(input[1], input[2][1], input[2][2], input[2][3])
=============================================================================
