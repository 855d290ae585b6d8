---------------------------- MODULE CommandInputs ----------------------------
(***************************************************************************)
(* From the command line to a source and its rules: the order of flags and *)
(* commands (cmd/cli_parser.go), the rules that are selected               *)
(* (cmd/rule_flags.go), the configuration as it is printed                 *)
(* (cmd/config.go), the source that a target is for (sources/auto.go,      *)
(* sources/internal/targeturl, the URLs of sources/s3), the download of a  *)
(* response (sources/internal/download) and the client that requests to    *)
(* providers go through (internal/exprruntime/validation_limits.go).       *)
(***************************************************************************)
EXTENDS Integers, SequencesExt, FiniteSetsExt, TLC

-----------------------------------------------------------------------------
(* cliParser.Parse. A token names a command, is a flag, or is anything     *)
(* else. The tree of commands, and the flags of each with the number of    *)
(* values that they take, are those of cmd/root.go that differ in form.    *)
SubCommands(node) ==
  CASE node = "root"   -> {"auto", "filesystem", "config"}
    [] node = "config" -> {"hash", "show"}
    [] node = "show"   -> {"toml", "ids"}
    [] OTHER           -> {}
Named(token) == IF token = "fs" THEN "filesystem" ELSE token
Default(node) == CASE node = "root" -> <<"auto">> [] node = "show" -> <<"toml">> [] OTHER -> <<>>

FlagsOf(node) ==
  CASE node = "root" -> "-c" :> 1 @@ "--no-color" :> 0
    [] node \in {"auto", "filesystem"} -> "--disable-rule" :> 1 @@ "--disable-rule=x" :> 0
    [] node = "hash" -> "--rule" :> 1
    [] OTHER -> <<>>
Above(node) ==
  CASE node \in {"hash", "show"} -> {"config", "root"}
    [] node \in {"toml", "ids"}  -> {"show", "config", "root"}
    [] OTHER                     -> {"root"}
Commands == {"auto", "filesystem", "config", "hash", "show", "toml", "ids"}
Within(node) == {n \in Commands : node \in Above(n)}
FlagTokens == {"-c", "--no-color", "--disable-rule", "--disable-rule=x", "--rule", "-u", "--"}

(* expandRuleFlagShorthands: up to the token that ends the flags.          *)
Expanded(args) ==
  [i \in DOMAIN args |->
     IF \E j \in 1 .. i - 1 : args[j] = "--" THEN args[i]
     ELSE CASE args[i] = "-dr"   -> "--disable-rule"
            [] args[i] = "-dr=x" -> "--disable-rule=x"
            [] OTHER             -> args[i]]

(* kong.Trace: how many of the first tokens are flags and their values.    *)
RECURSIVE FlagPrefix(_, _)
FlagPrefix(arity, args) ==
  IF args = <<>> \/ args[1] \notin DOMAIN arity THEN 0
  ELSE IF arity[args[1]] = 0 THEN 1 + FlagPrefix(arity, Tail(args))
  ELSE IF Len(args) = 1 \/ args[2] \in FlagTokens THEN 0
  ELSE 2 + FlagPrefix(arity, SubSeq(args, 3, Len(args)))

Known(node) == FoldSet(LAMBDA n, f : FlagsOf(n) @@ f, FlagsOf(node), Above(node) \cup Within(node))
KnownFlags == [node \in Commands \cup {"root"} |-> Known(node)]

(* Mutant: the end of the flags is not minded.                             *)
RECURSIVE FirstUnended(_, _)
FirstUnended(node, args) ==
  LET index == FlagPrefix(KnownFlags[node], args) + 1 IN
  IF SubCommands(node) = {} \/ index > Len(args) THEN args
  ELSE LET at == IF args[index] = "--" /\ index < Len(args) THEN index + 1 ELSE index IN
       IF Named(args[at]) \in SubCommands(node)
       THEN <<args[at]>> \o FirstUnended(Named(args[at]), RemoveAt(args, at)) ELSE args

RECURSIVE CommandFirstArgs(_, _)
CommandFirstArgs(node, args) ==
  LET index == FlagPrefix(KnownFlags[node], args) + 1 IN
  IF SubCommands(node) = {} \/ index > Len(args) THEN args
  ELSE IF args[index] = "--" THEN Default(node) \o args
  ELSE IF Named(args[index]) \in SubCommands(node)
       THEN <<args[index]>> \o CommandFirstArgs(Named(args[index]), RemoveAt(args, index))
       ELSE args

(* The reference: the words of a line are its tokens that are no flag and  *)
(* no flag's value, up to the one that ends the flags; its commands are    *)
(* the words that name them, from the first on.                            *)
AllFlags == FlagsOf("root") @@ FlagsOf("auto") @@ FlagsOf("hash")
EndOf(args) == SelectInSeq(args, LAMBDA t : t = "--")
RECURSIVE WordsOf(_, _)
WordsOf(args, i) ==
  IF i > Len(args) \/ args[i] = "--" THEN <<>>
  ELSE IF args[i] \notin DOMAIN AllFlags THEN <<i>> \o WordsOf(args, i + 1)
  ELSE WordsOf(args, i + 1 + AllFlags[args[i]])

RECURSIVE PathOf(_, _, _)
PathOf(node, args, words) ==
  IF words = <<>> \/ Named(args[words[1]]) \notin SubCommands(node) THEN <<>>
  ELSE <<words[1]>> \o PathOf(Named(args[words[1]]), args, Tail(words))

(* A line is moved to its commands, in their order, before what else it    *)
(* has, in its order; what follows the end of the flags is no command. It  *)
(* is so for every line whose flags are those of its command.              *)
RouteRight(line) ==
  LET args  == Expanded(line)
      words == WordsOf(args, 1)
      path  == PathOf("root", args, words)
      node  == IF path = <<>> THEN "root" ELSE Named(args[Last(path)])
      flags == FlagsOf(node) @@ FoldSet(LAMBDA n, f : FlagsOf(n) @@ f, <<>>, Above(node))
      given == IF node = "root" THEN flags @@ FlagsOf("auto") ELSE flags
      end   == IF EndOf(args) = 0 THEN Len(args) + 1 ELSE EndOf(args)
      well  == \A i \in 1 .. end - 1 : args[i] \in FlagTokens =>
                 /\ args[i] \in DOMAIN given
                 /\ given[args[i]] = 1 => i + 1 < end /\ args[i + 1] \notin FlagTokens
      rest  == SelectSeq([i \in DOMAIN args |-> i], LAMBDA i : ~Contains(path, i))
      ended == end <= Len(args) /\ Len(words) = Len(path)
      moved == CommandFirstArgs("root", args)
  IN  /\ CommandFirstArgs("root", moved) = moved
      /\ well => moved = [i \in DOMAIN path |-> args[path[i]]] \o (IF ended THEN Default(node) ELSE <<>>)
                           \o [i \in DOMAIN rest |-> args[rest[i]]]

-----------------------------------------------------------------------------
(* applyRuleSelection. A rule has an id, needs others as its components,   *)
(* and is reported unless it is skipped.                                   *)
IdsOf(rules) == {rules[i].id : i \in DOMAIN rules}
NeededBy(rules, ids) == UNION {rules[i].needs : i \in {j \in DOMAIN rules : rules[j].id \in ids}}

RECURSIVE WithComponents(_, _, _)
WithComponents(rules, disabled, ids) ==
  LET more == NeededBy(rules, ids) \ (disabled \cup ids) IN
  IF more = {} THEN ids ELSE WithComponents(rules, disabled, ids \cup more)

(* Mutant: a component is not reported even where it was asked for.        *)
MarkAll(isolated, disabled, rules, r) ==
  [r EXCEPT !.skip = @ \/ (isolated # {} /\ \E i \in DOMAIN rules : r.id \in rules[i].needs)]

Mark(isolated, disabled, rules, r) ==
  [r EXCEPT !.skip = @ \/ (isolated # {} /\ r.id \notin isolated \ disabled)]

ApplyRuleSelection(rules, isolated, disabled) ==
  LET kept == IF isolated = {} THEN IdsOf(rules) \ disabled
              ELSE WithComponents(rules, disabled, isolated \ disabled)
      chosen == SelectSeq(rules, LAMBDA r : r.id \in kept)
  IN  IF ~(isolated \cup disabled \subseteq IdsOf(rules)) THEN [failed |-> TRUE, rules |-> <<>>]
      ELSE [failed |-> FALSE,
            rules |-> [i \in DOMAIN chosen |-> Mark(isolated, disabled, rules, chosen[i])]]

(* Of the rules that are asked for, those that they need are there, and no *)
(* other is reported; a rule that is disabled is not there even for        *)
(* another that needs it, and a rule that is not known is an error.        *)
SelectionRight(rules, isolated, disabled) ==
  LET result == ApplyRuleSelection(rules, isolated, disabled)
      kept   == IdsOf(result.rules)
      asked  == (IF isolated = {} THEN IdsOf(rules) ELSE isolated) \ disabled
      Shown(rs) == {rs[i].id : i \in {j \in DOMAIN rs : ~rs[j].skip}}
      Order(rs) == [i \in DOMAIN rs |-> rs[i].id]
  IN  IF result.failed THEN ~(isolated \cup disabled \subseteq IdsOf(rules))
      ELSE /\ kept = (asked \cup NeededBy(rules, asked)) \ disabled
           /\ Shown(result.rules) = Shown(rules) \cap asked
           /\ Order(result.rules) = SelectSeq(Order(rules), LAMBDA id : id \in kept)

-----------------------------------------------------------------------------
(* tomlString, and the reader of TOML: a text is a sequence of characters, *)
(* of which "nl" is a newline, "dq" a double quote and "c" a control       *)
(* character that is neither a newline nor a tab.                          *)
Quote == "'"
Three == <<Quote, Quote, Quote>>
Controls == {"nl", "tab", "c"}
ThreeAt(s) == {i \in 1 .. Len(s) - 2 : \A k \in i .. i + 2 : s[k] = Quote}

Letter(c) == CASE c = "nl" -> "n" [] c = "tab" -> "t" [] c = "c" -> "u" [] OTHER -> c
Escaped(c) == IF c \in Controls \cup {"dq", "\\"} THEN <<"\\", Letter(c)>> ELSE <<c>>

TomlString(s) ==
  LET chars == ToSet(s)
      plain == ThreeAt(s) = {} /\ chars \cap Controls = {}
  IN  IF "nl" \in chars /\ ThreeAt(s) = {} THEN Three \o <<"nl">> \o s \o Three
      ELSE IF chars \cap {Quote, "\\"} # {} /\ plain THEN Three \o s \o Three
      ELSE IF Quote \notin chars /\ plain THEN <<Quote>> \o s \o <<Quote>>
      ELSE <<"dq">> \o FlattenSeq([i \in DOMAIN s |-> Escaped(s[i])]) \o <<"dq">>

(* A literal ends at the first quotes that can end it, and takes up to two *)
(* quotes more; a newline that begins one of three quotes is left out.     *)
Unreadable == <<"unreadable">>
WithoutFirst(s) == IF s # <<>> /\ s[1] = "nl" THEN Tail(s) ELSE s
Middle(w, n) == SubSeq(w, n + 1, Len(w) - n)

RECURSIVE Unescaped(_)
Unescaped(s) ==
  IF s = <<>> THEN <<>>
  ELSE IF s[1] # "\\" THEN <<s[1]>> \o Unescaped(Tail(s))
  ELSE <<CHOOSE c \in Controls \cup {"dq", "\\"} : Letter(c) = s[2]>> \o Unescaped(SubSeq(s, 3, Len(s)))

ReadToml(w) ==
  LET body == SubSeq(w, 4, Len(w))
      end  == Min(ThreeAt(body)) IN
  IF Len(w) >= 6 /\ 1 \in ThreeAt(w)
  THEN IF Len(body) - end > 4 \/ "c" \in ToSet(body) THEN Unreadable ELSE WithoutFirst(Middle(w, 3))
  ELSE IF w[1] = Quote
  THEN IF ToSet(Middle(w, 1)) \cap {Quote, "nl", "c"} # {} THEN Unreadable ELSE Middle(w, 1)
  ELSE Unescaped(Middle(w, 1))

(* The configuration that is printed is the one that was read, but for a   *)
(* text of several lines with a control character, which no literal holds. *)
TomlRight(s) ==
  ReadToml(TomlString(s)) = s \/ ({"nl", "c"} \subseteq ToSet(s) /\ ThreeAt(s) = {})

-----------------------------------------------------------------------------
(* Targets. A URL has a scheme, a host, which may be written in capitals,  *)
(* and a path, which is the sequence of what is between its slashes.       *)
Nothing == [kind |-> "error", parts |-> <<>>]
Parsed(kind, parts) == [kind |-> kind, parts |-> parts]
Web == {"http", "https"}

Solid(path) == SelectSeq(path, LAMBDA s : s # "")

(* strings.Trim, strings.Split: of nothing, one empty part is left.        *)
Trimmed(path) ==
  LET full == {i \in DOMAIN path : path[i] # ""}
  IN  IF full = {} THEN <<"">>
      ELSE SubSeq(path, CHOOSE i \in full : \A j \in full : i <= j,
                        CHOOSE i \in full : \A j \in full : i >= j)

HasTag(p) == Len(p) >= 5 /\ p[5] # ""

ParseGitHub(u) ==
  LET p == Trimmed(u.path) IN
  CASE u.scheme \notin Web -> Nothing
    [] u.scheme \in Web /\ u.host = "gist.github.com" ->
         IF Len(p) < 2 \/ p[1] = "" \/ p[2] = "" THEN Nothing ELSE Parsed("gist", <<p[1], p[2]>>)
    [] u.scheme \in Web /\ u.host # "gist.github.com" ->
         CASE Len(p) = 1 /\ p[1] # "" -> Parsed("owner", p)
           [] Len(p) = 2 /\ p[2] # "" -> Parsed("repo", p)
           [] Len(p) >= 4 /\ p[3] \in {"issues", "pull", "discussions"} -> Parsed(p[3], SubSeq(p, 1, 4))
           [] Len(p) >= 4 /\ <<p[3], p[4]>> \in {<<"releases", "tag">>, <<"actions", "runs">>} /\ HasTag(p) ->
                Parsed(p[3], <<p[1], p[2], p[3], p[5]>>)
           [] OTHER -> Nothing

(* strings.Cut at "/-/": what is left of the first, and what is right.     *)
Cuts(p) == {i \in 2 .. Len(p) - 1 : p[i] = "-"}

ParseGitLab(u) ==
  LET p == Trimmed(u.path)
      i == CHOOSE j \in Cuts(p) : \A k \in Cuts(p) : j <= k
      right == Trimmed(SubSeq(p, i + 1, Len(p)))
  IN  CASE u.scheme \notin Web -> Nothing
        [] u.scheme \in Web /\ Cuts(p) = {} -> Parsed("namespace", p)
        [] u.scheme \in Web /\ Cuts(p) # {} ->
             IF Len(right) < 2 \/ right[2] = "" \/ right[1] \notin
                  {"issues", "merge_requests", "snippets", "releases", "pipelines", "jobs"}
             THEN Nothing ELSE Parsed(right[1], Append(Trimmed(SubSeq(p, 1, i - 1)), right[2]))

ParseHuggingFace(u) ==
  LET p == IF u.scheme = "hf" THEN <<u.host>> \o Solid(u.path) ELSE Solid(u.path)
      inBuckets == Len(p) >= 3 /\ p[1] = "buckets"
  IN  CASE u.scheme \notin Web \cup {"hf"} -> Nothing
        [] u.scheme = "hf" -> IF inBuckets THEN Parsed("bucket", Tail(p)) ELSE Nothing
        [] u.scheme \in Web ->
             CASE inBuckets -> Parsed("bucket", Tail(p))
               [] Len(p) = 1 -> Parsed("owner", p)
               [] Len(p) = 2 -> Parsed("repo", p)
               [] Len(p) = 3 /\ p[1] \in {"datasets", "spaces"} -> Parsed("repo", p)
               [] OTHER -> Nothing

(* s3ParseURL: hosts are those of Amazon, of R2, or of a store like them,  *)
(* and the bucket is in the host or the first part of the path. Only small *)
(* letters are compared.                                                   *)
InHost == {"b.s3.amazonaws.com", "b.a.r2.cloudflarestorage.com"}
InPath == {"s3.amazonaws.com", "a.r2.cloudflarestorage.com"}
Unknown == {"s3-eu.amazonaws.com"}
S3Hosts == InHost \cup InPath \cup Unknown

ParseS3(u) ==
  LET known == u.host \in S3Hosts /\ ~u.capitals IN
  CASE u.scheme = "s3" -> Parsed("s3", <<u.host>> \o u.path)
    [] u.scheme \notin Web \cup {"s3"} -> Nothing
    [] u.scheme \in Web /\ known /\ u.host \in InHost -> Parsed("s3", <<u.host>> \o u.path)
    [] u.scheme \in Web /\ known /\ u.host \in Unknown -> Nothing
    [] u.scheme \in Web /\ ~(known /\ u.host \in InHost \cup Unknown) ->
         IF Solid(u.path) = <<>> THEN Nothing ELSE Parsed(IF known THEN "s3" ELSE "s3 like", u.path)

(* Auto. A target may be there as a file; a server is asked whether it is  *)
(* one of Git's only where the URL does not say so.                        *)
EndsInGit(u) == u.path # <<>> /\ Last(Trimmed(u.path)) = "x.git"

Is(target, kinds) == target.kind \in kinds
InGitLab(lab) == lab # Nothing /\ lab.parts # <<"">>
IsNamespace(lab) == Is(lab, {"namespace"}) /\ Len(lab.parts) > 1

Recognized(u) ==
  IF u.host \in S3Hosts THEN "s3"
  ELSE IF u.host \in {"github.com", "gist.github.com"} /\ ~Is(ParseGitHub(u), {"error"})
  THEN IF Is(ParseGitHub(u), {"repo"}) THEN "git" ELSE "github"
  ELSE IF u.host = "gitlab.com" /\ \E lab \in {ParseGitLab(u)} : InGitLab(lab) /\ ~IsNamespace(lab)
  THEN "gitlab"
  ELSE IF u.host = "huggingface.co" /\ ~Is(ParseHuggingFace(u), {"error"})
  THEN IF Is(ParseHuggingFace(u), {"repo"}) THEN "git" ELSE "huggingface"
  ELSE IF EndsInGit(u) THEN "git" ELSE "ask"

Asked(u, answer) ==
  CASE answer = "git"    -> "git"
    [] answer = "failed" -> "error"
    [] answer = "no"     -> IF u.host = "gitlab.com" /\ InGitLab(ParseGitLab(u)) THEN "gitlab" ELSE "url"

Auto(u, isFile, answer) ==
  IF isFile THEN "filesystem"
  ELSE CASE u.scheme = "s3" -> "s3"
         [] u.scheme = "hf" -> IF Is(ParseHuggingFace(u), {"error"}) THEN "error" ELSE "huggingface"
         [] u.scheme \in Web -> CHOOSE kind \in {IF first = "ask" THEN Asked(u, answer) ELSE first :
                                                  first \in {Recognized(u)}} : TRUE
         [] OTHER -> "error"

(* probeGit. A server answers with the packets of Git, as many as it sends *)
(* before it ends; a packet of no length is a flush.                       *)
RefLines == {"ref", "capabilities"}

After(packets, n) == SubSeq(packets, n + 1, Len(packets))

Capable(packets) ==
  \E i \in DOMAIN packets : packets[i] = "ls-refs" /\ \A j \in 1 .. i - 1 : packets[j] \notin {"flush", "bad"}

ReadAdvertisement(packets) ==
  LET served == Len(packets) >= 2 /\ packets[1] = "service"
      rest == IF served THEN After(packets, 2) ELSE packets
  IN  /\ served => packets[2] = "flush"
      /\ rest # <<>>
      /\ CASE rest[1] = "version 2" -> Capable(Tail(rest))
           [] rest[1] = "version 1" -> Len(rest) >= 2 /\ rest[2] \in RefLines
           [] OTHER                 -> rest[1] \in RefLines

ProbeGit(reply) ==
  CASE reply.status \in {404, 410} -> "no"
    [] reply.status \notin {200, 404, 410} -> "failed"
    [] reply.status = 200 /\ ~reply.media -> "no"
    [] reply.status = 200 /\ reply.media -> IF ReadAdvertisement(reply.packets) THEN "git" ELSE "failed"

(* The source that is selected accepts the target, and as what it is: a    *)
(* repository is cloned and not listed, and never is a file fetched. A     *)
(* slash at the end, or a host in capitals, makes no difference; an answer *)
(* that is cut off is an error, and never that there is no repository.     *)
Accepted(kind, u) ==
  CASE kind = "github" -> ~Is(ParseGitHub(u), {"error", "repo"})
    [] kind = "gitlab" -> InGitLab(ParseGitLab(u))
    [] kind = "huggingface" -> Is(ParseHuggingFace(u), {"owner", "bucket"})
    [] kind = "s3" -> u.host \in Unknown \/ u.capitals \/ Solid(u.path) = <<>> \/ Is(ParseS3(u), {"s3"})
    [] OTHER -> TRUE

TargetRight(u, isFile, reply) ==
  LET Variants == {u, [u EXCEPT !.capitals = TRUE]}
                    \cup {[u EXCEPT !.path = Append(@, "")] : s \in {u.scheme} \cap Web}
      Cut(n) == ProbeGit([reply EXCEPT !.packets = SubSeq(@, 1, n)])
  IN  \A answer \in {ProbeGit(reply)} :
        /\ \E kind \in {"filesystem", "git", "url", "github", "gitlab", "huggingface", "s3", "error"} :
             \A v \in Variants :
               /\ Auto(v, isFile, answer) = kind /\ Accepted(kind, v)
               /\ isFile => kind = "filesystem"
               /\ kind = "url" => answer = "no"
        /\ answer = "git" => \A n \in DOMAIN reply.packets : Cut(n) \in {"git", "failed"}

-----------------------------------------------------------------------------
(* download.WithFile, and the URL source that calls it: what is scanned is *)
(* a file with the whole response, once. A size of none is -1; the stream  *)
(* fails before the byte failsAt, or ends.                                 *)
Done(scanned, failed) == [scanned |-> scanned, failed |-> failed]

WithFile(max, r) ==
  LET sent   == IF r.failsAt = -1 THEN r.size ELSE r.failsAt
      copied == IF max > 0 THEN Min({sent, max}) ELSE sent
      copyFails == r.failsAt # -1 /\ (max = 0 \/ r.failsAt < max)
  IN  IF max < 0 \/ r.cancelled \/ r.status # 200 THEN Done(-1, TRUE)
      ELSE IF max > 0 /\ r.declared > max THEN Done(-1, FALSE)
      ELSE IF copyFails THEN Done(-1, TRUE)
      ELSE IF sent > copied THEN Done(-1, FALSE)
      ELSE IF r.failsAt # -1 THEN Done(-1, TRUE)
      ELSE Done(copied, FALSE)

Fetched(hidden, max, r) ==
  CASE max < 0 -> Done(-1, TRUE)
    [] max >= 0 /\ hidden -> Done(-1, FALSE)
    [] max >= 0 /\ ~hidden -> WithFile(max, r)

(* Without an error a response is scanned, the whole of it, unless it is   *)
(* hidden or is more than may be loaded; none in part.                     *)
FetchRight(hidden, max, r) ==
  LET done == Fetched(hidden, max, r)
      more == max > 0 /\ (r.size > max \/ r.declared > max)
  IN  /\ done.scanned # -1 => ~done.failed /\ done.scanned = r.size /\ ~hidden /\ ~(max > 0 /\ r.size > max)
      /\ (~done.failed /\ done.scanned = -1) => hidden \/ more
      /\ (~hidden /\ max >= 0 /\ (r.status # 200 \/ r.cancelled)) => done.failed

-----------------------------------------------------------------------------
(* validationRequestTarget: what a budget of requests is counted for. A    *)
(* URL has a scheme, a host, which may be written in capitals and may be   *)
(* an address with colons, and a port, which is 0 if it is not given.      *)
UsualPort(scheme) == CASE scheme = "https" -> 443 [] scheme = "http" -> 80 [] OTHER -> 0

RequestTarget(u) ==
  LET port == IF u.scheme # "" /\ u.port = UsualPort(u.scheme) THEN 0 ELSE u.port
      host == IF u.colons THEN <<"[", u.host, "]">> ELSE <<u.host>>
  IN  (IF u.scheme = "" THEN <<>> ELSE <<u.scheme, "://">>) \o host
        \o (IF port = 0 THEN <<>> ELSE <<":", ToString(port)>>)

(* wrapValidationLimitClient: a client has a timeout, and limits its       *)
(* requests if there is a limiter between it and its transport.            *)
Client(timeout, limits) == [timeout |-> timeout, limits |-> limits]

WrapLimitClient(client, limiter) ==
  LET inner == {l.timeout : l \in ToSet(client.limits)}
      requestTimeout == IF client.timeout = 0 /\ inner # {} THEN Max(inner) ELSE client.timeout
  IN  IF limiter = "none" THEN Client(requestTimeout, <<>>)
      ELSE Client(0, <<[limiter |-> limiter, timeout |-> requestTimeout]>>)

(* Requests that go to the same server over the same scheme and port count *)
(* for one budget, and others for theirs; a client is limited by the last  *)
(* limiter it was given and by no other, and keeps its timeout.            *)
LimitsRight(u, v, client, limiters) ==
  LET Origin(w) == <<w.scheme, w.host, IF w.port = 0 THEN UsualPort(w.scheme) ELSE w.port>>
      Wrapped(n) == FoldLeft(WrapLimitClient, client, SubSeq(limiters, n, Len(limiters)))
  IN  /\ (RequestTarget(u) = RequestTarget(v)) <=> (Origin(u) = Origin(v))
      /\ Wrapped(1) = Wrapped(Len(limiters))
=============================================================================
