---------------------------- MODULE PatchReader -----------------------------
(***************************************************************************)
(* sources/git_patch.go, readGitPatch: the output of git log -p is read as *)
(* a stream, and the text that each hunk adds is handed on with its commit *)
(* and its file.                                                           *)
(*                                                                         *)
(* A line is known by its class, which its first characters decide. Inside *)
(* a hunk only the very first character counts: a header's "--- " and an   *)
(* added "+++ " are lines like others there, and the hunk's own counts say *)
(* where it ends. Lines carry what the classes need:                       *)
(*   commit, text, diff (file, keep, what the header callback decides),    *)
(*   index/old/new (header lines), binary, combined, hunk (old, new,       *)
(*   start; -1 for a count that is not written), add/del/ctx (text),       *)
(*   empty, marker (no newline at end of file).                            *)
(***************************************************************************)
EXTENDS Integers, SequencesExt

Headers == {"index", "old", "new"}

(* The first character of a line, as a hunk sees it.                       *)
Op(line) ==
  CASE line.class \in {"add", "new"} -> "+"
    [] line.class \in {"del", "old"} -> "-"
    [] line.class \in {"ctx", "empty", "text"} -> " "
    [] line.class = "marker" -> "\\"
    [] OTHER -> "invalid"

Count(c) == IF c = -1 THEN 1 ELSE c

(* Where readGitHunk ends: a line that was added ends in a newline unless  *)
(* the marker follows it, which no count includes.                         *)
Unended(added) == Append(Front(added), [Last(added) EXCEPT !.ended = FALSE])
Marked(lastOp, added) == IF lastOp = "+" /\ added # <<>> THEN Unended(added) ELSE added

(* Mutant: the marker after the last counted line is left to the caller.   *)
EndAtCount(lines, i, lastOp, added) == [next |-> i, err |-> "none", added |-> added]

EndOfHunk(lines, i, lastOp, added) ==
  IF i \in DOMAIN lines /\ lines[i].class = "marker"
  THEN [next |-> i + 1, err |-> "none", added |-> Marked(lastOp, added)]
  ELSE [next |-> i, err |-> "none", added |-> added]

(* readGitHunk from line i on: [next, err, added].                         *)
RECURSIVE Hunk(_, _, _, _, _, _)
Hunk(lines, i, oldLines, newLines, lastOp, added) ==
  IF oldLines = 0 /\ newLines = 0 THEN EndOfHunk(lines, i, lastOp, added)
  ELSE IF i \notin DOMAIN lines THEN [next |-> i, err |-> "unexpected EOF", added |-> added]
  ELSE
    LET op  == Op(lines[i])
        old == IF op \in {"-", " "} THEN oldLines - 1 ELSE oldLines
        new == IF op \in {"+", " "} THEN newLines - 1 ELSE newLines
    IN  IF op = "invalid" THEN [next |-> i, err |-> "invalid", added |-> added]
        ELSE IF old < 0 \/ new < 0 THEN [next |-> i, err |-> "mismatch", added |-> added]
        ELSE Hunk(lines, i + 1, old, new, op,
                  CASE op = "+"  -> Append(added, [text |-> lines[i].text, ended |-> TRUE])
                    [] op = "\\" -> Marked(lastOp, added)
                    [] OTHER     -> added)

-----------------------------------------------------------------------------
(* The loop of readGitPatch at line s.at: the commit of its preamble, if   *)
(* it contains one; the patch header that files get; the file whose hunks  *)
(* are consumed, if any; and what was handed on.                           *)
NoFile == [file |-> "none", keep |-> FALSE]
Start == [at |-> 1, preamble |-> "none", patch |-> "none", consume |-> NoFile,
          out |-> <<>>, err |-> "none"]

FirstNoHeader(lines, i) ==
  Min({Len(lines) + 1} \cup {j \in i .. Len(lines) : lines[j].class \notin Headers})

(* Mutant: a file that is discarded leaves the consumer of the last one.   *)
FileHeaderKeepsLast(lines, s) ==
  LET line == lines[s.at] IN
  [s EXCEPT !.at = FirstNoHeader(lines, s.at + 1),
            !.patch = IF s.preamble # "none" THEN s.preamble ELSE @,
            !.preamble = "none",
            !.consume = IF line.keep THEN [file |-> line.file, keep |-> TRUE] ELSE @]

FileHeader(lines, s) ==
  LET line   == lines[s.at]
      next   == FirstNoHeader(lines, s.at + 1)
      binary == next \in DOMAIN lines /\ lines[next].class = "binary"
  IN  [s EXCEPT !.at = next,
                !.patch = IF s.preamble # "none" THEN s.preamble ELSE @,
                !.preamble = "none",
                !.consume = [file |-> line.file, keep |-> line.keep /\ ~binary]]

ReadHunk(lines, s) ==
  LET line == lines[s.at]
      hunk == Hunk(lines, s.at + 1, Count(line.old), Count(line.new), "none", <<>>)
  IN  [s EXCEPT !.at = hunk.next, !.err = hunk.err,
                !.out = IF hunk.err = "none" /\ s.consume.keep
                        THEN Append(@, [commit |-> s.patch, file |-> s.consume.file,
                                        start |-> line.start, added |-> hunk.added])
                        ELSE @]

Step(lines, s) ==
  LET line == lines[s.at] IN
  CASE line.class = "combined" -> [s EXCEPT !.err = "unsupported"]
    [] line.class = "diff"     -> FileHeader(lines, s)
    [] line.class = "hunk"     -> ReadHunk(lines, s)
    [] line.class = "commit"   -> [s EXCEPT !.at = @ + 1, !.preamble = line.commit]
    [] OTHER                   -> [s EXCEPT !.at = @ + 1]

RECURSIVE ReadFrom(_, _)
ReadFrom(lines, s) ==
  IF s.err # "none" \/ s.at > Len(lines) THEN s ELSE ReadFrom(lines, Step(lines, s))

Read(lines) == ReadFrom(lines, Start)

-----------------------------------------------------------------------------
(* internal/gitdiff, Parse: the parser that the tests of the source hold   *)
(* the reader to (TestGitStreamMatchesPatchParser). It hands a file           *)
(* on when all of it is read, and ends without a word at what it cannot    *)
(* read.                                                                   *)
DiffLine(op, text) == [op |-> op, text |-> text, ended |-> TRUE]
LineText(line) == IF "text" \in DOMAIN line THEN line.text ELSE 0
Unfinished(next, frag) == [next |-> next, err |-> TRUE, lines |-> frag]

RECURSIVE ParseTextChunk(_, _, _, _, _)
ParseTextChunk(lines, i, oldLines, newLines, frag) ==
  IF oldLines <= 0 /\ newLines <= 0
  THEN IF oldLines # 0 \/ newLines # 0 \/ \A k \in DOMAIN frag : frag[k].op = " " THEN Unfinished(i, frag)
       ELSE IF i \in DOMAIN lines /\ lines[i].class = "marker"
            THEN [next |-> i + 1, err |-> FALSE, lines |-> Unended(frag)]
            ELSE [next |-> i, err |-> FALSE, lines |-> frag]
  ELSE IF i \notin DOMAIN lines THEN Unfinished(i, frag)
  ELSE LET op == Op(lines[i]) IN
       CASE op = "invalid" -> Unfinished(i, frag)
         [] op = "\\" -> ParseTextChunk(lines, i + 1, oldLines, newLines,
                                        IF frag = <<>> THEN frag ELSE Unended(frag))
         [] OTHER -> ParseTextChunk(lines, i + 1, IF op = "+" THEN oldLines ELSE oldLines - 1,
                                    IF op = "-" THEN newLines ELSE newLines - 1,
                                    Append(frag, DiffLine(op, LineText(lines[i]))))

(* ParseTextFragments: the hunks from line i on.                           *)
RECURSIVE ParseTextFragments(_, _, _)
ParseTextFragments(lines, i, hunks) ==
  IF i \notin DOMAIN lines \/ lines[i].class # "hunk" THEN [next |-> i, err |-> FALSE, hunks |-> hunks]
  ELSE LET chunk == CHOOSE c \in {ParseTextChunk(lines, i + 1, Count(lines[i].old), Count(lines[i].new), <<>>)} : TRUE
       IN  IF chunk.err THEN [next |-> i, err |-> TRUE, hunks |-> hunks]
           ELSE ParseTextFragments(lines, chunk.next,
                  Append(hunks, [start |-> lines[i].start, lines |-> chunk.lines]))

(* ParseNextFileHeader: to the next file, over a hunk that has none, with  *)
(* the commit of what precedes it.                                         *)
RECURSIVE ParseNextFileHeader(_, _, _)
ParseNextFileHeader(lines, i, preamble) ==
  IF i \notin DOMAIN lines THEN [at |-> i, commit |-> preamble]
  ELSE CASE lines[i].class = "diff"   -> [at |-> i, commit |-> preamble]
         [] lines[i].class = "commit" -> ParseNextFileHeader(lines, i + 1, lines[i].commit)
         [] lines[i].class = "hunk"   -> ParseNextFileHeader(lines, i + 2, "none")
         [] OTHER                     -> ParseNextFileHeader(lines, i + 1, preamble)

(* ParseBinaryMarker takes the place of hunks.                             *)
RECURSIVE ParseFiles(_, _, _)
ParseFiles(lines, i, patch) ==
  LET header == CHOOSE h \in {ParseNextFileHeader(lines, i, "none")} : TRUE IN
  IF header.at \notin DOMAIN lines THEN <<>>
  ELSE LET own  == IF header.commit = "none" THEN patch ELSE header.commit
           body == FirstNoHeader(lines, header.at + 1)
           text == CHOOSE t \in {ParseTextFragments(lines, body, <<>>)} : TRUE
           binary == text.hunks = <<>> /\ body \in DOMAIN lines /\ lines[body].class = "binary"
       IN  IF text.err THEN <<>>
           ELSE << [commit |-> own, header |-> lines[header.at], binary |-> binary, hunks |-> text.hunks] >>
                  \o ParseFiles(lines, IF binary THEN body + 1 ELSE text.next, own)

AddedLines(hunk) ==
  LET added == SelectSeq(hunk.lines, LAMBDA l : l.op = "+")
  IN  [n \in DOMAIN added |-> [text |-> added[n].text, ended |-> added[n].ended]]

ParsedAdditions(lines) ==
  LET files == SelectSeq(ParseFiles(lines, 1, "none"), LAMBDA f : ~f.binary /\ f.header.keep)
  IN  FlattenSeq([i \in DOMAIN files |->
        [k \in DOMAIN files[i].hunks |->
           [commit |-> files[i].commit, file |-> files[i].header.file,
            start |-> files[i].hunks[k].start, added |-> AddedLines(files[i].hunks[k])]]])

-----------------------------------------------------------------------------
(* The reference: a history, as git log -p writes it. A hunk is the        *)
(* sequence of its lines, markers included; open tells (to the property    *)
(* only) that more of its counted lines follow.                            *)
HunkSize(hunk, classes) == Quantify(DOMAIN hunk, LAMBDA i : hunk[i].class \in classes)
Written(n) == IF n = 1 THEN -1 ELSE n

HunkLines(hunk) ==
  LET counted == Max({i \in DOMAIN hunk.lines : hunk.lines[i].class # "marker"}) IN
  << [class |-> "hunk", start |-> hunk.start, open |-> TRUE,
      old |-> Written(HunkSize(hunk.lines, {"del", "ctx", "old", "empty"})),
      new |-> Written(HunkSize(hunk.lines, {"add", "ctx", "new", "empty"}))] >>
  \o [i \in DOMAIN hunk.lines |-> hunk.lines[i] @@ [open |-> i < counted]]

Open(line) == "open" \in DOMAIN line /\ line.open

FileLines(f) ==
  << [class |-> "diff", file |-> f.file, keep |-> f.keep], [class |-> "index"] >>
  \o IF f.binary THEN << [class |-> "binary"] >>
     ELSE << [class |-> "old"], [class |-> "new"] >> \o FlattenSeq([i \in DOMAIN f.hunks |-> HunkLines(f.hunks[i])])

CommitLines(c) ==
  << [class |-> "commit", commit |-> c.commit], [class |-> "text"] >>
  \o FlattenSeq([i \in DOMAIN c.files |-> FileLines(c.files[i])]) \o << [class |-> "empty"] >>

Lines(history) == FlattenSeq([i \in DOMAIN history |-> CommitLines(history[i])])

(* What a hunk adds: its lines, and whether a newline ends them.           *)
AddedBy(lines) ==
  LET added == SelectSeq([i \in DOMAIN lines |-> i], LAMBDA i : lines[i].class \in {"add", "new"})
  IN  [k \in DOMAIN added |->
         [text |-> lines[added[k]].text,
          ended |-> ~(added[k] + 1 \in DOMAIN lines /\ lines[added[k] + 1].class = "marker")]]

Additions(history) ==
  FlattenSeq([i \in DOMAIN history |-> FlattenSeq([j \in DOMAIN history[i].files |->
    LET f == history[i].files[j] IN
    IF f.binary \/ ~f.keep THEN <<>>
    ELSE [k \in DOMAIN f.hunks |->
            [commit |-> history[i].commit, file |-> f.file,
             start |-> f.hunks[k].start, added |-> AddedBy(f.hunks[k].lines)]]])])

Texts(hunk) == [hunk EXCEPT !.added = [i \in DOMAIN @ |-> @[i].text]]

(* What is handed on is what the files that are kept add, hunk by hunk,    *)
(* each to its own commit and file and at its own line, whatever the text  *)
(* looks like. If git ends early, what came before is handed on, never a   *)
(* part of a hunk, and a hunk that is cut off is an error. It is what the  *)
(* other parser finds, which only leaves out a file that is cut off.       *)
PatchRight(history, cut) ==
  LET lines    == Lines(history)
      read     == Read(SubSeq(lines, 1, cut))
      expected == Additions(history)
  IN  /\ cut = Len(lines) => read.out = expected
      /\ IsPrefix([i \in DOMAIN read.out |-> Texts(read.out[i])],
                  [i \in DOMAIN expected |-> Texts(expected[i])])
      /\ \E parsed \in {ParsedAdditions(SubSeq(lines, 1, cut))} :
           IsPrefix(parsed, read.out) /\ (cut = Len(lines) => parsed = read.out)
      /\ read.err = IF cut > 0 /\ Open(lines[cut]) THEN "unexpected EOF" ELSE "none"

-----------------------------------------------------------------------------
(* sources/pre_receive.go: which commits git log is asked for when a       *)
(* pre-receive hook scans a push. The ref updates of a push become its     *)
(* arguments; git is external: of "a..b", "c" and "--not --all" together   *)
(* it lists what is reachable from b or c, and neither from a nor from any *)
(* ref. The hook runs before the refs move.                                *)
(*                                                                         *)
(* A push p has parents (the commits with those of each), resolve (what an *)
(* object peels to, "none" if it is no commit or git cannot tell), refs    *)
(* (the objects that refs point to) and updates (from old to new; "zero"   *)
(* is no object, "invalid" no object name).                                *)

Reachable(p, commits) ==
  LET next(c) == c \cup UNION {p.parents[d] : d \in c}
      within[k \in 0 .. Cardinality(DOMAIN p.parents)] ==
        IF k = 0 THEN commits ELSE next(within[k - 1])
  IN  within[Cardinality(DOMAIN p.parents)]

(* The arguments that an update adds: [tips, bounds, create].              *)
Nothing == [tips |-> {}, bounds |-> {}, create |-> FALSE]
Valid(u) == u.new \notin {"zero", "invalid"} /\ u.old # "invalid"

(* Mutant: an old value that is no commit ends the update.                 *)
ArgsNeedOld(p, u) ==
  IF ~Valid(u) \/ p.resolve[u.new] = "none" THEN Nothing
  ELSE IF u.old = "zero" THEN [tips |-> {p.resolve[u.new]}, bounds |-> {}, create |-> TRUE]
  ELSE IF p.resolve[u.old] = "none" THEN Nothing
  ELSE [tips |-> {p.resolve[u.new]}, bounds |-> {p.resolve[u.old]}, create |-> FALSE]

(* Mutant: it is left out, and nothing else bounds the update.             *)
ArgsUnbounded(p, u) ==
  IF ~Valid(u) \/ p.resolve[u.new] = "none" THEN Nothing
  ELSE [tips |-> {p.resolve[u.new]},
        bounds |-> {p.resolve[o] : o \in {u.old} \ {"zero"}} \ {"none"},
        create |-> u.old = "zero"]

Args(p, u) ==
  IF ~Valid(u) \/ p.resolve[u.new] = "none" THEN Nothing
  ELSE IF u.old = "zero" \/ p.resolve[u.old] = "none"
  THEN [tips |-> {p.resolve[u.new]}, bounds |-> {}, create |-> TRUE]
  ELSE [tips |-> {p.resolve[u.new]}, bounds |-> {p.resolve[u.old]}, create |-> FALSE]

Commits(p, objects) == {p.resolve[o] : o \in objects} \ {"none"}

(* PreReceiveLogArgs: one "--not --all" for all updates.                   *)
Selected(p) ==
  LET args   == {Args(p, u) : u \in ToSet(p.updates)}
      bounds == UNION {a.bounds : a \in args}
                \cup IF \E a \in args : a.create THEN Commits(p, p.refs) ELSE {}
  IN  Reachable(p, UNION {a.tips : a \in args}) \ Reachable(p, bounds)

-----------------------------------------------------------------------------
(* Every commit that a push brings into the repository is scanned, through *)
(* whichever of its updates it comes; and nothing else is that a ref it    *)
(* updates had, or, if it creates a ref, any ref.                          *)
PushRight(p) ==
  LET pushed == Commits(p, {u.new : u \in {v \in ToSet(p.updates) : Valid(v)}})
      known  == Reachable(p, Commits(p, p.refs))
      before == {u.old : u \in {v \in ToSet(p.updates) : Valid(v)}} \ {"zero"}
      create == \E u \in ToSet(p.updates) :
                  Valid(u) /\ p.resolve[u.new] # "none"
                  /\ (u.old = "zero" \/ p.resolve[u.old] = "none")
  IN  (* git reports as old what the refs are *) before \subseteq p.refs =>
        /\ Reachable(p, pushed) \ known \subseteq Selected(p)
        /\ Selected(p) \subseteq Reachable(p, pushed)
        /\ create => Selected(p) \cap known = {}
        /\ \A u \in ToSet(p.updates) :
             Valid(u) /\ p.resolve[u.new] # "none" /\ u.old # "zero" =>
               Selected(p) \cap Reachable(p, Commits(p, {u.old})) = {}
=============================================================================
