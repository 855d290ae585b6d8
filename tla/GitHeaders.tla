----------------------------- MODULE GitHeaders -----------------------------
(***************************************************************************)
(* What git log says of a patch before its hunks: the names and the kind   *)
(* of change in a file's header (internal/gitdiff/file_header.go,          *)
(* sources/git_patch.go), the commit in the preamble (patch_header.go),    *)
(* and the options it is asked with (sources/git.go).                      *)
(*                                                                         *)
(* A text is a sequence of characters: letters, "/", " ", "\\", "tab" and  *)
(* "q", a double quote. Names are read under the prefixes a/ and b/.       *)
(***************************************************************************)
EXTENDS Integers, SequencesExt

From(text, i) == SubSeq(text, i, Len(text))
Up(text, i)   == SubSeq(text, 1, i)
IsSpace(c)    == c \in {" ", "tab"}

(* Index: the first place of a character, or 0.                            *)
IndexOf(text, c) == SelectInSeq(text, LAMBDA d : d = c)

-----------------------------------------------------------------------------
(* External: git quotes a name that has special characters, and marks the  *)
(* end of one with spaces in a --- or +++ line.                            *)
Escaped(c) == CASE c = "q" -> <<"\\", "q">> [] c = "\\" -> <<"\\", "\\">>
                [] c = "tab" -> <<"\\", "t">> [] OTHER -> <<c>>

GitName(prefix, name) ==
  IF ToSet(name) \cap {"q", "\\", "tab"} = {} THEN prefix \o name
  ELSE <<"q">> \o FlattenSeq([i \in DOMAIN (prefix \o name) |-> Escaped((prefix \o name)[i])])
              \o <<"q">>

InA == <<"a", "/">>
InB == <<"b", "/">>
DevNull == <<"/", "d", "e", "v", "/", "n", "u", "l", "l">>

Sided(prefix, name) ==
  GitName(prefix, name) \o SelectSeq(<<"tab">>, LAMBDA c : " " \in ToSet(name))

(* A change: its kind, the names before and after, whether it has hunks.   *)
Written(change) ==
  LET kind  == change.kind
      Line(class, text) == [class |-> class, text |-> text]
      Names(class) == << Line(class \o " from", GitName(<<>>, change.old)),
                         Line(class \o " to", GitName(<<>>, change.new)) >>
  IN  << Line("diff", GitName(InA, change.old) \o <<" ">> \o GitName(InB, change.new)) >>
      \o CASE kind = "create" -> << Line("created", <<>>) >>
           [] kind = "delete" -> << Line("deleted", <<>>) >>
           [] kind = "mode"   -> << Line("mode", <<>>) >>
           [] kind = "modify" -> <<>>
           [] OTHER           -> << Line("score", <<>>) >> \o Names(kind)
      \o IF change.hunks
         THEN << Line("index", <<>>),
                 Line("old", IF kind = "create" THEN DevNull ELSE Sided(InA, change.old)),
                 Line("new", IF kind = "delete" THEN DevNull ELSE Sided(InB, change.new)) >>
         ELSE <<>>

-----------------------------------------------------------------------------
(* parseGitScanHeader writes an escaped backslash as an octal escape, so   *)
(* that a quote after it is not taken for an escaped one.                  *)
RECURSIVE Octal(_)
Octal(text) ==
  IF Len(text) < 2 THEN text
  ELSE IF text[1] = "\\" /\ text[2] = "\\" THEN <<"\\", "1", "3", "4">> \o Octal(From(text, 3))
  ELSE <<text[1]>> \o Octal(Tail(text))

(* Mutant: the header is read as git wrote it.                             *)
AsWritten(text) == text

Prepared(text) == Octal(text)

Failed == [ok |-> FALSE, name |-> <<>>, next |-> 0]
Name(name, next) == [ok |-> TRUE, name |-> name, next |-> next]

(* External: strconv.Unquote of what stands between the quotes.            *)
RECURSIVE Unquoted(_)
Unquoted(text) ==
  CASE text = <<>> -> Name(<<>>, 0)
    [] Head(text) = "q" -> Failed
    [] Head(text) # "\\" -> LET rest == Unquoted(Tail(text))
                            IN  [rest EXCEPT !.name = <<Head(text)>> \o @]
    [] Len(text) >= 4 /\ SubSeq(text, 1, 4) = <<"\\", "1", "3", "4">> ->
         LET rest == Unquoted(From(text, 5)) IN [rest EXCEPT !.name = <<"\\">> \o @]
    [] Len(text) > 1 /\ text[2] \in {"q", "\\", "t"} ->
         LET rest == Unquoted(From(text, 3))
         IN  [rest EXCEPT !.name = <<IF text[2] = "t" THEN "tab" ELSE text[2]>> \o @]
    [] OTHER -> Failed

(* parseQuotedName: up to the first quote that no backslash precedes.      *)
QuotedName(text) ==
  LET ends == {i \in 2 .. Len(text) : text[i] = "q" /\ text[i - 1] # "\\"}
      end  == IF ends = {} THEN Len(text) ELSE Min(ends)
      name == Unquoted(IF end < 2 THEN <<>> ELSE SubSeq(text, 2, end - 1))
  IN  IF end = 2 \/ ends = {} THEN Failed ELSE [name EXCEPT !.next = end + 1]

(* cleanName: double slashes are one, and the first component is dropped.  *)
Clean(name, drop) ==
  LET single == SelectSeq([i \in DOMAIN name |-> i],
                          LAMBDA i : ~(name[i] = "/" /\ i < Len(name) /\ name[i + 1] = "/"))
      clean  == [k \in DOMAIN single |-> name[single[k]]]
  IN  IF drop /\ IndexOf(clean, "/") > 0 THEN From(clean, IndexOf(clean, "/") + 1) ELSE clean

(* parseName; an unquoted name ends at a tab where one may follow it.      *)
ParseName(text, ended, drop) ==
  LET tab  == IF ended THEN IndexOf(text, "tab") ELSE 0
      name == IF text # <<>> /\ text[1] = "q" THEN QuotedName(text)
              ELSE IF text = <<>> \/ tab = 1 THEN Failed
              ELSE Name(IF tab = 0 THEN text ELSE Up(text, tab - 1), tab)
  IN  IF name.name = DevNull THEN name ELSE [name EXCEPT !.name = Clean(@, drop)]

(* trimTreePrefix                                                          *)
Trimmed(name) == IF IndexOf(name, "/") = 0 THEN <<>> ELSE From(name, IndexOf(name, "/") + 1)

(* parseGitHeaderName, both names unquoted: the first split into two equal *)
(* names.                                                                  *)
EqualHalves(names) ==
  LET splits == {i \in 1 .. Len(names) - 1 :
                   IsSpace(names[i]) /\ Up(names, i - 1) = Trimmed(From(names, i + 1))}
  IN  Name(IF splits = {} THEN <<>> ELSE Up(names, Min(splits) - 1), 0)

IfEqual(first, second) ==
  IF ~first.ok \/ ~second.ok THEN Failed
  ELSE Name(IF Trimmed(first.name) = Trimmed(second.name) THEN Trimmed(first.name) ELSE <<>>, 0)

AfterSpaces(text, i) ==
  LET others == {k \in i .. Len(text) : ~IsSpace(text[k])}
  IN  IF others = {} THEN <<>> ELSE From(text, Min(others))

HeaderName(text) ==
  LET quote == IndexOf(text, "q")
      first == QuotedName(text)
      rest  == AfterSpaces(text, first.next)
  IN  IF quote = 0 THEN EqualHalves(Trimmed(text))
      ELSE IF quote > 1
      THEN IF ~IsSpace(text[quote - 1]) THEN Failed
           ELSE IfEqual(Name(Up(text, quote - 2), 0), QuotedName(From(text, quote)))
      ELSE IF ~first.ok THEN Failed
      ELSE IF rest = <<>> THEN Name(<<>>, 0)
      ELSE IfEqual(first, IF rest[1] = "q" THEN QuotedName(rest) ELSE Name(rest, 0))

-----------------------------------------------------------------------------
NewFile == [ok |-> TRUE, old |-> <<>>, new |-> <<>>, kind |-> "modify"]

(* parseGitHeaderOldName, parseGitHeaderNewName, verifyGitHeaderName: a    *)
(* name that is not yet set is set, any other is verified.                 *)
Verified(name, known, absent) ==
  /\ name.ok
  /\ known # <<>> => ~absent /\ known = name.name
  /\ absent => name.name = DevNull

OldName(f, name) ==
  IF f.old = <<>> /\ f.kind # "create" THEN [f EXCEPT !.old = name.name, !.ok = @ /\ name.ok]
  ELSE [f EXCEPT !.ok = @ /\ Verified(name, f.old, f.kind = "create")]

NewName(f, name) ==
  IF f.new = <<>> /\ f.kind # "delete" THEN [f EXCEPT !.new = name.name, !.ok = @ /\ name.ok]
  ELSE [f EXCEPT !.ok = @ /\ Verified(name, f.new, f.kind = "delete")]

(* parseGitHeaderData: one line.                                           *)
HeaderData(f, line, default) ==
  LET plain == ParseName(line.text, FALSE, FALSE) IN
  CASE line.class = "old"     -> OldName(f, ParseName(line.text, TRUE, TRUE))
    [] line.class = "new"     -> NewName(f, ParseName(line.text, TRUE, TRUE))
    [] line.class = "created" -> [f EXCEPT !.kind = "create", !.new = default]
    [] line.class = "deleted" -> [f EXCEPT !.kind = "delete", !.old = default]
    [] line.class \in {"rename from", "copy from"} ->
         [f EXCEPT !.kind = IF line.class = "copy from" THEN "copy" ELSE "rename",
                   !.old = plain.name, !.ok = @ /\ plain.ok]
    [] line.class \in {"rename to", "copy to"} ->
         [f EXCEPT !.kind = IF line.class = "copy to" THEN "copy" ELSE "rename",
                   !.new = plain.name, !.ok = @ /\ plain.ok]
    [] OTHER -> f

(* ParseGitFileHeader: the names of the diff line are those of a file that *)
(* no other line names.                                                    *)
Completed(f, default) ==
  LET named == IF f.old = <<>> /\ f.new = <<>> THEN [f EXCEPT !.old = default, !.new = default] ELSE f
  IN  [named EXCEPT !.ok = /\ @
                           /\ named.new # <<>> \/ named.kind = "delete"
                           /\ named.old # <<>> \/ named.kind = "create"]

ParseFileHeader(lines) ==
  LET text    == [i \in DOMAIN lines |-> [lines[i] EXCEPT !.text = Prepared(@)]]
      default == HeaderName(text[1].text)
  IN  IF ~default.ok THEN [NewFile EXCEPT !.ok = FALSE]
      ELSE Completed(FoldLeft(LAMBDA f, line : HeaderData(f, line, default.name), NewFile, Tail(text)),
                     default.name)

(* What git writes of a change is read back: no name is mistaken for       *)
(* another, whatever it consists of, and no header is refused. (A change   *)
(* of the mode is read as any other modification.)                         *)
HeaderRight(change) ==
  ParseFileHeader(Written(change)) =
    [ok   |-> TRUE,
     old  |-> IF change.kind = "create" THEN <<>> ELSE change.old,
     new  |-> IF change.kind = "delete" THEN <<>> ELSE change.new,
     kind |-> IF change.kind = "mode" THEN "modify" ELSE change.kind]
-----------------------------------------------------------------------------
(* The commit before its files: a line with its name, fields, an empty     *)
(* line and the message, each line of it indented by four spaces.          *)
Indent == <<" ", " ", " ", " ">>

(* External: git log of the format medium.                                 *)
Shown(commit) ==
  << [class |-> "commit", text |-> commit.sha] >>
  \o SelectSeq(<< [class |-> "merge", text |-> <<"x">>] >>, LAMBDA line : commit.merge)
  \o << [class |-> "author", text |-> commit.name \o <<" ", "<">> \o commit.email \o <<">">>],
        [class |-> "date", text |-> commit.date], [class |-> "", text |-> <<>>] >>
  \o [i \in DOMAIN commit.message |-> [class |-> "", text |-> Indent \o commit.message[i]]]

(* strings.TrimSpace, strings.TrimRightFunc                                *)
Solid(text) == {i \in DOMAIN text : ~IsSpace(text[i])}
TrimRight(text) == IF Solid(text) = {} THEN <<>> ELSE Up(text, Max(Solid(text)))
TrimSpace(text) == IF Solid(text) = {} THEN <<>> ELSE From(TrimRight(text), Min(Solid(text)))

(* ParsePatchIdentity                                                      *)
Identity(text) ==
  LET open  == IndexOf(text, "<")
      ends  == {i \in open .. Len(text) : open > 0 /\ text[i] = ">"}
      close == IF ends = {} THEN 0 ELSE Min(ends)
  IN  [ok    |-> open = 0 \/ close > 0,
       name  |-> IF open = 0 THEN <<>> ELSE TrimSpace(Up(text, open - 1)),
       email |-> IF close = 0 THEN <<>> ELSE TrimSpace(SubSeq(text, open + 1, close - 1))]

IsBlank(line) == Solid(line.text) = {}
FirstBlank(lines) == LET blank == SelectInSeq(lines, IsBlank) IN IF blank = 0 THEN Len(lines) + 1 ELSE blank

(* scanMessageTitle: a paragraph as one line.                              *)
Title(lines) ==
  FoldLeft(LAMBDA title, line : title \o (IF title = <<>> THEN <<>> ELSE <<" ">>) \o TrimSpace(line.text),
           <<>>, lines)

(* scanMessageBody: the lines without the title's indentation, and at most *)
(* one empty line between two of them.                                     *)
Undented(text, indent) ==
  IF Len(text) >= Len(indent) /\ Up(text, Len(indent)) = indent THEN From(text, Len(indent) + 1) ELSE text

Body(lines, indent) ==
  LET Line(body, line) ==
        LET text == Undented(TrimRight(line.text), indent)
        IN  IF text = <<>> THEN [body EXCEPT !.empty = TRUE]
            ELSE [empty |-> FALSE,
                  lines |-> IF body.empty /\ body.lines # <<>> THEN body.lines \o << <<>>, text >>
                            ELSE Append(body.lines, text)]
  IN  FoldLeft(Line, [empty |-> FALSE, lines |-> <<>>], lines).lines

(* parseHeaderPretty: the fields, up to an empty line, and the message.    *)
ParsePatchHeader(lines) ==
  LET fields  == Up(lines, FirstBlank(lines) - 1)
      message == From(lines, FirstBlank(lines) + 1)
      title   == Up(message, FirstBlank(message) - 1)
      author  == Identity(fields[SelectInSeq(fields, LAMBDA line : line.class = "author")].text)
      indent  == Up(message[1].text, Min(Solid(message[1].text)) - 1)
  IN  [ok   |-> author.ok, sha |-> Head(lines).text, name |-> author.name, email |-> author.email,
       date |-> fields[SelectInSeq(fields, LAMBDA line : line.class = "date")].text,
       title |-> Title(title),
       body  |-> IF Title(title) = <<>> THEN <<>> ELSE Body(From(message, FirstBlank(message) + 1), indent)]

(* A commit is shown with its own name, author and date, its first         *)
(* paragraph as the title, and all other lines of its message in order.    *)
(* (The first line of the message is not indented.)                        *)
CommitRight(commit) ==
  LET read  == ParsePatchHeader(Shown(commit))
      trim  == [i \in DOMAIN commit.message |-> TrimRight(commit.message[i])]
      blank == SelectInSeq(trim, LAMBDA text : text = <<>>)
      first == IF blank = 0 THEN trim ELSE Up(trim, blank - 1)
      Texts(lines) == SelectSeq(lines, LAMBDA text : text # <<>>)
      Letters(text) == SelectSeq(text, LAMBDA c : ~IsSpace(c))
  IN  /\ read.ok
      /\ <<read.sha, read.name, read.email, read.date>> =
           <<commit.sha, commit.name, commit.email, commit.date>>
      /\ Letters(read.title) = Letters(FlattenSeq(first))
      /\ Texts(read.body) = Texts(From(trim, Len(first) + 1))
      /\ \A i \in DOMAIN read.body : read.body[i] = <<>> => i > 1 /\ read.body[i - 1] # <<>>

-----------------------------------------------------------------------------
(* splitGitLogOpts: words, quotes of two kinds and escapes.                *)
NoOptions == [args |-> <<>>, word |-> <<>>, quote |-> "none", escaped |-> FALSE]

Flushed(o) == IF o.word = <<>> THEN o ELSE [o EXCEPT !.args = Append(@, o.word), !.word = <<>>]

Option(o, c) ==
  CASE o.escaped -> [o EXCEPT !.word = Append(@, c), !.escaped = FALSE]
    [] ~o.escaped /\ c = "\\" /\ o.quote # "'" -> [o EXCEPT !.escaped = TRUE]
    [] ~o.escaped /\ c \in {"'", "q"} /\ o.quote \in {"none", c} ->
         [o EXCEPT !.quote = IF @ = c THEN "none" ELSE c]
    [] ~o.escaped /\ IsSpace(c) /\ o.quote = "none" -> Flushed(o)
    [] OTHER -> [o EXCEPT !.word = Append(@, c)]

SplitLogOpts(text) ==
  LET o == FoldLeft(Option, NoOptions, text)
  IN  [ok |-> ~o.escaped /\ o.quote = "none", args |-> Flushed(o).args]

(* newGitLogCmd: the program's own format comes after the user's options   *)
(* and before the paths.                                                   *)
Format == <<"format">>
Dashes == <<"-", "-">>
LogArgs(args) ==
  LET end == SelectInSeq(args, LAMBDA arg : arg = Dashes)
  IN  IF end = 0 THEN Append(args, Format) ELSE Up(args, end - 1) \o <<Format>> \o From(args, end)

(* External: how a user may quote a word.                                  *)
QuotedAs(style, word) ==
  LET Guard(c) == IF c \in {"\\", "'", "q", " "} THEN <<"\\", c>> ELSE <<c>>
      Inner(c) == IF c \in {"\\", "q"} THEN <<"\\", c>> ELSE <<c>>
      Each(F(_)) == FlattenSeq([i \in DOMAIN word |-> F(word[i])])
  IN  CASE style = "escape" -> Each(Guard)
        [] style = "double" -> <<"q">> \o Each(Inner) \o <<"q">>
        [] OTHER            -> <<"'">> \o word \o <<"'">>

(* Words are read as they were quoted, whatever they consist of; what ends *)
(* inside of a quote is refused; and no option comes after the format.     *)
OptionsRight(first, second, style, cut) ==
  LET args == <<first, second>>
      text == QuotedAs(style, first) \o <<" ">> \o QuotedAs(style, second)
      all  == LogArgs(args)
      at   == SelectInSeq(all, LAMBDA arg : arg = Format)
  IN  /\ SplitLogOpts(text) = [ok |-> TRUE, args |-> args]
      /\ style # "escape" /\ cut \in 1 .. Len(QuotedAs(style, first)) - 1
           => ~SplitLogOpts(Up(text, cut)).ok
      /\ SelectSeq(all, LAMBDA arg : arg # Format) = args
      /\ \A i \in DOMAIN all : i > at => Dashes \in ToSet(SubSeq(all, at + 1, i))
=============================================================================
