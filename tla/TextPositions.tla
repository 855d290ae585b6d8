--------------------------- MODULE TextPositions ----------------------------
(***************************************************************************)
(* Where a match is: scan/location.go turns offsets into lines and         *)
(* columns, scan/scanner.go turns those back into offsets to tell what is  *)
(* near, and internal/codec finds and decodes what is encoded in a text    *)
(* and maps what was found in decoded text back to the encoded text it     *)
(* came from, through every pass.                                          *)
(*                                                                         *)
(* Offsets count from 0; a range <<a, b>> is a .. b - 1. A text is known   *)
(* by its length n and the offsets of its newlines.                        *)
(***************************************************************************)
EXTENDS Integers, FiniteSetsExt, SequencesExt

(* computeLineOffsets: none after a newline that ends the text.            *)
LineOffsets(newlines, n) ==
  SetToSortSeq({0} \cup {i + 1 : i \in {j \in newlines : j + 1 < n}}, <)

(* offsetToLineNumber, a binary search.                                    *)
LineNumber(offsets, offset) == Cardinality({i \in DOMAIN offsets : offsets[i] <= offset})

(* Mutant: the end of the match is looked up one byte too early.           *)
LocationOfLast(offsets, n, match) ==
  LET startLine == LineNumber(offsets, match[1])
      endLine   == LineNumber(offsets, IF match[2] = 0 THEN 0 ELSE match[2] - 1)
  IN  [startLine |-> startLine, endLine |-> endLine,
       startColumn |-> match[1] - offsets[startLine] + 1,
       endColumn |-> match[2] - offsets[endLine],
       lines |-> <<offsets[startLine], IF endLine < Len(offsets) THEN offsets[endLine] ELSE n>>]

Location(offsets, n, match) ==
  LET startLine == LineNumber(offsets, match[1])
      endLine   == LineNumber(offsets, match[2])
  IN  [startLine |-> startLine, endLine |-> endLine,
       startColumn |-> match[1] - offsets[startLine] + 1,
       endColumn |-> match[2] - offsets[endLine],
       lines |-> <<offsets[startLine], IF endLine < Len(offsets) THEN offsets[endLine + 1] ELSE n>>]

(* findingStartOffset, findingEndOffset                                    *)
StartOffset(offsets, loc) == offsets[loc.startLine] + loc.startColumn - 1
EndOffset(offsets, loc)   == offsets[loc.endLine] + loc.endColumn

(* detectFragmentWithRule: the text that is reported is the match without  *)
(* the newlines at its ends, and the place it is reported at as long.      *)
Text(newlines, match) ==
  LET kept == (match[1] .. match[2] - 1) \ newlines
  IN  IF kept = {} THEN <<match[1], match[1]>> ELSE <<Min(kept), Max(kept) + 1>>
MatchIndex(newlines, match) ==
  LET text == Text(newlines, match) IN <<match[1], match[1] + text[2] - text[1]>>

(* The lines a match is said to be on hold the text reported, and are whole*)
(* lines; line and column name its first byte and its end, as they do when *)
(* a component is compared with them. The exception is a match that begins *)
(* with newlines: its place still begins with them, and ends as many bytes *)
(* before the text does.                                                   *)
LocationRight(newlines, n, match) ==
  LET offsets == LineOffsets(newlines, n)
      text    == Text(newlines, match)
      ahead   == text[1] - match[1]
      loc     == Location(offsets, n, MatchIndex(newlines, match))
  IN  /\ loc.startLine = 1 + Cardinality({i \in newlines : i < match[1]})
      /\ loc.lines[1] <= text[1] /\ (ahead = 0 => text[2] <= loc.lines[2])
      /\ loc.lines[1] = 0 \/ loc.lines[1] - 1 \in newlines
      /\ loc.lines[2] = n \/ loc.lines[2] - 1 \in newlines
      /\ StartOffset(offsets, loc) = match[1] /\ EndOffset(offsets, loc) = text[2] - ahead

-----------------------------------------------------------------------------
(* internal/codec/start_end.go                                             *)
Overlaps(r, s) == s[1] <= r[2] /\ s[2] >= r[1]
Encloses(r, s) == r[1] <= s[1] /\ s[2] <= r[2]
Joined(r, s)   == <<Min({r[1], s[1]}), Max({r[2], s[2]})>>
Plus(r, s)     == <<r[1] + s[1], r[2] + s[2]>>
Overflow(r, s) == <<Joined(r, s)[1] - r[1], Joined(r, s)[2] - r[2]>>

(* toOriginal: passes holds the segments of every pass up to the one the   *)
(* range is in. A range inside a segment stands for all of it; one that    *)
(* goes beyond is moved with the segments it meets, one pass at a time.    *)
RECURSIVE ToOriginal(_, _)
ToOriginal(passes, range) ==
  IF passes = <<>> \/ Last(passes) = <<>> THEN range
  ELSE
    LET segments == SelectSeq(Last(passes), LAMBDA p : Overlaps(p.decoded, range))
        inside   == {i \in DOMAIN segments : Encloses(segments[i].decoded, range)}
        moved    == {Plus(p.encoded, Overflow(p.decoded, range)) : p \in ToSet(segments)}
    IN  IF inside # {} THEN segments[Min(inside)].original
        ELSE IF segments = <<>> THEN range
        ELSE ToOriginal(Front(passes), FoldSet(Joined, CHOOSE r \in moved : TRUE, moved))

(* Mutant: the sizes of earlier segments do not shift the later ones.      *)
DecodeUnshifted(passes, found) ==
  [i \in DOMAIN found |->
     [encoded  |-> found[i].range,
      original |-> ToOriginal(passes, found[i].range),
      decoded  |-> <<found[i].range[1], found[i].range[1] + found[i].length>>]]

(* Decode: the encoded ranges of a pass, in order, with the lengths of     *)
(* what they decode to.                                                    *)
Decode(passes, found) ==
  LET shift == [i \in DOMAIN found |->
                  FoldLeft(LAMBDA sum, m : sum + m.length - (m.range[2] - m.range[1]), 0,
                           SubSeq(found, 1, i - 1))]
  IN  [i \in DOMAIN found |->
         [encoded  |-> found[i].range,
          original |-> ToOriginal(passes, found[i].range),
          decoded  |-> <<found[i].range[1] + shift[i], found[i].range[1] + shift[i] + found[i].length>>]]

(* SegmentsWithDecodedOverlap: a match of the last pass that meets none of *)
(* its segments was found before.                                          *)
IsNew(passes, match) == \E i \in DOMAIN Last(passes) : Overlaps(Last(passes)[i].decoded, match)

(* The reference: a text as the original ranges its bytes came from, all   *)
(* bytes of a decoded segment from the whole of it.                        *)
Plain(n) == [i \in 1 .. n |-> <<i - 1, i>>]
Hull(ranges) == FoldSet(Joined, CHOOSE r \in ranges : TRUE, ranges)
Origin(text, range) == Hull({text[i] : i \in range[1] + 1 .. range[2]})
DecodedText(text, found) ==
  LET from == [i \in 1 .. Len(found) + 1 |-> IF i = 1 THEN 0 ELSE found[i - 1].range[2]]
      upTo == [i \in 1 .. Len(found) + 1 |-> IF i > Len(found) THEN Len(text) ELSE found[i].range[1]]
  IN  FlattenSeq([i \in 1 .. Len(found) + 1 |->
        SubSeq(text, from[i] + 1, upTo[i])
        \o IF i > Len(found) THEN <<>>
           ELSE [k \in 1 .. found[i].length |-> Origin(text, found[i].range)]])

(* What is encoded in decoded text meets some of it: anything else would   *)
(* have been decoded in the pass before.                                   *)
Follows(one, second) ==
  \A m \in ToSet(second) : \E r \in ToSet(one) : Overlaps(r.decoded, m.range)

Grazes(r, s) == r[2] = s[1] \/ s[2] = r[1]

(* A match of the second pass is placed over all the bytes it was decoded  *)
(* from, those of the first pass included; and over nothing else, unless   *)
(* ranges lie side by side, which the code takes for an overlap.           *)
OriginRight(n, first, second, match) ==
  LET one    == Decode(<<>>, first)
      two    == Decode(<<one>>, second)
      middle == DecodedText(Plain(n), first)
      text   == DecodedText(middle, second)
      within == Origin(DecodedText(Plain(Len(middle)), second), match)
      place  == ToOriginal(<<one, two>>, match)
      apart  == /\ \A s \in ToSet(two) : ~Grazes(s.decoded, match)
                /\ \A r \in ToSet(one), s \in ToSet(two) :
                     ~Grazes(r.decoded, s.encoded) /\ ~Grazes(r.decoded, within)
  IN  Follows(one, second) /\ match[2] <= Len(text) /\ IsNew(<<one, two>>, match) =>
        /\ Encloses(place, Origin(text, match))
        /\ apart => place = Origin(text, match)

-----------------------------------------------------------------------------
(* findEncodingMatches, and what becomes of its matches. A text is a       *)
(* sequence of characters, indexed from 1: h is a hexadecimal digit, b     *)
(* another character of Base64, and "." is anything else, decoded values   *)
(* among it. One digit stands for the four of a code point, four for the   *)
(* 32 of a hexadecimal run, and two for the 16 of a Base64 run.            *)
HexRun == 4
Base64Run == 2
Base64Chars == {"h", "b", "U", "u", "+"}
Blanks == {" ", "nl"}

Fits(t, i, word) == i + Len(word) - 1 <= Len(t) /\ SubSeq(t, i, i + Len(word) - 1) = word
SkipAll(t, i, chars) == Min({k \in i .. Len(t) + 1 : k > Len(t) \/ t[k] \notin chars})

PercentAt(t, i) == Fits(t, i, <<"%", "h", "h">>)
(* Mutant: a code point need not end as a word. *)
PointAnywhere(t, i) == Fits(t, i, <<"U", "+", "h">>)
PointAt(t, i) == Fits(t, i, <<"U", "+", "h">>) /\ (i + 3 > Len(t) \/ t[i + 3] \in Blanks)
EscapeLength(t, i) ==
  CASE Fits(t, i, <<"\\", "\\", "u", "h">>) -> 4 [] Fits(t, i, <<"\\", "u", "h">>) -> 3 [] OTHER -> 0

(* The first of several escapes is not seen as one of two backslashes if   *)
(* the text ends with it.                                                  *)
StartsEscape(t, i) == EscapeLength(t, i) = 3 \/ (EscapeLength(t, i) = 4 /\ i + 4 <= Len(t))

PercentEnd(t, i) ==
  Max({k + 3 : k \in {j \in i .. Len(t) : PercentAt(t, j) /\ \A n \in i .. j : t[n] # "nl"}})

RECURSIVE PointsEnd(_, _)
PointsEnd(t, i) ==
  LET next == SkipAll(t, i + 3, Blanks) IN
  IF next > i + 3 /\ PointAt(t, next) THEN PointsEnd(t, next) ELSE i + 3

RECURSIVE EscapesEnd(_, _)
EscapesEnd(t, i) == IF EscapeLength(t, i) = 0 THEN i ELSE EscapesEnd(t, i + EscapeLength(t, i))

(* A run is hexadecimal, or may be Base64 by how it begins, or is passed   *)
(* over, and what is in it with it.                                        *)
RunKind(run) ==
  CASE ToSet(run) = {"h"} /\ Len(run) >= HexRun -> "hex"
    [] Len(run) >= Base64Run /\ run[1] = "b" -> "base64"
    [] OTHER -> "none"

Matched(kind, i, end) == [kind |-> kind, range |-> <<i, end>>]

MatchAt(t, i) ==
  IF PercentAt(t, i) THEN Matched("percent", i, PercentEnd(t, i))
  ELSE IF PointAt(t, i) THEN Matched("unicode", i, PointsEnd(t, i))
  ELSE IF StartsEscape(t, i) THEN Matched("unicode", i, EscapesEnd(t, i))
  ELSE IF t[i] \notin Base64Chars THEN Matched("none", i, i + 1)
  ELSE Matched(RunKind(SubSeq(t, i, SkipAll(t, i, Base64Chars) - 1)), i, SkipAll(t, i, Base64Chars))

RECURSIVE ScanFrom(_, _)
ScanFrom(t, i) ==
  IF i > Len(t) THEN <<>>
  ELSE LET m == CHOOSE one \in {MatchAt(t, i)} : TRUE IN <<m>> \o ScanFrom(t, m.range[2])

Precedence(kind) == CASE kind = "percent" -> 4 [] kind = "unicode" -> 3 [] kind = "hex" -> 2 [] OTHER -> 1

FindEncodingMatches(t) ==
  LET all == SelectSeq(ScanFrom(t, 1), LAMBDA m : m.kind # "none")
      Weaker(m, n) == Overlaps(m.range, n.range) /\ Precedence(n.kind) > Precedence(m.kind)
  IN  SelectSeq(all, LAMBDA m : \A i \in DOMAIN all :
        \/ ~Weaker(m, all[i])
        \/ ~\E j \in {i - 1, i + 1} \cap DOMAIN all : all[j] = m)

(* decodePercent, decodeUnicode: code points lose the blank between them.  *)
UnitLength(kind, w) ==
  CASE kind = "percent" -> IF PercentAt(w, 1) THEN 3 ELSE 0
    [] Fits(w, 1, <<"U", "+", "h", " ", "U", "+">>) -> 4
    [] Fits(w, 1, <<"U", "+", "h">>) -> 3
    [] OTHER -> EscapeLength(w, 1)

RECURSIVE Replaced(_, _)
Replaced(kind, w) ==
  IF w = <<>> THEN <<>>
  ELSE IF UnitLength(kind, w) = 0 THEN <<w[1]>> \o Replaced(kind, Tail(w))
  ELSE <<".">> \o Replaced(kind, SubSeq(w, UnitLength(kind, w) + 1, Len(w)))

(* Nothing is what a run decodes to that is not one of text.               *)
DecodedValue(kind, w) ==
  CASE kind = "hex" -> IF Len(w) % 2 = 0 THEN [i \in 1 .. Len(w) \div 2 |-> "."] ELSE <<>>
    [] kind = "base64" -> IF ToSet(w) = {"b"} THEN [i \in 1 .. Len(w) \div 2 |-> "."] ELSE <<>>
    [] OTHER -> Replaced(kind, w)

DecodePass(t) ==
  LET found == FindEncodingMatches(t)
      Of(m) == SubSeq(t, m.range[1], m.range[2] - 1)
      New(m) == LET value == DecodedValue(m.kind, Of(m)) IN IF value = <<>> THEN Of(m) ELSE value
      At(i) == IF \E m \in ToSet(found) : m.range[1] = i
               THEN New(CHOOSE m \in ToSet(found) : m.range[1] = i)
               ELSE IF \E m \in ToSet(found) : m.range[1] < i /\ i < m.range[2] THEN <<>> ELSE <<t[i]>>
  IN  FlattenSeq([i \in DOMAIN t |-> At(i)])

(* The reference: a text of pieces, which are encoded or plain.            *)
PieceText(p) ==
  CASE p = "escape" -> <<"\\", "u", "h">>
    [] p = "double" -> <<"\\", "\\", "u", "h">>
    [] p = "point"  -> <<"U", "+", "h">>
    [] p = "percent" -> <<"%", "h", "h">>
    [] p = "hex"    -> <<"h", "h", "h", "h">>
    [] p = "base64" -> <<"b", "b">>
    [] OTHER        -> <<p>>
Runs == {"point", "hex", "base64"}

(* A run is decoded that is of one encoding; a code point also has to end  *)
(* as a word.                                                              *)
Decodable(pieces, i) ==
  LET Run(j) == \A k \in (IF j < i THEN j .. i ELSE i .. j) : pieces[k] \in Runs IN
  CASE pieces[i] \in {"escape", "double", "percent"} -> TRUE
    [] pieces[i] = "point" ->
         (i = 1 \/ pieces[i - 1] \notin Runs) /\ (i = Len(pieces) \/ pieces[i + 1] \in Blanks)
    [] OTHER -> \A j \in DOMAIN pieces : Run(j) => pieces[j] = pieces[i]

Between(pieces, i) ==
  /\ pieces[i] = " " /\ i > 1 /\ i < Len(pieces)
  /\ \A j \in {i - 1, i + 1} : pieces[j] = "point" /\ Decodable(pieces, j)

PieceValue(pieces, i) ==
  CASE Between(pieces, i) -> <<>>
    [] pieces[i] \in Blanks \cup {"."} /\ ~Between(pieces, i) -> <<pieces[i]>>
    [] OTHER -> IF ~Decodable(pieces, i) THEN PieceText(pieces[i])
                ELSE IF pieces[i] = "hex" THEN <<".", ".">> ELSE <<".">>

TextOf(pieces) == FlattenSeq([i \in DOMAIN pieces |-> PieceText(pieces[i])])
ValueOf(pieces) == FlattenSeq([i \in DOMAIN pieces |-> PieceValue(pieces, i)])

(* Three passes decode all that is encoded, however the encodings lie      *)
(* beside and within each other, and nothing else. The exception is a text *)
(* that ends in an escape with two backslashes which no escape precedes:   *)
(* findEncodingMatches asks for a byte behind it (`i+7 < n`), finds the    *)
(* escape with one backslash in it instead, and the other one stays.       *)
EndsInDouble(pieces) ==
  /\ pieces # <<>> /\ Last(pieces) = "double"
  /\ Len(pieces) = 1 \/ pieces[Len(pieces) - 1] \notin {"escape", "double"}

DecodingRight(pieces) ==
  LET decoded == DecodePass(DecodePass(DecodePass(TextOf(pieces)))) IN
  IF EndsInDouble(pieces)
  THEN decoded = Front(ValueOf(pieces)) \o <<"\\", ".">>
  ELSE decoded = ValueOf(pieces)
=============================================================================
