--------------------------- MODULE ContextWindow ----------------------------
(***************************************************************************)
(* internal/contextwindow: what surrounds a match, asked for in lines and  *)
(* columns before and after it. The same grammar selects the context that  *)
(* a finding shows (--match-context) and the components that belong to it  *)
(* (within); scan/scanner.go withinProximity decides the latter from lines *)
(* and columns, without the text.                                          *)
(*                                                                         *)
(* Offsets count from 0, a range <<a, b>> is a .. b - 1, and a text is     *)
(* known by its length n and its newlines, as in TextPositions. A token of *)
(* the grammar has a side ("-", "+" or ""), an amount and a unit.          *)
(***************************************************************************)
EXTENDS Integers, FiniteSetsExt, SequencesExt

Positions == INSTANCE TextPositions

(* Parse. The line of the match counts as one of the lines.                *)
Amount(t) == IF t.unit = "L" THEN Max({t.amount - 1, 0}) ELSE t.amount
Side(tokens, unit, side) ==
  Max({0} \cup {Amount(t) : t \in {u \in ToSet(tokens) : u.unit = unit /\ u.side \in {"", side}}})

Parse(tokens) ==
  [mode |-> CASE tokens = <<>> -> "none"
              [] \E t \in ToSet(tokens) : t.unit = "L" -> "box"
              [] OTHER -> "cols",
   colsBefore  |-> Side(tokens, "C", "-"), colsAfter  |-> Side(tokens, "C", "+"),
   linesBefore |-> Side(tokens, "L", "-"), linesAfter |-> Side(tokens, "L", "+")]

-----------------------------------------------------------------------------
LastNewline(newlines, before) == Max({-1} \cup {i \in newlines : i < before})
NextNewline(newlines, from, n) == Min({n} \cup {i \in newlines : from <= i})

(* The two loops of extractBox.                                            *)
ContextStart(newlines, match, spec) ==
  LET start[k \in 0 .. spec.linesBefore] ==
        IF k = 0 THEN LastNewline(newlines, match[1]) + 1
        ELSE IF start[k - 1] = 0 THEN 0
        ELSE LastNewline(newlines, start[k - 1] - 1) + 1
  IN  start[spec.linesBefore]

ContextEnd(newlines, n, match, spec) ==
  LET end[k \in 0 .. spec.linesAfter] ==
        IF k = 0 THEN NextNewline(newlines, match[2], n)
        ELSE IF end[k - 1] = n THEN n
        ELSE NextNewline(newlines, end[k - 1] + 1, n)
  IN  end[spec.linesAfter]

(* The lines of a range, without their newlines.                           *)
Split(newlines, range) ==
  LET cuts == SetToSortSeq({i \in newlines : range[1] <= i /\ i < range[2]}, <)
  IN  [k \in 1 .. Len(cuts) + 1 |->
         << IF k = 1 THEN range[1] ELSE cuts[k - 1] + 1,
            IF k > Len(cuts) THEN range[2] ELSE cuts[k] >>]

(* Mutant: the columns after count from the beginning of the match.        *)
ClipFromStart(line, column, size, spec) ==
  LET clipStart == Max({column - spec.colsBefore, 0})
      from == IF line[2] - line[1] <= clipStart THEN 0 ELSE clipStart
  IN  << line[1] + from, Min({line[1] + column + spec.colsAfter, line[2]}) >>

(* "Column clipping only makes sense for single-line matches." A line that *)
(* is too short for the clip is kept from its beginning.                   *)
Clip(line, column, size, spec) ==
  LET clipStart == Max({column - spec.colsBefore, 0})
      from == IF line[2] - line[1] <= clipStart THEN 0 ELSE clipStart
  IN  << line[1] + from, Min({line[1] + column + size + spec.colsAfter, line[2]}) >>

(* Extract, as the ranges of text whose lines are joined again.            *)
Extract(newlines, n, match, spec) ==
  CASE spec.mode = "cols" ->
         << <<Max({match[1] - spec.colsBefore, 0}), Min({match[2] + spec.colsAfter, n})>> >>
    [] spec.mode = "box" ->
         LET lines  == Split(newlines, <<ContextStart(newlines, match, spec),
                                         ContextEnd(newlines, n, match, spec)>>)
             column == match[1] - (LastNewline(newlines, match[1]) + 1)
             single == \A i \in newlines : i \notin match[1] .. match[2] - 1
         IN  IF single /\ (spec.colsBefore > 0 \/ spec.colsAfter > 0)
             THEN [k \in DOMAIN lines |-> Clip(lines[k], column, match[2] - match[1], spec)]
             ELSE lines

(* withinProximity, for the locations of a primary and of a component.     *)
Within(newlines, n, primary, component, spec) ==
  LET offsets == Positions!LineOffsets(newlines, n)
      p == Positions!Location(offsets, n, primary)
      c == Positions!Location(offsets, n, component)
  IN  CASE spec.mode = "none" -> TRUE
        [] spec.mode = "cols" ->
             LET start == Positions!StartOffset(offsets, c) IN
             /\ Max({Positions!StartOffset(offsets, p) - spec.colsBefore, 0}) <= start
             /\ start < Min({Positions!EndOffset(offsets, p) + spec.colsAfter, n})
        [] spec.mode = "box" ->
             /\ c.startLine \in p.startLine - spec.linesBefore .. p.endLine + spec.linesAfter
             /\ p.startLine = p.endLine /\ (spec.colsBefore > 0 \/ spec.colsAfter > 0) =>
                  c.startColumn - 1 \in Max({p.startColumn - 1 - spec.colsBefore, 0})
                                        .. p.endColumn + spec.colsAfter - 1

-----------------------------------------------------------------------------
Trimmed(newlines, match) == match[1] \notin newlines /\ match[2] - 1 \notin newlines

(* A finding's context holds its match, and lines that are all near it;    *)
(* and the components that belong to it are those that begin in the        *)
(* context which the same window shows: lines and columns alone decide as  *)
(* the text does. Only of a line that is too short for the columns more is *)
(* shown, namely its beginning.                                            *)
ContextRight(newlines, n, tokens, match, component) ==
  LET spec   == Parse(tokens)
      ranges == Extract(newlines, n, match, spec)
      shown  == UNION {ranges[k][1] .. ranges[k][2] - 1 : k \in DOMAIN ranges}
      column == match[1] - (LastNewline(newlines, match[1]) + 1)
      short  == UNION {ranges[k][1] .. ranges[k][2] - 1 :
                         k \in {j \in DOMAIN ranges :
                           /\ spec.colsBefore + spec.colsAfter > 0 /\ spec.mode = "box"
                           /\ ranges[j][1] = LastNewline(newlines, ranges[j][1]) + 1
                           /\ ranges[j][2] - ranges[j][1] <= column - spec.colsBefore}}
  IN  spec.mode # "none" /\ Trimmed(newlines, match) /\ Trimmed(newlines, component) =>
        /\ match[1] .. match[2] - 1 \subseteq shown \cup newlines
        /\ Within(newlines, n, match, component, spec) => component[1] \in shown
        /\ component[1] \in shown \ short => Within(newlines, n, match, component, spec)
=============================================================================
