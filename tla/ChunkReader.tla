---------------------------- MODULE ChunkReader ----------------------------
(***************************************************************************)
(* sources/reader.go, readerFragments with readUntilSafeBoundary           *)
(* (sources/common.go): a stream is cut into fragments that overlap in     *)
(* nothing and should be cut at blank lines, so that a secret of several   *)
(* lines stays in one of them.                                             *)
(*                                                                         *)
(* A byte is other text "x", a blank "s" or a newline "n". The reader      *)
(* below returns what it has at that moment, with its end (EOF or failure) *)
(* beside the last bytes or after them, or neither a byte nor an end, as   *)
(* an io.Reader may. bufio.Reader is external: filled bytes of the stream  *)
(* have been read into its buffer or past it, the loop has taken next of   *)
(* them, and held is an end that it still owes.                            *)
(***************************************************************************)
EXTENDS Integers, Sequences, FiniteSets

CONSTANTS
  Streams,   (* the streams to read: [bytes, end]                           *)
  ChunkSize, (* of the buffer a fragment is read into                       *)
  BufSize,   (* of bufio.Reader's own                                       *)
  MaxPeek    (* maxPeekSize                                                 *)

(* bufio reads past its own buffer when the caller's is as large.          *)
ASSUME ReaderAssumption ==
  /\ Streams \subseteq [bytes : Seq({"x", "s", "n"}), end : {"EOF", "failure"}]
  /\ {ChunkSize, BufSize, MaxPeek} \subseteq Nat \ {0} /\ ChunkSize >= BufSize

VARIABLES
  stream,
  place,    (* head, boundary, peek, yield, tell, returned                  *)
  filled, held, next,
  idle,     (* history: a Read of the stream gave nothing and stopped us    *)
  from, initial, (* the fragment: where it begins, what its Read returned   *)
  newlines, (* newlineCount of the lookahead                                *)
  err,      (* readErr or boundaryErr                                       *)
  nextLine,
  raws,     (* the fragments yielded: [from, to, line]                      *)
  told,     (* the failure was yielded                                      *)
  readerDone, verdict

buffer == <<filled, held, idle>>
chunk  == <<from, initial, newlines, err>>
result == <<nextLine, raws, told, verdict>>
readerVars == <<stream, place, buffer, next, chunk, result, readerDone>>

bytes == stream.bytes
Blank(i) == bytes[i] \in {"s", "n"}
Newlines(a, b) == Cardinality({i \in a + 1 .. b : bytes[i] = "n"})

Lesser(a, b) == IF a <= b THEN a ELSE b

ReaderInit ==
  /\ stream \in Streams
  /\ place = "head" /\ filled = 0 /\ held = "none" /\ idle = FALSE /\ next = 0
  /\ from = 0 /\ initial = 0 /\ newlines = 0 /\ err = "none"
  /\ nextLine = 1 /\ raws = <<>> /\ told = FALSE
  /\ readerDone = FALSE /\ verdict = "none"
-----------------------------------------------------------------------------
Cancel ==
  /\ place # "returned" /\ ~readerDone /\ readerDone' = TRUE
  /\ UNCHANGED <<stream, place, buffer, next, chunk, result>>

Return(v) == place' = "returned" /\ verdict' = v

HeadCanceled ==
  /\ place = "head" /\ readerDone
  /\ Return("canceled")
  /\ UNCHANGED <<stream, buffer, next, chunk, nextLine, raws, told, readerDone>>

(* What the stream returns for size bytes of room: [size, end].            *)
Delivered(size) ==
  LET rest == Len(bytes) - filled IN
  {d \in [size : 0 .. Lesser(size, rest), end : {"none", stream.end}] :
     d.end # "none" => d.size = rest}

Nothing(d) == d.size = 0 /\ d.end = "none"

(* reader.Read: from bufio's buffer, or around it, where it passes on what *)
(* the stream returns. Nothing read is the end, and only a failure is      *)
(* yielded.                                                                *)
TakeChunk(size, end) ==
  IF size = 0 THEN
    /\ err' = end
    /\ IF end = "failure" THEN place' = "tell" /\ UNCHANGED verdict ELSE Return("nil")
    /\ UNCHANGED <<next, from, initial, newlines>>
  ELSE
    /\ from' = next /\ next' = next + size /\ initial' = size /\ err' = end /\ newlines' = 0
    /\ place' = IF end = "none" THEN "boundary" ELSE "yield"
    /\ UNCHANGED verdict

Read ==
  /\ place = "head" /\ ~readerDone
  /\ \/ filled > next /\ TakeChunk(Lesser(ChunkSize, filled - next), "none") /\ UNCHANGED buffer
     \/ filled = next /\ held # "none" /\ TakeChunk(0, held) /\ held' = "none" /\ UNCHANGED <<filled, idle>>
     \/ /\ filled = next /\ held = "none"
        /\ \E d \in Delivered(ChunkSize) :
             TakeChunk(d.size, d.end) /\ filled' = filled + d.size /\ idle' = Nothing(d)
        /\ UNCHANGED held
  /\ UNCHANGED <<stream, nextLine, raws, told, readerDone>>

(* Blank lines end a fragment at once; the lookahead counts anew.          *)
EndsBlank(a, b) ==
  \E i, j \in a + 1 .. b :
    /\ i < j /\ bytes[i] = "n" /\ bytes[j] = "n"
    /\ \A k \in i .. b : Blank(k)

CheckBoundary ==
  /\ place = "boundary"
  /\ place' = IF EndsBlank(from, next) THEN "yield" ELSE "peek"
  /\ newlines' = IF bytes[next] = "n" THEN 1 ELSE 0
  /\ UNCHANGED <<stream, buffer, next, from, initial, err, result, readerDone>>

(* readUntilSafeBoundary counts newlines: newlineCount is 1 behind byte i  *)
(* where only blanks have followed a newline of the lookahead, or nothing  *)
(* else the seed of the last byte before it; a second newline ends the     *)
(* fragment there.                                                         *)
Counted(k) == IF k = next THEN newlines = 1 ELSE bytes[k] = "n"

OneBehind(i) == \E k \in next .. i : Counted(k) /\ \A j \in k + 1 .. i : Blank(j)

Second(i) == bytes[i] = "n" /\ OneBehind(i - 1)

(* The loop over the peeked bytes next + 1 .. upTo: to the second newline, *)
(* or to the last of them.                                                 *)
Consume(upTo, end) ==
  \/ \E i \in next + 1 .. upTo :
       /\ Second(i) /\ \A j \in next + 1 .. i - 1 : ~Second(j)
       /\ next' = i /\ newlines' = 2 /\ place' = "yield" /\ UNCHANGED err
  \/ /\ \A i \in next + 1 .. upTo : ~Second(i)
     /\ next' = upTo /\ newlines' = (IF OneBehind(upTo) THEN 1 ELSE 0)
     /\ err' = end /\ place' = IF end # "none" THEN "yield" ELSE "peek"

Budget == MaxPeek - ((next - from) - initial)

BudgetSpent ==
  /\ place = "peek" /\ Budget <= 0
  /\ place' = "yield"
  /\ UNCHANGED <<stream, buffer, next, chunk, result, readerDone>>

(* Mutant: what was read with the end of the stream is not consumed.       *)
PeekDropsLast ==
  /\ place = "peek" /\ Budget > 0
  /\ \/ /\ filled > next
        /\ Consume(next + Lesser(Budget, filled - next), "none")
        /\ UNCHANGED buffer
     \/ /\ filled = next /\ held # "none"
        /\ Consume(next, held) /\ held' = "none" /\ UNCHANGED <<filled, idle>>
     \/ /\ filled = next /\ held = "none"
        /\ \E d \in Delivered(BufSize) :
             /\ filled' = filled + d.size
             /\ held' = "none" /\ idle' = FALSE /\ ~Nothing(d)
             /\ Consume(next + (IF d.end # "none" \/ d.size = 0 THEN 0 ELSE 1), d.end)
  /\ UNCHANGED <<stream, from, initial, result, readerDone>>

(* r.Peek(min(budget, max(1, r.Buffered()))) and Discard. An empty buffer  *)
(* is filled by one read, whose end is kept until the bytes are gone; one  *)
(* that gives nothing is repeated, and the hundredth is an error, stalled. *)
Peek ==
  /\ place = "peek" /\ Budget > 0
  /\ \/ /\ filled > next
        /\ Consume(next + Lesser(Budget, filled - next), "none")
        /\ UNCHANGED buffer
     \/ /\ filled = next /\ held # "none"
        /\ Consume(next, held) /\ held' = "none" /\ UNCHANGED <<filled, idle>>
     \/ /\ filled = next /\ held = "none"
        /\ \E d \in Delivered(BufSize) :
             /\ filled' = filled + d.size /\ idle' = Nothing(d)
             /\ \/ d.size > 0 /\ held' = d.end /\ Consume(next + 1, "none")
                \/ /\ d.size = 0 /\ held' = "none"
                   /\ Consume(next, IF Nothing(d) THEN "stalled" ELSE d.end)
  /\ UNCHANGED <<stream, from, initial, result, readerDone>>
-----------------------------------------------------------------------------
(* What follows an accepted fragment. The context is looked at once more   *)
(* at the end of the stream.                                               *)
YieldRefused ==
  /\ place = "yield"
  /\ Return("refused")
  /\ raws' = Append(raws, [from |-> from, to |-> next, line |-> nextLine])
  /\ UNCHANGED <<stream, buffer, next, chunk, nextLine, told, readerDone>>

Yielded(lines) ==
  /\ place = "yield"
  /\ raws' = Append(raws, [from |-> from, to |-> next, line |-> nextLine])
  /\ \/ err = "EOF" /\ Return(IF readerDone THEN "canceled" ELSE "nil") /\ UNCHANGED nextLine
     \/ /\ err # "EOF"
        /\ nextLine' = nextLine + lines
        /\ place' = IF err = "none" THEN "head" ELSE "tell"
        /\ UNCHANGED verdict
  /\ UNCHANGED <<stream, buffer, next, chunk, told, readerDone>>

(* Mutant: the lines of the lookahead are not counted.                     *)
YieldWithoutLookahead == Yielded(Newlines(from, from + initial))

Yield == Yielded(Newlines(from, next))

(* The result of the last yield is the result.                             *)
Tell ==
  /\ place = "tell"
  /\ told' = TRUE
  /\ \E v \in {"nil", "refused"} : Return(v)
  /\ UNCHANGED <<stream, buffer, next, chunk, nextLine, raws, readerDone>>

Returned == place = "returned" /\ UNCHANGED readerVars

ReaderNext ==
  \/ Cancel \/ HeadCanceled \/ Read \/ CheckBoundary \/ BudgetSpent \/ Peek
  \/ YieldRefused \/ Yield \/ Tell \/ Returned

ReaderSpec == ReaderInit /\ [][ReaderNext]_readerVars
-----------------------------------------------------------------------------
(* The fragments are the stream, byte by byte from its beginning, and each *)
(* knows the line it begins on; one ends at a blank line, or after it was  *)
(* read on for as far as that may go, but for the last before the lookahead*)
(* stalled. A nil result, or a failure told, says that all that was read   *)
(* was yielded, and that this is all of the stream, its failure told if it *)
(* had one, unless the stream's last Read gave neither a byte nor an end.  *)
(* That exception is real: for readerFragments such a Read is the end of   *)
(* the stream, and its result is nil with the rest unread; a lookahead that*)
(* stalled is told.                                                        *)
ChunksFaithful ==
  /\ \A i \in DOMAIN raws :
       /\ raws[i].from = (IF i = 1 THEN 0 ELSE raws[i - 1].to) /\ raws[i].from < raws[i].to
       /\ raws[i].line = 1 + Newlines(0, raws[i].from)
       /\ raws[i].to < Len(bytes) =>
            \/ EndsBlank(raws[i].from, raws[i].to)
            \/ raws[i].to - raws[i].from > MaxPeek
            \/ i = Len(raws) /\ idle
  /\ told => stream.end = "failure" \/ idle
  /\ verdict = "nil" \/ told =>
       /\ (IF raws = <<>> THEN 0 ELSE raws[Len(raws)].to) = filled
       /\ ~idle => filled = Len(bytes) /\ (stream.end = "failure" => told)
  /\ verdict = "nil" /\ err = "stalled" => told
  /\ verdict = "canceled" => readerDone
=============================================================================
