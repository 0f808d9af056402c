---------------------------- MODULE ChunkedReader ----------------------------
(* chunked.Reader (src/http/http1/encoding/chunked/chunkedParser.go): decodes*)
(* a chunked body from a source that hands its bytes over in pieces of any   *)
(* size, into buffers of any size.                                           *)
(*                                                                           *)
(* A byte is a symbol: "CR", "LF", ";", a hex digit (which may also be data) *)
(* or any other.                                                             *)
EXTENDS Integers, Sequences

CONSTANTS
  Chunks,      \* the contents a chunk may have
  MaxChunks,   \* bound: chunks in one body
  SizeLines,   \* what a sender may put in front of a chunk
  NextRequest, \* what the client has sent behind the body
  BufLens,     \* lengths of the buffers given to Read
  MaxStalls    \* bound: times the source has nothing, or a temporary error, for a minute

ASSUME ChunkedAssumption ==
  /\ Chunks \subseteq Seq(STRING) \ {<<>>} /\ MaxChunks \in Nat /\ NextRequest \in Seq(STRING)
  /\ SizeLines \subseteq Seq(STRING) /\ \A l \in SizeLines : \A k \in 1..Len(l) : l[k] # "CR"
  /\ BufLens \subseteq Nat \ {0}
  /\ MaxStalls \in Nat

VARIABLES
  body, wire, fault,  \* the data, its encoding, and what happened to that
  buffered,   \* the source is a bufio.Reader
  stalls,     \* how often the source had nothing for a minute
  pos,        \* how many bytes of the source were read
  bytesLeft,  \* Reader.bytesLeft
  pair,       \* the bytes read2 and read1 have put into Reader.buf
  line,       \* readLine's line
  room,       \* what is left of the caller's buffer
  pc,         \* where Read is
  out,        \* everything Read has delivered
  result,     \* the error of the last Read
  failed      \* a Read has returned an error other than EOF

chunkedVars == <<body, wire, fault, buffered, stalls, pos, bytesLeft, pair, line, room, pc, out,
                 result, failed>>
msgVars == <<body, wire, fault, buffered>>

CRLF == <<"CR", "LF">>

(* A digit above 9 stands for its upper case form too.                      *)
Digits == <<"0", "1", "2", "3", "4", "5", "6", "7", "8", "9", "a", "b", "c", "d", "e", "f">>

(* The size in front of a ';', in hexadecimal and within 31 bits.           *)
SizeOf(l) ==
  SubSeq(l, 1, CHOOSE k \in 0..Len(l) : /\ \A m \in 1..k : l[m] # ";"
                                        /\ k < Len(l) => l[k + 1] = ";")
DigitValue(c) == (CHOOSE d \in 1..16 : Digits[d] = c) - 1
ParseUint(s) ==
  LET v[k \in 0..Len(s)] == IF k = 0 THEN 0 ELSE 16 * v[k - 1] + DigitValue(s[k])
  IN  v[Len(s)]
ValidSize(s) ==
  /\ s # <<>> /\ \A k \in 1..Len(s) : \E d \in 1..16 : s[k] = Digits[d]
  /\ ParseUint(s) <= 2147483647

(* What a sender puts on the wire: in front of each chunk a line that says  *)
(* its size, behind it a line end; then a chunk of size 0.                  *)
Says(l, n) == ValidSize(SizeOf(l)) /\ ParseUint(SizeOf(l)) = n

(* The first so many of some sequences, one behind the other.               *)
Beginnings(ss, n) ==
  LET f[k \in 0..n] == IF k = 0 THEN <<>> ELSE f[k - 1] \o ss[k]
  IN  f

Framed(cs, ls, n) == [k \in 1..n |-> ls[k] \o CRLF \o cs[k] \o CRLF]
Encode(cs, ls, n) == Beginnings(Framed(cs, ls, n), n)[n] \o ls[n + 1] \o CRLF \o CRLF

(* A body in the chunked coding, whole, cut off or damaged, and behind a    *)
(* body that is not cut off the next request.                               *)
ChunkedSource ==
  \E n \in 0..MaxChunks : \E cs \in [1..n -> Chunks], ls \in [1..(n + 1) -> SizeLines] :
    /\ \A k \in 1..n : Says(ls[k], Len(cs[k]))
    /\ Says(ls[n + 1], 0)
    /\ body = Beginnings(cs, n)[n]
    /\ LET whole == Encode(cs, ls, n)
       IN  \/ wire = whole \o NextRequest /\ fault = "none"
           \/ /\ \E k \in 0..(Len(whole) - 1) : wire = SubSeq(whole, 1, k)
              /\ fault = "cut"
           \/ /\ \E k \in 1..Len(whole) : wire = [whole EXCEPT ![k] = "x"] \o NextRequest
              /\ fault = "damaged"

ReaderInit ==
  /\ buffered \in BOOLEAN /\ stalls = 0
  /\ pos = 0 /\ bytesLeft = 0
  /\ pair = <<>> /\ line = <<>> /\ room = 0
  /\ pc = "idle"
  /\ out = <<>> /\ result = "none" /\ failed = FALSE

------------------------------------------------------------------------------
(* Read returns with the given error.                                       *)
Return(e) ==
  /\ pc' = "idle"
  /\ result' = e
  /\ failed' = (failed \/ e \notin {"nil", "EOF"})
  /\ room' = 0 /\ pair' = <<>> /\ line' = <<>>

Ahead == Len(wire) - pos

(* The source has had nothing for the minute that readSource waits.         *)
Stall == stalls < MaxStalls /\ stalls' = stalls + 1

CallRead ==
  /\ pc = "idle"
  /\ \/ bytesLeft < 0 /\ Return("EOF")
     \/ /\ bytesLeft >= 0
        /\ \E l \in BufLens : room' = l
        /\ pc' = IF bytesLeft = 0 THEN "line" ELSE "body"
        /\ result' = "nil"
        /\ UNCHANGED <<pair, line, failed>>
  /\ UNCHANGED <<msgVars, stalls, pos, bytesLeft, out>>

(* read2 and read1: the source gives one byte or two.                       *)
Fetching == pc \in {"lf", "crlf", "lastcrlf"} \/ (pc = "line" /\ ~buffered)

Fetch ==
  /\ Fetching
  /\ \E k \in 1..(2 - Len(pair)) :
       /\ k <= Ahead
       /\ pair' = pair \o SubSeq(wire, pos + 1, pos + k)
       /\ pos' = pos + k
  /\ UNCHANGED <<msgVars, stalls, bytesLeft, line, room, pc, out, result, failed>>

(* A failing Read says EOF from then on, except after a chunk's own CRLF.   *)
Fail(e) ==
  /\ bytesLeft' = IF pc = "crlf" THEN 0 ELSE -1
  /\ Return(e)

(* The source is at its end, which it may say along with its last bytes, or *)
(* it has had a temporary error for too long.                               *)
FetchFails ==
  /\ Len(pair) < 2
  /\ \/ Fetching /\ Ahead <= 2 - Len(pair) /\ pos' = Len(wire) /\ Fail("EOF") /\ UNCHANGED stalls
     \/ (Fetching \/ pc = "line") /\ Stall /\ Fail("temporary") /\ UNCHANGED pos
  /\ UNCHANGED <<msgVars, out>>

(* readBytesLeft has its line: the end of the body, or a chunk.             *)
FinishLine(l) ==
  LET s == SizeOf(l)
  IN  \/ ~ValidSize(s) /\ Fail("syntax") /\ UNCHANGED out
      \/ /\ ValidSize(s)
         /\ bytesLeft' = IF ParseUint(s) = 0 THEN -1 ELSE ParseUint(s)
         /\ pc' = IF ParseUint(s) = 0 THEN "lastcrlf" ELSE "body"
         /\ pair' = <<>> /\ line' = <<>>
         /\ UNCHANGED <<room, out, result, failed>>

(* readLine's loop, two bytes at a time.                                    *)
ReadLine ==
  /\ pc = "line" /\ Len(pair) = 2
  /\ \/ pair = CRLF /\ FinishLine(line)
     \/ /\ pair[1] = "CR" /\ pair[2] # "LF"
        /\ Fail("malformed")
        /\ UNCHANGED out
     \/ /\ pair[1] # "CR" /\ pair[2] = "CR"
        /\ pc' = "lf"
        /\ pair' = <<pair[1]>>
        /\ UNCHANGED <<bytesLeft, line, room, out, result, failed>>
     \/ /\ pair[1] # "CR" /\ pair[2] # "CR"
        /\ line' = line \o pair
        /\ pair' = <<>>
        /\ UNCHANGED <<bytesLeft, room, pc, out, result, failed>>
  /\ UNCHANGED <<msgVars, stalls, pos>>

(* The byte after a CR that came second.                                    *)
ReadLineLF ==
  /\ pc = "lf" /\ Len(pair) = 2
  /\ \/ pair[2] = "LF" /\ FinishLine(Append(line, pair[1]))
     \/ pair[2] # "LF" /\ Fail("malformed") /\ UNCHANGED out
  /\ UNCHANGED <<msgVars, stalls, pos>>

(* The same with a bufio.Reader: ReadBytes('\r') and ReadByte.              *)
ReadLineBuffered ==
  /\ pc = "line" /\ buffered
  /\ \E k \in (pos + 1)..(Len(wire) - 1) :
       /\ wire[k] = "CR"
       /\ \A m \in (pos + 1)..(k - 1) : wire[m] # "CR"
       /\ pos' = k + 1
       /\ \/ wire[k + 1] = "LF" /\ FinishLine(SubSeq(wire, pos + 1, k - 1))
          \/ wire[k + 1] # "LF" /\ Fail("malformed") /\ UNCHANGED out
  /\ UNCHANGED <<msgVars, stalls>>

(* What there is no line end in is read up to the end of the source.        *)
ReadLineEnds ==
  /\ pc = "line" /\ buffered
  /\ \A k \in (pos + 1)..(Len(wire) - 1) : wire[k] # "CR"
  /\ pos' = Len(wire)
  /\ Fail("EOF")
  /\ UNCHANGED <<msgVars, stalls, out>>

LeastOf(a, b) == IF a < b THEN a ELSE b

(* Mutation: a read may go beyond the chunk.                                *)
BodyLimitRoom == LeastOf(room, Ahead)
BodyLimit == LeastOf(LeastOf(bytesLeft, room), Ahead)

(* A piece of the chunk; the end of the source may come with it.  A chunk   *)
(* that is used up is followed by its CRLF and then, in the same call, by   *)
(* the next chunk.                                                          *)
ReadBody ==
  /\ pc = "body"
  /\ \E k \in 1..BodyLimit :
       /\ out' = out \o SubSeq(wire, pos + 1, pos + k)
       /\ pos' = pos + k
       /\ \/ /\ bytesLeft' = bytesLeft - k
             /\ \/ bytesLeft' # 0 /\ Return("nil")
                \/ /\ bytesLeft' = 0
                   /\ pc' = "crlf"
                   /\ room' = room - k
                   /\ UNCHANGED <<pair, line, result, failed>>
          \/ k = Ahead /\ Fail("EOF")
  /\ UNCHANGED <<msgVars, stalls>>

(* Mutation: the end of the source is taken for having nothing just now.    *)
ReadBodyIgnoresEOF ==
  /\ pc = "body"
  /\ \/ Stall /\ Fail("temporary")
     \/ Stall /\ Return("nil") /\ UNCHANGED bytesLeft
     \/ (room = 0 \/ Ahead = 0) /\ Return("nil") /\ UNCHANGED <<bytesLeft, stalls>>
  /\ UNCHANGED <<msgVars, pos, out>>

(* The source has ended or is stuck.  A buffer that is already full when    *)
(* the next chunk begins gets a read of no bytes, which returns after the   *)
(* minute of waiting as well.                                               *)
ReadBodyEmpty ==
  /\ pc = "body"
  /\ \/ room > 0 /\ Ahead = 0 /\ Fail("EOF") /\ UNCHANGED stalls
     \/ Stall /\ Fail("temporary")
     \/ Stall /\ Return("nil") /\ UNCHANGED bytesLeft
     \/ room = 0 /\ Return("nil") /\ UNCHANGED <<bytesLeft, stalls>>
  /\ UNCHANGED <<msgVars, pos, out>>

(* Mutation: Read returns at the end of a chunk without its CRLF.           *)
ConsumeCRLFSkipped ==
  /\ pc \in {"crlf", "lastcrlf"}
  /\ IF pc = "crlf" THEN Return("nil") ELSE Return("EOF")
  /\ UNCHANGED <<msgVars, stalls, pos, out, bytesLeft>>

ConsumeCRLF ==
  /\ pc \in {"crlf", "lastcrlf"} /\ Len(pair) = 2
  /\ \/ pair # CRLF /\ Fail("malformed")
     \/ pair = CRLF /\ pc = "lastcrlf" /\ Return("EOF") /\ UNCHANGED bytesLeft
     \/ /\ pair = CRLF /\ pc = "crlf"
        /\ pc' = "line"
        /\ pair' = <<>>
        /\ UNCHANGED <<bytesLeft, line, room, result, failed>>
  /\ UNCHANGED <<msgVars, stalls, pos, out>>

ChunkedStep ==
  \/ CallRead \/ Fetch \/ FetchFails
  \/ ReadLine \/ ReadLineLF \/ ReadLineBuffered \/ ReadLineEnds
  \/ ReadBody \/ ReadBodyEmpty \/ ConsumeCRLF
==============================================================================
