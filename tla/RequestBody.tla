----------------------------- MODULE RequestBody -----------------------------
(* The body of a request: jps.Reader (src/jps/reader.go), which builds       *)
(* lazily, over http1.BodyReader (src/http/http1/bodyReader.go), which       *)
(* decides how the body is framed, over the reader of the session, in which  *)
(* the next request comes right behind.  The handler's goroutine is the only *)
(* one; a Read of a chunked body is the steps of ChunkedReader.              *)
(*                                                                           *)
(* Reader.buf is only assigned where it is already set: it stays nil, and a  *)
(* Reader that is set to be buffered reads as an unbuffered one.  closed is  *)
(* never set.                                                                *)
EXTENDS ChunkedReader, SequencesExt

VARIABLES
  head,         \* the method is HEAD
  te, lengths,  \* Transfer-Encoding, and Content-Length (-1: not a number)
  reader,       \* BodyReader.reader: which one it is
  length,       \* BodyReader.length
  left,         \* what LimitReader has left
  rawBody,      \* Reader.rawBody is not nil
  pipedBody,    \* Reader.pipedBody is not nil
  closed,       \* the body was closed, and with it the stream (bound: once)
  panicked      \* the process died

bodyVars == <<head, te, lengths, reader, length, left, rawBody, pipedBody, closed, panicked>>
vars == <<chunkedVars, bodyVars>>
headers == <<head, te, lengths>>

Supported == {"chunked", "gzip"}
Boundary == Len(wire) - Len(NextRequest)

(* A request and what is on the wire behind its header.                     *)
ChunkedRequest == ChunkedSource /\ te = <<"chunked">> /\ lengths = <<>> /\ ~head
LengthRequest ==
  /\ te = <<>> /\ ~head /\ body \in Chunks \cup {<<>>}
  /\ lengths = <<Len(body)>>
  /\ \/ wire = body \o NextRequest /\ fault = "none"
     \/ \E k \in 0..(Len(body) - 1) : wire = SubSeq(body, 1, k) /\ fault = "cut"
NoBodyRequest ==
  /\ body = <<>> /\ wire = NextRequest /\ te = <<>> /\ fault = "none"
  /\ \/ head /\ lengths \in {<<>>, <<1>>}
     \/ ~head /\ lengths = <<>>
OddRequest ==
  /\ body = <<>> /\ wire = NextRequest /\ fault = "header" /\ ~head
  /\ \/ te = <<"chunked">> /\ lengths = <<1>>
     \/ te \in {<<"chunked", "gzip">>, <<"br">>, <<"gzip">>} /\ lengths = <<>>
     \/ te = <<>> /\ lengths \in {<<-1>>, <<1, 1>>}

Init ==
  /\ head \in BOOLEAN
  /\ ChunkedRequest \/ LengthRequest \/ NoBodyRequest \/ OddRequest
  /\ ReaderInit
  /\ te # <<"chunked">> => ~buffered
  /\ reader = "nil" /\ length = -2 /\ left = 0
  /\ rawBody = FALSE /\ pipedBody = FALSE /\ closed = FALSE /\ panicked = FALSE

------------------------------------------------------------------------------
(* BodyReader.getBody.                                                      *)

ChunkedInFront == \E i \in 1..(Len(te) - 1) : te[i] = "chunked"
Unsupported == \E i \in 1..Len(te) : te[i] \notin Supported

HeaderError ==
  \/ te # <<>> /\ (lengths # <<>> \/ ChunkedInFront \/ Unsupported)
  \/ te = <<>> /\ (Len(lengths) > 1 \/ lengths = <<-1>>)

(* What is not gzip makes the generator of its reader fail, after it has    *)
(* read ahead.  From's nil *ReaderPipe is then an interface that is not nil *)
(* in BodyReader.reader.                                                    *)
GetBody(ok) ==
  \/ /\ head /\ ok
     /\ reader' = "eof" /\ length' = 0
     /\ UNCHANGED <<left, pos>>
  \/ /\ ~head /\ HeaderError /\ ~ok
     /\ UNCHANGED <<reader, length, left, pos>>
  \/ /\ ~head /\ ~HeaderError /\ te = <<"gzip">> /\ ~ok
     /\ reader' = "broken" /\ pos' = Len(wire)
     /\ UNCHANGED <<length, left>>
  \/ /\ ~head /\ ~HeaderError /\ te = <<"chunked">> /\ ok
     /\ reader' = "chunked" /\ length' = -1
     /\ UNCHANGED <<left, pos>>
  \/ /\ ~head /\ ~HeaderError /\ te = <<>> /\ lengths # <<>> /\ ok
     /\ reader' = "limit" /\ length' = lengths[1] /\ left' = lengths[1]
     /\ UNCHANGED pos
  \/ /\ ~head /\ ~HeaderError /\ te = <<>> /\ lengths = <<>> /\ ok
     /\ reader' = "raw" /\ length' = -1
     /\ UNCHANGED <<left, pos>>

Idle == pc = "idle" /\ ~panicked

(* Reader.Length.                                                           *)
Length ==
  /\ Idle /\ reader = "nil"
  /\ \E ok \in BOOLEAN : GetBody(ok)
  /\ UNCHANGED <<headers, body, wire, fault, buffered, stalls, bytesLeft, pair, line, room, pc, out,
                 result, failed, rawBody, pipedBody, closed, panicked>>

(* The first thing Read does: getRawBody and getPipedBody.  The error of    *)
(* getBody is returned, and getBody is tried again next time unless it left *)
(* something in reader.                                                     *)
OpenBody ==
  /\ Idle /\ ~pipedBody
  /\ \/ /\ reader = "nil"
        /\ \E ok \in BOOLEAN :
             /\ GetBody(ok)
             /\ pipedBody' = ok
             /\ rawBody' = (reader' # "nil")
             /\ result' = IF ok THEN result ELSE "header"
             /\ failed' = (failed \/ ~ok)
     \/ /\ reader # "nil"
        /\ rawBody' = TRUE /\ pipedBody' = TRUE
        /\ UNCHANGED <<reader, length, left, pos, result, failed>>
  /\ UNCHANGED <<headers, body, wire, fault, buffered, stalls, bytesLeft, pair, line, room, pc, out,
                 closed, panicked>>

------------------------------------------------------------------------------
(* Read and Close on what was built.                                        *)

ReadEOF ==
  /\ Idle /\ pipedBody /\ reader = "eof"
  /\ Return("EOF")
  /\ UNCHANGED <<msgVars, stalls, pos, bytesLeft, out, bodyVars>>

(* Mutation: the limit is not taken off.                                    *)
TakenFromNothing(k) == left' = left

TakenFrom(k) == left' = left - k

(* io.LimitReader and the stream itself: some of what there is, and EOF at  *)
(* the limit or at the end of the stream, whichever comes first.            *)
ReadSome(most) ==
  \E l \in BufLens :
    \/ \E k \in 1..LeastOf(l, LeastOf(most, Ahead)) :
         /\ out' = out \o SubSeq(wire, pos + 1, pos + k)
         /\ pos' = pos + k
         /\ IF reader = "limit" THEN TakenFrom(k) ELSE UNCHANGED left
         /\ Return("nil")
    \/ /\ most = 0 \/ Ahead = 0
       /\ Return("EOF")
       /\ UNCHANGED <<out, pos, left>>

ReadLimited ==
  /\ Idle /\ pipedBody
  /\ \/ reader = "limit" /\ ReadSome(left)
     \/ reader = "raw" /\ ReadSome(Len(wire))
  /\ UNCHANGED <<msgVars, stalls, bytesLeft, headers, reader, length, rawBody, pipedBody,
                 closed, panicked>>

ReadChunked ==
  /\ ~panicked /\ pipedBody /\ reader = "chunked"
  /\ ChunkedStep
  /\ UNCHANGED bodyVars

(* After a Close the session's buffer still gives what it has; then reads   *)
(* of the stream fail.                                                      *)
ReadClosed ==
  /\ closed /\ ~panicked
  /\ \/ pc # "idle" /\ Fail("closed")
     \/ /\ Idle /\ pipedBody /\ reader \in {"limit", "raw"}
        /\ Return("closed") /\ UNCHANGED bytesLeft
  /\ UNCHANGED <<msgVars, stalls, pos, out, bodyVars>>

Panic == panicked' = TRUE
         /\ UNCHANGED <<chunkedVars, headers, reader, length, left, rawBody, pipedBody, closed>>

(* Read and Close go through the nil *ReaderPipe.                           *)
UseBroken ==
  /\ Idle /\ reader = "broken" /\ rawBody
  /\ Panic

(* Reader.Close closes what there is, down to the stream of the session,    *)
(* and forgets it; the next Read takes BodyReader.reader up again.          *)
Close ==
  /\ Idle /\ rawBody /\ reader # "broken" /\ ~closed
  /\ closed' = TRUE
  /\ rawBody' = FALSE /\ pipedBody' = FALSE
  /\ UNCHANGED <<chunkedVars, headers, reader, length, left, panicked>>

Crashed == panicked /\ UNCHANGED vars

Reading == OpenBody \/ ReadEOF \/ ReadLimited \/ ReadChunked \/ UseBroken
Next == Length \/ Reading \/ ReadClosed \/ Close \/ Crashed

Spec == Init /\ [][Next]_vars

(* The handler reads on, and the source answers.                            *)
FairSpec == Spec /\ WF_vars(Reading)

------------------------------------------------------------------------------
(* Properties.                                                              *)

(* However the body is framed, its bytes cut into reads and wherever the    *)
(* source ends, what Read has delivered is a beginning of the data.  Not so *)
(* for a request without any framing, which has no body: its Reader is the  *)
(* raw stream.                                                              *)
DeliversPrefix == fault # "damaged" /\ reader # "raw" => IsPrefix(out, body)

(* A whole body is never refused, and EOF means that all the data has been  *)
(* delivered, as much as Length had said, also if the body was closed and   *)
(* taken up again meanwhile.                                                *)
IntactDecodes ==
  fault = "none" /\ reader # "raw" =>
    /\ stalls = 0 /\ ~closed => ~failed
    /\ result = "EOF" /\ ~failed => out = body /\ length \in {-1, Len(out)}

(* The reader of a body shares the session's buffer with the parser of the  *)
(* next request: it never takes a byte of that, and once it says EOF not a  *)
(* byte of its own body is left.                                            *)
StopsAtBoundary ==
  fault = "none" /\ reader # "raw" =>
    /\ pos <= Boundary
    /\ result = "EOF" /\ ~failed => pos = Boundary

(* A handler that keeps reading comes to an error or to EOF, also on data   *)
(* that is cut off or damaged.                                              *)
ReadingEnds == <>(result \notin {"none", "nil"} \/ panicked)
==============================================================================
