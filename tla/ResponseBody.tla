----------------------------- MODULE ResponseBody -----------------------------
(* One response body: jps.Writer (src/jps/outgoing.go), which builds lazily, *)
(* over http1.BodyWriter (src/http/http1/bodyWriter.go), which decides on    *)
(* the first use how the body is framed, over writerWrapper, which puts the  *)
(* header in front of the first byte.  The handler's goroutine is the only   *)
(* one, so that a method is one step; StringBody and BytesBody are three.    *)
(*                                                                           *)
(* Writer.buf is only assigned where it is already set, so it stays nil and  *)
(* a buffered Writer hands out a nil pointer.                                *)
EXTENDS Integers

CONSTANTS
  MaxLength,   \* bound: lengths of bodies and writes
  MaxSent,     \* bound: bytes sent before another write
  MaxCloses    \* bound: how often the body is closed; it may be used up to the last time

ASSUME BodyAssumption ==
  MaxLength \in Nat /\ MaxSent \in Nat /\ MaxCloses \in Nat \ {0}

VARIABLES
  head,        \* the request's method is HEAD
  cl, te,      \* the Content-Length (-1: none) and Transfer-Encoding headers
  writer,      \* BodyWriter.writer: the kind, and for a limiter its limit
  limit,
  piped,       \* Writer.pipedBody; rawBody is set and cleared along with it
  buffered,    \* Writer.bufferBody
  headWritten, \* writerWrapper.HeadWritten
  headFailed,  \* the header was generated but could not be written
  announced,   \* the Content-Length that was sent
  sent,        \* how many bytes of body were sent
  closes,      \* how often the close callback was called
  pc, arg,     \* where StringBody is, and the length of its argument
  result,      \* the error of the last call
  panicked

vars == <<head, cl, te, writer, limit, piped, buffered, headWritten, headFailed,
          announced, sent, closes, pc, arg, result, panicked>>
headerVars == <<head, cl, te>>
chainVars == <<writer, limit, piped>>
wireVars == <<headWritten, headFailed, announced, sent, closes>>

Lengths == 0..MaxLength
Results == {"none", "nil", "exceeded", "failed", "started"}

TypeOK ==
  /\ head \in BOOLEAN /\ cl \in Lengths \cup {-1} /\ te \in {"absent", "empty", "chunked"}
  /\ writer \in {"nil", "limit", "plain"} /\ limit \in Lengths
  /\ piped \in {"nil", "open", "broken"}
  /\ piped # "nil" => writer # "nil"
  /\ headWritten => writer # "nil"
  /\ buffered \in BOOLEAN /\ headWritten \in BOOLEAN
  /\ announced \in Lengths \cup {-1} /\ sent \in Nat /\ closes \in Nat
  /\ pc \in {"idle", "write", "close"} /\ arg \in Lengths
  /\ result \in Results /\ headFailed \in BOOLEAN /\ panicked \in BOOLEAN

Init ==
  /\ head \in BOOLEAN /\ cl = -1 /\ te = "absent"
  /\ writer = "nil" /\ limit = 0 /\ piped = "nil"
  /\ buffered = FALSE
  /\ headWritten = FALSE /\ headFailed = FALSE /\ announced = -1
  /\ sent = 0 /\ closes = 0
  /\ pc = "idle" /\ arg = 0 /\ result = "none" /\ panicked = FALSE

MayCall == pc = "idle" /\ ~panicked /\ closes < MaxCloses

Panic ==
  /\ panicked' = TRUE
  /\ UNCHANGED <<headerVars, chainVars, buffered, wireVars, pc, arg, result>>

------------------------------------------------------------------------------
(* The length of the body.                                                  *)

(* A length takes "chunked" off the end of Transfer-Encoding, and leaves    *)
(* the key with no values.                                                  *)
AssignLength(n) ==
  /\ cl' = n
  /\ te' = IF te = "chunked" THEN "empty" ELSE te

(* Writer.SetLength and BodyWriter.SetBodyLength; without a length they add *)
(* to a header that nobody reads.                                           *)
SetLength ==
  /\ MayCall
  /\ \/ \E n \in Lengths : AssignLength(n)
     \/ cl' = -1 /\ UNCHANGED te
  /\ result' = "nil"
  /\ UNCHANGED <<head, chainVars, buffered, wireVars, pc, arg, panicked>>

(* HeaderMetadata.SetSize(-1); adding a value to a key without values is an *)
(* index out of range in the values processor.                              *)
SetSizeUnknown ==
  /\ MayCall
  /\ \/ te = "empty" /\ Panic
     \/ /\ te # "empty"
        /\ cl' = -1
        /\ te' = "chunked"
        /\ result' = "nil"
        /\ UNCHANGED <<head, chainVars, buffered, wireVars, pc, arg, panicked>>

BodyLength == IF head THEN 0 ELSE cl

------------------------------------------------------------------------------
(* Building the chain of writers.                                           *)

(* BodyWriter.Body keeps what it built first.  The chunked encoding has no  *)
(* generator of writers: calling it is a nil pointer dereference.           *)
BodyPanics == writer = "nil" /\ BodyLength = -1 /\ te = "chunked"

Body ==
  /\ ~BodyPanics
  /\ \/ writer # "nil" /\ UNCHANGED <<writer, limit>>
     \/ /\ writer = "nil" /\ BodyLength = -1
        /\ writer' = "plain" /\ UNCHANGED limit
     \/ /\ writer = "nil" /\ BodyLength # -1
        /\ writer' = "limit" /\ limit' = BodyLength

(* getRawBody and getPipedBody.  A generator that fails leaves an interface *)
(* that holds a nil *WriterPipe, and is not nil itself.                     *)
GetPipedBody(outcome) ==
  \/ /\ piped # "nil"
     /\ outcome = (IF piped = "open" THEN "ok" ELSE "panic")
     /\ UNCHANGED chainVars
  \/ /\ piped = "nil" /\ BodyPanics
     /\ outcome = "panic"
     /\ UNCHANGED chainVars
  \/ /\ piped = "nil"
     /\ Body
     /\ \/ piped' = "open" /\ outcome = "ok"
        \/ piped' = "broken" /\ outcome = "failed"

(* writerWrapper puts the header in front of n bytes.                       *)
Send(n) ==
  /\ headWritten' = TRUE
  /\ announced' = IF headWritten THEN announced ELSE cl
  /\ sent' = sent + n
  /\ UNCHANGED headFailed

(* The stream takes only a part, perhaps not even the header.               *)
SendFails(n) ==
  \/ ~headWritten /\ headFailed' = TRUE /\ UNCHANGED <<headWritten, announced, sent>>
  \/ \E m \in 0..(IF n = 0 THEN 0 ELSE n - 1) : Send(m)

(* LimitWriteFlushCloser.Write counts in a copy of itself: every call       *)
(* starts from zero, and a call beyond the limit writes the excess.         *)
Passes(n) == IF writer' = "limit" /\ n > limit' THEN n - limit' ELSE n
Exceeds(n) == writer' = "limit" /\ n > limit'

(* Writer.Write with an argument of length n.                               *)
WriteBytes(n, next) ==
  \/ /\ buffered \/ GetPipedBody("panic")
     /\ Panic
  \/ /\ ~buffered
     /\ UNCHANGED <<headerVars, buffered, closes, arg, panicked>>
     /\ \/ /\ GetPipedBody("failed")
           /\ result' = "failed" /\ pc' = "idle"
           /\ UNCHANGED <<headWritten, headFailed, announced, sent>>
        \/ /\ GetPipedBody("ok")
           /\ \/ /\ Send(Passes(n))
                 /\ result' = IF Exceeds(n) THEN "exceeded" ELSE "nil"
                 /\ pc' = IF Exceeds(n) THEN "idle" ELSE next
              \/ /\ SendFails(Passes(n))
                 /\ result' = "failed" /\ pc' = "idle"

Write ==
  /\ MayCall
  /\ sent < MaxSent
  /\ \E n \in Lengths : WriteBytes(n, "idle")

(* Mutation: a body that was started is not refused.                        *)
StringBodyRestarts ==
  /\ MayCall
  /\ sent < MaxSent
  /\ \E n \in Lengths : AssignLength(n) /\ arg' = n /\ UNCHANGED head
  /\ pc' = "write"
  /\ UNCHANGED <<result, chainVars, buffered, wireVars, panicked>>

(* StringBody and BytesBody: refuse a body that was started, ...            *)
StringBody ==
  /\ MayCall
  /\ sent < MaxSent
  /\ \/ /\ piped # "nil"
        /\ result' = "started"
        /\ UNCHANGED <<headerVars, pc, arg>>
     \/ /\ piped = "nil"
        /\ \E n \in Lengths : AssignLength(n) /\ arg' = n /\ UNCHANGED head
        /\ pc' = "write"
        /\ UNCHANGED result
  /\ UNCHANGED <<chainVars, buffered, wireVars, panicked>>

(* ... write everything ...                                                 *)
StringBodyWrite == pc = "write" /\ ~panicked /\ WriteBytes(arg, "close")

------------------------------------------------------------------------------
(* Close and Flush.                                                         *)

(* The chain is closed: a header that is still due, then the close          *)
(* callback, also after an error.                                           *)
CloseChain ==
  /\ closes' = closes + 1
  /\ piped' = "nil"
  /\ \/ Send(0) /\ result' \in {"nil", "failed"}
     \/ ~headWritten /\ SendFails(0) /\ result' = "failed"

(* Writer.Close builds the chain if need be (a buffered one it does not).   *)
CloseBody ==
  \/ piped = "broken" /\ Panic
  \/ ~buffered /\ piped = "nil" /\ BodyPanics /\ Panic
  \/ ~buffered /\ piped = "nil" /\ ~BodyPanics /\ Panic  \* a pipe fails
  \/ /\ \/ piped = "open" /\ UNCHANGED <<writer, limit>>
        \/ ~buffered /\ piped = "nil" /\ Body
     /\ CloseChain
     /\ pc' = "idle"
     /\ UNCHANGED <<headerVars, buffered, arg, panicked>>
  \/ /\ buffered /\ piped = "nil"
     /\ result' = "nil" /\ pc' = "idle"
     /\ UNCHANGED <<headerVars, chainVars, buffered, wireVars, arg, panicked>>

Close == MayCall /\ CloseBody
StringBodyClose == pc = "close" /\ ~panicked /\ CloseBody

(* Mutation: Flush builds the chain and leaves it at that.                  *)
FlushBuilds ==
  /\ MayCall
  /\ GetPipedBody("ok")
  /\ result' = "nil"
  /\ UNCHANGED <<headerVars, buffered, wireVars, pc, arg, panicked>>

(* Flush does nothing before the chain is built.                            *)
Flush ==
  /\ MayCall
  /\ \/ piped = "broken" /\ Panic
     \/ /\ piped # "broken"
        /\ \/ /\ piped = "open"
              /\ \/ Send(0) /\ result' = "nil"
                 \/ SendFails(0) /\ result' = "failed"
           \/ /\ piped = "nil"
              /\ result' = "nil"
              /\ UNCHANGED <<headWritten, headFailed, announced, sent>>
        /\ UNCHANGED <<headerVars, chainVars, buffered, closes, pc, arg, panicked>>

(* SetBuffered and GetBufioWriter.                                          *)
SetBuffered ==
  /\ MayCall
  /\ buffered' \in BOOLEAN
  /\ result' = "nil"
  /\ UNCHANGED <<headerVars, chainVars, wireVars, pc, arg, panicked>>

Over == (panicked \/ closes = MaxCloses \/ sent >= MaxSent) /\ UNCHANGED vars

Next == \/ SetLength \/ SetSizeUnknown \/ Write
        \/ StringBody \/ StringBodyWrite \/ StringBodyClose
        \/ Close \/ Flush \/ SetBuffered \/ Over

Spec == Init /\ [][Next]_vars

------------------------------------------------------------------------------
(* Properties.                                                              *)

(* The limit the body is held to is the Content-Length that went out,       *)
(* although the two are read at different moments and the handler may set   *)
(* another length at any time.  After a header that could not be written    *)
(* the next one is generated anew, and may announce another length.         *)
LimitIsAnnounced ==
  headWritten /\ ~headFailed /\ ~head =>
    /\ writer = "limit" => announced = limit
    /\ writer = "plain" => announced = -1

(* A StringBody or BytesBody that reports success has announced and sent    *)
(* exactly its argument, and ended the response, unless the body was closed *)
(* before: Close lets a body be started again.                              *)
StringBodyExact ==
  [][pc = "close" /\ pc' = "idle" /\ result' = "nil" /\ closes = 0
       => announced' = arg /\ sent' = arg /\ headWritten' /\ closes' = 1]_vars
===============================================================================
