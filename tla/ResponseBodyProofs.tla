-------------------------- MODULE ResponseBodyProofs --------------------------
(* Proofs about one response body, for bodies and writes of any length and   *)
(* any number of calls of Close.                                             *)
EXTENDS ResponseBody, TLAPS

(* BodyWriter.Body and the first write through the chain are one step, so   *)
(* that a chain that was built has put its header on the stream, or failed  *)
(* to, or is a nil pipe that nothing can be written through.                *)
BuiltIsSent == writer # "nil" => headWritten \/ headFailed \/ piped = "broken"

(* Until the first Close, a body that StringBody may start is untouched.    *)
Untouched ==
  closes = 0 /\ piped = "nil" =>
    writer = "nil" /\ ~headWritten /\ sent = 0

(* What StringBody relies on between its steps.                             *)
StringBodyInv ==
  /\ pc # "idle" => cl = arg
  /\ pc = "write" => piped = "nil"
  /\ pc = "close" => piped = "open"
  /\ pc = "close" /\ closes = 0 => headWritten /\ announced = arg /\ sent = arg

IInv == TypeOK /\ BuiltIsSent /\ LimitIsAnnounced /\ Untouched /\ StringBodyInv

LEMMA InitIInv == Init => IInv
<1> SUFFICES ASSUME Init PROVE IInv
  OBVIOUS
<1>1. 0 \in Lengths
  BY BodyAssumption DEF Lengths
<1>2. TypeOK
  BY <1>1 DEF Init, TypeOK, Results
<1> QED
  BY <1>2 DEF Init, IInv, BuiltIsSent, LimitIsAnnounced, Untouched, StringBodyInv

LEMMA StutterIInv == ASSUME IInv, UNCHANGED vars PROVE IInv'
BY DEF vars, IInv, TypeOK, BuiltIsSent, LimitIsAnnounced, Untouched, StringBodyInv

LEMMA PanicIInv == ASSUME IInv, Panic PROVE IInv'
BY DEF Panic, headerVars, chainVars, wireVars, IInv, TypeOK, BuiltIsSent, LimitIsAnnounced,
       Untouched, StringBodyInv

(* Setters of the length, and StringBody's first step.                      *)
LEMMA SetterIInv ==
  ASSUME IInv, SetLength \/ SetSizeUnknown \/ StringBody \/ SetBuffered
  PROVE  IInv'
<1>1. CASE SetSizeUnknown /\ te = "empty"
  BY <1>1, PanicIInv DEF SetSizeUnknown
<1>2. CASE SetLength \/ SetBuffered \/ (SetSizeUnknown /\ te # "empty")
  BY <1>2 DEF SetLength, SetBuffered, SetSizeUnknown, MayCall, AssignLength, headerVars, chainVars,
              wireVars, IInv, TypeOK, BuiltIsSent, LimitIsAnnounced, Untouched, StringBodyInv,
              Results
<1>3. CASE StringBody
  BY <1>3 DEF StringBody, MayCall, AssignLength, headerVars, chainVars, wireVars, IInv, TypeOK,
              BuiltIsSent, LimitIsAnnounced, Untouched, StringBodyInv, Results
<1> QED
  BY <1>1, <1>2, <1>3

(* The chain is built at most once, from the length that is set then.       *)
LEMMA BuiltOnce ==
  ASSUME IInv, Body
  PROVE  /\ writer' \in {"limit", "plain"} /\ limit' \in Lengths
         /\ writer # "nil" => UNCHANGED <<writer, limit>>
         /\ writer = "nil" /\ writer' = "limit" => limit' = BodyLength
         /\ writer = "nil" /\ writer' = "plain" => BodyLength = -1
BY BodyAssumption DEF Body, IInv, TypeOK, BodyLength, Lengths

(* Bytes on the wire through a chain that is open: the first of them bring  *)
(* the header, and with it the length that the chain was built from.        *)
LEMMA SendAnnounces ==
  ASSUME IInv, NEW n \in Nat, Send(n) \/ SendFails(n),
         writer' \in {"limit", "plain"}, UNCHANGED <<head, cl>>,
         writer # "nil" => UNCHANGED <<writer, limit>> /\ piped # "broken",
         writer = "nil" /\ writer' = "limit" => limit' = BodyLength,
         writer = "nil" /\ writer' = "plain" => BodyLength = -1
  PROVE  /\ headWritten' \in BOOLEAN /\ headFailed' \in BOOLEAN
         /\ announced' \in Lengths \cup {-1} /\ sent' \in Nat
         /\ headWritten' \/ headFailed'
         /\ LimitIsAnnounced'
<1>1. ASSUME NEW m \in Nat, Send(m)
      PROVE  /\ headWritten' /\ headFailed' = headFailed /\ sent' \in Nat
             /\ announced' \in Lengths \cup {-1} /\ LimitIsAnnounced'
  BY <1>1 DEF Send, IInv, TypeOK, BuiltIsSent, LimitIsAnnounced, BodyLength
<1>2. CASE Send(n)
  BY <1>1, <1>2 DEF IInv, TypeOK
<1>3. CASE SendFails(n)
  <2>1. CASE headFailed' = TRUE /\ UNCHANGED <<headWritten, announced, sent>>
    BY <2>1 DEF IInv, TypeOK, LimitIsAnnounced
  <2>2. CASE \E m \in 0..(IF n = 0 THEN 0 ELSE n - 1) : Send(m)
    <3>1. PICK m \in 0..(IF n = 0 THEN 0 ELSE n - 1) : Send(m)
      BY <2>2
    <3>2. m \in Nat
      BY <3>1
    <3> QED
      BY <1>1, <3>1, <3>2 DEF IInv, TypeOK
  <2> QED
    BY <1>3, <2>1, <2>2 DEF SendFails
<1> QED
  BY <1>2, <1>3

(* Writer.Write, of the handler or of StringBody.                           *)
LEMMA WriteIInv ==
  ASSUME IInv, ~panicked, NEW n \in Lengths, NEW next \in {"idle", "close"},
         WriteBytes(n, next),
         (pc = "idle" /\ next = "idle") \/ (pc = "write" /\ next = "close" /\ n = arg)
  PROVE  IInv'
<1>1. CASE (buffered \/ GetPipedBody("panic")) /\ Panic
  BY <1>1, PanicIInv
<1>2. CASE GetPipedBody("failed") /\ result' = "failed" /\ pc' = "idle"
           /\ UNCHANGED <<headWritten, headFailed, announced, sent>>
           /\ UNCHANGED <<headerVars, buffered, closes, arg, panicked>>
  <2>1. piped = "nil" /\ piped' = "broken" /\ Body
    BY <1>2 DEF GetPipedBody
  <2>2. /\ writer' \in {"limit", "plain"} /\ limit' \in Lengths
        /\ writer # "nil" => UNCHANGED <<writer, limit>>
    BY <2>1, BuiltOnce
  <2> QED
    BY <1>2, <2>1, <2>2 DEF headerVars, IInv, TypeOK, BuiltIsSent, LimitIsAnnounced, Untouched,
                            StringBodyInv, Results
<1>3. CASE /\ GetPipedBody("ok")
           /\ UNCHANGED <<headerVars, buffered, closes, arg, panicked>>
           /\ \/ /\ Send(Passes(n))
                 /\ result' = IF Exceeds(n) THEN "exceeded" ELSE "nil"
                 /\ pc' = IF Exceeds(n) THEN "idle" ELSE next
              \/ /\ SendFails(Passes(n))
                 /\ result' = "failed" /\ pc' = "idle"
  <2>1. /\ piped' = "open" /\ piped \in {"nil", "open"}
        /\ writer' \in {"limit", "plain"} /\ limit' \in Lengths
        /\ writer # "nil" => UNCHANGED <<writer, limit>>
        /\ writer = "nil" /\ writer' = "limit" => limit' = BodyLength
        /\ writer = "nil" /\ writer' = "plain" => BodyLength = -1
    <3>1. CASE piped # "nil"
      <4>1. piped = "open" /\ UNCHANGED <<writer, limit, piped>> /\ writer # "nil"
        BY <1>3, <3>1 DEF GetPipedBody, chainVars, IInv, TypeOK
      <4> QED
        BY <4>1 DEF IInv, TypeOK
    <3>2. CASE piped = "nil"
      <4>1. Body /\ piped' = "open"
        BY <1>3, <3>2 DEF GetPipedBody
      <4> QED
        BY <3>2, <4>1, BuiltOnce
    <3> QED
      BY <3>1, <3>2
  <2>2. Passes(n) \in Nat
    <3>1. n \in Nat /\ limit' \in Nat
      BY <2>1, BodyAssumption DEF Lengths
    <3>2. \A a, b \in Nat : a > b => a - b \in Nat
      OBVIOUS
    <3> QED
      BY <3>1, <3>2 DEF Passes
  <2>3. /\ headWritten' \in BOOLEAN /\ headFailed' \in BOOLEAN
        /\ announced' \in Lengths \cup {-1} /\ sent' \in Nat
        /\ headWritten' \/ headFailed'
        /\ LimitIsAnnounced'
    BY <1>3, <2>1, <2>2, SendAnnounces DEF headerVars
  <2>4. pc' \in {"idle", "close"} /\ result' \in Results
    BY <1>3 DEF Results
  <2>5. TypeOK'
    BY <1>3, <2>1, <2>3, <2>4 DEF IInv, TypeOK, headerVars
  <2>6. StringBodyInv'
    <3>1. CASE pc' = "idle"
      BY <3>1 DEF StringBodyInv
    <3>2. CASE pc' = "close"
      <4>1. pc = "write" /\ n = arg /\ Send(Passes(n)) /\ ~Exceeds(n)
        BY <1>3, <3>2
      <4>2. cl = arg /\ piped = "nil" /\ Passes(n) = arg
        BY <4>1 DEF IInv, StringBodyInv, Passes, Exceeds
      <4>3. closes = 0 => headWritten' /\ announced' = arg /\ sent' = arg
        <5>1. closes = 0 => ~headWritten /\ sent = 0
          BY <4>2 DEF IInv, Untouched
        <5>2. arg \in Nat /\ sent \in Nat
          BY BodyAssumption DEF IInv, TypeOK, Lengths
        <5> QED
          BY <4>1, <4>2, <5>1, <5>2 DEF Send
      <4> QED
        BY <1>3, <2>1, <3>2, <4>2, <4>3 DEF StringBodyInv, headerVars
    <3> QED
      BY <2>4, <3>1, <3>2
  <2> QED
    BY <2>1, <2>3, <2>5, <2>6 DEF IInv, BuiltIsSent, Untouched
<1> QED
  BY <1>1, <1>2, <1>3 DEF WriteBytes

(* Close, of the handler or of StringBody.                                  *)
LEMMA CloseIInv ==
  ASSUME IInv, ~panicked, CloseBody, pc \in {"idle", "close"}
  PROVE  IInv' /\ (pc = "close" /\ pc' = "idle" /\ result' = "nil" /\ closes = 0
                     => announced' = arg /\ sent' = arg /\ headWritten' /\ closes' = 1)
<1>0. pc = "close" => piped = "open" /\ cl = arg
  BY DEF IInv, StringBodyInv
<1>1. CASE Panic
  <2>1. pc' = pc
    BY <1>1 DEF Panic
  <2> QED
    BY <1>1, <2>1, PanicIInv
<1>2. CASE /\ buffered /\ piped = "nil"
           /\ result' = "nil" /\ pc' = "idle"
           /\ UNCHANGED <<headerVars, chainVars, buffered, wireVars, arg, panicked>>
  BY <1>0, <1>2 DEF headerVars, chainVars, wireVars, IInv, TypeOK, BuiltIsSent, LimitIsAnnounced,
                    Untouched, StringBodyInv, Results
<1>3. CASE /\ \/ piped = "open" /\ UNCHANGED <<writer, limit>>
              \/ ~buffered /\ piped = "nil" /\ Body
           /\ CloseChain
           /\ pc' = "idle"
           /\ UNCHANGED <<headerVars, buffered, arg, panicked>>
  <2>1. /\ piped \in {"nil", "open"}
        /\ writer' \in {"limit", "plain"} /\ limit' \in Lengths
        /\ writer # "nil" => UNCHANGED <<writer, limit>>
        /\ writer = "nil" /\ writer' = "limit" => limit' = BodyLength
        /\ writer = "nil" /\ writer' = "plain" => BodyLength = -1
    <3>1. CASE piped = "open" /\ UNCHANGED <<writer, limit>>
      BY <3>1 DEF IInv, TypeOK
    <3>2. CASE piped = "nil" /\ Body
      BY <3>2, BuiltOnce
    <3> QED
      BY <1>3, <3>1, <3>2
  <2>2. Send(0) \/ SendFails(0)
    BY <1>3 DEF CloseChain
  <2>3. /\ headWritten' \in BOOLEAN /\ headFailed' \in BOOLEAN
        /\ announced' \in Lengths \cup {-1} /\ sent' \in Nat
        /\ headWritten' \/ headFailed'
        /\ LimitIsAnnounced'
    BY <1>3, <2>1, <2>2, SendAnnounces DEF headerVars
  <2>4. /\ closes' = closes + 1 /\ piped' = "nil" /\ result' \in {"nil", "failed"}
        /\ closes \in Nat
    BY <1>3 DEF CloseChain, IInv, TypeOK
  <2>5. TypeOK'
    BY <1>3, <2>1, <2>3, <2>4 DEF IInv, TypeOK, headerVars, Results
  <2>6. closes' # 0
    BY <2>4
  <2>7. IInv'
    BY <1>3, <2>3, <2>5, <2>6 DEF IInv, BuiltIsSent, Untouched, StringBodyInv
  <2>8. ASSUME pc = "close", closes = 0, result' = "nil"
        PROVE  announced' = arg /\ sent' = arg /\ headWritten' /\ closes' = 1
    <3>1. headWritten /\ announced = arg /\ sent = arg /\ arg \in Nat
      BY <2>8, BodyAssumption DEF IInv, StringBodyInv, TypeOK, Lengths
    <3>2. Send(0)
      BY <1>3, <2>8, <3>1 DEF CloseChain
    <3> QED
      BY <2>4, <2>8, <3>1, <3>2 DEF Send
  <2> QED
    BY <2>7, <2>8
<1> QED
  BY <1>1, <1>2, <1>3 DEF CloseBody

LEMMA FlushIInv == ASSUME IInv, Flush PROVE IInv'
<1>1. CASE piped = "broken" /\ Panic
  BY <1>1, PanicIInv
<1>2. CASE piped = "nil" /\ result' = "nil"
           /\ UNCHANGED <<headWritten, headFailed, announced, sent>>
           /\ UNCHANGED <<headerVars, chainVars, buffered, closes, pc, arg, panicked>>
  BY <1>2 DEF headerVars, chainVars, IInv, TypeOK, BuiltIsSent, LimitIsAnnounced, Untouched,
              StringBodyInv, Results
<1>3. CASE piped = "open" /\ (Send(0) \/ SendFails(0)) /\ result' \in {"nil", "failed"}
           /\ UNCHANGED <<headerVars, chainVars, buffered, closes, pc, arg, panicked>>
  <2>1. writer # "nil" /\ UNCHANGED <<writer, limit, piped>> /\ pc = "idle"
    BY <1>3 DEF chainVars, IInv, TypeOK, Flush, MayCall
  <2>2. /\ headWritten' \in BOOLEAN /\ headFailed' \in BOOLEAN
        /\ announced' \in Lengths \cup {-1} /\ sent' \in Nat
        /\ headWritten' \/ headFailed'
        /\ LimitIsAnnounced'
    <3>1. writer' \in {"limit", "plain"}
      BY <2>1 DEF IInv, TypeOK
    <3> QED
      BY <1>3, <2>1, <3>1, SendAnnounces DEF headerVars
  <2>3. TypeOK'
    BY <1>3, <2>1, <2>2 DEF IInv, TypeOK, headerVars, Results
  <2> QED
    BY <1>3, <2>1, <2>2, <2>3 DEF IInv, BuiltIsSent, Untouched, StringBodyInv
<1> QED
  BY <1>1, <1>2, <1>3 DEF Flush, IInv, TypeOK

LEMMA NextIInv ==
  ASSUME IInv, [Next]_vars
  PROVE  IInv' /\ (pc = "close" /\ pc' = "idle" /\ result' = "nil" /\ closes = 0
                     => announced' = arg /\ sent' = arg /\ headWritten' /\ closes' = 1)
<1>1. CASE SetLength \/ SetSizeUnknown \/ StringBody \/ SetBuffered
  <2>1. pc = "idle"
    BY <1>1 DEF SetLength, SetSizeUnknown, StringBody, SetBuffered, MayCall
  <2> QED
    BY <1>1, <2>1, SetterIInv
<1>2. CASE Write
  <2>1. pc = "idle" /\ ~panicked
    BY <1>2 DEF Write, MayCall
  <2>2. ASSUME NEW n \in Lengths, WriteBytes(n, "idle") PROVE IInv'
    BY <2>1, <2>2, WriteIInv
  <2> QED
    BY <1>2, <2>1, <2>2 DEF Write
<1>3. CASE StringBodyWrite
  <2>1. pc = "write" /\ ~panicked /\ WriteBytes(arg, "close") /\ arg \in Lengths
    BY <1>3 DEF StringBodyWrite, IInv, TypeOK
  <2> QED
    BY <2>1, WriteIInv
<1>4. CASE Close \/ StringBodyClose
  <2>1. CloseBody /\ ~panicked /\ pc \in {"idle", "close"}
    BY <1>4 DEF Close, StringBodyClose, MayCall
  <2> QED
    BY <2>1, CloseIInv
<1>5. CASE Flush
  <2>1. pc = "idle"
    BY <1>5 DEF Flush, MayCall
  <2> QED
    BY <1>5, <2>1, FlushIInv
<1>6. CASE Over \/ UNCHANGED vars
  <2>1. UNCHANGED vars
    BY <1>6 DEF Over
  <2> QED
    BY <2>1, StutterIInv DEF vars
<1> QED
  BY <1>1, <1>2, <1>3, <1>4, <1>5, <1>6 DEF Next

(* The inductive invariant of a response body.                              *)
THEOREM BodyInvariant == Spec => []IInv
<1>1. IInv /\ [Next]_vars => IInv'
  BY NextIInv
<1> QED
  BY <1>1, InitIInv, PTL DEF Spec

(* Type correctness of jps.Writer and http1.BodyWriter.                     *)
THEOREM BodyTypes == Spec => []TypeOK
<1>1. IInv => TypeOK
  BY DEF IInv
<1> QED
  BY <1>1, BodyInvariant, PTL

(* BodyWriter holds a body to the Content-Length that went out, however     *)
(* often a handler sets another one, closes the body and starts it again,   *)
(* for bodies of any length.                                                *)
THEOREM BodyHeldToAnnounced == Spec => []LimitIsAnnounced
<1>1. IInv => LimitIsAnnounced
  BY DEF IInv
<1> QED
  BY <1>1, BodyInvariant, PTL

(* A StringBody or BytesBody that reports success has announced and sent    *)
(* exactly its argument and ended the response.                             *)
THEOREM StringBodySent == Spec => StringBodyExact
<1>1. IInv /\ [Next]_vars =>
        [pc = "close" /\ pc' = "idle" /\ result' = "nil" /\ closes = 0
           => announced' = arg /\ sent' = arg /\ headWritten' /\ closes' = 1]_vars
  BY NextIInv
<1> QED
  BY <1>1, BodyInvariant, PTL DEF Spec, StringBodyExact
===============================================================================
