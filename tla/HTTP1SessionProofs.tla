-------------------------- MODULE HTTP1SessionProofs --------------------------
(* Proofs about one HTTP/1 connection, for any number of pipelined requests   *)
(* and of failed header writes.  The type invariant holds whatever handlers   *)
(* do; everything else needs them to close a response body only once, because *)
(* a second close unlocks conLock for a frame that is not its own.            *)
EXTENDS HTTP1Session, FiniteSetTheorems, TLAPS

Busy(f) == phase[f] \in {"open", "headed", "failed", "lost"}

(* Only the latest frame may be unanswered, and a response is closed once.  *)
LatestInUse ==
  /\ \A f \in FrameIds : f < frames => phase[f] = "closed"
  /\ \A f \in FrameIds : closes[f] = (IF phase[f] = "closed" THEN 1 ELSE 0)

(* Who answers for conLock.  While the session is kept alive it belongs to  *)
(* the frame in use, or to the loop between two frames.  A frame gives it   *)
(* up early only when close is set, and then the loop cannot get past its   *)
(* second look at close: this is why a lock without an owner is enough.     *)
LockHandedOver ==
  /\ \A f \in FrameIds : Busy(f) /\ ~close => conLock
  /\ \A f \in FrameIds : Busy(f) /\ pc = "check" => close
  /\ \A f \in FrameIds : Busy(f) => pc \notin {"peek", "parse"}
  /\ pc = "check" /\ ~close => conLock
  /\ pc \in {"peek", "parse"} => conLock

(* close is not taken back after Hyjack, nor after an End that did not come *)
(* while Frame was reading a request.                                       *)
CloseStays ==
  /\ hyjacked => close /\ pc \notin {"peek", "parse"}
  /\ endAt \notin {"never", "peek", "parse"} => close /\ pc \notin {"peek", "parse"}

(* As long as headers are written and nobody takes the stream over, the     *)
(* lock is held by whoever is about to unlock it.                           *)
OwnerUnlocks ==
  ~broken /\ ~hyjacked =>
    /\ ~crashed
    /\ \A f \in FrameIds : phase[f] # "failed"
    /\ \A f \in FrameIds : phase[f] = "open" => conLock /\ pc # "check"
    /\ pc = "check" => conLock

(* A session marked by its own request or response still has the response   *)
(* that will close the stream, and only a marked session's loop ends.       *)
MarkedCloses ==
  /\ ~endCalled /\ ~hyjacked /\ close /\ streamOpen => \E f \in FrameIds : Busy(f)
  /\ pc = "ended" /\ ~errored => close

(* A response is in sent only once its header has been written.             *)
SentHeaded ==
  /\ sent \in Seq(FrameIds)
  /\ \A i \in 1..Len(sent) : phase[sent[i]] \in {"headed", "closed", "lost"}

LockInv == /\ LatestInUse
           /\ LockHandedOver
           /\ CloseStays
           /\ OwnerUnlocks
           /\ MarkedCloses
           /\ SentHeaded
IInv == TypeOK /\ LockInv

------------------------------------------------------------------------------
(* Types, whatever the handlers do.                                         *)

LEMMA InitType == Init => TypeOK
<1> SUFFICES ASSUME Init PROVE TypeOK
  OBVIOUS
<1> USE SessionAssumption DEF Init, FrameIds
<1>1. /\ phase \in [FrameIds -> Phases]
      /\ tries \in [FrameIds -> 0..MaxTries]
      /\ closes \in [FrameIds -> 0..MaxCloses]
  BY DEF Phases
<1>2. \A f \in FrameIds : phase[f] # "none" <=> f <= frames
  OBVIOUS
<1>3. /\ frames \in 0..MaxFrames
      /\ pc \in LoopPcs /\ pc # "handling"
      /\ endAt \in LoopPcs \union {"never"}
  BY DEF LoopPcs
<1>4. /\ close \in BOOLEAN /\ hyjacked \in BOOLEAN /\ conLock \in BOOLEAN
      /\ streamOpen \in BOOLEAN /\ crashed \in BOOLEAN
      /\ broken \in BOOLEAN /\ errored \in BOOLEAN
  OBVIOUS
<1> QED
  BY <1>1, <1>2, <1>3, <1>4 DEF TypeOK

(* What the callbacks of a response do to the fields of the session.        *)
LEMMA CallbackTypes ==
  ASSUME TypeOK
  PROVE  /\ HeaderGenerator => close' \in BOOLEAN /\ conLock' \in BOOLEAN /\ crashed' \in BOOLEAN
         /\ CloseCallback => streamOpen' \in BOOLEAN /\ conLock' \in BOOLEAN /\ crashed' \in BOOLEAN
BY DEF TypeOK, HeaderGenerator, CloseCallback, Unlock

(* A response that has begun goes on to another phase.                      *)
LEMMA PhaseTypes ==
  ASSUME TypeOK, NEW f \in FrameIds, phase[f] # "none",
         NEW p \in Phases \ {"none"}, phase' = [phase EXCEPT ![f] = p], frames' = frames
  PROVE  /\ phase' \in [FrameIds -> Phases]
         /\ \A g \in FrameIds : phase'[g] # "none" <=> g <= frames'
BY DEF TypeOK

LEMMA NextType == TypeOK /\ [Next]_vars => TypeOK'
<1> SUFFICES ASSUME TypeOK, [Next]_vars PROVE TypeOK'
  OBVIOUS
<1> USE SessionAssumption
    DEF TypeOK, FrameIds, Phases, LoopPcs, At, Answering, Unlock, respVars,
        events
<1>1. CASE Loop
  <2>1. CASE FrameLock
    BY <2>1 DEF FrameLock
  <2>2. CASE FrameCheck
    BY <2>2 DEF FrameCheck
  <2>3. CASE PeekFails
    BY <2>3 DEF PeekFails, FailFrame
  <2>4. CASE PeekSucceeds
    BY <2>4 DEF PeekSucceeds
  <2>5. CASE ParseFails
    BY <2>5 DEF ParseFails, FailFrame
  <2>6. CASE ParseSucceeds
    BY <2>6, SMTT(30) DEF ParseSucceeds
  <2>7. CASE HandlerReturns
    BY <2>7 DEF HandlerReturns
  <2> QED
    BY <1>1, <2>1, <2>2, <2>3, <2>4, <2>5, <2>6, <2>7 DEF Loop
<1>2. ASSUME NEW f \in FrameIds, Respond(f) PROVE TypeOK'
  <2>1. CASE WriteHeader(f)
    <3>1. close' \in BOOLEAN /\ conLock' \in BOOLEAN /\ crashed' \in BOOLEAN
      BY <2>1, CallbackTypes DEF WriteHeader
    <3>2. /\ phase' \in [FrameIds -> Phases]
          /\ \A g \in FrameIds : phase'[g] # "none" <=> g <= frames'
      BY <2>1, PhaseTypes DEF WriteHeader
    <3> QED
      BY <2>1, <3>1, <3>2 DEF WriteHeader
  <2>2. CASE WriteHeaderFails(f)
    <3>1. close' \in BOOLEAN /\ conLock' \in BOOLEAN /\ crashed' \in BOOLEAN
      BY <2>2, CallbackTypes DEF WriteHeaderFails
    <3>2. tries' \in [FrameIds -> 0..MaxTries]
      BY <2>2, SMTT(30) DEF WriteHeaderFails
    <3> QED
      BY <2>2, <3>1, <3>2 DEF WriteHeaderFails
  <2>3. CASE CloseHeaderFails(f)
    <3>1. close' \in BOOLEAN /\ conLock' \in BOOLEAN /\ crashed' \in BOOLEAN
      BY <2>3, CallbackTypes DEF CloseHeaderFails
    <3>2. /\ phase' \in [FrameIds -> Phases]
          /\ \A g \in FrameIds : phase'[g] # "none" <=> g <= frames'
      BY <2>3, PhaseTypes DEF CloseHeaderFails
    <3> QED
      BY <2>3, <3>1, <3>2, SMTT(30) DEF CloseHeaderFails
  <2>4. CASE CloseBody(f)
    <3>1. closes' \in [FrameIds -> 0..MaxCloses]
      BY <2>4, SMTT(30) DEF CloseBody
    <3>2. /\ phase' \in [FrameIds -> Phases]
          /\ \A g \in FrameIds : phase'[g] # "none" <=> g <= frames'
      BY <2>4, PhaseTypes DEF CloseBody
    <3>3. /\ conLock' \in BOOLEAN /\ streamOpen' \in BOOLEAN
          /\ crashed' \in BOOLEAN
      BY <2>4, CallbackTypes DEF CloseBody
    <3> QED
      BY <2>4, <3>1, <3>2, <3>3 DEF CloseBody
  <2>5. CASE NeverClosed(f)
    <3>1. /\ phase' \in [FrameIds -> Phases]
          /\ \A g \in FrameIds : phase'[g] # "none" <=> g <= frames'
      BY <2>5, PhaseTypes DEF NeverClosed
    <3> QED
      BY <2>5, <3>1 DEF NeverClosed
  <2> QED
    BY <1>2, <2>1, <2>2, <2>3, <2>4, <2>5 DEF Respond
<1>3. ASSUME NEW f \in FrameIds, Hyjack(f) PROVE TypeOK'
  BY <1>3, SMTT(30) DEF Hyjack
<1>4. CASE End
  BY <1>4, SMTT(30) DEF End
<1>5. CASE Finished \/ UNCHANGED vars
  BY <1>5, SMTT(30) DEF Finished, vars
<1> QED
  BY <1>1, <1>2, <1>3, <1>4, <1>5 DEF Next

(* The loop's place, the frames given and the phase of each response always *)
(* agree: Frame numbers its frames, and a response exists from its frame on.*)
THEOREM SessionTypes == Spec => []TypeOK
BY InitType, NextType, PTL DEF Spec

------------------------------------------------------------------------------
(* The inductive invariant, when each response body is closed once.         *)

LEMMA InitIInv == Init => IInv
<1> SUFFICES ASSUME Init PROVE IInv
  OBVIOUS
<1>1. TypeOK
  BY InitType
<1>2. \A f \in FrameIds : phase[f] = "none" /\ closes[f] = 0
  BY DEF Init
<1>3. LatestInUse /\ SentHeaded
  BY <1>2, SessionAssumption DEF Init, LatestInUse, SentHeaded, FrameIds
<1>4. LockHandedOver /\ CloseStays /\ OwnerUnlocks /\ MarkedCloses
  BY <1>2 DEF Init, LockHandedOver, CloseStays, OwnerUnlocks, MarkedCloses, Busy
<1> QED
  BY <1>1, <1>3, <1>4 DEF IInv, LockInv

(* Whoever is in use is the latest frame.                                   *)
LEMMA OnlyLatest ==
  ASSUME TypeOK, LatestInUse, NEW f \in FrameIds, Busy(f)
  PROVE  f = frames /\ \A g \in FrameIds \ {f} : ~Busy(g)
<1>1. ASSUME NEW g \in FrameIds, Busy(g) PROVE g = frames
  <2>1. g <= frames /\ ~(g < frames)
    BY <1>1 DEF TypeOK, LatestInUse, Busy
  <2> QED
    BY <2>1, SessionAssumption DEF TypeOK, FrameIds
<1> QED
  BY <1>1

LEMMA SentMember ==
  ASSUME SentHeaded, NEW i \in 1..Len(sent)
  PROVE  sent[i] \in FrameIds /\ phase[sent[i]] \in {"headed", "closed", "lost"}
BY DEF SentHeaded

(* The loop's steps.  Frame reads a request only with the lock held and no  *)
(* response under way, so overwriting close there harms nobody.             *)
LEMMA LoopLockInv ==
  ASSUME IInv, Loop PROVE LockInv'
<1> USE SessionAssumption
    DEF IInv, LockInv, TypeOK, LatestInUse, LockHandedOver, CloseStays,
        OwnerUnlocks, MarkedCloses, SentHeaded, Busy, FrameIds, Phases,
        LoopPcs, At, Unlock, respVars, events, endCalled
<1>1. CASE FrameLock
  BY <1>1 DEF FrameLock
<1>2. CASE FrameCheck
  BY <1>2, SMTT(30) DEF FrameCheck
<1>3. CASE PeekFails
  BY <1>3 DEF PeekFails, FailFrame
<1>4. CASE PeekSucceeds
  BY <1>4 DEF PeekSucceeds
<1>5. CASE ParseFails
  BY <1>5 DEF ParseFails, FailFrame
<1>6. CASE ParseSucceeds
  <2>1. LatestInUse'
    BY <1>6, SMTT(30) DEF ParseSucceeds
  <2>2. LockHandedOver'
    BY <1>6 DEF ParseSucceeds
  <2>3. CloseStays'
    BY <1>6 DEF ParseSucceeds
  <2>4. OwnerUnlocks'
    BY <1>6 DEF ParseSucceeds
  <2>5. MarkedCloses'
    BY <1>6 DEF ParseSucceeds
  <2>6. SentHeaded'
    <3>1. /\ frames + 1 \in FrameIds /\ phase[frames + 1] = "none"
          /\ phase' = [phase EXCEPT ![frames + 1] = "open"] /\ sent' = sent
      BY <1>6 DEF ParseSucceeds
    <3>2. ASSUME NEW i \in 1..Len(sent)
          PROVE  sent[i] \in FrameIds /\ phase[sent[i]] \in {"headed", "closed", "lost"}
      BY SentMember
    <3> QED
      BY <3>1, <3>2
  <2> QED
    BY <2>1, <2>2, <2>3, <2>4, <2>5, <2>6
<1>7. CASE HandlerReturns
  BY <1>7 DEF HandlerReturns
<1> QED
  BY <1>1, <1>2, <1>3, <1>4, <1>5, <1>6, <1>7 DEF Loop

(* The steps of a response and of its handler.                              *)
LEMMA RespondLockInv ==
  ASSUME MaxCloses = 1, IInv, NEW f \in FrameIds, Respond(f) \/ Hyjack(f)
  PROVE  LockInv'
<1> USE SessionAssumption
    DEF IInv, LockInv, TypeOK, LatestInUse, LockHandedOver, CloseStays,
        OwnerUnlocks, MarkedCloses, SentHeaded, Busy, FrameIds, Phases,
        LoopPcs, Answering, Unlock, respVars, events, endCalled
<1>1. CASE WriteHeader(f)
  <2>1. LatestInUse'
    BY <1>1 DEF WriteHeader, HeaderGenerator
  <2>2. LockHandedOver'
    BY <1>1 DEF WriteHeader, HeaderGenerator
  <2>3. CloseStays'
    BY <1>1 DEF WriteHeader, HeaderGenerator
  <2>4. OwnerUnlocks'
    <3> SUFFICES ASSUME ~broken', ~hyjacked' PROVE OwnerUnlocks'
      OBVIOUS
    <3>1. conLock /\ ~broken /\ ~hyjacked /\ pc' # "check"
      BY <1>1 DEF WriteHeader
    <3>2. ~crashed'
      BY <1>1, <3>1 DEF WriteHeader, HeaderGenerator
    <3>3. \A g \in FrameIds \ {f} : ~Busy(g)
      BY <1>1, OnlyLatest DEF WriteHeader
    <3>4. \A g \in FrameIds : phase'[g] \notin {"open", "failed"}
      BY <1>1, <3>3 DEF WriteHeader
    <3> QED
      BY <3>1, <3>2, <3>4
  <2>5. MarkedCloses'
    BY <1>1 DEF WriteHeader, HeaderGenerator
  <2>6. SentHeaded'
    BY <1>1, SMTT(30) DEF WriteHeader, HeaderGenerator
  <2> QED
    BY <2>1, <2>2, <2>3, <2>4, <2>5, <2>6
<1>2. CASE WriteHeaderFails(f)
  BY <1>2 DEF WriteHeaderFails, HeaderGenerator
<1>3. CASE CloseHeaderFails(f)
  BY <1>3, SMTT(30) DEF CloseHeaderFails, HeaderGenerator
<1>4. CASE CloseBody(f)
  <2>1. LatestInUse'
    BY <1>4, SMTT(30) DEF CloseBody, CloseCallback
  <2>2. LockHandedOver'
    <3>0. Busy(f) /\ \A g \in FrameIds \ {f} : ~Busy(g)
      BY <1>4, OnlyLatest DEF CloseBody
    <3>1. Busy(f) /\ \A g \in FrameIds : phase'[g] \notin {"open", "headed", "failed", "lost"}
      BY <1>4, <3>0 DEF CloseBody
    <3>2. pc \notin {"peek", "parse"} /\ (pc = "check" => close)
      BY <3>1
    <3> QED
      BY <1>4, <3>1, <3>2 DEF CloseBody
  <2>3. CloseStays'
    BY <1>4 DEF CloseBody, CloseCallback
  <2>4. OwnerUnlocks'
    <3> SUFFICES ASSUME ~broken', ~hyjacked' PROVE OwnerUnlocks'
      OBVIOUS
    <3>1. /\ phase[f] = "headed" /\ ~broken /\ ~hyjacked
          /\ \A g \in FrameIds : phase'[g] \notin {"open", "failed"}
      BY <1>4, OnlyLatest DEF CloseBody
    <3>2. ~crashed' /\ (pc' = "check" => conLock')
      BY <1>4, <3>1 DEF CloseBody, CloseCallback
    <3> QED
      BY <3>1, <3>2
  <2>5. MarkedCloses'
    BY <1>4 DEF CloseBody, CloseCallback
  <2>6. SentHeaded'
    BY <1>4, SMTT(30) DEF CloseBody, CloseCallback
  <2> QED
    BY <2>1, <2>2, <2>3, <2>4, <2>5, <2>6
<1>5. CASE Hyjack(f)
  BY <1>5 DEF Hyjack
<1>6. CASE NeverClosed(f)
  BY <1>6, SMTT(30) DEF NeverClosed
<1> QED
  BY <1>1, <1>2, <1>3, <1>4, <1>5, <1>6 DEF Respond

LEMMA NextIInv ==
  ASSUME MaxCloses = 1, IInv, [Next]_vars PROVE IInv'
<1>1. TypeOK'
  BY NextType DEF IInv
<1>2. CASE Loop
  BY <1>1, <1>2, LoopLockInv DEF IInv
<1>3. CASE \E f \in FrameIds : Respond(f) \/ Hyjack(f)
  BY <1>1, <1>3, RespondLockInv DEF IInv
<1> USE DEF IInv, LockInv, LatestInUse, LockHandedOver, CloseStays,
            OwnerUnlocks, MarkedCloses, SentHeaded, Busy
<1>4. CASE End
  BY <1>4 DEF End, respVars, endCalled, TypeOK, LoopPcs
<1>5. CASE Finished \/ UNCHANGED vars
  <2>1. UNCHANGED vars
    BY <1>5 DEF Finished
  <2>2. LatestInUse' /\ LockHandedOver' /\ CloseStays' /\ OwnerUnlocks'
    BY <2>1 DEF vars
  <2>3. MarkedCloses' /\ SentHeaded'
    BY <2>1 DEF vars, endCalled
  <2> QED
    BY <1>1, <2>2, <2>3
<1> QED
  BY <1>1, <1>2, <1>3, <1>4, <1>5 DEF Next

LEMMA SessionIInv ==
  ASSUME MaxCloses = 1 PROVE Spec => []IInv
<1>1. IInv /\ [Next]_vars => IInv'
  BY NextIInv
<1> QED
  BY <1>1, InitIInv, PTL DEF Spec

(* A set with no two different elements has at most one.                    *)
LEMMA AtMostOne ==
  ASSUME NEW S, \A x, y \in S : x = y
  PROVE  Cardinality(S) <= 1
<1>1. CASE S = {}
  BY <1>1, FS_EmptySet
<1>2. CASE S # {}
  <2>1. PICK x \in S : S = {x}
    BY <1>2
  <2> QED
    BY <2>1, FS_Singleton
<1> QED
  BY <1>1, <1>2

(* conLock does what its comment promises for any number of requests: no    *)
(* two responses are under way together and no request is read before the   *)
(* last response has ended, even though End, Hyjack and the responses write *)
(* close without a lock.                                                    *)
THEOREM OneFrame ==
  ASSUME MaxCloses = 1 PROVE Spec => []OneFrameAtATime
<1>1. IInv => OneFrameAtATime
  <2> SUFFICES ASSUME IInv PROVE OneFrameAtATime
    OBVIOUS
  <2> USE DEF IInv, LockInv
  <2>1. \A f, g \in InUse : f = g
    BY SessionAssumption, SMTT(30) DEF InUse, LatestInUse, TypeOK, FrameIds
  <2>2. pc \in {"peek", "parse"} => InUse = {}
    BY DEF InUse, LockHandedOver, Busy
  <2> QED
    BY <2>1, <2>2, AtMostOne DEF OneFrameAtATime
<1> QED
  BY <1>1, SessionIInv, PTL

(* The process dies of unlocking an unlocked conLock only after a response  *)
(* header could not be written or a handler took the stream over.           *)
THEOREM UnlockedByOwner ==
  ASSUME MaxCloses = 1 PROVE Spec => []NoDoubleUnlock
<1>1. IInv => NoDoubleUnlock
  BY DEF IInv, LockInv, OwnerUnlocks, NoDoubleUnlock
<1> QED
  BY <1>1, SessionIInv, PTL

(* Once the loop and every response have ended the stream has been closed,  *)
(* unless Hyjack, End or an error of the handlers left it to others.        *)
THEOREM StreamClosed ==
  ASSUME MaxCloses = 1 PROVE Spec => []EndedClosesStream
<1>1. IInv => EndedClosesStream
  <2> SUFFICES ASSUME IInv, Over, ~endCalled, ~errored, streamOpen, ~hyjacked
               PROVE  FALSE
    BY DEF EndedClosesStream, IInv, TypeOK
  <2>1. \A f \in FrameIds : ~Busy(f)
    BY DEF Over, Busy
  <2>2. close
    BY DEF Over, IInv, LockInv, MarkedCloses
  <2> QED
    BY <2>1, <2>2 DEF IInv, LockInv, MarkedCloses
<1> QED
  BY <1>1, SessionIInv, PTL

(* An End that does not come while Frame reads a request is final: no step  *)
(* takes another request from the stream.                                   *)
THEOREM EndIsFinal ==
  ASSUME MaxCloses = 1 PROVE Spec => EndStopsReading
<1>1. IInv /\ [Next]_vars
      => [frames' # frames => endAt \in {"never", "peek", "parse"}]_vars
  <2> SUFFICES ASSUME IInv, Next, frames' # frames
               PROVE  endAt \in {"never", "peek", "parse"}
    BY DEF vars
  <2>1. pc = "parse"
    BY DEF Next, Loop, FrameLock, FrameCheck, PeekFails, FailFrame,
           PeekSucceeds, ParseFails, ParseSucceeds, HandlerReturns, Respond,
           WriteHeader, WriteHeaderFails, CloseHeaderFails, CloseBody, NeverClosed,
           Hyjack, End, Finished, vars, At
  <2> QED
    BY <2>1 DEF IInv, LockInv, CloseStays
<1> QED
  BY <1>1, SessionIInv, PTL DEF Spec, EndStopsReading

------------------------------------------------------------------------------
(* The refinement of SessionPipeline.                                       *)

(* A step that changes neither the frames nor what is sent, and moves no    *)
(* response in or out of use, is a stutter of the pipeline.                 *)
LEMMA StutterPipeline ==
  ASSUME UNCHANGED <<frames, sent>>,
         \A f \in FrameIds : Busy(f) <=> (Busy(f))'
  PROVE  UNCHANGED Pipeline!pipelineVars
BY DEF Pipeline!pipelineVars, InUse, Busy

(* ParseSucceeds is the only step that reads: the stream is free then.      *)
LEMMA ParseReads ==
  ASSUME IInv, ParseSucceeds PROVE Pipeline!Read
<1> USE DEF IInv, LockInv
<1>1. InUse = {}
  BY DEF ParseSucceeds, At, InUse, LockHandedOver, Busy
<1>2. frames + 1 \in FrameIds /\ frames' = frames + 1
  BY SessionAssumption DEF ParseSucceeds, TypeOK, FrameIds
<1>3. InUse' = {frames'}
  BY <1>1, <1>2 DEF ParseSucceeds, TypeOK, InUse
<1> QED
  BY <1>1, <1>2, <1>3 DEF Pipeline!Read, ParseSucceeds

(* A header goes out once, for the frame that holds the stream.             *)
LEMMA HeaderAnswers ==
  ASSUME IInv, NEW f \in FrameIds, WriteHeader(f) PROVE Pipeline!Answer(f)
<1> USE DEF IInv, LockInv
<1>1. f \in InUse /\ phase[f] = "open"
  BY DEF WriteHeader, Answering, InUse
<1>2. f \notin Pipeline!ToSet(sent)
  <2>1. \A i \in 1..Len(sent) : sent[i] # f
    BY <1>1, SentMember
  <2> QED
    BY <2>1 DEF Pipeline!ToSet, SentHeaded
<1>3. InUse' = InUse
  BY <1>1 DEF WriteHeader, TypeOK, InUse
<1> QED
  BY <1>1, <1>2, <1>3 DEF Pipeline!Answer, WriteHeader

(* The close callback gives the stream back, for good.                      *)
LEMMA CloseReleases ==
  ASSUME MaxCloses = 1, IInv, NEW f \in FrameIds, CloseBody(f)
  PROVE  Pipeline!Release(f)
<1> USE DEF IInv, LockInv
<1>1. closes[f] = 0
  BY DEF CloseBody, TypeOK
<1>2. f \in InUse
  BY <1>1 DEF CloseBody, Answering, LatestInUse, InUse
<1>3. InUse' = InUse \ {f}
  BY DEF CloseBody, TypeOK, InUse
<1> QED
  BY <1>2, <1>3 DEF Pipeline!Release, CloseBody

LEMMA NextPipeline ==
  ASSUME MaxCloses = 1, IInv, [Next]_vars
  PROVE  [Pipeline!Next]_(Pipeline!pipelineVars)
<1>1. CASE ParseSucceeds
  BY <1>1, ParseReads DEF Pipeline!Next
<1>2. ASSUME NEW f \in FrameIds, WriteHeader(f) PROVE Pipeline!Next
  BY <1>2, HeaderAnswers DEF Pipeline!Next, Pipeline!Answer
<1>3. ASSUME NEW f \in FrameIds, CloseBody(f) PROVE Pipeline!Next
  BY <1>3, CloseReleases DEF Pipeline!Next, Pipeline!Release
<1>4. CASE \/ FrameLock \/ FrameCheck \/ PeekFails \/ PeekSucceeds
           \/ ParseFails \/ HandlerReturns \/ End \/ Finished
           \/ UNCHANGED vars
  <2>1. UNCHANGED <<frames, sent, phase>>
    BY <1>4 DEF FrameLock, FrameCheck, PeekFails, FailFrame, PeekSucceeds,
       ParseFails, HandlerReturns, End, Finished, vars, respVars
  <2> QED
    BY <2>1, StutterPipeline DEF Busy
<1>5. ASSUME NEW f \in FrameIds,
             \/ WriteHeaderFails(f) \/ CloseHeaderFails(f)
             \/ NeverClosed(f) \/ Hyjack(f)
      PROVE  UNCHANGED Pipeline!pipelineVars
  <2>1. UNCHANGED <<frames, sent>>
    BY <1>5 DEF WriteHeaderFails, CloseHeaderFails, NeverClosed, Hyjack, respVars
  <2>2. \A g \in FrameIds : Busy(g) <=> (Busy(g))'
    BY <1>5 DEF WriteHeaderFails, CloseHeaderFails, NeverClosed, Hyjack, respVars, Busy,
                Answering, IInv, TypeOK
  <2> QED
    BY <2>1, <2>2, StutterPipeline
<1> QED
  BY <1>1, <1>2, <1>3, <1>4, <1>5 DEF Next, Loop, Respond

(* With its ownerless lock and its goroutines the session hands the stream  *)
(* from one request to the next as SessionPipeline does, however many       *)
(* requests are pipelined.                                                  *)
THEOREM PipelineRefined ==
  ASSUME MaxCloses = 1 PROVE Spec => ImplementsPipeline
<1>1. Init => Pipeline!Init
  BY DEF Init, Pipeline!Init, InUse
<1>2. IInv /\ [Next]_vars => [Pipeline!Next]_(Pipeline!pipelineVars)
  BY NextPipeline
<1> QED
  BY <1>1, <1>2, SessionIInv, PTL DEF Spec, ImplementsPipeline, Pipeline!Spec
==============================================================================
