---------------------------- MODULE HTTP1Session ----------------------------
(* One HTTP/1 connection: http1.Session (src/http/http1/handler.go) under    *)
(* the loop of jps.Server.HandleSession, with the response writers of its    *)
(* frames (writerWrapper in bodyWriter.go) running in goroutines of their    *)
(* own.                                                                      *)
(*                                                                           *)
(* conLock is a Go Mutex: it has no owner, any goroutine may unlock it, and  *)
(* unlocking it when it is not locked is a fatal error of the process.       *)
(* close and hyjacked are plain fields that End, Hyjack, Frame and the two   *)
(* callbacks of the response read and write without a lock of their own.     *)
EXTENDS Naturals, Sequences, FiniteSets

CONSTANTS
  MaxFrames,  \* bound: requests the peer sends
  MaxTries,   \* bound: failed writes of one response header
  MaxCloses   \* how often a handler closes one response body

ASSUME SessionAssumption ==
  MaxFrames \in Nat \ {0} /\ MaxTries \in Nat /\ MaxCloses \in Nat \ {0}

VARIABLES
  close, hyjacked,  \* fields of Session
  conLock,          \* Session.conLock is locked
  streamOpen,       \* Session.stream has not been closed
  crashed,          \* an unlocked conLock was unlocked
  pc,               \* where the loop of HandleSession is
  frames,           \* how many frames Frame has returned
  phase,            \* the response of each frame
  tries, closes,    \* failed header writes and closes of each response
  sent,             \* the frames whose headers were written, in order
  endAt,            \* where the loop was when End was called, or "never"
  broken,           \* a response header could not be written
  errored           \* the loop was ended by an error of the frame's handlers

vars == <<close, hyjacked, conLock, streamOpen, crashed, pc, frames, phase,
          tries, closes, sent, endAt, broken, errored>>
respVars == <<phase, tries, closes, sent>>
events == <<endAt, broken, errored>>

FrameIds == 1..MaxFrames
Phases == {"none", "open", "headed", "failed", "closed", "lost"}
LoopPcs == {"frame", "check", "peek", "parse", "handling", "ended"}

TypeOK ==
  /\ close \in BOOLEAN /\ hyjacked \in BOOLEAN /\ conLock \in BOOLEAN
  /\ streamOpen \in BOOLEAN /\ crashed \in BOOLEAN
  /\ broken \in BOOLEAN /\ errored \in BOOLEAN
  /\ endAt \in LoopPcs \union {"never"}
  /\ pc \in LoopPcs
  /\ frames \in 0..MaxFrames
  /\ phase \in [FrameIds -> Phases]
  /\ tries \in [FrameIds -> 0..MaxTries]
  /\ closes \in [FrameIds -> 0..MaxCloses]
  /\ \A f \in FrameIds : phase[f] # "none" <=> f <= frames
  /\ pc = "handling" => frames > 0

Init ==
  /\ close = FALSE /\ hyjacked = FALSE /\ conLock = FALSE
  /\ streamOpen = TRUE /\ crashed = FALSE /\ endAt = "never"
  /\ broken = FALSE /\ errored = FALSE
  /\ pc = "frame"
  /\ frames = 0
  /\ phase = [f \in FrameIds |-> "none"]
  /\ tries = [f \in FrameIds |-> 0]
  /\ closes = [f \in FrameIds |-> 0]
  /\ sent = <<>>

endCalled == endAt # "never"

(* A crashed process takes no step.                                         *)
At(l) == pc = l /\ ~crashed
Answering(f, ps) == phase[f] \in ps /\ ~crashed

(* sync.Mutex.Unlock.                                                       *)
Unlock == conLock' = FALSE /\ crashed' = ~conLock

------------------------------------------------------------------------------
(* HandleSession's loop and Session.Frame.                                  *)

(* Mutation: Frame does not wait for the stream.                            *)
FrameNoWait ==
  /\ At("frame")
  /\ conLock' = TRUE
  /\ pc' = "check"
  /\ UNCHANGED <<close, hyjacked, streamOpen, crashed, frames, respVars, events>>

(* Frame waits for the stream.                                              *)
FrameLock ==
  /\ At("frame")
  /\ ~conLock
  /\ conLock' = TRUE
  /\ pc' = "check"
  /\ UNCHANGED <<close, hyjacked, streamOpen, crashed, frames, respVars, events>>

(* Mutation: Frame does not look at close again once it has the lock.       *)
FrameCheckSkipped ==
  /\ At("check")
  /\ pc' = "peek"
  /\ UNCHANGED <<close, hyjacked, conLock, streamOpen, crashed, frames, respVars, events>>

(* close may have been set meanwhile: EOS, which ends HandleSession's loop. *)
FrameCheck ==
  /\ At("check")
  /\ \/ /\ close
        /\ Unlock
        /\ pc' = "ended"
     \/ /\ ~close
        /\ pc' = "peek"
        /\ UNCHANGED <<conLock, crashed>>
  /\ UNCHANGED <<close, hyjacked, streamOpen, frames, respVars, events>>

(* Mutation: a failing exit forgets to close the stream.                    *)
FailFrameKeepsStream ==
  /\ close' = TRUE
  /\ Unlock
  /\ pc' = "ended"
  /\ UNCHANGED <<hyjacked, streamOpen, frames, respVars, events>>

(* The failing exits of Frame: the session is marked, the lock released and *)
(* the stream closed; HandleSession returns the error.                      *)
FailFrame ==
  /\ close' = TRUE
  /\ Unlock
  /\ streamOpen' = FALSE
  /\ pc' = "ended"
  /\ UNCHANGED <<hyjacked, frames, respVars, events>>

(* The loop that skips up to five empty lines: the peer is gone, ...        *)
PeekFails == At("peek") /\ FailFrame

(* ... or the request line is next.                                         *)
PeekSucceeds ==
  /\ At("peek")
  /\ streamOpen
  /\ pc' = "parse"
  /\ UNCHANGED <<close, hyjacked, conLock, streamOpen, crashed, frames,
                 respVars, events>>

(* ParseRequest fails; if an answer is possible the error handler gives it. *)
ParseFails == At("parse") /\ FailFrame

(* ParseRequest succeeds: its second result overwrites close, and the frame *)
(* goes to HandleFrame.                                                     *)
ParseSucceeds ==
  /\ At("parse")
  /\ frames < MaxFrames
  /\ frames' = frames + 1
  /\ \E wantsClose \in BOOLEAN : close' = wantsClose
  /\ phase' = [phase EXCEPT ![frames'] = "open"]
  /\ pc' = "handling"
  /\ UNCHANGED <<hyjacked, conLock, streamOpen, crashed, tries, closes, sent,
                 events>>

(* The frame's handlers return, perhaps before the response has ended: the  *)
(* loop asks for the next frame, or ends with the handlers' error.          *)
HandlerReturns ==
  /\ At("handling")
  /\ \/ pc' = "frame" /\ UNCHANGED errored
     \/ pc' = "ended" /\ errored' = TRUE
  /\ UNCHANGED <<close, hyjacked, conLock, streamOpen, crashed, frames,
                 respVars, endAt, broken>>

------------------------------------------------------------------------------
(* The response of frame f.                                                 *)

(* Mutation: the lock is released with the header whatever the response.    *)
HeaderAlwaysUnlocks ==
  /\ close' \in {TRUE, close}
  /\ Unlock

(* headerGenerator: a response that ends the connection releases conLock    *)
(* with its header; a keep-alive response keeps it until it is closed.      *)
HeaderGenerator ==
  \/ /\ close' = TRUE        \* the handler set "Connection: close"
     /\ Unlock
  \/ /\ close
     /\ Unlock
     /\ UNCHANGED close
  \/ /\ ~close
     /\ UNCHANGED <<close, conLock, crashed>>

(* writerWrapper writes the header before the first byte, flush or close.   *)
WriteHeader(f) ==
  /\ Answering(f, {"open"})
  /\ streamOpen
  /\ HeaderGenerator
  /\ phase' = [phase EXCEPT ![f] = "headed"]
  /\ sent' = Append(sent, f)
  /\ UNCHANGED <<hyjacked, streamOpen, pc, frames, tries, closes, events>>

(* The write fails: HeadWritten stays false.  In Write and Flush the error  *)
(* is returned, and a later call generates the header again.                *)
WriteHeaderFails(f) ==
  /\ Answering(f, {"open"})
  /\ tries[f] < MaxTries
  /\ tries' = [tries EXCEPT ![f] = @ + 1]
  /\ HeaderGenerator
  /\ broken' = TRUE
  /\ UNCHANGED <<hyjacked, streamOpen, pc, frames, phase, closes, sent,
                 endAt, errored>>

(* The same failure inside Close, which goes on to the close callback.      *)
CloseHeaderFails(f) ==
  /\ Answering(f, {"open"})
  /\ HeaderGenerator
  /\ phase' = [phase EXCEPT ![f] = "failed"]
  /\ broken' = TRUE
  /\ UNCHANGED <<hyjacked, streamOpen, pc, frames, tries, closes, sent,
                 endAt, errored>>

(* Mutations: the lock is released after every response, or after none.     *)
CloseAlwaysUnlocks ==
  /\ streamOpen' = (streamOpen /\ (~close \/ hyjacked))
  /\ Unlock
CloseNeverUnlocks ==
  /\ streamOpen' = (streamOpen /\ (~close \/ hyjacked))
  /\ UNCHANGED <<conLock, crashed>>

(* The close callback: the stream is closed after the last response, and    *)
(* after any other one the lock passes to the next frame.                   *)
CloseCallback ==
  \/ /\ close /\ ~hyjacked
     /\ streamOpen' = FALSE
     /\ UNCHANGED <<conLock, crashed>>
  \/ /\ ~close \/ hyjacked
     /\ Unlock
     /\ UNCHANGED streamOpen

CloseBody(f) ==
  /\ Answering(f, {"headed", "failed", "closed"})
  /\ closes[f] < MaxCloses
  /\ closes' = [closes EXCEPT ![f] = @ + 1]
  /\ CloseCallback
  /\ phase' = [phase EXCEPT ![f] = "closed"]
  /\ UNCHANGED <<close, hyjacked, pc, frames, tries, sent, events>>

(* The close callback of f is never reached: no handler took the frame      *)
(* (HandleFrame discards handled), the handler let go of the response or    *)
(* gave the stream away by Hyjack, the body was buffered, or could not be   *)
(* set up, so that Writer.Close has no body to close, or a pipe before the  *)
(* callback failed to close.                                                *)
NeverClosed(f) ==
  /\ Answering(f, {"open", "headed"})
  /\ phase' = [phase EXCEPT ![f] = "lost"]
  /\ UNCHANGED <<close, hyjacked, conLock, streamOpen, crashed, pc, frames,
                 tries, closes, sent, events>>

(* Session.Hyjack, called by the handler of f while it answers.             *)
Hyjack(f) ==
  /\ ~hyjacked
  /\ Answering(f, {"open", "headed"})
  /\ hyjacked' = TRUE
  /\ close' = TRUE
  /\ UNCHANGED <<conLock, streamOpen, crashed, pc, frames, respVars, events>>

------------------------------------------------------------------------------
(* Session.End, called by any goroutine at any time.                        *)
End ==
  /\ ~crashed /\ ~endCalled
  /\ endAt' = pc
  /\ close' = TRUE
  /\ UNCHANGED <<hyjacked, conLock, streamOpen, crashed, pc, frames, respVars,
                 broken, errored>>

Loop == \/ FrameLock \/ FrameCheck \/ PeekFails \/ PeekSucceeds
        \/ ParseFails \/ ParseSucceeds \/ HandlerReturns

Respond(f) == \/ WriteHeader(f) \/ WriteHeaderFails(f) \/ CloseHeaderFails(f)
              \/ CloseBody(f) \/ NeverClosed(f)

(* The loop has returned and every response has been closed.                *)
Over == pc = "ended" /\ \A f \in FrameIds : phase[f] \in {"none", "closed"}

(* Nobody will touch a response any more.                                   *)
Quiet == \A f \in FrameIds : phase[f] \in {"none", "closed", "lost"}
SomeLost == \E f \in FrameIds : phase[f] = "lost"

(* After End the close callback of a keep-alive response closes the stream  *)
(* and keeps conLock: the loop waits for it for ever.                       *)
BlockedByEnd == endCalled /\ conLock /\ ~streamOpen

(* The connection is over, blocked by End or by a response that nobody      *)
(* closes, or the process has died.  Any other state without a successor is *)
(* a deadlock.                                                              *)
Finished ==
  /\ \/ crashed
     \/ Quiet /\ pc = "ended"
     \/ Quiet /\ pc = "frame" /\ conLock /\ (BlockedByEnd \/ SomeLost)
  /\ UNCHANGED vars

Next == \/ Loop
        \/ \E f \in FrameIds : Respond(f) \/ Hyjack(f)
        \/ End
        \/ Finished

Spec == Init /\ [][Next]_vars

(* The loop's goroutine runs, the peer sends or hangs up, and every handler *)
(* comes to an end with its response.  Nothing makes it close the response: *)
(* NeverClosed is as good an end as the close callback.                     *)
FirstClose(f) == closes[f] = 0 /\ CloseBody(f)
Fairness ==
  /\ WF_vars(Loop)
  /\ \A f \in FrameIds :
       WF_vars(\/ WriteHeader(f) \/ CloseHeaderFails(f)
               \/ FirstClose(f) \/ NeverClosed(f))

FairSpec == Spec /\ Fairness

------------------------------------------------------------------------------
(* Properties.                                                              *)

(* A response that is never closed keeps the stream.                        *)
InUse == {f \in FrameIds : phase[f] \in {"open", "headed", "failed", "lost"}}

(* conLock "is to ensure that only 1 frame is using the stream at a time":  *)
(* no request is read and no response begun while another one is not ended. *)
OneFrameAtATime ==
  /\ Cardinality(InUse) <= 1
  /\ pc \in {"peek", "parse"} => InUse = {}

(* The lock is never released by somebody who does not hold it, as long as  *)
(* response headers can be written and nobody takes the stream over.        *)
NoDoubleUnlock == crashed => broken \/ hyjacked

(* With its lock and its goroutines the session still hands the stream from *)
(* one request to the next as SessionPipeline does: responses leave in the  *)
(* order of the requests, at most one for each, and a stream given back is  *)
(* not used again, although two writers may hold references to it.          *)
Pipeline == INSTANCE SessionPipeline WITH given <- frames, holds <- InUse
ImplementsPipeline == Pipeline!Spec

(* "close might have been set to true while we were waiting, so check       *)
(* again": once End has returned no further request is taken from the       *)
(* stream.  The exception is an End that comes while Frame reads a request: *)
(* ParseRequest's second result overwrites the mark.                        *)
EndStopsReading ==
  [][frames' # frames => endAt \in {"never", "peek", "parse"}]_vars

(* conLock is unlocked "when the response has ended": the loop waits for    *)
(* the next frame for ever only in two cases.  Some response is never       *)
(* closed; or End came between the header and the end of a keep-alive body, *)
(* whose close callback then closes the stream and keeps the lock.  In      *)
(* every other case, End before the header or with no frame in use, Hyjack, *)
(* failed headers and the peer's disappearing included, the stream's        *)
(* handler returns and the server can deregister the connection.            *)
LoopGoesOn ==
  (pc = "frame") ~> (pc # "frame" \/ crashed \/ SomeLost \/ BlockedByEnd)

(* Once the loop has ended and every response been closed, the stream has   *)
(* been closed, unless a handler took it over, End was called between two   *)
(* frames or the handlers returned an error after a keep-alive response.    *)
EndedClosesStream ==
  Over /\ ~endCalled /\ ~errored => ~streamOpen \/ hyjacked

(* conLock's comment, "unlocked when the response has ended": a header that *)
(* cannot be written does not unlock it once more.                          *)
UnlockedOncePerResponse == crashed => hyjacked
==============================================================================
