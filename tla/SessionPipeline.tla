--------------------------- MODULE SessionPipeline ---------------------------
(* What http1.Session promises of pipelined requests, with no lock and no    *)
(* goroutines: a request is read only once the stream is free, its response  *)
(* is sent while it holds the stream, at most once, and the stream is given  *)
(* back for good.                                                            *)
EXTENDS Naturals, Sequences, SequencesExt

VARIABLES
  given,   \* how many requests have been read
  holds,   \* the requests that hold the stream
  sent     \* the requests answered, in the order of their responses

pipelineVars == <<given, holds, sent>>

Init == given = 0 /\ holds = {} /\ sent = <<>>

Read ==
  /\ holds = {}
  /\ given' = given + 1
  /\ holds' = {given'}
  /\ UNCHANGED sent

Answer(r) ==
  /\ r \in holds
  /\ r \notin ToSet(sent)
  /\ sent' = Append(sent, r)
  /\ UNCHANGED <<given, holds>>

Release(r) ==
  /\ r \in holds
  /\ holds' = holds \ {r}
  /\ UNCHANGED <<given, sent>>

Next == Read \/ \E r \in holds : Answer(r) \/ Release(r)

Spec == Init /\ [][Next]_pipelineVars
==============================================================================
