----------------------------- MODULE CodingPipes -----------------------------
(* How the codings of a Transfer-Encoding or Content-Encoding header become  *)
(* a chain of readers or writers: GetReaderPipeGenerators and                *)
(* GetWriterPipeGenerators (src/http/http1/encoding/list.go) with From, To   *)
(* and the Close methods (src/jps/pipe/pipe.go).  Chains are made one after  *)
(* another from a list that is changed in between, with one step per turn of *)
(* the search, generator called and stage closed.                            *)
EXTENDS EncodingList

CONSTANTS
  Writable,  \* the encodings that have a Writer; "chunked" has none
  Raw,       \* the reader or writer that is piped
  MaxCodes   \* bound: codings in one header

ASSUME PipesAssumption ==
  Writable \subseteq Names /\ Raw \notin Names /\ MaxCodes \in Nat

VARIABLES
  role,   \* "reader" or "writer"
  codes,  \* the header's values, in the order in which they were applied
  gens,   \* the generators found for them and not yet called
  chain,  \* ReaderPipe.readers or WriterPipe.writers: what Read or Write uses first
  shut,   \* how many stages Close has closed
  stage,  \* where the chain is in its life
  err     \* the error of the last call

pipeVars == <<role, codes, gens, chain, shut, stage, err>>
vars == <<listVars, pipeVars>>

(* A value of the header: a name, perhaps not in lower case.                *)
Codes == [name : Names, lower : BOOLEAN]

TypeOK ==
  /\ ListTypeOK
  /\ role \in {"reader", "writer"}
  /\ codes \in Seq(Codes) /\ Len(codes) <= MaxCodes
  /\ gens \in Seq(Names)
  /\ chain \in Seq(Names \cup {Raw}) /\ Len(chain) + Len(gens) <= Len(codes) + 1
  /\ shut \in 0..Len(chain)
  /\ stage \in {"none", "lookup", "build", "ready", "close", "closed",
               "refused", "failed", "panicked"}
  /\ err \in BOOLEAN

Init ==
  /\ ListInit
  /\ role = "reader" /\ codes = <<>> /\ gens = <<>> /\ chain = <<>> /\ shut = 0
  /\ stage = "none" /\ err = FALSE

(* The list is used by one goroutine at a time: by its own methods ...      *)
UseList == stage = "none" /\ (Call \/ Search) /\ UNCHANGED pipeVars

(* ... or for the codings of a header.                                      *)
BeginPipes ==
  /\ stage = "none" /\ pc = "idle"
  /\ role' \in {"reader", "writer"}
  /\ codes' \in UNION {[1..n -> Codes] : n \in 0..MaxCodes}
  /\ stage' = "lookup" /\ err' = FALSE
  /\ UNCHANGED <<listVars, gens, chain, shut>>

------------------------------------------------------------------------------
(* GetReaderPipeGenerators and GetWriterPipeGenerators.                     *)

(* Mutation: readers are not looked up from the back.                       *)
CodeForwards == codes[Len(gens) + 1]

(* The code that is looked up next: readers from the back, writers from the *)
(* front.                                                                   *)
Code == IF role = "reader" THEN codes[Len(codes) - Len(gens)] ELSE codes[Len(gens) + 1]

(* Readers are looked up in lower case, writers as they are written.        *)
LookupName == IF role = "reader" \/ Code.lower THEN Code.name ELSE Capitals

Lookup ==
  /\ stage = "lookup" /\ pc = "idle"
  /\ Len(gens) < Len(codes)
  /\ Index("Pipes", LookupName)
  /\ UNCHANGED <<l, have, result, pipeVars>>

LookupGoesOn ==
  /\ stage = "lookup" /\ (Hit \/ GoRight \/ GoLeft)
  /\ UNCHANGED pipeVars

LookupFound ==
  /\ stage = "lookup" /\ pc = "found"
  /\ gens' = Append(gens, l[c])
  /\ pc' = "idle"
  /\ UNCHANGED <<l, op, name, a, b, c, have, result, role, codes, chain, shut, stage, err>>

(* A name that is not in the list: the writers' loop goes on to the end,    *)
(* but its result is not used.                                              *)
LookupMissing ==
  /\ stage = "lookup" /\ pc = "missing"
  /\ pc' = "idle"
  /\ stage' = "refused" /\ err' = TRUE
  /\ UNCHANGED <<l, op, name, a, b, c, have, result, role, codes, gens, chain, shut>>

(* From and To begin with the raw end of the chain.                         *)
LookedUp ==
  /\ stage = "lookup" /\ pc = "idle" /\ Len(gens) = Len(codes)
  /\ chain' = <<Raw>>
  /\ stage' = "build"
  /\ UNCHANGED <<listVars, role, codes, gens, shut, err>>

------------------------------------------------------------------------------
(* The chain.                                                               *)

(* The loops of From and To: each stage is built on the one before and goes *)
(* to the front of the chain.                                               *)
Generate ==
  /\ stage = "build" /\ gens # <<>>
  /\ role = "writer" => Head(gens) \in Writable
  /\ chain' = <<Head(gens)>> \o chain
  /\ gens' = Tail(gens)
  /\ UNCHANGED <<listVars, role, codes, shut, stage, err>>

(* An encoding without a Writer has a nil generator.                        *)
GenerateNil ==
  /\ stage = "build" /\ gens # <<>>
  /\ role = "writer" /\ Head(gens) \notin Writable
  /\ stage' = "panicked"
  /\ UNCHANGED <<listVars, role, codes, gens, chain, shut, err>>

(* A generator fails (gzip reads a header at once): the stages built so far *)
(* are dropped and not closed.                                              *)
GenerateFails ==
  /\ stage = "build" /\ gens # <<>>
  /\ role = "writer" => Head(gens) \in Writable
  /\ stage' = "failed" /\ err' = TRUE
  /\ UNCHANGED <<listVars, role, codes, gens, chain, shut>>

Built ==
  /\ stage = "build" /\ gens = <<>>
  /\ stage' = "ready"
  /\ UNCHANGED <<listVars, role, codes, gens, chain, shut, err>>

CallClose ==
  /\ stage = "ready"
  /\ stage' = "close" /\ err' = FALSE
  /\ UNCHANGED <<listVars, role, codes, gens, chain, shut>>

(* One turn of the loop in Close: from the front, up to the first error.    *)
CloseStage ==
  /\ stage = "close"
  /\ shut' = shut + 1
  /\ err' \in BOOLEAN
  /\ stage' = IF shut' = Len(chain) \/ err' THEN "closed" ELSE "close"
  /\ UNCHANGED <<listVars, role, codes, gens, chain>>

Over ==
  /\ stage \in {"closed", "refused", "failed"}
  /\ gens' = <<>> /\ chain' = <<>> /\ shut' = 0 /\ codes' = <<>>
  /\ stage' = "none"
  /\ UNCHANGED <<listVars, role, err>>

Panicked == stage = "panicked" /\ UNCHANGED vars

Next == \/ UseList \/ BeginPipes
        \/ Lookup \/ LookupGoesOn \/ LookupFound \/ LookupMissing \/ LookedUp
        \/ Generate \/ GenerateNil \/ GenerateFails \/ Built
        \/ CallClose \/ CloseStage \/ Over \/ Panicked

Spec == Init /\ [][Next]_vars

(* A goroutine that searches runs on; nothing makes it call.                *)
FairSpec ==
  Spec /\ WF_vars((stage = "none" /\ Search /\ UNCHANGED pipeVars)
                    \/ LookupGoesOn \/ LookupFound \/ LookupMissing)

------------------------------------------------------------------------------
(* Properties.                                                              *)

Complete == stage \in {"ready", "close", "closed"}

(* The codings that a chain applies to what is written, first one first:    *)
(* Write enters at the front of the chain.                                  *)
Applied == SubSeq(chain, 1, Len(chain) - 1)

(* A chain of readers takes off the coding that was applied last first, and *)
(* what Read returns has had every coding taken off, although the list and  *)
(* From each turn the order around.                                         *)
ReaderUndoes == role = "reader" /\ Complete => Applied = [i \in 1..Len(codes) |-> codes[i].name]
==============================================================================
