----------------------------- MODULE EncodingList -----------------------------
(* encoding.List (src/http/http1/encoding/list.go): a slice of encodings in  *)
(* descending order of their names, searched by bisection.  A name is a      *)
(* number: CompareStrings is a total order and nothing else of it is used.   *)
(* Indices are those of the code plus one.  CodingPipes, which looks codings *)
(* up in such a list, completes the specification.                           *)
EXTENDS Integers, Sequences

CONSTANT Names  \* the names that encodings may have, in lower case

ASSUME NamesAssumption == Names \subseteq Nat \ {0}

(* A name that no encoding has: one with capitals, which come before the    *)
(* small letters.                                                           *)
Capitals == 0

VARIABLES
  l,        \* List.l, by the names
  op,       \* the method that is running: one of Ops, or that of another user of index
  name,     \* its argument
  a, b, c,  \* the bounds and the probe of index
  pc,       \* "idle", or what index is at
  have,     \* the names that Add and Remove have reported to be in the list
  result    \* what the last call returned

listVars == <<l, op, name, a, b, c, pc, have, result>>

Ops == {"Add", "Remove", "Get"}

ListTypeOK ==
  /\ l \in Seq(Names)
  /\ op \in Ops \cup {"Pipes"} /\ name \in Names \cup {Capitals}
  /\ a \in Nat /\ b \in Nat /\ c \in Nat
  /\ pc \in {"idle", "search", "found", "missing"}
  /\ have \subseteq Names
  /\ result \in BOOLEAN
  /\ pc \in {"search", "found"} => c \in 1..Len(l)
  /\ pc = "missing" => c \in 1..(Len(l) + 1)

ListInit ==
  /\ l = <<>>
  /\ op = "Get" /\ name \in Names
  /\ a = 1 /\ b = 0 /\ c = 1
  /\ pc = "idle"
  /\ have = {}
  /\ result = FALSE

(* Mutation: the last item is left out of the search.                       *)
IndexShort(o, n) ==
  /\ op' = o /\ name' = n
  /\ a' = 1
  /\ b' = IF Len(l) > 1 THEN Len(l) - 1 ELSE Len(l)
  /\ c' = IF l = <<>> THEN 1 ELSE (1 + b') \div 2
  /\ pc' = IF l = <<>> THEN "missing" ELSE "search"

(* The beginning of index; on an empty list the search is over at once.     *)
Index(o, n) ==
  /\ op' = o /\ name' = n
  /\ a' = 1
  /\ b' = Len(l)
  /\ c' = IF l = <<>> THEN 1 ELSE (1 + Len(l)) \div 2
  /\ pc' = IF l = <<>> THEN "missing" ELSE "search"

(* Add, Remove, Get or Contains is called.                                  *)
Call ==
  /\ pc = "idle"
  /\ \E o \in Ops, n \in Names : Index(o, n)
  /\ UNCHANGED <<l, have, result>>

Hit ==
  /\ pc = "search" /\ l[c] = name
  /\ pc' = "found"
  /\ UNCHANGED <<l, op, name, a, b, c, have, result>>

(* The name at the probe is the greater one: to the right of it, where the  *)
(* search may be over.                                                      *)
GoRight ==
  /\ pc = "search" /\ l[c] > name
  /\ a' = c + 1
  /\ \/ b < a' /\ pc' = "missing" /\ c' = c + 1
     \/ b >= a' /\ pc' = pc /\ c' = (a' + b) \div 2
  /\ UNCHANGED <<l, op, name, b, have, result>>

(* Mutation: the probe itself stays within the bounds.                      *)
GoLeftStays ==
  /\ pc = "search" /\ l[c] < name
  /\ b' = c
  /\ \/ b' < a /\ pc' = "missing" /\ c' = c
     \/ b' >= a /\ pc' = pc /\ c' = (a + b') \div 2
  /\ UNCHANGED <<l, op, name, a, have, result>>

GoLeft ==
  /\ pc = "search" /\ l[c] < name
  /\ b' = c - 1
  /\ \/ b' < a /\ pc' = "missing" /\ c' = c
     \/ b' >= a /\ pc' = pc /\ c' = (a + b') \div 2
  /\ UNCHANGED <<l, op, name, a, have, result>>

RemoveFrom(s, i) ==
  [k \in 1..(Len(s) - 1) |-> IF k < i THEN s[k] ELSE s[k + 1]]
InsertInto(s, i, n) ==
  [k \in 1..(Len(s) + 1) |-> IF k < i THEN s[k] ELSE IF k = i THEN n ELSE s[k - 1]]

(* The name is there: Remove takes it out, Add refuses a second one.        *)
Present ==
  /\ pc = "found" /\ op \in Ops
  /\ \/ op = "Remove" /\ l' = RemoveFrom(l, c) /\ have' = have \ {name}
     \/ op # "Remove" /\ UNCHANGED <<l, have>>
  /\ result' = (op # "Add")
  /\ pc' = "idle"
  /\ UNCHANGED <<op, name, a, b, c>>

(* It is not: Add puts it where the search ended.                           *)
Missing ==
  /\ pc = "missing" /\ op \in Ops
  /\ \/ op = "Add" /\ l' = InsertInto(l, c, name) /\ have' = have \cup {name}
     \/ op # "Add" /\ UNCHANGED <<l, have>>
  /\ result' = (op = "Add")
  /\ pc' = "idle"
  /\ UNCHANGED <<op, name, a, b, c>>

Search == Hit \/ GoRight \/ GoLeft \/ Present \/ Missing

------------------------------------------------------------------------------
(* Properties.                                                              *)

(* The list holds exactly the names that were added and not removed since,  *)
(* as the results of Add and Remove have told their callers, and the        *)
(* bisection never passes over one of them: it finds what is there and only *)
(* gives up on what is not.                                                 *)
ListAgrees ==
  /\ {l[i] : i \in 1..Len(l)} = have
  /\ pc = "found" => l[c] = name
  /\ pc = "missing" => name \notin have

(* Every search ends: the bounds close in on the probe from both sides.     *)
SearchEnds == (pc = "search") ~> (pc = "idle")
===============================================================================
