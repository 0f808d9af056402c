-------------------------- MODULE CodingPipesProofs --------------------------
(* Proofs about the list of codings and the chains made from it, for any      *)
(* names and any headers.                                                     *)
EXTENDS CodingPipes, SequenceTheorems, TLAPS

(* The list is in strictly descending order.                                *)
Sorted == \A i, j \in 1..Len(l) : i < j => l[i] > l[j]

(* While index searches, everything to the left of its bounds is greater    *)
(* than the name and everything to the right is smaller, and the probe lies *)
(* between them; when it gives up, the probe is where the name belongs.     *)
Between(lo, hi) ==
  /\ \A i \in 1..Len(l) : i < lo => l[i] > name
  /\ \A i \in 1..Len(l) : i > hi => l[i] < name
SearchInv ==
  /\ pc = "search" => /\ 1 <= a /\ a <= c /\ c <= b /\ b <= Len(l)
                      /\ Between(a, b)
  /\ pc = "found" => l[c] = name
  /\ pc = "missing" => Between(c, c - 1)

(* index runs for its own list's methods or for the codings of a header.    *)
UserInv ==
  /\ pc # "idle" /\ stage # "lookup" => stage = "none" /\ op \in Ops /\ name \in Names
  /\ pc # "idle" /\ stage = "lookup" => /\ op = "Pipes"
                                        /\ Len(gens) < Len(codes) /\ name = LookupName

(* How far the chain has come.                                              *)
StageInv ==
  /\ stage = "none" => gens = <<>> /\ codes = <<>>
  /\ stage \in {"none", "lookup"} => chain = <<>>
  /\ stage = "lookup" => Len(gens) <= Len(codes)
  /\ stage \in {"build", "ready", "close"} => Len(chain) >= 1
  /\ stage \in {"build", "failed", "panicked", "ready", "close", "closed"} =>
       Len(chain) + Len(gens) = Len(codes) + 1
  /\ Complete => gens = <<>>
  /\ stage \in {"none", "lookup", "build", "ready"} => shut = 0
  /\ stage = "close" => shut < Len(chain)

(* The readers found so far, from the back of the header, and those already *)
(* built: the next generator is that of the code before the ones in chain.  *)
OrderInv ==
  role = "reader" =>
    /\ stage = "lookup" =>
         \A i \in 1..Len(gens) : gens[i] = codes[(Len(codes) + 1) - i].name
    /\ stage = "build" =>
         \A i \in 1..Len(gens) : gens[i] = codes[(Len(gens) + 1) - i].name
    /\ stage = "build" \/ Complete =>
         \A i \in 1..(Len(chain) - 1) : chain[i] = codes[Len(gens) + i].name


ListInv == ListTypeOK /\ Sorted /\ SearchInv /\ ListAgrees
IInv == ListInv /\ TypeOK /\ UserInv /\ StageInv /\ OrderInv

------------------------------------------------------------------------------
(* The list.                                                                *)

LEMMA Middle ==
  ASSUME NEW x \in Nat, NEW y \in Nat, x <= y
  PROVE  /\ (x + y) \div 2 \in Nat
         /\ x <= (x + y) \div 2 /\ (x + y) \div 2 <= y
OBVIOUS

LEMMA ListItems ==
  ASSUME ListTypeOK
  PROVE  /\ Len(l) \in Nat /\ l \in [1..Len(l) -> Names]
         /\ \A i \in 1..Len(l) : l[i] \in Names /\ l[i] \in Nat
         /\ name \in Nat /\ a \in Nat /\ b \in Nat /\ c \in Nat
<1>1. Len(l) \in Nat /\ l \in [1..Len(l) -> Names]
  BY DEF ListTypeOK
<1>2. \A i \in 1..Len(l) : l[i] \in Names
  BY <1>1
<1>3. Names \subseteq Nat
  BY NamesAssumption
<1>4. name \in Nat /\ a \in Nat /\ b \in Nat /\ c \in Nat
  BY <1>3 DEF ListTypeOK, Capitals
<1> QED
  BY <1>1, <1>2, <1>3, <1>4

LEMMA ListStutters ==
  ASSUME ListInv, UNCHANGED listVars PROVE ListInv'
BY DEF ListInv, ListTypeOK, Sorted, SearchInv, ListAgrees, Between, listVars

(* A search begins with the whole list within its bounds.                   *)
LEMMA IndexKeeps ==
  ASSUME ListInv, NEW o \in Ops \cup {"Pipes"}, NEW n \in Names \cup {Capitals},
         Index(o, n), UNCHANGED <<l, have, result>>
  PROVE  ListInv'
<1> USE DEF ListInv
<1>0. Len(l) \in Nat /\ \A i \in 1..Len(l) : l[i] \in Nat
  BY ListItems
<1>1. Sorted'
  BY DEF Sorted
<1>2. CASE l = <<>>
  <2>1. pc' = "missing" /\ c' = 1 /\ a' = 1 /\ b' = 0 /\ Len(l) = 0
    BY <1>2 DEF Index
  <2>2. ListTypeOK'
    BY <2>1 DEF ListTypeOK, Index
  <2>3. SearchInv'
    BY <2>1 DEF SearchInv, Between
  <2>4. ListAgrees'
    BY <2>1 DEF ListAgrees
  <2> QED
    BY <1>1, <2>2, <2>3, <2>4
<1>3. CASE l # <<>>
  <2>1. /\ pc' = "search" /\ c' = (1 + Len(l)) \div 2 /\ a' = 1 /\ b' = Len(l)
        /\ Len(l) >= 1
    BY <1>0, <1>3, EmptySeq DEF Index, ListTypeOK
  <2>2. c' \in Nat /\ 1 <= c' /\ c' <= Len(l)
    BY <1>0, <2>1, Middle
  <2>3. ListTypeOK'
    BY <1>0, <2>1, <2>2 DEF ListTypeOK, Index
  <2>4. SearchInv'
    BY <1>0, <2>1, <2>2 DEF SearchInv, Between
  <2>5. ListAgrees'
    BY <2>1 DEF ListAgrees
  <2> QED
    BY <1>1, <2>3, <2>4, <2>5
<1> QED
  BY <1>2, <1>3

(* A turn of the search keeps the name between the bounds, because the list *)
(* is sorted.                                                               *)
LEMMA SearchKeeps ==
  ASSUME ListInv, Hit \/ GoRight \/ GoLeft PROVE ListInv'
<1> USE DEF ListInv
<1>0. /\ Len(l) \in Nat /\ \A i \in 1..Len(l) : l[i] \in Nat
      /\ name \in Nat /\ a \in Nat /\ b \in Nat /\ c \in Nat
  BY ListItems
<1>1. /\ pc = "search" /\ 1 <= a /\ a <= c /\ c <= b /\ b <= Len(l)
      /\ Between(a, b) /\ UNCHANGED <<l, op, name, have, result>>
  BY DEF Hit, GoRight, GoLeft, SearchInv
<1>2. Sorted'
  BY <1>1 DEF Sorted
<1>3. CASE Hit
  BY <1>0, <1>1, <1>2, <1>3 DEF Hit, ListTypeOK, SearchInv, ListAgrees
<1>4. CASE GoRight
  <2>1. \A i \in 1..Len(l) : i < c + 1 => l[i] > name
    <3>1. ASSUME NEW i \in 1..Len(l), i < c + 1 PROVE l[i] > name
      <4>1. l[c] > name /\ c \in 1..Len(l)
        BY <1>0, <1>1, <1>4 DEF GoRight
      <4>2. i = c \/ l[i] > l[c]
        BY <1>0, <3>1, <4>1 DEF Sorted
      <4> QED
        BY <1>0, <4>1, <4>2
    <3> QED
      BY <3>1
  <2>2. CASE b < c + 1
    <3>1. a' = c + 1 /\ b' = b /\ pc' = "missing" /\ c' = c + 1 /\ b = c
      BY <1>0, <1>1, <1>4, <2>2 DEF GoRight
    <3>2. Between(c, c - 1)'
      BY <1>0, <1>1, <2>1, <3>1 DEF Between
    <3>3. name \notin have
      <4>1. \A i \in 1..Len(l) : l[i] # name
        BY <1>0, <1>1, <2>1, <3>1 DEF Between
      <4> QED
        BY <4>1 DEF ListAgrees
    <3>4. ListTypeOK'
      BY <1>0, <1>1, <3>1 DEF ListTypeOK
    <3> QED
      BY <1>1, <1>2, <3>1, <3>2, <3>3, <3>4 DEF SearchInv, ListAgrees
  <2>3. CASE b >= c + 1
    <3>1. a' = c + 1 /\ b' = b /\ pc' = "search" /\ c' = ((c + 1) + b) \div 2
      BY <1>0, <1>1, <1>4, <2>3 DEF GoRight
    <3>2. c' \in Nat /\ c + 1 <= c' /\ c' <= b
      BY <1>0, <2>3, <3>1, Middle
    <3>3. Between(a, b)'
      BY <1>0, <1>1, <2>1, <3>1 DEF Between
    <3>4. ListTypeOK'
      BY <1>0, <1>1, <3>1, <3>2 DEF ListTypeOK
    <3>5. SearchInv'
      BY <1>0, <1>1, <3>1, <3>2, <3>3 DEF SearchInv
    <3> QED
      BY <1>1, <1>2, <3>1, <3>4, <3>5 DEF ListAgrees
  <2> QED
    BY <1>0, <2>2, <2>3
<1>5. CASE GoLeft
  <2>1. \A i \in 1..Len(l) : i > c - 1 => l[i] < name
    <3>1. ASSUME NEW i \in 1..Len(l), i > c - 1 PROVE l[i] < name
      <4>1. l[c] < name /\ c \in 1..Len(l)
        BY <1>0, <1>1, <1>5 DEF GoLeft
      <4>2. i = c \/ l[c] > l[i]
        BY <1>0, <3>1, <4>1 DEF Sorted
      <4> QED
        BY <1>0, <4>1, <4>2
    <3> QED
      BY <3>1
  <2>2. CASE c - 1 < a
    <3>1. a' = a /\ b' = c - 1 /\ pc' = "missing" /\ c' = c /\ a = c
      BY <1>0, <1>1, <1>5, <2>2 DEF GoLeft
    <3>2. Between(c, c - 1)'
      BY <1>0, <1>1, <2>1, <3>1 DEF Between
    <3>3. name \notin have
      <4>1. \A i \in 1..Len(l) : l[i] # name
        BY <1>0, <1>1, <2>1, <3>1 DEF Between
      <4> QED
        BY <4>1 DEF ListAgrees
    <3>4. ListTypeOK'
      BY <1>0, <1>1, <3>1 DEF ListTypeOK
    <3> QED
      BY <1>1, <1>2, <3>1, <3>2, <3>3, <3>4 DEF SearchInv, ListAgrees
  <2>3. CASE c - 1 >= a
    <3>1. a' = a /\ b' = c - 1 /\ pc' = "search" /\ c' = (a + (c - 1)) \div 2
      BY <1>0, <1>1, <1>5, <2>3 DEF GoLeft
    <3>2. c' \in Nat /\ a <= c' /\ c' <= c - 1
      BY <1>0, <2>3, <3>1, Middle
    <3>3. Between(a, b)'
      BY <1>0, <1>1, <2>1, <3>1 DEF Between
    <3>4. ListTypeOK'
      BY <1>0, <1>1, <3>1, <3>2 DEF ListTypeOK
    <3>5. SearchInv'
      BY <1>0, <1>1, <3>1, <3>2, <3>3 DEF SearchInv
    <3> QED
      BY <1>1, <1>2, <3>1, <3>4, <3>5 DEF ListAgrees
  <2> QED
    BY <1>0, <2>2, <2>3
<1> QED
  BY <1>3, <1>4, <1>5

(* A call that is answered leaves the list to the next one.                 *)
LEMMA AnswerKeeps ==
  ASSUME ListInv, pc' = "idle", UNCHANGED <<l, op, name, a, b, c, have>>,
         result' \in BOOLEAN
  PROVE  ListInv'
BY DEF ListInv, ListTypeOK, Sorted, SearchInv, ListAgrees

(* Removing the name where it was found takes it, and no other, away.       *)
LEMMA RemoveKeeps ==
  ASSUME ListInv, pc = "found", pc' = "idle", l' = RemoveFrom(l, c),
         have' = have \ {name}, UNCHANGED <<op, name, a, b, c>>,
         result' \in BOOLEAN
  PROVE  ListInv'
<1> USE DEF ListInv
<1>0. /\ Len(l) \in Nat /\ \A i \in 1..Len(l) : l[i] \in Names /\ l[i] \in Nat
      /\ c \in 1..Len(l) /\ l[c] = name
  BY ListItems DEF ListTypeOK, SearchInv
<1> DEFINE m == Len(l) - 1
<1>1. m \in Nat /\ m + 1 = Len(l)
  BY <1>0
<1>2. l' = [k \in 1..m |-> IF k < c THEN l[k] ELSE l[k + 1]]
  BY DEF RemoveFrom
<1>3. \A k \in 1..m : k \in 1..Len(l) /\ k + 1 \in 1..Len(l)
  BY <1>0, <1>1
<1>4. \A k \in 1..m : l'[k] = IF k < c THEN l[k] ELSE l[k + 1]
  BY <1>2
<1>5. l' \in Seq(Names) /\ Len(l') = m
  BY <1>0, <1>1, <1>2, <1>3
<1> HIDE DEF m
<1>6. ListTypeOK'
  BY <1>5 DEF ListTypeOK
<1>7. Sorted'
  <2>1. ASSUME NEW i \in 1..m, NEW j \in 1..m, i < j PROVE l'[i] > l'[j]
    <3> DEFINE At(k) == IF k < c THEN k ELSE k + 1
    <3>1. At(i) \in 1..Len(l) /\ At(j) \in 1..Len(l) /\ At(i) < At(j)
      BY <1>0, <1>1, <2>1
    <3>2. l'[i] = l[At(i)] /\ l'[j] = l[At(j)]
      BY <1>4
    <3> HIDE DEF At
    <3>3. l[At(i)] > l[At(j)]
      BY <3>1 DEF Sorted
    <3> QED
      BY <3>2, <3>3
  <2> QED
    BY <1>5, <2>1 DEF Sorted
<1>8. {l'[i] : i \in 1..m} = have \ {name}
  <2>1. \A i \in 1..Len(l) : i # c => l[i] # name
    BY <1>0 DEF Sorted
  <2>2. ASSUME NEW k \in 1..m PROVE l'[k] \in have \ {name}
    <3>1. CASE k < c
      BY <1>0, <1>1, <1>3, <1>4, <2>1, <3>1 DEF ListAgrees
    <3>2. CASE ~(k < c)
      <4>1. k + 1 # c /\ k + 1 \in 1..Len(l) /\ l'[k] = l[k + 1]
        BY <1>0, <1>3, <1>4, <3>2
      <4> QED
        BY <4>1, <2>1 DEF ListAgrees
    <3> QED
      BY <3>1, <3>2
  <2>3. ASSUME NEW x \in have \ {name} PROVE \E k \in 1..m : l'[k] = x
    <3>1. PICK i \in 1..Len(l) : l[i] = x
      BY <2>3 DEF ListAgrees
    <3>2. i # c
      BY <1>0, <2>3, <3>1
    <3>3. CASE i < c
      <4>1. i \in 1..m
        BY <1>0, <1>1, <3>3
      <4> QED
        BY <3>1, <3>3, <4>1, <1>4
    <3>4. CASE i > c
      <4>1. i - 1 \in 1..m /\ ~(i - 1 < c) /\ (i - 1) + 1 = i
        BY <1>0, <1>1, <3>4
      <4>2. l'[i - 1] = l[i]
        BY <4>1, <1>4
      <4> QED
        BY <3>1, <4>1, <4>2
    <3> QED
      BY <1>0, <3>2, <3>3, <3>4
  <2> QED
    BY <2>2, <2>3
<1> QED
  BY <1>5, <1>6, <1>7, <1>8 DEF SearchInv, ListAgrees

(* Adding the name where the search gave up keeps the order.                *)
LEMMA InsertKeeps ==
  ASSUME ListInv, pc = "missing", pc' = "idle", l' = InsertInto(l, c, name),
         name \in Names, have' = have \cup {name}, UNCHANGED <<op, name, a, b, c>>,
         result' \in BOOLEAN
  PROVE  ListInv'
<1> USE DEF ListInv
<1>0. /\ Len(l) \in Nat /\ \A i \in 1..Len(l) : l[i] \in Names /\ l[i] \in Nat
      /\ c \in 1..(Len(l) + 1) /\ name \in Nat /\ Between(c, c - 1)
  BY ListItems DEF ListTypeOK, SearchInv
<1> DEFINE m == Len(l) + 1
<1>1. m \in Nat /\ m - 1 = Len(l)
  BY <1>0
<1>2. l' = [k \in 1..m |-> IF k < c THEN l[k] ELSE IF k = c THEN name ELSE l[k - 1]]
  BY DEF InsertInto
<1>3. \A k \in 1..m : /\ k < c => k \in 1..Len(l)
                      /\ ~(k < c) /\ k # c => k - 1 \in 1..Len(l)
  BY <1>0, <1>1
<1>4. \A k \in 1..m : l'[k] = IF k < c THEN l[k] ELSE IF k = c THEN name ELSE l[k - 1]
  BY <1>2
<1>5. l' \in Seq(Names) /\ Len(l') = m
  BY <1>0, <1>1, <1>2, <1>3
<1> HIDE DEF m
<1>6. ListTypeOK'
  BY <1>5 DEF ListTypeOK
<1>7. Sorted'
  <2>1. ASSUME NEW i \in 1..m, NEW j \in 1..m, i < j PROVE l'[i] > l'[j]
    <3>1. CASE j < c
      BY <1>0, <1>3, <1>4, <2>1, <3>1 DEF Sorted
    <3>2. CASE j = c
      BY <1>0, <1>3, <1>4, <2>1, <3>2 DEF Between
    <3>3. CASE j > c
      <4>1. l'[j] = l[j - 1] /\ j - 1 \in 1..Len(l)
        <5>1. ~(j < c) /\ j # c
          BY <1>0, <3>3
        <5> QED
          BY <1>0, <1>1, <1>3, <1>4, <5>1
      <4>2. CASE i < c
        BY <1>0, <1>3, <1>4, <2>1, <3>3, <4>1, <4>2 DEF Sorted
      <4>3. CASE i = c
        BY <1>0, <1>3, <1>4, <2>1, <3>3, <4>1, <4>3 DEF Between
      <4>4. CASE i > c
        BY <1>0, <1>3, <1>4, <2>1, <3>3, <4>1, <4>4 DEF Sorted
      <4> QED
        BY <1>0, <4>2, <4>3, <4>4
    <3> QED
      BY <1>0, <3>1, <3>2, <3>3
  <2> QED
    BY <1>5, <2>1 DEF Sorted
<1>8. {l'[i] : i \in 1..m} = have \cup {name}
  <2>1. \A k \in 1..m : l'[k] \in have \cup {name}
    <3>1. ASSUME NEW k \in 1..m PROVE l'[k] = name \/ \E i \in 1..Len(l) : l'[k] = l[i]
      BY <1>0, <1>1, <1>3, <1>4
    <3> QED
      BY <3>1 DEF ListAgrees
  <2>2. c \in 1..m /\ l'[c] = name
    BY <1>0, <1>4 DEF m
  <2>3. ASSUME NEW x \in have PROVE \E k \in 1..m : l'[k] = x
    <3>1. PICK i \in 1..Len(l) : l[i] = x
      BY <2>3 DEF ListAgrees
    <3>2. CASE i < c
      <4>1. i \in 1..m
        BY <1>0, <1>1
      <4> QED
        BY <3>1, <3>2, <4>1, <1>4
    <3>3. CASE ~(i < c)
      <4>1. i + 1 \in 1..m /\ ~(i + 1 < c) /\ i + 1 # c /\ (i + 1) - 1 = i
        BY <1>0, <1>1, <3>3
      <4>2. l'[i + 1] = l[i]
        BY <4>1, <1>4
      <4> QED
        BY <3>1, <4>1, <4>2
    <3> QED
      BY <3>2, <3>3
  <2> QED
    BY <2>1, <2>2, <2>3
<1> QED
  BY <1>5, <1>6, <1>7, <1>8 DEF SearchInv, ListAgrees

(* The methods of the list.                                                 *)
LEMMA ListStep ==
  ASSUME ListInv, Call \/ Search, pc # "idle" => op \in Ops /\ name \in Names
  PROVE  ListInv'
<1>1. CASE Call
  BY <1>1, IndexKeeps DEF Call
<1>2. CASE Hit \/ GoRight \/ GoLeft
  BY <1>2, SearchKeeps
<1>3. CASE Present
  <2>1. CASE op = "Remove"
    BY <1>3, <2>1, RemoveKeeps DEF Present
  <2>2. CASE op # "Remove"
    BY <1>3, <2>2, AnswerKeeps DEF Present
  <2> QED
    BY <2>1, <2>2
<1>4. CASE Missing
  <2>1. CASE op = "Add"
    BY <1>4, <2>1, InsertKeeps DEF Missing
  <2>2. CASE op # "Add"
    BY <1>4, <2>2, AnswerKeeps DEF Missing
  <2> QED
    BY <2>1, <2>2
<1> QED
  BY <1>1, <1>2, <1>3, <1>4 DEF Search

------------------------------------------------------------------------------
(* The chains.                                                              *)

LEMMA InitIInv == Init => IInv
<1> SUFFICES ASSUME Init PROVE IInv
  OBVIOUS
<1>0. l = <<>> /\ Len(l) = 0 /\ pc = "idle" /\ have = {}
  BY DEF Init, ListInit
<1>1. ListInv
  <2>1. ListTypeOK
    BY <1>0, EmptySeq DEF Init, ListInit, ListTypeOK, Ops
  <2>2. Sorted /\ SearchInv /\ ListAgrees
    BY <1>0 DEF Sorted, SearchInv, ListAgrees
  <2> QED
    BY <2>1, <2>2 DEF ListInv
<1>2. TypeOK
  <2>1. codes = <<>> /\ gens = <<>> /\ chain = <<>> /\ Len(<<>>) = 0
    BY DEF Init
  <2>2. codes \in Seq(Codes) /\ gens \in Seq(Names) /\ chain \in Seq(Names \cup {Raw})
    BY <2>1
  <2>3. /\ Len(codes) <= MaxCodes /\ Len(chain) + Len(gens) <= Len(codes) + 1
        /\ shut \in 0..Len(chain)
    BY <2>1, PipesAssumption DEF Init
  <2>4. role = "reader" /\ stage = "none" /\ err \in BOOLEAN
    BY DEF Init
  <2> QED
    BY <1>1, <2>2, <2>3, <2>4 DEF TypeOK, ListInv
<1>3. UserInv /\ StageInv /\ OrderInv
  BY DEF Init, ListInit, UserInv, StageInv, OrderInv, Complete
<1> QED
  BY <1>1, <1>2, <1>3 DEF IInv

(* The code that is looked up next is one of the header's.                  *)
LEMMA NextCode ==
  ASSUME TypeOK, stage = "lookup", Len(gens) < Len(codes)
  PROVE  /\ Code.name \in Names
         /\ LookupName \in Names \cup {Capitals}
         /\ role = "reader" => LookupName = codes[Len(codes) - Len(gens)].name
<1>1. Len(gens) \in Nat /\ Len(codes) \in Nat /\ \A i \in 1..Len(codes) : codes[i] \in Codes
  BY DEF TypeOK
<1>2. Len(codes) - Len(gens) \in 1..Len(codes) /\ Len(gens) + 1 \in 1..Len(codes)
  BY <1>1
<1>3. Code \in Codes
  BY <1>1, <1>2 DEF Code
<1>4. Code.name \in Names
  BY <1>3 DEF Codes
<1> QED
  BY <1>4 DEF LookupName, Code

(* A step of the list's methods, or of a search, leaves the chain alone.    *)
LEMMA ChainKept ==
  ASSUME TypeOK, StageInv, OrderInv, ListTypeOK', UNCHANGED pipeVars
  PROVE  TypeOK' /\ StageInv' /\ OrderInv'
BY DEF TypeOK, StageInv, OrderInv, Complete, pipeVars

LEMMA SearchStep ==
  ASSUME IInv, UseList \/ Lookup \/ LookupGoesOn PROVE IInv'
<1> USE DEF IInv
<1>1. ListInv'
  <2>1. CASE UseList
    BY <2>1, ListStep DEF UseList, UserInv
  <2>2. CASE Lookup
    BY <2>2, NextCode, IndexKeeps DEF Lookup
  <2>3. CASE LookupGoesOn
    BY <2>3, SearchKeeps DEF LookupGoesOn
  <2> QED
    BY <2>1, <2>2, <2>3
<1>2. UNCHANGED pipeVars
  BY DEF UseList, Lookup, LookupGoesOn
<1>3. TypeOK' /\ StageInv' /\ OrderInv'
  BY <1>1, <1>2, ChainKept DEF ListInv
<1>4. UserInv'
  <2>1. CASE UseList
    <3>1. stage' = "none"
      BY <2>1 DEF UseList, pipeVars
    <3>2. pc' # "idle" => op' \in Ops /\ name' \in Names
      BY <2>1 DEF UseList, UserInv, Call, Search, Index, Hit, GoRight, GoLeft,
                  Present, Missing
    <3> QED
      BY <3>1, <3>2 DEF UserInv
  <2>2. CASE Lookup
    BY <2>2, <1>2 DEF Lookup, Index, UserInv, LookupName, Code, pipeVars
  <2>3. CASE LookupGoesOn
    BY <2>3, <1>2 DEF LookupGoesOn, Hit, GoRight, GoLeft, UserInv, LookupName,
                      Code, pipeVars
  <2> QED
    BY <2>1, <2>2, <2>3
<1> QED
  BY <1>1, <1>3, <1>4

LEMMA BeginStep ==
  ASSUME IInv, BeginPipes PROVE IInv'
<1> USE DEF IInv
<1>1. ListInv'
  BY ListStutters DEF BeginPipes
<1>2. PICK n \in 0..MaxCodes : codes' \in [1..n -> Codes]
  BY DEF BeginPipes
<1>3. codes' \in Seq(Codes) /\ Len(codes') = n /\ n \in Nat /\ n <= MaxCodes
  BY <1>2, PipesAssumption
<1>4. gens = <<>> /\ chain = <<>> /\ shut = 0 /\ UNCHANGED <<gens, chain, shut, pc>>
  BY DEF BeginPipes, StageInv, listVars
<1>5. TypeOK'
  <2>1. Len(chain') = 0 /\ Len(gens') = 0
    BY <1>4
  <2>2. Len(codes') <= MaxCodes /\ Len(chain') + Len(gens') <= Len(codes') + 1
    BY <1>3, <2>1
  <2> QED
    BY <1>1, <1>3, <1>4, <2>2 DEF BeginPipes, TypeOK, ListInv
<1>6. UserInv' /\ StageInv' /\ OrderInv'
  BY <1>3, <1>4 DEF BeginPipes, UserInv, StageInv, OrderInv, Complete
<1> QED
  BY <1>1, <1>5, <1>6

(* The generator found is that of the code looked up.                       *)
LEMMA FoundStep ==
  ASSUME IInv, LookupFound PROVE IInv'
<1> USE DEF IInv
<1>1. ListInv'
  BY AnswerKeeps DEF LookupFound, ListInv, ListTypeOK
<1>0. /\ stage = "lookup" /\ pc = "found" /\ gens' = Append(gens, l[c]) /\ pc' = "idle"
      /\ UNCHANGED <<role, codes, chain, shut, stage, err>>
  BY DEF LookupFound
<1>2. /\ l[c] = LookupName /\ l[c] \in Names
      /\ Len(gens) < Len(codes) /\ chain = <<>> /\ shut = 0
      /\ Len(gens) \in Nat /\ Len(codes) \in Nat /\ gens \in Seq(Names)
  BY <1>0, ListItems DEF UserInv, ListInv, SearchInv, ListTypeOK, StageInv, TypeOK
<1>3. /\ gens' \in Seq(Names) /\ Len(gens') = Len(gens) + 1
      /\ \A i \in 1..Len(gens) : gens'[i] = gens[i]
      /\ gens'[Len(gens) + 1] = l[c]
  BY <1>0, <1>2, AppendProperties
<1>4. TypeOK'
  <2>1. ListTypeOK'
    BY <1>1 DEF ListInv
  <2>2. Len(chain') + Len(gens') <= Len(codes') + 1
    BY <1>0, <1>2, <1>3
  <2> QED
    BY <1>0, <1>3, <2>1, <2>2 DEF TypeOK
<1>5. UserInv' /\ StageInv'
  BY <1>0, <1>2, <1>3 DEF UserInv, StageInv, Complete
<1>6. OrderInv'
  <2> SUFFICES ASSUME role = "reader", NEW i \in 1..(Len(gens) + 1)
               PROVE  gens'[i] = codes[(Len(codes) + 1) - i].name
    BY <1>0, <1>3 DEF OrderInv, Complete
  <2>1. CASE i \in 1..Len(gens)
    BY <1>0, <1>3, <2>1 DEF OrderInv
  <2>2. CASE i = Len(gens) + 1
    <3>1. (Len(codes) + 1) - i = Len(codes) - Len(gens)
      BY <1>2, <2>2
    <3> QED
      BY <1>0, <1>2, <1>3, <2>2, <3>1, NextCode
  <2> QED
    BY <1>2, <2>1, <2>2
<1> QED
  BY <1>1, <1>4, <1>5, <1>6

LEMMA MissingStep ==
  ASSUME IInv, LookupMissing PROVE IInv'
<1> USE DEF IInv
<1>1. ListInv'
  BY AnswerKeeps DEF LookupMissing, ListInv, ListTypeOK
<1>2. /\ stage = "lookup" /\ stage' = "refused" /\ pc' = "idle" /\ err' = TRUE
      /\ UNCHANGED <<role, codes, gens, chain, shut>>
  BY DEF LookupMissing
<1>3. TypeOK'
  BY <1>1, <1>2 DEF TypeOK, ListInv
<1>4. UserInv' /\ StageInv' /\ OrderInv'
  BY <1>2 DEF UserInv, StageInv, OrderInv, Complete
<1> QED
  BY <1>1, <1>3, <1>4

LEMMA LookedUpStep ==
  ASSUME IInv, LookedUp PROVE IInv'
<1> USE DEF IInv
<1>1. ListInv' /\ pc' = "idle"
  BY ListStutters DEF LookedUp, listVars
<1>2. /\ stage = "lookup" /\ stage' = "build" /\ Len(gens) = Len(codes)
      /\ chain' = <<Raw>> /\ shut = 0
      /\ UNCHANGED <<role, codes, gens, shut, err>>
  BY DEF LookedUp, StageInv
<1>3. chain' \in Seq(Names \cup {Raw}) /\ Len(chain') = 1
  BY <1>2
<1>4. Len(gens) \in Nat
  BY DEF TypeOK
<1>5. TypeOK'
  BY <1>1, <1>2, <1>3, <1>4 DEF TypeOK, ListInv
<1>6. UserInv' /\ StageInv'
  BY <1>1, <1>2, <1>3, <1>4 DEF UserInv, StageInv, Complete
<1>7. OrderInv'
  <2>1. 1..(Len(chain') - 1) = {}
    BY <1>3
  <2>2. role = "reader" => \A i \in 1..Len(gens) : gens[i] = codes[(Len(gens) + 1) - i].name
    BY <1>2 DEF OrderInv
  <2> QED
    BY <1>2, <2>1, <2>2 DEF OrderInv, Complete
<1> QED
  BY <1>1, <1>5, <1>6, <1>7

(* Each generator takes the next code before those already in the chain.    *)
LEMMA GenerateStep ==
  ASSUME IInv, Generate PROVE IInv'
<1> USE DEF IInv
<1>0. /\ stage = "build" /\ gens # <<>> /\ chain' = <<Head(gens)>> \o chain
      /\ gens' = Tail(gens) /\ UNCHANGED <<listVars, role, codes, shut, stage, err>>
  BY DEF Generate
<1>1. ListInv' /\ pc' = pc
  BY <1>0, ListStutters DEF listVars
<1>2. /\ gens \in Seq(Names) /\ chain \in Seq(Names \cup {Raw})
      /\ Len(gens) \in Nat /\ Len(chain) \in Nat /\ Len(codes) \in Nat
      /\ Len(chain) + Len(gens) = Len(codes) + 1 /\ Len(chain) >= 1
  BY <1>0 DEF TypeOK, StageInv
<1>3. /\ gens' \in Seq(Names) /\ Len(gens') = Len(gens) - 1 /\ Len(gens) >= 1
      /\ Head(gens) \in Names /\ Head(gens) = gens[1]
      /\ \A i \in 1..Len(gens') : gens'[i] = gens[i + 1]
  BY <1>0, <1>2, HeadTailProperties, EmptySeq
<1>4. /\ <<Head(gens)>> \in Seq(Names \cup {Raw}) /\ Len(<<Head(gens)>>) = 1
      /\ <<Head(gens)>>[1] = gens[1]
  BY <1>3
<1>5. /\ chain' \in Seq(Names \cup {Raw}) /\ Len(chain') = Len(chain) + 1
      /\ \A i \in 1..(1 + Len(chain)) :
           chain'[i] = IF i <= 1 THEN <<Head(gens)>>[i] ELSE chain[i - 1]
  <2>1. /\ chain' \in Seq(Names \cup {Raw}) /\ Len(chain') = 1 + Len(chain)
        /\ \A i \in 1..(1 + Len(chain)) :
             chain'[i] = IF i <= 1 THEN <<Head(gens)>>[i] ELSE chain[i - 1]
    BY <1>0, <1>2, <1>4, ConcatProperties
  <2> QED
    BY <2>1, <1>2
<1>6. TypeOK'
  <2>1. shut' \in 0..Len(chain') /\ Len(chain') + Len(gens') <= Len(codes') + 1
    BY <1>0, <1>2, <1>3, <1>5 DEF TypeOK
  <2> QED
    BY <1>0, <1>1, <1>3, <1>5, <2>1 DEF TypeOK, ListInv
<1>7. StageInv' /\ UserInv'
  <2>1. pc = "idle" /\ shut = 0
    BY <1>0 DEF UserInv, StageInv
  <2>2. Len(chain') >= 1 /\ Len(chain') + Len(gens') = Len(codes') + 1
    BY <1>0, <1>2, <1>3, <1>5
  <2> QED
    BY <1>0, <1>1, <2>1, <2>2 DEF StageInv, UserInv, Complete
<1>8. OrderInv'
  <2> SUFFICES ASSUME role = "reader"
               PROVE  /\ \A i \in 1..Len(gens') : gens'[i] = codes[(Len(gens') + 1) - i].name
                      /\ \A i \in 1..(Len(chain') - 1) : chain'[i] = codes[Len(gens') + i].name
    BY <1>0 DEF OrderInv, Complete
  <2>0. /\ \A i \in 1..Len(gens) : gens[i] = codes[(Len(gens) + 1) - i].name
        /\ \A i \in 1..(Len(chain) - 1) : chain[i] = codes[Len(gens) + i].name
    BY <1>0 DEF OrderInv
  <2>1. ASSUME NEW i \in 1..Len(gens') PROVE gens'[i] = codes[(Len(gens') + 1) - i].name
    <3>1. i + 1 \in 1..Len(gens) /\ (Len(gens) + 1) - (i + 1) = (Len(gens') + 1) - i
      BY <1>2, <1>3
    <3> QED
      BY <1>3, <2>0, <3>1
  <2>2. ASSUME NEW i \in 1..(Len(chain') - 1) PROVE chain'[i] = codes[Len(gens') + i].name
    <3>1. CASE i = 1
      <4>1. 1 \in 1..Len(gens) /\ (Len(gens) + 1) - 1 = Len(gens') + i
        BY <1>2, <1>3, <3>1
      <4>2. chain'[i] = gens[1]
        BY <1>2, <1>4, <1>5, <3>1
      <4> QED
        BY <2>0, <4>1, <4>2
    <3>2. CASE i # 1
      <4>1. /\ i - 1 \in 1..(Len(chain) - 1) /\ Len(gens) + (i - 1) = Len(gens') + i
            /\ i \in 1..(1 + Len(chain)) /\ ~(i <= 1)
        BY <1>2, <1>3, <1>5, <3>2
      <4>2. chain'[i] = chain[i - 1]
        BY <1>5, <4>1
      <4> QED
        BY <2>0, <4>1, <4>2
    <3> QED
      BY <3>1, <3>2
  <2> QED
    BY <2>1, <2>2
<1> QED
  BY <1>1, <1>6, <1>7, <1>8

(* The steps that change only the stage, the error or the stages closed.    *)
LEMMA ClosingStep ==
  ASSUME IInv, GenerateNil \/ GenerateFails \/ Built \/ CallClose \/ CloseStage
  PROVE  IInv'
<1> USE DEF IInv
<1>0. UNCHANGED <<listVars, role, codes, gens, chain>>
  BY DEF GenerateNil, GenerateFails, Built, CallClose, CloseStage
<1>1. ListInv' /\ pc' = pc
  BY <1>0, ListStutters DEF listVars
<1>2. Len(chain) \in Nat /\ Len(gens) \in Nat /\ Len(codes) \in Nat /\ shut \in Nat
  BY DEF TypeOK
<1>3. pc = "idle"
  BY DEF GenerateNil, GenerateFails, Built, CallClose, CloseStage, UserInv
<1>4. TypeOK' /\ StageInv'
  <2>1. CASE GenerateNil \/ GenerateFails
    BY <1>0, <1>1, <2>1 DEF GenerateNil, GenerateFails, TypeOK, StageInv, Complete, ListInv
  <2>2. CASE Built \/ CallClose
    <3>1. /\ stage \in {"build", "ready"} /\ gens = <<>> /\ shut = 0 /\ shut' = shut
          /\ stage' \in {"ready", "close"} /\ err' \in BOOLEAN
      BY <2>2 DEF Built, CallClose, TypeOK, StageInv, Complete
    <3>2. shut' < Len(chain)
      BY <1>2, <3>1 DEF StageInv
    <3> QED
      BY <1>0, <1>1, <3>1, <3>2 DEF TypeOK, StageInv, Complete, ListInv
  <2>3. CASE CloseStage
    <3>1. /\ stage = "close" /\ shut < Len(chain) /\ shut' = shut + 1 /\ err' \in BOOLEAN
          /\ stage' = IF shut' = Len(chain) \/ err' THEN "closed" ELSE "close"
      BY <2>3 DEF CloseStage, StageInv
    <3>2. shut' \in 0..Len(chain) /\ (stage' = "close" => shut' < Len(chain))
      BY <1>2, <3>1
    <3> QED
      BY <1>0, <1>1, <3>1, <3>2 DEF TypeOK, StageInv, Complete, ListInv
  <2> QED
    BY <2>1, <2>2, <2>3
<1>5. UserInv'
  BY <1>1, <1>3 DEF UserInv
<1>6. OrderInv'
  <2>1. /\ stage' \notin {"lookup", "build"}
        /\ Complete' => stage = "build" \/ Complete
    BY DEF GenerateNil, GenerateFails, Built, CallClose, CloseStage, Complete
  <2> QED
    BY <1>0, <2>1 DEF OrderInv
<1> QED
  BY <1>1, <1>4, <1>5, <1>6

LEMMA OverStep ==
  ASSUME IInv, Over PROVE IInv'
<1> USE DEF IInv
<1>0. /\ gens' = <<>> /\ chain' = <<>> /\ shut' = 0 /\ codes' = <<>> /\ stage' = "none"
      /\ UNCHANGED <<listVars, role, err>>
  BY DEF Over
<1>1. ListInv' /\ pc' = "idle"
  BY <1>0, ListStutters DEF listVars, Over, UserInv
<1>2. /\ Len(gens') = 0 /\ Len(chain') = 0 /\ Len(codes') = 0
      /\ codes' \in Seq(Codes) /\ gens' \in Seq(Names) /\ chain' \in Seq(Names \cup {Raw})
  BY <1>0
<1>3. /\ Len(codes') <= MaxCodes /\ Len(chain') + Len(gens') <= Len(codes') + 1
      /\ shut' \in 0..Len(chain')
  BY <1>0, <1>2, PipesAssumption
<1>4. TypeOK'
  BY <1>0, <1>1, <1>2, <1>3 DEF TypeOK, ListInv
<1>5. UserInv' /\ StageInv' /\ OrderInv'
  BY <1>0, <1>1 DEF UserInv, StageInv, OrderInv, Complete
<1> QED
  BY <1>1, <1>4, <1>5

LEMMA NextIInv == IInv /\ [Next]_vars => IInv'
<1> SUFFICES ASSUME IInv, [Next]_vars PROVE IInv'
  OBVIOUS
<1>1. CASE Panicked \/ UNCHANGED vars
  <2>1. UNCHANGED listVars /\ UNCHANGED pipeVars
    BY <1>1 DEF Panicked, vars
  <2>2. ListInv'
    BY <2>1, ListStutters DEF IInv
  <2>3. TypeOK' /\ StageInv' /\ OrderInv'
    BY <2>1, <2>2, ChainKept DEF IInv, ListInv
  <2>4. UserInv'
    BY <2>1 DEF IInv, UserInv, listVars, pipeVars, LookupName, Code
  <2> QED
    BY <2>2, <2>3, <2>4 DEF IInv
<1> QED
  BY <1>1, SearchStep, BeginStep, FoundStep, MissingStep, LookedUpStep,
     GenerateStep, ClosingStep, OverStep DEF Next

LEMMA PipesIInv == Spec => []IInv
BY InitIInv, NextIInv, PTL DEF Spec

(* Types: the probe of index stays within the list, Close never closes more *)
(* stages than there are, and a chain is never longer than its header.      *)
THEOREM PipesTypes == Spec => []TypeOK
BY PipesIInv, PTL DEF IInv

(* The list holds what Add and Remove have told their callers, and the      *)
(* bisection neither passes over a name nor finds one that is not there,    *)
(* for lists of any length.                                                 *)
THEOREM BisectionFinds == Spec => []ListAgrees
BY PipesIInv, PTL DEF IInv, ListInv

(* A chain of readers takes the codings off in the reverse of the order in  *)
(* which the header says they were applied, for headers of any length.      *)
THEOREM ReadersUndoWriters == Spec => []ReaderUndoes
<1>1. IInv => ReaderUndoes
  <2> SUFFICES ASSUME IInv, role = "reader", Complete
               PROVE  Applied = [i \in 1..Len(codes) |-> codes[i].name]
    BY DEF ReaderUndoes
  <2>1. /\ gens = <<>> /\ Len(gens) = 0 /\ Len(chain) \in Nat /\ Len(codes) \in Nat
        /\ Len(chain) + Len(gens) = Len(codes) + 1
    BY DEF IInv, StageInv, Complete, TypeOK
  <2>2. Len(chain) - 1 = Len(codes)
    BY <2>1
  <2>3. \A i \in 1..Len(codes) : chain[i] = codes[i].name
    BY <2>1, <2>2 DEF IInv, OrderInv
  <2>4. Applied = [i \in 1..Len(codes) |-> chain[i]]
    BY <2>1, <2>2 DEF Applied
  <2> QED
    BY <2>3, <2>4
<1> QED
  BY <1>1, PipesIInv, PTL
==============================================================================
