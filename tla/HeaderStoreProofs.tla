-------------------------- MODULE HeaderStoreProofs --------------------------
(* Proofs about the shared header, for any goroutines, keys, values and       *)
(* numbers of calls.                                                          *)
EXTENDS HeaderStore, SequenceTheorems, TLAPS

(* KeyModLock: its readers are the goroutines the code has put between      *)
(* RLock and RUnlock, and they and the write section exclude each other.    *)
LockInv ==
  /\ \A t \in Threads : t \in rd => pc[t] \in {"update", "each"}
  /\ \A t \in Threads : pc[t] = "update" => t \in rd
  /\ \A t \in Threads : pc[t] = "wsec" => rd = {}

(* Where a goroutine can be in each method.                                 *)
CallInv ==
  \A t \in Threads :
    /\ pc[t] = "read" => call[t] = "Get"
    /\ pc[t] = "each" => call[t] = "ForEach"
    /\ pc[t] = "find" => call[t] \in {"Set", "Add", "Modify", "Del"}
    /\ pc[t] = "update" => call[t] \in {"Set", "Add", "Modify"}
    /\ pc[t] \in {"wlock", "wwait", "wsec"} =>
         call[t] \in {"Set", "Add", "Modify", "Del", "UnsafeAdder"}

(* The slice found under the read lock is still the one in the map.         *)
FoundIsLive ==
  \A t \in Threads :
    pc[t] = "update" => /\ values[key[t]] # Absent
                        /\ values[key[t]].gen = ref[t]

IInv == TypeOK /\ LockInv /\ CallInv /\ FoundIsLive /\ OnlyLastUnprocessed

------------------------------------------------------------------------------
(* What the calls store.                                                    *)

(* Only the last value of a slice may have missed the processors.           *)
LastOnly(vs) == \A i \in 1..Len(vs) : vs[i].form = "raw" => i = Len(vs)

LEMMA AssignedValues ==
  ASSUME NEW t \in Threads, NEW n \in Nat
  PROVE  /\ Assigned(t, n) = [i \in 1..n |-> [by |-> t, form |-> "lower"]]
         /\ Assigned(t, n) \in Seq(Values) /\ Len(Assigned(t, n)) = n
<1>1. Assigned(t, n) = [i \in 1..n |-> [by |-> t, form |-> "lower"]]
  BY DEF Assigned, ProcessValues, Raw
<1> QED
  BY <1>1 DEF Values

LEMMA GivenValues ==
  ASSUME NEW t \in Threads, NEW n \in Nat
  PROVE  Given(t, n) \in Seq(Values) /\ Len(Given(t, n)) = n
BY DEF Given, Values

(* AddRawKey's range ends at the value before the one it appends.           *)
LEMMA AddedValues ==
  ASSUME NEW t \in Threads, NEW vs \in Seq(Values)
  PROVE  /\ Added(t, vs) \in Seq(Values)
         /\ Len(Added(t, vs)) = Len(vs) + 1
         /\ \A i \in 1..Len(vs) : /\ Added(t, vs)[i].by = vs[i].by
                                  /\ Added(t, vs)[i].form \in {"lower", vs[i].form}
         /\ vs # <<>> => Added(t, vs)[Len(vs)].form = "lower"
         /\ Added(t, vs)[Len(vs) + 1].by = t
<1> DEFINE w == vs \o Raw(t, 1)
           n == Len(vs)
<1>0. n \in Nat /\ \A i \in 1..n : vs[i] \in Values
  OBVIOUS
<1>1. Raw(t, 1) \in Seq(Values) /\ Len(Raw(t, 1)) = 1
      /\ Raw(t, 1)[1] = [by |-> t, form |-> "raw"]
  BY DEF Raw, Values
<1>2. /\ w \in Seq(Values) /\ Len(w) = n + 1
      /\ \A i \in 1..n : w[i] = vs[i]
      /\ w[n + 1] = [by |-> t, form |-> "raw"]
  <2>1. /\ w \in Seq(Values) /\ Len(w) = n + 1
        /\ \A i \in 1..(n + 1) : w[i] = IF i <= n THEN vs[i] ELSE Raw(t, 1)[i - n]
    <3>1. /\ w \in Seq(Values) /\ Len(w) = Len(vs) + Len(Raw(t, 1))
          /\ \A i \in 1..(Len(vs) + Len(Raw(t, 1))) :
               w[i] = IF i <= Len(vs) THEN vs[i] ELSE Raw(t, 1)[i - Len(vs)]
      BY <1>1, ConcatProperties
    <3> QED
      BY <1>1, <3>1
  <2>2. n + 1 \in 1..(n + 1) /\ ~(n + 1 <= n) /\ (n + 1) - n = 1
        /\ \A i \in 1..n : i \in 1..(n + 1) /\ i <= n
    BY <1>0
  <2> QED
    BY <2>1, <2>2, <1>1
<1>3. Added(t, vs) = [i \in 1..(n + 1) |->
                        IF n - 1 < i /\ i <= n THEN [w[i] EXCEPT !.form = "lower"] ELSE w[i]]
  BY <1>2 DEF Added, ProcessValues
<1>4. \A i \in 1..(n + 1) : w[i] \in Values
  BY <1>2
<1> HIDE DEF w
<1>5. \A i \in 1..(n + 1) : [w[i] EXCEPT !.form = "lower"] \in Values
  BY <1>4 DEF Values
<1>6. Added(t, vs) \in Seq(Values) /\ Len(Added(t, vs)) = n + 1
  BY <1>0, <1>3, <1>4, <1>5
<1>7. ASSUME NEW i \in 1..n
      PROVE  /\ Added(t, vs)[i].by = vs[i].by
             /\ Added(t, vs)[i].form \in {"lower", vs[i].form}
  BY <1>0, <1>2, <1>3, <1>4 DEF Values
<1>8. ASSUME vs # <<>> PROVE Added(t, vs)[n].form = "lower"
  <2>1. n \in 1..(n + 1) /\ n - 1 < n
    BY <1>0, <1>8
  <2> QED
    BY <2>1, <1>3, <1>4 DEF Values
<1>9. Added(t, vs)[n + 1].by = t
  BY <1>0, <1>2, <1>3
<1> QED
  BY <1>6, <1>7, <1>8, <1>9

(* Whatever a call leaves in a slice keeps its type and the discipline of   *)
(* the processors.                                                          *)
LEMMA UpdatedGood ==
  ASSUME NEW t \in Threads, NEW vs \in Seq(Values), LastOnly(vs),
         NEW ws \in Updated(t, vs)
  PROVE  ws \in Seq(Values) /\ LastOnly(ws)
<1> USE HeaderAssumption
<1>1. CASE call[t] = "Set"
  <2>1. PICK n \in 0..MaxLen : ws = Assigned(t, n)
    BY <1>1 DEF Updated
  <2>2. n \in Nat
    OBVIOUS
  <2> QED
    BY <2>1, <2>2, AssignedValues DEF LastOnly
<1>2. CASE call[t] = "Modify" /\ ws # vs
  <2>1. PICK n \in 0..MaxLen : ws = Given(t, n)
    BY <1>2 DEF Updated
  <2>2. n \in Nat
    OBVIOUS
  <2> QED
    BY <2>1, <2>2, GivenValues DEF LastOnly, Given
<1>3. CASE call[t] = "Modify" /\ ws = vs
  BY <1>3
<1>4. CASE call[t] \notin {"Set", "Modify"}
  <2>1. ws = Added(t, vs)
    BY <1>4 DEF Updated
  <2>2. ASSUME NEW i \in 1..Len(ws), ws[i].form = "raw", i # Len(ws) PROVE FALSE
    <3>1. i \in 1..Len(vs) /\ Len(vs) \in Nat
      BY <2>1, <2>2, AddedValues
    <3>2. vs # <<>> /\ vs[i].form = "raw"
      BY <2>1, <2>2, <3>1, AddedValues
    <3>3. i = Len(vs)
      BY <3>1, <3>2 DEF LastOnly
    <3> QED
      BY <2>1, <2>2, <3>2, <3>3, AddedValues
  <2> QED
    BY <2>1, <2>2, AddedValues DEF LastOnly
<1> QED
  BY <1>1, <1>2, <1>3, <1>4

LEMMA CreatedGood ==
  ASSUME NEW t \in Threads, NEW ws \in Created(t)
  PROVE  ws \in Seq(Values) /\ LastOnly(ws)
<1> USE HeaderAssumption
<1>1. CASE call[t] = "Modify"
  <2>1. PICK n \in 0..MaxLen : ws = Given(t, n)
    BY <1>1 DEF Created
  <2>2. n \in Nat
    OBVIOUS
  <2> QED
    BY <2>1, <2>2, GivenValues DEF LastOnly, Given
<1>2. CASE call[t] # "Modify"
  <2>1. PICK n \in Nat : ws = Assigned(t, n)
    BY <1>2 DEF Created
  <2> QED
    BY <2>1, AssignedValues DEF LastOnly
<1> QED
  BY <1>1, <1>2

------------------------------------------------------------------------------
(* The inductive invariant.                                                 *)

LEMMA InitIInv == Init => IInv
<1> SUFFICES ASSUME Init PROVE IInv
  OBVIOUS
<1>1. TypeOK
  <2>1. /\ values \in [Keys -> Slices \cup {Absent}] /\ gen \in [Keys -> Nat]
        /\ call \in [Threads -> Methods] /\ key \in [Threads -> Keys]
        /\ ref \in [Threads -> Nat] /\ pc \in [Threads -> Pcs]
        /\ crashed \in BOOLEAN
    BY DEF Init, Pcs, Methods
  <2>3. calls \in [Threads -> 0..MaxCalls]
    <3>1. 0 \in 0..MaxCalls
      BY HeaderAssumption
    <3> QED
      BY <3>1 DEF Init
  <2>2. /\ rd \subseteq Threads /\ wr \in Threads \cup {None}
        /\ \A t \in Threads : pc[t] \in {"wwait", "wsec"} <=> wr = t
    BY HeaderAssumption DEF Init
  <2> QED
    BY <2>1, <2>2, <2>3 DEF TypeOK
<1> QED
  BY <1>1 DEF Init, IInv, LockInv, CallInv, FoundIsLive, OnlyLastUnprocessed

(* The slices of a well-formed map.                                         *)
LEMMA SliceGood ==
  ASSUME TypeOK, OnlyLastUnprocessed, NEW k \in Keys, values[k] # Absent
  PROVE  /\ values[k] \in Slices
         /\ values[k].gen \in Nat /\ values[k].vals \in Seq(Values)
         /\ LastOnly(values[k].vals)
<1>1. values[k] \in Slices
  BY DEF TypeOK
<1>2. values[k].gen \in Nat /\ values[k].vals \in Seq(Values)
  BY <1>1 DEF Slices
<1>3. DOMAIN values[k].vals = 1..Len(values[k].vals)
  BY <1>2
<1> QED
  BY <1>1, <1>2, <1>3 DEF OnlyLastUnprocessed, LastOnly

(* A change of one slice, or of one key, keeps the map well-formed.         *)
LEMMA StoreGood ==
  ASSUME TypeOK, OnlyLastUnprocessed, NEW k \in Keys, NEW s,
         values' = [values EXCEPT ![k] = s],
         \/ s = Absent
         \/ s \in Slices /\ LastOnly(s.vals)
  PROVE  /\ values' \in [Keys -> Slices \cup {Absent}]
         /\ OnlyLastUnprocessed'
<1>1. values' \in [Keys -> Slices \cup {Absent}]
  BY DEF TypeOK
<1>2. ASSUME NEW j \in Keys, values'[j] # Absent,
             NEW i \in DOMAIN values'[j].vals, values'[j].vals[i].form = "raw"
      PROVE  i = Len(values'[j].vals)
  <2>1. CASE j = k
    <3>1. values'[j] = s /\ s \in Slices /\ LastOnly(s.vals)
      BY <1>2, <2>1 DEF TypeOK
    <3>2. s.vals \in Seq(Values)
      BY <3>1 DEF Slices
    <3>3. DOMAIN s.vals = 1..Len(s.vals)
      BY <3>2
    <3> QED
      BY <1>2, <3>1, <3>3 DEF LastOnly
  <2>2. CASE j # k
    <3>1. values'[j] = values[j]
      BY <2>2 DEF TypeOK
    <3> QED
      BY <1>2, <3>1 DEF OnlyLastUnprocessed
  <2> QED
    BY <2>1, <2>2
<1> QED
  BY <1>1, <1>2 DEF OnlyLastUnprocessed

(* ChangeSlice replaces the values of the slice of t's key, or panics.      *)
LEMMA ChangeGood ==
  ASSUME TypeOK, OnlyLastUnprocessed, NEW t \in Threads,
         values[key[t]] # Absent, ChangeSlice(t)
  PROVE  /\ values' \in [Keys -> Slices \cup {Absent}]
         /\ crashed' \in BOOLEAN
         /\ OnlyLastUnprocessed'
         /\ \A k \in Keys : values[k] # Absent =>
              values'[k] # Absent /\ values'[k].gen = values[k].gen
<1> DEFINE k == key[t]
           vs == values[k].vals
<1>0. k \in Keys /\ crashed \in BOOLEAN /\ values \in [Keys -> Slices \cup {Absent}]
  BY DEF TypeOK
<1>1. /\ values[k] \in Slices /\ values[k].gen \in Nat
      /\ vs \in Seq(Values) /\ LastOnly(vs)
  BY <1>0, SliceGood
<1>2. CASE Panics(call[t], vs) /\ crashed' = TRUE /\ UNCHANGED values
  BY <1>0, <1>2 DEF OnlyLastUnprocessed
<1>3. CASE /\ ~Panics(call[t], vs) /\ UNCHANGED crashed
           /\ \E ws \in Updated(t, vs) : values' = [values EXCEPT ![k].vals = ws]
  <2>1. PICK ws \in Updated(t, vs) : values' = [values EXCEPT ![k].vals = ws]
    BY <1>3
  <2> DEFINE s == [values[k] EXCEPT !.vals = ws]
  <2>2. ws \in Seq(Values) /\ LastOnly(ws)
    BY <1>1, <2>1, UpdatedGood
  <2>3. s \in Slices /\ s.vals = ws /\ s.gen = values[k].gen
    BY <1>1, <2>2 DEF Slices
  <2>4. values' = [values EXCEPT ![k] = s]
    BY <2>1, <1>0
  <2>5. s # Absent
    BY <2>3, MarksAssumption
  <2> HIDE DEF s
  <2>6. values' \in [Keys -> Slices \cup {Absent}] /\ OnlyLastUnprocessed'
    BY <1>0, <2>2, <2>3, <2>4, StoreGood
  <2> QED
    BY <1>0, <1>3, <2>3, <2>4, <2>5, <2>6
<1> QED
  BY <1>2, <1>3 DEF ChangeSlice

(* A step that changes no slice keeps what is known of the map.             *)
LEMMA MapKept ==
  ASSUME TypeOK, OnlyLastUnprocessed, UNCHANGED mapVars
  PROVE  /\ values' \in [Keys -> Slices \cup {Absent}] /\ gen' \in [Keys -> Nat]
         /\ OnlyLastUnprocessed'
BY DEF TypeOK, OnlyLastUnprocessed, mapVars

(* The second lookup creates the key or changes the slice that is there.    *)
LEMMA CreateGood ==
  ASSUME TypeOK, OnlyLastUnprocessed, NEW t \in Threads, CreateOrUpdate(t)
  PROVE  /\ values' \in [Keys -> Slices \cup {Absent}]
         /\ gen' \in [Keys -> Nat] /\ crashed' \in BOOLEAN
         /\ OnlyLastUnprocessed'
<1>0. key[t] \in Keys /\ gen \in [Keys -> Nat] /\ crashed \in BOOLEAN
  BY DEF TypeOK
<1>1. ASSUME NEW vs \in Created(t), Create(key[t], vs), UNCHANGED crashed
      PROVE  /\ values' \in [Keys -> Slices \cup {Absent}]
             /\ gen' \in [Keys -> Nat] /\ crashed' \in BOOLEAN
             /\ OnlyLastUnprocessed'
  <2> DEFINE s == [gen |-> gen'[key[t]], vals |-> vs]
  <2>1. gen' \in [Keys -> Nat] /\ gen'[key[t]] \in Nat
    BY <1>0, <1>1 DEF Create
  <2>2. vs \in Seq(Values) /\ LastOnly(vs)
    BY CreatedGood
  <2>3. s \in Slices /\ s.vals = vs
    BY <2>1, <2>2 DEF Slices
  <2>4. values' = [values EXCEPT ![key[t]] = s]
    BY <1>1 DEF Create
  <2> HIDE DEF s
  <2>5. values' \in [Keys -> Slices \cup {Absent}] /\ OnlyLastUnprocessed'
    BY <1>0, <2>2, <2>3, <2>4, StoreGood
  <2> QED
    BY <1>0, <1>1, <2>1, <2>5
<1>2. CASE UNCHANGED mapVars /\ UNCHANGED crashed
  BY <1>0, <1>2, MapKept
<1>3. CASE values[key[t]] # Absent /\ ChangeSlice(t) /\ UNCHANGED gen
  BY <1>0, <1>3, ChangeGood
<1> QED
  BY <1>1, <1>2, <1>3 DEF CreateOrUpdate

(* The three parts of the invariant a step may disturb: the locks and the   *)
(* calls; the slices found; the map.                                        *)
LEMMA StepIInv ==
  ASSUME IInv, NEW t \in Threads, Begin(t) \/ UnsafeAdd(t) \/ Step(t)
  PROVE  IInv'
<1> USE HeaderAssumption DEF IInv
<1>0. t # None
  OBVIOUS
<1> USE DEF TypeOK, LockInv, CallInv, FoundIsLive, At, Goto, Pcs, Methods
<1>1. CASE Begin(t)
  <2>1. UNCHANGED <<mapVars, rd, wr, ref, crashed>>
    BY <1>1 DEF Begin
  <2>2. OnlyLastUnprocessed' /\ values' \in [Keys -> Slices \cup {Absent}] /\ gen' \in [Keys -> Nat]
    BY <2>1, MapKept
  <2>3. calls' \in [Threads -> 0..MaxCalls]
    BY <1>1 DEF Begin
  <2>4. TypeOK' /\ LockInv' /\ CallInv'
    BY <1>1, <2>1, <2>2, <2>3 DEF Begin
  <2>5. FoundIsLive'
    BY <1>1, <2>1 DEF Begin, mapVars
  <2> QED
    BY <2>2, <2>4, <2>5
<1>2. CASE UnsafeAdd(t)
  <2>1. OnlyLastUnprocessed' /\ values' \in [Keys -> Slices \cup {Absent}] /\ gen' \in [Keys -> Nat]
        /\ crashed' \in BOOLEAN
    BY <1>2, CreateGood DEF UnsafeAdd
  <2>2. TypeOK' /\ LockInv' /\ CallInv'
    BY <1>2, <2>1 DEF UnsafeAdd
  <2>3. \A u \in Threads : pc'[u] # "update"
    BY <1>2 DEF UnsafeAdd
  <2> QED
    BY <2>1, <2>2, <2>3
<1>3. CASE Find(t)
  <2>1. UNCHANGED <<mapVars, wr, call, key, calls, crashed>>
    BY <1>3 DEF Find
  <2>2. OnlyLastUnprocessed' /\ values' \in [Keys -> Slices \cup {Absent}] /\ gen' \in [Keys -> Nat]
    BY <2>1, MapKept
  <2>3. ref' \in [Threads -> Nat]
    <3>1. CASE values[key[t]] # Absent
      <4>1. key[t] \in Keys /\ values[key[t]].gen \in Nat
        BY <3>1, SliceGood
      <4> QED
        BY <1>3, <4>1 DEF Find
    <3>2. CASE values[key[t]] = Absent
      BY <1>3, <3>2 DEF Find
    <3> QED
      BY <3>1, <3>2
  <2>4. TypeOK' /\ LockInv' /\ CallInv'
    BY <1>3, <2>1, <2>2, <2>3 DEF Find
  <2>5. FoundIsLive'
    BY <1>3, <2>1 DEF Find, mapVars
  <2> QED
    BY <2>2, <2>4, <2>5
<1>4. CASE Update(t)
  <2>1. values[key[t]] # Absent /\ ChangeSlice(t)
    BY <1>4 DEF Update
  <2>2. /\ OnlyLastUnprocessed' /\ values' \in [Keys -> Slices \cup {Absent}]
        /\ crashed' \in BOOLEAN
        /\ \A k \in Keys : values[k] # Absent =>
             values'[k] # Absent /\ values'[k].gen = values[k].gen
    BY <2>1, ChangeGood
  <2>3. TypeOK' /\ LockInv' /\ CallInv'
    BY <1>4, <2>2 DEF Update
  <2>4. FoundIsLive'
    BY <1>4, <2>2 DEF Update
  <2> QED
    BY <2>2, <2>3, <2>4
<1>5. CASE WriteSection(t)
  <2>1. /\ OnlyLastUnprocessed' /\ values' \in [Keys -> Slices \cup {Absent}]
        /\ gen' \in [Keys -> Nat] /\ crashed' \in BOOLEAN
    <3>1. CASE call[t] = "Del"
      <4>1. values' = [values EXCEPT ![key[t]] = Absent] /\ UNCHANGED <<gen, crashed>>
        BY <1>5, <3>1 DEF WriteSection, Delete
      <4>2. key[t] \in Keys
        OBVIOUS
      <4>3. OnlyLastUnprocessed' /\ values' \in [Keys -> Slices \cup {Absent}]
        BY <4>1, <4>2, StoreGood
      <4> QED
        BY <4>1, <4>3
    <3>2. CASE call[t] # "Del"
      BY <1>5, <3>2, CreateGood DEF WriteSection
    <3> QED
      BY <3>1, <3>2
  <2>2. TypeOK' /\ LockInv' /\ CallInv'
    BY <1>5, <2>1 DEF WriteSection
  <2>3. \A u \in Threads : pc'[u] # "update"
    BY <1>5 DEF WriteSection
  <2> QED
    BY <2>1, <2>2, <2>3
<1>6. CASE LockAnnounce(t) \/ LockAcquire(t) \/ Release(t) \/ Get(t)
           \/ ForEachBegin(t) \/ ForEachEnd(t)
  <2>1. UNCHANGED <<mapVars, call, key, ref, calls>> /\ crashed' \in BOOLEAN
    BY <1>6 DEF LockAnnounce, LockAcquire, Release, Get, ForEachBegin, ForEachEnd
  <2>2. OnlyLastUnprocessed' /\ values' \in [Keys -> Slices \cup {Absent}] /\ gen' \in [Keys -> Nat]
    BY <2>1, MapKept
  <2>3. TypeOK' /\ LockInv' /\ CallInv'
    <3>1. CASE LockAnnounce(t)
      BY <3>1, <2>1, <2>2 DEF LockAnnounce
    <3>2. CASE LockAcquire(t)
      BY <3>2, <2>1, <2>2 DEF LockAcquire
    <3>3. CASE Release(t)
      BY <3>3, <2>1, <2>2 DEF Release
    <3>4. CASE Get(t)
      BY <3>4, <2>1, <2>2 DEF Get
    <3>5. CASE ForEachBegin(t)
      BY <3>5, <2>1, <2>2 DEF ForEachBegin
    <3>6. CASE ForEachEnd(t)
      BY <3>6, <2>1, <2>2 DEF ForEachEnd
    <3> QED
      BY <1>6, <3>1, <3>2, <3>3, <3>4, <3>5, <3>6
  <2>4. FoundIsLive'
    BY <1>6, <2>1 DEF LockAnnounce, LockAcquire, Release, Get, ForEachBegin, ForEachEnd, mapVars
  <2> QED
    BY <2>2, <2>3, <2>4
<1> QED
  BY <1>1, <1>2, <1>3, <1>4, <1>5, <1>6 DEF Step

LEMMA NextIInv == IInv /\ [Next]_vars => IInv'
<1> SUFFICES ASSUME IInv, [Next]_vars PROVE IInv'
  OBVIOUS
<1>1. ASSUME NEW t \in Threads, Begin(t) \/ UnsafeAdd(t) \/ Step(t) PROVE IInv'
  BY <1>1, StepIInv
<1>2. CASE Done \/ UNCHANGED vars
  <2>1. UNCHANGED vars
    BY <1>2 DEF Done
  <2> QED
    BY <2>1 DEF vars, IInv, TypeOK, LockInv, CallInv, FoundIsLive, OnlyLastUnprocessed
<1> QED
  BY <1>1, <1>2 DEF Next

LEMMA HeaderIInv == Spec => []IInv
BY InitIInv, NextIInv, PTL DEF Spec

(* Types, with the writer of KeyModLock between its Lock and its Unlock.    *)
THEOREM HeaderTypes == Spec => []TypeOK
BY HeaderIInv, PTL DEF IInv

(* The range AddRawKey gives the processors is one short, but never by more *)
(* than the value just added, whatever calls goroutines interleave.         *)
THEOREM ProcessorsLagByOne == Spec => []OnlyLastUnprocessed
BY HeaderIInv, PTL DEF IInv

(* A slice found under the read lock stays in the map until it is updated:  *)
(* no Set, Add or Modify is lost to a concurrent Del.                       *)
THEOREM UpdatesReachMap == Spec => []FoundIsLive
BY HeaderIInv, PTL DEF IInv

------------------------------------------------------------------------------
(* The refinement of HeaderMap.                                             *)

(* Who stored each value of a slice.                                        *)
Bys(vs) == [i \in DOMAIN vs |-> vs[i].by]
Shown(s) == IF s = Absent THEN Absent ELSE Bys(s.vals)

Owns(t) == pc[t] = "wsec" /\ call[t] = "UnsafeAdder"

LEMMA BysSeq ==
  ASSUME NEW vs \in Seq(Values)
  PROVE  /\ Bys(vs) \in Seq(Threads) /\ Len(Bys(vs)) = Len(vs)
         /\ Bys(vs) # Absent
         /\ \A i \in 1..Len(vs) : Bys(vs)[i] = vs[i].by
         /\ vs = <<>> => Bys(vs) = <<>>
<1>1. DOMAIN vs = 1..Len(vs) /\ Len(vs) \in Nat
  OBVIOUS
<1>2. \A i \in 1..Len(vs) : vs[i].by \in Threads
  <2>1. \A i \in 1..Len(vs) : vs[i] \in Values
    OBVIOUS
  <2> QED
    BY <2>1 DEF Values
<1>3. Bys(vs) \in Seq(Threads) /\ Len(Bys(vs)) = Len(vs)
  BY <1>1, <1>2 DEF Bys
<1>4. vs = <<>> => Bys(vs) = <<>>
  BY <1>3, EmptySeq
<1> QED
  BY <1>1, <1>3, <1>4, MarksAssumption DEF Bys

LEMMA MineBys ==
  ASSUME NEW t \in Threads, NEW n \in 0..MaxLen, NEW ws \in Seq(Values),
         Len(ws) = n, \A i \in 1..n : ws[i].by = t
  PROVE  Bys(ws) \in Map!Mine(t)
<1>1. Bys(ws) = [i \in 1..n |-> t]
  BY DEF Bys
<1> QED
  BY <1>1 DEF Map!Mine

LEMMA AddedBys ==
  ASSUME NEW t \in Threads, NEW vs \in Seq(Values)
  PROVE  Bys(Added(t, vs)) = Append(Bys(vs), t)
<1> DEFINE a == Bys(Added(t, vs))
           b == Append(Bys(vs), t)
<1>1. /\ a \in Seq(Threads) /\ Len(a) = Len(vs) + 1
      /\ \A i \in 1..(Len(vs) + 1) : a[i] = Added(t, vs)[i].by
  BY AddedValues, BysSeq
<1>2. /\ b \in Seq(Threads) /\ Len(b) = Len(vs) + 1
      /\ \A i \in 1..Len(vs) : b[i] = vs[i].by
      /\ b[Len(vs) + 1] = t
  BY BysSeq, AppendProperties
<1>3. Len(vs) \in Nat
  OBVIOUS
<1>0. /\ \A i \in 1..Len(vs) : Added(t, vs)[i].by = vs[i].by
      /\ Added(t, vs)[Len(vs) + 1].by = t
  BY AddedValues
<1> HIDE DEF a, b
<1>4. ASSUME NEW i \in 1..(Len(vs) + 1) PROVE a[i] = b[i]
  <2>1. CASE i \in 1..Len(vs)
    BY <2>1, <1>0, <1>1, <1>2
  <2>2. CASE i = Len(vs) + 1
    BY <2>2, <1>0, <1>1, <1>2
  <2> QED
    BY <1>3, <2>1, <2>2
<1>5. a = b
  BY <1>1, <1>2, <1>4, SeqEqual
<1> QED
  BY <1>5 DEF a, b

(* What a call writes is what HeaderMap lets it write.                      *)
LEMMA PendingIs ==
  ASSUME IInv, NEW t \in Threads, pc[t] # "idle"
  PROVE  /\ Pending[t] = [call |-> call[t], key |-> key[t]]
         /\ Pending[t] # None
         /\ Pending[t].call = call[t] /\ Pending[t].key = key[t]
         /\ Held[key[t]] = Shown(values[key[t]])
<1>1. call[t] \in Methods /\ key[t] \in Keys
  BY DEF IInv, TypeOK
<1>2. Pending[t] = [call |-> call[t], key |-> key[t]]
  BY DEF Pending
<1> QED
  BY <1>1, <1>2, MarksAssumption DEF Held, Shown, Bys

LEMMA HeldExcept ==
  ASSUME IInv, NEW k \in Keys, NEW s, values' = [values EXCEPT ![k] = s]
  PROVE  Held' = [Held EXCEPT ![k] = Shown(s)]
BY DEF IInv, TypeOK, Held, Shown, Bys

LEMMA UpdatedEffect ==
  ASSUME IInv, NEW t \in Threads, pc[t] # "idle",
         call[t] \in {"Set", "Add", "Modify", "UnsafeAdder"},
         values[key[t]] # Absent, NEW ws \in Updated(t, values[key[t]].vals)
  PROVE  Bys(ws) \in Map!After(t)
<1> DEFINE vs == values[key[t]].vals
<1>0. vs \in Seq(Values) /\ LastOnly(vs)
  BY SliceGood DEF IInv, TypeOK
<1>1. /\ Pending[t].call = call[t] /\ Held[Pending[t].key] = Bys(vs)
      /\ Bys(vs) # Absent
  BY <1>0, PendingIs, BysSeq DEF Shown
<1> USE HeaderAssumption
<1>2. CASE call[t] = "Set"
  <2>1. PICK n \in 0..MaxLen : ws = Assigned(t, n)
    BY <1>2 DEF Updated
  <2>2. n \in Nat
    OBVIOUS
  <2>3. ws \in Seq(Values) /\ Len(ws) = n /\ \A i \in 1..n : ws[i].by = t
    BY <2>1, <2>2, AssignedValues
  <2>4. Bys(ws) \in Map!Mine(t)
    BY <2>3, MineBys
  <2> QED
    BY <1>1, <1>2, <2>4 DEF Map!After
<1>3. CASE call[t] = "Modify"
  <2>1. ASSUME NEW n \in 0..MaxLen, ws = Given(t, n) PROVE Bys(ws) \in Map!Mine(t)
    <3>1. n \in Nat /\ \A i \in 1..n : ws[i].by = t
      BY <2>1 DEF Given
    <3> QED
      BY <2>1, <3>1, GivenValues, MineBys
  <2>2. ws = vs \/ \E n \in 0..MaxLen : ws = Given(t, n)
    BY <1>3 DEF Updated
  <2> QED
    BY <1>1, <1>3, <2>1, <2>2 DEF Map!After
<1>4. CASE call[t] \in {"Add", "UnsafeAdder"}
  <2>1. Bys(ws) = Append(Bys(vs), t)
    BY <1>0, <1>4, AddedBys DEF Updated
  <2> QED
    BY <1>1, <1>4, <2>1 DEF Map!After
<1> QED
  BY <1>2, <1>3, <1>4

LEMMA ChangeEffect ==
  ASSUME IInv, NEW t \in Threads, pc[t] # "idle",
         call[t] \in {"Set", "Add", "Modify", "UnsafeAdder"},
         values[key[t]] # Absent, ChangeSlice(t)
  PROVE  \/ Map!Die(t)
         \/ Map!Effect(t) /\ UNCHANGED crashed
<1> DEFINE k == key[t]
           vs == values[k].vals
<1>0. k \in Keys /\ values \in [Keys -> Slices \cup {Absent}]
  BY DEF IInv, TypeOK
<1>1. values[k] \in Slices /\ values[k].gen \in Nat /\ vs \in Seq(Values) /\ LastOnly(vs)
  BY <1>0, SliceGood DEF IInv
<1>2. CASE Panics(call[t], vs) /\ crashed' = TRUE /\ UNCHANGED values
  <2>1. Held[Pending[t].key] = <<>>
    BY <1>1, <1>2, PendingIs, BysSeq DEF Panics, Shown
  <2>2. UNCHANGED Held
    BY <1>2 DEF Held
  <2> QED
    BY <1>2, <2>1, <2>2, PendingIs DEF Map!Die, Panics
<1>3. CASE /\ ~Panics(call[t], vs) /\ UNCHANGED crashed
           /\ \E ws \in Updated(t, vs) : values' = [values EXCEPT ![k].vals = ws]
  <2>1. PICK ws \in Updated(t, vs) : values' = [values EXCEPT ![k].vals = ws]
    BY <1>3
  <2> DEFINE s == [values[k] EXCEPT !.vals = ws]
  <2>2. ws \in Seq(Values)
    BY <1>1, <2>1, UpdatedGood
  <2>3. s \in Slices /\ s.vals = ws
    BY <1>1, <2>2 DEF Slices
  <2>4. values' = [values EXCEPT ![k] = s]
    BY <2>1, <1>0
  <2>5. Shown(s) = Bys(ws)
    BY <2>3, MarksAssumption DEF Shown
  <2> HIDE DEF s
  <2>6. Held' = [Held EXCEPT ![k] = Bys(ws)]
    BY <1>0, <2>4, <2>5, HeldExcept, ZenonT(40)
  <2>7. Bys(ws) \in Map!After(t) /\ Pending[t].key = k
    BY <2>1, UpdatedEffect, PendingIs
  <2> QED
    BY <1>3, <2>6, <2>7 DEF Map!Effect
<1> QED
  BY <1>2, <1>3 DEF ChangeSlice

LEMMA CreateEffect ==
  ASSUME IInv, NEW t \in Threads, pc[t] # "idle",
         call[t] \in {"Set", "Add", "Modify", "UnsafeAdder"},
         CreateOrUpdate(t)
  PROVE  \/ Map!Die(t)
         \/ Map!Effect(t) /\ UNCHANGED crashed
<1>0. key[t] \in Keys /\ gen \in [Keys -> Nat]
  BY DEF IInv, TypeOK
<1>a. /\ Pending[t].call = call[t] /\ Pending[t].key = key[t]
      /\ Held[key[t]] = Shown(values[key[t]])
  BY PendingIs
<1>1. ASSUME values[key[t]] = Absent, NEW vs \in Created(t), Create(key[t], vs)
      PROVE  Map!Effect(t)
  <2> DEFINE s == [gen |-> gen'[key[t]], vals |-> vs]
  <2>1. vs \in Seq(Values)
    BY CreatedGood
  <2>2. s \in Slices /\ s.vals = vs
    BY <1>0, <1>1, <2>1 DEF Slices, Create
  <2>3. values' = [values EXCEPT ![key[t]] = s] /\ Shown(s) = Bys(vs)
    BY <1>1, <2>2, MarksAssumption DEF Create, Shown
  <2> HIDE DEF s
  <2>4. Held' = [Held EXCEPT ![key[t]] = Bys(vs)]
    BY <1>0, <2>3, HeldExcept
  <2>5. Bys(vs) \in Map!After(t)
    <3> USE HeaderAssumption
    <3>1. CASE call[t] = "Set"
      <4>1. PICK n \in 0..MaxLen : vs = Assigned(t, n)
        BY <3>1 DEF Created
      <4>2. n \in Nat
        OBVIOUS
      <4>3. Len(vs) = n /\ \A i \in 1..n : vs[i].by = t
        BY <4>1, <4>2, AssignedValues
      <4>4. Bys(vs) \in Map!Mine(t)
        BY <2>1, <4>3, MineBys
      <4> QED
        BY <1>a, <3>1, <4>4 DEF Map!After
    <3>2. CASE call[t] = "Modify"
      <4>1. PICK n \in 0..MaxLen : vs = Given(t, n)
        BY <3>2 DEF Created
      <4>2. n \in Nat
        OBVIOUS
      <4>3. Len(vs) = n /\ \A i \in 1..n : vs[i].by = t
        BY <4>1, <4>2, GivenValues DEF Given
      <4>4. Bys(vs) \in Map!Mine(t)
        BY <2>1, <4>3, MineBys
      <4> QED
        BY <1>a, <3>2, <4>4 DEF Map!After
    <3>3. CASE call[t] \in {"Add", "UnsafeAdder"}
      <4>1. vs = Assigned(t, 1)
        BY <3>3 DEF Created
      <4>2. Len(vs) = 1 /\ vs[1].by = t
        <5>1. vs = [i \in 1..1 |-> [by |-> t, form |-> "lower"]] /\ Len(vs) = 1
          BY <4>1, AssignedValues
        <5> QED
          BY <5>1
      <4>3. /\ Bys(vs) \in Seq(Threads) /\ Len(Bys(vs)) = 1
            /\ Bys(vs)[1] = t
        BY <2>1, <4>2, BysSeq
      <4>4. <<t>> \in Seq(Threads) /\ Len(<<t>>) = 1 /\ <<t>>[1] = t
        OBVIOUS
      <4>5. Bys(vs) = <<t>>
        <5>1. \A i \in 1..Len(Bys(vs)) : Bys(vs)[i] = <<t>>[i]
          BY <4>3, <4>4
        <5> QED
          BY <4>3, <4>4, <5>1, SeqEqual
      <4> QED
        BY <1>1, <1>a, <3>3, <4>5 DEF Map!After, Shown
    <3> QED
      BY <3>1, <3>2, <3>3
  <2> QED
    BY <1>a, <2>4, <2>5 DEF Map!Effect
<1>2. ASSUME values[key[t]] = Absent, call[t] = "Modify", UNCHANGED mapVars
      PROVE  Map!Effect(t)
  <2>1. Held' = Held /\ Held = [Held EXCEPT ![key[t]] = Held[key[t]]]
    BY <1>2, <1>0 DEF mapVars, Held
  <2>2. Held[key[t]] \in Map!After(t)
    BY <1>2, <1>a DEF Map!After
  <2> QED
    BY <1>a, <2>1, <2>2 DEF Map!Effect
<1>3. CASE values[key[t]] # Absent /\ ChangeSlice(t)
  BY <1>3, ChangeEffect
<1> QED
  BY <1>1, <1>2, <1>3 DEF CreateOrUpdate

(* The holder of an UnsafeAdder is the one goroutine in its write section.  *)
LEMMA AdderIs ==
  ASSUME TypeOK
  PROVE  /\ \A t \in Threads : Owns(t) => Adder = t
         /\ (\A t \in Threads : ~Owns(t)) => Adder = None
<1>1. \A t, u \in Threads : Owns(t) /\ Owns(u) => t = u
  BY DEF TypeOK, Owns
<1>2. Adder = IF \E t \in Threads : Owns(t) THEN CHOOSE t \in Threads : Owns(t) ELSE None
  BY DEF Adder, Owns
<1> HIDE DEF Owns
<1> QED
  BY <1>1, <1>2

(* Nobody owns the header while another goroutine is in the write section,  *)
(* while it is read under the read lock, or while nobody has the write lock.*)
LEMMA NoAdder ==
  ASSUME IInv, \/ wr = None \/ rd # {}
               \/ \E t \in Threads : pc[t] = "wsec" /\ call[t] # "UnsafeAdder"
  PROVE  Adder = None
<1>1. \A t \in Threads : ~Owns(t)
  BY HeaderAssumption DEF IInv, TypeOK, LockInv, Owns
<1> QED
  BY <1>1, AdderIs DEF IInv

(* A step that changes who is in the write section for an UnsafeAdder in no *)
(* way leaves the owner as it was.                                          *)
LEMMA AdderKept ==
  ASSUME \A t \in Threads : Owns(t) <=> (Owns(t))'
  PROVE  Adder' = Adder
<1>1. \A t \in Threads : /\ Owns(t) <=> (pc[t] = "wsec" /\ call[t] = "UnsafeAdder")
                         /\ (Owns(t))' <=> (pc'[t] = "wsec" /\ call'[t] = "UnsafeAdder")
  BY DEF Owns
<1>2. {t \in Threads : Owns(t)} = {t \in Threads : (Owns(t))'}
  OBVIOUS
<1> QED
  BY <1>1, <1>2 DEF Adder

(* A goroutine that moves without changing the map, and not to or from      *)
(* "idle" or an UnsafeAdder's section, takes no step of HeaderMap.          *)
LEMMA StutterMap ==
  ASSUME IInv, NEW t \in Threads, NEW l \in Pcs \ {"idle"}, pc[t] # "idle",
         pc' = [pc EXCEPT ![t] = l], UNCHANGED <<values, call, key, crashed>>,
         call[t] = "UnsafeAdder" => pc[t] # "wsec" /\ l # "wsec"
  PROVE  UNCHANGED Map!headerVars
<1>1. \A u \in Threads : Owns(u) <=> (Owns(u))'
  BY DEF IInv, TypeOK, Owns
<1>2. Held' = Held
  BY DEF Held
<1>3. \A u \in Threads : (pc[u] = "idle") <=> (pc'[u] = "idle")
  BY DEF IInv, TypeOK
<1>4. Pending' = Pending
  BY <1>3 DEF Pending
<1> QED
  BY <1>1, <1>2, <1>4, AdderKept DEF Map!headerVars

(* A goroutine that goes back to "idle" has returned from its call; if it   *)
(* held no UnsafeAdder the owner is unchanged.                              *)
LEMMA ReturnIs ==
  ASSUME IInv, NEW t \in Threads, pc[t] # "idle",
         pc' = [pc EXCEPT ![t] = "idle"], UNCHANGED <<call, key>>
  PROVE  /\ Map!Returns(t)
         /\ ~Owns(t) => Adder' = Adder
<1>1. Pending' = [Pending EXCEPT ![t] = None]
  BY DEF IInv, TypeOK, Pending
<1>2. ASSUME ~Owns(t) PROVE \A u \in Threads : Owns(u) <=> (Owns(u))'
  BY <1>2 DEF IInv, TypeOK, Owns
<1> QED
  BY <1>1, <1>2, AdderKept DEF Map!Returns

(* A call that leaves the map as it is.                                     *)
LEMMA NoEffect ==
  ASSUME IInv, NEW t \in Threads, pc[t] # "idle", UNCHANGED values,
         \/ call[t] \in {"Get", "ForEach"}
         \/ call[t] = "Del" /\ values[key[t]] = Absent
  PROVE  Map!Effect(t)
<1>1. /\ Pending[t].call = call[t] /\ Pending[t].key = key[t]
      /\ Held[key[t]] = Shown(values[key[t]])
  BY PendingIs
<1>2. Held' = Held /\ Held = [Held EXCEPT ![key[t]] = Held[key[t]]]
  BY DEF Held, IInv, TypeOK
<1>3. Held[key[t]] \in Map!After(t)
  BY <1>1 DEF Map!After, Shown
<1> QED
  BY <1>1, <1>2, <1>3 DEF Map!Effect

LEMMA DeleteEffect ==
  ASSUME IInv, NEW t \in Threads, pc[t] # "idle", call[t] = "Del", Delete(t)
  PROVE  Map!Effect(t)
<1>1. Pending[t].call = call[t] /\ Pending[t].key = key[t] /\ key[t] \in Keys
  BY PendingIs DEF IInv, TypeOK
<1>2. Held' = [Held EXCEPT ![key[t]] = Absent]
  BY <1>1, HeldExcept DEF Delete, Shown
<1> QED
  BY <1>1, <1>2 DEF Map!Effect, Map!After

(* Every step of a goroutine is a step of HeaderMap or a stutter.           *)
LEMMA StepMap ==
  ASSUME IInv, NEW t \in Threads, Begin(t) \/ UnsafeAdd(t) \/ Step(t)
  PROVE  Map!Next \/ UNCHANGED Map!headerVars
<1>0. ~crashed
  BY DEF Begin, UnsafeAdd, Step, Find, Update, LockAnnounce, LockAcquire,
         WriteSection, Release, Get, ForEachBegin, ForEachEnd, At
<1> DEFINE M == \/ Map!Begin(t) \/ Map!Commit(t) \/ Map!Own(t)
                \/ Map!AddOwned(t) \/ Map!Release(t) \/ Map!Die(t)
<1> SUFFICES M \/ UNCHANGED Map!headerVars
  BY <1>0 DEF Map!Next
<1>t. pc \in [Threads -> Pcs] /\ call[t] \in Methods /\ key[t] \in Keys
  BY DEF IInv, TypeOK
<1> USE DEF At, Goto
<1>1. CASE Begin(t)
  <2>1. UNCHANGED <<values, crashed>> /\ pc[t] = "idle"
    BY <1>1 DEF Begin, mapVars
  <2>2. PICK c \in Calls, k \in Keys, l \in {"read", "each", "wlock", "find"} :
          /\ call' = [call EXCEPT ![t] = c] /\ key' = [key EXCEPT ![t] = k]
          /\ pc' = [pc EXCEPT ![t] = l]
    BY <1>1 DEF Begin
  <2>3. Held' = Held
    BY <2>1 DEF Held
  <2>4. \A u \in Threads : Owns(u) <=> (Owns(u))'
    BY <2>1, <2>2 DEF IInv, TypeOK, Owns
  <2>5. Pending' = [Pending EXCEPT ![t] = [call |-> c, key |-> k]]
    BY <2>1, <2>2 DEF IInv, TypeOK, Pending
  <2>6. [call |-> c, key |-> k] # None /\ Pending[t] = None
    BY <2>1, <2>2, HeaderAssumption, MarksAssumption DEF Pending
  <2>7. Pending'[t] = [call |-> c, key |-> k]
    BY <2>5 DEF Pending
  <2> QED
    BY <2>1, <2>3, <2>4, <2>5, <2>6, <2>7, AdderKept DEF Map!Begin
<1>2. CASE UnsafeAdd(t)
  <2>1. /\ Owns(t) /\ pc[t] # "idle" /\ call[t] = "UnsafeAdder"
        /\ CreateOrUpdate(t) /\ UNCHANGED <<pc, call>>
    BY <1>2 DEF UnsafeAdd, Owns
  <2>2. Map!Die(t) \/ (Map!Effect(t) /\ UNCHANGED crashed)
    BY <2>1, CreateEffect
  <2>3. Adder = t /\ Adder' = Adder
    BY <2>1, AdderIs, AdderKept DEF Owns, IInv
  <2>4. PICK k \in Keys : key' = [key EXCEPT ![t] = k]
    BY <1>2 DEF UnsafeAdd
  <2>5. Pending' = [Pending EXCEPT ![t].key = k]
    BY <2>1, <2>4 DEF Pending, IInv, TypeOK
  <2> QED
    BY <2>2, <2>3, <2>5 DEF Map!AddOwned
<1>3. CASE Find(t)
  <2>1. UNCHANGED <<values, call, key, crashed>> /\ pc[t] = "find" /\ wr = None
    BY <1>3 DEF Find, mapVars
  <2>2. CASE pc' = [pc EXCEPT ![t] = "update"] \/ pc' = [pc EXCEPT ![t] = "wlock"]
    BY <2>1, <2>2, StutterMap DEF Pcs
  <2>3. CASE /\ values[key[t]] = Absent /\ call[t] = "Del"
             /\ pc' = [pc EXCEPT ![t] = "idle"]
    <3>1. Map!Effect(t) /\ Map!Returns(t)
      BY <2>1, <2>3, NoEffect, ReturnIs
    <3>2. Adder = None /\ Adder' = Adder
      BY <2>1, <2>3, NoAdder, ReturnIs DEF Owns
    <3> QED
      BY <2>1, <2>3, <3>1, <3>2, PendingIs DEF Map!Commit
  <2> QED
    BY <1>3, <2>2, <2>3 DEF Find
<1>4. CASE Update(t)
  <2>1. /\ pc[t] = "update" /\ call[t] \in {"Set", "Add", "Modify"} /\ t \in rd
        /\ values[key[t]] # Absent /\ ChangeSlice(t) /\ UNCHANGED <<call, key>>
        /\ pc' = [pc EXCEPT ![t] = "idle"]
    BY <1>4 DEF Update, IInv, CallInv, FoundIsLive, LockInv
  <2>2. Map!Die(t) \/ (Map!Effect(t) /\ UNCHANGED crashed)
    BY <2>1, ChangeEffect
  <2>3. Map!Returns(t) /\ Adder = None /\ Adder' = Adder
    BY <2>1, NoAdder, ReturnIs DEF Owns
  <2> QED
    BY <2>1, <2>2, <2>3, PendingIs DEF Map!Commit
<1>5. CASE WriteSection(t)
  <2>1. /\ pc[t] = "wsec" /\ call[t] \in {"Set", "Add", "Modify", "Del"}
        /\ pc' = [pc EXCEPT ![t] = "idle"] /\ UNCHANGED <<call, key>>
    BY <1>5 DEF WriteSection, IInv, CallInv
  <2>2. Map!Die(t) \/ (Map!Effect(t) /\ UNCHANGED crashed)
    <3>1. CASE call[t] = "Del"
      BY <1>5, <2>1, <3>1, DeleteEffect DEF WriteSection, Delete
    <3>2. CASE call[t] # "Del"
      BY <1>5, <2>1, <3>2, CreateEffect DEF WriteSection
    <3> QED
      BY <3>1, <3>2
  <2>3. Map!Returns(t) /\ Adder = None /\ Adder' = Adder
    BY <2>1, NoAdder, ReturnIs DEF Owns
  <2> QED
    BY <2>1, <2>2, <2>3, PendingIs DEF Map!Commit
<1>6. CASE LockAnnounce(t)
  BY <1>6, StutterMap DEF LockAnnounce, mapVars, Pcs
<1>7. CASE LockAcquire(t)
  <2>1. /\ pc[t] = "wwait" /\ wr = t /\ pc' = [pc EXCEPT ![t] = "wsec"]
        /\ UNCHANGED <<values, call, key, crashed, wr>>
    BY <1>7 DEF LockAcquire, mapVars, IInv, TypeOK
  <2>2. CASE call[t] = "UnsafeAdder"
    <3>1. \A u \in Threads : ~Owns(u)
      BY <2>1 DEF IInv, TypeOK, Owns
    <3>2. Adder = None
      BY <3>1, AdderIs DEF IInv
    <3>3. (Owns(t))' /\ TypeOK'
      BY <1>7, <2>1, <2>2, StepIInv DEF Owns, IInv, TypeOK, Step
    <3>4. Adder' = t
      <4>1. \A u \in Threads : (Owns(u))' <=> u = t
        BY <2>1, <2>2, <3>1 DEF IInv, TypeOK, Owns
      <4>2. Adder' = IF \E u \in Threads : (Owns(u))'
                     THEN CHOOSE u \in Threads : (Owns(u))' ELSE None
        BY DEF Adder, Owns
      <4> QED
        BY <4>1, <4>2
    <3>5. Held' = Held
      BY <2>1 DEF Held
    <3>6. Pending' = Pending
      BY <2>1 DEF Pending, IInv, TypeOK
    <3> QED
      BY <2>1, <2>2, <3>2, <3>4, <3>5, <3>6, PendingIs DEF Map!Own
  <2>3. CASE call[t] # "UnsafeAdder"
    BY <2>1, <2>3, StutterMap DEF Pcs
  <2> QED
    BY <2>2, <2>3
<1>8. CASE Release(t)
  <2>1. /\ Owns(t) /\ pc' = [pc EXCEPT ![t] = "idle"]
        /\ UNCHANGED <<values, call, key, crashed>>
    BY <1>8 DEF Release, Owns, mapVars
  <2>2. Adder = t /\ Map!Returns(t)
    BY <2>1, AdderIs, ReturnIs DEF IInv, Owns
  <2>3. \A u \in Threads : ~(Owns(u))'
    BY <2>1 DEF IInv, TypeOK, Owns
  <2>4. Adder' = None
    BY <2>3 DEF Adder, Owns
  <2>5. Held' = Held
    BY <2>1 DEF Held
  <2> QED
    BY <2>1, <2>2, <2>4, <2>5 DEF Map!Release
<1>9. CASE Get(t)
  <2>1. /\ pc[t] = "read" /\ call[t] = "Get" /\ pc' = [pc EXCEPT ![t] = "idle"]
        /\ UNCHANGED <<values, call, key>> /\ crashed' \in {crashed, TRUE}
    BY <1>9 DEF Get, IInv, CallInv, mapVars
  <2>2. Map!Effect(t) /\ Map!Returns(t) /\ Adder' = Adder /\ Held' = Held
    BY <2>1, NoEffect, ReturnIs DEF Owns, Held
  <2> QED
    BY <2>1, <2>2, PendingIs DEF Map!Commit, Map!Die
<1>10. CASE ForEachBegin(t)
  <2>1. Held' = Held /\ Pending' = Pending /\ Adder' = Adder /\ crashed' = crashed
    BY <1>10 DEF ForEachBegin, Held, Pending, Adder, mapVars
  <2> QED
    BY <2>1 DEF Map!headerVars
<1>11. CASE ForEachEnd(t)
  <2>1. /\ pc[t] = "each" /\ call[t] = "ForEach" /\ pc' = [pc EXCEPT ![t] = "idle"]
        /\ UNCHANGED <<values, call, key, crashed>> /\ t \in rd
    BY <1>11 DEF ForEachEnd, IInv, CallInv, mapVars
  <2>2. Map!Effect(t) /\ Map!Returns(t) /\ Adder' = Adder /\ Adder = None
    BY <2>1, NoEffect, ReturnIs, NoAdder DEF Owns
  <2> QED
    BY <2>1, <2>2, PendingIs DEF Map!Commit
<1> QED
  BY <1>1, <1>2, <1>3, <1>4, <1>5, <1>6, <1>7, <1>8, <1>9, <1>10, <1>11 DEF Step

(* Set, Add, Modify and Del take effect on the whole map at one moment and  *)
(* an UnsafeAdder has the header for itself, for any number of goroutines.  *)
THEOREM MapRefined == Spec => ImplementsMap
<1>1. Init => Map!Init
  BY DEF Init, Map!Init, Held, Pending, Adder
<1>2. IInv /\ [Next]_vars => [Map!Next]_(Map!headerVars)
  <2> SUFFICES ASSUME IInv, [Next]_vars PROVE Map!Next \/ UNCHANGED Map!headerVars
    OBVIOUS
  <2>1. ASSUME NEW t \in Threads, Begin(t) \/ UnsafeAdd(t) \/ Step(t)
        PROVE  Map!Next \/ UNCHANGED Map!headerVars
    BY <2>1, StepMap
  <2>2. CASE Done \/ UNCHANGED vars
    BY <2>2 DEF Done, vars, Map!headerVars, Held, Pending, Adder
  <2> QED
    BY <2>1, <2>2 DEF Next
<1> QED
  BY <1>1, <1>2, HeaderIInv, PTL DEF Spec, ImplementsMap, Map!Spec
==============================================================================
