----------------------------- MODULE HeaderStore -----------------------------
(* header.Header (src/http/header/header.go): a map from keys to locked      *)
(* slices of values, shared by goroutines.  KeyModLock is an RWMutex over    *)
(* the set of keys: a goroutine that finds its key works under the read      *)
(* lock, one that does not takes the write lock and looks again.             *)
(*                                                                           *)
(* A LockedSlice is known by the generation of its key, so that an update of *)
(* a slice no longer in the map shows.  The slice's own lock guards single   *)
(* assignments and is part of their steps.  A value is known by the          *)
(* goroutine that stored it; it is "raw", or "given" when a callback of       *)
(* Modify stored it, until the values processor of the standard server       *)
(* (LowerCaseAll) has been over it.                                          *)
(* Processor.Lock is only ever taken for reading and is left out.            *)
EXTENDS Integers, Sequences

CONSTANTS
  Threads,  \* goroutines that use the header
  Keys,     \* raw header keys
  Absent,   \* a key that is not in the map
  None,     \* no goroutine
  Calls,    \* which methods the goroutines call
  MaxLen,   \* bound: values given in one call, or added by an UnsafeAdder
  MaxCalls  \* bound: calls made by one goroutine

Methods == {"Set", "Add", "Del", "Modify", "Get", "ForEach", "UnsafeAdder"}

ASSUME HeaderAssumption ==
  /\ Calls \subseteq Methods /\ None \notin Threads
  /\ MaxLen \in Nat /\ MaxCalls \in Nat

VARIABLES
  values,   \* Header.Values: per key Absent or a slice with its generation
  gen,      \* how many slices each key has had
  rd, wr,   \* Header.KeyModLock
  pc, call, key, ref, calls,  \* each goroutine: its place, call, key, slice found
  crashed   \* a processor was given the index -1, or a read of the map met a write

vars == <<values, gen, rd, wr, pc, call, key, ref, calls, crashed>>
mapVars == <<values, gen>>

Values == [by : Threads, form : {"raw", "given", "lower"}]
Slices == [gen : Nat, vals : Seq(Values)]
Pcs == {"idle", "find", "update", "wlock", "wwait", "wsec", "read", "each"}

(* The marks for what is not there are none of the things they stand for.   *)
ASSUME MarksAssumption ==
  /\ Absent \notin Slices /\ Absent \notin Seq(Threads)
  /\ None \notin [call : Methods, key : Keys]

TypeOK ==
  /\ values \in [Keys -> Slices \cup {Absent}]
  /\ gen \in [Keys -> Nat]
  /\ rd \subseteq Threads /\ wr \in Threads \cup {None}
  /\ \A t \in Threads : pc[t] \in {"wwait", "wsec"} <=> wr = t
  /\ pc \in [Threads -> Pcs]
  /\ call \in [Threads -> Methods] /\ key \in [Threads -> Keys]
  /\ ref \in [Threads -> Nat] /\ calls \in [Threads -> 0..MaxCalls]
  /\ crashed \in BOOLEAN

Init ==
  /\ values = [k \in Keys |-> Absent]
  /\ gen = [k \in Keys |-> 0]
  /\ rd = {} /\ wr = None
  /\ pc = [t \in Threads |-> "idle"]
  /\ call = [t \in Threads |-> "Get"]
  /\ key \in [Threads -> Keys]
  /\ ref = [t \in Threads |-> 0]
  /\ calls = [t \in Threads |-> 0]
  /\ crashed = FALSE

(* A panic, or a fatal error of the runtime, ends the process.              *)
At(t, l) == pc[t] = l /\ ~crashed
Goto(t, l) == pc' = [pc EXCEPT ![t] = l]

------------------------------------------------------------------------------
(* What the calls do to the values.                                         *)

(* ProcessValues over the values a+1 to b: LowerCaseAll on values[a:b].     *)
ProcessValues(vs, a, b) ==
  [i \in DOMAIN vs |-> IF a < i /\ i <= b THEN [vs[i] EXCEPT !.form = "lower"] ELSE vs[i]]

(* n values of a caller, and n values that its callback returns.            *)
Raw(t, n) == [i \in 1..n |-> [by |-> t, form |-> "raw"]]
Given(t, n) == [i \in 1..n |-> [by |-> t, form |-> "given"]]

(* SetValues: all the given values, processed.                              *)
Assigned(t, n) == ProcessValues(Raw(t, n), 0, n)

(* Mutation: a value added to a slice is not processed, nor the one before. *)
AddedUnprocessed(t, vs) == vs \o Raw(t, 1)

(* AddRawKey to a slice: the range is taken from the length before append.  *)
Added(t, vs) == ProcessValues(vs \o Raw(t, 1), Len(vs) - 1, Len(vs))

(* What a call may leave under a key that was absent, and in a slice with   *)
(* the values vs.  Modify stores what its callback returns, unprocessed,    *)
(* unless that is an error.                                                 *)
Created(t) ==
  CASE call[t] = "Set"    -> {Assigned(t, n) : n \in 0..MaxLen}
    [] call[t] = "Modify" -> {Given(t, n) : n \in 0..MaxLen}
    [] OTHER              -> {Assigned(t, 1)}

Updated(t, vs) ==
  CASE call[t] = "Set"    -> {Assigned(t, n) : n \in 0..MaxLen}
    [] call[t] = "Modify" -> {Given(t, n) : n \in 0..MaxLen} \union {vs}
    [] OTHER              -> {Added(t, vs)}

(* The first index LowerCaseAll touches is -1 when the slice is empty.      *)
Panics(c, vs) == c \in {"Add", "UnsafeAdder"} /\ vs = <<>>

------------------------------------------------------------------------------
(* The goroutines.                                                          *)

Begin(t) ==
  /\ At(t, "idle")
  /\ calls[t] < MaxCalls
  /\ calls' = [calls EXCEPT ![t] = @ + 1]
  /\ \E c \in Calls, k \in Keys :
       /\ call' = [call EXCEPT ![t] = c]
       /\ key' = [key EXCEPT ![t] = k]
       /\ Goto(t, CASE c = "Get" -> "read" [] c = "ForEach" -> "each"
                    [] c = "UnsafeAdder" -> "wlock" [] OTHER -> "find")
  /\ UNCHANGED <<mapVars, rd, wr, ref, crashed>>

(* Mutation: the read lock is released before the slice is updated.         *)
FindReleases(t) ==
  /\ At(t, "find")
  /\ wr = None
  /\ \/ /\ values[key[t]] # Absent /\ call[t] # "Del"
        /\ ref' = [ref EXCEPT ![t] = values[key[t]].gen]
        /\ Goto(t, "update")
     \/ /\ (values[key[t]] = Absent) # (call[t] = "Del")
        /\ Goto(t, "wlock")
        /\ UNCHANGED ref
     \/ /\ values[key[t]] = Absent /\ call[t] = "Del"
        /\ Goto(t, "idle")
        /\ UNCHANGED ref
  /\ UNCHANGED <<mapVars, rd, wr, call, key, calls, crashed>>

(* Mutation: the write lock is wanted while the read lock is still held.    *)
FindUpgrades(t) ==
  /\ At(t, "find")
  /\ wr = None
  /\ rd' = rd \cup {t}
  /\ Goto(t, IF values[key[t]] # Absent /\ call[t] # "Del" THEN "update" ELSE "wlock")
  /\ ref' = [ref EXCEPT ![t] = gen[key[t]]]
  /\ UNCHANGED <<mapVars, wr, call, key, calls, crashed>>

(* RLock and the first lookup of SetValuesRaw, AddRawKey, ModifyRawKey and  *)
(* DelRawKey.  A slice that is there is used under the read lock; to add or *)
(* to delete a key the lock is exchanged for the write lock; deleting a key *)
(* that is not there is done.                                               *)
Find(t) ==
  /\ At(t, "find")
  /\ wr = None
  /\ \/ /\ values[key[t]] # Absent /\ call[t] # "Del"
        /\ ref' = [ref EXCEPT ![t] = values[key[t]].gen]
        /\ rd' = rd \cup {t}
        /\ Goto(t, "update")
     \/ /\ (values[key[t]] = Absent) # (call[t] = "Del")
        /\ Goto(t, "wlock")
        /\ UNCHANGED <<rd, ref>>
     \/ /\ values[key[t]] = Absent /\ call[t] = "Del"
        /\ Goto(t, "idle")
        /\ UNCHANGED <<rd, ref>>
  /\ UNCHANGED <<mapVars, wr, call, key, calls, crashed>>

(* A slice is changed under its own lock.                                   *)
ChangeSlice(t) ==
  LET k == key[t]
      vs == values[k].vals
  IN  \/ /\ Panics(call[t], vs)
         /\ crashed' = TRUE
         /\ UNCHANGED values
      \/ /\ ~Panics(call[t], vs)
         /\ \E ws \in Updated(t, vs) : values' = [values EXCEPT ![k].vals = ws]
         /\ UNCHANGED crashed

(* The slice found is changed and the read lock released; an update of a    *)
(* slice that has left the map shows nowhere.                               *)
Update(t) ==
  LET live == values[key[t]] # Absent /\ values[key[t]].gen = ref[t]
  IN  /\ At(t, "update")
      /\ rd' = rd \ {t}
      /\ Goto(t, "idle")
      /\ IF live THEN ChangeSlice(t) ELSE UNCHANGED <<values, crashed>>
      /\ UNCHANGED <<gen, wr, call, key, ref, calls>>

(* KeyModLock.Lock, which also waits for the readers it found.              *)
LockAnnounce(t) ==
  /\ At(t, "wlock")
  /\ wr = None
  /\ wr' = t
  /\ Goto(t, "wwait")
  /\ UNCHANGED <<mapVars, rd, call, key, ref, calls, crashed>>

LockAcquire(t) ==
  /\ At(t, "wwait")
  /\ rd = {}
  /\ Goto(t, "wsec")
  /\ UNCHANGED <<mapVars, rd, wr, call, key, ref, calls, crashed>>

Create(k, vs) ==
  /\ gen' = [gen EXCEPT ![k] = @ + 1]
  /\ values' = [values EXCEPT ![k] = [gen |-> gen'[k], vals |-> vs]]

(* The second lookup, under the write lock, of Set, Add and Modify: the key *)
(* is created, or the slice that has appeared meanwhile is used.            *)
CreateOrUpdate(t) ==
  \/ /\ values[key[t]] = Absent
     /\ \/ \E vs \in Created(t) : Create(key[t], vs)
        \/ call[t] = "Modify" /\ UNCHANGED mapVars  \* the callback fails
     /\ UNCHANGED crashed
  \/ /\ values[key[t]] # Absent
     /\ ChangeSlice(t)
     /\ UNCHANGED gen

(* DelRawKey looks again too: only one of two deleters reports success.     *)
Delete(t) ==
  /\ values' = [values EXCEPT ![key[t]] = Absent]
  /\ UNCHANGED <<gen, crashed>>

(* The section under the write lock of the other methods, up to its Unlock. *)
WriteSection(t) ==
  /\ At(t, "wsec")
  /\ call[t] # "UnsafeAdder"
  /\ IF call[t] = "Del" THEN Delete(t) ELSE CreateOrUpdate(t)
  /\ wr' = None
  /\ Goto(t, "idle")
  /\ UNCHANGED <<rd, call, key, ref, calls>>

(* An UnsafeAdder keeps the write lock over any number of Adds, to any keys,*)
UnsafeAdd(t) ==
  /\ At(t, "wsec")
  /\ call[t] = "UnsafeAdder"
  /\ values[key[t]] # Absent => Len(values[key[t]].vals) < MaxLen
  /\ CreateOrUpdate(t)
  /\ \E k \in Keys : key' = [key EXCEPT ![t] = k]
  /\ UNCHANGED <<rd, wr, pc, call, ref, calls>>

(* ... until it is released.                                                *)
Release(t) ==
  /\ At(t, "wsec")
  /\ call[t] = "UnsafeAdder"
  /\ wr' = None
  /\ Goto(t, "idle")
  /\ UNCHANGED <<mapVars, rd, call, key, ref, calls, crashed>>

(* GetValuesRawKey looks the key up without KeyModLock: with a goroutine in *)
(* the write section that is a data race, which the runtime may answer with *)
(* "concurrent map read and map write".                                     *)
Get(t) ==
  /\ At(t, "read")
  /\ \/ UNCHANGED crashed
     \/ (\E u \in Threads : pc[u] = "wsec") /\ crashed' = TRUE
  /\ Goto(t, "idle")
  /\ UNCHANGED <<mapVars, rd, wr, call, key, ref, calls>>

(* ForEach holds the read lock over all its callbacks.                      *)
ForEachBegin(t) ==
  /\ At(t, "each") /\ t \notin rd
  /\ wr = None
  /\ rd' = rd \cup {t}
  /\ UNCHANGED <<mapVars, wr, pc, call, key, ref, calls, crashed>>

ForEachEnd(t) ==
  /\ At(t, "each") /\ t \in rd
  /\ rd' = rd \ {t}
  /\ Goto(t, "idle")
  /\ UNCHANGED <<mapVars, wr, call, key, ref, calls, crashed>>

Step(t) == \/ Find(t) \/ Update(t) \/ LockAnnounce(t) \/ LockAcquire(t)
           \/ WriteSection(t) \/ Release(t) \/ Get(t) \/ ForEachBegin(t) \/ ForEachEnd(t)

Done == /\ crashed \/ \A t \in Threads : pc[t] = "idle" /\ calls[t] = MaxCalls
        /\ UNCHANGED vars

Next == (\E t \in Threads : Begin(t) \/ UnsafeAdd(t) \/ Step(t)) \/ Done

Spec == Init /\ [][Next]_vars

(* Goroutines run, callbacks return and an UnsafeAdder is released; nothing *)
(* makes a goroutine call.                                                  *)
FairSpec == Spec /\ \A t \in Threads : WF_vars(Step(t))

------------------------------------------------------------------------------
(* Properties.                                                              *)

(* Although the read lock is given up before the write lock is taken, and   *)
(* slices are changed under the read lock only, every Set, Add, Modify and  *)
(* Del takes effect on the whole map at one moment: no update goes to a     *)
(* slice that was deleted, no slice replaces another one with the values    *)
(* added to it meanwhile, and an UnsafeAdder has the header for itself.     *)
Held == [k \in Keys |-> IF values[k] = Absent THEN Absent
                        ELSE [i \in DOMAIN values[k].vals |-> values[k].vals[i].by]]
Pending == [t \in Threads |-> IF pc[t] = "idle" THEN None
                              ELSE [call |-> call[t], key |-> key[t]]]
Adder ==
  LET Owns(t) == pc[t] = "wsec" /\ call[t] = "UnsafeAdder"
  IN  IF \E t \in Threads : Owns(t) THEN CHOOSE t \in Threads : Owns(t) ELSE None
Map == INSTANCE HeaderMap
         WITH held <- Held, pending <- Pending, adder <- Adder, dead <- crashed
ImplementsMap == Map!Spec

(* ValuesProcessors "will be called in sequence when values are modified":  *)
(* AddRawKey computes their range from the length before the append, so a   *)
(* value it adds waits for the next one.  Whatever the calls and their      *)
(* order, the last value of a key is the only one given to Set or Add that  *)
(* the processors have not seen.                                            *)
OnlyLastUnprocessed ==
  \A k \in Keys : values[k] # Absent =>
    \A i \in DOMAIN values[k].vals :
      values[k].vals[i].form = "raw" => i = Len(values[k].vals)

(* Every call returns, unless the process dies: the exchange of the read     *)
(* lock for the write lock cannot block for ever.                           *)
CallsReturn == \A t \in Threads : (pc[t] # "idle") ~> (pc[t] = "idle" \/ crashed)
==============================================================================
