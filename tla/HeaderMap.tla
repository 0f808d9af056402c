------------------------------ MODULE HeaderMap ------------------------------
(* What header.Header promises the goroutines that share it, with no locks:  *)
(* a map from keys to lists of values in which every call takes effect at    *)
(* one moment between its start and its return, and whose state nobody else  *)
(* changes while an UnsafeAdder is held.  A value is known by the goroutine  *)
(* that stored it.                                                           *)
EXTENDS Naturals, Sequences

CONSTANTS Threads, Keys, Absent, None, MaxLen

VARIABLES
  held,     \* the values of each key, or Absent
  pending,  \* the call each goroutine is in and its key, or None
  adder,    \* the goroutine that holds an UnsafeAdder, or None
  dead      \* the process has died

headerVars == <<held, pending, adder, dead>>

Init ==
  /\ held = [k \in Keys |-> Absent]
  /\ pending = [t \in Threads |-> None]
  /\ adder = None /\ dead = FALSE

Begin(t) ==
  /\ pending[t] = None
  /\ pending'[t] # None
  /\ pending' = [pending EXCEPT ![t] = pending'[t]]
  /\ UNCHANGED <<held, adder, dead>>

Mine(t) == {[i \in 1..n |-> t] : n \in 0..MaxLen}

(* The values a call leaves under its key.                                  *)
After(t) ==
  LET vs == held[pending[t].key]
  IN  CASE pending[t].call = "Set"    -> Mine(t)
        [] pending[t].call = "Modify" -> Mine(t) \union {vs}
        [] pending[t].call = "Del"    -> {Absent}
        [] pending[t].call \in {"Add", "UnsafeAdder"} ->
             {IF vs = Absent THEN <<t>> ELSE Append(vs, t)}
        [] OTHER                      -> {vs}

Effect(t) == \E vs \in After(t) : held' = [held EXCEPT ![pending[t].key] = vs]

Returns(t) == pending' = [pending EXCEPT ![t] = None]

(* A call takes effect and returns; those that only read need not wait for  *)
(* the holder of an UnsafeAdder.                                            *)
Commit(t) ==
  /\ pending[t] # None /\ pending[t].call # "UnsafeAdder"
  /\ pending[t].call # "Get" => adder = None
  /\ Effect(t) /\ Returns(t)
  /\ UNCHANGED <<adder, dead>>

Own(t) ==
  /\ pending[t] # None /\ pending[t].call = "UnsafeAdder"
  /\ adder = None
  /\ adder' = t
  /\ UNCHANGED <<held, pending, dead>>

AddOwned(t) ==
  /\ adder = t
  /\ Effect(t)
  /\ \E k \in Keys : pending' = [pending EXCEPT ![t].key = k]
  /\ UNCHANGED <<adder, dead>>

Release(t) ==
  /\ adder = t
  /\ adder' = None
  /\ Returns(t)
  /\ UNCHANGED <<held, dead>>

(* A value cannot be added to an empty list, and a lookup that takes no     *)
(* lock cannot overlap a change of the map.                                 *)
Die(t) ==
  /\ pending[t] # None
  /\ \/ pending[t].call \in {"Add", "UnsafeAdder"} /\ held[pending[t].key] = <<>>
     \/ pending[t].call = "Get"
  /\ dead' = TRUE
  /\ UNCHANGED held

Next ==
  /\ ~dead
  /\ \E t \in Threads :
       Begin(t) \/ Commit(t) \/ Own(t) \/ AddOwned(t) \/ Release(t) \/ Die(t)

Spec == Init /\ [][Next]_headerVars
==============================================================================
