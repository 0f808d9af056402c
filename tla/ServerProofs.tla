---------------------------- MODULE ServerProofs -----------------------------
(* Proofs about jps.Server: its lifecycle, for any finite set of streams and *)
(* sessions, any controllers and any number of calls, and its handler lists, *)
(* for any stages, priorities, protocols and dispatchers.                    *)
EXTENDS JpsServer, HandlerList, FiniteSetTheorems, WellFoundedInduction, TLAPS

------------------------------------------------------------------------------
(* The lifecycle.                                                           *)

(* The goroutines that hold stateLock as readers are those the code has put *)
(* between RLock and RUnlock, and the pending writer is at its Lock.        *)
StateLockInv ==
  /\ rd = {t \in Threads : pc[t] \in Reading}
  /\ \A t \in Threads : pc[t] \in Pending <=> writer = t

(* connectionsLock is held exactly between a load and its store, so the     *)
(* value loaded is still current when it is stored.                         *)
CountLockInv ==
  /\ \A c \in Conns : pc[c] \in Counting <=> connLock = c
  /\ \A c \in Conns : pc[c] \in Counting => tmp[c] = connections

InsertsWhileClosed == \A c \in Controllers : pc[c] = "insert" => state = "Closed"

InFlight == {c \in Conns : pc[c] \in Registered}

(* Everything but the count, and the whole inductive invariant.             *)
LockInv == /\ TypeOK
           /\ StateLockInv
           /\ CountLockInv
           /\ OpenWhileRegistering
           /\ InsertsWhileClosed
IInv == LockInv /\ ConnectionsCounted

LEMMA InitIInv == Init => IInv
<1> SUFFICES ASSUME Init PROVE IInv
  OBVIOUS
<1> USE ThreadsAssumption, ConfigAssumption
<1>1. TypeOK
  BY DEF Init, TypeOK, Threads, States, ConnPcs, ControllerPcs, Ops, Fates
<1>2. StateLockInv /\ CountLockInv /\ OpenWhileRegistering /\ InsertsWhileClosed
  BY DEF Init, StateLockInv, CountLockInv, OpenWhileRegistering,
         InsertsWhileClosed, Threads, Conns, Reading, Pending, Counting
<1>3. {c \in Conns : pc[c] \in Registered} = {}
  BY DEF Init, Registered, Threads
<1>4. ConnectionsCounted
  BY <1>3, FS_EmptySet DEF Init, ConnectionsCounted
<1> QED
  BY <1>1, <1>2, <1>4 DEF IInv, LockInv

(* A step that leaves the counter and the registered goroutines alone       *)
(* leaves the count right.                                                  *)
LEMMA CountUnchanged ==
  ASSUME ConnectionsCounted, UNCHANGED connections, InFlight' = InFlight
  PROVE  ConnectionsCounted'
BY DEF ConnectionsCounted, InFlight

(* The registered goroutines are finitely many.                             *)
LEMMA InFlightFinite ==
  /\ IsFiniteSet(InFlight)
  /\ Cardinality(InFlight) \in Nat
BY ThreadsAssumption, FS_Subset, FS_CardinalityType DEF InFlight

(* A goroutine that moves within the registered part of the code, or        *)
(* outside it, does not change who is registered.                           *)
LEMMA InFlightSame ==
  ASSUME TypeOK, NEW t \in Threads, NEW l, Goto(t, l),
         t \in Conns => (pc[t] \in Registered <=> l \in Registered)
  PROVE  InFlight' = InFlight
BY DEF TypeOK, Goto, InFlight, Threads

(* Every action keeps the locks, the loaded values and the state tests      *)
(* consistent.  The decrement needs to know that the counter is not zero.   *)
LEMMA ConnLockInv ==
  ASSUME LockInv, NEW c \in Conns, ConnStep(c),
         pc[c] = "dereg_dec" => connections > 0
  PROVE  LockInv'
<1> USE ThreadsAssumption, ConfigAssumption
    DEF LockInv, TypeOK, StateLockInv, CountLockInv, OpenWhileRegistering,
        InsertsWhileClosed, Goto, CanRLock, RLock, RUnlock, LockAnnounce,
        LockAcquired, Unlock, LoadCount, StoreCount, lockVars, ctlVars,
        Threads, States, Reading, Pending, Counting, ConnPcs, ControllerPcs,
        Fates, Ops
<1>1. CASE Start(c)
  BY <1>1 DEF Start
<1>2. CASE Refuse(c)
  BY <1>2 DEF Refuse
<1>3. CASE Dispose(c)
  BY <1>3 DEF Dispose
<1>4. CASE Admit(c)
  BY <1>4 DEF Admit
<1>5. CASE IncLock(c)
  BY <1>5 DEF IncLock
<1>6. CASE Increment(c)
  BY <1>6 DEF Increment
<1>7. CASE Registration(c)
  BY <1>7 DEF Registration
<1>8. CASE HandlerReturns(c)
  BY <1>8 DEF HandlerReturns, Conns
<1>9. CASE SessionHandlersReturn(c)
  BY <1>9 DEF SessionHandlersReturn, Conns
<1>10. CASE \E st \in Streams : FallbackAccept(c, st)
  BY <1>10 DEF FallbackAccept, Conns
<1>11. CASE FallbackEnds(c)
  BY <1>11 DEF FallbackEnds, Conns
<1>12. CASE DecLock(c)
  BY <1>12 DEF DecLock
<1>13. CASE Decrement(c)
  BY <1>13 DEF Decrement
<1>14. CASE ReadCount(c)
  BY <1>14 DEF ReadCount
<1>15. CASE CheckClosing(c)
  BY <1>15 DEF CheckClosing
<1>16. CASE LockForClosed(c)
  BY <1>16 DEF LockForClosed
<1>17. CASE ChangeStateIf(c)
  BY <1>17 DEF ChangeStateIf
<1> QED
  BY <1>1, <1>2, <1>3, <1>4, <1>5, <1>6, <1>7, <1>8, <1>9, <1>10, <1>11, <1>12, <1>13, <1>14, <1>15, <1>16, <1>17 DEF ConnStep

LEMMA ControllerLockInv ==
  ASSUME LockInv, NEW c \in Controllers, ControllerStep(c)
  PROVE  LockInv'
<1> USE ThreadsAssumption, ConfigAssumption
    DEF LockInv, TypeOK, StateLockInv, CountLockInv, OpenWhileRegistering,
        InsertsWhileClosed, Goto, CanRLock, RLock, RUnlock, LockAnnounce,
        LockAcquired, Unlock, lockVars, ctlVars, Threads, States, Reading,
        Pending, Counting, ConnPcs, ControllerPcs, Fates, Ops
<1>1. CASE Call(c)
  BY <1>1 DEF Call
<1>2. CASE LockForChange(c)
  BY <1>2 DEF LockForChange
<1>3. CASE ChangeState(c)
  BY <1>3 DEF ChangeState
<1>4. CASE WaitForState(c)
  BY <1>4 DEF WaitForState
<1>5. CASE AddHandler(c)
  BY <1>5 DEF AddHandler
<1>6. CASE Insert(c)
  BY <1>6 DEF Insert
<1> QED
  BY <1>1, <1>2, <1>3, <1>4, <1>5, <1>6 DEF ControllerStep

(* The goroutine about to decrement is one of those counted.                *)
LEMMA CountPositive ==
  ASSUME IInv, NEW c \in Conns, pc[c] = "dereg_dec"
  PROVE  connections > 0
<1>1. c \in InFlight
  BY DEF InFlight, Registered
<1>2. Cardinality(InFlight) # 0
  BY <1>1, InFlightFinite, FS_EmptySet
<1> QED
  BY <1>2, InFlightFinite DEF IInv, ConnectionsCounted, InFlight

(* The increment adds its goroutine to the registered ones, the decrement   *)
(* removes it, and no other step of a stream or session changes either side.*)
LEMMA ConnCount ==
  ASSUME IInv, NEW c \in Conns, ConnStep(c)
  PROVE  ConnectionsCounted'
<1> USE DEF IInv, LockInv
<1>t. c \in Threads /\ TypeOK
  BY DEF Threads
<1>1. CASE Increment(c)
  <2>1. InFlight' = InFlight \cup {c} /\ c \notin InFlight
    BY <1>1, <1>t DEF Increment, StoreCount, Goto, InFlight, TypeOK, Registered
  <2>2. connections' = connections + 1
    BY <1>1 DEF Increment, StoreCount, CountLockInv, Counting
  <2>3. Cardinality(InFlight') = Cardinality(InFlight) + 1
    BY <2>1, InFlightFinite, FS_AddElement
  <2> QED
    BY <2>2, <2>3 DEF ConnectionsCounted, InFlight
<1>2. CASE Decrement(c)
  <2>1. InFlight' = InFlight \ {c} /\ c \in InFlight
    BY <1>2, <1>t DEF Decrement, StoreCount, Goto, InFlight, TypeOK, Registered
  <2>2. connections' = connections - 1
    BY <1>2 DEF Decrement, StoreCount, CountLockInv, Counting, TypeOK
  <2>3. Cardinality(InFlight') = Cardinality(InFlight) - 1
    BY <2>1, InFlightFinite, FS_RemoveElement
  <2> QED
    BY <2>2, <2>3 DEF ConnectionsCounted, InFlight
<1>3. CASE ~Increment(c) /\ ~Decrement(c)
  <2>1. UNCHANGED connections
    BY <1>3 DEF ConnStep, Start, Refuse, Dispose, Admit, IncLock, Registration,
       HandlerReturns, SessionHandlersReturn, FallbackAccept, FallbackEnds,
       DecLock, ReadCount, CheckClosing, LockForClosed, ChangeStateIf, LoadCount
  <2>2. InFlight' = InFlight
    <3>1. CASE \E st \in Streams : FallbackAccept(c, st)
      BY <3>1, <1>t, InFlightSame
         DEF FallbackAccept, Registered, Threads, Conns
    <3>2. CASE ~ \E st \in Streams : FallbackAccept(c, st)
      <4>1. PICK l : /\ Goto(c, l)
                     /\ pc[c] \in Registered <=> l \in Registered
        BY <3>2, <1>3, <1>t
           DEF ConnStep, Start, Refuse, Dispose, Admit, IncLock, Registration,
               HandlerReturns, SessionHandlersReturn, FallbackEnds,
               DecLock, ReadCount, CheckClosing, LockForClosed, ChangeStateIf,
               LoadCount, Registered
      <4> QED
        BY <4>1, <1>t, InFlightSame
    <3> QED
      BY <3>1, <3>2
  <2> QED
    BY <2>1, <2>2, CountUnchanged
<1> QED
  BY <1>1, <1>2, <1>3

(* No step of a controller touches the count.                               *)
LEMMA ControllerCount ==
  ASSUME IInv, NEW c \in Controllers, ControllerStep(c)
  PROVE  ConnectionsCounted'
<1>1. UNCHANGED connections
  BY DEF ControllerStep, Call, LockForChange, ChangeState, WaitForState,
         AddHandler, Insert
<1>2. \A k \in Conns : pc'[k] = pc[k]
  BY ThreadsAssumption
     DEF IInv, LockInv, TypeOK, Threads, ControllerStep, Call, LockForChange,
         ChangeState, WaitForState, AddHandler, Insert, Goto
<1>3. InFlight' = InFlight
  BY <1>2 DEF InFlight
<1> QED
  BY <1>1, <1>3, CountUnchanged DEF IInv

LEMMA NextIInv == IInv /\ [Next]_vars => IInv'
<1> SUFFICES ASSUME IInv, [Next]_vars PROVE IInv'
  OBVIOUS
<1>1. CASE \E c \in Conns : ConnStep(c)
  <2>1. PICK c \in Conns : ConnStep(c)
    BY <1>1
  <2>2. LockInv'
    BY <2>1, ConnLockInv, CountPositive DEF IInv
  <2>3. ConnectionsCounted'
    BY <2>1, ConnCount
  <2> QED
    BY <2>2, <2>3 DEF IInv
<1>2. CASE \E c \in Controllers : ControllerStep(c)
  <2>1. PICK c \in Controllers : ControllerStep(c)
    BY <1>2
  <2>2. LockInv'
    BY <2>1, ControllerLockInv DEF IInv
  <2>3. ConnectionsCounted'
    BY <2>1, ControllerCount
  <2> QED
    BY <2>2, <2>3 DEF IInv
<1>3. CASE UNCHANGED vars
  BY <1>3 DEF vars, IInv, LockInv, TypeOK, StateLockInv, CountLockInv,
              OpenWhileRegistering, InsertsWhileClosed, ConnectionsCounted
<1> QED
  BY <1>1, <1>2, <1>3 DEF Next, Quiescent

(* The inductive invariant holds in every reachable state of the server.    *)
THEOREM ServerInvariant == Spec => []IInv
BY InitIInv, NextIInv, PTL DEF Spec

(* Type correctness; in particular Server.connections, a uint64 in the code,*)
(* is never decremented below zero.                                         *)
THEOREM ServerTypeOK == Spec => []TypeOK
<1>1. IInv => TypeOK
  BY DEF IInv, LockInv
<1> QED
  BY <1>1, ServerInvariant, PTL

(* Server.connections always counts the goroutines between registration and *)
(* deregistration, for any number of streams, sessions and controllers.     *)
THEOREM ServerCountsConnections == Spec => []ConnectionsCounted
<1>1. IInv => ConnectionsCounted
  BY DEF IInv
<1> QED
  BY <1>1, ServerInvariant, PTL

(* The server cannot leave StateOpen under a connection that is being       *)
(* registered.                                                              *)
THEOREM ServerOpenWhileRegistering == Spec => []OpenWhileRegistering
<1>1. IInv => OpenWhileRegistering
  BY DEF IInv, LockInv
<1> QED
  BY <1>1, ServerInvariant, PTL

(* The handler lists change only while the server is closed: the inserting  *)
(* goroutine still holds the read lock under which it saw StateClosed.      *)
THEOREM ServerHandlersOnlyWhenClosed == Spec => HandlersOnlyWhenClosed
<1>1. IInv /\ [Next]_vars
        => [handlers' # handlers => state = "Closed" /\ state' = "Closed"]_vars
  <2> SUFFICES ASSUME IInv, Next, handlers' # handlers
               PROVE  state = "Closed" /\ state' = "Closed"
    BY DEF vars
  <2>1. \E c \in Controllers : Insert(c)
    BY DEF Next, ConnStep, Start, Refuse, Dispose, Admit, IncLock, Increment,
       Registration, HandlerReturns, SessionHandlersReturn, FallbackAccept,
       FallbackEnds, DecLock, Decrement, ReadCount, CheckClosing, LockForClosed,
       ChangeStateIf, LoadCount, StoreCount, ctlVars, ControllerStep, Call,
       LockForChange, ChangeState, WaitForState, AddHandler, Quiescent, vars
  <2> QED
    BY <2>1 DEF Insert, IInv, LockInv, InsertsWhileClosed
<1> QED
  BY <1>1, ServerInvariant, PTL DEF Spec, HandlersOnlyWhenClosed

(* Seen through state and connections, every step of every goroutine is a   *)
(* step of the abstract lifecycle or changes neither.                       *)
THEOREM ServerImplementsLifecycle == Spec => ImplementsLifecycle
<1>1. Init => Lifecycle!Init
  BY DEF Init, Lifecycle!Init
<1>2. IInv /\ [Next]_vars => [Lifecycle!Next]_(Lifecycle!lifeVars)
  <2> SUFFICES ASSUME IInv, [Next]_vars
               PROVE  Lifecycle!Next \/ UNCHANGED <<state, connections>>
    BY DEF Lifecycle!lifeVars
  <2> USE DEF IInv, LockInv
  <2>1. ASSUME NEW c \in Conns, Increment(c) PROVE Lifecycle!Register
    BY <2>1 DEF Increment, StoreCount, CountLockInv, Counting,
                OpenWhileRegistering, Lifecycle!Register
  <2>2. ASSUME NEW c \in Conns, Decrement(c) PROVE Lifecycle!Deregister
    <3>1. connections > 0
      BY <2>2, CountPositive DEF Decrement, StoreCount
    <3> QED
      BY <2>2, <3>1 DEF Decrement, StoreCount, CountLockInv, Counting, TypeOK,
                        Lifecycle!Deregister
  <2>3. ASSUME NEW c \in Conns, ChangeStateIf(c)
        PROVE  Lifecycle!AutoClose \/ UNCHANGED <<state, connections>>
    BY <2>3 DEF ChangeStateIf, Lifecycle!AutoClose
  <2>4. ASSUME NEW c \in Controllers, ChangeState(c)
        PROVE  Lifecycle!Open \/ Lifecycle!Close
    BY <2>4 DEF ChangeState, Lifecycle!Open, Lifecycle!Close
  <2>5. \/ \E c \in Conns : Increment(c) \/ Decrement(c) \/ ChangeStateIf(c)
        \/ \E c \in Controllers : ChangeState(c)
        \/ UNCHANGED <<state, connections>>
    BY DEF Next, ConnStep, Start, Refuse, Dispose, Admit, IncLock, Registration,
       HandlerReturns, SessionHandlersReturn, FallbackAccept, FallbackEnds,
       DecLock, ReadCount, CheckClosing, LockForClosed, LoadCount,
       ControllerStep, Call, LockForChange, WaitForState, AddHandler, Insert,
       Quiescent, vars
  <2> QED
    BY <2>1, <2>2, <2>3, <2>4, <2>5 DEF Lifecycle!Next
<1> QED
  BY <1>1, <1>2, ServerInvariant, PTL DEF Spec, ImplementsLifecycle, Lifecycle!Spec

------------------------------------------------------------------------------
(* The handler lists.                                                       *)

(* A set of naturals that is not empty has a least element.                 *)
LEMMA LeastNatural ==
  ASSUME NEW S, S \subseteq Nat, S # {}
  PROVE  \E x \in S : \A y \in S : x <= y
<1> DEFINE Less == {ss \in Nat \X Nat : ss[1] < ss[2]}
<1>1. IsWellFoundedOn(Less, Nat)
  BY NatLessThanWellFounded DEF OpToRel
<1>2. PICK x \in S : \A y \in S : ~(<<y, x>> \in Less)
  BY <1>1, WFMin
<1>3. ASSUME NEW y \in S PROVE x <= y
  <2>1. y \in Nat /\ x \in Nat
    OBVIOUS
  <2>2. y < x => <<y, x>> \in Less
    BY <2>1
  <2> QED
    BY <2>1, <2>2, <1>2
<1> QED
  BY <1>3

(* insert's loop finds a place in every list: behind the items that the new *)
(* one does not go before, up to the first that it does.                    *)
LEMMA PlaceFound ==
  ASSUME NEW l \in Seq(Items), NEW j \in Items
  PROVE  /\ Place(l, j) \in 0..Len(l)
         /\ \A k \in 1..Place(l, j) : ~GoesBefore(j, l[k])
         /\ Place(l, j) < Len(l) => GoesBefore(j, l[Place(l, j) + 1])
<1> DEFINE S == {k \in 1..Len(l) : GoesBefore(j, l[k])}
           P(p) == /\ \A k \in 1..p : ~GoesBefore(j, l[k])
                   /\ p < Len(l) => GoesBefore(j, l[p + 1])
<1>1. \E p \in 0..Len(l) : P(p)
  <2>1. CASE S = {}
    <3>1. P(Len(l)) /\ Len(l) \in 0..Len(l)
      BY <2>1
    <3> QED
      BY <3>1
  <2>2. CASE S # {}
    <3>0. S \subseteq Nat
      OBVIOUS
    <3>1. PICK x \in S : \A y \in S : x <= y
      BY <2>2, <3>0, LeastNatural
    <3>2. x - 1 \in 0..Len(l) /\ (x - 1) + 1 = x
      BY <3>1
    <3>3. P(x - 1)
      BY <3>1, <3>2
    <3> QED
      BY <3>2, <3>3
  <2> QED
    BY <2>1, <2>2
<1>2. Place(l, j) = CHOOSE p \in 0..Len(l) : P(p)
  BY DEF Place
<1> HIDE DEF P
<1>3. Place(l, j) \in 0..Len(l) /\ P(Place(l, j))
  BY <1>1, <1>2
<1> QED
  BY <1>3 DEF P

(* The items of a list in which j was put behind the p-th.                  *)
LEMMA InsertAfterSeq ==
  ASSUME NEW l \in Seq(Items), NEW j \in Items, NEW p \in 0..Len(l)
  PROVE  /\ InsertAfter(l, p, j) \in Seq(Items)
         /\ Len(InsertAfter(l, p, j)) = Len(l) + 1
         /\ \A k \in 1..(Len(l) + 1) :
              InsertAfter(l, p, j)[k] = IF k <= p THEN l[k]
                                        ELSE IF k = p + 1 THEN j ELSE l[k - 1]
<1>0. Len(l) \in Nat /\ \A k \in 1..Len(l) : l[k] \in Items
  OBVIOUS
<1>1. ASSUME NEW k \in 1..(Len(l) + 1)
      PROVE  (IF k <= p THEN l[k] ELSE IF k = p + 1 THEN j ELSE l[k - 1]) \in Items
  <2>1. CASE k <= p
    BY <2>1, <1>0
  <2>2. CASE k = p + 1
    BY <2>2
  <2>3. CASE k > p + 1
    <3>1. k - 1 \in 1..Len(l)
      BY <2>3, <1>0
    <3> QED
      BY <3>1, <2>3, <1>0
  <2> QED
    BY <2>1, <2>2, <2>3, <1>0
<1>2. InsertAfter(l, p, j) \in [1..(Len(l) + 1) -> Items]
  BY <1>1 DEF InsertAfter
<1> QED
  BY <1>2 DEF InsertAfter

InOrder(l) == \A a, b \in 1..Len(l) : a < b => Before(l[a], l[b])

(* Inserting the youngest item at its place keeps a list in order.          *)
LEMMA InsertKeepsOrder ==
  ASSUME NEW l \in Seq(Items), InOrder(l), NEW j \in Items,
         \A k \in 1..Len(l) : l[k].id < j.id
  PROVE  InOrder(InsertAfter(l, Place(l, j), j))
<1> DEFINE p == Place(l, j)
           m == InsertAfter(l, p, j)
<1>1. /\ p \in 0..Len(l)
      /\ \A k \in 1..p : ~GoesBefore(j, l[k])
      /\ p < Len(l) => GoesBefore(j, l[p + 1])
  BY PlaceFound
<1>2. /\ Len(m) = Len(l) + 1
      /\ \A k \in 1..(Len(l) + 1) :
           m[k] = IF k <= p THEN l[k] ELSE IF k = p + 1 THEN j ELSE l[k - 1]
  BY <1>1, InsertAfterSeq
<1>t. /\ j.stage \in Nat /\ j.priority \in Nat /\ j.id \in Nat
      /\ \A k \in 1..Len(l) : /\ l[k].stage \in Nat
                              /\ l[k].priority \in Nat /\ l[k].id \in Nat
  <2>1. \A i \in Items : i.stage \in Nat /\ i.priority \in Nat /\ i.id \in Nat
    BY ListAssumption DEF Items
  <2>2. \A k \in 1..Len(l) : l[k] \in Items
    OBVIOUS
  <2> QED
    BY <2>1, <2>2
<1> HIDE DEF p, m
<1>3. \A k \in 1..Len(l) : k <= p => Before(l[k], j)
  BY <1>1, <1>t, SMTT(30) DEF GoesBefore, Before
<1>4. \A k \in 1..Len(l) : k > p => Before(j, l[k])
  <2> SUFFICES ASSUME NEW k \in 1..Len(l), k > p PROVE Before(j, l[k])
    OBVIOUS
  <2>1. p + 1 \in 1..Len(l) /\ GoesBefore(j, l[p + 1])
    BY <1>1
  <2>2. k = p + 1 \/ Before(l[p + 1], l[k])
    BY <2>1, <1>1 DEF InOrder
  <2> QED
    BY <2>1, <2>2, <1>t, SMTT(30) DEF GoesBefore, Before
<1>5. ASSUME NEW a \in 1..Len(m), NEW b \in 1..Len(m), a < b
      PROVE  Before(m[a], m[b])
  <2>0. /\ Len(l) \in Nat /\ p \in Nat /\ p <= Len(l)
        /\ a \in 1..(Len(l) + 1) /\ b \in 1..(Len(l) + 1)
    BY <1>1, <1>2, <1>5
  <2>1. CASE b <= p
    BY <2>1, <2>0, <1>2, <1>5 DEF InOrder
  <2>2. CASE b = p + 1
    BY <2>2, <2>0, <1>2, <1>3, <1>5
  <2>3. CASE b > p + 1 /\ a <= p
    <3>1. b - 1 \in 1..Len(l) /\ a \in 1..Len(l) /\ a < b - 1
      BY <2>3, <2>0, <1>5
    <3>2. m[a] = l[a] /\ m[b] = l[b - 1]
      BY <2>3, <2>0, <1>2
    <3> QED
      BY <3>1, <3>2 DEF InOrder
  <2>4. CASE b > p + 1 /\ a = p + 1
    <3>1. b - 1 \in 1..Len(l) /\ b - 1 > p
      BY <2>4, <2>0
    <3>2. m[a] = j /\ m[b] = l[b - 1]
      BY <2>4, <2>0, <1>2
    <3> QED
      BY <3>1, <3>2, <1>4
  <2>5. CASE b > p + 1 /\ a > p + 1
    <3>1. a - 1 \in 1..Len(l) /\ b - 1 \in 1..Len(l) /\ a - 1 < b - 1
      BY <2>5, <2>0, <1>5
    <3>2. m[a] = l[a - 1] /\ m[b] = l[b - 1]
      BY <2>5, <2>0, <1>2
    <3> QED
      BY <3>1, <3>2 DEF InOrder
  <2> QED
    BY <2>0, <2>1, <2>2, <2>3, <2>4, <2>5
<1>6. InOrder(m)
  BY <1>5 DEF InOrder
<1> QED
  BY <1>6 DEF m, p

(* The ids on the list are those of insertions that have been called, and   *)
(* the waiting item is younger than all of them.                            *)
YoungestWaits ==
  /\ \A k \in 1..Len(list) : list[k].id <= inserted
  /\ pending # NoItem =>
       /\ pending.id = inserted
       /\ \A k \in 1..Len(list) : list[k].id < inserted

ListIInv == ListTypeOK /\ YoungestWaits /\ ListInOrder

LEMMA InitListIInv == ListInit => ListIInv
BY ListAssumption DEF ListInit, ListIInv, ListTypeOK, YoungestWaits, ListInOrder

LEMMA CallInsertIInv == ASSUME ListIInv, CallInsert PROVE ListIInv'
<1> USE DEF ListIInv
<1>1. pending' \in Items /\ pending'.id = inserted' /\ inserted' \in 0..MaxItems
  BY ListAssumption DEF CallInsert, ListTypeOK, Items
<1>2. pending' # NoItem
  BY <1>1, NoItemAssumption
<1>3. ListTypeOK'
  BY <1>1 DEF CallInsert, ListTypeOK, walkVars
<1>4. \A k \in 1..Len(list) : list[k].id \in Nat
  <2>1. \A k \in 1..Len(list) : list[k] \in Items
    BY DEF ListTypeOK
  <2> QED
    BY <2>1 DEF Items
<1>5. YoungestWaits'
  BY <1>1, <1>4 DEF CallInsert, YoungestWaits, ListTypeOK
<1>6. ListInOrder'
  BY DEF CallInsert, ListInOrder
<1> QED
  BY <1>3, <1>5, <1>6

LEMMA InsertItemIInv == ASSUME ListIInv, InsertItem PROVE ListIInv'
<1> DEFINE p == Place(list, pending)
<1>1. list \in Seq(Items) /\ pending \in Items /\ inserted \in Nat
  BY DEF ListIInv, ListTypeOK, InsertItem
<1>2. p \in 0..Len(list)
  BY <1>1, PlaceFound
<1>3. list' = InsertAfter(list, p, pending)
  BY DEF InsertItem
<1>4. /\ list' \in Seq(Items)
      /\ Len(list') = Len(list) + 1
      /\ \A k \in 1..(Len(list) + 1) :
           list'[k] = IF k <= p THEN list[k]
                      ELSE IF k = p + 1 THEN pending ELSE list[k - 1]
  BY <1>1, <1>2, <1>3, InsertAfterSeq
<1>5. ListTypeOK'
  <2>1. \A d \in Dispatchers : pos[d] = 0
    BY DEF InsertItem, Walking
  <2> QED
    BY <1>1, <1>4, <2>1 DEF ListIInv, ListTypeOK, InsertItem, walkVars
<1>6. \A k \in 1..Len(list) : list[k].id <= inserted /\ list[k].id < pending.id
  BY DEF ListIInv, YoungestWaits, InsertItem
<1>7. YoungestWaits'
  <2>1. pending.id <= inserted
    BY <1>1 DEF ListIInv, YoungestWaits, InsertItem
  <2> HIDE DEF p
  <2>2. ASSUME NEW k \in 1..Len(list') PROVE list'[k].id <= inserted
    <3>1. k \in 1..(Len(list) + 1) /\ Len(list) \in Nat
      BY <1>1, <1>4, <2>2
    <3>2. CASE k <= p
      BY <3>1, <3>2, <1>2, <1>4, <1>6
    <3>3. CASE k = p + 1
      BY <3>1, <3>3, <1>2, <1>4, <2>1
    <3>4. CASE k > p + 1
      <4>1. k - 1 \in 1..Len(list) /\ list'[k] = list[k - 1]
        BY <3>1, <3>4, <1>2, <1>4
      <4> QED
        BY <4>1, <1>6
    <3> QED
      BY <3>1, <3>2, <3>3, <3>4, <1>2
  <2> QED
    BY <2>2 DEF InsertItem, YoungestWaits
<1>8. ListInOrder'
  <2>1. InOrder(list)
    BY DEF ListIInv, ListInOrder, InOrder
  <2>2. InOrder(list')
    BY <2>1, <1>1, <1>3, <1>6, InsertKeepsOrder
  <2> QED
    BY <2>2 DEF ListInOrder, InOrder
<1> QED
  BY <1>5, <1>7, <1>8 DEF ListIInv

(* A dispatcher changes nothing of the list and stays within it.            *)
LEMMA WalkIInv ==
  ASSUME ListIInv, NEW d \in Dispatchers, Handle(d) \/ CallExtra(d) \/ Skip(d) \/ CallHandler(d)
  PROVE  ListIInv'
<1>1. UNCHANGED <<list, inserted, pending>>
  BY DEF Handle, CallExtra, Skip, CallHandler
<1>2. ListTypeOK'
  <2> USE DEF ListIInv, ListTypeOK
  <2>1. CASE Handle(d)
    <3>1. list # <<>> => 1 <= Len(list)
      BY DEF ListTypeOK
    <3> QED
      BY <2>1, <3>1 DEF Handle
  <2>2. CASE CallExtra(d)
    <3>1. Append(called[d], 0) \in Seq(Nat)
      OBVIOUS
    <3>2. called' \in [Dispatchers -> Seq(Nat)]
      BY <2>2, <3>1 DEF CallExtra
    <3>3. passed' \in [Dispatchers -> BOOLEAN]
      BY <2>2, Zenon DEF CallExtra
    <3>4. pos' = pos \/ pos' = [pos EXCEPT ![d] = 0]
      BY <2>2, Zenon DEF CallExtra
    <3>5. /\ pos' \in [Dispatchers -> Nat]
          /\ \A e \in Dispatchers : pos'[e] <= Len(list)
      <4>1. CASE pos' = pos
        BY <4>1
      <4>2. CASE pos' = [pos EXCEPT ![d] = 0]
        BY <4>2
      <4> QED
        BY <4>1, <4>2, <3>4
    <3> QED
      BY <2>2, <3>2, <3>3, <3>5 DEF CallExtra
  <2>3. CASE Skip(d)
    BY <2>3 DEF Skip, Advance
  <2>4. CASE CallHandler(d)
    <3>1. list[pos[d]].id \in Nat
      <4>1. list[pos[d]] \in Items
        BY <2>4 DEF CallHandler
      <4> QED
        BY <4>1 DEF Items
    <3>2. Append(called[d], list[pos[d]].id) \in Seq(Nat)
      BY <3>1
    <3>3. called' \in [Dispatchers -> Seq(Nat)]
      BY <2>4, <3>2 DEF CallHandler
    <3>4. /\ pos' \in [Dispatchers -> Nat]
          /\ \A e \in Dispatchers : pos'[e] <= Len(list)
      <4>1. CASE Advance(d)
        BY <4>1, <2>4 DEF CallHandler, Advance
      <4>2. CASE pos' = [pos EXCEPT ![d] = 0]
        BY <4>2
      <4> QED
        BY <4>1, <4>2, <2>4 DEF CallHandler
    <3> QED
      BY <2>4, <3>3, <3>4 DEF CallHandler
  <2> QED
    BY <2>1, <2>2, <2>3, <2>4
<1> QED
  BY <1>1, <1>2 DEF ListIInv, YoungestWaits, ListInOrder

(* The inductive invariant of the handler lists.                            *)
THEOREM ListInvariant == ListSpec => []ListIInv
<1>1. ListIInv /\ [ListNext]_listVars => ListIInv'
  <2> SUFFICES ASSUME ListIInv, [ListNext]_listVars PROVE ListIInv'
    OBVIOUS
  <2>1. CASE UNCHANGED listVars
    BY <2>1 DEF listVars, ListIInv, ListTypeOK, YoungestWaits, ListInOrder
  <2> QED
    BY <2>1, CallInsertIInv, InsertItemIInv, WalkIInv DEF ListNext
<1> QED
  BY <1>1, InitListIInv, PTL DEF ListSpec

(* insert keeps every handler list in stage order, in descending priority   *)
(* within a stage and stable among equals, for any handlers whatever.       *)
THEOREM HandlerListInOrder == ListSpec => []ListInOrder
<1>1. ListIInv => ListInOrder
  BY DEF ListIInv
<1> QED
  BY <1>1, ListInvariant, PTL

(* Type correctness: in particular no walk leaves the list it walks.        *)
THEOREM HandlerListTypeOK == ListSpec => []ListTypeOK
<1>1. ListIInv => ListTypeOK
  BY DEF ListIInv
<1> QED
  BY <1>1, ListInvariant, PTL

------------------------------------------------------------------------------
(* The walks.                                                               *)

(* What callFromWithHandler relies on: it has not come past the handle      *)
(* stage before it goes over to callFrom, and it has reached it afterwards. *)
WalkOf(d) ==
  /\ {called[d][k] : k \in 1..Len(called[d])} = Owed(d)
  /\ \A j, k \in 1..Len(called[d]) : j < k => Precedes(called[d][j], called[d][k])
  /\ ~passed[d] /\ extra[d] # NoItem => \A n \in 1..(pos[d] - 1) : list[n].stage # HandleStage
  /\ passed[d] => \E n \in 1..pos[d] : list[n].stage = HandleStage

WalkInv == \A d \in Walking : WalkOf(d)

LEMMA WalkKept ==
  ASSUME NEW e \in Dispatchers, WalkOf(e), list' = list, pos'[e] = pos[e],
         protocol'[e] = protocol[e], extra'[e] = extra[e], passed'[e] = passed[e],
         called'[e] = called[e]
  PROVE  WalkOf(e)'
<1>1. \A x : For(e, x)' <=> For(e, x)
  BY DEF For
<1>2. Owed(e)' = Owed(e)
  <2>1. {n \in 1..(pos[e] - 1) : For(e, list[n].protocol)}' = {n \in 1..(pos[e] - 1) : For(e, list[n].protocol)}
    BY DEF For
  <2>2. {x \in {0} : passed[e] /\ For(e, extra[e])}' = {x \in {0} : passed[e] /\ For(e, extra[e])}
    BY DEF For
  <2> QED
    BY <2>1, <2>2 DEF Owed
<1>3. \A x, y : Precedes(x, y)' <=> Precedes(x, y)
  BY DEF Precedes
<1> QED
  BY <1>2, <1>3 DEF WalkOf

(* One more handler has been called.                                        *)
LEMMA CallAppended ==
  ASSUME NEW s \in Seq(Nat), NEW x \in Nat, NEW t, t = Append(s, x)
  PROVE  /\ {t[k] : k \in 1..Len(t)} = {s[k] : k \in 1..Len(s)} \cup {x}
         /\ \A j, k \in 1..Len(t) : j < k =>
              \/ j \in 1..Len(s) /\ k \in 1..Len(s) /\ t[j] = s[j] /\ t[k] = s[k]
              \/ j \in 1..Len(s) /\ t[j] = s[j] /\ t[k] = x
<1> DEFINE n == Len(s)
<1>1. n \in Nat /\ Len(t) = n + 1 /\ t[n + 1] = x /\ \A k \in 1..n : t[k] = s[k]
  OBVIOUS
<1>2. {t[k] : k \in 1..Len(t)} = {s[k] : k \in 1..Len(s)} \cup {x}
  <2> HIDE DEF n
  <2>1. \A k \in 1..(n + 1) : k \in 1..n \/ k = n + 1
    BY <1>1
  <2>2. n + 1 \in 1..(n + 1) /\ \A k \in 1..n : k \in 1..(n + 1)
    BY <1>1
  <2>3. {t[k] : k \in 1..(n + 1)} = {s[k] : k \in 1..n} \cup {x}
    BY <1>1, <2>1, <2>2
  <2> QED
    BY <1>1, <2>3 DEF n
<1>3. ASSUME NEW j \in 1..Len(t), NEW k \in 1..Len(t), j < k
      PROVE  \/ j \in 1..n /\ k \in 1..n /\ t[j] = s[j] /\ t[k] = s[k]
             \/ j \in 1..n /\ t[j] = s[j] /\ t[k] = x
  <2>1. j \in 1..(n + 1) /\ k \in 1..(n + 1)
    BY <1>1, <1>3
  <2> HIDE DEF n
  <2>2. j \in 1..n /\ (k \in 1..n \/ k = n + 1)
    BY <1>1, <1>3, <2>1
  <2> QED
    BY <1>1, <2>2
<1> QED
  BY <1>2, <1>3

LEMMA HandleWalks ==
  ASSUME ListIInv, NEW d \in Dispatchers, Handle(d), pos'[d] # 0
  PROVE  WalkOf(d)'
<1>1. /\ pos'[d] = 1 /\ called'[d] = <<>> /\ passed'[d] = FALSE
  BY DEF Handle, ListIInv, ListTypeOK
<1>2. Owed(d)' = {}
  BY <1>1 DEF Owed
<1>3. Len(<<>>) = 0 /\ {<<>>[k] : k \in 1..0} = {}
  OBVIOUS
<1> QED
  BY <1>1, <1>2, <1>3 DEF WalkOf

(* Skip and CallHandler: the walk has come one item further.                       *)
LEMMA OwedNext ==
  ASSUME ListIInv, NEW d \in Dispatchers, pos[d] # 0, pos'[d] = pos[d] + 1,
         list' = list, protocol' = protocol, extra' = extra, passed' = passed
  PROVE  Owed(d)' = Owed(d) \cup {list[k].id : k \in {n \in {pos[d]} : For(d, list[n].protocol)}}
<1> DEFINE p == pos[d]
<1>1. p \in Nat /\ p # 0
  BY DEF ListIInv, ListTypeOK
<1>2. 1..(p + 1 - 1) = 1..(p - 1) \cup {p}
  <2> HIDE DEF p
  <2> QED
    BY <1>1
<1>3. Owed(d)' = {list[k].id : k \in {n \in 1..(p + 1 - 1) : For(d, list[n].protocol)}}
                  \cup {x \in {0} : passed[d] /\ For(d, extra[d])}
  <2>1. {n \in 1..(pos[d] - 1) : For(d, list[n].protocol)}' = {n \in 1..(p + 1 - 1) : For(d, list[n].protocol)}
    <3> DEFINE R == 1..(p + 1 - 1)
               Q(l, pr, n) == l[n].protocol = pr[d] \/ l[n].protocol = AnyProtocol
    <3>1. (1..(pos[d] - 1))' = R
      <4>1. pos'[d] = p + 1
        OBVIOUS
      <4> QED
        BY ONLY <1>1, <4>1
    <3> HIDE DEF R, Q
    <3>2. {n \in R : Q(list', protocol', n)} = {n \in R : Q(list, protocol, n)}
      OBVIOUS
    <3> QED
      BY <3>1, <3>2 DEF For, R, Q
  <2>2. {x \in {0} : passed[d] /\ For(d, extra[d])}' = {x \in {0} : passed[d] /\ For(d, extra[d])}
    BY DEF For
  <2> QED
    BY <2>1, <2>2 DEF Owed
<1>4. {n \in 1..(p + 1 - 1) : For(d, list[n].protocol)} =
        {n \in 1..(p - 1) : For(d, list[n].protocol)} \cup {n \in {p} : For(d, list[n].protocol)}
  BY <1>2
<1> QED
  BY <1>3, <1>4 DEF Owed

(* Behind the handle stage there are only later stages, and before its      *)
(* first item only earlier ones.                                            *)
LEMMA StagesInOrder ==
  ASSUME ListIInv, NEW a \in 1..Len(list), NEW b \in 1..Len(list), a <= b
  PROVE  /\ list[a].stage \in Nat /\ list[b].stage \in Nat /\ list[a].stage <= list[b].stage
         /\ list[a].id \in Nat \ {0}
<1>1. list[a] \in Items /\ list[b] \in Items
  BY DEF ListIInv, ListTypeOK
<1>2. list[a].stage \in Nat /\ list[b].stage \in Nat /\ list[a].id \in Nat \ {0}
  BY <1>1, ListAssumption DEF Items
<1>3. CASE a = b
  BY <1>2, <1>3
<1>4. CASE a < b
  <2>1. Before(list[a], list[b])
    BY <1>4 DEF ListIInv, ListInOrder
  <2> QED
    BY <1>2, <2>1 DEF Before
<1> QED
  BY <1>2, <1>3, <1>4

LEMMA SkipWalks ==
  ASSUME ListIInv, NEW d \in Dispatchers, WalkOf(d), Skip(d), pos'[d] # 0
  PROVE  WalkOf(d)'
<1>1. /\ pos[d] \in Nat /\ pos[d] # 0 /\ pos'[d] = pos[d] + 1
      /\ UNCHANGED <<list, protocol, extra, passed, called>>
      /\ ~For(d, list[pos[d]].protocol) /\ ~AtExtra(d)
  BY DEF Skip, Advance, ListIInv, ListTypeOK
<1>2. Owed(d)' = Owed(d)
  BY <1>1, OwedNext
<1>3. \A x, y : Precedes(x, y)' <=> Precedes(x, y)
  BY <1>1 DEF Precedes
<1>4. ASSUME ~passed[d], extra[d] # NoItem, NEW n \in 1..(pos'[d] - 1)
      PROVE  list[n].stage # HandleStage
  <2>1. n \in 1..(pos[d] - 1) \/ n = pos[d]
    BY <1>1, <1>4
  <2> QED
    BY <1>1, <1>4, <2>1 DEF WalkOf, AtExtra
<1>5. ASSUME passed[d] PROVE \E n \in 1..pos'[d] : list[n].stage = HandleStage
  <2>1. PICK n \in 1..pos[d] : list[n].stage = HandleStage
    BY <1>5 DEF WalkOf
  <2>2. n \in 1..pos'[d]
    BY <1>1
  <2> QED
    BY <2>1, <2>2
<1> QED
  BY <1>1, <1>2, <1>3, <1>4, <1>5 DEF WalkOf

LEMMA CallWalks ==
  ASSUME ListIInv, NEW d \in Dispatchers, WalkOf(d), CallHandler(d), pos'[d] # 0
  PROVE  WalkOf(d)'
<1> DEFINE p == pos[d]
           x == list[p].id
           s == called[d]
<1>1. /\ p \in Nat /\ p # 0 /\ p <= Len(list) /\ pos'[d] = p + 1
      /\ UNCHANGED <<list, protocol, extra, passed>>
      /\ For(d, list[p].protocol) /\ ~AtExtra(d)
  <2>1. pos'[d] = pos[d] + 1
    BY DEF CallHandler, Advance, ListIInv, ListTypeOK
  <2> QED
    BY <2>1 DEF CallHandler, ListIInv, ListTypeOK
<1>2. p \in 1..Len(list) /\ x \in Nat /\ s \in Seq(Nat) /\ called'[d] = Append(s, x)
  <2>1. p \in 1..Len(list)
    BY <1>1 DEF ListIInv, ListTypeOK
  <2>2. x \in Nat
    BY <2>1, StagesInOrder
  <2> QED
    BY <2>1, <2>2 DEF CallHandler, ListIInv, ListTypeOK
<1>3. Owed(d)' = Owed(d) \cup {x}
  BY <1>1, OwedNext
<1>4. \A u, v : Precedes(u, v)' <=> Precedes(u, v)
  BY <1>1 DEF Precedes
<1>5. \A j \in 1..Len(s) : Precedes(s[j], x)
  <2> TAKE j \in 1..Len(s)
  <2>1. s[j] \in Owed(d)
    BY DEF WalkOf
  <2>2. CASE \E k \in 1..(p - 1) : s[j] = list[k].id
    <3>1. PICK k \in 1..(p - 1) : s[j] = list[k].id
      BY <2>2
    <3>2. k \in 1..Len(list) /\ k < p
      BY <1>1, <3>1
    <3> QED
      BY <1>2, <3>1, <3>2 DEF Precedes
  <2>3. CASE s[j] = 0 /\ passed[d]
    <3>1. PICK n \in 1..p : list[n].stage = HandleStage
      BY <2>3 DEF WalkOf
    <3>2. n \in 1..Len(list) /\ n <= p
      BY <1>1, <3>1
    <3>3. list[p].stage >= HandleStage
      BY <1>2, <3>1, <3>2, StagesInOrder
    <3> QED
      BY <1>2, <2>3, <3>3 DEF Precedes
  <2> QED
    BY <2>1, <2>2, <2>3 DEF Owed
<1>6. /\ {called'[d][k] : k \in 1..Len(called'[d])} = {s[k] : k \in 1..Len(s)} \cup {x}
      /\ \A j, k \in 1..Len(called'[d]) : j < k =>
           \/ j \in 1..Len(s) /\ k \in 1..Len(s) /\ called'[d][j] = s[j] /\ called'[d][k] = s[k]
           \/ j \in 1..Len(s) /\ called'[d][j] = s[j] /\ called'[d][k] = x
  <2> HIDE DEF x, s
  <2> QED
    BY <1>2, CallAppended, SMTT(30)
<1>7. \A j, k \in 1..Len(called'[d]) : j < k => Precedes(called[d][j], called[d][k])'
  <2> TAKE j, k \in 1..Len(called'[d])
  <2> HAVE j < k
  <2>1. \/ j \in 1..Len(s) /\ k \in 1..Len(s) /\ called'[d][j] = s[j] /\ called'[d][k] = s[k]
        \/ j \in 1..Len(s) /\ called'[d][j] = s[j] /\ called'[d][k] = x
    BY <1>6
  <2>2. ASSUME j \in 1..Len(s), k \in 1..Len(s) PROVE Precedes(s[j], s[k])
    BY <2>2 DEF WalkOf
  <2> HIDE DEF x, s
  <2>3. Precedes(called'[d][j], called'[d][k])
    BY <1>5, <2>1, <2>2
  <2> QED
    BY <1>4, <2>3
<1>8. ASSUME ~passed[d], extra[d] # NoItem, NEW n \in 1..(pos'[d] - 1)
      PROVE  list[n].stage # HandleStage
  <2>1. n \in 1..(p - 1) \/ n = p
    BY <1>1, <1>8
  <2> QED
    BY <1>1, <1>8, <2>1 DEF WalkOf, AtExtra
<1>9. ASSUME passed[d] PROVE \E n \in 1..pos'[d] : list[n].stage = HandleStage
  <2>1. PICK n \in 1..p : list[n].stage = HandleStage
    BY <1>9 DEF WalkOf
  <2>2. n \in 1..pos'[d]
    BY <1>1
  <2> QED
    BY <2>1, <2>2
<1>10. {called'[d][k] : k \in 1..Len(called'[d])} = Owed(d)'
  BY <1>3, <1>6 DEF WalkOf
<1> QED
  BY <1>1, <1>7, <1>8, <1>9, <1>10 DEF WalkOf

(* callFromWithHandler calls the given handler and goes on with callFrom.   *)
LEMMA ExtraWalks ==
  ASSUME ListIInv, NEW d \in Dispatchers, WalkOf(d), CallExtra(d), pos'[d] # 0
  PROVE  WalkOf(d)'
<1> DEFINE p == pos[d]
           s == called[d]
<1>1. /\ p \in Nat /\ p # 0 /\ p <= Len(list) /\ pos' = pos
      /\ UNCHANGED <<list, protocol, extra>>
      /\ ~passed[d] /\ passed'[d] /\ extra[d] # NoItem /\ list[p].stage = HandleStage
      /\ s \in Seq(Nat)
  BY DEF CallExtra, AtExtra, ListIInv, ListTypeOK
<1>2. p \in 1..Len(list) /\ p \in 1..p
  BY <1>1 DEF ListIInv, ListTypeOK
<1>3. Owed(d) = {list[k].id : k \in {n \in 1..(p - 1) : For(d, list[n].protocol)}}
  BY <1>1 DEF Owed
<1>4. Owed(d)' = Owed(d) \cup {x \in {0} : For(d, extra[d])}
  <2>1. {n \in 1..(pos[d] - 1) : For(d, list[n].protocol)}' = {n \in 1..(p - 1) : For(d, list[n].protocol)}
    BY <1>1 DEF For
  <2>2. {x \in {0} : passed[d] /\ For(d, extra[d])}' = {x \in {0} : For(d, extra[d])}
    BY <1>1 DEF For
  <2>3. list' = list
    BY <1>1
  <2> QED
    BY <1>3, <2>1, <2>2, <2>3 DEF Owed
<1>5. \A u, v : Precedes(u, v)' <=> Precedes(u, v)
  BY <1>1 DEF Precedes
<1>6. \E n \in 1..pos'[d] : list'[n].stage = HandleStage
  BY <1>1, <1>2
<1>7. CASE For(d, extra[d])
  <2>1. called'[d] = Append(s, 0)
    BY <1>1, <1>7 DEF CallExtra, ListIInv, ListTypeOK
  <2>2. \A j \in 1..Len(s) : Precedes(s[j], 0)
    <3> TAKE j \in 1..Len(s)
    <3>1. s[j] \in Owed(d)
      BY DEF WalkOf
    <3>2. PICK k \in 1..(p - 1) : s[j] = list[k].id
      BY <1>3, <3>1
    <3>3. k \in 1..Len(list) /\ k <= p
      BY <1>1, <3>2
    <3>4. list[k].stage # HandleStage
      BY <1>1, <3>2 DEF WalkOf
    <3>5. list[k].stage < HandleStage
      BY <1>1, <1>2, <3>3, <3>4, StagesInOrder, SMTT(30)
    <3> QED
      BY <3>2, <3>3, <3>5 DEF Precedes
  <2>3. /\ {called'[d][k] : k \in 1..Len(called'[d])} = {s[k] : k \in 1..Len(s)} \cup {0}
        /\ \A j, k \in 1..Len(called'[d]) : j < k =>
             \/ j \in 1..Len(s) /\ k \in 1..Len(s) /\ called'[d][j] = s[j] /\ called'[d][k] = s[k]
             \/ j \in 1..Len(s) /\ called'[d][j] = s[j] /\ called'[d][k] = 0
    <3> HIDE DEF s
    <3> QED
      BY <1>1, <2>1, CallAppended, SMTT(30)
  <2>4. \A j, k \in 1..Len(called'[d]) : j < k => Precedes(called[d][j], called[d][k])'
    <3> TAKE j, k \in 1..Len(called'[d])
    <3> HAVE j < k
    <3>1. \/ j \in 1..Len(s) /\ k \in 1..Len(s) /\ called'[d][j] = s[j] /\ called'[d][k] = s[k]
          \/ j \in 1..Len(s) /\ called'[d][j] = s[j] /\ called'[d][k] = 0
      BY <2>3
    <3>2. ASSUME j \in 1..Len(s), k \in 1..Len(s) PROVE Precedes(s[j], s[k])
      BY <3>2 DEF WalkOf
    <3> HIDE DEF s
    <3>3. Precedes(called'[d][j], called'[d][k])
      BY <2>2, <3>1, <3>2
    <3> QED
      BY <1>5, <3>3
  <2>5. {called'[d][k] : k \in 1..Len(called'[d])} = Owed(d)'
    BY <1>4, <1>7, <2>3 DEF WalkOf
  <2> QED
    BY <1>1, <1>6, <2>4, <2>5 DEF WalkOf
<1>8. CASE ~For(d, extra[d])
  <2>1. called' = called /\ Owed(d)' = Owed(d)
    BY <1>4, <1>8 DEF CallExtra
  <2> QED
    BY <1>1, <1>5, <1>6, <2>1, SMTT(30) DEF WalkOf
<1> QED
  BY <1>7, <1>8

(* No step disturbs a walk: the walks of the others stand still, and the    *)
(* list changes only when nobody walks.                                     *)
LEMMA WalksKept ==
  ASSUME ListIInv, WalkInv, [ListNext]_listVars
  PROVE  WalkInv'
<1> SUFFICES ASSUME NEW e \in Dispatchers, pos'[e] # 0 PROVE WalkOf(e)'
  BY DEF WalkInv, Walking
<1>1. CASE CallInsert \/ UNCHANGED listVars
  <2>1. list' = list /\ UNCHANGED walkVars
    BY <1>1 DEF CallInsert, listVars, walkVars
  <2>2. WalkOf(e)
    BY <2>1 DEF WalkInv, Walking, walkVars
  <2> QED
    BY <2>1, <2>2, WalkKept DEF walkVars
<1>2. CASE InsertItem
  <2>1. pos'[e] = 0
    BY <1>2 DEF InsertItem, Walking, walkVars
  <2> QED
    BY <2>1
<1>3. ASSUME NEW d \in Dispatchers, Handle(d) \/ CallExtra(d) \/ Skip(d) \/ CallHandler(d)
      PROVE  WalkOf(e)'
  <2>1. CASE e = d
    <3>1. ASSUME ~Handle(d) PROVE WalkOf(d)
      BY <1>3, <3>1 DEF WalkInv, Walking, CallExtra, AtExtra, Skip, CallHandler
    <3> QED
      BY <1>3, <2>1, <3>1, HandleWalks, SkipWalks, CallWalks, ExtraWalks
  <2>2. CASE e # d
    <3>1. /\ list' = list /\ pos'[e] = pos[e] /\ protocol'[e] = protocol[e]
          /\ extra'[e] = extra[e] /\ passed'[e] = passed[e] /\ called'[e] = called[e]
      <4>1. CASE Handle(d)
        BY <2>2, <4>1 DEF Handle, ListIInv, ListTypeOK
      <4>2. CASE CallExtra(d)
        BY <2>2, <4>2 DEF CallExtra, ListIInv, ListTypeOK
      <4>3. CASE Skip(d)
        BY <2>2, <4>3 DEF Skip, Advance, ListIInv, ListTypeOK
      <4>4. CASE CallHandler(d)
        BY <2>2, <4>4 DEF CallHandler, Advance, ListIInv, ListTypeOK
      <4> QED
        BY <1>3, <4>1, <4>2, <4>3, <4>4
    <3>2. WalkOf(e)
      BY <3>1 DEF WalkInv, Walking
    <3> QED
      BY <3>1, <3>2, WalkKept
  <2> QED
    BY <2>1, <2>2
<1> QED
  BY <1>1, <1>2, <1>3 DEF ListNext

(* In every walk of Handle and HandleWithHandler the handlers called so far *)
(* are exactly those of the list that match, in the list's order, with the  *)
(* given handler in front of the handle stage: whatever insertions and      *)
(* other dispatches go on, for any lists and any number of goroutines.      *)
THEOREM CallsInListOrder == ListSpec => []CallsFollowList
<1>1. ListInit => WalkInv
  BY DEF ListInit, WalkInv, Walking
<1>2. WalkInv => CallsFollowList
  BY DEF WalkInv, WalkOf, CallsFollowList
<1>3. ListIInv /\ WalkInv /\ [ListNext]_listVars => WalkInv'
  BY WalksKept
<1> QED
  BY <1>1, <1>2, <1>3, ListInvariant, PTL DEF ListSpec
==============================================================================
