----------------------------- MODULE HandlerList -----------------------------
(* The handler lists of jps.Server (src/jps/ListMethods.go): items kept in   *)
(* stage order and, within a stage, in descending priority; goroutines that  *)
(* walk a list under its read lock while others insert under its write lock. *)
(* The three list types have the same code; HandleWithHandler exists only    *)
(* for StreamSessionHandlerList.                                             *)
EXTENDS Naturals, Sequences

CONSTANTS
  Dispatchers,  \* goroutines that call Handle or HandleWithHandler
  Stages,       \* the stages in use
  HandleStage,  \* StreamSessionStageHandle
  Priorities,   \* the priorities in use
  Protocols,    \* the protocols of sessions and frames
  AnyProtocol,  \* a handler with an empty Protocol string
  NoItem,       \* no insertion is waiting
  MaxItems      \* bound: items inserted

ASSUME ListAssumption ==
  /\ Stages \subseteq Nat /\ HandleStage \in Nat /\ Priorities \subseteq Nat
  /\ AnyProtocol \notin Protocols /\ MaxItems \in Nat

(* id numbers the items in the order of their insertion; 0 stands for the   *)
(* handler passed to HandleWithHandler.                                     *)
Items == [id : Nat \ {0}, stage : Stages, priority : Priorities,
          protocol : Protocols \cup {AnyProtocol}]
ASSUME NoItemAssumption == NoItem \notin Items

VARIABLES
  list,      \* the linked list from start on
  inserted,  \* how many insertions were called
  pending,   \* the item whose insertion waits for the write lock
  pos,       \* the item a dispatcher is at; 0 when it holds no lock
  protocol,  \* the protocol of the session or frame it dispatches
  extra,     \* the handler argument of HandleWithHandler: its protocol, or NoItem
  passed,    \* callFromWithHandler has gone over to callFrom
  called     \* the handlers it has called, in order

listVars == <<list, inserted, pending, pos, protocol, extra, passed, called>>
walkVars == <<pos, protocol, extra, passed, called>>

ListTypeOK ==
  /\ list \in Seq(Items)
  /\ inserted \in 0..MaxItems
  /\ pending \in Items \cup {NoItem}
  /\ pos \in [Dispatchers -> Nat]
  /\ \A d \in Dispatchers : pos[d] <= Len(list)
  /\ protocol \in [Dispatchers -> Protocols]
  /\ extra \in [Dispatchers -> Protocols \cup {AnyProtocol, NoItem}]
  /\ passed \in [Dispatchers -> BOOLEAN]
  /\ called \in [Dispatchers -> Seq(Nat)]

ListInit ==
  /\ list = <<>>
  /\ inserted = 0
  /\ pending = NoItem
  /\ pos = [d \in Dispatchers |-> 0]
  /\ protocol \in [Dispatchers -> Protocols]
  /\ extra = [d \in Dispatchers |-> NoItem]
  /\ passed = [d \in Dispatchers |-> FALSE]
  /\ called = [d \in Dispatchers |-> <<>>]

------------------------------------------------------------------------------
(* insert.                                                                  *)

(* Mutation: a new item goes in front of those of its stage and priority.   *)
GoesBeforeEqual(j, i) ==
  \/ j.stage = i.stage /\ j.priority >= i.priority
  \/ j.stage < i.stage

(* The test of the loop: j goes in front of i.                              *)
GoesBefore(j, i) ==
  \/ j.stage = i.stage /\ j.priority > i.priority
  \/ j.stage < i.stage

(* How many items stay in front: all up to the first that j goes before.    *)
Place(l, j) ==
  CHOOSE p \in 0..Len(l) :
    /\ \A k \in 1..p : ~GoesBefore(j, l[k])
    /\ p < Len(l) => GoesBefore(j, l[p + 1])

InsertAfter(l, p, j) ==
  [k \in 1..(Len(l) + 1) |-> IF k <= p THEN l[k]
                             ELSE IF k = p + 1 THEN j ELSE l[k - 1]]

Walking == {d \in Dispatchers : pos[d] # 0}

(* insert is called: its Lock keeps new readers out, ...                    *)
CallInsert ==
  /\ pending = NoItem
  /\ inserted < MaxItems
  /\ inserted' = inserted + 1
  /\ \E s \in Stages, p \in Priorities, pr \in Protocols \cup {AnyProtocol} :
        pending' = [id |-> inserted', stage |-> s, priority |-> p, protocol |-> pr]
  /\ UNCHANGED <<list, walkVars>>

(* Mutation: insert does not wait for the readers.                          *)
InsertNow ==
  /\ pending # NoItem
  /\ list' = InsertAfter(list, Place(list, pending), pending)
  /\ pending' = NoItem
  /\ UNCHANGED <<inserted, walkVars>>

(* ... and it goes on once those inside have left.                          *)
InsertItem ==
  /\ pending # NoItem
  /\ Walking = {}
  /\ list' = InsertAfter(list, Place(list, pending), pending)
  /\ pending' = NoItem
  /\ UNCHANGED <<inserted, walkVars>>

------------------------------------------------------------------------------
(* Handle, HandleWithHandler and callFrom.                                  *)

(* Mutation: Handle does not respect a waiting insertion.                   *)
HandleBarging(d) ==
  /\ pos[d] = 0
  /\ called' = [called EXCEPT ![d] = <<>>]
  /\ passed' = [passed EXCEPT ![d] = FALSE]
  /\ \E pr \in Protocols : protocol' = [protocol EXCEPT ![d] = pr]
  /\ \E h \in Protocols \cup {AnyProtocol, NoItem} : extra' = [extra EXCEPT ![d] = h]
  /\ pos' = [pos EXCEPT ![d] = IF list = <<>> THEN 0 ELSE 1]
  /\ UNCHANGED <<list, inserted, pending>>

(* RLock, then the first item; an empty list is left at once, unhandled.    *)
Handle(d) ==
  /\ pos[d] = 0
  /\ pending = NoItem
  /\ called' = [called EXCEPT ![d] = <<>>]
  /\ passed' = [passed EXCEPT ![d] = FALSE]
  /\ \E pr \in Protocols : protocol' = [protocol EXCEPT ![d] = pr]
  /\ \E h \in Protocols \cup {AnyProtocol, NoItem} : extra' = [extra EXCEPT ![d] = h]
  /\ pos' = [pos EXCEPT ![d] = IF list = <<>> THEN 0 ELSE 1]
  /\ UNCHANGED <<list, inserted, pending>>

(* callFromWithHandler stops at the first item of the handle stage.         *)
AtExtra(d) ==
  /\ pos[d] # 0
  /\ extra[d] # NoItem /\ ~passed[d]
  /\ list[pos[d]].stage = HandleStage

For(d, p) == p = protocol[d] \/ p = AnyProtocol

(* It calls the given handler, if that is for the protocol, and goes on     *)
(* with the item unless the handler ended the walk.                         *)
CallExtra(d) ==
  /\ AtExtra(d)
  /\ \/ /\ For(d, extra[d])
        /\ called' = [called EXCEPT ![d] = Append(@, 0)]
        /\ \/ passed' = [passed EXCEPT ![d] = TRUE] /\ UNCHANGED pos
           \/ pos' = [pos EXCEPT ![d] = 0] /\ UNCHANGED passed
     \/ /\ ~For(d, extra[d])
        /\ passed' = [passed EXCEPT ![d] = TRUE]
        /\ UNCHANGED <<pos, called>>
  /\ UNCHANGED <<list, inserted, pending, protocol, extra>>

(* c = c.next; behind the last item the lock is released.                   *)
Advance(d) == pos' = [pos EXCEPT ![d] = IF @ = Len(list) THEN 0 ELSE @ + 1]

(* A handler for another protocol is passed over.                           *)
Skip(d) ==
  /\ pos[d] # 0 /\ ~AtExtra(d)
  /\ ~For(d, list[pos[d]].protocol)
  /\ Advance(d)
  /\ UNCHANGED <<list, inserted, pending, protocol, extra, passed, called>>

(* A handler is called: it lets the walk go on, or it returns true or an    *)
(* error and ends it.                                                       *)
CallHandler(d) ==
  /\ pos[d] # 0 /\ ~AtExtra(d)
  /\ For(d, list[pos[d]].protocol)
  /\ called' = [called EXCEPT ![d] = Append(@, list[pos[d]].id)]
  /\ Advance(d) \/ pos' = [pos EXCEPT ![d] = 0]
  /\ UNCHANGED <<list, inserted, pending, protocol, extra, passed>>

Walk(d) == CallExtra(d) \/ Skip(d) \/ CallHandler(d)

ListNext ==
  \/ CallInsert \/ InsertItem
  \/ \E d \in Dispatchers : Handle(d) \/ CallExtra(d) \/ Skip(d) \/ CallHandler(d)

ListSpec == ListInit /\ [][ListNext]_listVars

(* Handlers return, and a goroutine that got the lock runs.                 *)
ListFairness == WF_listVars(InsertItem) /\ \A d \in Dispatchers : WF_listVars(Walk(d))
FairListSpec == ListSpec /\ ListFairness

------------------------------------------------------------------------------
(* Properties.                                                              *)

(* Behind item i nothing may stand that belongs in front of it; of two      *)
(* items of one stage and priority the older one comes first.               *)
Before(i, j) ==
  \/ i.stage < j.stage
  \/ i.stage = j.stage /\ i.priority > j.priority
  \/ i.stage = j.stage /\ i.priority = j.priority /\ i.id < j.id

(* insert keeps the list in stage order, in descending priority within a    *)
(* stage, and in the order of insertion among equals.                       *)
ListInOrder == \A a, b \in 1..Len(list) : a < b => Before(list[a], list[b])

(* The handlers that a walk has owed a call so far, by their ids.           *)
Owed(d) ==
  {list[k].id : k \in {n \in 1..(pos[d] - 1) : For(d, list[n].protocol)}}
    \cup {x \in {0} : passed[d] /\ For(d, extra[d])}

(* x is to be called before y: items in the order of the list, and the      *)
(* handler of HandleWithHandler in front of the handle stage.               *)
Precedes(x, y) ==
  \/ \E a, b \in 1..Len(list) : a < b /\ list[a].id = x /\ list[b].id = y
  \/ x = 0 /\ \E b \in 1..Len(list) : list[b].id = y /\ list[b].stage >= HandleStage
  \/ y = 0 /\ \E a \in 1..Len(list) : list[a].id = x /\ list[a].stage < HandleStage

(* At every moment of a walk the handlers called so far are exactly those   *)
(* of the list that match, in the list's order, with the handler of         *)
(* HandleWithHandler in front of the handle stage: none skipped, repeated   *)
(* or taken from a list that changed underneath.  In a list without an item *)
(* of that very stage callFromWithHandler comes to the end, and does not    *)
(* call the handler at all: a walk owes it a call only once it has found    *)
(* such an item.                                                            *)
CallsFollowList ==
  \A d \in Walking :
    /\ {called[d][k] : k \in 1..Len(called[d])} = Owed(d)
    /\ \A j, k \in 1..Len(called[d]) : j < k => Precedes(called[d][j], called[d][k])

(* Dispatches that follow one another for ever do not keep an insertion out.*)
InsertNotStarved == (pending # NoItem) ~> (pending = NoItem)
==============================================================================
