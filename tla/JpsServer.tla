------------------------------ MODULE JpsServer ------------------------------
(* The lifecycle of jps.Server (src/jps/server.go): goroutines that handle   *)
(* streams and stream sessions, and controllers that call Open, Close,       *)
(* CloseAndWait and the Add...Handler methods, all on one Server value.      *)
(*                                                                           *)
(* stateLock is a Go RWMutex: rd holds its readers, and writer the goroutine *)
(* that has called Lock.  A pending Lock keeps new readers out and gets the  *)
(* lock once rd is empty.  A section that only reads under RLock, or only    *)
(* assigns under Lock, is one step: the lock keeps what it reads stable.     *)
(* connectionsLock is a Mutex; connections++ and connections-- are a load    *)
(* and a store inside it.  The test "connections == 0" is outside it.        *)
(*                                                                           *)
(* Server.stateChange is never made, so it is a nil channel: the sends in    *)
(* changeState and changeStateIf take their default branch, and a receive in *)
(* WaitForState blocks for ever.                                             *)
EXTENDS Integers, FiniteSets

CONSTANTS
  Streams,         \* goroutines that call HandleStream, one per stream
  Sessions,        \* goroutines that call HandleStreamSession
  Controllers,     \* goroutines that open, close and configure the server
  None,            \* no goroutine
  HasClosedHandler,\* Server.ClosedHandler is not nil
  MaxOps           \* bound: calls made by one controller

Conns == Streams \cup Sessions
Threads == Conns \cup Controllers

ASSUME ThreadsAssumption ==
  /\ Streams \cap Sessions = {}
  /\ Conns \cap Controllers = {}
  /\ IsFiniteSet(Conns)
  /\ None \notin Threads

ASSUME ConfigAssumption == HasClosedHandler \in BOOLEAN /\ MaxOps \in Nat

VARIABLES
  state,        \* Server.state
  connections,  \* Server.connections
  rd, writer,   \* Server.stateLock
  connLock,     \* Server.connectionsLock: its holder
  tmp,          \* the value of connections a goroutine has loaded
  pc,           \* where each goroutine is
  op,           \* the call a controller is in
  calls,        \* the calls a controller has made
  handlers,     \* how many items were inserted into the handler lists
  fate          \* what became of a stream or of a stream session

vars == <<state, connections, rd, writer, connLock, tmp, pc, op, calls,
          handlers, fate>>
lockVars == <<rd, writer>>
ctlVars == <<op, calls, handlers>>

Ops == {"Open", "Close", "CloseAndWait", "AddHandler"}
States == {"Closed", "Closing", "Open"}

(* Where a goroutine stands between taking and releasing each lock.         *)
Reading == {"reg_lock", "reg_inc", "reg_runlock", "insert"}
Pending == {"cs_wait", "set_wait"}
Counting == {"reg_inc", "dereg_dec"}
(* From the increment up to the decrement.                                  *)
Registered == {"reg_runlock", "handlers", "fallback", "serve",
               "dereg_lock", "dereg_dec"}

ConnPcs == {"new", "register", "refused", "reg_lock", "reg_inc", "reg_runlock",
            "handlers", "fallback", "serve", "dereg_lock", "dereg_dec",
            "dereg_read", "cs_check", "cs_lock", "cs_wait", "done"}
ControllerPcs == {"idle", "insert", "set_lock", "set_wait", "wait_check", "recv"}

Fates == {"none", "served", "closed", "nil_handler", "dropped"}

TypeOK ==
  /\ state \in States
  /\ connections \in Nat
  /\ rd \subseteq Threads
  /\ writer \in Threads \cup {None}
  /\ connLock \in Conns \cup {None}
  /\ tmp \in [Conns -> Nat]
  /\ pc \in [Threads -> ConnPcs \cup ControllerPcs]
  /\ \A c \in Conns : pc[c] \in ConnPcs
  /\ \A c \in Controllers : pc[c] \in ControllerPcs
  /\ op \in [Controllers -> Ops]
  /\ calls \in [Controllers -> 0..MaxOps]
  /\ handlers \in Nat
  /\ fate \in [Conns -> Fates]

Init ==
  /\ state = "Closed"
  /\ connections = 0
  /\ rd = {}
  /\ writer = None
  /\ connLock = None
  /\ tmp = [c \in Conns |-> 0]
  /\ pc = [t \in Threads |-> IF t \in Conns THEN "new" ELSE "idle"]
  /\ op = [c \in Controllers |-> "Open"]
  /\ calls = [c \in Controllers |-> 0]
  /\ handlers = 0
  /\ fate = [c \in Conns |-> "none"]

Goto(t, l) == pc' = [pc EXCEPT ![t] = l]

(* sync.RWMutex, as server.go uses it: RLock waits for a pending writer.    *)
CanRLock == writer = None
RLock(t) == CanRLock /\ rd' = rd \cup {t} /\ UNCHANGED writer
RUnlock(t) == rd' = rd \ {t} /\ UNCHANGED writer
(* Lock first keeps new readers and writers out, ...                        *)
LockAnnounce(t) == writer = None /\ writer' = t /\ UNCHANGED rd
(* ... and then waits for the readers it found (a mutation does not).       *)
LockIgnoringReaders(t) == writer = t
LockAcquired(t) == writer = t /\ rd = {}
Unlock == writer' = None /\ UNCHANGED rd

------------------------------------------------------------------------------
(* Streams and stream sessions.                                             *)

(* A stream is handed to HandleStream by its owner, a stream session to     *)
(* HandleStreamSession by the listener loop.                                *)
Start(c) ==
  /\ pc[c] = "new"
  /\ Goto(c, "register")
  /\ UNCHANGED <<state, connections, lockVars, connLock, tmp, ctlVars, fate>>

(* registerConnection and the head of HandleStream, server not open: the    *)
(* read lock is taken and released around the test.                         *)
Refuse(c) ==
  /\ pc[c] = "register"
  /\ CanRLock
  /\ state # "Open"
  /\ Goto(c, "refused")
  /\ UNCHANGED <<state, connections, lockVars, connLock, tmp, ctlVars, fate>>

(* What happens to a refused stream: without a ClosedHandler it is closed,  *)
(* with one the handler is called with a nil connection.  A refused stream  *)
(* session is returned from, neither closed nor handed on.                  *)
Dispose(c) ==
  /\ pc[c] = "refused"
  /\ fate' = [fate EXCEPT ![c] = IF c \in Sessions THEN "dropped"
                                 ELSE IF HasClosedHandler THEN "nil_handler"
                                 ELSE "closed"]
  /\ Goto(c, "done")
  /\ UNCHANGED <<state, connections, lockVars, connLock, tmp, ctlVars>>

(* Mutation: the state lock is released before the increment.               *)
AdmitUnlocked(c) ==
  /\ pc[c] = "register"
  /\ CanRLock
  /\ state = "Open"
  /\ Goto(c, "reg_lock")
  /\ UNCHANGED <<state, connections, lockVars, connLock, tmp, ctlVars, fate>>

(* Server open: the read lock is kept until the connection is counted.      *)
Admit(c) ==
  /\ pc[c] = "register"
  /\ RLock(c)
  /\ state = "Open"
  /\ Goto(c, "reg_lock")
  /\ UNCHANGED <<state, connections, connLock, tmp, ctlVars, fate>>

(* Mutation: the counter is loaded without the lock.                        *)
LoadCountUnlocked(c, from, to) ==
  /\ pc[c] = from
  /\ connLock' = c
  /\ tmp' = [tmp EXCEPT ![c] = connections]
  /\ Goto(c, to)
  /\ UNCHANGED <<state, connections, lockVars, ctlVars, fate>>

(* connectionsLock.Lock() and the load of connections.                      *)
LoadCount(c, from, to) ==
  /\ pc[c] = from
  /\ connLock = None
  /\ connLock' = c
  /\ tmp' = [tmp EXCEPT ![c] = connections]
  /\ Goto(c, to)
  /\ UNCHANGED <<state, connections, lockVars, ctlVars, fate>>

(* The store of the new count and connectionsLock.Unlock().                 *)
StoreCount(c, from, delta, to) ==
  /\ pc[c] = from
  /\ connections' = tmp[c] + delta
  /\ connLock' = None
  /\ Goto(c, to)
  /\ UNCHANGED <<state, lockVars, tmp, ctlVars, fate>>

IncLock(c) == LoadCount(c, "reg_lock", "reg_inc")
Increment(c) == StoreCount(c, "reg_inc", 1, "reg_runlock")

(* Mutation: the path that admits a connection never releases RLock.        *)
RegistrationKeepsLock(c) ==
  /\ pc[c] = "reg_runlock"
  /\ Goto(c, IF c \in Streams THEN "serve" ELSE "handlers")
  /\ UNCHANGED <<state, connections, lockVars, connLock, tmp, ctlVars, fate>>

(* The state lock is released only after the increment.  A stream goes to   *)
(* its handler, a session to StreamSessionHandlers.Handle, which holds the  *)
(* list's read lock while the handlers run.                                 *)
Registration(c) ==
  /\ pc[c] = "reg_runlock"
  /\ RUnlock(c)
  /\ Goto(c, IF c \in Streams THEN "serve" ELSE "handlers")
  /\ UNCHANGED <<state, connections, connLock, tmp, ctlVars, fate>>

(* The stream's handler returns.                                            *)
HandlerReturns(c) ==
  /\ c \in Streams
  /\ pc[c] = "serve"
  /\ fate' = [fate EXCEPT ![c] = "served"]
  /\ Goto(c, "dereg_lock")
  /\ UNCHANGED <<state, connections, lockVars, connLock, tmp, ctlVars>>

(* StreamSessionHandlers.Handle returns: handled, or left to the fallback.  *)
SessionHandlersReturn(q) ==
  /\ q \in Sessions
  /\ pc[q] = "handlers"
  /\ \/ /\ fate' = [fate EXCEPT ![q] = "served"]
        /\ Goto(q, "dereg_lock")
     \/ /\ Goto(q, "fallback")
        /\ UNCHANGED fate
  /\ UNCHANGED <<state, connections, lockVars, connLock, tmp, ctlVars>>

(* handleStreamSessionFallback: one accepted stream gets a goroutine that   *)
(* runs HandleStream on its own; the loop goes on.                          *)
FallbackAccept(q, c) ==
  /\ q \in Sessions /\ c \in Streams
  /\ pc[q] = "fallback"
  /\ pc[c] = "new"
  /\ Goto(c, "register")
  /\ UNCHANGED <<state, connections, lockVars, connLock, tmp, ctlVars, fate>>

(* AcceptStream fails and the loop ends; the streams may still be running.  *)
FallbackEnds(q) ==
  /\ q \in Sessions
  /\ pc[q] = "fallback"
  /\ fate' = [fate EXCEPT ![q] = "served"]
  /\ Goto(q, "dereg_lock")
  /\ UNCHANGED <<state, connections, lockVars, connLock, tmp, ctlVars>>

DecLock(c) == LoadCount(c, "dereg_lock", "dereg_dec")
Decrement(c) == StoreCount(c, "dereg_dec", -1, "dereg_read")

(* Mutation: the test uses the count from before the decrement.             *)
ReadLoadedCount(c) ==
  /\ pc[c] = "dereg_read"
  /\ Goto(c, IF tmp[c] = 0 THEN "cs_check" ELSE "done")
  /\ UNCHANGED <<state, connections, lockVars, connLock, tmp, ctlVars, fate>>

(* deregisterConnection: connections is read again, without the lock.       *)
ReadCount(c) ==
  /\ pc[c] = "dereg_read"
  /\ Goto(c, IF connections = 0 THEN "cs_check" ELSE "done")
  /\ UNCHANGED <<state, connections, lockVars, connLock, tmp, ctlVars, fate>>

(* changeStateIf(StateClosing, StateClosed), first test, as a reader.       *)
CheckClosing(c) ==
  /\ pc[c] = "cs_check"
  /\ CanRLock
  /\ Goto(c, IF state = "Closing" THEN "cs_lock" ELSE "done")
  /\ UNCHANGED <<state, connections, lockVars, connLock, tmp, ctlVars, fate>>

LockForClosed(c) ==
  /\ pc[c] = "cs_lock"
  /\ LockAnnounce(c)
  /\ Goto(c, "cs_wait")
  /\ UNCHANGED <<state, connections, connLock, tmp, ctlVars, fate>>

(* Mutation: the condition is not tested again under the write lock.        *)
ChangeStateUnchecked(c) ==
  /\ pc[c] = "cs_wait"
  /\ LockAcquired(c)
  /\ state' = "Closed"
  /\ Unlock
  /\ Goto(c, "done")
  /\ UNCHANGED <<connections, connLock, tmp, ctlVars, fate>>

(* changeStateIf, second test, as the writer.                               *)
ChangeStateIf(c) ==
  /\ pc[c] = "cs_wait"
  /\ LockAcquired(c)
  /\ state' = IF state = "Closing" THEN "Closed" ELSE state
  /\ Unlock
  /\ Goto(c, "done")
  /\ UNCHANGED <<connections, connLock, tmp, ctlVars, fate>>

------------------------------------------------------------------------------
(* Controllers.                                                             *)

(* A controller calls Open, Close or CloseAndWait: changeState wants Lock.  *)
Call(c) ==
  /\ pc[c] = "idle"
  /\ calls[c] < MaxOps
  /\ calls' = [calls EXCEPT ![c] = @ + 1]
  /\ \E o \in {"Open", "Close", "CloseAndWait"} : op' = [op EXCEPT ![c] = o]
  /\ Goto(c, "set_lock")
  /\ UNCHANGED <<state, connections, lockVars, connLock, tmp, handlers, fate>>

LockForChange(c) ==
  /\ pc[c] = "set_lock"
  /\ LockAnnounce(c)
  /\ Goto(c, "set_wait")
  /\ UNCHANGED <<state, connections, connLock, tmp, ctlVars, fate>>

(* changeState assigns whatever the state was; nobody receives the change.  *)
ChangeState(c) ==
  /\ pc[c] = "set_wait"
  /\ LockAcquired(c)
  /\ state' = IF op[c] = "Open" THEN "Open" ELSE "Closing"
  /\ Unlock
  /\ Goto(c, IF op[c] = "CloseAndWait" THEN "wait_check" ELSE "idle")
  /\ UNCHANGED <<connections, connLock, tmp, ctlVars, fate>>

(* WaitForState(StateClosed): it returns at once if the server is closed,   *)
(* and otherwise receives from the nil channel, which has no successor.     *)
WaitForState(c) ==
  /\ pc[c] = "wait_check"
  /\ CanRLock
  /\ Goto(c, IF state = "Closed" THEN "idle" ELSE "recv")
  /\ UNCHANGED <<state, connections, lockVars, connLock, tmp, ctlVars, fate>>

(* Add...Handler: ErrServerOpen or ErrServerClosing unless closed; a closed *)
(* server's handler list is changed with the read lock held.                *)
AddHandler(c) ==
  /\ pc[c] = "idle"
  /\ calls[c] < MaxOps
  /\ calls' = [calls EXCEPT ![c] = @ + 1]
  /\ op' = [op EXCEPT ![c] = "AddHandler"]
  /\ \/ /\ state = "Closed"
        /\ RLock(c)
        /\ Goto(c, "insert")
     \/ /\ state # "Closed"
        /\ CanRLock
        /\ UNCHANGED <<pc, lockVars>>
  /\ UNCHANGED <<state, connections, connLock, tmp, handlers, fate>>

(* insert takes the write lock of the list.  The list is that of the stream *)
(* session handlers, so it waits for the sessions inside Handle.            *)
Insert(c) ==
  /\ pc[c] = "insert"
  /\ \A q \in Sessions : pc[q] # "handlers"
  /\ handlers' = handlers + 1
  /\ RUnlock(c)
  /\ Goto(c, "idle")
  /\ UNCHANGED <<state, connections, connLock, tmp, op, calls, fate>>

------------------------------------------------------------------------------
ConnStep(c) ==
  \/ Start(c) \/ Refuse(c) \/ Dispose(c) \/ Admit(c)
  \/ IncLock(c) \/ Increment(c) \/ Registration(c)
  \/ HandlerReturns(c) \/ SessionHandlersReturn(c)
  \/ (\E s \in Streams : FallbackAccept(c, s))
  \/ FallbackEnds(c)
  \/ DecLock(c) \/ Decrement(c) \/ ReadCount(c)
  \/ CheckClosing(c) \/ LockForClosed(c) \/ ChangeStateIf(c)

ControllerStep(c) ==
  \/ Call(c) \/ LockForChange(c) \/ ChangeState(c)
  \/ WaitForState(c) \/ AddHandler(c) \/ Insert(c)

(* Every goroutine has run to its end or, for a caller of WaitForState,     *)
(* sits in the receive that never completes.  Any other state with no       *)
(* successor is a deadlock.                                                 *)
Quiescent ==
  /\ \A c \in Conns : pc[c] = "done"
  /\ \A c \in Controllers : \/ pc[c] = "recv"
                           \/ (pc[c] = "idle" /\ calls[c] = MaxOps)
  /\ UNCHANGED vars

Next ==
  \/ \E c \in Conns : ConnStep(c)
  \/ \E c \in Controllers : ControllerStep(c)
  \/ Quiescent

Spec == Init /\ [][Next]_vars

(* The Go scheduler runs every runnable goroutine; handlers return, and the *)
(* peer eventually ends a stream session.  Nothing makes a stream arrive or *)
(* a controller call.                                                       *)
ConnRuns(c) ==
  \/ Refuse(c) \/ Dispose(c) \/ Admit(c)
  \/ IncLock(c) \/ Increment(c) \/ Registration(c)
  \/ HandlerReturns(c) \/ SessionHandlersReturn(c) \/ FallbackEnds(c)
  \/ DecLock(c) \/ Decrement(c) \/ ReadCount(c)
  \/ CheckClosing(c) \/ LockForClosed(c) \/ ChangeStateIf(c)

ControllerRuns(c) ==
  LockForChange(c) \/ ChangeState(c) \/ WaitForState(c) \/ Insert(c)

Fairness ==
  /\ \A c \in Conns : WF_vars(ConnRuns(c))
  /\ \A c \in Controllers : WF_vars(ControllerRuns(c))

FairSpec == Spec /\ Fairness

------------------------------------------------------------------------------
(* Properties.                                                              *)

(* connections is the number of goroutines between their increment and      *)
(* their decrement: no update is lost and none is counted twice, whatever   *)
(* the interleaving (registerConnection, deregisterConnection).             *)
ConnectionsCounted ==
  connections = Cardinality({c \in Conns : pc[c] \in Registered})

(* While a goroutine is between registerConnection's test and the release   *)
(* of the state lock, the server stays open: the comment at the RUnlock     *)
(* says this is what the order of the two unlocks is for.                   *)
OpenWhileRegistering ==
  \A c \in Conns : pc[c] \in {"reg_lock", "reg_inc", "reg_runlock"} => state = "Open"

(* A handler list changes only while the server is closed, although the     *)
(* test and the insertion of Add...Handler are separate steps.              *)
HandlersOnlyWhenClosed ==
  [][handlers' # handlers => state = "Closed" /\ state' = "Closed"]_vars

(* The threads, seen through state and connections alone, do what the       *)
(* abstract lifecycle allows: atomic admission, only while open.            *)
Lifecycle == INSTANCE ServerLifecycle
               WITH state <- state, connections <- connections
ImplementsLifecycle == Lifecycle!Spec

(* A closing server with open requests leaves StateClosing: the last        *)
(* deregistration sees zero and closes it, or somebody reopens it.          *)
Drains == (state = "Closing" /\ connections > 0) ~> (state # "Closing")

(* Whatever the controllers do, a stream or session that was taken on comes *)
(* to its end: nobody waits for ever on the two locks of the server.        *)
ConnectionsEnd == \A c \in Conns : (pc[c] = "register") ~> (pc[c] = "done")

(* StateClosed's comment: "there are no open requests".                     *)
ClosedMeansDrained == state = "Closed" => connections = 0
==============================================================================
