--------------------------- MODULE GoHostContexts ----------------------------
(***************************************************************************)
(* bindings/go/evmc: how Go host contexts survive the way through C.       *)
(*                                                                         *)
(* VM.Execute registers the Go HostContext in the global hostContextMap    *)
(* under a fresh id, hands the id to the C VM as the evmc_host_context     *)
(* pointer, and removes it when the VM returns.  Every callback from the   *)
(* VM looks the id up again.  Executions run in any number of goroutines   *)
(* and nest: HostContext.Call may execute again.  A frame is one           *)
(* activation of VM.Execute; a frame without a parent is the outermost one *)
(* of its goroutine.  The map and the counter are shared; every statement  *)
(* on them is a step of its own, ordered by hostContextMapMu alone.        *)
(***************************************************************************)
EXTENDS Naturals, FiniteSets

CONSTANTS
  Frame,          \* activation records
  HostContext,    \* Go objects that implement the interface HostContext
  Nil,            \* no object, no frame
  MaxCallbacks,   \* bound: callbacks a VM makes in one execution
  IdLimit         \* bound: calls of addHostContext, below the range of uintptr

ASSUME GoConstants ==
  /\ Nil \notin Frame
  /\ Nil \notin HostContext
  /\ MaxCallbacks \in Nat
  /\ IdLimit \in Nat

VARIABLES
  hostContextCounter,
  hostContextMap,      \* id -> HostContext, a Go map
  hostContextMapMu,    \* the frame that holds the mutex, or Nil
  pc,                  \* the next statement of each frame
  ctx,                 \* the argument of Execute
  ctxId,               \* what addHostContext returned
  found,               \* what getHostContext returned to the current callback
  parent,              \* the frame whose callback called Execute, or Nil
  callbacks,           \* callbacks made so far
  abandoned            \* history: ids of the executions that a panic unwound

shared == <<hostContextCounter, hostContextMap, hostContextMapMu>>
locals == <<ctx, ctxId, found, parent, callbacks>>
vars == <<shared, pc, locals, abandoned>>

\* Statements executed with the mutex held.
AddSection == {"add id", "add inc", "add store", "add unlock"}
GetSection == {"get read", "get unlock"}
RemoveSection == {"remove delete", "remove unlock"}
Critical == AddSection \cup GetSection \cup RemoveSection

Label == Critical \cup {"idle", "add lock", "vm", "get lock", "method", "remove lock"}

\* The frames whose context is in the map: stored and not yet deleted.
Registered == {f \in Frame :
                 pc[f] \in GetSection \cup {"add unlock", "vm", "get lock", "method",
                                            "remove lock", "remove delete"}}

Active == {f \in Frame : pc[f] # "idle"}

HasChild(f) == \E g \in Active : parent[g] = f
-----------------------------------------------------------------------------
Init ==
  /\ hostContextCounter = 0
  /\ hostContextMap = [i \in {} |-> Nil]
  /\ hostContextMapMu = Nil
  /\ pc = [f \in Frame |-> "idle"]
  /\ ctx = [f \in Frame |-> Nil]
  /\ ctxId = [f \in Frame |-> 0]
  /\ found = [f \in Frame |-> Nil]
  /\ parent = [f \in Frame |-> Nil]
  /\ callbacks = [f \in Frame |-> 0]
  /\ abandoned = {}

Goto(f, from, to) == pc[f] = from /\ pc' = [pc EXCEPT ![f] = to]

Lock(f, from, to) ==
  /\ Goto(f, from, to)
  /\ hostContextMapMu = Nil
  /\ hostContextMapMu' = f
  /\ UNCHANGED <<hostContextCounter, hostContextMap, locals>>

Unlock(f, from, to) ==
  /\ Goto(f, from, to)
  /\ hostContextMapMu' = Nil
  /\ UNCHANGED <<hostContextCounter, hostContextMap, locals>>

\* The activation's variables end with it.
Leave(f) ==
  /\ ctx' = [ctx EXCEPT ![f] = Nil]
  /\ found' = [found EXCEPT ![f] = Nil]
  /\ parent' = [parent EXCEPT ![f] = Nil]
  /\ callbacks' = [callbacks EXCEPT ![f] = 0]
  /\ UNCHANGED ctxId

\* Ids that addHostContext has still to hand out to frames that entered it.
PendingIds == Cardinality({f \in Frame : pc[f] \in {"add lock", "add id", "add inc"}})

(* A call of VM.Execute with context c: by a goroutine of its own, or by   *)
(* the method of frame p's context that is handling a callback.            *)
Execute(f, c, p) ==
  /\ hostContextCounter + PendingIds < IdLimit            \* bound
  /\ Goto(f, "idle", "add lock")
  /\ \/ p = Nil
     \/ p \in Frame /\ pc[p] = "method" /\ ~HasChild(p)
  /\ ctx' = [ctx EXCEPT ![f] = c]
  /\ parent' = [parent EXCEPT ![f] = p]
  /\ UNCHANGED <<shared, ctxId, found, callbacks>>

(* addHostContext.                                                         *)
\* Faulty variant: the mutex is not taken.
AddLockWithoutMutex(f) ==
  Goto(f, "add lock", "add id") /\ UNCHANGED <<shared, locals>>

AddLock(f) == Lock(f, "add lock", "add id")

AddId(f) ==
  /\ Goto(f, "add id", "add inc")
  /\ ctxId' = [ctxId EXCEPT ![f] = hostContextCounter]
  /\ UNCHANGED <<shared, ctx, found, parent, callbacks>>

\* Faulty variant: the counter stays.
AddIncMissing(f) == Goto(f, "add inc", "add store") /\ UNCHANGED <<shared, locals>>

AddInc(f) ==
  /\ Goto(f, "add inc", "add store")
  /\ hostContextCounter' = hostContextCounter + 1
  /\ UNCHANGED <<hostContextMap, hostContextMapMu, locals>>

\* Faulty variant: the context found by an earlier callback of the frame is stored.
AddStoreFound(f) ==
  /\ Goto(f, "add store", "add unlock")
  /\ hostContextMap' = [i \in DOMAIN hostContextMap \cup {ctxId[f]} |->
                          IF i = ctxId[f] THEN found[f] ELSE hostContextMap[i]]
  /\ UNCHANGED <<hostContextCounter, hostContextMapMu, locals>>

AddStore(f) ==
  /\ Goto(f, "add store", "add unlock")
  /\ hostContextMap' = [i \in DOMAIN hostContextMap \cup {ctxId[f]} |->
                          IF i = ctxId[f] THEN ctx[f] ELSE hostContextMap[i]]
  /\ UNCHANGED <<hostContextCounter, hostContextMapMu, locals>>

AddUnlock(f) == Unlock(f, "add unlock", "vm")

(* execute_wrapper: the C VM runs.  It calls back with the context pointer *)
(* it was given, or returns.                                               *)
Callback(f) ==
  /\ callbacks[f] < MaxCallbacks                          \* bound
  /\ Goto(f, "vm", "get lock")
  /\ callbacks' = [callbacks EXCEPT ![f] = @ + 1]
  /\ UNCHANGED <<shared, ctx, ctxId, found, parent>>

\* Faulty variant: Execute returns without removeHostContext.
VMReturnUnregistered(f) ==
  /\ Goto(f, "vm", "idle")
  /\ Leave(f)
  /\ UNCHANGED shared

VMReturn(f) ==
  /\ Goto(f, "vm", "remove lock")
  /\ UNCHANGED <<shared, locals>>

(* getHostContext: an id that is not in the map gives nil.                 *)
GetLock(f) == Lock(f, "get lock", "get read")

\* Faulty variant: a lookup takes the context out of the map.
GetReadTaking(f) ==
  /\ Goto(f, "get read", "get unlock")
  /\ found' = [found EXCEPT ![f] = IF ctxId[f] \in DOMAIN hostContextMap
                                   THEN hostContextMap[ctxId[f]] ELSE Nil]
  /\ hostContextMap' = [i \in DOMAIN hostContextMap \ {ctxId[f]} |-> hostContextMap[i]]
  /\ UNCHANGED <<hostContextCounter, hostContextMapMu, ctx, ctxId, parent, callbacks>>

GetRead(f) ==
  /\ Goto(f, "get read", "get unlock")
  /\ found' = [found EXCEPT ![f] = IF ctxId[f] \in DOMAIN hostContextMap
                                   THEN hostContextMap[ctxId[f]] ELSE Nil]
  /\ UNCHANGED <<shared, ctx, ctxId, parent, callbacks>>

GetUnlock(f) == Unlock(f, "get unlock", "method")

(* The callback's method of HostContext, running without the mutex,        *)
(* returns to the VM.                                                      *)
MethodReturn(f) ==
  /\ ~HasChild(f)
  /\ Goto(f, "method", "vm")
  /\ found' = [found EXCEPT ![f] = Nil]
  /\ UNCHANGED <<shared, ctx, ctxId, parent, callbacks>>

(* The method panics, or call() does in err.(Error).  The panic unwinds    *)
(* the C frames and Execute; a recover in an outer frame, or in the        *)
(* goroutine, ends it.  Nothing of Execute is deferred.                    *)
Panic(f) ==
  /\ ~HasChild(f)
  /\ Goto(f, "method", "idle")
  /\ abandoned' = abandoned \cup {ctxId[f]}
  /\ Leave(f)
  /\ UNCHANGED shared

(* removeHostContext, and the rest of Execute: local to the frame.         *)
RemoveLock(f) == Lock(f, "remove lock", "remove delete")

RemoveDelete(f) ==
  /\ Goto(f, "remove delete", "remove unlock")
  /\ hostContextMap' = [i \in DOMAIN hostContextMap \ {ctxId[f]} |-> hostContextMap[i]]
  /\ UNCHANGED <<hostContextCounter, hostContextMapMu, locals>>

\* Faulty variant: removeHostContext returns with the mutex held.
RemoveUnlockMissing(f) ==
  Goto(f, "remove unlock", "idle") /\ Leave(f) /\ UNCHANGED shared

RemoveUnlock(f) ==
  /\ Goto(f, "remove unlock", "idle")
  /\ hostContextMapMu' = Nil
  /\ Leave(f)
  /\ UNCHANGED <<hostContextCounter, hostContextMap>>
-----------------------------------------------------------------------------
Acquire(f) ==
  /\ AddLock(f) \/ GetLock(f) \/ RemoveLock(f)
  /\ UNCHANGED abandoned

Proceed(f) ==
  \/ /\ \/ AddId(f) \/ AddInc(f) \/ AddStore(f) \/ AddUnlock(f)
        \/ Callback(f) \/ VMReturn(f)
        \/ GetRead(f) \/ GetUnlock(f)
        \/ MethodReturn(f)
        \/ RemoveDelete(f) \/ RemoveUnlock(f)
     /\ UNCHANGED abandoned
  \/ Panic(f)

Start(f) ==
  /\ \E c \in HostContext, p \in Frame \cup {Nil} : Execute(f, c, p)
  /\ UNCHANGED abandoned

Next == \E f \in Frame : Start(f) \/ Acquire(f) \/ Proceed(f)

Spec == Init /\ [][Next]_vars

(* Running goroutines are scheduled, a VM ends (its gas is finite), and    *)
(* sync.Mutex does not starve a waiter (its starvation mode hands the      *)
(* mutex over).  No one is obliged to start an execution.                  *)
Fairness == \A f \in Frame : WF_vars(Proceed(f)) /\ SF_vars(Acquire(f))

FairSpec == Spec /\ Fairness
-----------------------------------------------------------------------------
TypeOK ==
  /\ hostContextCounter \in Nat
  /\ DOMAIN hostContextMap \subseteq Nat
  /\ \A i \in DOMAIN hostContextMap : hostContextMap[i] \in HostContext
  /\ hostContextMapMu \in Frame \cup {Nil}
  /\ pc \in [Frame -> Label]
  /\ ctx \in [Frame -> HostContext \cup {Nil}]
  /\ ctxId \in [Frame -> Nat]
  /\ found \in [Frame -> HostContext \cup {Nil}]
  /\ parent \in [Frame -> Frame \cup {Nil}]
  /\ callbacks \in [Frame -> Nat]
  /\ abandoned \subseteq Nat

(* Every callback runs a method of the very context its Execute was given, *)
(* never another goroutine's, an outer frame's or nil, although the map    *)
(* was read under the mutex and the method runs after it was released.     *)
CallbackFindsOwnContext == \A f \in Frame : pc[f] = "method" => found[f] = ctx[f]

(* Two live executions never share an id.                                  *)
LiveIdsDistinct == \A f, g \in Registered : f # g => ctxId[f] # ctxId[g]

(* A registered context is in the map under its frame's id.                *)
RegisteredIsMapped ==
  \A f \in Registered : /\ ctxId[f] \in DOMAIN hostContextMap
                        /\ hostContextMap[ctxId[f]] = ctx[f]

(* Nothing stays in the map once its Execute has returned, except for the  *)
(* executions that a panic unwound: their entries stay, and neither those  *)
(* nor the live ones are disturbed by each other.                          *)
NothingLeaks == DOMAIN hostContextMap = {ctxId[f] : f \in Registered} \cup abandoned

(* Every Execute that was called returns.                                  *)
ExecuteReturns == \A f \in Frame : (pc[f] # "idle") ~> (pc[f] = "idle")
=============================================================================
