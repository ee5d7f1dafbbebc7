------------------------ MODULE GoHostContextsProofs -------------------------
(* Why callbacks find their own context: for any number of goroutines,     *)
(* contexts and nested executions.                                         *)
EXTENDS GoHostContexts, WellFoundedInduction, TLAPS

\* The mutex is held by the frame in a critical section, and by no other.
MutexHeld == \A f \in Frame : pc[f] \in Critical <=> hostContextMapMu = f

\* Frames that own an id: the counter has passed it.
OwnsId == Registered \cup {f \in Frame : pc[f] = "add store"}

\* Every id handed out lies below the counter, and no two frames own one id.
IdsFresh ==
  /\ \A f \in OwnsId : ctxId[f] < hostContextCounter
  /\ \A f \in Frame : pc[f] = "add inc" => ctxId[f] = hostContextCounter
  /\ \A f, g \in OwnsId : f # g => ctxId[f] # ctxId[g]

\* The ids of unwound executions are never handed out again.
AbandonedStay ==
  \A i \in abandoned : i < hostContextCounter /\ \A f \in OwnsId : ctxId[f] # i

\* A running frame has a context: only idle frames hold Nil.
ContextGiven == \A f \in Active : ctx[f] \in HostContext

\* What a callback read before it released the mutex is still right.
FoundIsOwn == \A f \in Frame : pc[f] \in {"get unlock", "method"} => found[f] = ctx[f]

IInv ==
  /\ TypeOK
  /\ ContextGiven
  /\ MutexHeld
  /\ IdsFresh
  /\ AbandonedStay
  /\ FoundIsOwn
  /\ RegisteredIsMapped
  /\ NothingLeaks

LEMMA InitIInv == Init => IInv
<1> SUFFICES ASSUME Init PROVE IInv
  OBVIOUS
<1>1. DOMAIN hostContextMap = {}
  BY DEF Init
<1>2. TypeOK
  BY <1>1, GoConstants DEF Init, TypeOK, Label
<1>3. \A f \in Frame : pc[f] = "idle"
  BY DEF Init
<1>4. Registered = {} /\ OwnsId = {} /\ Active = {}
  BY <1>3 DEF Registered, OwnsId, Active, GetSection
<1>5. MutexHeld
  BY <1>3, GoConstants DEF Init, MutexHeld, Critical, AddSection, GetSection,
                           RemoveSection
<1>6. ContextGiven /\ IdsFresh /\ FoundIsOwn /\ RegisteredIsMapped
  BY <1>3, <1>4 DEF ContextGiven, IdsFresh, FoundIsOwn, RegisteredIsMapped
<1>7. AbandonedStay /\ NothingLeaks
  BY <1>1, <1>4 DEF Init, AbandonedStay, NothingLeaks
<1>8. QED
  BY <1>2, <1>5, <1>6, <1>7 DEF IInv

\* Types, one conjunct at a time: each is disturbed by one or two actions.
LEMMA StepTypeOK == TypeOK /\ ContextGiven /\ [Next]_vars => TypeOK'
<1> SUFFICES ASSUME TypeOK, ContextGiven, NEW f \in Frame,
                    Start(f) \/ Acquire(f) \/ Proceed(f)
             PROVE  TypeOK'
  <2>1. CASE UNCHANGED vars
    BY <2>1 DEF TypeOK, vars, shared, locals
  <2>2. QED
    BY <2>1 DEF Next
<1> USE DEF Acquire, Proceed, Start, Execute, AddLock, AddId, AddInc, AddStore, AddUnlock,
            Callback, VMReturn, GetLock, GetRead, GetUnlock, MethodReturn, Panic,
            RemoveLock, RemoveDelete, RemoveUnlock, Lock, Unlock, Leave, Goto, shared, locals
<1>1. hostContextCounter' \in Nat
  <2>1. hostContextCounter \in Nat
    BY DEF TypeOK
  <2>2. hostContextCounter' \in {hostContextCounter, hostContextCounter + 1}
    OBVIOUS
  <2>3. QED
    BY ONLY <2>1, <2>2
<1>2. /\ DOMAIN hostContextMap' \subseteq Nat
      /\ \A i \in DOMAIN hostContextMap' : hostContextMap'[i] \in HostContext
  <2>1. CASE AddStore(f)
    <3>1. pc[f] = "add store" /\ ctx[f] \in HostContext /\ ctxId[f] \in Nat
      BY <2>1 DEF TypeOK, ContextGiven, Active
    <3>2. hostContextMap' = [i \in DOMAIN hostContextMap \cup {ctxId[f]} |->
                               IF i = ctxId[f] THEN ctx[f] ELSE hostContextMap[i]]
      BY <2>1
    <3>3. QED
      BY ONLY <3>1, <3>2, TypeOK DEF TypeOK
  <2>2. CASE RemoveDelete(f)
    <3>1. hostContextMap' = [i \in DOMAIN hostContextMap \ {ctxId[f]} |->
                               hostContextMap[i]]
      BY <2>2
    <3>2. QED
      BY ONLY <3>1, TypeOK DEF TypeOK
  <2>3. CASE UNCHANGED hostContextMap
    BY ONLY <2>3, TypeOK DEF TypeOK
  <2>4. QED
    BY <2>1, <2>2, <2>3
<1>3. hostContextMapMu' \in Frame \cup {Nil}
  <2>1. hostContextMapMu' \in {hostContextMapMu, f, Nil}
    OBVIOUS
  <2>2. QED
    BY ONLY <2>1, TypeOK DEF TypeOK
<1>4. pc' \in [Frame -> Label]
  <2>1. \E to \in Label : pc' = [pc EXCEPT ![f] = to]
    BY DEF Label, Critical, AddSection, GetSection, RemoveSection
  <2>2. QED
    BY ONLY <2>1, TypeOK DEF TypeOK
<1>5. ctx' \in [Frame -> HostContext \cup {Nil}]
  <2>1. \E c \in HostContext \cup {Nil} : ctx' \in {ctx, [ctx EXCEPT ![f] = c]}
    OBVIOUS
  <2>2. QED
    BY ONLY <2>1, TypeOK DEF TypeOK
<1>6. ctxId' \in [Frame -> Nat]
  <2>1. ctxId' \in {ctxId, [ctxId EXCEPT ![f] = hostContextCounter]}
    OBVIOUS
  <2>2. QED
    BY ONLY <2>1, TypeOK DEF TypeOK
<1>7. found' \in [Frame -> HostContext \cup {Nil}]
  <2>1. \E c \in HostContext \cup {Nil} : found' \in {found, [found EXCEPT ![f] = c]}
    BY DEF TypeOK
  <2>2. QED
    BY ONLY <2>1, TypeOK DEF TypeOK
<1>8. parent' \in [Frame -> Frame \cup {Nil}]
  <2>1. \E p \in Frame \cup {Nil} : parent' \in {parent, [parent EXCEPT ![f] = p]}
    OBVIOUS
  <2>2. QED
    BY ONLY <2>1, TypeOK DEF TypeOK
<1>9. callbacks' \in [Frame -> Nat]
  <2>1. callbacks' \in {callbacks, [callbacks EXCEPT ![f] = 0],
                         [callbacks EXCEPT ![f] = callbacks[f] + 1]}
    OBVIOUS
  <2>2. callbacks \in [Frame -> Nat]
    BY DEF TypeOK
  <2>3. QED
    BY ONLY <2>1, <2>2
<1>10. abandoned' \subseteq Nat
  <2>1. abandoned' \in {abandoned, abandoned \cup {ctxId[f]}}
    OBVIOUS
  <2>2. abandoned \subseteq Nat /\ ctxId[f] \in Nat
    BY DEF TypeOK
  <2>3. QED
    BY ONLY <2>1, <2>2
<1>11. QED
  BY ONLY <1>1, <1>2, <1>3, <1>4, <1>5, <1>6, <1>7, <1>8, <1>9, <1>10 DEF TypeOK

\* Who moves, and how: every step is one jump of one frame.
LEMMA OneFrameJumps ==
  ASSUME TypeOK, NEW f \in Frame, Start(f) \/ Acquire(f) \/ Proceed(f)
  PROVE  /\ pc' = [pc EXCEPT ![f] = pc'[f]]
         /\ \A g \in Frame \ {f} : pc'[g] = pc[g]
<1>1. \E to \in Label : pc' = [pc EXCEPT ![f] = to]
  BY DEF Acquire, Proceed, Start, Execute, AddLock, AddId, AddInc, AddStore, AddUnlock,
         Callback, VMReturn, GetLock, GetRead, GetUnlock, MethodReturn, Panic,
         RemoveLock, RemoveDelete, RemoveUnlock, Lock, Unlock, Leave, Goto,
         Label, Critical, AddSection, GetSection, RemoveSection
<1>2. QED
  BY ONLY <1>1, TypeOK DEF TypeOK

LEMMA StepMutexHeld ==
  ASSUME TypeOK, MutexHeld, NEW f \in Frame, Start(f) \/ Acquire(f) \/ Proceed(f)
  PROVE  MutexHeld'
<1>c. Critical = {"add id", "add inc", "add store", "add unlock", "get read",
                  "get unlock", "remove delete", "remove unlock"}
  BY DEF Critical, AddSection, GetSection, RemoveSection
<1>o. \A g \in Frame \ {f} : pc'[g] = pc[g]
  BY OneFrameJumps
<1>t. pc \in [Frame -> Label] /\ Nil \notin Frame
  BY GoConstants DEF TypeOK
<1>1. CASE Acquire(f)
  <2>1. hostContextMapMu = Nil /\ hostContextMapMu' = f /\ pc'[f] \in Critical
    BY <1>1, <1>c, <1>t DEF Acquire, AddLock, GetLock, RemoveLock, Lock, Goto
  <2>2. QED
    BY ONLY <2>1, <1>o, <1>t, MutexHeld DEF MutexHeld
<1>2. CASE AddUnlock(f) \/ GetUnlock(f) \/ RemoveUnlock(f)
  <2>1. pc[f] \in Critical /\ hostContextMapMu' = Nil /\ pc'[f] \notin Critical
    BY <1>2, <1>c, <1>t DEF AddUnlock, GetUnlock, RemoveUnlock, Unlock, Leave, Goto
  <2>2. QED
    BY ONLY <2>1, <1>o, <1>t, MutexHeld DEF MutexHeld
<1>3. CASE AddId(f) \/ AddInc(f) \/ AddStore(f) \/ GetRead(f) \/ RemoveDelete(f)
  <2>1. hostContextMapMu' = hostContextMapMu /\ pc[f] \in Critical /\ pc'[f] \in Critical
    BY <1>3, <1>c, <1>t DEF AddId, AddInc, AddStore, GetRead, RemoveDelete, Goto, shared
  <2>2. QED
    BY ONLY <2>1, <1>o, <1>t, MutexHeld DEF MutexHeld
<1>4. CASE Start(f) \/ Callback(f) \/ VMReturn(f) \/ MethodReturn(f) \/ Panic(f)
  <2>1. /\ hostContextMapMu' = hostContextMapMu
        /\ pc[f] \notin Critical
        /\ pc'[f] \notin Critical
    BY <1>4, <1>c, <1>t DEF Start, Execute, Callback, VMReturn, MethodReturn, Panic, Goto,
                            shared
  <2>2. QED
    BY ONLY <2>1, <1>o, <1>t, MutexHeld DEF MutexHeld
<1>5. QED
  BY <1>1, <1>2, <1>3, <1>4 DEF Proceed

LEMMA StepContextGiven ==
  ASSUME TypeOK, ContextGiven, NEW f \in Frame, Start(f) \/ Acquire(f) \/ Proceed(f)
  PROVE  ContextGiven'
<1>o. \A g \in Frame \ {f} : pc'[g] = pc[g]
  BY OneFrameJumps
<1>1. CASE Start(f)
  <2>1. PICK c \in HostContext : ctx' = [ctx EXCEPT ![f] = c]
    BY <1>1 DEF Start, Execute
  <2>2. QED
    BY ONLY <2>1, <1>o, TypeOK, ContextGiven DEF TypeOK, ContextGiven, Active
<1>2. CASE Panic(f) \/ RemoveUnlock(f)
  <2>1. ctx' = [ctx EXCEPT ![f] = Nil] /\ pc'[f] = "idle"
    BY <1>2 DEF Panic, RemoveUnlock, Leave, Goto, TypeOK
  <2>2. QED
    BY ONLY <2>1, <1>o, TypeOK, ContextGiven DEF TypeOK, ContextGiven, Active
<1>3. CASE (Acquire(f) \/ Proceed(f)) /\ ~Panic(f) /\ ~RemoveUnlock(f)
  <2>1. ctx' = ctx /\ pc[f] # "idle"
    BY <1>3 DEF Acquire, Proceed, AddLock, AddId, AddInc, AddStore, AddUnlock, Callback,
                VMReturn, GetLock, GetRead, GetUnlock, MethodReturn, RemoveLock,
                RemoveDelete, Lock, Unlock, Goto, shared, locals
  <2>2. QED
    BY ONLY <2>1, <1>o, ContextGiven DEF ContextGiven, Active
<1>4. QED
  BY <1>1, <1>2, <1>3

\* An id becomes a frame's own between the load and the store, when the mutex keeps every
\* other frame out of addHostContext.
LEMMA StepIdsFresh ==
  ASSUME TypeOK, MutexHeld, IdsFresh,
         NEW f \in Frame, Start(f) \/ Acquire(f) \/ Proceed(f)
  PROVE  IdsFresh'
<1>o. \A g \in Frame \ {f} : pc'[g] = pc[g]
  BY OneFrameJumps
<1>t. /\ pc \in [Frame -> Label]
      /\ ctxId \in [Frame -> Nat]
      /\ hostContextCounter \in Nat
  BY DEF TypeOK
<1>m. \A g, h \in Frame : pc[g] \in Critical /\ pc[h] \in Critical => g = h
  BY DEF MutexHeld
<1> USE DEF Critical, AddSection, GetSection, RemoveSection
<1>1. CASE AddId(f)
  <2>1. /\ pc[f] = "add id" /\ pc'[f] = "add inc"
        /\ ctxId' = [ctxId EXCEPT ![f] = hostContextCounter]
        /\ hostContextCounter' = hostContextCounter
    BY <1>1, <1>t DEF AddId, Goto, shared
  <2>2. f \notin OwnsId /\ OwnsId' = OwnsId
    BY ONLY <2>1, <1>o DEF OwnsId, Registered, GetSection
  <2>3. \A g \in OwnsId : g \in Frame /\ ctxId'[g] = ctxId[g]
    BY ONLY <2>1, <2>2, <1>t DEF OwnsId, Registered
  <2>4. \A g \in OwnsId' : ctxId'[g] < hostContextCounter'
    BY ONLY <2>1, <2>2, <2>3, IdsFresh DEF IdsFresh
  <2>5. \A g \in Frame : pc'[g] = "add inc" => ctxId'[g] = hostContextCounter'
    BY ONLY <2>1, <1>o, <1>t, IdsFresh DEF IdsFresh
  <2>6. \A g, h \in OwnsId' : g # h => ctxId'[g] # ctxId'[h]
    BY ONLY <2>2, <2>3, IdsFresh DEF IdsFresh
  <2>7. QED
    BY ONLY <2>4, <2>5, <2>6 DEF IdsFresh
<1>2. CASE AddInc(f)
  <2>1. /\ pc[f] = "add inc" /\ pc'[f] = "add store"
        /\ ctxId' = ctxId
        /\ hostContextCounter' = hostContextCounter + 1
    BY <1>2, <1>t DEF AddInc, Goto, locals
  <2>2. f \notin OwnsId /\ OwnsId' = OwnsId \cup {f}
    BY ONLY <2>1, <1>o DEF OwnsId, Registered, GetSection
  <2>3. ctxId[f] = hostContextCounter
    BY ONLY <2>1, IdsFresh DEF IdsFresh
  <2>4. \A g \in Frame : pc'[g] # "add inc"
    BY ONLY <2>1, <1>o, <1>m DEF Critical, AddSection
  <2>5. OwnsId \subseteq Frame
    BY ONLY DEF OwnsId, Registered
  <2>6. \A g \in OwnsId : ctxId[g] \in Nat /\ ctxId[g] < hostContextCounter
    BY ONLY <2>5, <1>t, IdsFresh DEF IdsFresh
  <2>8. \A g \in OwnsId' : ctxId[g] < hostContextCounter + 1
    BY ONLY <2>2, <2>3, <2>6, <1>t
  <2>9. \A g \in OwnsId : ctxId[g] # ctxId[f]
    BY ONLY <2>3, <2>6, <1>t
  <2>10. \A g, h \in OwnsId' : g # h => ctxId[g] # ctxId[h]
    BY ONLY <2>2, <2>9, IdsFresh DEF IdsFresh
  <2>7. QED
    BY ONLY <2>1, <2>4, <2>8, <2>10 DEF IdsFresh
<1>3. CASE ~AddId(f) /\ ~AddInc(f)
  <2> DEFINE Owning == {"add store", "add unlock", "vm", "get lock", "get read",
                        "get unlock", "method", "remove lock", "remove delete"}
  <2>1. /\ ctxId' = ctxId
        /\ hostContextCounter' = hostContextCounter
    BY <1>3 DEF Acquire, Proceed, Start, Execute, AddLock, AddStore, AddUnlock, Callback,
       VMReturn, GetLock, GetRead, GetUnlock, MethodReturn, Panic, RemoveLock,
       RemoveDelete, RemoveUnlock, Lock, Unlock, Leave, Goto, shared, locals
  <2>3. /\ pc'[f] # "add inc"
        /\ pc'[f] \in Owning => pc[f] \in Owning
    <3>1. CASE Start(f) \/ Acquire(f)
      BY <3>1, <1>t DEF Acquire, Start, Execute, AddLock, GetLock, RemoveLock, Lock, Goto
    <3>2. CASE Proceed(f)
      BY <3>2, <1>3, <1>t DEF Proceed, AddStore, AddUnlock, Callback, VMReturn, GetRead,
         GetUnlock, MethodReturn, Panic, RemoveDelete, RemoveUnlock, Unlock, Leave, Goto
    <3>3. QED
      BY <3>1, <3>2
  <2>2. OwnsId' \subseteq OwnsId
    BY ONLY <2>3, <1>o DEF OwnsId, Registered, GetSection
  <2>4. QED
    BY ONLY <2>1, <2>2, <2>3, <1>o, IdsFresh DEF IdsFresh
<1>4. QED
  BY <1>1, <1>2, <1>3

\* What getHostContext reads stays the frame's own until the method returns.
LEMMA StepFoundIsOwn ==
  ASSUME TypeOK, FoundIsOwn, RegisteredIsMapped,
         NEW f \in Frame, Start(f) \/ Acquire(f) \/ Proceed(f)
  PROVE  FoundIsOwn'
<1>o. \A g \in Frame \ {f} : pc'[g] = pc[g]
  BY OneFrameJumps
<1>t. /\ pc \in [Frame -> Label]
      /\ ctx \in [Frame -> HostContext \cup {Nil}]
      /\ found \in [Frame -> HostContext \cup {Nil}]
  BY DEF TypeOK
<1>1. CASE Start(f)
  <2>1. PICK c \in HostContext : ctx' = [ctx EXCEPT ![f] = c]
    BY <1>1 DEF Start, Execute
  <2>2. found' = found /\ pc'[f] = "add lock"
    BY <1>1, <1>t DEF Start, Execute, Goto
  <2>3. QED
    BY ONLY <2>1, <2>2, <1>o, <1>t, FoundIsOwn DEF FoundIsOwn
<1>2. CASE GetRead(f)
  <2>1. f \in Registered
    BY <1>2 DEF GetRead, Goto, Registered, GetSection
  <2>2. ctxId[f] \in DOMAIN hostContextMap /\ hostContextMap[ctxId[f]] = ctx[f]
    BY ONLY <2>1, RegisteredIsMapped DEF RegisteredIsMapped
  <2>3. found' = [found EXCEPT ![f] = ctx[f]] /\ ctx' = ctx
    BY <1>2, <2>2 DEF GetRead
  <2>4. QED
    BY ONLY <2>3, <1>o, <1>t, FoundIsOwn DEF FoundIsOwn
<1>3. CASE MethodReturn(f) \/ Panic(f) \/ RemoveUnlock(f)
  <2>1. /\ found' = [found EXCEPT ![f] = Nil]
        /\ ctx' \in {ctx, [ctx EXCEPT ![f] = Nil]}
        /\ pc'[f] \in {"vm", "idle"}
    BY <1>3, <1>t DEF MethodReturn, Panic, RemoveUnlock, Leave, Goto
  <2>2. QED
    BY ONLY <2>1, <1>o, <1>t, FoundIsOwn DEF FoundIsOwn
<1>4. CASE ~Start(f) /\ ~GetRead(f) /\ ~MethodReturn(f) /\ ~Panic(f) /\ ~RemoveUnlock(f)
  <2>1. /\ found' = found /\ ctx' = ctx
        /\ pc'[f] \in {"get unlock", "method"} => pc[f] \in {"get unlock", "method"}
    BY <1>4, <1>t DEF Acquire, Proceed, AddLock, AddId, AddInc, AddStore, AddUnlock,
       Callback, VMReturn, GetLock, GetUnlock, RemoveLock,
       RemoveDelete, Lock, Unlock, Goto, locals
  <2>2. QED
    BY ONLY <2>1, <1>o, FoundIsOwn DEF FoundIsOwn
<1>5. QED
  BY <1>1, <1>2, <1>3, <1>4

\* The map: a frame stores and deletes under its own id only, and ids are distinct.
LEMMA StepRegisteredIsMapped ==
  ASSUME TypeOK, IdsFresh, RegisteredIsMapped,
         NEW f \in Frame, Start(f) \/ Acquire(f) \/ Proceed(f)
  PROVE  RegisteredIsMapped'
<1>o. \A g \in Frame \ {f} : pc'[g] = pc[g]
  BY OneFrameJumps
<1>t. /\ pc \in [Frame -> Label]
      /\ ctx \in [Frame -> HostContext \cup {Nil}]
      /\ ctxId \in [Frame -> Nat]
  BY DEF TypeOK
<1>d. \A g, h \in OwnsId : g # h => ctxId[g] # ctxId[h]
  BY DEF IdsFresh
<1>r. Registered \subseteq OwnsId /\ Registered \subseteq Frame
  BY DEF OwnsId, Registered
<1>1. CASE AddStore(f)
  <2>1. /\ f \in OwnsId /\ f \notin Registered
        /\ Registered' = Registered \cup {f}
    <3>1. pc[f] = "add store" /\ pc'[f] = "add unlock"
      BY <1>1, <1>t DEF AddStore, Goto
    <3>2. QED
      BY ONLY <3>1, <1>o DEF OwnsId, Registered, GetSection
  <2>2. /\ hostContextMap' = [i \in DOMAIN hostContextMap \cup {ctxId[f]} |->
                                IF i = ctxId[f] THEN ctx[f] ELSE hostContextMap[i]]
        /\ ctxId' = ctxId /\ ctx' = ctx
    BY <1>1 DEF AddStore, locals
  <2>3. QED
    BY ONLY <2>1, <2>2, <1>d, <1>r, RegisteredIsMapped DEF RegisteredIsMapped
<1>2. CASE RemoveDelete(f)
  <2>1. f \in OwnsId /\ Registered' = Registered \ {f}
    <3>1. pc[f] = "remove delete" /\ pc'[f] = "remove unlock"
      BY <1>2, <1>t DEF RemoveDelete, Goto
    <3>2. QED
      BY ONLY <3>1, <1>o DEF OwnsId, Registered, GetSection
  <2>2. /\ hostContextMap' = [i \in DOMAIN hostContextMap \ {ctxId[f]} |->
                                hostContextMap[i]]
        /\ ctxId' = ctxId /\ ctx' = ctx
    BY <1>2 DEF RemoveDelete, locals
  <2>3. QED
    BY ONLY <2>1, <2>2, <1>d, <1>r, RegisteredIsMapped DEF RegisteredIsMapped
<1>3. CASE AddId(f) \/ Start(f)
  <2>1. f \notin Registered' /\ Registered' = Registered
    <3>1. pc[f] \in {"add id", "idle"} /\ pc'[f] \in {"add inc", "add lock"}
      BY <1>3, <1>t DEF AddId, Start, Execute, Goto
    <3>2. QED
      BY ONLY <3>1, <1>o DEF Registered, GetSection
  <2>2. /\ hostContextMap' = hostContextMap
        /\ \A g \in Frame \ {f} : ctxId'[g] = ctxId[g] /\ ctx'[g] = ctx[g]
    BY <1>3, <1>t DEF AddId, Start, Execute, shared
  <2>3. QED
    BY ONLY <2>1, <2>2, <1>r, RegisteredIsMapped DEF RegisteredIsMapped
<1>4. CASE ~AddStore(f) /\ ~RemoveDelete(f) /\ ~AddId(f) /\ ~Start(f)
  <2>1. /\ UNCHANGED <<hostContextMap, ctxId>>
        /\ ctx' = ctx \/ (ctx' = [ctx EXCEPT ![f] = Nil] /\ f \notin Registered')
    <3>1. CASE Panic(f) \/ RemoveUnlock(f)
      BY <3>1, <1>t DEF Panic, RemoveUnlock, Leave, Goto, shared, Registered, GetSection
    <3>2. CASE ~Panic(f) /\ ~RemoveUnlock(f)
      BY <3>2, <1>4 DEF Acquire, Proceed, AddLock, AddInc, AddUnlock, Callback, VMReturn,
         GetLock, GetRead, GetUnlock, MethodReturn, RemoveLock, Lock, Unlock, shared, locals
    <3>3. QED
      BY <3>1, <3>2
  <2>2. f \in Registered' => f \in Registered
    <3>1. CASE Acquire(f)
      BY <3>1, <1>t DEF Acquire, AddLock, GetLock, RemoveLock, Lock, Goto, Registered,
         GetSection
    <3>2. CASE Proceed(f)
      BY <3>2, <1>4, <1>t DEF Proceed, AddInc, AddUnlock, Callback, VMReturn, GetRead,
         GetUnlock, MethodReturn, Panic, RemoveUnlock, Unlock, Leave, Goto, Registered, GetSection
    <3>3. QED
      BY <1>4, <3>1, <3>2
  <2>3. Registered' \subseteq Registered
    BY ONLY <2>2, <1>o DEF Registered
  <2>4. \A g \in Registered' : ctx'[g] = ctx[g]
    BY ONLY <2>1, <2>3, <1>t, <1>r
  <2>5. QED
    BY ONLY <2>1, <2>3, <2>4, RegisteredIsMapped DEF RegisteredIsMapped
<1>5. QED
  BY <1>1, <1>2, <1>3, <1>4

\* A panic abandons the id its frame owns; the counter never goes back to it.
LEMMA StepAbandonedStay ==
  ASSUME TypeOK, IdsFresh, AbandonedStay,
         NEW f \in Frame, Start(f) \/ Acquire(f) \/ Proceed(f)
  PROVE  AbandonedStay'
<1>o. \A g \in Frame \ {f} : pc'[g] = pc[g]
  BY OneFrameJumps
<1>t. /\ pc \in [Frame -> Label]
      /\ ctxId \in [Frame -> Nat]
      /\ hostContextCounter \in Nat
      /\ abandoned \subseteq Nat
  BY DEF TypeOK
<1>1. CASE Panic(f)
  <2>1. pc[f] = "method" /\ pc'[f] = "idle"
    BY <1>1, <1>t DEF Panic, Goto
  <2>2. f \in OwnsId /\ OwnsId' = OwnsId \ {f}
    BY ONLY <2>1, <1>o DEF OwnsId, Registered, GetSection
  <2>3. /\ abandoned' = abandoned \cup {ctxId[f]}
        /\ UNCHANGED <<ctxId, hostContextCounter>>
    BY <1>1 DEF Panic, Leave, shared
  <2>4. QED
    BY ONLY <2>2, <2>3, IdsFresh, AbandonedStay DEF IdsFresh, AbandonedStay
<1>2. CASE AddInc(f)
  <2>1. /\ pc[f] = "add inc" /\ pc'[f] = "add store"
        /\ ctxId' = ctxId
        /\ hostContextCounter' = hostContextCounter + 1
        /\ abandoned' = abandoned
    BY <1>2, <1>t DEF AddInc, Goto, locals, Start, Execute, Acquire, AddLock, GetLock,
                      RemoveLock, Lock, Proceed, Panic
  <2>2. OwnsId' = OwnsId \cup {f} /\ ctxId[f] = hostContextCounter
    BY ONLY <2>1, <1>o, IdsFresh DEF IdsFresh, OwnsId, Registered, GetSection
  <2>3. ASSUME NEW i \in abandoned
        PROVE  i < hostContextCounter + 1 /\ \A g \in OwnsId' : ctxId[g] # i
    <3>1. i \in Nat /\ i < hostContextCounter /\ \A g \in OwnsId : ctxId[g] # i
      BY <1>t DEF AbandonedStay
    <3>2. QED
      BY ONLY <2>2, <3>1, <1>t
  <2>4. QED
    BY ONLY <2>1, <2>3 DEF AbandonedStay
<1>3. CASE ~Panic(f) /\ ~AddInc(f)
  <2>1. abandoned' = abandoned /\ hostContextCounter' = hostContextCounter
    BY <1>3 DEF Acquire, Proceed, Start, Execute, AddLock, AddId, AddStore, AddUnlock,
       Callback, VMReturn, GetLock, GetRead, GetUnlock, MethodReturn, RemoveLock,
       RemoveDelete, RemoveUnlock, Lock, Unlock, shared
  <2>2. \A g \in OwnsId' : g \in OwnsId /\ ctxId'[g] = ctxId[g]
    <3>1. CASE AddId(f)
      <4>1. pc'[f] = "add inc" /\ \A g \in Frame \ {f} : ctxId'[g] = ctxId[g]
        BY <3>1, <1>t DEF AddId, Goto
      <4>2. QED
        BY ONLY <4>1, <1>o DEF OwnsId, Registered, GetSection
    <3>2. CASE ~AddId(f)
      <4>1. ctxId' = ctxId
        BY <3>2, <1>3 DEF Acquire, Proceed, Start, Execute, AddLock, AddStore, AddUnlock,
           Callback, VMReturn, GetLock, GetRead, GetUnlock, MethodReturn, RemoveLock,
           RemoveDelete, RemoveUnlock, Lock, Unlock, Leave, locals
      <4>2. f \in OwnsId' => f \in OwnsId
        <5>1. CASE Start(f) \/ Acquire(f)
          BY <5>1, <1>t DEF Acquire, Start, Execute, AddLock, GetLock, RemoveLock, Lock,
             Goto, OwnsId, Registered, GetSection
        <5>2. CASE Proceed(f)
          BY <5>2, <3>2, <1>3, <1>t DEF Proceed, AddStore, AddUnlock, Callback, VMReturn,
             GetRead, GetUnlock, MethodReturn, RemoveDelete, RemoveUnlock, Unlock, Goto,
             OwnsId, Registered, GetSection
        <5>3. QED
          BY <5>1, <5>2
      <4>3. QED
        BY ONLY <4>1, <4>2, <1>o DEF OwnsId, Registered
    <3>3. QED
      BY <3>1, <3>2
  <2>3. QED
    BY ONLY <2>1, <2>2, AbandonedStay DEF AbandonedStay
<1>4. QED
  BY <1>1, <1>2, <1>3

\* The map changes where an entry appears or goes; a panic moves an entry's owner only.
LEMMA StepNothingLeaks ==
  ASSUME TypeOK, IdsFresh, AbandonedStay, NothingLeaks,
         NEW f \in Frame, Start(f) \/ Acquire(f) \/ Proceed(f)
  PROVE  NothingLeaks'
<1>o. \A g \in Frame \ {f} : pc'[g] = pc[g]
  BY OneFrameJumps
<1>t. pc \in [Frame -> Label] /\ ctxId \in [Frame -> Nat]
  BY DEF TypeOK
<1>d. \A g, h \in Registered : g # h => ctxId[g] # ctxId[h]
  BY DEF IdsFresh, OwnsId
<1>r. Registered \subseteq Frame
  BY DEF Registered
<1>p. AddStore(f) \/ RemoveDelete(f) \/ AddId(f) => abandoned' = abandoned
  <2>1. pc[f] \in {"add store", "remove delete", "add id"} => abandoned' = abandoned
    BY DEF Start, Acquire, Proceed, Panic, Goto
  <2>2. QED
    BY <2>1 DEF AddStore, RemoveDelete, AddId, Goto
<1>1. CASE AddStore(f)
  <2>1. Registered' = Registered \cup {f}
    <3>1. pc'[f] = "add unlock"
      BY <1>1, <1>t DEF AddStore, Goto
    <3>2. QED
      BY ONLY <3>1, <1>o DEF Registered
  <2>2. /\ DOMAIN hostContextMap' = DOMAIN hostContextMap \cup {ctxId[f]}
        /\ ctxId' = ctxId /\ abandoned' = abandoned
    BY <1>1, <1>p DEF AddStore, locals, Goto
  <2>3. QED
    BY ONLY <2>1, <2>2, NothingLeaks DEF NothingLeaks
<1>2. CASE RemoveDelete(f)
  <2>1. f \in Registered /\ Registered' = Registered \ {f}
    <3>1. pc[f] = "remove delete" /\ pc'[f] = "remove unlock"
      BY <1>2, <1>t DEF RemoveDelete, Goto
    <3>2. QED
      BY ONLY <3>1, <1>o DEF Registered, GetSection
  <2>2. /\ DOMAIN hostContextMap' = DOMAIN hostContextMap \ {ctxId[f]}
        /\ ctxId' = ctxId /\ abandoned' = abandoned
    BY <1>2, <1>p DEF RemoveDelete, locals, Goto
  <2>3. ctxId[f] \notin abandoned
    BY <2>1 DEF AbandonedStay, OwnsId
  <2>4. QED
    BY ONLY <2>1, <2>2, <2>3, <1>d, <1>r, NothingLeaks DEF NothingLeaks
<1>3. CASE Panic(f)
  <2>1. f \in Registered /\ Registered' = Registered \ {f}
    <3>1. pc[f] = "method" /\ pc'[f] = "idle"
      BY <1>3, <1>t DEF Panic, Goto
    <3>2. QED
      BY ONLY <3>1, <1>o DEF Registered, GetSection
  <2>2. /\ hostContextMap' = hostContextMap
        /\ ctxId' = ctxId /\ abandoned' = abandoned \cup {ctxId[f]}
    BY <1>3 DEF Panic, Leave, shared
  <2>3. QED
    BY ONLY <2>1, <2>2, <1>r, NothingLeaks DEF NothingLeaks
<1>4. CASE ~AddStore(f) /\ ~RemoveDelete(f) /\ ~Panic(f)
  <2>1. Registered' = Registered
    <3>1. f \in Registered' <=> f \in Registered
      <4>1. CASE Start(f) \/ Acquire(f)
        BY <4>1, <1>t DEF Acquire, Start, Execute, AddLock, GetLock, RemoveLock, Lock, Goto,
           Registered, GetSection
      <4>2. CASE Proceed(f)
        BY <4>2, <1>4, <1>t DEF Proceed, AddId, AddInc, AddUnlock,
           Callback, VMReturn, GetRead, GetUnlock, MethodReturn, RemoveUnlock,
           Unlock, Leave, Goto, Registered, GetSection
      <4>3. QED
        BY <4>1, <4>2
    <3>2. QED
      BY ONLY <3>1, <1>o DEF Registered
  <2>2. /\ hostContextMap' = hostContextMap
        /\ \A g \in Registered : ctxId'[g] = ctxId[g]
        /\ abandoned' = abandoned
    <3>1. CASE AddId(f)
      BY <3>1, <1>p, <1>t, <1>r DEF AddId, Goto, shared, Registered, GetSection
    <3>2. CASE ~AddId(f)
      BY <3>2, <1>4 DEF Acquire, Proceed, Start, Execute, AddLock, AddInc, AddUnlock,
         Callback, VMReturn, GetLock, GetRead, GetUnlock, MethodReturn, RemoveLock,
         RemoveUnlock, Lock, Unlock, Leave, shared, locals
    <3>3. QED
      BY <3>1, <3>2
  <2>3. QED
    BY ONLY <2>1, <2>2, NothingLeaks DEF NothingLeaks
<1>5. QED
  BY <1>1, <1>2, <1>3, <1>4

LEMMA StepIInv == IInv /\ [Next]_vars => IInv'
<1> SUFFICES ASSUME IInv, [Next]_vars PROVE IInv'
  OBVIOUS
<1>1. ASSUME NEW f \in Frame, Start(f) \/ Acquire(f) \/ Proceed(f) PROVE IInv'
  <2>1. TypeOK'
    BY <1>1, StepTypeOK DEF IInv, Next
  <2>2. QED
    BY <1>1, <2>1, StepMutexHeld, StepContextGiven, StepIdsFresh, StepFoundIsOwn,
       StepAbandonedStay, StepRegisteredIsMapped, StepNothingLeaks DEF IInv
<1>2. CASE UNCHANGED vars
  <2>1. Registered' = Registered /\ Active' = Active /\ OwnsId' = OwnsId
    BY <1>2 DEF OwnsId, Registered, Active, vars
  <2>2. TypeOK' /\ ContextGiven' /\ MutexHeld'
    BY <1>2, <2>1 DEF IInv, TypeOK, ContextGiven, MutexHeld, vars, shared, locals
  <2>3. IdsFresh' /\ AbandonedStay' /\ FoundIsOwn'
    BY <1>2, <2>1 DEF IInv, IdsFresh, AbandonedStay, FoundIsOwn, vars, shared, locals
  <2>4. RegisteredIsMapped' /\ NothingLeaks'
    BY <1>2, <2>1 DEF IInv, RegisteredIsMapped, NothingLeaks, vars, shared, locals
  <2>5. QED
    BY <2>2, <2>3, <2>4 DEF IInv
<1>3. QED
  BY <1>1, <1>2 DEF Next

LEMMA Invariance == Spec => []IInv
<1>1. Init => IInv
  BY InitIInv
<1>2. IInv /\ [Next]_vars => IInv'
  BY StepIInv
<1>3. QED
  BY <1>1, <1>2, PTL DEF Spec

(* For any number of goroutines, contexts and nested executions, every     *)
(* callback runs a method of the context its own Execute was given, also   *)
(* when methods panic and leave entries behind.                            *)
THEOREM OwnContext == Spec => []CallbackFindsOwnContext
<1>1. IInv => CallbackFindsOwnContext
  BY DEF IInv, FoundIsOwn, CallbackFindsOwnContext
<1>2. QED
  BY <1>1, Invariance, PTL

(* Live executions never share an id.                                      *)
THEOREM DistinctIds == Spec => []LiveIdsDistinct
<1>1. IInv => LiveIdsDistinct
  BY DEF IInv, IdsFresh, LiveIdsDistinct, OwnsId
<1>2. QED
  BY <1>1, Invariance, PTL

(* A context stays in the map, under its own id, while its Execute runs.   *)
THEOREM ContextsMapped == Spec => []RegisteredIsMapped
<1>1. IInv => RegisteredIsMapped
  BY DEF IInv
<1>2. QED
  BY <1>1, Invariance, PTL

(* The types of the binding's state.                                       *)
THEOREM Types == Spec => []TypeOK
<1>1. IInv => TypeOK
  BY DEF IInv
<1>2. QED
  BY <1>1, Invariance, PTL

(* The map holds exactly the contexts of the executions that are running   *)
(* and of those a panic unwound: no other entry outlives its Execute.      *)
THEOREM NoLeaks == Spec => []NothingLeaks
<1>1. IInv => NothingLeaks
  BY DEF IInv
<1>2. QED
  BY <1>1, Invariance, PTL
-----------------------------------------------------------------------------
\* The frames of a goroutine are a stack: below the last one, all wait in a method for
\* the one they called, which has the greater id.
Nested ==
  /\ \A f \in Active : parent[f] # Nil =>
       /\ pc[parent[f]] = "method"
       /\ f \in OwnsId => ctxId[parent[f]] < ctxId[f]
  /\ \A f, g \in Active : parent[f] = parent[g] /\ parent[f] # Nil => f = g

LEMMA StepNested ==
  ASSUME IInv, Nested, NEW f \in Frame, Start(f) \/ Acquire(f) \/ Proceed(f)
  PROVE  Nested'
<1>1. \A g \in Frame \ {f} : pc'[g] = pc[g]
  BY OneFrameJumps DEF IInv
<1>2. /\ pc \in [Frame -> Label] /\ parent \in [Frame -> Frame \cup {Nil}]
      /\ ctxId \in [Frame -> Nat] /\ Nil \notin Frame
  BY GoConstants DEF IInv, TypeOK
<1>3. \A g \in Active : parent[g] # f
  <2>1. CASE pc[f] = "method"
    <3>1. ~HasChild(f)
      BY <2>1 DEF Acquire, Proceed, Start, Execute, AddLock, AddId, AddInc, AddStore, AddUnlock,
         Callback, VMReturn, GetLock, GetRead, GetUnlock, MethodReturn, Panic,
         RemoveLock, RemoveDelete, RemoveUnlock, Lock, Unlock, Goto
    <3> QED
      BY <3>1 DEF HasChild
  <2>2. CASE pc[f] # "method"
    BY <1>2, <2>2 DEF Nested
  <2> QED
    BY <2>1, <2>2
<1>4. \A g \in Frame \ {f} : /\ parent'[g] = parent[g] /\ ctxId'[g] = ctxId[g]
                             /\ g \in Active' <=> g \in Active
                             /\ g \in OwnsId' <=> g \in OwnsId
  <2>1. \A g \in Frame \ {f} : parent'[g] = parent[g] /\ ctxId'[g] = ctxId[g]
    BY <1>2 DEF Acquire, Proceed, Start, Execute, AddLock, AddId, AddInc, AddStore, AddUnlock,
       Callback, VMReturn, GetLock, GetRead, GetUnlock, MethodReturn, Panic,
       RemoveLock, RemoveDelete, RemoveUnlock, Lock, Unlock, Leave, locals
  <2> QED
    BY ONLY <1>1, <2>1 DEF Active, OwnsId, Registered
<1>5. \A g \in Active' \ {f} : g \in Active /\ g \in Frame /\ parent[g] # f
  BY <1>3, <1>4 DEF Active
<1>6. \A g \in Active' \ {f} : parent'[g] # Nil =>
        /\ pc'[parent'[g]] = "method"
        /\ g \in OwnsId' => ctxId'[parent'[g]] < ctxId'[g]
  <2> TAKE g \in Active' \ {f}
  <2> HAVE parent'[g] # Nil
  <2>1. g \in Active /\ parent'[g] = parent[g] /\ parent[g] \in Frame \ {f}
    BY <1>2, <1>4, <1>5
  <2> QED
    BY <1>1, <1>4, <1>5, <2>1 DEF Nested
<1>7. \A g, h \in Active' \ {f} : parent'[g] = parent'[h] /\ parent'[g] # Nil => g = h
  BY <1>4, <1>5 DEF Nested
<1>8. CASE Start(f)
  <2>1. PICK p \in Frame \cup {Nil} :
          /\ parent' = [parent EXCEPT ![f] = p]
          /\ p = Nil \/ (pc[p] = "method" /\ ~HasChild(p))
    BY <1>8 DEF Start, Execute
  <2>2. pc[f] = "idle" /\ pc'[f] = "add lock"
    BY <1>2, <1>8 DEF Start, Execute, Goto
  <2>3. parent'[f] = p /\ f \notin OwnsId'
    BY <1>2, <2>1, <2>2 DEF OwnsId, Registered, GetSection
  <2>4. p # Nil => pc'[p] = "method"
    BY <1>1, <2>1, <2>2
  <2>5. \A g \in Active' \ {f} : p # Nil => parent'[g] # p
    BY <1>4, <1>5, <2>1 DEF HasChild
  <2> QED
    BY <1>6, <1>7, <2>3, <2>4, <2>5 DEF Nested
<1>9. CASE Acquire(f) \/ Proceed(f)
  <2> SUFFICES ASSUME f \in Active' PROVE Nested'
    BY <1>6, <1>7 DEF Nested
  <2>1. f \in Active /\ parent'[f] = parent[f]
    <3>1. pc'[f] # "idle"
      BY DEF Active
    <3>2. pc[f] # "idle"
      BY <1>9 DEF Acquire, Proceed, AddLock, AddId, AddInc, AddStore, AddUnlock,
         Callback, VMReturn, GetLock, GetRead, GetUnlock, MethodReturn, Panic,
         RemoveLock, RemoveDelete, RemoveUnlock, Lock, Unlock, Goto
    <3>3. ~Panic(f) /\ ~RemoveUnlock(f)
      BY <1>2, <3>1 DEF Panic, RemoveUnlock, Goto
    <3>4. parent' = parent
      BY <1>9, <3>3 DEF Acquire, Proceed, AddLock, AddId, AddInc, AddStore, AddUnlock,
         Callback, VMReturn, GetLock, GetRead, GetUnlock, MethodReturn,
         RemoveLock, RemoveDelete, Lock, Unlock, locals
    <3> QED
      BY <3>2, <3>4 DEF Active
  <2>2. ASSUME parent[f] # Nil
        PROVE  /\ pc'[parent[f]] = "method"
               /\ f \in OwnsId' => ctxId'[parent[f]] < ctxId'[f]
    <3>1. parent[f] \in Frame \ {f} /\ pc[parent[f]] = "method"
      BY <1>2, <1>3, <2>1, <2>2 DEF Nested, Active
    <3>2. ctxId'[parent[f]] = ctxId[parent[f]] /\ pc'[parent[f]] = "method"
      BY <1>1, <1>4, <3>1
    <3>3. CASE AddInc(f)
      <4>1. ctxId'[f] = hostContextCounter
        BY <3>3 DEF AddInc, Goto, locals, IInv, IdsFresh
      <4>2. parent[f] \in OwnsId
        BY <3>1 DEF OwnsId, Registered
      <4> QED
        BY <3>2, <4>1, <4>2 DEF IInv, IdsFresh
    <3>4. CASE AddId(f)
      <4>1. pc'[f] = "add inc"
        BY <1>2, <3>4 DEF AddId, Goto
      <4> QED
        BY <3>2, <4>1 DEF OwnsId, Registered, GetSection
    <3>5. CASE ~AddInc(f) /\ ~AddId(f)
      <4>1. ctxId' = ctxId
        BY <1>9, <3>5 DEF Acquire, Proceed, AddLock, AddStore, AddUnlock,
           Callback, VMReturn, GetLock, GetRead, GetUnlock, MethodReturn, Panic,
           RemoveLock, RemoveDelete, RemoveUnlock, Lock, Unlock, Leave, locals
      <4>2. f \in OwnsId' => f \in OwnsId
        <5>1. CASE Acquire(f)
          BY <5>1, <1>2 DEF Acquire, AddLock, GetLock, RemoveLock, Lock,
             Goto, OwnsId, Registered, GetSection
        <5>2. CASE Proceed(f)
          BY <5>2, <3>5, <1>2 DEF Proceed, AddStore, AddUnlock, Callback, VMReturn,
             GetRead, GetUnlock, MethodReturn, Panic, RemoveDelete, RemoveUnlock, Unlock, Goto,
             OwnsId, Registered, GetSection
        <5> QED
          BY <1>9, <5>1, <5>2
      <4> QED
        BY <2>1, <2>2, <3>2, <4>1, <4>2 DEF Nested
    <3> QED
      BY <3>3, <3>4, <3>5
  <2>3. \A g \in Active' \ {f} : parent'[f] = parent'[g] /\ parent'[f] # Nil => FALSE
    BY <1>4, <1>5, <2>1 DEF Nested
  <2> QED
    BY <1>6, <1>7, <2>1, <2>2, <2>3 DEF Nested
<1> QED
  BY <1>8, <1>9

LEMMA Nesting == Spec => []Nested
<1>1. Init => Nested
  BY DEF Init, Nested, Active
<1>2. IInv /\ Nested /\ [Next]_vars => Nested'
  <2> SUFFICES ASSUME IInv, Nested, [Next]_vars PROVE Nested'
    OBVIOUS
  <2>1. CASE UNCHANGED vars
    BY <2>1 DEF Nested, Active, OwnsId, Registered, vars, locals
  <2> QED
    BY <2>1, StepNested DEF Next
<1> QED
  BY <1>1, <1>2, Invariance, PTL DEF Spec

\* What a frame needs for its next step: the mutex, or its callee's return.
CanGoOn(f) ==
  /\ pc[f] \in {"add lock", "get lock", "remove lock"} => hostContextMapMu = Nil
  /\ pc[f] = "method" => ~HasChild(f)

SomeoneGoesOn == Active # {} => \E f \in Active : CanGoOn(f)

LEMMA LastOfStack ==
  ASSUME IInv, Active # {}, Active \subseteq OwnsId
  PROVE  \E f \in Active : \A g \in Active : ctxId[g] <= ctxId[f]
<1>1. hostContextCounter \in Nat /\ \A f \in Active : ctxId[f] \in Nat
  BY DEF IInv, TypeOK, Active
<1>2. \A f \in Active : ctxId[f] < hostContextCounter
  BY DEF IInv, IdsFresh
<1> DEFINE T == {hostContextCounter - ctxId[f] : f \in Active}
<1>3. T \subseteq Nat
  BY <1>1, <1>2
<1>4. PICK x \in T : \A y \in T : ~(<<y, x>> \in OpToRel(<, Nat))
  <2>1. T # {}
    OBVIOUS
  <2> HIDE DEF T
  <2> QED
    BY <1>3, <2>1, NatLessThanWellFounded, WFMin
<1>5. PICK f \in Active : x = hostContextCounter - ctxId[f]
  BY <1>4
<1>6. ASSUME NEW g \in Active
      PROVE  ctxId[g] <= ctxId[f]
  <2>1. hostContextCounter - ctxId[g] \in T /\ x \in T
    BY <1>4
  <2>2. ~(hostContextCounter - ctxId[g] < x)
    BY <1>3, <1>4, <2>1 DEF OpToRel
  <2> QED
    BY <1>1, <1>5, <2>2
<1> QED
  BY <1>6

(* The executions never all wait: the mutex is not held while a method     *)
(* runs, so that nested executions take it again, and the last frame of    *)
(* a goroutine waits for nobody but the holder of the mutex.               *)
THEOREM NoDeadlock == Spec => []SomeoneGoesOn
<1>1. IInv /\ Nested => SomeoneGoesOn
  <2> SUFFICES ASSUME IInv, Nested, Active # {} PROVE \E f \in Active : CanGoOn(f)
    BY DEF SomeoneGoesOn
  <2>1. CASE \E f \in Active : pc[f] \in Critical
    <3>1. PICK f \in Active : pc[f] \in Critical
      BY <2>1
    <3> QED
      BY <3>1 DEF CanGoOn, Critical, AddSection, GetSection, RemoveSection
  <2>2. CASE \A f \in Active : pc[f] \notin Critical
    <3>1. hostContextMapMu = Nil
      <4>1. \A f \in Frame : pc[f] \notin Critical
        BY <2>2 DEF Active, Critical, AddSection, GetSection, RemoveSection
      <4> QED
        BY <4>1 DEF IInv, MutexHeld, TypeOK
    <3>2. CASE \E f \in Active : pc[f] # "method"
      BY <3>1, <3>2 DEF CanGoOn
    <3>3. CASE \A f \in Active : pc[f] = "method"
      <4>1. Active \subseteq OwnsId
        BY <3>3 DEF Active, OwnsId, Registered
      <4>2. PICK f \in Active : \A g \in Active : ctxId[g] <= ctxId[f]
        BY <4>1, LastOfStack
      <4>3. f \in Frame /\ f # Nil
        BY GoConstants DEF Active
      <4>4. ASSUME NEW g \in Active, parent[g] = f
            PROVE  FALSE
        <5>1. ctxId[f] < ctxId[g]
          BY <4>1, <4>3, <4>4 DEF Nested
        <5>2. ctxId[g] <= ctxId[f] /\ ctxId[f] \in Nat /\ ctxId[g] \in Nat
          BY <4>2 DEF IInv, TypeOK, Active
        <5> QED
          BY <5>1, <5>2
      <4>5. ~HasChild(f)
        BY <4>4 DEF HasChild
      <4> QED
        BY <3>1, <4>5 DEF CanGoOn
    <3> QED
      BY <3>2, <3>3
  <2> QED
    BY <2>1, <2>2
<1> QED
  BY <1>1, Invariance, Nesting, PTL

\* What is left of a frame's Execute, in steps of its own.
Rest(l, n) ==
  CASE l = "idle" -> 0
    [] l = "remove unlock" -> 1
    [] l = "remove delete" -> 2
    [] l = "remove lock" -> 3
    [] l = "vm" -> 5 * n + 4
    [] l = "method" -> 5 * n + 5
    [] l = "get unlock" -> 5 * n + 6
    [] l = "get read" -> 5 * n + 7
    [] l = "get lock" -> 5 * n + 8
    [] l = "add unlock" -> 5 * n + 5
    [] l = "add store" -> 5 * n + 6
    [] l = "add inc" -> 5 * n + 7
    [] l = "add id" -> 5 * n + 8
    [] l = "add lock" -> 5 * n + 9

StepsLeft(f) == Rest(pc[f], MaxCallbacks - callbacks[f])

CallbacksBound == \A f \in Frame : callbacks[f] <= MaxCallbacks

\* A step is one of a frame that starts, or that comes nearer to its return.
Nearer ==
  \E f \in Frame :
    /\ pc[f] = "idle" \/ StepsLeft(f)' < StepsLeft(f)
    /\ \A g \in Frame \ {f} : StepsLeft(g)' = StepsLeft(g)

LEMMA RestOfExecute ==
  ASSUME NEW n \in Nat
  PROVE  /\ Rest("idle", n) = 0
         /\ Rest("remove unlock", n) = 1
         /\ Rest("remove delete", n) = 2
         /\ Rest("remove lock", n) = 3
         /\ Rest("vm", n) = 5 * n + 4
         /\ Rest("method", n) = 5 * n + 5
         /\ Rest("get unlock", n) = 5 * n + 6
         /\ Rest("get read", n) = 5 * n + 7
         /\ Rest("get lock", n) = 5 * n + 8
         /\ Rest("add unlock", n) = 5 * n + 5
         /\ Rest("add store", n) = 5 * n + 6
         /\ Rest("add inc", n) = 5 * n + 7
         /\ Rest("add id", n) = 5 * n + 8
         /\ Rest("add lock", n) = 5 * n + 9
BY Zenon DEF Rest

LEMMA RestIsBounded ==
  ASSUME NEW n \in Nat, NEW l \in Label
  PROVE  Rest(l, n) \in 0..(5 * n + 9)
<1>1. Rest(l, n) \in {0, 1, 2, 3, 5 * n + 4, 5 * n + 5, 5 * n + 6, 5 * n + 7, 5 * n + 8, 5 * n + 9}
  BY RestOfExecute, Zenon DEF Label, Critical, AddSection, GetSection, RemoveSection
<1> QED
  BY ONLY <1>1, n \in Nat

\* The jumps of a frame that is neither called back nor returns.
Follows(l, m) ==
  \/ l = "add lock" /\ m = "add id"
  \/ l = "add id" /\ m = "add inc"
  \/ l = "add inc" /\ m = "add store"
  \/ l = "add store" /\ m = "add unlock"
  \/ l = "add unlock" /\ m = "vm"
  \/ l = "vm" /\ m = "remove lock"
  \/ l = "get lock" /\ m = "get read"
  \/ l = "get read" /\ m = "get unlock"
  \/ l = "get unlock" /\ m = "method"
  \/ l = "method" /\ m = "vm"
  \/ l = "remove lock" /\ m = "remove delete"
  \/ l = "remove delete" /\ m = "remove unlock"

LEMMA RestShrinks ==
  ASSUME NEW n \in Nat, NEW l, NEW m, Follows(l, m)
  PROVE  Rest(m, n) < Rest(l, n)
<1>1. \/ Rest(l, n) = 5 * n + 9 /\ Rest(m, n) = 5 * n + 8
      \/ Rest(l, n) = 5 * n + 8 /\ Rest(m, n) = 5 * n + 7
      \/ Rest(l, n) = 5 * n + 7 /\ Rest(m, n) = 5 * n + 6
      \/ Rest(l, n) = 5 * n + 6 /\ Rest(m, n) = 5 * n + 5
      \/ Rest(l, n) = 5 * n + 5 /\ Rest(m, n) = 5 * n + 4
      \/ Rest(l, n) = 5 * n + 4 /\ Rest(m, n) = 3
      \/ Rest(l, n) = 3 /\ Rest(m, n) = 2
      \/ Rest(l, n) = 2 /\ Rest(m, n) = 1
  BY RestOfExecute, Zenon DEF Follows
<1> QED
  BY ONLY <1>1, n \in Nat

LEMMA StepNearer ==
  ASSUME TypeOK, CallbacksBound, NEW f \in Frame, Acquire(f) \/ Proceed(f)
  PROVE  StepsLeft(f)' < StepsLeft(f) /\ callbacks'[f] <= MaxCallbacks
<1> DEFINE n == MaxCallbacks - callbacks[f]
<1>1. /\ pc \in [Frame -> Label] /\ callbacks \in [Frame -> Nat]
      /\ MaxCallbacks \in Nat /\ callbacks[f] \in Nat /\ callbacks[f] <= MaxCallbacks
  BY GoConstants DEF TypeOK, CallbacksBound
<1>2. n \in Nat /\ StepsLeft(f) = Rest(pc[f], n)
  BY <1>1 DEF StepsLeft
<1>3. CASE Panic(f) \/ RemoveUnlock(f)
  <2>1. /\ pc[f] \in {"method", "remove unlock"} /\ pc'[f] = "idle" /\ callbacks'[f] = 0
    BY <1>1, <1>3 DEF Panic, RemoveUnlock, Leave, Goto
  <2> HIDE DEF n
  <2>2. callbacks'[f] = 0
    BY <2>1
  <2>3. MaxCallbacks - callbacks'[f] \in Nat /\ callbacks'[f] <= MaxCallbacks
    BY ONLY <1>1, <2>2
  <2>4. StepsLeft(f)' = 0
    BY <2>1, <2>3, RestOfExecute, Zenon DEF StepsLeft
  <2>5. StepsLeft(f) \in {5 * n + 5, 1}
    BY <1>2, <2>1, RestOfExecute, Zenon
  <2> QED
    BY ONLY <1>2, <2>3, <2>4, <2>5
<1>4. CASE Callback(f)
  <2>1. /\ pc[f] = "vm" /\ pc'[f] = "get lock" /\ callbacks'[f] = callbacks[f] + 1
        /\ callbacks[f] < MaxCallbacks
    BY <1>1, <1>4 DEF Callback, Goto
  <2>2. callbacks'[f] = callbacks[f] + 1 /\ callbacks[f] < MaxCallbacks
    BY <2>1
  <2>3. /\ n - 1 \in Nat /\ MaxCallbacks - callbacks'[f] = n - 1
        /\ callbacks'[f] <= MaxCallbacks
    BY ONLY <1>1, <2>2
  <2> HIDE DEF n
  <2>4. StepsLeft(f)' = 5 * (n - 1) + 8 /\ StepsLeft(f) = 5 * n + 4
    BY <1>2, <2>1, <2>3, RestOfExecute, Zenon DEF StepsLeft
  <2> QED
    BY ONLY <1>2, <2>3, <2>4
<1>5. CASE ~Panic(f) /\ ~RemoveUnlock(f) /\ ~Callback(f)
  <2>1. callbacks'[f] = callbacks[f]
    BY <1>5 DEF Acquire, Proceed, AddLock, AddId, AddInc, AddStore, AddUnlock,
       VMReturn, GetLock, GetRead, GetUnlock, MethodReturn,
       RemoveLock, RemoveDelete, Lock, Unlock, locals
  <2>2. StepsLeft(f)' = Rest(pc'[f], n)
    BY <2>1 DEF StepsLeft
  <2>3. Follows(pc[f], pc'[f])
    <3>1. CASE Acquire(f)
      BY <1>1, <3>1 DEF Follows, Acquire, AddLock, GetLock, RemoveLock, Lock, Goto
    <3>2. CASE Proceed(f)
      BY <1>1, <1>5, <3>2 DEF Follows, Proceed, AddId, AddInc, AddStore, AddUnlock,
         VMReturn, GetRead, GetUnlock, MethodReturn, RemoveDelete, Unlock, Goto
    <3> QED
      BY <3>1, <3>2
  <2> HIDE DEF n
  <2> QED
    BY <1>1, <1>2, <2>1, <2>2, <2>3, RestShrinks
<1> QED
  BY <1>3, <1>4, <1>5

(* Every execution ends after at most 5 * MaxCallbacks + 9 steps of its    *)
(* own, each of which brings it nearer to its return: whoever goes on      *)
(* makes progress, whatever the others do.                                 *)
THEOREM Progress ==
  Spec => /\ [](\A f \in Frame : StepsLeft(f) \in 0..(5 * MaxCallbacks + 9))
          /\ [][Nearer]_vars
<1>1. Init => CallbacksBound
  BY GoConstants DEF Init, CallbacksBound
<1>2. TypeOK /\ CallbacksBound /\ [Next]_vars => CallbacksBound' /\ [Nearer]_vars
  <2> SUFFICES ASSUME TypeOK, CallbacksBound, [Next]_vars
               PROVE  CallbacksBound' /\ [Nearer]_vars
    OBVIOUS
  <2>1. CASE UNCHANGED vars
    BY <2>1 DEF CallbacksBound, vars, locals
  <2>2. ASSUME NEW f \in Frame, Start(f) \/ Acquire(f) \/ Proceed(f)
        PROVE  CallbacksBound' /\ Nearer
    <3>1. \A g \in Frame \ {f} : pc'[g] = pc[g] /\ callbacks'[g] = callbacks[g]
      <4>1. \A g \in Frame \ {f} : pc'[g] = pc[g]
        BY <2>2, OneFrameJumps
      <4>2. \A g \in Frame \ {f} : callbacks'[g] = callbacks[g]
        BY <2>2 DEF TypeOK, Acquire, Proceed, Start, Execute, AddLock, AddId, AddInc, AddStore,
           AddUnlock, Callback, VMReturn, GetLock, GetRead, GetUnlock, MethodReturn, Panic,
           RemoveLock, RemoveDelete, RemoveUnlock, Lock, Unlock, Leave, locals
      <4> QED
        BY ONLY <4>1, <4>2
    <3>2. \A g \in Frame \ {f} : StepsLeft(g)' = StepsLeft(g)
      BY <3>1 DEF StepsLeft
    <3>3. CASE Start(f)
      BY <3>1, <3>2, <3>3 DEF Start, Execute, Goto, CallbacksBound, Nearer
    <3>4. CASE Acquire(f) \/ Proceed(f)
      BY <3>1, <3>2, <3>4, StepNearer DEF CallbacksBound, Nearer
    <3> QED
      BY <2>2, <3>3, <3>4
  <2> QED
    BY <2>1, <2>2 DEF Next
<1>3. TypeOK /\ CallbacksBound =>
        \A f \in Frame : StepsLeft(f) \in 0..(5 * MaxCallbacks + 9)
  <2> SUFFICES ASSUME TypeOK, CallbacksBound, NEW f \in Frame
               PROVE  StepsLeft(f) \in 0..(5 * MaxCallbacks + 9)
    OBVIOUS
  <2> DEFINE n == MaxCallbacks - callbacks[f]
  <2>1. n \in Nat /\ n <= MaxCallbacks /\ MaxCallbacks \in Nat /\ pc[f] \in Label
    BY GoConstants DEF TypeOK, CallbacksBound
  <2>2. StepsLeft(f) = Rest(pc[f], n)
    BY DEF StepsLeft
  <2> HIDE DEF n
  <2>3. Rest(pc[f], n) \in 0..(5 * n + 9)
    BY <2>1, RestIsBounded
  <2> QED
    BY <2>1, <2>2, <2>3
<1>4. IInv => TypeOK
  BY DEF IInv
<1> QED
  BY <1>1, <1>2, <1>3, <1>4, Invariance, PTL DEF Spec
=============================================================================
