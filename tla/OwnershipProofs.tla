--------------------------- MODULE OwnershipProofs ---------------------------
(* Every output is released once and none is lost, for any number of       *)
(* results and any order of the operations on them.  Every VM instance has *)
(* one owner and lives as long as its calls, for any number of instances,  *)
(* VM objects and concurrent or nested calls, which handle their results   *)
(* as ResultOwnership says.                                                *)
EXTENDS VMOwnership, TLAPS

\* The two properties need each other: a buffer that is allocated has an owner, hence one that
\* malloc returns has none.
IInv == TypeOK /\ ReleasedOnce /\ NoOutputLeaks

LEMMA StepTypeOK == TypeOK /\ [Next]_vars => TypeOK'
<1> SUFFICES ASSUME TypeOK, [Next]_vars PROVE TypeOK'
  OBVIOUS
<1> USE DEF TypeOK, Kind
<1>1. ASSUME NEW s \in Slot, NEW k \in {"raw", "Result", "Rust"}, Make(s, k) PROVE TypeOK'
  <2>1. PICK b \in Buffer \cup {Null}, owns \in BOOLEAN :
          Put(s, k, b, owns) /\ heap' \subseteq Buffer
    BY <1>1 DEF Make
  <2>2. QED
    BY <2>1, <1>1 DEF Put
<1>2. ASSUME NEW s \in Slot, End(s) PROVE TypeOK'
  BY <1>2 DEF End, Put, Released
<1>3. ASSUME NEW s \in Slot, MockedCall(s) PROVE TypeOK'
  BY <1>3, OwnershipConstants DEF MockedCall, Put
<1>4. ASSUME NEW s \in Slot, NEW t \in Slot, Wrap(s, t) PROVE TypeOK'
  BY <1>4 DEF Wrap
<1>5. ASSUME NEW s \in Slot, NEW t \in Slot, MoveConstruct(s, t) PROVE TypeOK'
  BY <1>5 DEF MoveConstruct, Move, MovedRelease
<1>6. ASSUME NEW s \in Slot, NEW t \in Slot, MoveAssign(s, t) PROVE TypeOK'
  BY <1>6 DEF MoveAssign, Move, MovedRelease, Released
<1>7. ASSUME NEW s \in Slot, NEW t \in Slot, ReleaseRaw(s, t) PROVE TypeOK'
  BY <1>7 DEF ReleaseRaw, Move, MovedRelease
<1>8. ASSUME NEW s \in Slot, Executed(s) PROVE TypeOK'
  BY <1>8 DEF Executed, Put
<1>9. ASSUME NEW s \in Slot, NEW t \in Slot, FromRaw(s, t) PROVE TypeOK'
  <2>1. PICK b \in (Buffer \ heap) \cup ({Null} \cap {output[t]}) :
          Copy(s, "Rust", t, b, b # Null)
    BY <1>9 DEF FromRaw
  <2>2. (b # Null) \in BOOLEAN
    OBVIOUS
  <2>3. QED
    BY <1>9, <2>1, <2>2 DEF Copy, Released, FromRaw
<1>10. ASSUME NEW s \in Slot, NEW t \in Slot, IntoRaw(s, t) PROVE TypeOK'
  <2>1. PICK b \in Buffer \cup {Null} : Copy(s, "raw", t, b, TRUE)
    BY <1>10 DEF IntoRaw
  <2>2. QED
    BY <1>10, <2>1 DEF Copy, Released, IntoRaw
<1>11. CASE UNCHANGED vars
  BY <1>11 DEF vars
<1>12. QED
  BY <1>1, <1>2, <1>3, <1>4, <1>5, <1>6, <1>7, <1>8, <1>9, <1>10, <1>11 DEF Next

\* Slot s, which owns nothing, comes to own a new buffer, or none.
LEMMA MakeKeepsOwners ==
  ASSUME ReleasedOnce, NoOutputLeaks,
         NEW s \in Slot, NEW b, b \notin heap,
         ~Owns(s),
         heap' = heap \cup ({b} \ {Null}),
         Owns(s)' => output'[s] = b, Owns(s)' <=> b # Null,
         \A u \in Slot \ {s} : output'[u] = output[u] /\ (Owns(u)' <=> Owns(u))
  PROVE  ReleasedOnce' /\ NoOutputLeaks'
<1>1. ReleasedOnce'
  BY DEF ReleasedOnce, Owns
<1>2. ASSUME NEW a \in heap' PROVE \E u \in Slot : Owns(u)' /\ output'[u] = a
  <2>1. CASE a = b
    BY <2>1
  <2>2. CASE a # b
    <3>1. PICK u \in Slot : Owns(u) /\ output[u] = a
      BY <2>2 DEF NoOutputLeaks
    <3>2. u # s
      BY <3>1
    <3>3. QED
      BY <3>1, <3>2
  <2>3. QED
    BY <2>1, <2>2
<1>3. QED
  BY <1>1, <1>2 DEF NoOutputLeaks

\* The object in slot t is released.
LEMMA ReleaseKeepsOwners ==
  ASSUME ReleasedOnce, NoOutputLeaks,
         NEW t \in Slot,
         heap' = Released(t),
         ~Owns(t)',
         \A u \in Slot \ {t} : output'[u] = output[u] /\ (Owns(u)' <=> Owns(u))
  PROVE  ReleasedOnce' /\ NoOutputLeaks'
<1>1. heap' = heap \ (IF Owns(t) THEN {output[t]} ELSE {}) \/ heap' = heap \ {Null}
  BY DEF Released, Owns
<1>2. \A u \in Slot : Owns(u) => output[u] # Null
  BY DEF Owns
<1>3. ReleasedOnce'
  <2>1. ASSUME NEW u \in Slot, Owns(u)' PROVE output'[u] \in heap'
    <3>1. u # t /\ Owns(u) /\ output'[u] = output[u]
      BY <2>1
    <3>2. QED
      BY <3>1, <1>1, <1>2 DEF ReleasedOnce
  <2>2. QED
    BY <2>1 DEF ReleasedOnce, Owns
<1>4. ASSUME NEW a \in heap' PROVE \E u \in Slot : Owns(u)' /\ output'[u] = a
  <2>1. PICK u \in Slot : Owns(u) /\ output[u] = a
    BY <1>1 DEF NoOutputLeaks
  <2>2. u # t
    BY <2>1 DEF Released, Owns
  <2>3. QED
    BY <2>1, <2>2
<1>5. QED
  BY <1>3, <1>4 DEF NoOutputLeaks

\* What slot t owns moves to slot s, whose object is released.
LEMMA MoveKeepsOwners ==
  ASSUME TypeOK, ReleasedOnce, NoOutputLeaks,
         NEW s \in Slot, NEW t \in Slot, s # t,
         heap' = Released(s),
         output' = [output EXCEPT ![s] = output[t]],
         release' = [release EXCEPT ![s] = release[t], ![t] = FALSE]
  PROVE  ReleasedOnce' /\ NoOutputLeaks'
<1>1. /\ output'[s] = output[t] /\ release'[s] = release[t] /\ release'[t] = FALSE
      /\ \A u \in Slot \ {s, t} : output'[u] = output[u] /\ release'[u] = release[u]
  BY DEF TypeOK
<1>2. /\ (Owns(s)' <=> Owns(t)) /\ ~Owns(t)'
      /\ \A u \in Slot \ {s, t} : Owns(u)' <=> Owns(u)
  BY <1>1 DEF Owns
<1>3. \A u \in Slot \ {s} : Owns(u) => output[u] \in heap'
  BY DEF ReleasedOnce, Released, Owns
<1>4. \A u, v \in Slot : u # v /\ Owns(u) /\ Owns(v) => output[u] # output[v]
  BY DEF ReleasedOnce
<1>5. ASSUME NEW u \in Slot, Owns(u)'
      PROVE  /\ output'[u] \in heap'
             /\ \A v \in Slot \ {u} : Owns(v)' => output'[v] # output'[u]
  <2>1. CASE u = s
    BY ONLY <2>1, <1>1, <1>2, <1>3, <1>4, <1>5, s \in Slot, t \in Slot, s # t
  <2>2. CASE u # s
    <3>1. u # t /\ Owns(u) /\ output'[u] = output[u]
      BY ONLY <2>2, <1>1, <1>2, <1>5
    <3>2. QED
      BY ONLY <2>2, <3>1, <1>1, <1>2, <1>3, <1>4, u \in Slot, s \in Slot, t \in Slot
  <2>3. QED
    BY <2>1, <2>2
<1>6. \A b \in heap' : \E u \in Slot \ {s} : Owns(u) /\ output[u] = b
  BY DEF NoOutputLeaks, Released, Owns
<1>7. ASSUME NEW b \in heap' PROVE \E u \in Slot : Owns(u)' /\ output'[u] = b
  <2>1. PICK u \in Slot \ {s} : Owns(u) /\ output[u] = b
    BY <1>6
  <2>2. CASE u = t
    BY ONLY <2>1, <2>2, <1>1, <1>2, s \in Slot
  <2>3. CASE u # t
    BY ONLY <2>1, <2>3, <1>1, <1>2, u \in Slot
  <2>4. QED
    BY <2>2, <2>3
<1>8. QED
  BY <1>5, <1>7 DEF ReleasedOnce, NoOutputLeaks

\* What slot t owns is copied to buffer b, which slot s comes to own, and released.
LEMMA CopyKeepsOwners ==
  ASSUME TypeOK, ReleasedOnce, NoOutputLeaks,
         NEW s \in Slot, NEW t \in Slot, s # t, ~release[s],
         NEW k, NEW b, b \notin heap, NEW releases \in BOOLEAN,
         b # Null => releases,
         Copy(s, k, t, b, releases)
  PROVE  ReleasedOnce' /\ NoOutputLeaks'
<1>1. /\ output'[s] = b /\ release'[s] = releases /\ release'[t] = FALSE
      /\ \A u \in Slot \ {s, t} : output'[u] = output[u] /\ release'[u] = release[u]
  BY DEF TypeOK, Copy
<1>2. /\ (Owns(s)' <=> b # Null) /\ ~Owns(t)' /\ ~Owns(s)
      /\ \A u \in Slot \ {s, t} : Owns(u)' <=> Owns(u)
  BY <1>1 DEF Owns
<1>3. heap' = Released(t) \cup ({b} \ {Null})
  BY DEF Copy
<1>4. ASSUME NEW u \in Slot, Owns(u)'
      PROVE  /\ output'[u] \in heap'
             /\ \A v \in Slot \ {u} : Owns(v)' => output'[v] # output'[u]
  <2>1. \A v \in Slot \ {s} : Owns(v)' =>
          /\ v # t /\ Owns(v) /\ output'[v] = output[v]
          /\ output[v] \in Released(t) /\ output[v] \in heap
    BY <1>1, <1>2 DEF ReleasedOnce, Released, Owns
  <2>2. \A v, w \in Slot : v # w /\ Owns(v) /\ Owns(w) => output[v] # output[w]
    BY DEF ReleasedOnce
  <2>3. CASE u = s
    BY ONLY <2>3, <2>1, <1>1, <1>2, <1>3, <1>4, b \notin heap, s \in Slot
  <2>4. CASE u # s
    BY ONLY <2>4, <2>1, <2>2, <1>1, <1>2, <1>3, <1>4, b \notin heap, s \in Slot, u \in Slot
  <2>5. QED
    BY <2>3, <2>4
<1>5. ASSUME NEW a \in heap' PROVE \E u \in Slot : Owns(u)' /\ output'[u] = a
  <2>1. CASE a \in {b} \ {Null}
    BY <2>1, <1>1, <1>2
  <2>2. CASE a \in Released(t)
    <3>1. PICK u \in Slot : Owns(u) /\ output[u] = a
      BY <2>2 DEF NoOutputLeaks, Released
    <3>2. u # t /\ u # s
      BY <3>1, <2>2, <1>2 DEF Released, Owns
    <3>3. QED
      BY <3>1, <3>2, <1>1, <1>2
  <2>3. QED
    BY <1>3, <2>1, <2>2
<1>6. QED
  BY <1>4, <1>5 DEF ReleasedOnce, NoOutputLeaks

LEMMA StepIInv == IInv /\ [Next]_vars => IInv'
<1> SUFFICES ASSUME IInv, [Next]_vars PROVE ReleasedOnce' /\ NoOutputLeaks'
  BY StepTypeOK DEF IInv
<1>t. TypeOK /\ ReleasedOnce /\ NoOutputLeaks
  BY DEF IInv
<1>n. \A s \in Slot : kind[s] = "none" => ~release[s]
  BY <1>t DEF TypeOK
<1>h. Null \notin heap
  BY <1>t, OwnershipConstants DEF TypeOK
\* The object in s is new: it owns the new buffer b, or nothing.
<1>p. ASSUME NEW s \in Slot, ~release[s], NEW k, NEW b, b \notin heap, NEW owns \in BOOLEAN,
             heap' = heap \cup ({b} \ {Null}), Put(s, k, b, owns), b # Null => owns
      PROVE  ReleasedOnce' /\ NoOutputLeaks'
  <2>1. /\ output'[s] = b /\ release'[s] = owns
        /\ \A u \in Slot \ {s} : output'[u] = output[u] /\ release'[u] = release[u]
    BY <1>p, <1>t DEF Put, TypeOK
  <2>2. /\ ~Owns(s) /\ (Owns(s)' <=> b # Null)
        /\ \A u \in Slot \ {s} : Owns(u)' <=> Owns(u)
    BY <2>1, <1>p DEF Owns
  <2>3. QED
    BY <2>1, <2>2, <1>p, <1>t, MakeKeepsOwners
<1>1. ASSUME NEW s \in Slot, NEW k \in {"raw", "Result", "Rust"}, Make(s, k)
      PROVE  ReleasedOnce' /\ NoOutputLeaks'
  <2>1. ~release[s]
    BY <1>1, <1>n DEF Make
  <2>2. ASSUME NEW b \in Buffer \ heap, heap' = heap \cup {b}, Put(s, k, b, TRUE)
        PROVE  ReleasedOnce' /\ NoOutputLeaks'
    BY <2>1, <2>2, <1>p, OwnershipConstants
  <2>3. CASE heap' = heap /\ Put(s, k, Null, FALSE)
    BY <2>1, <2>3, <1>p, <1>h
  <2>4. QED
    BY <1>1, <2>2, <2>3 DEF Make
<1>2. ASSUME NEW s \in Slot, End(s) PROVE ReleasedOnce' /\ NoOutputLeaks'
  <2>1. /\ heap' = Released(s)
        /\ ~release'[s]
        /\ \A u \in Slot \ {s} : output'[u] = output[u] /\ release'[u] = release[u]
    BY <1>2, <1>t DEF End, Put, TypeOK
  <2>2. ~Owns(s)' /\ \A u \in Slot \ {s} : Owns(u)' <=> Owns(u)
    BY <2>1 DEF Owns
  <2>3. QED
    BY <2>1, <2>2, <1>t, ReleaseKeepsOwners
<1>3. ASSUME NEW s \in Slot, MockedCall(s) PROVE ReleasedOnce' /\ NoOutputLeaks'
  <2>1. ~release[s] /\ heap' = heap /\ Put(s, "Result", Null, FALSE)
    BY <1>3, <1>n DEF MockedCall
  <2>2. QED
    BY <2>1, <1>p, <1>h
<1>4. ASSUME NEW s \in Slot, NEW t \in Slot,
             Wrap(s, t) \/ MoveConstruct(s, t) \/ ReleaseRaw(s, t)
      PROVE  ReleasedOnce' /\ NoOutputLeaks'
  <2>1. s # t /\ ~release[s]
    BY <1>4, <1>n DEF Wrap, MoveConstruct, ReleaseRaw
  <2>2. heap' = Released(s)
    BY <1>4, <2>1 DEF Wrap, MoveConstruct, ReleaseRaw, Released
  <2>3. /\ output' = [output EXCEPT ![s] = output[t]]
        /\ release' = [release EXCEPT ![s] = release[t], ![t] = FALSE]
    BY <1>4 DEF Wrap, MoveConstruct, ReleaseRaw, Move, MovedRelease
  <2>4. QED
    BY <2>1, <2>2, <2>3, <1>t, MoveKeepsOwners
<1>5. ASSUME NEW s \in Slot, NEW t \in Slot, MoveAssign(s, t)
      PROVE  ReleasedOnce' /\ NoOutputLeaks'
  BY <1>5, <1>t, MoveKeepsOwners DEF MoveAssign, Move, MovedRelease
<1>6. ASSUME NEW s \in Slot, Executed(s) PROVE ReleasedOnce' /\ NoOutputLeaks'
  <2>1. ~release[s]
    BY <1>6, <1>n DEF Executed
  <2>2. PICK b \in (Buffer \ heap) \cup {Null} :
          heap' = heap \cup ({b} \ {Null}) /\ Put(s, "Result", b, TRUE)
    BY <1>6 DEF Executed
  <2>3. QED
    BY <2>1, <2>2, <1>p, <1>h
<1>7. ASSUME NEW s \in Slot, NEW t \in Slot, FromRaw(s, t)
      PROVE  ReleasedOnce' /\ NoOutputLeaks'
  <2>1. s # t /\ ~release[s]
    BY <1>7, <1>n DEF FromRaw
  <2>2. PICK b \in (Buffer \ heap) \cup ({Null} \cap {output[t]}) :
          Copy(s, "Rust", t, b, b # Null)
    BY <1>7 DEF FromRaw
  <2>3. QED
    BY <2>1, <2>2, <1>t, <1>h, CopyKeepsOwners
<1>8. ASSUME NEW s \in Slot, NEW t \in Slot, IntoRaw(s, t)
      PROVE  ReleasedOnce' /\ NoOutputLeaks'
  <2>1. s # t /\ ~release[s]
    BY <1>8, <1>n DEF IntoRaw
  <2>2. PICK b \in (Buffer \ heap) \cup {Null} : Copy(s, "raw", t, b, TRUE)
    BY <1>8 DEF IntoRaw
  <2>3. QED
    BY <2>1, <2>2, <1>t, <1>h, CopyKeepsOwners
<1>9. CASE UNCHANGED vars
  BY <1>9, <1>t DEF vars, ReleasedOnce, NoOutputLeaks, Owns
<1>10. QED
  BY <1>1, <1>2, <1>3, <1>4, <1>5, <1>6, <1>7, <1>8, <1>9 DEF Next

LEMMA InitIInv == Init => IInv
  BY DEF Init, IInv, TypeOK, Kind, ReleasedOnce, NoOutputLeaks, Owns

LEMMA Invariant == Spec => []IInv
  BY InitIInv, StepIInv, PTL DEF Spec

(* No output is released twice, however many results the VMs and hosts of  *)
(* a program make, convert and pass on.                                    *)
THEOREM Ownership == Spec => []ReleasedOnce
<1>1. IInv => ReleasedOnce
  BY DEF IInv
<1>2. QED
  BY <1>1, Invariant, PTL

(* No output is leaked.                                                    *)
THEOREM NoLeaks == Spec => []NoOutputLeaks
<1>1. IInv => NoOutputLeaks
  BY DEF IInv
<1>2. QED
  BY <1>1, Invariant, PTL

(* Type correctness: what holds no object owns nothing.                    *)
THEOREM Types == Spec => []TypeOK
<1>1. IInv => TypeOK
  BY DEF IInv
<1>2. QED
  BY <1>1, Invariant, PTL
-----------------------------------------------------------------------------
(* VM instances.                                                           *)

InstanceTypeOK ==
  /\ vms \subseteq Instance /\ raw_vms \subseteq Instance
  /\ constructed \subseteq Wrapper
  /\ m_instance \in [Wrapper -> Instance \cup {Null}]
  /\ pc \in [Call -> {"idle", "called", "executing", "setting", "set"}]
  /\ vm \in [Call -> Instance \cup {Null}]
  /\ aborted \in BOOLEAN

VMInv == InstanceTypeOK /\ OneOwner /\ CallsHaveInstance

\* What a call does to the instances and their owners: nothing.
LEMMA CallKeepsInstances ==
  ASSUME NEW c \in Call, CallStep(c) PROVE UNCHANGED <<vms, raw_vms, constructed, m_instance>>
BY DEF CallStep, BeginExecute, BeginSetOption, Enter, TakeBox, EndExecute, GiveBoxBack,
       EndSetOption, PanicInSetOption, ownerVars

LEMMA CallTypeOK ==
  ASSUME InstanceTypeOK, CallsHaveInstance, NEW c \in Call, CallStep(c)
  PROVE  InstanceTypeOK' /\ CallsHaveInstance'
<1>k. UNCHANGED <<vms, raw_vms, constructed, m_instance>>
  BY CallKeepsInstances
<1> USE DEF InstanceTypeOK, CallsHaveInstance
<1>1. ASSUME NEW i \in Instance, NEW at \in {"called", "setting"}, Enter(c, i, at)
      PROVE  InstanceTypeOK' /\ CallsHaveInstance'
  BY <1>1, <1>k DEF Enter
<1>2. ASSUME NEW at \in {"called", "setting"}, NEW next \in {"executing", "set"},
             TakeBox(c, at, next)
      PROVE  InstanceTypeOK' /\ CallsHaveInstance'
  BY <1>2, <1>k DEF TakeBox
<1>3. ASSUME Leave(c), aborted' = aborted PROVE InstanceTypeOK' /\ CallsHaveInstance'
  BY <1>3, <1>k DEF Leave
<1>4. CASE PanicInSetOption(c)
  BY <1>4, <1>k DEF PanicInSetOption, callVars
<1>5. QED
  BY <1>1, <1>2, <1>3, <1>4
     DEF CallStep, BeginExecute, BeginSetOption, EndExecute, EndSetOption

\* The owners never give up an instance that is in use.
LEMMA OwnerTypeOK ==
  ASSUME InstanceTypeOK, CallsHaveInstance, OwnerStep
  PROVE  InstanceTypeOK' /\ CallsHaveInstance'
<1> USE DEF InstanceTypeOK, CallsHaveInstance, InUse, Destroyed
<1>u. UNCHANGED <<pc, vm, aborted>>
  BY DEF OwnerStep, callVars
<1>1. ASSUME NEW i \in Instance, Create(i) \/ DestroyRaw(i)
      PROVE  InstanceTypeOK' /\ CallsHaveInstance'
  BY <1>1, <1>u DEF Create, DestroyRaw
<1>2. ASSUME NEW w \in Wrapper, Construct(w) PROVE InstanceTypeOK' /\ CallsHaveInstance'
  BY <1>2, <1>u DEF Construct
<1>3. ASSUME NEW w \in Wrapper, Destruct(w) PROVE InstanceTypeOK' /\ CallsHaveInstance'
  BY <1>3, <1>u DEF Destruct
<1>4. ASSUME NEW w \in Wrapper, NEW v \in Wrapper, MoveConstructVM(w, v)
      PROVE  InstanceTypeOK' /\ CallsHaveInstance'
  BY <1>4, <1>u DEF MoveConstructVM
<1>5. ASSUME NEW w \in Wrapper, NEW v \in Wrapper, MoveAssignVM(w, v)
      PROVE  InstanceTypeOK' /\ CallsHaveInstance'
  BY <1>5, <1>u DEF MoveAssignVM
<1>6. QED
  BY <1>1, <1>2, <1>3, <1>4, <1>5 DEF OwnerStep

LEMMA OwnerKeepsOneOwner ==
  ASSUME InstanceTypeOK, OneOwner, OwnerStep PROVE OneOwner'
<1> USE DEF InstanceTypeOK, OneOwner, Destroyed
<1>n. Null \notin vms
  BY VMConstants
<1>1. ASSUME NEW i \in Instance, Create(i) PROVE OneOwner'
  BY <1>1, <1>n DEF Create
<1>2. ASSUME NEW i \in Instance, DestroyRaw(i) PROVE OneOwner'
  BY <1>2, <1>n DEF DestroyRaw
<1>3. ASSUME NEW w \in Wrapper, Construct(w) PROVE OneOwner'
  <2>1. PICK i \in raw_vms \cup {Null} :
          /\ raw_vms' = raw_vms \ {i}
          /\ m_instance' = [m_instance EXCEPT ![w] = i]
    BY <1>3 DEF Construct
  <2>2. m_instance[w] = Null
    BY <1>3 DEF Construct
  <2>3. vms' = vms /\ constructed' = constructed \cup {w}
    BY <1>3 DEF Construct
  <2>4. m_instance'[w] = i /\ \A v \in Wrapper \ {w} : m_instance'[v] = m_instance[v]
    BY <2>1
  <2>5. QED
    BY <2>1, <2>2, <2>3, <2>4, <1>n
<1>4. ASSUME NEW w \in Wrapper, Destruct(w) PROVE OneOwner'
  <2>1. /\ m_instance'[w] = Null /\ \A v \in Wrapper \ {w} : m_instance'[v] = m_instance[v]
        /\ vms' = vms \ {m_instance[w]} /\ raw_vms' = raw_vms
        /\ constructed' = constructed \ {w}
    BY <1>4 DEF Destruct
  <2>2. QED
    BY <2>1, <1>n
<1>5. ASSUME NEW w \in Wrapper, NEW v \in Wrapper, MoveConstructVM(w, v) PROVE OneOwner'
  <2>1. w # v /\ m_instance[w] = Null
    BY <1>5 DEF MoveConstructVM
  <2>2. /\ m_instance'[w] = m_instance[v] /\ m_instance'[v] = Null
        /\ \A u \in Wrapper \ {w, v} : m_instance'[u] = m_instance[u]
        /\ vms' = vms /\ raw_vms' = raw_vms /\ constructed' = constructed \cup {w}
    BY <1>5, <2>1 DEF MoveConstructVM
  <2>3. QED
    BY <2>1, <2>2, <1>n
<1>6. ASSUME NEW w \in Wrapper, NEW v \in Wrapper, MoveAssignVM(w, v) PROVE OneOwner'
  <2>1. /\ vms' = vms \ {m_instance[w]} /\ raw_vms' = raw_vms /\ constructed' = constructed
        /\ w \in constructed
        /\ m_instance'[v] = Null
        /\ \A u \in Wrapper \ {w, v} : m_instance'[u] = m_instance[u]
        /\ w # v => m_instance'[w] = m_instance[v]
    BY <1>6 DEF MoveAssignVM
  <2>2. QED
    BY <2>1, <1>n
<1>7. QED
  BY <1>1, <1>2, <1>3, <1>4, <1>5, <1>6 DEF OwnerStep

LEMMA VMStepInv == VMInv /\ [VMNext]_vmVars => VMInv'
<1> SUFFICES ASSUME VMInv, [VMNext]_vmVars PROVE VMInv'
  OBVIOUS
<1>1. CASE OwnerStep
  BY <1>1, OwnerTypeOK, OwnerKeepsOneOwner DEF VMInv
<1>2. ASSUME NEW c \in Call, CallStep(c) PROVE VMInv'
  BY <1>2, CallTypeOK, CallKeepsInstances DEF VMInv, OneOwner
<1>3. CASE ResultStep \/ UNCHANGED vmVars
  BY <1>3 DEF ResultStep, vmVars, instanceVars, ownerVars, callVars, VMInv, InstanceTypeOK,
              OneOwner, CallsHaveInstance
<1>4. QED
  BY <1>1, <1>2, <1>3 DEF VMNext

LEMMA VMInvariant == VMSpec => []VMInv
<1>1. VMInit => VMInv
  BY VMConstants DEF VMInit, VMInv, InstanceTypeOK, OneOwner, CallsHaveInstance
<1>2. QED
  BY <1>1, VMStepInv, PTL DEF VMSpec

(* Executions, nested or concurrent, panicking or not, do to the results   *)
(* only what ResultOwnership allows.                                       *)
THEOREM ResultsAreHandled == VMSpec => Spec
<1>1. VMInit => Init
  BY DEF VMInit
<1>2. [VMNext]_vmVars => [Next]_vars
  <2> SUFFICES ASSUME [VMNext]_vmVars PROVE [Next]_vars
    OBVIOUS
  <2>1. CASE OwnerStep \/ UNCHANGED vmVars
    BY <2>1 DEF OwnerStep, vmVars
  <2>2. CASE ResultStep
    BY <2>2 DEF ResultStep
  <2>3. ASSUME NEW c \in Call, CallStep(c) PROVE [Next]_vars
    <3>1. ASSUME NEW s \in Slot, Executed(s) PROVE Next
      BY <3>1 DEF Next
    <3>2. QED
      BY <2>3, <3>1 DEF CallStep, BeginExecute, BeginSetOption, Enter, TakeBox, EndExecute,
                        EndSetOption, PanicInSetOption
  <2>4. QED
    BY <2>1, <2>2, <2>3 DEF VMNext
<1>3. QED
  BY <1>1, <1>2, PTL DEF VMSpec, Spec

(* No output is released twice while VMs come, go, execute and panic.      *)
THEOREM VMOwnershipOfResults == VMSpec => [](ReleasedOnce /\ NoOutputLeaks)
BY ResultsAreHandled, Ownership, NoLeaks, PTL

(* An instance is destroyed once, by its only owner.                       *)
THEOREM Owner == VMSpec => []OneOwner
<1>1. VMInv => OneOwner
  BY DEF VMInv
<1>2. QED
  BY <1>1, VMInvariant, PTL

(* No call runs on an instance that was freed.                             *)
THEOREM LiveInstance == VMSpec => []CallsHaveInstance
<1>1. VMInv => CallsHaveInstance
  BY DEF VMInv
<1>2. QED
  BY <1>1, VMInvariant, PTL

(* Type correctness.                                                       *)
THEOREM VMTypes == VMSpec => []VMTypeOK
<1>1. VMInv /\ TypeOK => VMTypeOK
  BY DEF VMInv, InstanceTypeOK, VMTypeOK
<1>2. QED
  BY <1>1, VMInvariant, ResultsAreHandled, Types, PTL
=============================================================================
