----------------------------- MODULE VMOwnership -----------------------------
(***************************************************************************)
(* Who destroys a VM instance, and who uses it.  The client owns it by the *)
(* pointer its create function returned or by an evmc::VM object           *)
(* (include/evmc/evmc.hpp).  In a VM declared with the Rust binding        *)
(* (bindings/rust/evmc-declare) the pointer is a Box: each method takes it *)
(* for as long as it runs, while executions of the same instance nest in   *)
(* callbacks or run concurrently, as docs/VM_Guide.md allows, and may      *)
(* panic.  Executions end with the results of ResultOwnership.             *)
(***************************************************************************)
EXTENDS ResultOwnership

CONSTANTS
  Instance,     \* addresses of VM instances; freed ones are reused
  Wrapper,      \* variables that may hold an evmc::VM object
  Call          \* activations of a VM's methods, in any thread, nested or not

ASSUME VMConstants == Null \notin Instance

VARIABLES
  vms,          \* the instances allocated
  raw_vms,      \* those the client owns by their pointer
  constructed,  \* the wrappers that hold an object
  m_instance,   \* of each wrapper
  pc, vm,       \* what each call does, and its instance
  aborted       \* the process was aborted

ownerVars == <<raw_vms, constructed, m_instance>>
callVars == <<pc, vm>>
instanceVars == <<vms, ownerVars, callVars, aborted>>
vmVars == <<vars, instanceVars>>

VMInit ==
  /\ Init
  /\ vms = {} /\ raw_vms = {}
  /\ constructed = {}
  /\ m_instance = [w \in Wrapper |-> Null]
  /\ pc = [c \in Call |-> "idle"]
  /\ vm = [c \in Call |-> Null]
  /\ aborted = FALSE

\* A client neither destroys an instance that is in use nor sets its options.
InUse(i) == \E c \in Call : pc[c] # "idle" /\ vm[c] = i
Configured(i) == \E c \in Call : pc[c] \in {"setting", "set"} /\ vm[c] = i

\* m_instance->destroy(m_instance), or nothing for nullptr: __evmc_destroy takes the box
\* and drops it.
Destroyed(i) == vms \ {i}
-----------------------------------------------------------------------------
(* The owners.                                                             *)

\* evmc_create_...(): into_ffi_pointer of a new container.
Create(i) ==
  /\ i \notin vms
  /\ vms' = vms \cup {i}
  /\ raw_vms' = raw_vms \cup {i}
  /\ UNCHANGED <<constructed, m_instance>>

\* evmc_destroy().
DestroyRaw(i) ==
  /\ i \in raw_vms /\ ~InUse(i)
  /\ vms' = Destroyed(i)
  /\ raw_vms' = raw_vms \ {i}
  /\ UNCHANGED <<constructed, m_instance>>

\* VM() and VM(evmc_vm*), with options or without.
Construct(w) ==
  /\ w \notin constructed
  /\ \E i \in raw_vms \cup {Null} :
       /\ raw_vms' = raw_vms \ {i}
       /\ m_instance' = [m_instance EXCEPT ![w] = i]
  /\ constructed' = constructed \cup {w}
  /\ UNCHANGED vms

\* VM(VM&&).
MoveConstructVM(w, v) ==
  /\ w \notin constructed /\ v \in constructed
  /\ constructed' = constructed \cup {w}
  /\ m_instance' = [m_instance EXCEPT ![w] = m_instance[v], ![v] = Null]
  /\ UNCHANGED <<vms, raw_vms>>

\* Faulty variant: the instance the object had is not destroyed.
MoveAssignVMOver(w, v) ==
  /\ w \in constructed /\ v \in constructed
  /\ ~InUse(m_instance[w])
  /\ m_instance' = [m_instance EXCEPT ![w] = m_instance[v], ![v] = Null]
  /\ UNCHANGED <<vms, raw_vms, constructed>>

\* operator=(VM&&), of an object to itself too: it is left without an instance.
MoveAssignVM(w, v) ==
  /\ w \in constructed /\ v \in constructed
  /\ ~InUse(m_instance[w])
  /\ vms' = Destroyed(m_instance[w])
  /\ m_instance' = [m_instance EXCEPT ![w] = m_instance[v], ![v] = Null]
  /\ UNCHANGED <<raw_vms, constructed>>

\* ~VM().
Destruct(w) ==
  /\ w \in constructed /\ ~InUse(m_instance[w])
  /\ vms' = Destroyed(m_instance[w])
  /\ constructed' = constructed \ {w}
  /\ m_instance' = [m_instance EXCEPT ![w] = Null]
  /\ UNCHANGED raw_vms

OwnerStep ==
  /\ \/ \E i \in Instance : Create(i) \/ DestroyRaw(i)
     \/ \E w \in Wrapper : Construct(w) \/ Destruct(w)
     \/ \E w, v \in Wrapper : MoveConstructVM(w, v) \/ MoveAssignVM(w, v)
  /\ UNCHANGED <<vars, callVars, aborted>>
-----------------------------------------------------------------------------
(* The methods of an instance.  A call holds the Box while its pc is       *)
(* "executing" or "set".                                                   *)

Enter(c, i, at) ==
  /\ pc[c] = "idle" /\ i \in vms
  /\ pc' = [pc EXCEPT ![c] = at]
  /\ vm' = [vm EXCEPT ![c] = i]
  /\ UNCHANGED <<vars, vms, ownerVars, aborted>>

Leave(c) ==
  /\ pc' = [pc EXCEPT ![c] = "idle"]
  /\ vm' = [vm EXCEPT ![c] = Null]

BeginExecute(c) == \E i \in Instance : ~Configured(i) /\ Enter(c, i, "called")
BeginSetOption(c) == \E i \in Instance : ~InUse(i) /\ Enter(c, i, "setting")

\* from_ffi_pointer(): the Box is made of the pointer.
TakeBox(c, at, next) ==
  /\ pc[c] = at
  /\ pc' = [pc EXCEPT ![c] = next]
  /\ UNCHANGED <<vars, vms, ownerVars, vm, aborted>>

\* Faulty variant: an early return drops the Box.
DropBox(c) == vms' = vms \ {vm[c]}

\* into_ffi_pointer(): nothing is freed.
GiveBoxBack(c) == UNCHANGED vms

(* __evmc_execute ends with the result of the VM, or, if it panicked, with *)
(* an internal error without output: catch_unwind() keeps the Box.         *)
EndExecute(c, s) ==
  /\ pc[c] = "executing"
  /\ GiveBoxBack(c)
  /\ Executed(s)
  /\ Leave(c)
  /\ UNCHANGED <<ownerVars, aborted>>

EndSetOption(c) ==
  /\ pc[c] = "set"
  /\ GiveBoxBack(c)
  /\ Leave(c)
  /\ UNCHANGED <<vars, ownerVars, aborted>>

\* __evmc_set_option catches no panic, and an extern "C" function does not unwind.
PanicInSetOption(c) ==
  /\ pc[c] = "set"
  /\ aborted' = TRUE
  /\ UNCHANGED <<vars, vms, ownerVars, callVars>>

CallStep(c) ==
  \/ BeginExecute(c)
  \/ BeginSetOption(c)
  \/ TakeBox(c, "called", "executing")
  \/ TakeBox(c, "setting", "set")
  \/ \E s \in Slot : EndExecute(c, s)
  \/ EndSetOption(c)
  \/ PanicInSetOption(c)

ResultStep == Next /\ UNCHANGED instanceVars

VMNext == ~aborted /\ (OwnerStep \/ ResultStep \/ \E c \in Call : CallStep(c))

VMSpec == VMInit /\ [][VMNext]_vmVars
-----------------------------------------------------------------------------
VMTypeOK ==
  /\ TypeOK
  /\ vms \subseteq Instance /\ raw_vms \subseteq Instance
  /\ constructed \subseteq Wrapper
  /\ m_instance \in [Wrapper -> Instance \cup {Null}]
  /\ pc \in [Call -> {"idle", "called", "executing", "setting", "set"}]
  /\ vm \in [Call -> Instance \cup {Null}]
  /\ aborted \in BOOLEAN

(* Every instance has exactly one owner, a pointer or an object, however   *)
(* VM objects are moved and assigned, to themselves too: it is destroyed,  *)
(* and not twice, and no owner is left with a pointer to a freed instance. *)
OneOwner ==
  /\ raw_vms \subseteq vms
  /\ \A w \in Wrapper : m_instance[w] # Null =>
       /\ w \in constructed
       /\ m_instance[w] \in vms \ raw_vms
       /\ \A v \in Wrapper \ {w} : m_instance[v] # m_instance[w]
  /\ \A i \in vms \ raw_vms : \E w \in Wrapper : m_instance[w] = i

(* An instance lives as long as a call of it: no method of a Rust VM       *)
(* frees the Box it took, though several executions may have it at a time  *)
(* and may panic.                                                          *)
CallsHaveInstance == \A c \in Call : pc[c] # "idle" => vm[c] \in vms
=============================================================================
