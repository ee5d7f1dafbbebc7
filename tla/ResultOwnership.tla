--------------------------- MODULE ResultOwnership ---------------------------
(***************************************************************************)
(* Who releases the output of an execution result.  A result travels from  *)
(* a VM through C structs (include/evmc/helpers.h), evmc::Result objects   *)
(* (include/evmc/evmc.hpp) and ExecutionResult values of Rust              *)
(* (bindings/rust/evmc-vm), through Host::call and back to a VM, in any    *)
(* number of moves and copies; a struct has the pointers output_data and   *)
(* release.  A slot is a variable that may hold an object; the operations  *)
(* are applied to the slots in any order.                                  *)
(***************************************************************************)
EXTENDS FiniteSets

CONSTANTS
  Slot,
  Buffer,             \* addresses malloc() returns; freed ones are reused
  Null                \* no output on the heap: none, or memory the client keeps

ASSUME OwnershipConstants == Null \notin Buffer

VARIABLES
  heap,         \* the buffers allocated
  kind,         \* of each slot: what it holds; Rust for an ExecutionResult
  output,       \* output_data, or the buffer of the output's Vec
  release       \* is the function pointer release set, or: is there a Vec?

vars == <<heap, kind, output, release>>

Kind == {"none", "raw", "Result", "Rust"}

Init ==
  /\ heap = {}
  /\ kind = [s \in Slot |-> "none"]
  /\ output = [s \in Slot |-> Null]
  /\ release = [s \in Slot |-> FALSE]
-----------------------------------------------------------------------------
\* Slot s comes to hold an object.
Put(s, k, data, owns) ==
  /\ kind' = [kind EXCEPT ![s] = k]
  /\ output' = [output EXCEPT ![s] = data]
  /\ release' = [release EXCEPT ![s] = owns]

\* Faulty variant: the object moved from keeps its release.
MovedReleaseKept(s, t) == [release EXCEPT ![s] = release[t]]

\* Slot t's object moves to s: all fields are copied, then t's release is nulled.
MovedRelease(s, t) == [release EXCEPT ![s] = release[t], ![t] = FALSE]

Move(s, t, k) ==
  /\ kind' = [kind EXCEPT ![s] = k]
  /\ output' = [output EXCEPT ![s] = output[t]]
  /\ release' = MovedRelease(s, t)

\* release(this), if there is one: evmc_free_result_memory, release_stack_result.
Released(s) == IF release[s] THEN heap \ {output[s]} ELSE heap
-----------------------------------------------------------------------------
(* evmc_make_result, directly or in a constructor of Result.  Without an   *)
(* output, or when malloc fails, there is nothing to release.  Or          *)
(* ExecutionResult::new, which copies the output, if there is one.         *)
Make(s, k) ==
  /\ kind[s] = "none"
  /\ \/ \E b \in Buffer \ heap : heap' = heap \cup {b} /\ Put(s, k, b, TRUE)
     \/ heap' = heap /\ Put(s, k, Null, FALSE)

(* Result(const evmc_result&): the raw result is not used again.           *)
Wrap(s, r) ==
  /\ kind[s] = "none" /\ kind[r] = "raw"
  /\ kind' = [kind EXCEPT ![s] = "Result", ![r] = "none"]
  /\ output' = [output EXCEPT ![s] = output[r]]
  /\ release' = [release EXCEPT ![s] = release[r], ![r] = FALSE]
  /\ UNCHANGED heap

(* Result(Result&&).                                                       *)
MoveConstruct(s, t) ==
  /\ kind[s] = "none" /\ kind[t] = "Result"
  /\ Move(s, t, "Result")
  /\ UNCHANGED heap

\* Faulty variant: the object assigned to is not released first.
MoveAssignOver(s, t) ==
  /\ s # t
  /\ kind[s] = "Result" /\ kind[t] = "Result"
  /\ Move(s, t, "Result")
  /\ UNCHANGED heap

(* operator=(Result&&), which "self-assignment MUST never happen" to.      *)
MoveAssign(s, t) ==
  /\ s # t
  /\ kind[s] = "Result" /\ kind[t] = "Result"
  /\ heap' = Released(s)
  /\ Move(s, t, "Result")

(* ~Result(), the end of a raw result (evmc_release_result), the drop of   *)
(* an ExecutionResult.                                                     *)
End(s) ==
  /\ kind[s] # "none"
  /\ heap' = Released(s)
  /\ Put(s, "none", output[s], FALSE)

(* release_raw(), as the trampoline of Host::call uses it.                 *)
ReleaseRaw(r, s) ==
  /\ kind[r] = "none" /\ kind[s] = "Result"
  /\ Move(r, s, "raw")
  /\ UNCHANGED heap

(* MockedHost::call returns Result{call_result}; the client, which set     *)
(* call_result, keeps its output and leaves its release null.              *)
MockedCall(s) ==
  /\ kind[s] = "none"
  /\ Put(s, "Result", Null, FALSE)
  /\ UNCHANGED heap

-----------------------------------------------------------------------------
(* Conversions of the Rust binding.  An output is copied to a new buffer b.*)

\* Faulty variant: the object copied from is not released.
CopyOver(s, k, t, b, releases) ==
  /\ kind' = [kind EXCEPT ![s] = k, ![t] = "none"]
  /\ output' = [output EXCEPT ![s] = b]
  /\ release' = [release EXCEPT ![s] = releases, ![t] = FALSE]
  /\ heap' = heap \cup ({b} \ {Null})

\* Object t is copied to slot s and released.
Copy(s, k, t, b, releases) ==
  /\ kind' = [kind EXCEPT ![s] = k, ![t] = "none"]
  /\ output' = [output EXCEPT ![s] = b]
  /\ release' = [release EXCEPT ![s] = releases, ![t] = FALSE]
  /\ heap' = Released(t) \cup ({b} \ {Null})

(* From<evmc_result> for ExecutionResult.  An output the client keeps is   *)
(* copied too.                                                             *)
FromRaw(s, r) ==
  /\ kind[s] = "none" /\ kind[r] = "raw"
  /\ \E b \in (Buffer \ heap) \cup ({Null} \cap {output[r]}) :
       Copy(s, "Rust", r, b, b # Null)

(* From<ExecutionResult> for evmc_result: release is set in any case.      *)
IntoRaw(r, s) ==
  /\ kind[r] = "none" /\ kind[s] = "Rust"
  /\ \E b \in IF output[s] = Null THEN {Null} ELSE Buffer \ heap :
       Copy(r, "raw", s, b, TRUE)

(* VM::execute of a VM that is written in Rust: such a result in a Result. *)
Executed(s) ==
  /\ kind[s] = "none"
  /\ \E b \in (Buffer \ heap) \cup {Null} :
       heap' = heap \cup ({b} \ {Null}) /\ Put(s, "Result", b, TRUE)
-----------------------------------------------------------------------------
Next ==
  \E s \in Slot :
    \/ \E k \in {"raw", "Result", "Rust"} : Make(s, k)
    \/ End(s)
    \/ MockedCall(s)
    \/ Executed(s)
    \/ \E t \in Slot :
         \/ Wrap(s, t) \/ MoveConstruct(s, t) \/ MoveAssign(s, t) \/ ReleaseRaw(s, t)
         \/ FromRaw(s, t) \/ IntoRaw(s, t)

Spec == Init /\ [][Next]_vars
-----------------------------------------------------------------------------
TypeOK ==
  /\ heap \subseteq Buffer
  /\ kind \in [Slot -> Kind]
  /\ output \in [Slot -> Buffer \cup {Null}]
  /\ release \in [Slot -> BOOLEAN]
  /\ \A s \in Slot : release[s] => kind[s] # "none"

\* The object in slot s will free an output.
Owns(s) == release[s] /\ output[s] # Null

(* release is called once for every result that has it: the objects with a *)
(* release point to buffers that are allocated, no two of them to the same *)
(* one, so that no end of an object frees a buffer a second time or under  *)
(* another object, even after its address was reused.                      *)
ReleasedOnce ==
  \A s \in Slot : Owns(s) =>
    /\ output[s] \in heap
    /\ \A t \in Slot \ {s} : Owns(t) => output[t] # output[s]

(* Every allocated output has an object that will release it.              *)
NoOutputLeaks == \A b \in heap : \E s \in Slot : Owns(s) /\ output[s] = b
=============================================================================
