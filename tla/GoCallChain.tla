----------------------------- MODULE GoCallChain -----------------------------
(***************************************************************************)
(* bindings/go/evmc: what a message and a result look like after they went *)
(* through the Go binding.  VM.Execute builds the flags of the message     *)
(* (evmc.go), the callback call turns a VM's message into arguments of     *)
(* HostContext.Call and its answer into a C result (host.go).  The host    *)
(* modelled is the usual one: it answers a call from its own state or      *)
(* executes it, passing on what Call was given and what Execute returned.  *)
(***************************************************************************)
EXTENDS Naturals, Sequences, SequencesExt

CONSTANTS
  Delegated,    \* may a message be executed in delegated mode (EIP-7702)?
  MaxDepth,     \* bound: nested executions
  Amount,       \* amounts of gas left and refunded
  Output,       \* outputs; the empty one is Empty
  Empty

ASSUME CallChainConstants ==
  /\ Delegated \in BOOLEAN
  /\ MaxDepth \in Nat \ {0}
  /\ Amount \subseteq Nat /\ 0 \in Amount
  /\ Empty \in Output

EVMC_STATIC == 1
EVMC_DELEGATED == 2

StatusCode == {"SUCCESS", "REVERT", "OUT_OF_GAS", "OUT_OF_MEMORY"}

\* Results as evmc.h allows them: gas only with success or revert, a refund only with
\* success.
CResult == {r \in [status_code : StatusCode, gas_left : Amount, gas_refund : Amount,
                   output : Output] :
              /\ r.status_code \notin {"SUCCESS", "REVERT"} => r.gas_left = 0
              /\ r.status_code # "SUCCESS" => r.gas_refund = 0}

NoResult == [status_code |-> "none", gas_left |-> 0, gas_refund |-> 0, output |-> Empty]

VARIABLES
  frames,     \* executions, the innermost last: flags of the message, request of the VM
  returned,   \* what the VM of the last execution returned, if it was nested
  received    \* what the VM that called it was given

vars == <<frames, returned, received>>

IsStatic(flags) == flags % 2 = EVMC_STATIC

\* A VM's pending call: the flags of its message and the static argument of Call.
NoCall == [flags |-> 0, static |-> FALSE, waiting |-> FALSE]
-----------------------------------------------------------------------------
Init == frames = <<>> /\ returned = NoResult /\ received = NoResult

\* The flags Execute builds.
Flags(static, delegated) ==
  (IF static THEN EVMC_STATIC ELSE 0) + (IF delegated THEN EVMC_DELEGATED ELSE 0)

Push(static, delegated) ==
  frames' = Append(frames, [flags |-> Flags(static, delegated), call |-> NoCall])

(* The client executes a message of its own.                               *)
ExecuteTransaction(static, delegated) ==
  /\ frames = <<>>
  /\ Push(static, delegated)
  /\ returned' = NoResult /\ received' = NoResult

\* Faulty variant: static only if there is no other flag.
CallStaticExact(flags) == flags = EVMC_STATIC

CallStatic(flags) == flags # 0

(* The VM of the innermost execution calls back: a static frame calls in   *)
(* static mode only (EIP-214).                                             *)
call(flags) ==
  /\ frames # <<>> /\ ~Last(frames).call.waiting
  /\ IsStatic(Last(frames).flags) => IsStatic(flags)
  /\ frames' = [frames EXCEPT ![Len(frames)].call =
                  [flags |-> flags, static |-> CallStatic(flags), waiting |-> TRUE]]
  /\ returned' = NoResult /\ received' = NoResult

(* HostContext.Call executes the message.                                  *)
ExecuteCall(delegated) ==
  /\ frames # <<>> /\ Last(frames).call.waiting
  /\ Len(frames) < MaxDepth                               \* bound
  /\ Push(Last(frames).call.static, delegated)
  /\ UNCHANGED <<returned, received>>

\* Execute: a C result becomes Result and err.
GoResult(r) ==
  [res |-> [Output |-> r.output, GasLeft |-> r.gas_left, GasRefund |-> r.gas_refund],
   err |-> IF r.status_code = "SUCCESS" THEN "nil" ELSE r.status_code]

\* Faulty variant: a revert keeps its output only.
MadeResultsNoGas(res, err) ==
  {[status_code |-> IF err = "nil" THEN "SUCCESS" ELSE err,
    gas_left |-> IF err = "nil" THEN res.GasLeft ELSE 0,
    gas_refund |-> res.GasRefund, output |-> res.Output]}

\* call, with evmc_make_result: back to C; copying an output may fail.
MadeResults(res, err) ==
  {[status_code |-> IF err = "nil" THEN "SUCCESS" ELSE err, gas_left |-> res.GasLeft,
    gas_refund |-> res.GasRefund, output |-> res.Output]}
  \cup IF res.Output = Empty THEN {}
       ELSE {[NoResult EXCEPT !.status_code = "OUT_OF_MEMORY"]}

\* The innermost VM gets the answer to its call, and goes on.
Resume(fs) == [fs EXCEPT ![Len(fs)].call = NoCall]

(* The innermost VM returns; when the execution is nested, the host        *)
(* returns from Call what Execute returned.                                *)
VMReturn(r) ==
  /\ frames # <<>> /\ ~Last(frames).call.waiting
  /\ LET outer == Front(frames)
         go == GoResult(r)
     IN  IF outer = <<>>
         THEN frames' = outer /\ returned' = NoResult /\ received' = NoResult
         ELSE /\ frames' = Resume(outer)
              /\ returned' = r
              /\ received' \in MadeResults(go.res, go.err)

(* HostContext.Call answers from the host's state, for example that the    *)
(* depth is exceeded.                                                      *)
HostAnswers(r) ==
  /\ frames # <<>> /\ Last(frames).call.waiting
  /\ LET go == GoResult(r)
     IN  received' \in MadeResults(go.res, go.err)
  /\ returned' = r
  /\ frames' = Resume(frames)

Modes == IF Delegated THEN BOOLEAN ELSE {FALSE}
MessageFlags == {Flags(s, d) : s \in BOOLEAN, d \in Modes}

Next ==
  \/ \E s \in BOOLEAN, d \in Modes : ExecuteTransaction(s, d)
  \/ \E flags \in MessageFlags : call(flags)
  \/ \E d \in Modes : ExecuteCall(d)
  \/ \E r \in CResult : VMReturn(r) \/ HostAnswers(r)

Spec == Init /\ [][Next]_vars
-----------------------------------------------------------------------------
TypeOK ==
  /\ frames \in Seq([flags : 0..3, call : [flags : 0..3, static : BOOLEAN,
                                           waiting : BOOLEAN]])
  /\ returned \in CResult \cup {NoResult}
  /\ received \in CResult \cup {NoResult}

(* Static mode is inherited through any number of hosts and VMs: once an   *)
(* execution is static, so is every execution nested in it, in whatever    *)
(* mode the calls between them were made.                                  *)
StaticIsInherited ==
  \A i, j \in DOMAIN frames :
    i < j /\ IsStatic(frames[i].flags) => IsStatic(frames[j].flags)

(* A nested execution is static only if its caller asked for a static      *)
(* call: EVMC_STATIC and EVMC_DELEGATED are different flags.               *)
StaticOnlyIfRequested ==
  \A i \in DOMAIN frames :
    i + 1 \in DOMAIN frames /\ IsStatic(frames[i + 1].flags)
      => IsStatic(frames[i].call.flags)

(* The caller's VM is given the status, gas, refund and output with which  *)
(* the callee's VM returned, or an out-of-memory status and nothing else.  *)
ResultComesBack ==
  \/ received = returned
  \/ /\ returned.output # Empty
     /\ received = [NoResult EXCEPT !.status_code = "OUT_OF_MEMORY"]
=============================================================================
