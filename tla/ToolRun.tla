------------------------------- MODULE ToolRun -------------------------------
(***************************************************************************)
(* evmc::tooling::run (lib/tooling/run.cpp), which the evmc tool calls: it *)
(* executes a code on a MockedHost, perhaps as the creation of a contract  *)
(* whose code it executes then, and perhaps again and again to measure.    *)
(* The VM is the example VM.  examples/example.c is the run that creates   *)
(* and measures nothing, on the example Host.                              *)
(***************************************************************************)
EXTENDS ExampleVM

CONSTANTS
  Program,         \* codes that are run
  Deployable,      \* codes that a creation may return
  Input,           \* inputs
  Gas,             \* the gas limits of the command line, which are not negative
  create_gas,      \* of a creation
  MaxIterations    \* bound of a run: iterations of the measured loop

ASSUME RunConstants ==
  /\ \A c \in Program \cup Deployable : c \in Seq(CodeItem)
  /\ \A i \in Input : i \in Seq(Digit)
  /\ Gas \subseteq Nat /\ create_gas \in Nat
  /\ MaxIterations \in Nat \ {0}
  /\ Word > ValueSize

VARIABLES
  arg,             \* the arguments of run()
  phase,           \* what run() is doing
  expected,        \* the result of the execution
  warned,          \* a warning was printed
  iterations,      \* of the measured loop, still to do
  gas_used         \* as printed

toolVars == <<arg, phase, expected, warned, iterations, gas_used>>
vars == <<vmVars, toolVars>>

create_address == 1

Argument == [create : BOOLEAN, bench : BOOLEAN, gas : Gas, input : Input, code : Program]
Revision == {"before Byzantium", "Byzantium"}

Init ==
  /\ storage = <<>>
  /\ arg \in Argument
  /\ host \in {"ExampleHost", "MockedHost"}
  /\ host = "ExampleHost" => ~arg.create /\ ~arg.bench
  /\ rev \in Revision
  /\ msg = [gas |-> 0, recipient |-> 0, input |-> <<>>] /\ code = <<>>
  /\ gas_left = 0 /\ pc = 1 /\ stack = <<>> /\ memory = EmptyMemory
  /\ result = Idle /\ outside = Nothing
  /\ phase = "started"
  /\ expected = Idle /\ warned = FALSE /\ iterations = 0 /\ gas_used = 0
-----------------------------------------------------------------------------
Ended == result # Running /\ outside = Nothing
Message(recipient) == [gas |-> arg.gas, recipient |-> recipient, input |-> arg.input]

Create ==
  /\ phase = "started" /\ arg.create
  /\ Execute([gas |-> create_gas, recipient |-> create_address, input |-> <<>>], arg.code)
  /\ phase' = "creating"
  /\ UNCHANGED <<hostVars, rev, outside, arg, expected, warned, iterations, gas_used>>

\* The status code is the exit code; nothing is executed.
CreationFailed ==
  /\ phase = "creating" /\ Ended
  /\ result.status # "SUCCESS"
  /\ phase' = "creation failed"
  /\ UNCHANGED <<vmVars, arg, expected, warned, iterations, gas_used>>

\* The codes with the output as their bytes: with no output, the empty one.
Deployed(output) == IF output = <<>> THEN {<<>>} ELSE Deployable

ExecuteCreated ==
  /\ phase = "creating" /\ Ended
  /\ result.status = "SUCCESS"
  /\ \E c \in Deployed(result.output) : Execute(Message(create_address), c)
  /\ phase' = "executing"
  /\ UNCHANGED <<hostVars, rev, outside, arg, expected, warned, iterations, gas_used>>

ExecuteCode ==
  /\ phase = "started" /\ ~arg.create
  /\ Execute(Message(0), arg.code)
  /\ phase' = "executing"
  /\ UNCHANGED <<hostVars, rev, outside, arg, expected, warned, iterations, gas_used>>

Executed ==
  /\ phase = "executing" /\ Ended
  /\ expected' = result
  /\ phase' = IF arg.bench THEN "warm" ELSE "measured"
  /\ UNCHANGED <<vmVars, arg, warned, iterations, gas_used>>

(* bench(): a probe, whose result is compared, and then the loop.          *)
Probe ==
  /\ phase = "warm"
  /\ Execute(msg, code)
  /\ phase' = "probing"
  /\ UNCHANGED <<hostVars, rev, outside, arg, expected, warned, iterations, gas_used>>

\* The second is divided by the time of the probe.  If the clock did not advance that is a
\* division by zero, which ends the process or gives any number.
Probed ==
  /\ phase = "probing" /\ Ended
  /\ warned' = \/ result.gas_left # expected.gas_left
               \/ result.output # expected.output
  /\ \/ phase' = "loop" /\ iterations' \in 1..MaxIterations
     \/ phase' = "killed" /\ iterations' = iterations
  /\ UNCHANGED <<vmVars, arg, expected, gas_used>>

\* Faulty variant: the loop does not count.
IterateUncounted ==
  /\ phase = "loop" /\ iterations > 0
  /\ Execute(msg, code)
  /\ phase' = "iterating"
  /\ UNCHANGED <<hostVars, rev, outside, arg, expected, warned, iterations, gas_used>>

Iterate ==
  /\ phase = "loop" /\ iterations > 0
  /\ Execute(msg, code)
  /\ iterations' = iterations - 1
  /\ phase' = "iterating"
  /\ UNCHANGED <<hostVars, rev, outside, arg, expected, warned, gas_used>>

Iterated ==
  /\ phase = "iterating" /\ Ended
  /\ phase' = "loop"
  /\ UNCHANGED <<vmVars, arg, expected, warned, iterations, gas_used>>

Measured ==
  /\ phase = "loop" /\ iterations = 0
  /\ phase' = "measured"
  /\ UNCHANGED <<vmVars, arg, expected, warned, iterations, gas_used>>

Report ==
  /\ phase = "measured"
  /\ gas_used' = msg.gas - expected.gas_left
  /\ phase' = "reported"
  /\ UNCHANGED <<vmVars, arg, expected, warned, iterations>>

ToolStep ==
  \/ Create \/ CreationFailed \/ ExecuteCreated \/ ExecuteCode \/ Executed
  \/ Probe \/ Probed \/ Iterate \/ Iterated \/ Measured \/ Report

MachineStep == VMStep /\ UNCHANGED toolVars

Step == ToolStep \/ MachineStep

Over == phase \in {"creation failed", "killed", "reported"} \/ outside # Nothing

Next == Step \/ (Over /\ UNCHANGED vars)

Spec == Init /\ [][Next]_vars /\ WF_vars(Step)
-----------------------------------------------------------------------------
TypeOK ==
  /\ gas_left \in Nat /\ pc \in Nat \ {0}
  /\ stack \in Seq(Value) /\ Len(stack) <= StackSize
  /\ memory \in [size : 0..MemorySize, data : [Cells -> Digit]]
  /\ result.gas_left \in Nat /\ result.output \in Seq(Digit)
  /\ expected.gas_left \in Nat /\ expected.output \in Seq(Digit)

(* The memory is left only where the 32-bit sum of an offset and a size    *)
(* wraps: any other region expand() gives out is inside the buffer, for    *)
(* MSTORE, the input and the clamped output of CALL, RETURN and REVERT.    *)
RegionsFit ==
  outside.array = "memory" => outside.region.offset + outside.region.size >= Word

(* The size of the memory, which MSIZE returns, covers every byte written  *)
(* since the execution began; all others are zero, as the EVM has it, so   *)
(* expanding it again needs no clearing.                                   *)
BeyondSizeIsZero == \A i \in Cells : i >= memory.size => memory.data[i] = 0

(* "Inconsistent execution result likely due to the use of storage": the   *)
(* second execution of a code gives the result of the first one, unless    *)
(* the run wrote storage.                                                  *)
WarnsOnlyAboutStorage == warned => DOMAIN storage # {}

(* The gas used that is printed is at most the limit, and all of it unless *)
(* the execution succeeded or reverted: "the value MUST be 0" says evmc.h  *)
(* of the gas left by any other.  The gas of a creation does not mix with  *)
(* the gas of the call after it.                                           *)
GasUsedIsOfLimit ==
  phase = "reported" =>
    /\ gas_used \in 0..arg.gas
    /\ expected.status \notin {"SUCCESS", "REVERT"} => gas_used = arg.gas

(* Every run ends: the gas bounds an execution, and bench() counts.  It    *)
(* ends with a report, unless the creation failed, an array was left or a  *)
(* measurement divided by zero.                                            *)
RunEnds == <>Over
=============================================================================
