------------------------------ MODULE ExampleVM ------------------------------
(***************************************************************************)
(* The interpreter of examples/example_vm/example_vm.cpp on a Host: the    *)
(* one of examples/example_host.cpp, which echoes calls, or a MockedHost   *)
(* with its default call_result.  One action per instruction.              *)
(*                                                                         *)
(* There are no jumps: a code is a sequence of instructions, each a tuple  *)
(* of its name and, for PUSH, the value of its immediate bytes, unless the *)
(* code ends before them.  A value is the sequence of its digits, the most *)
(* significant first.  The last digit stands for the 32 bits the           *)
(* interpreter computes with, and a byte of memory holds a digit.          *)
(***************************************************************************)
EXTENDS Integers, Sequences

CONSTANTS
  Word,            \* uint32_t arithmetic is modulo this
  MemorySize,      \* sizeof(data), 1024
  StackSize,       \* 1024
  BlockNumber

ASSUME MachineConstants ==
  /\ Word \in Nat \ {0}
  /\ MemorySize \in Nat /\ MemorySize < Word
  /\ StackSize \in Nat
  /\ BlockNumber \in Nat

VARIABLES
  storage,         \* of the Host: the slots written, a function of <<account, key>>
  host,            \* which Host answers
  rev, msg, code,  \* what is being executed
  gas_left, pc, stack, memory,
  result,          \* of the last execution; RUNNING until it ends
  outside          \* the access beyond stack, memory or code, if there was one

hostVars == <<storage, host>>
machineVars == <<gas_left, pc, stack, memory>>
vmVars == <<hostVars, rev, msg, code, machineVars, result, outside>>

Digit == 0..(Word - 1)
ValueSize == 2
Value == [1..ValueSize -> Digit]
Zero == [i \in 1..ValueSize |-> 0]
Cells == 0..(MemorySize - 1)

EmptyMemory == [size |-> 0, data |-> [i \in Cells |-> 0]]
Result(status, gas, output) == [status |-> status, gas_left |-> gas, output |-> output]
Idle == Result("IDLE", 0, <<>>)
Running == Result("RUNNING", 0, <<>>)
Region(offset, size) == [offset |-> offset, size |-> size]

\* What was accessed outside of its array: nothing, the stack, the code, a memory region.
Nothing == [array |-> "none", region |-> Region(0, 0)]
OfStack == [array |-> "stack", region |-> Region(0, 0)]
OfCode == [array |-> "code", region |-> Region(0, 0)]
OfMemory(region) == [array |-> "memory", region |-> region]
-----------------------------------------------------------------------------
(* Conversions and 32-bit arithmetic.                                      *)

to_uint32(value) == value[ValueSize]
to_uint256(x) == [Zero EXCEPT ![ValueSize] = x]
Add32(a, b) == IF a + b < Word THEN a + b ELSE a + b - Word

Least(a, b) == IF a < b THEN a ELSE b
Greatest(a, b) == IF a > b THEN a ELSE b
-----------------------------------------------------------------------------
(* struct Memory.                                                          *)

\* Faulty variant: one byte more than the buffer has.
CanExpandByOne(region) == Add32(region.offset, region.size) <= MemorySize + 1

\* expand() does not return nullptr.
CanExpand(region) == Add32(region.offset, region.size) <= MemorySize

\* Faulty variant: the size is updated to the beginning of the region.
ExpandedToOffset(mem, region) == [mem EXCEPT !.size = Greatest(@, region.offset)]

Expanded(mem, region) ==
  [mem EXCEPT !.size = Greatest(@, Add32(region.offset, region.size))]

\* The region expand() returned is inside data.
InBuffer(region) == region.offset + region.size <= MemorySize

\* memcpy() of the bytes to the beginning of the region.
Copied(mem, offset, bytes) ==
  [mem EXCEPT !.data = [i \in Cells |->
     IF i >= offset /\ i < offset + Len(bytes) THEN bytes[i - offset + 1] ELSE @[i]]]

Stored(mem, offset, bytes) ==
  Copied(Expanded(mem, Region(offset, Len(bytes))), offset, bytes)

\* size bytes of mem from the offset.
Bytes(mem, region) == [i \in 1..region.size |-> mem.data[region.offset + i - 1]]
-----------------------------------------------------------------------------
(* The Host.                                                               *)

get_storage(account, key) ==
  IF <<account, key>> \in DOMAIN storage THEN storage[<<account, key>>] ELSE Zero

set_storage(account, key, value) ==
  storage' = [s \in DOMAIN storage \cup {<<account, key>>} |->
                IF s = <<account, key>> THEN value ELSE storage[s]]

\* ExampleHost::call, MockedHost::call.
call(gas, input) ==
  IF host = "ExampleHost" THEN Result("REVERT", gas, input)
                          ELSE Result("SUCCESS", 0, <<>>)
-----------------------------------------------------------------------------
(* execute().                                                              *)

\* Faulty variant: the memory of the execution before it is used.
ExecuteInOldMemory(message, bytecode) ==
  /\ msg' = message /\ code' = bytecode
  /\ gas_left' = message.gas
  /\ pc' = 1
  /\ stack' = <<>>
  /\ memory' = IF memory.size > 0 THEN memory ELSE EmptyMemory
  /\ result' = Running

\* The call of execute(): everything but the storage is new.
Execute(message, bytecode) ==
  /\ msg' = message /\ code' = bytecode
  /\ gas_left' = message.gas
  /\ pc' = 1
  /\ stack' = <<>>
  /\ memory' = EmptyMemory
  /\ result' = Running

Executing == result = Running /\ outside = Nothing

\* Values popped and values pushed by each instruction.
Operands == [ADD |-> 2, ADDRESS |-> 0, CALLDATALOAD |-> 1, NUMBER |-> 0, MSIZE |-> 0,
             SLOAD |-> 1, PUSH |-> 0, DUP1 |-> 1, SSTORE |-> 2, MSTORE |-> 2, CALL |-> 7,
             RETURN |-> 2, REVERT |-> 2, STOP |-> 0, undefined |-> 0]
Results == [ADD |-> 1, ADDRESS |-> 1, CALLDATALOAD |-> 1, NUMBER |-> 1, MSIZE |-> 1,
            SLOAD |-> 1, PUSH |-> 1, DUP1 |-> 2, SSTORE |-> 0, MSTORE |-> 0, CALL |-> 1,
            RETURN |-> 0, REVERT |-> 0, STOP |-> 0, undefined |-> 0]

CodeItem == {<<op>> : op \in DOMAIN Operands} \cup {<<"PUSH", v>> : v \in Value}

\* REVERT is decoded as undefined before Byzantium.
Decoded ==
  IF code[pc][1] = "REVERT" /\ rev = "before Byzantium" THEN "undefined" ELSE code[pc][1]

StackHolds(op) ==
  /\ Len(stack) >= Operands[op]
  /\ Len(stack) - Operands[op] + Results[op] <= StackSize

\* The next instruction is op, it is paid for, and stays within the stack.
Fetch(op) ==
  /\ Executing
  /\ pc <= Len(code) /\ gas_left >= 1
  /\ Decoded = op
  /\ StackHolds(op)

Pop(n) == stack[Len(stack) + 1 - n]         \* the n-th value popped
Popped(n) == SubSeq(stack, 1, Len(stack) - n)

Continue(newStack, newMemory) ==
  /\ pc' = pc + 1
  /\ gas_left' = gas_left - 1
  /\ stack' = newStack
  /\ memory' = newMemory
  /\ UNCHANGED <<host, rev, msg, code, result, outside>>

Return(status, gas, output) ==
  /\ result' = Result(status, gas, output)
  /\ UNCHANGED <<hostVars, rev, msg, code, machineVars, outside>>

\* An array is accessed beyond its end: nothing is known from here on.
AccessOutside(access) ==
  /\ outside' = access
  /\ UNCHANGED <<hostVars, rev, msg, code, machineVars, result>>
-----------------------------------------------------------------------------
OutOfGas ==
  /\ Executing
  /\ pc <= Len(code) /\ gas_left < 1
  /\ Return("OUT_OF_GAS", 0, <<>>)

EndOfCode ==
  /\ Executing
  /\ pc > Len(code)
  /\ Return("SUCCESS", gas_left, <<>>)

\* "Stack bounds are not checked."
StackOutside ==
  /\ Executing
  /\ pc <= Len(code) /\ gas_left >= 1
  /\ ~StackHolds(Decoded)
  /\ AccessOutside(OfStack)

Undefined == Fetch("undefined") /\ Return("UNDEFINED_INSTRUCTION", 0, <<>>)

STOP == Fetch("STOP") /\ Return("SUCCESS", gas_left - 1, <<>>)

\* The instructions that only replace their operands by a value.
Push(op, value) ==
  /\ Fetch(op)
  /\ Continue(Append(Popped(Operands[op]), value), memory)
  /\ UNCHANGED storage

ADD == Push("ADD", to_uint256(Add32(to_uint32(Pop(1)), to_uint32(Pop(2)))))

ADDRESS == Push("ADDRESS", to_uint256(msg.recipient))

\* The bytes of the input from an offset, with zeros after its end.
CALLDATALOAD ==
  LET At(i) == to_uint32(Pop(1)) + i
  IN  Push("CALLDATALOAD",
           [i \in 1..ValueSize |-> IF At(i) <= Len(msg.input) THEN msg.input[At(i)] ELSE 0])

NUMBER == Push("NUMBER", to_uint256(BlockNumber % Word))

MSIZE == Push("MSIZE", to_uint256(memory.size))

SLOAD == Push("SLOAD", get_storage(msg.recipient, Pop(1)))

PUSH == Fetch("PUSH") /\ Len(code[pc]) = 2 /\ Push("PUSH", code[pc][2])

\* The immediate bytes are read behind the end of the code.
TruncatedPUSH == Fetch("PUSH") /\ Len(code[pc]) = 1 /\ AccessOutside(OfCode)

DUP1 ==
  /\ Fetch("DUP1")
  /\ Continue(Append(stack, Pop(1)), memory)
  /\ UNCHANGED storage

SSTORE ==
  /\ Fetch("SSTORE")
  /\ set_storage(msg.recipient, Pop(1), Pop(2))
  /\ Continue(Popped(2), memory)

\* Faulty variant: the gas left is returned with the failure.
RefusedKeepingGas(region) == ~CanExpand(region) /\ Return("FAILURE", gas_left, <<>>)

\* Where a region is used: the execution fails if expand() returns nullptr.
Refused(region) == ~CanExpand(region) /\ Return("FAILURE", 0, <<>>)
Strays(region) ==
  CanExpand(region) /\ ~InBuffer(region) /\ AccessOutside(OfMemory(region))
Usable(region) == CanExpand(region) /\ InBuffer(region)

MSTORE ==
  /\ Fetch("MSTORE")
  /\ LET region == Region(to_uint32(Pop(1)), ValueSize)
     IN  \/ Refused(region)
         \/ Strays(region)
         \/ /\ Usable(region)
            /\ Continue(Popped(2), Stored(memory, region.offset, Pop(2)))
            /\ UNCHANGED storage

(* CALL: the input is read if both regions can be expanded to, and the     *)
(* part of the output that was returned is stored.  The result of store()  *)
(* is not checked: it may refuse the shorter region where expand() did not *)
(* refuse the longer one, because that one wrapped.                        *)
CALL ==
  /\ Fetch("CALL")
  /\ LET gas == to_uint32(Pop(1))
         in == Region(to_uint32(Pop(4)), to_uint32(Pop(5)))
         out == Region(to_uint32(Pop(6)), to_uint32(Pop(7)))
         expanded == Expanded(Expanded(memory, in), out)
         answer == call(gas, Bytes(expanded, in))
         n == Least(out.size, Len(answer.output))
         written == Region(out.offset, n)
         status == to_uint256(IF answer.status = "SUCCESS" THEN 1 ELSE 0)
     IN  \/ Refused(in)
         \/ CanExpand(in) /\ Refused(out)
         \/ CanExpand(out) /\ Strays(in)
         \/ CanExpand(out) /\ Usable(in) /\ Strays(written)
         \/ /\ CanExpand(out) /\ Usable(in)
            /\ ~CanExpand(written) \/ Usable(written)
            /\ Continue(Append(Popped(7), status),
                        IF Usable(written)
                        THEN Stored(expanded, out.offset, SubSeq(answer.output, 1, n))
                        ELSE expanded)
            /\ UNCHANGED storage

\* The output of RETURN and REVERT is a copy of a region, for which there is always memory.
ReturnRegion(status) ==
  LET region == Region(to_uint32(Pop(1)), to_uint32(Pop(2)))
  IN  \/ Refused(region)
      \/ Strays(region)
      \/ Usable(region) /\ Return(status, gas_left - 1, Bytes(memory, region))

RETURN == Fetch("RETURN") /\ ReturnRegion("SUCCESS")

REVERT == Fetch("REVERT") /\ ReturnRegion("REVERT")

Instruction ==
  \/ Undefined \/ STOP \/ ADD \/ ADDRESS \/ CALLDATALOAD \/ NUMBER \/ MSIZE \/ SLOAD
  \/ PUSH \/ TruncatedPUSH \/ DUP1 \/ SSTORE \/ MSTORE \/ CALL \/ RETURN \/ REVERT

VMStep == OutOfGas \/ EndOfCode \/ StackOutside \/ Instruction
=============================================================================
