---------------------------- MODULE ToolRunProofs ----------------------------
(* What the interpreter does with memory and gas, for every code, input,   *)
(* memory size and gas limit, whichever way the tool runs it.              *)
EXTENDS ToolRun, TLAPS

Status == {"IDLE", "RUNNING", "SUCCESS", "REVERT", "FAILURE", "OUT_OF_GAS",
           "UNDEFINED_INSTRUCTION"}

MemoryType == [size : 0..MemorySize, data : [Cells -> Digit]]

ZeroBeyond(mem) == \A i \in Cells : i >= mem.size => mem.data[i] = 0

\* An outcome leaves at most the gas given, and none unless the execution succeeded or reverted.
Outcome(r, gas) ==
  /\ r \in [status : Status, gas_left : Nat, output : Seq(Digit)]
  /\ r.gas_left <= gas
  /\ r.status \notin {"SUCCESS", "REVERT"} => r.gas_left = 0

MachineInv ==
  /\ storage \in [DOMAIN storage -> Value]
  /\ msg \in [gas : Nat, recipient : {0, create_address}, input : Seq(Digit)]
  /\ code \in Seq(CodeItem)
  /\ gas_left \in Nat /\ gas_left <= msg.gas
  /\ pc \in Nat \ {0}
  /\ stack \in Seq(Value) /\ Len(stack) <= StackSize
  /\ memory \in MemoryType /\ ZeroBeyond(memory)
  /\ Outcome(result, msg.gas)
  /\ RegionsFit

ToolInv ==
  /\ arg \in Argument
  /\ expected \in [status : Status, gas_left : Nat, output : Seq(Digit)]
  /\ expected.status \notin {"SUCCESS", "REVERT"} => expected.gas_left = 0
  /\ phase \notin {"started", "creating", "creation failed"} => msg.gas = arg.gas
  /\ phase \in {"warm", "probing", "loop", "iterating", "measured", "reported"}
       => expected.gas_left <= arg.gas
  /\ phase = "reported" => gas_used = arg.gas - expected.gas_left

IInv == MachineInv /\ ToolInv
-----------------------------------------------------------------------------
(* Values and regions.                                                     *)

LEMMA Constants ==
  /\ Word \in Nat /\ Word > ValueSize /\ MemorySize \in Nat /\ MemorySize < Word
  /\ StackSize \in Nat /\ BlockNumber \in Nat
  /\ 0 \in Digit /\ 1 \in Digit /\ 0..MemorySize \subseteq Digit /\ Digit \subseteq Nat
  /\ \A d \in Digit : d < Word
BY MachineConstants, RunConstants DEF Digit, ValueSize

LEMMA ValueConversions ==
  /\ \A v \in Value : to_uint32(v) \in Digit
  /\ \A d \in Digit : to_uint256(d) \in Value
  /\ Zero \in Value
BY Constants DEF Value, ValueSize, to_uint32, to_uint256, Zero

LEMMA SizeOfValue ==
  /\ ValueSize \in Digit
  /\ \A v \in Value : v \in Seq(Digit) /\ Len(v) = ValueSize
<1>1. ValueSize \in Digit /\ ValueSize \in Nat
  BY Constants DEF ValueSize, Digit
<1>2. ASSUME NEW v \in Value PROVE v \in Seq(Digit) /\ Len(v) = ValueSize
  BY <1>1 DEF Value
<1>3. QED
  BY <1>1, <1>2

LEMMA Addition ==
  ASSUME NEW a \in Digit, NEW b \in Digit
  PROVE  /\ Add32(a, b) \in Digit
         /\ Add32(a, b) = a + b \/ a + b >= Word
         /\ Add32(a, b) <= a + b
BY Constants DEF Add32, Digit

\* A region that expand() accepts and that is not in the buffer has a sum that wraps.
LEMMA StraysWrap ==
  ASSUME NEW a \in Digit, NEW b \in Digit, Strays(Region(a, b))
  PROVE  a + b >= Word
BY Addition, Constants DEF Strays, CanExpand, InBuffer, Region

LEMMA ExpandedMemory ==
  ASSUME NEW mem \in MemoryType, ZeroBeyond(mem), NEW a \in Digit, NEW b \in Digit,
         CanExpand(Region(a, b))
  PROVE  /\ Expanded(mem, Region(a, b)) \in MemoryType
         /\ ZeroBeyond(Expanded(mem, Region(a, b)))
         /\ Usable(Region(a, b)) => a + b <= Expanded(mem, Region(a, b)).size
<1> DEFINE sum == Add32(a, b)
<1>1. /\ sum \in Nat /\ sum <= MemorySize /\ mem.size \in 0..MemorySize /\ MemorySize \in Nat
      /\ Cells \subseteq Nat
  <2>1. sum \in Digit /\ sum <= MemorySize
    BY Addition DEF CanExpand, Region
  <2>2. mem.size \in 0..MemorySize
    BY DEF MemoryType
  <2>3. Cells \subseteq Nat
    BY Constants DEF Cells
  <2> HIDE DEF sum
  <2>4. QED
    BY <2>1, <2>2, <2>3, Constants
<1>2. /\ Expanded(mem, Region(a, b)).size = Greatest(mem.size, sum)
      /\ Expanded(mem, Region(a, b)).data = mem.data
      /\ Expanded(mem, Region(a, b)) = [size |-> Greatest(mem.size, sum), data |-> mem.data]
  BY DEF Expanded, Region, MemoryType
<1>3. Usable(Region(a, b)) => sum = a + b
  BY Addition, Constants DEF Usable, InBuffer, Region
<1> HIDE DEF sum
<1>4. /\ Greatest(mem.size, sum) \in 0..MemorySize
      /\ Greatest(mem.size, sum) >= mem.size /\ Greatest(mem.size, sum) >= sum
  BY <1>1 DEF Greatest
<1>5. Expanded(mem, Region(a, b)) \in MemoryType
  BY <1>2, <1>4 DEF MemoryType
<1>6. ZeroBeyond(Expanded(mem, Region(a, b)))
  <2>1. ASSUME NEW i \in Cells, i >= Greatest(mem.size, sum) PROVE mem.data[i] = 0
    <3>1. i >= mem.size
      BY <2>1, <1>1, <1>4
    <3>2. QED
      BY <3>1 DEF ZeroBeyond
  <2>2. QED
    BY <2>1, <1>2 DEF ZeroBeyond
<1>7. QED
  BY <1>2, <1>3, <1>4, <1>5, <1>6

\* Bytes copied within the size of the memory leave it zero beyond.
LEMMA CopiedMemory ==
  ASSUME NEW mem \in MemoryType, ZeroBeyond(mem), NEW a \in Digit, NEW bytes \in Seq(Digit),
         a + Len(bytes) <= mem.size
  PROVE  Copied(mem, a, bytes) \in MemoryType /\ ZeroBeyond(Copied(mem, a, bytes))
<1> DEFINE data == [i \in Cells |-> IF i >= a /\ i < a + Len(bytes) THEN bytes[i - a + 1]
                                    ELSE mem.data[i]]
<1>1. Copied(mem, a, bytes) = [size |-> mem.size, data |-> data]
  BY DEF Copied, MemoryType
<1>2. /\ a \in Nat /\ Len(bytes) \in Nat /\ Cells \subseteq Nat /\ mem.size \in Nat
      /\ mem.size \in 0..MemorySize /\ mem.data \in [Cells -> Digit]
      /\ \A j \in 1..Len(bytes) : bytes[j] \in Digit
  BY Constants DEF Cells, MemoryType
<1>3. data \in [Cells -> Digit]
  <2>1. ASSUME NEW i \in Cells, i >= a, i < a + Len(bytes) PROVE bytes[i - a + 1] \in Digit
    <3>1. i - a + 1 \in 1..Len(bytes)
      BY <2>1, <1>2
    <3>2. QED
      BY <3>1, <1>2
  <2>2. QED
    BY <2>1, <1>2
<1>4. \A i \in Cells : i >= mem.size => data[i] = 0
  BY <1>2 DEF ZeroBeyond
<1> HIDE DEF data
<1>5. QED
  BY <1>1, <1>2, <1>3, <1>4 DEF MemoryType, ZeroBeyond

LEMMA StoredMemory ==
  ASSUME NEW mem \in MemoryType, ZeroBeyond(mem), NEW a \in Digit, NEW bytes \in Seq(Digit),
         Len(bytes) \in Digit, Usable(Region(a, Len(bytes)))
  PROVE  Stored(mem, a, bytes) \in MemoryType /\ ZeroBeyond(Stored(mem, a, bytes))
<1> DEFINE expanded == Expanded(mem, Region(a, Len(bytes)))
<1>1. /\ expanded \in MemoryType /\ ZeroBeyond(expanded) /\ a + Len(bytes) <= expanded.size
  BY ExpandedMemory DEF Usable
<1>2. Stored(mem, a, bytes) = Copied(expanded, a, bytes)
  BY DEF Stored
<1> HIDE DEF expanded
<1>3. QED
  BY <1>1, <1>2, CopiedMemory

LEMMA BytesType ==
  ASSUME NEW mem \in MemoryType, NEW a \in Digit, NEW b \in Digit, Usable(Region(a, b))
  PROVE  Bytes(mem, Region(a, b)) \in Seq(Digit)
<1>1. /\ a \in Nat /\ b \in Nat /\ a + b <= MemorySize /\ mem.data \in [Cells -> Digit]
      /\ MemorySize \in Nat
  BY Constants DEF Usable, InBuffer, Region, MemoryType
<1>2. Bytes(mem, Region(a, b)) = [i \in 1..b |-> mem.data[a + i - 1]]
  BY DEF Bytes, Region
<1>3. \A i \in 1..b : a + i - 1 \in Cells
  BY <1>1 DEF Cells
<1>4. \A i \in 1..b : mem.data[a + i - 1] \in Digit
  BY <1>1, <1>3
<1>5. [i \in 1..b |-> mem.data[a + i - 1]] \in Seq(Digit)
  BY <1>1, <1>4
<1>6. QED
  BY <1>2, <1>5
-----------------------------------------------------------------------------
(* The parts of a step.                                                    *)

\* What is on the stack.
LEMMA Operand ==
  ASSUME MachineInv, NEW n \in Nat, n <= Len(stack)
  PROVE  /\ Popped(n) \in Seq(Value) /\ Len(Popped(n)) = Len(stack) - n
         /\ \A i \in 1..n : Pop(i) \in Value /\ to_uint32(Pop(i)) \in Digit
<1>1. stack \in Seq(Value) /\ Len(stack) \in Nat
  BY DEF MachineInv
<1>2. \A i \in 1..n : Len(stack) + 1 - i \in DOMAIN stack
  BY <1>1
<1>3. \A i \in 1..n : Pop(i) \in Value
  BY <1>1, <1>2 DEF Pop
<1>4. QED
  BY <1>1, <1>3, ValueConversions DEF Popped

\* The execution goes on with a new stack and memory.
LEMMA ContinueKeeps ==
  ASSUME MachineInv, gas_left >= 1,
         NEW st \in Seq(Value), Len(st) <= StackSize,
         NEW mem \in MemoryType, ZeroBeyond(mem),
         storage' \in [DOMAIN storage' -> Value],
         Continue(st, mem)
  PROVE  MachineInv'
<1>1. /\ gas_left' \in Nat /\ gas_left' <= msg.gas /\ pc' \in Nat \ {0}
  BY DEF MachineInv, Continue
<1>2. /\ stack' = st /\ memory' = mem /\ UNCHANGED <<msg, code, result, outside>>
  BY DEF Continue
<1>3. Outcome(result, msg.gas)' /\ RegionsFit'
  BY <1>2 DEF MachineInv, Outcome, RegionsFit
<1>4. QED
  BY <1>1, <1>2, <1>3 DEF MachineInv

LEMMA ReturnKeeps ==
  ASSUME MachineInv, NEW status \in Status, NEW gas \in Nat, gas <= msg.gas,
         status \notin {"SUCCESS", "REVERT"} => gas = 0,
         NEW output \in Seq(Digit), Return(status, gas, output)
  PROVE  MachineInv'
<1>1. /\ result' = [status |-> status, gas_left |-> gas, output |-> output]
      /\ UNCHANGED <<storage, msg, code, gas_left, pc, stack, memory, outside>>
  BY DEF Return, Result, hostVars, machineVars
<1>2. Outcome(result, msg.gas)'
  BY <1>1 DEF Outcome
<1>3. QED
  BY <1>1, <1>2 DEF MachineInv, RegionsFit, ZeroBeyond

LEMMA OutsideKeeps ==
  ASSUME MachineInv, NEW access, AccessOutside(access),
         access.array = "memory" => access.region.offset + access.region.size >= Word
  PROVE  MachineInv'
<1>1. UNCHANGED <<storage, msg, code, gas_left, pc, stack, memory, result>> /\ outside' = access
  BY DEF AccessOutside, hostVars, machineVars
<1>2. QED
  BY <1>1 DEF MachineInv, Outcome, RegionsFit, ZeroBeyond

\* A region that is refused or strays.
LEMMA UnusableKeeps ==
  ASSUME MachineInv, NEW a \in Digit, NEW b \in Digit,
         Refused(Region(a, b)) \/ Strays(Region(a, b))
  PROVE  MachineInv'
<1>1. CASE Refused(Region(a, b))
  <2>1. Return("FAILURE", 0, <<>>) /\ 0 <= msg.gas
    BY <1>1 DEF Refused, MachineInv
  <2>2. <<>> \in Seq(Digit) /\ "FAILURE" \in Status /\ 0 \in Nat
    BY DEF Status
  <2>3. QED
    BY <2>1, <2>2, ReturnKeeps
<1>2. CASE Strays(Region(a, b))
  <2>1. AccessOutside(OfMemory(Region(a, b))) /\ a + b >= Word
    BY <1>2, StraysWrap DEF Strays
  <2>2. QED
    BY <2>1, OutsideKeeps DEF OfMemory, Region
<1>3. QED
  BY <1>1, <1>2
-----------------------------------------------------------------------------
(* The instructions.                                                       *)

LEMMA Arity ==
  /\ Operands["ADD"] = 2 /\ Operands["ADDRESS"] = 0 /\ Operands["CALLDATALOAD"] = 1
  /\ Operands["NUMBER"] = 0 /\ Operands["MSIZE"] = 0 /\ Operands["SLOAD"] = 1
  /\ Operands["PUSH"] = 0 /\ Operands["DUP1"] = 1 /\ Operands["SSTORE"] = 2
  /\ Operands["MSTORE"] = 2 /\ Operands["CALL"] = 7
  /\ Operands["RETURN"] = 2 /\ Operands["REVERT"] = 2
  /\ Results["ADD"] = 1 /\ Results["ADDRESS"] = 1 /\ Results["CALLDATALOAD"] = 1
  /\ Results["NUMBER"] = 1 /\ Results["MSIZE"] = 1 /\ Results["SLOAD"] = 1
  /\ Results["PUSH"] = 1 /\ Results["DUP1"] = 2 /\ Results["SSTORE"] = 0
  /\ Results["MSTORE"] = 0 /\ Results["CALL"] = 1
BY DEF Operands, Results

LEMMA Appended ==
  ASSUME NEW st \in Seq(Value), NEW value \in Value
  PROVE  Append(st, value) \in Seq(Value) /\ Len(Append(st, value)) = Len(st) + 1
OBVIOUS

\* Operands are replaced by a value.
LEMMA ReplacedKeeps ==
  ASSUME MachineInv, gas_left >= 1, NEW n \in Nat, n <= Len(stack),
         Len(stack) - n + 1 <= StackSize,
         NEW value \in Value, NEW mem \in MemoryType, ZeroBeyond(mem),
         Continue(Append(Popped(n), value), mem), UNCHANGED storage
  PROVE  MachineInv'
<1>1. Popped(n) \in Seq(Value) /\ Len(Popped(n)) = Len(stack) - n
  BY Operand
<1>2. PICK st \in Seq(Value) : st = Append(Popped(n), value) /\ Len(st) = Len(stack) - n + 1
  BY <1>1, Appended
<1>3. Continue(st, mem)
  BY <1>2 DEF Continue
<1>4. storage' \in [DOMAIN storage' -> Value]
  BY DEF MachineInv
<1>5. QED
  BY <1>2, <1>3, <1>4, ContinueKeeps

LEMMA PushKeeps ==
  ASSUME MachineInv, NEW op, NEW value \in Value, Push(op, value),
         Operands[op] \in Nat, Results[op] = 1
  PROVE  MachineInv'
<1>1. PICK mem \in MemoryType : mem = memory /\ ZeroBeyond(mem)
  BY DEF MachineInv
<1>2. Continue(Append(Popped(Operands[op]), value), mem) /\ UNCHANGED storage
  BY <1>1 DEF Push, Continue
<1>3. /\ gas_left >= 1 /\ Operands[op] <= Len(stack)
      /\ Len(stack) - Operands[op] + 1 <= StackSize
  BY DEF Push, Fetch, StackHolds
<1>4. QED
  BY <1>1, <1>2, <1>3, ReplacedKeeps

LEMMA FetchedOperands ==
  ASSUME MachineInv, NEW op, Fetch(op), Operands[op] \in Nat
  PROVE  \A i \in 1..Operands[op] : Pop(i) \in Value /\ to_uint32(Pop(i)) \in Digit
<1>1. Operands[op] <= Len(stack)
  BY DEF Fetch, StackHolds
<1>2. QED
  BY <1>1, Operand

LEMMA AddKeeps == MachineInv /\ ADD => MachineInv'
<1> SUFFICES ASSUME MachineInv, ADD PROVE MachineInv'
  OBVIOUS
<1>1. Fetch("ADD")
  BY DEF ADD, Push
<1>2. to_uint32(Pop(1)) \in Digit /\ to_uint32(Pop(2)) \in Digit
  BY <1>1, FetchedOperands, Arity
<1>3. PICK v \in Value : v = to_uint256(Add32(to_uint32(Pop(1)), to_uint32(Pop(2))))
  BY <1>2, Addition, ValueConversions
<1>4. Push("ADD", v)
  BY <1>3 DEF ADD, Push, Continue
<1>5. QED
  BY <1>4, PushKeeps, Arity

LEMMA ConstantsKeep == MachineInv /\ (ADDRESS \/ NUMBER \/ MSIZE) => MachineInv'
<1> SUFFICES ASSUME MachineInv, ADDRESS \/ NUMBER \/ MSIZE PROVE MachineInv'
  OBVIOUS
<1>1. CASE ADDRESS
  <2>1. msg.recipient \in Digit
    BY Constants DEF MachineInv, create_address
  <2>2. PICK v \in Value : v = to_uint256(msg.recipient)
    BY <2>1, ValueConversions
  <2>3. Push("ADDRESS", v)
    BY <1>1, <2>2 DEF ADDRESS, Push, Continue
  <2>4. QED
    BY <2>3, PushKeeps, Arity
<1>2. CASE NUMBER
  <2>1. BlockNumber % Word \in Digit
    BY Constants DEF Digit
  <2>2. PICK v \in Value : v = to_uint256(BlockNumber % Word)
    BY <2>1, ValueConversions
  <2>3. Push("NUMBER", v)
    BY <1>2, <2>2 DEF NUMBER, Push, Continue
  <2>4. QED
    BY <2>3, PushKeeps, Arity
<1>3. CASE MSIZE
  <2>1. memory.size \in Digit
    BY Constants DEF MachineInv, MemoryType
  <2>2. PICK v \in Value : v = to_uint256(memory.size)
    BY <2>1, ValueConversions
  <2>3. Push("MSIZE", v)
    BY <1>3, <2>2 DEF MSIZE, Push, Continue
  <2>4. QED
    BY <2>3, PushKeeps, Arity
<1>4. QED
  BY <1>1, <1>2, <1>3

LEMMA CallDataKeeps == MachineInv /\ CALLDATALOAD => MachineInv'
<1> SUFFICES ASSUME MachineInv, CALLDATALOAD PROVE MachineInv'
  OBVIOUS
<1> DEFINE offset == to_uint32(Pop(1))
           data == [i \in 1..ValueSize |->
                      IF offset + i <= Len(msg.input) THEN msg.input[offset + i] ELSE 0]
<1>1. Fetch("CALLDATALOAD")
  BY DEF CALLDATALOAD, Push
<1>2. offset \in Digit
  BY <1>1, FetchedOperands, Arity
<1>3. msg.input \in Seq(Digit)
  BY DEF MachineInv
<1>4. data \in Value
  <2> HIDE DEF offset
  <2>1. ASSUME NEW i \in 1..ValueSize, offset + i <= Len(msg.input)
        PROVE  msg.input[offset + i] \in Digit
    <3>1. offset + i \in 1..Len(msg.input)
      BY <2>1, <1>2, <1>3, Constants DEF ValueSize
    <3>2. QED
      BY <3>1, <1>3
  <2>2. QED
    BY <2>1, Constants DEF Value
<1>5. PICK v \in Value : v = data
  BY <1>4
<1>6. Push("CALLDATALOAD", v)
  BY <1>5 DEF CALLDATALOAD, Push, Continue
<1>7. QED
  BY <1>6, PushKeeps, Arity

LEMMA LoadKeeps == MachineInv /\ SLOAD => MachineInv'
<1> SUFFICES ASSUME MachineInv, SLOAD PROVE MachineInv'
  OBVIOUS
<1>1. PICK v \in Value : v = get_storage(msg.recipient, Pop(1))
  <2>1. storage \in [DOMAIN storage -> Value]
    BY DEF MachineInv
  <2>2. QED
    BY <2>1, ValueConversions DEF get_storage
<1>2. Push("SLOAD", v)
  BY <1>1 DEF SLOAD, Push, Continue
<1>3. QED
  BY <1>2, PushKeeps, Arity

LEMMA PushedKeeps == MachineInv /\ PUSH => MachineInv'
<1> SUFFICES ASSUME MachineInv, PUSH PROVE MachineInv'
  OBVIOUS
<1>1. code[pc] \in CodeItem /\ Len(code[pc]) = 2
  BY DEF PUSH, Fetch, MachineInv
<1>2. PICK v \in Value : v = code[pc][2]
  BY <1>1 DEF CodeItem
<1>3. Push("PUSH", v)
  BY <1>2 DEF PUSH, Push, Continue
<1>4. QED
  BY <1>3, PushKeeps, Arity

LEMMA DupKeeps == MachineInv /\ DUP1 => MachineInv'
<1> SUFFICES ASSUME MachineInv, DUP1 PROVE MachineInv'
  OBVIOUS
<1>1. Fetch("DUP1") /\ Len(stack) + 1 <= StackSize /\ gas_left >= 1
  BY Arity DEF DUP1, Fetch, StackHolds, MachineInv
<1>2. Pop(1) \in Value /\ stack \in Seq(Value)
  <2>1. Pop(1) \in Value
    BY <1>1, FetchedOperands, Arity
  <2>2. stack \in Seq(Value)
    BY DEF MachineInv
  <2>3. QED
    BY <2>1, <2>2
<1>3. PICK st \in Seq(Value) : st = Append(stack, Pop(1)) /\ Len(st) = Len(stack) + 1
  BY <1>2, Appended
<1>4. PICK mem \in MemoryType : mem = memory /\ ZeroBeyond(mem)
  BY DEF MachineInv
<1>5. Continue(st, mem) /\ storage' \in [DOMAIN storage' -> Value]
  BY <1>3, <1>4 DEF DUP1, Continue, MachineInv
<1>6. QED
  BY <1>1, <1>3, <1>4, <1>5, ContinueKeeps

LEMMA StoreKeeps == MachineInv /\ SSTORE => MachineInv'
<1> SUFFICES ASSUME MachineInv, SSTORE PROVE MachineInv'
  OBVIOUS
<1>1. Fetch("SSTORE") /\ 2 <= Len(stack) /\ gas_left >= 1
  BY Arity DEF SSTORE, Fetch, StackHolds
<1>2. /\ Pop(2) \in Value
      /\ Popped(2) \in Seq(Value) /\ Len(Popped(2)) = Len(stack) - 2
  BY <1>1, Operand
<1>3. storage' \in [DOMAIN storage' -> Value]
  <2>1. storage \in [DOMAIN storage -> Value]
    BY DEF MachineInv
  <2>2. PICK key, v : v \in Value /\ set_storage(msg.recipient, key, v)
    BY <1>2 DEF SSTORE
  <2>3. QED
    BY <2>1, <2>2 DEF set_storage
<1>4. PICK st \in Seq(Value) : st = Popped(2) /\ Len(st) <= StackSize
  BY <1>2, Constants DEF MachineInv
<1>5. PICK mem \in MemoryType : mem = memory /\ ZeroBeyond(mem)
  BY DEF MachineInv
<1>6. Continue(st, mem)
  BY <1>4, <1>5 DEF SSTORE, Continue
<1>7. QED
  BY <1>1, <1>3, <1>4, <1>5, <1>6, ContinueKeeps

LEMMA MemoryStoreKeeps == MachineInv /\ MSTORE => MachineInv'
<1> SUFFICES ASSUME MachineInv, MSTORE PROVE MachineInv'
  OBVIOUS
<1>1. Fetch("MSTORE") /\ 2 <= Len(stack) /\ gas_left >= 1
  BY Arity DEF MSTORE, Fetch, StackHolds
<1>2. /\ to_uint32(Pop(1)) \in Digit /\ Pop(2) \in Value
      /\ Popped(2) \in Seq(Value) /\ Len(Popped(2)) = Len(stack) - 2
  BY <1>1, Operand
<1>3. PICK a \in Digit : a = to_uint32(Pop(1))
  BY <1>2
<1>4. CASE Refused(Region(a, ValueSize)) \/ Strays(Region(a, ValueSize))
  BY <1>4, UnusableKeeps, SizeOfValue
<1>5. CASE /\ Usable(Region(a, ValueSize))
           /\ Continue(Popped(2), Stored(memory, a, Pop(2)))
           /\ UNCHANGED storage
  <2>1. Pop(2) \in Seq(Digit) /\ Len(Pop(2)) = ValueSize
    BY <1>2, SizeOfValue
  <2>2. PICK mem : mem = Stored(memory, a, Pop(2))
    OBVIOUS
  <2>3. mem \in MemoryType /\ ZeroBeyond(mem)
    BY <2>1, <2>2, <1>5, StoredMemory, SizeOfValue DEF MachineInv
  <2>4. PICK st \in Seq(Value) : st = Popped(2) /\ Len(st) <= StackSize
    BY <1>2, Constants DEF MachineInv
  <2>5. Continue(st, mem) /\ storage' \in [DOMAIN storage' -> Value]
    BY <1>5, <2>2, <2>4 DEF Continue, MachineInv
  <2>6. QED
    BY <1>1, <2>3, <2>4, <2>5, ContinueKeeps
<1>6. QED
  BY <1>3, <1>4, <1>5 DEF MSTORE, Refused, Strays, Return, AccessOutside, Region

\* A copied region that is usable is the output.
LEMMA ReturnRegionKeeps ==
  ASSUME MachineInv, NEW op, Fetch(op), Operands[op] = 2,
         NEW status \in {"SUCCESS", "REVERT"}, ReturnRegion(status)
  PROVE  MachineInv'
<1>1. to_uint32(Pop(1)) \in Digit /\ to_uint32(Pop(2)) \in Digit /\ gas_left >= 1
  BY FetchedOperands DEF Fetch
<1>2. PICK a \in Digit, b \in Digit : a = to_uint32(Pop(1)) /\ b = to_uint32(Pop(2))
  BY <1>1
<1>3. CASE Refused(Region(a, b)) \/ Strays(Region(a, b))
  BY <1>3, UnusableKeeps
<1>4. CASE Usable(Region(a, b)) /\ Return(status, gas_left - 1, Bytes(memory, Region(a, b)))
  <2>1. PICK output \in Seq(Digit) : output = Bytes(memory, Region(a, b))
    BY <1>4, BytesType DEF MachineInv
  <2>2. PICK gas \in Nat : gas = gas_left - 1 /\ gas <= msg.gas
    BY <1>1 DEF MachineInv
  <2>3. Return(status, gas, output) /\ status \in Status
    BY <1>4, <2>1, <2>2 DEF Return, Status
  <2>4. QED
    BY <2>2, <2>3, ReturnKeeps
<1>5. QED
  BY <1>2, <1>3, <1>4 DEF ReturnRegion, Refused, Strays, Return, AccessOutside, Region

LEMMA EndsKeep ==
  MachineInv /\ (Undefined \/ STOP \/ RETURN \/ REVERT \/ OutOfGas \/ EndOfCode) => MachineInv'
<1> SUFFICES ASSUME MachineInv, Undefined \/ STOP \/ RETURN \/ REVERT \/ OutOfGas \/ EndOfCode
             PROVE  MachineInv'
  OBVIOUS
<1>1. <<>> \in Seq(Digit) /\ 0 \in Nat /\ 0 <= msg.gas
  BY DEF MachineInv
<1>2. CASE Undefined
  BY <1>1, <1>2, ReturnKeeps DEF Undefined, Status
<1>3. CASE OutOfGas
  BY <1>1, <1>3, ReturnKeeps DEF OutOfGas, Status
<1>4. CASE STOP
  <2>1. PICK gas \in Nat : gas = gas_left - 1 /\ gas <= msg.gas
    BY <1>4 DEF STOP, Fetch, MachineInv
  <2>2. Return("SUCCESS", gas, <<>>)
    BY <1>4, <2>1 DEF STOP, Return
  <2>3. QED
    BY <1>1, <2>1, <2>2, ReturnKeeps DEF Status
<1>5. CASE EndOfCode
  <2>1. PICK gas \in Nat : gas = gas_left /\ gas <= msg.gas
    BY DEF MachineInv
  <2>2. Return("SUCCESS", gas, <<>>)
    BY <1>5, <2>1 DEF EndOfCode, Return
  <2>3. QED
    BY <1>1, <2>1, <2>2, ReturnKeeps DEF Status
<1>6. CASE RETURN
  BY <1>6, ReturnRegionKeeps, Arity DEF RETURN
<1>7. CASE REVERT
  BY <1>7, ReturnRegionKeeps, Arity DEF REVERT
<1>8. QED
  BY <1>2, <1>3, <1>4, <1>5, <1>6, <1>7

LEMMA OutsideSteps == MachineInv /\ (StackOutside \/ TruncatedPUSH) => MachineInv'
<1> SUFFICES ASSUME MachineInv, StackOutside \/ TruncatedPUSH PROVE MachineInv'
  OBVIOUS
<1>1. AccessOutside(OfStack) \/ AccessOutside(OfCode)
  BY DEF StackOutside, TruncatedPUSH
<1>2. OfStack.array = "stack" /\ OfCode.array = "code"
  BY DEF OfStack, OfCode
<1>3. QED
  BY <1>1, <1>2, OutsideKeeps

LEMMA LeastOf ==
  ASSUME NEW d \in Digit, NEW k \in Nat
  PROVE  Least(d, k) \in Digit /\ Least(d, k) <= k
BY Constants DEF Least, Digit

LEMMA Prefix ==
  ASSUME NEW output \in Seq(Digit), NEW n \in Nat, n <= Len(output)
  PROVE  SubSeq(output, 1, n) \in Seq(Digit) /\ Len(SubSeq(output, 1, n)) = n
OBVIOUS

\* What CALL leaves in memory, for any answer.
LEMMA AnswerStored ==
  ASSUME NEW mem \in MemoryType, ZeroBeyond(mem),
         NEW c \in Digit, NEW output \in Seq(Digit), NEW n \in Digit, n <= Len(output)
  PROVE  LET new == IF Usable(Region(c, n)) THEN Stored(mem, c, SubSeq(output, 1, n)) ELSE mem
         IN  new \in MemoryType /\ ZeroBeyond(new)
<1>1. CASE Usable(Region(c, n))
  <2>1. SubSeq(output, 1, n) \in Seq(Digit) /\ Len(SubSeq(output, 1, n)) = n
    BY Prefix, Constants
  <2>2. /\ Stored(mem, c, SubSeq(output, 1, n)) \in MemoryType
        /\ ZeroBeyond(Stored(mem, c, SubSeq(output, 1, n)))
    BY <1>1, <2>1, StoredMemory
  <2>3. QED
    BY <1>1, <2>2
<1>2. CASE ~Usable(Region(c, n))
  BY <1>2
<1>3. QED
  BY <1>1, <1>2

LEMMA CallKeeps == MachineInv /\ CALL => MachineInv'
<1> SUFFICES ASSUME MachineInv, CALL PROVE MachineInv'
  OBVIOUS
<1>1. Fetch("CALL") /\ 7 <= Len(stack) /\ gas_left >= 1
  BY Arity DEF CALL, Fetch, StackHolds
<1>2. \A i \in 1..7 : to_uint32(Pop(i)) \in Digit
  BY <1>1, Operand
<1>3. PICK g \in Digit, a \in Digit, b \in Digit, c \in Digit, d \in Digit :
        /\ g = to_uint32(Pop(1))
        /\ a = to_uint32(Pop(4)) /\ b = to_uint32(Pop(5))
        /\ c = to_uint32(Pop(6)) /\ d = to_uint32(Pop(7))
  <2>1. /\ to_uint32(Pop(1)) \in Digit /\ to_uint32(Pop(4)) \in Digit
        /\ to_uint32(Pop(5)) \in Digit /\ to_uint32(Pop(6)) \in Digit
        /\ to_uint32(Pop(7)) \in Digit
    BY <1>2
  <2>2. QED
    BY <2>1
<1>4. PICK mem : mem = Expanded(Expanded(memory, Region(a, b)), Region(c, d))
  OBVIOUS
<1>5. PICK answer : answer = call(g, Bytes(mem, Region(a, b)))
  OBVIOUS
<1>6. PICK n : n = Least(d, Len(answer.output))
  OBVIOUS
<1>7. PICK status : status = to_uint256(IF answer.status = "SUCCESS" THEN 1 ELSE 0)
  OBVIOUS
<1>8. PICK new : new = IF Usable(Region(c, n))
                       THEN Stored(mem, c, SubSeq(answer.output, 1, n)) ELSE mem
  OBVIOUS
<1>9. \/ Refused(Region(a, b)) \/ Strays(Region(a, b))
      \/ Refused(Region(c, d))
      \/ CanExpand(Region(c, d)) /\ Usable(Region(a, b)) /\ Strays(Region(c, n))
      \/ /\ CanExpand(Region(c, d)) /\ Usable(Region(a, b))
         /\ Continue(Append(Popped(7), status), new)
         /\ UNCHANGED storage
  <2>1. Region(c, d).offset = c /\ Region(c, d).size = d
    BY DEF Region
  <2>2. QED
    BY <1>3, <1>4, <1>5, <1>6, <1>7, <1>8, <2>1
    DEF CALL, Refused, Strays, Return, AccessOutside, Continue
<1>10. ASSUME CanExpand(Region(c, d)), Usable(Region(a, b))
       PROVE  /\ mem \in MemoryType /\ ZeroBeyond(mem)
              /\ answer.output \in Seq(Digit) /\ status \in Value
              /\ n \in Digit /\ n <= Len(answer.output)
  <2>1. CanExpand(Region(a, b))
    BY <1>10 DEF Usable
  <2>2. PICK first \in MemoryType : first = Expanded(memory, Region(a, b)) /\ ZeroBeyond(first)
    BY <2>1, ExpandedMemory DEF MachineInv
  <2>3. mem \in MemoryType /\ ZeroBeyond(mem)
    BY <2>2, <1>4, <1>10, ExpandedMemory
  <2>4. Bytes(mem, Region(a, b)) \in Seq(Digit)
    BY <2>3, <1>10, BytesType
  <2>5. answer.output \in Seq(Digit)
    <3>1. answer.output = Bytes(mem, Region(a, b)) \/ answer.output = <<>>
      BY <1>5 DEF call, Result
    <3>2. <<>> \in Seq(Digit)
      OBVIOUS
    <3>3. QED
      BY <3>1, <3>2, <2>4
  <2>6. n \in Digit /\ n <= Len(answer.output)
    BY <1>6, <2>5, LeastOf
  <2>7. status \in Value
    BY <1>7, ValueConversions, Constants
  <2>8. QED
    BY <2>3, <2>5, <2>6, <2>7
<1>11. CASE \/ Refused(Region(a, b)) \/ Strays(Region(a, b)) \/ Refused(Region(c, d))
  BY <1>11, UnusableKeeps
<1>12. CASE CanExpand(Region(c, d)) /\ Usable(Region(a, b)) /\ Strays(Region(c, n))
  BY <1>10, <1>12, UnusableKeeps
<1>13. CASE /\ CanExpand(Region(c, d)) /\ Usable(Region(a, b))
            /\ Continue(Append(Popped(7), status), new)
            /\ UNCHANGED storage
  <2>1. new \in MemoryType /\ ZeroBeyond(new)
    BY <1>8, <1>10, <1>13, AnswerStored
  <2>2. Len(stack) - 7 + 1 <= StackSize
    BY Constants DEF MachineInv
  <2>3. QED
    BY <1>1, <1>10, <1>13, <2>1, <2>2, ReplacedKeeps
<1>14. QED
  BY <1>9, <1>11, <1>12, <1>13
-----------------------------------------------------------------------------
(* The interpreter, and the tool around it.                                *)

LEMMA MachineKeepsMachine == MachineInv /\ MachineStep => MachineInv'
BY AddKeeps, ConstantsKeep, CallDataKeeps, LoadKeeps, PushedKeeps, DupKeeps, StoreKeeps,
   MemoryStoreKeeps, CallKeeps, EndsKeep, OutsideSteps DEF MachineStep, VMStep, Instruction

LEMMA MessageIsKept == MachineStep => msg' = msg
BY Zenon DEF MachineStep, VMStep, Instruction, Undefined, STOP, ADD, ADDRESS, CALLDATALOAD, NUMBER,
   MSIZE, SLOAD, PUSH, TruncatedPUSH, DUP1, SSTORE, MSTORE, CALL, RETURN, REVERT, Push,
   ReturnRegion, Refused, Strays, Continue, Return, AccessOutside, OutOfGas, EndOfCode,
   StackOutside

LEMMA MachineKeeps == IInv /\ MachineStep => IInv'
<1> SUFFICES ASSUME IInv, MachineStep PROVE IInv'
  OBVIOUS
<1>1. msg' = msg /\ UNCHANGED <<arg, phase, expected, warned, iterations, gas_used>>
  BY MessageIsKept DEF MachineStep, toolVars
<1>2. ToolInv'
  BY <1>1 DEF IInv, ToolInv
<1>3. QED
  BY <1>2, MachineKeepsMachine DEF IInv

Messages == [gas : Nat, recipient : {0, create_address}, input : Seq(Digit)]

LEMMA EmptyMemoryType == EmptyMemory \in MemoryType /\ ZeroBeyond(EmptyMemory)
BY Constants DEF EmptyMemory, MemoryType, ZeroBeyond

\* A new execution.
LEMMA ExecuteKeeps ==
  ASSUME MachineInv, NEW message \in Messages, NEW bytecode \in Seq(CodeItem),
         Execute(message, bytecode), UNCHANGED <<hostVars, rev, outside>>
  PROVE  MachineInv' /\ msg' = message
<1>1. /\ msg' = message /\ code' = bytecode /\ gas_left' = message.gas /\ pc' = 1
      /\ stack' = <<>> /\ memory' = EmptyMemory /\ result' = Running
      /\ UNCHANGED <<storage, outside>>
  BY DEF Execute, hostVars
<1>2. message.gas \in Nat /\ message.gas <= message.gas
  BY DEF Messages
<1>3. <<>> \in Seq(Value) /\ Len(<<>>) <= StackSize /\ <<>> \in Seq(Digit)
  BY Constants
<1>4. Outcome(result, msg.gas)'
  BY <1>1, <1>2, <1>3 DEF Outcome, Running, Result, Status
<1>5. memory' \in MemoryType /\ ZeroBeyond(memory')
  BY <1>1, EmptyMemoryType
<1>6. RegionsFit' /\ storage' \in [DOMAIN storage' -> Value]
  BY <1>1 DEF MachineInv, RegionsFit
<1>7. QED
  BY <1>1, <1>2, <1>3, <1>4, <1>5, <1>6 DEF MachineInv, Messages

LEMMA UnchangedKeeps == MachineInv /\ UNCHANGED vmVars => MachineInv'
BY DEF MachineInv, vmVars, hostVars, machineVars, Outcome, RegionsFit, ZeroBeyond

LEMMA ArgumentTypes ==
  ASSUME arg \in Argument, NEW recipient \in {0, create_address}
  PROVE  /\ Message(recipient) \in Messages /\ Message(recipient).gas = arg.gas
         /\ arg.code \in Seq(CodeItem) /\ arg.gas \in Nat
BY RunConstants DEF Argument, Message, Messages

LEMMA DeployedCode == \A output : \A c \in Deployed(output) : c \in Seq(CodeItem)
<1>1. <<>> \in Seq(CodeItem) /\ \A c \in Deployable : c \in Seq(CodeItem)
  BY RunConstants
<1>2. QED
  BY <1>1 DEF Deployed

LEMMA ToolKeeps == IInv /\ ToolStep => IInv'
<1> SUFFICES ASSUME IInv, ToolStep PROVE IInv'
  OBVIOUS
<1>1. MachineInv /\ ToolInv /\ arg \in Argument
  BY DEF IInv, ToolInv
<1>2. msg \in Messages /\ code \in Seq(CodeItem)
  BY <1>1 DEF MachineInv, Messages
<1>3. CASE Create
  <2>1. PICK m \in Messages : m = [gas |-> create_gas, recipient |-> create_address, input |-> <<>>]
    <3>1. create_gas \in Nat /\ <<>> \in Seq(Digit) /\ create_address \in {0, create_address}
      BY RunConstants
    <3>2. QED
      BY <3>1 DEF Messages
  <2>2. PICK bytecode \in Seq(CodeItem) : bytecode = arg.code
    BY <1>1, ArgumentTypes
  <2>3. Execute(m, bytecode) /\ UNCHANGED <<hostVars, rev, outside>>
    BY <1>3, <2>1, <2>2 DEF Create, Execute
  <2>4. MachineInv'
    BY <1>1, <2>3, ExecuteKeeps
  <2>5. ToolInv'
    BY <1>1, <1>3 DEF Create, ToolInv
  <2>6. QED
    BY <2>4, <2>5 DEF IInv
<1>4. CASE CreationFailed
  <2>1. MachineInv'
    BY <1>1, <1>4, UnchangedKeeps DEF CreationFailed
  <2>2. ToolInv'
    BY <1>1, <1>4 DEF CreationFailed, ToolInv
  <2>3. QED
    BY <2>1, <2>2 DEF IInv
<1>5. CASE ExecuteCreated
  <2>1. PICK c \in Seq(CodeItem) : Execute(Message(create_address), c)
    BY <1>5, DeployedCode DEF ExecuteCreated
  <2>2. PICK m \in Messages : m = Message(create_address) /\ m.gas = arg.gas
    BY <1>1, ArgumentTypes
  <2>3. Execute(m, c) /\ UNCHANGED <<hostVars, rev, outside>>
    BY <1>5, <2>1, <2>2 DEF ExecuteCreated, Execute
  <2>4. MachineInv' /\ msg' = m
    BY <1>1, <2>3, ExecuteKeeps
  <2>5. ToolInv'
    BY <1>1, <1>5, <2>2, <2>4 DEF ExecuteCreated, ToolInv
  <2>6. QED
    BY <2>4, <2>5 DEF IInv
<1>6. CASE ExecuteCode
  <2>1. PICK c \in Seq(CodeItem) : c = arg.code
    BY <1>1, ArgumentTypes
  <2>2. PICK m \in Messages : m = Message(0) /\ m.gas = arg.gas
    BY <1>1, ArgumentTypes
  <2>3. Execute(m, c) /\ UNCHANGED <<hostVars, rev, outside>>
    BY <1>6, <2>1, <2>2 DEF ExecuteCode, Execute
  <2>4. MachineInv' /\ msg' = m
    BY <1>1, <2>3, ExecuteKeeps
  <2>5. ToolInv'
    BY <1>1, <1>6, <2>2, <2>4 DEF ExecuteCode, ToolInv
  <2>6. QED
    BY <2>4, <2>5 DEF IInv
<1>7. CASE Executed
  <2>1. MachineInv' /\ msg' = msg
    BY <1>1, <1>7, UnchangedKeeps DEF Executed, vmVars
  <2>2. /\ result \in [status : Status, gas_left : Nat, output : Seq(Digit)]
        /\ result.gas_left <= msg.gas
        /\ result.status \notin {"SUCCESS", "REVERT"} => result.gas_left = 0
    BY <1>1 DEF MachineInv, Outcome
  <2>3. msg.gas = arg.gas
    BY <1>1, <1>7 DEF Executed, ToolInv
  <2>4. /\ expected' = result /\ arg' = arg
        /\ phase' \in {"warm", "measured"}
    BY <1>7 DEF Executed
  <2>5. ToolInv'
    BY <1>1, <2>1, <2>2, <2>3, <2>4 DEF ToolInv
  <2>6. QED
    BY <2>1, <2>5 DEF IInv
<1>8. CASE Probe \/ Iterate
  <2>1. PICK m \in Messages, c \in Seq(CodeItem) : m = msg /\ c = code
    BY <1>2
  <2>2. Execute(m, c) /\ UNCHANGED <<hostVars, rev, outside>>
    BY <1>8, <2>1 DEF Probe, Iterate, Execute
  <2>3. MachineInv' /\ msg' = msg
    BY <1>1, <2>1, <2>2, ExecuteKeeps
  <2>4. /\ arg' = arg /\ expected' = expected
        /\ phase \in {"warm", "loop"} /\ phase' \in {"probing", "iterating"}
    BY <1>8 DEF Probe, Iterate
  <2>5. ToolInv'
    BY <1>1, <2>3, <2>4 DEF ToolInv
  <2>6. QED
    BY <2>3, <2>5 DEF IInv
<1>9. CASE Probed \/ Iterated \/ Measured
  <2>1. MachineInv' /\ msg' = msg
    BY <1>1, <1>9, UnchangedKeeps DEF Probed, Iterated, Measured, vmVars
  <2>2. /\ arg' = arg /\ expected' = expected
        /\ phase \in {"probing", "iterating", "loop"} /\ phase' \in {"loop", "killed", "measured"}
    BY <1>9 DEF Probed, Iterated, Measured
  <2>3. ToolInv'
    BY <1>1, <2>1, <2>2 DEF ToolInv
  <2>4. QED
    BY <2>1, <2>3 DEF IInv
<1>10. CASE Report
  <2>1. MachineInv' /\ msg' = msg
    BY <1>1, <1>10, UnchangedKeeps DEF Report, vmVars
  <2>2. /\ arg' = arg /\ expected' = expected
        /\ phase = "measured" /\ phase' = "reported"
        /\ gas_used' = msg.gas - expected.gas_left
    BY <1>10 DEF Report
  <2>3. ToolInv'
    BY <1>1, <2>1, <2>2 DEF ToolInv
  <2>4. QED
    BY <2>1, <2>3 DEF IInv
<1>11. QED
  BY <1>3, <1>4, <1>5, <1>6, <1>7, <1>8, <1>9, <1>10 DEF ToolStep

LEMMA Initially == Init => IInv
<1> SUFFICES ASSUME Init PROVE IInv
  OBVIOUS
<1>1. <<>> \in Seq(Digit) /\ <<>> \in Seq(CodeItem) /\ <<>> \in Seq(Value)
      /\ Len(<<>>) <= StackSize /\ <<>> \in [DOMAIN <<>> -> Value]
  BY Constants
<1>2. Outcome(result, msg.gas) /\ RegionsFit
  BY <1>1 DEF Init, Idle, Result, Outcome, Status, RegionsFit, Nothing
<1>3. MachineInv
  BY <1>1, <1>2, EmptyMemoryType DEF Init, MachineInv, create_address
<1>4. ToolInv
  BY <1>1 DEF Init, ToolInv, Idle, Result, Status
<1>5. QED
  BY <1>3, <1>4 DEF IInv

LEMMA Invariant == Spec => []IInv
<1>1. IInv /\ [Next]_vars => IInv'
  <2> SUFFICES ASSUME IInv, [Next]_vars PROVE IInv'
    OBVIOUS
  <2>1. CASE Step
    BY <2>1, ToolKeeps, MachineKeeps DEF Step
  <2>2. CASE UNCHANGED vars
    <3>1. UNCHANGED vmVars /\ msg' = msg
          /\ UNCHANGED <<arg, phase, expected, warned, iterations, gas_used>>
      BY <2>2 DEF vars, vmVars, toolVars
    <3>2. MachineInv' /\ ToolInv'
      BY <3>1, UnchangedKeeps DEF IInv, ToolInv
    <3>3. QED
      BY <3>2 DEF IInv
  <2>3. QED
    BY <2>1, <2>2 DEF Next
<1>2. QED
  BY <1>1, Initially, PTL DEF Spec
-----------------------------------------------------------------------------
\* Type correctness of the interpreter and the tool.
THEOREM Types == Spec => []TypeOK
<1>1. IInv => TypeOK
  BY DEF IInv, MachineInv, ToolInv, Outcome, MemoryType, TypeOK
<1>2. QED
  BY <1>1, Invariant, PTL

(* Whatever code runs, with whatever input: example_vm.cpp leaves its      *)
(* memory buffer only for regions whose 32-bit end wraps.                  *)
THEOREM Regions == Spec => []RegionsFit
<1>1. IInv => RegionsFit
  BY DEF IInv, MachineInv
<1>2. QED
  BY <1>1, Invariant, PTL

(* The bytes of memory beyond its size are zero, so MSIZE never hides a    *)
(* byte that was written and expand() never exposes an old one.            *)
THEOREM Zeros == Spec => []BeyondSizeIsZero
<1>1. IInv => BeyondSizeIsZero
  BY DEF IInv, MachineInv, ZeroBeyond, BeyondSizeIsZero
<1>2. QED
  BY <1>1, Invariant, PTL

(* The printed gas used is within the limit given, and all of it after a   *)
(* failure, for every code, also after a creation and repeated executions. *)
THEOREM GasUsed == Spec => []GasUsedIsOfLimit
<1>1. IInv => GasUsedIsOfLimit
  <2> SUFFICES ASSUME IInv, phase = "reported" PROVE
        /\ gas_used \in 0..arg.gas
        /\ expected.status \notin {"SUCCESS", "REVERT"} => gas_used = arg.gas
    BY DEF GasUsedIsOfLimit
  <2>1. arg.gas \in Nat
    BY ArgumentTypes DEF IInv, ToolInv
  <2>2. expected.gas_left \in Nat /\ expected.gas_left <= arg.gas
        /\ gas_used = arg.gas - expected.gas_left
        /\ (expected.status \notin {"SUCCESS", "REVERT"} => expected.gas_left = 0)
    BY DEF IInv, ToolInv
  <2>3. QED
    BY <2>1, <2>2
<1>2. QED
  BY <1>1, Invariant, PTL
-----------------------------------------------------------------------------
(* The interpreter is a function: what an execution without storage comes  *)
(* to is determined by its code, message, revision and Host.  An execution *)
(* is its machine; After gives the one after a step.                       *)
Machine == [gas |-> gas_left, pc |-> pc, stack |-> stack, memory |-> memory, result |-> result]
Fresh == [gas |-> msg.gas, pc |-> 1, stack |-> <<>>, memory |-> EmptyMemory, result |-> Running]

Nth(m, n) == m.stack[Len(m.stack) + 1 - n]
Rest(m, n) == SubSeq(m.stack, 1, Len(m.stack) - n)
OpOf(m) ==
  IF code[m.pc][1] = "REVERT" /\ rev = "before Byzantium" THEN "undefined" ELSE code[m.pc][1]

Ends(m, r) == [gas |-> m.gas, pc |-> m.pc, stack |-> m.stack, memory |-> m.memory, result |-> r]
Moves(m, st, mem) ==
  [gas |-> m.gas - 1, pc |-> m.pc + 1, stack |-> st, memory |-> mem, result |-> m.result]
Fails(m) == Ends(m, Result("FAILURE", 0, <<>>))
Pushes(m, op, value) == Moves(m, Append(Rest(m, Operands[op]), value), m.memory)

Loaded(m) ==
  [i \in 1..ValueSize |-> IF to_uint32(Nth(m, 1)) + i <= Len(msg.input)
                          THEN msg.input[to_uint32(Nth(m, 1)) + i] ELSE 0]

AfterMSTORE(m) ==
  LET region == Region(to_uint32(Nth(m, 1)), ValueSize)
  IN  IF CanExpand(region)
      THEN Moves(m, Rest(m, 2), Stored(m.memory, region.offset, Nth(m, 2)))
      ELSE Fails(m)

AfterCALL(m) ==
  LET in == Region(to_uint32(Nth(m, 4)), to_uint32(Nth(m, 5)))
      out == Region(to_uint32(Nth(m, 6)), to_uint32(Nth(m, 7)))
      expanded == Expanded(Expanded(m.memory, in), out)
      answer == call(to_uint32(Nth(m, 1)), Bytes(expanded, in))
      n == Least(out.size, Len(answer.output))
      status == to_uint256(IF answer.status = "SUCCESS" THEN 1 ELSE 0)
  IN  IF CanExpand(in) /\ CanExpand(out)
      THEN Moves(m, Append(Rest(m, 7), status),
                 IF Usable(Region(out.offset, n))
                 THEN Stored(expanded, out.offset, SubSeq(answer.output, 1, n))
                 ELSE expanded)
      ELSE Fails(m)

AfterReturn(m, status) ==
  LET region == Region(to_uint32(Nth(m, 1)), to_uint32(Nth(m, 2)))
  IN  IF CanExpand(region)
      THEN Ends(m, Result(status, m.gas - 1, Bytes(m.memory, region)))
      ELSE Fails(m)

AfterInstruction(m, op) ==
  CASE op = "undefined" -> Ends(m, Result("UNDEFINED_INSTRUCTION", 0, <<>>))
    [] op = "STOP" -> Ends(m, Result("SUCCESS", m.gas - 1, <<>>))
    [] op = "ADD" -> Pushes(m, op, to_uint256(Add32(to_uint32(Nth(m, 1)), to_uint32(Nth(m, 2)))))
    [] op = "ADDRESS" -> Pushes(m, op, to_uint256(msg.recipient))
    [] op = "CALLDATALOAD" -> Pushes(m, op, Loaded(m))
    [] op = "NUMBER" -> Pushes(m, op, to_uint256(BlockNumber % Word))
    [] op = "MSIZE" -> Pushes(m, op, to_uint256(m.memory.size))
    [] op = "SLOAD" -> Pushes(m, op, Zero)
    [] op = "PUSH" -> Pushes(m, op, code[m.pc][2])
    [] op = "DUP1" -> Moves(m, Append(m.stack, Nth(m, 1)), m.memory)
    [] op = "MSTORE" -> AfterMSTORE(m)
    [] op = "CALL" -> AfterCALL(m)
    [] op = "RETURN" -> AfterReturn(m, "SUCCESS")
    [] op = "REVERT" -> AfterReturn(m, "REVERT")

After(m) ==
  IF m.pc > Len(code) THEN Ends(m, Result("SUCCESS", m.gas, <<>>))
  ELSE IF m.gas < 1 THEN Ends(m, Result("OUT_OF_GAS", 0, <<>>))
  ELSE AfterInstruction(m, OpOf(m))

LEMMA OfMachine ==
  /\ Machine.gas = gas_left /\ Machine.pc = pc /\ Machine.stack = stack
  /\ Machine.memory = memory /\ Machine.result = result
  /\ \A n : Nth(Machine, n) = Pop(n) /\ Rest(Machine, n) = Popped(n)
  /\ OpOf(Machine) = Decoded
BY DEF Machine, Nth, Pop, Rest, Popped, OpOf, Decoded

LEMMA AfterFetch ==
  ASSUME MachineInv, NEW op, Fetch(op)
  PROVE  After(Machine) = AfterInstruction(Machine, op)
<1>1. gas_left \in Nat /\ pc \in Nat /\ Len(code) \in Nat
  BY DEF MachineInv
<1>2. ~(pc > Len(code)) /\ ~(gas_left < 1) /\ Decoded = op
  BY <1>1 DEF Fetch
<1> QED
  BY <1>2, OfMachine DEF After

LEMMA Continued ==
  ASSUME NEW st, NEW mem, Continue(st, mem)
  PROVE  Machine' = Moves(Machine, st, mem)
BY OfMachine DEF Continue, Machine, Moves

LEMMA Returned ==
  ASSUME NEW status, NEW gas, NEW output, Return(status, gas, output)
  PROVE  Machine' = Ends(Machine, Result(status, gas, output))
BY OfMachine DEF Return, Machine, Ends, machineVars

LEMMA PushIsAfter ==
  ASSUME NEW op, NEW value, Push(op, value)
  PROVE  Machine' = Pushes(Machine, op, value)
BY OfMachine, Continued DEF Push, Pushes

\* An access outside of an array leaves the function.
LEMMA Inside ==
  ASSUME outside' = Nothing
  PROVE  /\ ~StackOutside /\ ~TruncatedPUSH
         /\ \A region : ~Strays(region)
<1>1. OfStack # Nothing /\ OfCode # Nothing /\ \A region : OfMemory(region) # Nothing
  BY DEF OfStack, OfCode, OfMemory, Nothing
<1> QED
  BY <1>1 DEF StackOutside, TruncatedPUSH, Strays, AccessOutside

LEMMA MachineIsAFunction ==
  ASSUME MachineInv, VMStep, outside' = Nothing, DOMAIN storage' = {}
  PROVE  Machine' = After(Machine)
<1>0. gas_left \in Nat /\ pc \in Nat /\ Len(code) \in Nat
  BY DEF MachineInv
<1>1. CASE OutOfGas
  <2>1. Machine' = Ends(Machine, Result("OUT_OF_GAS", 0, <<>>))
    BY <1>1, Returned DEF OutOfGas
  <2>2. ~(pc > Len(code)) /\ gas_left < 1
    BY <1>0, <1>1 DEF OutOfGas
  <2> QED
    BY <2>1, <2>2, OfMachine DEF After
<1>2. CASE EndOfCode
  <2>1. Machine' = Ends(Machine, Result("SUCCESS", gas_left, <<>>)) /\ pc > Len(code)
    BY <1>2, Returned DEF EndOfCode
  <2> QED
    BY <2>1, OfMachine DEF After
<1>3. CASE Undefined
  <2>1. /\ Machine' = Ends(Machine, Result("UNDEFINED_INSTRUCTION", 0, <<>>))
        /\ Fetch("undefined")
    BY <1>3, Returned DEF Undefined
  <2> QED
    BY <2>1, AfterFetch DEF AfterInstruction
<1>4. CASE STOP
  <2>1. Machine' = Ends(Machine, Result("SUCCESS", gas_left - 1, <<>>)) /\ Fetch("STOP")
    BY <1>4, Returned DEF STOP
  <2> QED
    BY <2>1, OfMachine, AfterFetch DEF AfterInstruction
<1>5. CASE ADD
  <2>1. Fetch("ADD")
    BY <1>5 DEF ADD, Push
  <2> QED
    BY <1>5, <2>1, OfMachine, PushIsAfter, AfterFetch DEF ADD, AfterInstruction
<1>6. CASE ADDRESS
  <2>1. Fetch("ADDRESS")
    BY <1>6 DEF ADDRESS, Push
  <2> QED
    BY <1>6, <2>1, PushIsAfter, AfterFetch DEF ADDRESS, AfterInstruction
<1>7. CASE CALLDATALOAD
  <2> DEFINE loaded == [i \in 1..ValueSize |-> IF to_uint32(Pop(1)) + i <= Len(msg.input)
                                               THEN msg.input[to_uint32(Pop(1)) + i] ELSE 0]
  <2>1. Loaded(Machine) = loaded
    BY OfMachine DEF Loaded
  <2>2. Push("CALLDATALOAD", loaded)
    BY <1>7 DEF CALLDATALOAD
  <2> HIDE DEF loaded
  <2>3. Fetch("CALLDATALOAD") /\ Push("CALLDATALOAD", Loaded(Machine))
    BY <2>1, <2>2 DEF Push
  <2> QED
    BY <2>3, PushIsAfter, AfterFetch DEF AfterInstruction
<1>8. CASE NUMBER
  <2>1. Fetch("NUMBER")
    BY <1>8 DEF NUMBER, Push
  <2> QED
    BY <1>8, <2>1, PushIsAfter, AfterFetch DEF NUMBER, AfterInstruction
<1>9. CASE MSIZE
  <2>1. Fetch("MSIZE")
    BY <1>9 DEF MSIZE, Push
  <2> QED
    BY <1>9, <2>1, OfMachine, PushIsAfter, AfterFetch DEF MSIZE, AfterInstruction
<1>10. CASE SLOAD
  <2>1. Fetch("SLOAD") /\ storage' = storage
    BY <1>10 DEF SLOAD, Push
  <2>2. Push("SLOAD", Zero)
    BY <1>10, <2>1 DEF SLOAD, get_storage
  <2> QED
    BY <2>1, <2>2, PushIsAfter, AfterFetch DEF AfterInstruction
<1>11. CASE PUSH
  <2>1. Fetch("PUSH")
    BY <1>11 DEF PUSH
  <2> QED
    BY <1>11, <2>1, OfMachine, PushIsAfter, AfterFetch DEF PUSH, AfterInstruction
<1>12. CASE DUP1
  <2>1. Fetch("DUP1") /\ Machine' = Moves(Machine, Append(stack, Pop(1)), memory)
    BY <1>12, Continued DEF DUP1
  <2> QED
    BY <2>1, OfMachine, AfterFetch DEF AfterInstruction
<1>13. CASE SSTORE
  <2>1. <<msg.recipient, Pop(1)>> \in DOMAIN storage'
    BY <1>13 DEF SSTORE, set_storage
  <2> QED
    BY <2>1
<1>14. CASE MSTORE
  <2> DEFINE region == Region(to_uint32(Pop(1)), ValueSize)
  <2>1. Fetch("MSTORE")
    BY <1>14 DEF MSTORE
  <2>2. \/ Refused(region)
        \/ Usable(region) /\ Continue(Popped(2), Stored(memory, region.offset, Pop(2)))
    BY <1>14, Inside DEF MSTORE
  <2> HIDE DEF region
  <2>3. \/ ~CanExpand(region) /\ Machine' = Fails(Machine)
        \/ /\ CanExpand(region)
           /\ Machine' = Moves(Machine, Popped(2), Stored(memory, region.offset, Pop(2)))
    BY <2>2, Returned, Continued DEF Refused, Usable, Fails
  <2>4. After(Machine) = AfterMSTORE(Machine)
    BY <2>1, AfterFetch DEF AfterInstruction
  <2> QED
    BY <2>3, <2>4, OfMachine DEF AfterMSTORE, region
<1>15. CASE CALL
  <2> DEFINE in == Region(to_uint32(Pop(4)), to_uint32(Pop(5)))
             out == Region(to_uint32(Pop(6)), to_uint32(Pop(7)))
             expanded == Expanded(Expanded(memory, in), out)
             answer == call(to_uint32(Pop(1)), Bytes(expanded, in))
             n == Least(out.size, Len(answer.output))
             written == Region(out.offset, n)
             status == to_uint256(IF answer.status = "SUCCESS" THEN 1 ELSE 0)
             stored == IF Usable(written)
                       THEN Stored(expanded, out.offset, SubSeq(answer.output, 1, n))
                       ELSE expanded
  <2>1. Fetch("CALL")
    BY <1>15 DEF CALL
  <2>2. \/ Refused(in)
        \/ Refused(out)
        \/ CanExpand(out) /\ Usable(in) /\ Continue(Append(Popped(7), status), stored)
    BY <1>15, Inside DEF CALL
  <2>3. After(Machine) = AfterCALL(Machine)
    BY <2>1, AfterFetch DEF AfterInstruction
  <2>4. AfterCALL(Machine) = IF CanExpand(in) /\ CanExpand(out)
                             THEN Moves(Machine, Append(Popped(7), status), stored)
                             ELSE Fails(Machine)
    BY OfMachine DEF AfterCALL
  <2> HIDE DEF in, out, status, stored
  <2>5. \/ ~(CanExpand(in) /\ CanExpand(out)) /\ Machine' = Fails(Machine)
        \/ /\ CanExpand(in) /\ CanExpand(out)
           /\ Machine' = Moves(Machine, Append(Popped(7), status), stored)
    BY <2>2, Returned, Continued DEF Refused, Usable, Fails
  <2> QED
    BY <2>3, <2>4, <2>5
<1>16. ASSUME NEW status, NEW op, Fetch(op), ReturnRegion(status),
              AfterInstruction(Machine, op) = AfterReturn(Machine, status)
       PROVE  Machine' = After(Machine)
  <2> DEFINE region == Region(to_uint32(Pop(1)), to_uint32(Pop(2)))
  <2>1. \/ Refused(region)
        \/ Usable(region) /\ Return(status, gas_left - 1, Bytes(memory, region))
    BY <1>16, Inside DEF ReturnRegion
  <2> HIDE DEF region
  <2>2. \/ ~CanExpand(region) /\ Machine' = Fails(Machine)
        \/ /\ CanExpand(region)
           /\ Machine' = Ends(Machine, Result(status, gas_left - 1, Bytes(memory, region)))
    BY <2>1, Returned DEF Refused, Usable, Fails
  <2>3. After(Machine) = AfterReturn(Machine, status)
    BY <1>16, AfterFetch
  <2> QED
    BY <2>2, <2>3, OfMachine DEF AfterReturn, region
<1>17. CASE RETURN
  <2>1. AfterInstruction(Machine, "RETURN") = AfterReturn(Machine, "SUCCESS")
    BY DEF AfterInstruction
  <2> QED
    BY <1>16, <1>17, <2>1 DEF RETURN
<1>18. CASE REVERT
  <2>1. AfterInstruction(Machine, "REVERT") = AfterReturn(Machine, "REVERT")
    BY DEF AfterInstruction
  <2> QED
    BY <1>16, <1>18, <2>1 DEF REVERT
<1> QED
  BY <1>1, <1>2, <1>3, <1>4, <1>5, <1>6, <1>7, <1>8, <1>9, <1>10, <1>11, <1>12, <1>13, <1>14,
     <1>15, <1>17, <1>18, Inside DEF VMStep, Instruction

\* The machines of an execution, from its first to its n-th step.
Trace(tr, n) ==
  /\ tr[0] = Fresh
  /\ \A k \in 0..(n - 1) : tr[k].result = Running /\ tr[k + 1] = After(tr[k])

\* Without storage, an execution is on its trace, and bench() goes along the one before.
Repeating ==
  /\ phase = "executing" => \E n \in Nat : \E tr : Trace(tr, n) /\ tr[n] = Machine
  /\ phase \in {"warm", "probing"} =>
       \E n \in Nat : \E tr :
         /\ Trace(tr, n) /\ tr[n].result = expected /\ expected # Running
         /\ phase = "warm" => result = expected
         /\ phase = "probing" => \E k \in 0..n : tr[k] = Machine

RepeatInv == DOMAIN storage = {} => ~warned /\ (outside = Nothing => Repeating)

LEMMA FirstOfTrace ==
  \E n \in Nat : \E tr : Trace(tr, n) /\ tr[n] = Fresh
<1> DEFINE tr == [k \in {0} |-> Fresh]
<1>1. Trace(tr, 0) /\ tr[0] = Fresh
  <2>1. \A k \in 0..(0 - 1) : FALSE
    OBVIOUS
  <2> QED
    BY <2>1 DEF Trace
<1> HIDE DEF tr
<1> QED
  BY <1>1

LEMMA TraceGrows ==
  ASSUME NEW n \in Nat, NEW tr, Trace(tr, n), tr[n].result = Running
  PROVE  \E longer : Trace(longer, n + 1) /\ longer[n + 1] = After(tr[n])
<1> DEFINE longer == [k \in 0..(n + 1) |-> IF k = n + 1 THEN After(tr[n]) ELSE tr[k]]
<1>1. longer[n + 1] = After(tr[n]) /\ \A k \in 0..n : longer[k] = tr[k]
  OBVIOUS
<1> HIDE DEF longer
<1>2. ASSUME NEW k \in 0..(n + 1 - 1)
      PROVE  longer[k].result = Running /\ longer[k + 1] = After(longer[k])
  <2>1. CASE k = n
    BY <1>1, <2>1
  <2>2. CASE k # n
    <3>1. k \in 0..n /\ k + 1 \in 0..n /\ k \in 0..(n - 1)
      BY <2>2
    <3> QED
      BY <1>1, <3>1 DEF Trace
  <2> QED
    BY <2>1, <2>2
<1>3. longer[0] = Fresh
  BY <1>1 DEF Trace
<1> QED
  BY <1>1, <1>2, <1>3 DEF Trace

\* The function and its traces are those of the execution.
LEMMA TraceStays ==
  ASSUME host' = host, rev' = rev, msg' = msg, code' = code
  PROVE  \A tr : \A n : Trace(tr, n)' <=> Trace(tr, n)
<1>1. \A m : OpOf(m)' = OpOf(m) /\ Loaded(m)' = Loaded(m)
  BY DEF OpOf, Loaded
<1>2. \A m : AfterCALL(m)' = AfterCALL(m)
  BY DEF AfterCALL, call
<1>3. \A m : \A op : AfterInstruction(m, op)' = AfterInstruction(m, op)
  BY <1>1, <1>2 DEF AfterInstruction
<1>4. \A m : After(m)' = After(m)
  BY <1>1, <1>3 DEF After
<1>5. Fresh' = Fresh
  BY DEF Fresh
<1> QED
  BY <1>4, <1>5 DEF Trace

LEMMA StepOfMachine ==
  ASSUME VMStep
  PROVE  /\ host' = host /\ rev' = rev /\ msg' = msg /\ code' = code
         /\ result = Running
         /\ outside = Nothing /\ DOMAIN storage \subseteq DOMAIN storage'
<1>1. CASE OutOfGas \/ EndOfCode \/ StackOutside \/ Undefined \/ STOP \/ TruncatedPUSH
  BY <1>1 DEF OutOfGas, EndOfCode, StackOutside, Undefined, STOP, TruncatedPUSH, Fetch, Executing,
              Return, AccessOutside, hostVars
<1>2. CASE ADD \/ ADDRESS \/ CALLDATALOAD \/ NUMBER \/ MSIZE \/ SLOAD \/ PUSH
  BY <1>2 DEF ADD, ADDRESS, CALLDATALOAD, NUMBER, MSIZE, SLOAD, PUSH, Push, Fetch, Executing,
              Continue
<1>3. CASE DUP1 \/ SSTORE
  BY <1>3 DEF DUP1, SSTORE, set_storage, Fetch, Executing, Continue
<1>4. CASE MSTORE \/ CALL
  BY <1>4 DEF MSTORE, CALL, Refused, Strays, Fetch, Executing, Continue, Return, AccessOutside,
              hostVars
<1>5. CASE RETURN \/ REVERT
  BY <1>5 DEF RETURN, REVERT, ReturnRegion, Refused, Strays, Fetch, Executing, Return,
              AccessOutside, hostVars
<1> QED
  BY <1>1, <1>2, <1>3, <1>4, <1>5 DEF VMStep, Instruction

LEMMA MachineRepeats == IInv /\ RepeatInv /\ MachineStep => RepeatInv'
<1> SUFFICES ASSUME IInv, RepeatInv, MachineStep, DOMAIN storage' = {}
             PROVE  ~warned' /\ (outside' = Nothing => Repeating')
  BY DEF RepeatInv
<1>1. /\ host' = host /\ rev' = rev /\ msg' = msg /\ code' = code /\ result = Running
      /\ outside = Nothing /\ DOMAIN storage = {}
  BY StepOfMachine DEF MachineStep
<1>2. phase' = phase /\ expected' = expected /\ warned' = warned
  BY DEF MachineStep, toolVars
<1>3. ~warned'
  BY <1>1, <1>2 DEF RepeatInv
<1> SUFFICES ASSUME outside' = Nothing PROVE Repeating'
  BY <1>3
<1>4. Machine' = After(Machine) /\ Machine.result = Running
  BY <1>1, MachineIsAFunction, OfMachine DEF MachineStep, IInv
<1>5. ASSUME phase = "executing"
      PROVE  \E n \in Nat : \E tr : Trace(tr, n)' /\ tr[n] = Machine'
  <2>1. PICK n \in Nat : \E tr : Trace(tr, n) /\ tr[n] = Machine
    BY <1>1, <1>5 DEF RepeatInv, Repeating
  <2>2. PICK tr : Trace(tr, n) /\ tr[n] = Machine
    BY <2>1
  <2>3. PICK longer : Trace(longer, n + 1) /\ longer[n + 1] = After(tr[n])
    BY <1>4, <2>2, TraceGrows
  <2>4. n + 1 \in Nat
    OBVIOUS
  <2> QED
    BY <1>1, <1>4, <2>2, <2>3, <2>4, TraceStays
<1>6. phase # "warm"
  BY <1>1 DEF RepeatInv, Repeating
<1>7. ASSUME phase = "probing"
      PROVE  \E n \in Nat : \E tr :
               /\ Trace(tr, n)' /\ tr[n].result = expected /\ expected # Running
               /\ \E k \in 0..n : tr[k] = Machine'
  <2>1. PICK n \in Nat : \E tr :
          /\ Trace(tr, n) /\ tr[n].result = expected /\ expected # Running
          /\ \E k \in 0..n : tr[k] = Machine
    BY <1>1, <1>7 DEF RepeatInv, Repeating
  <2>2. PICK tr :
          /\ Trace(tr, n) /\ tr[n].result = expected /\ expected # Running
          /\ \E k \in 0..n : tr[k] = Machine
    BY <2>1
  <2>3. PICK k \in 0..n : tr[k] = Machine
    BY <2>2
  <2>4. k # n
    BY <1>4, <2>2, <2>3
  <2>5. k \in 0..(n - 1) /\ k + 1 \in 0..n
    BY <2>4
  <2>6. tr[k + 1] = Machine'
    BY <1>4, <2>2, <2>3, <2>5 DEF Trace
  <2> QED
    BY <1>1, <2>2, <2>5, <2>6, TraceStays
<1> QED
  BY <1>2, <1>5, <1>6, <1>7 DEF Repeating

LEMMA ToolRepeats == IInv /\ RepeatInv /\ ToolStep => RepeatInv'
<1> SUFFICES ASSUME IInv, RepeatInv, ToolStep, DOMAIN storage' = {}
             PROVE  ~warned' /\ (outside' = Nothing => Repeating')
  BY DEF RepeatInv
<1>1. storage' = storage /\ outside' = outside /\ host' = host /\ rev' = rev
  BY DEF ToolStep, Create, CreationFailed, ExecuteCreated, ExecuteCode, Executed, Probe, Probed,
         Iterate, Iterated, Measured, Report, vmVars, hostVars
<1>2. ~warned /\ (outside = Nothing => Repeating)
  BY <1>1 DEF RepeatInv
<1>3. CASE ExecuteCreated \/ ExecuteCode
  <2>1. Machine' = Fresh'
    BY <1>3 DEF ExecuteCreated, ExecuteCode, Execute, Machine, Fresh
  <2>2. \E n \in Nat : \E tr : Trace(tr, n)' /\ tr[n] = Fresh'
    <3>1. (\E n \in Nat : \E tr : Trace(tr, n) /\ tr[n] = Fresh)'
      BY FirstOfTrace, PTL
    <3> QED
      BY <3>1
  <2>3. phase' = "executing" /\ warned' = warned
    BY <1>3 DEF ExecuteCreated, ExecuteCode
  <2> QED
    BY <1>2, <2>1, <2>2, <2>3 DEF Repeating
<1>4. CASE Executed
  <2>1. /\ outside = Nothing /\ phase = "executing" /\ result # Running
        /\ expected' = result /\ result' = result
        /\ msg' = msg /\ code' = code /\ warned' = warned /\ phase' \in {"warm", "measured"}
    BY <1>4 DEF Executed, Ended, vmVars
  <2>2. PICK n \in Nat : \E tr : Trace(tr, n) /\ tr[n] = Machine
    BY <1>2, <2>1 DEF Repeating
  <2>3. PICK tr : Trace(tr, n) /\ tr[n] = Machine
    BY <2>2
  <2>4. tr[n].result = expected'
    BY <2>1, <2>3, OfMachine
  <2>5. Trace(tr, n)' /\ expected' # Running' /\ result' = expected'
    BY <1>1, <2>1, <2>3, TraceStays DEF Running
  <2> QED
    BY <1>2, <2>1, <2>4, <2>5 DEF Repeating
<1>5. CASE Probe
  <2>1. /\ phase = "warm" /\ phase' = "probing" /\ msg' = msg /\ code' = code
        /\ expected' = expected /\ warned' = warned /\ Machine' = Fresh'
    BY <1>5 DEF Probe, Execute, Machine, Fresh
  <2> SUFFICES ASSUME outside = Nothing PROVE Repeating'
    BY <1>1, <1>2, <2>1
  <2>2. PICK n \in Nat : \E tr : Trace(tr, n) /\ tr[n].result = expected /\ expected # Running
    BY <1>2, <2>1 DEF Repeating
  <2>3. PICK tr : Trace(tr, n) /\ tr[n].result = expected /\ expected # Running
    BY <2>2
  <2>4. Trace(tr, n)'
    BY <1>1, <2>1, <2>3, TraceStays
  <2>5. tr[0] = Machine' /\ 0 \in 0..n
    BY <2>1, <2>4 DEF Trace
  <2> QED
    BY <2>1, <2>3, <2>4, <2>5 DEF Repeating, Running
<1>6. CASE Probed
  <2>1. /\ outside = Nothing /\ phase = "probing" /\ result # Running
        /\ phase' \in {"loop", "killed"}
        /\ warned' = (result.gas_left # expected.gas_left \/ result.output # expected.output)
    BY <1>6 DEF Probed, Ended
  <2>2. PICK n \in Nat : \E tr :
          Trace(tr, n) /\ tr[n].result = expected /\ \E k \in 0..n : tr[k] = Machine
    BY <1>2, <2>1 DEF Repeating
  <2>3. PICK tr : Trace(tr, n) /\ tr[n].result = expected /\ \E k \in 0..n : tr[k] = Machine
    BY <2>2
  <2>4. PICK k \in 0..n : tr[k] = Machine
    BY <2>3
  <2>5. tr[k].result # Running
    BY <2>1, <2>4, OfMachine
  <2>6. k \notin 0..(n - 1)
    BY <2>3, <2>5 DEF Trace
  <2>7. k = n
    BY <2>6
  <2>8. result = expected
    BY <2>3, <2>4, <2>7, OfMachine
  <2> QED
    BY <2>1, <2>8 DEF Repeating
<1>7. CASE Create \/ CreationFailed \/ Iterate \/ Iterated \/ Measured \/ Report
  <2>1. warned' = warned /\ phase' \notin {"executing", "warm", "probing"}
    BY <1>7 DEF Create, CreationFailed, Iterate, Iterated, Measured, Report
  <2> QED
    BY <1>2, <2>1 DEF Repeating
<1> QED
  BY <1>3, <1>4, <1>5, <1>6, <1>7 DEF ToolStep

(* bench() warns of a result that differs only if the code uses storage:   *)
(* everything else that an execution of example_vm.cpp depends on, it is   *)
(* given again, and what it leaves behind the next one does not see.       *)
THEOREM Repeats == Spec => []WarnsOnlyAboutStorage
<1>1. Init => RepeatInv
  BY DEF Init, RepeatInv, Repeating
<1>2. IInv /\ RepeatInv /\ [Next]_vars => RepeatInv'
  <2> SUFFICES ASSUME IInv, RepeatInv, [Next]_vars PROVE RepeatInv'
    OBVIOUS
  <2>1. CASE Step
    BY <2>1, MachineRepeats, ToolRepeats DEF Step
  <2>2. CASE UNCHANGED vars
    <3>1. /\ host' = host /\ rev' = rev /\ msg' = msg /\ code' = code /\ result' = result
          /\ storage' = storage /\ outside' = outside /\ phase' = phase /\ expected' = expected
          /\ warned' = warned /\ Machine' = Machine
      BY <2>2 DEF vars, vmVars, hostVars, machineVars, toolVars, Machine
    <3> QED
      BY <3>1, TraceStays DEF RepeatInv, Repeating, Running
  <2> QED
    BY <2>1, <2>2 DEF Next
<1>3. IInv /\ RepeatInv => WarnsOnlyAboutStorage
  BY DEF RepeatInv, WarnsOnlyAboutStorage
<1> QED
  BY <1>1, <1>2, <1>3, Invariant, PTL DEF Spec
-----------------------------------------------------------------------------
(* How far a run has to go: what is left of bench() and run(), and of the  *)
(* gas of the execution.                                                   *)
Failed == "creation failed"
Ahead(p, n) ==
  CASE p = "started"   -> 2 * MaxIterations + 8
    [] p = "creating"  -> 2 * MaxIterations + 7
    [] p = "executing" -> 2 * MaxIterations + 6
    [] p = "warm"      -> 2 * MaxIterations + 5
    [] p = "probing"   -> 2 * MaxIterations + 4
    [] p = "iterating" -> 2 * n + 4
    [] p = "loop"      -> 2 * n + 3
    [] p = "measured"  -> 2
    [] p = "reported"  -> 1
    [] p = "killed"    -> 0
    [] p = Failed      -> 0

PhasesLeft == Ahead(phase, iterations)
InstructionsLeft == IF result = Running /\ outside = Nothing THEN gas_left + 1 ELSE 0

Nearer ==
  \/ PhasesLeft' < PhasesLeft
  \/ PhasesLeft' = PhasesLeft /\ InstructionsLeft' < InstructionsLeft

Phase == {"started", "creating", "executing", "warm", "probing", "loop", "iterating",
          "killed", "measured", "reported"}
PhaseInv ==
  /\ phase \in Phase \cup {Failed}
  /\ iterations \in 0..MaxIterations

LEMMA FailedIsAPhase ==
  /\ Failed \notin Phase
  /\ CreationFailed => phase' = Failed /\ phase = "creating" /\ iterations' = iterations
BY Zenon DEF Failed, Phase, CreationFailed

LEMMA PhasesAhead ==
  ASSUME NEW n
  PROVE  /\ Ahead("started", n) = 2 * MaxIterations + 8
         /\ Ahead("creating", n) = 2 * MaxIterations + 7
         /\ Ahead("executing", n) = 2 * MaxIterations + 6
         /\ Ahead("warm", n) = 2 * MaxIterations + 5
         /\ Ahead("probing", n) = 2 * MaxIterations + 4
         /\ Ahead("iterating", n) = 2 * n + 4
         /\ Ahead("loop", n) = 2 * n + 3
         /\ Ahead("measured", n) = 2
         /\ Ahead("reported", n) = 1
         /\ Ahead("killed", n) = 0
         /\ Ahead(Failed, n) = 0
BY FailedIsAPhase DEF Ahead, Phase

LEMMA VMStepEndsOrPays ==
  ASSUME VMStep
  PROVE  \/ gas_left >= 1 /\ gas_left' = gas_left - 1
         \/ result' # Running
         \/ outside' # Nothing
<1>1. \A gas, output, status :
        status \in {"SUCCESS", "REVERT", "FAILURE", "OUT_OF_GAS", "UNDEFINED_INSTRUCTION"}
          => Result(status, gas, output) # Running
  <2> TAKE gas, output, status
  <2>1. Result(status, gas, output).status = status /\ Running.status = "RUNNING"
    BY DEF Result, Running
  <2> QED
    BY <2>1
<1>2. OfStack # Nothing /\ OfCode # Nothing /\ \A region : OfMemory(region) # Nothing
  BY DEF OfStack, OfCode, OfMemory, Nothing
<1>3. CASE OutOfGas \/ EndOfCode \/ Undefined \/ STOP
  BY <1>1, <1>3 DEF OutOfGas, EndOfCode, Undefined, STOP, Return
<1>4. CASE StackOutside \/ TruncatedPUSH
  BY <1>2, <1>4 DEF StackOutside, TruncatedPUSH, AccessOutside
<1>5. CASE ADD \/ ADDRESS \/ CALLDATALOAD \/ NUMBER \/ MSIZE \/ SLOAD \/ PUSH
  BY <1>5 DEF ADD, ADDRESS, CALLDATALOAD, NUMBER, MSIZE, SLOAD, PUSH, Push, Fetch, Continue
<1>6. CASE DUP1 \/ SSTORE
  BY <1>6 DEF DUP1, SSTORE, Fetch, Continue
<1>7. CASE MSTORE \/ CALL
  BY <1>1, <1>2, <1>7 DEF MSTORE, CALL, Refused, Strays, Fetch, Continue, Return, AccessOutside
<1>8. CASE RETURN \/ REVERT
  BY <1>1, <1>2, <1>8 DEF RETURN, REVERT, ReturnRegion, Refused, Strays, Return, AccessOutside
<1> QED
  BY <1>3, <1>4, <1>5, <1>6, <1>7, <1>8 DEF VMStep, Instruction

LEMMA ToolNears ==
  ASSUME PhaseInv, ToolStep
  PROVE  PhaseInv' /\ PhasesLeft' < PhasesLeft
<1>0. MaxIterations \in Nat \ {0} /\ iterations \in Nat /\ iterations <= MaxIterations
  BY RunConstants DEF PhaseInv
<1>1. CASE Create \/ ExecuteCode \/ ExecuteCreated
  BY <1>0, <1>1, PhasesAhead DEF Create, ExecuteCode, ExecuteCreated, PhaseInv, Phase, PhasesLeft
<1>2. CASE CreationFailed
  BY <1>0, <1>2, PhasesAhead, FailedIsAPhase DEF PhaseInv, PhasesLeft
<1>3. CASE Executed
  <2>1. phase = "executing" /\ phase' \in {"warm", "measured"} /\ iterations' = iterations
    BY <1>3 DEF Executed
  <2> QED
    BY <1>0, <2>1, PhasesAhead DEF PhaseInv, Phase, PhasesLeft
<1>4. CASE Probe
  BY <1>0, <1>4, PhasesAhead DEF Probe, PhaseInv, Phase, PhasesLeft
<1>5. CASE Probed
  <2> DEFINE killed == phase' = "killed" /\ iterations' = iterations
  <2>0. CASE killed
    <3>1. phase = "probing" /\ PhasesLeft = 2 * MaxIterations + 4 /\ PhasesLeft' = 0
      BY ONLY <1>5, <2>0, PhasesAhead DEF Probed, PhasesLeft
    <3>2. PhaseInv'
      BY ONLY <2>0, PhaseInv DEF PhaseInv, Phase
    <3>3. QED
      BY ONLY <1>0, <3>1, <3>2
  <2> SUFFICES ASSUME ~killed PROVE PhaseInv' /\ PhasesLeft' < PhasesLeft
    BY <2>0
  <2>1. phase = "probing" /\ phase' = "loop" /\ iterations' \in 1..MaxIterations
    BY <1>5 DEF Probed
  <2>2. iterations' \in Nat /\ iterations' <= MaxIterations
    BY <1>0, <2>1
  <2>3. PhasesLeft = 2 * MaxIterations + 4 /\ PhasesLeft' = 2 * iterations' + 3
    BY ONLY <2>1, PhasesAhead DEF PhasesLeft
  <2>4. PhaseInv'
    BY ONLY <1>0, <2>1, <2>2 DEF PhaseInv, Phase
  <2>5. \A m, n \in Nat : n <= m => 2 * n + 3 < 2 * m + 4
    OBVIOUS
  <2>6. MaxIterations \in Nat
    BY ONLY <1>0
  <2>7. 2 * iterations' + 3 < 2 * MaxIterations + 4
    BY ONLY <2>2, <2>5, <2>6
  <2> QED
    BY ONLY <2>3, <2>4, <2>7
<1>6. CASE Iterate \/ Iterated
  BY <1>0, <1>6, PhasesAhead DEF Iterate, Iterated, PhaseInv, Phase, PhasesLeft
<1>7. CASE Measured \/ Report
  BY <1>0, <1>7, PhasesAhead DEF Measured, Report, PhaseInv, Phase, PhasesLeft
<1> QED
  BY <1>1, <1>2, <1>3, <1>4, <1>5, <1>6, <1>7 DEF ToolStep

LEMMA MachineNears ==
  ASSUME IInv, PhaseInv, MachineStep
  PROVE  PhaseInv' /\ PhasesLeft' = PhasesLeft /\ InstructionsLeft' < InstructionsLeft
<1>1. phase' = phase /\ iterations' = iterations
  BY DEF MachineStep, toolVars
<1>2. PhaseInv' /\ PhasesLeft' = PhasesLeft
  BY <1>1 DEF PhaseInv, PhasesLeft
<1>3. gas_left \in Nat /\ result = Running /\ outside = Nothing
  BY StepOfMachine DEF IInv, MachineInv, MachineStep
<1>4. \/ gas_left >= 1 /\ gas_left' = gas_left - 1
      \/ result' # Running
      \/ outside' # Nothing
  BY VMStepEndsOrPays DEF MachineStep
<1>5. Running' = Running /\ Nothing' = Nothing
  BY DEF Running, Nothing
<1> QED
  BY <1>2, <1>3, <1>4, <1>5 DEF InstructionsLeft

(* Every step of a run brings it nearer to its end, by a measure that      *)
(* cannot decrease forever: an instruction pays or ends its execution, and *)
(* bench() counts down.  So no run takes infinitely many steps.            *)
THEOREM Progress ==
  Spec => [](PhasesLeft \in Nat /\ InstructionsLeft \in Nat) /\ [][Nearer]_vars
<1>1. Init => PhaseInv
  BY RunConstants DEF Init, PhaseInv, Phase
<1>2. IInv /\ PhaseInv /\ [Next]_vars => PhaseInv' /\ [Nearer]_vars
  <2> SUFFICES ASSUME IInv, PhaseInv, [Next]_vars PROVE PhaseInv' /\ [Nearer]_vars
    OBVIOUS
  <2>1. CASE Step
    BY <2>1, ToolNears, MachineNears DEF Step, Nearer
  <2>2. CASE UNCHANGED vars
    BY <2>2 DEF vars, toolVars, PhaseInv
  <2> QED
    BY <2>1, <2>2 DEF Next
<1>3. IInv /\ PhaseInv => PhasesLeft \in Nat /\ InstructionsLeft \in Nat
  <2> SUFFICES ASSUME IInv, PhaseInv PROVE PhasesLeft \in Nat /\ InstructionsLeft \in Nat
    OBVIOUS
  <2>1. MaxIterations \in Nat /\ iterations \in Nat /\ gas_left \in Nat
    BY RunConstants DEF IInv, MachineInv, PhaseInv
  <2>2. PhasesLeft \in Nat
    BY <2>1, PhasesAhead DEF PhaseInv, Phase, PhasesLeft
  <2> QED
    BY <2>1, <2>2 DEF InstructionsLeft
<1> QED
  BY <1>1, <1>2, <1>3, Invariant, PTL DEF Spec
=============================================================================
