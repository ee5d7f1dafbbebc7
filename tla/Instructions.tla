----------------------------- MODULE Instructions ------------------------------
(***************************************************************************)
(* lib/instructions: the tables of metrics and names of EVM instructions,  *)
(* one of each kind for the revisions that changed them, and the functions *)
(* that look a revision's tables up.  Each table has all of its 256        *)
(* entries in the code; here a table is given by what distinguishes it     *)
(* from the one of the revision before.  The state is the instruction at   *)
(* some place in deployed code, which stays while the chain goes through   *)
(* its hard forks: what it means is looked up anew after each of them.     *)
(***************************************************************************)
EXTENDS Integers, Sequences

VARIABLES
  revision,
  opcode      \* the byte in the code of a contract

vars == <<revision, opcode>>

\* enum evmc_revision, in order of its values.
Revisions ==
  <<"FRONTIER", "HOMESTEAD", "TANGERINE_WHISTLE", "SPURIOUS_DRAGON", "BYZANTIUM",
    "CONSTANTINOPLE", "PETERSBURG", "ISTANBUL", "BERLIN", "LONDON", "PARIS", "SHANGHAI",
    "CANCUN", "PRAGUE", "OSAKA", "EXPERIMENTAL">>

Opcode == 0 .. 255

NULL == "NULL"

\* Of the types of an entry: gas_cost, and the two stack heights.
INT16_MAX == 32767
INT8_MAX == 127
-----------------------------------------------------------------------------
(* The tables of metrics.                                                  *)
ZERO == 0
BASE == 2
VERYLOW == 3
LOW == 5
MID == 8
HIGH == 10
WARM_STORAGE_READ_COST == 100
CREATION_COST == 32000

Metrics(cost, required, change) ==
  [gas_cost |-> cost, stack_height_required |-> required, stack_height_change |-> change]

Undefined == Metrics(ZERO, 0, 0)

\* The table with entry m for each of the opcodes ops.
Define(table, ops, m) == [op \in Opcode |-> IF op \in ops THEN m ELSE table[op]]

\* The table with another gas cost for each of the opcodes ops.
Reprice(table, ops, cost) ==
  [op \in Opcode |-> IF op \in ops THEN [table[op] EXCEPT !.gas_cost = cost] ELSE table[op]]

\* Faulty variant: topics are counted from one, but only the pointer and the size are popped.
LogMetricsCountingTopics(n) == Metrics((n + 1) * 375, n + 1, -(n + 2))

LogMetrics(n) == Metrics((n + 1) * 375, n + 2, -(n + 2))

FrontierMetrics(op) ==
  CASE op \in {\h01, \h03, \h1a} \cup (\h10 .. \h14) \cup (\h16 .. \h18)
                                        -> Metrics(VERYLOW, 2, -1)
    [] op \in {\h02, \h0b} \cup (\h04 .. \h07)
                                        -> Metrics(LOW, 2, -1)
    [] op \in {\h08, \h09}                -> Metrics(MID, 3, -2)
    [] op = \h0a                        -> Metrics(HIGH, 2, -1)
    [] op \in {\h15, \h19, \h35, \h51}  -> Metrics(VERYLOW, 1, 0)
    [] op = \h20                        -> Metrics(30, 2, -1)
    [] op \in {\h30, \h32, \h33, \h34, \h36, \h38, \h3a, \h58, \h59, \h5a}
         \cup (\h41 .. \h45)            -> Metrics(BASE, 0, 1)
    [] op \in {\h31, \h3b, \h40}        -> Metrics(20, 1, 0)
    [] op \in {\h37, \h39}              -> Metrics(VERYLOW, 3, -3)
    [] op = \h3c                        -> Metrics(20, 4, -4)
    [] op = \h50                        -> Metrics(BASE, 1, -1)
    [] op \in {\h52, \h53}              -> Metrics(VERYLOW, 2, -2)
    [] op = \h54                        -> Metrics(50, 1, 0)
    [] op \in {\h55, \hf3}              -> Metrics(ZERO, 2, -2)
    [] op = \h56                        -> Metrics(MID, 1, -1)
    [] op = \h57                        -> Metrics(HIGH, 2, -2)
    [] op = \h5b                        -> Metrics(1, 0, 0)
    [] op \in \h60 .. \h7f              -> Metrics(VERYLOW, 0, 1)
    [] op \in \h80 .. \h8f              -> Metrics(VERYLOW, op - \h7f, 1)
    [] op \in \h90 .. \h9f              -> Metrics(VERYLOW, op - \h8e, 0)
    [] op \in \ha0 .. \ha4              -> LogMetrics(op - \ha0)
    [] op = \hf0                        -> Metrics(CREATION_COST, 3, -2)
    [] op \in {\hf1, \hf2}              -> Metrics(40, 7, -6)
    [] op = \hff                        -> Metrics(ZERO, 1, -1)
    [] OTHER                            -> Undefined

frontier_metrics == [op \in Opcode |-> FrontierMetrics(op)]

homestead_metrics == Define(frontier_metrics, {\hf4}, Metrics(40, 6, -5))

tangerine_whistle_metrics ==
  LET calls == Reprice(homestead_metrics, {\h3b, \h3c, \hf1, \hf2, \hf4}, 700)
      reads == Reprice(Reprice(calls, {\h31}, 400), {\h54}, 200)
  IN Reprice(reads, {\hff}, 5000)

byzantium_metrics ==
  LET data == Define(Define(tangerine_whistle_metrics, {\h3d}, Metrics(BASE, 0, 1)),
                     {\h3e}, Metrics(VERYLOW, 3, -3))
  IN Define(Define(data, {\hfa}, Metrics(700, 6, -5)), {\hfd}, Metrics(ZERO, 2, -2))

constantinople_metrics ==
  LET shifts == Define(byzantium_metrics, \h1b .. \h1d, Metrics(VERYLOW, 2, -1))
  IN Define(Define(shifts, {\h3f}, Metrics(400, 1, 0)), {\hf5}, Metrics(CREATION_COST, 4, -3))

istanbul_metrics ==
  LET added == Define(Define(constantinople_metrics, {\h46}, Metrics(BASE, 0, 1)),
                      {\h47}, Metrics(LOW, 0, 1))
  IN Reprice(Reprice(added, {\h31, \h3f}, 700), {\h54}, 800)

\* Instructions whose base cost EIP-2929 makes the one of a warm access.
AccessOpcodes == {\h31, \h3b, \h3c, \h3f, \h54, \hf1, \hf2, \hf4, \hfa}

berlin_metrics == Reprice(istanbul_metrics, AccessOpcodes, WARM_STORAGE_READ_COST)
london_metrics == Define(berlin_metrics, {\h48}, Metrics(BASE, 0, 1))
shanghai_metrics == Define(london_metrics, {\h5f}, Metrics(BASE, 0, 1))

\* Faulty variant: the table of Cancun is a copy of the one of London.
cancun_metrics_of_london == london_metrics

cancun_metrics == shanghai_metrics
prague_metrics == cancun_metrics
osaka_metrics == prague_metrics

(* evmc_get_instruction_metrics_table.                                     *)
InstructionMetricsTable(rev) ==
  CASE rev \in {"EXPERIMENTAL", "OSAKA"}     -> osaka_metrics
    [] rev = "PRAGUE"                        -> prague_metrics
    [] rev = "CANCUN"                        -> cancun_metrics
    [] rev = "SHANGHAI"                      -> shanghai_metrics
    [] rev \in {"PARIS", "LONDON"}           -> london_metrics
    [] rev = "BERLIN"                        -> berlin_metrics
    [] rev = "ISTANBUL"                      -> istanbul_metrics
    [] rev \in {"PETERSBURG", "CONSTANTINOPLE"}         -> constantinople_metrics
    [] rev = "BYZANTIUM"                     -> byzantium_metrics
    [] rev \in {"SPURIOUS_DRAGON", "TANGERINE_WHISTLE"} -> tangerine_whistle_metrics
    [] rev = "HOMESTEAD"                     -> homestead_metrics
    [] rev = "FRONTIER"                      -> frontier_metrics
    [] OTHER                                 -> NULL
-----------------------------------------------------------------------------
(* The tables of names.                                                    *)
\* The table with other names for consecutive opcodes, the first of which is from.
Name(table, from, names) ==
  [op \in Opcode |-> IF op \in from .. from + Len(names) - 1 THEN names[op - from + 1]
                     ELSE table[op]]

\* The names of consecutive opcodes in the table of Frontier.
Arithmetic ==
  <<"STOP", "ADD", "MUL", "SUB", "DIV", "SDIV", "MOD", "SMOD", "ADDMOD", "MULMOD", "EXP",
    "SIGNEXTEND">>
Comparisons ==
  <<"LT", "GT", "SLT", "SGT", "EQ", "ISZERO", "AND", "OR", "XOR", "NOT", "BYTE">>
Environment ==
  <<"ADDRESS", "BALANCE", "ORIGIN", "CALLER", "CALLVALUE", "CALLDATALOAD", "CALLDATASIZE",
    "CALLDATACOPY", "CODESIZE", "CODECOPY", "GASPRICE", "EXTCODESIZE", "EXTCODECOPY">>
Block ==
  <<"BLOCKHASH", "COINBASE", "TIMESTAMP", "NUMBER", "DIFFICULTY", "GASLIMIT">>
State ==
  <<"POP", "MLOAD", "MSTORE", "MSTORE8", "SLOAD", "SSTORE", "JUMP", "JUMPI", "PC", "MSIZE", "GAS",
    "JUMPDEST">>
Pushes ==
  <<"PUSH1", "PUSH2", "PUSH3", "PUSH4", "PUSH5", "PUSH6", "PUSH7", "PUSH8", "PUSH9", "PUSH10",
    "PUSH11", "PUSH12", "PUSH13", "PUSH14", "PUSH15", "PUSH16", "PUSH17", "PUSH18", "PUSH19",
    "PUSH20", "PUSH21", "PUSH22", "PUSH23", "PUSH24", "PUSH25", "PUSH26", "PUSH27", "PUSH28",
    "PUSH29", "PUSH30", "PUSH31", "PUSH32">>
Dups ==
  <<"DUP1", "DUP2", "DUP3", "DUP4", "DUP5", "DUP6", "DUP7", "DUP8", "DUP9", "DUP10", "DUP11",
    "DUP12", "DUP13", "DUP14", "DUP15", "DUP16">>
Swaps ==
  <<"SWAP1", "SWAP2", "SWAP3", "SWAP4", "SWAP5", "SWAP6", "SWAP7", "SWAP8", "SWAP9", "SWAP10",
    "SWAP11", "SWAP12", "SWAP13", "SWAP14", "SWAP15", "SWAP16">>
Logs == <<"LOG0", "LOG1", "LOG2", "LOG3", "LOG4">>
Calls == <<"CREATE", "CALL", "CALLCODE", "RETURN">>

frontier_names ==
  LET unnamed == [op \in Opcode |-> NULL]
      words == Name(Name(unnamed, \h00, Arithmetic), \h10, Comparisons)
      hash == Name(words, \h20, <<"KECCAK256">>)
      reads == Name(Name(hash, \h30, Environment), \h40, Block)
      items == Name(Name(Name(Name(reads, \h50, State), \h60, Pushes), \h80, Dups), \h90, Swaps)
      calls == Name(Name(items, \ha0, Logs), \hf0, Calls)
  IN Name(calls, \hfe, <<"INVALID", "SELFDESTRUCT">>)

homestead_names == Name(frontier_names, \hf4, <<"DELEGATECALL">>)

byzantium_names ==
  LET data == Name(homestead_names, \h3d, <<"RETURNDATASIZE", "RETURNDATACOPY">>)
  IN Name(Name(data, \hfa, <<"STATICCALL">>), \hfd, <<"REVERT">>)

constantinople_names ==
  LET shifts == Name(byzantium_names, \h1b, <<"SHL", "SHR", "SAR">>)
  IN Name(Name(shifts, \h3f, <<"EXTCODEHASH">>), \hf5, <<"CREATE2">>)

\* Faulty variant: SELFBALANCE has no name.
istanbul_names_of_chainid == Name(constantinople_names, \h46, <<"CHAINID">>)

istanbul_names == Name(constantinople_names, \h46, <<"CHAINID", "SELFBALANCE">>)
london_names == Name(istanbul_names, \h48, <<"BASEFEE">>)
paris_names == Name(london_names, \h44, <<"PREVRANDAO">>)
shanghai_names == Name(paris_names, \h5f, <<"PUSH0">>)
cancun_names == shanghai_names
prague_names == cancun_names
osaka_names == prague_names

(* evmc_get_instruction_names_table.                                       *)
InstructionNamesTable(rev) ==
  CASE rev \in {"EXPERIMENTAL", "OSAKA"}     -> osaka_names
    [] rev = "PRAGUE"                        -> prague_names
    [] rev = "CANCUN"                        -> cancun_names
    [] rev = "SHANGHAI"                      -> shanghai_names
    [] rev = "PARIS"                         -> paris_names
    [] rev = "LONDON"                        -> london_names
    [] rev \in {"BERLIN", "ISTANBUL"}        -> istanbul_names
    [] rev \in {"PETERSBURG", "CONSTANTINOPLE"} -> constantinople_names
    [] rev = "BYZANTIUM"                     -> byzantium_names
    [] rev \in {"SPURIOUS_DRAGON", "TANGERINE_WHISTLE", "HOMESTEAD"} -> homestead_names
    [] rev = "FRONTIER"                      -> frontier_names
    [] OTHER                                 -> NULL
-----------------------------------------------------------------------------
Init == revision = 1 /\ opcode \in Opcode

\* The chain goes on to the next revision; the deployed code stays.
HardFork ==
  /\ revision < Len(Revisions)
  /\ revision' = revision + 1
  /\ UNCHANGED opcode

Next == HardFork

Spec == Init /\ [][Next]_vars

metrics == InstructionMetricsTable(Revisions[revision])[opcode]
name == InstructionNamesTable(Revisions[revision])[opcode]
-----------------------------------------------------------------------------
(* The entries fit int16_t and int8_t, and no instruction takes more items *)
(* from the stack than it requires: the check of the required height alone *)
(* keeps a stack from underflowing.                                        *)
StackCannotUnderflow ==
  /\ metrics.gas_cost \in 0 .. INT16_MAX
  /\ metrics.stack_height_required \in 0 .. INT8_MAX
  /\ metrics.stack_height_required + metrics.stack_height_change \in 0 .. INT8_MAX

(* The two files agree: in every revision an opcode without a name is an   *)
(* undefined instruction, and every other opcode with the entry of one is  *)
(* STOP or INVALID, so that a client may test either table.                *)
TablesAgree ==
  metrics = Undefined <=> name \in {NULL, "STOP", "INVALID"}

(* What an instruction of deployed code does to the stack, and its name,   *)
(* are never changed by a hard fork, except for the name of DIFFICULTY;    *)
(* defined instructions are never withdrawn.                               *)
DeployedCodeKeepsItsMeaning ==
  [][name # NULL =>
       /\ name' = IF name = "DIFFICULTY" /\ Revisions[revision'] = "PARIS"
                  THEN "PREVRANDAO" ELSE name
       /\ [metrics' EXCEPT !.gas_cost = 0] = [metrics EXCEPT !.gas_cost = 0]]_vars
=============================================================================
