------------------------------ MODULE MCToolRun ------------------------------
(* ToolRun on a small instance: all short codes, and some longer ones.     *)
EXTENDS ToolRun, SequencesExt

P(lo) == <<"PUSH", <<0, lo>>>>
Wide == <<"PUSH", <<1, 7>>>>              \* more than 32 bits, of which all are set

Plain == {<<op>> : op \in DOMAIN Operands \ {"CALL"}}
Short == SeqOf(Plain \cup {P(0), P(1), Wide}, 2)

(* Calls with regions at the beginning, in the middle, at the end, beyond  *)
(* it, and where the sum wraps, after a byte was stored.                   *)
Edge == {0, 1, 3, 7}
Calls ==
  {<<Wide, P(0), <<"MSTORE">>, P(out[2]), P(out[1]), P(in[2]), P(in[1]),
     P(0), P(0), P(2), <<"CALL">>, P(4), P(0), <<"RETURN">>>> :
       in \in Edge \X Edge, out \in Edge \X Edge}

Stores == {<<Wide, P(i), <<"MSTORE">>, <<"MSIZE">>, P(j), op>> :
             i \in {0, 1, 2, 3, 4, 6, 7}, j \in {0, 2, 5}, op \in {<<"RETURN">>, <<"REVERT">>}}

Others == {
  \* a counter in storage, returned
  <<P(1), P(0), <<"SLOAD">>, <<"ADD">>, <<"DUP1">>, P(0), <<"SSTORE">>, P(0), <<"MSTORE">>,
    P(2), P(0), <<"RETURN">>>>,
  \* the size of the memory before it is used
  <<<<"MSIZE">>, P(3), P(0), <<"MSTORE">>, P(0), <<"RETURN">>>>,
  \* the stack overflows
  [i \in 1..10 |-> P(1)],
  \* the input and the block number
  <<P(0), <<"CALLDATALOAD">>, <<"NUMBER">>, <<"ADD">>, P(0), <<"MSTORE">>, P(2), P(0),
    <<"RETURN">>>> }

Programs == Short \cup Calls \cup Stores \cup Others
DeployableCodes == {<<<<"STOP">>>>, <<P(1), P(1), <<"SSTORE">>>>} \cup Others
Inputs == {<<3>>}
Gases == {0, 3, 20}
=============================================================================
