------------------------------ MODULE MCStrings -------------------------------
(* The functions on strings, of the loader and of hex.hpp, in one run: the *)
(* initial state chooses one of them and its argument.                     *)
EXTENDS MCLoaderStrings, Hex

MCHexText == BoundedSeq({"0", "f", "F", "x", Space}, 6)

NoHex ==
  /\ target = "bytes" /\ hex_text = <<>> /\ s = <<>>
  /\ it = 1 /\ i = 0 /\ hi_nibble = -1 /\ bytes = <<>>
  /\ outcome = "decoded"

NoLoading ==
  /\ pc = "configured"
  /\ input = <<>> /\ text = <<>> /\ position = 1 /\ path = <<>> /\ passed = <<>>

StringsInit == (Init /\ NoHex) \/ (HexInit /\ NoLoading)

StringsNext == (Next /\ UNCHANGED hexVars) \/ (HexStep /\ UNCHANGED vars)

StringsSpec ==
  StringsInit /\ [][StringsNext]_<<vars, hexVars>> /\ WF_vars(Step /\ UNCHANGED hexVars)
=============================================================================
