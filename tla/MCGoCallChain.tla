---------------------------- MODULE MCGoCallChain ----------------------------
(* GoCallChain with small amounts of gas.                                  *)
EXTENDS GoCallChain

Amounts == 0..1
=============================================================================
