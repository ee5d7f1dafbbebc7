---------------------------- MODULE MCStorageGas -----------------------------
(* StorageGas with the EIP-2929 prices in hundreds of gas.                 *)
EXTENDS StorageGas, TLC

NoValues == {}
Symmetry == Permutations(Value \ {Zero})
=============================================================================
