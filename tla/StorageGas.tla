------------------------------ MODULE StorageGas -----------------------------
(***************************************************************************)
(* A transaction that writes storage through MockedHost::set_storage and   *)
(* charges gas by nothing but the evmc_storage_status returned, as         *)
(* docs/EVM_Storage_Change_Status.md tells a VM to.  A ledger per slot     *)
(* holds what the transaction paid above the price of a warm access, and   *)
(* what it added to the refund counter.                                    *)
(***************************************************************************)
EXTENDS MockedHost

CONSTANT MaxStores     \* bound of a run: calls of set_storage

ASSUME MaxStoresIsNat == MaxStores \in Nat

VARIABLES excess, refund, stores

gasVars == <<vars, excess, refund, stores>>

Slots == Address \X Key

GasInit ==
  /\ Init
  /\ excess = [s \in Slots |-> 0]
  /\ refund = [s \in Slots |-> 0]
  /\ stores = 0

\* An SSTORE: the VM calls set_storage and charges by the returned status.
sstore(addr, key, value) ==
  /\ stores < MaxStores                                   \* bound
  /\ set_storage(addr, key, value)
  /\ excess' = [excess EXCEPT ![<<addr, key>>] = @ + StatusCost(ret'[2]) - WarmAccess]
  /\ refund' = [refund EXCEPT ![<<addr, key>>] = @ + StatusRefund(ret'[2])]
  /\ stores' = stores + 1

GasNext ==
  \/ \E addr \in Address, key \in Key, value \in Value : sstore(addr, key, value)
  \/ OtherMethod /\ UNCHANGED <<excess, refund, stores>>

GasSpec == GasInit /\ [][GasNext]_gasVars
-----------------------------------------------------------------------------
\* The net price of having changed a slot from o to c, however it was done.
NetPrice(o, c) ==
  IF o = c THEN 0
  ELSE IF o = Zero THEN SSet - WarmAccess
  ELSE IF c = Zero THEN SReset - WarmAccess - SClear
  ELSE SReset - WarmAccess

(* Net gas metering is path independent: whatever sequence of writes led   *)
(* from the original to the current value of a slot, and whatever happened *)
(* to other slots meanwhile, the excess paid less the refund depends on    *)
(* these two values only.  In particular a slot restored to its original   *)
(* value has cost warm accesses only.                                      *)
NetGasIsPathIndependent ==
  \A s \in Slots :
    excess[s] - refund[s] = NetPrice(storage[s].original, storage[s].current)

(* DELETED_ADDED and DELETED_RESTORED take SClear back from the refund     *)
(* counter: they only ever take back what a deletion of the same slot in   *)
(* the same transaction has put in.                                        *)
RefundNeverNegative == \A s \in Slots : refund[s] >= 0

\* Its strengthening: a slot now deleted has its SClear in the counter.
RefundBacksDeletion ==
  \A s \in Slots :
    refund[s] >= IF storage[s].original # Zero /\ storage[s].current = Zero
                 THEN SClear ELSE 0

(* The statuses carry all that the EIP-2200 clauses quoted in set_storage  *)
(* say about gas: a VM that sees only the status charges what the clause   *)
(* tree over (original, current, new) deducts and refunds.                 *)
StatusDeterminesGas ==
  \A s \in Slots, v \in Value :
    LET o == storage[s].original
        c == storage[s].current
        status == StorageStatus(o, c, v)
    IN  /\ StatusCost(status) = ClauseCost(o, c, v)
        /\ StatusRefund(status) = ClauseRefund(o, c, v)

(* The clause tree of set_storage and the four checks that its comment and *)
(* docs/EVM_Storage_Change_Status.md propose instead agree in every        *)
(* reachable slot, no impossible combination of clauses is triggered and   *)
(* no assertion of the tree fails.                                         *)
StatusIsChecksum ==
  \A s \in Slots, v \in Value :
    LET o == storage[s].original
        c == storage[s].current
    IN  /\ StorageStatus(o, c, v) = ChecksumStatus(Checksum(o, c, v))
        /\ StorageStatus(o, c, v) # AssertFailed
        /\ ClauseAssertions(o, c, v)
=============================================================================
