---------------------------- MODULE StorageStatus ----------------------------
(***************************************************************************)
(* The evmc_storage_status that MockedHost::set_storage computes for a     *)
(* storage slot whose original value is o, current value is c and new      *)
(* value is v (include/evmc/mocked_host.hpp), and the gas effect that the  *)
(* EIP-2200 clauses quoted in that function attach to every branch.        *)
(***************************************************************************)
EXTENDS Integers

CONSTANTS
  Value,        \* bytes32 storage values
  Zero,         \* the zero bytes32
  WarmAccess,   \* SLOAD_GAS
  SSet,         \* SSTORE_SET_GAS
  SReset,       \* SSTORE_RESET_GAS
  SClear        \* SSTORE_CLEARS_SCHEDULE

ASSUME ZeroIsValue == Zero \in Value

\* An access of a warm slot is never dearer than setting or resetting it.
ASSUME GasSchedule ==
  /\ WarmAccess \in Nat /\ SSet \in Nat /\ SReset \in Nat /\ SClear \in Nat
  /\ WarmAccess <= SReset
  /\ WarmAccess <= SSet

Status == { "ASSIGNED", "ADDED", "DELETED", "MODIFIED", "DELETED_ADDED",
            "MODIFIED_DELETED", "DELETED_RESTORED", "ADDED_DELETED",
            "MODIFIED_RESTORED" }

\* What the default branch of the switch does: assert(false).
AssertFailed == "assert(false)"
-----------------------------------------------------------------------------
(* The bits of triggered_clauses for a dirty slot: clause 3.2.             *)

Flag(bit, condition) == IF condition THEN bit ELSE 0

RemoveClearsSchedule == 1
AddClearsSchedule == 2
RestoredBySet == 4
RestoredByReset == 8

\* Faulty variant: clause 3.2.2.2 forgotten.
TriggeredClausesNoReset(o, c, v) ==
    Flag(RemoveClearsSchedule, o # Zero /\ c = Zero)
  + Flag(AddClearsSchedule,    o # Zero /\ v = Zero)
  + Flag(RestoredBySet,        o = v /\ o = Zero)

TriggeredClauses(o, c, v) ==
    Flag(RemoveClearsSchedule, o # Zero /\ c = Zero)
  + Flag(AddClearsSchedule,    o # Zero /\ v = Zero)
  + Flag(RestoredBySet,        o = v /\ o = Zero)
  + Flag(RestoredByReset,      o = v /\ o # Zero)

\* Faulty variant: the two ways of being restored exchanged.
DirtyStatusSwapped(triggered) ==
  IF triggered = RemoveClearsSchedule THEN "DELETED_ADDED"
  ELSE IF triggered = AddClearsSchedule THEN "MODIFIED_DELETED"
  ELSE IF triggered = RemoveClearsSchedule + RestoredByReset THEN "DELETED_RESTORED"
  ELSE IF triggered = RestoredBySet THEN "MODIFIED_RESTORED"
  ELSE IF triggered = RestoredByReset THEN "ADDED_DELETED"
  ELSE "ASSIGNED"

DirtyStatus(triggered) ==
  IF triggered = RemoveClearsSchedule THEN "DELETED_ADDED"
  ELSE IF triggered = AddClearsSchedule THEN "MODIFIED_DELETED"
  ELSE IF triggered = RemoveClearsSchedule + RestoredByReset THEN "DELETED_RESTORED"
  ELSE IF triggered = RestoredBySet THEN "ADDED_DELETED"
  ELSE IF triggered = RestoredByReset THEN "MODIFIED_RESTORED"
  ELSE IF triggered = 0 THEN "ASSIGNED"
  ELSE AssertFailed

\* Faulty variant: a clean slot is never deleted, only modified.
CleanStatusNeverDeleted(o, v) == IF o = Zero THEN "ADDED" ELSE "MODIFIED"

\* Clause 3.1: the slot has not been changed by the transaction.
CleanStatus(o, v) ==
  IF o = Zero THEN "ADDED" ELSE IF v = Zero THEN "DELETED" ELSE "MODIFIED"

\* Faulty variant: clause 2 (the value does not change) forgotten.
StorageStatusNoNoop(o, c, v) ==
  IF o = c THEN CleanStatus(o, v) ELSE DirtyStatus(TriggeredClauses(o, c, v))

StorageStatus(o, c, v) ==
  IF c = v THEN "ASSIGNED"
  ELSE IF o = c THEN CleanStatus(o, v)
  ELSE DirtyStatus(TriggeredClauses(o, c, v))

\* The two assertions inside clause 3.2.1.
ClauseAssertions(o, c, v) ==
  c # v /\ o # c /\ o # Zero => /\ c = Zero => v # Zero
                                /\ v = Zero => c # Zero
-----------------------------------------------------------------------------
(* The gas that the clauses quoted beside each branch deduct from the gas  *)
(* left and add to the refund counter.                                     *)

ClauseCost(o, c, v) ==
  IF c = v \/ o # c THEN WarmAccess ELSE IF o = Zero THEN SSet ELSE SReset

ClauseRefund(o, c, v) ==
  IF c = v THEN 0
  ELSE IF o = c THEN Flag(SClear, o # Zero /\ v = Zero)
  ELSE   Flag(SClear, o # Zero /\ v = Zero)
       - Flag(SClear, o # Zero /\ c = Zero)
       + Flag(SSet - WarmAccess, o = v /\ o = Zero)
       + Flag(SReset - WarmAccess, o = v /\ o # Zero)
-----------------------------------------------------------------------------
(* The cost and the refund that docs/EVM_Storage_Change_Status.md gives a  *)
(* status: all an EVM that calls set_storage has to charge by.             *)

StatusCost(status) ==
  IF status = "ADDED" THEN SSet
  ELSE IF status \in {"DELETED", "MODIFIED"} THEN SReset
  ELSE WarmAccess

StatusRefund(status) ==
  IF status \in {"DELETED", "MODIFIED_DELETED"} THEN SClear
  ELSE IF status = "DELETED_ADDED" THEN - SClear
  ELSE IF status = "DELETED_RESTORED" THEN SReset - WarmAccess - SClear
  ELSE IF status = "ADDED_DELETED" THEN SSet - WarmAccess
  ELSE IF status = "MODIFIED_RESTORED" THEN SReset - WarmAccess
  ELSE 0

(* The "efficient implementation" of the same document: a status from four *)
(* checks, each a bit of a checksum.                                       *)
Checksum(o, c, v) ==
    Flag(8, o # c) + Flag(4, o = v) + Flag(2, c # Zero) + Flag(1, v # Zero)

ChecksumStatus(sum) ==
  IF sum = 1 THEN "ADDED"
  ELSE IF sum = 2 THEN "DELETED"
  ELSE IF sum = 3 THEN "MODIFIED"
  ELSE IF sum = 9 THEN "DELETED_ADDED"
  ELSE IF sum = 10 THEN "MODIFIED_DELETED"
  ELSE IF sum = 13 THEN "DELETED_RESTORED"
  ELSE IF sum = 14 THEN "ADDED_DELETED"
  ELSE IF sum = 15 THEN "MODIFIED_RESTORED"
  ELSE IF sum \in {4, 7, 8, 11} THEN "ASSIGNED"
  ELSE "impossible"
=============================================================================
