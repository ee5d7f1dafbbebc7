------------------------------ MODULE AccessSet ------------------------------
(***************************************************************************)
(* What evmc_access_account_fn and evmc_access_storage_fn promise a VM     *)
(* (EIP-2929): an account or a storage slot is cold the first time it is   *)
(* accessed and warm ever after.  Other Host methods may warm an account.  *)
(***************************************************************************)
CONSTANTS Address, Key

VARIABLES
  warmAccounts,
  warmSlots,
  answer        \* the account or slot last asked for, and the status returned

NoAnswer == [subject |-> <<>>, status |-> "none"]

Answer(subject, warm) ==
  answer' = [subject |-> subject,
             status |-> IF warm THEN "WARM" ELSE "COLD"]

Init ==
  /\ warmAccounts \subseteq Address
  /\ warmSlots \subseteq Address \X Key
  /\ answer = NoAnswer

AccessAccount(addr) ==
  /\ Answer(<<addr>>, addr \in warmAccounts)
  /\ warmAccounts' = warmAccounts \cup {addr}
  /\ UNCHANGED warmSlots

AccessStorage(slot) ==
  /\ Answer(slot, slot \in warmSlots)
  /\ warmSlots' = warmSlots \cup {slot}
  /\ UNCHANGED warmAccounts

OtherMethod(addr) ==
  /\ answer' = NoAnswer
  /\ warmAccounts' \in {warmAccounts, warmAccounts \cup {addr}}
  /\ UNCHANGED warmSlots

Next ==
  \/ \E addr \in Address : AccessAccount(addr) \/ OtherMethod(addr)
  \/ \E slot \in Address \X Key : AccessStorage(slot)

Spec == Init /\ [][Next]_<<warmAccounts, warmSlots, answer>>

(* What is left of the promise when a Host remembers a limited number of   *)
(* accounts: one that it does not remember is cold, each time it is asked. *)
Forget(addr) ==
  /\ addr \notin warmAccounts
  /\ Answer(<<addr>>, FALSE)
  /\ UNCHANGED <<warmAccounts, warmSlots>>

LimitedNext == Next \/ \E addr \in Address : Forget(addr)

LimitedSpec == Init /\ [][LimitedNext]_<<warmAccounts, warmSlots, answer>>
=============================================================================
