----------------------------- MODULE MockedHost ------------------------------
(***************************************************************************)
(* evmc::MockedHost (include/evmc/mocked_host.hpp): the Host that tests    *)
(* and the evmc tool give to a VM.  One action per Host method.  Every     *)
(* method is one C++ call, made by one thread, so it is one step.          *)
(***************************************************************************)
EXTENDS StorageStatus, Sequences, Functions

CONSTANTS
  Address,
  Precompile,          \* addresses 0x01..0x09
  Key,                 \* storage keys
  CodeSize,            \* sizes of the codes accounts may have
  CopyRange,           \* offsets and buffer sizes given to copy_code
  SizeModulus,         \* size_t arithmetic is modulo this
  InputSize,           \* sizes of the inputs of calls
  LocalCapacity,       \* a bytes object this short keeps its data inside itself
  MaxRecordedAccountAccesses,
  MaxRecordedCalls,
  MaxInputs,           \* bound of a run: calls with an input
  MaxRecords           \* bound of a run: entries of each uncapped record

ASSUME HostConstants ==
  /\ Precompile \subseteq Address /\ Address # {}
  /\ CodeSize \subseteq Nat /\ CopyRange \subseteq Nat /\ InputSize \subseteq Nat
  /\ SizeModulus \in Nat \ {0} /\ \A n \in CodeSize : n < SizeModulus
  /\ LocalCapacity \in Nat
  /\ MaxRecordedAccountAccesses \in Nat \ {0}
  /\ MaxRecordedCalls \in Nat \ {0}
  /\ MaxInputs \in Nat /\ MaxRecords \in Nat

(* The map from addresses to accounts: the addresses it has, and each      *)
(* member of the accounts as a function on all addresses, which has the    *)
(* values of a new account where there is none.                            *)
VARIABLES
  accounts,                   \* the addresses that have an account
  code_size,                  \* the size of each account's code
  storage,                    \* account storage; a slot never written is NewSlot
  transient_storage,
  recorded_account_accesses,
  recorded_calls,
  m_recorded_calls_inputs,    \* the vector of input copies
  recorded_logs,
  recorded_selfdestructs,
  recorded_blockhashes,
  ret                         \* the last method called and what it returned

accountVars == <<accounts, code_size, storage, transient_storage>>
callVars == <<recorded_calls, m_recorded_calls_inputs>>
logVars == <<recorded_logs, recorded_selfdestructs, recorded_blockhashes>>
vars == <<accountVars, recorded_account_accesses, callVars, logVars, ret>>

COLD == "COLD"
WARM == "WARM"

StorageValue == [current: Value, original: Value, access_status: {COLD, WARM}]
NewSlot == [current |-> Zero, original |-> Zero, access_status |-> COLD]

\* Where a recorded message's input_data points: into the buffer of the caller,
\* or into the copy with this index in the vector's buffer of this generation.
Caller == [index |-> 0, generation |-> 0]

Return(method, result) == ret' = <<method, result>>

\* Faulty variants: a full record drops its oldest entry; it holds one entry too many;
\* it holds one too few.
record_account_access_evicting(addr) ==
  recorded_account_accesses' =
    IF Len(recorded_account_accesses) < MaxRecordedAccountAccesses
    THEN Append(recorded_account_accesses, addr)
    ELSE Append(Tail(recorded_account_accesses), addr)

record_account_access_overfull(addr) ==
  recorded_account_accesses' =
    IF Len(recorded_account_accesses) <= MaxRecordedAccountAccesses
    THEN Append(recorded_account_accesses, addr)
    ELSE recorded_account_accesses

record_account_access_short(addr) ==
  recorded_account_accesses' =
    IF Len(recorded_account_accesses) + 1 < MaxRecordedAccountAccesses
    THEN Append(recorded_account_accesses, addr)
    ELSE recorded_account_accesses

record_account_access(addr) ==
  recorded_account_accesses' =
    IF Len(recorded_account_accesses) < MaxRecordedAccountAccesses
    THEN Append(recorded_account_accesses, addr)
    ELSE recorded_account_accesses
-----------------------------------------------------------------------------
(* The state a test prepares: any accounts, every slot as at the beginning *)
(* of a transaction (its current value is the original one), warm if it is *)
(* in the access list.                                                     *)
Init ==
  /\ accounts \in SUBSET Address
  /\ code_size \in [Address -> CodeSize \cup {0}]
  /\ storage \in [Address \X Key ->
                    {s \in StorageValue : s.current = s.original}]
  /\ \A a \in Address \ accounts :
        code_size[a] = 0 /\ \A k \in Key : storage[<<a, k>>] = NewSlot
  /\ transient_storage = [s \in Address \X Key |-> Zero]
  /\ recorded_account_accesses = <<>>
  /\ recorded_calls = <<>>
  /\ m_recorded_calls_inputs = [items |-> <<>>, capacity |-> 0, generation |-> 0]
  /\ recorded_logs = <<>>
  /\ recorded_selfdestructs = [a \in Address |-> <<>>]
  /\ recorded_blockhashes = 0
  /\ ret = <<"none", "none">>

(* Methods that only read an account.  An opaque datum of an existing      *)
(* account stands for its balance and its code hash.                       *)
account_exists(addr) ==
  /\ record_account_access(addr)
  /\ Return("account_exists", addr \in accounts)
  /\ UNCHANGED <<accountVars, callVars, logVars>>

get_account(method, addr) ==
  /\ record_account_access(addr)
  /\ Return(method, IF addr \in accounts THEN addr ELSE Zero)
  /\ UNCHANGED <<accountVars, callVars, logVars>>

get_balance(addr) == get_account("get_balance", addr)
get_code_hash(addr) == get_account("get_code_hash", addr)

get_code_size(addr) ==
  /\ record_account_access(addr)
  /\ Return("get_code_size", IF addr \in accounts THEN code_size[addr] ELSE 0)
  /\ UNCHANGED <<accountVars, callVars, logVars>>

\* Faulty variant: the offset is not compared with the size of the code.
CopiedBytesUnchecked(len, offset, buffer_size) ==
  LET rest == (len - offset) % SizeModulus
  IN  IF buffer_size < rest THEN buffer_size ELSE rest

\* The number of bytes copied from a code of length len.
CopiedBytes(len, offset, buffer_size) ==
  IF offset >= len THEN 0
  ELSE LET rest == (len - offset) % SizeModulus
       IN  IF buffer_size < rest THEN buffer_size ELSE rest

copy_code(addr, offset, buffer_size) ==
  /\ record_account_access(addr)
  /\ Return("copy_code",
            [addr |-> addr, offset |-> offset, buffer_size |-> buffer_size,
             copied |-> IF addr \in accounts
                        THEN CopiedBytes(code_size[addr], offset, buffer_size)
                        ELSE 0])
  /\ UNCHANGED <<accountVars, callVars, logVars>>
-----------------------------------------------------------------------------
(* Storage.                                                                *)

get_storage(addr, key) ==
  /\ record_account_access(addr)
  /\ Return("get_storage",
            IF addr \in accounts THEN storage[<<addr, key>>].current ELSE Zero)
  /\ UNCHANGED <<accountVars, callVars, logVars>>

\* accounts[addr].storage[key] creates the account when it is not present.
set_storage(addr, key, value) ==
  LET s == storage[<<addr, key>>] IN
  /\ record_account_access(addr)
  /\ accounts' = accounts \cup {addr}
  /\ storage' = [storage EXCEPT ![<<addr, key>>].current = value]
  /\ Return("set_storage", StorageStatus(s.original, s.current, value))
  /\ UNCHANGED <<code_size, transient_storage, callVars, logVars>>

\* Faulty variant: the status is read after it was set.
access_storage_late(addr, key) ==
  /\ accounts' = accounts \cup {addr}
  /\ storage' = [storage EXCEPT ![<<addr, key>>].access_status = WARM]
  /\ Return("access_storage",
            [slot |-> <<addr, key>>, status |-> storage'[<<addr, key>>].access_status])
  /\ UNCHANGED <<code_size, transient_storage, recorded_account_accesses,
                 callVars, logVars>>

\* Faulty variant: the cap of the record of accounts applies to slots.
access_storage_capped(addr, key) ==
  /\ accounts' = accounts \cup {addr}
  /\ storage' = IF Len(recorded_account_accesses) < MaxRecordedAccountAccesses
                THEN [storage EXCEPT ![<<addr, key>>].access_status = WARM]
                ELSE storage
  /\ Return("access_storage",
            [slot |-> <<addr, key>>, status |-> storage[<<addr, key>>].access_status])
  /\ UNCHANGED <<code_size, transient_storage, recorded_account_accesses,
                 callVars, logVars>>

access_storage(addr, key) ==
  /\ accounts' = accounts \cup {addr}
  /\ storage' = [storage EXCEPT ![<<addr, key>>].access_status = WARM]
  /\ Return("access_storage",
            [slot |-> <<addr, key>>, status |-> storage[<<addr, key>>].access_status])
  /\ UNCHANGED <<code_size, transient_storage, recorded_account_accesses,
                 callVars, logVars>>

get_transient_storage(addr, key) ==
  /\ record_account_access(addr)
  /\ Return("get_transient_storage",
            IF addr \in accounts THEN transient_storage[<<addr, key>>] ELSE Zero)
  /\ UNCHANGED <<accountVars, callVars, logVars>>

set_transient_storage(addr, key, value) ==
  /\ record_account_access(addr)
  /\ accounts' = accounts \cup {addr}
  /\ transient_storage' = [transient_storage EXCEPT ![<<addr, key>>] = value]
  /\ Return("set_transient_storage", "none")
  /\ UNCHANGED <<code_size, storage, callVars, logVars>>
-----------------------------------------------------------------------------
(* The access status of an account (EIP-2929).                             *)

already_accessed(addr) == addr \in Range(recorded_account_accesses)

access_account(addr) ==
  /\ record_account_access(addr)
  /\ Return("access_account",
            [addr |-> addr,
             status |-> IF addr \in Precompile \/ already_accessed(addr)
                        THEN WARM ELSE COLD])
  /\ UNCHANGED <<accountVars, callVars, logVars>>
-----------------------------------------------------------------------------
(* Calls.  Recorded messages point into a vector of copies of their        *)
(* inputs; when the vector grows past its capacity its items move, and the *)
(* data of a short bytes object moves with it.                             *)

\* Faulty variant: nothing is reserved.
ReservedNothing(inputs) == inputs

Reserved(inputs) ==
  IF inputs.capacity < MaxRecordedCalls
  THEN [inputs EXCEPT !.capacity = MaxRecordedCalls, !.generation = @ + 1]
  ELSE inputs

EmplaceBack(inputs, size) ==
  LET n == Len(inputs.items) IN
  IF n < inputs.capacity
  THEN [inputs EXCEPT !.items = Append(@, size)]
  ELSE [items |-> Append(inputs.items, size),
        capacity |-> IF n = 0 THEN 1 ELSE 2 * n,
        generation |-> inputs.generation + 1]

call(recipient, input_size) ==
  LET inputs == IF recorded_calls = <<>> THEN Reserved(m_recorded_calls_inputs)
                ELSE m_recorded_calls_inputs
      copied == EmplaceBack(inputs, input_size)
      recorded(input_data) ==
        Append(recorded_calls, [recipient |-> recipient, input_size |-> input_size,
                                input_data |-> input_data])
  IN
  /\ Len(m_recorded_calls_inputs.items) < MaxInputs       \* bound
  /\ record_account_access(recipient)
  /\ IF Len(recorded_calls) >= MaxRecordedCalls
     THEN recorded_calls' = recorded_calls /\ m_recorded_calls_inputs' = inputs
     ELSE IF input_size > 0
     THEN /\ m_recorded_calls_inputs' = copied
          /\ recorded_calls' = recorded([index |-> Len(copied.items),
                                         generation |-> copied.generation])
     ELSE recorded_calls' = recorded(Caller) /\ m_recorded_calls_inputs' = inputs
  /\ Return("call", "call_result")
  /\ UNCHANGED <<accountVars, logVars>>
-----------------------------------------------------------------------------
(* Records without a cap.                                                  *)

selfdestruct(addr, beneficiary) ==
  /\ Len(recorded_selfdestructs[addr]) < MaxRecords       \* bound
  /\ record_account_access(addr)
  /\ recorded_selfdestructs' =
       [recorded_selfdestructs EXCEPT ![addr] = Append(@, beneficiary)]
  /\ Return("selfdestruct",
            [addr |-> addr, first |-> Len(recorded_selfdestructs'[addr]) = 1])
  /\ UNCHANGED <<accountVars, callVars, recorded_logs, recorded_blockhashes>>

emit_log(addr) ==
  /\ Len(recorded_logs) < MaxRecords                      \* bound
  /\ recorded_logs' = Append(recorded_logs, addr)
  /\ Return("emit_log", "none")
  /\ UNCHANGED <<accountVars, recorded_account_accesses, callVars,
                 recorded_selfdestructs, recorded_blockhashes>>

\* recorded_blockhashes counts the block numbers recorded.
get_block_hash ==
  /\ recorded_blockhashes < MaxRecords                    \* bound
  /\ recorded_blockhashes' = recorded_blockhashes + 1
  /\ Return("get_block_hash", "block_hash")
  /\ UNCHANGED <<accountVars, recorded_account_accesses, callVars,
                 recorded_logs, recorded_selfdestructs>>

get_tx_context ==
  /\ Return("get_tx_context", "tx_context")
  /\ UNCHANGED <<accountVars, recorded_account_accesses, callVars, logVars>>
-----------------------------------------------------------------------------
AccountMethod(addr) ==
  \/ account_exists(addr)
  \/ get_balance(addr)
  \/ get_code_size(addr)
  \/ get_code_hash(addr)
  \/ \E offset, size \in CopyRange : copy_code(addr, offset, size)
  \/ access_account(addr)
  \/ \E size \in InputSize : call(addr, size)
  \/ \E beneficiary \in Address : selfdestruct(addr, beneficiary)
  \/ emit_log(addr)

SlotMethod(addr, key) ==
  \/ get_storage(addr, key)
  \/ access_storage(addr, key)
  \/ get_transient_storage(addr, key)
  \/ \E value \in Value : set_transient_storage(addr, key, value)

SetStorage == \E addr \in Address, key \in Key, value \in Value :
                set_storage(addr, key, value)

\* Everything but set_storage.
OtherMethod ==
  \/ \E addr \in Address : AccountMethod(addr)
  \/ \E addr \in Address, key \in Key : SlotMethod(addr, key)
  \/ get_block_hash
  \/ get_tx_context

Next == SetStorage \/ OtherMethod

Spec == Init /\ [][Next]_vars
-----------------------------------------------------------------------------
TypeOK ==
  /\ accounts \subseteq Address
  /\ code_size \in [Address -> Nat]
  /\ storage \in [Address \X Key -> StorageValue]
  /\ transient_storage \in [Address \X Key -> Value]
  /\ recorded_account_accesses \in Seq(Address)
  /\ Len(recorded_account_accesses) <= MaxRecordedAccountAccesses
  /\ recorded_calls \in Seq([recipient : Address, input_size : InputSize,
                              input_data : [index : Nat, generation : Nat]])
  /\ Len(recorded_calls) <= MaxRecordedCalls
  /\ m_recorded_calls_inputs \in
       [items : Seq(InputSize), capacity : Nat, generation : Nat]
  /\ recorded_logs \in Seq(Address)
  /\ recorded_selfdestructs \in [Address -> Seq(Address)]
  /\ recorded_blockhashes \in Nat

(* The input_data of every recorded call whose input was not empty points  *)
(* to a live copy of that input, of the size recorded: "Iterators will not *)
(* invalidate", as long as the owner leaves recorded_calls alone.          *)
RecordedInputsValid ==
  \A i \in DOMAIN recorded_calls :
    LET msg == recorded_calls[i]
        p == msg.input_data
    IN  msg.input_size > 0 =>
          /\ p.index \in DOMAIN m_recorded_calls_inputs.items
          /\ m_recorded_calls_inputs.items[p.index] = msg.input_size
          /\ \/ p.generation = m_recorded_calls_inputs.generation
             \/ msg.input_size > LocalCapacity

(* Until the record of accesses is full, every account that was called or  *)
(* selfdestructed is in it, so access_account will find it warm.           *)
RecordedActorsAreAccessed ==
  Len(recorded_account_accesses) < MaxRecordedAccountAccesses =>
    /\ \A i \in DOMAIN recorded_calls : already_accessed(recorded_calls[i].recipient)
    /\ \A a \in Address : recorded_selfdestructs[a] # <<>> => already_accessed(a)

(* copy_code never reads past the code, writes past the caller's buffer,   *)
(* or copies less than both allow, whatever the offset.                    *)
CopyCodeInBounds ==
  ret[1] = "copy_code" =>
    LET r == ret[2]
        len == code_size[r.addr]
    IN  /\ r.copied <= r.buffer_size
        /\ r.copied > 0 => r.offset + r.copied <= len
        /\ r.copied < r.buffer_size => r.offset + r.copied >= len

(* An account access is never forgotten, nor is a warm slot: once warm, an *)
(* account or slot stays warm, even when the record of accesses is full.   *)
WarmStaysWarm ==
  [][/\ \A a \in Address : already_accessed(a) => already_accessed(a)'
     /\ \A s \in Address \X Key :
          storage[s].access_status = WARM => storage'[s].access_status = WARM]_vars

(* The Host's promise on access statuses.                                  *)
Accesses == INSTANCE AccessSet WITH
  warmAccounts <- Precompile \cup Range(recorded_account_accesses),
  warmSlots <- {s \in Address \X Key : storage[s].access_status = WARM},
  answer <- CASE ret[1] = "access_account" ->
                   [subject |-> <<ret[2].addr>>, status |-> ret[2].status]
              [] ret[1] = "access_storage" ->
                   [subject |-> ret[2].slot, status |-> ret[2].status]
              [] OTHER -> [subject |-> <<>>, status |-> "none"]

(* While the record has room, every method of MockedHost is a step of      *)
(* AccessSet: cold exactly on the first access.                            *)
AccessStatusExact ==
  [][Len(recorded_account_accesses) < MaxRecordedAccountAccesses
       => Accesses!Next]_vars

(* Full or not, the record decides nothing else than which accounts are    *)
(* remembered: a slot is cold exactly on its first access, an account is   *)
(* warm exactly when it is remembered, and asking for one that cannot be   *)
(* remembered any more changes nothing.                                    *)
AccessStatusBeyondRecord == Accesses!LimitedSpec
=============================================================================
