-------------------------- MODULE MockedHostProofs ---------------------------
(* What a VM and a test may rely on in MockedHost, for any accounts, slots *)
(* and sizes, any caps of the records and any sequence of calls; and what  *)
(* the status computed by set_storage determines, and net gas metering,    *)
(* for every gas schedule and any number of writes.                        *)
EXTENDS StorageGas, TLAPS

Slot == Address \X Key

\* TypeOK, by the groups of variables that the methods change together.
AccountTypes ==
  /\ accounts \subseteq Address
  /\ code_size \in [Address -> CodeSize \cup {0}]
  /\ storage \in [Slot -> StorageValue]
  /\ transient_storage \in [Slot -> Value]

AccessTypes ==
  /\ recorded_account_accesses \in Seq(Address)
  /\ Len(recorded_account_accesses) <= MaxRecordedAccountAccesses

RecordedCall == [recipient : Address, input_size : InputSize,
                 input_data : [index : Nat, generation : Nat]]

\* Room for as many inputs as calls may be recorded is reserved before the first of them, so
\* no later one makes the vector grow.
CallTypes ==
  /\ recorded_calls \in Seq(RecordedCall)
  /\ Len(recorded_calls) <= MaxRecordedCalls
  /\ m_recorded_calls_inputs \in [items : Seq(InputSize), capacity : Nat, generation : Nat]
  /\ Len(m_recorded_calls_inputs.items) <= Len(recorded_calls)
  /\ recorded_calls # <<>> => MaxRecordedCalls <= m_recorded_calls_inputs.capacity

LogTypes ==
  /\ recorded_logs \in Seq(Address)
  /\ recorded_selfdestructs \in [Address -> Seq(Address)]
  /\ recorded_blockhashes \in Nat

Types == AccountTypes /\ AccessTypes /\ CallTypes /\ LogTypes

\* How the map of accounts is represented: where there is none, the values of a new one.
AbsentIsNew ==
  \A a \in Address \ accounts :
    /\ code_size[a] = 0
    /\ \A k \in Key : storage[<<a, k>>] = NewSlot /\ transient_storage[<<a, k>>] = Zero

IInv == Types /\ AbsentIsNew /\ RecordedInputsValid /\ RecordedActorsAreAccessed

-----------------------------------------------------------------------------
(* The record of accesses.                                                 *)

\* Recording an access forgets none, and while there is room it is recorded.
LEMMA RecordAccess ==
  ASSUME AccessTypes, NEW addr \in Address, record_account_access(addr)
  PROVE  /\ AccessTypes'
         /\ Len(recorded_account_accesses) <= Len(recorded_account_accesses')
         /\ \A a \in Address : already_accessed(a) => already_accessed(a)'
         /\ Len(recorded_account_accesses) < MaxRecordedAccountAccesses =>
              Range(recorded_account_accesses') = Range(recorded_account_accesses) \cup {addr}
<1> DEFINE rec == recorded_account_accesses
<1>1. rec \in Seq(Address) /\ Len(rec) \in Nat /\ DOMAIN rec = 1..Len(rec)
  BY DEF AccessTypes
<1>2. CASE Len(rec) < MaxRecordedAccountAccesses
  <2>1. rec' = Append(rec, addr)
    BY <1>2 DEF record_account_access
  <2>2. /\ rec' \in Seq(Address) /\ Len(rec') = Len(rec) + 1 /\ DOMAIN rec' = 1..(Len(rec) + 1)
        /\ rec'[Len(rec) + 1] = addr /\ \A i \in DOMAIN rec : rec'[i] = rec[i]
    BY ONLY <1>1, <2>1, addr \in Address
  <2>3. AccessTypes'
    BY <1>1, <1>2, <2>2, HostConstants DEF AccessTypes
  <2>4. Range(rec') = Range(rec) \cup {addr}
    <3>1. DOMAIN rec' = DOMAIN rec \cup {Len(rec) + 1}
      BY ONLY <1>1, <2>2
    <3> HIDE DEF rec
    <3>2. QED
      BY <2>2, <3>1 DEF Range
  <2>5. QED
    BY <1>1, <2>2, <2>3, <2>4 DEF already_accessed
<1>3. CASE ~(Len(rec) < MaxRecordedAccountAccesses)
  <2>1. rec' = rec
    BY <1>3 DEF record_account_access
  <2>2. QED
    BY <1>1, <1>3, <2>1 DEF AccessTypes, already_accessed
<1>4. QED
  BY <1>2, <1>3

\* What a method may do to the record of accesses.
LEMMA AccessesOfAStep ==
  ASSUME [Next]_vars
  PROVE  \/ UNCHANGED recorded_account_accesses
         \/ \E addr \in Address : record_account_access(addr)
<1>1. ASSUME NEW addr \in Address, AccountMethod(addr)
      PROVE  record_account_access(addr) \/ UNCHANGED recorded_account_accesses
  BY <1>1 DEF AccountMethod, account_exists, get_balance, get_code_hash, get_account,
              get_code_size, copy_code, access_account, call, selfdestruct, emit_log
<1>2. ASSUME NEW addr \in Address, NEW key \in Key, SlotMethod(addr, key)
      PROVE  record_account_access(addr) \/ UNCHANGED recorded_account_accesses
  BY <1>2 DEF SlotMethod, get_storage, access_storage, get_transient_storage,
              set_transient_storage
<1>3. ASSUME NEW addr \in Address, NEW key, NEW value, set_storage(addr, key, value)
      PROVE  record_account_access(addr)
  BY <1>3 DEF set_storage
<1>4. CASE get_block_hash \/ get_tx_context \/ UNCHANGED vars
  BY <1>4 DEF get_block_hash, get_tx_context, vars
<1>5. QED
  BY <1>1, <1>2, <1>3, <1>4 DEF Next, SetStorage, OtherMethod

LEMMA AccessesKept ==
  ASSUME AccessTypes, [Next]_vars
  PROVE  /\ AccessTypes'
         /\ Len(recorded_account_accesses) <= Len(recorded_account_accesses')
         /\ \A a \in Address : already_accessed(a) => already_accessed(a)'
<1>1. CASE UNCHANGED recorded_account_accesses
  <2>1. Len(recorded_account_accesses) \in Nat
    BY DEF AccessTypes
  <2>2. QED
    BY <1>1, <2>1 DEF AccessTypes, already_accessed
<1>2. ASSUME NEW addr \in Address, record_account_access(addr)
      PROVE  /\ AccessTypes'
             /\ Len(recorded_account_accesses) <= Len(recorded_account_accesses')
             /\ \A a \in Address : already_accessed(a) => already_accessed(a)'
  BY <1>2, RecordAccess
<1>3. QED
  BY <1>1, <1>2, AccessesOfAStep
-----------------------------------------------------------------------------
(* Accounts and their storage.                                             *)

\* What a method may do to the accounts.
LEMMA AccountsOfAStep ==
  ASSUME [Next]_vars
  PROVE  \/ UNCHANGED accountVars
         \/ \E addr \in Address, key \in Key :
              \/ access_storage(addr, key)
              \/ \E value \in Value : \/ set_storage(addr, key, value)
                                      \/ set_transient_storage(addr, key, value)
<1>1. ASSUME NEW addr \in Address, AccountMethod(addr) PROVE UNCHANGED accountVars
  BY <1>1 DEF AccountMethod, account_exists, get_balance, get_code_hash, get_account,
              get_code_size, copy_code, access_account, call, selfdestruct, emit_log
<1>2. ASSUME NEW addr \in Address, NEW key \in Key, SlotMethod(addr, key)
      PROVE  \/ UNCHANGED accountVars
             \/ access_storage(addr, key)
             \/ \E value \in Value : set_transient_storage(addr, key, value)
  BY <1>2 DEF SlotMethod, get_storage, get_transient_storage
<1>4. CASE get_block_hash \/ get_tx_context \/ UNCHANGED vars
  BY <1>4 DEF get_block_hash, get_tx_context, vars
<1>5. QED
  BY <1>1, <1>2, <1>4 DEF Next, SetStorage, OtherMethod

\* One slot of an account changes, and the account is created if it was not there.
LEMMA WriteSlot ==
  ASSUME AccountTypes, AbsentIsNew, NEW addr \in Address, NEW key \in Key,
         accounts' = accounts \cup {addr}, code_size' = code_size,
         \/ transient_storage' = transient_storage /\
            \E x \in StorageValue : storage' = [storage EXCEPT ![<<addr, key>>] = x]
         \/ storage' = storage /\
            \E v \in Value : transient_storage' = [transient_storage EXCEPT ![<<addr, key>>] = v]
  PROVE  AccountTypes' /\ AbsentIsNew'
<1>1. <<addr, key>> \in Slot
  BY DEF Slot
<1>2. AccountTypes'
  BY <1>1 DEF AccountTypes
<1>3. \A a \in Address \ accounts', k \in Key :
        /\ a \in Address \ accounts /\ <<a, k>> \in Slot /\ <<a, k>> # <<addr, key>>
        /\ storage'[<<a, k>>] = storage[<<a, k>>]
        /\ transient_storage'[<<a, k>>] = transient_storage[<<a, k>>]
  BY <1>1 DEF AccountTypes, Slot
<1>4. AbsentIsNew'
  BY <1>3 DEF AbsentIsNew
<1>5. QED
  BY <1>2, <1>4

LEMMA SlotStatus ==
  ASSUME AccountTypes, NEW s \in Slot
  PROVE  /\ [storage[s] EXCEPT !.access_status = WARM] \in StorageValue
         /\ \A v \in Value : [storage[s] EXCEPT !.current = v] \in StorageValue
         /\ \A v \in Value :
              [storage[s] EXCEPT !.current = v].access_status = storage[s].access_status
<1>1. storage[s] \in StorageValue
  BY DEF AccountTypes
<1>2. QED
  BY ONLY <1>1 DEF StorageValue, WARM

\* The value that storage[s] becomes.
LEMMA StorageWrite ==
  ASSUME AccountTypes, NEW addr \in Address, NEW key \in Key
  PROVE  /\ access_storage(addr, key) =>
              storage' = [storage EXCEPT ![<<addr, key>>] =
                            [storage[<<addr, key>>] EXCEPT !.access_status = WARM]]
         /\ \A v \in Value : set_storage(addr, key, v) =>
              storage' = [storage EXCEPT ![<<addr, key>>] =
                            [storage[<<addr, key>>] EXCEPT !.current = v]]
BY DEF access_storage, set_storage

LEMMA AccountsKept ==
  ASSUME AccountTypes, AbsentIsNew, [Next]_vars
  PROVE  /\ AccountTypes' /\ AbsentIsNew' /\ code_size' = code_size
         /\ \A s \in Slot : storage[s].access_status = WARM => storage'[s].access_status = WARM
<1> DEFINE Goal == /\ AccountTypes' /\ AbsentIsNew' /\ code_size' = code_size
                   /\ \A s \in Slot : storage[s].access_status = WARM
                                        => storage'[s].access_status = WARM
<1>1. CASE UNCHANGED accountVars
  BY <1>1 DEF accountVars, AccountTypes, AbsentIsNew
<1>2. ASSUME NEW addr \in Address, NEW key \in Key, NEW x \in StorageValue,
             x.access_status \in {WARM, storage[<<addr, key>>].access_status},
             accounts' = accounts \cup {addr}, code_size' = code_size,
             transient_storage' = transient_storage,
             storage' = [storage EXCEPT ![<<addr, key>>] = x]
      PROVE  Goal
  <2>1. AccountTypes' /\ AbsentIsNew'
    BY <1>2, WriteSlot
  <2>2. \A s \in Slot : storage'[s] = IF s = <<addr, key>> THEN x ELSE storage[s]
    BY <1>2 DEF AccountTypes
  <2>3. QED
    BY <1>2, <2>1, <2>2
<1> HIDE DEF Goal
<1>3. ASSUME NEW addr \in Address, NEW key \in Key, access_storage(addr, key) PROVE Goal
  <2>1. PICK x \in StorageValue : x = [storage[<<addr, key>>] EXCEPT !.access_status = WARM]
    BY SlotStatus DEF Slot
  <2>2. /\ accounts' = accounts \cup {addr} /\ UNCHANGED <<code_size, transient_storage>>
        /\ storage' = [storage EXCEPT ![<<addr, key>>] = x]
    BY <1>3, <2>1, StorageWrite DEF access_storage
  <2>3. x.access_status = WARM
    <3>1. storage[<<addr, key>>] \in StorageValue
      BY DEF AccountTypes, Slot
    <3>2. QED
      BY ONLY <2>1, <3>1 DEF StorageValue
  <2>4. QED
    BY ONLY <1>2, <2>1, <2>2, <2>3, addr \in Address, key \in Key
<1>4. ASSUME NEW addr \in Address, NEW key \in Key, NEW v \in Value, set_storage(addr, key, v)
      PROVE  Goal
  <2>1. PICK x \in StorageValue : x = [storage[<<addr, key>>] EXCEPT !.current = v]
    BY SlotStatus DEF Slot
  <2>2. /\ accounts' = accounts \cup {addr} /\ UNCHANGED <<code_size, transient_storage>>
        /\ storage' = [storage EXCEPT ![<<addr, key>>] = x]
    BY <1>4, <2>1, StorageWrite DEF set_storage
  <2>3. x.access_status = storage[<<addr, key>>].access_status
    BY <2>1, SlotStatus DEF Slot
  <2>4. QED
    BY ONLY <1>2, <2>1, <2>2, <2>3, addr \in Address, key \in Key
<1>5. ASSUME NEW addr \in Address, NEW key \in Key, NEW v \in Value,
             set_transient_storage(addr, key, v)
      PROVE  Goal
  BY <1>5, WriteSlot DEF set_transient_storage, Goal
<1>6. Goal
  BY <1>1, <1>3, <1>4, <1>5, AccountsOfAStep DEF Goal
<1>7. QED
  BY <1>6 DEF Goal
-----------------------------------------------------------------------------
(* Recorded calls and the copies of their inputs.                          *)

\* What a method may do to the records of calls, logs and selfdestructs.
LEMMA RecordsOfAStep ==
  ASSUME [Next]_vars
  PROVE  /\ \/ UNCHANGED callVars
            \/ \E addr \in Address, size \in InputSize : call(addr, size)
         /\ \/ UNCHANGED recorded_selfdestructs
            \/ \E addr, beneficiary \in Address : selfdestruct(addr, beneficiary)
         /\ UNCHANGED recorded_logs \/ \E addr \in Address : emit_log(addr)
         /\ UNCHANGED recorded_blockhashes \/ get_block_hash
<1>1. ASSUME NEW addr \in Address, AccountMethod(addr)
      PROVE  \/ UNCHANGED <<callVars, logVars>>
             \/ \E size \in InputSize : call(addr, size) /\ UNCHANGED logVars
             \/ \E beneficiary \in Address :
                  /\ selfdestruct(addr, beneficiary)
                  /\ UNCHANGED <<callVars, recorded_logs, recorded_blockhashes>>
             \/ /\ emit_log(addr)
                /\ UNCHANGED <<callVars, recorded_selfdestructs, recorded_blockhashes>>
  BY <1>1 DEF AccountMethod, account_exists, get_balance, get_code_hash, get_account,
              get_code_size, copy_code, access_account, call, selfdestruct, emit_log
<1>2. ASSUME NEW addr \in Address, NEW key \in Key, SlotMethod(addr, key)
      PROVE  UNCHANGED <<callVars, logVars>>
  BY <1>2 DEF SlotMethod, get_storage, access_storage, get_transient_storage,
              set_transient_storage
<1>3. ASSUME NEW addr, NEW key, NEW value, set_storage(addr, key, value)
      PROVE  UNCHANGED <<callVars, logVars>>
  BY <1>3 DEF set_storage
<1>4. CASE get_tx_context \/ UNCHANGED vars
  BY <1>4 DEF get_tx_context, vars, logVars
<1>5. CASE get_block_hash
  BY <1>5 DEF get_block_hash
<1>6. QED
  BY <1>1, <1>2, <1>3, <1>4, <1>5 DEF Next, SetStorage, OtherMethod, logVars

LEMMA ReserveInputs ==
  ASSUME NEW r \in [items : Seq(InputSize), capacity : Nat, generation : Nat]
  PROVE  /\ Reserved(r) \in [items : Seq(InputSize), capacity : Nat, generation : Nat]
         /\ Reserved(r).items = r.items /\ MaxRecordedCalls <= Reserved(r).capacity
<1>1. MaxRecordedCalls \in Nat
  BY HostConstants
<1>2. CASE r.capacity < MaxRecordedCalls
  <2>1. Reserved(r) = [items |-> r.items, capacity |-> MaxRecordedCalls,
                       generation |-> r.generation + 1]
    BY <1>2 DEF Reserved
  <2>2. QED
    BY <1>1, <2>1
<1>3. CASE ~(r.capacity < MaxRecordedCalls)
  BY <1>1, <1>3 DEF Reserved
<1>4. QED
  BY <1>2, <1>3

\* A call that is recorded is appended to the record, its input to the copies, without any of
\* those before being moved.
LEMMA RecordCall ==
  ASSUME CallTypes, RecordedInputsValid, NEW addr \in Address, NEW size \in InputSize,
         call(addr, size)
  PROVE  /\ CallTypes' /\ RecordedInputsValid'
         /\ \A i \in DOMAIN recorded_calls' :
              recorded_calls'[i].recipient = addr
              \/ (i \in DOMAIN recorded_calls /\ recorded_calls'[i] = recorded_calls[i])
<1> DEFINE inputs == IF recorded_calls = <<>> THEN Reserved(m_recorded_calls_inputs)
                     ELSE m_recorded_calls_inputs
           n == Len(inputs.items)
           msg(p) == [recipient |-> addr, input_size |-> size, input_data |-> p]
<1>t. /\ recorded_calls \in Seq(RecordedCall) /\ Len(recorded_calls) \in Nat
      /\ DOMAIN recorded_calls = 1..Len(recorded_calls)
      /\ m_recorded_calls_inputs \in [items : Seq(InputSize), capacity : Nat, generation : Nat]
      /\ Len(m_recorded_calls_inputs.items) <= Len(recorded_calls)
  BY DEF CallTypes
<1>m. MaxRecordedCalls \in Nat \ {0} /\ InputSize \subseteq Nat
  BY HostConstants
<1>i. /\ inputs \in [items : Seq(InputSize), capacity : Nat, generation : Nat]
      /\ MaxRecordedCalls <= inputs.capacity
      /\ inputs.items = m_recorded_calls_inputs.items
      /\ recorded_calls # <<>> => inputs = m_recorded_calls_inputs
  <2>1. CASE recorded_calls # <<>>
    BY <2>1, <1>t DEF CallTypes
  <2>2. CASE recorded_calls = <<>>
    BY <2>2, <1>t, ReserveInputs
  <2>3. QED
    BY <2>1, <2>2
<1>v. \A i \in DOMAIN recorded_calls :
        LET m == recorded_calls[i]
        IN  m.input_size > 0 =>
              /\ m.input_data.index \in DOMAIN inputs.items
              /\ inputs.items[m.input_data.index] = m.input_size
              /\ m.input_data.generation = inputs.generation \/ m.input_size > LocalCapacity
  <2>1. recorded_calls = <<>> => DOMAIN recorded_calls = {}
    OBVIOUS
  <2>2. QED
    BY <2>1, <1>i DEF RecordedInputsValid
<1>1. CASE Len(recorded_calls) >= MaxRecordedCalls
  <2>1. recorded_calls' = recorded_calls /\ m_recorded_calls_inputs' = inputs
    BY <1>1 DEF call
  <2>2. CallTypes'
    BY <2>1, <1>t, <1>i DEF CallTypes
  <2> HIDE DEF inputs
  <2>3. RecordedInputsValid'
    BY <2>1, <1>v DEF RecordedInputsValid
  <2>4. QED
    BY <2>1, <2>2, <2>3
<1>2. ASSUME Len(recorded_calls) < MaxRecordedCalls,
             NEW p \in [index : Nat, generation : Nat], NEW copied,
             copied \in [items : Seq(InputSize), capacity : Nat, generation : Nat],
             copied.capacity = inputs.capacity, copied.generation = inputs.generation,
             Len(copied.items) <= n + 1,
             \A j \in 1..n : j \in DOMAIN copied.items /\ copied.items[j] = inputs.items[j],
             size > 0 => /\ p.index \in DOMAIN copied.items /\ copied.items[p.index] = size
                         /\ p.generation = copied.generation,
             recorded_calls' = Append(recorded_calls, msg(p)),
             m_recorded_calls_inputs' = copied
      PROVE  /\ CallTypes' /\ RecordedInputsValid'
             /\ \A i \in DOMAIN recorded_calls' :
                  recorded_calls'[i].recipient = addr
                  \/ (i \in DOMAIN recorded_calls /\ recorded_calls'[i] = recorded_calls[i])
  <2> DEFINE new == msg(p)
  <2>1. /\ new \in RecordedCall /\ new.recipient = addr
        /\ new.input_size = size /\ new.input_data = p
    BY <1>2 DEF RecordedCall
  <2>2. n \in Nat /\ DOMAIN inputs.items = 1..n
    BY <1>i
  <2>a. recorded_calls' = Append(recorded_calls, new)
    BY <1>2
  <2> HIDE DEF inputs, n, msg, new
  <2>3. /\ recorded_calls' \in Seq(RecordedCall)
        /\ Len(recorded_calls') = Len(recorded_calls) + 1
        /\ DOMAIN recorded_calls' = 1..(Len(recorded_calls) + 1)
        /\ recorded_calls'[Len(recorded_calls) + 1] = new
        /\ \A i \in DOMAIN recorded_calls : recorded_calls'[i] = recorded_calls[i]
    BY ONLY <2>a, <2>1, <1>t
  <2>4. \A i \in DOMAIN recorded_calls' : recorded_calls'[i] = new
          \/ (i \in DOMAIN recorded_calls /\ recorded_calls'[i] = recorded_calls[i])
    <3>1. DOMAIN recorded_calls' = DOMAIN recorded_calls \cup {Len(recorded_calls) + 1}
      BY ONLY <2>3, <1>t
    <3>2. ASSUME NEW i \in DOMAIN recorded_calls'
          PROVE  recorded_calls'[i] = new
                 \/ (i \in DOMAIN recorded_calls /\ recorded_calls'[i] = recorded_calls[i])
      <4>1. i \in DOMAIN recorded_calls \/ i = Len(recorded_calls) + 1
        BY <3>1
      <4>2. CASE i \in DOMAIN recorded_calls
        BY ONLY <4>2, <2>3
      <4>3. CASE i = Len(recorded_calls) + 1
        BY ONLY <4>3, <2>3
      <4>4. QED
        BY <4>1, <4>2, <4>3
    <3>3. QED
      BY <3>2
  <2>5. CallTypes'
    <3>1. Len(recorded_calls') <= MaxRecordedCalls
      BY ONLY <1>2, <1>t, <1>m, <2>3
    <3>2. Len(m_recorded_calls_inputs'.items) <= Len(recorded_calls')
      <4>1. Len(copied.items) \in Nat /\ n <= Len(recorded_calls)
        BY <1>2, <1>i, <1>t DEF n
      <4>2. QED
        BY ONLY <4>1, <1>2, <1>t, <2>2, <2>3
    <3>3. QED
      BY <3>1, <3>2, <1>2, <1>i, <2>3 DEF CallTypes
  <2>6. RecordedInputsValid'
    <3>1. ASSUME NEW i \in DOMAIN recorded_calls'
          PROVE  LET m == recorded_calls'[i]
                 IN  m.input_size > 0 =>
                       /\ m.input_data.index \in DOMAIN copied.items
                       /\ copied.items[m.input_data.index] = m.input_size
                       /\ m.input_data.generation = copied.generation
                          \/ m.input_size > LocalCapacity
      <4>1. CASE recorded_calls'[i] = new
        BY <4>1, <1>2, <2>1
      <4>2. CASE i \in DOMAIN recorded_calls /\ recorded_calls'[i] = recorded_calls[i]
        BY <4>2, <1>2, <1>v, <2>2
      <4>3. QED
        BY <4>1, <4>2, <2>4
    <3>2. QED
      BY <3>1, <1>2 DEF RecordedInputsValid
  <2>7. QED
    BY <2>1, <2>4, <2>5, <2>6
<1>3. CASE Len(recorded_calls) < MaxRecordedCalls /\ ~(size > 0)
  <2>1. recorded_calls' = Append(recorded_calls, msg(Caller)) /\ m_recorded_calls_inputs' = inputs
    BY <1>1, <1>3, <1>t, <1>m DEF call
  <2>2. Caller \in [index : Nat, generation : Nat]
    BY DEF Caller
  <2>3. n \in Nat /\ DOMAIN inputs.items = 1..n /\ n <= n + 1
    BY <1>i
  <2> HIDE DEF inputs, n, msg
  <2>4. QED
    BY <1>2, <1>3, <1>i, <2>1, <2>2, <2>3
<1>4. CASE Len(recorded_calls) < MaxRecordedCalls /\ size > 0
  <2> DEFINE copied == EmplaceBack(inputs, size)
             p == [index |-> Len(copied.items), generation |-> copied.generation]
  <2>1. /\ recorded_calls' = Append(recorded_calls, msg(p))
        /\ m_recorded_calls_inputs' = copied
    BY <1>4, <1>t, <1>m DEF call
  <2>2. n \in Nat /\ n < inputs.capacity /\ inputs.items \in Seq(InputSize)
    BY <1>4, <1>i, <1>t, <1>m
  <2>3. copied = [inputs EXCEPT !.items = Append(inputs.items, size)]
    BY <2>2 DEF EmplaceBack
  <2>4. /\ Append(inputs.items, size) \in Seq(InputSize)
        /\ Len(Append(inputs.items, size)) = n + 1
        /\ DOMAIN Append(inputs.items, size) = 1..(n + 1)
        /\ Append(inputs.items, size)[n + 1] = size
        /\ \A j \in 1..n : Append(inputs.items, size)[j] = inputs.items[j]
    BY <2>2
  <2> HIDE DEF inputs, n, msg, copied
  <2>5. /\ copied \in [items : Seq(InputSize), capacity : Nat, generation : Nat]
        /\ copied.capacity = inputs.capacity /\ copied.generation = inputs.generation
        /\ copied.items = Append(inputs.items, size)
    BY ONLY <2>3, <2>4, <1>i
  <2>6. p \in [index : Nat, generation : Nat] /\ p.index = n + 1
        /\ p.generation = copied.generation
    BY ONLY <2>2, <2>4, <2>5
  <2> HIDE DEF p
  <2>7. Len(copied.items) <= n + 1 /\ p.index \in DOMAIN copied.items
        /\ copied.items[p.index] = size
        /\ \A j \in 1..n : j \in DOMAIN copied.items /\ copied.items[j] = inputs.items[j]
    BY ONLY <2>2, <2>4, <2>5, <2>6
  <2>8. QED
    BY ONLY <1>2, <1>4, <2>1, <2>5, <2>6, <2>7
<1>5. QED
  BY <1>1, <1>3, <1>4, <1>t, <1>m

LEMMA CallsKept ==
  ASSUME CallTypes, RecordedInputsValid, [Next]_vars
  PROVE  CallTypes' /\ RecordedInputsValid'
<1>1. CASE UNCHANGED callVars
  BY <1>1 DEF callVars, CallTypes, RecordedInputsValid
<1>2. QED
  BY <1>1, RecordCall, RecordsOfAStep

LEMMA LogsKept == ASSUME LogTypes, [Next]_vars PROVE LogTypes'
<1>1. recorded_logs' \in Seq(Address)
  <2>1. recorded_logs \in Seq(Address)
    BY DEF LogTypes
  <2>2. UNCHANGED recorded_logs \/ \E addr \in Address : recorded_logs' = Append(recorded_logs, addr)
    BY RecordsOfAStep DEF emit_log
  <2>3. QED
    BY ONLY <2>1, <2>2
<1>2. recorded_blockhashes' \in Nat
  BY RecordsOfAStep DEF LogTypes, get_block_hash
<1>3. recorded_selfdestructs' \in [Address -> Seq(Address)]
  <2>1. recorded_selfdestructs \in [Address -> Seq(Address)]
    BY DEF LogTypes
  <2>2. \/ UNCHANGED recorded_selfdestructs
        \/ \E addr, beneficiary \in Address :
             recorded_selfdestructs' = [recorded_selfdestructs EXCEPT ![addr] =
                                          Append(recorded_selfdestructs[addr], beneficiary)]
    BY RecordsOfAStep DEF selfdestruct
  <2>3. ASSUME NEW addr \in Address, NEW beneficiary \in Address,
               recorded_selfdestructs' = [recorded_selfdestructs EXCEPT ![addr] =
                                            Append(recorded_selfdestructs[addr], beneficiary)]
        PROVE  recorded_selfdestructs' \in [Address -> Seq(Address)]
    <3>1. Append(recorded_selfdestructs[addr], beneficiary) \in Seq(Address)
      BY <2>1
    <3>2. QED
      BY <2>1, <2>3, <3>1
  <2>4. QED
    BY <2>1, <2>2, <2>3
<1>4. QED
  BY <1>1, <1>2, <1>3 DEF LogTypes

LEMMA ActorsKept ==
  ASSUME Types, RecordedInputsValid, RecordedActorsAreAccessed, [Next]_vars
  PROVE  RecordedActorsAreAccessed'
<1> DEFINE len == Len(recorded_account_accesses)
<1> DEFINE Accessed == Range(recorded_account_accesses)
<1>1. /\ len \in Nat /\ len' \in Nat /\ len <= len' /\ MaxRecordedAccountAccesses \in Nat
      /\ \A a \in Address : a \in Accessed => a \in Accessed'
  BY AccessesKept, HostConstants DEF Types, AccessTypes, already_accessed
<1>2. SUFFICES ASSUME len' < MaxRecordedAccountAccesses
               PROVE  /\ \A i \in DOMAIN recorded_calls' :
                           recorded_calls'[i].recipient \in Accessed'
                      /\ \A a \in Address :
                           recorded_selfdestructs'[a] # <<>> => a \in Accessed'
  BY DEF RecordedActorsAreAccessed, already_accessed
<1>3. /\ len < MaxRecordedAccountAccesses
      /\ \A i \in DOMAIN recorded_calls : recorded_calls[i].recipient \in Accessed
      /\ \A a \in Address : recorded_selfdestructs[a] # <<>> => a \in Accessed
  BY <1>1, <1>2 DEF RecordedActorsAreAccessed, already_accessed
<1>4. \A addr \in Address : record_account_access(addr) => addr \in Accessed'
  BY <1>3, RecordAccess DEF Types
<1> HIDE DEF len, Accessed
<1>5. ASSUME NEW i \in DOMAIN recorded_calls'
      PROVE  recorded_calls'[i].recipient \in Accessed'
  <2>1. \A j \in DOMAIN recorded_calls : recorded_calls[j].recipient \in Address
    <3>1. recorded_calls \in Seq(RecordedCall)
      BY DEF Types, CallTypes
    <3>2. \A j \in DOMAIN recorded_calls : recorded_calls[j] \in RecordedCall
      BY <3>1
    <3>3. QED
      BY <3>2 DEF RecordedCall
  <2>2. CASE UNCHANGED callVars
    BY <2>1, <2>2, <1>1, <1>3 DEF callVars
  <2>3. ASSUME NEW addr \in Address, NEW size \in InputSize, call(addr, size)
        PROVE  recorded_calls'[i].recipient \in Accessed'
    <3>1. recorded_calls'[i].recipient = addr
          \/ (i \in DOMAIN recorded_calls /\ recorded_calls'[i] = recorded_calls[i])
      BY <2>3, RecordCall DEF Types
    <3>2. addr \in Accessed'
      BY <2>3, <1>4 DEF call
    <3>3. QED
      BY <3>1, <3>2, <2>1, <1>1, <1>3
  <2>4. QED
    BY <2>2, <2>3, RecordsOfAStep
<1>6. ASSUME NEW a \in Address, recorded_selfdestructs'[a] # <<>>
      PROVE  a \in Accessed'
  <2>1. CASE UNCHANGED recorded_selfdestructs
    BY <1>6, <2>1, <1>1, <1>3
  <2>2. ASSUME NEW addr \in Address, NEW beneficiary \in Address,
               selfdestruct(addr, beneficiary)
        PROVE  a \in Accessed'
    <3>1. addr \in Accessed'
      BY <2>2, <1>4 DEF selfdestruct
    <3>2. CASE a # addr
      <4>1. recorded_selfdestructs'[a] = recorded_selfdestructs[a]
        BY <2>2, <3>2 DEF selfdestruct, Types, LogTypes
      <4>2. QED
        BY <4>1, <1>1, <1>3, <1>6
    <3>3. QED
      BY <3>1, <3>2
  <2>3. QED
    BY <2>1, <2>2, RecordsOfAStep
<1>7. QED
  BY <1>5, <1>6
-----------------------------------------------------------------------------
LEMMA InitIInv == Init => IInv
<1> SUFFICES ASSUME Init PROVE IInv
  OBVIOUS
<1>1. AccountTypes
  BY ZeroIsValue DEF Init, AccountTypes, Slot
<1>2. AccessTypes
  BY HostConstants DEF Init, AccessTypes
<1>3. CallTypes
  BY HostConstants DEF Init, CallTypes
<1>4. LogTypes
  BY DEF Init, LogTypes
<1>5. AbsentIsNew
  BY DEF Init, AbsentIsNew
<1>6. RecordedInputsValid /\ RecordedActorsAreAccessed
  BY DEF Init, RecordedInputsValid, RecordedActorsAreAccessed
<1>7. QED
  BY <1>1, <1>2, <1>3, <1>4, <1>5, <1>6 DEF IInv, Types

LEMMA StepIInv == IInv /\ [Next]_vars => IInv'
<1> SUFFICES ASSUME IInv, [Next]_vars PROVE IInv'
  OBVIOUS
<1>1. AccountTypes' /\ AbsentIsNew'
  BY AccountsKept DEF IInv, Types
<1>2. AccessTypes'
  BY AccessesKept DEF IInv, Types
<1>3. CallTypes' /\ RecordedInputsValid'
  BY CallsKept DEF IInv, Types
<1>4. LogTypes'
  BY LogsKept DEF IInv, Types
<1>5. RecordedActorsAreAccessed'
  BY ActorsKept DEF IInv
<1>6. QED
  BY <1>1, <1>2, <1>3, <1>4, <1>5 DEF IInv, Types

LEMMA Invariant == Spec => []IInv
BY InitIInv, StepIInv, PTL DEF Spec

(* Type correctness, the caps of the records included.                     *)
THEOREM TypesOK == Spec => []TypeOK
<1>1. IInv => TypeOK
  <2> SUFFICES ASSUME IInv PROVE TypeOK
    OBVIOUS
  <2>1. code_size \in [Address -> Nat]
    <3>1. CodeSize \cup {0} \subseteq Nat /\ code_size \in [Address -> CodeSize \cup {0}]
      BY HostConstants DEF IInv, Types, AccountTypes
    <3>2. QED
      BY ONLY <3>1
  <2>2. QED
    BY <2>1 DEF IInv, Types, AccountTypes, AccessTypes, CallTypes, LogTypes, TypeOK, Slot,
                RecordedCall
<1>2. QED
  BY <1>1, Invariant, PTL

(* Recorded messages point to live copies of their inputs.                 *)
THEOREM RecordedInputs == Spec => []RecordedInputsValid
<1>1. IInv => RecordedInputsValid
  BY DEF IInv
<1>2. QED
  BY <1>1, Invariant, PTL

(* Until the record is full, all that was called was accessed.             *)
THEOREM RecordedActors == Spec => []RecordedActorsAreAccessed
<1>1. IInv => RecordedActorsAreAccessed
  BY DEF IInv
<1>2. QED
  BY <1>1, Invariant, PTL

(* No access is forgotten, and no slot turns cold again.                   *)
THEOREM StaysWarm == Spec => WarmStaysWarm
<1>1. IInv /\ [Next]_vars =>
        /\ \A a \in Address : already_accessed(a) => already_accessed(a)'
        /\ \A s \in Address \X Key :
             storage[s].access_status = WARM => storage'[s].access_status = WARM
  BY AccessesKept, AccountsKept DEF IInv, Types, Slot
<1>2. QED
  BY <1>1, Invariant, PTL DEF Spec, WarmStaysWarm
-----------------------------------------------------------------------------
LEMMA CopiedBytesInBounds ==
  ASSUME NEW len \in CodeSize \cup {0}, NEW offset \in Nat, NEW size \in Nat
  PROVE  LET copied == CopiedBytes(len, offset, size)
         IN  /\ copied \in Nat /\ copied <= size
             /\ copied > 0 => offset + copied <= len
             /\ copied < size => offset + copied >= len
<1>1. len \in Nat /\ len < SizeModulus /\ SizeModulus \in Nat
  BY HostConstants
<1>2. CASE offset >= len
  BY <1>1, <1>2 DEF CopiedBytes
<1>3. CASE offset < len
  <2>1. (len - offset) % SizeModulus = len - offset
    BY <1>1, <1>3
  <2>2. QED
    BY <1>1, <1>3, <2>1 DEF CopiedBytes
<1>4. QED
  BY <1>1, <1>2, <1>3

\* Only copy_code returns what copy_code returns.
LEMMA OtherResults ==
  ASSUME Next, ret'[1] = "copy_code"
  PROVE  \E addr \in Address, offset, size \in CopyRange : copy_code(addr, offset, size)
<1>r. \A method, result : Return(method, result) => ret'[1] = method
  BY DEF Return
<1>1. ASSUME NEW addr \in Address, AccountMethod(addr)
      PROVE  \E offset, size \in CopyRange : copy_code(addr, offset, size)
  <2>1. ~account_exists(addr) /\ ~get_code_size(addr) /\ ~access_account(addr) /\ ~emit_log(addr)
    BY <1>r DEF account_exists, get_code_size, access_account, emit_log, Return
  <2>2. ~get_balance(addr) /\ ~get_code_hash(addr)
    BY <1>r DEF get_balance, get_code_hash, get_account, Return
  <2>3. \A size \in InputSize : ~call(addr, size)
    BY DEF call, Return
  <2>4. \A beneficiary \in Address : ~selfdestruct(addr, beneficiary)
    BY DEF selfdestruct, Return
  <2>5. QED
    BY <1>1, <2>1, <2>2, <2>3, <2>4 DEF AccountMethod
<1>2. ASSUME NEW addr, NEW key, SlotMethod(addr, key) PROVE FALSE
  BY <1>2 DEF SlotMethod, get_storage, access_storage, get_transient_storage,
              set_transient_storage, Return
<1>3. ~SetStorage
  <2>1. ASSUME NEW addr, NEW key, NEW value, set_storage(addr, key, value) PROVE FALSE
    BY <2>1 DEF set_storage, Return
  <2>2. QED
    BY <2>1 DEF SetStorage
<1>4. ~get_block_hash /\ ~get_tx_context
  BY DEF get_block_hash, get_tx_context, Return
<1>5. QED
  BY <1>1, <1>2, <1>3, <1>4 DEF Next, OtherMethod

(* copy_code reads the code and writes the buffer, and copies all it can.  *)
THEOREM CopyCode == Spec => []CopyCodeInBounds
<1>1. Init => CopyCodeInBounds
  BY DEF Init, CopyCodeInBounds
<1>2. IInv /\ CopyCodeInBounds /\ [Next]_vars => CopyCodeInBounds'
  <2> SUFFICES ASSUME IInv, CopyCodeInBounds, [Next]_vars PROVE CopyCodeInBounds'
    OBVIOUS
  <2>1. ASSUME NEW addr \in Address, NEW offset \in CopyRange, NEW size \in CopyRange,
               copy_code(addr, offset, size)
        PROVE  CopyCodeInBounds'
    <3> DEFINE copied == IF addr \in accounts THEN CopiedBytes(code_size[addr], offset, size)
                         ELSE 0
    <3>1. /\ ret' = <<"copy_code", [addr |-> addr, offset |-> offset, buffer_size |-> size,
                                    copied |-> copied]>>
          /\ code_size' = code_size
      BY <2>1 DEF copy_code, Return, accountVars
    <3>2. /\ copied \in Nat /\ copied <= size
          /\ copied > 0 => offset + copied <= code_size[addr]
          /\ copied < size => offset + copied >= code_size[addr]
      <4>1. offset \in Nat /\ size \in Nat /\ code_size[addr] \in CodeSize \cup {0}
        BY HostConstants DEF IInv, Types, AccountTypes
      <4>2. CASE addr \in accounts
        BY <4>1, <4>2, CopiedBytesInBounds
      <4>3. CASE addr \notin accounts
        BY <4>1, <4>3 DEF IInv, AbsentIsNew
      <4>4. QED
        BY <4>2, <4>3
    <3> HIDE DEF copied
    <3>3. QED
      BY <3>1, <3>2 DEF CopyCodeInBounds
  <2>2. CASE UNCHANGED vars
    BY <2>2 DEF vars, accountVars, CopyCodeInBounds
  <2>3. CASE Next /\ ret'[1] # "copy_code"
    BY <2>3 DEF CopyCodeInBounds
  <2>4. QED
    BY <2>1, <2>2, <2>3, OtherResults
<1>3. QED
  BY <1>1, <1>2, Invariant, PTL DEF Spec
-----------------------------------------------------------------------------
(* Refinement: access statuses.                                            *)
warmAccounts == Precompile \cup Range(recorded_account_accesses)
warmSlots == {s \in Address \X Key : storage[s].access_status = WARM}
answer == CASE ret[1] = "access_account" ->
                 [subject |-> <<ret[2].addr>>, status |-> ret[2].status]
            [] ret[1] = "access_storage" ->
                 [subject |-> ret[2].slot, status |-> ret[2].status]
            [] OTHER -> [subject |-> <<>>, status |-> "none"]

\* What no other method than the two about accesses does.
Silent == /\ ret'[1] \notin {"access_account", "access_storage"}
          /\ \A s \in Slot : storage'[s].access_status = storage[s].access_status

LEMMA OthersAreSilent ==
  ASSUME AccountTypes, Next
  PROVE  \/ Silent
         \/ \E addr \in Address : access_account(addr)
         \/ \E addr \in Address, key \in Key : access_storage(addr, key)
<1>1. ASSUME NEW addr \in Address, AccountMethod(addr), ~access_account(addr) PROVE Silent
  <2>1. CASE account_exists(addr) \/ get_code_size(addr) \/ emit_log(addr)
    BY <2>1 DEF account_exists, get_code_size, emit_log, Return, accountVars, Silent
  <2>2. CASE get_balance(addr) \/ get_code_hash(addr)
    BY <2>2 DEF get_balance, get_code_hash, get_account, Return, accountVars, Silent
  <2>3. ASSUME NEW offset, NEW size, copy_code(addr, offset, size) PROVE Silent
    BY <2>3 DEF copy_code, Return, accountVars, Silent
  <2>4. ASSUME NEW size, call(addr, size) PROVE Silent
    BY <2>4 DEF call, Return, accountVars, Silent
  <2>5. ASSUME NEW beneficiary, selfdestruct(addr, beneficiary) PROVE Silent
    BY <2>5 DEF selfdestruct, Return, accountVars, Silent
  <2>6. QED
    BY <1>1, <2>1, <2>2, <2>3, <2>4, <2>5 DEF AccountMethod
<1>2. ASSUME NEW addr \in Address, NEW key \in Key, SlotMethod(addr, key),
             ~access_storage(addr, key)
      PROVE  Silent
  BY <1>2 DEF SlotMethod, get_storage, get_transient_storage, set_transient_storage, Return,
              accountVars, Silent
<1>3. ASSUME NEW addr \in Address, NEW key \in Key, NEW v \in Value, set_storage(addr, key, v)
      PROVE  Silent
  <2>1. PICK x \in StorageValue : x = [storage[<<addr, key>>] EXCEPT !.current = v]
    BY SlotStatus DEF Slot
  <2>2. storage' = [storage EXCEPT ![<<addr, key>>] = x]
    BY <1>3, <2>1, StorageWrite DEF set_storage
  <2>x. x.access_status = storage[<<addr, key>>].access_status
    BY <2>1, SlotStatus DEF Slot
  <2>3. \A s \in Slot : storage'[s].access_status = storage[s].access_status
    BY <2>2, <2>x DEF AccountTypes
  <2>4. ret'[1] = "set_storage"
    BY <1>3 DEF set_storage, Return
  <2>5. QED
    BY <2>3, <2>4 DEF Silent
<1>4. CASE get_block_hash \/ get_tx_context
  BY <1>4 DEF get_block_hash, get_tx_context, Return, accountVars, Silent
<1>5. QED
  BY <1>1, <1>2, <1>3, <1>4 DEF Next, SetStorage, OtherMethod

HasRoom == Len(recorded_account_accesses) < MaxRecordedAccountAccesses

\* With room, what is accessed is warm afterwards; without, the warm accounts stay as they are.
LEMMA WarmAfterRecording ==
  ASSUME AccessTypes, NEW addr \in Address, record_account_access(addr)
  PROVE  warmAccounts' = IF HasRoom THEN warmAccounts \cup {addr} ELSE warmAccounts
<1>1. CASE HasRoom
  BY <1>1, RecordAccess DEF HasRoom, warmAccounts
<1>2. CASE ~HasRoom
  BY <1>2 DEF HasRoom, record_account_access, warmAccounts
<1>3. QED
  BY <1>1, <1>2

LEMMA AccessesRefine ==
  ASSUME IInv, Next
  PROVE  \/ Accesses!Next
         \/ ~HasRoom /\ \E addr \in Address : Accesses!Forget(addr)
<1> DEFINE Goal == \/ Accesses!Next
                   \/ ~HasRoom /\ \E addr \in Address : Accesses!Forget(addr)
<1>t. AccountTypes /\ AccessTypes
  BY DEF IInv, Types
<1>1. ASSUME NEW addr \in Address, access_account(addr) PROVE Goal
  <2>1. warmAccounts' = IF HasRoom THEN warmAccounts \cup {addr} ELSE warmAccounts
    BY <1>1, <1>t, WarmAfterRecording DEF access_account
  <2>2. warmSlots' = warmSlots
    BY <1>1 DEF access_account, accountVars, warmSlots
  <2>3. answer' = [subject |-> <<addr>>, status |-> IF addr \in warmAccounts THEN "WARM" ELSE "COLD"]
    BY <1>1 DEF access_account, Return, answer, warmAccounts, already_accessed, WARM, COLD
  <2>4. CASE HasRoom \/ addr \in warmAccounts
    <3>1. warmAccounts' = warmAccounts \cup {addr}
      BY ONLY <2>1, <2>4
    <3>2. Accesses!AccessAccount(addr)
      BY <3>1, <2>2, <2>3
         DEF Accesses!AccessAccount, Accesses!Answer, warmAccounts, warmSlots, answer
    <3>3. QED
      BY <3>2 DEF Accesses!Next
  <2>5. CASE ~HasRoom /\ addr \notin warmAccounts
    <3>1. warmAccounts' = warmAccounts /\ answer' = [subject |-> <<addr>>, status |-> "COLD"]
      BY <2>1, <2>3, <2>5
    <3>2. Accesses!Forget(addr)
      BY <3>1, <2>2, <2>5
         DEF Accesses!Forget, Accesses!Answer, warmAccounts, warmSlots, answer
    <3>3. QED
      BY <3>2, <2>5
  <2>6. QED
    BY <2>4, <2>5
<1>2. ASSUME NEW addr \in Address, NEW key \in Key, access_storage(addr, key)
      PROVE  Accesses!Next
  <2> DEFINE slot == <<addr, key>>
  <2>1. PICK x \in StorageValue : x = [storage[slot] EXCEPT !.access_status = WARM]
    BY <1>t, SlotStatus DEF Slot
  <2>2. slot \in Slot /\ storage[slot] \in StorageValue /\ storage \in [Slot -> StorageValue]
    BY <1>t DEF AccountTypes, Slot
  <2>3. x.access_status = WARM
    BY ONLY <2>1, <2>2 DEF StorageValue
  <2>4. storage' = [storage EXCEPT ![slot] = x]
    BY <1>2, <1>t, <2>1, StorageWrite
  <2>5. warmSlots' = warmSlots \cup {slot}
    BY ONLY <2>2, <2>3, <2>4 DEF warmSlots, Slot
  <2>6. warmAccounts' = warmAccounts
    BY <1>2 DEF access_storage, warmAccounts
  <2>7. answer' = [subject |-> slot, status |-> IF slot \in warmSlots THEN "WARM" ELSE "COLD"]
    <3>1. storage[slot].access_status \in {"WARM", "COLD"}
      BY <2>2 DEF StorageValue, WARM, COLD
    <3>2. ret' = <<"access_storage", [slot |-> slot, status |-> storage[slot].access_status]>>
      BY <1>2 DEF access_storage, Return
    <3>3. answer' = [subject |-> slot, status |-> storage[slot].access_status]
      BY ONLY <3>2 DEF answer
    <3>4. QED
      BY <3>1, <3>3, <2>2 DEF warmSlots, WARM, Slot
  <2>8. PICK s \in Address \X Key : s = slot
    BY <2>2 DEF Slot
  <2>9. Accesses!AccessStorage(s)
    BY ONLY <2>5, <2>6, <2>7, <2>8
       DEF Accesses!AccessStorage, Accesses!Answer, warmAccounts, warmSlots, answer
  <2>10. QED
    BY <2>9 DEF Accesses!Next
<1>3. CASE Silent
  <2>1. answer' = [subject |-> <<>>, status |-> "none"]
    BY <1>3 DEF Silent, answer
  <2>2. warmSlots' = warmSlots
    BY <1>3 DEF Silent, warmSlots, Slot
  <2>3. PICK addr \in Address : warmAccounts' \in {warmAccounts, warmAccounts \cup {addr}}
    <3>1. CASE UNCHANGED recorded_account_accesses
      BY <3>1, HostConstants DEF warmAccounts
    <3>2. ASSUME NEW addr \in Address, record_account_access(addr)
          PROVE  warmAccounts' \in {warmAccounts, warmAccounts \cup {addr}}
      BY <3>2, <1>t, WarmAfterRecording
    <3>3. QED
      BY <3>1, <3>2, AccessesOfAStep
  <2>4. Accesses!OtherMethod(addr)
    BY <2>1, <2>2, <2>3
       DEF Accesses!OtherMethod, Accesses!NoAnswer, warmAccounts, warmSlots, answer
  <2>5. QED
    BY <2>4 DEF Accesses!Next
<1>4. QED
  BY <1>t, <1>1, <1>2, <1>3, OthersAreSilent

(* While the record of accesses has room, MockedHost implements AccessSet: *)
(* cold exactly on the first access.                                       *)
THEOREM AccessStatuses == Spec => AccessStatusExact
<1>1. IInv /\ [Next]_vars =>
        [Len(recorded_account_accesses) < MaxRecordedAccountAccesses => Accesses!Next]_vars
  BY AccessesRefine DEF HasRoom
<1>2. QED
  BY <1>1, Invariant, PTL DEF Spec, AccessStatusExact

(* Beyond its cap the record forgets accounts, and does no other harm to   *)
(* access statuses: MockedHost implements what is left of the promise.     *)
THEOREM AccessStatusesBeyondRecord == Spec => AccessStatusBeyondRecord
<1>1. Init => Accesses!Init
  <2> SUFFICES ASSUME Init PROVE Accesses!Init
    OBVIOUS
  <2>1. warmAccounts \subseteq Address
    <3>1. Range(<<>>) = {}
      BY DEF Range
    <3>2. QED
      BY <3>1, HostConstants DEF Init, warmAccounts
  <2>2. warmSlots \subseteq Address \X Key
    BY DEF warmSlots
  <2>3. answer = [subject |-> <<>>, status |-> "none"]
    BY DEF Init, answer
  <2>4. QED
    BY <2>1, <2>2, <2>3 DEF Accesses!Init, Accesses!NoAnswer, warmAccounts, warmSlots, answer
<1>2. IInv /\ [Next]_vars => [Accesses!LimitedNext]_<<warmAccounts, warmSlots, answer>>
  <2>1. IInv /\ Next => Accesses!LimitedNext
    BY AccessesRefine DEF Accesses!LimitedNext
  <2>2. UNCHANGED vars => UNCHANGED <<warmAccounts, warmSlots, answer>>
    BY DEF vars, accountVars, warmAccounts, warmSlots, answer
  <2>3. QED
    BY <2>1, <2>2
<1>3. QED
  BY <1>1, <1>2, Invariant, PTL
     DEF Spec, AccessStatusBeyondRecord, Accesses!LimitedSpec, warmAccounts, warmSlots, answer
-----------------------------------------------------------------------------
(* The storage status, and the gas charged by it.                          *)

\* The switch of set_storage, one label at a time.
LEMMA DirtyStatusTable ==
  /\ DirtyStatus(0) = "ASSIGNED"
  /\ DirtyStatus(1) = "DELETED_ADDED"
  /\ DirtyStatus(2) = "MODIFIED_DELETED"
  /\ DirtyStatus(4) = "ADDED_DELETED"
  /\ DirtyStatus(8) = "MODIFIED_RESTORED"
  /\ DirtyStatus(9) = "DELETED_RESTORED"
BY DEF DirtyStatus, RemoveClearsSchedule, AddClearsSchedule, RestoredBySet,
       RestoredByReset

\* The clauses a dirty slot that changes triggers.
LEMMA TriggeredTable ==
  ASSUME NEW o \in Value, NEW c \in Value, NEW v \in Value, c # v, o # c
  PROVE  TriggeredClauses(o, c, v) =
           IF o = Zero THEN (IF v = Zero THEN 4 ELSE 0)
           ELSE IF c = Zero THEN (IF o = v THEN 9 ELSE 1)
           ELSE IF v = Zero THEN 2
           ELSE IF o = v THEN 8 ELSE 0
BY DEF TriggeredClauses, Flag, RemoveClearsSchedule, AddClearsSchedule,
       RestoredBySet, RestoredByReset

\* The status of a write, by the values of the slot.
LEMMA StatusTable ==
  ASSUME NEW o \in Value, NEW c \in Value, NEW v \in Value
  PROVE  /\ c = v => StorageStatus(o, c, v) = "ASSIGNED"
         /\ c # v /\ o = c /\ o = Zero => StorageStatus(o, c, v) = "ADDED"
         /\ c # v /\ o = c /\ o # Zero /\ v = Zero => StorageStatus(o, c, v) = "DELETED"
         /\ c # v /\ o = c /\ o # Zero /\ v # Zero => StorageStatus(o, c, v) = "MODIFIED"
         /\ c # v /\ o # c /\ o = Zero /\ v = Zero => StorageStatus(o, c, v) = "ADDED_DELETED"
         /\ c # v /\ o # c /\ o = Zero /\ v # Zero => StorageStatus(o, c, v) = "ASSIGNED"
         /\ c # v /\ o # Zero /\ c = Zero /\ o = v => StorageStatus(o, c, v) = "DELETED_RESTORED"
         /\ c # v /\ o # Zero /\ c = Zero /\ o # v => StorageStatus(o, c, v) = "DELETED_ADDED"
         /\ c # Zero /\ o # c /\ o # Zero /\ v = Zero
              => StorageStatus(o, c, v) = "MODIFIED_DELETED"
         /\ c # v /\ o # c /\ o # Zero /\ c # Zero /\ o = v
              => StorageStatus(o, c, v) = "MODIFIED_RESTORED"
         /\ c # v /\ o # c /\ o # Zero /\ c # Zero /\ v # Zero /\ o # v
              => StorageStatus(o, c, v) = "ASSIGNED"
<1>1. CASE c = v
  BY <1>1 DEF StorageStatus
<1>2. CASE c # v /\ o = c
  BY <1>2 DEF StorageStatus, CleanStatus
<1>3. CASE c # v /\ o # c
  BY <1>3, TriggeredTable, DirtyStatusTable DEF StorageStatus
<1>4. QED
  BY <1>1, <1>2, <1>3

\* The table of docs/EVM_Storage_Change_Status.md, one checksum at a time.
LEMMA ChecksumTable ==
  /\ ChecksumStatus(1) = "ADDED"
  /\ ChecksumStatus(2) = "DELETED"
  /\ ChecksumStatus(3) = "MODIFIED"
  /\ ChecksumStatus(4) = "ASSIGNED"
  /\ ChecksumStatus(7) = "ASSIGNED"
  /\ ChecksumStatus(8) = "ASSIGNED"
  /\ ChecksumStatus(9) = "DELETED_ADDED"
  /\ ChecksumStatus(10) = "MODIFIED_DELETED"
  /\ ChecksumStatus(11) = "ASSIGNED"
  /\ ChecksumStatus(13) = "DELETED_RESTORED"
  /\ ChecksumStatus(14) = "ADDED_DELETED"
  /\ ChecksumStatus(15) = "MODIFIED_RESTORED"
BY DEF ChecksumStatus

(* The clause tree that set_storage follows and the four checks proposed   *)
(* in its comment compute the same status; neither the default branch of   *)
(* the switch nor a failing assertion is reachable.                        *)
THEOREM ClauseTreeIsChecksum ==
  ASSUME NEW o \in Value, NEW c \in Value, NEW v \in Value
  PROVE  /\ StorageStatus(o, c, v) = ChecksumStatus(Checksum(o, c, v))
         /\ StorageStatus(o, c, v) \in Status
         /\ StorageStatus(o, c, v) # AssertFailed
         /\ ClauseAssertions(o, c, v)
<1>1. Checksum(o, c, v) =
        IF o = c THEN IF c = v THEN (IF c = Zero THEN 4 ELSE 7)
                      ELSE IF c = Zero THEN 1 ELSE IF v = Zero THEN 2 ELSE 3
        ELSE IF o = v THEN IF c = Zero THEN 13 ELSE IF v = Zero THEN 14 ELSE 15
        ELSE IF c = Zero THEN (IF v = Zero THEN 8 ELSE 9)
             ELSE (IF v = Zero THEN 10 ELSE 11)
  BY DEF Checksum, Flag
<1>2. StorageStatus(o, c, v) = ChecksumStatus(Checksum(o, c, v))
  BY <1>1, StatusTable, ChecksumTable
<1>3. StorageStatus(o, c, v) \in Status
  BY StatusTable DEF Status
<1>4. AssertFailed \notin Status
  BY DEF AssertFailed, Status
<1>5. ClauseAssertions(o, c, v)
  BY DEF ClauseAssertions
<1>6. QED
  BY <1>2, <1>3, <1>4, <1>5

(* The status returned determines the gas effect of the clauses.           *)
THEOREM StatusGasIsClauseGas ==
  ASSUME NEW o \in Value, NEW c \in Value, NEW v \in Value
  PROVE  /\ StatusCost(StorageStatus(o, c, v)) = ClauseCost(o, c, v)
         /\ StatusRefund(StorageStatus(o, c, v)) = ClauseRefund(o, c, v)
<1>1. /\ StatusCost("ADDED") = SSet
      /\ StatusCost("DELETED") = SReset
      /\ StatusCost("MODIFIED") = SReset
      /\ \A s \in Status \ {"ADDED", "DELETED", "MODIFIED"} : StatusCost(s) = WarmAccess
  BY DEF StatusCost, Status
<1>2. StatusCost(StorageStatus(o, c, v)) = ClauseCost(o, c, v)
  BY <1>1, StatusTable DEF ClauseCost, Status
<1>3. /\ StatusRefund("DELETED") = SClear
      /\ StatusRefund("MODIFIED_DELETED") = SClear
      /\ StatusRefund("DELETED_ADDED") = - SClear
      /\ StatusRefund("DELETED_RESTORED") = SReset - WarmAccess - SClear
      /\ StatusRefund("ADDED_DELETED") = SSet - WarmAccess
      /\ StatusRefund("MODIFIED_RESTORED") = SReset - WarmAccess
      /\ StatusRefund("ADDED") = 0
      /\ StatusRefund("MODIFIED") = 0
      /\ StatusRefund("ASSIGNED") = 0
  BY DEF StatusRefund
<1>4. StatusRefund(StorageStatus(o, c, v)) = ClauseRefund(o, c, v)
  BY <1>3, StatusTable, GasSchedule DEF ClauseRefund, Flag
<1>5. QED
  BY <1>2, <1>4
-----------------------------------------------------------------------------
(* A transaction that writes.                                              *)

LedgerTypeOK ==
  /\ storage \in [Slots -> StorageValue]
  /\ excess \in [Slots -> Int]
  /\ refund \in [Slots -> Int]

GasInv == LedgerTypeOK /\ NetGasIsPathIndependent /\ RefundBacksDeletion

\* One write: what it adds to a slot's ledger is the difference of the prices.
LEMMA WriteMovesNetPrice ==
  ASSUME NEW o \in Value, NEW c \in Value, NEW v \in Value
  PROVE  /\ StatusCost(StorageStatus(o, c, v)) \in Int
         /\ StatusRefund(StorageStatus(o, c, v)) \in Int
         /\ StatusCost(StorageStatus(o, c, v)) - WarmAccess
              - StatusRefund(StorageStatus(o, c, v))
            = NetPrice(o, v) - NetPrice(o, c)
<1>1. /\ StatusCost(StorageStatus(o, c, v)) = ClauseCost(o, c, v)
      /\ StatusRefund(StorageStatus(o, c, v)) = ClauseRefund(o, c, v)
  BY StatusGasIsClauseGas
<1>2. ClauseCost(o, c, v) \in Int /\ ClauseRefund(o, c, v) \in Int
  BY GasSchedule DEF ClauseCost, ClauseRefund, Flag
<1>3. ClauseCost(o, c, v) - WarmAccess - ClauseRefund(o, c, v)
        = NetPrice(o, v) - NetPrice(o, c)
  BY GasSchedule DEF ClauseCost, ClauseRefund, Flag, NetPrice
<1>4. QED
  BY <1>1, <1>2, <1>3

\* One write never takes back more than a deletion of the slot has put in.
LEMMA WriteKeepsRefundBacked ==
  ASSUME NEW o \in Value, NEW c \in Value, NEW v \in Value, NEW r \in Int,
         r >= IF o # Zero /\ c = Zero THEN SClear ELSE 0
  PROVE  r + StatusRefund(StorageStatus(o, c, v))
           >= IF o # Zero /\ v = Zero THEN SClear ELSE 0
<1>1. StatusRefund(StorageStatus(o, c, v)) = ClauseRefund(o, c, v)
  BY StatusGasIsClauseGas
<1>2. QED
  BY <1>1, GasSchedule DEF ClauseRefund, Flag

\* No other method of the Host changes a value in storage.
LEMMA OtherMethodKeepsValues ==
  ASSUME storage \in [Slots -> StorageValue], OtherMethod
  PROVE  /\ storage' \in [Slots -> StorageValue]
         /\ \A s \in Slots : /\ storage'[s].original = storage[s].original
                             /\ storage'[s].current = storage[s].current
<1>1. ASSUME NEW addr \in Address, NEW key \in Key, access_storage(addr, key)
      PROVE  /\ storage' \in [Slots -> StorageValue]
             /\ \A s \in Slots : /\ storage'[s].original = storage[s].original
                                 /\ storage'[s].current = storage[s].current
  BY <1>1 DEF access_storage, StorageValue, Slots, WARM
<1>2. ASSUME ~ \E addr \in Address, key \in Key : access_storage(addr, key)
      PROVE  storage' = storage
  BY <1>2 DEF OtherMethod, AccountMethod, SlotMethod, account_exists, get_balance,
              get_code_hash, get_account, get_code_size, copy_code, get_storage,
              get_transient_storage, set_transient_storage, access_account, call,
              selfdestruct, emit_log, get_block_hash,
              get_tx_context, accountVars
<1>3. QED
  BY <1>1, <1>2

LEMMA InitGasInv == GasInit => GasInv
<1> SUFFICES ASSUME GasInit PROVE GasInv
  OBVIOUS
<1>1. LedgerTypeOK /\ \A s \in Slots : storage[s].current = storage[s].original
  BY DEF GasInit, Init, LedgerTypeOK, Slots
<1>2. NetGasIsPathIndependent
  BY <1>1 DEF GasInit, NetGasIsPathIndependent, NetPrice
<1>3. RefundBacksDeletion
  BY <1>1 DEF GasInit, RefundBacksDeletion
<1>4. QED
  BY <1>1, <1>2, <1>3 DEF GasInv

LEMMA SstoreGasInv ==
  ASSUME GasInv, NEW addr \in Address, NEW key \in Key, NEW value \in Value,
         sstore(addr, key, value)
  PROVE  GasInv'
<1> DEFINE t == <<addr, key>>
           o == storage[t].original
           c == storage[t].current
           status == StorageStatus(o, c, value)
<1>1. t \in Slots /\ o \in Value /\ c \in Value /\ storage[t] \in StorageValue
  BY DEF GasInv, LedgerTypeOK, Slots, StorageValue
<1>2. /\ storage' = [storage EXCEPT ![t].current = value]
      /\ excess' = [excess EXCEPT ![t] = @ + StatusCost(status) - WarmAccess]
      /\ refund' = [refund EXCEPT ![t] = @ + StatusRefund(status)]
  BY DEF sstore, set_storage, Return
<1>3. /\ storage'[t].original = o
      /\ storage'[t].current = value
      /\ excess'[t] = excess[t] + StatusCost(status) - WarmAccess
      /\ refund'[t] = refund[t] + StatusRefund(status)
      /\ \A s \in Slots \ {t} : /\ storage'[s] = storage[s]
                                /\ excess'[s] = excess[s]
                                /\ refund'[s] = refund[s]
  BY <1>1, <1>2 DEF GasInv, LedgerTypeOK, StorageValue
<1>4. /\ StatusCost(status) \in Int
      /\ StatusRefund(status) \in Int
      /\ StatusCost(status) - WarmAccess - StatusRefund(status)
           = NetPrice(o, value) - NetPrice(o, c)
  BY <1>1, WriteMovesNetPrice
<1>5. LedgerTypeOK'
  <2>1. [storage[t] EXCEPT !.current = value] \in StorageValue
    BY <1>1 DEF StorageValue
  <2>2. storage' \in [Slots -> StorageValue]
    BY <1>1, <1>2, <2>1 DEF GasInv, LedgerTypeOK
  <2> HIDE DEF t, status
  <2>3. excess' \in [Slots -> Int] /\ refund' \in [Slots -> Int]
    BY <1>1, <1>2, <1>4, GasSchedule DEF GasInv, LedgerTypeOK
  <2>4. QED
    BY <2>2, <2>3 DEF LedgerTypeOK
<1>6. NetGasIsPathIndependent'
  <2>1. ASSUME NEW s \in Slots
        PROVE  excess'[s] - refund'[s]
                 = NetPrice(storage'[s].original, storage'[s].current)
    <3>1. CASE s # t
      BY <3>1, <1>3 DEF GasInv, NetGasIsPathIndependent
    <3>2. CASE s = t
      <4>1. excess[t] - refund[t] = NetPrice(o, c)
        BY <1>1 DEF GasInv, NetGasIsPathIndependent
      <4>2. excess[t] \in Int /\ refund[t] \in Int /\ WarmAccess \in Int
        BY <1>1, GasSchedule DEF GasInv, LedgerTypeOK
      <4>3. NetPrice(o, c) \in Int /\ NetPrice(o, value) \in Int
        BY GasSchedule DEF NetPrice
      <4> HIDE DEF t, o, c, status
      <4>4. QED
        BY <3>2, <4>1, <4>2, <4>3, <1>3, <1>4
    <3>3. QED
      BY <3>1, <3>2
  <2>2. QED
    BY <2>1 DEF NetGasIsPathIndependent
<1>7. RefundBacksDeletion'
  <2>1. ASSUME NEW s \in Slots
        PROVE  refund'[s] >= IF storage'[s].original # Zero /\ storage'[s].current = Zero
                             THEN SClear ELSE 0
    <3>1. CASE s # t
      BY <3>1, <1>3 DEF GasInv, RefundBacksDeletion
    <3>2. CASE s = t
      <4>1. refund[t] >= IF o # Zero /\ c = Zero THEN SClear ELSE 0
        BY <1>1 DEF GasInv, RefundBacksDeletion
      <4>2. refund[t] \in Int
        BY <1>1 DEF GasInv, LedgerTypeOK
      <4> HIDE DEF t, o, c
      <4>3. refund[t] + StatusRefund(status)
              >= IF o # Zero /\ value = Zero THEN SClear ELSE 0
        BY <1>1, <4>1, <4>2, WriteKeepsRefundBacked
      <4>4. QED
        BY <3>2, <4>3, <1>3
    <3>3. QED
      BY <3>1, <3>2
  <2>2. QED
    BY <2>1 DEF RefundBacksDeletion
<1>8. QED
  BY <1>5, <1>6, <1>7 DEF GasInv

LEMMA NextGasInv == GasInv /\ [GasNext]_gasVars => GasInv'
<1> SUFFICES ASSUME GasInv, [GasNext]_gasVars PROVE GasInv'
  OBVIOUS
<1>1. ASSUME NEW addr \in Address, NEW key \in Key, NEW value \in Value,
             sstore(addr, key, value)
      PROVE  GasInv'
  BY <1>1, SstoreGasInv
<1>2. CASE OtherMethod /\ UNCHANGED <<excess, refund, stores>>
  <2>1. /\ storage' \in [Slots -> StorageValue]
        /\ \A s \in Slots : /\ storage'[s].original = storage[s].original
                            /\ storage'[s].current = storage[s].current
    BY <1>2, OtherMethodKeepsValues DEF GasInv, LedgerTypeOK
  <2>2. LedgerTypeOK'
    BY <2>1, <1>2 DEF GasInv, LedgerTypeOK
  <2>3. NetGasIsPathIndependent'
    BY <2>1, <1>2 DEF GasInv, NetGasIsPathIndependent
  <2>4. RefundBacksDeletion'
    BY <2>1, <1>2 DEF GasInv, RefundBacksDeletion
  <2>5. QED
    BY <2>2, <2>3, <2>4 DEF GasInv
<1>3. CASE UNCHANGED gasVars
  BY <1>3 DEF gasVars, vars, accountVars, GasInv, LedgerTypeOK,
              NetGasIsPathIndependent, RefundBacksDeletion
<1>4. QED
  BY <1>1, <1>2, <1>3 DEF GasNext

(* What a transaction has paid for a slot beyond warm accesses, less its   *)
(* refund, depends on the slot's original and current value only.          *)
THEOREM NetGas == GasSpec => []NetGasIsPathIndependent
<1>1. GasInv => NetGasIsPathIndependent
  BY DEF GasInv
<1>2. QED
  BY <1>1, InitGasInv, NextGasInv, PTL DEF GasSpec

(* No sequence of writes takes the refund of a slot below zero.            *)
THEOREM RefundCounter == GasSpec => []RefundNeverNegative
<1>1. GasInv => RefundNeverNegative
  BY GasSchedule DEF GasInv, LedgerTypeOK, RefundBacksDeletion, RefundNeverNegative
<1>2. QED
  BY <1>1, InitGasInv, NextGasInv, PTL DEF GasSpec

LEMMA SlotValues ==
  ASSUME GasInv, NEW s \in Slots
  PROVE  storage[s].original \in Value /\ storage[s].current \in Value
BY DEF GasInv, LedgerTypeOK, StorageValue

(* In every reachable slot, whatever is written next, a VM that sees the   *)
(* status only charges and refunds what the clauses say.                   *)
THEOREM StatusesSuffice == GasSpec => []StatusDeterminesGas
<1>1. GasInv => StatusDeterminesGas
  BY SlotValues, StatusGasIsClauseGas DEF StatusDeterminesGas
<1>2. QED
  BY <1>1, InitGasInv, NextGasInv, PTL DEF GasSpec

(* In every reachable slot the clause tree and the documented checksum     *)
(* give one status, and no assertion fails.                                *)
THEOREM ChecksumImplementation == GasSpec => []StatusIsChecksum
<1>1. GasInv => StatusIsChecksum
  BY SlotValues, ClauseTreeIsChecksum DEF StatusIsChecksum
<1>2. QED
  BY <1>1, InitGasInv, NextGasInv, PTL DEF GasSpec
=============================================================================
