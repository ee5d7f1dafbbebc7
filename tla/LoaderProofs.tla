---------------------------- MODULE LoaderProofs -----------------------------
(* The loader keeps its promises for every set of options and any number   *)
(* of calls, whatever the dynamic linker and the modules answer.           *)
EXTENDS Loader, SequenceTheorems, TLAPS

\* What the calls in progress have done so far.
InProgress ==
  /\ vms \in [DOMAIN vms -> Seq(Option)]
  /\ request.options \in Options
  /\ request.function # "configure" => request.options = <<>>
  /\ pc # "idle" => calls # 0 /\ calls \notin owned
  /\ pc \in {"copy config", "load"} => calls \notin handles
  /\ pc \in {"copy config", "configure"} => request.function = "configure"
  /\ pc = "create" => request.function # "load"
  /\ pc \in {"create", "configure"} => last_error_msg = "NULL"
  /\ pc \in {"copy config", "load", "create"} => options = request.options
  /\ pc = "configure" => vms[calls] \o options = request.options

IInv == TypeOK /\ NoVMLeaks /\ MessageIsCurrent /\ FailedLoadCloses /\ InProgress

LEMMA OptionsAreSeqs == <<>> \in Options /\ Options \subseteq Seq(Option)
<1>1. Options = UNION {[1..n -> Option] : n \in 0..MaxOptions}
  BY DEF Options, Promise!Options
<1>2. <<>> \in [1..0 -> Option] /\ 0 \in 0..MaxOptions
  BY LoaderBounds
<1>3. ASSUME NEW n \in 0..MaxOptions PROVE [1..n -> Option] \subseteq Seq(Option)
  BY LoaderBounds
<1>4. QED
  BY <1>1, <1>2, <1>3

LEMMA InitIInv == Init => IInv
<1> SUFFICES ASSUME Init PROVE IInv
  OBVIOUS
<1>1. TypeOK
  BY DEF Init, TypeOK, Function, FileName
<1>2. NoVMLeaks /\ MessageIsCurrent
  BY DEF Init, NoVMLeaks, MessageIsCurrent
<1>3. FailedLoadCloses
  BY DEF Init, FailedLoadCloses
<1>4. InProgress
  BY OptionsAreSeqs DEF Init, InProgress
<1>5. QED
  BY <1>1, <1>2, <1>3, <1>4 DEF IInv

\* A message that is announced after set_error is that of the present call.
LEMMA SetError ==
  ASSUME IInv, NEW fits \in BOOLEAN,
         \/ set_error("NULL", fits)
         \/ set_error(last_error_msg, fits) /\ (fits \/ last_error_msg = "NULL")
  PROVE  /\ last_error_msg' \in {"NULL", "buffer"}
         /\ last_error_msg_buffer' \in Nat
         /\ last_error_msg' # "NULL" => Text' = calls
<1>1. calls \in Nat /\ 0 \in Nat
  BY DEF IInv, TypeOK
<1>2. CASE fits
  BY <1>1, <1>2 DEF set_error, Text
<1>3. CASE ~fits
  BY <1>1, <1>3 DEF set_error, Text
<1>4. QED
  BY <1>2, <1>3

\* A call that fails leaves the VMs of the client as they are.
LEMMA FailKeeps ==
  ASSUME IInv, NEW ec, pc # "idle", Fail(ec),
         last_error_msg' \in {"NULL", "buffer", "dlerror"},
         last_error_msg_buffer' \in Nat, dlerror_buffer' \in Nat,
         last_error_msg' # "NULL" => Text' = calls,
         pc = "load" \/ request.function # "load",
         handles' = handles,
         vms' = [v \in owned |-> vms[v]]
  PROVE  IInv'
<1>1. TypeOK'
  <2>1. /\ pc' = "idle" /\ unread' = calls
        /\ UNCHANGED <<owned, request, options, calls>>
    BY DEF Fail
  <2>2. /\ calls \in Nat /\ unread' \in 0..calls'
        /\ handles' \subseteq 1..calls'
        /\ owned' = DOMAIN vms' /\ owned' \subseteq 1..calls'
        /\ \A v \in DOMAIN vms' : vms'[v] \in Seq(Option)
    <3>1. /\ calls \in Nat /\ handles \subseteq 1..calls /\ owned \subseteq DOMAIN vms
          /\ DOMAIN vms \subseteq 1..calls /\ \A v \in DOMAIN vms : vms[v] \in Seq(Option)
      BY DEF IInv, TypeOK
    <3>2. calls \in 0..calls
      BY ONLY <3>1
    <3>3. DOMAIN vms' = owned /\ \A v \in owned : vms'[v] = vms[v]
      OBVIOUS
    <3>4. QED
      BY ONLY <2>1, <3>1, <3>2, <3>3, handles' = handles
  <2>3. QED
    BY <2>1, <2>2 DEF IInv, TypeOK
<1>2. NoVMLeaks'
  BY DEF NoVMLeaks, Fail
<1>3. MessageIsCurrent'
  BY DEF MessageIsCurrent, Fail
<1>4. FailedLoadCloses'
  BY DEF IInv, InProgress, FailedLoadCloses, Fail
<1>5. InProgress'
  BY DEF IInv, TypeOK, InProgress, Fail
<1>6. QED
  BY <1>1, <1>2, <1>3, <1>4, <1>5 DEF IInv

\* Without the VM being configured, the VMs are those of the client.
LEMMA ClientsVMs ==
  ASSUME IInv
  PROVE  /\ pc # "configure" => vms = [v \in owned |-> vms[v]]
         /\ RemoveVM(calls) /\ pc = "configure" => vms' = [v \in owned |-> vms[v]]
BY DEF IInv, NoVMLeaks, InProgress, RemoveVM

LEMMA LongerIntervals ==
  \A n \in Nat : 1..n \subseteq 1..(n + 1) /\ 0..n \subseteq 0..(n + 1) /\ n + 1 \in Nat
OBVIOUS

LEMMA CallKeeps ==
  ASSUME IInv, NEW function \in Function, NEW filename \in FileName, NEW opts \in Options,
         Call(function, filename, opts)
  PROVE  IInv'
<1> USE DEF Call, messageVars, clientVars
<1>a. /\ pc = "idle" /\ pc' \in {"copy config", "load"} /\ calls' = calls + 1
      /\ request' = [function |-> function, filename |-> filename, options |-> opts]
      /\ UNCHANGED <<last_error_msg, last_error_msg_buffer, dlerror_buffer, handles, vms,
                     owned, unread>>
      /\ options' = opts
  OBVIOUS
<1>1. TypeOK'
  <2>1. opts \in Seq(Option)
    BY OptionsAreSeqs
  <2>2. request' \in [function : Function, filename : FileName, options : Seq(Option)]
    BY ONLY <1>a, <2>1, function \in Function, filename \in FileName
  <2>3. /\ calls \in Nat /\ calls' \in Nat /\ 1..calls \subseteq 1..calls'
        /\ 0..calls \subseteq 0..calls'
    <3>1. calls \in Nat /\ calls' = calls + 1
      BY <1>a DEF IInv, TypeOK
    <3>2. QED
      BY ONLY <3>1, LongerIntervals
  <2> HIDE DEF Call
  <2>4. QED
    BY <1>a, <2>1, <2>2, <2>3 DEF IInv, TypeOK
<1>2. NoVMLeaks'
  BY DEF IInv, NoVMLeaks
<1>3. MessageIsCurrent' /\ FailedLoadCloses'
  BY DEF MessageIsCurrent, FailedLoadCloses
<1>4. InProgress'
  <2>1. calls + 1 # 0 /\ calls + 1 \notin owned /\ calls + 1 \notin handles
    <3>1. calls \in Nat /\ handles \subseteq 1..calls /\ owned \subseteq 1..calls
      BY DEF IInv, TypeOK
    <3>2. calls + 1 # 0 /\ calls + 1 \notin 1..calls
      BY ONLY <3>1
    <3>3. QED
      BY ONLY <3>1, <3>2
  <2>2. QED
    BY <2>1 DEF IInv, TypeOK, InProgress
<1>5. QED
  BY <1>1, <1>2, <1>3, <1>4 DEF IInv

LEMMA LoadKeeps == ASSUME IInv, Load PROVE IInv'
<1>f. ASSUME NEW ec, pc = "load", Fail(ec), UNCHANGED <<handles, vms>>,
             last_error_msg' \in {"NULL", "buffer", "dlerror"},
             last_error_msg_buffer' \in Nat, dlerror_buffer' \in Nat,
             last_error_msg' # "NULL" => Text' = calls
      PROVE  IInv'
  <2>1. vms' = [v \in owned |-> vms[v]]
    BY <1>f, ClientsVMs
  <2>2. QED
    BY <1>f, <2>1, FailKeeps
<1>1. CASE LoadInvalid
  BY <1>1, <1>f, SetError DEF LoadInvalid, ResetMsg, IInv, TypeOK
<1>2. ASSUME NEW fits \in BOOLEAN, OpenFails(fits) PROVE IInv'
  <2>1. CASE last_error_msg' = "dlerror" /\ dlerror_buffer' = calls /\ UNCHANGED last_error_msg_buffer
    BY <1>2, <2>1, <1>f DEF OpenFails, Text, IInv, TypeOK
  <2>2. CASE set_error(ResetMsg, fits) /\ dlerror_buffer' = OverwrittenByLinker
    BY <1>2, <2>2, <1>f, SetError DEF OpenFails, ResetMsg, OverwrittenByLinker
  <2>3. QED
    BY <1>2, <2>1, <2>2 DEF OpenFails
<1>3. ASSUME NEW fits \in BOOLEAN, SymbolNotFound(fits) PROVE IInv'
  BY <1>3, <1>f, SetError DEF SymbolNotFound, ResetMsg, OverwrittenByLinker
<1>4. CASE SymbolFound
  <2>1. /\ pc = "load" /\ last_error_msg' = "NULL" /\ dlerror_buffer' = 0
        /\ handles' = handles \cup {calls} /\ owned' = owned
        /\ UNCHANGED <<last_error_msg_buffer, vms, request, options, calls>>
        /\ unread' \in {0, unread}
        /\ \/ /\ request.function = "load" /\ pc' = "idle"
              /\ outcome' = Promise!Signal("SUCCESS", request.options)
           \/ request.function # "load" /\ pc' = "create" /\ outcome' = outcome
    BY <1>4 DEF SymbolFound, Succeed, Continue, clientVars, ResetMsg, OverwrittenByLinker
  <2>2. TypeOK'
    <3>1. calls \in 1..calls
      BY <2>1 DEF IInv, TypeOK, InProgress
    <3>2. /\ handles' \subseteq 1..calls' /\ unread' \in 0..calls' /\ dlerror_buffer' \in Nat
          /\ pc' \in {"idle", "create"} /\ options' \in Seq(Option)
      <4>1. unread \in 0..calls /\ 0 \in 0..calls /\ handles \subseteq 1..calls
        <5>1. calls \in Nat /\ unread \in 0..calls /\ handles \subseteq 1..calls
          BY DEF IInv, TypeOK
        <5>2. QED
          BY ONLY <5>1
      <4>2. options' = options
        BY <1>4 DEF SymbolFound, Succeed, Continue
      <4>3. QED
        BY <2>1, <3>1, <4>1, <4>2 DEF IInv, TypeOK
    <3>3. QED
      BY <2>1, <3>2 DEF IInv, TypeOK
  <2>3. NoVMLeaks' /\ MessageIsCurrent'
    BY <2>1 DEF IInv, NoVMLeaks, MessageIsCurrent
  <2>4. FailedLoadCloses'
    BY <2>1 DEF FailedLoadCloses, Promise!Signal, Promise!Error
  <2>5. InProgress'
    BY <2>1 DEF IInv, InProgress
  <2>6. QED
    BY <2>2, <2>3, <2>4, <2>5 DEF IInv
<1>5. QED
  BY <1>1, <1>2, <1>3, <1>4 DEF Load

LEMMA CreateKeeps == ASSUME IInv, Create PROVE IInv'
<1>1. ASSUME NEW fits \in BOOLEAN, CreateFails(fits) \/ AbiMismatch(fits) PROVE IInv'
  <2>1. PICK ec : /\ pc = "create" /\ set_error(last_error_msg, fits) /\ Fail(ec)
                  /\ UNCHANGED <<dlerror_buffer, handles, vms>>
    BY <1>1 DEF CreateFails, AbiMismatch
  <2>2. last_error_msg = "NULL" /\ request.function # "load" /\ dlerror_buffer \in Nat
    BY <2>1 DEF IInv, InProgress, TypeOK
  <2>3. vms' = [v \in owned |-> vms[v]]
    BY <2>1, ClientsVMs
  <2>4. QED
    BY <2>1, <2>2, <2>3, SetError, FailKeeps
<1>2. CASE CreateSucceeds
  <2>1. /\ pc = "create" /\ AddVM(calls)
        /\ UNCHANGED <<last_error_msg, last_error_msg_buffer, dlerror_buffer, handles,
                       request, options, calls>>
        /\ \/ /\ request.function = "create" /\ pc' = "idle" /\ owned' = owned \cup {calls}
              /\ outcome' = Promise!Signal("SUCCESS", request.options) /\ unread' = 0
           \/ /\ request.function # "create" /\ pc' = "configure" /\ UNCHANGED clientVars
    BY <1>2 DEF CreateSucceeds, Succeed, Continue, messageVars, clientVars
  <2>2. /\ calls \in 1..calls /\ calls \notin DOMAIN vms /\ DOMAIN vms = owned
        /\ calls \notin owned /\ last_error_msg = "NULL"
        /\ request.function # "load" /\ options = request.options
    BY <2>1 DEF IInv, TypeOK, InProgress, NoVMLeaks
  <2>3. /\ vms' = [w \in owned \cup {calls} |-> IF w = calls THEN <<>> ELSE vms[w]]
        /\ vms'[calls] = <<>> /\ \A w \in owned : vms'[w] = vms[w]
        /\ vms' \in [DOMAIN vms' -> Seq(Option)] /\ DOMAIN vms' = owned \cup {calls}
    BY <2>1, <2>2 DEF AddVM, IInv, TypeOK
  <2>4. TypeOK'
    <3>1. /\ owned' \in {owned, owned \cup {calls}} /\ unread' \in {0, unread}
          /\ pc' \in {"idle", "configure"}
      BY <2>1 DEF clientVars
    <3>2. /\ DOMAIN vms' \subseteq 1..calls' /\ owned' \subseteq DOMAIN vms'
          /\ \A v \in DOMAIN vms' : vms'[v] \in Seq(Option)
          /\ unread' \in 0..calls'
      BY <2>1, <2>2, <2>3, <3>1 DEF IInv, TypeOK
    <3>3. QED
      BY <2>1, <3>1, <3>2 DEF IInv, TypeOK
  <2>5. NoVMLeaks'
    BY <2>1, <2>2, <2>3 DEF NoVMLeaks, clientVars
  <2>6. MessageIsCurrent' /\ FailedLoadCloses'
    BY <2>1, <2>2 DEF MessageIsCurrent, FailedLoadCloses
  <2>7. InProgress'
    <3>1. request.function = "create" \/ request.function = "configure"
      BY <2>2 DEF IInv, TypeOK, Function
    <3>2. vms'[calls] \o options = options
      BY <2>3, ConcatEmptySeq DEF IInv, TypeOK
    <3>3. QED
      BY <2>1, <2>2, <2>3, <3>1, <3>2 DEF IInv, InProgress, clientVars
  <2>8. QED
    BY <2>4, <2>5, <2>6, <2>7 DEF IInv
<1>3. QED
  BY <1>1, <1>2 DEF Create

\* Moving an option from the rest to what is applied leaves the two together as they were.
LEMMA MoveHead ==
  ASSUME NEW done \in Seq(Option), NEW rest \in Seq(Option), rest # <<>>
  PROVE  /\ Append(done, Head(rest)) \in Seq(Option) /\ Tail(rest) \in Seq(Option)
         /\ Append(done, Head(rest)) \o Tail(rest) = done \o rest
<1>1. Head(rest) \in Option /\ Tail(rest) \in Seq(Option) /\ <<Head(rest)>> \in Seq(Option)
  BY HeadTailProperties
<1>2. Append(done, Head(rest)) = done \o <<Head(rest)>>
  BY <1>1, AppendIsConcat
<1>3. <<Head(rest)>> \o Tail(rest) = rest
  BY <1>1
<1>4. (done \o <<Head(rest)>>) \o Tail(rest) = done \o (<<Head(rest)>> \o Tail(rest))
  BY ONLY <1>1, ConcatAssociative, done \in Seq(Option)
<1>5. QED
  BY <1>1, <1>2, <1>3, <1>4

LEMMA ConfigureKeeps == ASSUME IInv, Configure PROVE IInv'
<1>1. CASE CopyConfig
  <2>1. CASE request.filename = "too long"
    <3>1. /\ pc = "copy config" /\ set_error(last_error_msg, TRUE) /\ Fail("INVALID_ARGUMENT")
          /\ UNCHANGED <<dlerror_buffer, handles, vms>>
      BY <1>1, <2>1 DEF CopyConfig
    <3>2. request.function # "load" /\ dlerror_buffer \in Nat
      BY <3>1 DEF IInv, InProgress, TypeOK
    <3>3. vms' = [v \in owned |-> vms[v]]
      BY <3>1, ClientsVMs
    <3>4. QED
      BY <3>1, <3>2, <3>3, SetError, FailKeeps
  <2>2. CASE request.filename # "too long"
    <3>1. /\ pc = "copy config" /\ pc' = "load"
          /\ UNCHANGED <<last_error_msg, last_error_msg_buffer, options, request, calls,
                         owned, outcome, unread, dlerror_buffer, handles, vms>>
      BY <1>1, <2>2 DEF CopyConfig, Continue, clientVars
    <3>2. QED
      BY <3>1 DEF IInv, TypeOK, NoVMLeaks, MessageIsCurrent, FailedLoadCloses, InProgress, Text
  <2>3. QED
    BY <2>1, <2>2
<1>2. ASSUME NEW ec \in Promise!Error, NEW fits \in BOOLEAN, SetOptionFails(ec, fits)
      PROVE  IInv'
  <2>1. /\ pc = "configure" /\ set_error(last_error_msg, fits) /\ Fail(ec) /\ RemoveVM(calls)
        /\ UNCHANGED <<dlerror_buffer, handles>>
    BY <1>2 DEF SetOptionFails
  <2>2. last_error_msg = "NULL" /\ request.function # "load" /\ dlerror_buffer \in Nat
    BY <2>1 DEF IInv, InProgress, TypeOK
  <2>3. QED
    BY <2>1, <2>2, ClientsVMs, SetError, FailKeeps
<1>3. CASE SetOption
  <2>1. /\ pc = "configure" /\ options # <<>> /\ pc' = "configure"
        /\ vms' = [vms EXCEPT ![calls] = Append(vms[calls], Head(options))]
        /\ options' = Tail(options)
        /\ UNCHANGED <<last_error_msg, last_error_msg_buffer, dlerror_buffer, handles,
                       request, calls, owned, outcome, unread>>
    BY <1>3 DEF SetOption, Continue, messageVars, clientVars
  <2>2. calls \in DOMAIN vms /\ vms[calls] \in Seq(Option) /\ options \in Seq(Option)
    BY <2>1 DEF IInv, TypeOK, NoVMLeaks
  <2>3. /\ Append(vms[calls], Head(options)) \in Seq(Option) /\ options' \in Seq(Option)
        /\ Append(vms[calls], Head(options)) \o options' = vms[calls] \o options
    BY <2>1, <2>2, MoveHead
  <2>4. /\ vms' \in [DOMAIN vms' -> Seq(Option)] /\ DOMAIN vms' = DOMAIN vms
        /\ vms'[calls] \o options' = vms[calls] \o options
        /\ \A v \in DOMAIN vms' : vms'[v] \in Seq(Option)
    BY <2>1, <2>2, <2>3 DEF IInv, InProgress
  <2> HIDE DEF IInv
  <2>5. TypeOK'
    BY <2>1, <2>3, <2>4 DEF IInv, TypeOK
  <2>6. NoVMLeaks' /\ MessageIsCurrent' /\ FailedLoadCloses'
    BY <2>1, <2>4 DEF IInv, NoVMLeaks, MessageIsCurrent, FailedLoadCloses
  <2>7. InProgress'
    BY <2>1, <2>4 DEF IInv, InProgress
  <2>8. QED
    BY <2>5, <2>6, <2>7 DEF IInv
<1>4. CASE Configured
  <2>1. /\ pc = "configure" /\ pc' = "idle" /\ owned' = owned \cup {calls} /\ unread' = 0
        /\ outcome' = Promise!Signal("SUCCESS", request.options)
        /\ UNCHANGED <<last_error_msg, last_error_msg_buffer, dlerror_buffer, handles, vms,
                       request, options, calls>>
    BY <1>4 DEF Configured, Succeed, messageVars
  <2>2. QED
    BY <2>1 DEF IInv, TypeOK, NoVMLeaks, MessageIsCurrent, FailedLoadCloses, InProgress
<1>5. QED
  BY <1>1, <1>2, <1>3, <1>4 DEF Configure

LEMMA ClientKeeps ==
  ASSUME IInv, evmc_last_error_msg \/ \E v \in owned : evmc_destroy(v)
  PROVE  IInv'
<1>1. CASE evmc_last_error_msg
  BY <1>1 DEF evmc_last_error_msg, IInv, TypeOK, NoVMLeaks, MessageIsCurrent,
              FailedLoadCloses, InProgress, Promise!Message, Promise!Error
<1>2. ASSUME NEW v \in owned, evmc_destroy(v) PROVE IInv'
  <2>1. /\ pc = "idle" /\ vms' = [w \in DOMAIN vms \ {v} |-> vms[w]] /\ owned' = owned \ {v}
        /\ outcome' = Promise!Nothing
        /\ UNCHANGED <<last_error_msg, last_error_msg_buffer, dlerror_buffer, handles, pc,
                       request, options, calls, unread>>
    BY <1>2 DEF evmc_destroy, RemoveVM, messageVars
  <2>2. TypeOK'
    BY <2>1 DEF IInv, TypeOK
  <2>3. NoVMLeaks' /\ MessageIsCurrent'
    BY <2>1 DEF IInv, NoVMLeaks, MessageIsCurrent, Text
  <2>4. FailedLoadCloses'
    BY <2>1 DEF FailedLoadCloses, Promise!Nothing, Promise!Signal, Promise!Error
  <2>5. InProgress'
    BY <2>1 DEF IInv, InProgress, TypeOK
  <2>6. QED
    BY <2>2, <2>3, <2>4, <2>5 DEF IInv
<1>3. QED
  BY <1>1, <1>2

LEMMA StutterKeeps == ASSUME IInv, UNCHANGED vars PROVE IInv'
BY DEF IInv, vars, messageVars, clientVars, TypeOK, NoVMLeaks, MessageIsCurrent,
       FailedLoadCloses, InProgress, Text

LEMMA Invariant == Spec => []IInv
<1>1. IInv /\ [Next]_vars => IInv'
  BY CallKeeps, LoadKeeps, CreateKeeps, ConfigureKeeps, ClientKeeps, StutterKeeps DEF Next
<1>2. QED
  BY <1>1, InitIInv, PTL DEF Spec

(* The VMs alive are those the client has, and at most the one being       *)
(* configured, whichever step of a loading function fails.                 *)
THEOREM NoLeaks == Spec => []NoVMLeaks
<1>1. IInv => NoVMLeaks
  BY DEF IInv
<1>2. QED
  BY <1>1, Invariant, PTL

(* What evmc_last_error_msg returns is the whole text of the last error.   *)
THEOREM Messages == Spec => []MessageIsCurrent
<1>1. IInv => MessageIsCurrent
  BY DEF IInv
<1>2. QED
  BY <1>1, Invariant, PTL

(* A failing evmc_load leaves no module open.                              *)
THEOREM ModulesClosed == Spec => []FailedLoadCloses
<1>1. IInv => FailedLoadCloses
  BY DEF IInv
<1>2. QED
  BY <1>1, Invariant, PTL

(* Type correctness of the loader.                                         *)
THEOREM Types == Spec => []TypeOK
<1>1. IInv => TypeOK
  BY DEF IInv
<1>2. QED
  BY <1>1, Invariant, PTL
-----------------------------------------------------------------------------
(* Refinement: what a client sees of a step.                               *)
returnedCalls == IF pc = "idle" THEN calls ELSE calls - 1
clientVMs == [v \in owned |-> vms[v]]

LEMMA FailRefines ==
  ASSUME IInv, IInv', NEW ec \in Promise!Error, pc # "idle", Fail(ec),
         vms' = [v \in owned |-> vms[v]]
  PROVE  Promise!Next
<1>1. PICK opts \in Promise!Options : opts = request.options
  BY DEF IInv, InProgress, Options
<1>2. returnedCalls' = returnedCalls + 1 /\ unread' = returnedCalls'
  <2>1. calls \in Nat /\ calls # 0
    BY DEF IInv, TypeOK, InProgress
  <2>2. returnedCalls = calls - 1 /\ returnedCalls' = calls /\ unread' = calls
    BY DEF Fail, returnedCalls
  <2>3. QED
    BY ONLY <2>1, <2>2
<1>3. clientVMs' = clientVMs
  BY DEF Fail, clientVMs
<1>4. Promise!Failed(ec, opts)
  BY <1>1, <1>2, <1>3 DEF Promise!Failed, Fail, returnedCalls, clientVMs
<1>5. QED
  BY <1>4 DEF Promise!Next

LEMMA LoadRefines ==
  ASSUME IInv, IInv', Load
  PROVE  Promise!Next \/ UNCHANGED <<returnedCalls, clientVMs, outcome, unread>>
<1>1. ASSUME NEW ec \in Promise!Error, pc = "load", Fail(ec), UNCHANGED vms
      PROVE  Promise!Next
  BY <1>1, ClientsVMs, FailRefines
<1>2. CASE SymbolFound
  <2>1. CASE request.function = "load"
    <3>1. /\ pc = "load" /\ pc' = "idle" /\ calls' = calls /\ unread' = 0
          /\ owned' = owned /\ vms' = vms
          /\ outcome' = Promise!Signal("SUCCESS", request.options)
      BY <1>2, <2>1 DEF SymbolFound, Succeed
    <3>2. request.options = <<>> /\ calls \in Nat
      BY <2>1 DEF IInv, InProgress, TypeOK
    <3>3. returnedCalls' = returnedCalls + 1 /\ clientVMs' = clientVMs
      <4>1. returnedCalls = calls - 1 /\ returnedCalls' = calls
        BY <3>1 DEF returnedCalls
      <4>2. returnedCalls' = returnedCalls + 1
        BY ONLY <3>2, <4>1
      <4>3. QED
        BY <3>1, <4>2 DEF clientVMs
    <3>4. Promise!Loaded
      BY <3>1, <3>2, <3>3 DEF Promise!Loaded, returnedCalls, clientVMs
    <3>5. QED
      BY <3>4 DEF Promise!Next
  <2>2. CASE request.function # "load"
    BY <1>2, <2>2 DEF SymbolFound, Continue, clientVars, returnedCalls, clientVMs
  <2>3. QED
    BY <2>1, <2>2
<1>3. QED
  BY <1>1, <1>2 DEF Load, LoadInvalid, OpenFails, SymbolNotFound, Promise!Error

\* A function hands the client a VM with the options asked for.
LEMMA HandOverRefines ==
  ASSUME IInv, IInv', pc # "idle", Succeed, owned' = owned \cup {calls},
         vms'[calls] = request.options, \A v \in owned : vms'[v] = vms[v]
  PROVE  Promise!Next
<1>1. PICK opts \in Promise!Options : opts = request.options
  BY DEF IInv, InProgress, Options
<1>c. calls \in Nat /\ calls \notin owned
  BY DEF IInv, InProgress, TypeOK
<1>2. /\ pc' = "idle" /\ calls' = calls /\ unread' = 0
      /\ outcome' = Promise!Signal("SUCCESS", request.options)
  BY DEF Succeed
<1>3. returnedCalls' = returnedCalls + 1 /\ returnedCalls' = calls
  <2>1. returnedCalls = calls - 1 /\ returnedCalls' = calls
    BY <1>2 DEF returnedCalls
  <2>2. QED
    BY ONLY <1>c, <2>1
<1>4. clientVMs' = [v \in DOMAIN clientVMs \cup {returnedCalls'} |->
                      IF v = returnedCalls' THEN opts ELSE clientVMs[v]]
  BY <1>1, <1>c, <1>3 DEF clientVMs
<1>5. Promise!Created(opts)
  BY <1>1, <1>2, <1>3, <1>4 DEF Promise!Created, returnedCalls, clientVMs
<1>6. QED
  BY <1>5 DEF Promise!Next

LEMMA CreateRefines ==
  ASSUME IInv, IInv', Create
  PROVE  Promise!Next \/ UNCHANGED <<returnedCalls, clientVMs, outcome, unread>>
<1>1. ASSUME NEW ec \in Promise!Error, pc = "create", Fail(ec), UNCHANGED vms
      PROVE  Promise!Next
  BY <1>1, ClientsVMs, FailRefines
<1>2. CASE CreateSucceeds
  <2>1. /\ pc = "create" /\ calls \notin owned /\ owned = DOMAIN vms
        /\ vms' = [w \in owned \cup {calls} |-> IF w = calls THEN <<>> ELSE vms[w]]
    BY <1>2 DEF CreateSucceeds, AddVM, IInv, NoVMLeaks, InProgress
  <2>2. vms'[calls] = <<>> /\ \A v \in owned : vms'[v] = vms[v]
    BY <2>1
  <2>3. CASE request.function = "create"
    <3>1. Succeed /\ owned' = owned \cup {calls} /\ request.options = <<>>
      BY <1>2, <2>3 DEF CreateSucceeds, IInv, InProgress
    <3>2. QED
      BY <2>1, <2>2, <3>1, HandOverRefines
  <2>4. CASE request.function # "create"
    <3>1. /\ pc' = "configure" /\ UNCHANGED <<calls, owned, outcome, unread>>
      BY <1>2, <2>4 DEF CreateSucceeds, Continue, clientVars
    <3>2. QED
      BY <2>1, <2>2, <3>1 DEF returnedCalls, clientVMs
  <2>5. QED
    BY <2>3, <2>4
<1>3. QED
  BY <1>1, <1>2 DEF Create, CreateFails, AbiMismatch, Promise!Error

LEMMA ConfigureRefines ==
  ASSUME IInv, IInv', Configure
  PROVE  Promise!Next \/ UNCHANGED <<returnedCalls, clientVMs, outcome, unread>>
<1>1. CASE CopyConfig
  <2>1. CASE request.filename = "too long"
    <3>1. pc = "copy config" /\ Fail("INVALID_ARGUMENT") /\ vms' = vms
      BY <1>1, <2>1 DEF CopyConfig
    <3>2. "INVALID_ARGUMENT" \in Promise!Error
      BY DEF Promise!Error
    <3>3. QED
      BY <3>1, <3>2, ClientsVMs, FailRefines
  <2>2. CASE request.filename # "too long"
    BY <1>1, <2>2 DEF CopyConfig, Continue, clientVars, returnedCalls, clientVMs
  <2>3. QED
    BY <2>1, <2>2
<1>2. ASSUME NEW ec \in Promise!Error, NEW fits \in BOOLEAN, SetOptionFails(ec, fits)
      PROVE  Promise!Next
  BY <1>2, ClientsVMs, FailRefines DEF SetOptionFails
<1>3. CASE SetOption
  <2>1. pc = "configure" /\ pc' = "configure" /\ UNCHANGED <<calls, owned, outcome, unread>>
    BY <1>3 DEF SetOption, Continue, clientVars
  <2>2. calls \notin owned /\ owned \subseteq DOMAIN vms /\ vms \in [DOMAIN vms -> Seq(Option)]
    BY <2>1 DEF IInv, TypeOK, InProgress
  <2>3. \A v \in owned : vms'[v] = vms[v]
    BY <1>3, <2>2 DEF SetOption
  <2>4. QED
    BY <2>1, <2>3 DEF returnedCalls, clientVMs
<1>4. CASE Configured
  <2>1. /\ pc = "configure" /\ options = <<>> /\ Succeed /\ owned' = owned \cup {calls}
        /\ vms' = vms
    BY <1>4 DEF Configured
  <2>2. calls \in DOMAIN vms /\ vms[calls] \in Seq(Option) /\ vms[calls] \o options = request.options
    BY <2>1 DEF IInv, TypeOK, NoVMLeaks, InProgress
  <2>3. vms[calls] = request.options
    BY <2>1, <2>2, ConcatEmptySeq
  <2>4. QED
    BY <2>1, <2>3, HandOverRefines
<1>5. QED
  BY <1>1, <1>2, <1>3, <1>4 DEF Configure

LEMMA ClientRefines ==
  ASSUME IInv, IInv', evmc_last_error_msg \/ \E v \in owned : evmc_destroy(v)
  PROVE  Promise!Next
<1>1. CASE evmc_last_error_msg
  <2>1. /\ pc = "idle" /\ pc' = "idle" /\ outcome' = Promise!Message(Text) /\ unread' = 0
        /\ UNCHANGED <<calls, owned, vms>>
    BY <1>1 DEF evmc_last_error_msg
  <2>2. Text \in {0, unread}
    BY <2>1 DEF IInv, MessageIsCurrent, Text
  <2>3. Promise!LastErrorMsg(Text)
    BY <2>1, <2>2 DEF Promise!LastErrorMsg
  <2>4. QED
    BY <2>2, <2>3 DEF Promise!Next
<1>2. ASSUME NEW v \in owned, evmc_destroy(v) PROVE Promise!Next
  <2>1. /\ pc = "idle" /\ pc' = "idle" /\ outcome' = Promise!Nothing
        /\ vms' = [w \in DOMAIN vms \ {v} |-> vms[w]] /\ owned' = owned \ {v}
        /\ UNCHANGED <<calls, unread>>
    BY <1>2 DEF evmc_destroy, RemoveVM
  <2>2. owned \subseteq DOMAIN vms
    BY DEF IInv, TypeOK
  <2>3. clientVMs' = [w \in DOMAIN clientVMs \ {v} |-> clientVMs[w]] /\ v \in DOMAIN clientVMs
    BY <2>1, <2>2 DEF clientVMs
  <2>4. Promise!Destroy(v)
    BY <2>1, <2>3 DEF Promise!Destroy, clientVMs
  <2>5. QED
    BY <2>3, <2>4 DEF Promise!Next, clientVMs
<1>3. QED
  BY <1>1, <1>2

LEMMA StepRefines ==
  IInv /\ IInv' /\ [Next]_vars =>
    Promise!Next \/ UNCHANGED <<returnedCalls, clientVMs, outcome, unread>>
<1> SUFFICES ASSUME IInv, IInv', [Next]_vars
             PROVE  Promise!Next \/ UNCHANGED <<returnedCalls, clientVMs, outcome, unread>>
  OBVIOUS
<1>1. ASSUME NEW function, NEW filename, NEW opts, Call(function, filename, opts)
      PROVE  UNCHANGED <<returnedCalls, clientVMs, outcome, unread>>
  <2>1. /\ pc = "idle" /\ pc' # "idle" /\ calls' = calls + 1 /\ calls \in Nat
        /\ UNCHANGED <<owned, vms, outcome, unread>>
    BY <1>1 DEF Call, clientVars, IInv, TypeOK
  <2>2. returnedCalls = calls /\ returnedCalls' = (calls + 1) - 1
    BY <2>1 DEF returnedCalls
  <2>3. returnedCalls' = returnedCalls
    BY ONLY <2>1, <2>2
  <2>4. QED
    BY <2>1, <2>3 DEF clientVMs
<1>2. CASE UNCHANGED vars
  BY <1>2 DEF vars, clientVars, returnedCalls, clientVMs
<1>3. QED
  BY <1>1, <1>2, LoadRefines, CreateRefines, ConfigureRefines, ClientRefines DEF Next

(* The loader implements the promise of loader.h: each loading function,   *)
(* whatever its steps are, is for the client one atomic step that hands    *)
(* out all that was asked for or signals an error and hands out nothing.   *)
THEOREM KeepsPromise == Spec => LoaderPromise
<1>1. Init => Promise!Init
  BY DEF Init, Promise!Init
<1>2. IInv /\ IInv' /\ [Next]_vars =>
        [Promise!Next]_<<IF pc = "idle" THEN calls ELSE calls - 1,
                         [v \in owned |-> vms[v]], outcome, unread>>
  BY StepRefines DEF returnedCalls, clientVMs
<1>3. QED
  BY <1>1, <1>2, Invariant, PTL DEF Spec, LoaderPromise, Promise!Spec
=============================================================================
