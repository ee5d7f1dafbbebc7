------------------------------- MODULE Loader --------------------------------
(***************************************************************************)
(* lib/loader/loader.c: the functions that open an EVMC module, create a   *)
(* VM and configure it, and the error message they leave in static         *)
(* variables.  loader.h says the functions are for one thread; a call is   *)
(* split where the code of the module (its create function, set_option)    *)
(* runs.  What the dynamic linker and the module answer is external: any   *)
(* answer.                                                                 *)
(***************************************************************************)
EXTENDS Naturals, Sequences, FiniteSets

CONSTANTS
  Option,         \* options, each a name with a value
  MaxOptions,     \* bound: options in a configuration string
  MaxCalls        \* bound: calls of loading functions

ASSUME LoaderBounds == MaxOptions \in Nat /\ MaxCalls \in Nat

VARIABLES
  last_error_msg,           \* NULL, or the buffer it points to
  last_error_msg_buffer,    \* the call whose whole text the static buffer holds, or 0
  dlerror_buffer,           \* the call whose text dlerror() returned and still holds, or 0
  handles,                  \* modules open, by the call that opened them
  vms,                      \* VMs alive, by the call that created them: options applied
  owned,                    \* VMs handed to the client and not yet destroyed
  pc,                       \* the next part of the call in progress, or idle
  request,                  \* function, file name and options of the last call
  options,                  \* the part of the configuration string still to be applied
  calls,                    \* calls of loading functions
  outcome,                  \* what the client was last given
  unread                    \* the last call, if it failed and no one asked why; or 0

messageVars == <<last_error_msg, last_error_msg_buffer, dlerror_buffer>>
clientVars == <<owned, outcome, unread>>
vars == <<messageVars, handles, vms, pc, request, options, calls, clientVars>>

Function == {"load", "create", "configure"}
FileName == {"null", "empty", "too long", "ok"}

Promise == INSTANCE LoaderPromise WITH
  calls <- IF pc = "idle" THEN calls ELSE calls - 1,
  owned <- [v \in owned |-> vms[v]]

Options == Promise!Options
-----------------------------------------------------------------------------
Init ==
  /\ last_error_msg = "NULL"
  /\ last_error_msg_buffer = 0
  /\ dlerror_buffer = 0
  /\ handles = {}
  /\ vms = [v \in {} |-> <<>>]
  /\ owned = {}
  /\ pc = "idle"
  /\ request = [function |-> "load", filename |-> "ok", options |-> <<>>]
  /\ options = <<>>
  /\ calls = 0
  /\ outcome = Promise!Nothing
  /\ unread = 0

(* A client calls evmc_load, evmc_load_and_create or                       *)
(* evmc_load_and_configure.  Of the latter the configuration string as a   *)
(* whole may be too long; it has a file name, perhaps empty.               *)
Call(function, filename, opts) ==
  /\ pc = "idle"
  /\ calls < MaxCalls                                     \* bound
  /\ function # "configure" => opts = <<>>
  /\ function = "configure" => filename # "null"
  /\ pc' = IF function = "configure" THEN "copy config" ELSE "load"
  /\ request' = [function |-> function, filename |-> filename, options |-> opts]
  /\ options' = opts
  /\ calls' = calls + 1
  /\ UNCHANGED <<messageVars, handles, vms, clientVars>>

\* Faulty variant: a text that does not fit is announced as well.
set_error_cut(msg, fits) ==
  /\ last_error_msg' = "buffer"
  /\ last_error_msg_buffer' = IF fits THEN calls ELSE 0

\* set_error, when last_error_msg is msg: a text that does not fit is written in part, and
\* not announced.
set_error(msg, fits) ==
  /\ last_error_msg' = IF fits THEN "buffer" ELSE msg
  /\ last_error_msg_buffer' = IF fits THEN calls ELSE 0

Fail(ec) ==
  /\ pc' = "idle"
  /\ outcome' = Promise!Signal(ec, request.options)
  /\ unread' = calls
  /\ UNCHANGED <<owned, request, options, calls>>

Succeed ==
  /\ pc' = "idle"
  /\ outcome' = Promise!Signal("SUCCESS", request.options)
  /\ unread' = 0
  /\ UNCHANGED <<request, options, calls>>

Continue(part) ==
  /\ pc' = part
  /\ UNCHANGED <<request, calls, clientVars>>

(* evmc_load_and_configure copies the configuration.                       *)
CopyConfig ==
  /\ pc = "copy config"
  /\ IF request.filename = "too long"
     THEN set_error(last_error_msg, TRUE) /\ Fail("INVALID_ARGUMENT")
     ELSE Continue("load") /\ UNCHANGED <<last_error_msg, last_error_msg_buffer, options>>
  /\ UNCHANGED <<dlerror_buffer, handles, vms>>

(* evmc_load.  The last error is reset first.                              *)
ResetMsg == "NULL"

\* Calls of the dynamic linker overwrite the text dlerror() returned before.
OverwrittenByLinker == 0

LoadInvalid ==
  /\ pc = "load"
  /\ request.filename # "ok"
  /\ set_error(ResetMsg, TRUE)
  /\ Fail("INVALID_ARGUMENT")
  /\ UNCHANGED <<dlerror_buffer, handles, vms>>

\* DLL_OPEN fails; DLL_GET_ERROR_MSG has a message, or not.
OpenFails(fits) ==
  /\ pc = "load"
  /\ request.filename = "ok"
  /\ \/ /\ last_error_msg' = "dlerror"
        /\ dlerror_buffer' = calls
        /\ UNCHANGED last_error_msg_buffer
     \/ /\ set_error(ResetMsg, fits)
        /\ dlerror_buffer' = OverwrittenByLinker
  /\ Fail("CANNOT_OPEN")
  /\ UNCHANGED <<handles, vms>>

\* Faulty variant: the module is left open.
SymbolNotFoundOpen(fits) ==
  /\ pc = "load"
  /\ request.filename = "ok"
  /\ set_error(ResetMsg, fits)
  /\ dlerror_buffer' = OverwrittenByLinker
  /\ Fail("SYMBOL_NOT_FOUND")
  /\ handles' = handles \cup {calls}
  /\ UNCHANGED vms

\* Neither create function is found: the module is closed again.
SymbolNotFound(fits) ==
  /\ pc = "load"
  /\ request.filename = "ok"
  /\ set_error(ResetMsg, fits)
  /\ dlerror_buffer' = OverwrittenByLinker
  /\ Fail("SYMBOL_NOT_FOUND")
  /\ UNCHANGED <<handles, vms>>

SymbolFound ==
  /\ pc = "load"
  /\ request.filename = "ok"
  /\ last_error_msg' = ResetMsg
  /\ dlerror_buffer' = OverwrittenByLinker
  /\ handles' = handles \cup {calls}
  /\ IF request.function = "load" THEN Succeed /\ UNCHANGED owned
     ELSE Continue("create") /\ UNCHANGED options
  /\ UNCHANGED <<last_error_msg_buffer, vms>>

(* evmc_load_and_create calls the create function.                         *)
CreateFails(fits) ==
  /\ pc = "create"
  /\ set_error(last_error_msg, fits)
  /\ Fail("VM_CREATION_FAILURE")
  /\ UNCHANGED <<dlerror_buffer, handles, vms>>

\* The VM of another ABI version is created and destroyed.
AbiMismatch(fits) ==
  /\ pc = "create"
  /\ set_error(last_error_msg, fits)
  /\ Fail("ABI_VERSION_MISMATCH")
  /\ UNCHANGED <<dlerror_buffer, handles, vms>>

AddVM(v) == vms' = [w \in DOMAIN vms \cup {v} |-> IF w = v THEN <<>> ELSE vms[w]]
RemoveVM(v) == vms' = [w \in DOMAIN vms \ {v} |-> vms[w]]

CreateSucceeds ==
  /\ pc = "create"
  /\ AddVM(calls)
  /\ IF request.function = "create" THEN Succeed /\ owned' = owned \cup {calls}
     ELSE Continue("configure") /\ UNCHANGED options
  /\ UNCHANGED <<messageVars, handles>>

\* Faulty variant: the VM is not destroyed.
SetOptionFailsKeepingVM(ec, fits) ==
  /\ pc = "configure"
  /\ options # <<>>
  /\ ec \in {"INVALID_OPTION_NAME", "INVALID_OPTION_VALUE"}
  /\ set_error(last_error_msg, fits)
  /\ Fail(ec)
  /\ UNCHANGED <<dlerror_buffer, handles, vms>>

(* evmc_load_and_configure passes the options on one by one.  The module's *)
(* set_option is NULL or does not accept the option: the VM is destroyed.  *)
SetOptionFails(ec, fits) ==
  /\ pc = "configure"
  /\ options # <<>>
  /\ ec \in {"INVALID_OPTION_NAME", "INVALID_OPTION_VALUE"}
  /\ set_error(last_error_msg, fits)
  /\ Fail(ec)
  /\ RemoveVM(calls)
  /\ UNCHANGED <<dlerror_buffer, handles>>

\* Faulty variant: an option is skipped after every one that is set.
SetOptionSkipping ==
  /\ pc = "configure"
  /\ options # <<>>
  /\ vms' = [vms EXCEPT ![calls] = Append(@, Head(options))]
  /\ options' = IF Len(options) = 1 THEN <<>> ELSE Tail(Tail(options))
  /\ Continue("configure")
  /\ UNCHANGED <<messageVars, handles>>

SetOption ==
  /\ pc = "configure"
  /\ options # <<>>
  /\ vms' = [vms EXCEPT ![calls] = Append(@, Head(options))]
  /\ options' = Tail(options)
  /\ Continue("configure")
  /\ UNCHANGED <<messageVars, handles>>

Configured ==
  /\ pc = "configure"
  /\ options = <<>>
  /\ Succeed
  /\ owned' = owned \cup {calls}
  /\ UNCHANGED <<messageVars, handles, vms>>
-----------------------------------------------------------------------------
(* evmc_last_error_msg: the text the pointer returned points to.           *)
Text == IF last_error_msg = "buffer" THEN last_error_msg_buffer
        ELSE IF last_error_msg = "dlerror" THEN dlerror_buffer
        ELSE 0

evmc_last_error_msg ==
  /\ pc = "idle"
  /\ outcome' = Promise!Message(Text)
  /\ last_error_msg' = "NULL"
  /\ unread' = 0
  /\ UNCHANGED <<last_error_msg_buffer, dlerror_buffer, handles, vms, pc, request, options,
                 calls, owned>>

evmc_destroy(v) ==
  /\ pc = "idle"
  /\ v \in owned
  /\ RemoveVM(v)
  /\ owned' = owned \ {v}
  /\ outcome' = Promise!Nothing
  /\ UNCHANGED <<messageVars, handles, pc, request, options, calls, unread>>
-----------------------------------------------------------------------------
Load == LoadInvalid \/ SymbolFound
        \/ \E fits \in BOOLEAN : OpenFails(fits) \/ SymbolNotFound(fits)

Create == CreateSucceeds
          \/ \E fits \in BOOLEAN : CreateFails(fits) \/ AbiMismatch(fits)

Configure == CopyConfig \/ SetOption \/ Configured
             \/ \E ec \in Promise!Error, fits \in BOOLEAN : SetOptionFails(ec, fits)

Next ==
  \/ \E function \in Function, filename \in FileName, opts \in Options :
       Call(function, filename, opts)
  \/ Load \/ Create \/ Configure
  \/ evmc_last_error_msg
  \/ \E v \in owned : evmc_destroy(v)

Spec == Init /\ [][Next]_vars
-----------------------------------------------------------------------------
TypeOK ==
  /\ last_error_msg \in {"NULL", "buffer", "dlerror"}
  /\ last_error_msg_buffer \in Nat
  /\ dlerror_buffer \in Nat
  /\ handles \subseteq 1..calls
  /\ DOMAIN vms \subseteq 1..calls
  /\ \A v \in DOMAIN vms : vms[v] \in Seq(Option)
  /\ owned \subseteq DOMAIN vms
  /\ pc \in {"idle", "copy config", "load", "create", "configure"}
  /\ request \in [function : Function, filename : FileName, options : Seq(Option)]
  /\ options \in Seq(Option)
  /\ calls \in Nat
  /\ unread \in 0..calls

(* No VM is lost and none is destroyed under its owner: between calls the  *)
(* VMs alive are those the client has, and during a call at most the one   *)
(* being configured besides, whichever of the steps fails.                 *)
NoVMLeaks == DOMAIN vms = owned \cup (IF pc = "configure" THEN {calls} ELSE {})

(* A message that evmc_last_error_msg would return is the whole text of    *)
(* the last call's error: never an older one, one of a call that           *)
(* succeeded, or one that set_error wrote only in part.                    *)
MessageIsCurrent == pc = "idle" /\ last_error_msg # "NULL" => unread = calls /\ Text = calls

(* A failing evmc_load leaves no module open, whatever it had found before *)
(* it failed.                                                              *)
FailedLoadCloses ==
  pc = "idle" /\ request.function = "load" /\ outcome.code \in Promise!Error
    => calls \notin handles

(* The promise of loader.h.                                                *)
LoaderPromise == Promise!Spec
=============================================================================
