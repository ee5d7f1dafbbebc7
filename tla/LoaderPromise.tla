---------------------------- MODULE LoaderPromise ----------------------------
(***************************************************************************)
(* What include/evmc/loader.h promises a client that calls the loader from *)
(* one thread: each loading function is one atomic step that either hands  *)
(* the client what it asked for (of evmc_load_and_configure: a VM with     *)
(* exactly the options asked for, in their order), or signals an error and *)
(* hands out nothing; and the message a client asks for is that of the     *)
(* last loading function, if it failed.                                    *)
(***************************************************************************)
EXTENDS Naturals, Sequences

CONSTANTS
  Option,
  MaxOptions      \* bound: options in a configuration string

Error == {"CANNOT_OPEN", "SYMBOL_NOT_FOUND", "INVALID_ARGUMENT", "VM_CREATION_FAILURE",
          "ABI_VERSION_MISMATCH", "INVALID_OPTION_NAME", "INVALID_OPTION_VALUE"}

Options == UNION {[1..n -> Option] : n \in 0..MaxOptions}

VARIABLES
  calls,      \* calls of loading functions that have returned
  owned,      \* the client's VMs, named after those calls: the options applied
  outcome,    \* what the last function returned
  unread      \* the last loading call, if it failed and no one asked why; or 0

Signal(ec, options) == [code |-> ec, options |-> options, about |-> 0]
Message(call) == [code |-> "message", options |-> <<>>, about |-> call]
Nothing == Signal("none", <<>>)

Init == calls = 0 /\ owned = [v \in {} |-> <<>>] /\ outcome = Nothing /\ unread = 0

Loaded ==
  /\ calls' = calls + 1
  /\ owned' = owned
  /\ outcome' = Signal("SUCCESS", <<>>)
  /\ unread' = 0

Created(options) ==
  /\ calls' = calls + 1
  /\ owned' = [v \in DOMAIN owned \cup {calls'} |->
                 IF v = calls' THEN options ELSE owned[v]]
  /\ outcome' = Signal("SUCCESS", options)
  /\ unread' = 0

Failed(ec, options) ==
  /\ calls' = calls + 1
  /\ owned' = owned
  /\ outcome' = Signal(ec, options)
  /\ unread' = calls'

\* evmc_last_error_msg() MAY return a message, and consumes it.
LastErrorMsg(message) ==
  /\ message \in {0, unread}
  /\ outcome' = Message(message)
  /\ unread' = 0
  /\ UNCHANGED <<calls, owned>>

Destroy(v) ==
  /\ owned' = [w \in DOMAIN owned \ {v} |-> owned[w]]
  /\ outcome' = Nothing
  /\ UNCHANGED <<calls, unread>>

Next ==
  \/ Loaded
  \/ \E options \in Options : Created(options) \/ \E ec \in Error : Failed(ec, options)
  \/ \E message \in {0, unread} : LastErrorMsg(message)
  \/ \E v \in DOMAIN owned : Destroy(v)

Spec == Init /\ [][Next]_<<calls, owned, outcome, unread>>
=============================================================================
