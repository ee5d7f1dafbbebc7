# Specifications and proofs for EVMC

TLA+ modules that model the parts of EVMC that keep state or decide something:
the `MockedHost` that tests run VMs against, the module loader, the Go binding,
the ownership of results and VM instances in C, C++ and Rust, the example VM
under the `evmc` tool, the hex conversions and the instruction tables. TLC checks them
on small instances; TLAPS proves the most important statements for all values of
the constants. `PROJECT.json` maps every definition to the lines it models.

## 1. The system

EVMC is the ABI between Ethereum clients (the *Host*) and EVM implementations
(the *VM*). A client loads a VM from a dynamic library, gives it a message, and
the VM calls back into the Host: for storage, accounts, logs and nested calls,
which the Host answers by executing again.

| Component | State | Operations | Interacts with |
|---|---|---|---|
| C API (`include/evmc/evmc.h`, `helpers.h`) | none; structs owned by the caller | function pointer types, `evmc_make_result`, `evmc_release_result` | everything |
| C++ API (`evmc.hpp`) | `Result` (owns an output), `VM` (owns an instance), `Host` trampolines | moves, `release_raw`, `Host::call` | VM and Host |
| `MockedHost` (`mocked_host.hpp`) | accounts, storage with access status, transient storage, five records | the 16 Host methods | called by a VM |
| Loader (`lib/loader/loader.c`) | `last_error_msg` and its static buffer; open modules, VMs | `evmc_load`, `evmc_load_and_create`, `evmc_load_and_configure`, `evmc_last_error_msg` | dynamic linker, the module's `create` and `set_option` |
| Go binding (`bindings/go/evmc`) | global `hostContextMap`, counter, mutex | `VM.Execute`, exported callbacks | goroutines, C VM, Go `HostContext` |
| Instruction tables (`lib/instructions`) | constant tables | two lookups by revision | VMs |
| Example VM and host, precompiles VM (`examples`) | stack, memory, gas of one execution | `execute`, `set_option`, `call` | each other |
| Rust binding (`bindings/rust`) | boxed container behind a raw pointer, results | create, destroy, execute | C VM API |
| Tooling and `evmc` tool | one `MockedHost` per run | `run`, with creation or without | VM, `MockedHost` |
| Hex, `filter_iterator` | none | conversions | tooling |
| VM tester | none | a test suite | VMs |

What is hard here, and what each part has to get right:

- **Storage status.** `set_storage` gives one of nine statuses through a tree of
  EIP clauses; what a VM charges and refunds follows from the status alone. The
  accumulated gas must not depend on the path of writes, the refund counter
  must not go negative.
- **Access status (EIP-2929).** Cold once, then warm, while records have caps.
- **Recorded inputs.** Recorded messages point into a vector that can move.
- **Go contexts.** Executions run in any number of goroutines and nest inside
  callbacks; an id in C stands for a Go object. Every callback must find its own
  object; the map must not grow; nobody may wait for the mutex for ever; a panic
  skips the removal.
- **Chains of calls.** Static and delegated mode, gas, status and output cross
  several language boundaries on each level of nesting.
- **Loader errors.** Each loading function has several ways to fail halfway; a
  message buffer is shared by all calls; string copies have a maximum length.
- **Result ownership.** `release` must be called once for each output, whatever
  moves and conversions between C, C++ and Rust happen in between.
- **VM ownership.** An instance is destroyed once, by a pointer's owner or by an
  `evmc::VM` that moved around; a Rust VM is taken out of its pointer by every
  method while other executions of it nest, run concurrently or panic.
- **Memory of the example VM.** Offsets and sizes add up in 32 bits, and the size
  of the memory is updated apart from its bytes.
- **Repeated executions.** The tool runs a code again on a Host it has changed.
- **Hex texts.** A prefix found by index, pairs of digits by parity, white space
  in between, and a place in an array computed before the text is valid.
- **Tables.** 23 hand-written tables of 256 entries that must agree with each
  other.

The hazards are listed with their lines in `PROJECT.json`.

## 2. Modules

| Module | Models | Correspondence |
|---|---|---|
| `StorageStatus` | the clause tree of `set_storage`, the statuses' documented gas, the documented checksum | `TriggeredClauses` is the bit mask as the sum of its flags, `DirtyStatus` the switch on it (no case: `AssertFailed`), `CleanStatus` the tree for a clean slot |
| `MockedHost` | `evmc::MockedHost` | one action per Host method; `ret` holds the last method and its result; `m_recorded_calls_inputs` has a capacity and a generation that changes when its buffer moves |
| `AccessSet` | what `evmc_access_account_fn` and `evmc_access_storage_fn` promise | abstract specification of the access statuses; `LimitedSpec` is what is left of it for a Host that cannot remember every account |
| `StorageGas` | a transaction that writes through `MockedHost` and charges by status | composes `MockedHost` with a ledger per slot |
| `GoHostContexts` | `VM.Execute`, `addHostContext`, `getHostContext`, `removeHostContext`, the callbacks | `pc[f]` is the next statement of activation `f`; one action per statement under the mutex |
| `GoCallChain` | flags, gas, status and output through `Execute` and the exported `call` | a stack of executions; `call` pushes, `VMReturn` and `HostAnswers` pop |
| `Loader` | the loading functions with every error path | split where code of the module runs; the linker and the module may answer anything |
| `LoaderPromise` | what `loader.h` promises a client | abstract specification, one atomic step per function |
| `LoaderStrings` | base name and configuration parsing, character by character | `strcpy_sx`, `strrchr`, `strncmp`, `strchr`, the loops over dashes and options |
| `ResultOwnership` | `evmc_make_result`, `evmc_release_result`, `evmc::Result`, `MockedHost::call`'s result, the conversions of Rust's `ExecutionResult` | slots are variables that may hold a raw result, a `Result` or an `ExecutionResult` |
| `VMOwnership` | `evmc::VM`, and the Box around `execute`, `set_option` and `destroy` of `evmc-declare` | wrappers are variables that may hold a `VM`; a call takes the Box in one step and gives it back in another |
| `ExampleVM` | `example_vm.cpp` on `ExampleHost` or `MockedHost` | one action per instruction; `outside` says that an array was left, which the code does not check |
| `ToolRun` | `tooling::run`, `bench`, `example.c` | `phase` is where `run` is; executions are those of `ExampleVM` |
| `Hex` | `hex.hpp`, `filter_iterator.hpp` | one step per round of the loop of `from_hex` |
| `Instructions` | both tables of every revision, the lookups | a table is given by its difference from the one before; the result equals the C tables in all 16 x 256 entries |
| `MockedHostProofs`, `GoHostContextsProofs`, `GoCallChainProofs`, `LoaderProofs`, `StringsProofs`, `OwnershipProofs`, `ToolRunProofs`, `InstructionsProofs` | | theorems |
| `MCMockedHost`, `MCStorageGas`, `MCGoCallChain`, `MCLoaderStrings`, `MCStrings`, `MCOwnership`, `MCToolRun` | | values of constants for TLC |

Composition: `StorageGas` EXTENDS `MockedHost` EXTENDS `StorageStatus`;
`ToolRun` EXTENDS `ExampleVM`, the client of the interpreter; `VMOwnership`
EXTENDS `ResultOwnership`, whose results its executions return; `MCStrings` runs
`LoaderStrings` and `Hex` side by side. `MockedHost` refines `AccessSet` and `Loader` refines `LoaderPromise`, both
through INSTANCE ... WITH.

Definitions called "Faulty variant" are what a plausible mistake in the code
would look like. No specification uses them; each breaks one property when it is
put in place of the definition after it.

### Abstractions worth knowing

- Balances and code hashes of `MockedHost` are one opaque datum per account;
  values are symbols with a zero; `size_t` is arithmetic modulo `SizeModulus`.
  The map of accounts is `accounts`, its domain, and one function for each member
  of `MockedAccount`; absent addresses have the values of a new account, because
  there the C++ has no place to keep others.
- `StorageStatus`: gas prices are parameters with the order the EIPs give them.
- `GoHostContexts`: `abandoned` is a history variable: the ids of executions
  that a panic unwound. It constrains nothing. The locals of an activation are
  reset when it ends.
- `Loader`: texts of messages are the number of the call that wrote them; file
  names are classes (null, empty, too long, fine). The characters are in
  `LoaderStrings`.
- `ExampleVM`: a value has two digits, of which the last stands for the 32 bits
  the interpreter computes with, so that values beyond them exist; there are no
  jumps in this VM, so a code is a sequence of instructions. After an access
  beyond stack, memory or code nothing is known and the run is over.
- `ToolRun`: the code deployed by a creation is any code of a set, unless the
  output is empty; the number of measured iterations is any up to a bound, since
  it depends on the clock. A clock that did not advance makes it a division by
  zero, which ends the process or gives any number. Gas limits are not negative.
- `ExampleVM` and `ToolRun`: there is always memory for an output.
  `evmc_make_result` returns `EVMC_OUT_OF_MEMORY` when there is not; then an
  execution may differ from the one before without storage, so
  `WarnsOnlyAboutStorage` is a statement about runs in which it does not happen.
  `ResultOwnership` models that failure.
- `LoaderStrings`: the only separator is `/`; the branch for Windows
  (`loader.c:143-147`) is left out.
- `VMOwnership`: a client does not destroy an instance that is in use, nor sets
  its options then, and uses no raw pointer after giving it to an object.
  "Executing" includes whatever the VM does; a panic in it ends like a result
  without output. A panic in `set_option` ends the process (`aborted`).
- `Hex`: digits are `0`, `f` and `F`, since the rules tell apart only case,
  being a digit and being zero.
- `ResultOwnership`: `malloc` may return any free address, including one freed
  before, or fail. A `MockedHost::call_result` is memory of the client, with no
  `release`.

## 3. Runs

Bounds are constants and are named in the modules; guards that exist only
because of them are commented `bound`.

| Run | Instance | Shows |
|---|---|---|
| `host` | an account and a precompile, one slot each, two values, codes of 0 and 3 bytes, offsets and sizes 0 to 4, two entries for accesses | warm stays warm (`WarmStaysWarm`), cold exactly once while the record has room (`AccessStatusExact`, a refinement of `AccessSet`), a full record forgets accounts and harms no other status (`AccessStatusBeyondRecord`, a refinement of `LimitedSpec`), `copy_code` stays in bounds |
| `records` | two accounts, inputs of 0, 1 and 4 bytes with a short buffer of 2, two calls recorded, three inputs | pointers to recorded inputs stay valid beyond the cap; callees and destroyed accounts are in the access record |
| `storage_gas` | two slots, four values, up to four writes | path independence of net gas, non-negative refunds, tree = documented checksum |
| `go_contexts` | three activations, two contexts, three ids, one callback each | own context, distinct ids, no entry lost or left, every `Execute` returns |
| `go_calls` | four nested executions | static mode is inherited, the caller gets what the callee returned |
| `loader` | three calls, two options | refinement of `LoaderPromise`, no VM lost, no stale message, no module left open by a failing `evmc_load` |
| `strings` | all file names of up to six characters of `/ . - l i b`, names of eight, configurations of up to seven characters of `, = x`, maximum length 7; texts of up to six characters of `0 f F x` and space, an array of two bytes | names and options are those the header documents; decoding is the inverse of encoding and refuses everything else; output stays within half of the text; the loader's loops end |
| `ownership` | three results, two buffers, two instances, two `VM` objects, two calls, symmetric | each output and each instance has exactly one owner; no call runs on a freed instance |
| `tool_run` | `Word` 8, memory of 4 bytes, stack of 8; all codes of two instructions, regions of stores, calls and returns at every edge, a few longer codes; both Hosts, both revisions, with creation, measured or neither | memory is left only where 32 bits wrap; memory beyond its size is zero; a repeated execution differs only by storage; the printed gas; every run ends |
| `instructions` | 256 opcodes, 16 revisions | names and metrics agree, the stack requirement covers what is popped, hard forks keep the stack effect and name of deployed instructions |
| `go_call_flags` | as `go_calls`, two levels | violation, see section 6 |
| `longest_file_name` | names of the maximum length | violation |

Why the bounds suffice: four values are the most that the comparisons of
original, current and new value and zero can tell apart, and four writes visit
every sequence of a clean write, a dirty one, a restoring one and another after
it. Two slots show that slots do not disturb each other. Three activations are
an outer one, one nested in its callback and one concurrent with both; each has
a callback, so all pairs of critical sections meet. The access records are small
enough to fill up, the input vector to exceed what was reserved. Strings of six
or seven characters contain every combination of one separator, prefix, dot and
dash; the maximum length is a parameter and is crossed. Two calls on two
instances are one nested in or concurrent with the other, on the same or on
different ones, with a freed address to reuse; three results are the source, the
target and a bystander of every move. `Word` is greater than the memory, so
regions fit, are refused, and wrap, each at its edges.

`CHECK_DEADLOCK FALSE` is set in `go_contexts` (the bound on ids ends the run),
`ownership` (an abort ends the process) and `instructions` (there is no revision
after the last). The properties of `ownership` are invariants, and nothing tells
the members of its sets apart, which makes its symmetry sound.

### Fairness

Only `go_contexts` checks liveness that needs more than the loops of one
function: weak fairness of each activation's own statements (running goroutines
are scheduled; a VM ends, since its gas is finite, which `MaxCallbacks` stands
for) and strong fairness of taking the mutex (`sync.Mutex` hands over to a
waiter after a millisecond, so it does not starve). No fairness for starting an
execution. `LoaderStrings` and `ToolRun` need that a function that runs goes on
(`WF_vars(Step)`): one thread, which waits for nothing.

## 4. Proofs

All proofs are for any values of the constants that satisfy the assumptions
beside them.

- `MockedHostProofs`: types, all properties of the runs `host` and `records`, and
  that `MockedHost` implements `AccessSet` while its record has room and, with no
  condition, its `LimitedSpec`. By one lemma: a step is one of `AccessSet`, or the
  record is full and an account it does not have is asked for. The pointers
  to recorded inputs need that as many inputs are kept as calls with one are
  recorded, and that the reserved capacity covers the cap, so no push moves them.
  Assumed: there is an address, and a code is shorter than `SizeModulus`.

  The same module proves what concerns storage and its gas.
  `ClauseTreeIsChecksum`: the tree of `set_storage` equals the four documented
  checks for all original, current and new values; `StatusGasIsClauseGas`: what a
  status costs is what the quoted clauses say; both by cases on the equalities
  between the three values and zero. `NetGas`, `RefundCounter`, `StatusesSuffice`
  and `ChecksumImplementation` are about any number of writes (`StorageGas`). The
  invariant is the first two properties, types, and `RefundBacksDeletion`: a slot
  that is deleted now has its clearing refund in the counter. Without it a status
  that takes the refund back could not be shown to leave the counter
  non-negative. Other methods change only access statuses.
- `GoHostContextsProofs`: `OwnContext`, `DistinctIds`, `ContextsMapped`, `Types`,
  `NoLeaks`, for any number of goroutines and any nesting. The invariant says: the
  mutex is held by exactly the activation in a critical section; every id in use,
  or abandoned by a panic, is below the counter, and an activation between
  reading and incrementing the counter holds its value; ids in use are distinct
  and none is abandoned; what a callback found is its own context; a registered
  context is in the map under its id, and nothing else but abandoned ones is.

  `NoDeadlock`: as long as an execution is active, one of them can go on. The
  executions of a goroutine form a chain (`Nested`): the parent of an active one
  is in a callback, has a smaller id once both have one, and has no other child.
  If the mutex is held, its holder goes on, since critical sections do not wait;
  if it is free, any execution before or after a callback goes on; and if all are
  in callbacks, the one with the greatest id has no child to wait for.
  `Progress`: the statements left until the return (`StepsLeft`) become fewer with
  every step of an execution and are left alone by the steps of others.
- `GoCallChainProofs`: `StaticModeInherited` needs that a call a static execution
  waits for was static for the host too (`CallsAreStatic`); `ResultsComeBack`
  follows from what the return of a call does to the two topmost executions.
- `LoaderProofs`: no VM, module or stale message is left by a failure, and
  `KeepsPromise`: with the message a client may read mapped to the last failed
  call, the return of a loading function is its atomic step in `LoaderPromise`,
  and every step before it a stutter. The invariant says which VMs a call in
  progress holds, which options it has applied, and when the message is set.
- `StringsProofs`: `Names`, `Configuring`, `OutputBound` and `Decoding`, for texts
  of every length, any maximum length and any size of the array. Each loop has an
  invariant that relates what is done to what is left. For the dashes: the name is
  the documented one up to the position of the search, and the text itself after
  it. For the options: the pairs passed so far, written with the commas between
  them in one of the spellings the grammar allows, and then the rest, are the
  configuration. For `from_hex`: what is written is the digits read so far, and the
  parity of the index is that of their number. The documented results are defined
  by sets and positions, so the loops are compared with them by facts about the
  first and last occurrence of a character; what induction is needed (the least
  number of a set, counting, folds) comes from the well-foundedness of `<` on the
  naturals. `Progress`: every step of the loader's functions goes to a later loop
  or leaves fewer characters to it: a replaced dash is not found again, and each
  option shortens the rest.
- `OwnershipProofs`: `Ownership` and `NoLeaks` need each other: a buffer that is
  allocated has an owner, so one that `malloc` returns has none. `Owner` and
  `LiveInstance` are proved of the composition, which is shown to implement
  `ResultOwnership` first (`ResultsAreHandled`); `LiveInstance` needs that an
  owner destroys only its own instance, which it does when no call is using it.
- `ToolRunProofs`: `Regions`, `Zeros`, `GasUsed` and types, for every code, input,
  gas limit, memory and stack size. One lemma per kind of instruction, built from
  what expanding, storing and copying do to memory. The gas needs that an outcome
  leaves no more than its message was given and nothing after a failure, and
  which message is executed in each phase of `run`. Assumed: `Word` exceeds the
  memory and the size of a value.

  `Repeats` compares whole executions. Without storage instructions the next state
  of the interpreter is a function (`After`) of its own state alone, so an
  execution goes along a trace that its message and code determine. The invariant
  (`Repeating`) says that the execution in progress is on such a trace, that the
  expected result is the end of one, and that each execution of the loop starts at
  its beginning; two traces agree, so their ends do. `Progress`: every step goes to
  a later phase of `run`, or to the next of the iterations that are counted down,
  or takes gas or ends the execution.
- `InstructionsProofs`: `Stack`, `Tables` and `Deployed`, which speak of the
  opcodes and revisions of the C tables themselves and have no constants. Each
  table of metrics is shown to be the one before with new instructions and new
  prices (`Grown`), each table of names the one before with names for opcodes that
  had none (`Later`), by one lemma per hard fork; both sequences then define the
  same opcodes in each revision. That the entries are those of the C files, TLC's
  evaluation and the `map` say; the proof says why no fork can break them.

The three implementation theorems and the two for invariants of a composition are
ordinary safety arguments: initial states and steps are mapped, then combined by
temporal logic.

All invariants and action properties of the passing runs are proved. Only
model-checked is liveness: `ExecuteReturns`, `RunEnds` and `Terminates`. They need
that an enabled step is taken, hence fairness and ENABLED, which the provers do not
reach. What the three rest on besides is proved: the measures that every step
decreases (the three theorems `Progress`) and, for the only part with more than one
thread, that somebody can always go on (`NoDeadlock`). Since lexicographically
ordered pairs of naturals do not decrease forever, no run of the tool and no
function on strings takes infinitely many steps.

## 5. Not modelled

- The precompiles VM (stateless functions of the message), the VM tester (tests
  of whatever VM it is given), build files.
- Go's `Load`, `Configure`, `SetOption`: one C call each. Message fields that are
  copied one to one, in Go and in Rust.
- `set_option` of the example VM, which only sets what is logged, and the command
  line of `main.cpp`, which a parser library reads.
- Rust results on the heap (`release_heap_result`), which nothing here asks for,
  and an `ExecutionResult` built from `Some` of an empty output, which would be
  allocated with a size of zero (`evmc-vm/src/lib.rs:477`).
- `Host`, `HostContext` and the trampolines: one forwarded call each.
- Concurrent readers of the loader's error buffer: `loader.h` makes the functions
  single-threaded. `evmc_last_error_msg` from two threads is left for later.

## 6. Where code and documents differ

Shown by a run that TLC finds violated:

- `go_call_flags`: the Go callback passes `msg.flags != 0` as `static`, so a call
  with only `EVMC_DELEGATED` is given to the Go host as static.
- `longest_file_name`: a file name of exactly the maximum length is accepted, but
  its base name may not fit its buffer and becomes empty.

Met while modelling, without a run of their own:

- `access_account` looks into a record with a cap; an account accessed after the
  record is full stays cold, against the comment at `mocked_host.hpp:438-439`.
  `AccessStatusBeyondRecord` states that this is all a full record does.
- `bench` divides by the time the probe took (`run.cpp:54`), which is zero on a
  clock that is too coarse.
- `expand` of the example VM adds offset and size in 32 bits: a sum that wraps is
  accepted, against "nullptr if the memory cannot be expanded to the required
  size" (`example_vm.cpp:96-97`). `RegionsFit` states that nothing else is.
- `from_hex<T>` removes one prefix and the loop skips another, so a text with two
  is accepted and its bytes are not "padded with zeros on the left"
  (`hex.hpp:112-113`). `DecodesAsDocumented` leaves this text out.
- A panic in a Rust VM's `set_option` aborts the process, while one in `execute`
  becomes an internal error (`evmc-declare/src/lib.rs:322` and `:433`).
- An `evmc::VM` assigned to itself destroys its instance and is left without one
  (`evmc.hpp:673-679`); it does not dangle.

- A configuration of exactly the maximum length is refused, though the message
  calls that length allowed (`loader.c:259-262`).
- `evmc_load_and_configure` documents its actions as atomic; when configuring
  fails, the VM is destroyed but the module stays open (`loader.c:319`).
- A client that empties the public `recorded_calls` of a `MockedHost` leaves the
  private copies of inputs, which then outgrow the reserved capacity; "Iterators
  will not invalidate" (`mocked_host.hpp:387`) assumes it does not.
- A `call_result` with a `release` would be released by every result returned
  (`mocked_host.hpp:401`).

## 7. Plan

Done: every part that keeps state or decides something has a module; all
invariants and action properties the passing runs check are proved, with the
implementations of abstract specifications.

Left:

1. Readers of the loader's error buffer in several threads: which torn or stale
   messages a second thread can see.
2. The helpers for optional storage and the delegation of one VM's calls through
   `HostContext`, once a component keeps state behind them.
3. Liveness of Go executions when goroutines are bounded by the stack only.
