# flopscope in TLA+

Specifications of flopscope: the FLOP ledger that threads share inside one
process, the compute server with its budget session and store of array handles,
the conversation between a participant process and that server, the write counts
that void symmetry tags, the rules that carry symmetry tags from arrays to the
results of operations, the pricing of contractions, and the timers that split a
program's wall time. Each specification is translated from the source; TLC checks
it on small instances, and TLAPS proves theorems about each of them for every instance.

## The system

| Part | State it keeps | Operations | Talks to |
|---|---|---|---|
| FLOP ledger (`src/src/flopscope/_budget.py`, `_validation.py`) | per context: FLOPs used, the part already recorded, a rollup of operations, the deadline; per thread: the active context; per process: the default context and the accumulator | enter, `deduct`, `deduct_after`, exit, `record`, `budget_reset`, `budget_summary_dict` | every operation wrapper of the library; threads through two kinds of locks |
| Operation timers (`_budget.py`) | a stack of timers per context, the totals of backend and overhead time | timer enter and exit, calls of numpy, calls back into user code | the ledger |
| Compute server (`src/flopscope-server`) | the open session with its budget context, the array and generator stores (which outlive sessions), the time of the last request | `hello`, `budget_open`, `budget_close`, `budget_summary`, `budget_summary_reset`, operations, `fetch`, `free`, reaping | a client over a REP socket; the ledger, in process |
| Client session (`src/flopscope-client`) | the active context and its cached count, live proxies, the queue of handles to free, the socket and whether its handshake is done | enter, exit, summary, operations on proxies, finalizers, timeouts, socket resets | the server over a REQ socket; the garbage collector |
| Write epochs and symmetry tags (`_write_epoch.py`, `_symmetric.py`) | a write count per buffer, the count each tag was stamped with | stamp, read, write, death of a buffer | the garbage collector, every writing operation |
| Symmetry transport (`_symmetry_transport.py`, `_symmetry_utils.py`, `_array_ops.py`, `_pointwise.py`) | none; an array carries its tag | a rule per operation that maps the groups of the operands to the group of the result; what a destination may be tagged with | every array operation; the prices of later operations are divided by what the tag says |
| Cost model (`_accumulation`, `_opt_einsum/_subgraph_symmetry.py`, `_perm_group.py`) | the cache of prices, the settings | detection of symmetry, the ladder of counting regimes, reductions before a contraction, paths, `configure` | `einsum` and its relatives, in any thread |
| Dtype billing and weights (`_dtype_billing.py`, `_weights.py`) | none | resolution of a billing dtype, truncation of an adjusted cost | the operation wrappers |
| Operation wrappers, numpy delegation, contraction paths, display, protocol encoding | none that outlives a call | | |

What is hard in it:

* **threads**: a context has a lock, the accumulator another; closing and
  resetting take several critical sections, so other threads act in between;
* **resets and re-entry**: a context object can be entered again after it was
  closed, and the session total can be reset while contexts are open;
* **charging before or after the kernel**, with operations that fail in between;
* **timeouts**: the client throws its socket away and carries on, while the old
  request may still be served;
* **garbage collection**: finalizers run between any two lines of the client;
* **capacity**: how many handles a result needs is known exactly only after the
  operation was charged;
* **chains of operations**: a tag is never checked again after it was derived, so
  a rule that keeps one permutation too many makes every later operation cheaper;
* **budgets of enumeration**: groups and partitions are enumerated within budgets
  that are process-wide settings, and the price must not depend on which of
  several ways of counting was within them.

What makes each part correct, in a sentence: the ledger never charges past a
budget and its session total holds each FLOP exactly once; the server's store is
bounded, holds nothing that nobody can free, and every charge is reported; the
client never uses a handle whose array is gone, and its count never claims more
than was spent; a tag is true of the data it is attached to; a price that is not
marked as dense is the number of accumulations the cost model defines.

`PROJECT.json` lists the components, the hazards at their lines, the runs, the
mutants and, under `map`, the source lines each definition stands for.

## Modules

| Module | Role |
|---|---|
| `SessionMeter` | abstract specification of accounting: charge, a reset that only lowers the session total, and the default contexts that are disowned |
| `BudgetLedger` | the ledger, one action per critical section; refines `SessionMeter` |
| `BudgetLedgerProofs` | theorems about `BudgetLedger`: first whatever the program, then of an orderly program, among them the refinement of `SessionMeter` |
| `FlopscopeServer` | the server: a request, the state before and after, and the response |
| `FlopscopeServerProofs` | what a handled request does to the store and the session |
| `ServerRequests` | the server under any sequence of requests, with the accumulator beneath it |
| `ServerRequestsProofs` | theorems about `ServerRequests` |
| `RemoteSession` | client, network and server composed |
| `RemoteSessionProofs` | theorems about `RemoteSession` |
| `WriteEpoch` | buffers, their write counts, and the tags that observe them |
| `WriteEpochProofs` | theorems about `WriteEpoch` |
| `OpTimers` | nested operations, numpy calls, callbacks and resets, and the time each is credited with |
| `OpTimersProofs` | theorems about `OpTimers` |
| `TensorTags` | arrays with their data, their tags, and the rules that make a tag from others |
| `TensorTagsProofs` | theorems about each operation of `TensorTags`, about chains of operations, and about the symmetry that is kept |
| `AccumulationRegimes` | permutation groups, components and the regimes that count a component |
| `EinsumSymmetry` | which symmetry of a contraction is detected, and which holds |
| `SubgraphSymmetry` | the symmetry of subsets of operands and the price of one step of a path |
| `EinsumPricing` | threads that price contractions through a cache while the budgets change |
| `EinsumPricingProofs` | theorems about `EinsumPricing` and about the groups the three modules beneath it compute |
| `MCBudgetLedger`, `MCServerRequests`, `MCRemoteSession`, `MCWriteEpoch`, `MCTensorTags`, `MCEinsumPricing` | instances for TLC |

`RemoteSession` and `ServerRequests` both extend `FlopscopeServer`, so there is
one definition of how a request is handled. The budget of a server session is a
context of the ledger used by a single thread; `FlopscopeServer` keeps only its
counter, `used`.

Operators introduced by a comment that says *Mutant* are faulty variants of the
definition that follows them. No specification uses them; substituting one for
its definition must violate the property `PROJECT.json` names for it, which
shows that the property depends on that line of the code.

### BudgetLedger and the code

`used`, `recorded`, `unrolled`, `counted` are `_flops_used`,
`_recorded_flops_used`, the FLOPs in `_unrecorded_rollup` and
`_budget_recorded` of each context. `accUsed`, `accRollup` and `accBudget` split
the accumulator's totals by context, which the code does not do but which no
action reads. `active` is the thread-local active context, `global` is
`_global_default` and `built` the default contexts constructed so far.

* `Enter`, `Exit` are `__enter__` and the part of `__exit__` before `record`. A
  thread may enter a context over the global default, not over another one: a thread
  whose default was replaced is refused.
* `RequireBudget`, `CreateDefault`, `AdoptDefault`, `ReturnDefault` are the steps of
  `require_budget()` and `_get_global_default()`, which take no lock: look at the
  global, store a new default in it, read it again for the thread's active context,
  and once more for the operation to be charged to. Two threads that both find no
  default build one each. The one that was overwritten, `Orphaned`, is in the
  summaries of no thread but those that have it active, and a thread can adopt the
  default of another.
* `Deduct` is `deduct()`: check, charge and open the timer, under one lock.
  `BeginDeferred` and `FinishDeferred` are the two ends of a `deduct_after()`
  block; `FinishUpfront` ends a `deduct()` block.
* `Merge`, `Commit`, `CommitClose` are the critical sections of
  `BudgetAccumulator.record()`, which holds the accumulator's lock across three
  sections of the context's lock. An operation of another thread on the same
  context may run between them.
* `CallReset`, `ClearAccumulator`, `Baseline`, `ResetReturns` are
  `budget_reset()`: the accumulator is cleared in one section, then every
  context is baselined in one of its own.

`program` states how a behaviour uses the library, and stays as it is: which
contexts it opens, which of them have a deadline, and two switches. `exclusive`:
no context is open in two threads. `quiescent`: while one thread resets, the
others have no explicit context open. A program with both is `Orderly`; the
properties that need that say so, the others hold of every program. Durations,
namespaces and operation names are left out; a deadline is a Boolean that turns
true at any moment.

### FlopscopeServer, ServerRequests and the code

A request is one step because the server's loop is single-threaded. `Handle`
dispatches as `_process_request` does: `hello` and lifecycle requests first, then
the refusal without a session (`NoSession`), then the handlers. An operation is
described by what the protocol sees of it: its cost, the slots reserved for it
(`reserve`, from `_prospective_handle_count`), the arrays of its result
(`arrays`), and whether the result can be delivered. A kernel that raises after
it was charged is one whose result cannot be delivered: the charge stays and the
response is an error that carries the budget. `Refusal` has the order of
`_dispatch`: capacity, then handles, then the budget. `Run` is the charge and
`_pack_result`, which checks a result as a whole before storing any of it.

The handle store survives `CloseSession`, as in `Session.close()`, and handles
come from a counter that is never reset.

`ServerRequests` adds the accumulator (`past`, the FLOPs of closed sessions),
`budget_summary_reset`, idle polls, and histories of what was delivered and
spent.

### RemoteSession and the code

`phase` is the place in `send_recv`: the queue of frees is copied (`CopyPending`)
and cleared (`ClearPending`) in two steps because a finalizer can run between the
two lines of `drain_pending()`; a handshake precedes the first request of a
socket; a non-empty batch of frees is sent and its response ignored; then the
request itself. `Receipt` is what the caller does with the response, including
`_sync_active_context_from_response`, which runs before an error is raised.

A timeout can strike whenever a response is awaited. `ResetSocket` numbers the
sockets: the old request is either lost (`close(linger=0)`) or already on its
way, and its response reaches nobody (`DropResponse`). While frees are flushed
the exception is swallowed (`FlushTimesOut`); anywhere else it is raised to the
program (`CallTimesOut`).

`Exit` and `Summary` are the calls of the program that holds the context open;
a second `__exit__` of a closed context sends nothing and is not modelled.

`Ordered` says that no request overtakes one sent earlier on an older socket: the
transport is a Unix socket or a single TCP hop and the server reads its peers in
turn. It is needed for `CountNeverAhead` only: a `budget_open` that overtakes a
later close opens a session the client takes for its own. `ProxiesBacked` does
not depend on it.

### WriteEpoch and the code

A root is the array that ends a view chain (`buffer_root`), `at` the extent it
covers (`_extent_key`), `epochs` and `witness` are `_EPOCHS` and `_ROOTS`. A
tensor keeps its root, its `_symmetry_epoch` and whether `_symmetry_raw` is set;
which group it carries does not matter, so `content` says only whether the data
is invariant exactly, within the tolerance, or not at all.

* `AsSymmetric` tags a view of exact data and a corrected copy of data that is
  invariant within the tolerance. `View` and `Copy` pass a tag on if the getter
  finds it; the getter's latch is `Latched`.
* `Write` is any counted write through any alias of a root, whether or not it
  changes the data. One thread runs, so a write and its note are one step.
* `Die` is the collection of a root, and `Drop` the finalizer `note_write`
  installed, which runs only for the root the count was first seen through.
* `Make` uses memory that no root covers, with arbitrary data; `Share` builds a
  second root over memory in use, as two `frombuffer` calls of one exporter do.

`lost` is a history: the tensors whose count was dropped while they observed it,
and those whose tag was passed on from such a tensor. `TagHonest` and
`VoidForGood` hold of all others.

### OpTimers and the code

One thread's operations nest, so what is in progress is a stack of frames, each
with the values its code keeps in locals or in the timer: where it started, the
totals then (`base`), the duration of the current timer then (`mark`), and what
it has collected (`own`: `_backend_duration_s` of a timer, `callback_wall_s` of a
tracker).

* `wrapper` is a call of a `_counted_wrapper`, `timer` a `deduct` or
  `deduct_after` block, `call` and `tracked` a `_LiveBackendCall` without and with
  a profiling tracker, `root` a Python frame entered from a tracked call,
  `callback` a `_call_user_code`. Each kind has an action that opens it and one
  that closes it.
* A callback runs before its operation opens a timer, as in `apply_along_axis`,
  `fromfunction` and the others; a timer can still be open further down the stack.
* `Reset` is `_mark_reset_baseline()`: timers, calls and roots restart at the time
  of the reset, wrappers and callbacks keep what they have.
* `Tick` is the passing of time. `spent` is a history of what the innermost frame
  was doing at each tick, against which the totals are compared.

`blurred` records two cases in which the code is not exact: a callback within a
callback, and a reset inside a wrapper. `SplitExact` holds in all others. A raw
numpy call that a wrapper makes outside any block of its own while the timer of
an outer operation is current (`save` inside a callback of numpy) is not
modelled.

### TensorTags and the code

An array is its shape, its data, its tag and how it came by the tag (`kind`:
none, declared, or inferred from a constant fill, as `_symmetry_inferred`). The
data is what the tags are about: `val` says which cells hold the same value
whatever values the program started with, so two cells are equal only where an
operation forces them to be, and a tag that holds of `val` holds of every array
made that way. A program is a chain: each step makes an array from the last one,
with one of the starting arrays as the second operand where there is one.

* `Transport...`, `BroadcastGroup`, `ReduceGroup`, `SliceGroup` and
  `PointwiseSymmetry` are the rules, one per function of the source; the helpers
  above them (`Project`, `RestrictTo`, `Intersect`, `DirectProduct`, `Remap`) are
  those of `_symmetry_utils.py` and `SymmetryGroup`. `Transpose`, `Reshape`, ...
  are the operations, with what numpy does to the data beside the rule.
* `Delivers` is a result with or without a destination. A destination refuses
  (`Refuses`), gives its tag up, or is checked and tagged (`Written`), as in
  `_prepare_symmetric_out`, `_validate_result_symmetry` and `_wrap_result`.
* `Reduce` stands for every reduction: over one axis its value may depend on the
  order (`argmax`), over several only on how often each value occurs. `Scan` is
  the cumulative reductions of `_counted_reduction`.

`sound` is a history: no step that made the array is one of three whose rule is
known to be wrong (`FindsJoinedAxis`, `AlignsAll`, `SameExtents`, see below).
`TagsTrue` holds of all chains without them, `EveryTagTrue` is what the
documentation says.

Left out: arrays without elements (`_zero_size_guard` keeps most of them from the rules);
`where=` masks; `axis=None` of `repeat` and `roll`, which drop the tag; advanced
indices and `newaxis` (which follows `expand_dims`); `vstack`, `hstack`,
`column_stack` and `atleast_nd`, which are reshapes followed by modelled rules;
`ufunc.accumulate`; constructors other than a constant fill. Arrays share no
memory here: `WriteEpoch` is about that. The tolerance of the check of a
destination is exact equality. A known kind of a group (symmetric, cyclic) is a
shortcut for its elements and gives the same groups. A call that raises leaves
the arrays as they are.

An index drops axes by integers and cuts others by slices of any start and step,
backwards too (`Cuts`), that leave at least a cell. A slice that leaves none makes an
array without elements, which is left out with the rest of these: the rules do meet
some (broadcasting an axis of extent one to extent zero keeps it in the group,
`_symmetry_utils.py:595`), but every tag is true of no data.

### The pricing modules and the code

`AccumulationRegimes` has no state: the closure of a group (`Dimino`, `_dimino` as a
recursive function of the elements seen so far), its stabilizers, the components of a
set of labels, and the regimes of the ladder (functional projection, one label, Young
groups, typed partitions), each as the code counts it, next to `Accumulations`, the set
that is being counted. `EinsumSymmetry` has the detection: renamings found from row
groups and copies of one object, and `HoldsPointwise`, whether a renaming leaves every
product alone. `SubgraphSymmetry` is the oracle of a path: three sources of generators,
and the candidates for the price of a step.

`EinsumPricing` is `compute_accumulation_cost` and its cache. A call is a stack of
frames, because a contraction with labels of one operand alone is reduced first
and what is left is priced through the same cache, as are the steps of a path.
`Enumerate`, `Select` and `Close` are the detection within the Dimino budget, with
the candidates in any order; `Reduce` and `Combine` a contraction that is reduced
first; `Contract`, `SettleStep`, `Restore` and `Finish` a path, of which any may
have been found. `Restore` ends the stretch in which a thread has replaced the
global Dimino budget to count a joint group; `saved` is the one it read before.
`Configure` changes a budget between any two steps of another thread.

What a program may ask for is `IsContraction`: declared symmetry acts on axes of one
size, copies of one object have its shape and its symmetry. An operand remembers in
`whole` the labels and the symmetry it had before a reduction or a path summed some
of its axes, so that "the products are the same" can be said of whole tensors.

Simplifications: reductions of symmetric operands may be refused whatever their
size; the enumeration of components is checked against the whole group; the sizes
of a label agree in all operands; the labels of one operand of a path are
distinct; two adjacent reads of the budget before the override are one step; the
billing of complex products is left out. The Dimino budget is not part of the
cache key, in the code as in the model, so that a dense price outlives the budget
it was given under: `PriceTrue` is about prices that are not dense.

## Runs

| Run | Instance | Shows |
|---|---|---|
| `ledger` | 2 threads, budgets 2, two defaults with budget 1, costs 1 and 2; either 2 contexts used by one thread at a time with quiescent resets, or 1 shared context with a deadline and resets at any time (2,303,767 states) | in an orderly program the ledger implements `SessionMeter`, reports are complete but for defaults that were replaced, resets forget and the session budget matches the usage; enforcement, coherence and single counting survive sharing |
| `ledger_reset_race` (violation) | 2 threads, 1 context | `budget_reset()` racing a close brings back FLOPs spent before it |
| `server_requests` | budget 3, 3 slots, 4 handles, 7 kinds of operation | bounded store, nothing stranded, charges reported, free refusals, summary complete |
| `remote_faulty` | 2 timeouts, reaping, 3 handles | until the first timeout or reaping session and count agree between calls; proxies are backed, the count is never ahead, calls end, idle sessions end |
| `remote_leak` (violation) | 1 handle, no timeout | a refused `free` loses its array for good |
| `tag_epochs` | 3 roots, 2 extents, 2 tensors, 2 writes per count | a tag present is true, a void tag stays void, counts die with their buffers |
| `tag_revived` (violation) | 2 roots, 1 extent, 1 tensor | a dropped count revives a tag |
| `timers` | 6 frames, 2 ticks, 1 reset | the split is exact when nothing is in progress; no instant counts twice, until a reset with a wrapper open or a callback in a callback after a reset |
| `timers_callback` (violation) | 4 frames, 2 ticks, no reset | a callback within a callback costs the outer operation its overhead |
| `einsum_pricing` | 2 threads, 16 contractions of one to three operands, Dimino budgets 3 and 50, partition budgets 4 and 100, 2 calls, 1 configuration (217,310 states) | what is detected holds, regimes count what they stand for, prices that are not dense are true (too low where a reduction parts copies) and never above those without symmetry, budgets of a call hold for it and every step of its path, whatever order and schedule |
| `tensor_tags` | 11 starting arrays of up to 4 axes and 16 cells, 5 destinations, chains of 2 operations (17,758 states) | tags are true of the data but for three rules; moving axes and elementwise functions lose no symmetry |
| `tensor_false_tag` (violation) | the same | joining along a negative axis keeps the exchange of the joined axis |

Bounds. Two threads are enough for every race of the ledger: a race needs one
thread inside a close or a reset and one beside it, and the proofs remove the
bound for the invariants they cover. Threads are interchangeable, and TLC uses
that symmetry. A budget of 2 with costs 1 and 2 has an
operation that fits, one that exhausts and one that overshoots. Two defaults let one
replace the other; with a budget of 1 a default takes a charge and is full. In the server,
3 slots with results of 0, 1 and 2 arrays reach the full store, the last slot,
and a result larger than its reservation. `MaxHandles` caps how many handles a run
mints, `MaxPast` the FLOPs of closed sessions, `MaxTimeouts` the receive
timeouts; they bound the state space and appear only in guards that choose what
the environment does. Two timeouts allow a request of each of two dropped sockets
to be in flight at once, beside the current one.

`MaxWrites` caps the count of an extent. Two roots over one extent and a third for
a copy, two tensors that pass a tag on, and two writes, so that a count can pass
the stamp of a copied tag, are the least that lets each mutant bite. Roots, extents
and tensors are interchangeable, and TLC uses that symmetry.

Time in `OpTimers` is a number of ticks: `MaxTime` caps it, `MaxDepth` the frames
open at once. Six frames hold a tracked call, its root, and an operation with a
timed call inside it; a misattribution needs one tick in an inner frame and one in
an outer frame. A run of five frames and three ticks agrees.

In `TensorTags` the rank is at most 4 and an array has at most 16 cells. The
starting arrays have the groups the rules tell apart: full, cyclic, on some of the
axes, on all axes with one that is fixed, and one that exchanges two pairs of axes
together, without which an index may drop a pair as if its axes were alike. A
chain of two lets each rule act on the result of every other. Extents are 1 and 2,
so that they can be equal, differ, and be stretched.

The contractions of `MCEinsumPricing` are chosen for the regimes: products of a
matrix with itself and its transpose, a symmetric operand traced in part, labels
summed in one operand alone, empty axes in a single contraction and in a step of a
path, sizes that differ, and seven paths, one of them with a step that needs more than 4
partitions. Budgets of 3 and 4 refuse some of the groups and partition counts, 50 and
100 none.

Fairness. `FairSpec` of `RemoteSession` assumes weak fairness of three things: a
call in progress (a thread of Python that is not blocked runs), the server's loop
(which never stops), and the idle poll (`RCVTIMEO` of one second, repeated while no
request comes). Nothing is assumed of the program: it may stop calling and keep
its proxies. Timeouts are not fair; a call that awaits a response to its current
socket is answered by the server's loop. No other run needs fairness: that a call
of `EinsumPricing` is answered shows as the absence of deadlock, since `Idle` is
possible only when nothing is being priced. `TensorTags` ends with its chain, so
its runs do not look for deadlock.

## What is proved

`BudgetLedgerProofs`, for any sets of threads, contexts and costs and any budgets,
whether or not threads share contexts and reset concurrently:

* `LedgerTypes`: `TypeOK`;
* `LedgerEnforced`: no context is charged past its budget;
* `LedgerCoherent`: rollups and counters agree;
* `LedgerCountsOnce`: the session total holds no FLOP twice.

The last three follow from one inductive invariant, `LedgerInvariant`. None but
`Enforced` and `SummaryCoherent` is inductive alone: `NeverDoubleCounted` needs
`LockOwned`, that a close which has merged its delta holds the accumulator's
lock, since otherwise a second close of the same context could merge the same
delta before the first has moved the boundary. Three lemmas carry the steps: a
charge keeps the books, a step that moves no FLOP keeps them, and a new boundary
(of a commit or a reset) keeps them. The assumptions are those named in
`BudgetLedger`: defaults, explicit contexts and the absent values are distinct,
contexts are finitely many (`FiniteAssumption`), budgets are positive integers, costs
are naturals.

The second half of `BudgetLedgerProofs`, for the same constants and programs that are
orderly where the property says so:

* `LedgerImplementsMeter`: the ledger implements `SessionMeter`, so that every FLOP
  enters the session total once, when it is charged, and only two things lower it: a
  reset, and a thread that replaces the default another one has just created, whose
  FLOPs are in no total from then on;
* `LedgerResetForgets`: nothing that was spent before a reset comes back after it;
* `LedgerBudgetBacks`: usage in the accumulator is backed by the budget it was spent
  from;
* `LedgerOwnViewComplete`: a thread that alone has contexts open reads the whole
  session, except what was charged to replaced defaults other than its own active
  context. Context by context (`LedgerOwnViewParts`), what the session total holds and
  the accumulator does not is the unrecorded usage of the global default or of the
  thread's own context, both of which its report adds, or that of a replaced default.
  The sums themselves are folds over the contexts, finitely many by `FiniteAssumption`:
  that the fold exists (`AddsExists`), takes its elements in any order (`AddsAny`) and
  distributes over addition (`SumsAdd`) is shown from the smallest set of contexts for
  which it would not.

The inductive invariant `OrderlyInv` has five parts. `ThreadInv`: an operation is
charged to the context its thread has active, a thread that closes a context has left
it, and one thread at most is inside a reset. `DefaultInv`: no default is active,
charged or returned to before it is built, the global is one that was built, and nothing
of a default is ever in the accumulator. `QuietInv`: a boundary is never above the
usage; when resets are quiescent, nobody else has a context open or closes one during a
reset, and what was spent before it is behind every boundary when it returns.
`ExclusiveInv`: a context has one thread, and once it is closed all its usage is
recorded. `BackedInv`: a context's budget is in the accumulator at most once, and is
there when some of its usage is; the flag `counted` and a pending close say which.
`ExclusiveInv` is what the refinement needs: without it, the charge of a second user
between the two sections of a commit is in no total, and the step is neither a charge
nor a stutter of the meter.

`ServerRequestsProofs`, on the lemmas of `FlopscopeServerProofs`, for every capacity,
budget, set of operations and sequence of requests:

* `ServerTypes`: `TypeOK`;
* `ServerStoreBounded`: the store never exceeds its capacity, although the number of
  arrays of a result is known only after it was charged;
* `ServerStrandsNothing`: every array in the store was handed to the client;
* `ServerSummaryAccounts`: the session summary holds what was spent since its reset;
* `ServerReportsCharges`: a step that charges tells the client the new count;
* `ServerRefusesBeforeCharge`: a refusal for lack of reserved slots is free.

The invariant is `RequestInv`: the store holds handles below the counter and no more
than there are slots (`StoreInv`), together with `NoStranding` and `SummaryAccounts`.
`NewHandlesAreNew` is where the counter matters: a result cannot be given the handle
of an array still in the store. The action properties follow from the case analysis
of `Handle` (`HandleOutcomes`).

`RemoteSessionProofs`, for any number of handles, timeouts, sockets and requests in
flight:

* `RemoteTypes`: `TypeOK`, and that a count is never `None`;
* `RemoteProxiesBacked`: a proxy's array is in the store, although frees are delayed,
  repeated and overtaken; `Ordered` is not assumed;
* `RemoteSessionAgreed` and `RemoteCountCurrent`: until the first timeout or reaping,
  client and server agree on the session, and on its count, between calls;
* `RemoteCountNeverAhead`: under `Ordered`, the client never claims more than was spent
  in the session it believes to be open.

Each rests on its own invariant over `ProtocolInv` (what each phase has sent and
awaits). `HandleInv`: live, doomed and undelivered handles are disjoint, below the
counter, and in the store unless freed, so a late `free` cannot name an array that
somebody else holds. `AgreementInv` and `CurrentInv` follow the one call of an
undisturbed conversation from its request to its answer. `AheadInv`: a response of the
open session reports no more than was used, once the current request is answered nothing
older is on its way, and no `budget_open` is while a context is active. The last two
need `Ordered`: a late `budget_open` served after the client's own would restart the
count under it. The assumptions are that the absent value is neither a context, a number
nor a response (`ClientAssumption`, `ServerAssumption`, `NoneAssumption`), that the
bounds are naturals and that kernels are typed (`KernelAssumption`).

`OpTimersProofs`, for any depth of frames, length of a run and number of resets:

* `TimersTypes`: `TypeOK`;
* `TimersNothingTwice`: until the first reset, and after a reset with no wrapper open
  until a callback runs in a callback, no instant is credited twice, in whatever state
  the frames are. After a reset inside an open wrapper nothing of the kind is true:
  the wrapper is not rebased, and flopscope is credited with more than passed since;
* `TimersSplitExact`: once nothing is in progress the split is exact, but for the two
  cases `blurred` names.

Neither is inductive, since what a frame will pay depends on what frames above it were
paid. The invariant `TimersInv` cuts the time of a run at the opening of each open
frame. Between two cuts a frame has an account (`Segment`): what passed, by what the
thread was doing; the ticks the frame itself was innermost; what the totals grew by; and
what its calls gave to the timer. Of what passed in frames that are closed, neither
bucket got more than passed in it, nobody's time was left over, and all is exact unless
blurred. A tick goes to one account, opening a frame starts one, and closing a frame
settles it (`OwedSettles`, one case per kind of frame) and merges it into the account
of the frame below (`SegmentsMerge`). `NestInv` says which timer is current: a frame
that closes credits the timer its code remembers, and the invariant shows that this is
the innermost one. `CallbackInv` is the reason for the exception of `blurred`: outside
of it, nothing inside a callback is the program's own time, so that what
`_call_user_code` does not subtract is zero.

`WriteEpochProofs`, for any sets of roots, extents and tensors and any bound on
writes, with roots sharing memory as they please:

* `EpochTypes`: `TypeOK`;
* `TagsHonest`: a tag that reads as present is true of the data;
* `CountsDieWithBuffers`: memory used again starts from zero;
* `VoidTagsStayVoid`: the action property `VoidForGood`.

The inductive invariant `EpochInv` adds that a tensor's root and a count's witness
are alive and that no tag is stamped with a count its buffer has not reached. The
argument splits a step by what becomes of one tensor (`TensorFates`): it is kept,
and the count of its buffer grows or neither count nor data changes
(`KeptTensor`); it is born with no tag or a true one (`BornTensor`); or it is not
there afterwards. The assumptions are that the absent value is neither a root nor
an extent and that the bound is a natural.

`TensorTagsProofs`, for arrays of any rank, shape and data,
groups of any axes and permutations, and chains of any length:

* `TagsStayTrue`: `TagsTrue`, that a tag is true of the data after any chain of
  operations, but for the three rules that are named;
* `ArraysStayHonest`: the inductive invariant `Honest` behind it;
* `TransposeKeepsTags`, `FlipKeepsTags`, `SplitKeepsTags`, `ReshapeKeepsTags`, ...: one
  theorem per operation, that an honest array becomes an honest array;
* `DestinationsKeepTags`: a destination has a true tag after a call, or none,
  whatever symmetry the rule of the operation claims, also where that rule is one
  of the three that are wrong;
* `SymmetryIsKept`: the action property `MovesKeepSymmetry`, that operations which move
  axes, add axes or apply a function lose no permutation;
* `ArraysStayTyped`: `TypeOK`, that a tag is never a group of order one, and names no
  axis twice and none the array does not have.

`TagsTrue` is not inductive: a rule can only be right about arrays whose shape, data
and tag fit each other. `Honest` adds that (`Typed`): the data is indexed by the shape,
the group acts on axes the array has (`Fits`) by permutations of them (`WellFormed`).
It says nothing of the truth of tags of arrays that are not `sound`, but their shapes
must fit, since destinations and operands may be of that kind.

The assumptions are that the arrays a program starts with, and the destinations it has,
are honest and as an array can be (`ArraysAssumption`: `as_symmetric` checks the data it
is given a symmetry for, and `_normalize_axes` that axes are unique), that no array has
an axis of extent zero, that shapes are sequences of such extents (`ShapesAssumption`,
`BoundsAssumption`), and, for `SymmetryIsKept` alone, that having no group is not itself
a group (`NoneAssumption`). The bounds on the rank and the size of an array and on the
length of a chain are used only where `TypeOK` states them. The one thing
`ArraysAssumption` asks that the code does not is that no array starts with a group of
order one: a program may declare the group of the identity alone, which exchanges
nothing, and the model leaves such tags out.

The argument has three parts.

* *Operations that read cells.* Most results read each of their cells from a cell of
  the operand, found axis by axis. A permutation of the result's axes keeps the data
  if reading carries it to a permutation of the operand's axes that does (`Carries`,
  `Keeps`, `Reads`). What is left for each rule is that the permutations it keeps are
  carried: those that fix, or map to itself, the axis that is cut, joined or reversed,
  restricted to the axes that stay and renamed as these are (`RenamedPermutes`).
  An intersection of groups holds of both operands, a direct product of what each
  factor holds of.
* *Reductions.* A permutation that maps the reduced axes to themselves maps the cells
  reduced into one result to the cells reduced into another, one to one, so that
  every value occurs as often. Over one axis it fixes it, so that the order is the same.
* *`reshape`.* The walk gives each axis of the group a place with the same extent and
  the same product of extents before it; the sizes agree, so each has the same stride
  in row-major order. Exchanging two digits of equal stride moves the position by as
  much on both sides, a cell is permuted by a step for each axis, and a position has
  one cell (the digits of a number are unique). `SameExtents` is where the strides of
  the group would differ.

For `SymmetryIsKept` groups are counted: renaming is one to one (`RemapOrder`), a
direct product has a permutation for each pair (`FactorsOrder`), and the axes of extent
one have as many bijections as there are of as many numbers (`BijectionsAlike`).

For `ArraysStayTyped` each rule is shown to make a proper group of proper ones
(`Proper`): what is kept of a group is renamed one to one (`RemapProper`), restricted
to axes its permutations map to themselves (`ProjectProper`: `StabilizingMaps`,
`FixingMaps`), intersected (`IntersectProper`) or joined with a group of other axes
(`DirectProductProper`). `TypeOK` is inductive only next to `Honest`, which says that
the permutations of a tag are functions of its axes, so that restricting them makes
functions again.

The row-major position and the products of extents are recursive functions; that they
exist and what they are one axis further follows from their definition, and facts
about all prefixes from the least prefix where they could fail.

`EinsumPricingProofs`, for any contractions that can be asked for, any number of
threads, calls and changes, and any budgets:

* `CallsAreNested`: the inductive invariant `Inv`;
* `LimitsAreHonoured`: `LimitHonoured`, that no call is answered with a count that
  needed more partitions than its budget, through the shared cache, after reductions
  and changes of the budget, neither for the contraction nor, with a path, for any of
  the steps it took. The reductions themselves are not covered, see below;
* `ConfigurationSticks`: `ConfigureSticks`, that only a thread which had saved an
  earlier budget undoes a `configure()`;
* `KeptGeneratorsSuffice`: `GeneratorsSuffice`, that the candidates which are kept
  generate exactly the group of the detected renamings, in whatever order they come;
* `DetectedRenamingsHold`: `DetectedHolds`, that a detected renaming keeps the sizes
  of labels and every product, given `RelabelsKeepSizes`;
* `ResultSymmetryIsTrue`: `ResultSymmetryHolds`, that the symmetry the oracle gives a
  result is true of it.

The assumptions are `ContractionAssumption`, what `einsum` accepts less broadcast
labels and labels repeated in one operand of a path, and `PricingAssumption`, that the
settings have values, which are naturals.

None of the properties is inductive. `Inv` says of every frame of every call that it
prices an expression that is known (`GoodFrame`); of every caller that it stands at the
statement that reads the answer of the frame above it, and that this frame has its limit
and prices what is left of its expression, or a step of it (`Linked`, `GoodStack`); of
prices, of what is left, in the cache and in answers, that one which is not a fallback
needed no more partitions than the limit (`Honoured`, `Remembered`, `Answers`); of saved
budgets that they were set (`Saved`); and of a selection in progress that every renaming
is a candidate still or is generated by those that were kept (`Selecting`); of a path,
that as long as no step has fallen back, the sets of operands that are left belong to a
path whose steps the limit allows (`Walked`). A limit travels from call to residual to
step, through the cache, and a price comes back through as many frames, so that
`LimitHonoured` needs all of these but the saved budgets, on which `ConfigureSticks`
rests; `Selecting` also gives `KeptGeneratorsSuffice`. There is one lemma per action
(`SelectKeeps`, `SettleStepKeeps`, ...), over lemmas about a stack whose top frame is
pushed, popped or goes on (`TopPushed`, `TopPopped`, `TopSet`).

* *Groups.* `DiminoIsLeast` is what the others rest on: what `_dimino`
  ends with is the least set with the identity and the generators that the generators
  do not lead out of. So every invariant of the generators is one of the group, and the
  group is closed under products (`DiminoCloses`, `DiminoPermutes`, `DiminoCancels`).
  The proof needs no induction over data: the function of least sets is a solution of
  the recursion, so there is one, and of the sets where another solution differs from
  it a maximal one could grow no further (`MaximalSubset`).
* *Detection.* The movements of rows that are enumerated, operands within their class
  and axes within the group of their operand, are closed under composition
  (`WreathIsGroup`); of two of them that induce renamings, so does the composition
  (`InducedFacts`); the renamings are finitely many and form a group
  (`RenamingsAreGroup`). A candidate that adds no element is therefore generated already,
  and passing it over loses nothing (`RedundantIsGenerated`).
* *Products.* A detected renaming reads the entry of each operand from one of the same
  tensor at an index its declared symmetry allows, and the operands are exchanged one to
  one, so that a product has the same factors, as often (`RenamingMoves`, `SymbolsAgree`,
  `ProductsAgree`). It needs an expression to be `Truthful`: the group that acts on the
  axes of an operand is one the tensor has. For a contraction that was asked for this is
  what was declared. For a step of a path it is to be shown of the oracle
  (`StepIsTruthful`): its movements keep sizes (`RowsKeepSizes`), a subset of one operand
  is moved within its declared symmetry (`AloneMoves`), a larger one is a tensor of its
  own with the symmetry the oracle gave it. Reductions keep what the operand was before
  (`WholeIsKept`).
* *Results.* Where nothing is relabelled, what the oracle finds for a whole contraction
  is among what is detected (`OracleIsDetected`): an operand's own symmetry and an
  exchange of copies are movements of the enumerated kind. A renaming that keeps products
  and output labels maps the indices summed into an entry of the result one to one to
  those summed into another (`CellsAgree`).

`RelabelsKeepSizes` is a hypothesis of `DetectedRenamingsHold`, since the property is
false without it. The third source of the oracle relabels copies by any two of their
summed axes and compares no sizes. For `A` with axes `iabk` of sizes 2, 2, 3, 3 and the
exchanges `i`-`a` and `b`-`k` declared, in `iabk,iabk,p,q->ikp`, it exchanges `a` with
`b` in both copies, and together with what is declared this makes `i` and `k`
exchangeable, which have different sizes. If the copies are contracted with each other
directly, counting the joint group raises (`JointRaises`); if one is contracted with `q`
first, nothing compares the sizes, and the next step detects the false renaming: TLC
finds `DetectedHolds` violated with this contraction as the only program and a Dimino
budget of 5000, after 900 states. Where the summed axes of such copies have one size, as
in the instance of `einsum_pricing`, the hypothesis holds; so it does where no object is
contracted with itself in a path.

Only model-checked. Liveness is out of the prover's reach: `CallsEnd` and
`IdleSessionsEnd`. Of the pricing, `LadderCounts`, `PriceTrue` and `SymmetryNeverCosts`
are equations between counts (Burnside's lemma, Young's orbits, sums over partitions of
the labels) whose proof is an induction over the sum that is computed; `TypeOK` of
`EinsumPricing` is beside them, because that a price is a natural rests on the
same sums. `HandlesAccounted`, `ResetForgets`, `LossVoids`, `OverheadComplete` and
`EveryTagTrue` are false, and their runs show how.

## Where the code and its documentation part

* `budget_reset()` is not atomic (`ledger_reset_race`).
* Deadlines are not looked at before the kernel of a deferred operation, although
  the documentation speaks of a check before and after each call. `FinishDeferred`
  shows it; no run is spent on it.
* A callback within a callback is counted twice as the program's time
  (`timers_callback`). A reset inside a counted wrapper leaves the wrapper's time
  before it in the overhead after it, so that more overhead is reported than passed.
* Two threads that make their first operation at once can each create a global default
  (`_budget.py:2362`). What is charged to the one that is overwritten is in no session
  summary but those of the threads that have it active, and such a thread can no longer
  enter a context: it is told not to nest them.
* A free flushed while no session is open is lost (`remote_leak`). The same
  property also fails when a finalizer runs between the two lines of
  `drain_pending()`, with two handles or more.
* A count dropped with the first root seen revives tags of another root over the
  same memory (`tag_revived`).
* An unacknowledged close cannot be retried if it was served: after `CallTimesOut`
  of such a close, `Exit` is answered `NoBudgetContextError` for ever. A test says
  that a close which was not acknowledged remains retryable, with a close that was
  not served.

Of symmetry tags:

* `transport_concatenate` resolves a negative axis against the wrong rank when a
  group acts on all axes (`tensor_false_tag`): `concatenate([S, T], axis=-1)` of
  symmetric matrices is tagged as symmetric, with a shape that is not square.
* `_pointwise_symmetry` skips an operand whose group vanishes when it is broadcast:
  a vector expanded to `(1, 1, n)`, which carries the exchange of its two new
  axes, added to a fully symmetric `(n, n, n)` gives a result tagged as fully
  symmetric. The guide says that binary operations keep only the symmetry present
  in both operands (`AlignsAll`).
* `transport_reshape` takes all axes of a group to have the extent of the first:
  the exchange of axes 1 and 2 as a group of all four axes of `(2, 1, 1, 8)`
  becomes a group of `(2, 2, 2, 2)` (`SameExtents`).
* `broadcast_group` restricts a group to the axes that are not stretched without
  taking the stabilizer first, and `ones((1, 1, 1))` broadcast to `(1, 1, 3)`
  raises `KeyError` (`BroadcastAccepts`).
* Reductions and elementwise functions tag their result without looking at a
  `where=` mask, and `SymmetricTensor.transpose` refuses negative axes.
* The guide's table says that `s2_matrix[:3, :3]` stays a `SymmetricTensor`; the
  rule drops every group one of whose axes is cut, which is the safe side.

Of prices:

* The path of three and more operands is walked outside the handler of
  `compute_accumulation_cost`: a subset whose group is larger than the Dimino budget
  raises, where the docstring promises a warning and the dense price (`OracleRaises`).
* A contraction that is reduced first is priced with the identity pattern it had before:
  `pij,jiq->` of one array twice is charged 47 where its residual has 53, and
  `pqi,ijr->ij` raises `IndexError`. `PriceTrue` compares with the copies that are left
  (`Genuine`): where a reduction parts them (`Parted`), it says that the price is not
  above the right one, since it is not equal to it (13 and 15 in the instance).
* A price that was given up can be above the one without symmetry: `ijp,jk->ik` with a
  symmetric operand under a Dimino budget of 3 costs 48, where the same contraction of
  plain arrays, which is reduced over `p` first, costs 22. `SymmetryNeverCosts` bounds
  such prices by the dense one.
* Reductions before a contraction are counted within the partition budget of the
  settings at that moment (`_accumulation/_public.py:159`), not within the one the call
  was made with: after `configure()` from 4 to 100, a call of budget 4 can be answered,
  and cached under that budget, with a reduction that needed more partitions.
* Copies that are relabelled together in the symmetry of a subset can give a result a
  symmetry it lacks (`ab,ab,aibj->ij` of one array twice), the docstring knows of two
  sources, the code has three. `ResultSymmetryHolds` leaves these out. The sizes of the
  axes that are exchanged are not compared either (`RelabelsKeepSizes`), which the proof
  of `DetectedRenamingsHold` brought to light.
* `a,b,c->c` with one vector twice raises `ValueError` on its way to a price.
* `configure()` in one thread is undone when another counts a joint group
  (`ConfigureSticks` allows this and nothing else). Called with several settings, it
  applies those before the one it refuses.
* The budget of group elements is shared by all attempts of a detection, so groups well
  below the size its documentation names can be given up.

## Not modelled

* Of the ledger: the wall time of a context, durations and namespaces of operations,
  the snapshot caches. Of the server: the generator store, the control token,
  encoding failures. Of the client: the local `budget_reset()`.
* Of the wrappers: the price formulas of single operations (they are arithmetic on
  shapes, covered by the package's own tests), dtype billing, and the parts of the
  transport of tags listed above. Linear algebra, Fourier transforms, random numbers
  and statistics delegate to numpy and enter the ledger like any operation.
* Contraction paths are found by a heuristic whose result affects the price and not
  its correctness; `EinsumPricing` allows every path.
* A restart of the server under a living client is excluded, as the deployment
  documentation couples the two lifetimes.
* Data computation, formatting and encoding; generators of documentation, scripts
  and the web site.

The share of the implementation that is mapped is bounded by this: most of its lines
are wrappers of numpy functions that repeat one pattern (prepare, deduct, call, wrap),
which is modelled once.

## Plan

1. `WriteEpoch`: overlapping extents. `OpTimers`: the wall time of a context.
2. The generator store, the control token, the local `budget_reset()` of the client
   and session-wide summaries, as further requests of the same modules.
3. Dtype resolution and the truncation of adjusted costs.
