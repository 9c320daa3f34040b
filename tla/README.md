# Verification of the split-level I/O schedulers

This directory models the split-level I/O scheduling framework for Linux
(`src/patches/`, the hooks in the kernel, and `src/modules/`, the schedulers)
in TLA+. TLC checks small instances, TLAPS proves the most important
properties for every instance.

## 1. The system

The framework lets an I/O scheduler act at three levels: when a system call
enters the kernel (`fsync`, `write`, `mkdir`, `create`), when a page or buffer is
dirtied, and when a block request is queued and dispatched. *Cause tags* travel
with dirty data and tell a request's scheduler on whose behalf it is written.

| Part | Source | State | Operations |
|---|---|---|---|
| AFQ, batch protocol | `modules/acct_afq_sched.c` | `io_work_list_head` per account, `active_acct_list`, `keep_wait`, `inflight`, `batch_wait_timer`, `io_batch_desc.one_loop_work`, `owner_batch` | entry and return hooks of three system calls, add/complete request, dispatch (want, select, submit), timer handler, polling thread |
| AFQ, fairness | same | `vio_counter`, `global_min_vio_counter(2)`, `min_acct`, slices, `seq_counter` | charging by causes, minimum thread, write allowance, `kv_set` |
| Split-deadline, dispatcher | `modules/split_deadline_sched.c` | `fifo_list`, `sort_list`, `next_rq`, `batching`, `starved`, `fifo_expire` | add, front merge, merge, dispatch, sysfs stores |
| Split-deadline, fsync | same | `i_private1` (magic and number of dirty pages), `causes->inode` | `fsync_entry` loop, dirty and free hooks, write-back work |
| Token bucket | `modules/tbucket.c` | per account `count`, `rate`, request queues | charge, refund, refill, dispatch, `maybe_sleep` |
| Disk simulator, I/O batch | `modules/disk_sim.c`, `io_batch.c` | requests of a batch, `bytes`, cached `cost`, head | add, full, cost, clear |
| Accounts | `modules/split_account.c` | hash of accounts | get (allocating), free |
| Descriptors | `modules/split_sched.c` | `fsync_desc`, `wrdesc`, `mkdir_desc`, `req_desc` | get, put, `split_set_request`, `split_put_request` |
| ioctl helper | `modules/ioctl_helper.c`, linked into each scheduler module | list of disks, device number | init, cleanup, register, unregister, `kv_set` |
| Cause tags | `patches/4.5/cause_tags.c.patch` | cause lists, reference counts | new, add, copy, move, put |
| Hooks, elevator switch | `patches/4.5/elevator.c.patch`, `read_write.c.patch`, `sync.c.patch`, `namei.c.patch` | `q->elevator`, `q->sched_uniq`, module references | hook calls around a system call, switching |

Interactions: a hook runs in the caller's context and takes `queue_lock`, and
AFQ has a second lock `afq_data->lock` inside it. Completions, the polling
thread, timers and the sysfs/ioctl interfaces run concurrently with the hooks.
A scheduler can be replaced while system calls are inside its hooks.

What is hard to get right: batch descriptors freed by whichever member returns
last; the gate (`keep_wait`) changed by three parties; requests that are on two
lists at once; cached pointers (`next_rq`); counters changed without the lock
(`i_private1`); a scheduler switched under a sleeping caller.

## 2. Structure

The project grows from the three schedulers outwards.

| Part | Modules |
|---|---|
| AFQ batch protocol | `AfqBatch`, `MCAfqBatch`, `AfqQueue_proofs`, `AfqBatch_proofs` |
| Split-deadline dispatcher and what it promises | `Deadline`, `ReadPreference`, `MCDeadline`, `Deadline_proofs` |
| Split-deadline dirty pages and `fsync` | `DirtyPages`, `MCDirtyPages`, `DirtyPages_proofs` |
| I/O batch and disk simulator | `IoBatch`, `IoBatch_proofs` |
| Token bucket charging (uses `IoBatch`) | `TbCharge`, `MCTbCharge`, `TbCharge_proofs` |
| Token bucket queues and dispatcher | `TbQueues`, `MCTbQueues`, `TbQueues_proofs` |
| System call interception, module references, switching, ioctl helper, composed with the hooks of AFQ and the token bucket | `ElvSwitch`, `MCElvSwitch`, `ElvSwitch_proofs` |

## 3. Modules and code

Names of operators and variables are those of the C code where possible. Each
definition that models code has its lines in the map of `PROJECT.json`.
Definitions introduced by "Mutant:" are variants with a plausible error; they
are not used by any specification.

### `AfqBatch`: the batch protocol of AFQ

A throttled system call or a read request of an account is an `io_work`. The
entry hooks put it on `io_work_list[a]` and the account on `active`; the
dispatcher (`want_dispatch`, `select_*`, `submit_*`) builds a batch and wakes or
dispatches its members; the return hooks and
`basic_sched_complte_request` decrement `one_loop_work`, and the last one frees
the batch (`live`) and reopens the gate (`keep_wait`). The dispatcher holds
`queue_lock` from `want_dispatch_read` to `submit_arm`, but the timer handler
needs only `afq_data->lock`, so it interleaves with the dispatcher's steps;
`timer_expire` and `new_batch_wait_timer_func` are separate because `del_timer`
does not stop a handler that runs already. Which account is served next, the
seeking flag and the write allowance are free choices.

The module follows one instance while it is `q->elevator` and after. `elv` says how
far the switch to it, and later the switch away from it, has come: `new` and
`counted` before `sched_uniq` has its final value, `away` and `gone` once another
instance is `q->elevator`; a switch away can fail and be undone (`switch_back`).
`stale` are the calls whose `sched_uniq` no longer is the queue's. Their return
hooks decrement the count and free the batch, but do not reopen the gate
(`dec_check_cleanup_batch` with `afq_data = NULL`); `closer` is the batch that has
closed the gate, and becomes `NoOne` then. Two things a hook may fail to do: a
`mkdir` that ends with `-EMLINK` never runs its return hook, so its batch is never
complete (`lost`), and a write that is told `-1` keeps `afq_data->lock`
(`lock_kept`, `spin_lock`). A call that an earlier AFQ instance of the queue has
scheduled may return here, because all completed switches leave the same
`sched_uniq` (`stray_return`).

### `Deadline` and `ReadPreference`: the split-deadline dispatcher

`fifo_list`, `sort_list`, `next_rq`, `batching` and `starved` are the fields of
`deadline_data`; `pos` is the sector, `ttl` the time to expiry (a difference of
jiffies, which saturates at zero). All hooks hold `queue_lock`; each is one
action. Two history variables count what goes past whom: `passed` the reads
dispatched over waiting writes, `ahead` the writes dispatched over waiting reads.
`ReadPreference` is the promise to clients, for both: at most `MaxPassed` reads go
before a waiting write, and, if `writes_starved` is positive, at most `fifo_batch`
writes before a waiting read. `ImplementsReadPreference` is the refinement. A
dispatcher without the preference for reads, or without the starvation counter, is
not a refinement.

### `DirtyPages`: the count of dirty pages in `i_private1`

One file. `i_private1` is the integer that the C code stores: magic number in the
low byte, count above; `\div` and `%` are the arithmetic shift and the mask. The
hooks hold `queue_lock` and consist of a read (`run_hook`) and a write
(`end_hook`). `deadline_fsync_entry` accesses `i_private1` without the lock, so
each of its accesses is a step of its own (`wake`, `check`, `test`, `load`,
`store`, `reread`). After `elevator_switch` the `dd` of a sleeping process is
freed memory (`old_dd`): its magic number can be anything. Write-back is
external: pages are dispatched, or not, at any time. `corrected`, a history
variable, says that some fsync has written `i_private1`: from then on the count
is an estimate. `dd->magic` is a plain `char`, signed on x86; for a random byte
of `0x80` or more line 85 extends the sign and the count starts at -1. The
properties of the count are therefore stated for non-negative magic numbers.

### `IoBatch` and `TbCharge`: what the token bucket charges

`IoBatch` has no state: a batch is a record, and the functions of `io_batch.c` and
`disk_sim.c` are operators on it. `sort()` of the kernel is not stable, so
`iobatch_scan_sort` is a set of orders and the cost of a batch a set of costs.
`TbCharge` has the accounts (`credit`, `estimate`, `used`, `lost`, `limit`), their
batches and the disk's, and the cause lists of the pages on their way from the
buffer to the disk. All hooks hold `queue_lock`. Sizes are in pages. `Spec` is the
life of one instance of the scheduler. In `SwitchSpec` schedulers are switched
(`switch_elevator`), and a new instance meets the cause lists of the old one;
the properties of `Spec` are not checked there.
`EstimateCovers` is an inequality because the charge of a page that is dirtied
out of sequence includes a seek, whereas `tbucket_causes_free` refunds its size:
the estimate of an account may stay too high, never too low.

### `TbQueues`: the token bucket dispatcher

`queues` is the list that `tbucket_dispatch` rotates, `reqs` the requests of each
queue. The loop over the queues is stated in closed form: after the first
iteration `run_serve_size` is zero and `have_switched` set, so only the front
queue can be skipped at the limit or anticipated; the first queue that `serves`
is served, and the list is rotated up to it. The driver is external: a *kick* is a
call of its request function (after an add, a completion, or by the timer). It
takes requests from the dispatch list while the device has room and calls
the dispatcher when that list is empty, until it returns 0. `Spec` is without
merging of queued requests, `MergeSpec` with it.

### `ElvSwitch`: system calls, switches and modules

One queue, the modules `tb` and `afq` and a built-in scheduler. A call takes a
reference to the module of `q->elevator` and copies the hooks and `sched_uniq`
(`get_elevator_call_info`); it is in its entry hook (`entry`, `check`, `block`,
`wait`), then in the file system (`body`), and drops the reference at the end
or where the hook fails (`module_put`). `elevator_switch` is one action per
point at which others can step in: the instance is made (`switch`), becomes
`q->elevator` (`set_elevator`), is entered into the module's `disk_info_list`,
`sched_uniq` is counted, sysfs is tried, and the old instance exits and is freed.
`Faults` says what may fail: an allocation in a hook, an init function or
`ioctl_helper_register_disk`, the start of AFQ's threads (after the instance has
become `q->elevator`), sysfs. `state` is how far a module is loaded. The token
bucket registers its scheduler first (`tbucket_elv_register`, `coming`) and makes its
list after that (`tbucket_init`); if AFQ has the device number, its `BUG_ON` leaves
it `halted`: usable, and impossible to unload.

The init functions ignore the result of `ioctl_helper_register_disk`. `unlisted` are
the instances for which it failed, for want of memory or because the list was not
yet made. In the second case, and when an instance that has no entry exits, the
switching thread dies where it is (`sw.at = "bug"`): there is no further switch, and
the queue stays bypassed, so nothing is dispatched from then on.

Freed memory keeps its contents: a hook that reads it sees what was there. `locked`
are the instances whose `afq_data->lock` is kept for ever, `stuck` says that a thread
waits for such a lock with `queue_lock` held, and everything that needs
`queue_lock` then waits. The return hooks of AFQ read `q->elevator` if `sched_uniq`
is unchanged. If that is an instance whose lock was kept they wait for it
(`return_spins`); if it is another scheduler, or freed, they do something undefined
to its memory, and the model lets them return or hang. `leaked`, `unlisted` and
`dangling` are history. Assumed not to happen: a failing `kmalloc` in
`elevator_alloc`. The time that the token bucket's hooks sleep is abstracted to
going on in the end.

What the model shows besides its properties:

- `basic_sched_write_entry` returns with `afq_data->lock` held when `sched_uniq` has
  changed. If the instance is still, or again, the current one, the next dispatch
  waits for that lock with `queue_lock` held, and the queue stops.
- `vfs_mkdir` keeps its reference when it returns `-EMLINK`; the module cannot be
  unloaded any more. If the call was part of an AFQ batch, the batch is leaked too
  (`AfqBatch`), and the next one has to wait for the timer.
- A scheduler that could not be registered with the ioctl helper works, until a
  switch away from it (or back from a failed switch to it) ends in `BUG_ON(1)`.
- A call that passed the test of `sched_uniq` is queued later without another test.
  A switch in between leaves it waiting in a scheduler that is gone.
- Every completed switch sets `sched_uniq` to 1000, so a call that sees two of them
  does not notice (`tb_charge_stale` has a consequence).
- Between `set_elevator` and `exit_old` the queue is in the lists of both modules;
  `kv_set_all` of the old module would be given the data of the new scheduler.
- `ioctl_helper_cleanup` of either module unregisters the one device number.

## 4. Runs

| Run | Properties | What it shows |
|---|---|---|
| `afq_batch` | `TypeOK`, `OwnerIsLive`, `LoopWorkExact`, `NoBatchLeak`, `ClosedMeansBusy`, `TimerBacksUp`, `ActiveExact`, `StaleOnlyDeclines`, `InflightBound` | batches are counted exactly and freed once, and only an `EMLINK` leaks one; a gate that is closed has a batch that will reopen it or, where the batch cannot (a lost `mkdir`, an outdated `sched_uniq`), the wait timer; a stale `keep_wait` only makes the dispatcher decline |
| `afq_batch_live` | `NoStall` | waiting work gets into a batch, provided that in the end the instance stays `q->elevator`, no write has kept its lock, and writes do not keep `MIN_IN_FLIGHT` requests at the disk |
| `deadline` | `TypeOK`, `StarvationBound`, `EventuallyDispatched` | bounded starvation and eventual dispatch, with changes of expiry through sysfs |
| `deadline_order` | `SameRequests`, `NextIsPending`, `FifoByExpiry`, `ExpiredFirst`, `ImplementsReadPreference` | both lists agree, no dangling `next_rq`; while the expiry times of reads and writes are left alone: order through merges, expired first; refinement (safety), with the bounds on both directions |
| `dirty_pages` | `TypeOK`, `CountExact`, `HooksNotNegative`, `FsyncReturns` | pages are counted in and out once; the loop of `fsync_entry` ends, despite lost updates, a second fsync and a switch |
| `dirty_pages_race` | `NotNegative`, violated | test and subtraction without the lock |
| `tb_charge` | `TypeOK`, `EstimateCovers`, `BatchesSound`, `UsedWithinDisk` | charges cover refunds; cached batch costs are right; shares do not exceed the whole |
| `tb_charge_tokens` | `CountWithinLimit`, `Monotonic` | saturation after every change |
| `tb_charge_stale` | `BatchEstimateCharged`, violated | refunds of charges that another instance made |
| `tb_queues` | `TypeOK`, `NeverAsleep`, `EventuallyServed` | the dispatcher is always called again while it holds requests; writes and unlimited reads are dispatched |
| `tb_queues_merge` | `NothingLost`, violated | merging takes the wrong request off the queue |
| `elv_switch` | `TypeOK`, `RefsExact`, `CodeInUse`, `NoBug`, `OnlyStranded` | while calls, switches that may fail half way, insmod and rmmod interleave: references are exact but for the `EMLINK` leak, no code in use is unloaded, a module's list is empty when it is unloaded, and a switch dies in the ioctl helper only if one of its schedulers could not be registered; every call returns unless it is stranded in one of the ways named above |

The three violated properties are findings; `PROJECT.json` quotes the comment or
document that each contradicts.

`FifoByExpiry` and `ExpiredFirst` are checked and proved for `FixedSpec`, in which
nobody writes to `read_expire` and `write_expire`. They do not hold for `Spec`:
after an expiry time is lowered, a later request can expire before the head of
the FIFO, which is the only one that `deadline_check_fifo` tests. With `Spec` in
place of `FixedSpec` in `DeadlineOrder.cfg` TLC finds the counterexample.

### Bounds

- `afq_batch*`: two accounts, two batch descriptors and batches of two: an old
  batch can end while a new one is built, and a batch has members that return in
  both orders. `afq_batch` has a write, a mkdir, a read that the mkdir makes and a
  write request, one `EMLINK` in a batch and one switch away from the instance;
  `afq_batch_live` has an fsync, a read that it makes, another read and a write
  request, and one switch. `MaxUncounted` bounds the reads that bypass
  `inflight`. The safety properties are proved without the bounds.
- `deadline*`: three sectors, so that front merges, merges and elevator order
  differ; `fifo_batch` 2 and `writes_starved` 1 are the smallest values at which
  batches and the starvation counter both matter. `deadline_order` has three
  reads, two writes and two expiry values, so that reads and writes may differ:
  with two reads, a merge that leaves the FIFO alone goes unnoticed. `deadline`
  has two reads, one write and two expiry values, so that a store can lower one;
  eventual dispatch is thus not checked with two competing writes.
- `dirty_pages`: two pages, two fsyncs, thresholds of 1 (the code has
  `DIRTY_PAGE_THRES = FSYNC_WB_PAGES`), a positive and a negative magic number;
  `MaxDirtied` 2 lets a page be dirtied again after it was freed, `MaxSwitches`
  is 1. The theorems hold without these bounds. `dirty_pages_race`: three
  pages, one fsync, thresholds of 2.
- `tb_charge*`: two accounts (one in `tb_charge_tokens`), two pages with a gap
  between them, one or two other offsets; batches of two requests. `MaxIO` bounds
  the I/O dispatched: one full batch and a request of the next one in
  `tb_charge`, where three adjacent pages also fill a batch by size, and two
  full batches in `tb_charge_tokens`. `MaxEstimate` bounds the pages dirtied,
  `MaxLost` the income. In `tb_charge` other I/O can fall on the offset of a
  page, so that requests of different sizes tie in the sort. The properties of `tb_charge` and `tb_charge_tokens` are
  proved for any number of accounts, pages and requests, whatever the bounds.
- `tb_queues*`: an unlimited and a limited account, four requests,
  `RUN_SIZE_LIMIT` 2, a device that takes one request; `MaxKicks` bounds the
  pending calls (at least two must be possible: a completion during a call).
- `elv_switch`: one call and two switches (three instances): a call can meet a
  switch, a failed one and the return to the old scheduler, and two completed
  switches that it does not notice; the second switch can be the one that finds
  its old scheduler unregistered. `MaxLeaks` bounds the `EMLINK` failures. The
  safety properties are proved for any number of calls, instances and leaks;
  `OnlyStranded` is checked for one call only.

Symmetry is used in safety runs only, over interchangeable batches, requests,
pages or accounts.

`CHECK_DEADLOCK FALSE` appears in the runs of `TbCharge` and `DirtyPages`: these
modules are hooks that other parts of the kernel call, and I/O may simply stop
(all pages freed or written, and the bound on dirtying reached). It also appears in
`ElvSwitch.cfg`: when `queue_lock` is held for ever, everything may stop.

### Fairness

- `AfqBatch`: weak fairness of the polling thread, of the dispatcher, of timers
  and their handlers, and of the end of a slice (time passes); strong fairness
  of completions and of the return of system calls, which are disabled whenever
  the dispatcher holds `queue_lock`: a spin lock is obtained in the end.
- `Deadline`: weak fairness of dispatching (the driver asks as long as requests
  are pending) and of time.
- `DirtyPages`: weak fairness of the steps of a process in `fsync_entry` and of
  the second half of a hook. None for write-back: the loop must end without it.
- `TbQueues`: weak fairness of carrying out a kick, of the device, of the timer
  and of time, that is, the end of anticipation and the refill of an account,
  whose limit is assumed positive. None for arrivals and forced dispatching.
- `ElvSwitch`: weak fairness of every call in progress and of a switch in progress.
  This includes that a live AFQ instance dispatches what is queued in it (`NoStall`
  of `AfqBatch`) and that the token bucket lets a sleeper go (its rate is positive).
  None for new calls, new switches, insmod and rmmod.

## 5. Proofs

TLAPS proves the following for all values of the constants that satisfy the
named assumptions.

`AfqBatch_proofs` (assumption `ConstAssumption`): `TypeCorrect`, `NoUseAfterFree`,
`CountIsExact`, `BatchesAreFreed`, `GateCanReopen`, `TimerArmed`, `SelectNeverFails`,
`DecisionIsFresh`, `InflightIsExact`. They follow from one inductive invariant `IInv`, which
`AfqQueue_proofs` states together with the lemmas on types and queues. The listed
properties are not inductive alone: that a batch's count is exact needs to know
that the work lists hold only queued work, each once and under its own account
(`ListInv`), that what is selected is on `selected` once (`SelectedInv`), and
that the batch under construction is allocated and has members when it is
submitted (`CurInv`), and that a batch which has lost a mkdir is not freed, so that
a new one has lost none (`LostInv`); `ActiveExact` is needed to see that selection never fails.

`Deadline_proofs` (assumption `DeadlineAssumption`): `TypeCorrect`, `ListsAgree`,
`NoDanglingNext`, `BoundedStarvation`, `Refinement`; and for `FixedSpec`: `FifoOrder`
and `ExpiredGoFirst`. `IInv` adds to the properties that the
FIFO has no duplicates (`ListsOK`) and that `passed` is bounded by the batches
counted so far (`PassedInv`: `passed <= starved * fifo_batch + batching`), which is
what makes the bound on starvation inductive. `AheadInv` does the same for the
writes that go before a waiting read: `ahead` is at most the length of the running
batch, and zero, with no write to continue at, once reads have been preferred
(`starved > 0`). `FifoInv` adds that no request has
more time left than the expiry time of its direction, so that a new one belongs
at the end.

`TbQueues_proofs` (assumption `TbQueuesAssumption`): `TypeCorrect` and
`AlwaysAwake`. `NeverAsleep` is not inductive: at `RUN_SIZE_LIMIT` the dispatcher
can return 0 without arming the timer although the front queue has requests.
`LimitIsRetried` says why this is harmless: a call that reaches the limit returned
1, so the same kick calls again, and what was dispatched is still outstanding
or its completion is a further kick. `Listed` and `Paired` say that every queue
with requests is on the list.

`DirtyPages_proofs` (assumption `DirtyPagesAssumption`): `TypeCorrect`,
`PagesCountedOnce` and `HooksStayNonNegative`. `CountExact` speaks of values with the
right magic number only; `Exact` adds that with any other value no page has been
counted, so the first hook may start from zero. `NonNegative` is stated of the
low byte and not of `dd->magic`, so that it survives a switch to another magic
number.

`ElvSwitch_proofs` (assumption `ElvSwitchAssumption`): `TypeCorrect`,
`ExactReferences`, `NeverUnloadedInUse`, `ListsConsistent`. A count that is exact
excludes unloading only as long as the instances that count are known:
`SwitchOK` says, for each point of a switch, which instances are live, allocated
and freed and which of them is `q->elevator`. `ListOK` says that a module's list
has an entry for each of its instances that has tried to register at that point
and is not in `unlisted`, and none else; without it neither can an entry be known
to be there when an instance exits, nor the list to be empty at rmmod. `LoadOK` says
that an instance is in `unlisted` only after it has tried, and that a module in
state `coming` has no entries yet, so that making the list forgets none.

`TbCharge_proofs` (assumptions `TbChargeAssumption` and `IoBatchAssumption`: finitely
many accounts and pages, capacities of at least one request and one page, positive
income): `Charging`, `TypeCorrect`, `NoUndercharge`, `BatchWasCharged`, `SoundBatches`,
`WithinLimit`, `WithinDisk` and the action property `NeverGoesDown`,
all for `Spec`, the life of one instance. The inductive invariant is

    IInv == TypeOK /\ ListsSound /\ BatchesInv /\ EstimateCovers
            /\ CountWithinLimit /\ UsedWithinDisk

- `ListsSound`: a cause list without causes is a new one, any other has its callback
  set and was charged a page or more. Without it the refund of
  `tbucket_causes_free`, or the change of everyone's share when one more account
  dirties a page, could take more from the estimate than was put in.
- `BatchesInv`: `bytes` is the sum of the sizes, no batch is full between two hooks,
  and only an empty batch has a cached cost, because whoever asks for the cost of a
  batch with requests clears it in the same hook. `BatchesSound` follows: the
  cost is bounded for every order that `sort()` may produce.
- `UsedWithinDisk` needs that the shares `combined * basic / summed`, each rounded
  down, add up to at most `combined` (`ChargesWithinCost`); `Monotonic` needs that
  they are not negative.

`IoBatch_proofs` has the lemmas on batches: what `iobatch_add_request`, `iobatch_clear`
and `iobatch_get_cost` preserve, the bounds of `scan_cost`, and that every batch can be
sorted (`SortExists`), without which the bounds would say nothing. They rest on
lemmas about sums over finite sets (type, monotonicity, bounds, change of one
value, common factors, reordering by a bijection). These are inductions; since the provers
cannot instantiate an induction theorem, each one takes a smallest set, or a
smallest number, at which the claim fails and derives a contradiction.

Only model-checked: the liveness properties (fairness and `ENABLED` are beyond the
prover), and the violated properties, for which a counterexample is the proof. One
of these is `BatchEstimateCharged`: it is proved for one instance of the scheduler
(`BatchWasCharged`), and the run `tb_charge_stale` shows that it fails once a new
instance meets the cause lists of an old one.

## 6. What is not modelled

See the components in `PROJECT.json`. Not modelled:

- The fairness of AFQ (`vio_counter`, the minimum thread, `kv_set`). A bound on how
  far accounts drift apart depends on thresholds far beyond TLC; with small ones
  every batch resets the counters, and a bound would say nothing of the code.
  `AfqBatch` leaves the choice of the next account open instead.
- The hash of accounts: what two concurrent inserts do is up to the kernel's list.
- Reference counts of cause lists: most holders (bios, buffers, transactions) are in
  kernel code that is not part of the repository.
- The statistics thread of split-deadline; nothing that is modelled reads it.

Left out of the modelled parts: logging and statistics, failures of memory
allocation other than those of `ElvSwitch`, the timers that the exit functions
delete, the sysfs setters of `fifo_batch`, `writes_starved` and `front_merges`, and
data that no property distinguishes (sizes other than one page, offsets beyond a
few positions). The journal and file system patches hand causes on inside kernel
code that is not part of the
repository. The expiry trees are compiled but not called by any scheduler.
