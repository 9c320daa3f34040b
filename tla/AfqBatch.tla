------------------------------ MODULE AfqBatch ------------------------------
(***************************************************************************)
(* The batch protocol of the AFQ scheduler (acct_afq_sched.c).             *)
(*                                                                         *)
(* A throttled system call (fsync, write, mkdir) or a read request of a    *)
(* non-zero account is an io_work.  It waits on its account's list until   *)
(* the dispatcher moves it into a batch and submits it: a system call is   *)
(* woken, a read goes to the disk.  The batch counts its members in        *)
(* one_loop_work; the member that brings the count to zero frees the batch *)
(* and lets the next one start.  If the members take too long, a timer     *)
(* allows a new batch provided that the disk is nearly idle.               *)
(*                                                                         *)
(* The module follows one instance of the scheduler from the moment it is  *)
(* q->elevator.  A call is given q->sched_uniq when it is intercepted, and *)
(* its return hook reopens the gate only if q->sched_uniq is still the     *)
(* same.  It changes twice before elevator_switch has ended, and again in  *)
(* a switch to another scheduler, which may fail and be undone.  How the   *)
(* calls and the switch race is the subject of ElvSwitch; here it matters  *)
(* which calls have an outdated sched_uniq (stale).                        *)
(*                                                                         *)
(* Everything runs under queue_lock except the timer handler and the       *)
(* bodies of the system calls, so the dispatcher is a sequence of steps    *)
(* with the lock held (dp # "idle") and the handlers are single actions    *)
(* that need it free.  Which active account has the smallest vio_counter,  *)
(* whether an account is sequential and whether a write is within its      *)
(* allowance are left open here: each is a choice.  batch_dead is never    *)
(* set (its only assignment is under `0 &&'), so it is left out.           *)
(***************************************************************************)
EXTENDS Integers, Sequences, FiniteSets

CONSTANTS
  Acct,             \* accounts with a non-zero id
  Fsync,            \* fsync calls (one slot per calling task)
  Write,            \* write calls
  Mkdir,            \* mkdir calls
  Read,             \* read requests
  WriteReq,         \* write requests
  AcctOf,           \* the account of each system call and read request
  Parent,           \* the system call a read belongs to, or NoOne
  Batch,            \* addresses of struct io_batch_desc
  NoOne,            \* NULL
  MIN_BATCH_SIZE,
  MAX_BATCH_SIZE,
  MIN_IN_FLIGHT,
  MaxUncounted,     \* bound on the reads that bypass the inflight counter
  MaxEmlink,        \* bound on the mkdirs of a batch that fail with EMLINK
  MaxSwitches       \* bound on the switches to another scheduler

Syscall == Fsync \cup Write \cup Mkdir
Request == Read \cup WriteReq
Work    == Syscall \cup Read        \* what can be a struct io_work
Item    == Syscall \cup Request

ASSUME ConstAssumption ==
  /\ IsFiniteSet(Item) /\ IsFiniteSet(Batch)
  /\ Fsync \cap (Write \cup Mkdir) = {} /\ Write \cap Mkdir = {}
  /\ Syscall \cap Request = {} /\ Read \cap WriteReq = {}
  /\ AcctOf \in [Work -> Acct]
  /\ Parent \in [Read -> Syscall \cup {NoOne}]
  /\ NoOne \notin Batch \cup Acct \cup Item
  /\ MIN_BATCH_SIZE \in Nat /\ MAX_BATCH_SIZE \in Nat \ {0}
  /\ MIN_BATCH_SIZE <= MAX_BATCH_SIZE
  /\ MIN_IN_FLIGHT \in Nat
  /\ MaxUncounted \in Nat /\ MaxEmlink \in Nat /\ MaxSwitches \in Nat

VARIABLES
  \* struct afq_data
  io_work_list,     \* [Acct -> Seq(Work)], account->io_work_list_head
  active,           \* accounts linked on active_acct_list
  keep_wait, inflight,
  last_served,      \* last_served_acct
  slice,            \* jiffies is before last_served_acct->slice_end
  timer,            \* batch_wait_timer is pending
  handler,          \* its handler has been started and waits for afq_data->lock
  \* descriptors
  st,               \* [Item -> state of the call or request]
  owner,            \* [Item -> owner_batch]
  live,             \* allocated batch descriptors
  one_loop_work,    \* [Batch -> Int]
  lost,             \* [Batch -> Nat], members whose return hook never ran
  \* the dispatcher, holder of queue_lock unless dp = "idle"
  dp, seen, idle_last, min_acct, cur, selected,
  \* the queue
  elv,              \* what elevator_switch has made of this instance, see Current
  stale,            \* calls with a descriptor whose sched_uniq is not q->sched_uniq
  switches,         \* switches to another scheduler
  lock_kept,        \* a write has returned with afq_data->lock held
  \* bookkeeping of the model
  closer,           \* the batch that closed the gate; NoOne if the gate is open,
                    \* or the batch was freed without reopening it
  uncounted         \* completions that took inflight below the true number

sched == <<io_work_list, active, last_served, slice>>
gate  == <<keep_wait, closer, timer, handler>>
desc  == <<st, owner, live, one_loop_work, lost>>
local == <<dp, seen, idle_last, min_acct, cur, selected>>
queue == <<elv, stale, switches, lock_kept>>
vars  == <<sched, gate, desc, local, queue, inflight, uncounted>>

ALLOW_NEW_BATCH == 0
NO_NEW_BATCH    == 1
KEEP_IN_FLIGHT  == 2

acct_no_pending_io(a) == io_work_list[a] = <<>>

\* This instance is q->elevator: set by its init function ("new"), sched_uniq
\* counted up ("counted"), switch ended ("here").  Otherwise another one is:
\* "away", and "gone" once sched_uniq has been counted up again.
Current == elv \in {"new", "counted", "here"}

(***************************************************************************)
(* basic_sched_init_data, and the idle dispatcher.                         *)
(***************************************************************************)
Init ==
  /\ io_work_list = [a \in Acct |-> <<>>] /\ active = {}
  /\ keep_wait = ALLOW_NEW_BATCH /\ inflight = 0
  /\ last_served = NoOne /\ slice = FALSE
  /\ timer = FALSE /\ handler = FALSE
  /\ st = [i \in Item |-> "free"] /\ owner = [i \in Item |-> NoOne]
  /\ live = {} /\ one_loop_work = [b \in Batch |-> 0]
  /\ dp = "idle" /\ seen = ALLOW_NEW_BATCH /\ idle_last = FALSE
  /\ min_acct = NoOne /\ cur = NoOne /\ selected = <<>>
  /\ lost = [b \in Batch |-> 0] /\ closer = NoOne /\ uncounted = 0
  /\ elv = "new" /\ stale = {} /\ switches = 0 /\ lock_kept = FALSE

(***************************************************************************)
(* Queueing work.                                                          *)
(***************************************************************************)

\* An account joins the active list with its first pending io_work.
add_io_work_to_acct(i) ==
  LET a == AcctOf[i] IN
  /\ active' = IF acct_no_pending_io(a) THEN active \cup {a} ELSE active
  /\ io_work_list' = [io_work_list EXCEPT ![a] = Append(@, i)]
  /\ st' = [st EXCEPT ![i] = "queued"]
  /\ UNCHANGED <<last_served, slice, owner, live, one_loop_work, lost>>

\* __blk_run_queue under the lock: the driver may or may not ask for a request.
run_queue ==
  /\ dp' = "idle" \/ (Current /\ dp' = "want")
  /\ UNCHANGED <<seen, idle_last, min_acct, cur, selected>>

\* The locked part of the three entry hooks: queue the call, run the queue;
\* the caller then sleeps in wait_for_completion.
block(i) ==
  /\ dp = "idle"
  /\ st[i] = "free"
  /\ add_io_work_to_acct(i)
  /\ run_queue
  /\ UNCHANGED <<gate, elv, switches, lock_kept, inflight, uncounted>>

\* q->sched_uniq is what the call was given when it was intercepted.
block_fresh(i) == elv # "gone" /\ block(i) /\ UNCHANGED stale

\* It was when the hook compared them, before it took queue_lock.
block_stale(i) == elv # "new" /\ block(i) /\ stale' = stale \cup {i}

\* The call goes ahead unscheduled (*opaque = NULL).
pass(i) ==
  /\ st[i] = "free"
  /\ st' = [st EXCEPT ![i] = "issued"]
  /\ UNCHANGED <<sched, gate, owner, live, one_loop_work, lost, local, queue, inflight,
                 uncounted>>

\* A caller without an account is not scheduled.  Here and in mkdir_entry a
\* call with an outdated sched_uniq fails at once and changes nothing.
fsync_entry(i) == i \in Fsync /\ (block_fresh(i) \/ (dp = "idle" /\ pass(i)))

\* A write that fails because its sched_uniq is outdated does not release
\* afq_data->lock.
write_keeps_lock(i) ==
  /\ st[i] = "free" /\ elv # "new" /\ ~lock_kept
  /\ lock_kept' = TRUE
  /\ UNCHANGED <<sched, gate, desc, local, elv, stale, switches, inflight, uncounted>>

\* A write within its allowance is not scheduled, and is let through under
\* afq_data->lock alone.
write_entry(i) ==
  i \in Write /\ (block_fresh(i) \/ block_stale(i) \/ pass(i) \/ write_keeps_lock(i))

mkdir_entry(i) ==
  i \in Mkdir /\ (block_fresh(i) \/ block_stale(i) \/ (dp = "idle" /\ pass(i)))

\* Mutant: the write is dispatched without being counted.
add_write_request_uncounted(r) ==
  /\ dp = "idle"
  /\ r \in WriteReq /\ st[r] = "free"
  /\ st' = [st EXCEPT ![r] = "issued"]
  /\ UNCHANGED <<sched, gate, owner, live, one_loop_work, lost, local, queue, inflight,
                 uncounted>>

\* Outside a switch the requests of the queue go to this instance; elevator_switch
\* has the queue bypass the schedulers.
admits == elv \in {"counted", "here"}

\* A write is counted and dispatched at once.
add_write_request(r) ==
  /\ dp = "idle" /\ admits
  /\ r \in WriteReq /\ st[r] = "free"
  /\ inflight' = inflight + 1
  /\ st' = [st EXCEPT ![r] = "issued"]
  /\ UNCHANGED <<sched, gate, owner, live, one_loop_work, lost, local, queue, uncounted>>

\* A system call that is running may have to read before it can go on.
may_read(r) == Parent[r] # NoOne => st[Parent[r]] = "issued"

\* A read is queued on its account; one without an account (id 0, or the
\* account could not be allocated) is dispatched at once and not counted.
add_read_request(r) ==
  /\ dp = "idle" /\ admits
  /\ r \in Read /\ st[r] = "free" /\ may_read(r)
  /\ \/ /\ add_io_work_to_acct(r)
        /\ UNCHANGED <<gate, local, queue, inflight, uncounted>>
     \/ /\ uncounted < MaxUncounted
        /\ st' = [st EXCEPT ![r] = "issued"]
        /\ UNCHANGED <<sched, gate, owner, live, one_loop_work, lost, local, queue, inflight,
                       uncounted>>

basic_sched_add_request(r) == add_write_request(r) \/ add_read_request(r)

(***************************************************************************)
(* Finishing work.                                                         *)
(***************************************************************************)

\* Mutant: off by one, the batch is freed with one member outstanding.
dec_check_early(b, given) ==
  /\ one_loop_work' = [one_loop_work EXCEPT ![b] = @ - 1]
  /\ IF one_loop_work[b] <= 2
     THEN keep_wait' = ALLOW_NEW_BATCH /\ live' = live \ {b}
     ELSE UNCHANGED <<keep_wait, live>>
  /\ UNCHANGED closer

\* Mutant: the count is tested before it is decremented.
dec_check_late(b, given) ==
  /\ one_loop_work' = [one_loop_work EXCEPT ![b] = @ - 1]
  /\ IF one_loop_work[b] = 0
     THEN keep_wait' = ALLOW_NEW_BATCH /\ live' = live \ {b}
     ELSE UNCHANGED <<keep_wait, live>>
  /\ UNCHANGED closer

\* Mutant: the batch is freed but the gate stays closed.
dec_check_no_reopen(b, given) ==
  /\ one_loop_work' = [one_loop_work EXCEPT ![b] = @ - 1]
  /\ live' = IF one_loop_work[b] = 1 THEN live \ {b} ELSE live
  /\ UNCHANGED <<keep_wait, closer>>

\* One member of batch b is done; the last one frees b and, if it was given
\* afq_data, takes its lock and reopens the gate.
dec_check_cleanup_batch(b, given) ==
  /\ one_loop_work' = [one_loop_work EXCEPT ![b] = @ - 1]
  /\ \/ one_loop_work[b] # 1 /\ UNCHANGED <<keep_wait, closer, live>>
     \/ /\ one_loop_work[b] = 1 /\ given /\ ~lock_kept
        /\ keep_wait' = ALLOW_NEW_BATCH /\ closer' = NoOne
        /\ live' = live \ {b}
     \/ /\ one_loop_work[b] = 1 /\ ~given
        /\ closer' = (IF closer = b THEN NoOne ELSE closer) /\ UNCHANGED keep_wait
        /\ live' = live \ {b}

\* Item i leaves the scheduler and is freed; it has a batch if it was queued.
finish(i, given) ==
  /\ st[i] = "issued"
  /\ IF owner[i] = NoOne
     THEN UNCHANGED <<one_loop_work, keep_wait, closer, live>>
     ELSE dec_check_cleanup_batch(owner[i], given)
  /\ st' = [st EXCEPT ![i] = "free"]
  /\ owner' = [owner EXCEPT ![i] = NoOne]
  /\ stale' = stale \ {i}
  /\ UNCHANGED <<sched, timer, handler, lost, local, elv, switches, lock_kept>>

\* The body of the call is over: the reads it issued have completed.
body_done(i) == \A r \in Read : Parent[r] = i => st[r] = "free"

\* The three return hooks take queue_lock if the call has a descriptor, and look
\* for afq_data in q->elevator if sched_uniq is the same.  (While elv = "away"
\* that is another scheduler's data, and the gate of this one stays as it is.)
syscall_return(i) ==
  /\ owner[i] # NoOne => dp = "idle"
  /\ body_done(i)
  /\ finish(i, Current /\ i \notin stale)
  /\ UNCHANGED <<inflight, uncounted>>

fsync_return(i) == i \in Fsync /\ syscall_return(i)

write_return(i) == i \in Write /\ syscall_return(i)

mkdir_return(i) == i \in Mkdir /\ syscall_return(i)

\* vfs_mkdir in a directory with too many links returns -EMLINK without calling
\* mkdir_return_fn: nobody will count the call down.
mkdir_emlink(i) ==
  /\ i \in Mkdir /\ st[i] = "issued" /\ body_done(i)
  /\ \/ owner[i] = NoOne /\ UNCHANGED lost
     \/ /\ owner[i] # NoOne /\ lost[owner[i]] < MaxEmlink
        /\ lost' = [lost EXCEPT ![owner[i]] = @ + 1]
  /\ st' = [st EXCEPT ![i] = "free"]
  /\ owner' = [owner EXCEPT ![i] = NoOne]
  /\ stale' = stale \ {i}
  /\ UNCHANGED <<sched, gate, live, one_loop_work, local, elv, switches, lock_kept,
                 inflight, uncounted>>

\* A call that an earlier AFQ instance of the queue has scheduled returns, and its
\* sched_uniq happens to be q->sched_uniq: every switch ends with the same value.
stray_return ==
  /\ dp = "idle" /\ Current /\ ~lock_kept
  /\ keep_wait # ALLOW_NEW_BATCH /\ keep_wait' = ALLOW_NEW_BATCH /\ closer' = NoOne
  /\ UNCHANGED <<sched, timer, handler, desc, local, queue, inflight, uncounted>>

\* Every completion decrements inflight, also that of an uncounted read.
basic_sched_complte_request(r) ==
  /\ dp = "idle"
  /\ r \in Request
  /\ inflight' = inflight - 1
  /\ finish(r, TRUE)
  /\ uncounted' = IF r \in Read /\ owner[r] = NoOne THEN uncounted + 1 ELSE uncounted

(***************************************************************************)
(* basic_sched_dispatch, with queue_lock held from the first step to the   *)
(* last one.                                                               *)
(***************************************************************************)

\* The polling thread, or the driver after a completion, runs the queue.
sched_thread_func ==
  /\ dp = "idle" /\ Current
  /\ dp' = "want"
  /\ UNCHANGED <<sched, gate, desc, seen, idle_last, min_acct, cur, selected,
                 queue, inflight, uncounted>>

\* basic_sched_want_dispatch reads keep_wait under afq_data->lock ...
want_dispatch_read ==
  /\ dp = "want" /\ ~lock_kept
  /\ dp' = "check"
  /\ seen' = keep_wait
  /\ UNCHANGED <<sched, gate, desc, idle_last, min_acct, cur, selected,
                 queue, inflight, uncounted>>

\* Once a write has kept the lock the dispatcher waits for it, here and in
\* submit_close, with queue_lock held: everything may come to a halt.
spin_lock == dp \in {"want", "submit"} /\ lock_kept /\ UNCHANGED vars

\* ... and decides after releasing it.
want_dispatch ==
  \/ seen = ALLOW_NEW_BATCH
  \/ seen = KEEP_IN_FLIGHT /\ inflight < MIN_IN_FLIGHT

\* Nothing to dispatch: the gate is closed, no account is active, or the
\* scheduler anticipates more work of the account it served last
\* (idle_for_last_acct, which can hold only within that account's slice),
\* or no batch descriptor can be allocated.
dispatch_decline ==
  /\ dp = "check"
  /\ \/ ~want_dispatch
     \/ active = {}
     \/ slice /\ acct_no_pending_io(last_served)
     \/ Batch \subseteq live
  /\ dp' = "idle" /\ seen' = ALLOW_NEW_BATCH
  /\ UNCHANGED <<sched, gate, desc, idle_last, min_acct, cur, selected,
                 queue, inflight, uncounted>>

\* Allocate the batch; go on with the last account or look for a new one.
select_start ==
  /\ dp = "check"
  /\ want_dispatch /\ active # {}
  /\ \E b \in Batch \ live :
       /\ cur' = b /\ live' = live \cup {b}
       /\ one_loop_work' = [one_loop_work EXCEPT ![b] = 0]
  /\ \/ /\ slice /\ ~acct_no_pending_io(last_served)
        /\ idle_last' = TRUE
        /\ min_acct' = last_served /\ dp' = "move"
     \/ /\ idle_last' = FALSE
        /\ min_acct' = NoOne /\ dp' = "choose"
  /\ seen' = ALLOW_NEW_BATCH
  /\ UNCHANGED <<sched, gate, st, owner, lost, selected, queue, inflight, uncounted>>

\* add_io_work: the next account, the one with the smallest vio_counter.
select_acct ==
  /\ dp = "choose"
  /\ \E a \in active : min_acct' = a /\ last_served' = a
  /\ slice' = TRUE
  /\ dp' = "move"
  /\ UNCHANGED <<io_work_list, active, gate, desc, seen, idle_last, cur, selected,
                 queue, inflight, uncounted>>

\* Mutant: the list_del_init of an account without pending work is missing.
select_move_no_del ==
  LET i    == Head(io_work_list[min_acct])
      rest == Tail(io_work_list[min_acct])
      size == Len(selected) + 1
  IN
  /\ dp = "move"
  /\ io_work_list' = [io_work_list EXCEPT ![min_acct] = rest]
  /\ selected' = Append(selected, i)
  /\ st' = [st EXCEPT ![i] = "selected"]
  /\ IF rest # <<>> /\ size < MAX_BATCH_SIZE
     THEN UNCHANGED <<dp, min_acct>>
     ELSE min_acct' = NoOne /\ dp' = "submit"
  /\ UNCHANGED <<active, last_served, slice, gate, owner, live, one_loop_work, lost, seen,
                 idle_last, cur, queue, inflight, uncounted>>

\* Move one io_work of min_acct to the batch.  The account is finished when
\* its list is empty or the batch is full; a small batch of a non-sequential
\* account is filled up with work of further accounts.
select_move ==
  LET i    == Head(io_work_list[min_acct])
      rest == Tail(io_work_list[min_acct])
      size == Len(selected) + 1
  IN
  /\ dp = "move"
  /\ io_work_list' = [io_work_list EXCEPT ![min_acct] = rest]
  /\ selected' = Append(selected, i)
  /\ st' = [st EXCEPT ![i] = "selected"]
  /\ active' = IF rest = <<>> THEN active \ {min_acct} ELSE active
  /\ \/ /\ rest # <<>> /\ size < MAX_BATCH_SIZE
        /\ UNCHANGED <<dp, min_acct>>
     \/ /\ rest = <<>> \/ size >= MAX_BATCH_SIZE
        /\ min_acct' = NoOne
        /\ \/ dp' = "submit"
           \/ size < MIN_BATCH_SIZE /\ ~idle_last /\ dp' = "choose"
  /\ UNCHANGED <<last_served, slice, gate, owner, live, one_loop_work, lost, seen,
                 idle_last, cur, queue, inflight, uncounted>>

\* No further account to fill the batch with (choose_work_complete).
select_complete ==
  /\ dp = "choose"
  /\ active = {} /\ selected # <<>>
  /\ dp' = "submit"
  /\ UNCHANGED <<sched, gate, desc, seen, idle_last, min_acct, cur, selected,
                 queue, inflight, uncounted>>

\* Mutant: a read joins the batch without being counted in one_loop_work.
submit_one_uncounted ==
  LET i == Head(selected) IN
  /\ dp = "submit" /\ selected # <<>>
  /\ selected' = Tail(selected)
  /\ owner' = [owner EXCEPT ![i] = cur]
  /\ one_loop_work' = [one_loop_work EXCEPT ![cur] = IF i \in Read THEN @ ELSE @ + 1]
  /\ st' = [st EXCEPT ![i] = "issued"]
  /\ inflight' = IF i \in Read THEN inflight + 1 ELSE inflight
  /\ UNCHANGED <<sched, gate, live, lost, dp, seen, idle_last, min_acct, cur, queue,
                 uncounted>>

\* basic_sched_submit_io_work: wake the caller, or dispatch the read ...
submit_one ==
  LET i == Head(selected) IN
  /\ dp = "submit" /\ selected # <<>>
  /\ selected' = Tail(selected)
  /\ owner' = [owner EXCEPT ![i] = cur]
  /\ one_loop_work' = [one_loop_work EXCEPT ![cur] = @ + 1]
  /\ st' = [st EXCEPT ![i] = "issued"]
  /\ inflight' = IF i \in Read THEN inflight + 1 ELSE inflight
  /\ UNCHANGED <<sched, gate, live, lost, dp, seen, idle_last, min_acct, cur, queue,
                 uncounted>>

\* ... close the gate under afq_data->lock ...
submit_close ==
  /\ dp = "submit" /\ selected = <<>> /\ ~lock_kept
  /\ keep_wait' = NO_NEW_BATCH /\ closer' = cur
  /\ dp' = "arm"
  /\ UNCHANGED <<sched, timer, handler, desc, seen, idle_last, min_acct, cur,
                 selected, queue, inflight, uncounted>>

\* Mutant: batch_wait_timer is not restarted.
submit_arm_no_timer ==
  /\ dp = "arm"
  /\ cur' = NoOne /\ idle_last' = FALSE
  /\ dp' \in {"idle", "want"}
  /\ UNCHANGED <<sched, gate, desc, seen, min_acct, selected, queue, inflight, uncounted>>

\* ... and restart batch_wait_timer, without afq_data->lock.  The driver may
\* go on asking for requests, or release queue_lock.
submit_arm ==
  /\ dp = "arm"
  /\ timer' = TRUE
  /\ cur' = NoOne /\ idle_last' = FALSE
  /\ dp' \in {"idle", "want"}
  /\ UNCHANGED <<sched, keep_wait, closer, handler, desc, seen, min_acct, selected,
                 queue, inflight, uncounted>>

(***************************************************************************)
(* Time.  del_timer does not stop a handler that has already been started, *)
(* so starting the handler and its critical section are two steps.         *)
(***************************************************************************)

timer_expire ==
  /\ timer /\ ~handler
  /\ timer' = FALSE /\ handler' = TRUE
  /\ UNCHANGED <<sched, keep_wait, closer, desc, local, queue, inflight, uncounted>>

\* Mutant: the handler tests for a closed gate only, and moves keep_wait on.
timer_func_increment ==
  /\ handler
  /\ handler' = FALSE
  /\ keep_wait' = IF keep_wait = ALLOW_NEW_BATCH THEN keep_wait ELSE keep_wait + 1
  /\ UNCHANGED <<sched, closer, timer, desc, local, queue, inflight, uncounted>>

\* Mutant: the handler opens the gate altogether at its second expiry.
timer_func_reopen ==
  /\ handler /\ ~lock_kept
  /\ handler' = FALSE
  /\ keep_wait' = IF keep_wait = NO_NEW_BATCH THEN KEEP_IN_FLIGHT ELSE ALLOW_NEW_BATCH
  /\ UNCHANGED <<sched, closer, timer, desc, local, queue, inflight, uncounted>>

new_batch_wait_timer_func ==
  /\ handler /\ ~lock_kept
  /\ handler' = FALSE
  /\ keep_wait' = IF keep_wait = NO_NEW_BATCH THEN KEEP_IN_FLIGHT ELSE keep_wait
  /\ UNCHANGED <<sched, closer, timer, desc, local, queue, inflight, uncounted>>

slice_end ==
  /\ slice
  /\ slice' = FALSE
  /\ UNCHANGED <<io_work_list, active, last_served, gate, desc, local, queue, inflight,
                 uncounted>>

(***************************************************************************)
(* elevator_switch, to this instance and to another one.                   *)
(***************************************************************************)

\* The calls with a descriptor.
described == {i \in Syscall : st[i] \in {"queued", "selected"} \/ owner[i] # NoOne}

\* q->sched_uniq++: every call in progress has an outdated one.
count_switch ==
  /\ \/ elv = "new" /\ elv' = "counted"
     \/ elv = "away" /\ elv' = "gone"
  /\ stale' = described
  /\ UNCHANGED <<sched, gate, desc, local, switches, lock_kept, inflight, uncounted>>

\* q->sched_uniq = 1000, which may be what it was before it was counted up.
end_switch ==
  /\ elv = "counted" /\ elv' = "here"
  /\ stale' \in SUBSET described
  /\ UNCHANGED <<sched, gate, desc, local, switches, lock_kept, inflight, uncounted>>

\* blk_queue_bypass_start has waited for the requests; another instance becomes
\* q->elevator.
switch_away ==
  /\ dp = "idle" /\ elv = "here" /\ elv' = "away"
  /\ \A r \in Request : st[r] = "free"
  /\ switches < MaxSwitches /\ switches' = switches + 1
  /\ UNCHANGED <<sched, gate, desc, local, stale, lock_kept, inflight, uncounted>>

\* It could not be entered in sysfs: q->elevator = old.
switch_back ==
  /\ elv = "gone" /\ elv' = "here"
  /\ UNCHANGED <<sched, gate, desc, local, stale, switches, lock_kept, inflight, uncounted>>

(***************************************************************************)
(* The specification.                                                      *)
(***************************************************************************)

basic_sched_dispatch ==
  \/ want_dispatch_read \/ dispatch_decline \/ select_start \/ select_acct
  \/ select_move \/ select_complete \/ submit_one \/ submit_close \/ submit_arm

Next ==
  \/ \E i \in Syscall : fsync_entry(i) \/ write_entry(i) \/ mkdir_entry(i)
  \/ \E i \in Syscall : fsync_return(i) \/ write_return(i) \/ mkdir_return(i)
  \/ \E i \in Syscall : mkdir_emlink(i)
  \/ stray_return
  \/ \E r \in Request : basic_sched_add_request(r)
  \/ \E r \in Request : basic_sched_complte_request(r)
  \/ sched_thread_func \/ basic_sched_dispatch \/ spin_lock
  \/ timer_expire \/ new_batch_wait_timer_func \/ slice_end
  \/ count_switch \/ end_switch \/ switch_away \/ switch_back

Spec == Init /\ [][Next]_vars

\* The polling thread and the dispatcher run, timers expire, the disk
\* completes every request, and a call whose reads are done returns.
Fairness ==
  /\ WF_vars(sched_thread_func) /\ WF_vars(basic_sched_dispatch)
  /\ WF_vars(timer_expire) /\ WF_vars(new_batch_wait_timer_func)
  /\ WF_vars(slice_end)
  /\ \A r \in Request : SF_vars(basic_sched_complte_request(r))
  /\ \A i \in Syscall :
       SF_vars(fsync_return(i) \/ write_return(i) \/ mkdir_return(i))

FairSpec == Spec /\ Fairness

(***************************************************************************)
(* Properties.                                                             *)
(***************************************************************************)

TypeOK ==
  /\ io_work_list \in [Acct -> Seq(Work)] /\ active \subseteq Acct
  /\ keep_wait \in {ALLOW_NEW_BATCH, NO_NEW_BATCH, KEEP_IN_FLIGHT}
  /\ inflight \in Int /\ uncounted \in Nat
  /\ last_served \in Acct \cup {NoOne}
  /\ slice \in BOOLEAN /\ timer \in BOOLEAN /\ handler \in BOOLEAN
  /\ st \in [Item -> {"free", "queued", "selected", "issued"}]
  /\ owner \in [Item -> Batch \cup {NoOne}]
  /\ live \subseteq Batch /\ one_loop_work \in [Batch -> Int] /\ lost \in [Batch -> Nat]
  /\ dp \in {"idle", "want", "check", "choose", "move", "submit", "arm"}
  /\ seen \in {ALLOW_NEW_BATCH, NO_NEW_BATCH, KEEP_IN_FLIGHT}
  /\ idle_last \in BOOLEAN
  /\ min_acct \in Acct \cup {NoOne}
  /\ cur \in Batch \cup {NoOne}
  /\ selected \in Seq(Work)
  /\ elv \in {"new", "counted", "here", "away", "gone"} /\ stale \subseteq Syscall
  /\ switches \in Nat /\ lock_kept \in BOOLEAN
  /\ closer \in Batch \cup {NoOne}

\* The members of a batch: the items whose owner_batch points to it.
members(b) == {i \in Item : owner[i] = b}

\* No use after free: whoever will decrement a batch (owner_batch in
\* *_return and complte_request) points to one that is still allocated.
OwnerIsLive ==
  \A i \in Item : owner[i] # NoOne => owner[i] \in live /\ st[i] = "issued"

\* one_loop_work is the number of members still to come back, and of mkdirs that
\* never will because vfs_mkdir returned -EMLINK.  It is counted up while earlier
\* members of the same batch may already be running, and reaches zero with the
\* last of them, neither before nor, unless a mkdir was lost, never.
LoopWorkExact ==
  \A b \in live : one_loop_work[b] = Cardinality(members(b)) + lost[b]

\* The members that the batch still waits for, or waits for in vain.
outstanding(b) == members(b) # {} \/ lost[b] > 0

\* A batch descriptor is leaked only by a mkdir that fails with -EMLINK: once
\* submitted, any other batch that is allocated has a member whose return or
\* completion will free it, also when sched_uniq has changed meanwhile.
NoBatchLeak == \A b \in live : b # cur => outstanding(b)

\* Who reopens a closed gate: unless new batches are allowed, the batch that
\* closed the gate is allocated and has a member to come back, whose return will
\* set ALLOW_NEW_BATCH.  There are two exceptions, and the wait timer is for
\* them: the batch has lost a mkdir, or its last member found another sched_uniq
\* and freed it with afq_data = NULL (closer = NoOne).
ClosedMeansBusy ==
  keep_wait # ALLOW_NEW_BATCH /\ closer # NoOne => closer \in live /\ outstanding(closer)

\* The wait timer backs up every closed gate: as long as no new batch is allowed
\* at all, the timer is pending or its handler is on the way, or the dispatcher
\* is about to start it, although the dispatcher restarts the timer without the
\* lock under which the handler and the return hooks change keep_wait.
TimerBacksUp == keep_wait = NO_NEW_BATCH => dp = "arm" \/ timer \/ handler

\* active_acct_list is exactly the set of accounts with pending io_work, so
\* that select_io_work never takes one of its `return -1' paths, no account
\* is linked twice, and none is forgotten with work on its list.
ActiveExact ==
  /\ active = {a \in Acct : ~acct_no_pending_io(a)}
  /\ dp = "choose" => active # {} \/ selected # <<>>
  /\ dp = "move" => min_acct \in active
  /\ dp = "submit" /\ selected = <<>> => outstanding(cur)

\* "keep_wait might have been changed when we are checkiing inflight. But it
\* is OK in this case because at worst we risk not sending requests": a
\* stale decision to dispatch is never taken (comment in want_dispatch).
StaleOnlyDeclines ==
  dp = "check" /\ seen # NO_NEW_BATCH => keep_wait = seen

\* The requests at the disk that were counted in inflight.
counted ==
  {r \in Request : st[r] = "issued" /\ (r \in Read => owner[r] # NoOne)}

\* inflight never exceeds the number of counted requests at the disk, so the
\* test against MIN_IN_FLIGHT cannot stay false when the disk is idle.  It
\* may be lower, and negative, but only by the completed reads of no account:
\* complte_request counts them down, add_request never counted them up.
InflightBound == inflight + uncounted = Cardinality(counted)

\* No stall: while an account has pending work a batch is eventually
\* submitted, even if the running batch waits for a read that is queued
\* behind it (an fsync that must read), or was freed without reopening the gate
\* because sched_uniq had changed.  The wait timer breaks this circle, but only
\* if writes, which are not scheduled, do not keep MIN_IN_FLIGHT requests at the
\* disk for ever, the instance stays q->elevator, and no write keeps its lock.
NoStall ==
  <>[](inflight < MIN_IN_FLIGHT /\ Current /\ ~lock_kept)
    => ((active # {}) ~> (dp = "submit"))

=============================================================================
