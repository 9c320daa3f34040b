------------------------------ MODULE ElvSwitch ------------------------------
(***************************************************************************)
(* System calls, schedulers that are switched under them, and modules that *)
(* are loaded and unloaded (the hooks of vfs_write, vfs_fsync_range,       *)
(* vfs_create and vfs_mkdir, get_elevator_call_info_from_inode,            *)
(* elevator_switch, the entry hooks of tb and AFQ, their init and exit     *)
(* functions, ioctl_helper.c).                                             *)
(*                                                                         *)
(* A call takes a reference to the module of the current scheduler and     *)
(* copies its hooks and the queue's sched_uniq; a hook is given that copy  *)
(* to find out whether the scheduler has been switched since.  Meanwhile   *)
(* elevator_switch makes a new instance of a scheduler, enters the queue   *)
(* into the new module's disk_info_list, changes sched_uniq, and takes the *)
(* old instance down again.                                                *)
(*                                                                         *)
(* There is one queue.  Every action is what runs between two points where *)
(* another thread can step in.  What a hook does with the data of its      *)
(* scheduler is the subject of the other modules; here it goes on, or has  *)
(* the call wait, or fails.  The kernel's own part (module references,     *)
(* elevator_alloc, kobject_put, blk_queue_bypass_start) is external.       *)
(***************************************************************************)
EXTENDS Integers, FiniteSets

CONSTANTS
  Call,              \* system calls, one at a time per member
  Inst,              \* scheduler instances: struct elevator_queue
  boot,              \* the one the queue starts with, of a built-in scheduler
  NoInst,            \* NULL
  Faults,            \* what may fail: "alloc", "threads", "sysfs"
  INT_MAX,           \* largest value of sched_uniq
  MaxLeaks           \* bound: mkdir calls that fail with EMLINK in a module

Module == {"tb", "afq"}
Kind   == {"write", "fsync", "mkdir", "create"}

ASSUME ElvSwitchAssumption ==
  /\ boot \in Inst /\ NoInst \notin Inst
  /\ IsFiniteSet(Call) /\ IsFiniteSet(Inst) /\ MaxLeaks \in Nat
  /\ INT_MAX \in Nat /\ INT_MAX > 1000

VARIABLES
  state, refs,       \* modules: state of loading, and reference count
  chrdev,            \* the device number IOCTL_MAJOR is registered
  list,              \* entries for the queue in the disk_info_list of a module
  typ, phase,        \* instances: scheduler and state
  elevator, sched_uniq,   \* fields of the queue
  sw,                \* elevator_switch: where it is, old and new instance
  call,              \* system calls: see Out
  locked,            \* instances whose afq_data->lock is never released again
  stuck,             \* queue_lock is held by a thread that waits for such a lock
  leaked,            \* history: references lost
  unlisted,          \* history: instances that are in no list, registering failed
  dangling           \* history: a call was intercepted with q->elevator freed

module == <<state, chrdev, refs, list, leaked, unlisted>>
queue  == <<typ, phase, elevator, sched_uniq, sw>>
hooks  == <<locked, stuck, dangling>>
vars   == <<module, queue, call, hooks>>

\* A call that is not in progress, with its local variables.
Out == [pc    |-> "out",
        kind  |-> "none",
        owner |-> "builtin",   \* module
        uniq  |-> 0,           \* sops.sched_uniq
        data  |-> NoInst]      \* afq_data of the entry hook

\* The modules whose code is there; elevator_get finds their schedulers.
loaded == {m \in Module : state[m] # "out"}

Idle == [at |-> "idle", old |-> NoInst, new |-> NoInst]

Init ==
  /\ state = [m \in Module |-> "out"] /\ chrdev = FALSE
  /\ refs = [m \in Module |-> 0] /\ list = [m \in Module |-> 0]
  /\ typ = [i \in Inst |-> "builtin"]
  /\ phase = [i \in Inst |-> IF i = boot THEN "live" ELSE "unused"]
  /\ elevator = boot /\ sched_uniq = 0 /\ sw = Idle
  /\ call = [c \in Call |-> Out] /\ locked = {} /\ stuck = FALSE
  /\ leaked = [m \in Module |-> 0] /\ unlisted = {} /\ dangling = FALSE

\* try_module_get and module_put; a built-in scheduler has no module.
get(m) == refs' = IF m \in Module THEN [refs EXCEPT ![m] = @ + 1] ELSE refs
put(m) == refs' = IF m \in Module THEN [refs EXCEPT ![m] = @ - 1] ELSE refs

(***************************************************************************)
(* System calls.  What needs queue_lock waits while it is stuck.           *)
(***************************************************************************)

\* The entry hooks of a scheduler.
entry_fn(m) == CASE m = "tb"  -> {"write", "fsync", "create"}
                 [] m = "afq" -> {"write", "fsync", "mkdir"}
                 [] OTHER     -> {}

\* get_elevator_call_info_from_inode, with queue_lock held.
get_elevator_call_info(c, k) ==
  /\ call[c].pc = "out" /\ ~stuck
  /\ get(typ[elevator])
  /\ call' = [call EXCEPT ![c] =
                [pc    |-> IF k \in entry_fn(typ[elevator]) THEN "entry" ELSE "body",
                 kind  |-> k, owner |-> typ[elevator], uniq |-> sched_uniq,
                 data |-> NoInst]]
  /\ dangling' = (dangling \/ phase[elevator] = "freed")
  /\ UNCHANGED <<state, chrdev, list, leaked, unlisted, queue, locked, stuck>>

\* The call goes on at pc.
go(c, pc) ==
  /\ call' = [call EXCEPT ![c].pc = pc]
  /\ UNCHANGED <<module, queue, hooks>>

\* The hook lets the call pass: it has no descriptor for the return hook.
pass(c) ==
  /\ call' = [call EXCEPT ![c].pc = "body", ![c].data = NoInst]
  /\ UNCHANGED <<module, queue, hooks>>

\* The call is over, and drops its reference to the module.
module_put(c) ==
  /\ call' = [call EXCEPT ![c] = Out]
  /\ put(call[c].owner)
  /\ UNCHANGED <<state, chrdev, list, leaked, unlisted, queue, stuck, dangling>>

switched(c) == call[c].uniq # sched_uniq

\* tbucket_write_entry and tbucket_create_entry sleep while the account is in
\* debt, unless the scheduler has changed (maybe_sleep, with queue_lock held);
\* tbucket_fsync_entry does nothing.
tbucket_entry(c) ==
  /\ call[c].pc = "entry" /\ call[c].owner = "tb"
  /\ ~stuck \/ call[c].kind = "fsync"
  /\ pass(c)

\* afq_data = rq->elevator->elevator_data, without a lock.
afq_entry(c) ==
  /\ call[c].pc = "entry" /\ call[c].owner = "afq"
  /\ call' = [call EXCEPT ![c].data = elevator, ![c].pc = "check"]
  /\ UNCHANGED <<module, queue, hooks>>

checks(c, k) == call[c].pc = "check" /\ call[c].kind = k

\* afq_data->lock is taken, and kept if the scheduler has changed.
basic_sched_write_entry(c) ==
  /\ checks(c, "write") /\ call[c].data \notin locked
  /\ \/ switched(c) /\ module_put(c) /\ locked' = locked \cup {call[c].data}
     \/ ~switched(c) /\ (pass(c) \/ go(c, "block"))

basic_sched_mkdir_entry(c) ==
  /\ checks(c, "mkdir") /\ ~stuck
  /\ \/ switched(c) /\ module_put(c) /\ UNCHANGED locked
     \/ ~switched(c) /\ (pass(c) \/ go(c, "block"))

\* get_fsync_desc; the fsync is queued at once, unless the account is 0.
basic_sched_fsync_entry(c) ==
  /\ checks(c, "fsync")
  /\ \/ ("alloc" \in Faults \/ (switched(c) /\ ~stuck)) /\ module_put(c) /\ UNCHANGED locked
     \/ ~switched(c) /\ ~stuck /\ (pass(c) \/ go(c, "wait"))

\* Mutant: a call that fails keeps its reference.
schedule_no_put(c) ==
  /\ call[c].pc = "block"
  /\ \/ ~stuck /\ go(c, "wait")
     \/ /\ "alloc" \in Faults /\ call' = [call EXCEPT ![c] = Out]
        /\ UNCHANGED <<module, queue, hooks>>

\* A write or mkdir beyond the allowance: get_wrdesc or get_mkdir_desc, and the
\* call is queued under queue_lock, without another look at sched_uniq.
schedule(c) ==
  /\ call[c].pc = "block"
  /\ \/ ~stuck /\ go(c, "wait")
     \/ "alloc" \in Faults /\ module_put(c) /\ UNCHANGED locked

\* blk_queue_bypass_start: elevator_switch keeps the queue from dispatching.
bypassed == sw.at \notin {"idle", "done"}

\* Mutant: the dispatcher wakes writes and mkdirs only.
complete_no_fsync(c) ==
  /\ call[c].pc = "wait" /\ call[c].data = elevator /\ typ[elevator] = "afq"
  /\ ~bypassed /\ ~stuck /\ elevator \notin locked /\ call[c].kind # "fsync"
  /\ go(c, "body")

\* The scheduler the call is queued in dispatches it, with queue_lock and
\* afq_data->lock held.
complete(c) ==
  /\ call[c].pc = "wait" /\ call[c].data = elevator /\ typ[elevator] = "afq"
  /\ ~bypassed /\ ~stuck /\ elevator \notin locked
  /\ go(c, "body")

\* The file system's part; the return hook, which takes queue_lock if the entry
\* hook has made a descriptor; module_put.
return(c) ==
  /\ call[c].pc = "body" /\ (call[c].data = NoInst \/ ~stuck)
  /\ module_put(c) /\ UNCHANGED locked

ours(i, m) == typ[i] = m /\ phase[i] = "live"

\* The return hook finds its sched_uniq in the queue, takes whatever is
\* q->elevator for its scheduler, and, if its batch is complete, waits for
\* afq_data->lock there, with queue_lock held (dec_check_cleanup_batch).  It waits
\* for ever if that lock was kept, and may do so, or crash, where there is no lock.
return_spins(c) ==
  /\ call[c].pc = "body" /\ call[c].data # NoInst /\ ~stuck /\ ~switched(c)
  /\ elevator \in locked \/ ~ours(elevator, "afq")
  /\ stuck' = TRUE
  /\ UNCHANGED <<module, queue, call, locked, dangling>>

\* vfs_mkdir in a directory with too many links: neither.
mkdir_emlink(c) ==
  /\ call[c].pc = "body" /\ call[c].kind = "mkdir" /\ call[c].owner \in Module
  /\ leaked[call[c].owner] < MaxLeaks
  /\ leaked' = [leaked EXCEPT ![call[c].owner] = @ + 1]
  /\ call' = [call EXCEPT ![c] = Out]
  /\ UNCHANGED <<state, chrdev, refs, list, unlisted, queue, hooks>>

\* A dispatch waits for afq_data->lock of the scheduler with queue_lock held
\* (basic_sched_want_dispatch).
spin_lock ==
  /\ elevator \in locked /\ typ[elevator] = "afq" /\ phase[elevator] = "live" /\ ~stuck
  /\ stuck' = TRUE
  /\ UNCHANGED <<module, queue, call, locked, dangling>>

(***************************************************************************)
(* elevator_switch, with the queue's sysfs_lock held.                      *)
(***************************************************************************)

\* The switch goes on from a to b.
at(a, b) == sw.at = a /\ sw' = IF b = "idle" THEN Idle ELSE [sw EXCEPT !.at = b]

\* The next instance that is made.
unused == CHOOSE i \in Inst : phase[i] = "unused"

\* elevator_get, blk_queue_bypass_start, and elevator_alloc in the init function
\* of the new scheduler
switch(m, i) ==
  /\ sw.at = "idle" /\ ~stuck /\ m # typ[elevator] /\ m \in loaded \cup {"builtin"}
  /\ phase[i] = "unused" /\ i = unused
  /\ sw' = [at |-> "init", old |-> elevator, new |-> i]
  /\ typ' = [typ EXCEPT ![i] = m] /\ phase' = [phase EXCEPT ![i] = "alloc"]
  /\ get(m)
  /\ UNCHANGED <<state, chrdev, list, leaked, unlisted, elevator, sched_uniq, call, hooks>>

\* kobject_put drops the instance's reference to its module.
free(i) ==
  /\ phase' = [phase EXCEPT ![i] = "freed"]
  /\ put(typ[i])

\* Mutant: the error path drops the instance's reference and its own.
init_fails_put_twice ==
  /\ "alloc" \in Faults /\ at("init", "idle")
  /\ phase' = [phase EXCEPT ![sw.new] = "freed"]
  /\ refs' = IF typ[sw.new] \in Module THEN [refs EXCEPT ![typ[sw.new]] = @ - 2] ELSE refs
  /\ UNCHANGED <<state, chrdev, list, leaked, unlisted, typ, elevator, sched_uniq, call, hooks>>

\* An allocation fails in the init function.
init_fails ==
  /\ "alloc" \in Faults /\ at("init", "idle")
  /\ free(sw.new)
  /\ UNCHANGED <<state, chrdev, list, leaked, unlisted, typ, elevator, sched_uniq, call, hooks>>

\* q->elevator = eq, with queue_lock held
set_elevator ==
  /\ at("init", "register") /\ ~stuck
  /\ elevator' = sw.new /\ phase' = [phase EXCEPT ![sw.new] = "live"]
  /\ UNCHANGED <<module, typ, sched_uniq, call, hooks>>

\* Mutant: the exit function runs for an instance that was never registered.
threads_fail_exit ==
  /\ "threads" \in Faults /\ at("register", "exit_new") /\ typ[sw.new] = "afq"
  /\ UNCHANGED <<module, typ, phase, elevator, sched_uniq, call, hooks>>

\* AFQ cannot start its threads: the instance is freed while it is q->elevator.
threads_fail ==
  /\ "threads" \in Faults /\ at("register", "restore") /\ typ[sw.new] = "afq"
  /\ free(sw.new)
  /\ UNCHANGED <<state, chrdev, list, leaked, unlisted, typ, elevator, sched_uniq, call, hooks>>

\* The last call of the init functions, which go on when there is no memory for
\* the entry.  The list of a module that is still being loaded may not have been
\* made: the switching thread dies there, with the queue bypassed.
ioctl_helper_register_disk ==
  /\ \/ /\ at("register", "count") /\ typ[sw.new] \notin Module
        /\ UNCHANGED <<list, unlisted>>
     \/ /\ at("register", "count") /\ typ[sw.new] \in Module /\ state[typ[sw.new]] # "coming"
        /\ list' = [list EXCEPT ![typ[sw.new]] = @ + 1] /\ UNCHANGED unlisted
     \/ /\ \/ at("register", "count") /\ "alloc" \in Faults
           \/ at("register", "bug") /\ typ[sw.new] = "tb" /\ state["tb"] = "coming"
        /\ typ[sw.new] \in Module
        /\ unlisted' = unlisted \cup {sw.new} /\ UNCHANGED list
  /\ UNCHANGED <<state, chrdev, refs, leaked, typ, phase, elevator, sched_uniq, call, hooks>>

\* q->sched_uniq++
count_switch ==
  /\ at("count", "sysfs")
  /\ sched_uniq' = IF sched_uniq = INT_MAX THEN 1 ELSE sched_uniq + 1
  /\ UNCHANGED <<module, typ, phase, elevator, call, hooks>>

\* elv_register_queue
register_queue ==
  /\ at("sysfs", "exit_old") \/ ("sysfs" \in Faults /\ at("sysfs", "exit_new"))
  /\ UNCHANGED <<module, typ, phase, elevator, sched_uniq, call, hooks>>

\* The switch goes on from a to b, or ends in BUG_ON(1) for want of an entry.
ioctl_helper_unregister_disk(i, a, b) ==
  \/ at(a, b) /\ typ[i] \notin Module /\ UNCHANGED list
  \/ /\ at(a, b) /\ typ[i] \in Module /\ list[typ[i]] > 0
     /\ list' = [list EXCEPT ![typ[i]] = @ - 1]
  \/ at(a, "bug") /\ typ[i] \in Module /\ list[typ[i]] = 0 /\ UNCHANGED list

\* AFQ waits for its threads, which need queue_lock to run the queue.
exits(i) == typ[i] = "afq" => ~stuck

\* elevator_exit of the old scheduler: its exit function, then its memory.
exit_old ==
  /\ ioctl_helper_unregister_disk(sw.old, "exit_old", "free_old") /\ exits(sw.old)
  /\ UNCHANGED <<state, chrdev, refs, leaked, unlisted, typ, phase, elevator, sched_uniq, call, hooks>>

free_old ==
  /\ at("free_old", "done")
  /\ free(sw.old)
  /\ UNCHANGED <<state, chrdev, list, leaked, unlisted, typ, elevator, sched_uniq, call, hooks>>

end_switch ==
  /\ at("done", "idle") /\ ~stuck
  /\ sched_uniq' = 1000
  /\ UNCHANGED <<module, typ, phase, elevator, call, hooks>>

\* The queue could not be entered in sysfs: back to the old scheduler.
exit_new ==
  /\ ioctl_helper_unregister_disk(sw.new, "exit_new", "free_new") /\ exits(sw.new)
  /\ UNCHANGED <<state, chrdev, refs, leaked, unlisted, typ, phase, elevator, sched_uniq, call, hooks>>

free_new ==
  /\ at("free_new", "restore")
  /\ free(sw.new)
  /\ UNCHANGED <<state, chrdev, list, leaked, unlisted, typ, elevator, sched_uniq, call, hooks>>

restore ==
  /\ at("restore", "idle")
  /\ elevator' = sw.old
  /\ UNCHANGED <<module, typ, phase, sched_uniq, call, hooks>>

(***************************************************************************)
(* Modules: insmod, and rmmod of a module nobody refers to.                *)
(***************************************************************************)

\* insmod: the init function of a module.
ioctl_helper_init(m) == chrdev' = TRUE /\ list' = [list EXCEPT ![m] = 0]

\* tb registers its scheduler, which can be selected from now on, and only then
\* makes the list; if the device number is taken it stops at its BUG_ON, and can
\* neither be loaded again nor unloaded.
tbucket_elv_register ==
  /\ state["tb"] = "out" /\ state' = [state EXCEPT !["tb"] = "coming"]
  /\ UNCHANGED <<chrdev, refs, list, leaked, unlisted, queue, call, hooks>>

tbucket_init ==
  /\ state["tb"] = "coming"
  /\ state' = [state EXCEPT !["tb"] = IF chrdev THEN "halted" ELSE "live"]
  /\ ioctl_helper_init("tb")
  /\ UNCHANGED <<refs, leaked, unlisted, queue, call, hooks>>

\* AFQ makes the list first, and goes on without a device if the number is taken.
basic_sched_init ==
  /\ state["afq"] = "out" /\ state' = [state EXCEPT !["afq"] = "live"]
  /\ ioctl_helper_init("afq")
  /\ UNCHANGED <<refs, leaked, unlisted, queue, call, hooks>>

\* Mutant: a module in use is unloaded.
module_exit_forced(m) ==
  /\ state[m] = "live"
  /\ state' = [state EXCEPT ![m] = "out"] /\ chrdev' = FALSE
  /\ UNCHANGED <<refs, list, leaked, unlisted, queue, call, hooks>>

\* ioctl_helper_cleanup stops at its BUG_ON if there is an entry, and unregisters
\* the number, whoever has registered it.
module_exit(m) ==
  /\ state[m] = "live" /\ refs[m] = 0
  /\ state' = [state EXCEPT ![m] = IF list[m] = 0 THEN "out" ELSE "going"]
  /\ chrdev' = (chrdev /\ list[m] # 0)
  /\ UNCHANGED <<refs, list, leaked, unlisted, queue, call, hooks>>

elevator_switch ==
  \/ \E m \in Module \cup {"builtin"}, i \in Inst : switch(m, i)
  \/ init_fails \/ set_elevator \/ threads_fail \/ ioctl_helper_register_disk \/ count_switch
  \/ register_queue \/ exit_old \/ free_old \/ end_switch \/ exit_new \/ free_new \/ restore

system_call(c) ==
  \/ \E k \in Kind : get_elevator_call_info(c, k)
  \/ tbucket_entry(c) \/ afq_entry(c)
  \/ basic_sched_write_entry(c) \/ basic_sched_mkdir_entry(c) \/ basic_sched_fsync_entry(c)
  \/ schedule(c) \/ complete(c) \/ return(c) \/ return_spins(c) \/ mkdir_emlink(c)

Next ==
  \/ \E c \in Call : system_call(c)
  \/ spin_lock
  \/ elevator_switch
  \/ tbucket_elv_register \/ tbucket_init \/ basic_sched_init
  \/ \E m \in Module : module_exit(m)

Spec == Init /\ [][Next]_vars

\* A call in progress goes on (a scheduler dispatches what is queued in it, see
\* AfqBatch), and so does a switch.  Calls, switches, insmod and rmmod need not
\* happen.
Fairness ==
  /\ \A c \in Call : WF_vars(system_call(c) /\ call[c].pc # "out")
  /\ WF_vars(elevator_switch /\ sw.at # "idle")

LiveSpec == Spec /\ Fairness

(***************************************************************************)
(* Properties.                                                             *)
(***************************************************************************)

TypeOK ==
  /\ state \in [Module -> {"out", "coming", "live", "halted", "going"}]
  /\ refs \in [Module -> Nat] /\ list \in [Module -> Nat] /\ leaked \in [Module -> 0..MaxLeaks]
  /\ typ \in [Inst -> Module \cup {"builtin"}]
  /\ phase \in [Inst -> {"unused", "alloc", "live", "freed"}]
  /\ elevator \in Inst /\ sched_uniq \in 0..INT_MAX
  /\ sw \in [at : {"idle", "init", "register", "count", "sysfs", "exit_old", "free_old", "done",
                   "exit_new", "free_new", "restore", "bug"},
             old : Inst \cup {NoInst}, new : Inst \cup {NoInst}]
  /\ call \in [Call -> [pc : {"out", "entry", "check", "block", "wait", "body"},
                        kind : Kind \cup {"none"}, owner : Module \cup {"builtin"},
                        uniq : 0..INT_MAX, data : Inst \cup {NoInst}]]
  /\ locked \subseteq Inst \cup {NoInst} /\ unlisted \subseteq Inst
  /\ chrdev \in BOOLEAN /\ stuck \in BOOLEAN /\ dangling \in BOOLEAN

inside == {c \in Call : call[c].pc # "out"}
holds(m) == {c \in inside : call[c].owner = m}
in_use(i) == phase[i] \in {"alloc", "live"}
attached(m) == {i \in Inst : typ[i] = m /\ in_use(i)}

\* The reference count of a module is the number of system calls it intercepts,
\* of its scheduler instances, and of mkdir calls that failed with EMLINK: on
\* every path through vfs_write, vfs_fsync_range, vfs_create, vfs_mkdir, the
\* entry hooks and elevator_switch, whatever fails, a reference is dropped just
\* once, except that vfs_mkdir keeps it when it returns -EMLINK.
RefsExact ==
  \A m \in Module :
    refs[m] = Cardinality(holds(m)) + Cardinality(attached(m)) + leaked[m]

\* No module is unloaded while a system call is in one of its hooks or has still
\* to run its return hook, or while an instance of its scheduler exists, however
\* the calls race with switches and rmmod.  Only a call that is intercepted while
\* q->elevator is an instance that was freed when its init failed has no such
\* protection.
CodeInUse ==
  /\ \A i \in Inst : in_use(i) => typ[i] \in loaded \cup {"builtin"}
  /\ dangling \/ \A c \in inside : call[c].owner \in loaded \cup {"builtin"}

\* The lists of the ioctl helper are in step with the schedulers: its list is
\* empty when a module is unloaded (the BUG_ON of ioctl_helper_cleanup does not
\* fire), and a switch dies in ioctl_helper_register_disk or _unregister_disk only
\* if one of its two schedulers could not be registered, because memory was short
\* or its module was still being loaded, also after switches that failed half way.
NoBug ==
  /\ \A m \in Module : state[m] # "going"
  /\ sw.at = "bug" => sw.old \in unlisted \/ sw.new \in unlisted

\* The hook takes something else for the data of its scheduler: another
\* scheduler's, because sched_uniq does not tell them apart, or freed memory.
astray(c) ==
  \/ /\ call[c].pc = "entry" /\ call[c].owner = "tb" /\ call[c].kind # "fsync"
     /\ ~switched(c) /\ ~ours(elevator, "tb")
  \/ /\ call[c].pc = "check" /\ (call[c].kind = "write" \/ ~switched(c))
     /\ ~ours(call[c].data, "afq")
  \/ call[c].pc \in {"block", "wait"} /\ ~ours(call[c].data, "afq")

\* The call is lost: it is astray; it waits for afq_data->lock, or for a
\* dispatcher that does, after basic_sched_write_entry has kept that lock; it
\* waits for a dispatch of a queue that stays bypassed after the switch has died;
\* or queue_lock is held for ever, by a dispatch or by a return hook.
Stranded(c) ==
  \/ astray(c)
  \/ /\ call[c].pc = "wait" \/ checks(c, "write")
     /\ call[c].data \in locked
  \/ call[c].pc = "wait" /\ sw.at = "bug"
  \/ stuck

\* Every intercepted call eventually returns, unless it is stranded: no other
\* order of interceptions, switches (completed, failed and undone) and checks of
\* sched_uniq makes a call wait for ever.
OnlyStranded == \A c \in Call : c \in inside ~> (c \notin inside \/ Stranded(c))
=============================================================================
