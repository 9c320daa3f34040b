-------------------------- MODULE ElvSwitch_proofs --------------------------
(***************************************************************************)
(* Proofs about switches of the scheduler, for any number of system calls, *)
(* instances and failures: reference counts are exact, no module is        *)
(* unloaded under a system call or an instance, and the lists of the ioctl *)
(* helper are in step with the schedulers.                                 *)
(***************************************************************************)
EXTENDS ElvSwitch, FiniteSetTheorems, TLAPS

(***************************************************************************)
(* The inductive invariant.                                                *)
(***************************************************************************)

\* What a switch in progress knows: which instances are in use, and which one
\* the queue points to.
SwitchOK ==
  /\ sw.at = "idle" => \A i \in Inst : in_use(i) <=> i = elevator
  /\ sw.at # "idle" =>
       /\ sw.old \in Inst /\ sw.new \in Inst /\ typ[sw.old] # typ[sw.new]
       /\ elevator = IF sw.at = "init" THEN sw.old ELSE sw.new
       /\ \A i \in Inst :
            in_use(i) <=> \/ i = sw.old /\ sw.at # "done"
                          \/ i = sw.new /\ sw.at # "restore"
       /\ sw.at = "restore" => phase[sw.new] = "freed"

\* The instances that have been registered with the ioctl helper, or have tried.
registered ==
  CASE sw.at = "idle"                                              -> {elevator}
    [] sw.at \in {"init", "register", "free_new", "restore"}       -> {sw.old}
    [] sw.at \in {"count", "sysfs", "exit_old", "exit_new", "bug"} -> {sw.old, sw.new}
    [] sw.at \in {"free_old", "done"}                              -> {sw.new}

\* The list of a module has one entry if its scheduler is registered and the
\* registration has not failed.
ListOK ==
  \A m \in Module : list[m] = IF \E i \in registered \ unlisted : typ[i] = m THEN 1 ELSE 0

\* Only an instance that has tried to register has failed to, and there is no
\* entry in the list of a module that has still to make it.
LoadOK ==
  /\ \A i \in unlisted : phase[i] # "unused"
  /\ sw.at \in {"init", "register"} => sw.new \notin unlisted
  /\ \A m \in Module : state[m] = "coming" => list[m] = 0

IInv == TypeOK /\ RefsExact /\ SwitchOK /\ ListOK /\ LoadOK /\ CodeInUse /\ NoBug

CallRec == [pc : {"out", "entry", "check", "block", "wait", "body"},
            kind : Kind \cup {"none"}, owner : Module \cup {"builtin"},
            uniq : 0..INT_MAX, data : Inst \cup {NoInst}]

\* Only the record of c changes.
other_calls(c) ==
  /\ call' \in [Call -> CallRec]
  /\ \A d \in Call \ {c} : call'[d] = call[d]

\* A step of a call between its interception and its end.
moves(c) ==
  /\ call[c].pc # "out" /\ call'[c].pc # "out" /\ call'[c].owner = call[c].owner
  /\ other_calls(c)
  /\ UNCHANGED <<module, queue, hooks>>

\* The end of a call.
leaves(c) ==
  /\ call[c].pc # "out" /\ call'[c].pc = "out"
  /\ other_calls(c)
  /\ put(call[c].owner)
  /\ locked' \subseteq Inst \cup {NoInst}
  /\ UNCHANGED <<state, chrdev, list, leaked, unlisted, queue, stuck, dangling>>

\* A thread waits for afq_data->lock for ever, with queue_lock held.
spins ==
  /\ stuck' = TRUE
  /\ UNCHANGED <<module, queue, call, locked, dangling>>

(***************************************************************************)
(* The steps of a system call.                                             *)
(***************************************************************************)

\* The record of a call that is not in progress has its type.
LEMMA OutType == Out \in CallRec
BY ElvSwitchAssumption DEF Out, CallRec

\* The calls and the instances that refer to a module can be counted.
LEMMA FiniteUsers ==
  ASSUME NEW m
  PROVE  /\ IsFiniteSet(holds(m)) /\ Cardinality(holds(m)) \in Nat
         /\ IsFiniteSet(attached(m)) /\ Cardinality(attached(m)) \in Nat
<1>1. holds(m) \in SUBSET Call /\ attached(m) \in SUBSET Inst
  BY DEF holds, inside, attached
<1>2. IsFiniteSet(holds(m)) /\ IsFiniteSet(attached(m))
  BY <1>1, FS_Subset, ElvSwitchAssumption
<1> QED
  BY <1>2, FS_CardinalityType

\* One more element.
LEMMA CountIn ==
  ASSUME NEW S, NEW x, IsFiniteSet(S), x \notin S
  PROVE  Cardinality(S \cup {x}) = Cardinality(S) + 1
BY FS_AddElement

\* One element less.
LEMMA CountOut ==
  ASSUME NEW S, NEW x, IsFiniteSet(S), x \in S
  PROVE  Cardinality(S \ {x}) = Cardinality(S) - 1
BY FS_RemoveElement

\* The steps of a system call, by what they do to the call.
LEMMA CallForms ==
  ASSUME TypeOK, NEW c \in Call, system_call(c)
  PROVE  \/ \E k \in Kind : get_elevator_call_info(c, k)
         \/ moves(c) \/ leaves(c) \/ mkdir_emlink(c) \/ spins
<1>0. /\ call \in [Call -> CallRec] /\ call[c] \in CallRec /\ elevator \in Inst
      /\ locked \subseteq Inst \cup {NoInst}
  BY DEF TypeOK, CallRec
<1>1. ASSUME call[c].pc # "out", NEW p \in {"block", "wait", "body"}, go(c, p)
      PROVE  moves(c)
  <2>1. call'[c] = [call[c] EXCEPT !.pc = p] /\ other_calls(c)
    BY <1>0, <1>1 DEF go, other_calls, CallRec
  <2> QED
    BY <1>0, <1>1, <2>1 DEF go, moves, CallRec
<1>2. ASSUME call[c].pc # "out", pass(c)
      PROVE  moves(c)
  <2>1. /\ call'[c] = [call[c] EXCEPT !.pc = "body", !.data = NoInst]
        /\ other_calls(c)
    BY <1>0, <1>2, Zenon DEF pass, other_calls, CallRec
  <2> QED
    BY <1>0, <1>2, <2>1 DEF pass, moves, CallRec
<1>3. ASSUME afq_entry(c)
      PROVE  moves(c)
  <2>1. /\ call'[c] = [call[c] EXCEPT !.data = elevator, !.pc = "check"]
        /\ other_calls(c)
    BY <1>0, <1>3 DEF afq_entry, other_calls, CallRec
  <2> QED
    BY <1>0, <1>3, <2>1 DEF afq_entry, moves, CallRec
<1>4. ASSUME call[c].pc # "out", module_put(c), locked' \subseteq Inst \cup {NoInst}
      PROVE  leaves(c)
  <2>1. call'[c] = Out /\ other_calls(c)
    BY <1>0, <1>4, OutType DEF module_put, other_calls
  <2>2. call'[c].pc = "out"
    BY <2>1 DEF Out
  <2> QED
    BY <1>4, <2>1, <2>2 DEF module_put, leaves
<1>5. CASE tbucket_entry(c)
  BY <1>2, <1>5 DEF tbucket_entry
<1>6. CASE basic_sched_write_entry(c)
  <2>0. call[c].pc = "check"
    BY <1>6 DEF basic_sched_write_entry, checks
  <2>1. CASE module_put(c) /\ locked' = locked \cup {call[c].data}
    <3>1. call[c].data \in Inst \/ call[c].data = NoInst
      BY <1>0 DEF CallRec
    <3> QED
      BY <1>0, <1>4, <2>0, <2>1, <3>1
  <2>2. CASE pass(c) \/ go(c, "block")
    BY <1>1, <1>2, <2>0, <2>2
  <2> QED
    BY <1>6, <2>1, <2>2 DEF basic_sched_write_entry
<1>7. CASE basic_sched_mkdir_entry(c)
  <2>0. call[c].pc = "check"
    BY <1>7 DEF basic_sched_mkdir_entry, checks
  <2> QED
    BY <1>0, <1>1, <1>2, <1>4, <1>7, <2>0 DEF basic_sched_mkdir_entry
<1>8. CASE basic_sched_fsync_entry(c)
  <2>0. call[c].pc = "check"
    BY <1>8 DEF basic_sched_fsync_entry, checks
  <2> QED
    BY <1>0, <1>1, <1>2, <1>4, <1>8, <2>0 DEF basic_sched_fsync_entry
<1>9. CASE schedule(c)
  BY <1>0, <1>1, <1>4, <1>9 DEF schedule
<1>10. CASE complete(c)
  BY <1>1, <1>10 DEF complete
<1>11. CASE return(c)
  BY <1>0, <1>4, <1>11 DEF return
<1>12. CASE return_spins(c)
  BY <1>12, Zenon DEF return_spins, spins
<1> QED
  BY <1>3, <1>5, <1>6, <1>7, <1>8, <1>9, <1>10, <1>11, <1>12 DEF system_call

\* A step that leaves the queue and the lists alone.
LEMMA QueueSame ==
  ASSUME IInv, UNCHANGED <<queue, list, unlisted>>
  PROVE  /\ SwitchOK' /\ ListOK' /\ \A m : attached(m)' = attached(m)
         /\ \A i : in_use(i)' <=> in_use(i)
<1>1. /\ typ' = typ /\ phase' = phase /\ elevator' = elevator /\ sw' = sw
      /\ list' = list /\ unlisted' = unlisted
  BY DEF queue
<1>2. \A i : in_use(i)' <=> in_use(i)
  BY <1>1 DEF in_use
<1>3. SwitchOK'
  BY <1>1, <1>2, Zenon DEF IInv, SwitchOK
<1>4. registered' = registered
  BY <1>1, Zenon DEF registered
<1>5. ListOK'
  BY <1>1, <1>4, Zenon DEF IInv, ListOK
<1>6. \A m : attached(m)' = attached(m)
  BY <1>1, <1>2, Zenon DEF attached
<1> QED
  BY <1>2, <1>3, <1>5, <1>6

\* A step that leaves the queue, the lists and the state of the modules alone.
LEMMA LoadSame ==
  ASSUME IInv, UNCHANGED <<queue, list, unlisted, state>>
  PROVE  LoadOK' /\ NoBug' /\ loaded' = loaded
<1>1. phase' = phase /\ sw' = sw
  BY DEF queue
<1>2. LoadOK'
  BY <1>1, Zenon DEF IInv, LoadOK
<1>3. NoBug'
  BY <1>1, Zenon DEF IInv, NoBug
<1> QED
  BY <1>2, <1>3 DEF loaded

\* A call that is intercepted, moves on, or ends is a user more, as many users,
\* or a user less of its module.
LEMMA HoldsMore ==
  ASSUME TypeOK, NEW c \in Call, call[c].pc = "out", call'[c].pc # "out", other_calls(c),
         NEW m
  PROVE  holds(m)' = IF call'[c].owner = m THEN holds(m) \cup {c} ELSE holds(m)
BY DEF holds, inside, other_calls

\* A step of a call in progress changes nobody's references.
LEMMA HoldsSame ==
  ASSUME TypeOK, NEW c \in Call, moves(c), NEW m
  PROVE  holds(m)' = holds(m)
BY DEF holds, inside, moves, other_calls

\* At its end a call leaves the calls that refer to its module.
LEMMA HoldsLess ==
  ASSUME TypeOK, NEW c \in Call, call[c].pc # "out", call'[c].pc = "out", other_calls(c),
         NEW m
  PROVE  holds(m)' = IF call[c].owner = m THEN holds(m) \ {c} ELSE holds(m)
BY DEF holds, inside, other_calls

\* The interception of a call keeps the invariant.
LEMMA GetStep ==
  ASSUME IInv, NEW c \in Call, NEW k \in Kind, get_elevator_call_info(c, k)
  PROVE  IInv'
<1> DEFINE t == typ[elevator]
           r == [pc |-> IF k \in entry_fn(t) THEN "entry" ELSE "body",
                 kind |-> k, owner |-> t, uniq |-> sched_uniq, data |-> NoInst]
<1>0. TypeOK /\ RefsExact
  BY DEF IInv
<1>1. /\ UNCHANGED <<queue, list, unlisted, state>> /\ chrdev' = chrdev
      /\ leaked' = leaked /\ locked' = locked /\ stuck' = stuck
      /\ call[c].pc = "out" /\ get(t) /\ call' = [call EXCEPT ![c] = r]
      /\ dangling' = (dangling \/ phase[elevator] = "freed")
  BY DEF get_elevator_call_info
<1>2. /\ SwitchOK' /\ ListOK' /\ \A m : attached(m)' = attached(m)
      /\ LoadOK' /\ NoBug' /\ loaded' = loaded
  BY <1>1, QueueSame, LoadSame
<1>3. t \in Module \cup {"builtin"}
  BY <1>0 DEF TypeOK
<1>4. r \in CallRec /\ r.pc # "out" /\ r.owner = t
  BY <1>0, <1>3 DEF TypeOK, CallRec
<1> HIDE DEF r
<1>5. call'[c] = r /\ other_calls(c)
  BY <1>0, <1>1, <1>4 DEF TypeOK, CallRec, other_calls
<1>6. refs' \in [Module -> Nat]
  BY <1>0, <1>1 DEF get, TypeOK
<1>7. TypeOK'
  <2>1. /\ list' \in [Module -> Nat] /\ leaked' \in [Module -> 0..MaxLeaks]
        /\ unlisted' \subseteq Inst
        /\ typ' \in [Inst -> Module \cup {"builtin"}]
        /\ phase' \in [Inst -> {"unused", "alloc", "live", "freed"}]
        /\ elevator' \in Inst /\ sched_uniq' \in 0..INT_MAX
        /\ locked' \subseteq Inst \cup {NoInst}
    BY <1>0, <1>1 DEF TypeOK, queue
  <2>2. chrdev' \in BOOLEAN /\ stuck' \in BOOLEAN /\ dangling' \in BOOLEAN
    BY <1>0, <1>1, Zenon DEF TypeOK
  <2>3. sw' = sw /\ state' = state
    BY <1>1 DEF queue
  <2>4. call' \in [Call -> CallRec]
    BY <1>5 DEF other_calls
  <2> QED
    BY <1>0, <1>6, <2>1, <2>2, <2>3, <2>4, Zenon DEF TypeOK, CallRec
<1>8. RefsExact'
  <2> SUFFICES ASSUME NEW m \in Module
               PROVE  refs'[m] = Cardinality(holds(m)') + Cardinality(attached(m)') + leaked'[m]
    BY DEF RefsExact
  <2>1. /\ refs[m] = Cardinality(holds(m)) + Cardinality(attached(m)) + leaked[m]
        /\ refs[m] \in Nat /\ leaked[m] \in Nat
    BY <1>0 DEF RefsExact, TypeOK
  <2>2. holds(m)' = IF t = m THEN holds(m) \cup {c} ELSE holds(m)
    BY <1>0, <1>1, <1>4, <1>5, HoldsMore
  <2>3. c \notin holds(m)
    BY <1>1 DEF holds, inside
  <2>4. CASE t = m
    <3>1. refs'[m] = refs[m] + 1
      BY <1>0, <1>1, <2>4 DEF get, TypeOK
    <3>2. Cardinality(holds(m)') = Cardinality(holds(m)) + 1
      BY <2>2, <2>3, <2>4, FiniteUsers, CountIn
    <3> QED
      BY <1>1, <1>2, <2>1, <3>1, <3>2, FiniteUsers
  <2>5. CASE t # m
    <3>1. refs'[m] = refs[m]
      BY <1>0, <1>1, <2>5 DEF get, TypeOK
    <3> QED
      BY <1>1, <1>2, <2>1, <2>2, <2>5, <3>1
  <2> QED
    BY <2>4, <2>5
<1>9. CodeInUse'
  <2>1. typ' = typ /\ \A i \in Inst : in_use(i)' <=> in_use(i)
    BY <1>1 DEF queue, in_use
  <2>2. \A i \in Inst : in_use(i)' => typ'[i] \in loaded' \cup {"builtin"}
    BY <1>2, <2>1 DEF IInv, CodeInUse
  <2>3. ASSUME ~dangling', NEW d \in inside'
        PROVE  call'[d].owner \in loaded' \cup {"builtin"}
    <3>1. ~dangling /\ phase[elevator] # "freed"
      BY <1>1, <2>3, Zenon
    <3>2. CASE d = c
      <4>1. in_use(elevator)
        BY <3>1 DEF IInv, TypeOK, SwitchOK, in_use
      <4> QED
        BY <1>0, <1>2, <1>4, <1>5, <3>2, <4>1 DEF IInv, CodeInUse, TypeOK
    <3>3. CASE d # c
      <4>1. d \in inside /\ call'[d] = call[d]
        BY <1>5, <2>3, <3>3 DEF inside, other_calls
      <4> QED
        BY <1>2, <3>1, <4>1 DEF IInv, CodeInUse
    <3> QED
      BY <3>2, <3>3
  <2> QED
    BY <2>2, <2>3 DEF CodeInUse
<1> QED
  BY <1>2, <1>7, <1>8, <1>9 DEF IInv

\* What a call that moves on or ends leaves alone, and what follows from it.
LEMMA CallFrame ==
  ASSUME IInv, NEW c \in Call, other_calls(c),
         UNCHANGED <<state, chrdev, list, unlisted, queue, stuck, dangling>>,
         refs' \in [Module -> Nat], leaked' \in [Module -> 0..MaxLeaks],
         locked' \subseteq Inst \cup {NoInst},
         call'[c].pc = "out" \/ (call[c].pc # "out" /\ call'[c].owner = call[c].owner)
  PROVE  TypeOK' /\ SwitchOK' /\ ListOK' /\ LoadOK' /\ CodeInUse' /\ NoBug'
<1>0. /\ typ' = typ /\ phase' = phase /\ elevator' = elevator
      /\ sched_uniq' = sched_uniq /\ sw' = sw
  BY DEF queue
<1>1. /\ SwitchOK' /\ ListOK' /\ \A i : in_use(i)' <=> in_use(i)
      /\ LoadOK' /\ NoBug' /\ loaded' = loaded
  BY QueueSame, LoadSame
<1>2. TypeOK'
  <2>1. call' \in [Call -> CallRec]
    BY DEF other_calls
  <2> QED
    BY <1>0, <2>1, ZenonT(30) DEF IInv, TypeOK, CallRec
<1>3. CodeInUse'
  <2>1. \A i \in Inst : in_use(i)' => typ'[i] \in loaded' \cup {"builtin"}
    BY <1>0, <1>1 DEF IInv, CodeInUse
  <2>2. ASSUME ~dangling', NEW d \in inside'
        PROVE  call'[d].owner \in loaded' \cup {"builtin"}
    <3>1. d \in inside /\ call'[d].owner = call[d].owner
      BY <2>2 DEF inside, other_calls
    <3> QED
      BY <1>1, <2>2, <3>1 DEF IInv, CodeInUse
  <2> QED
    BY <2>1, <2>2 DEF CodeInUse
<1> QED
  BY <1>1, <1>2, <1>3

\* A step of a call in progress keeps the invariant.
LEMMA MoveStep ==
  ASSUME IInv, NEW c \in Call, moves(c)
  PROVE  IInv'
<1>0. TypeOK /\ RefsExact
  BY DEF IInv
<1>1. /\ UNCHANGED <<state, chrdev, list, unlisted, queue, stuck, dangling>>
      /\ refs' = refs /\ leaked' = leaked /\ locked' = locked
  BY DEF moves, module, hooks
<1>2. TypeOK' /\ SwitchOK' /\ ListOK' /\ LoadOK' /\ CodeInUse' /\ NoBug'
  <2>1. /\ refs' \in [Module -> Nat] /\ leaked' \in [Module -> 0..MaxLeaks]
        /\ locked' \subseteq Inst \cup {NoInst}
    BY <1>0, <1>1 DEF TypeOK
  <2> QED
    BY <1>1, <2>1, CallFrame DEF moves
<1>3. ASSUME NEW m
      PROVE  holds(m)' = holds(m) /\ attached(m)' = attached(m)
  BY <1>0, <1>1, HoldsSame, QueueSame
<1>4. RefsExact'
  BY <1>0, <1>1, <1>3 DEF RefsExact
<1> QED
  BY <1>2, <1>4 DEF IInv

\* The end of a call, with module_put or without it, keeps the invariant.
LEMMA LeaveStep ==
  ASSUME IInv, NEW c \in Call, leaves(c) \/ mkdir_emlink(c)
  PROVE  IInv'
<1> DEFINE t == call[c].owner
<1>0. TypeOK /\ RefsExact /\ call \in [Call -> CallRec] /\ t \in Module \cup {"builtin"}
  BY DEF IInv, TypeOK, CallRec
<1>1. /\ call[c].pc # "out" /\ call'[c].pc = "out" /\ other_calls(c)
  <2>1. CASE leaves(c)
    BY <2>1 DEF leaves
  <2>2. CASE mkdir_emlink(c)
    <3>1. call'[c] = Out /\ other_calls(c)
      BY <1>0, <2>2, OutType DEF mkdir_emlink, other_calls
    <3> QED
      BY <2>2, <3>1 DEF mkdir_emlink, Out
  <2> QED
    BY <2>1, <2>2
<1>2. /\ UNCHANGED <<state, chrdev, list, unlisted, queue, stuck, dangling>>
      /\ locked' \subseteq Inst \cup {NoInst}
  BY <1>0 DEF leaves, mkdir_emlink, hooks, TypeOK
<1>3. ASSUME NEW m \in Module
      PROVE  /\ refs[m] = Cardinality(holds(m)) + Cardinality(attached(m)) + leaked[m]
             /\ refs[m] \in Nat /\ leaked[m] \in Nat
             /\ holds(m)' = IF t = m THEN holds(m) \ {c} ELSE holds(m)
             /\ attached(m)' = attached(m)
  <2>1. /\ refs[m] = Cardinality(holds(m)) + Cardinality(attached(m)) + leaked[m]
        /\ refs[m] \in Nat /\ leaked[m] \in Nat
    BY <1>0 DEF RefsExact, TypeOK
  <2>2. attached(m)' = attached(m)
    BY <1>2, QueueSame
  <2> QED
    BY <1>0, <1>1, <2>1, <2>2, HoldsLess
<1>4. ASSUME t \in Module
      PROVE  /\ Cardinality(holds(t) \ {c}) = Cardinality(holds(t)) - 1
             /\ Cardinality(holds(t) \ {c}) \in Nat /\ refs[t] > 0
  <2>1. c \in holds(t)
    BY <1>1 DEF holds, inside
  <2>2. Cardinality(holds(t) \ {c}) = Cardinality(holds(t)) - 1
    BY <2>1, FiniteUsers, CountOut
  <2>3. Cardinality(holds(t) \ {c}) \in Nat
    BY FiniteUsers, FS_RemoveElement, FS_CardinalityType, Zenon
  <2>4. Cardinality(holds(t)) \in Nat /\ Cardinality(attached(t)) \in Nat
    BY FiniteUsers
  <2> QED
    BY <1>3, <1>4, <2>2, <2>3, <2>4
<1>5. /\ refs' \in [Module -> Nat] /\ leaked' \in [Module -> 0..MaxLeaks]
      /\ t \in Module => refs'[t] - leaked'[t] = refs[t] - leaked[t] - 1
      /\ \A m \in Module : m # t => refs'[m] = refs[m] /\ leaked'[m] = leaked[m]
  <2>1. CASE leaves(c)
    <3>1. leaked' = leaked /\ put(t)
      BY <2>1 DEF leaves
    <3>2. leaked \in [Module -> 0..MaxLeaks] /\ refs \in [Module -> Nat]
      BY <1>0 DEF TypeOK
    <3> QED
      BY <1>3, <1>4, <3>1, <3>2 DEF put
  <2>2. CASE mkdir_emlink(c)
    <3>1. /\ refs' = refs /\ t \in Module /\ leaked[t] < MaxLeaks
          /\ leaked' = [leaked EXCEPT ![t] = @ + 1]
      BY <2>2 DEF mkdir_emlink
    <3>2. leaked \in [Module -> 0..MaxLeaks] /\ refs \in [Module -> Nat]
      BY <1>0 DEF TypeOK
    <3>3. leaked[t] + 1 \in 0..MaxLeaks
      BY <3>1, <3>2, ElvSwitchAssumption
    <3>4. leaked' \in [Module -> 0..MaxLeaks] /\ leaked'[t] = leaked[t] + 1
      BY <3>1, <3>2, <3>3
    <3>5. refs'[t] - leaked'[t] = refs[t] - leaked[t] - 1
      BY <1>3, <3>1, <3>4
    <3> QED
      BY <3>1, <3>2, <3>4, <3>5
  <2> QED
    BY <2>1, <2>2
<1>6. TypeOK' /\ SwitchOK' /\ ListOK' /\ LoadOK' /\ CodeInUse' /\ NoBug'
  BY <1>1, <1>2, <1>5, CallFrame
<1>7. RefsExact'
  <2> SUFFICES ASSUME NEW m \in Module
               PROVE  refs'[m] = Cardinality(holds(m)') + Cardinality(attached(m)') + leaked'[m]
    BY DEF RefsExact
  <2>1. Cardinality(holds(m)) \in Nat /\ Cardinality(attached(m)) \in Nat
    BY FiniteUsers
  <2>2. refs'[m] \in Nat /\ leaked'[m] \in Nat
    BY <1>5
  <2>3. CASE t = m
    BY <1>3, <1>4, <1>5, <2>1, <2>2, <2>3
  <2>4. CASE t # m
    BY <1>3, <1>5, <2>1, <2>4
  <2> QED
    BY <2>3, <2>4
<1> QED
  BY <1>6, <1>7 DEF IInv

\* A thread that waits for afq_data->lock for ever keeps the invariant.
LEMMA SpinStep ==
  ASSUME IInv, spins
  PROVE  IInv'
<1>1. UNCHANGED <<module, queue, call, locked, dangling>> /\ stuck' = TRUE
  BY Zenon DEF spins
<1>2. /\ state' = state /\ chrdev' = chrdev /\ refs' = refs /\ list' = list
      /\ leaked' = leaked /\ unlisted' = unlisted /\ typ' = typ /\ phase' = phase
      /\ elevator' = elevator /\ sched_uniq' = sched_uniq /\ sw' = sw
  BY <1>1 DEF module, queue
<1>3. /\ SwitchOK' /\ ListOK' /\ \A n : attached(n)' = attached(n)
      /\ \A i : in_use(i)' <=> in_use(i)
      /\ LoadOK' /\ NoBug' /\ loaded' = loaded
  BY <1>1, <1>2, QueueSame, LoadSame
<1>4. inside' = inside /\ \A n : holds(n)' = holds(n)
  BY <1>1, Zenon DEF inside, holds
<1>5. TypeOK'
  <2>1. stuck' \in BOOLEAN
    BY <1>1
  <2> QED
    BY <1>1, <1>2, <2>1, ZenonT(30) DEF IInv, TypeOK
<1>6. RefsExact' /\ CodeInUse'
  BY <1>1, <1>2, <1>3, <1>4 DEF IInv, RefsExact, CodeInUse
<1> QED
  BY <1>3, <1>5, <1>6 DEF IInv

\* Every step of a system call keeps the invariant.
LEMMA CallStep ==
  ASSUME IInv, NEW c \in Call, system_call(c)
  PROVE  IInv'
BY CallForms, GetStep, MoveStep, LeaveStep, SpinStep DEF IInv

(***************************************************************************)
(* The steps of elevator_switch, insmod and rmmod.                         *)
(***************************************************************************)

Place == {"idle", "init", "register", "count", "sysfs", "exit_old", "free_old", "done",
          "exit_new", "free_new", "restore", "bug"}
SwRec == [at : Place, old : Inst \cup {NoInst}, new : Inst \cup {NoInst}]

\* A step of elevator_switch from a to b.
LEMMA AtStep ==
  ASSUME TypeOK, NEW a \in Place, NEW b \in Place, at(a, b)
  PROVE  /\ sw \in SwRec /\ sw' \in SwRec /\ sw.at = a /\ sw'.at = b
         /\ b # "idle" => sw'.old = sw.old /\ sw'.new = sw.new
<1>1. sw \in SwRec
  BY DEF TypeOK, SwRec, Place
<1>2. Idle \in SwRec /\ Idle.at = "idle"
  BY DEF Idle, SwRec, Place
<1>3. CASE b = "idle"
  BY <1>1, <1>2, <1>3 DEF at
<1>4. CASE b # "idle"
  <2>1. sw' = [sw EXCEPT !.at = b]
    BY <1>4 DEF at
  <2> QED
    BY <1>1, <2>1 DEF at, SwRec
<1> QED
  BY <1>3, <1>4

\* What a step of elevator_switch leaves alone.
LEMMA SwitchFrame ==
  ASSUME IInv, UNCHANGED <<state, chrdev, leaked, call, hooks>>,
         refs' \in [Module -> Nat], list' \in [Module -> Nat], unlisted' \subseteq Inst,
         typ' \in [Inst -> Module \cup {"builtin"}],
         phase' \in [Inst -> {"unused", "alloc", "live", "freed"}],
         elevator' \in Inst, sched_uniq' \in 0..INT_MAX, sw' \in SwRec,
         sw'.at = "bug" => sw'.old \in unlisted' \/ sw'.new \in unlisted',
         \A i \in Inst : in_use(i)' => typ'[i] \in loaded \cup {"builtin"}
  PROVE  TypeOK' /\ CodeInUse' /\ NoBug' /\ \A m : holds(m)' = holds(m)
<1>0. locked' = locked /\ stuck' = stuck /\ dangling' = dangling /\ loaded' = loaded
  BY DEF hooks, loaded
<1>1. TypeOK'
  BY <1>0, Zenon DEF IInv, TypeOK, SwRec, Place
<1>2. inside' = inside /\ \A m : holds(m)' = holds(m)
  BY Zenon DEF inside, holds
<1>3. CodeInUse'
  BY <1>0, <1>2 DEF IInv, CodeInUse
<1>4. NoBug'
  BY Zenon DEF IInv, NoBug
<1> QED
  BY <1>1, <1>2, <1>3, <1>4

\* The start of a switch, elevator_alloc included, keeps the invariant.
LEMMA SwitchStep ==
  ASSUME IInv, NEW m \in Module \cup {"builtin"}, NEW i \in Inst, switch(m, i)
  PROVE  IInv'
<1>0. TypeOK /\ RefsExact /\ SwitchOK /\ ListOK /\ LoadOK /\ CodeInUse /\ NoBug
  BY DEF IInv
<1>1. /\ sw.at = "idle" /\ m # typ[elevator] /\ m \in loaded \cup {"builtin"}
      /\ phase[i] = "unused"
      /\ sw' = [at |-> "init", old |-> elevator, new |-> i]
      /\ typ' = [typ EXCEPT ![i] = m] /\ phase' = [phase EXCEPT ![i] = "alloc"]
      /\ get(m)
      /\ UNCHANGED <<state, chrdev, list, leaked, unlisted, elevator, sched_uniq, call, hooks>>
  BY DEF switch
<1>2. elevator \in Inst /\ i # elevator /\ in_use(elevator) /\ ~in_use(i)
  BY <1>0, <1>1 DEF TypeOK, SwitchOK, in_use
<1>3. /\ \A j \in Inst : in_use(j)' <=> in_use(j) \/ j = i
      /\ \A j \in Inst : j # i => typ'[j] = typ[j]
      /\ typ'[i] = m
  BY <1>0, <1>1 DEF TypeOK, in_use
<1>4. sw' \in SwRec /\ sw'.at = "init" /\ sw'.old = elevator /\ sw'.new = i
  BY <1>1, <1>2 DEF SwRec, Place
<1>5. SwitchOK'
  <2>1. \A j \in Inst : in_use(j)' <=> j = elevator \/ j = i
    BY <1>0, <1>1, <1>3 DEF SwitchOK
  <2> QED
    BY <1>1, <1>2, <1>3, <1>4, <2>1 DEF SwitchOK
<1>6. ListOK'
  <2>1. registered = {elevator}
    BY <1>1, Zenon DEF registered
  <2>2. registered' = {elevator}
    BY <1>4 DEF registered
  <2> QED
    BY <1>0, <1>1, <1>2, <1>3, <2>1, <2>2 DEF ListOK
<1>10. LoadOK'
  <2>1. i \notin unlisted
    BY <1>0, <1>1 DEF LoadOK
  <2>2. \A j \in Inst : phase'[j] = "unused" => phase[j] = "unused"
    BY <1>0, <1>1 DEF TypeOK
  <2>3. unlisted \subseteq Inst
    BY <1>0 DEF TypeOK
  <2> QED
    BY <1>0, <1>1, <1>4, <2>1, <2>2, <2>3 DEF LoadOK
<1>7. refs' \in [Module -> Nat]
  BY <1>0, <1>1 DEF get, TypeOK
<1>8. TypeOK' /\ CodeInUse' /\ NoBug' /\ \A n : holds(n)' = holds(n)
  <2>1. \A j \in Inst : in_use(j)' => typ'[j] \in loaded \cup {"builtin"}
    BY <1>0, <1>1, <1>3 DEF CodeInUse
  <2>2. /\ typ' \in [Inst -> Module \cup {"builtin"}]
        /\ phase' \in [Inst -> {"unused", "alloc", "live", "freed"}]
        /\ list' \in [Module -> Nat] /\ elevator' \in Inst /\ sched_uniq' \in 0..INT_MAX
        /\ unlisted' \subseteq Inst
    BY <1>0, <1>1 DEF TypeOK
  <2>3. sw'.at # "bug"
    BY <1>4
  <2> QED
    BY <1>1, <1>4, <1>7, <2>1, <2>2, <2>3, SwitchFrame, Zenon
<1>9. RefsExact'
  <2> SUFFICES ASSUME NEW n \in Module
               PROVE  refs'[n] = Cardinality(holds(n)') + Cardinality(attached(n)') + leaked'[n]
    BY DEF RefsExact
  <2>1. /\ refs[n] = Cardinality(holds(n)) + Cardinality(attached(n)) + leaked[n]
        /\ refs[n] \in Nat /\ leaked[n] \in Nat
    BY <1>0 DEF RefsExact, TypeOK
  <2>2. CASE n = m
    <3>1. attached(n)' = attached(n) \cup {i} /\ i \notin attached(n)
      BY <1>2, <1>3, <2>2 DEF attached
    <3>2. Cardinality(attached(n)') = Cardinality(attached(n)) + 1
      BY <3>1, FiniteUsers, CountIn
    <3>3. refs'[n] = refs[n] + 1
      BY <1>0, <1>1, <2>2 DEF get, TypeOK
    <3> QED
      BY <1>1, <1>8, <2>1, <3>2, <3>3, FiniteUsers
  <2>3. CASE n # m
    <3>1. attached(n)' = attached(n)
      BY <1>2, <1>3, <2>3 DEF attached
    <3>2. refs'[n] = refs[n]
      BY <1>0, <1>1, <2>3 DEF get, TypeOK
    <3> QED
      BY <1>1, <1>8, <2>1, <3>1, <3>2
  <2> QED
    BY <2>2, <2>3
<1> QED
  BY <1>5, <1>6, <1>8, <1>9, <1>10 DEF IInv

\* An instance that is freed gives its reference back.
LEMMA FreeRefs ==
  ASSUME IInv, NEW i \in Inst, in_use(i), free(i), typ' = typ, leaked' = leaked, call' = call
  PROVE  /\ refs' \in [Module -> Nat] /\ RefsExact'
         /\ phase' \in [Inst -> {"unused", "alloc", "live", "freed"}] /\ phase'[i] = "freed"
         /\ \A j \in Inst : in_use(j)' <=> in_use(j) /\ j # i
<1> DEFINE t == typ[i]
<1>0. TypeOK /\ RefsExact /\ t \in Module \cup {"builtin"}
  BY DEF IInv, TypeOK
<1>1. /\ phase' \in [Inst -> {"unused", "alloc", "live", "freed"}] /\ phase'[i] = "freed"
      /\ \A j \in Inst : in_use(j)' <=> in_use(j) /\ j # i
  BY <1>0 DEF TypeOK, free, in_use
<1>2. ASSUME NEW n \in Module
      PROVE  /\ refs[n] = Cardinality(holds(n)) + Cardinality(attached(n)) + leaked[n]
             /\ refs[n] \in Nat /\ leaked[n] \in Nat
             /\ Cardinality(holds(n)) \in Nat /\ Cardinality(attached(n)) \in Nat
             /\ holds(n)' = holds(n)
             /\ attached(n)' = IF n = t THEN attached(n) \ {i} ELSE attached(n)
  <2>1. attached(n)' = IF n = t THEN attached(n) \ {i} ELSE attached(n)
    BY <1>1 DEF attached
  <2>2. holds(n)' = holds(n)
    BY Zenon DEF holds, inside
  <2> QED
    BY <1>0, <2>1, <2>2, FiniteUsers DEF RefsExact, TypeOK
<1>3. ASSUME t \in Module
      PROVE  /\ Cardinality(attached(t) \ {i}) = Cardinality(attached(t)) - 1
             /\ refs[t] > 0
  <2>1. i \in attached(t)
    BY DEF attached
  <2>2. Cardinality(attached(t) \ {i}) = Cardinality(attached(t)) - 1
    BY <2>1, FiniteUsers, CountOut
  <2>3. Cardinality(attached(t) \ {i}) \in Nat
    BY FiniteUsers, FS_RemoveElement, FS_CardinalityType, Zenon
  <2> QED
    BY <1>2, <1>3, <2>2, <2>3
<1>4. /\ refs' \in [Module -> Nat]
      /\ \A n \in Module : refs'[n] = IF n = t THEN refs[n] - 1 ELSE refs[n]
  BY <1>0, <1>3 DEF free, put, TypeOK
<1>5. RefsExact'
  <2> SUFFICES ASSUME NEW n \in Module
               PROVE  refs'[n] = Cardinality(holds(n)') + Cardinality(attached(n)') + leaked'[n]
    BY DEF RefsExact
  <2>1. CASE n = t
    <3>1. attached(n)' = attached(n) \ {i}
      BY <1>2, <2>1
    <3>2. Cardinality(attached(n)') = Cardinality(attached(n)) - 1
      BY <1>3, <2>1, <3>1
    <3> QED
      BY <1>2, <1>4, <2>1, <3>2
  <2>2. CASE n # t
    BY <1>2, <1>4, <2>2
  <2> QED
    BY <2>1, <2>2
<1> QED
  BY <1>1, <1>4, <1>5

\* An instance is taken down: at the end of a switch, or when the switch fails.
LEMMA FreeStep ==
  ASSUME IInv, init_fails \/ threads_fail \/ free_old \/ free_new
  PROVE  IInv'
<1>0. TypeOK /\ RefsExact /\ SwitchOK /\ ListOK /\ LoadOK /\ CodeInUse /\ NoBug
  BY DEF IInv
<1>1. /\ UNCHANGED <<state, chrdev, list, leaked, unlisted, typ, elevator, sched_uniq, call, hooks>>
  BY DEF init_fails, threads_fail, free_old, free_new
<1>2. ASSUME NEW i \in Inst, in_use(i), free(i), sw' \in SwRec, SwitchOK',
             sw'.at \in {"idle", "restore", "done"}, registered' = registered
      PROVE  IInv'
  <2>1. /\ refs' \in [Module -> Nat] /\ RefsExact'
        /\ phase' \in [Inst -> {"unused", "alloc", "live", "freed"}]
        /\ \A j \in Inst : in_use(j)' <=> in_use(j) /\ j # i
    BY <1>1, <1>2, FreeRefs
  <2>2. /\ typ' \in [Inst -> Module \cup {"builtin"}]
        /\ list' \in [Module -> Nat] /\ elevator' \in Inst /\ sched_uniq' \in 0..INT_MAX
        /\ \A j \in Inst : in_use(j)' => typ'[j] \in loaded \cup {"builtin"}
        /\ unlisted' \subseteq Inst
    BY <1>0, <1>1, <2>1 DEF TypeOK, CodeInUse
  <2>3. sw'.at # "bug" /\ sw'.at \notin {"init", "register"}
    BY <1>2
  <2>4. TypeOK' /\ CodeInUse' /\ NoBug'
    BY <1>1, <1>2, <2>1, <2>2, <2>3, SwitchFrame, Zenon
  <2>5. ListOK'
    BY <1>0, <1>1, <1>2, Zenon DEF ListOK
  <2>6. LoadOK'
    <3>1. \A j \in Inst : phase'[j] = "unused" => phase[j] = "unused"
      BY <1>0, <1>2 DEF free, TypeOK
    <3> QED
      BY <1>0, <1>1, <2>2, <2>3, <3>1 DEF LoadOK
  <2> QED
    BY <1>2, <2>1, <2>4, <2>5, <2>6 DEF IInv
<1>3. CASE init_fails
  <2>1. /\ at("init", "idle") /\ free(sw.new)
    BY <1>3 DEF init_fails
  <2>2. sw.at = "init" /\ sw' \in SwRec /\ sw'.at = "idle"
    BY <1>0, <2>1, AtStep DEF Place
  <2>3. sw.new \in Inst /\ sw.old \in Inst /\ in_use(sw.new) /\ elevator = sw.old
    BY <1>0, <2>2 DEF SwitchOK
  <2>4. \A j \in Inst : in_use(j)' <=> in_use(j) /\ j # sw.new
    BY <1>1, <2>1, <2>3, FreeRefs
  <2>5. SwitchOK'
    BY <1>0, <1>1, <2>2, <2>3, <2>4 DEF SwitchOK
  <2>6. registered' = registered
    BY <1>1, <2>2, <2>3 DEF registered
  <2> QED
    BY <1>2, <2>1, <2>2, <2>3, <2>5, <2>6
<1>4. CASE threads_fail \/ free_new
  <2>1. PICK a \in {"register", "free_new"} : at(a, "restore") /\ free(sw.new)
    BY <1>4 DEF threads_fail, free_new
  <2>2. /\ sw.at = a /\ sw' \in SwRec /\ sw'.at = "restore"
        /\ sw'.old = sw.old /\ sw'.new = sw.new
    BY <1>0, <2>1, AtStep DEF Place
  <2>3. sw.new \in Inst /\ sw.old \in Inst /\ in_use(sw.new) /\ elevator = sw.new
    BY <1>0, <2>2 DEF SwitchOK
  <2>4. /\ \A j \in Inst : in_use(j)' <=> in_use(j) /\ j # sw.new
        /\ phase'[sw.new] = "freed"
    BY <1>1, <2>1, <2>3, FreeRefs
  <2>5. SwitchOK'
    BY <1>0, <1>1, <2>2, <2>3, <2>4 DEF SwitchOK
  <2>6. registered' = registered
    BY <1>1, <2>2, <2>3 DEF registered
  <2> QED
    BY <1>2, <2>1, <2>2, <2>3, <2>5, <2>6
<1>5. CASE free_old
  <2>1. /\ at("free_old", "done") /\ free(sw.old)
    BY <1>5 DEF free_old
  <2>2. /\ sw.at = "free_old" /\ sw' \in SwRec /\ sw'.at = "done"
        /\ sw'.old = sw.old /\ sw'.new = sw.new
    BY <1>0, <2>1, AtStep DEF Place
  <2>3. sw.new \in Inst /\ sw.old \in Inst /\ in_use(sw.old) /\ elevator = sw.new
    BY <1>0, <2>2 DEF SwitchOK
  <2>4. \A j \in Inst : in_use(j)' <=> in_use(j) /\ j # sw.old
    BY <1>1, <2>1, <2>3, FreeRefs
  <2>5. SwitchOK'
    BY <1>0, <1>1, <2>2, <2>3, <2>4 DEF SwitchOK
  <2>6. registered' = registered
    BY <1>1, <2>2, <2>3 DEF registered
  <2> QED
    BY <1>2, <2>1, <2>2, <2>3, <2>5, <2>6
<1> QED
  BY <1>3, <1>4, <1>5

\* A step that neither makes nor frees an instance.
LEMMA KeepFrame ==
  ASSUME IInv, UNCHANGED <<state, chrdev, refs, leaked, typ, call, hooks>>,
         phase' \in [Inst -> {"unused", "alloc", "live", "freed"}],
         \A i \in Inst : in_use(i)' <=> in_use(i),
         list' \in [Module -> Nat], unlisted' \subseteq Inst,
         elevator' \in Inst, sched_uniq' \in 0..INT_MAX, sw' \in SwRec,
         sw'.at = "bug" => sw'.old \in unlisted' \/ sw'.new \in unlisted'
  PROVE  TypeOK' /\ RefsExact' /\ CodeInUse' /\ NoBug'
<1>1. TypeOK' /\ CodeInUse' /\ NoBug' /\ \A m : holds(m)' = holds(m)
  <2>1. /\ typ' \in [Inst -> Module \cup {"builtin"}] /\ refs' \in [Module -> Nat]
        /\ \A i \in Inst : in_use(i)' => typ'[i] \in loaded \cup {"builtin"}
    BY DEF IInv, TypeOK, CodeInUse
  <2> QED
    BY <2>1, SwitchFrame, Zenon
<1>2. \A m : attached(m)' = attached(m)
  BY DEF attached
<1>3. RefsExact'
  BY <1>1, <1>2 DEF IInv, RefsExact
<1> QED
  BY <1>1, <1>3

\* The steps of a switch that neither free an instance nor touch a list keep
\* the invariant.
LEMMA QuietStep ==
  ASSUME IInv, set_elevator \/ count_switch \/ register_queue \/ end_switch \/ restore
  PROVE  IInv'
<1>0. TypeOK /\ RefsExact /\ SwitchOK /\ ListOK /\ LoadOK /\ CodeInUse /\ NoBug
  BY DEF IInv
<1>1. UNCHANGED <<module, typ, call, hooks>>
  BY DEF set_elevator, count_switch, register_queue, end_switch, restore
<1>2. ASSUME phase' \in [Inst -> {"unused", "alloc", "live", "freed"}],
             \A i \in Inst : in_use(i)' <=> in_use(i),
             elevator' \in Inst, sched_uniq' \in 0..INT_MAX, sw' \in SwRec, SwitchOK',
             registered' = registered, sw'.at \notin {"init", "bug"},
             \A i \in Inst : phase'[i] = "unused" => phase[i] = "unused",
             sw'.at = "register" => sw'.new \notin unlisted
      PROVE  IInv'
  <2>1. /\ list' = list /\ list' \in [Module -> Nat] /\ unlisted' = unlisted
        /\ unlisted' \subseteq Inst /\ state' = state
    BY <1>0, <1>1 DEF module, TypeOK
  <2>2. sw'.at # "bug"
    BY <1>2
  <2>3. TypeOK' /\ RefsExact' /\ CodeInUse' /\ NoBug'
    BY <1>1, <1>2, <2>1, <2>2, KeepFrame, Zenon DEF module
  <2>4. ListOK'
    BY <1>0, <1>1, <1>2, <2>1, Zenon DEF ListOK
  <2>5. LoadOK'
    BY <1>0, <1>2, <2>1 DEF LoadOK
  <2> QED
    BY <1>2, <2>3, <2>4, <2>5 DEF IInv
<1>3. CASE set_elevator
  <2>1. /\ at("init", "register") /\ elevator' = sw.new
        /\ phase' = [phase EXCEPT ![sw.new] = "live"] /\ sched_uniq' = sched_uniq
    BY <1>3 DEF set_elevator
  <2>2. /\ sw.at = "init" /\ sw' \in SwRec /\ sw'.at = "register"
        /\ sw'.old = sw.old /\ sw'.new = sw.new
    BY <1>0, <2>1, AtStep DEF Place
  <2>3. sw.new \in Inst /\ sw.old \in Inst /\ in_use(sw.new)
    BY <1>0, <2>2 DEF SwitchOK
  <2>4. /\ phase' \in [Inst -> {"unused", "alloc", "live", "freed"}]
        /\ \A i \in Inst : in_use(i)' <=> in_use(i)
        /\ \A i \in Inst : phase'[i] = "unused" => phase[i] = "unused"
    BY <1>0, <2>1, <2>3 DEF TypeOK, in_use
  <2>5. SwitchOK'
    BY <1>0, <1>1, <2>1, <2>2, <2>3, <2>4, Zenon DEF SwitchOK
  <2>6. registered' = registered
    BY <2>2 DEF registered
  <2>7. sw'.at \notin {"init", "bug"} /\ sw'.new \notin unlisted
    BY <1>0, <2>2 DEF LoadOK
  <2> QED
    BY <1>0, <1>2, <2>1, <2>2, <2>3, <2>4, <2>5, <2>6, <2>7, Zenon DEF TypeOK
<1>4. CASE count_switch \/ register_queue
  <2>1. PICK a \in {"count", "sysfs"}, b \in {"sysfs", "exit_old", "exit_new"} : at(a, b)
    BY <1>4 DEF count_switch, register_queue
  <2>2. /\ sw.at = a /\ sw' \in SwRec /\ sw'.at = b
        /\ sw'.old = sw.old /\ sw'.new = sw.new
    BY <1>0, <2>1, AtStep DEF Place
  <2>3. phase' = phase /\ elevator' = elevator /\ sched_uniq' \in 0..INT_MAX
    BY <1>0, <1>4, ElvSwitchAssumption DEF count_switch, register_queue, TypeOK
  <2>4. \A i \in Inst : in_use(i)' <=> in_use(i)
    BY <2>3 DEF in_use
  <2>5. SwitchOK'
    BY <1>0, <1>1, <2>2, <2>3, <2>4, Zenon DEF SwitchOK
  <2>6. registered' = registered
    BY <2>2 DEF registered
  <2> QED
    BY <1>0, <1>2, <2>2, <2>3, <2>4, <2>5, <2>6 DEF TypeOK
<1>5. CASE end_switch
  <2>1. /\ at("done", "idle") /\ phase' = phase /\ elevator' = elevator /\ sched_uniq' = 1000
    BY <1>5 DEF end_switch
  <2>2. sw.at = "done" /\ sw' \in SwRec /\ sw'.at = "idle"
    BY <1>0, <2>1, AtStep DEF Place
  <2>3. sched_uniq' \in 0..INT_MAX
    BY <2>1, ElvSwitchAssumption
  <2>4. \A i \in Inst : in_use(i)' <=> in_use(i)
    BY <2>1 DEF in_use
  <2>5. SwitchOK'
    BY <1>0, <1>1, <2>1, <2>2, <2>4 DEF SwitchOK
  <2>6. registered' = registered
    BY <1>0, <2>1, <2>2 DEF registered, SwitchOK
  <2> QED
    BY <1>0, <1>2, <2>1, <2>2, <2>3, <2>4, <2>5, <2>6, Zenon DEF TypeOK
<1>6. CASE restore
  <2>1. at("restore", "idle") /\ phase' = phase /\ elevator' = sw.old /\ sched_uniq' = sched_uniq
    BY <1>6 DEF restore
  <2>2. sw.at = "restore" /\ sw' \in SwRec /\ sw'.at = "idle" /\ sw.old \in Inst
    BY <1>0, <2>1, AtStep DEF Place, SwitchOK
  <2>4. \A i \in Inst : in_use(i)' <=> in_use(i)
    BY <2>1 DEF in_use
  <2>5. SwitchOK'
    BY <1>0, <1>1, <2>1, <2>2, <2>4 DEF SwitchOK
  <2>6. registered' = registered
    BY <2>1, <2>2 DEF registered
  <2> QED
    BY <1>0, <1>2, <2>1, <2>2, <2>4, <2>5, <2>6 DEF TypeOK
<1> QED
  BY <1>3, <1>4, <1>5, <1>6

\* The queue enters a list, or leaves one it is in, or is found missing.
LEMMA ListStep ==
  ASSUME IInv, ioctl_helper_register_disk \/ exit_old \/ exit_new
  PROVE  IInv'
<1>0. TypeOK /\ RefsExact /\ SwitchOK /\ ListOK /\ LoadOK /\ CodeInUse /\ NoBug
  BY DEF IInv
<1>1. UNCHANGED <<state, chrdev, refs, leaked, typ, phase, elevator, sched_uniq, call, hooks>>
  BY DEF ioctl_helper_register_disk, exit_old, exit_new
<1>2. /\ \A i \in Inst : in_use(i)' <=> in_use(i)
      /\ list \in [Module -> Nat] /\ unlisted \subseteq Inst
  <2>1. \A i \in Inst : in_use(i)' <=> in_use(i)
    BY <1>1, Zenon DEF in_use
  <2>2. list \in [Module -> Nat] /\ unlisted \subseteq Inst
    BY <1>0, Zenon DEF TypeOK
  <2> QED
    BY <2>1, <2>2
<1>3. ASSUME NEW a \in {"register", "exit_old", "exit_new"},
             NEW b \in {"count", "free_old", "free_new", "bug"}, at(a, b)
      PROVE  /\ sw.at = a /\ sw' \in SwRec /\ sw'.at = b
             /\ sw'.old = sw.old /\ sw'.new = sw.new
             /\ sw.old \in Inst /\ sw.new \in Inst /\ typ[sw.old] # typ[sw.new]
             /\ in_use(sw.new) /\ SwitchOK'
  <2>1. /\ sw.at = a /\ sw' \in SwRec /\ sw'.at = b
        /\ sw'.old = sw.old /\ sw'.new = sw.new
    BY <1>0, <1>3, AtStep DEF Place
  <2>2. /\ sw.old \in Inst /\ sw.new \in Inst /\ typ[sw.old] # typ[sw.new]
        /\ in_use(sw.new)
    BY <1>0, <2>1 DEF SwitchOK
  <2>3. SwitchOK'
    BY <1>0, <1>1, <1>2, <2>1 DEF SwitchOK
  <2> QED
    BY <2>1, <2>2, <2>3
<1>4. ASSUME sw' \in SwRec, sw'.at \notin {"init", "register"}, SwitchOK', ListOK',
             list' \in [Module -> Nat], unlisted' \subseteq Inst,
             \A i \in unlisted' : phase[i] # "unused",
             \A m \in Module : state[m] = "coming" => list'[m] = 0,
             sw'.at = "bug" => sw'.old \in unlisted' \/ sw'.new \in unlisted'
      PROVE  IInv'
  <2>1. TypeOK' /\ RefsExact' /\ CodeInUse' /\ NoBug'
    <3>1. phase' \in [Inst -> {"unused", "alloc", "live", "freed"}]
      BY <1>0, <1>1 DEF TypeOK
    <3>2. elevator' \in Inst /\ sched_uniq' \in 0..INT_MAX
      BY <1>0, <1>1 DEF TypeOK
    <3> QED
      BY <1>1, <1>2, <1>4, <3>1, <3>2, KeepFrame, Zenon
  <2>2. LoadOK'
    BY <1>1, <1>4, Zenon DEF LoadOK
  <2> QED
    BY <1>4, <2>1, <2>2 DEF IInv
<1>5. /\ \A i \in unlisted : phase[i] # "unused"
      /\ \A m \in Module : state[m] = "coming" => list[m] = 0
  BY <1>0 DEF LoadOK
<1>6. CASE ioctl_helper_register_disk
  <2> DEFINE t == typ[sw.new]
  <2>1. PICK b \in {"count", "bug"} : at("register", b)
    BY <1>6 DEF ioctl_helper_register_disk
  <2>2. /\ sw.at = "register" /\ sw' \in SwRec /\ sw'.at = b
        /\ sw'.old = sw.old /\ sw'.new = sw.new
        /\ sw.old \in Inst /\ sw.new \in Inst /\ typ[sw.old] # t
        /\ in_use(sw.new) /\ SwitchOK'
    BY <1>3, <2>1
  <2>3. registered = {sw.old} /\ registered' = {sw.old, sw.new}
    BY <2>2 DEF registered
  <2>4. \A m \in Module : list[m] = IF sw.old \notin unlisted /\ typ[sw.old] = m THEN 1 ELSE 0
    BY <1>0, <2>3 DEF ListOK
  <2>5. sw.new \notin unlisted /\ phase[sw.new] # "unused"
    BY <1>0, <2>2 DEF LoadOK, in_use
  <2>6. sw'.at \notin {"init", "register"}
    BY <2>2
  <2>7. CASE t \notin Module /\ sw'.at = "count" /\ UNCHANGED <<list, unlisted>>
    <3>1. ListOK'
      BY <1>1, <2>2, <2>3, <2>4, <2>7 DEF ListOK
    <3>2. sw'.at # "bug"
      BY <2>7
    <3> QED
      BY <1>2, <1>4, <1>5, <2>2, <2>6, <2>7, <3>1, <3>2, Zenon
  <2>8. CASE /\ t \in Module /\ state[t] # "coming" /\ sw'.at = "count"
             /\ list' = [list EXCEPT ![t] = @ + 1] /\ unlisted' = unlisted
    <3>1. list[t] = 0
      BY <2>2, <2>4, <2>8
    <3>2. \A m \in Module : list'[m] = IF m = t THEN 1 ELSE list[m]
      BY <1>2, <2>8, <3>1
    <3>3. list' \in [Module -> Nat]
      BY <1>2, <2>8
    <3>4. ListOK'
      <4>1. ASSUME NEW m \in Module
            PROVE  list'[m] = IF \E i \in {sw.old, sw.new} \ unlisted : typ[i] = m THEN 1 ELSE 0
        BY <2>2, <2>4, <2>5, <3>2
      <4> QED
        BY <1>1, <2>3, <2>8, <4>1 DEF ListOK
    <3>5. \A m \in Module : state[m] = "coming" => list'[m] = 0
      BY <1>5, <2>8, <3>2
    <3>6. sw'.at # "bug"
      BY <2>8
    <3> QED
      BY <1>2, <1>4, <1>5, <2>2, <2>6, <2>8, <3>3, <3>4, <3>5, <3>6, Zenon
  <2>9. CASE unlisted' = unlisted \cup {sw.new} /\ list' = list
    <3>1. ListOK'
      <4>1. ASSUME NEW m \in Module
            PROVE  list[m] = IF \E i \in {sw.old, sw.new} \ unlisted' : typ[i] = m THEN 1 ELSE 0
        BY <2>2, <2>4, <2>9
      <4> QED
        BY <1>1, <2>3, <2>9, <4>1 DEF ListOK
    <3>2. /\ unlisted' \subseteq Inst /\ \A i \in unlisted' : phase[i] # "unused"
          /\ sw'.new \in unlisted'
      BY <1>2, <1>5, <2>2, <2>5, <2>9
    <3> QED
      BY <1>2, <1>4, <1>5, <2>2, <2>6, <2>9, <3>1, <3>2, Zenon
  <2> QED
    <3>1. ASSUME at("register", "count")
          PROVE  sw'.at = "count"
      BY <1>3, <3>1
    <3> QED
      BY <1>6, <2>7, <2>8, <2>9, <3>1 DEF ioctl_helper_register_disk
<1>7. ASSUME NEW i \in Inst, NEW j \in Inst, typ[i] # typ[j],
             {i, j} = {sw.old, sw.new},
             NEW a \in {"exit_old", "exit_new"}, NEW b \in {"free_old", "free_new"},
             at(a, b) => registered' = {j},
             ioctl_helper_unregister_disk(i, a, b), unlisted' = unlisted
      PROVE  IInv'
  <2>1. PICK p \in {b, "bug"} : at(a, p)
    BY <1>7 DEF ioctl_helper_unregister_disk
  <2>2. /\ sw.at = a /\ sw' \in SwRec /\ sw'.at = p
        /\ sw'.old = sw.old /\ sw'.new = sw.new /\ SwitchOK'
    BY <1>3, <2>1
  <2>3. registered = {i, j} /\ sw'.at \notin {"init", "register"}
    BY <1>7, <2>2 DEF registered
  <2>4. \A m \in Module : list[m] = IF \/ i \notin unlisted /\ typ[i] = m
                                       \/ j \notin unlisted /\ typ[j] = m THEN 1 ELSE 0
    BY <1>0, <2>3 DEF ListOK
  <2>5. CASE at(a, b) /\ typ[i] \notin Module /\ list' = list
    <3>1. registered' = {j} /\ sw'.at = b /\ b # "bug"
      BY <1>3, <1>7, <2>5
    <3>2. ListOK'
      BY <1>1, <1>7, <2>4, <2>5, <3>1 DEF ListOK
    <3> QED
      BY <1>2, <1>4, <1>5, <1>7, <2>2, <2>3, <2>5, <3>1, <3>2, Zenon
  <2>6. CASE /\ at(a, b) /\ typ[i] \in Module /\ list[typ[i]] > 0
             /\ list' = [list EXCEPT ![typ[i]] = @ - 1]
    <3>1. registered' = {j} /\ sw'.at = b /\ b # "bug"
      BY <1>3, <1>7, <2>6
    <3>2. list[typ[i]] = 1
      BY <2>4, <2>6
    <3>3. \A m \in Module : list'[m] = IF m = typ[i] THEN 0 ELSE list[m]
      BY <1>2, <2>6, <3>2
    <3>4. list' \in [Module -> Nat]
      BY <1>2, <2>6, <3>2
    <3>5. ListOK'
      <4>1. ASSUME NEW m \in Module
            PROVE  list'[m] = IF \E k \in {j} \ unlisted : typ[k] = m THEN 1 ELSE 0
        BY <1>7, <2>4, <3>3
      <4> QED
        BY <1>1, <1>7, <3>1, <4>1 DEF ListOK
    <3>6. \A m \in Module : state[m] = "coming" => list'[m] = 0
      BY <1>5, <3>3
    <3> QED
      BY <1>2, <1>4, <1>5, <1>7, <2>2, <2>3, <3>1, <3>4, <3>5, <3>6, Zenon
  <2>7. CASE at(a, "bug") /\ typ[i] \in Module /\ list[typ[i]] = 0 /\ list' = list
    <3>1. sw'.at = "bug"
      BY <1>3, <2>7
    <3>2. i \in unlisted
      BY <2>4, <2>7
    <3>3. sw'.old \in unlisted' \/ sw'.new \in unlisted'
      BY <1>7, <2>2, <3>2
    <3>4. registered' = registered
      BY <1>7, <2>2, <2>3, <3>1 DEF registered
    <3>5. ListOK'
      BY <1>0, <1>1, <1>7, <2>7, <3>4, Zenon DEF ListOK
    <3> QED
      BY <1>2, <1>4, <1>5, <1>7, <2>2, <2>3, <2>7, <3>3, <3>5, Zenon
  <2> QED
    BY <1>7, <2>5, <2>6, <2>7 DEF ioctl_helper_unregister_disk
<1>8. CASE exit_old
  <2>1. /\ ioctl_helper_unregister_disk(sw.old, "exit_old", "free_old")
        /\ unlisted' = unlisted
    BY <1>8 DEF exit_old
  <2>2. sw.at = "exit_old"
    BY <2>1 DEF ioctl_helper_unregister_disk, at
  <2>3. sw.old \in Inst /\ sw.new \in Inst /\ typ[sw.old] # typ[sw.new]
    BY <1>0, <2>2 DEF SwitchOK
  <2>4. ASSUME at("exit_old", "free_old")
        PROVE  registered' = {sw.new}
    <3>1. sw'.at = "free_old" /\ sw'.new = sw.new
      BY <1>3, <2>4
    <3> QED
      BY <3>1 DEF registered
  <2> QED
    BY <1>7, <2>1, <2>3, <2>4
<1>9. CASE exit_new
  <2>1. /\ ioctl_helper_unregister_disk(sw.new, "exit_new", "free_new")
        /\ unlisted' = unlisted
    BY <1>9 DEF exit_new
  <2>2. sw.at = "exit_new"
    BY <2>1 DEF ioctl_helper_unregister_disk, at
  <2>3. sw.old \in Inst /\ sw.new \in Inst /\ typ[sw.old] # typ[sw.new]
    BY <1>0, <2>2 DEF SwitchOK
  <2>4. ASSUME at("exit_new", "free_new")
        PROVE  registered' = {sw.old}
    <3>1. sw'.at = "free_new" /\ sw'.old = sw.old
      BY <1>3, <2>4
    <3> QED
      BY <3>1 DEF registered
  <2>5. {sw.new, sw.old} = {sw.old, sw.new}
    OBVIOUS
  <2> QED
    BY <1>7, <2>1, <2>3, <2>4, <2>5
<1> QED
  BY <1>6, <1>8, <1>9

\* The instances that are registered are in use.
LEMMA RegisteredInUse ==
  ASSUME IInv
  PROVE  \A i \in registered : i \in Inst /\ in_use(i)
<1>1. sw.at \in Place /\ elevator \in Inst
  BY DEF IInv, TypeOK, Place
<1> QED
  BY <1>1 DEF IInv, SwitchOK, registered, Place

\* insmod and rmmod keep the invariant.
LEMMA ModuleStep ==
  ASSUME IInv,
         \/ tbucket_elv_register \/ tbucket_init \/ basic_sched_init
         \/ \E m \in Module : module_exit(m)
  PROVE  IInv'
<1>0. TypeOK /\ RefsExact /\ SwitchOK /\ ListOK /\ LoadOK /\ CodeInUse /\ NoBug
  BY DEF IInv
<1>1. UNCHANGED <<refs, leaked, unlisted, queue, call, hooks>>
  BY DEF tbucket_elv_register, tbucket_init, basic_sched_init, module_exit
<1>2. ASSUME NEW m \in Module, m \notin loaded \/ refs[m] = 0
      PROVE  list[m] = 0 /\ \A i \in Inst : in_use(i) => typ[i] # m
  <2>1. \A i \in Inst : in_use(i) => typ[i] # m
    <3>1. CASE m \notin loaded
      BY <1>0, <3>1 DEF CodeInUse, Module
    <3>2. CASE refs[m] = 0
      <4>0. refs[m] = Cardinality(holds(m)) + Cardinality(attached(m)) + leaked[m]
        BY <1>0 DEF RefsExact
      <4>1. Cardinality(attached(m)) = 0
        <5>1. leaked[m] \in Nat
          BY <1>0 DEF TypeOK
        <5> QED
          BY <3>2, <4>0, <5>1, FiniteUsers
      <4>2. attached(m) = {}
        BY <4>1, FiniteUsers, FS_EmptySet
      <4> QED
        BY <4>2 DEF attached
    <3> QED
      BY <1>2, <3>1, <3>2
  <2> QED
    BY <1>0, <2>1, RegisteredInUse DEF ListOK
<1>3. state \in [Module -> {"out", "coming", "live", "halted", "going"}]
      /\ list \in [Module -> Nat]
  BY <1>0 DEF TypeOK
<1>4. \E m \in Module, v \in {"out", "coming", "live", "halted"} :
        /\ state' = [state EXCEPT ![m] = v]
        /\ list[m] = 0 /\ list' = list
        /\ v = "out" => refs[m] = 0
  <2>1. CASE tbucket_elv_register
    <3>1. /\ state["tb"] = "out" /\ state' = [state EXCEPT !["tb"] = "coming"]
          /\ list' = list
      BY <2>1 DEF tbucket_elv_register
    <3>2. "tb" \in Module /\ "tb" \notin loaded
      BY <3>1 DEF loaded, Module
    <3> QED
      BY <1>2, <3>1, <3>2
  <2>2. CASE tbucket_init
    <3>1. /\ state["tb"] = "coming" /\ "tb" \in Module
          /\ list' = [list EXCEPT !["tb"] = 0]
      BY <2>2 DEF tbucket_init, ioctl_helper_init, Module
    <3>2. PICK v \in {"halted", "live"} : state' = [state EXCEPT !["tb"] = v]
      BY <2>2 DEF tbucket_init
    <3>3. list["tb"] = 0
      BY <1>0, <3>1 DEF LoadOK
    <3>4. list' = list
      BY <1>3, <3>1, <3>3
    <3> QED
      BY <3>1, <3>2, <3>3, <3>4
  <2>3. CASE basic_sched_init
    <3>1. /\ state["afq"] = "out" /\ state' = [state EXCEPT !["afq"] = "live"]
          /\ list' = [list EXCEPT !["afq"] = 0]
      BY <2>3 DEF basic_sched_init, ioctl_helper_init
    <3>2. "afq" \in Module /\ "afq" \notin loaded
      BY <3>1 DEF loaded, Module
    <3>3. list["afq"] = 0
      BY <1>2, <3>2
    <3>4. list' = list
      BY <1>3, <3>1, <3>2, <3>3
    <3> QED
      BY <3>1, <3>2, <3>3, <3>4
  <2>4. CASE \E m \in Module : module_exit(m)
    <3>1. PICK m \in Module : module_exit(m)
      BY <2>4
    <3>2. refs[m] = 0 /\ list' = list
      BY <3>1 DEF module_exit
    <3>3. list[m] = 0
      BY <1>2, <3>2
    <3>4. state' = [state EXCEPT ![m] = "out"]
      BY <3>1, <3>3 DEF module_exit
    <3> QED
      BY <3>2, <3>3, <3>4
  <2> QED
    BY <2>1, <2>2, <2>3, <2>4
<1>5. PICK m \in Module, v \in {"out", "coming", "live", "halted"} :
        /\ state' = [state EXCEPT ![m] = v]
        /\ list[m] = 0 /\ list' = list
        /\ v = "out" => refs[m] = 0
  BY <1>4
<1>6. SwitchOK' /\ ListOK' /\ (\A n : attached(n)' = attached(n)) /\ (\A i : in_use(i)' <=> in_use(i))
  BY <1>1, <1>5, QueueSame
<1>7. inside' = inside /\ \A n : holds(n)' = holds(n)
  BY <1>1, Zenon DEF inside, holds
<1>8. RefsExact'
  BY <1>0, <1>1, <1>6, <1>7 DEF RefsExact
<1>9. /\ typ' = typ /\ dangling' = dangling /\ locked' = locked /\ stuck' = stuck
      /\ phase' = phase /\ elevator' = elevator /\ sched_uniq' = sched_uniq /\ sw' = sw
  BY <1>1 DEF queue, hooks
<1>10. TypeOK'
  <2>1. state' \in [Module -> {"out", "coming", "live", "halted", "going"}]
    BY <1>3, <1>5
  <2>2. chrdev' \in BOOLEAN
    BY <1>0, Zenon DEF TypeOK, tbucket_elv_register, tbucket_init, basic_sched_init,
                       ioctl_helper_init, module_exit
  <2> QED
    BY <1>0, <1>1, <1>5, <1>9, <2>1, <2>2, ZenonT(30) DEF TypeOK
<1>11. LoadOK'
  <2>1. \A n \in Module : state'[n] = "coming" => list'[n] = 0
    BY <1>0, <1>3, <1>5 DEF LoadOK
  <2> QED
    BY <1>0, <1>1, <1>9, <2>1, Zenon DEF LoadOK
<1>12. NoBug'
  <2>1. \A n \in Module : state'[n] # "going"
    BY <1>0, <1>3, <1>5 DEF NoBug
  <2> QED
    BY <1>0, <1>1, <1>9, <2>1, Zenon DEF NoBug
<1>13. CodeInUse'
  <2>1. CASE v # "out"
    <3>1. loaded \subseteq loaded'
      BY <1>3, <1>5, <2>1 DEF loaded
    <3> QED
      BY <1>0, <1>1, <1>6, <1>7, <1>9, <3>1 DEF CodeInUse
  <2>2. CASE v = "out"
    <3>1. loaded' = loaded \ {m} /\ refs[m] = 0
      BY <1>3, <1>5, <2>2 DEF loaded
    <3>2. holds(m) = {}
      <4>0. refs[m] = Cardinality(holds(m)) + Cardinality(attached(m)) + leaked[m]
        BY <1>0 DEF RefsExact
      <4>1. Cardinality(holds(m)) = 0
        <5>1. leaked[m] \in Nat
          BY <1>0 DEF TypeOK
        <5> QED
          BY <3>1, <4>0, <5>1, FiniteUsers
      <4> QED
        BY <4>1, FiniteUsers, FS_EmptySet
    <3>3. \A c \in inside : call[c].owner # m
      BY <3>2 DEF holds
    <3>4. \A i \in Inst : in_use(i) => typ[i] # m
      BY <1>2, <3>1
    <3> QED
      BY <1>0, <1>1, <1>6, <1>7, <1>9, <3>1, <3>3, <3>4, Zenon DEF CodeInUse
  <2> QED
    BY <2>1, <2>2
<1> QED
  BY <1>6, <1>8, <1>10, <1>11, <1>12, <1>13 DEF IInv

\* The invariant holds before the first module is loaded.
LEMMA InitInv == Init => IInv
<1> SUFFICES ASSUME Init
             PROVE  IInv
  OBVIOUS
<1>1. sw.at = "idle" /\ sw \in SwRec
  BY DEF Init, Idle, SwRec, Place
<1>2. TypeOK
  <2>1. /\ unlisted \subseteq Inst /\ refs \in [Module -> Nat] /\ list \in [Module -> Nat]
        /\ leaked \in [Module -> 0..MaxLeaks]
        /\ typ \in [Inst -> Module \cup {"builtin"}]
        /\ phase \in [Inst -> {"unused", "alloc", "live", "freed"}]
        /\ elevator \in Inst /\ sched_uniq \in 0..INT_MAX
        /\ locked \subseteq Inst \cup {NoInst}
    BY ElvSwitchAssumption DEF Init
  <2>2. call \in [Call -> CallRec]
    BY OutType DEF Init
  <2>3. chrdev \in BOOLEAN /\ stuck \in BOOLEAN /\ dangling \in BOOLEAN
    BY Zenon DEF Init
  <2>4. state \in [Module -> {"out", "coming", "live", "halted", "going"}]
    BY DEF Init
  <2> QED
    BY <1>1, <2>1, <2>2, <2>3, <2>4, Zenon DEF TypeOK, CallRec, SwRec, Place
<1>3. \A i \in Inst : (in_use(i) <=> i = boot) /\ typ[i] = "builtin"
  BY DEF Init, in_use
<1>4. SwitchOK
  BY <1>1, <1>3 DEF Init, SwitchOK
<1>5. ListOK
  <2>1. registered = {boot}
    BY <1>1, Zenon DEF registered, Init
  <2> QED
    BY <1>3, <2>1, ElvSwitchAssumption DEF Init, ListOK, Module
<1>6. inside = {}
  BY DEF Init, inside, Out
<1>7. RefsExact
  <2>1. ASSUME NEW m \in Module
        PROVE  holds(m) = {} /\ attached(m) = {} /\ refs[m] = 0 /\ leaked[m] = 0
    <3>1. holds(m) = {}
      BY <1>6, Zenon DEF holds
    <3>2. refs[m] = 0 /\ leaked[m] = 0
      BY Zenon DEF Init
    <3>3. attached(m) = {}
      BY <1>3 DEF attached, Module
    <3> QED
      BY <3>1, <3>2, <3>3
  <2> QED
    BY <2>1, FS_EmptySet DEF RefsExact
<1>8. CodeInUse
  BY <1>3, <1>6 DEF CodeInUse
<1>9. LoadOK /\ NoBug
  BY <1>1 DEF LoadOK, NoBug, Init
<1> QED
  BY <1>2, <1>4, <1>5, <1>7, <1>8, <1>9 DEF IInv

\* The inductive invariant holds in every reachable state, for any number of
\* calls, instances and failures.
LEMMA Invariance == Spec => []IInv
<1>1. IInv /\ [Next]_vars => IInv'
  <2> SUFFICES ASSUME IInv, [Next]_vars
               PROVE  IInv'
    OBVIOUS
  <2>1. CASE \E c \in Call : system_call(c)
    BY <2>1, CallStep
  <2>2. CASE elevator_switch
    BY <2>2, SwitchStep, FreeStep, QuietStep, ListStep DEF elevator_switch
  <2>3. CASE \/ tbucket_elv_register \/ tbucket_init \/ basic_sched_init
             \/ \E m \in Module : module_exit(m)
    BY <2>3, ModuleStep
  <2>4. CASE spin_lock
    <3>1. spins
      BY <2>4, Zenon DEF spin_lock, spins
    <3> QED
      BY <3>1, SpinStep
  <2>5. CASE UNCHANGED vars
    <3>1. /\ state' = state /\ chrdev' = chrdev /\ refs' = refs /\ list' = list
          /\ leaked' = leaked /\ unlisted' = unlisted /\ typ' = typ /\ phase' = phase
          /\ elevator' = elevator /\ sched_uniq' = sched_uniq /\ sw' = sw
          /\ call' = call /\ locked' = locked /\ stuck' = stuck /\ dangling' = dangling
      BY <2>5 DEF vars, module, queue, hooks
    <3>2. UNCHANGED <<queue, list, unlisted, state>>
      BY <3>1 DEF queue
    <3>3. /\ SwitchOK' /\ ListOK' /\ \A n : attached(n)' = attached(n)
          /\ \A i : in_use(i)' <=> in_use(i)
          /\ LoadOK' /\ NoBug' /\ loaded' = loaded
      BY <3>2, QueueSame, LoadSame
    <3>4. inside' = inside /\ \A n : holds(n)' = holds(n)
      BY <3>1, Zenon DEF inside, holds
    <3>5. TypeOK'
      BY <3>1, ZenonT(30) DEF IInv, TypeOK
    <3>6. RefsExact' /\ CodeInUse'
      BY <3>1, <3>3, <3>4, Zenon DEF IInv, RefsExact, CodeInUse
    <3> QED
      BY <3>3, <3>5, <3>6 DEF IInv
  <2> QED
    BY <2>1, <2>2, <2>3, <2>4, <2>5 DEF Next
<1> QED
  BY <1>1, InitInv, PTL DEF Spec

\* The variables keep their types; in particular no reference count, and no
\* count of list entries, goes below zero.
THEOREM TypeCorrect == Spec => []TypeOK
<1>1. IInv => TypeOK
  BY DEF IInv
<1> QED
  BY <1>1, Invariance, PTL

\* For any number of concurrent calls and switches, a module has as many
\* references as calls in it, instances of it, and calls that left vfs_mkdir
\* with -EMLINK.
THEOREM ExactReferences == Spec => []RefsExact
<1>1. IInv => RefsExact
  BY DEF IInv
<1> QED
  BY <1>1, Invariance, PTL

\* For any number of concurrent calls and switches, rmmod never removes the code
\* a call or an instance still needs, but for calls that were intercepted while
\* q->elevator was a freed instance.
THEOREM NeverUnloadedInUse == Spec => []CodeInUse
<1>1. IInv => CodeInUse
  BY DEF IInv
<1> QED
  BY <1>1, Invariance, PTL

\* However calls, switches, failures, insmod and rmmod interleave, the list of a
\* module is empty when it is unloaded, and a switch dies in the ioctl helper only
\* if one of its schedulers could not be registered.
THEOREM ListsConsistent == Spec => []NoBug
<1>1. IInv => NoBug
  BY DEF IInv
<1> QED
  BY <1>1, Invariance, PTL

=============================================================================
