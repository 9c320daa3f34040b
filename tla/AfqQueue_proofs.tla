-------------------------- MODULE AfqQueue_proofs --------------------------
(***************************************************************************)
(* Lemmas for AfqBatch_proofs: the inductive invariant, the types, and the *)
(* queues of waiting and selected work.                                    *)
(***************************************************************************)
EXTENDS AfqBatch, FiniteSetTheorems, TLAPS

(***************************************************************************)
(* Lists without repetition.                                               *)
(***************************************************************************)

elems(s) == {s[k] : k \in 1..Len(s)}

distinct(s) == \A j, k \in 1..Len(s) : s[j] = s[k] => j = k

\* list_add_tail / list_move_tail of a new entry.
LEMMA AppendList ==
  ASSUME NEW S, NEW s \in Seq(S), NEW x \in S
  PROVE  /\ Append(s, x) \in Seq(S)
         /\ Append(s, x) # <<>>
         /\ elems(Append(s, x)) = elems(s) \cup {x}
         /\ distinct(s) /\ x \notin elems(s) => distinct(Append(s, x))
<1> DEFINE t == Append(s, x)
<1>1. /\ t \in Seq(S) /\ Len(t) = Len(s) + 1 /\ t # <<>>
      /\ t[Len(s) + 1] = x /\ Len(s) \in Nat
      /\ \A k \in 1..Len(s) : t[k] = s[k]
  OBVIOUS
<1>2. elems(t) = elems(s) \cup {x}
  <2>1. \A k \in 1..Len(t) : k = Len(s) + 1 \/ k \in 1..Len(s)
    BY <1>1
  <2>2. \A k \in 1..Len(s) : k \in 1..Len(t)
    BY <1>1
  <2>3. Len(s) + 1 \in 1..Len(t)
    BY <1>1
  <2> QED
    BY <1>1, <2>1, <2>2, <2>3 DEF elems
<1>3. ASSUME distinct(s), x \notin elems(s) PROVE distinct(t)
  BY <1>1, <1>3 DEF distinct, elems
<1> QED
  BY <1>1, <1>2, <1>3

\* The entries of a list.
LEMMA ElemsIn ==
  ASSUME NEW S, NEW s \in Seq(S)
  PROVE  elems(s) \subseteq S
  BY DEF elems

\* list_del of the first entry.
LEMMA TailList ==
  ASSUME NEW S, NEW s \in Seq(S), s # <<>>
  PROVE  /\ Head(s) \in S /\ Head(s) \in elems(s)
         /\ Tail(s) \in Seq(S)
         /\ elems(Tail(s)) \subseteq elems(s)
         /\ distinct(s) => /\ distinct(Tail(s))
                           /\ Head(s) \notin elems(Tail(s))
<1> DEFINE t == Tail(s)
<1>1. /\ t \in Seq(S) /\ Len(t) = Len(s) - 1 /\ Len(s) \in Nat /\ Len(s) >= 1
      /\ Head(s) = s[1] /\ Head(s) \in S
      /\ \A k \in 1..Len(t) : t[k] = s[k + 1]
  OBVIOUS
<1>2. \A k \in 1..Len(t) : k + 1 \in 1..Len(s)
  BY <1>1
<1>3. 1 \in 1..Len(s)
  BY <1>1
<1>4. elems(t) \subseteq elems(s) /\ Head(s) \in elems(s)
  BY <1>1, <1>2, <1>3 DEF elems
<1>5. ASSUME distinct(s) PROVE distinct(t) /\ Head(s) \notin elems(t)
  BY <1>1, <1>2, <1>3, <1>5 DEF distinct, elems
<1> QED
  BY <1>1, <1>4, <1>5

(***************************************************************************)
(* The inductive invariant.                                                *)
(***************************************************************************)

\* Every pending io_work is once on the list of its account, and the active
\* list is the set of accounts with pending io_work.
ListInv ==
  \A a \in Acct :
    /\ distinct(io_work_list[a])
    /\ \A i \in elems(io_work_list[a]) : st[i] = "queued" /\ AcctOf[i] = a

ActiveInv ==
  /\ active = {a \in Acct : ~acct_no_pending_io(a)}
  /\ dp = "move" => min_acct \in active

SliceInv == slice => last_served \in Acct

QueueInv == ListInv /\ ActiveInv /\ SliceInv

\* Every selected io_work is once on work_selected, which is empty but
\* between select_io_work and the end of submit_io_work.
SelectedInv ==
  /\ distinct(selected)
  /\ \A i \in elems(selected) : st[i] = "selected"
  /\ dp \in {"idle", "want", "check", "arm"} => selected = <<>>
  /\ dp = "choose" => active # {} \/ selected # <<>>

\* The batch under construction is allocated, and not empty when submitted.
CurInv ==
  /\ cur # NoOne <=> dp \in {"choose", "move", "submit", "arm"}
  /\ cur # NoOne => cur \in live
  /\ dp \in {"submit", "arm"} /\ selected = <<>> => outstanding(cur)

\* A batch that has lost a member is never freed, so a new one has lost none.
LostInv == \A b \in Batch : b \notin live => lost[b] = 0

BatchInv ==
  OwnerIsLive /\ LoopWorkExact /\ NoBatchLeak /\ ClosedMeansBusy /\ CurInv /\ LostInv

IInv ==
  /\ TypeOK /\ QueueInv /\ SelectedInv /\ BatchInv
  /\ StaleOnlyDeclines /\ InflightBound /\ TimerBacksUp

(***************************************************************************)
(* The steps, sorted by what they change.                                  *)
(***************************************************************************)

\* The steps of elevator_switch, a write that keeps the lock, and those who wait
\* for it, change nothing but the queue's own variables.
quiet == UNCHANGED <<sched, gate, desc, local, inflight, uncounted>>

\* A member of a batch is done, with afq_data or without.
finishes(i) == finish(i, TRUE) \/ finish(i, FALSE)

\* The return of a call is one of the two.
LEMMA ReturnCases ==
  ASSUME NEW i, syscall_return(i)
  PROVE  finishes(i)
<1>1. CASE Current /\ i \notin stale
  BY <1>1, Zenon DEF syscall_return, finishes, finish, dec_check_cleanup_batch
<1>2. CASE ~(Current /\ i \notin stale)
  BY <1>2, Zenon DEF syscall_return, finishes, finish, dec_check_cleanup_batch
<1> QED
  BY <1>1, <1>2

\* Every step is of one of these kinds.
LEMMA StepCases ==
  ASSUME [Next]_vars
  PROVE  \/ \E i \in Syscall : block(i) \/ pass(i)
         \/ \E i \in Syscall : syscall_return(i)
         \/ \E i \in Syscall : mkdir_emlink(i)
         \/ \E r \in Request : basic_sched_add_request(r)
         \/ \E r \in Request : basic_sched_complte_request(r)
         \/ stray_return \/ sched_thread_func \/ basic_sched_dispatch
         \/ timer_expire \/ new_batch_wait_timer_func \/ slice_end
         \/ quiet
<1>1. ASSUME NEW i \in Syscall, fsync_entry(i) \/ write_entry(i) \/ mkdir_entry(i)
      PROVE  block(i) \/ pass(i) \/ quiet
  BY <1>1, Zenon DEF fsync_entry, write_entry, mkdir_entry, block_fresh, block_stale,
                     write_keeps_lock, quiet
<1>2. ASSUME \/ count_switch \/ end_switch \/ switch_away \/ switch_back
             \/ spin_lock \/ UNCHANGED vars
      PROVE  quiet
  BY <1>2, Zenon DEF count_switch, end_switch, switch_away, switch_back, spin_lock, vars,
                     quiet
<1>3. ASSUME NEW i \in Syscall, fsync_return(i) \/ write_return(i) \/ mkdir_return(i)
      PROVE  syscall_return(i)
  BY <1>3, Zenon DEF fsync_return, write_return, mkdir_return
<1> QED
  BY <1>1, <1>2, <1>3, Zenon DEF Next

(***************************************************************************)
(* Type correctness.                                                       *)
(***************************************************************************)

\* What is an io_work, and what is not.
LEMMA Items ==
  /\ Work \subseteq Item /\ Request \subseteq Item
  /\ Syscall \subseteq Work /\ Read \subseteq Work /\ Read \subseteq Request
  /\ WriteReq \subseteq Request /\ Syscall \cap Request = {}
  /\ \A r \in Request : r \in Read \/ r \in WriteReq
  /\ \A i \in Work : i \in Read \/ i \in Syscall
  /\ \A i \in Item : i \in Request \/ i \in Syscall
  /\ AcctOf \in [Work -> Acct] /\ NoOne \notin Batch /\ NoOne \notin Acct
  /\ Read \cap WriteReq = {}
  BY ConstAssumption DEF Item, Work, Request, Syscall

FlagsOK ==
  slice \in BOOLEAN /\ timer \in BOOLEAN /\ handler \in BOOLEAN /\ idle_last \in BOOLEAN

QueueOK ==
  /\ elv \in {"new", "counted", "here", "away", "gone"} /\ stale \subseteq Syscall
  /\ switches \in Nat /\ lock_kept \in BOOLEAN

\* Type correctness holds initially (basic_sched_init_data).
LEMMA InitType == Init => TypeOK
<1>1. Init => FlagsOK
  BY Zenon DEF Init, FlagsOK
<1>2. Init => QueueOK
  <2>1. Init => lock_kept \in BOOLEAN
    BY Zenon DEF Init
  <2> QED
    BY <2>1 DEF Init, QueueOK
<1> QED
  BY <1>1, <1>2, ConstAssumption DEF Init, TypeOK, FlagsOK, QueueOK, ALLOW_NEW_BATCH

\* The part of TypeOK on the queue, for each step.
LEMMA QueueOKStep ==
  ASSUME QueueOK, [Next]_vars
  PROVE  QueueOK'
<1> USE DEF QueueOK, vars, queue
<1>1. ASSUME UNCHANGED <<elv, switches, lock_kept>>, stale' \subseteq Syscall
      PROVE  QueueOK'
  BY <1>1
<1>2. ASSUME NEW i \in Syscall, fsync_entry(i) \/ write_entry(i) \/ mkdir_entry(i)
      PROVE  QueueOK'
  <2>1. CASE block_fresh(i)
    BY <1>1, <2>1 DEF block_fresh, block
  <2>2. CASE block_stale(i)
    BY <1>1, <2>2 DEF block_stale, block
  <2>3. CASE pass(i)
    BY <1>1, <2>3 DEF pass
  <2>4. CASE write_keeps_lock(i)
    <3>1. lock_kept' \in BOOLEAN
      BY <2>4, Zenon DEF write_keeps_lock
    <3> QED
      BY <2>4, <3>1 DEF write_keeps_lock
  <2> QED
    BY <1>2, <2>1, <2>2, <2>3, <2>4, Zenon DEF fsync_entry, write_entry, mkdir_entry
<1>3. ASSUME NEW i, finishes(i) PROVE QueueOK'
  BY <1>1, <1>3 DEF finishes, finish
<1>4. ASSUME NEW i \in Syscall, fsync_return(i) \/ write_return(i) \/ mkdir_return(i)
      PROVE  QueueOK'
  BY <1>3, <1>4, ReturnCases, Zenon DEF fsync_return, write_return, mkdir_return
<1>5. ASSUME NEW i \in Syscall, mkdir_emlink(i) PROVE QueueOK'
  BY <1>1, <1>5 DEF mkdir_emlink
<1>6. ASSUME NEW r \in Request, basic_sched_add_request(r) PROVE QueueOK'
  BY <1>1, <1>6 DEF basic_sched_add_request, add_write_request, add_read_request
<1>7. ASSUME NEW r \in Request, basic_sched_complte_request(r) PROVE QueueOK'
  BY <1>3, <1>7, Zenon DEF basic_sched_complte_request, finishes
<1>8. CASE basic_sched_dispatch
  BY <1>1, <1>8 DEF basic_sched_dispatch, want_dispatch_read, dispatch_decline, select_start,
                    select_acct, select_move, select_complete, submit_one, submit_close,
                    submit_arm
<1>9. CASE \/ stray_return \/ sched_thread_func \/ spin_lock \/ timer_expire
           \/ new_batch_wait_timer_func \/ slice_end \/ UNCHANGED vars
  BY <1>1, <1>9 DEF stray_return, sched_thread_func, spin_lock, timer_expire,
                    new_batch_wait_timer_func, slice_end
<1>10. CASE count_switch \/ end_switch \/ switch_away \/ switch_back
  <2>1. lock_kept' \in BOOLEAN
    BY <1>10, Zenon DEF count_switch, end_switch, switch_away, switch_back
  <2> QED
    BY <1>10, <2>1 DEF count_switch, end_switch, switch_away, switch_back, described
<1> QED
  BY <1>2, <1>4, <1>5, <1>6, <1>7, <1>8, <1>9, <1>10, Zenon DEF Next

\* The part of TypeOK on the Boolean variables, for each step.
LEMMA FlagsStep ==
  ASSUME FlagsOK, [Next]_vars
  PROVE  FlagsOK'
<1> USE DEF FlagsOK, vars, sched, gate, desc, local, quiet
<1>1. ASSUME NEW i \in Syscall, block(i) \/ pass(i) PROVE FlagsOK'
  BY <1>1, Zenon DEF block, pass, run_queue, add_io_work_to_acct
<1>2. ASSUME NEW i \in Syscall, syscall_return(i) \/ mkdir_emlink(i) PROVE FlagsOK'
  BY <1>2, Zenon DEF syscall_return, finish, mkdir_emlink
<1>3. ASSUME NEW r \in Request, basic_sched_add_request(r) PROVE FlagsOK'
  BY <1>3, Zenon DEF basic_sched_add_request, add_write_request, add_read_request,
                     add_io_work_to_acct
<1>4. ASSUME NEW r \in Request, basic_sched_complte_request(r) PROVE FlagsOK'
  BY <1>4, Zenon DEF basic_sched_complte_request, finish
<1>5. CASE want_dispatch_read \/ dispatch_decline \/ select_acct \/ select_complete
  BY <1>5, Zenon DEF want_dispatch_read, dispatch_decline, select_acct, select_complete
<1>6. CASE select_start
  BY <1>6, Zenon DEF select_start
<1>7. CASE select_move \/ submit_one
  BY <1>7, Zenon DEF select_move, submit_one
<1>8. CASE submit_close \/ submit_arm
  BY <1>8, Zenon DEF submit_close, submit_arm
<1>9. CASE sched_thread_func \/ timer_expire \/ new_batch_wait_timer_func
  BY <1>9, Zenon DEF sched_thread_func, timer_expire, new_batch_wait_timer_func
<1>10. CASE slice_end \/ stray_return \/ quiet
  BY <1>10, Zenon DEF slice_end, stray_return
<1> QED
  BY <1>1, <1>2, <1>3, <1>4, <1>5, <1>6, <1>7, <1>8, <1>9, <1>10, StepCases, Zenon
  DEF basic_sched_dispatch

DescOK ==
  /\ st \in [Item -> {"free", "queued", "selected", "issued"}]
  /\ owner \in [Item -> Batch \cup {NoOne}]
  /\ live \subseteq Batch /\ one_loop_work \in [Batch -> Int] /\ lost \in [Batch -> Nat]

ListsOK ==
  /\ io_work_list \in [Acct -> Seq(Work)] /\ active \subseteq Acct
  /\ last_served \in Acct \cup {NoOne} /\ min_acct \in Acct \cup {NoOne}
  /\ selected \in Seq(Work)

GateOK ==
  /\ keep_wait \in {ALLOW_NEW_BATCH, NO_NEW_BATCH, KEEP_IN_FLIGHT}
  /\ seen \in {ALLOW_NEW_BATCH, NO_NEW_BATCH, KEEP_IN_FLIGHT}
  /\ inflight \in Int /\ uncounted \in Nat
  /\ dp \in {"idle", "want", "check", "choose", "move", "submit", "arm"}
  /\ cur \in Batch \cup {NoOne} /\ closer \in Batch \cup {NoOne}

\* TypeOK, in the parts that are proved one by one.
LEMMA TypeParts == TypeOK <=> FlagsOK /\ QueueOK /\ DescOK /\ ListsOK /\ GateOK
  BY Zenon DEF TypeOK, FlagsOK, QueueOK, DescOK, ListsOK, GateOK

\* The dispatcher takes the head of a list only if the list is not empty.
LEMMA HeadOfList ==
  ASSUME ListsOK, QueueInv, select_move
  PROVE  /\ min_acct \in Acct /\ io_work_list[min_acct] # <<>>
         /\ io_work_list[min_acct] \in Seq(Work)
         /\ Head(io_work_list[min_acct]) \in Work
         /\ Tail(io_work_list[min_acct]) \in Seq(Work)
<1>1. min_acct \in Acct /\ io_work_list[min_acct] # <<>>
  BY DEF select_move, QueueInv, ActiveInv, acct_no_pending_io, ListsOK
<1>2. io_work_list[min_acct] \in Seq(Work)
  BY <1>1 DEF ListsOK
<1> QED
  BY <1>1, <1>2, TailList

\* Every step keeps the types of the descriptors.
LEMMA DescStep ==
  ASSUME DescOK, ListsOK, GateOK, QueueInv, [Next]_vars
  PROVE  DescOK'
<1> USE DEF DescOK, sched, gate, desc, local, quiet
<1>1. ASSUME NEW i \in Item, NEW v \in {"free", "queued", "selected", "issued"},
             st' = [st EXCEPT ![i] = v], UNCHANGED <<owner, live, one_loop_work, lost>>
      PROVE  DescOK'
  BY <1>1
<1>2. ASSUME NEW i \in Syscall, block(i) \/ pass(i) PROVE DescOK'
  BY <1>1, <1>2, Items DEF block, pass, add_io_work_to_acct
<1>3. ASSUME NEW i \in Item, finishes(i) PROVE DescOK'
  <2>1. CASE owner[i] = NoOne
    BY <1>3, <2>1 DEF finishes, finish
  <2>2. CASE owner[i] # NoOne
    <3>1. /\ owner' \in [Item -> Batch \cup {NoOne}] /\ lost' = lost
          /\ st' \in [Item -> {"free", "queued", "selected", "issued"}]
      BY <1>3, Zenon DEF finishes, finish
    <3>2. /\ live' = live \/ live' = live \ {owner[i]}
          /\ one_loop_work' = [one_loop_work EXCEPT ![owner[i]] = one_loop_work[owner[i]] - 1]
      BY <1>3, <2>2, Zenon DEF finishes, finish, dec_check_cleanup_batch
    <3>3. one_loop_work' \in [Batch -> Int] /\ live' \subseteq Batch
      BY <2>2, <3>2
    <3> QED
      BY <3>1, <3>3
  <2> QED
    BY <2>1, <2>2
<1>4. ASSUME NEW i \in Syscall, syscall_return(i) PROVE DescOK'
  BY <1>3, <1>4, ReturnCases, Items
<1>5. ASSUME NEW i \in Syscall, mkdir_emlink(i) PROVE DescOK'
  <2>1. /\ i \in Item /\ live' = live /\ one_loop_work' = one_loop_work
        /\ st' = [st EXCEPT ![i] = "free"] /\ owner' = [owner EXCEPT ![i] = NoOne]
    BY <1>5, Items DEF mkdir_emlink
  <2>2. lost' = lost \/ lost' = [lost EXCEPT ![owner[i]] = lost[owner[i]] + 1]
    BY <1>5 DEF mkdir_emlink
  <2>3. lost' \in [Batch -> Nat]
    BY <2>2
  <2> QED
    BY <2>1, <2>3
<1>6. ASSUME NEW r \in Request, basic_sched_add_request(r) PROVE DescOK'
  BY <1>1, <1>6, Items DEF basic_sched_add_request, add_write_request, add_read_request,
                           add_io_work_to_acct
<1>7. ASSUME NEW r \in Request, basic_sched_complte_request(r) PROVE DescOK'
  BY <1>3, <1>7, Items, Zenon DEF basic_sched_complte_request, finishes
<1>8. CASE select_start
  BY <1>8 DEF select_start
<1>9. CASE select_move
  BY <1>1, <1>9, HeadOfList, Items DEF select_move
<1>10. CASE submit_one
  <2>1. Head(selected) \in Item
    BY <1>10, TailList, Items DEF submit_one, ListsOK
  <2>2. /\ st' = [st EXCEPT ![Head(selected)] = "issued"]
        /\ owner' = [owner EXCEPT ![Head(selected)] = cur]
        /\ one_loop_work' = [one_loop_work EXCEPT ![cur] = one_loop_work[cur] + 1]
        /\ UNCHANGED <<live, lost>>
    BY <1>10 DEF submit_one
  <2>3. owner' \in [Item -> Batch \cup {NoOne}]
    BY <2>1, <2>2 DEF GateOK
  <2>4. one_loop_work' \in [Batch -> Int]
    <3>1. CASE cur \in Batch
      BY <2>2, <3>1
    <3>2. CASE cur \notin Batch
      BY <2>2, <3>2, Zenon
    <3> QED
      BY <3>1, <3>2
  <2> QED
    BY <2>1, <2>2, <2>3, <2>4
<1>11. CASE \/ want_dispatch_read \/ dispatch_decline \/ select_acct \/ select_complete
            \/ submit_close \/ submit_arm
  BY <1>11 DEF want_dispatch_read, dispatch_decline, select_acct, select_complete,
               submit_close, submit_arm
<1>12. CASE \/ stray_return \/ sched_thread_func \/ timer_expire
            \/ new_batch_wait_timer_func \/ slice_end \/ quiet
  BY <1>12 DEF stray_return, sched_thread_func, timer_expire, new_batch_wait_timer_func,
               slice_end
<1> QED
  BY <1>2, <1>4, <1>5, <1>6, <1>7, <1>8, <1>9, <1>10, <1>11, <1>12, StepCases, Zenon
  DEF basic_sched_dispatch

\* Every step keeps the types of the lists.
LEMMA ListsTypeStep ==
  ASSUME ListsOK, QueueInv, [Next]_vars
  PROVE  ListsOK'
<1> USE DEF ListsOK, sched, gate, desc, local, quiet
<1>1. ASSUME NEW i \in Work, add_io_work_to_acct(i), UNCHANGED <<min_acct, selected>>
      PROVE  ListsOK'
  <2>1. AcctOf[i] \in Acct
    BY Items
  <2>2. Append(io_work_list[AcctOf[i]], i) \in Seq(Work)
    BY <2>1, AppendList
  <2> QED
    BY <1>1, <2>1, <2>2 DEF add_io_work_to_acct
<1>2. ASSUME NEW i \in Syscall, block(i) \/ pass(i) PROVE ListsOK'
  BY <1>1, <1>2, Items DEF block, pass, run_queue
<1>3. ASSUME NEW i \in Syscall, syscall_return(i) \/ mkdir_emlink(i) PROVE ListsOK'
  BY <1>3 DEF syscall_return, finish, mkdir_emlink
<1>4. ASSUME NEW r \in Request, basic_sched_add_request(r) PROVE ListsOK'
  BY <1>1, <1>4, Items DEF basic_sched_add_request, add_write_request, add_read_request
<1>5. ASSUME NEW r \in Request, basic_sched_complte_request(r) PROVE ListsOK'
  BY <1>5 DEF basic_sched_complte_request, finish
<1>6. CASE select_start \/ select_acct
  BY <1>6, Zenon DEF select_start, select_acct
<1>7. CASE select_move
  <2>1. Append(selected, Head(io_work_list[min_acct])) \in Seq(Work)
    BY <1>7, HeadOfList, AppendList
  <2> QED
    BY <1>7, <2>1, HeadOfList DEF select_move
<1>8. CASE submit_one
  <2>1. Tail(selected) \in Seq(Work)
    BY <1>8, TailList DEF submit_one
  <2> QED
    BY <1>8, <2>1 DEF submit_one
<1>9. CASE \/ want_dispatch_read \/ dispatch_decline \/ select_complete
           \/ submit_close \/ submit_arm
  BY <1>9 DEF want_dispatch_read, dispatch_decline, select_complete, submit_close, submit_arm
<1>10. CASE \/ stray_return \/ sched_thread_func \/ timer_expire
            \/ new_batch_wait_timer_func \/ slice_end \/ quiet
  BY <1>10 DEF stray_return, sched_thread_func, timer_expire, new_batch_wait_timer_func,
               slice_end
<1> QED
  BY <1>2, <1>3, <1>4, <1>5, <1>6, <1>7, <1>8, <1>9, <1>10, StepCases, Zenon
  DEF basic_sched_dispatch

\* Every step keeps the types of the gate and of the dispatcher.
LEMMA GateStep ==
  ASSUME GateOK, [Next]_vars
  PROVE  GateOK'
<1> USE DEF GateOK, sched, gate, desc, local, quiet
<1>1. ASSUME NEW i \in Syscall, block(i) \/ pass(i) PROVE GateOK'
  BY <1>1 DEF block, pass, run_queue
<1>2. ASSUME NEW i, finishes(i), inflight' \in Int, uncounted' \in Nat PROVE GateOK'
  <2>1. /\ keep_wait' \in {keep_wait, ALLOW_NEW_BATCH} /\ closer' \in {closer, NoOne}
        /\ UNCHANGED <<seen, dp, cur>>
    BY <1>2 DEF finishes, finish, dec_check_cleanup_batch
  <2> QED
    BY <1>2, <2>1
<1>3. ASSUME NEW i \in Syscall, syscall_return(i) \/ mkdir_emlink(i) PROVE GateOK'
  <2>1. CASE syscall_return(i)
    BY <1>2, <2>1, ReturnCases DEF syscall_return
  <2>2. CASE mkdir_emlink(i)
    BY <2>2 DEF mkdir_emlink
  <2> QED
    BY <1>3, <2>1, <2>2
<1>4. ASSUME NEW r \in Request, basic_sched_add_request(r) PROVE GateOK'
  BY <1>4 DEF basic_sched_add_request, add_write_request, add_read_request
<1>5. ASSUME NEW r \in Request, basic_sched_complte_request(r) PROVE GateOK'
  <2>1. inflight' \in Int /\ uncounted' \in Nat
    BY <1>5 DEF basic_sched_complte_request
  <2>2. finishes(r)
    BY <1>5, Zenon DEF basic_sched_complte_request, finishes
  <2> QED
    BY <1>2, <2>1, <2>2, Zenon
<1>6. CASE want_dispatch_read \/ dispatch_decline \/ select_start
  BY <1>6, Zenon DEF want_dispatch_read, dispatch_decline, select_start
<1>7. CASE select_acct \/ select_move \/ select_complete
  BY <1>7 DEF select_acct, select_move, select_complete
<1>8. CASE submit_one \/ submit_close \/ submit_arm
  BY <1>8 DEF submit_one, submit_close, submit_arm
<1>9. CASE \/ stray_return \/ sched_thread_func \/ timer_expire
           \/ new_batch_wait_timer_func \/ slice_end \/ quiet
  BY <1>9 DEF stray_return, sched_thread_func, timer_expire, new_batch_wait_timer_func,
              slice_end
<1> QED
  BY <1>1, <1>3, <1>4, <1>5, <1>6, <1>7, <1>8, <1>9, StepCases, Zenon
  DEF basic_sched_dispatch

\* Every hook, every dispatcher step and every timer step keeps the types.
LEMMA TypeStep ==
  ASSUME TypeOK, QueueInv, [Next]_vars
  PROVE  TypeOK'
<1>1. FlagsOK' /\ QueueOK'
  BY TypeParts, FlagsStep, QueueOKStep, Zenon
<1>2. DescOK' /\ ListsOK' /\ GateOK'
  BY TypeParts, DescStep, ListsTypeStep, GateStep, Zenon
<1> QED
  BY <1>1, <1>2, Zenon DEF TypeOK, FlagsOK, QueueOK, DescOK, ListsOK, GateOK

(***************************************************************************)
(* The lists.                                                              *)
(***************************************************************************)

\* The slice belongs to an account: it is opened with the choice of one.
LEMMA SliceStep ==
  ASSUME SliceInv, active \subseteq Acct, [Next]_vars
  PROVE  SliceInv'
<1> USE DEF SliceInv, vars, sched, gate, desc, local, quiet
<1>1. ASSUME NEW i \in Syscall, block(i) \/ pass(i) PROVE SliceInv'
  BY <1>1, Zenon DEF block, pass, run_queue, add_io_work_to_acct
<1>2. ASSUME NEW i \in Syscall, syscall_return(i) \/ mkdir_emlink(i) PROVE SliceInv'
  BY <1>2, Zenon DEF syscall_return, finish, mkdir_emlink
<1>3. ASSUME NEW r \in Request, basic_sched_add_request(r) PROVE SliceInv'
  BY <1>3, Zenon DEF basic_sched_add_request, add_write_request, add_read_request,
                     add_io_work_to_acct
<1>4. ASSUME NEW r \in Request, basic_sched_complte_request(r) PROVE SliceInv'
  BY <1>4, Zenon DEF basic_sched_complte_request, finish
<1>5. CASE want_dispatch_read \/ dispatch_decline \/ select_start \/ select_complete
  BY <1>5, Zenon DEF want_dispatch_read, dispatch_decline, select_start, select_complete
<1>6. CASE select_acct
  BY <1>6, Zenon DEF select_acct
<1>7. CASE select_move \/ submit_one \/ submit_close \/ submit_arm
  BY <1>7, Zenon DEF select_move, submit_one, submit_close, submit_arm
<1>8. CASE sched_thread_func \/ timer_expire \/ new_batch_wait_timer_func
  BY <1>8, Zenon DEF sched_thread_func, timer_expire, new_batch_wait_timer_func
<1>9. CASE slice_end \/ stray_return \/ quiet
  BY <1>9, Zenon DEF slice_end, stray_return
<1> QED
  BY <1>1, <1>2, <1>3, <1>4, <1>5, <1>6, <1>7, <1>8, <1>9, StepCases, Zenon
  DEF basic_sched_dispatch

\* An item that is not queued may change its state: the lists are not touched.
LEMMA ListStable ==
  ASSUME TypeOK, ListInv, NEW i \in Item, NEW v, st[i] # "queued",
         st' = [st EXCEPT ![i] = v], UNCHANGED io_work_list
  PROVE  ListInv'
<1>1. ASSUME NEW a \in Acct, NEW j \in elems(io_work_list[a])
      PROVE  st'[j] = "queued" /\ AcctOf[j] = a
  <2>1. j \in Item /\ st[j] = "queued" /\ AcctOf[j] = a
    BY ElemsIn, Items DEF TypeOK, ListInv
  <2> QED
    BY <2>1 DEF TypeOK
<1> QED
  BY <1>1 DEF ListInv

\* A new io_work joins the list of its account and no other.
LEMMA ListEnqueue ==
  ASSUME TypeOK, ListInv, NEW i \in Work, st[i] = "free", add_io_work_to_acct(i)
  PROVE  ListInv'
<1> DEFINE a == AcctOf[i]
<1>1. a \in Acct /\ i \in Item
  BY Items
<1>2. i \notin elems(io_work_list[a])
  BY <1>1 DEF ListInv
<1>3. /\ io_work_list[a] \in Seq(Work)
      /\ io_work_list'[a] = Append(io_work_list[a], i)
      /\ \A c \in Acct : c # a => io_work_list'[c] = io_work_list[c]
  BY <1>1 DEF TypeOK, add_io_work_to_acct
<1>4. /\ elems(io_work_list'[a]) = elems(io_work_list[a]) \cup {i}
      /\ distinct(io_work_list'[a])
  BY <1>1, <1>2, <1>3, AppendList DEF ListInv
<1>5. ASSUME NEW c \in Acct, NEW j \in elems(io_work_list[c])
      PROVE  st'[j] = "queued"
  <2>1. j \in Item /\ st[j] = "queued"
    BY ElemsIn, Items DEF TypeOK, ListInv
  <2> QED
    BY <1>1, <2>1 DEF TypeOK, add_io_work_to_acct
<1>6. st'[i] = "queued"
  BY <1>1 DEF TypeOK, add_io_work_to_acct
<1>7. ASSUME NEW c \in Acct
      PROVE  /\ distinct(io_work_list'[c])
             /\ \A j \in elems(io_work_list'[c]) : st'[j] = "queued" /\ AcctOf[j] = c
  <2>1. CASE c = a
    BY <1>1, <1>4, <1>5, <1>6, <2>1 DEF ListInv
  <2>2. CASE c # a
    BY <1>3, <1>5, <2>2 DEF ListInv
  <2> QED
    BY <2>1, <2>2
<1> QED
  BY <1>7 DEF ListInv

\* select_io_work takes the first io_work off the list of min_acct.
LEMMA ListSelect ==
  ASSUME TypeOK, QueueInv, select_move
  PROVE  ListInv'
<1> DEFINE s == io_work_list[min_acct]
           i == Head(s)
<1>1. min_acct \in Acct /\ s # <<>> /\ s \in Seq(Work)
  BY DEF select_move, QueueInv, ActiveInv, acct_no_pending_io, TypeOK
<1>2. /\ i \in Item /\ i \in elems(s) /\ elems(Tail(s)) \subseteq elems(s)
      /\ distinct(Tail(s)) /\ i \notin elems(Tail(s))
  BY <1>1, TailList, Items DEF QueueInv, ListInv
<1>3. /\ io_work_list'[min_acct] = Tail(s)
      /\ \A c \in Acct : c # min_acct => io_work_list'[c] = io_work_list[c]
  BY <1>1 DEF TypeOK, select_move
<1>4. \A j \in Item : j # i => st'[j] = st[j]
  BY <1>2 DEF TypeOK, select_move
<1>5. AcctOf[i] = min_acct
  BY <1>1, <1>2 DEF QueueInv, ListInv
<1>6. ASSUME NEW c \in Acct
      PROVE  /\ distinct(io_work_list'[c])
             /\ \A j \in elems(io_work_list'[c]) : st'[j] = "queued" /\ AcctOf[j] = c
  <2>1. \A j \in elems(io_work_list[c]) :
           j \in Item /\ st[j] = "queued" /\ AcctOf[j] = c
    BY ElemsIn, Items DEF TypeOK, QueueInv, ListInv
  <2>2. CASE c = min_acct
    BY <1>2, <1>3, <1>4, <2>1, <2>2
  <2>3. CASE c # min_acct
    BY <1>3, <1>4, <1>5, <2>1, <2>3 DEF QueueInv, ListInv
  <2> QED
    BY <2>2, <2>3
<1> QED
  BY <1>6 DEF ListInv

\* Every step keeps the lists of io_work in order.
LEMMA ListStep ==
  ASSUME TypeOK, QueueInv, SelectedInv, [Next]_vars
  PROVE  ListInv'
<1> USE DEF vars, sched, gate, desc, local
<1>0. ListInv
  BY DEF QueueInv
<1>1. ASSUME UNCHANGED <<io_work_list, st>> PROVE ListInv'
  BY <1>0, <1>1 DEF ListInv
<1>2. ASSUME NEW i \in Syscall, block(i) \/ pass(i) PROVE ListInv'
  <2>1. CASE block(i)
    BY <1>0, <2>1, ListEnqueue, Items DEF block
  <2>2. CASE pass(i)
    <3>1. /\ i \in Item /\ st[i] # "queued" /\ st' = [st EXCEPT ![i] = "issued"]
          /\ UNCHANGED io_work_list
      BY <2>2, Items DEF pass
    <3> QED
      BY <1>0, <3>1, ListStable, Zenon
  <2> QED
    BY <1>2, <2>1, <2>2
<1>3. ASSUME NEW i \in Item, finishes(i) \/ mkdir_emlink(i) PROVE ListInv'
  <2>1. st[i] # "queued" /\ st' = [st EXCEPT ![i] = "free"] /\ UNCHANGED io_work_list
    BY <1>3 DEF finishes, finish, mkdir_emlink
  <2> QED
    BY <1>0, <2>1, ListStable, Zenon
<1>4. ASSUME NEW i \in Syscall, syscall_return(i) \/ mkdir_emlink(i) PROVE ListInv'
  BY <1>3, <1>4, ReturnCases, Items
<1>5. ASSUME NEW r \in Request, basic_sched_add_request(r) PROVE ListInv'
  <2>1. CASE r \in Read /\ st[r] = "free" /\ add_io_work_to_acct(r)
    BY <1>0, <2>1, ListEnqueue, Items
  <2>2. CASE st[r] = "free" /\ st' = [st EXCEPT ![r] = "issued"] /\ UNCHANGED io_work_list
    <3>1. r \in Item /\ st[r] # "queued"
      BY <2>2, Items
    <3> QED
      BY <1>0, <2>2, <3>1, ListStable, Zenon
  <2> QED
    BY <1>5, <2>1, <2>2 DEF basic_sched_add_request, add_write_request, add_read_request
<1>6. ASSUME NEW r \in Request, basic_sched_complte_request(r) PROVE ListInv'
  BY <1>3, <1>6, Items DEF basic_sched_complte_request, finishes
<1>7. CASE basic_sched_dispatch
  <2>1. CASE select_move
    BY <2>1, ListSelect
  <2>2. CASE submit_one
    <3>1. selected \in Seq(Work) /\ selected # <<>>
      BY <2>2 DEF submit_one, TypeOK
    <3>2. Head(selected) \in Item /\ st[Head(selected)] = "selected"
      BY <3>1, TailList, Items DEF SelectedInv
    <3>3. st' = [st EXCEPT ![Head(selected)] = "issued"] /\ UNCHANGED io_work_list
      BY <2>2 DEF submit_one
    <3> QED
      BY <1>0, <3>2, <3>3, ListStable, Zenon
  <2>3. CASE \/ want_dispatch_read \/ dispatch_decline \/ select_start \/ select_acct
             \/ select_complete \/ submit_close \/ submit_arm
    BY <1>1, <2>3 DEF want_dispatch_read, dispatch_decline, select_start, select_acct,
                      select_complete, submit_close, submit_arm
  <2> QED
    BY <1>7, <2>1, <2>2, <2>3 DEF basic_sched_dispatch
<1>8. CASE \/ sched_thread_func \/ timer_expire \/ new_batch_wait_timer_func
           \/ slice_end \/ stray_return \/ quiet
  BY <1>1, <1>8 DEF sched_thread_func, timer_expire, new_batch_wait_timer_func, slice_end,
                    stray_return, quiet
<1> QED
  BY <1>2, <1>4, <1>5, <1>6, <1>7, <1>8, StepCases, Zenon

\* Every step keeps active_acct_list in step with the lists, and the account
\* whose work is being moved to the batch has work.
LEMMA ActiveStep ==
  ASSUME TypeOK, QueueInv, [Next]_vars
  PROVE  ActiveInv'
<1> USE DEF vars, sched, gate, desc, local, acct_no_pending_io
<1>0. ActiveInv
  BY DEF QueueInv
<1>1. ASSUME UNCHANGED <<io_work_list, active>>, dp' = "move" => min_acct' \in active
      PROVE  ActiveInv'
  BY <1>0, <1>1 DEF ActiveInv
<1>2. ASSUME NEW i \in Work, add_io_work_to_acct(i), dp' # "move"
      PROVE  ActiveInv'
  <2> DEFINE a == AcctOf[i]
  <2>1. a \in Acct /\ io_work_list[a] \in Seq(Work)
    BY Items DEF TypeOK
  <2>2. /\ io_work_list'[a] # <<>>
        /\ \A c \in Acct : c # a => io_work_list'[c] = io_work_list[c]
    <3>1. io_work_list' = [io_work_list EXCEPT ![a] = Append(io_work_list[a], i)]
      BY <1>2 DEF add_io_work_to_acct
    <3>2. Append(io_work_list[a], i) # <<>>
      BY <2>1, AppendList
    <3> QED
      BY <2>1, <3>1, <3>2, Zenon DEF TypeOK
  <2>3. active' = active \cup {a}
    BY <1>0, <1>2, <2>1 DEF add_io_work_to_acct, ActiveInv
  <2> QED
    BY <1>0, <1>2, <2>1, <2>2, <2>3, Zenon DEF ActiveInv
<1>3. ASSUME NEW i \in Syscall, block(i) \/ pass(i) PROVE ActiveInv'
  <2>1. CASE block(i)
    BY <1>2, <2>1, Items DEF block, run_queue
  <2>2. CASE pass(i)
    <3>1. UNCHANGED <<io_work_list, active, dp, min_acct>>
      BY <2>2 DEF pass
    <3>2. dp' = "move" => min_acct' \in active
      BY <1>0, <3>1, Zenon DEF ActiveInv
    <3> QED
      BY <1>1, <3>1, <3>2
  <2> QED
    BY <1>3, <2>1, <2>2
<1>4. ASSUME NEW i \in Syscall, syscall_return(i) \/ mkdir_emlink(i) PROVE ActiveInv'
  BY <1>0, <1>1, <1>4 DEF syscall_return, finish, mkdir_emlink, ActiveInv
<1>5. ASSUME NEW r \in Request, basic_sched_add_request(r) PROVE ActiveInv'
  <2>1. CASE r \in Read /\ add_io_work_to_acct(r) /\ dp = "idle" /\ UNCHANGED dp
    BY <1>2, <2>1, Items
  <2>2. CASE dp = "idle" /\ UNCHANGED <<io_work_list, active, dp>>
    BY <1>1, <2>2
  <2> QED
    BY <1>5, <2>1, <2>2 DEF basic_sched_add_request, add_write_request, add_read_request
<1>6. ASSUME NEW r \in Request, basic_sched_complte_request(r) PROVE ActiveInv'
  BY <1>1, <1>6 DEF basic_sched_complte_request, finish
<1>7. CASE select_start
  <2>1. /\ UNCHANGED <<io_work_list, active>>
        /\ dp' = "move" => min_acct' = last_served /\ slice
                           /\ io_work_list[last_served] # <<>>
    BY <1>7 DEF select_start
  <2>2. dp' = "move" => min_acct' \in active
    BY <1>0, <2>1 DEF ActiveInv, QueueInv, SliceInv
  <2> QED
    BY <1>1, <2>1, <2>2
<1>8. CASE select_acct
  BY <1>1, <1>8 DEF select_acct
<1>9. CASE select_move
  <2>1. min_acct \in Acct
    BY <1>0, <1>9 DEF select_move, ActiveInv
  <2>2. /\ io_work_list'[min_acct] = Tail(io_work_list[min_acct])
        /\ \A c \in Acct : c # min_acct => io_work_list'[c] = io_work_list[c]
    BY <1>9, <2>1 DEF TypeOK, select_move
  <2>3. active' = {c \in Acct : ~acct_no_pending_io(c)}'
    BY <1>0, <1>9, <2>1, <2>2, Zenon DEF select_move, ActiveInv
  <2>4. dp' = "move" => min_acct' = min_acct /\ Tail(io_work_list[min_acct]) # <<>>
    BY <1>9 DEF select_move
  <2> QED
    BY <2>1, <2>2, <2>3, <2>4, Zenon DEF ActiveInv
<1>10. CASE \/ want_dispatch_read \/ dispatch_decline \/ select_complete
            \/ submit_one \/ submit_close \/ submit_arm
  BY <1>1, <1>10 DEF want_dispatch_read, dispatch_decline, select_complete, submit_one,
                     submit_close, submit_arm
<1>11. CASE \/ sched_thread_func \/ timer_expire \/ new_batch_wait_timer_func
            \/ slice_end \/ stray_return \/ quiet
  BY <1>0, <1>1, <1>11, Zenon DEF ActiveInv, sched_thread_func, timer_expire,
                           new_batch_wait_timer_func, slice_end, stray_return, quiet
<1> QED
  BY <1>3, <1>4, <1>5, <1>6, <1>7, <1>8, <1>9, <1>10, <1>11, StepCases, Zenon
  DEF basic_sched_dispatch

\* An item that is not selected may change its state, as long as it does not
\* become selected.
LEMMA SelectedStable ==
  ASSUME TypeOK, SelectedInv, NEW i \in Item, NEW v, st[i] # "selected",
         st' = [st EXCEPT ![i] = v], UNCHANGED selected,
         \/ dp = "idle" /\ dp' \in {"idle", "want"}
         \/ UNCHANGED <<dp, active>>
  PROVE  SelectedInv'
<1>1. ASSUME NEW j \in elems(selected) PROVE st'[j] = "selected"
  <2>1. j \in Item /\ st[j] = "selected"
    BY ElemsIn, Items DEF TypeOK, SelectedInv
  <2> QED
    BY <2>1 DEF TypeOK
<1> QED
  BY <1>1 DEF SelectedInv

\* Every step keeps work_selected in order: it is filled by select_io_work
\* and emptied by submit_io_work, and nobody else touches what is on it.
LEMMA SelectedStep ==
  ASSUME TypeOK, QueueInv, SelectedInv, [Next]_vars
  PROVE  SelectedInv'
<1> USE DEF vars, sched, gate, desc, local
<1>1. ASSUME NEW i \in Syscall, block(i) \/ pass(i) PROVE SelectedInv'
  <2>1. CASE block(i)
    BY <2>1, SelectedStable, Items, Zenon DEF block, run_queue, add_io_work_to_acct
  <2>2. CASE pass(i)
    BY <2>2, SelectedStable, Items, Zenon DEF pass
  <2> QED
    BY <1>1, <2>1, <2>2
<1>2. ASSUME NEW i \in Item, finishes(i) \/ mkdir_emlink(i) PROVE SelectedInv'
  BY <1>2, SelectedStable, Zenon DEF finishes, finish, mkdir_emlink
<1>3. ASSUME NEW i \in Syscall, syscall_return(i) \/ mkdir_emlink(i) PROVE SelectedInv'
  BY <1>2, <1>3, ReturnCases, Items
<1>4. ASSUME NEW r \in Request, basic_sched_add_request(r) PROVE SelectedInv'
  <2>1. /\ r \in Item /\ st[r] = "free" /\ dp = "idle" /\ UNCHANGED <<selected, dp>>
        /\ st' = [st EXCEPT ![r] = "queued"] \/ st' = [st EXCEPT ![r] = "issued"]
    BY <1>4, Items DEF basic_sched_add_request, add_write_request, add_read_request,
                       add_io_work_to_acct
  <2> QED
    BY <2>1, SelectedStable
<1>5. ASSUME NEW r \in Request, basic_sched_complte_request(r) PROVE SelectedInv'
  BY <1>2, <1>5, Items DEF basic_sched_complte_request, finishes
<1>6. CASE select_start \/ select_acct \/ select_complete
  BY <1>6 DEF select_start, select_acct, select_complete, SelectedInv
<1>7. CASE select_move
  <2> DEFINE s == io_work_list[min_acct]
             i == Head(s)
  <2>1. min_acct \in Acct /\ s # <<>> /\ s \in Seq(Work)
    BY <1>7 DEF select_move, QueueInv, ActiveInv, acct_no_pending_io, TypeOK
  <2>2. i \in Work /\ i \in Item /\ st[i] = "queued"
    BY <2>1, TailList, Items, ZenonT(30) DEF QueueInv, ListInv
  <2>3. selected \in Seq(Work) /\ i \notin elems(selected)
    BY <2>2 DEF TypeOK, SelectedInv
  <2>4. /\ selected' # <<>> /\ distinct(selected')
        /\ elems(selected') = elems(selected) \cup {i}
    <3>1. selected' = Append(selected, i) /\ distinct(selected)
      BY <1>7 DEF select_move, SelectedInv
    <3> QED
      BY <2>2, <2>3, <3>1, AppendList
  <2>5. ASSUME NEW j \in elems(selected') PROVE st'[j] = "selected"
    <3>1. j = i \/ (j \in Item /\ st[j] = "selected")
      BY <2>3, <2>4, ElemsIn, Items DEF SelectedInv
    <3> QED
      BY <1>7, <2>2, <3>1 DEF TypeOK, select_move
  <2>6. dp' \in {"move", "submit", "choose"}
    BY <1>7 DEF select_move
  <2> QED
    BY <2>4, <2>5, <2>6 DEF SelectedInv
<1>8. CASE submit_one
  <2> DEFINE i == Head(selected)
  <2>1. selected \in Seq(Work) /\ selected # <<>>
    BY <1>8 DEF submit_one, TypeOK
  <2>2. /\ i \in Item /\ selected' = Tail(selected)
        /\ elems(selected') \subseteq elems(selected)
        /\ distinct(selected') /\ i \notin elems(selected')
    BY <1>8, <2>1, TailList, Items DEF submit_one, SelectedInv
  <2>3. ASSUME NEW j \in elems(selected') PROVE st'[j] = "selected"
    <3>1. j # i /\ j \in Item /\ st[j] = "selected"
      BY <2>1, <2>2, ElemsIn, Items DEF SelectedInv
    <3> QED
      BY <1>8, <2>2, <3>1 DEF TypeOK, submit_one
  <2> QED
    BY <1>8, <2>2, <2>3 DEF SelectedInv, submit_one
<1>9. CASE want_dispatch_read \/ dispatch_decline \/ submit_close \/ submit_arm
  BY <1>9 DEF want_dispatch_read, dispatch_decline, submit_close, submit_arm, SelectedInv
<1>10. CASE \/ sched_thread_func \/ timer_expire \/ new_batch_wait_timer_func
            \/ slice_end \/ stray_return \/ quiet
  BY <1>10 DEF sched_thread_func, timer_expire, new_batch_wait_timer_func,
               slice_end, stray_return, quiet, SelectedInv
<1> QED
  BY <1>1, <1>3, <1>4, <1>5, <1>6, <1>7, <1>8, <1>9, <1>10, StepCases, Zenon
  DEF basic_sched_dispatch

=============================================================================
