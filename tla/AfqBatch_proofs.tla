-------------------------- MODULE AfqBatch_proofs --------------------------
(***************************************************************************)
(* Proofs about the batch protocol of the AFQ scheduler, for any number of *)
(* accounts, calls, requests and batches and any batch sizes.              *)
(***************************************************************************)
EXTENDS AfqQueue_proofs

(***************************************************************************)
(* The batches.                                                            *)
(***************************************************************************)

\* The members of a batch are finitely many.
LEMMA MembersFinite ==
  ASSUME NEW b
  PROVE  /\ IsFiniteSet(members(b)) /\ Cardinality(members(b)) \in Nat
         /\ Cardinality(members(b)) = 0 <=> members(b) = {}
<1>1. members(b) \subseteq Item /\ IsFiniteSet(Item)
  BY ConstAssumption DEF members
<1>2. IsFiniteSet(members(b))
  BY <1>1, FS_Subset
<1> QED
  BY <1>2, FS_CardinalityType, FS_EmptySet

\* A step that changes no batch, and the state only of an item outside any
\* batch, keeps the batch invariant if the dispatcher keeps its own part.
LEMMA BatchStable ==
  ASSUME TypeOK, BatchInv, UNCHANGED <<owner, live, one_loop_work, lost, cur, selected>>,
         \/ UNCHANGED st
         \/ \E i \in Item : owner[i] = NoOne /\ \E v : st' = [st EXCEPT ![i] = v],
         keep_wait' # ALLOW_NEW_BATCH => keep_wait # ALLOW_NEW_BATCH /\ closer' = closer,
         \/ UNCHANGED dp
         \/ dp \in {"idle", "want", "check"} /\ dp' \in {"idle", "want", "check"}
         \/ dp \in {"choose", "move"} /\ dp' \in {"choose", "move"}
         \/ dp \in {"choose", "move"} /\ dp' = "submit" /\ selected # <<>>
  PROVE  BatchInv'
<1>1. \A b : members(b)' = members(b)
  BY DEF members
<1>2. OwnerIsLive'
  BY DEF BatchInv, OwnerIsLive, TypeOK
<1>3. \A b : outstanding(b)' <=> outstanding(b)
  BY <1>1 DEF outstanding
<1>4. LoopWorkExact' /\ NoBatchLeak' /\ ClosedMeansBusy' /\ LostInv'
  BY <1>1, <1>3 DEF BatchInv, LoopWorkExact, NoBatchLeak, ClosedMeansBusy, LostInv
<1>5. CurInv'
  BY <1>3 DEF BatchInv, CurInv
<1> QED
  BY <1>2, <1>4, <1>5 DEF BatchInv

\* dec_check_cleanup_batch for a member of a batch: the count follows, the batch
\* is freed with its last member, not before, and the gate that it has closed is
\* reopened with it or left to the timer.
LEMMA BatchFinish ==
  ASSUME TypeOK, BatchInv, NEW i \in Item, finishes(i), owner[i] # NoOne, dp = "idle"
  PROVE  BatchInv'
<1> USE DEF sched, local
<1>0. PICK b \in Batch : b = owner[i]
  BY DEF TypeOK
<1>1. /\ b \in live /\ cur = NoOne /\ i \in members(b) /\ b # NoOne
      /\ UNCHANGED <<dp, cur, selected, lost>>
  BY <1>0, ConstAssumption DEF finishes, finish, TypeOK, BatchInv, OwnerIsLive, CurInv,
                               members
<1>2. st' = [st EXCEPT ![i] = "free"] /\ owner' = [owner EXCEPT ![i] = NoOne]
  BY DEF finishes, finish
<1>3. /\ members(b)' = members(b) \ {i}
      /\ \A c \in Batch : c # b => members(c)' = members(c)
  BY <1>0, <1>1, <1>2, ConstAssumption DEF members, TypeOK
<1>4. /\ Cardinality(members(b)) \in Nat
      /\ Cardinality(members(b)') = Cardinality(members(b)) - 1
      /\ Cardinality(members(b)') \in Nat
      /\ Cardinality(members(b)') = 0 <=> members(b)' = {}
  <2>1. IsFiniteSet(members(b)) /\ Cardinality(members(b)) \in Nat
    BY MembersFinite
  <2>2. /\ IsFiniteSet(members(b) \ {i})
        /\ Cardinality(members(b) \ {i}) = Cardinality(members(b)) - 1
    BY <1>1, <2>1, FS_RemoveElement
  <2>3. /\ Cardinality(members(b) \ {i}) = 0 <=> members(b) \ {i} = {}
        /\ Cardinality(members(b) \ {i}) \in Nat
    BY <2>2, FS_EmptySet, FS_CardinalityType, Zenon
  <2> QED
    BY <1>3, <2>1, <2>2, <2>3
<1>5. /\ one_loop_work[b] = Cardinality(members(b)) + lost[b]
      /\ one_loop_work[b] \in Int /\ lost[b] \in Nat
  BY <1>1 DEF BatchInv, LoopWorkExact, TypeOK
<1>6. one_loop_work' = [one_loop_work EXCEPT ![b] = one_loop_work[b] - 1]
  BY <1>0, <1>1, Zenon DEF finishes, finish, dec_check_cleanup_batch
<1>7. /\ one_loop_work'[b] = one_loop_work[b] - 1
      /\ \A c \in Batch : c # b => one_loop_work'[c] = one_loop_work[c]
  BY <1>6 DEF TypeOK
<1>8. \/ one_loop_work[b] # 1 /\ UNCHANGED <<keep_wait, closer, live>>
      \/ /\ one_loop_work[b] = 1 /\ live' = live \ {b}
         /\ \/ keep_wait' = ALLOW_NEW_BATCH
            \/ /\ keep_wait' = keep_wait
               /\ closer' = IF closer = b THEN NoOne ELSE closer
  BY <1>0, <1>1, Zenon DEF finishes, finish, dec_check_cleanup_batch
<1>9. live' \subseteq live /\ live \subseteq Batch
  BY <1>8 DEF TypeOK
<1>10. /\ one_loop_work[b] = 1 => members(b)' = {} /\ lost[b] = 0
       /\ one_loop_work[b] # 1 => outstanding(b)'
  BY <1>1, <1>4, <1>5 DEF outstanding
<1>11. \A c \in Batch : c # b => (outstanding(c)' <=> outstanding(c))
  BY <1>1, <1>3 DEF outstanding
<1>12. OwnerIsLive'
  <2>1. ASSUME NEW j \in Item, owner'[j] # NoOne
        PROVE  owner'[j] \in live' /\ st'[j] = "issued"
    <3>1. j # i /\ owner'[j] = owner[j] /\ st'[j] = st[j]
      BY <1>2, <2>1 DEF TypeOK
    <3>2. owner[j] \in live /\ st[j] = "issued"
      BY <2>1, <3>1 DEF BatchInv, OwnerIsLive
    <3>3. owner[j] = b => members(b)' # {}
      BY <1>3, <3>1, Zenon DEF members
    <3> QED
      BY <1>8, <1>10, <3>1, <3>2, <3>3
  <2> QED
    BY <2>1 DEF OwnerIsLive
<1>13. LoopWorkExact'
  <2>1. ASSUME NEW c \in live' PROVE one_loop_work'[c] = Cardinality(members(c)') + lost'[c]
    <3>1. CASE c = b
      BY <1>1, <1>4, <1>5, <1>7, <3>1
    <3>2. CASE c # b
      BY <1>1, <1>3, <1>7, <1>9, <3>2 DEF BatchInv, LoopWorkExact
    <3> QED
      BY <3>1, <3>2
  <2> QED
    BY <2>1 DEF LoopWorkExact
<1>14. NoBatchLeak'
  BY <1>1, <1>8, <1>9, <1>10, <1>11 DEF BatchInv, NoBatchLeak
<1>15. ClosedMeansBusy'
  <2> SUFFICES ASSUME keep_wait' # ALLOW_NEW_BATCH, closer' # NoOne
               PROVE  closer' \in live' /\ outstanding(closer)'
    BY DEF ClosedMeansBusy
  <2>1. keep_wait' = keep_wait /\ closer' = closer /\ (closer = b => one_loop_work[b] # 1)
    BY <1>8
  <2>2. closer \in live /\ outstanding(closer) /\ closer \in Batch
    BY <1>9, <2>1 DEF BatchInv, ClosedMeansBusy
  <2>3. closer \in live'
    BY <1>8, <2>1, <2>2
  <2>4. outstanding(closer)'
    BY <1>10, <1>11, <2>1, <2>2 DEF outstanding
  <2> QED
    BY <2>1, <2>3, <2>4
<1>16. CurInv'
  BY <1>1 DEF BatchInv, CurInv
<1>17. LostInv'
  BY <1>1, <1>8, <1>10 DEF BatchInv, LostInv
<1> QED
  BY <1>12, <1>13, <1>14, <1>15, <1>16, <1>17 DEF BatchInv

\* A mkdir that fails with -EMLINK leaves the count as it is: it moves from the
\* members to the lost ones.
LEMMA BatchEmlink ==
  ASSUME TypeOK, BatchInv, NEW i \in Item, mkdir_emlink(i), owner[i] # NoOne
  PROVE  BatchInv'
<1> USE DEF sched, gate, local
<1>0. PICK b \in Batch : b = owner[i]
  BY DEF TypeOK
<1>1. /\ b \in live /\ i \in members(b) /\ b # NoOne
      /\ UNCHANGED <<dp, cur, selected, keep_wait, closer, live, one_loop_work>>
      /\ st' = [st EXCEPT ![i] = "free"] /\ owner' = [owner EXCEPT ![i] = NoOne]
      /\ lost' = [lost EXCEPT ![b] = lost[b] + 1]
  BY <1>0, Zenon DEF mkdir_emlink, BatchInv, OwnerIsLive, members
<1>2. /\ members(b)' = members(b) \ {i}
      /\ \A c \in Batch : c # b => members(c)' = members(c)
  BY <1>0, <1>1, ConstAssumption DEF members, TypeOK
<1>3. /\ Cardinality(members(b)) \in Nat
      /\ Cardinality(members(b)') = Cardinality(members(b)) - 1
  <2>1. IsFiniteSet(members(b)) /\ Cardinality(members(b)) \in Nat
    BY MembersFinite
  <2> QED
    BY <1>1, <1>2, <2>1, FS_RemoveElement
<1>4. /\ lost'[b] = lost[b] + 1 /\ lost[b] \in Nat
      /\ \A c \in Batch : c # b => lost'[c] = lost[c]
  BY <1>1 DEF TypeOK
<1>5. \A c \in Batch : outstanding(c) => outstanding(c)'
  BY <1>2, <1>4 DEF outstanding
<1>6. live \subseteq Batch /\ cur \in Batch \cup {NoOne} /\ closer \in Batch \cup {NoOne}
  BY DEF TypeOK
<1>7. OwnerIsLive'
  <2>1. ASSUME NEW j \in Item, owner'[j] # NoOne
        PROVE  owner'[j] \in live' /\ st'[j] = "issued"
    <3>1. j # i /\ owner'[j] = owner[j] /\ st'[j] = st[j]
      BY <1>1, <2>1 DEF TypeOK
    <3> QED
      BY <1>1, <2>1, <3>1 DEF BatchInv, OwnerIsLive
  <2> QED
    BY <2>1 DEF OwnerIsLive
<1>8. LoopWorkExact'
  <2>1. ASSUME NEW c \in live PROVE one_loop_work'[c] = Cardinality(members(c)') + lost'[c]
    <3>1. one_loop_work'[c] = Cardinality(members(c)) + lost[c]
      BY <1>1 DEF BatchInv, LoopWorkExact
    <3>2. CASE c = b
      BY <1>3, <1>4, <3>1, <3>2
    <3>3. CASE c # b
      BY <1>2, <1>4, <1>6, <3>1, <3>3
    <3> QED
      BY <3>2, <3>3
  <2> QED
    BY <1>1, <2>1 DEF LoopWorkExact
<1>9. NoBatchLeak'
  BY <1>1, <1>5, <1>6 DEF BatchInv, NoBatchLeak
<1>10. ClosedMeansBusy'
  <2>1. closer # NoOne /\ outstanding(closer) => outstanding(closer)'
    BY <1>1, <1>5, <1>6 DEF outstanding
  <2> QED
    BY <1>1, <2>1 DEF BatchInv, ClosedMeansBusy
<1>11. CurInv'
  <2>1. cur # NoOne /\ outstanding(cur) => outstanding(cur)'
    BY <1>1, <1>5, <1>6 DEF outstanding
  <2> QED
    BY <1>1, <2>1 DEF BatchInv, CurInv
<1>12. LostInv'
  BY <1>1, <1>4 DEF BatchInv, LostInv
<1> QED
  BY <1>7, <1>8, <1>9, <1>10, <1>11, <1>12 DEF BatchInv

\* select_io_work allocates a batch: nobody points to it yet.
LEMMA BatchStart ==
  ASSUME TypeOK, BatchInv, select_start
  PROVE  BatchInv'
<1> USE DEF sched, gate
<1>1. PICK b \in Batch \ live :
        /\ cur' = b /\ live' = live \cup {b}
        /\ one_loop_work' = [one_loop_work EXCEPT ![b] = 0]
  BY Zenon DEF select_start
<1>2. /\ dp = "check" /\ dp' \in {"move", "choose"} /\ cur = NoOne /\ b # NoOne
      /\ UNCHANGED <<st, owner, lost, keep_wait, closer>>
  BY ConstAssumption DEF select_start, BatchInv, CurInv
<1>3. \A c : members(c)' = members(c)
  BY <1>2 DEF members
<1>4. /\ members(b) = {} /\ lost[b] = 0
      /\ \A c : outstanding(c)' <=> outstanding(c)
  BY <1>1, <1>2, <1>3 DEF BatchInv, OwnerIsLive, LostInv, members, outstanding
<1>5. OwnerIsLive' /\ ClosedMeansBusy' /\ LostInv'
  BY <1>1, <1>2, <1>4 DEF BatchInv, OwnerIsLive, ClosedMeansBusy, LostInv
<1>6. NoBatchLeak'
  <2>1. NoOne \notin live
    BY Items DEF TypeOK
  <2> QED
    BY <1>1, <1>2, <1>4, <2>1 DEF BatchInv, NoBatchLeak
<1>7. LoopWorkExact'
  <2>1. Cardinality(members(b)) = 0
    BY <1>4, FS_EmptySet
  <2>2. ASSUME NEW c \in live' PROVE one_loop_work'[c] = Cardinality(members(c)') + lost'[c]
    <3>1. CASE c = b
      <4>1. one_loop_work'[b] = 0
        BY <1>1 DEF TypeOK
      <4>2. Cardinality(members(b)') = 0 /\ lost'[b] = 0
        BY <1>2, <1>3, <1>4, <2>1
      <4> QED
        BY <3>1, <4>1, <4>2
    <3>2. CASE c # b
      BY <1>1, <1>2, <1>3, <3>2 DEF TypeOK, BatchInv, LoopWorkExact
    <3> QED
      BY <3>1, <3>2
  <2> QED
    BY <2>2 DEF LoopWorkExact
<1>8. CurInv'
  BY <1>1, <1>2 DEF CurInv
<1> QED
  BY <1>5, <1>6, <1>7, <1>8 DEF BatchInv

\* submit_io_work issues one member: it is counted in the batch, once.
LEMMA BatchSubmit ==
  ASSUME TypeOK, SelectedInv, BatchInv, submit_one
  PROVE  BatchInv'
<1> USE DEF sched, gate
<1>1. PICK i, b : i = Head(selected) /\ b = cur
  OBVIOUS
<1>2. i \in Item /\ st[i] = "selected"
  BY <1>1, TailList, Items DEF submit_one, SelectedInv, TypeOK
<1>3. /\ dp = "submit" /\ UNCHANGED <<dp, cur, live, lost, keep_wait, closer>>
      /\ b \in live /\ b \in Batch /\ b # NoOne
  BY <1>1, ConstAssumption DEF submit_one, BatchInv, CurInv, TypeOK
<1>4. owner[i] = NoOne
  BY <1>2 DEF BatchInv, OwnerIsLive
<1>5. /\ owner' = [owner EXCEPT ![i] = b] /\ st' = [st EXCEPT ![i] = "issued"]
      /\ one_loop_work' = [one_loop_work EXCEPT ![b] = one_loop_work[b] + 1]
  BY <1>1 DEF submit_one
<1>6. /\ members(b)' = members(b) \cup {i} /\ i \notin members(b)
      /\ \A c \in Batch : c # b => members(c)' = members(c)
  <2>1. /\ owner'[i] = b
        /\ \A j \in Item : j # i => owner'[j] = owner[j]
    BY <1>2, <1>3, <1>5 DEF TypeOK
  <2>2. \A c \in Batch : c # NoOne
    BY Items
  <2> QED
    BY <1>2, <1>3, <1>4, <2>1, <2>2 DEF members
<1>7. /\ Cardinality(members(b)') = Cardinality(members(b)) + 1
      /\ Cardinality(members(b)) \in Nat
  <2>1. IsFiniteSet(members(b)) /\ Cardinality(members(b)) \in Nat
    BY MembersFinite
  <2>2. Cardinality(members(b) \cup {i}) = Cardinality(members(b)) + 1
    BY <1>6, <2>1, FS_AddElement
  <2> QED
    BY <1>6, <2>1, <2>2
<1>8. OwnerIsLive'
  BY <1>2, <1>3, <1>5 DEF BatchInv, OwnerIsLive, TypeOK
<1>9. LoopWorkExact'
  <2>1. ASSUME NEW c \in live PROVE one_loop_work'[c] = Cardinality(members(c)') + lost'[c]
    <3>1. /\ c \in Batch /\ one_loop_work[c] = Cardinality(members(c)) + lost'[c]
          /\ lost'[c] \in Nat
      BY <1>3 DEF BatchInv, LoopWorkExact, TypeOK
    <3>2. CASE c = b
      BY <1>3, <1>5, <1>7, <3>1, <3>2 DEF TypeOK
    <3>3. CASE c # b
      BY <1>3, <1>5, <1>6, <3>1, <3>3 DEF TypeOK
    <3> QED
      BY <3>2, <3>3
  <2> QED
    BY <1>3, <2>1 DEF LoopWorkExact
<1>10. NoBatchLeak' /\ ClosedMeansBusy' /\ LostInv'
  <2>1. ASSUME NEW c \in live, outstanding(c) PROVE outstanding(c)'
    <3>1. c \in Batch
      BY DEF TypeOK
    <3> QED
      BY <1>3, <1>6, <2>1, <3>1 DEF outstanding
  <2>2. NoBatchLeak' /\ LostInv'
    BY <1>3, <2>1 DEF BatchInv, NoBatchLeak, LostInv
  <2>3. closer \in live /\ outstanding(closer) => outstanding(closer)'
    BY <1>3, <2>1 DEF outstanding
  <2> QED
    BY <1>3, <2>2, <2>3 DEF BatchInv, ClosedMeansBusy
<1>11. CurInv'
  <2>1. outstanding(cur)'
    BY <1>1, <1>3, <1>6 DEF outstanding
  <2> QED
    BY <1>3, <2>1 DEF BatchInv, CurInv
<1> QED
  BY <1>8, <1>9, <1>10, <1>11 DEF BatchInv

\* Every step keeps the batch invariant.
LEMMA BatchStep ==
  ASSUME TypeOK, QueueInv, SelectedInv, BatchInv, [Next]_vars
  PROVE  BatchInv'
<1> USE DEF vars, sched, gate, desc, local
<1>0. \A i \in Item : st[i] # "issued" => owner[i] = NoOne
  BY Zenon DEF BatchInv, OwnerIsLive
<1>1. ASSUME NEW i \in Syscall, block(i) \/ pass(i) PROVE BatchInv'
  <2>1. i \in Item
    BY Items
  <2>2. CASE block(i)
    <3>1. owner[i] = NoOne /\ st' = [st EXCEPT ![i] = "queued"]
      BY <1>0, <2>1, <2>2 DEF block, add_io_work_to_acct
    <3> QED
      BY <2>1, <2>2, <3>1, BatchStable, Zenon DEF block, run_queue, add_io_work_to_acct
  <2>3. CASE pass(i)
    <3>1. owner[i] = NoOne /\ st' = [st EXCEPT ![i] = "issued"]
      BY <1>0, <2>1, <2>3 DEF pass
    <3> QED
      BY <2>1, <2>3, <3>1, BatchStable, Zenon DEF pass
  <2> QED
    BY <1>1, <2>2, <2>3
<1>2. ASSUME NEW i \in Item, finishes(i), owner[i] # NoOne => dp = "idle"
      PROVE  BatchInv'
  <2>1. CASE owner[i] = NoOne
    <3>1. /\ st' = [st EXCEPT ![i] = "free"]
          /\ UNCHANGED <<live, one_loop_work, lost, keep_wait, closer, dp, cur, selected>>
      BY <1>2, <2>1 DEF finishes, finish
    <3>2. UNCHANGED owner
      BY <1>2, <2>1 DEF finishes, finish, TypeOK
    <3> QED
      BY <2>1, <3>1, <3>2, BatchStable, Zenon
  <2>2. CASE owner[i] # NoOne
    BY <1>2, <2>2, BatchFinish
  <2> QED
    BY <2>1, <2>2
<1>3. ASSUME NEW i \in Syscall, syscall_return(i) \/ mkdir_emlink(i) PROVE BatchInv'
  <2>1. CASE syscall_return(i)
    BY <1>2, <2>1, ReturnCases, Items DEF syscall_return
  <2>2. CASE mkdir_emlink(i) /\ owner[i] = NoOne
    <3>1. /\ i \in Item /\ st' = [st EXCEPT ![i] = "free"]
          /\ UNCHANGED <<live, one_loop_work, lost, keep_wait, closer, dp, cur, selected>>
      BY <2>2, Items DEF mkdir_emlink
    <3>2. UNCHANGED owner
      BY <2>2, <3>1 DEF mkdir_emlink, TypeOK
    <3> QED
      BY <2>2, <3>1, <3>2, BatchStable, Zenon
  <2>3. CASE mkdir_emlink(i) /\ owner[i] # NoOne
    BY <2>3, BatchEmlink, Items
  <2> QED
    BY <1>3, <2>1, <2>2, <2>3
<1>4. ASSUME NEW r \in Request, basic_sched_add_request(r) PROVE BatchInv'
  <2>1. /\ r \in Item /\ owner[r] = NoOne
        /\ st' = [st EXCEPT ![r] = "queued"] \/ st' = [st EXCEPT ![r] = "issued"]
    BY <1>0, <1>4, Items, Zenon DEF basic_sched_add_request, add_write_request,
                             add_read_request, add_io_work_to_acct
  <2>2. UNCHANGED <<owner, live, one_loop_work, lost, cur, selected, keep_wait, closer, dp>>
    BY <1>4 DEF basic_sched_add_request, add_write_request, add_read_request,
                add_io_work_to_acct
  <2> QED
    BY <2>1, <2>2, BatchStable, Zenon
<1>5. ASSUME NEW r \in Request, basic_sched_complte_request(r) PROVE BatchInv'
  BY <1>2, <1>5, Items DEF basic_sched_complte_request, finishes
<1>6. CASE want_dispatch_read \/ dispatch_decline \/ select_acct
  BY <1>6, BatchStable DEF want_dispatch_read, dispatch_decline, select_acct
<1>7. CASE select_start
  BY <1>7, BatchStart
<1>8. CASE select_complete
  BY <1>8, BatchStable DEF select_complete
<1>9. CASE select_move
  <2>1. PICK i : i = Head(io_work_list[min_acct])
    OBVIOUS
  <2>2. i \in Item /\ st[i] = "queued"
    <3>1. min_acct \in Acct /\ io_work_list[min_acct] # <<>>
      BY <1>9 DEF select_move, QueueInv, ActiveInv, acct_no_pending_io, TypeOK
    <3> QED
      BY <2>1, <3>1, TailList, Items DEF QueueInv, ListInv, TypeOK
  <2>3. /\ UNCHANGED <<owner, live, one_loop_work, lost, cur, keep_wait, closer>>
        /\ st' = [st EXCEPT ![i] = "selected"]
        /\ selected' = Append(selected, i)
        /\ dp = "move" /\ dp' \in {"move", "choose", "submit"}
    BY <1>9, <2>1 DEF select_move
  <2>4. selected' # <<>>
    <3>1. selected \in Seq(Work)
      BY DEF TypeOK
    <3>2. selected' = Append(selected, i)
      BY <2>3
    <3> QED
      BY <3>1, <3>2
  <2>5. owner[i] = NoOne
    BY <1>0, <2>2
  <2>6. \A b : members(b)' = members(b) /\ (outstanding(b)' <=> outstanding(b))
    BY <2>3 DEF members, outstanding
  <2>7. OwnerIsLive'
    <3>1. \A j \in Item : j # i => st'[j] = st[j]
      BY <2>2, <2>3 DEF TypeOK
    <3> QED
      BY <2>3, <2>5, <3>1 DEF BatchInv, OwnerIsLive
  <2>8. LoopWorkExact' /\ NoBatchLeak' /\ ClosedMeansBusy' /\ LostInv'
    BY <2>3, <2>6 DEF BatchInv, LoopWorkExact, NoBatchLeak, ClosedMeansBusy, LostInv
  <2>9. CurInv'
    BY <2>3, <2>4 DEF BatchInv, CurInv
  <2> QED
    BY <2>7, <2>8, <2>9 DEF BatchInv
<1>10. CASE submit_one
  BY <1>10, BatchSubmit
<1>11. CASE submit_close \/ submit_arm
  <2>1. /\ cur \in live /\ outstanding(cur) /\ dp \in {"submit", "arm"}
        /\ UNCHANGED <<st, owner, live, one_loop_work, lost, selected>>
        /\ selected = <<>> /\ cur # NoOne
    BY <1>11 DEF submit_close, submit_arm, BatchInv, CurInv, SelectedInv
  <2>2. \A b : members(b)' = members(b) /\ (outstanding(b)' <=> outstanding(b))
    BY <2>1 DEF members, outstanding
  <2>3. OwnerIsLive' /\ LoopWorkExact' /\ LostInv'
    BY <2>1, <2>2 DEF BatchInv, OwnerIsLive, LoopWorkExact, LostInv
  <2>4. NoBatchLeak'
    BY <2>1, <2>2 DEF BatchInv, NoBatchLeak
  <2>5. ClosedMeansBusy'
    <3>1. closer' = cur \/ (closer' = closer /\ keep_wait' = keep_wait)
      BY <1>11 DEF submit_close, submit_arm
    <3>2. CASE closer' = cur
      BY <2>1, <2>2, <3>2 DEF ClosedMeansBusy, outstanding, members
    <3>3. CASE closer' = closer /\ keep_wait' = keep_wait
      BY <2>1, <2>2, <3>3 DEF BatchInv, ClosedMeansBusy, outstanding, members
    <3> QED
      BY <3>1, <3>2, <3>3
  <2>6. CurInv'
    BY <1>11, <2>1, <2>2 DEF submit_close, submit_arm, BatchInv, CurInv
  <2> QED
    BY <2>3, <2>4, <2>5, <2>6 DEF BatchInv
<1>12. CASE sched_thread_func \/ timer_expire \/ slice_end \/ quiet
  BY <1>12, BatchStable DEF sched_thread_func, timer_expire, slice_end, quiet
<1>13. CASE new_batch_wait_timer_func \/ stray_return
  BY <1>13, BatchStable DEF new_batch_wait_timer_func, stray_return, ALLOW_NEW_BATCH,
                            NO_NEW_BATCH, KEEP_IN_FLIGHT
<1> QED
  BY <1>1, <1>3, <1>4, <1>5, <1>6, <1>7, <1>8, <1>9, <1>10, <1>11, <1>12, <1>13,
     StepCases, Zenon DEF basic_sched_dispatch

(***************************************************************************)
(* The decision to dispatch, and the requests at the disk.                 *)
(***************************************************************************)

\* Between reading keep_wait and using it the dispatcher holds queue_lock, so
\* only the timer handler can change it, and only from NO_NEW_BATCH.
LEMMA StaleStep ==
  ASSUME TypeOK, StaleOnlyDeclines, [Next]_vars
  PROVE  StaleOnlyDeclines'
<1> USE DEF vars, sched, gate, desc, local, StaleOnlyDeclines
<1>1. ASSUME UNCHANGED <<keep_wait, seen>>, dp' = "check" => dp = "check"
      PROVE  StaleOnlyDeclines'
  BY <1>1
<1>2. ASSUME NEW i \in Syscall, block(i) \/ pass(i) PROVE StaleOnlyDeclines'
  BY <1>1, <1>2 DEF block, pass, run_queue
<1>3. ASSUME NEW i \in Syscall, syscall_return(i) \/ mkdir_emlink(i)
      PROVE  StaleOnlyDeclines'
  BY <1>1, <1>3 DEF syscall_return, finish, mkdir_emlink
<1>4. ASSUME NEW r \in Request, basic_sched_add_request(r) PROVE StaleOnlyDeclines'
  BY <1>1, <1>4 DEF basic_sched_add_request, add_write_request, add_read_request
<1>5. ASSUME NEW r \in Request, basic_sched_complte_request(r) PROVE StaleOnlyDeclines'
  BY <1>5 DEF basic_sched_complte_request, finish
<1>6. CASE want_dispatch_read
  BY <1>6 DEF want_dispatch_read
<1>7. CASE \/ dispatch_decline \/ select_start \/ select_acct \/ select_move
           \/ select_complete \/ submit_one \/ submit_close \/ submit_arm
  BY <1>7, Zenon DEF dispatch_decline, select_start, select_acct, select_move,
              select_complete, submit_one, submit_close, submit_arm
<1>8. CASE new_batch_wait_timer_func \/ stray_return
  BY <1>8 DEF new_batch_wait_timer_func, stray_return
<1>9. CASE sched_thread_func \/ timer_expire \/ slice_end \/ quiet
  BY <1>1, <1>9 DEF sched_thread_func, timer_expire, slice_end, quiet
<1> QED
  BY <1>2, <1>3, <1>4, <1>5, <1>6, <1>7, <1>8, <1>9, StepCases, Zenon
  DEF basic_sched_dispatch

\* Whoever closes the gate starts the timer before letting go of queue_lock, and
\* only the handler ends what the timer has begun.
LEMMA TimerStep ==
  ASSUME TimerBacksUp, [Next]_vars
  PROVE  TimerBacksUp'
<1> USE DEF sched, gate, desc, local, TimerBacksUp, ALLOW_NEW_BATCH, NO_NEW_BATCH,
            KEEP_IN_FLIGHT
<1>1. ASSUME UNCHANGED <<timer, handler>>, dp = "arm" => dp' = "arm",
             keep_wait' = NO_NEW_BATCH => keep_wait = NO_NEW_BATCH
      PROVE  TimerBacksUp'
  BY <1>1, Zenon
<1>2. ASSUME NEW i \in Syscall, block(i) \/ pass(i) PROVE TimerBacksUp'
  BY <1>1, <1>2 DEF block, pass, run_queue
<1>3. ASSUME NEW i, finishes(i) PROVE TimerBacksUp'
  <2>1. /\ UNCHANGED <<timer, handler, dp>>
        /\ keep_wait' = keep_wait \/ keep_wait' = ALLOW_NEW_BATCH
    BY <1>3, Zenon DEF finishes, finish, dec_check_cleanup_batch
  <2>2. keep_wait' = NO_NEW_BATCH => keep_wait = NO_NEW_BATCH
    BY <2>1
  <2> QED
    BY <1>1, <2>1, <2>2, Zenon
<1>4. ASSUME NEW i \in Syscall, syscall_return(i) \/ mkdir_emlink(i) PROVE TimerBacksUp'
  BY <1>1, <1>3, <1>4, ReturnCases, Zenon DEF mkdir_emlink
<1>5. ASSUME NEW r \in Request, basic_sched_add_request(r) PROVE TimerBacksUp'
  BY <1>1, <1>5 DEF basic_sched_add_request, add_write_request, add_read_request
<1>6. ASSUME NEW r \in Request, basic_sched_complte_request(r) PROVE TimerBacksUp'
  BY <1>3, <1>6, Zenon DEF basic_sched_complte_request, finishes
<1>7. CASE \/ want_dispatch_read \/ dispatch_decline \/ select_start \/ select_acct
           \/ select_move \/ select_complete \/ submit_one
  BY <1>1, <1>7 DEF want_dispatch_read, dispatch_decline, select_start, select_acct,
                    select_move, select_complete, submit_one
<1>8. CASE submit_close \/ submit_arm
  BY <1>8, Zenon DEF submit_close, submit_arm
<1>9. CASE timer_expire
  BY <1>9, Zenon DEF timer_expire
<1>10. CASE new_batch_wait_timer_func \/ stray_return
  <2>1. keep_wait' # NO_NEW_BATCH
    BY <1>10 DEF new_batch_wait_timer_func, stray_return
  <2> QED
    BY <2>1
<1>11. CASE sched_thread_func \/ slice_end \/ quiet
  BY <1>1, <1>11 DEF sched_thread_func, slice_end, quiet
<1> QED
  BY <1>2, <1>4, <1>5, <1>6, <1>7, <1>8, <1>9, <1>10, <1>11, StepCases, Zenon
  DEF basic_sched_dispatch

\* The counted requests are finitely many.
LEMMA CountedFinite == IsFiniteSet(counted) /\ Cardinality(counted) \in Nat
<1>1. counted \subseteq Item /\ IsFiniteSet(Item)
  BY ConstAssumption, Items, Zenon DEF counted
<1>2. IsFiniteSet(counted)
  BY <1>1, FS_Subset
<1> QED
  BY <1>2, FS_CardinalityType

\* A request that starts to be counted raises inflight by one, one that
\* stops being counted lowers inflight plus uncounted by one.
LEMMA InflightCount ==
  ASSUME TypeOK, InflightBound, NEW r,
         \/ counted' = counted /\ inflight' + uncounted' = inflight + uncounted
         \/ /\ r \notin counted /\ counted' = counted \cup {r}
            /\ inflight' + uncounted' = inflight + uncounted + 1
         \/ /\ r \in counted /\ counted' = counted \ {r}
            /\ inflight' + uncounted' = (inflight + uncounted) - 1
  PROVE  InflightBound'
<1>1. IsFiniteSet(counted) /\ Cardinality(counted) \in Nat
  BY CountedFinite
<1>2. r \notin counted => Cardinality(counted \cup {r}) = Cardinality(counted) + 1
  BY <1>1, FS_AddElement
<1>3. r \in counted => Cardinality(counted \ {r}) = Cardinality(counted) - 1
  BY <1>1, FS_RemoveElement
<1>4. inflight + uncounted = Cardinality(counted)
  BY DEF InflightBound
<1>5. inflight' + uncounted' = Cardinality(counted')
  <2>1. CASE counted' = counted /\ inflight' + uncounted' = inflight + uncounted
    BY <1>4, <2>1
  <2>2. CASE /\ r \notin counted /\ counted' = counted \cup {r}
             /\ inflight' + uncounted' = inflight + uncounted + 1
    BY <1>2, <1>4, <2>2
  <2>3. CASE /\ r \in counted /\ counted' = counted \ {r}
             /\ inflight' + uncounted' = (inflight + uncounted) - 1
    BY <1>3, <1>4, <2>3
  <2> QED
    BY <2>1, <2>2, <2>3
<1> QED
  BY <1>5 DEF InflightBound

\* Every step keeps the account of the requests at the disk.
LEMMA InflightStep ==
  ASSUME TypeOK, QueueInv, SelectedInv, BatchInv, InflightBound, [Next]_vars
  PROVE  InflightBound'
<1> USE DEF vars, sched, gate, desc, local
<1>0. \A i \in Item : st[i] # "issued" => owner[i] = NoOne
  BY Zenon DEF BatchInv, OwnerIsLive
<1>1. ASSUME UNCHANGED <<st, owner, inflight, uncounted>> PROVE InflightBound'
  BY <1>1 DEF InflightBound, counted
<1>2. ASSUME NEW i \in Item, NEW v, st' = [st EXCEPT ![i] = v],
             UNCHANGED <<inflight, uncounted>>, i \notin counted, i \notin counted',
             \A j \in Item : j # i => owner'[j] = owner[j]
      PROVE  InflightBound'
  <2>1. \A j \in Request : j \in Item
    BY Items
  <2>2. \A j \in Request : j # i => st'[j] = st[j] /\ owner'[j] = owner[j]
    BY <1>2, <2>1 DEF TypeOK
  <2>3. counted' = counted
    BY <1>2, <2>2 DEF counted
  <2> QED
    BY <1>2, <2>3 DEF InflightBound
<1>3. ASSUME NEW i \in Syscall, block(i) \/ pass(i) PROVE InflightBound'
  <2>1. i \in Item /\ i \notin counted /\ i \notin counted'
    BY Items DEF counted
  <2>2. CASE block(i)
    BY <1>2, <2>1, <2>2, Zenon DEF block, add_io_work_to_acct
  <2>3. CASE pass(i)
    BY <1>2, <2>1, <2>3, Zenon DEF pass
  <2> QED
    BY <1>3, <2>2, <2>3
<1>4. ASSUME NEW i \in Syscall, syscall_return(i) \/ mkdir_emlink(i) PROVE InflightBound'
  <2>1. i \in Item /\ i \notin counted /\ i \notin counted'
    BY Items DEF counted
  <2>2. /\ st' = [st EXCEPT ![i] = "free"] /\ owner' = [owner EXCEPT ![i] = NoOne]
        /\ UNCHANGED <<inflight, uncounted>>
    BY <1>4 DEF syscall_return, finish, mkdir_emlink
  <2>3. \A j \in Item : j # i => owner'[j] = owner[j]
    BY <2>2 DEF TypeOK
  <2> QED
    BY <1>2, <2>1, <2>2, <2>3, Zenon
<1>5. ASSUME NEW r \in Request, basic_sched_add_request(r) PROVE InflightBound'
  <2>1. r \in Item /\ st[r] = "free" /\ owner[r] = NoOne /\ r \notin counted /\ UNCHANGED owner
    BY <1>0, <1>5, Items, Zenon DEF basic_sched_add_request, add_write_request,
                             add_read_request, add_io_work_to_acct, counted
  <2>2. CASE add_write_request(r)
    <3>1. \A j \in Request : j # r => st'[j] = st[j]
      BY <2>1, <2>2, Items, Zenon DEF add_write_request, TypeOK
    <3>2. st'[r] = "issued" /\ r \notin Read
      BY <2>1, <2>2, Items, Zenon DEF add_write_request, TypeOK
    <3>3. counted' = counted \cup {r}
      BY <2>1, <3>1, <3>2, Zenon DEF counted
    <3>4. inflight' + uncounted' = inflight + uncounted + 1
      BY <2>2 DEF add_write_request, TypeOK
    <3> QED
      BY <2>1, <3>3, <3>4, InflightCount, Zenon
  <2>3. CASE add_read_request(r)
    <3>1. /\ r \in Read /\ UNCHANGED <<inflight, uncounted>>
          /\ st' = [st EXCEPT ![r] = "queued"] \/ st' = [st EXCEPT ![r] = "issued"]
      BY <2>3, Zenon DEF add_read_request, add_io_work_to_acct
    <3>2. r \notin counted'
      BY <2>1, <3>1 DEF counted
    <3> QED
      BY <1>2, <2>1, <3>1, <3>2, Zenon
  <2> QED
    BY <1>5, <2>2, <2>3 DEF basic_sched_add_request
<1>6. ASSUME NEW r \in Request, basic_sched_complte_request(r) PROVE InflightBound'
  <2>1. /\ r \in Item /\ st[r] = "issued" /\ inflight' = inflight - 1
        /\ st' = [st EXCEPT ![r] = "free"] /\ owner' = [owner EXCEPT ![r] = NoOne]
    BY <1>6, Items DEF basic_sched_complte_request, finish
  <2>2. \A j \in Request : j # r => st'[j] = st[j] /\ owner'[j] = owner[j]
    BY <2>1, Items DEF TypeOK
  <2>3. st'[r] = "free"
    BY <2>1 DEF TypeOK
  <2>4. counted' = counted \ {r}
    BY <2>2, <2>3, Zenon DEF counted
  <2>5. CASE r \in Read /\ owner[r] = NoOne
    <3>1. r \notin counted /\ uncounted' = uncounted + 1
      BY <1>6, <2>5 DEF basic_sched_complte_request, counted
    <3>2. counted' = counted /\ inflight' + uncounted' = inflight + uncounted
      BY <2>1, <2>4, <3>1 DEF TypeOK
    <3> QED
      BY <3>2, InflightCount, Zenon
  <2>6. CASE ~(r \in Read /\ owner[r] = NoOne)
    <3>1. r \in counted /\ uncounted' = uncounted
      BY <1>6, <2>1, <2>6 DEF basic_sched_complte_request, counted
    <3>2. inflight' + uncounted' = (inflight + uncounted) - 1
      BY <2>1, <3>1 DEF TypeOK
    <3> QED
      BY <2>4, <3>1, <3>2, InflightCount
  <2> QED
    BY <2>5, <2>6
<1>7. CASE select_move
  <2>1. PICK i : i = Head(io_work_list[min_acct])
    OBVIOUS
  <2>2. i \in Item /\ st[i] = "queued"
    <3>1. min_acct \in Acct /\ io_work_list[min_acct] # <<>>
      BY <1>7 DEF select_move, QueueInv, ActiveInv, acct_no_pending_io, TypeOK
    <3> QED
      BY <2>1, <3>1, TailList, Items DEF QueueInv, ListInv, TypeOK
  <2>3. st' = [st EXCEPT ![i] = "selected"] /\ UNCHANGED <<owner, inflight, uncounted>>
    BY <1>7, <2>1 DEF select_move
  <2>4. i \notin counted /\ i \notin counted'
    BY <2>2, <2>3 DEF counted, TypeOK
  <2> QED
    BY <1>2, <2>2, <2>3, <2>4, Zenon
<1>8. CASE submit_one
  <2>1. PICK i, b : i = Head(selected) /\ b = cur
    OBVIOUS
  <2>2. i \in Work /\ i \in Item /\ st[i] = "selected" /\ b # NoOne /\ i \notin counted
    <3>1. selected \in Seq(Work) /\ selected # <<>> /\ dp = "submit"
      BY <1>8 DEF submit_one, TypeOK
    <3>2. i \in Work /\ i \in elems(selected)
      BY <2>1, <3>1, TailList
    <3>3. st[i] = "selected" /\ cur # NoOne
      BY <3>1, <3>2 DEF SelectedInv, BatchInv, CurInv
    <3> QED
      BY <2>1, <3>2, <3>3, Items DEF counted
  <2>3. /\ st' = [st EXCEPT ![i] = "issued"] /\ owner' = [owner EXCEPT ![i] = b]
        /\ uncounted' = uncounted
        /\ inflight' = IF i \in Read THEN inflight + 1 ELSE inflight
    BY <1>8, <2>1 DEF submit_one
  <2>4. /\ st'[i] = "issued" /\ owner'[i] = b
        /\ \A j \in Item : j # i => st'[j] = st[j] /\ owner'[j] = owner[j]
    BY <2>2, <2>3, Zenon DEF TypeOK
  <2>5. CASE i \in Read
    <3>1. counted' = counted \cup {i}
      BY <2>2, <2>4, <2>5, Items, Zenon DEF counted
    <3>2. inflight' + uncounted' = inflight + uncounted + 1
      BY <2>3, <2>5 DEF TypeOK
    <3> QED
      BY <2>2, <3>1, <3>2, InflightCount
  <2>6. CASE i \notin Read
    <3>1. i \notin counted'
      BY <2>2, <2>6, Items, Zenon DEF counted
    <3> QED
      BY <1>2, <2>2, <2>3, <2>4, <2>6, <3>1, Zenon
  <2> QED
    BY <2>5, <2>6
<1>9. CASE \/ want_dispatch_read \/ dispatch_decline \/ select_start \/ select_acct
           \/ select_complete \/ submit_close \/ submit_arm
  BY <1>1, <1>9, Zenon DEF want_dispatch_read, dispatch_decline, select_start, select_acct,
                    select_complete, submit_close, submit_arm
<1>10. CASE \/ sched_thread_func \/ timer_expire \/ new_batch_wait_timer_func
            \/ slice_end \/ stray_return \/ quiet
  BY <1>1, <1>10, Zenon DEF sched_thread_func, timer_expire, new_batch_wait_timer_func,
                            slice_end, stray_return, quiet
<1> QED
  BY <1>3, <1>4, <1>5, <1>6, <1>7, <1>8, <1>9, <1>10, StepCases, Zenon
  DEF basic_sched_dispatch

(***************************************************************************)
(* The theorems.                                                           *)
(***************************************************************************)

\* The invariant holds when the scheduler has been initialised.
LEMMA InitInv == Init => IInv
<1> SUFFICES ASSUME Init PROVE IInv
  OBVIOUS
<1>1. TypeOK
  BY InitType
<1>2. \A a : elems(<<>>) = {} /\ distinct(<<>>)
  BY DEF elems, distinct
<1>3. ListInv /\ ActiveInv
  BY <1>2 DEF Init, ListInv, ActiveInv, acct_no_pending_io
<1>4. SliceInv
  BY Zenon DEF Init, SliceInv
<1>5. SelectedInv
  BY <1>2 DEF Init, SelectedInv
<1>6. members(NoOne) = Item /\ \A i \in Item : owner[i] = NoOne
  BY DEF Init, members
<1>7. BatchInv
  BY <1>6 DEF Init, BatchInv, OwnerIsLive, LoopWorkExact, NoBatchLeak, ClosedMeansBusy,
              CurInv, LostInv
<1>8. StaleOnlyDeclines /\ TimerBacksUp
  BY DEF Init, StaleOnlyDeclines, TimerBacksUp, ALLOW_NEW_BATCH, NO_NEW_BATCH
<1>9. InflightBound
  <2>1. counted = {}
    BY Items DEF Init, counted
  <2> QED
    BY <2>1, FS_EmptySet DEF Init, InflightBound
<1> QED
  BY <1>1, <1>3, <1>4, <1>5, <1>7, <1>8, <1>9 DEF IInv, QueueInv

\* Every step of the scheduler, of its callers and of its timers keeps it.
LEMMA StepInv == IInv /\ [Next]_vars => IInv'
<1> SUFFICES ASSUME IInv, [Next]_vars PROVE IInv'
  OBVIOUS
<1> USE DEF IInv
<1>1. TypeOK'
  BY TypeStep
<1>2. QueueInv'
  <2>1. SliceInv'
    BY SliceStep, Zenon DEF QueueInv, TypeOK
  <2> QED
    BY <2>1, ListStep, ActiveStep DEF QueueInv
<1>3. SelectedInv' /\ BatchInv'
  BY SelectedStep, BatchStep
<1>4. StaleOnlyDeclines' /\ InflightBound' /\ TimerBacksUp'
  BY StaleStep, InflightStep, TimerStep
<1> QED
  BY <1>1, <1>2, <1>3, <1>4

\* The inductive invariant holds in every reachable state.
THEOREM Invariance == Spec => []IInv
  BY InitInv, StepInv, PTL DEF Spec

\* Type correctness of the whole protocol.
THEOREM TypeCorrect == Spec => []TypeOK
  BY Invariance, PTL DEF IInv

\* No use after free and no double free: a call or request that will
\* decrement a batch (owner_batch) always finds it allocated.
THEOREM NoUseAfterFree == Spec => []OwnerIsLive
  BY Invariance, PTL DEF IInv, BatchInv

\* one_loop_work is always the number of members of the batch still to come back
\* and of its mkdirs that failed with -EMLINK and never will, through every switch
\* of scheduler: a batch without such a mkdir is freed with its last member.
THEOREM CountIsExact == Spec => []LoopWorkExact
  BY Invariance, PTL DEF IInv, BatchInv

\* A submitted batch that is allocated and has lost no mkdir to -EMLINK has a member
\* still to come back, which will free it: nothing else leaks a batch, not even a
\* member that returns after sched_uniq has changed.
THEOREM BatchesAreFreed == Spec => []NoBatchLeak
  BY Invariance, PTL DEF IInv, BatchInv

\* While the gate for new batches is closed, the batch that closed it is allocated
\* and waits for a member, unless it was freed without afq_data, in which case only
\* the wait timer is left.
THEOREM GateCanReopen == Spec => []ClosedMeansBusy
  BY Invariance, PTL DEF IInv, BatchInv

\* A gate that lets no batch through has the wait timer behind it, whether or not
\* anybody else is left to reopen it.
THEOREM TimerArmed == Spec => []TimerBacksUp
  BY Invariance, PTL DEF IInv

\* active_acct_list is exact and select_io_work never fails, so none of its
\* `return -1' paths is taken and no batch is submitted empty.
THEOREM SelectNeverFails == Spec => []ActiveExact
<1>1. IInv => ActiveExact
  BY DEF IInv, QueueInv, ActiveInv, SelectedInv, BatchInv, CurInv, ActiveExact
<1> QED
  BY <1>1, Invariance, PTL

\* A decision to dispatch is never taken on a stale keep_wait.
THEOREM DecisionIsFresh == Spec => []StaleOnlyDeclines
  BY Invariance, PTL DEF IInv

\* inflight is the number of counted requests at the disk, less the completed
\* reads that add_request did not count.
THEOREM InflightIsExact == Spec => []InflightBound
  BY Invariance, PTL DEF IInv

=============================================================================
