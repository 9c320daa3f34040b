------------------------------ MODULE TbCharge ------------------------------
(***************************************************************************)
(* How the token bucket scheduler (tbucket.c) charges accounts for I/O.    *)
(* A page is charged to the accounts that dirtied it, by a crude estimate, *)
(* when it is dirtied; the charge is refunded if the page is freed before  *)
(* it is written.  When I/O is dispatched it goes into batches, one of the *)
(* disk and one of each account; once one of the batches is full the disk  *)
(* model says what the batch cost, the accounts are charged their shares,  *)
(* and the estimates are taken back.                                       *)
(*                                                                         *)
(* All the hooks run with queue_lock held, so each is one action.  A page  *)
(* has one buffer; its cause list is on the buffer until the buffer is     *)
(* submitted, and on a bio until the bio is dispatched.  An account that   *)
(* get_account has not made yet is one with all fields zero; that          *)
(* new_account may fail is left out.  A block is a page at a fixed offset. *)
(***************************************************************************)
EXTENDS IoBatch

CONSTANTS
  Account,           \* account ids, the default account among them
  Block,             \* pages of a file
  offset,            \* [Block -> Nat], in pages, in the file and on the disk
  OtherOffsets,      \* offsets of I/O that is not data: the journal, reads
  Limits,            \* values of limit, set through kv_set
  Incomes,           \* income between two calls of refresh_count
  MaxIO,             \* bound: number of cause lists dispatched
  MaxEstimate,       \* bound: no page is dirtied above this estimate
  MaxLost            \* bound: no income above this loss

ASSUME TbChargeAssumption ==
  /\ IsFiniteSet(Account) /\ IsFiniteSet(Block)
  /\ offset \in [Block -> Nat] /\ OtherOffsets \subseteq Nat
  /\ Limits \subseteq Int /\ Incomes \subseteq Nat \ {0}
  /\ MaxIO \in Nat /\ MaxEstimate \in Nat /\ MaxLost \in Nat

PG_SIZE == 1

\* A cause list: callback says that callback_q is set, private is the cost.
new_cause_list == [items |-> {}, callback |-> FALSE, private |-> -1]

VARIABLES
  credit, estimate, used, lost, limit,   \* [Account -> Int]
  acct_batch, batch_estimate,   \* the account's batch and the estimate charged for it
  batch,             \* td->batch
  disk_norm,         \* sum of the costs of the disk's batches
  causes,            \* [Block -> cause list], bh->causes
  bio,               \* [Block -> cause list], on its way to the disk
  inode_pos,         \* inode->i_private1
  ios                \* number of cause lists dispatched so far

tokens  == <<credit, lost, limit>>
batches == <<acct_batch, batch_estimate, batch, used, disk_norm, ios>>
vars    == <<tokens, estimate, batches, causes, bio, inode_pos>>

count(a) == credit[a] - (estimate[a] + used[a])

zero == [a \in Account |-> 0]
new_batches == [a \in Account |-> iobatch_new]

\* tbucket_init_queue; new_account for every account
Init ==
  /\ credit = zero /\ estimate = zero /\ used = zero /\ lost = zero /\ limit = zero
  /\ acct_batch = new_batches /\ batch_estimate = zero
  /\ batch = iobatch_new /\ disk_norm = 0
  /\ causes = [b \in Block |-> new_cause_list]
  /\ bio = [b \in Block |-> new_cause_list]
  /\ inode_pos = 0 /\ ios = 0

\* __safe_div: division truncates towards zero, and division by zero is none.
safe_div(x, y) ==
  IF y = 0 THEN x
  ELSE IF x >= 0 THEN x \div y ELSE -((-x) \div y)

\* Mutant: the test whether diff is positive is left out.
saturate_counts_signed(est, use, lim) ==
  LET diff(a) == credit[a] - (est[a] + use[a]) - lim[a] IN
  /\ credit' = [a \in Account |-> credit[a] - diff(a)]
  /\ lost' = [a \in Account |-> lost[a] + diff(a)]

\* Mutant: lost is set, not added to.
saturate_counts_lost(est, use, lim) ==
  LET diff(a) == Max({credit[a] - (est[a] + use[a]) - lim[a], 0}) IN
  /\ credit' = [a \in Account |-> credit[a] - diff(a)]
  /\ lost' = [a \in Account |-> diff(a)]

\* saturate_counts of every account whose fields change: count stays within
\* the limit.  An account whose fields do not change is within it already.
saturate_counts(est, use, lim) ==
  LET diff(a) == Max({credit[a] - (est[a] + use[a]) - lim[a], 0}) IN
  /\ credit' = [a \in Account |-> credit[a] - diff(a)]
  /\ lost' = [a \in Account |-> lost[a] + diff(a)]

(***************************************************************************)
(* Dirtying and freeing pages.                                             *)
(***************************************************************************)

\* Mutant: the accounts charged before get their old charge back, and nothing else.
dirty_charge_no_share(c, a, new, cost) ==
  LET n == Cardinality(c.items) IN
  IF a = new THEN safe_div(cost, n) ELSE -safe_div(cost, n - 1)

\* What tbucket_causes_dirty adds to the estimate of account a of list c, to
\* which new was added last: the cost is shared between all of them.
dirty_charge(c, a, new, cost) ==
  LET n == Cardinality(c.items) IN
  safe_div(cost, n) - (IF a = new THEN 0 ELSE safe_div(cost, n - 1))

\* A task of account new writes to block b: the dirty hook of
\* __block_commit_write, which calls tbucket_causes_dirty.
causes_dirty(b, new) ==
  LET c    == [causes[b] EXCEPT !.items = @ \cup {new}, !.callback = TRUE]
      cost == IF c.private <= 0 THEN seek_time(offset[b], inode_pos) + PG_SIZE ELSE c.private
      est  == [a \in Account |->
                 estimate[a] + IF a \in c.items THEN dirty_charge(c, a, new, cost) ELSE 0]
  IN
  /\ estimate[new] < MaxEstimate
  /\ new \notin causes[b].items
  /\ causes' = [causes EXCEPT ![b] = [c EXCEPT !.private = cost]]
  /\ inode_pos' = offset[b] + PG_SIZE
  /\ estimate' = est
  /\ saturate_counts(est, used, limit)
  /\ UNCHANGED <<batches, bio, limit>>

\* The buffer of block b goes away unwritten: free_cause_list, which calls
\* tbucket_causes_free.  The refund is by size.
causes_free(b) ==
  LET c   == causes[b]
      est == [a \in Account |->
                estimate[a] - IF a \in c.items THEN safe_div(PG_SIZE, Cardinality(c.items)) ELSE 0]
  IN
  /\ c.callback
  /\ causes' = [causes EXCEPT ![b] = new_cause_list]
  /\ estimate' = est
  /\ saturate_counts(est, used, limit)
  /\ UNCHANGED <<batches, bio, inode_pos, limit>>

\* The buffer of block b is submitted.
move_causes_bh_to_bio(b) ==
  /\ causes[b].items # {} /\ bio[b].items = {}
  /\ bio' = [bio EXCEPT ![b] = causes[b]]
  /\ causes' = [causes EXCEPT ![b] = new_cause_list]
  /\ UNCHANGED <<tokens, estimate, batches, inode_pos>>

(***************************************************************************)
(* Dispatching.                                                            *)
(***************************************************************************)

\* Mutant: only the batch of the disk is looked at.
batch_full_disk_only(tb, ab, items) == iobatch_full(tb)

\* Some batch that the request was added to is full.
batch_full(tb, ab, items) == iobatch_full(tb) \/ \E a \in items : iobatch_full(ab[a])

\* Mutant: an account is charged the cost of its own batch.
adjusted_charge_basic(combined, basic, summed) == basic

\* The share of an account in what the disk's batch cost.
adjusted_charge(combined, basic, summed) == safe_div(combined * basic, summed)

\* do_disk_accounting, a batch is full: charge by the disk model, refund the
\* estimates, and start new batches.
finish_batch(tb, ab, est, be) ==
  \E combined \in iobatch_get_cost(tb),
     basic \in {f \in [Account -> UNION {iobatch_get_cost(ab[a]) : a \in Account}] :
                  \A a \in Account : f[a] \in iobatch_get_cost(ab[a])} :
    LET summed == SumFunction(basic)
        use    == [a \in Account |-> used[a] + adjusted_charge(combined, basic[a], summed)]
        est2   == [a \in Account |-> est[a] - be[a]]
    IN
    /\ used' = use /\ estimate' = est2
    /\ saturate_counts(est2, use, limit)
    /\ batch_estimate' = [a \in Account |-> 0]
    /\ batch' = iobatch_clear(tb) /\ disk_norm' = disk_norm + combined
    /\ acct_batch' = [a \in Account |-> iobatch_clear([ab[a] EXCEPT !.cost = basic[a]])]

\* account_for_causes and do_disk_accounting for cause list c with causes->size
\* csize, a page at offset off.  A list with a callback was charged when the page
\* was dirtied, any other is charged now.
account_for_causes(c, csize, off) ==
  LET n    == Cardinality(c.items)
      cost == IF ~c.callback /\ n > 0 THEN PG_SIZE ELSE c.private
      est  == [a \in Account |->
                 estimate[a] + IF ~c.callback /\ a \in c.items THEN safe_div(PG_SIZE, n) ELSE 0]
      tb   == iobatch_add_request(batch, off, csize)
      ab   == [a \in Account |-> IF a \in c.items
                                 THEN iobatch_add_request(acct_batch[a], off, csize)
                                 ELSE acct_batch[a]]
      be   == [a \in Account |->
                 batch_estimate[a] + IF a \in c.items THEN safe_div(cost, n) ELSE 0]
  IN
  /\ ios < MaxIO /\ ios' = ios + 1
  /\ \/ /\ batch_full(tb, ab, c.items)
        /\ finish_batch(tb, ab, est, be)
     \/ /\ ~batch_full(tb, ab, c.items)
        /\ estimate' = est /\ saturate_counts(est, used, limit)
        /\ batch' = tb /\ acct_batch' = ab /\ batch_estimate' = be
        /\ UNCHANGED <<used, disk_norm>>
  /\ UNCHANGED <<limit, inode_pos, causes>>

\* A bio with the causes of a written page.
dispatch_data(b) ==
  /\ bio[b].items # {}
  /\ account_for_causes(bio[b], PG_SIZE, offset[b])
  /\ bio' = [bio EXCEPT ![b] = new_cause_list]

\* A bio of the journal or with zeroes: its list was never dirtied, and may
\* have no causes.
dispatch_journal(off, items) ==
  /\ account_for_causes([new_cause_list EXCEPT !.items = items], PG_SIZE, off)
  /\ UNCHANGED bio

\* A read, or a write without causes of its own: the list of the request,
\* whose only cause is the task that issued it, and whose size is not set.
dispatch_untagged(off, a) ==
  /\ account_for_causes([new_cause_list EXCEPT !.items = {a}], 0, off)
  /\ UNCHANGED bio

(***************************************************************************)
(* Income, settings and switching.                                         *)
(***************************************************************************)

\* refresh_count
refresh_count(a) ==
  /\ lost[a] < MaxLost
  /\ \E inc \in Incomes :
       LET diff == Max({count(a) + inc - limit[a], 0}) IN
       /\ credit' = [credit EXCEPT ![a] = @ + inc - diff]
       /\ lost' = [lost EXCEPT ![a] = @ + diff]
  /\ UNCHANGED <<limit, estimate, batches, causes, bio, inode_pos>>

\* Mutant: the count is not saturated.
kv_set_limit_unsaturated(a) ==
  /\ lost[a] < MaxLost
  /\ \E v \in Limits \ {limit[a]} : limit' = [limit EXCEPT ![a] = v]
  /\ UNCHANGED <<credit, lost, estimate, batches, causes, bio, inode_pos>>

\* tbucket_kv_set "limit"; "rate" changes the income only
kv_set_limit(a) ==
  /\ lost[a] < MaxLost
  /\ \E v \in Limits \ {limit[a]} :
       /\ limit' = [limit EXCEPT ![a] = v]
       /\ saturate_counts(estimate, used, limit')
  /\ UNCHANGED <<estimate, batches, causes, bio, inode_pos>>

\* tbucket_kv_set "count"
kv_set_count(a) ==
  /\ lost[a] < MaxLost
  /\ \E v \in Limits :
       LET diff == Max({v - limit[a], 0}) IN
       /\ credit' = [credit EXCEPT ![a] = @ + v - count(a) - diff]
       /\ lost' = [lost EXCEPT ![a] = @ + diff]
  /\ UNCHANGED <<limit, estimate, batches, causes, bio, inode_pos>>

\* Another scheduler runs for a while and then a new instance of this one:
\* requests are drained, accounts are new, cause lists stay, and pages dirtied
\* meanwhile have lists with a callback but no cost.  sched_uniq is 1000 after
\* every switch, so the hooks take all these lists for their own.
switch_elevator ==
  /\ \A b \in Block : bio[b].items = {}
  /\ \E c \in [Block -> [items : SUBSET Account, callback : {TRUE}, private : {-1}]] :
       causes' = [b \in Block |-> IF causes[b].items = {} /\ c[b].items # {}
                                  THEN c[b] ELSE causes[b]]
  /\ credit' = zero /\ estimate' = zero /\ used' = zero /\ lost' = zero /\ limit' = zero
  /\ acct_batch' = new_batches /\ batch_estimate' = zero
  /\ batch' = iobatch_new /\ disk_norm' = 0
  /\ UNCHANGED <<bio, inode_pos, ios>>

Next ==
  \/ \E b \in Block : causes_free(b) \/ move_causes_bh_to_bio(b) \/ dispatch_data(b)
  \/ \E b \in Block, a \in Account : causes_dirty(b, a)
  \/ \E off \in OtherOffsets :
       \/ \E a \in Account : dispatch_untagged(off, a)
       \/ \E items \in SUBSET Account : dispatch_journal(off, items)
  \/ \E a \in Account : refresh_count(a) \/ kv_set_limit(a) \/ kv_set_count(a)

Spec == Init /\ [][Next]_vars

\* The life of one instance of the scheduler is Spec; here instances follow each other.
SwitchSpec == Init /\ [][Next \/ switch_elevator]_vars

(***************************************************************************)
(* Properties.                                                             *)
(***************************************************************************)

TypeOK ==
  /\ {credit, estimate, used, limit} \subseteq [Account -> Int]
  /\ lost \in [Account -> Nat] /\ batch_estimate \in [Account -> Int]
  /\ acct_batch \in [Account -> BatchType] /\ batch \in BatchType /\ disk_norm \in Nat
  /\ {causes, bio} \subseteq [Block -> [items : SUBSET Account, callback : BOOLEAN, private : Int]]
  /\ inode_pos \in Nat /\ ios \in 0..MaxIO

\* The share of account a in the charges for pages that are dirty or on their way.
outstanding(a) ==
  LET share(c) == IF c.callback /\ a \in c.items
                  THEN safe_div(c.private, Cardinality(c.items)) ELSE 0 IN
  SumFunction([b \in Block |-> share(causes[b]) + share(bio[b])])

\* No account is charged too little: however many accounts come to share a
\* page, the estimate covers the account's shares of all dirty pages
\* (tbucket_causes_dirty) and of the running batch (batch_estimate), so taking
\* batch_estimate back when the batch is complete never refunds I/O that was
\* not charged.  It can exceed them: the charge of a page dirtied out of
\* sequence includes a seek, and tbucket_causes_free refunds the size only.
EstimateCovers == \A a \in Account : estimate[a] >= outstanding(a) + batch_estimate[a]

\* "batch_estimate describes how much we have charged for this batch prior the
\* the batch being complete": it was charged, and is part of the estimate.
BatchEstimateCharged == \A a \in Account : estimate[a] >= batch_estimate[a]

\* Between two hooks no batch is full, so iobatch_add_request never drops a
\* request ("trying to add to full!"), cached costs are coherent and costs
\* bounded, although an account's batch can fill up before the disk's.
BatchesSound ==
  \A x \in {batch} \cup {acct_batch[a] : a \in Account} :
    ~iobatch_full(x) /\ cache_coherent(x) /\ cost_bounded(x)

\* No account saves up more than its limit: income, refunds and what kv_set does
\* to limit and count each leave count(a) <= limit behind, because each of them
\* calls saturate_counts after its change.
CountWithinLimit == \A a \in Account : count(a) <= limit[a]

\* Together the accounts are never charged more than the disk model says the
\* disk was used ("adjusted_charge"), though each account's own batch can cost
\* as much as the disk's.
UsedWithinDisk == SumFunction(used) <= disk_norm

\* "disk time (monotonic)", "income lost due to limit
\* (monotonic)": what an account has used and lost never goes down.
Monotonic ==
  [][ \A a \in Account :
        used'[a] >= used[a] /\ lost'[a] >= lost[a] ]_vars

=============================================================================
