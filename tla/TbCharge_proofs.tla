--------------------------- MODULE TbCharge_proofs ---------------------------
(***************************************************************************)
(* The charges of the token bucket scheduler are sound for any number of   *)
(* accounts, pages and requests.                                           *)
(***************************************************************************)
EXTENDS TbCharge, IoBatch_proofs

\* A list without causes is a new one; any other was charged a page or more.
list_sound(c) ==
  IF c.items = {} THEN c = new_cause_list ELSE c.callback /\ c.private >= 1

ListsSound == \A b \in Block : list_sound(causes[b]) /\ list_sound(bio[b])

BatchesInv ==
  /\ batch_sound(batch) /\ ~iobatch_full(batch)
  /\ \A a \in Account : batch_sound(acct_batch[a]) /\ ~iobatch_full(acct_batch[a])

\* The inductive invariant.
IInv ==
  TypeOK /\ ListsSound /\ BatchesInv /\ EstimateCovers /\ CountWithinLimit /\ UsedWithinDisk

(***************************************************************************)
(* Shares.                                                                 *)
(***************************************************************************)

\* __safe_div rounds towards zero.
LEMMA SafeDiv ==
  ASSUME NEW x \in Int, NEW n \in Nat
  PROVE  safe_div(x, n) \in Int /\ (x >= 0 => safe_div(x, n) >= 0)
BY DEF safe_div

\* __safe_div is monotonic in the amount that is shared.
LEMMA SafeDivMonotonic ==
  ASSUME NEW x \in Nat, NEW y \in Nat, x <= y, NEW n \in Nat
  PROVE  safe_div(x, n) <= safe_div(y, n)
BY DEF safe_div

\* do_disk_accounting: what the accounts are charged together is no more
\* than what the disk's batch cost, whatever their own batches cost.
LEMMA ChargesWithinCost ==
  ASSUME NEW combined \in Nat, NEW basic \in [Account -> Nat], NEW charge,
         charge = [a \in Account |->
                     adjusted_charge(combined, basic[a], SumFunction(basic))]
  PROVE  charge \in [Account -> Nat] /\ SumFunctionOnSet(charge, Account) <= combined
<1> DEFINE summed == SumFunctionOnSet(basic, Account)
           left  == [a \in Account |-> summed * charge[a]]
           right == [a \in Account |-> combined * basic[a]]
<1>0. IsFiniteSet(Account)
  BY TbChargeAssumption
<1>1. summed \in Nat /\ SumFunction(basic) = summed
  <2>1. \A a \in Account : basic[a] \in Nat
    OBVIOUS
  <2> QED
    BY <1>0, <2>1, SumNat DEF SumFunction
<1>2. \A a \in Account : right[a] \in Nat /\ basic[a] \in Int
  OBVIOUS
<1> HIDE DEF summed
<1>3. charge \in [Account -> Nat]
  <2>1. \A a \in Account : safe_div(right[a], summed) \in Int /\ safe_div(right[a], summed) >= 0
    BY <1>1, <1>2, SafeDiv
  <2>2. \A a \in Account : charge[a] = safe_div(right[a], summed)
    BY <1>1 DEF adjusted_charge
  <2> QED
    BY <2>1, <2>2
<1>4. \A a \in Account : charge[a] \in Int
  BY <1>3
<1>5. CASE summed = 0
  <2>1. \A a \in Account : charge[a] = 0
    <3> SUFFICES ASSUME NEW a \in Account PROVE charge[a] = 0
      OBVIOUS
    <3>1. summed = basic[a] + SumFunctionOnSet(basic, Account \ {a})
      BY <1>0, <1>2, SumRemove DEF summed
    <3>2. SumFunctionOnSet(basic, Account \ {a}) \in Nat
      <4>1. IsFiniteSet(Account \ {a}) /\ \A x \in Account \ {a} : basic[x] \in Nat
        BY <1>0, FS_RemoveElement
      <4> QED
        BY <4>1, SumNat
    <3>3. basic[a] = 0
      BY <1>5, <3>1, <3>2
    <3> QED
      BY <1>1, <1>5, <3>3 DEF adjusted_charge, safe_div
  <2>2. SumFunctionOnSet(charge, Account) = Cardinality(Account) * 0
    BY <1>0, <2>1, SumConstant
  <2> QED
    BY <1>0, <1>3, <2>2, FS_CardinalityType
<1>6. CASE summed # 0
  <2>1. \A a \in Account : summed * charge[a] <= combined * basic[a]
    <3> SUFFICES ASSUME NEW a \in Account PROVE summed * charge[a] <= combined * basic[a]
      OBVIOUS
    <3> DEFINE x == combined * basic[a]
    <3>1. x \in Nat /\ summed \in Nat \ {0} /\ charge[a] = x \div summed
      BY <1>1, <1>6 DEF adjusted_charge, safe_div
    <3> HIDE DEF x
    <3>2. summed * (x \div summed) <= x
      BY <3>1
    <3> QED
      BY <3>1, <3>2 DEF x
  <2>2. \A a \in Account : /\ left[a] \in Int /\ right[a] \in Int /\ left[a] <= right[a]
                           /\ left[a] = summed * charge[a] /\ right[a] = combined * basic[a]
    BY <1>1, <1>4, <2>1
  <2> HIDE DEF left, right
  <2>3. SumFunctionOnSet(left, Account) <= SumFunctionOnSet(right, Account)
    BY <1>0, <2>2, SumMonotonic
  <2>4. SumFunctionOnSet(left, Account) = summed * SumFunctionOnSet(charge, Account)
    BY <1>0, <1>1, <1>4, <2>2, SumScale
  <2>5. SumFunctionOnSet(right, Account) = combined * summed
    BY <1>0, <1>2, <2>2, SumScale DEF summed
  <2>6. SumFunctionOnSet(charge, Account) \in Int
    BY <1>0, <1>4, SumInt
  <2>7. \A x \in Int : summed * x <= combined * summed => x <= combined
    BY <1>1, <1>6
  <2> QED
    BY <1>3, <2>3, <2>4, <2>5, <2>6, <2>7
<1> QED
  BY <1>5, <1>6

cause_list == [items : SUBSET Account, callback : BOOLEAN, private : Int]

\* The share of account a in the charge for the page of list c.
share(a, c) ==
  IF c.callback /\ a \in c.items THEN safe_div(c.private, Cardinality(c.items)) ELSE 0

shares(a, cs, bs) == [b \in Block |-> share(a, cs[b]) + share(a, bs[b])]

\* A list has finitely many causes.
LEMMA ItemsFinite ==
  ASSUME NEW c \in cause_list
  PROVE  /\ IsFiniteSet(c.items) /\ Cardinality(c.items) \in Nat
         /\ Cardinality(c.items) = 0 <=> c.items = {}
<1>1. c.items \in SUBSET Account
  BY DEF cause_list
<1>2. IsFiniteSet(c.items)
  BY <1>1, TbChargeAssumption, FS_Subset
<1> QED
  BY <1>2, FS_CardinalityType, FS_EmptySet

\* A share is an integer, and not negative if the list is sound.
LEMMA ShareType ==
  ASSUME NEW a, NEW c \in cause_list
  PROVE  share(a, c) \in Int /\ (list_sound(c) => share(a, c) >= 0)
<1>1. c.private \in Int /\ Cardinality(c.items) \in Nat
  BY ItemsFinite DEF cause_list
<1>2. /\ safe_div(c.private, Cardinality(c.items)) \in Int
      /\ c.private >= 0 => safe_div(c.private, Cardinality(c.items)) >= 0
  BY <1>1, SafeDiv, Zenon
<1>3. CASE c.callback /\ a \in c.items
  <2>1. share(a, c) = safe_div(c.private, Cardinality(c.items))
    BY <1>3 DEF share
  <2>2. list_sound(c) => c.private >= 0
    BY <1>1, <1>3 DEF list_sound
  <2> QED
    BY <1>2, <2>1, <2>2
<1>4. CASE ~(c.callback /\ a \in c.items)
  BY <1>4 DEF share
<1> QED
  BY <1>3, <1>4

\* What is outstanding is the sum of the shares, before and after a step.
LEMMA OutstandingIs ==
  ASSUME NEW a
  PROVE  /\ outstanding(a) = SumFunctionOnSet(shares(a, causes, bio), Block)
         /\ outstanding(a)' = SumFunctionOnSet(shares(a, causes', bio'), Block)
<1>1. outstanding(a) = SumFunction(shares(a, causes, bio))
  BY DEF outstanding, shares, share
<1>2. outstanding(a)' = SumFunction(shares(a, causes', bio'))
  BY DEF outstanding, shares, share
<1>3. DOMAIN shares(a, causes, bio) = Block /\ DOMAIN shares(a, causes', bio') = Block
  BY DEF shares
<1> QED
  BY <1>1, <1>2, <1>3 DEF SumFunction

\* Cause lists that are sound have shares that are not negative.
LEMMA OutstandingType ==
  ASSUME NEW a, causes \in [Block -> cause_list], bio \in [Block -> cause_list]
  PROVE  outstanding(a) \in Int /\ (ListsSound => outstanding(a) \in Nat)
<1> DEFINE f == shares(a, causes, bio)
<1>0. IsFiniteSet(Block)
  BY TbChargeAssumption
<1>1. \A b \in Block : f[b] \in Int /\ (ListsSound => f[b] \in Nat)
  <2> SUFFICES ASSUME NEW b \in Block PROVE f[b] \in Int /\ (ListsSound => f[b] \in Nat)
    OBVIOUS
  <2>1. f[b] = share(a, causes[b]) + share(a, bio[b])
    BY DEF shares
  <2>2. causes[b] \in cause_list /\ bio[b] \in cause_list
    OBVIOUS
  <2>3. ListsSound => list_sound(causes[b]) /\ list_sound(bio[b])
    BY DEF ListsSound
  <2> HIDE DEF f
  <2>4. /\ share(a, causes[b]) \in Int /\ (list_sound(causes[b]) => share(a, causes[b]) >= 0)
        /\ share(a, bio[b]) \in Int /\ (list_sound(bio[b]) => share(a, bio[b]) >= 0)
    BY <2>2, ShareType
  <2> QED
    BY <2>1, <2>3, <2>4
<1>2. outstanding(a) = SumFunctionOnSet(f, Block)
  BY OutstandingIs
<1> HIDE DEF f
<1>3. SumFunctionOnSet(f, Block) \in Int
  BY <1>0, <1>1, SumInt
<1>4. ListsSound => SumFunctionOnSet(f, Block) \in Nat
  BY <1>0, <1>1, SumNat
<1> QED
  BY <1>2, <1>3, <1>4

\* A sum over blocks, when the value of one block changes.
LEMMA BlockUpdate ==
  ASSUME NEW f, NEW g, NEW b \in Block, \A x \in Block : f[x] \in Int /\ g[x] \in Int,
         \A x \in Block : x # b => g[x] = f[x]
  PROVE  SumFunctionOnSet(g, Block) = SumFunctionOnSet(f, Block) - f[b] + g[b]
<1>1. IsFiniteSet(Block)
  BY TbChargeAssumption
<1> QED
  BY <1>1, SumUpdate

\* Changing the lists of one block changes the shares by the difference.
LEMMA SharesChange ==
  ASSUME NEW a, NEW b \in Block,
         NEW cs \in [Block -> cause_list], NEW bs \in [Block -> cause_list],
         NEW cs2 \in [Block -> cause_list], NEW bs2 \in [Block -> cause_list],
         \A x \in Block \ {b} : cs2[x] = cs[x] /\ bs2[x] = bs[x]
  PROVE  SumFunctionOnSet(shares(a, cs2, bs2), Block) =
           SumFunctionOnSet(shares(a, cs, bs), Block)
             - (share(a, cs[b]) + share(a, bs[b])) + (share(a, cs2[b]) + share(a, bs2[b]))
<1> DEFINE f == shares(a, cs, bs)
           g == shares(a, cs2, bs2)
<1>1. \A x \in Block : /\ f[x] = share(a, cs[x]) + share(a, bs[x])
                       /\ g[x] = share(a, cs2[x]) + share(a, bs2[x])
  BY DEF shares
<1> HIDE DEF f, g
<1>2. \A x \in Block : f[x] \in Int /\ g[x] \in Int
  <2> SUFFICES ASSUME NEW x \in Block PROVE f[x] \in Int /\ g[x] \in Int
    OBVIOUS
  <2>1. /\ cs[x] \in cause_list /\ bs[x] \in cause_list
        /\ cs2[x] \in cause_list /\ bs2[x] \in cause_list
    OBVIOUS
  <2>2. /\ share(a, cs[x]) \in Int /\ share(a, bs[x]) \in Int
        /\ share(a, cs2[x]) \in Int /\ share(a, bs2[x]) \in Int
    BY <2>1, ShareType
  <2> QED
    BY <1>1, <2>2
<1>3. \A x \in Block : x # b => g[x] = f[x]
  BY <1>1
<1>4. SumFunctionOnSet(g, Block) = SumFunctionOnSet(f, Block) - f[b] + g[b]
  BY <1>2, <1>3, BlockUpdate, Zenon
<1>5. /\ f[b] = share(a, cs[b]) + share(a, bs[b])
      /\ g[b] = share(a, cs2[b]) + share(a, bs2[b])
  BY <1>1
<1>6. SumFunctionOnSet(g, Block) = SumFunctionOnSet(f, Block)
        - (share(a, cs[b]) + share(a, bs[b])) + (share(a, cs2[b]) + share(a, bs2[b]))
  BY <1>4, <1>5
<1> QED
  BY <1>6 DEF f, g

\* What is outstanding changes with the lists of the one block that changes.
LEMMA OutstandingChange ==
  ASSUME NEW a, NEW b \in Block,
         causes \in [Block -> cause_list], bio \in [Block -> cause_list],
         causes' \in [Block -> cause_list], bio' \in [Block -> cause_list],
         \A x \in Block \ {b} : causes'[x] = causes[x] /\ bio'[x] = bio[x]
  PROVE  outstanding(a)' = outstanding(a) - (share(a, causes[b]) + share(a, bio[b]))
                             + (share(a, causes'[b]) + share(a, bio'[b]))
BY OutstandingIs, SharesChange

(***************************************************************************)
(* Steps.                                                                  *)
(***************************************************************************)

\* The types of the fields, one by one.
LEMMA Types ==
  ASSUME IInv
  PROVE  /\ credit \in [Account -> Int] /\ lost \in [Account -> Nat]
         /\ limit \in [Account -> Int] /\ used \in [Account -> Int] /\ disk_norm \in Nat
         /\ estimate \in [Account -> Int] /\ batch_estimate \in [Account -> Int]
         /\ causes \in [Block -> cause_list] /\ bio \in [Block -> cause_list]
         /\ inode_pos \in Nat /\ ios \in 0..MaxIO
BY DEF IInv, TypeOK, cause_list

\* saturate_counts, after the fields of accounts have changed.
LEMMA Saturate ==
  ASSUME NEW est \in [Account -> Int], NEW use \in [Account -> Int],
         NEW lim \in [Account -> Int],
         credit \in [Account -> Int], lost \in [Account -> Nat],
         saturate_counts(est, use, lim)
  PROVE  /\ credit' \in [Account -> Int] /\ lost' \in [Account -> Nat]
         /\ \A a \in Account : /\ credit'[a] - (est[a] + use[a]) <= lim[a]
                               /\ lost'[a] >= lost[a]
<1> DEFINE diff(a) == credit[a] - (est[a] + use[a]) - lim[a]
           d(a)    == Max({diff(a), 0})
<1>1. \A a \in Account : diff(a) \in Int
  OBVIOUS
<1> HIDE DEF diff
<1>2. \A a \in Account : d(a) = IF diff(a) <= 0 THEN 0 ELSE diff(a)
  <2> SUFFICES ASSUME NEW a \in Account
               PROVE  Max({diff(a), 0}) = IF diff(a) <= 0 THEN 0 ELSE diff(a)
    OBVIOUS
  <2>1. diff(a) \in Int /\ 0 \in Int
    BY <1>1
  <2> QED
    BY <2>1, MinMaxOfTwo, Zenon
<1>3. /\ credit' = [a \in Account |-> credit[a] - d(a)]
      /\ lost' = [a \in Account |-> lost[a] + d(a)]
  BY DEF saturate_counts, diff
<1> HIDE DEF d
<1>4. \A a \in Account : d(a) \in Nat /\ d(a) >= diff(a)
  BY <1>1, <1>2
<1>5. credit' \in [Account -> Int] /\ lost' \in [Account -> Nat]
  BY <1>3, <1>4
<1>6. \A a \in Account : /\ credit'[a] - (est[a] + use[a]) <= lim[a]
                         /\ lost'[a] >= lost[a]
  <2> SUFFICES ASSUME NEW a \in Account
               PROVE  credit'[a] - (est[a] + use[a]) <= lim[a] /\ lost'[a] >= lost[a]
    OBVIOUS
  <2>1. credit'[a] = credit[a] - d(a) /\ lost'[a] = lost[a] + d(a)
    BY <1>3
  <2>2. /\ credit[a] \in Int /\ lost[a] \in Int /\ est[a] \in Int /\ use[a] \in Int
        /\ lim[a] \in Int /\ d(a) \in Nat /\ d(a) >= credit[a] - (est[a] + use[a]) - lim[a]
    BY <1>4 DEF diff
  <2> QED
    BY <2>1, <2>2
<1> QED
  BY <1>5, <1>6

\* What an account has used and lost does not go down.
Grows == \A a \in Account : used'[a] >= used[a] /\ lost'[a] >= lost[a]

\* What a call of do_disk_accounting does to the accounts' fields.
Settled ==
  /\ credit' \in [Account -> Int] /\ lost' \in [Account -> Nat] /\ limit' \in [Account -> Int]
  /\ estimate' \in [Account -> Int] /\ used' \in [Account -> Int]
  /\ batch_estimate' \in [Account -> Int] /\ disk_norm' \in Nat
  /\ acct_batch' \in [Account -> BatchType] /\ batch' \in BatchType
  /\ BatchesInv' /\ CountWithinLimit' /\ UsedWithinDisk'
  /\ Grows

\* do_disk_accounting with a batch that is full.
LEMMA FinishBatch ==
  ASSUME TypeOK, UsedWithinDisk, limit' = limit,
         NEW tb, batch_sound(tb), tb.reqs # <<>>,
         NEW ab, \A a \in Account : batch_sound(ab[a]),
         NEW est \in [Account -> Int], NEW be \in [Account -> Int],
         finish_batch(tb, ab, est, be)
  PROVE  /\ Settled
         /\ \A a \in Account : estimate'[a] - batch_estimate'[a] = est[a] - be[a]
<1> DEFINE F == {f \in [Account -> UNION {iobatch_get_cost(ab[a]) : a \in Account}] :
                   \A a \in Account : f[a] \in iobatch_get_cost(ab[a])}
           est2 == [a \in Account |-> est[a] - be[a]]
           use(c, f) ==
             [a \in Account |-> used[a] + adjusted_charge(c, f[a], SumFunction(f))]
<1>1. PICK combined \in iobatch_get_cost(tb), basic \in F :
        /\ used' = use(combined, basic) /\ estimate' = est2
        /\ saturate_counts(est2, use(combined, basic), limit)
        /\ batch_estimate' = [a \in Account |-> 0]
        /\ batch' = iobatch_clear(tb) /\ disk_norm' = disk_norm + combined
        /\ acct_batch' = [a \in Account |-> iobatch_clear([ab[a] EXCEPT !.cost = basic[a]])]
  BY Zenon DEF finish_batch
<1>2. /\ credit \in [Account -> Int] /\ lost \in [Account -> Nat]
      /\ limit \in [Account -> Int] /\ used \in [Account -> Int] /\ disk_norm \in Nat
  BY DEF TypeOK
<1>3. combined \in Nat
  BY CostOfSound, Zenon
<1>4. basic \in [Account -> Nat] /\ \A a \in Account : basic[a] \in iobatch_get_cost(ab[a])
  <2>1. /\ basic \in [Account -> UNION {iobatch_get_cost(ab[a]) : a \in Account}]
        /\ \A a \in Account : basic[a] \in iobatch_get_cost(ab[a])
    OBVIOUS
  <2>2. \A a \in Account : iobatch_get_cost(ab[a]) \subseteq Nat
    BY CostOfSound, Zenon
  <2> HIDE DEF F
  <2> QED
    BY <2>1, <2>2
<1> DEFINE charge ==
             [a \in Account |-> adjusted_charge(combined, basic[a], SumFunction(basic))]
<1>5. charge \in [Account -> Nat] /\ SumFunctionOnSet(charge, Account) <= combined
  BY <1>3, <1>4, ChargesWithinCost, Zenon
<1>6. used' = [a \in Account |-> used[a] + charge[a]]
  BY <1>1
<1> HIDE DEF charge, F
<1>7. \A a \in Account : used'[a] = used[a] + charge[a] /\ used[a] \in Int /\ charge[a] \in Nat
  BY <1>2, <1>5, <1>6
<1>8. used' \in [Account -> Int] /\ \A a \in Account : used'[a] >= used[a]
  BY <1>6, <1>7
<1>9. estimate' \in [Account -> Int] /\ batch_estimate' \in [Account -> Int]
  BY <1>1
<1>10. \A a \in Account : estimate'[a] - batch_estimate'[a] = est[a] - be[a]
  BY <1>1
<1>11. /\ credit' \in [Account -> Int] /\ lost' \in [Account -> Nat]
       /\ \A a \in Account : /\ credit'[a] - (estimate'[a] + used'[a]) <= limit[a]
                             /\ lost'[a] >= lost[a]
  <2>1. saturate_counts(estimate', used', limit)
    BY <1>1
  <2> QED
    BY <1>2, <1>8, <1>9, <2>1, Saturate, Zenon
<1>12. disk_norm' = disk_norm + combined /\ disk_norm' \in Nat
  BY <1>1, <1>2, <1>3
<1>13. UsedWithinDisk'
  <2>1. IsFiniteSet(Account)
    BY TbChargeAssumption
  <2>2. \A a \in Account : /\ used[a] \in Int /\ charge[a] \in Int
                           /\ used'[a] = used[a] + charge[a]
    BY <1>7
  <2>3. SumFunctionOnSet(used', Account) =
          SumFunctionOnSet(used, Account) + SumFunctionOnSet(charge, Account)
    BY <2>1, <2>2, SumAdd
  <2>4. SumFunctionOnSet(used, Account) \in Int /\ SumFunctionOnSet(charge, Account) \in Int
    BY <2>1, <2>2, SumInt
  <2>5. SumFunctionOnSet(used, Account) <= disk_norm
    BY <1>2 DEF UsedWithinDisk, SumFunction
  <2>6. SumFunctionOnSet(used', Account) <= disk_norm'
    BY <1>2, <1>3, <1>5, <1>12, <2>3, <2>4, <2>5, SMTT(15)
  <2> QED
    BY <1>8, <2>6 DEF UsedWithinDisk, SumFunction
<1>14. BatchesInv'
  <2>1. batch' = iobatch_new
    BY <1>1 DEF iobatch_clear
  <2>2. \A a \in Account : batch_sound(acct_batch'[a]) /\ ~iobatch_full(acct_batch'[a])
    BY <1>1, <1>4, ClearSound
  <2>3. batch_sound(batch') /\ ~iobatch_full(batch')
    BY <2>1, NewSound
  <2> QED
    BY <2>2, <2>3 DEF BatchesInv
<1>15. CountWithinLimit'
  BY <1>11 DEF CountWithinLimit, count
<1>16. limit' \in [Account -> Int]
  BY <1>2
<1>17. acct_batch' \in [Account -> BatchType] /\ batch' \in BatchType
  <2>1. /\ batch' \in BatchType
        /\ \A a \in Account : acct_batch'[a] \in BatchType
    BY <1>14 DEF BatchesInv, batch_sound
  <2>2. acct_batch' = [a \in Account |-> acct_batch'[a]]
    BY <1>1
  <2> QED
    BY <2>1, <2>2
<1> QED
  BY <1>8, <1>9, <1>10, <1>11, <1>12, <1>13, <1>14, <1>15, <1>16, <1>17, Zenon
  DEF Settled, Grows

\* account_for_causes and do_disk_accounting: the share of a page that was
\* charged when it was dirtied goes from the dirty pages to the batch, and a
\* page that is charged now is charged to the batch, too.
LEMMA AccountForCauses ==
  ASSUME IInv, NEW c \in cause_list, NEW csize \in Nat, NEW off \in Nat,
         account_for_causes(c, csize, off)
  PROVE  /\ Settled
         /\ ios' \in 0..MaxIO /\ inode_pos' = inode_pos /\ causes' = causes
         /\ \A a \in Account : estimate'[a] - batch_estimate'[a] =
                                 estimate[a] - batch_estimate[a] - share(a, c)
<1> DEFINE n    == Cardinality(c.items)
           cost == IF ~c.callback /\ n > 0 THEN PG_SIZE ELSE c.private
           est  == [a \in Account |->
                      estimate[a] + IF ~c.callback /\ a \in c.items THEN safe_div(PG_SIZE, n) ELSE 0]
           tb   == iobatch_add_request(batch, off, csize)
           ab   == [a \in Account |-> IF a \in c.items
                                      THEN iobatch_add_request(acct_batch[a], off, csize)
                                      ELSE acct_batch[a]]
           be   == [a \in Account |->
                      batch_estimate[a] + IF a \in c.items THEN safe_div(cost, n) ELSE 0]
<1>1. /\ ios < MaxIO /\ ios' = ios + 1
      /\ \/ /\ batch_full(tb, ab, c.items)
            /\ finish_batch(tb, ab, est, be)
         \/ /\ ~batch_full(tb, ab, c.items)
            /\ estimate' = est /\ saturate_counts(est, used, limit)
            /\ batch' = tb /\ acct_batch' = ab /\ batch_estimate' = be
            /\ used' = used /\ disk_norm' = disk_norm
      /\ limit' = limit /\ inode_pos' = inode_pos /\ causes' = causes
  BY DEF account_for_causes
<1>2. /\ credit \in [Account -> Int] /\ lost \in [Account -> Nat]
      /\ limit \in [Account -> Int] /\ used \in [Account -> Int] /\ disk_norm \in Nat
      /\ estimate \in [Account -> Int] /\ batch_estimate \in [Account -> Int]
      /\ ios \in 0..MaxIO /\ MaxIO \in Nat
  BY Types, TbChargeAssumption
<1>3. n \in Nat /\ PG_SIZE \in Int /\ c.private \in Int /\ (n = 0 <=> c.items = {})
  BY ItemsFinite DEF PG_SIZE, cause_list
<1> HIDE DEF n
<1>4. cost \in Int
  BY <1>3
<1>5. safe_div(PG_SIZE, n) \in Int /\ safe_div(cost, n) \in Int
  <2> HIDE DEF cost
  <2> QED
    BY <1>3, <1>4, SafeDiv, Zenon
<1>6. est \in [Account -> Int] /\ be \in [Account -> Int]
  <2> HIDE DEF cost
  <2> QED
    BY <1>2, <1>5
<1>7. \A a \in Account : est[a] - be[a] = estimate[a] - batch_estimate[a] - share(a, c)
  <2> SUFFICES ASSUME NEW a \in Account
               PROVE  est[a] - be[a] = estimate[a] - batch_estimate[a] - share(a, c)
    OBVIOUS
  <2>1. estimate[a] \in Int /\ batch_estimate[a] \in Int
    BY <1>2
  <2>2. CASE a \notin c.items
    <3>1. est[a] = estimate[a] + 0 /\ be[a] = batch_estimate[a] + 0 /\ share(a, c) = 0
      BY <2>2 DEF share
    <3> QED
      BY <2>1, <3>1
  <2>3. CASE a \in c.items /\ c.callback
    <3>1. cost = c.private
      BY <2>3
    <3>2. est[a] = estimate[a] + 0 /\ be[a] = batch_estimate[a] + safe_div(c.private, n)
      BY <2>3, <3>1
    <3>3. share(a, c) = safe_div(c.private, n)
      BY <2>3 DEF share, n
    <3> HIDE DEF est, be
    <3> QED
      BY <1>5, <2>1, <3>1, <3>2, <3>3
  <2>4. CASE a \in c.items /\ ~c.callback
    <3>1. cost = PG_SIZE
      BY <1>3, <2>4
    <3>2. /\ est[a] = estimate[a] + safe_div(PG_SIZE, n)
          /\ be[a] = batch_estimate[a] + safe_div(PG_SIZE, n) /\ share(a, c) = 0
      BY <2>4, <3>1 DEF share
    <3> HIDE DEF est, be
    <3> QED
      BY <1>5, <2>1, <3>2
  <2> QED
    BY <2>2, <2>3, <2>4
<1>8. batch_sound(tb) /\ tb.reqs # <<>>
  BY AddSound DEF IInv, BatchesInv
<1>9. \A a \in Account : batch_sound(ab[a]) /\ (a \notin c.items => ab[a] = acct_batch[a])
  BY AddSound DEF IInv, BatchesInv
<1> HIDE DEF est, be, tb, cost
<1>10. ios' \in 0..MaxIO
  BY <1>1, <1>2
<1>11. CASE batch_full(tb, ab, c.items) /\ finish_batch(tb, ab, est, be)
  <2>1. TypeOK /\ UsedWithinDisk
    BY DEF IInv
  <2> HIDE DEF ab
  <2>2. /\ Settled
        /\ \A a \in Account : estimate'[a] - batch_estimate'[a] = est[a] - be[a]
    BY <1>1, <1>6, <1>8, <1>9, <1>11, <2>1, FinishBatch, Zenon
  <2> QED
    BY <1>1, <1>7, <1>10, <2>2
<1>12. CASE /\ ~batch_full(tb, ab, c.items)
            /\ estimate' = est /\ saturate_counts(est, used, limit)
            /\ batch' = tb /\ acct_batch' = ab /\ batch_estimate' = be
            /\ used' = used /\ disk_norm' = disk_norm
  <2>1. ~iobatch_full(tb) /\ \A a \in Account : ~iobatch_full(ab[a])
    <3>1. ~iobatch_full(tb) /\ \A a \in Account : a \in c.items => ~iobatch_full(ab[a])
      BY <1>12 DEF batch_full
    <3>2. \A a \in Account : ~iobatch_full(acct_batch[a])
      BY DEF IInv, BatchesInv
    <3> HIDE DEF ab
    <3> QED
      BY <1>9, <3>1, <3>2
  <2>2. acct_batch' \in [Account -> BatchType] /\ batch' \in BatchType
    <3>1. tb \in BatchType /\ \A a \in Account : ab[a] \in BatchType
      BY <1>8, <1>9 DEF batch_sound
    <3> QED
      BY <1>12, <3>1
  <2> HIDE DEF ab
  <2>3. BatchesInv'
    BY <1>8, <1>9, <1>12, <2>1 DEF BatchesInv
  <2>4. /\ credit' \in [Account -> Int] /\ lost' \in [Account -> Nat]
        /\ \A a \in Account : /\ credit'[a] - (est[a] + used[a]) <= limit[a]
                              /\ lost'[a] >= lost[a]
    BY <1>2, <1>6, <1>12, Saturate
  <2>5. CountWithinLimit'
    BY <1>1, <1>12, <2>4 DEF CountWithinLimit, count
  <2>6. UsedWithinDisk'
    BY <1>12 DEF IInv, UsedWithinDisk
  <2>7. Grows
    BY <1>2, <1>12, <2>4 DEF Grows
  <2>8. Settled
    BY <1>1, <1>2, <1>6, <1>12, <2>2, <2>3, <2>4, <2>5, <2>6, <2>7, Zenon DEF Settled
  <2> QED
    BY <1>1, <1>7, <1>10, <1>12, <2>8
<1> QED
  BY <1>1, <1>11, <1>12

\* The part of the invariant that a step leaves alone when it changes
\* neither batches nor what was used.
LEMMA BatchesKept ==
  ASSUME IInv, UNCHANGED batches
  PROVE  /\ batch_estimate' \in [Account -> Int]
         /\ acct_batch' \in [Account -> BatchType] /\ batch' \in BatchType
         /\ disk_norm' \in Nat /\ ios' \in 0..MaxIO /\ used' \in [Account -> Int]
         /\ BatchesInv' /\ UsedWithinDisk'
<1> SUFFICES ASSUME TypeOK, BatchesInv, UsedWithinDisk,
                    acct_batch' = acct_batch, batch_estimate' = batch_estimate,
                    batch' = batch, used' = used, disk_norm' = disk_norm, ios' = ios
             PROVE  /\ batch_estimate' \in [Account -> Int]
                    /\ acct_batch' \in [Account -> BatchType] /\ batch' \in BatchType
                    /\ disk_norm' \in Nat /\ ios' \in 0..MaxIO /\ used' \in [Account -> Int]
                    /\ BatchesInv' /\ UsedWithinDisk'
  BY DEF IInv, batches
<1>1. BatchesInv'
  BY DEF BatchesInv
<1>2. UsedWithinDisk'
  BY DEF UsedWithinDisk
<1> QED
  BY <1>1, <1>2 DEF TypeOK

\* A new list is sound, and nobody has a share in it.
LEMMA NewList ==
  /\ new_cause_list \in cause_list /\ list_sound(new_cause_list)
  /\ \A a : share(a, new_cause_list) = 0
BY DEF new_cause_list, cause_list, list_sound, share

\* tbucket_causes_dirty: what an account is charged is what its shares grow by.
LEMMA DirtyCharge ==
  ASSUME NEW c \in cause_list, list_sound(c), NEW new \in Account, new \notin c.items,
         NEW cost \in Int, c.private > 0 => cost = c.private, NEW a \in Account, NEW d,
         d = [c EXCEPT !.items = @ \cup {new}, !.callback = TRUE, !.private = cost]
  PROVE  (IF a \in d.items THEN dirty_charge(d, a, new, cost) ELSE 0) = share(a, d) - share(a, c)
<1> DEFINE n == Cardinality(c.items)
<1>1. d \in cause_list /\ d.items = c.items \cup {new} /\ d.callback /\ d.private = cost
  BY Zenon DEF cause_list
<1>2. n \in Nat /\ Cardinality(d.items) = n + 1
  <2>1. IsFiniteSet(c.items) /\ n \in Nat
    BY ItemsFinite
  <2>2. Cardinality(c.items \cup {new}) = n + 1
    BY <2>1, FS_AddElement, Zenon
  <2> QED
    BY <1>1, <2>1, <2>2
<1>3. share(a, c) \in Int /\ share(a, d) \in Int
  BY <1>1, ShareType
<1>4. CASE a \notin d.items
  BY <1>1, <1>4 DEF share
<1>5. CASE a = new
  <2>1. share(a, c) = 0 /\ share(a, d) = safe_div(cost, Cardinality(d.items))
    BY <1>1, <1>5 DEF share
  <2>2. dirty_charge(d, a, new, cost) = safe_div(cost, Cardinality(d.items)) - 0
    BY <1>5 DEF dirty_charge
  <2> QED
    BY <1>1, <1>3, <1>5, <2>1, <2>2
<1>6. CASE a \in d.items /\ a # new
  <2>1. a \in c.items /\ c.callback /\ c.private >= 1
    BY <1>1, <1>6 DEF list_sound
  <2>2. cost = c.private
    BY <2>1 DEF cause_list
  <2>3. share(a, c) = safe_div(cost, n) /\ share(a, d) = safe_div(cost, Cardinality(d.items))
    BY <1>1, <1>6, <2>1, <2>2 DEF share
  <2>4. Cardinality(d.items) - 1 = n
    BY <1>2
  <2>5. dirty_charge(d, a, new, cost) =
          safe_div(cost, Cardinality(d.items)) - safe_div(cost, Cardinality(d.items) - 1)
    BY <1>6 DEF dirty_charge
  <2> QED
    BY <1>6, <2>3, <2>4, <2>5
<1> QED
  BY <1>1, <1>4, <1>5, <1>6

\* A step that changes the lists of one block, and the estimates with them.
LEMMA EstimateStep ==
  ASSUME IInv, NEW b \in Block,
         causes' \in [Block -> cause_list], bio' \in [Block -> cause_list],
         \A x \in Block \ {b} : causes'[x] = causes[x] /\ bio'[x] = bio[x],
         estimate' \in [Account -> Int], batch_estimate' \in [Account -> Int],
         \A a \in Account :
           estimate'[a] - batch_estimate'[a] >=
             estimate[a] - batch_estimate[a] - (share(a, causes[b]) + share(a, bio[b]))
               + (share(a, causes'[b]) + share(a, bio'[b]))
  PROVE  EstimateCovers'
<1> SUFFICES ASSUME NEW a \in Account
             PROVE  estimate'[a] >= outstanding(a)' + batch_estimate'[a]
  BY DEF EstimateCovers
<1> DEFINE old == share(a, causes[b]) + share(a, bio[b])
           new == share(a, causes'[b]) + share(a, bio'[b])
<1>1. /\ estimate \in [Account -> Int] /\ batch_estimate \in [Account -> Int]
      /\ causes \in [Block -> cause_list] /\ bio \in [Block -> cause_list]
  BY Types
<1>2. outstanding(a)' = outstanding(a) - old + new
  BY <1>1, OutstandingChange
<1>3. outstanding(a) \in Int
  BY <1>1, OutstandingType
<1>4. estimate[a] >= outstanding(a) + batch_estimate[a]
  BY DEF IInv, EstimateCovers
<1>5. /\ causes[b] \in cause_list /\ bio[b] \in cause_list
      /\ causes'[b] \in cause_list /\ bio'[b] \in cause_list
  BY <1>1
<1>6. /\ share(a, causes[b]) \in Int /\ share(a, bio[b]) \in Int
      /\ share(a, causes'[b]) \in Int /\ share(a, bio'[b]) \in Int
  BY <1>5, ShareType
<1>7. old \in Int /\ new \in Int
  BY <1>6
<1>8. estimate'[a] - batch_estimate'[a] >= estimate[a] - batch_estimate[a] - old + new
  OBVIOUS
<1>9. /\ estimate[a] \in Int /\ batch_estimate[a] \in Int
      /\ estimate'[a] \in Int /\ batch_estimate'[a] \in Int
  BY <1>1
<1> HIDE DEF old, new
<1> QED
  BY <1>2, <1>3, <1>4, <1>7, <1>8, <1>9, SMTT(15)

\* A step that leaves the lists alone.
LEMMA EstimateKept ==
  ASSUME IInv, causes' = causes, bio' = bio,
         estimate' \in [Account -> Int], batch_estimate' \in [Account -> Int],
         \A a \in Account :
           estimate'[a] - batch_estimate'[a] = estimate[a] - batch_estimate[a]
  PROVE  EstimateCovers'
<1> SUFFICES ASSUME NEW a \in Account
             PROVE  estimate'[a] >= outstanding(a)' + batch_estimate'[a]
  BY DEF EstimateCovers
<1>1. /\ estimate \in [Account -> Int] /\ batch_estimate \in [Account -> Int]
      /\ causes \in [Block -> cause_list] /\ bio \in [Block -> cause_list]
  BY Types
<1>2. outstanding(a)' = outstanding(a)
  BY OutstandingIs
<1>3. outstanding(a) \in Int
  BY <1>1, OutstandingType
<1>4. estimate[a] >= outstanding(a) + batch_estimate[a]
  BY DEF IInv, EstimateCovers
<1> QED
  BY <1>1, <1>2, <1>3, <1>4

\* A step of the dirty and free hooks: the list of one block becomes d, and
\* the estimates change by no less than the shares of the block do.
LEMMA ListChange ==
  ASSUME IInv, NEW b \in Block, NEW d \in cause_list, list_sound(d),
         causes' = [causes EXCEPT ![b] = d], bio' = bio, inode_pos' \in Nat,
         NEW est \in [Account -> Int], estimate' = est, limit' = limit,
         \A a \in Account : est[a] >= estimate[a] + (share(a, d) - share(a, causes[b])),
         saturate_counts(est, used, limit), UNCHANGED batches
  PROVE  IInv' /\ Grows
<1>1. /\ credit \in [Account -> Int] /\ lost \in [Account -> Nat]
      /\ limit \in [Account -> Int] /\ used \in [Account -> Int]
      /\ estimate \in [Account -> Int] /\ batch_estimate \in [Account -> Int]
      /\ causes \in [Block -> cause_list] /\ bio \in [Block -> cause_list]
  BY Types
<1>2. /\ batch_estimate' \in [Account -> Int]
      /\ acct_batch' \in [Account -> BatchType] /\ batch' \in BatchType
      /\ disk_norm' \in Nat /\ ios' \in 0..MaxIO /\ used' \in [Account -> Int]
      /\ BatchesInv' /\ UsedWithinDisk'
  BY BatchesKept
<1>3. used' = used /\ batch_estimate' = batch_estimate
  BY DEF batches
<1>4. causes' \in [Block -> cause_list] /\ causes'[b] = d
  BY <1>1
<1>5. EstimateCovers'
  <2>1. \A x \in Block \ {b} : causes'[x] = causes[x] /\ bio'[x] = bio[x]
    BY <1>1
  <2>2. \A a \in Account :
          estimate'[a] - batch_estimate'[a] >=
            estimate[a] - batch_estimate[a] - (share(a, causes[b]) + share(a, bio[b]))
              + (share(a, causes'[b]) + share(a, bio'[b]))
    <3> SUFFICES ASSUME NEW a \in Account
                 PROVE  est[a] - batch_estimate[a] >=
                          estimate[a] - batch_estimate[a] - (share(a, causes[b]) + share(a, bio[b]))
                            + (share(a, d) + share(a, bio[b]))
      BY <1>3, <1>4
    <3>1. share(a, causes[b]) \in Int /\ share(a, bio[b]) \in Int /\ share(a, d) \in Int
      BY <1>1, ShareType
    <3> QED
      BY <1>1, <3>1
  <2>3. bio' \in [Block -> cause_list] /\ estimate' \in [Account -> Int]
    BY <1>1
  <2> QED
    BY <1>2, <1>4, <2>1, <2>2, <2>3, EstimateStep, Zenon
<1>6. ListsSound'
  BY <1>1 DEF IInv, ListsSound
<1>7. /\ credit' \in [Account -> Int] /\ lost' \in [Account -> Nat]
      /\ \A a \in Account : /\ credit'[a] - (est[a] + used[a]) <= limit[a]
                            /\ lost'[a] >= lost[a]
  BY <1>1, Saturate
<1>8. CountWithinLimit'
  BY <1>3, <1>7 DEF CountWithinLimit, count
<1>9. TypeOK'
  BY <1>1, <1>2, <1>4, <1>7 DEF TypeOK, cause_list
<1>10. Grows
  BY <1>1, <1>3, <1>7 DEF Grows
<1> QED
  BY <1>2, <1>5, <1>6, <1>8, <1>9, <1>10, Zenon DEF IInv

\* tbucket_causes_dirty keeps the invariant: an account that joins a page
\* takes over a part of what the others were charged.
LEMMA CausesDirty ==
  ASSUME IInv, NEW b \in Block, NEW new \in Account, causes_dirty(b, new)
  PROVE  IInv' /\ Grows
<1> DEFINE c    == causes[b]
           cost == IF c.private <= 0 THEN seek_time(offset[b], inode_pos) + PG_SIZE ELSE c.private
           d    == [c EXCEPT !.items = @ \cup {new}, !.callback = TRUE, !.private = cost]
           est  == [a \in Account |->
                      estimate[a] + IF a \in d.items THEN dirty_charge(d, a, new, cost) ELSE 0]
<1>1. c \in cause_list /\ list_sound(c) /\ offset[b] \in Nat /\ inode_pos \in Nat
  BY Types, TbChargeAssumption DEF IInv, ListsSound
<1>2. /\ new \notin c.items
      /\ causes' = [causes EXCEPT ![b] = d] /\ inode_pos' = offset[b] + PG_SIZE
      /\ estimate' = est /\ saturate_counts(est, used, limit)
      /\ UNCHANGED batches /\ bio' = bio /\ limit' = limit
  <2> DEFINE c1 == [c EXCEPT !.items = @ \cup {new}, !.callback = TRUE]
  <2>1. /\ c1.private = c.private /\ d = [c1 EXCEPT !.private = cost] /\ c1.items = d.items
    BY <1>1 DEF cause_list
  <2> QED
    BY <2>1 DEF causes_dirty, dirty_charge
<1>3. seek_time(offset[b], inode_pos) \in Nat /\ PG_SIZE = 1
  <2>1. seek_time(offset[b], inode_pos) \in 0..SEEK_CAP
    BY <1>1, SeekTime, Zenon
  <2> QED
    BY <2>1, IoBatchAssumption DEF PG_SIZE
<1>4. cost \in Int /\ cost >= 1 /\ (c.private > 0 => cost = c.private)
  BY <1>1, <1>3 DEF cause_list
<1> HIDE DEF cost
<1>5. d \in cause_list /\ d.items # {} /\ d.callback /\ d.private = cost
  BY <1>1, <1>4, Zenon DEF cause_list
<1>6. list_sound(d)
  BY <1>4, <1>5 DEF list_sound
<1>7. \A a \in Account : est[a] = estimate[a] + (share(a, d) - share(a, c))
  <2> SUFFICES ASSUME NEW a \in Account
               PROVE  est[a] = estimate[a] + (share(a, d) - share(a, c))
    OBVIOUS
  <2> DEFINE e == IF a \in d.items THEN dirty_charge(d, a, new, cost) ELSE 0
  <2>1. est[a] = estimate[a] + e
    OBVIOUS
  <2> HIDE DEF c, est
  <2>2. e = share(a, d) - share(a, c)
    BY <1>1, <1>2, <1>4, DirtyCharge, Zenon
  <2> QED
    BY <2>1, <2>2
<1>8. \A a \in Account : share(a, c) \in Int /\ share(a, d) \in Int /\ estimate[a] \in Int
  BY <1>1, <1>5, Types, ShareType
<1>9. est \in [Account -> Int]
  <2>1. \A a \in Account : est[a] \in Int
    BY <1>7, <1>8
  <2>2. est = [a \in Account |-> est[a]]
    OBVIOUS
  <2> HIDE DEF est
  <2> QED
    BY <2>1, <2>2
<1> HIDE DEF est, d
<1>10. \A a \in Account : est[a] >= estimate[a] + (share(a, d) - share(a, causes[b]))
  BY <1>7, <1>8
<1>11. inode_pos' \in Nat
  <2>1. inode_pos' = offset[b] + 1
    BY <1>2, <1>3
  <2> QED
    BY <1>1, <2>1
<1> HIDE DEF c
<1> QED
  BY <1>2, <1>5, <1>6, <1>9, <1>10, <1>11, ListChange, Zenon

\* tbucket_causes_free keeps the invariant: no account gets back more than
\* its share.
LEMMA CausesFree ==
  ASSUME IInv, NEW b \in Block, causes_free(b)
  PROVE  IInv' /\ Grows
<1> DEFINE c   == causes[b]
           refund(a) == IF a \in c.items THEN safe_div(PG_SIZE, Cardinality(c.items)) ELSE 0
           est == [a \in Account |-> estimate[a] - refund(a)]
<1>1. /\ c.callback /\ causes' = [causes EXCEPT ![b] = new_cause_list]
      /\ estimate' = est /\ saturate_counts(est, used, limit)
      /\ UNCHANGED batches /\ bio' = bio /\ inode_pos' = inode_pos /\ limit' = limit
  BY DEF causes_free
<1>2. c \in cause_list /\ list_sound(c) /\ estimate \in [Account -> Int] /\ inode_pos \in Nat
  BY Types DEF IInv, ListsSound
<1>3. \A a \in Account : /\ refund(a) \in Int /\ share(a, c) \in Int
                         /\ refund(a) <= share(a, c)
  <2> SUFFICES ASSUME NEW a \in Account
               PROVE  refund(a) \in Int /\ refund(a) <= share(a, c)
    BY <1>2, ShareType
  <2>1. Cardinality(c.items) \in Nat /\ PG_SIZE = 1 /\ c.private \in Int
    BY <1>2, ItemsFinite DEF PG_SIZE, cause_list
  <2>2. CASE a \in c.items
    <3>1. share(a, c) = safe_div(c.private, Cardinality(c.items)) /\ c.private >= 1
      BY <1>1, <1>2, <2>2 DEF share, list_sound
    <3>2. PG_SIZE \in Nat /\ c.private \in Nat /\ PG_SIZE <= c.private /\ PG_SIZE \in Int
      BY <2>1, <3>1
    <3>3. safe_div(PG_SIZE, Cardinality(c.items)) \in Int
      BY <2>1, <3>2, SafeDiv
    <3>4. safe_div(PG_SIZE, Cardinality(c.items)) <= safe_div(c.private, Cardinality(c.items))
      BY <2>1, <3>2, SafeDivMonotonic
    <3> QED
      BY <2>2, <3>1, <3>3, <3>4
  <2>3. CASE a \notin c.items
    BY <2>3 DEF share
  <2> QED
    BY <2>2, <2>3
<1>4. est \in [Account -> Int] /\ \A a \in Account : est[a] = estimate[a] - refund(a)
  <2> HIDE DEF refund
  <2> QED
    BY <1>2, <1>3
<1> HIDE DEF refund, est
<1>5. \A a \in Account : est[a] >= estimate[a] + (0 - share(a, c))
  BY <1>2, <1>3, <1>4
<1>6. \A a \in Account :
        est[a] >= estimate[a] + (share(a, new_cause_list) - share(a, causes[b]))
  BY <1>5, NewList
<1> HIDE DEF c
<1> QED
  BY <1>1, <1>2, <1>4, <1>6, NewList, ListChange, Zenon

\* move_causes_bh_to_bio: the charge goes with the list.
LEMMA MoveCauses ==
  ASSUME IInv, NEW b \in Block, move_causes_bh_to_bio(b)
  PROVE  IInv' /\ Grows
<1>1. /\ credit \in [Account -> Int] /\ lost \in [Account -> Nat]
      /\ limit \in [Account -> Int] /\ used \in [Account -> Int]
      /\ estimate \in [Account -> Int] /\ batch_estimate \in [Account -> Int]
      /\ causes \in [Block -> cause_list] /\ bio \in [Block -> cause_list]
      /\ inode_pos \in Nat
  BY Types
<1>2. /\ bio[b].items = {}
      /\ bio' = [bio EXCEPT ![b] = causes[b]] /\ causes' = [causes EXCEPT ![b] = new_cause_list]
      /\ credit' = credit /\ lost' = lost /\ limit' = limit /\ estimate' = estimate
      /\ UNCHANGED batches /\ inode_pos' = inode_pos
  BY DEF move_causes_bh_to_bio, tokens
<1>3. bio[b] = new_cause_list
  BY <1>2 DEF IInv, ListsSound, list_sound
<1>4. /\ causes' \in [Block -> cause_list] /\ causes'[b] = new_cause_list
      /\ bio' \in [Block -> cause_list] /\ bio'[b] = causes[b]
  BY <1>1, <1>2, NewList
<1>5. used' = used /\ batch_estimate' = batch_estimate
  BY <1>2 DEF batches
<1>6. EstimateCovers'
  <2>1. \A x \in Block \ {b} : causes'[x] = causes[x] /\ bio'[x] = bio[x]
    BY <1>1, <1>2
  <2>2. \A a \in Account :
          estimate'[a] - batch_estimate'[a] >=
            estimate[a] - batch_estimate[a] - (share(a, causes[b]) + share(a, bio[b]))
              + (share(a, causes'[b]) + share(a, bio'[b]))
    <3> SUFFICES ASSUME NEW a \in Account
                 PROVE  estimate[a] - batch_estimate[a] >=
                          estimate[a] - batch_estimate[a] - (share(a, causes[b]) + 0)
                            + (0 + share(a, causes[b]))
      BY <1>2, <1>3, <1>4, <1>5, NewList, Zenon
    <3>1. share(a, causes[b]) \in Int
      BY <1>1, ShareType
    <3> QED
      BY <1>1, <3>1
  <2>3. estimate' \in [Account -> Int] /\ batch_estimate' \in [Account -> Int]
    BY <1>1, <1>2, <1>5
  <2> QED
    BY <1>4, <2>1, <2>2, <2>3, EstimateStep, Zenon
<1>7. ListsSound'
  BY <1>1, <1>2, NewList DEF IInv, ListsSound
<1>8. CountWithinLimit'
  BY <1>2, <1>5 DEF IInv, CountWithinLimit, count
<1>9. /\ batch_estimate' \in [Account -> Int]
      /\ acct_batch' \in [Account -> BatchType] /\ batch' \in BatchType
      /\ disk_norm' \in Nat /\ ios' \in 0..MaxIO /\ used' \in [Account -> Int]
      /\ BatchesInv' /\ UsedWithinDisk'
  BY <1>2, BatchesKept
<1>10. TypeOK'
  BY <1>1, <1>2, <1>4, <1>9 DEF TypeOK, cause_list
<1>11. Grows
  BY <1>1, <1>2, <1>5 DEF Grows
<1> QED
  BY <1>6, <1>7, <1>8, <1>9, <1>10, <1>11, Zenon DEF IInv

\* The dispatch of a page that was charged when it was dirtied.
LEMMA DispatchData ==
  ASSUME IInv, NEW b \in Block, dispatch_data(b)
  PROVE  IInv' /\ Grows
<1>1. /\ causes \in [Block -> cause_list] /\ bio \in [Block -> cause_list]
      /\ estimate \in [Account -> Int] /\ batch_estimate \in [Account -> Int]
      /\ inode_pos \in Nat /\ offset[b] \in Nat /\ PG_SIZE \in Nat
  BY Types, TbChargeAssumption DEF PG_SIZE
<1>2. /\ account_for_causes(bio[b], PG_SIZE, offset[b])
      /\ bio' = [bio EXCEPT ![b] = new_cause_list]
  BY DEF dispatch_data
<1>3. /\ Settled
      /\ ios' \in 0..MaxIO /\ inode_pos' = inode_pos /\ causes' = causes
      /\ \A a \in Account : estimate'[a] - batch_estimate'[a] =
                              estimate[a] - batch_estimate[a] - share(a, bio[b])
  <2>1. bio[b] \in cause_list
    BY <1>1
  <2> QED
    BY <1>1, <1>2, <2>1, AccountForCauses
<1>4. causes' \in [Block -> cause_list] /\ bio' \in [Block -> cause_list]
  BY <1>1, <1>2, <1>3, NewList, Zenon
<1>5. EstimateCovers'
  <2>1. \A x \in Block \ {b} : causes'[x] = causes[x] /\ bio'[x] = bio[x]
    BY <1>1, <1>2, <1>3
  <2>2. \A a \in Account :
          estimate'[a] - batch_estimate'[a] >=
            estimate[a] - batch_estimate[a] - (share(a, causes[b]) + share(a, bio[b]))
              + (share(a, causes'[b]) + share(a, bio'[b]))
    <3> SUFFICES ASSUME NEW a \in Account
                 PROVE  estimate[a] - batch_estimate[a] - share(a, bio[b]) >=
                          estimate[a] - batch_estimate[a] - (share(a, causes[b]) + share(a, bio[b]))
                            + (share(a, causes[b]) + 0)
      BY <1>1, <1>2, <1>3, NewList
    <3>1. share(a, causes[b]) \in Int /\ share(a, bio[b]) \in Int
      BY <1>1, ShareType
    <3> QED
      BY <1>1, <3>1
  <2>3. estimate' \in [Account -> Int] /\ batch_estimate' \in [Account -> Int]
    BY <1>3 DEF Settled
  <2> QED
    BY <1>4, <2>1, <2>2, <2>3, EstimateStep, Zenon
<1>6. ListsSound'
  BY <1>1, <1>2, <1>3, NewList DEF IInv, ListsSound
<1>7. TypeOK'
  BY <1>1, <1>3, <1>4 DEF TypeOK, cause_list, Settled
<1> QED
  BY <1>3, <1>5, <1>6, <1>7, Zenon DEF IInv, Settled

\* Nobody has a share in a list that was not charged.
LEMMA UnchargedList ==
  ASSUME NEW s \in SUBSET Account
  PROVE  /\ [new_cause_list EXCEPT !.items = s] \in cause_list
         /\ \A a : share(a, [new_cause_list EXCEPT !.items = s]) = 0
<1> DEFINE c == [new_cause_list EXCEPT !.items = s]
<1>1. c \in cause_list
  BY NewList DEF cause_list
<1>2. c.callback = FALSE
  BY DEF new_cause_list
<1>3. \A a : share(a, c) = 0
  BY <1>2 DEF share
<1> QED
  BY <1>1, <1>3, Zenon

\* The dispatch of a list that was never dirtied.
LEMMA DispatchOther ==
  ASSUME IInv, NEW items \in SUBSET Account, NEW csize \in Nat, NEW off \in Nat,
         account_for_causes([new_cause_list EXCEPT !.items = items], csize, off),
         bio' = bio
  PROVE  IInv' /\ Grows
<1> DEFINE c == [new_cause_list EXCEPT !.items = items]
<1>1. /\ causes \in [Block -> cause_list] /\ bio \in [Block -> cause_list]
      /\ estimate \in [Account -> Int] /\ batch_estimate \in [Account -> Int]
      /\ inode_pos \in Nat
  BY Types
<1>2. c \in cause_list /\ \A a : share(a, c) = 0
  BY UnchargedList, Zenon
<1> HIDE DEF c
<1>3. /\ Settled
      /\ ios' \in 0..MaxIO /\ inode_pos' = inode_pos /\ causes' = causes
      /\ \A a \in Account : estimate'[a] - batch_estimate'[a] =
                              estimate[a] - batch_estimate[a] - share(a, c)
  <2>1. account_for_causes(c, csize, off)
    BY DEF c
  <2> QED
    BY <1>2, <2>1, AccountForCauses
<1>4. EstimateCovers'
  <2>1. estimate' \in [Account -> Int] /\ batch_estimate' \in [Account -> Int]
    BY <1>3 DEF Settled
  <2>2. \A a \in Account :
          estimate'[a] - batch_estimate'[a] = estimate[a] - batch_estimate[a]
    BY <1>1, <1>2, <1>3
  <2> QED
    BY <1>3, <2>1, <2>2, EstimateKept
<1>5. ListsSound'
  BY <1>3 DEF IInv, ListsSound
<1>6. TypeOK'
  BY <1>1, <1>3 DEF TypeOK, cause_list, Settled
<1> QED
  BY <1>3, <1>4, <1>5, <1>6 DEF IInv, Settled

\* Income and settings change the tokens only.
LEMMA TokensOnly ==
  ASSUME IInv, UNCHANGED <<estimate, batches, causes, bio, inode_pos>>,
         credit' \in [Account -> Int], lost' \in [Account -> Nat], limit' \in [Account -> Int],
         \A a \in Account : /\ credit'[a] - (estimate[a] + used[a]) <= limit'[a]
                            /\ lost'[a] >= lost[a]
  PROVE  IInv' /\ Grows
<1>1. /\ causes \in [Block -> cause_list] /\ bio \in [Block -> cause_list]
      /\ estimate \in [Account -> Int] /\ batch_estimate \in [Account -> Int]
      /\ inode_pos \in Nat /\ used \in [Account -> Int]
  BY Types
<1>2. /\ estimate' = estimate /\ causes' = causes /\ bio' = bio /\ inode_pos' = inode_pos
      /\ used' = used /\ batch_estimate' = batch_estimate /\ UNCHANGED batches
  BY DEF batches
<1>3. EstimateCovers'
  BY <1>1, <1>2, EstimateKept
<1>4. ListsSound'
  BY <1>2 DEF IInv, ListsSound
<1>5. CountWithinLimit'
  BY <1>2 DEF CountWithinLimit, count
<1>6. /\ batch_estimate' \in [Account -> Int]
      /\ acct_batch' \in [Account -> BatchType] /\ batch' \in BatchType
      /\ disk_norm' \in Nat /\ ios' \in 0..MaxIO /\ used' \in [Account -> Int]
      /\ BatchesInv' /\ UsedWithinDisk'
  BY <1>2, BatchesKept
<1>7. TypeOK'
  BY <1>1, <1>2, <1>6 DEF TypeOK, cause_list
<1>8. Grows
  BY <1>1, <1>2 DEF Grows
<1> QED
  BY <1>3, <1>4, <1>5, <1>6, <1>7, <1>8, Zenon DEF IInv

\* An account gets x tokens, of which those above the limit are lost.
LEMMA CreditChange ==
  ASSUME IInv, NEW a \in Account, NEW x \in Int, NEW over, over = count(a) + x - limit[a],
         credit' = [credit EXCEPT ![a] = @ + x - Max({over, 0})],
         lost' = [lost EXCEPT ![a] = @ + Max({over, 0})], limit' = limit,
         UNCHANGED <<estimate, batches, causes, bio, inode_pos>>
  PROVE  IInv' /\ Grows
<1> DEFINE diff == Max({over, 0})
<1>1. /\ credit \in [Account -> Int] /\ lost \in [Account -> Nat] /\ limit \in [Account -> Int]
      /\ estimate \in [Account -> Int] /\ used \in [Account -> Int]
  BY Types
<1>2. over \in Int /\ 0 \in Int /\ over = credit[a] - (estimate[a] + used[a]) + x - limit[a]
  BY <1>1 DEF count
<1>3. diff \in Nat /\ diff >= over
  <2>1. diff = IF over <= 0 THEN 0 ELSE over
    BY <1>2, MinMaxOfTwo, Zenon
  <2> QED
    BY <1>2, <2>1
<1> HIDE DEF diff
<1>4. credit' = [credit EXCEPT ![a] = @ + x - diff] /\ lost' = [lost EXCEPT ![a] = @ + diff]
  BY DEF diff
<1>5. credit' \in [Account -> Int] /\ lost' \in [Account -> Nat]
  BY <1>1, <1>3, <1>4
<1>6. \A y \in Account : /\ credit'[y] - (estimate[y] + used[y]) <= limit'[y]
                         /\ lost'[y] >= lost[y]
  <2> SUFFICES ASSUME NEW y \in Account
               PROVE  credit'[y] - (estimate[y] + used[y]) <= limit[y] /\ lost'[y] >= lost[y]
    OBVIOUS
  <2>1. CASE y # a
    BY <1>1, <1>4, <2>1 DEF IInv, CountWithinLimit, count
  <2>2. CASE y = a
    <3>1. credit'[a] = credit[a] + x - diff /\ lost'[a] = lost[a] + diff
      BY <1>1, <1>4
    <3> QED
      BY <1>1, <1>2, <1>3, <2>2, <3>1, SMTT(15)
  <2> QED
    BY <2>1, <2>2
<1> QED
  BY <1>1, <1>5, <1>6, TokensOnly, Zenon

\* refresh_count keeps the invariant.
LEMMA RefreshCount ==
  ASSUME IInv, NEW a \in Account, refresh_count(a)
  PROVE  IInv' /\ Grows
<1>1. PICK inc \in Incomes :
        LET diff == Max({count(a) + inc - limit[a], 0}) IN
        /\ credit' = [credit EXCEPT ![a] = @ + inc - diff]
        /\ lost' = [lost EXCEPT ![a] = @ + diff]
  BY Zenon DEF refresh_count
<1>2. inc \in Int
  BY TbChargeAssumption
<1>3. limit' = limit /\ UNCHANGED <<estimate, batches, causes, bio, inode_pos>>
  BY DEF refresh_count
<1> QED
  BY <1>1, <1>2, <1>3, CreditChange, Zenon

\* tbucket_kv_set "count" keeps the invariant.
LEMMA KvSetCount ==
  ASSUME IInv, NEW a \in Account, kv_set_count(a)
  PROVE  IInv' /\ Grows
<1>1. PICK v \in Limits :
        LET diff == Max({v - limit[a], 0}) IN
        /\ credit' = [credit EXCEPT ![a] = @ + v - count(a) - diff]
        /\ lost' = [lost EXCEPT ![a] = @ + diff]
  BY Zenon DEF kv_set_count
<1> DEFINE x    == v - count(a)
           over == v - limit[a]
           diff == Max({over, 0})
<1>2. /\ credit \in [Account -> Int] /\ limit \in [Account -> Int]
      /\ count(a) \in Int /\ v \in Int
  BY Types, TbChargeAssumption DEF count
<1>3. x \in Int /\ over \in Int /\ 0 \in Int /\ over = count(a) + x - limit[a]
  BY <1>2
<1> HIDE DEF over
<1>4. diff \in Int
  BY <1>3, MinMaxOfTwo, Zenon
<1>5. /\ credit' = [credit EXCEPT ![a] = credit[a] + v - count(a) - diff]
      /\ lost' = [lost EXCEPT ![a] = @ + diff]
  BY <1>1 DEF over
<1>6. credit[a] + v - count(a) - diff = credit[a] + x - diff
  <2> HIDE DEF diff
  <2> QED
    BY <1>2, <1>4
<1>7. credit' = [credit EXCEPT ![a] = @ + x - diff]
  BY <1>5, <1>6
<1>8. limit' = limit /\ UNCHANGED <<estimate, batches, causes, bio, inode_pos>>
  BY DEF kv_set_count
<1> HIDE DEF x
<1> QED
  BY <1>3, <1>5, <1>7, <1>8, CreditChange, Zenon

\* tbucket_kv_set "limit" keeps the invariant.
LEMMA KvSetLimit ==
  ASSUME IInv, NEW a \in Account, kv_set_limit(a)
  PROVE  IInv' /\ Grows
<1>1. PICK v \in Limits : /\ limit' = [limit EXCEPT ![a] = v]
                          /\ saturate_counts(estimate, used, limit')
  BY Zenon DEF kv_set_limit
<1>2. /\ credit \in [Account -> Int] /\ lost \in [Account -> Nat] /\ limit \in [Account -> Int]
      /\ estimate \in [Account -> Int] /\ used \in [Account -> Int] /\ v \in Int
  BY Types, TbChargeAssumption
<1>3. limit' \in [Account -> Int]
  BY <1>1, <1>2
<1>4. /\ credit' \in [Account -> Int] /\ lost' \in [Account -> Nat]
      /\ \A x \in Account : /\ credit'[x] - (estimate[x] + used[x]) <= limit'[x]
                            /\ lost'[x] >= lost[x]
  BY <1>1, <1>2, <1>3, Saturate, Zenon
<1>5. UNCHANGED <<estimate, batches, causes, bio, inode_pos>>
  BY DEF kv_set_limit
<1> QED
  BY <1>3, <1>4, <1>5, TokensOnly

(***************************************************************************)
(* Theorems.                                                               *)
(***************************************************************************)

\* The invariant holds when the queue is set up.
LEMMA IInvInit ==
  ASSUME Init
  PROVE  IInv
<1>1. IsFiniteSet(Account) /\ IsFiniteSet(Block) /\ MaxIO \in Nat
  BY TbChargeAssumption
<1>2. TypeOK
  <2>1. iobatch_new \in BatchType
    BY NewSound, Zenon DEF batch_sound
  <2>2. new_cause_list \in cause_list
    BY NewList
  <2> QED
    BY <1>1, <2>1, <2>2 DEF Init, TypeOK, cause_list, zero, new_batches
<1>3. ListsSound
  BY NewList DEF Init, ListsSound
<1>4. BatchesInv
  BY NewSound DEF Init, BatchesInv, new_batches
<1>5. EstimateCovers
  <2> SUFFICES ASSUME NEW a \in Account PROVE estimate[a] >= outstanding(a) + batch_estimate[a]
    BY DEF EstimateCovers
  <2> DEFINE f == shares(a, causes, bio)
  <2>1. \A b \in Block : f[b] = 0
    BY NewList DEF Init, shares
  <2>2. outstanding(a) = SumFunctionOnSet(f, Block)
    BY OutstandingIs
  <2> HIDE DEF f
  <2>3. SumFunctionOnSet(f, Block) = Cardinality(Block) * 0
    BY <1>1, <2>1, SumConstant
  <2>4. Cardinality(Block) \in Nat
    BY <1>1, FS_CardinalityType
  <2>5. estimate[a] = 0 /\ batch_estimate[a] = 0
    BY DEF Init, zero
  <2> QED
    BY <2>2, <2>3, <2>4, <2>5, SMTT(15)
<1>6. CountWithinLimit
  BY DEF Init, CountWithinLimit, count, zero
<1>7. UsedWithinDisk
  <2>1. used = [a \in Account |-> 0] /\ disk_norm = 0
    BY DEF Init, zero
  <2>2. SumFunctionOnSet(used, Account) = Cardinality(Account) * 0
    BY <1>1, <2>1, SumConstant
  <2>3. Cardinality(Account) \in Nat
    BY <1>1, FS_CardinalityType
  <2> QED
    BY <2>1, <2>2, <2>3 DEF UsedWithinDisk, SumFunction
<1> QED
  BY <1>2, <1>3, <1>4, <1>5, <1>6, <1>7, Zenon DEF IInv

\* Every hook keeps the invariant, and no account's use or loss goes down.
LEMMA IInvStep ==
  ASSUME IInv, [Next]_vars
  PROVE  IInv' /\ Grows
<1>0. PG_SIZE \in Nat /\ 0 \in Nat /\ OtherOffsets \subseteq Nat
  BY TbChargeAssumption DEF PG_SIZE
<1>1. ASSUME NEW b \in Block, causes_free(b) \/ move_causes_bh_to_bio(b) \/ dispatch_data(b)
      PROVE  IInv' /\ Grows
  BY <1>1, CausesFree, MoveCauses, DispatchData
<1>2. ASSUME NEW b \in Block, NEW a \in Account, causes_dirty(b, a)
      PROVE  IInv' /\ Grows
  BY <1>2, CausesDirty
<1>3. ASSUME NEW off \in OtherOffsets, NEW a \in Account, dispatch_untagged(off, a)
      PROVE  IInv' /\ Grows
  <2>1. {a} \in SUBSET Account /\ off \in Nat
    BY <1>0
  <2> QED
    BY <1>0, <1>3, <2>1, DispatchOther, Zenon DEF dispatch_untagged
<1>4. ASSUME NEW off \in OtherOffsets, NEW items \in SUBSET Account, dispatch_journal(off, items)
      PROVE  IInv' /\ Grows
  BY <1>0, <1>4, DispatchOther DEF dispatch_journal
<1>5. ASSUME NEW a \in Account, refresh_count(a) \/ kv_set_limit(a) \/ kv_set_count(a)
      PROVE  IInv' /\ Grows
  BY <1>5, RefreshCount, KvSetLimit, KvSetCount
<1>6. ASSUME UNCHANGED vars
      PROVE  IInv' /\ Grows
  <2>1. /\ credit' = credit /\ lost' = lost /\ limit' = limit
        /\ UNCHANGED <<estimate, batches, causes, bio, inode_pos>>
    BY <1>6 DEF vars, tokens
  <2>2. /\ credit \in [Account -> Int] /\ lost \in [Account -> Nat] /\ limit \in [Account -> Int]
        /\ \A a \in Account : credit[a] - (estimate[a] + used[a]) <= limit[a]
    BY DEF IInv, TypeOK, CountWithinLimit, count
  <2>3. \A a \in Account : /\ credit'[a] - (estimate[a] + used[a]) <= limit'[a]
                           /\ lost'[a] >= lost[a]
    BY <2>1, <2>2
  <2> QED
    BY <2>1, <2>2, <2>3, TokensOnly, Zenon
<1> QED
  BY <1>1, <1>2, <1>3, <1>4, <1>5, <1>6, Zenon DEF Next

\* The invariant holds in the life of an instance of the scheduler.
THEOREM Charging ==
  Spec => []IInv
<1>1. Init => IInv
  BY IInvInit
<1>2. IInv /\ [Next]_vars => IInv'
  BY IInvStep
<1> QED
  BY <1>1, <1>2, PTL DEF Spec

\* All fields have their types: batches are sequences of requests, and
\* what is lost to the limit is never negative.
THEOREM TypeCorrect ==
  Spec => []TypeOK
<1>1. IInv => TypeOK
  BY DEF IInv
<1> QED
  BY <1>1, Charging, PTL

\* No account is charged too little, however many accounts share a page and
\* however many pages are dirtied, freed, submitted and dispatched.
THEOREM NoUndercharge ==
  Spec => []EstimateCovers
<1>1. IInv => EstimateCovers
  BY DEF IInv
<1> QED
  BY <1>1, Charging, PTL

\* Within the life of one instance of the scheduler, what do_disk_accounting
\* takes back of the estimate was charged before.
THEOREM BatchWasCharged ==
  Spec => []BatchEstimateCharged
<1>1. IInv => BatchEstimateCharged
  <2> SUFFICES ASSUME IInv, NEW a \in Account PROVE estimate[a] >= batch_estimate[a]
    BY DEF BatchEstimateCharged
  <2>1. /\ causes \in [Block -> cause_list] /\ bio \in [Block -> cause_list]
        /\ estimate \in [Account -> Int] /\ batch_estimate \in [Account -> Int]
    BY Types
  <2>2. ListsSound
    BY DEF IInv
  <2>3. outstanding(a) \in Nat
    BY <2>1, <2>2, OutstandingType
  <2>4. estimate[a] >= outstanding(a) + batch_estimate[a]
    BY DEF IInv, EstimateCovers
  <2> QED
    BY <2>1, <2>3, <2>4
<1> QED
  BY <1>1, Charging, PTL

\* Between two hooks no batch is full, cached costs are coherent, and the
\* cost of every batch is within its bounds, for batches of any length.
THEOREM SoundBatches ==
  Spec => []BatchesSound
<1>1. IInv => BatchesSound
  BY SoundMeans DEF IInv, BatchesInv, BatchesSound
<1> QED
  BY <1>1, Charging, PTL

\* Between two hooks no account has saved up more than its limit.
THEOREM WithinLimit ==
  Spec => []CountWithinLimit
<1>1. IInv => CountWithinLimit
  BY DEF IInv
<1> QED
  BY <1>1, Charging, PTL

\* Together the accounts are never charged more disk time than was used.
THEOREM WithinDisk ==
  Spec => []UsedWithinDisk
<1>1. IInv => UsedWithinDisk
  BY DEF IInv
<1> QED
  BY <1>1, Charging, PTL

\* What an account has used and lost never goes down.
THEOREM NeverGoesDown ==
  Spec => Monotonic
<1>1. IInv /\ [Next]_vars => [Grows]_vars
  BY IInvStep
<1> QED
  BY <1>1, Charging, PTL DEF Spec, Monotonic, Grows

=============================================================================
