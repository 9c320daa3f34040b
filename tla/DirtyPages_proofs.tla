-------------------------- MODULE DirtyPages_proofs --------------------------
(***************************************************************************)
(* Proofs about DirtyPages: the hooks count each page once, and do not     *)
(* take the count below zero.                                              *)
(***************************************************************************)
EXTENDS DirtyPages, FiniteSetTheorems, TLAPS

\* A value of i_private1 whose low byte can be that of a non-negative magic
\* number does not have a negative count.
NonNegative(v) == v % 256 < 128 => v >= 0

\* Before the first switch and the first correction the value is made of the
\* magic number and the number of tagged lists, or no page was ever counted.
Exact(v) ==
  IF has_magic(v, magic) THEN v = magic + 256 * Cardinality(tagged) ELSE tagged = {}

\* The parts of TypeOK: the counting, the lists, the processes.
CountType == i_private1 \in Int /\ hook \in Seq(Int) /\ Len(hook) <= 1
ListType ==
  /\ magic \in Magics /\ tagged \subseteq List /\ other_uniq \subseteq tagged
  /\ dirtied \in 0..MaxDirtied /\ switches \in 0..MaxSwitches
FsyncType ==
  /\ pc \in [Proc -> {"idle", "loop", "asleep", "check", "test", "load", "store", "reread"}]
  /\ num \in [Proc -> Int] /\ reg \in [Proc -> Int] /\ old_dd \subseteq Proc

\* What the invariant adds to TypeOK.
Counts ==
  /\ ~corrected => NonNegative(i_private1) /\ NonNegative(settled)
  /\ switches = 0 => other_uniq = {}
  /\ switches = 0 /\ ~corrected /\ magic >= 0 => Exact(settled)

\* The inductive invariant.  The values of i_private1 and of a hook that has
\* not ended are both non-negative; what the hooks have made of it is exact.
\* No list has another sched_uniq before the first switch.
IInv == TypeOK /\ Counts

\* The type invariant is its parts.
LEMMA TypeParts == TypeOK <=> CountType /\ ListType /\ FsyncType /\ corrected \in BOOLEAN
BY Zenon DEF TypeOK, CountType, ListType, FsyncType

\* The same of the next state.
LEMMA TypePartsNext ==
  TypeOK' <=> CountType' /\ ListType' /\ FsyncType' /\ corrected' \in BOOLEAN
BY Zenon DEF TypeOK, CountType, ListType, FsyncType

\* Magic numbers are signed bytes, so equal low bytes of non-negative ones are
\* equal magic numbers, and below 128.
LEMMA MagicByte ==
  ASSUME NEW m \in Magics, m >= 0
  PROVE  m \in 0..127 /\ m % 256 = m
<1>1. m \in -128..127
  BY DirtyPagesAssumption
<1> QED
  BY <1>1

\* What inode_inc_dirty_pages gives is an integer, and not negative if its
\* argument is not and its magic number is not.
LEMMA IncNonNegative ==
  ASSUME NEW v \in Int, NEW n \in {-1, 1}, magic \in Magics, NonNegative(v)
  PROVE  inode_inc_dirty_pages(v, n) \in Int /\ NonNegative(inode_inc_dirty_pages(v, n))
<1> DEFINE w == check_dirty_number(v, magic)
<1>1. magic \in -128..127
  BY DirtyPagesAssumption
<1>2. w \in Int /\ (w % 256 < 128 => w >= 0)
  BY <1>1 DEF check_dirty_number, has_magic, NonNegative
<1>3. inode_inc_dirty_pages(v, n) = IF n < 0 /\ w \div 256 + n < 0 THEN w ELSE w + n * 256
  BY DEF inode_inc_dirty_pages, inode_get_dirty_pages
<1> HIDE DEF w
<1>4. CASE n < 0 /\ w \div 256 + n < 0
  BY <1>2, <1>3, <1>4 DEF NonNegative
<1>5. CASE ~(n < 0 /\ w \div 256 + n < 0)
  <2>1. w + n * 256 \in Int /\ (w + n * 256) % 256 = w % 256
    BY <1>2
  <2>2. w % 256 < 128 => w + n * 256 >= 0
    BY <1>2, <1>5
  <2> QED
    BY <1>3, <1>5, <2>1, <2>2 DEF NonNegative
<1> QED
  BY <1>4, <1>5

\* One page more: the count of an exact value goes up by one.
LEMMA IncExact ==
  ASSUME NEW v \in Int, magic \in Magics, magic >= 0, NEW k \in Nat,
         IF has_magic(v, magic) THEN v = magic + 256 * k ELSE k = 0
  PROVE  inode_inc_dirty_pages(v, 1) = magic + 256 * (k + 1)
<1>1. magic \in 0..127 /\ magic % 256 = magic
  BY MagicByte
<1>2. check_dirty_number(v, magic) = magic + 256 * k
  BY <1>1 DEF check_dirty_number
<1> QED
  BY <1>1, <1>2 DEF inode_inc_dirty_pages

\* One page less: there is one to count out, so the guard against negative
\* counts does not stop the hook.
LEMMA DecExact ==
  ASSUME NEW v \in Int, magic \in Magics, magic >= 0, NEW k \in Nat \ {0},
         IF has_magic(v, magic) THEN v = magic + 256 * k ELSE k = 0
  PROVE  inode_inc_dirty_pages(v, -1) = magic + 256 * (k - 1)
<1>1. magic \in 0..127 /\ magic % 256 = magic
  BY MagicByte
<1>2. check_dirty_number(v, magic) = magic + 256 * k
  BY <1>1 DEF check_dirty_number
<1>3. (magic + 256 * k) \div 256 = k
  BY <1>1
<1> QED
  BY <1>1, <1>2, <1>3 DEF inode_inc_dirty_pages, inode_get_dirty_pages

\* A hook that starts keeps the type of its value and leaves it non-negative.
LEMMA RunHook ==
  ASSUME IInv, NEW n \in {-1, 1}, run_hook(n), UNCHANGED <<i_private1, magic, corrected>>
  PROVE  /\ hook' \in Seq(Int) /\ Len(hook') <= 1
         /\ settled = i_private1 /\ settled' = inode_inc_dirty_pages(i_private1, n)
         /\ ~corrected' => NonNegative(i_private1') /\ NonNegative(settled')
<1> DEFINE w == inode_inc_dirty_pages(i_private1, n)
<1>1. i_private1 \in Int /\ magic \in Magics
  BY DEF IInv, TypeOK
<1>2. w \in Int
  <2>1. magic \in -128..127
    BY <1>1, DirtyPagesAssumption
  <2>2. check_dirty_number(i_private1, magic) \in Int
    BY <1>1, <2>1 DEF check_dirty_number
  <2> QED
    BY <2>2 DEF inode_inc_dirty_pages, inode_get_dirty_pages
<1>3. hook = <<>> /\ hook' = <<w>>
  BY DEF run_hook
<1>4. settled = i_private1
  BY <1>3 DEF settled
<1> HIDE DEF w
<1>5. hook' \in Seq(Int) /\ Len(hook') <= 1 /\ hook' # <<>> /\ hook'[1] = w
  BY <1>2, <1>3
<1>6. settled' = w
  BY <1>5 DEF settled
<1>7. ~corrected => NonNegative(w)
  BY <1>1, IncNonNegative DEF w, IInv, Counts
<1>8. ~corrected => NonNegative(i_private1)
  BY DEF IInv, Counts
<1>9. ~corrected' => NonNegative(i_private1') /\ NonNegative(settled')
  BY <1>6, <1>7, <1>8 DEF NonNegative
<1> QED
  BY <1>4, <1>5, <1>6, <1>9 DEF w

\* The lists are finitely many, so that tagged ones can be counted.
LEMMA TaggedFinite ==
  ASSUME TypeOK
  PROVE  IsFiniteSet(tagged) /\ Cardinality(tagged) \in Nat
<1>1. IsFiniteSet(tagged)
  BY DirtyPagesAssumption, FS_Subset DEF TypeOK
<1> QED
  BY <1>1, FS_CardinalityType

\* The initial state satisfies the invariant.
LEMMA InitIInv == Init => IInv
<1> SUFFICES ASSUME Init PROVE IInv
  OBVIOUS
<1>1. TypeOK
  <2>1. CountType /\ ListType /\ FsyncType
    BY DirtyPagesAssumption DEF Init, CountType, ListType, FsyncType
  <2>2. corrected \in BOOLEAN
    BY Zenon DEF Init
  <2> QED
    BY <2>1, <2>2, TypeParts, Zenon
<1>2. settled = 0 /\ i_private1 = 0 /\ tagged = {} /\ other_uniq = {}
  BY DEF Init, settled
<1>3. NonNegative(0)
  BY DEF NonNegative
<1>4. magic >= 0 => Exact(settled)
  <2> SUFFICES ASSUME magic >= 0 PROVE Exact(settled)
    OBVIOUS
  <2>1. magic \in 0..127 /\ magic % 256 = magic
    BY <1>1, MagicByte DEF TypeOK
  <2>2. Cardinality(tagged) = 0
    BY <1>2, FS_EmptySet
  <2> QED
    BY <1>2, <2>1, <2>2 DEF Exact, has_magic
<1> QED
  BY <1>1, <1>2, <1>3, <1>4 DEF IInv, Counts

\* Steps of fsync_entry that do not write i_private1, and stuttering steps,
\* keep the counts.
LEMMA QuietStep ==
  ASSUME Counts, UNCHANGED <<i_private1, hook, magic, tagged, other_uniq, switches, corrected>>
  PROVE  Counts'
<1>1. settled' = settled
  BY DEF settled
<1>2. Exact(settled)' <=> Exact(settled)
  BY <1>1 DEF Exact, has_magic
<1> HIDE DEF Exact
<1> QED
  BY <1>1, <1>2 DEF Counts, NonNegative

\* The end of a hook keeps the counts: i_private1 becomes what was settled.
LEMMA EndHook ==
  ASSUME IInv, end_hook
  PROVE  IInv'
<1>1. hook # <<>> /\ i_private1' = hook[1] /\ hook' = <<>> /\ hook \in Seq(Int)
  BY DEF end_hook, IInv, TypeOK
<1>2. UNCHANGED <<magic, tagged, other_uniq, dirtied, switches, pc, num, reg, old_dd, corrected>>
  BY DEF end_hook, lists, fsync
<1>3. settled = hook[1] /\ settled' = i_private1' /\ i_private1' = settled
  BY <1>1 DEF settled
<1>4. Exact(settled)' <=> Exact(settled)
  BY <1>2, <1>3 DEF Exact, has_magic
<1>5. CountType' /\ ListType' /\ FsyncType' /\ corrected' \in BOOLEAN
  <2>1. CountType' /\ ListType' /\ FsyncType'
    BY <1>1, <1>2, TypeParts DEF IInv, CountType, ListType, FsyncType
  <2>2. corrected' \in BOOLEAN
    BY <1>2, TypeParts, Zenon DEF IInv
  <2> QED
    BY <2>1, <2>2
<1>6. Counts'
  BY <1>2, <1>3, <1>4 DEF IInv, Counts, NonNegative
<1> QED
  BY <1>5, <1>6, TypePartsNext, Zenon DEF IInv

\* A page that is dirtied is counted in.
LEMMA CausesDirty ==
  ASSUME IInv, NEW l \in List, deadline_causes_dirty(l)
  PROVE  IInv'
<1>1. /\ l \notin tagged /\ tagged' = tagged \cup {l} /\ dirtied < MaxDirtied /\ dirtied' = dirtied + 1
      /\ UNCHANGED <<i_private1, magic, other_uniq, switches, pc, num, reg, old_dd, corrected>>
  BY DEF deadline_causes_dirty, fsync
<1>2. run_hook(1)
  BY DEF deadline_causes_dirty
<1>3. /\ hook' \in Seq(Int) /\ Len(hook') <= 1
      /\ settled = i_private1 /\ settled' = inode_inc_dirty_pages(i_private1, 1)
      /\ ~corrected' => NonNegative(i_private1') /\ NonNegative(settled')
  BY <1>1, <1>2, RunHook
<1>4. TypeOK'
  <2>1. CountType' /\ ListType' /\ FsyncType'
    BY <1>1, <1>3, TypeParts, DirtyPagesAssumption DEF IInv, CountType, ListType, FsyncType
  <2>2. corrected' \in BOOLEAN
    BY <1>1, TypeParts, Zenon DEF IInv
  <2> QED
    BY <2>1, <2>2, TypePartsNext, Zenon
<1>5. ASSUME switches = 0, ~corrected, magic >= 0
      PROVE  Exact(settled)'
  <2>1. Cardinality(tagged) \in Nat /\ Cardinality(tagged') = Cardinality(tagged) + 1
    BY <1>1, TaggedFinite, FS_AddElement DEF IInv
  <2>2. Exact(i_private1) /\ i_private1 \in Int /\ magic \in Magics
    BY <1>3, <1>5 DEF IInv, Counts, TypeOK
  <2>3. IF has_magic(i_private1, magic)
        THEN i_private1 = magic + 256 * Cardinality(tagged) ELSE Cardinality(tagged) = 0
    BY <2>2, FS_EmptySet DEF Exact
  <2>4. settled' = magic + 256 * (Cardinality(tagged) + 1)
    BY <1>3, <1>5, <2>1, <2>2, <2>3, IncExact
  <2>5. magic \in 0..127 /\ magic % 256 = magic
    BY <1>5, <2>2, MagicByte
  <2>6. has_magic(settled', magic)
    BY <2>1, <2>4, <2>5 DEF has_magic
  <2> QED
    BY <1>1, <2>1, <2>4, <2>6 DEF Exact, has_magic
<1>6. Counts'
  <2>1. switches' = 0 => other_uniq' = {}
    BY <1>1 DEF IInv, Counts
  <2> QED
    BY <1>1, <1>3, <1>5, <2>1 DEF Counts
<1> QED
  BY <1>4, <1>6 DEF IInv

\* A page that is dispatched, or freed with the scheduler told of it, is
\* counted out.
LEMMA CountedOut ==
  ASSUME IInv, NEW l \in tagged, run_hook(-1),
         tagged' = tagged \ {l}, other_uniq' = other_uniq \ {l},
         UNCHANGED <<i_private1, magic, dirtied, switches, pc, num, reg, old_dd, corrected>>
  PROVE  IInv'
<1>3. /\ hook' \in Seq(Int) /\ Len(hook') <= 1
      /\ settled = i_private1 /\ settled' = inode_inc_dirty_pages(i_private1, -1)
      /\ ~corrected' => NonNegative(i_private1') /\ NonNegative(settled')
  BY RunHook
<1>4. TypeOK'
  <2>1. CountType' /\ ListType' /\ FsyncType'
    BY <1>3, TypeParts DEF IInv, CountType, ListType, FsyncType
  <2>2. corrected' \in BOOLEAN
    BY TypeParts, Zenon DEF IInv
  <2> QED
    BY <2>1, <2>2, TypePartsNext, Zenon
<1>5. ASSUME switches = 0, ~corrected, magic >= 0
      PROVE  Exact(settled)'
  <2>1. /\ Cardinality(tagged) \in Nat /\ Cardinality(tagged') = Cardinality(tagged) - 1
        /\ Cardinality(tagged') \in Nat
    <3>1. IsFiniteSet(tagged) /\ Cardinality(tagged) \in Nat
      BY TaggedFinite DEF IInv
    <3>2. IsFiniteSet(tagged \ {l}) /\ Cardinality(tagged \ {l}) = Cardinality(tagged) - 1
      BY <3>1, FS_RemoveElement
    <3> QED
      BY <3>1, <3>2, FS_CardinalityType
  <2>2. Exact(i_private1) /\ i_private1 \in Int /\ magic \in Magics
    BY <1>3, <1>5 DEF IInv, Counts, TypeOK
  <2>3. has_magic(i_private1, magic) /\ i_private1 = magic + 256 * Cardinality(tagged)
    BY <2>2 DEF Exact
  <2>4. settled' = magic + 256 * (Cardinality(tagged) - 1)
    <3>1. Cardinality(tagged) \in Nat \ {0}
      BY <2>1
    <3> QED
      BY <1>3, <1>5, <2>2, <2>3, <3>1, DecExact
  <2>5. magic \in 0..127 /\ magic % 256 = magic
    BY <1>5, <2>2, MagicByte
  <2>6. has_magic(settled', magic)
    BY <2>1, <2>4, <2>5 DEF has_magic
  <2> QED
    BY <2>1, <2>4, <2>6 DEF Exact, has_magic
<1>6. Counts'
  <2>1. switches' = 0 => other_uniq' = {}
    BY DEF IInv, Counts
  <2> QED
    BY <1>3, <1>5, <2>1 DEF Counts
<1> QED
  BY <1>4, <1>6 DEF IInv

\* A page whose list is freed.  The scheduler is not told of it only after a
\* switch, and then nothing is claimed of the exact count.
LEMMA FreeCauseList ==
  ASSUME IInv, NEW l \in List, free_cause_list(l)
  PROVE  IInv'
<1>1. /\ l \in tagged /\ tagged' = tagged \ {l} /\ other_uniq' = other_uniq \ {l}
      /\ UNCHANGED <<i_private1, magic, dirtied, switches, pc, num, reg, old_dd, corrected>>
  BY DEF free_cause_list, fsync
<1>2. CASE l \notin other_uniq
  <2>1. run_hook(-1)
    BY <1>2 DEF free_cause_list, deadline_causes_free
  <2> QED
    BY <1>1, <2>1, CountedOut
<1>3. CASE l \in other_uniq
  <2>1. hook' = hook /\ switches # 0
    BY <1>3 DEF free_cause_list, IInv, Counts
  <2>2. settled' = settled
    BY <1>1, <2>1 DEF settled
  <2>3. CountType' /\ ListType' /\ FsyncType'
    BY <1>1, <2>1, TypeParts DEF IInv, CountType, ListType, FsyncType
  <2>4. corrected' \in BOOLEAN
    BY <1>1, TypeParts, Zenon DEF IInv
  <2>5. TypeOK'
    BY <2>3, <2>4, TypePartsNext, Zenon
  <2>6. Counts'
    BY <1>1, <2>1, <2>2 DEF IInv, Counts, NonNegative
  <2> QED
    BY <2>5, <2>6 DEF IInv
<1> QED
  BY <1>2, <1>3

\* A switch changes the magic number and leaves i_private1 alone.
LEMMA ElevatorSwitch ==
  ASSUME IInv, elevator_switch
  PROVE  IInv'
<1>1. /\ switches < MaxSwitches /\ switches' = switches + 1 /\ magic' \in Magics
      /\ other_uniq' \in {{}, tagged, other_uniq} /\ old_dd' \subseteq Proc
      /\ UNCHANGED <<i_private1, hook, tagged, dirtied, pc, num, reg, corrected>>
  BY DEF elevator_switch, counting
<1>2. settled' = settled
  BY <1>1 DEF settled
<1>3. CountType' /\ ListType' /\ FsyncType' /\ switches' # 0
  BY <1>1, TypeParts, DirtyPagesAssumption DEF IInv, CountType, ListType, FsyncType
<1>4. corrected' \in BOOLEAN
  BY <1>1, TypeParts, Zenon DEF IInv
<1>5. TypeOK'
  BY <1>3, <1>4, TypePartsNext, Zenon
<1>6. Counts'
  BY <1>1, <1>2, <1>3 DEF IInv, Counts, NonNegative
<1> QED
  BY <1>5, <1>6 DEF IInv

\* A step of an fsync that does not write i_private1.
LEMMA QuietFsync ==
  ASSUME IInv, NEW p \in Proc,
         \/ fsync_entry(p) \/ issue_wb(p) \/ leave(p) \/ wake(p) \/ test(p) \/ load(p) \/ reread(p)
  PROVE  IInv'
<1>1. UNCHANGED <<i_private1, hook, magic, tagged, other_uniq, dirtied, switches, corrected>>
  BY DEF fsync_entry, issue_wb, leave, wake, test, load, reread, counting, lists
<1>2. Counts'
  BY <1>1, QuietStep DEF IInv
<1>3. i_private1 \in Int /\ count \in Int /\ FsyncType
  BY TypeParts DEF IInv, CountType, count, inode_get_dirty_pages
<1>4. FsyncType'
  BY <1>3 DEF fsync_entry, issue_wb, leave, wake, test, load, reread, goes, FsyncType
<1>5. CountType' /\ ListType'
  BY <1>1, TypeParts DEF IInv, CountType, ListType
<1>6. corrected' \in BOOLEAN
  BY <1>1, TypeParts, Zenon DEF IInv
<1>7. TypeOK'
  BY <1>4, <1>5, <1>6, TypePartsNext, Zenon
<1> QED
  BY <1>2, <1>7 DEF IInv

\* check_dirty_number, called by an fsync: it changes nothing, or the count
\* is corrected.
LEMMA CheckStep ==
  ASSUME IInv, NEW p \in Proc, check(p)
  PROVE  IInv'
<1>1. UNCHANGED <<hook, magic, tagged, other_uniq, dirtied, switches, num, reg, old_dd>>
  BY DEF check, lists
<1>2. magic \in Magics /\ i_private1 \in Int /\ Magics \subseteq Int
  BY DirtyPagesAssumption DEF IInv, TypeOK
<1>3. CountType' /\ ListType' /\ FsyncType'
  <2>1. i_private1' \in Int
    BY <1>2 DEF check, check_dirty_number
  <2>2. FsyncType'
    BY <1>1, TypeParts DEF check, goes, IInv, FsyncType
  <2> QED
    BY <1>1, <2>1, <2>2, TypeParts DEF IInv, CountType, ListType
<1>4. corrected' = (corrected \/ i_private1' # i_private1)
  BY DEF check
<1>5. corrected' \in BOOLEAN
  BY <1>4, Zenon
<1>6. TypeOK'
  BY <1>3, <1>5, TypePartsNext, Zenon
<1>7. Counts'
  <2>1. CASE i_private1' = i_private1
    <3>1. corrected' = corrected
      BY <1>4, <2>1, TypeParts, Zenon DEF IInv
    <3> QED
      BY <1>1, <2>1, <3>1, QuietStep DEF IInv
  <2>2. CASE i_private1' # i_private1
    <3>1. corrected'
      BY <1>4, <2>2, Zenon
    <3> QED
      BY <1>1, <3>1 DEF IInv, Counts
  <2> QED
    BY <2>1, <2>2
<1> QED
  BY <1>6, <1>7 DEF IInv

\* The subtraction of an fsync corrects the count.
LEMMA StoreStep ==
  ASSUME IInv, NEW p \in Proc, store(p)
  PROVE  IInv'
<1>1. corrected' /\ UNCHANGED <<hook, magic, tagged, other_uniq, dirtied, switches, num, old_dd>>
  BY DEF store, lists
<1>2. CountType' /\ ListType' /\ FsyncType'
  <2>1. i_private1' \in Int
    BY DirtyPagesAssumption, TypeParts DEF store, IInv, FsyncType
  <2>2. FsyncType'
    BY <1>1, TypeParts DEF store, goes, IInv, FsyncType
  <2> QED
    BY <1>1, <2>1, <2>2, TypeParts DEF IInv, CountType, ListType
<1>3. corrected' \in BOOLEAN
  BY Zenon DEF store
<1>4. TypeOK'
  BY <1>2, <1>3, TypePartsNext, Zenon
<1>5. Counts'
  BY <1>1 DEF IInv, Counts
<1> QED
  BY <1>4, <1>5 DEF IInv

\* Every step keeps the invariant.
LEMMA NextIInv == IInv /\ [Next]_vars => IInv'
<1> SUFFICES ASSUME IInv, [Next]_vars PROVE IInv'
  OBVIOUS
<1>1. CASE end_hook
  BY <1>1, EndHook
<1>2. CASE elevator_switch
  BY <1>2, ElevatorSwitch
<1>3. ASSUME NEW l \in List, deadline_causes_dirty(l) PROVE IInv'
  BY <1>3, CausesDirty
<1>4. ASSUME NEW l \in List, free_cause_list(l) PROVE IInv'
  BY <1>4, FreeCauseList
<1>5. ASSUME NEW l \in List, inode_dec_dirty_for_submitted_rq(l) PROVE IInv'
  <2>1. /\ l \in tagged /\ run_hook(-1) /\ tagged' = tagged \ {l} /\ other_uniq' = other_uniq \ {l}
        /\ UNCHANGED <<i_private1, magic, dirtied, switches, pc, num, reg, old_dd, corrected>>
    BY <1>5 DEF inode_dec_dirty_for_submitted_rq, fsync
  <2> QED
    BY <2>1, CountedOut
<1>6. ASSUME NEW p \in Proc, fsync_entry(p) \/ fsync_step(p) PROVE IInv'
  BY <1>6, QuietFsync, CheckStep, StoreStep DEF fsync_step
<1>7. CASE UNCHANGED vars
  <2>1. UNCHANGED <<i_private1, hook, magic, tagged, other_uniq, dirtied, switches,
                    pc, num, reg, old_dd, corrected>>
    BY <1>7 DEF vars, counting, lists, fsync
  <2>2. Counts'
    BY <2>1, QuietStep DEF IInv
  <2>3. TypeOK'
    BY <2>1, Zenon DEF IInv, TypeOK
  <2> QED
    BY <2>2, <2>3 DEF IInv
<1> QED
  BY <1>1, <1>2, <1>3, <1>4, <1>5, <1>6, <1>7 DEF Next

\* The inductive invariant holds in every reachable state.
THEOREM Invariance == Spec => []IInv
BY InitIInv, NextIInv, PTL DEF Spec

\* Every variable keeps its type; i_private1 stays an integer and at most one
\* hook runs at a time.
THEOREM TypeCorrect == Spec => []TypeOK
<1>1. IInv => TypeOK
  BY DEF IInv
<1> QED
  BY <1>1, Invariance, PTL

\* For any number of pages and fsyncs and any tunables, the dirty, dispatch and
\* free hooks count a page in and out exactly once.
THEOREM PagesCountedOnce == Spec => []CountExact
<1>1. IInv => CountExact
  <2> SUFFICES ASSUME IInv, switches = 0, ~corrected, magic >= 0, has_magic(settled, magic)
               PROVE  inode_get_dirty_pages(settled) = Cardinality(tagged)
    BY DEF CountExact
  <2>1. settled = magic + 256 * Cardinality(tagged)
    BY DEF IInv, Counts, Exact
  <2>2. magic \in 0..127
    BY MagicByte DEF IInv, TypeOK
  <2>3. Cardinality(tagged) \in Nat
    BY TaggedFinite DEF IInv
  <2> QED
    BY <2>1, <2>2, <2>3 DEF inode_get_dirty_pages
<1> QED
  BY <1>1, Invariance, PTL

\* However often schedulers are switched, the hooks by themselves do not take
\* the count of a non-negative dd->magic below zero.
THEOREM HooksStayNonNegative == Spec => []HooksNotNegative
<1>1. IInv => HooksNotNegative
  <2> SUFFICES ASSUME IInv, ~corrected, magic >= 0, has_magic(i_private1, magic)
               PROVE  count >= 0
    BY DEF HooksNotNegative
  <2>1. i_private1 \in Int /\ NonNegative(i_private1)
    BY DEF IInv, Counts, TypeOK
  <2>2. magic \in 0..127 /\ magic % 256 = magic
    BY MagicByte DEF IInv, TypeOK
  <2> QED
    BY <2>1, <2>2 DEF NonNegative, has_magic, count, inode_get_dirty_pages
<1> QED
  BY <1>1, Invariance, PTL

=============================================================================
