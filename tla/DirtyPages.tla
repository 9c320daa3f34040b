----------------------------- MODULE DirtyPages -----------------------------
(***************************************************************************)
(* The count of dirty pages that the split-deadline scheduler keeps in     *)
(* inode->i_private1 (split_deadline_sched.c), for one file: the hooks     *)
(* that count pages, and fsync_entry, which waits until the count is low   *)
(* before it lets an fsync of a limited account start.                     *)
(*                                                                         *)
(* i_private1 holds the magic number of the scheduler instance in its low  *)
(* byte and the count above.  It is a long and the magic number is a       *)
(* (signed) char; \div and % of TLA+ agree with >> 8 and & 0xff on         *)
(* negative numbers.                                                       *)
(*                                                                         *)
(* The hooks run with queue_lock held: each is a read of i_private1 that   *)
(* decides what to write (its `hook'), and the write.  fsync_entry reads   *)
(* and writes i_private1 without the lock, one access a step.              *)
(***************************************************************************)
EXTENDS Integers, FiniteSets, Sequences

CONSTANTS
  List,              \* cause lists of the file's pages
  Proc,              \* processes that call fsync
  Magics,            \* what get_random_bytes may give for dd->magic
  DIRTY_PAGE_THRES, FSYNC_WB_PAGES,
  MaxDirtied,        \* bound: pages dirtied
  MaxSwitches        \* bound: switches of schedulers

ASSUME DirtyPagesAssumption ==
  /\ IsFiniteSet(List) /\ Magics \subseteq -128..127 /\ Magics # {}
  /\ DIRTY_PAGE_THRES \in Nat \ {0} /\ FSYNC_WB_PAGES \in 1..DIRTY_PAGE_THRES
  /\ MaxDirtied \in Nat /\ MaxSwitches \in Nat

VARIABLES
  i_private1,
  hook,              \* <<v>> while a hook is about to write v, else <<>>
  magic,             \* dd->magic
  tagged,            \* lists with causes->inode set
  other_uniq,        \* tagged lists whose sched_uniq is not the queue's
  dirtied, switches, \* bounded counters
  pc, num,           \* of each process: where it is, num_dirty_pages
  reg,               \* what it read of i_private1 in order to add to it
  old_dd,            \* processes whose dd has been freed by a switch
  corrected          \* history: some fsync has written i_private1

counting == <<i_private1, hook>>
lists    == <<tagged, other_uniq, dirtied>>
fsync    == <<pc, num, reg, old_dd, corrected>>
vars     == <<counting, magic, lists, switches, fsync>>

Init ==
  /\ i_private1 = 0 /\ hook = <<>> /\ magic \in Magics
  /\ tagged = {} /\ other_uniq = {} /\ dirtied = 0 /\ switches = 0
  /\ pc = [p \in Proc |-> "idle"] /\ num = [p \in Proc |-> 0]
  /\ reg = [p \in Proc |-> 0] /\ old_dd = {} /\ corrected = FALSE

inode_get_dirty_pages(private1) == private1 \div 256

has_magic(private1, m) == private1 % 256 = m % 256

\* The value of i_private1 after check_dirty_number.
check_dirty_number(private1, m) == IF has_magic(private1, m) THEN private1 ELSE m

\* Mutant: the count goes below zero.
inc_dirty_pages_negative(private1, n) == check_dirty_number(private1, magic) + n * 256

\* The value that inode_inc_dirty_pages gives to i_private1.
inode_inc_dirty_pages(private1, n) ==
  LET v == check_dirty_number(private1, magic)
  IN  IF n < 0 /\ inode_get_dirty_pages(v) + n < 0 THEN v ELSE v + n * 256

(***************************************************************************)
(* The hooks.                                                              *)
(***************************************************************************)

run_hook(n) == hook = <<>> /\ hook' = <<inode_inc_dirty_pages(i_private1, n)>>

end_hook ==
  /\ hook # <<>>
  /\ i_private1' = hook[1] /\ hook' = <<>>
  /\ UNCHANGED <<magic, lists, switches, fsync>>

\* Mutant: the page is counted for every process that dirties it.
causes_dirty_again(l) ==
  /\ dirtied < MaxDirtied
  /\ run_hook(1)
  /\ tagged' = tagged \cup {l} /\ dirtied' = dirtied + 1
  /\ UNCHANGED <<i_private1, magic, other_uniq, switches, fsync>>

\* The page is counted when its list gets an inode.
deadline_causes_dirty(l) ==
  /\ l \notin tagged /\ dirtied < MaxDirtied
  /\ run_hook(1)
  /\ tagged' = tagged \cup {l} /\ dirtied' = dirtied + 1
  /\ UNCHANGED <<i_private1, magic, other_uniq, switches, fsync>>

\* Only lists with an inode are modelled.
deadline_causes_free == run_hook(-1)

\* The list is freed without I/O.  The scheduler is told of it if sched_uniq
\* is still the one that the list was tagged with.
free_cause_list(l) ==
  /\ l \in tagged
  /\ IF l \in other_uniq THEN UNCHANGED hook ELSE deadline_causes_free
  /\ tagged' = tagged \ {l} /\ other_uniq' = other_uniq \ {l}
  /\ UNCHANGED <<i_private1, magic, dirtied, switches, fsync>>

\* Mutant: the list forgets its inode but keeps its callback.
submitted_rq_keeps_callback(l) ==
  /\ l \in tagged
  /\ run_hook(-1)
  /\ tagged' = tagged \ {l}
  /\ UNCHANGED <<i_private1, magic, other_uniq, dirtied, switches, fsync>>

\* The page is in a write request that is dispatched.
inode_dec_dirty_for_submitted_rq(l) ==
  /\ l \in tagged
  /\ run_hook(-1)
  /\ tagged' = tagged \ {l} /\ other_uniq' = other_uniq \ {l}
  /\ UNCHANGED <<i_private1, magic, dirtied, switches, fsync>>

\* deadline is replaced by a new instance of itself.  sched_uniq is 1000 after
\* every switch: only the first one, which this may be, makes it differ from
\* that of the lists.
elevator_switch ==
  /\ hook = <<>> /\ switches < MaxSwitches
  /\ switches' = switches + 1
  /\ magic' \in Magics
  /\ other_uniq' \in IF switches = 0 THEN {{}, tagged} ELSE {other_uniq}
  /\ old_dd' = {p \in Proc : pc[p] # "idle"}
  /\ UNCHANGED <<counting, tagged, dirtied, pc, num, reg, corrected>>

(***************************************************************************)
(* deadline_fsync_entry, for an account with fsync_expire 200.             *)
(***************************************************************************)

count == inode_get_dirty_pages(i_private1)

\* p goes from one place to another.
goes(p, from, to) == pc[p] = from /\ pc' = [pc EXCEPT ![p] = to]

fsync_entry(p) ==
  /\ goes(p, "idle", "loop")
  /\ num' = [num EXCEPT ![p] = count]
  /\ UNCHANGED <<counting, magic, lists, switches, reg, old_dd, corrected>>

\* Write-back is issued, and the process sleeps.
issue_wb(p) ==
  /\ num[p] >= DIRTY_PAGE_THRES
  /\ goes(p, "loop", "asleep")
  /\ UNCHANGED <<counting, magic, lists, switches, num, reg, old_dd, corrected>>

\* The loop ends and the fsync itself begins.
leave(p) ==
  /\ num[p] < DIRTY_PAGE_THRES
  /\ goes(p, "loop", "idle")
  /\ num' = [num EXCEPT ![p] = 0] /\ old_dd' = old_dd \ {p}
  /\ UNCHANGED <<counting, magic, lists, switches, reg, corrected>>

\* Mutant: the process trusts write-back to bring the count down.
wake_no_dec(p) ==
  /\ goes(p, "asleep", "reread")
  /\ UNCHANGED <<counting, magic, lists, switches, num, reg, old_dd, corrected>>

\* "for whatever reason, dirty page count is not going down..."
wake(p) ==
  /\ IF num[p] = count THEN goes(p, "asleep", "check") ELSE goes(p, "asleep", "reread")
  /\ UNCHANGED <<counting, magic, lists, switches, num, reg, old_dd, corrected>>

\* check_dirty_number; a freed dd can hold anything.
check(p) ==
  /\ goes(p, "check", "test")
  /\ \E m \in IF p \in old_dd THEN Magics ELSE {magic} :
       i_private1' = check_dirty_number(i_private1, m)
  /\ corrected' = (corrected \/ i_private1' # i_private1)
  /\ UNCHANGED <<hook, magic, lists, switches, num, reg, old_dd>>

test(p) ==
  /\ IF count - FSYNC_WB_PAGES < 0 THEN goes(p, "test", "reread") ELSE goes(p, "test", "load")
  /\ UNCHANGED <<counting, magic, lists, switches, num, reg, old_dd, corrected>>

load(p) ==
  /\ goes(p, "load", "store")
  /\ reg' = [reg EXCEPT ![p] = i_private1]
  /\ UNCHANGED <<counting, magic, lists, switches, num, old_dd, corrected>>

store(p) ==
  /\ goes(p, "store", "reread")
  /\ i_private1' = reg[p] - FSYNC_WB_PAGES * 256
  /\ reg' = [reg EXCEPT ![p] = 0] /\ corrected' = TRUE
  /\ UNCHANGED <<hook, magic, lists, switches, num, old_dd>>

reread(p) ==
  /\ goes(p, "reread", "loop")
  /\ num' = [num EXCEPT ![p] = count]
  /\ UNCHANGED <<counting, magic, lists, switches, reg, old_dd, corrected>>

fsync_step(p) ==
  issue_wb(p) \/ leave(p) \/ wake(p) \/ check(p) \/ test(p) \/ load(p) \/ store(p) \/ reread(p)

Next ==
  \/ end_hook \/ elevator_switch
  \/ \E l \in List :
       \/ deadline_causes_dirty(l) \/ free_cause_list(l)
       \/ inode_dec_dirty_for_submitted_rq(l)
  \/ \E p \in Proc : fsync_entry(p) \/ fsync_step(p)

Spec == Init /\ [][Next]_vars

\* The processes and the hooks run; nothing makes write-back make progress.
FairSpec == Spec /\ WF_vars(end_hook) /\ \A p \in Proc : WF_vars(fsync_step(p))

(***************************************************************************)
(* Properties.                                                             *)
(***************************************************************************)

TypeOK ==
  /\ i_private1 \in Int /\ hook \in Seq(Int) /\ Len(hook) <= 1
  /\ magic \in Magics /\ tagged \subseteq List /\ other_uniq \subseteq tagged
  /\ dirtied \in 0..MaxDirtied /\ switches \in 0..MaxSwitches
  /\ pc \in [Proc -> {"idle", "loop", "asleep", "check", "test", "load", "store", "reread"}]
  /\ num \in [Proc -> Int] /\ reg \in [Proc -> Int] /\ old_dd \subseteq Proc
  /\ corrected \in BOOLEAN

\* What the hooks have made of i_private1.
settled == IF hook = <<>> THEN i_private1 ELSE hook[1]

\* As long as deadline is not switched and no fsync has corrected the count,
\* the count is the number of cause lists with an inode: deadline_causes_dirty,
\* the dispatch of a write and deadline_causes_free count a page in and out
\* exactly once.  For a negative dd->magic the count starts at -1
\* (check_dirty_number extends the sign), and this is not claimed.
CountExact ==
  switches = 0 /\ ~corrected /\ magic >= 0 /\ has_magic(settled, magic) =>
    inode_get_dirty_pages(settled) = Cardinality(tagged)

\* The hooks by themselves, serialised by queue_lock, never take the count of a
\* non-negative dd->magic below zero, though after a switch they count out
\* pages that the new instance has not counted in (inode_inc_dirty_pages).
HooksNotNegative ==
  ~corrected /\ magic >= 0 /\ has_magic(i_private1, magic) => count >= 0

\* inode_inc_dirty_pages says: "Don't set dirty_pages to negative".
NotNegative == has_magic(i_private1, magic) => count >= 0

\* Once no more pages are dirtied, every fsync gets out of the loop of
\* deadline_fsync_entry, even if write-back does nothing, updates of the count
\* by other processes and hooks are lost, and schedulers are switched.
FsyncReturns == \A p \in Proc : pc[p] # "idle" ~> pc[p] = "idle"

=============================================================================
