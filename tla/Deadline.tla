------------------------------ MODULE Deadline ------------------------------
(***************************************************************************)
(* The request dispatcher of the split-deadline scheduler                  *)
(* (split_deadline_sched.c).  Requests of each direction are kept twice:   *)
(* on a FIFO in order of arrival, with an expiry time, and in a tree in    *)
(* order of sectors.  Requests are dispatched in batches of ascending      *)
(* sectors; between batches the direction is chosen, reads first unless    *)
(* writes have been passed over writes_starved times, and a batch starts   *)
(* with the first request of the FIFO if that has expired.                 *)
(*                                                                         *)
(* The block layer calls every hook with queue_lock held, so each hook is  *)
(* one action.  The place of a request in the tree is a number, its pos;   *)
(* requests at the same sector are ordered by insertion, hence the numbers *)
(* of a tree differ.  Time is the number of ticks a request has left       *)
(* (ttl); zero means that jiffies is after its expiry time.  The counters  *)
(* last_accepted and last_issued feed a log message and are left out.      *)
(***************************************************************************)
EXTENDS Integers, Sequences, FiniteSets

CONSTANTS
  Reads, Writes,     \* requests of the two directions
  None,              \* NULL
  Pos,               \* places in the sector order
  Expires,           \* values of fifo_expire, set through sysfs
  fifo_batch, writes_starved

READ  == 0
WRITE == 1
Dir   == {READ, WRITE}
Request == Reads \cup Writes

ASSUME DeadlineAssumption ==
  /\ IsFiniteSet(Request) /\ Reads \cap Writes = {} /\ None \notin Request
  /\ Pos \subseteq Nat
  /\ Expires \subseteq Nat \ {0} /\ Expires # {}
  /\ fifo_batch \in Nat \ {0} /\ writes_starved \in Nat

rq_data_dir(r) == IF r \in Reads THEN READ ELSE WRITE

VARIABLES
  fifo_list,         \* [Dir -> Seq(Request)]
  sort_list,         \* [Dir -> SUBSET Request], ordered by pos
  pos,               \* [Request -> Pos \cup {0}]
  ttl,               \* [Request -> Nat]
  next_rq,           \* [Dir -> Request \cup {None}]
  batching, starved,
  fifo_expire,       \* [Dir -> Expires]
  passed,            \* history: reads dispatched over the heads of waiting writes
  ahead              \* history: writes dispatched over the heads of waiting reads

vars == <<fifo_list, sort_list, pos, ttl, next_rq, batching, starved, fifo_expire,
          passed, ahead>>

\* deadline_init_queue
Init ==
  /\ fifo_list = [d \in Dir |-> <<>>] /\ sort_list = [d \in Dir |-> {}]
  /\ pos = [r \in Request |-> 0] /\ ttl = [r \in Request |-> 0]
  /\ next_rq = [d \in Dir |-> None]
  /\ batching = 0 /\ starved = 0
  /\ fifo_expire \in [Dir -> Expires]
  /\ passed = 0 /\ ahead = 0

pending(r) == r \in sort_list[rq_data_dir(r)]

\* The request after r in the tree.
deadline_latter_request(r) ==
  LET after == {x \in sort_list[rq_data_dir(r)] : pos[x] > pos[r]} IN
  IF after = {} THEN None
  ELSE CHOOSE x \in after : \A y \in after : pos[x] <= pos[y]

\* Place p of the tree of direction d is not taken.
vacant(d, p) == \A x \in sort_list[d] : pos[x] # p

\* A sequence without its k-th element.
without(s, k) == [j \in 1..(Len(s) - 1) |-> IF j < k THEN s[j] ELSE s[j + 1]]

index(s, r) == CHOOSE k \in 1..Len(s) : s[k] = r

(***************************************************************************)
(* Arrival and merging.                                                    *)
(***************************************************************************)

deadline_add_request(r) ==
  LET d == rq_data_dir(r) IN
  /\ ~pending(r)
  /\ \E p \in Pos : vacant(d, p) /\ pos' = [pos EXCEPT ![r] = p]
  /\ sort_list' = [sort_list EXCEPT ![d] = @ \cup {r}]
  /\ ttl' = [ttl EXCEPT ![r] = fifo_expire[d]]
  /\ fifo_list' = [fifo_list EXCEPT ![d] = Append(@, r)]
  /\ UNCHANGED <<next_rq, batching, starved, fifo_expire, passed, ahead>>

\* A bio was merged at the front of r (deadline_merge found r): r is taken
\* out of the tree and put back at a lower sector.
deadline_merged_request(r) ==
  /\ pending(r)
  /\ \E p \in Pos : /\ p < pos[r] /\ vacant(rq_data_dir(r), p)
                    /\ pos' = [pos EXCEPT ![r] = p]
  /\ UNCHANGED <<fifo_list, sort_list, ttl, next_rq, batching, starved, fifo_expire,
                 passed, ahead>>

\* Mutant: list_move is forgotten, req gets the expiry but not the place of next.
merge_fifo_no_move(s, req, next) == without(s, index(s, next))

\* req takes over the place of next in the FIFO.
merge_fifo(s, req, next) ==
  without([s EXCEPT ![index(s, next)] = req], index(s, req))

\* Mutant: next_rq may keep pointing to the request that is removed.
remove_next_rq_stale(r) == next_rq

\* deadline_del_rq_rb: what becomes of next_rq when r leaves the tree.
remove_next_rq(r) ==
  LET d == rq_data_dir(r) IN
  IF next_rq[d] = r THEN [next_rq EXCEPT ![d] = deadline_latter_request(r)] ELSE next_rq

\* next expires before req; two expired requests cannot be told apart by ttl.
expires_before(next, req) ==
  IF ttl[next] = 0 /\ ttl[req] = 0 THEN BOOLEAN ELSE {ttl[next] < ttl[req]}

\* next, which follows req on the disk, is merged into req and removed.
deadline_merged_requests(req, next) ==
  LET d == rq_data_dir(req)
      s == fifo_list[d]
  IN
  /\ pending(req) /\ next # None /\ next = deadline_latter_request(req)
  /\ \E before \in expires_before(next, req) :
       /\ fifo_list' = [fifo_list EXCEPT ![d] =
            IF before THEN merge_fifo(s, req, next) ELSE without(s, index(s, next))]
       /\ ttl' = [ttl EXCEPT ![req] = IF before THEN ttl[next] ELSE @, ![next] = 0]
  /\ next_rq' = remove_next_rq(next)
  /\ sort_list' = [sort_list EXCEPT ![d] = @ \ {next}]
  /\ pos' = [pos EXCEPT ![next] = 0]
  /\ UNCHANGED <<batching, starved, fifo_expire, passed, ahead>>

(***************************************************************************)
(* deadline_dispatch_requests.                                             *)
(***************************************************************************)

\* deadline_move_request: batches are reads XOR writes.
move_next_rq(r) ==
  [d \in Dir |-> IF d = rq_data_dir(r) THEN deadline_latter_request(r) ELSE None]

\* Mutant: the request is taken off the tree but stays on the FIFO.
move_request_no_fifo(r) ==
  LET d == rq_data_dir(r) IN
  /\ next_rq' = move_next_rq(r)
  /\ sort_list' = [sort_list EXCEPT ![d] = @ \ {r}]
  /\ pos' = [pos EXCEPT ![r] = 0] /\ ttl' = [ttl EXCEPT ![r] = 0]
  /\ UNCHANGED <<fifo_list, fifo_expire, passed, ahead>>

\* The most reads that may pass a waiting write; passed stops one above it.
MaxPassed == (writes_starved + 1) * fifo_batch

\* Take r off the tree and the FIFO and put it on the dispatch queue.
deadline_move_request(r) ==
  LET d == rq_data_dir(r) IN
  /\ next_rq' = move_next_rq(r)
  /\ fifo_list' = [fifo_list EXCEPT ![d] = without(@, index(@, r))]
  /\ sort_list' = [sort_list EXCEPT ![d] = @ \ {r}]
  /\ pos' = [pos EXCEPT ![r] = 0] /\ ttl' = [ttl EXCEPT ![r] = 0]
  /\ passed' = IF d = WRITE \/ sort_list[WRITE] = {} THEN 0
               ELSE IF passed <= MaxPassed THEN passed + 1 ELSE passed
  /\ ahead' = IF d = READ \/ sort_list[READ] = {} THEN 0 ELSE ahead + 1
  /\ UNCHANGED fifo_expire

\* The request the current batch would go on with.
batch_rq == IF next_rq[WRITE] # None THEN next_rq[WRITE] ELSE next_rq[READ]

\* Mutant: off by one, a batch of fifo_batch + 1 requests.
in_batch_long == batch_rq # None /\ batching <= fifo_batch

in_batch == batch_rq # None /\ batching < fifo_batch

dispatch_batch ==
  /\ in_batch
  /\ batching' = batching + 1
  /\ deadline_move_request(batch_rq)
  /\ UNCHANGED starved

\* Mutant: the first request of the FIFO is not looked at.
deadline_check_fifo_never(d) == FALSE

\* The first request of the FIFO has expired.
deadline_check_fifo(d) == ttl[Head(fifo_list[d])] = 0

\* dispatch_find_request, with direction d chosen.
dispatch_find(d) ==
  /\ batching' = 1
  /\ deadline_move_request(IF deadline_check_fifo(d) \/ next_rq[d] = None
                           THEN Head(fifo_list[d]) ELSE next_rq[d])

reads  == fifo_list[READ] # <<>>
writes == fifo_list[WRITE] # <<>>

\* Mutant: starved is not counted up.
dispatch_reads_uncounted ==
  /\ ~in_batch /\ reads
  /\ writes => starved < writes_starved
  /\ starved' = starved
  /\ dispatch_find(READ)

\* Reads go first, and every time writes are waiting starved is counted up.
dispatch_reads ==
  /\ ~in_batch /\ reads
  /\ writes => starved < writes_starved
  /\ starved' = IF writes THEN starved + 1 ELSE starved
  /\ dispatch_find(READ)

\* Mutant: when writes have been starved nothing is dispatched.
dispatch_writes_no_reads ==
  /\ ~in_batch /\ writes /\ ~reads
  /\ starved' = 0
  /\ dispatch_find(WRITE)

\* Mutant: starved is not reset, and writes stay the ones that were starved.
dispatch_writes_no_reset ==
  /\ ~in_batch /\ writes
  /\ reads => starved >= writes_starved
  /\ starved' = starved
  /\ dispatch_find(WRITE)

\* There are no reads, or writes have been starved.
dispatch_writes ==
  /\ ~in_batch /\ writes
  /\ reads => starved >= writes_starved
  /\ starved' = 0
  /\ dispatch_find(WRITE)

deadline_dispatch_requests == dispatch_batch \/ dispatch_reads \/ dispatch_writes

(***************************************************************************)
(* Time, settings, and the specification.                                  *)
(***************************************************************************)

tick ==
  /\ \E r \in Request : ttl[r] > 0
  /\ ttl' = [r \in Request |-> IF ttl[r] > 0 THEN ttl[r] - 1 ELSE 0]
  /\ UNCHANGED <<fifo_list, sort_list, pos, next_rq, batching, starved, fifo_expire,
                 passed, ahead>>

\* deadline_read_expire_store, deadline_write_expire_store
expire_store(d) ==
  /\ \E v \in Expires : v # fifo_expire[d] /\ fifo_expire' = [fifo_expire EXCEPT ![d] = v]
  /\ UNCHANGED <<fifo_list, sort_list, pos, ttl, next_rq, batching, starved, passed, ahead>>

Next ==
  \/ \E r \in Request : deadline_add_request(r) \/ deadline_merged_request(r)
  \/ \E req, next \in Request : deadline_merged_requests(req, next)
  \/ deadline_dispatch_requests
  \/ tick
  \/ \E d \in Dir : expire_store(d)

Spec == Init /\ [][Next]_vars

\* The settings are left alone.
FixedNext == Next /\ UNCHANGED fifo_expire

FixedSpec == Init /\ [][FixedNext]_vars

\* The driver keeps asking for requests.
FairSpec == Spec /\ WF_vars(deadline_dispatch_requests) /\ WF_vars(tick)

(***************************************************************************)
(* Properties.                                                             *)
(***************************************************************************)

TypeOK ==
  /\ fifo_list \in [Dir -> Seq(Request)] /\ sort_list \in [Dir -> SUBSET Request]
  /\ pos \in [Request -> Nat] /\ ttl \in [Request -> Nat]
  /\ next_rq \in [Dir -> Request \cup {None}]
  /\ batching \in 0..fifo_batch /\ starved \in 0..writes_starved
  /\ fifo_expire \in [Dir -> Expires]
  /\ passed \in Nat /\ ahead \in Nat

elems(s) == {s[k] : k \in 1..Len(s)}

\* "requests (deadline_rq s) are present on both sort_list and fifo_list",
\* each exactly once: the BUG_ONs of deadline_dispatch_requests never fire.
SameRequests ==
  \A d \in Dir :
    /\ elems(fifo_list[d]) = sort_list[d]
    /\ Len(fifo_list[d]) = Cardinality(sort_list[d])

\* "next in sort order. read, write or both are NULL", and next_rq never
\* points to a request that was dispatched or merged away.
NextIsPending ==
  /\ next_rq[READ] = None \/ next_rq[WRITE] = None
  /\ \A d \in Dir : next_rq[d] # None => next_rq[d] \in sort_list[d]

\* "max times reads can starve a write": at most writes_starved + 1 batches of
\* reads pass a waiting write, the one that was running when the write
\* arrived and writes_starved more, however often requests merge.
StarvationBound == passed <= MaxPassed

\* The FIFO is in order of expiry, so looking at its first request only
\* (deadline_check_fifo) finds any expired request.
FifoByExpiry ==
  \A d \in Dir : \A j, k \in 1..Len(fifo_list[d]) :
    j < k => ttl[fifo_list[d][j]] <= ttl[fifo_list[d][k]]

\* "A deadline has expired ... Start again from the request with the earliest
\* expiry time": a batch that starts while a request of its direction has
\* expired starts with an expired request.
ExpiredFirst ==
  [][ \A d \in Dir, r \in Request :
        /\ dispatch_reads \/ dispatch_writes
        /\ r \in sort_list[d] /\ r \notin sort_list'[d]
        /\ \E x \in sort_list[d] : ttl[x] = 0
        => ttl[r] = 0 ]_vars

\* The dispatcher implements the promise of ReadPreference, in which reads have
\* the better part: at most fifo_batch writes go ahead of a waiting read, although
\* batches of writes are started for lack of reads and because writes were starved,
\* and go on while reads arrive; a waiting write is passed by up to
\* writes_starved + 1 batches of reads.  Every other step adds or merges a request
\* or changes nothing there.
RP == INSTANCE ReadPreference
        WITH rwait <- sort_list[READ], wwait <- sort_list[WRITE],
             Prefers <- writes_starved > 0, Burst <- fifo_batch, Bound <- MaxPassed
ImplementsReadPreference == RP!Spec

\* No request waits for ever, whatever arrives and merges meanwhile.
EventuallyDispatched == \A r \in Request : pending(r) ~> ~pending(r)

=============================================================================
