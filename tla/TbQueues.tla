------------------------------ MODULE TbQueues ------------------------------
(***************************************************************************)
(* The queues and the dispatcher of the token bucket scheduler             *)
(* (tbucket.c, queue.h).  Each account has a queue of reads and a queue of *)
(* writes; the dispatcher serves the queue at the front of the list of     *)
(* queues and moves on when it is empty, its reads are short of tokens, or *)
(* RUN_SIZE_LIMIT is reached.  If the front queue ran empty a moment ago   *)
(* it waits for another request of it (anticipation).  When requests have  *)
(* to wait, a timer calls the dispatcher again.                            *)
(*                                                                         *)
(* Every hook runs with queue_lock held and is one action.  All requests   *)
(* have size 1.  How many tokens an account has is abstracted to whether   *)
(* its reads are throttled: dispatching its requests may throttle it, time *)
(* (refresh_count) releases it.                                            *)
(*                                                                         *)
(* The block layer and the driver are external.  A kick is a call of the   *)
(* driver's request function, after a request was added or completed or    *)
(* when the timer fires: it takes requests from the dispatch list as long  *)
(* as the device has room, and calls the dispatcher when the list is empty *)
(* until that returns 0.                                                   *)
(***************************************************************************)
EXTENDS Integers, Sequences, FiniteSets

CONSTANTS
  Account, DEFAULT_ACCOUNT,
  Limited,           \* accounts with rate > 0
  Request,
  acct,              \* [Request -> Account], get_one_cause
  rw,                \* [Request -> {0, 1}], rq_data_dir
  RUN_SIZE_LIMIT,
  Depth,             \* requests that the device takes
  MaxKicks           \* bound: pending calls of the driver

ASSUME TbQueuesAssumption ==
  /\ DEFAULT_ACCOUNT \in Account /\ Limited \subseteq Account
  /\ IsFiniteSet(Request)
  /\ acct \in [Request -> Account] /\ rw \in [Request -> {0, 1}]
  /\ RUN_SIZE_LIMIT \in Nat \ {0} /\ Depth \in Nat \ {0} /\ MaxKicks \in Nat

Queue == Account \X {0, 1}
RQ_QUEUE(r) == <<acct[r], rw[r]>>

VARIABLES
  queues,            \* td->queues: a sequence of queues
  reqs,              \* [Queue -> Seq(Request)]
  run_serve_size,
  recent,            \* queues popped less than ANTICIPATION_US ago
  throttled,         \* limited accounts whose count is not positive
  armed,             \* dispatch_nudger is pending
  disp,              \* requests on the dispatch list
  inflight,          \* requests at the device
  kicks,             \* pending calls of the driver
  live               \* requests accepted and not completed

core   == <<queues, reqs, run_serve_size, recent, throttled>>
driver == <<disp, inflight>>
vars   == <<core, armed, driver, kicks, live>>

Init ==
  /\ queues = <<<<DEFAULT_ACCOUNT, 0>>, <<DEFAULT_ACCOUNT, 1>>>>
  /\ reqs = [q \in Queue |-> <<>>] /\ run_serve_size = 0
  /\ recent = {} /\ throttled = {} /\ armed = FALSE
  /\ disp = {} /\ inflight = {} /\ kicks = 0 /\ live = {}

queued == UNION {{reqs[q][k] : k \in 1..Len(reqs[q])} : q \in Queue}

(***************************************************************************)
(* Requests come.                                                          *)
(***************************************************************************)

\* add_account puts the queues of a new account at the end of the list.
add_account(a) ==
  IF \E k \in 1..Len(queues) : queues[k][1] = a
  THEN queues ELSE queues \o <<<<a, 0>>, <<a, 1>>>>

tbucket_add_request(r) ==
  /\ r \notin live /\ kicks < MaxKicks
  /\ live' = live \cup {r}
  /\ queues' = add_account(acct[r])
  /\ reqs' = [reqs EXCEPT ![RQ_QUEUE(r)] = Append(@, r)]
  /\ kicks' = kicks + 1
  /\ UNCHANGED <<run_serve_size, recent, throttled, armed, driver>>

\* Two queued requests become one: next lives on in rq and is freed.  The
\* hook takes rq off its queue.
tbucket_merge_request(rq, next) ==
  /\ {rq, next} \subseteq queued /\ rq # next /\ rw[rq] = rw[next]
  /\ reqs' = [reqs EXCEPT ![RQ_QUEUE(rq)] = SelectSeq(@, LAMBDA x : x # rq)]
  /\ live' = live \ {next}
  /\ UNCHANGED <<queues, run_serve_size, recent, throttled, armed, driver, kicks>>

(***************************************************************************)
(* tbucket_dispatch.                                                       *)
(***************************************************************************)

front == queues[1]

\* Mutant: the run goes on at the limit.
limit_reached_late == run_serve_size > RUN_SIZE_LIMIT

limit_reached == run_serve_size >= RUN_SIZE_LIMIT
skipped(k) == k = 1 /\ limit_reached

\* Writes are throttled by the system calls, reads here.
may_serve(q) == q[2] = 1 \/ q[1] \notin throttled

serves(k) == ~skipped(k) /\ may_serve(queues[k]) /\ reqs[queues[k]] # <<>>

\* Mutant: the dispatcher waits for a queue whatever it served last.
anticipates_always == may_serve(front) /\ reqs[front] = <<>>

\* The front queue is empty, and was popped a moment ago.
anticipates == ~limit_reached /\ may_serve(front) /\ reqs[front] = <<>> /\ front \in recent

\* The list after the first k - 1 queues have been moved to its end.
rotated(k) == SubSeq(queues, k, Len(queues)) \o SubSeq(queues, 1, k - 1)

\* The first queue that can be served is served; what is charged for the
\* request (dispatch_sort) may throttle the accounts of its causes.
dispatch_one ==
  /\ ~anticipates
  /\ \E k \in 1..Len(queues) :
       LET q == queues[k]
           r == Head(reqs[q])
       IN
       /\ serves(k) /\ \A j \in 1..(k - 1) : ~serves(j)
       /\ queues' = rotated(k)
       /\ run_serve_size' = (IF k = 1 THEN run_serve_size ELSE 0) + 1
       /\ reqs' = [reqs EXCEPT ![q] = Tail(@)]
       /\ recent' = recent \cup {q}
       /\ throttled' \in {throttled \cup A : A \in SUBSET Limited}
       /\ disp' = disp \cup {r}
  /\ UNCHANGED <<armed, inflight, kicks, live>>

\* Mutant: the timer is armed for anticipation only.
arms_timer_anticipation == anticipates

\* min_usecs_to_wait > 0: a request has to wait for tokens or anticipation.
arms_timer ==
  anticipates \/ \E k \in 1..Len(queues) : ~skipped(k) /\ reqs[queues[k]] # <<>>

\* No queue is served.  Every queue was moved to the end, which leaves the
\* order as it was; anticipation leaves the loop at once.
dispatch_none ==
  /\ anticipates \/ \A k \in 1..Len(queues) : ~serves(k)
  /\ armed' = (armed \/ arms_timer)
  /\ run_serve_size' = IF anticipates THEN run_serve_size ELSE 0
  /\ kicks' = kicks - 1
  /\ UNCHANGED <<queues, reqs, recent, throttled, driver, live>>

tbucket_dispatch == kicks > 0 /\ disp = {} /\ (dispatch_one \/ dispatch_none)

\* Before schedulers are switched everything is dispatched.  A run_serve_size
\* beyond the limit is as good as the limit, with which alone it is compared.
tbucket_dispatch_force ==
  /\ queued # {} /\ kicks < MaxKicks
  /\ disp' = disp \cup queued
  /\ LET size == run_serve_size + Cardinality(queued)
     IN run_serve_size' = IF size > RUN_SIZE_LIMIT THEN RUN_SIZE_LIMIT ELSE size
  /\ recent' = recent \cup {q \in Queue : reqs[q] # <<>>}
  /\ reqs' = [q \in Queue |-> <<>>]
  /\ throttled' \in {throttled \cup A : A \in SUBSET Limited}
  /\ kicks' = kicks + 1
  /\ UNCHANGED <<queues, armed, inflight, live>>

\* dispatch_nudge
dispatch_nudge ==
  /\ armed /\ kicks < MaxKicks
  /\ armed' = FALSE /\ kicks' = kicks + 1
  /\ UNCHANGED <<core, driver, live>>

(***************************************************************************)
(* The driver, and time.                                                   *)
(***************************************************************************)

start_request(r) ==
  /\ kicks > 0 /\ r \in disp /\ Cardinality(inflight) < Depth
  /\ disp' = disp \ {r} /\ inflight' = inflight \cup {r}
  /\ UNCHANGED <<core, armed, kicks, live>>

device_busy ==
  /\ kicks > 0 /\ disp # {} /\ Cardinality(inflight) >= Depth
  /\ kicks' = kicks - 1
  /\ UNCHANGED <<core, armed, driver, live>>

complete_request(r) ==
  /\ r \in inflight /\ kicks < MaxKicks
  /\ inflight' = inflight \ {r} /\ live' = live \ {r} /\ kicks' = kicks + 1
  /\ UNCHANGED <<core, armed, disp>>

\* ANTICIPATION_US have passed since the last pop.
pop_elapsed(q) ==
  /\ q \in recent /\ recent' = recent \ {q}
  /\ UNCHANGED <<queues, reqs, run_serve_size, throttled, armed, driver, kicks, live>>

\* The account has earned tokens; its limit is positive.
refresh_count(a) ==
  /\ a \in throttled /\ throttled' = throttled \ {a}
  /\ UNCHANGED <<queues, reqs, run_serve_size, recent, armed, driver, kicks, live>>

Next ==
  \/ \E r \in Request : tbucket_add_request(r) \/ start_request(r) \/ complete_request(r)
  \/ tbucket_dispatch \/ tbucket_dispatch_force \/ dispatch_nudge
  \/ device_busy
  \/ \E q \in Queue : pop_elapsed(q)
  \/ \E a \in Account : refresh_count(a)

Spec == Init /\ [][Next]_vars

\* With merging of queued requests.
MergeSpec == Init /\ [][Next \/ \E rq, next \in Request : tbucket_merge_request(rq, next)]_vars

\* A kick is carried out, the device completes what it was given, a timer
\* fires, and time passes.
FairSpec ==
  /\ Spec
  /\ WF_vars(tbucket_dispatch) /\ WF_vars(device_busy) /\ WF_vars(dispatch_nudge)
  /\ \A r \in Request : WF_vars(start_request(r)) /\ WF_vars(complete_request(r))
  /\ \A q \in Queue : WF_vars(pop_elapsed(q))
  /\ \A a \in Account : WF_vars(refresh_count(a))

(***************************************************************************)
(* Properties.                                                             *)
(***************************************************************************)

TypeOK ==
  /\ queues \in Seq(Queue) /\ reqs \in [Queue -> Seq(Request)]
  /\ run_serve_size \in 0..RUN_SIZE_LIMIT
  /\ recent \subseteq Queue /\ throttled \subseteq Limited /\ armed \in BOOLEAN
  /\ disp \subseteq Request /\ inflight \subseteq Request /\ live \subseteq Request
  /\ kicks \in 0..MaxKicks

\* The dispatcher never goes to sleep for good with requests to dispatch: if
\* it returned 0 for every kick, the timer is armed or a request is at the
\* device, whose completion is the next kick.  (When RUN_SIZE_LIMIT is
\* reached, tbucket_dispatch may return 0 for a queue that has requests, and
\* does not arm the timer for it.)
NeverAsleep == queued \cup disp # {} => kicks > 0 \/ inflight # {} \/ armed

\* Why that is so: a call that reaches the limit returned 1, so the same kick
\* calls again, and what it dispatched is not yet completed or is a kick more.
LimitIsRetried ==
  limit_reached => disp # {} \/ (kicks > 0 /\ (inflight # {} \/ kicks > 1))

\* A queue that holds requests is on the list that the dispatcher goes through.
Listed ==
  \A q \in Queue : reqs[q] # <<>> => \E k \in 1..Len(queues) : queues[k] = q

\* The queues of an account are on that list together.
Paired ==
  \A k \in 1..Len(queues), d \in {0, 1} :
    \E j \in 1..Len(queues) : queues[j] = <<queues[k][1], d>>

\* Every request that was accepted is queued, on the dispatch list or at the
\* device until it is completed, and only such requests are queued.
NothingLost == live = queued \cup disp \cup inflight

\* Writes, and reads of accounts without a rate, are always dispatched in the
\* end, whatever the other queues do: no queue holds the front for ever by
\* anticipation or by a run of requests.
EventuallyServed ==
  \A r \in {x \in Request : rw[x] = 1 \/ acct[x] \notin Limited} :
    r \in queued ~> r \notin queued

=============================================================================
