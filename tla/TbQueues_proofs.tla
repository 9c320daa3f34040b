--------------------------- MODULE TbQueues_proofs ---------------------------
(***************************************************************************)
(* Proofs about the dispatcher of the token bucket scheduler, for any      *)
(* number of accounts and requests, any run limit and any device: it never *)
(* goes to sleep for good while it holds requests.                         *)
(***************************************************************************)
EXTENDS TbQueues, FiniteSetTheorems, TLAPS

Inv == TypeOK /\ NeverAsleep /\ LimitIsRetried /\ Listed /\ Paired

\* What the concatenation of two sequences is.
LEMMA Concatenation ==
  ASSUME NEW S, NEW s \in Seq(S), NEW t \in Seq(S)
  PROVE  s \o t \in Seq(S) /\ Len(s \o t) = Len(s) + Len(t)
OBVIOUS

\* Rotating the list keeps every queue on it.
LEMMA RotatedList ==
  ASSUME TypeOK, NEW k \in 1..Len(queues)
  PROVE  /\ rotated(k) \in Seq(Queue)
         /\ \A j \in 1..Len(queues) :
              \E i \in 1..Len(rotated(k)) : rotated(k)[i] = queues[j]
         /\ \A i \in 1..Len(rotated(k)) :
              \E j \in 1..Len(queues) : rotated(k)[i] = queues[j]
<1> DEFINE n == Len(queues)
           head == SubSeq(queues, 1, k - 1)
           tail == SubSeq(queues, k, n)
<1>1. n \in Nat /\ queues \in Seq(Queue) /\ k \in 1..n
  BY DEF TypeOK
<1>2. /\ head \in Seq(Queue) /\ Len(head) = k - 1
      /\ \A i \in 1..(k - 1) : head[i] = queues[i]
  BY <1>1
<1>3. /\ tail \in Seq(Queue) /\ Len(tail) = n - k + 1
      /\ \A i \in 1..(n - k + 1) : tail[i] = queues[k + i - 1]
  BY <1>1
<1>4. rotated(k) = tail \o head
  BY DEF rotated
<1> HIDE DEF n, head, tail
<1>5. rotated(k) \in Seq(Queue) /\ Len(rotated(k)) = n
  <2>1. tail \o head \in Seq(Queue) /\ Len(tail \o head) = Len(tail) + Len(head)
    BY <1>2, <1>3, Concatenation
  <2> QED
    BY <1>1, <1>2, <1>3, <1>4, <2>1
<1>7. ASSUME NEW i \in 1..(n - k + 1)
      PROVE  rotated(k)[i] = queues[k + i - 1]
  <2>1. i \in 1..Len(tail) /\ i \in 1..(Len(tail) + Len(head))
    BY <1>1, <1>2, <1>3
  <2>2. rotated(k)[i] = tail[i]
    BY <1>2, <1>3, <1>4, <2>1
  <2> QED
    BY <1>3, <2>2
<1>8. ASSUME NEW i \in 1..(k - 1)
      PROVE  rotated(k)[n - k + 1 + i] = queues[i]
  <2> DEFINE m == n - k + 1 + i
  <2>1. m \in 1..(Len(tail) + Len(head)) /\ m > Len(tail) /\ m - Len(tail) = i
    BY <1>1, <1>2, <1>3
  <2>2. rotated(k)[m] = head[m - Len(tail)]
    <3> HIDE DEF m
    <3> QED
      BY <1>2, <1>3, <1>4, <2>1
  <2> QED
    BY <1>2, <2>1, <2>2
<1>9. ASSUME NEW i \in 1..n
      PROVE  \E j \in 1..n : rotated(k)[i] = queues[j]
  <2>1. CASE i <= n - k + 1
    <3>1. i \in 1..(n - k + 1) /\ k + i - 1 \in 1..n
      BY <1>1, <2>1
    <3> QED
      BY <1>7, <3>1
  <2>2. CASE i > n - k + 1
    <3>1. PICK j \in 1..(k - 1) : i = n - k + 1 + j
      <4>1. i - (n - k + 1) \in 1..(k - 1) /\ i = n - k + 1 + (i - (n - k + 1))
        BY <1>1, <2>2
      <4> QED
        BY <4>1
    <3>2. j \in 1..n
      BY <1>1
    <3> QED
      BY <1>8, <3>1, <3>2
  <2> QED
    BY <1>1, <2>1, <2>2
<1>6. ASSUME NEW j \in 1..n
      PROVE  \E i \in 1..n : rotated(k)[i] = queues[j]
  <2>1. CASE j < k
    <3>1. n - k + 1 + j \in 1..n /\ j \in 1..(k - 1)
      BY <1>1, <2>1
    <3> QED
      BY <1>8, <3>1
  <2>2. CASE j >= k
    <3>1. j - k + 1 \in 1..(n - k + 1) /\ j - k + 1 \in 1..n /\ k + (j - k + 1) - 1 = j
      BY <1>1, <2>2
    <3> QED
      BY <1>7, <3>1
  <2> QED
    BY <1>1, <2>1, <2>2
<1> QED
  BY <1>5, <1>6, <1>9 DEF n

\* A request is queued if and only if some queue holds requests.
LEMMA QueuedNonempty ==
  ASSUME TypeOK
  PROVE  /\ queued \subseteq Request /\ IsFiniteSet(queued) /\ Cardinality(queued) \in Nat
         /\ queued # {} => \E q \in Queue : reqs[q] # <<>>
<1>1. queued \subseteq Request
  BY DEF queued, TypeOK
<1>2. queued # {} => \E q \in Queue : reqs[q] # <<>>
  BY DEF queued, TypeOK
<1>3. IsFiniteSet(queued)
  BY <1>1, FS_Subset, TbQueuesAssumption
<1>4. Cardinality(queued) \in Nat
  BY <1>3, FS_CardinalityType
<1> QED
  BY <1>1, <1>2, <1>3, <1>4

\* A device that is busy has a request.
LEMMA BusyDevice ==
  ASSUME Cardinality(inflight) >= Depth
  PROVE  inflight # {}
<1>1. Cardinality({}) = 0
  BY FS_EmptySet
<1> QED
  BY <1>1, TbQueuesAssumption

\* The invariant holds when tbucket_init_queue has run.
LEMMA InitInv == Init => Inv
<1> SUFFICES ASSUME Init PROVE Inv
  OBVIOUS
<1> USE TbQueuesAssumption DEF Init, Queue
<1>0. queues \in Seq(Queue) /\ Len(queues) = 2
  OBVIOUS
<1>1. TypeOK
  <2>1. reqs \in [Queue -> Seq(Request)]
    <3> HIDE DEF Queue
    <3> QED
      OBVIOUS
  <2> HIDE DEF Queue
  <2> QED
    <3>1. run_serve_size \in 0..RUN_SIZE_LIMIT /\ kicks \in 0..MaxKicks
      OBVIOUS
    <3>2. /\ recent \subseteq Queue /\ throttled \subseteq Limited /\ armed \in BOOLEAN
          /\ disp \subseteq Request /\ inflight \subseteq Request /\ live \subseteq Request
      BY Zenon
    <3> QED
      BY <1>0, <2>1, <3>1, <3>2, Zenon DEF TypeOK
<1>6. Paired
  BY <1>0 DEF Paired
<1>2. queued = {}
  BY DEF queued
<1>3. NeverAsleep
  BY <1>2 DEF NeverAsleep
<1>4. LimitIsRetried
  BY DEF LimitIsRetried, limit_reached
<1>5. Listed
  BY DEF Listed
<1> QED
  BY <1>1, <1>3, <1>4, <1>5, <1>6 DEF Inv

\* tbucket_add_request keeps the invariant.
LEMMA AddStep ==
  ASSUME Inv, NEW r \in Request, tbucket_add_request(r)
  PROVE  Inv'
<1> USE TbQueuesAssumption DEF Inv, tbucket_add_request, core, driver
<1> DEFINE a == acct[r]
           more == <<<<a, 0>>, <<a, 1>>>>
<1>1. a \in Account /\ RQ_QUEUE(r) \in Queue /\ more \in Seq(Queue)
  BY DEF RQ_QUEUE, Queue
<1>2. queues' = queues \/ queues' = queues \o more
  BY DEF add_account
<1>a. queues' \in Seq(Queue)
  <2>1. queues \in Seq(Queue)
    BY DEF TypeOK
  <2>2. queues \o more \in Seq(Queue)
    BY <1>1, <2>1, Concatenation
  <2> QED
    BY <1>2, <2>1, <2>2
<1>b. reqs' \in [Queue -> Seq(Request)]
  BY <1>1 DEF TypeOK
<1>3. TypeOK'
  BY <1>a, <1>b DEF TypeOK
<1>4. NeverAsleep'
  BY DEF NeverAsleep, TypeOK
<1>5. LimitIsRetried'
  BY DEF LimitIsRetried, limit_reached, TypeOK
<1>6. \A j \in 1..Len(queues) : j \in 1..Len(queues') /\ queues'[j] = queues[j]
  BY <1>1, <1>2 DEF TypeOK
<1>7. \A d \in {0, 1} : \E j \in 1..Len(queues') : queues'[j] = <<a, d>>
  <2>1. CASE \E j \in 1..Len(queues) : queues[j][1] = a
    <3>1. PICK k \in 1..Len(queues) : queues[k][1] = a
      BY <2>1
    <3>2. ASSUME NEW d \in {0, 1}
          PROVE  \E j \in 1..Len(queues) : queues[j] = <<a, d>>
      <4>1. \E j \in 1..Len(queues) : queues[j] = <<queues[k][1], d>>
        BY DEF Paired
      <4> QED
        BY <3>1, <4>1
    <3> QED
      BY <1>6, <3>2
  <2>2. CASE ~ \E j \in 1..Len(queues) : queues[j][1] = a
    <3>1. queues' = queues \o more /\ queues \in Seq(Queue) /\ Len(queues) \in Nat
      BY <2>2 DEF add_account, TypeOK
    <3>2. /\ Len(queues) + 1 \in 1..Len(queues') /\ queues'[Len(queues) + 1] = <<a, 0>>
          /\ Len(queues) + 2 \in 1..Len(queues') /\ queues'[Len(queues) + 2] = <<a, 1>>
      BY <1>1, <3>1
    <3> QED
      BY <3>2
  <2> QED
    BY <2>1, <2>2
<1>8. Listed'
  <2> SUFFICES ASSUME NEW q \in Queue, reqs'[q] # <<>>
               PROVE  \E k \in 1..Len(queues') : queues'[k] = q
    BY DEF Listed
  <2>1. CASE q = RQ_QUEUE(r)
    BY <1>7, <2>1 DEF RQ_QUEUE
  <2>2. CASE q # RQ_QUEUE(r)
    BY <1>1, <1>6, <2>2 DEF Listed, TypeOK
  <2> QED
    BY <2>1, <2>2
<1>9. Paired'
  <2>1. \A k \in 1..Len(queues') :
          queues'[k][1] = a \/ \E j \in 1..Len(queues) : queues'[k] = queues[j]
    <3>1. CASE queues' = queues
      BY <3>1
    <3>2. CASE queues' = queues \o more
      BY <1>1, <3>2 DEF TypeOK
    <3> QED
      BY <1>2, <3>1, <3>2
  <2>2. ASSUME NEW k \in 1..Len(queues'), NEW d \in {0, 1}
        PROVE  \E j \in 1..Len(queues') : queues'[j] = <<queues'[k][1], d>>
    <3>1. CASE queues'[k][1] = a
      BY <1>7, <3>1
    <3>2. CASE queues'[k][1] # a
      <4>1. PICK j \in 1..Len(queues) : queues'[k] = queues[j]
        BY <2>1, <3>2
      <4>2. PICK i \in 1..Len(queues) : queues[i] = <<queues[j][1], d>>
        BY DEF Paired
      <4> QED
        BY <1>6, <4>1, <4>2
    <3> QED
      BY <3>1, <3>2
  <2> QED
    BY <2>2 DEF Paired
<1> QED
  BY <1>3, <1>4, <1>5, <1>8, <1>9

\* A call of tbucket_dispatch without force keeps the invariant.
LEMMA DispatchOneStep ==
  ASSUME Inv, tbucket_dispatch, dispatch_one
  PROVE  Inv'
<1> USE TbQueuesAssumption
<1>1. PICK k \in 1..Len(queues) :
        /\ serves(k)
        /\ queues' = rotated(k)
        /\ run_serve_size' = (IF k = 1 THEN run_serve_size ELSE 0) + 1
        /\ reqs' = [reqs EXCEPT ![queues[k]] = Tail(@)]
        /\ recent' = recent \cup {queues[k]}
        /\ throttled' \in {throttled \cup A : A \in SUBSET Limited}
        /\ disp' = disp \cup {Head(reqs[queues[k]])}
  BY DEF dispatch_one
<1>2. kicks > 0 /\ UNCHANGED <<armed, inflight, kicks, live>>
  BY DEF tbucket_dispatch, dispatch_one
<1>3. /\ TypeOK
      /\ queues[k] \in Queue /\ reqs[queues[k]] \in Seq(Request) /\ reqs[queues[k]] # <<>>
  BY <1>1 DEF Inv, TypeOK, serves
<1>4. Head(reqs[queues[k]]) \in Request /\ Tail(reqs[queues[k]]) \in Seq(Request)
  BY <1>3
<1>5. /\ queues' \in Seq(Queue)
      /\ \A j \in 1..Len(queues) : \E i \in 1..Len(queues') : queues'[i] = queues[j]
      /\ \A i \in 1..Len(queues') : \E j \in 1..Len(queues) : queues'[i] = queues[j]
  <2>1. TypeOK /\ k \in 1..Len(queues) /\ queues' = rotated(k)
    BY <1>1, <1>3
  <2>2. /\ rotated(k) \in Seq(Queue)
        /\ \A j \in 1..Len(queues) :
             \E i \in 1..Len(rotated(k)) : rotated(k)[i] = queues[j]
        /\ \A i \in 1..Len(rotated(k)) :
             \E j \in 1..Len(queues) : rotated(k)[i] = queues[j]
    BY <2>1, RotatedList
  <2> QED
    BY <2>1, <2>2, Zenon
<1>6. TypeOK'
  <2>1. reqs' \in [Queue -> Seq(Request)]
    BY <1>1, <1>3, <1>4 DEF TypeOK
  <2>2. run_serve_size' \in 0..RUN_SIZE_LIMIT
    BY <1>1, <1>3 DEF TypeOK, serves, skipped, limit_reached
  <2>3. recent' \subseteq Queue /\ throttled' \subseteq Limited /\ disp' \subseteq Request
    BY <1>1, <1>3, <1>4 DEF TypeOK
  <2> QED
    BY <1>2, <1>3, <1>5, <2>1, <2>2, <2>3 DEF TypeOK
<1>7. NeverAsleep'
  BY <1>2 DEF NeverAsleep
<1>8. LimitIsRetried'
  BY <1>1 DEF LimitIsRetried
<1>9. Listed'
  <2> SUFFICES ASSUME NEW q \in Queue, reqs'[q] # <<>>
               PROVE  \E i \in 1..Len(queues') : queues'[i] = q
    BY DEF Listed
  <2>1. PICK j \in 1..Len(queues) : queues[j] = q
    <3>1. CASE q = queues[k]
      BY <3>1
    <3>2. CASE q # queues[k]
      BY <1>1, <1>3, <3>2 DEF Inv, Listed, TypeOK
    <3> QED
      BY <3>1, <3>2
  <2> QED
    BY <1>5, <2>1
<1>10. Paired'
  <2>1. ASSUME NEW i \in 1..Len(queues'), NEW d \in {0, 1}
        PROVE  \E m \in 1..Len(queues') : queues'[m] = <<queues'[i][1], d>>
    <3>1. PICK j \in 1..Len(queues) : queues'[i] = queues[j]
      BY <1>5
    <3>2. PICK l \in 1..Len(queues) : queues[l] = <<queues[j][1], d>>
      BY DEF Inv, Paired
    <3> QED
      BY <1>5, <3>1, <3>2
  <2> QED
    BY <2>1 DEF Paired
<1> QED
  BY <1>6, <1>7, <1>8, <1>9, <1>10 DEF Inv

\* The heart of the matter: what makes a call return 0.
LEMMA DispatchNoneStep ==
  ASSUME Inv, tbucket_dispatch, dispatch_none
  PROVE  Inv'
<1> USE TbQueuesAssumption DEF Inv, tbucket_dispatch, dispatch_none, driver
<1>1. TypeOK'
  <2>1. armed' \in BOOLEAN
    BY Zenon
  <2>2. run_serve_size' \in 0..RUN_SIZE_LIMIT /\ kicks' \in 0..MaxKicks
    BY DEF TypeOK
  <2> QED
    BY <2>1, <2>2 DEF TypeOK
<1>2. Listed' /\ Paired'
  <2>1. queues' = queues /\ reqs' = reqs
    OBVIOUS
  <2> QED
    BY <2>1, Zenon DEF Listed, Paired
<1>3. disp' = {} /\ inflight' = inflight /\ queued' = queued /\ kicks' = kicks - 1 /\ kicks \in Nat
  BY DEF queued, TypeOK
<1>4. CASE anticipates
  <2>1. armed'
    BY <1>4, Zenon DEF arms_timer
  <2>2. NeverAsleep'
    BY <2>1 DEF NeverAsleep
  <2>3. ~limit_reached /\ run_serve_size' = run_serve_size
    BY <1>4 DEF anticipates
  <2>4. LimitIsRetried'
    BY <2>3 DEF LimitIsRetried, limit_reached
  <2> QED
    BY <1>1, <1>2, <2>2, <2>4
<1>5. CASE ~anticipates
  <2>1. run_serve_size' = 0
    BY <1>5
  <2>2. LimitIsRetried'
    BY <2>1 DEF LimitIsRetried, limit_reached
  <2>3. CASE limit_reached
    <3>1. inflight' # {} \/ kicks' > 0
      BY <1>3, <2>3 DEF LimitIsRetried
    <3> QED
      BY <1>1, <1>2, <2>2, <3>1 DEF NeverAsleep
  <2>4. CASE ~limit_reached
    <3>1. ASSUME queued # {}
          PROVE  armed'
      <4>1. PICK q \in Queue : reqs[q] # <<>>
        BY <3>1, QueuedNonempty
      <4>2. PICK k \in 1..Len(queues) : queues[k] = q
        BY <4>1 DEF Listed
      <4>3. arms_timer
        BY <2>4, <4>1, <4>2 DEF arms_timer, skipped
      <4> QED
        BY <4>3, Zenon
    <3>2. NeverAsleep'
      BY <1>3, <3>1 DEF NeverAsleep
    <3> QED
      BY <1>1, <1>2, <2>2, <3>2
  <2> QED
    BY <2>3, <2>4
<1> QED
  BY <1>4, <1>5

\* A forced dispatch keeps the invariant.
LEMMA ForceStep ==
  ASSUME Inv, tbucket_dispatch_force
  PROVE  Inv'
<1> USE TbQueuesAssumption DEF Inv, tbucket_dispatch_force
<1>1. queued \subseteq Request /\ Cardinality(queued) \in Nat
  BY QueuedNonempty
<1>2. TypeOK'
  <2>1. run_serve_size' \in 0..RUN_SIZE_LIMIT /\ kicks' \in 0..MaxKicks
    BY <1>1 DEF TypeOK
  <2>2. /\ recent' \subseteq Queue /\ throttled' \subseteq Limited /\ disp' \subseteq Request
        /\ reqs' \in [Queue -> Seq(Request)]
    BY <1>1 DEF TypeOK
  <2> QED
    BY <2>1, <2>2 DEF TypeOK
<1>3. NeverAsleep'
  BY DEF NeverAsleep, TypeOK
<1>4. LimitIsRetried'
  BY DEF LimitIsRetried
<1>5. Listed'
  BY DEF Listed
<1>6. Paired'
  <2>1. queues' = queues
    OBVIOUS
  <2> QED
    BY <2>1, Zenon DEF Paired
<1> QED
  BY <1>2, <1>3, <1>4, <1>5, <1>6

\* The other actions leave the queues alone, and leave a kick, a request at
\* the device, or everything as it was.
LEMMA DriverStep ==
  ASSUME Inv,
         \/ dispatch_nudge \/ device_busy
         \/ \E r \in Request : start_request(r) \/ complete_request(r)
         \/ \E q \in Queue : pop_elapsed(q)
         \/ \E a \in Account : refresh_count(a)
  PROVE  Inv'
<1> USE TbQueuesAssumption DEF Inv, core, driver
<1>0. TypeOK
  OBVIOUS
<1>1. queues' = queues /\ reqs' = reqs /\ run_serve_size' = run_serve_size
  BY DEF dispatch_nudge, device_busy, start_request, complete_request, pop_elapsed, refresh_count
<1>a. queued' = queued
  BY <1>1 DEF queued
<1>b. Listed' /\ Paired'
  <2>1. Listed /\ Paired
    OBVIOUS
  <2> HIDE DEF Inv
  <2>2. Listed'
    BY <1>1, <2>1, Zenon DEF Listed
  <2>3. Paired'
    BY <1>1, <2>1, Zenon DEF Paired
  <2> QED
    BY <2>2, <2>3
<1>c. limit_reached' <=> limit_reached
  BY <1>1 DEF limit_reached
<1>2. queued' = queued /\ Listed' /\ Paired' /\ (limit_reached' <=> limit_reached)
  BY <1>a, <1>b, <1>c
<1> HIDE DEF Inv
<1>3. CASE dispatch_nudge
  <2>1. /\ kicks' > 0 /\ kicks' > kicks /\ disp' = disp /\ inflight' = inflight
        /\ kicks' \in 0..MaxKicks
    BY <1>0, <1>3 DEF dispatch_nudge, TypeOK
  <2>2. /\ armed' \in BOOLEAN /\ recent' = recent /\ throttled' = throttled /\ live' = live
    BY <1>3 DEF dispatch_nudge
  <2>3. TypeOK'
    BY <1>0, <1>1, <2>1, <2>2, Zenon DEF TypeOK
  <2> QED
    BY <1>0, <1>2, <2>1, <2>3 DEF Inv, NeverAsleep, LimitIsRetried, TypeOK
<1>4. CASE device_busy
  <2>1. inflight # {}
    BY <1>4, BusyDevice DEF device_busy
  <2>2. disp # {} /\ disp' = disp /\ inflight' = inflight /\ TypeOK'
    BY <1>0, <1>1, <1>4 DEF device_busy, TypeOK
  <2> QED
    BY <1>2, <2>1, <2>2 DEF Inv, NeverAsleep, LimitIsRetried
<1>5. ASSUME NEW r \in Request, start_request(r)
      PROVE  Inv'
  <2>1. inflight' # {} /\ kicks > 0 /\ kicks' = kicks /\ TypeOK'
    BY <1>0, <1>1, <1>5 DEF start_request, TypeOK
  <2> QED
    BY <1>2, <2>1 DEF Inv, NeverAsleep, LimitIsRetried
<1>6. ASSUME NEW r \in Request, complete_request(r)
      PROVE  Inv'
  <2>1. kicks' = kicks + 1 /\ kicks \in Nat /\ disp' = disp /\ TypeOK'
    BY <1>0, <1>1, <1>6 DEF complete_request, TypeOK
  <2> QED
    BY <1>2, <2>1 DEF Inv, NeverAsleep, LimitIsRetried
<1>7. ASSUME kicks' = kicks, disp' = disp, inflight' = inflight, armed' = armed, TypeOK'
      PROVE  Inv'
  BY <1>2, <1>7 DEF Inv, NeverAsleep, LimitIsRetried
<1>8. ASSUME NEW q \in Queue, pop_elapsed(q)
      PROVE  Inv'
  BY <1>0, <1>7, <1>8 DEF pop_elapsed, TypeOK
<1>9. ASSUME NEW a \in Account, refresh_count(a)
      PROVE  Inv'
  BY <1>0, <1>7, <1>9 DEF refresh_count, TypeOK
<1> QED
  BY <1>3, <1>4, <1>5, <1>6, <1>8, <1>9

\* The invariant holds in every reachable state.
LEMMA Invariance == Spec => []Inv
<1>1. Init => Inv
  BY InitInv
<1>2. Inv /\ [Next]_vars => Inv'
  <2> SUFFICES ASSUME Inv, [Next]_vars
               PROVE  Inv'
    OBVIOUS
  <2>1. CASE \E r \in Request : tbucket_add_request(r)
    BY <2>1, AddStep
  <2>2. CASE tbucket_dispatch
    BY <2>2, DispatchOneStep, DispatchNoneStep DEF tbucket_dispatch
  <2>3. CASE tbucket_dispatch_force
    BY <2>3, ForceStep
  <2>4. CASE \/ dispatch_nudge \/ device_busy
             \/ \E r \in Request : start_request(r) \/ complete_request(r)
             \/ \E q \in Queue : pop_elapsed(q)
             \/ \E a \in Account : refresh_count(a)
    BY <2>4, DriverStep
  <2>5. CASE UNCHANGED vars
    <3>1. /\ queues' = queues /\ reqs' = reqs /\ run_serve_size' = run_serve_size
          /\ recent' = recent /\ throttled' = throttled /\ armed' = armed
          /\ disp' = disp /\ inflight' = inflight /\ kicks' = kicks /\ live' = live
      BY <2>5 DEF vars, core, driver
    <3>2. TypeOK' /\ Listed' /\ Paired'
      BY <3>1, Zenon DEF Inv, TypeOK, Listed, Paired
    <3>3. queued' = queued /\ (limit_reached' <=> limit_reached)
      BY <3>1 DEF queued, limit_reached
    <3> QED
      BY <3>1, <3>2, <3>3 DEF Inv, NeverAsleep, LimitIsRetried
  <2> QED
    BY <2>1, <2>2, <2>3, <2>4, <2>5 DEF Next
<1> QED
  BY <1>1, <1>2, PTL DEF Spec

\* Every variable of the dispatcher keeps its type; in particular a run of
\* requests from one queue ends at RUN_SIZE_LIMIT.
THEOREM TypeCorrect == Spec => []TypeOK
<1>1. Inv => TypeOK
  BY DEF Inv
<1> QED
  BY <1>1, Invariance, PTL

\* tbucket_dispatch never leaves requests behind with nothing to call it
\* again, whatever the accounts, the limits and the device.
THEOREM AlwaysAwake == Spec => []NeverAsleep
<1>1. Inv => NeverAsleep
  BY DEF Inv
<1> QED
  BY <1>1, Invariance, PTL

=============================================================================
