------------------------------- MODULE IoBatch -------------------------------
(***************************************************************************)
(* Batches of disk requests and what they cost (io_batch.c, disk_sim.c).   *)
(* A batch is a record; every operation is an operator from a batch to the *)
(* batch after it.  Offsets, sizes and costs are in one unit, the page.    *)
(***************************************************************************)
EXTENDS Integers, Sequences, FiniteSetsExt

CONSTANTS SEEK_CAP, reqs_capacity, bytes_cap

ASSUME IoBatchAssumption ==
  SEEK_CAP \in Nat /\ reqs_capacity \in Nat \ {0} /\ bytes_cap \in Nat \ {0}

iobatch_new == [reqs |-> <<>>, cost |-> -1, bytes |-> 0]

iobatch_full(b) == Len(b.reqs) >= reqs_capacity \/ b.bytes >= bytes_cap

\* A request that continues the last one is merged with it.
add_or_merge(reqs, offset, size) ==
  LET n == Len(reqs) IN
  IF n > 0 /\ offset = reqs[n].offset + reqs[n].size
  THEN [reqs EXCEPT ![n].size = @ + size]
  ELSE Append(reqs, [offset |-> offset, size |-> size])

\* A full batch takes no more requests.
iobatch_add_request(b, offset, size) ==
  IF iobatch_full(b) THEN b
  ELSE [b EXCEPT !.reqs = add_or_merge(@, offset, size), !.cost = -1, !.bytes = @ + size]

\* An empty batch is left as it is, a cached cost of 0 included.
iobatch_clear(b) == IF b.reqs = <<>> THEN b ELSE iobatch_new

(***************************************************************************)
(* The disk model: the head moves to a request at a cost of the distance,  *)
(* at most SEEK_CAP, and over it at a cost of its size.                    *)
(***************************************************************************)

offset_diff(o1, o2) == IF o1 > o2 THEN o1 - o2 ELSE o2 - o1

seek_time(o1, o2) == Min({offset_diff(o1, o2), SEEK_CAP})

disk_simulate_request(head, req) == req.size + seek_time(head, req.offset)

\* The kernel's sort() is a heap sort: requests at the same offset may come
\* in any order.  An injection of the positions is a permutation of them.
iobatch_scan_sort(reqs) ==
  { [i \in 1..Len(reqs) |-> reqs[p[i]]] :
      p \in {q \in Injection(1..Len(reqs), 1..Len(reqs)) :
               \A i, j \in 1..Len(reqs) : i < j => reqs[q[i]].offset <= reqs[q[j]].offset} }

\* The cost of the requests in this order, the head starting at the first.
scan_cost(reqs) ==
  LET head(i) == IF i = 1 THEN reqs[1].offset ELSE reqs[i - 1].offset + reqs[i - 1].size IN
  SEEK_CAP + SumFunction([i \in 1..Len(reqs) |-> disk_simulate_request(head(i), reqs[i])])

\* The costs that iobatch_get_cost may return.
iobatch_get_cost(b) ==
  IF b.cost # -1 THEN {b.cost}
  ELSE IF b.reqs = <<>> THEN {0}
  ELSE {scan_cost(reqs) : reqs \in iobatch_scan_sort(b.reqs)}

(***************************************************************************)
(* What holds of every batch between two calls.                            *)
(***************************************************************************)

BatchType == [reqs : Seq([offset : Nat, size : Nat]), cost : Int, bytes : Nat]

\* A cached cost is the cost of the requests that are in the batch now.
cache_coherent(b) == b.cost # -1 => b.cost \in iobatch_get_cost([b EXCEPT !.cost = -1])

\* The cost lies between that of one sequential run and that of a full seek
\* before every request, and bytes is the sum of the sizes.
cost_bounded(b) ==
  LET n == Len(b.reqs) IN
  /\ b.bytes = SumFunction([i \in 1..n |-> b.reqs[i].size])
  /\ \A c \in iobatch_get_cost([b EXCEPT !.cost = -1]) :
       n > 0 => SEEK_CAP + b.bytes <= c /\ c <= n * SEEK_CAP + b.bytes

=============================================================================
