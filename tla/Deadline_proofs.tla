--------------------------- MODULE Deadline_proofs ---------------------------
(***************************************************************************)
(* Proofs about the dispatcher of the split-deadline scheduler: the FIFO   *)
(* and the tree hold the same requests, next_rq never dangles, reads pass  *)
(* a waiting write a bounded number of times, and the dispatcher           *)
(* implements ReadPreference.  While the expiry settings are left alone,   *)
(* each FIFO is in order of expiry, and an expired request of the chosen   *)
(* direction is served first.                                              *)
(***************************************************************************)
EXTENDS Deadline, FiniteSetTheorems, WellFoundedInduction, TLAPS

(***************************************************************************)
(* Sequences: removing and replacing an element.                           *)
(***************************************************************************)

distinct(s) == \A j, k \in 1..Len(s) : s[j] = s[k] => j = k

\* The place in s of the j-th element of without(s, k).
place(k, j) == IF j < k THEN j ELSE j + 1

\* place(k, _) maps 1..n-1 to 1..n without k, one to one and in order.
LEMMA PlaceMap ==
  ASSUME NEW n \in Nat, NEW k \in 1..n
  PROVE  /\ \A j \in 1..(n - 1) : place(k, j) \in 1..n /\ place(k, j) # k
         /\ \A i \in 1..n : i # k => \E j \in 1..(n - 1) : place(k, j) = i
         /\ \A i, j \in 1..(n - 1) : i < j <=> place(k, i) < place(k, j)
<1>1. \A j \in 1..(n - 1) : place(k, j) \in 1..n /\ place(k, j) # k
  BY DEF place
<1>2. \A i, j \in 1..(n - 1) : i < j <=> place(k, i) < place(k, j)
  BY DEF place
<1>3. ASSUME NEW i \in 1..n, i # k
      PROVE  \E j \in 1..(n - 1) : place(k, j) = i
  <2>1. CASE i < k
    <3>1. i \in 1..(n - 1) /\ place(k, i) = i
      BY <2>1 DEF place
    <3> QED
      BY <3>1
  <2>2. CASE i > k
    <3>1. i - 1 \in 1..(n - 1) /\ place(k, i - 1) = i
      BY <2>2 DEF place
    <3> QED
      BY <3>1
  <2> QED
    BY <1>3, <2>1, <2>2
<1> QED
  BY <1>1, <1>2, <1>3

\* without(s, k) takes its elements from the other places of s.
LEMMA WithoutPlaces ==
  ASSUME NEW S, NEW s \in Seq(S), NEW k \in 1..Len(s)
  PROVE  /\ without(s, k) \in Seq(S)
         /\ Len(without(s, k)) = Len(s) - 1
         /\ Len(s) \in Nat /\ Len(s) - 1 \in Nat
         /\ \A j \in 1..(Len(s) - 1) : without(s, k)[j] = s[place(k, j)]
<1> DEFINE w == without(s, k)
<1>1. Len(s) \in Nat /\ Len(s) - 1 \in Nat
  OBVIOUS
<1>2. \A j \in 1..(Len(s) - 1) : place(k, j) \in 1..Len(s)
  BY <1>1, PlaceMap, Zenon
<1>3. \A j \in 1..(Len(s) - 1) : w[j] = s[place(k, j)]
  BY <1>1 DEF place, without
<1>4. w \in Seq(S) /\ Len(w) = Len(s) - 1
  BY <1>1, <1>2, <1>3 DEF without
<1> QED
  BY <1>1, <1>3, <1>4

\* Removing the k-th element of a sequence without duplicates.
LEMMA WithoutElems ==
  ASSUME NEW S, NEW s \in Seq(S), NEW k \in 1..Len(s), distinct(s)
  PROVE  /\ without(s, k) \in Seq(S)
         /\ Len(without(s, k)) = Len(s) - 1
         /\ distinct(without(s, k))
         /\ elems(without(s, k)) = elems(s) \ {s[k]}
<1> DEFINE w == without(s, k)
           n == Len(s)
<1>1. w \in Seq(S) /\ Len(w) = n - 1 /\ n \in Nat /\ n - 1 \in Nat /\ k \in 1..n
  BY WithoutPlaces
<1>2. \A j \in 1..(n - 1) : w[j] = s[place(k, j)]
  BY WithoutPlaces
<1>3. \A j \in 1..(n - 1) : place(k, j) \in 1..n /\ place(k, j) # k
  BY <1>1, PlaceMap, Zenon
<1>4. \A i \in 1..n : i # k => \E j \in 1..(n - 1) : place(k, j) = i
  BY <1>1, PlaceMap
<1>5. \A i, j \in 1..(n - 1) : place(k, i) = place(k, j) => i = j
  BY <1>1 DEF place
<1>6. \A i, j \in 1..n : s[i] = s[j] => i = j
  BY DEF distinct
<1> HIDE DEF w
<1>7. distinct(w)
  <2>1. ASSUME NEW i \in 1..(n - 1), NEW j \in 1..(n - 1), w[i] = w[j]
        PROVE  i = j
    <3>1. s[place(k, i)] = s[place(k, j)]
      BY <1>2, <2>1
    <3>2. place(k, i) = place(k, j)
      BY <1>3, <1>6, <3>1
    <3> QED
      BY <1>5, <3>2
  <2> QED
    BY <1>1, <2>1 DEF distinct
<1>8. elems(w) = elems(s) \ {s[k]}
  <2>1. ASSUME NEW j \in 1..(n - 1)
        PROVE  w[j] \in elems(s) \ {s[k]}
    BY <1>1, <1>2, <1>3, <1>6 DEF elems
  <2>2. ASSUME NEW i \in 1..n, s[i] # s[k]
        PROVE  \E j \in 1..(n - 1) : w[j] = s[i]
    BY <1>2, <1>4, <2>2
  <2>3. elems(w) = {w[j] : j \in 1..(n - 1)} /\ elems(s) = {s[i] : i \in 1..n}
    BY <1>1 DEF elems
  <2>4. elems(w) \subseteq elems(s) \ {s[k]}
    BY <2>1, <2>3
  <2>5. ASSUME NEW x \in elems(s) \ {s[k]}
        PROVE  x \in elems(w)
    <3>1. PICK i \in 1..n : x = s[i] /\ s[i] # s[k]
      BY <2>3
    <3> QED
      BY <2>2, <2>3, <3>1
  <2> QED
    BY <2>4, <2>5
<1> QED
  BY <1>1, <1>7, <1>8 DEF w

\* The place of an element.
LEMMA IndexOf ==
  ASSUME NEW S, NEW s \in Seq(S), NEW r \in elems(s)
  PROVE  index(s, r) \in 1..Len(s) /\ s[index(s, r)] = r
BY DEF elems, index

\* What merge_fifo makes of a FIFO: next goes, req stays, nothing doubles.
LEMMA MergeElems ==
  ASSUME NEW S, NEW s \in Seq(S), distinct(s),
         NEW req \in elems(s), NEW next \in elems(s), req # next
  PROVE  /\ merge_fifo(s, req, next) \in Seq(S)
         /\ Len(merge_fifo(s, req, next)) = Len(s) - 1
         /\ distinct(merge_fifo(s, req, next))
         /\ elems(merge_fifo(s, req, next)) = elems(s) \ {next}
<1> DEFINE m == index(s, next)
           k == index(s, req)
           n == Len(s)
           t == [s EXCEPT ![m] = req]
           w == without(t, k)
<1>1. m \in 1..n /\ s[m] = next /\ k \in 1..n /\ s[k] = req /\ m # k /\ req \in S
  BY IndexOf DEF elems
<1> HIDE DEF m, k
<1>2. t \in Seq(S) /\ Len(t) = n
  BY <1>1
<1>3. \A j \in 1..n : t[j] = IF j = m THEN req ELSE s[j]
  BY <1>1
<1> HIDE DEF t
<1>4. w \in Seq(S) /\ Len(w) = n - 1 /\ n \in Nat /\ n - 1 \in Nat
  BY <1>1, <1>2, WithoutPlaces
<1>5. \A j \in 1..(n - 1) : w[j] = t[place(k, j)]
  BY <1>1, <1>2, WithoutPlaces
<1>6. \A j \in 1..(n - 1) : place(k, j) \in 1..n /\ place(k, j) # k
  BY <1>1, <1>4, PlaceMap, Zenon
<1>7. \A i \in 1..n : i # k => \E j \in 1..(n - 1) : place(k, j) = i
  BY <1>1, <1>4, PlaceMap, Zenon
<1>8. \A i, j \in 1..(n - 1) : place(k, i) = place(k, j) => i = j
  BY <1>1 DEF place
<1>9. \A i, j \in 1..n : s[i] = s[j] => i = j
  BY DEF distinct
<1> HIDE DEF w
<1>10. distinct(w)
  <2>1. \A i, j \in 1..n : i # k /\ j # k /\ t[i] = t[j] => i = j
    <3> SUFFICES ASSUME NEW i \in 1..n, NEW j \in 1..n, i # k, j # k, t[i] = t[j]
                 PROVE  i = j
      OBVIOUS
    <3>1. t[i] = (IF i = m THEN req ELSE s[i]) /\ t[j] = (IF j = m THEN req ELSE s[j])
      BY <1>3
    <3>2. s[i] # req /\ s[j] # req
      BY <1>1, <1>9
    <3> QED
      BY <1>9, <3>1, <3>2, Zenon
  <2>2. ASSUME NEW i \in 1..(n - 1), NEW j \in 1..(n - 1), w[i] = w[j]
        PROVE  i = j
    <3>1. t[place(k, i)] = t[place(k, j)]
      BY <1>5, <2>2
    <3>2. place(k, i) = place(k, j)
      BY <1>6, <2>1, <3>1
    <3> QED
      BY <1>8, <3>2
  <2> QED
    BY <1>4, <2>2 DEF distinct
<1>11. elems(w) = elems(s) \ {next}
  <2>1. ASSUME NEW j \in 1..(n - 1)
        PROVE  w[j] \in elems(s) \ {next}
    <3>1. PICK p \in 1..n : w[j] = t[p] /\ p # k
      BY <1>5, <1>6
    <3>2. CASE p = m
      BY <1>1, <1>3, <3>1, <3>2
    <3>3. CASE p # m
      <4>1. w[j] = s[p] /\ s[p] # s[m]
        BY <1>1, <1>3, <1>9, <3>1, <3>3
      <4> QED
        BY <1>1, <4>1 DEF elems
    <3> QED
      BY <3>2, <3>3
  <2>2. ASSUME NEW i \in 1..n, s[i] # next
        PROVE  \E j \in 1..(n - 1) : w[j] = s[i]
    <3>1. CASE i = k
      <4>1. PICK j \in 1..(n - 1) : place(k, j) = m
        BY <1>1, <1>7
      <4>2. w[j] = s[i]
        BY <1>1, <1>3, <1>5, <3>1, <4>1
      <4> QED
        BY <4>2
    <3>2. CASE i # k
      <4>1. PICK j \in 1..(n - 1) : place(k, j) = i
        BY <1>7, <3>2
      <4>2. w[j] = s[i]
        BY <1>1, <1>3, <1>5, <2>2, <4>1
      <4> QED
        BY <4>2
    <3> QED
      BY <3>1, <3>2
  <2>3. elems(w) = {w[j] : j \in 1..(n - 1)} /\ elems(s) = {s[i] : i \in 1..n}
    BY <1>4 DEF elems
  <2>4. elems(w) \subseteq elems(s) \ {next}
    BY <2>1, <2>3, Zenon
  <2>5. ASSUME NEW x \in elems(s) \ {next}
        PROVE  x \in elems(w)
    <3>1. PICK i \in 1..n : x = s[i] /\ s[i] # next
      BY <2>3
    <3> QED
      BY <2>2, <2>3, <3>1, Zenon
  <2> QED
    BY <2>4, <2>5
<1> QED
  BY <1>4, <1>10, <1>11, Zenon DEF merge_fifo, w, t, m, k

\* Appending a new element.
LEMMA AppendElems ==
  ASSUME NEW S, NEW s \in Seq(S), NEW r \in S, r \notin elems(s), distinct(s)
  PROVE  /\ Append(s, r) \in Seq(S)
         /\ Len(Append(s, r)) = Len(s) + 1
         /\ distinct(Append(s, r))
         /\ elems(Append(s, r)) = elems(s) \cup {r}
<1> DEFINE w == Append(s, r)
           n == Len(s)
<1>1. /\ w \in Seq(S) /\ Len(w) = n + 1 /\ n \in Nat
      /\ \A j \in 1..n : w[j] = s[j]
      /\ w[n + 1] = r
  OBVIOUS
<1> HIDE DEF w
<1>2. distinct(w)
  BY <1>1 DEF distinct, elems
<1>3. elems(w) = elems(s) \cup {r}
  <2>1. 1..(n + 1) = (1..n) \cup {n + 1}
    BY <1>1
  <2> QED
    BY <1>1, <2>1 DEF elems
<1> QED
  BY <1>1, <1>2, <1>3 DEF w

(***************************************************************************)
(* The inductive invariant.                                                *)
(***************************************************************************)

\* The FIFO and the tree of each direction: the same requests, no duplicates.
ListsOK ==
  /\ fifo_list \in [Dir -> Seq(Request)] /\ sort_list \in [Dir -> SUBSET Request]
  /\ \A d \in Dir : /\ \A r \in sort_list[d] : rq_data_dir(r) = d
                    /\ distinct(fifo_list[d])
                    /\ elems(fifo_list[d]) = sort_list[d]
                    /\ Len(fifo_list[d]) = Cardinality(sort_list[d])

\* Every batch of reads is paid for by starved, but for the running one.
PassedInv == passed <= starved * fifo_batch + batching

IInv == TypeOK /\ ListsOK /\ NextIsPending /\ PassedInv

\* There are two directions, and a request has one of them.
LEMMA DirFacts ==
  /\ READ \in Dir /\ WRITE \in Dir /\ READ # WRITE
  /\ \A r \in Request : rq_data_dir(r) \in Dir
  /\ \A d \in Dir : d = READ \/ d = WRITE
BY DEF Dir, READ, WRITE, rq_data_dir

\* A request joins both lists.
LEMMA Grow ==
  ASSUME ListsOK, NEW r \in Request, r \notin sort_list[rq_data_dir(r)],
         fifo_list' = [fifo_list EXCEPT ![rq_data_dir(r)] = Append(@, r)],
         sort_list' = [sort_list EXCEPT ![rq_data_dir(r)] = @ \cup {r}]
  PROVE  ListsOK'
<1>1. PICK d \in Dir : d = rq_data_dir(r)
  BY DirFacts
<1>2. /\ fifo_list[d] \in Seq(Request) /\ sort_list[d] \subseteq Request
      /\ distinct(fifo_list[d]) /\ elems(fifo_list[d]) = sort_list[d]
      /\ Len(fifo_list[d]) = Cardinality(sort_list[d])
  BY DEF ListsOK
<1>3. /\ Append(fifo_list[d], r) \in Seq(Request)
      /\ Len(Append(fifo_list[d], r)) = Len(fifo_list[d]) + 1
      /\ distinct(Append(fifo_list[d], r))
      /\ elems(Append(fifo_list[d], r)) = sort_list[d] \cup {r}
  BY <1>1, <1>2, AppendElems
<1>4. Cardinality(sort_list[d] \cup {r}) = Cardinality(sort_list[d]) + 1
  <2>1. IsFiniteSet(sort_list[d])
    BY <1>2, DeadlineAssumption, FS_Subset
  <2> QED
    BY <1>1, <2>1, FS_AddElement, Zenon
<1>5. /\ fifo_list'[d] = Append(fifo_list[d], r) /\ sort_list'[d] = sort_list[d] \cup {r}
      /\ \A e \in Dir \ {d} : fifo_list'[e] = fifo_list[e] /\ sort_list'[e] = sort_list[e]
      /\ fifo_list' \in [Dir -> Seq(Request)] /\ sort_list' \in [Dir -> SUBSET Request]
  BY <1>1, <1>2, <1>3 DEF ListsOK
<1>6. ASSUME NEW e \in Dir
      PROVE  /\ \A x \in sort_list'[e] : rq_data_dir(x) = e
             /\ distinct(fifo_list'[e])
             /\ elems(fifo_list'[e]) = sort_list'[e]
             /\ Len(fifo_list'[e]) = Cardinality(sort_list'[e])
  <2>1. CASE e = d
    BY <1>1, <1>2, <1>3, <1>4, <1>5, <2>1 DEF ListsOK
  <2>2. CASE e # d
    BY <1>5, <2>2 DEF ListsOK
  <2> QED
    BY <2>1, <2>2
<1> QED
  BY <1>5, <1>6, Zenon DEF ListsOK

\* A request leaves both lists.
LEMMA Shrink ==
  ASSUME ListsOK, NEW d \in Dir, NEW r \in sort_list[d], NEW w \in Seq(Request),
         distinct(w), elems(w) = sort_list[d] \ {r}, Len(w) = Len(fifo_list[d]) - 1,
         fifo_list' = [fifo_list EXCEPT ![d] = w],
         sort_list' = [sort_list EXCEPT ![d] = @ \ {r}]
  PROVE  ListsOK'
<1>1. /\ fifo_list[d] \in Seq(Request) /\ sort_list[d] \subseteq Request
      /\ Len(fifo_list[d]) = Cardinality(sort_list[d])
  BY DEF ListsOK
<1>2. Cardinality(sort_list[d] \ {r}) = Cardinality(sort_list[d]) - 1
  <2>1. IsFiniteSet(sort_list[d])
    BY <1>1, DeadlineAssumption, FS_Subset
  <2> QED
    BY <2>1, FS_RemoveElement, Zenon
<1>3. /\ fifo_list'[d] = w /\ sort_list'[d] = sort_list[d] \ {r}
      /\ \A e \in Dir \ {d} : fifo_list'[e] = fifo_list[e] /\ sort_list'[e] = sort_list[e]
      /\ fifo_list' \in [Dir -> Seq(Request)] /\ sort_list' \in [Dir -> SUBSET Request]
  BY <1>1 DEF ListsOK
<1>4. ASSUME NEW e \in Dir
      PROVE  /\ \A x \in sort_list'[e] : rq_data_dir(x) = e
             /\ distinct(fifo_list'[e])
             /\ elems(fifo_list'[e]) = sort_list'[e]
             /\ Len(fifo_list'[e]) = Cardinality(sort_list'[e])
  <2>1. CASE e = d
    BY <1>1, <1>2, <1>3, <2>1 DEF ListsOK
  <2>2. CASE e # d
    BY <1>3, <2>2 DEF ListsOK
  <2> QED
    BY <2>1, <2>2
<1> QED
  BY <1>3, <1>4, Zenon DEF ListsOK

\* A non-empty set of requests has one with the lowest place.
LEMMA LowestPlace ==
  ASSUME NEW f \in [Request -> Nat], NEW A \in SUBSET Request, A # {}
  PROVE  \E x \in A : \A y \in A : f[x] <= f[y]
<1> DEFINE T == {f[x] : x \in A}
           R == OpToRel(<, Nat)
<1>1. T \subseteq Nat /\ T # {}
  OBVIOUS
<1>2. IsWellFoundedOn(R, Nat)
  BY NatLessThanWellFounded, Zenon
<1> HIDE DEF R
<1>3. PICK n \in T : \A m \in T : <<m, n>> \notin R
  BY <1>1, <1>2, WFMin, Zenon
<1>4. \A m \in T : ~(m < n)
  BY <1>1, <1>3, Zenon DEF R, OpToRel
<1>5. PICK x \in A : f[x] = n
  OBVIOUS
<1>6. \A y \in A : f[y] \in T /\ f[y] \in Nat /\ f[x] \in Nat
  OBVIOUS
<1> HIDE DEF T
<1>7. \A y \in A : f[x] <= f[y]
  BY <1>4, <1>5, <1>6
<1> QED
  BY <1>7

\* deadline_latter_request finds a request of the same tree further on.
LEMMA Latter ==
  ASSUME TypeOK, NEW r \in Request
  PROVE  \/ deadline_latter_request(r) = None
         \/ /\ deadline_latter_request(r) \in sort_list[rq_data_dir(r)] \ {r}
            /\ pos[deadline_latter_request(r)] > pos[r]
<1> DEFINE after == {x \in sort_list[rq_data_dir(r)] : pos[x] > pos[r]}
<1>1. after \subseteq Request /\ pos \in [Request -> Nat]
  BY DirFacts DEF TypeOK
<1>2. CASE after = {}
  BY <1>2 DEF deadline_latter_request
<1>3. CASE after # {}
  <2>1. \E x \in after : \A y \in after : pos[x] <= pos[y]
    BY <1>1, <1>3, LowestPlace, Zenon
  <2>2. deadline_latter_request(r) \in after
    BY <1>3, <2>1 DEF deadline_latter_request
  <2> QED
    BY <1>1, <2>2
<1> QED
  BY <1>2, <1>3

(***************************************************************************)
(* The steps.                                                              *)
(***************************************************************************)

\* The invariant holds when deadline_init_queue has run.
LEMMA InitInv == Init => IInv
<1> SUFFICES ASSUME Init PROVE IInv
  OBVIOUS
<1>1. TypeOK
  BY DeadlineAssumption DEF Init, TypeOK
<1>2. ListsOK
  <2>1. distinct(<<>>) /\ elems(<<>>) = {} /\ Len(<<>>) = 0 /\ <<>> \in Seq(Request)
    BY DEF distinct, elems
  <2>2. Cardinality({}) = 0
    BY FS_EmptySet
  <2>3. \A d \in Dir : fifo_list[d] = <<>> /\ sort_list[d] = {}
    BY DEF Init
  <2>4. fifo_list \in [Dir -> Seq(Request)] /\ sort_list \in [Dir -> SUBSET Request]
    BY <2>1 DEF Init
  <2> QED
    BY <2>1, <2>2, <2>3, <2>4, Zenon DEF ListsOK
<1>3. NextIsPending
  BY DirFacts DEF Init, NextIsPending
<1>4. PassedInv
  BY DeadlineAssumption DEF Init, PassedInv
<1> QED
  BY <1>1, <1>2, <1>3, <1>4 DEF IInv

\* deadline_add_request keeps the invariant.
LEMMA AddStep ==
  ASSUME IInv, NEW r \in Request, deadline_add_request(r)
  PROVE  IInv'
<1> USE DEF IInv
<1>1. ListsOK'
  BY Grow, Zenon DEF deadline_add_request, pending
<1>2. TypeOK'
  <2>1. fifo_expire[rq_data_dir(r)] \in Nat
    BY DirFacts, DeadlineAssumption, Zenon DEF TypeOK
  <2>2. ttl' \in [Request -> Nat]
    BY <2>1 DEF deadline_add_request, TypeOK
  <2>3. pos' \in [Request -> Nat]
    BY DeadlineAssumption DEF deadline_add_request, TypeOK
  <2> QED
    BY <1>1, <2>2, <2>3, Zenon DEF deadline_add_request, TypeOK, ListsOK
<1>3. NextIsPending'
  BY DirFacts DEF deadline_add_request, NextIsPending, TypeOK
<1>4. PassedInv'
  BY DEF deadline_add_request, PassedInv
<1> QED
  BY <1>1, <1>2, <1>3, <1>4

\* deadline_merged_request, a front merge, keeps the invariant.
LEMMA FrontMergeStep ==
  ASSUME IInv, NEW r \in Request, deadline_merged_request(r)
  PROVE  IInv'
<1> USE DEF IInv
<1>1. pos' \in [Request -> Nat]
  BY DeadlineAssumption DEF deadline_merged_request, TypeOK
<1>2. TypeOK'
  BY <1>1 DEF deadline_merged_request, TypeOK
<1>3. ListsOK'
  BY DEF deadline_merged_request, ListsOK
<1>4. NextIsPending' /\ PassedInv'
  BY DEF deadline_merged_request, NextIsPending, PassedInv
<1> QED
  BY <1>2, <1>3, <1>4

\* What a request that leaves its tree does to next_rq.
LEMMA NextAfterRemove ==
  ASSUME IInv, NEW r \in Request, pending(r), next_rq' = remove_next_rq(r),
         sort_list' = [sort_list EXCEPT ![rq_data_dir(r)] = @ \ {r}]
  PROVE  NextIsPending' /\ next_rq' \in [Dir -> Request \cup {None}]
<1>1. PICK d \in Dir : d = rq_data_dir(r)
  BY DirFacts
<1>2. /\ next_rq \in [Dir -> Request \cup {None}]
      /\ sort_list \in [Dir -> SUBSET Request] /\ None \notin Request
  BY DeadlineAssumption DEF IInv, TypeOK
<1>3. /\ sort_list'[d] = sort_list[d] \ {r}
      /\ \A e \in Dir : e # d => sort_list'[e] = sort_list[e]
  BY <1>1, <1>2
<1>4. /\ next_rq[READ] = None \/ next_rq[WRITE] = None
      /\ \A e \in Dir : next_rq[e] # None => next_rq[e] \in sort_list[e]
  BY DEF IInv, NextIsPending
<1>5. CASE next_rq[d] = r
  <2>1. PICK l : l = deadline_latter_request(r)
    OBVIOUS
  <2>2. l = None \/ l \in sort_list[d] \ {r}
    BY <1>1, <2>1, Latter DEF IInv
  <2>3. next_rq' = [next_rq EXCEPT ![d] = l]
    BY <1>1, <1>5, <2>1 DEF remove_next_rq
  <2>4. next_rq' \in [Dir -> Request \cup {None}]
    BY <1>2, <2>2, <2>3
  <2>5. /\ next_rq'[d] = l
        /\ \A e \in Dir : e # d => next_rq'[e] = next_rq[e]
    BY <1>2, <2>3
  <2>6. \A e \in Dir : e # d => next_rq'[e] = None
    BY <1>2, <1>4, <1>5, <2>5, DirFacts
  <2>7. next_rq'[READ] = None \/ next_rq'[WRITE] = None
    BY <2>6, DirFacts
  <2> QED
    BY <1>3, <2>2, <2>4, <2>5, <2>6, <2>7 DEF NextIsPending
<1>6. CASE next_rq[d] # r
  <2>1. next_rq' = next_rq
    BY <1>1, <1>6 DEF remove_next_rq
  <2>2. \A e \in Dir : next_rq[e] # None => next_rq[e] \in sort_list'[e]
    BY <1>3, <1>4, <1>6
  <2> QED
    BY <1>2, <1>4, <2>1, <2>2 DEF NextIsPending
<1> QED
  BY <1>5, <1>6

\* deadline_merged_requests keeps the invariant.
LEMMA MergeStep ==
  ASSUME IInv, NEW req \in Request, NEW next \in Request,
         deadline_merged_requests(req, next)
  PROVE  IInv'
<1>1. PICK d \in Dir : d = rq_data_dir(req)
  BY DirFacts
<1>2. next \in sort_list[d] /\ next # req /\ req \in sort_list[d]
  BY <1>1, Latter DEF deadline_merged_requests, pending, IInv
<1>3. rq_data_dir(next) = d
  BY <1>2 DEF IInv, ListsOK
<1>4. /\ fifo_list[d] \in Seq(Request) /\ distinct(fifo_list[d])
      /\ elems(fifo_list[d]) = sort_list[d]
  BY DEF IInv, ListsOK
<1>5. PICK before \in expires_before(next, req) :
        /\ fifo_list' = [fifo_list EXCEPT ![d] =
             IF before THEN merge_fifo(fifo_list[d], req, next)
                       ELSE without(fifo_list[d], index(fifo_list[d], next))]
        /\ ttl' = [ttl EXCEPT ![req] = IF before THEN ttl[next] ELSE @, ![next] = 0]
  BY <1>1, Zenon DEF deadline_merged_requests
<1>6. ListsOK'
  <2> DEFINE w == IF before THEN merge_fifo(fifo_list[d], req, next)
                  ELSE without(fifo_list[d], index(fifo_list[d], next))
  <2>1. /\ w \in Seq(Request) /\ distinct(w)
        /\ elems(w) = sort_list[d] \ {next} /\ Len(w) = Len(fifo_list[d]) - 1
    <3>1. CASE before
      BY <1>2, <1>4, <3>1, MergeElems
    <3>2. CASE ~before
      <4>1. PICK k \in 1..Len(fifo_list[d]) :
              k = index(fifo_list[d], next) /\ fifo_list[d][k] = next
        BY <1>2, <1>4, IndexOf
      <4>2. PICK v : v = without(fifo_list[d], k)
        OBVIOUS
      <4>3. /\ v \in Seq(Request) /\ Len(v) = Len(fifo_list[d]) - 1
            /\ distinct(v) /\ elems(v) = elems(fifo_list[d]) \ {fifo_list[d][k]}
        BY <1>4, <4>2, WithoutElems, Zenon
      <4>4. w = v
        BY <3>2, <4>1, <4>2
      <4> HIDE DEF w
      <4> QED
        BY <1>4, <4>1, <4>3, <4>4
    <3> QED
      BY <3>1, <3>2
  <2> HIDE DEF w
  <2>2. fifo_list' = [fifo_list EXCEPT ![d] = w]
    BY <1>5 DEF w
  <2>3. sort_list' = [sort_list EXCEPT ![d] = @ \ {next}]
    BY <1>1 DEF deadline_merged_requests
  <2> QED
    BY <1>2, <2>1, <2>2, <2>3, Shrink, Zenon DEF IInv
<1>7. NextIsPending' /\ next_rq' \in [Dir -> Request \cup {None}]
  BY <1>1, <1>2, <1>3, NextAfterRemove, Zenon DEF deadline_merged_requests, pending
<1>8. TypeOK'
  <2>1. pos' \in [Request -> Nat]
    BY DEF deadline_merged_requests, IInv, TypeOK
  <2>2. ttl' \in [Request -> Nat]
    BY <1>5, Zenon DEF IInv, TypeOK
  <2> QED
    BY <1>6, <1>7, <2>1, <2>2, Zenon DEF deadline_merged_requests, IInv, TypeOK, ListsOK
<1>9. PassedInv'
  BY DEF deadline_merged_requests, IInv, PassedInv
<1> QED
  BY <1>6, <1>7, <1>8, <1>9 DEF IInv

\* deadline_move_request, for a request of its tree.
LEMMA MoveLists ==
  ASSUME IInv, NEW r \in Request, pending(r), deadline_move_request(r)
  PROVE  /\ ListsOK' /\ NextIsPending'
         /\ next_rq' \in [Dir -> Request \cup {None}]
         /\ pos' \in [Request -> Nat] /\ ttl' \in [Request -> Nat]
         /\ fifo_expire' = fifo_expire
<1>1. PICK d \in Dir : d = rq_data_dir(r)
  BY DirFacts
<1>2. /\ fifo_list[d] \in Seq(Request) /\ distinct(fifo_list[d])
      /\ elems(fifo_list[d]) = sort_list[d] /\ r \in sort_list[d]
  BY <1>1 DEF IInv, ListsOK, pending
<1>3. PICK k \in 1..Len(fifo_list[d]) : k = index(fifo_list[d], r) /\ fifo_list[d][k] = r
  BY <1>2, IndexOf
<1>4. PICK w : w = without(fifo_list[d], k)
  OBVIOUS
<1>5. /\ w \in Seq(Request) /\ Len(w) = Len(fifo_list[d]) - 1
      /\ distinct(w) /\ elems(w) = sort_list[d] \ {r}
  <2>1. /\ without(fifo_list[d], k) \in Seq(Request)
        /\ Len(without(fifo_list[d], k)) = Len(fifo_list[d]) - 1
        /\ distinct(without(fifo_list[d], k))
        /\ elems(without(fifo_list[d], k)) = elems(fifo_list[d]) \ {fifo_list[d][k]}
    BY <1>2, WithoutElems, Zenon
  <2> QED
    BY <1>2, <1>3, <1>4, <2>1, Zenon
<1>6. /\ fifo_list' = [fifo_list EXCEPT ![d] = w]
      /\ sort_list' = [sort_list EXCEPT ![d] = @ \ {r}]
  BY <1>1, <1>3, <1>4 DEF deadline_move_request, IInv, TypeOK
<1>7. ListsOK'
  BY <1>2, <1>5, <1>6, Shrink, Zenon DEF IInv
<1>8. next_rq' = [e \in Dir |-> IF e = d THEN deadline_latter_request(r) ELSE None]
  BY <1>1 DEF deadline_move_request, move_next_rq
<1>9. PICK l : l = deadline_latter_request(r) /\ (l = None \/ l \in sort_list[d] \ {r})
  BY <1>1, Latter DEF IInv
<1>10. /\ next_rq'[d] = l /\ \A e \in Dir : e # d => next_rq'[e] = None
       /\ l \in Request \cup {None}
  BY <1>8, <1>9 DEF IInv, TypeOK
<1>11. next_rq' \in [Dir -> Request \cup {None}]
  BY <1>8, <1>9, <1>10
<1>12. sort_list'[d] = sort_list[d] \ {r}
  BY <1>6 DEF IInv, TypeOK
<1>13. NextIsPending'
  BY <1>9, <1>10, <1>12, DirFacts DEF NextIsPending
<1>14. pos' \in [Request -> Nat] /\ ttl' \in [Request -> Nat]
  BY Zenon DEF deadline_move_request, IInv, TypeOK
<1> QED
  BY <1>7, <1>11, <1>13, <1>14 DEF deadline_move_request

\* One more read, or a write: passed goes up by one at most, and is reset if
\* no write is waiting.
LEMMA MovePassed ==
  ASSUME IInv, NEW r \in Request, deadline_move_request(r)
  PROVE  /\ passed' \in Nat /\ passed' <= passed + 1
         /\ sort_list[WRITE] = {} => passed' = 0
         /\ rq_data_dir(r) = WRITE => passed' = 0
         /\ ahead' \in Nat
BY DEF deadline_move_request, IInv, TypeOK

\* The request that starts a batch is on its tree.
LEMMA FindRequest ==
  ASSUME IInv, NEW d \in Dir, fifo_list[d] # <<>>
  PROVE  /\ Head(fifo_list[d]) \in sort_list[d]
         /\ \A r \in sort_list[d] : r \in Request /\ pending(r) /\ rq_data_dir(r) = d
         /\ next_rq[d] # None => next_rq[d] \in sort_list[d]
<1>1. fifo_list[d] \in Seq(Request) /\ elems(fifo_list[d]) = sort_list[d]
  BY DEF IInv, ListsOK
<1>2. Head(fifo_list[d]) = fifo_list[d][1] /\ 1 \in 1..Len(fifo_list[d])
  BY <1>1
<1>3. Head(fifo_list[d]) \in sort_list[d]
  BY <1>1, <1>2 DEF elems
<1>4. \A r \in sort_list[d] : r \in Request /\ rq_data_dir(r) = d
  BY DEF IInv, ListsOK
<1> QED
  BY <1>3, <1>4 DEF pending, IInv, NextIsPending

\* A dispatch that goes on with the batch keeps the invariant.
LEMMA BatchStep ==
  ASSUME IInv, dispatch_batch
  PROVE  IInv'
<1>1. PICK d \in Dir : batch_rq \in sort_list[d] /\ batch_rq = next_rq[d]
  BY DirFacts DEF dispatch_batch, in_batch, batch_rq, IInv, NextIsPending
<1>2. PICK r \in Request : r = batch_rq /\ rq_data_dir(r) = d /\ pending(r)
  BY <1>1 DEF IInv, ListsOK, pending
<1>3. deadline_move_request(r)
  BY <1>2 DEF dispatch_batch
<1>4. /\ ListsOK' /\ NextIsPending'
      /\ next_rq' \in [Dir -> Request \cup {None}]
      /\ pos' \in [Request -> Nat] /\ ttl' \in [Request -> Nat]
      /\ fifo_expire' = fifo_expire
  BY <1>2, <1>3, MoveLists
<1>5. passed' \in Nat /\ passed' <= passed + 1 /\ ahead' \in Nat
  BY <1>3, MovePassed
<1>6. batching' = batching + 1 /\ batching < fifo_batch /\ starved' = starved
  BY DEF dispatch_batch, in_batch
<1>7. TypeOK'
  BY <1>4, <1>5, <1>6, DeadlineAssumption DEF IInv, TypeOK, ListsOK
<1>8. PassedInv'
  <2>1. starved * fifo_batch \in Nat /\ batching \in Nat /\ passed \in Nat
    BY DeadlineAssumption DEF IInv, TypeOK
  <2> QED
    BY <1>5, <1>6, <2>1 DEF IInv, PassedInv
<1> QED
  BY <1>4, <1>7, <1>8 DEF IInv

\* A dispatch that starts a batch of direction d keeps the invariant, for what
\* deadline_dispatch_requests does to starved before it jumps to dispatch_find.
LEMMA FindStep ==
  ASSUME IInv, NEW d \in Dir, fifo_list[d] # <<>>, dispatch_find(d),
         starved' \in 0..writes_starved,
         d = WRITE \/ sort_list[WRITE] = {} \/ starved' = starved + 1
  PROVE  IInv'
<1>1. PICK r \in sort_list[d] : deadline_move_request(r)
  BY FindRequest DEF dispatch_find
<1>2. r \in Request /\ pending(r) /\ rq_data_dir(r) = d
  BY FindRequest
<1>3. /\ ListsOK' /\ NextIsPending'
      /\ next_rq' \in [Dir -> Request \cup {None}]
      /\ pos' \in [Request -> Nat] /\ ttl' \in [Request -> Nat]
      /\ fifo_expire' = fifo_expire
  BY <1>1, <1>2, MoveLists
<1>4. /\ passed' \in Nat /\ passed' <= passed + 1 /\ ahead' \in Nat
      /\ d = WRITE \/ sort_list[WRITE] = {} => passed' = 0
  BY <1>1, <1>2, MovePassed
<1>5. batching' = 1
  BY DEF dispatch_find
<1>6. TypeOK'
  <2>1. /\ fifo_list' \in [Dir -> Seq(Request)] /\ sort_list' \in [Dir -> SUBSET Request]
        /\ fifo_expire \in [Dir -> Expires] /\ batching' \in 0..fifo_batch
    <3>1. fifo_list' \in [Dir -> Seq(Request)] /\ sort_list' \in [Dir -> SUBSET Request]
      BY <1>3 DEF ListsOK
    <3>2. fifo_expire \in [Dir -> Expires]
      BY DEF IInv, TypeOK
    <3>3. batching' \in 0..fifo_batch
      BY <1>5, DeadlineAssumption
    <3> QED
      BY <3>1, <3>2, <3>3, Zenon
  <2> QED
    BY <1>3, <1>4, <2>1 DEF TypeOK
<1>7. PassedInv'
  <2>1. PICK x \in Nat : x = starved * fifo_batch /\ passed <= x + batching
    BY DeadlineAssumption DEF IInv, TypeOK, PassedInv
  <2>2. PICK y \in Nat : y = starved' * fifo_batch
    <3>1. starved' \in Nat /\ fifo_batch \in Nat
      BY DeadlineAssumption
    <3>2. \A a, b \in Nat : a * b \in Nat
      OBVIOUS
    <3> QED
      BY <3>1, <3>2, Zenon
  <2>3. batching \in 0..fifo_batch /\ passed \in Nat /\ fifo_batch \in Nat
    BY DeadlineAssumption DEF IInv, TypeOK
  <2>4. CASE passed' = 0
    BY <1>5, <2>2, <2>4 DEF PassedInv
  <2>5. CASE starved' = starved + 1
    <3>1. y = x + fifo_batch
      BY <2>1, <2>2, <2>5, DeadlineAssumption DEF IInv, TypeOK
    <3>2. passed <= x + batching
      BY <2>1, Zenon
    <3>3. passed' <= y + 1
      BY <1>4, <2>3, <3>1, <3>2
    <3> QED
      BY <1>5, <2>2, <3>3 DEF PassedInv
  <2> QED
    BY <1>4, <2>4, <2>5
<1> QED
  BY <1>3, <1>6, <1>7 DEF IInv

\* Every step of the dispatcher keeps the invariant.
LEMMA StepInv ==
  ASSUME IInv, [Next]_vars
  PROVE  IInv'
<1>1. ASSUME NEW r \in Request, deadline_add_request(r)
      PROVE  IInv'
  BY <1>1, AddStep
<1>2. ASSUME NEW r \in Request, deadline_merged_request(r)
      PROVE  IInv'
  BY <1>2, FrontMergeStep
<1>3. ASSUME NEW req \in Request, NEW next \in Request, deadline_merged_requests(req, next)
      PROVE  IInv'
  BY <1>3, MergeStep
<1>4. CASE dispatch_batch
  BY <1>4, BatchStep
<1>5. CASE dispatch_reads
  <2>1. fifo_list[READ] # <<>> /\ dispatch_find(READ)
    BY <1>5 DEF dispatch_reads, reads
  <2>2. CASE writes
    <3>1. starved' = starved + 1 /\ starved' \in 0..writes_starved
      BY <1>5, <2>2, DeadlineAssumption DEF dispatch_reads, IInv, TypeOK
    <3> QED
      BY <2>1, <3>1, FindStep, DirFacts
  <2>3. CASE ~writes
    <3>1. sort_list[WRITE] = {}
      <4>1. elems(fifo_list[WRITE]) = sort_list[WRITE]
        BY DirFacts DEF IInv, ListsOK
      <4> QED
        BY <2>3, <4>1 DEF writes, elems
    <3>2. starved' \in 0..writes_starved
      BY <1>5, <2>3 DEF dispatch_reads, IInv, TypeOK
    <3> QED
      BY <2>1, <3>1, <3>2, FindStep, DirFacts
  <2> QED
    BY <2>2, <2>3
<1>6. CASE dispatch_writes
  <2>1. /\ fifo_list[WRITE] # <<>> /\ dispatch_find(WRITE)
        /\ starved' \in 0..writes_starved
    BY <1>6, DeadlineAssumption DEF dispatch_writes, writes
  <2> QED
    BY <2>1, FindStep, DirFacts
<1>7. CASE tick
  <2>1. ttl' \in [Request -> Nat]
    BY <1>7 DEF tick, IInv, TypeOK
  <2>2. TypeOK'
    BY <1>7, <2>1 DEF tick, IInv, TypeOK
  <2>3. ListsOK' /\ NextIsPending' /\ PassedInv'
    BY <1>7 DEF tick, IInv, ListsOK, NextIsPending, PassedInv
  <2> QED
    BY <2>2, <2>3 DEF IInv
<1>8. ASSUME NEW d \in Dir, expire_store(d)
      PROVE  IInv'
  <2>1. fifo_expire' \in [Dir -> Expires]
    BY <1>8 DEF expire_store, IInv, TypeOK
  <2>2. TypeOK'
    BY <1>8, <2>1 DEF expire_store, IInv, TypeOK
  <2>3. ListsOK' /\ NextIsPending' /\ PassedInv'
    BY <1>8 DEF expire_store, IInv, ListsOK, NextIsPending, PassedInv
  <2> QED
    BY <2>2, <2>3 DEF IInv
<1>9. CASE UNCHANGED vars
  <2>1. TypeOK' /\ ListsOK'
    BY <1>9 DEF vars, IInv, TypeOK, ListsOK
  <2>2. NextIsPending' /\ PassedInv'
    BY <1>9 DEF vars, IInv, NextIsPending, PassedInv
  <2> QED
    BY <2>1, <2>2 DEF IInv
<1> QED
  BY <1>1, <1>2, <1>3, <1>4, <1>5, <1>6, <1>7, <1>8, <1>9
     DEF Next, deadline_dispatch_requests

(***************************************************************************)
(* The theorems.                                                           *)
(***************************************************************************)

\* The inductive invariant holds in every reachable state of the dispatcher,
\* whatever requests arrive and merge and however the settings change.
THEOREM Invariance == Spec => []IInv
<1>1. IInv /\ [Next]_vars => IInv'
  BY StepInv
<1> QED
  BY InitInv, <1>1, PTL DEF Spec

\* All variables keep their types; in particular batching never exceeds
\* fifo_batch and starved never exceeds writes_starved.
THEOREM TypeCorrect == Spec => []TypeOK
<1>1. IInv => TypeOK
  BY DEF IInv
<1> QED
  BY Invariance, <1>1, PTL

\* FIFO and tree hold the same requests, each once: the BUG_ONs of
\* deadline_dispatch_requests never fire.
THEOREM ListsAgree == Spec => []SameRequests
<1>1. IInv => SameRequests
  BY DEF IInv, ListsOK, SameRequests
<1> QED
  BY Invariance, <1>1, PTL

\* next_rq never points to a request that was dispatched or merged away.
THEOREM NoDanglingNext == Spec => []NextIsPending
<1>1. IInv => NextIsPending
  BY DEF IInv
<1> QED
  BY Invariance, <1>1, PTL

\* At most writes_starved + 1 batches of reads pass a waiting write.
LEMMA PassedBound == ASSUME IInv PROVE StarvationBound
<1>1. PICK x \in Nat : x = starved * fifo_batch /\ passed <= x + batching
  BY DeadlineAssumption DEF IInv, TypeOK, PassedInv
<1>2. /\ batching \in Nat /\ batching <= fifo_batch /\ passed \in Nat
      /\ starved \in Nat /\ starved <= writes_starved
      /\ fifo_batch \in Nat /\ writes_starved \in Nat
  BY DeadlineAssumption DEF IInv, TypeOK
<1>3. PICK y \in Nat : y = writes_starved * fifo_batch
  <2>1. \A a, b \in Nat : a * b \in Nat
    OBVIOUS
  <2> QED
    BY <1>2, <2>1
<1>4. x <= y
  <2>1. \A a, b, c \in Nat : a <= b => a * c <= b * c
    OBVIOUS
  <2> QED
    BY <1>1, <1>2, <1>3, <2>1
<1>5. MaxPassed = y + fifo_batch
  BY <1>2, <1>3 DEF MaxPassed
<1> QED
  BY <1>1, <1>2, <1>4, <1>5 DEF StarvationBound

\* Reads cannot starve a write for longer than the tunables say.
THEOREM BoundedStarvation == Spec => []StarvationBound
BY Invariance, PassedBound, PTL

(***************************************************************************)
(* Reads are preferred.  The writes that went ahead of a waiting read are  *)
(* writes of the running batch; once reads have been counted in starved,   *)
(* the last batch was one of reads, and no batch of writes can go on.      *)
(***************************************************************************)

AheadInv ==
  writes_starved > 0 => /\ ahead <= batching
                        /\ starved > 0 => ahead = 0 /\ next_rq[WRITE] = None

\* What deadline_move_request does to ahead and to the next write.
LEMMA MoveAhead ==
  ASSUME IInv, NEW r \in Request, deadline_move_request(r)
  PROVE  /\ rq_data_dir(r) = READ => ahead' = 0 /\ next_rq'[WRITE] = None
         /\ sort_list[READ] = {} => ahead' = 0
         /\ ahead' <= ahead + 1
<1>1. ahead \in Nat /\ READ \in Dir /\ WRITE \in Dir /\ READ # WRITE
  BY DirFacts DEF IInv, TypeOK
<1>2. ahead' = IF rq_data_dir(r) = READ \/ sort_list[READ] = {} THEN 0 ELSE ahead + 1
  BY DEF deadline_move_request
<1>3. rq_data_dir(r) = READ => next_rq'[WRITE] = None
  BY <1>1 DEF deadline_move_request, move_next_rq
<1> QED
  BY <1>1, <1>2, <1>3

\* Going on with a batch keeps it: a batch of writes implies that starved is 0.
LEMMA AheadBatch ==
  ASSUME IInv, AheadInv, dispatch_batch
  PROVE  AheadInv'
<1> SUFFICES ASSUME writes_starved > 0
             PROVE  ahead' <= batching' /\ (starved' > 0 => ahead' = 0 /\ next_rq'[WRITE] = None)
  BY DEF AheadInv
<1>1. PICK d \in Dir : batch_rq \in sort_list[d] /\ batch_rq = next_rq[d]
  BY DirFacts DEF dispatch_batch, in_batch, batch_rq, IInv, NextIsPending
<1>2. PICK r \in Request : r = batch_rq /\ rq_data_dir(r) = d
  BY <1>1 DEF IInv, ListsOK
<1>3. /\ rq_data_dir(r) = READ => ahead' = 0 /\ next_rq'[WRITE] = None
      /\ ahead' <= ahead + 1
  BY <1>2, MoveAhead DEF dispatch_batch
<1>4. batching' = batching + 1 /\ starved' = starved
  BY DEF dispatch_batch
<1>5. batching \in Nat /\ ahead \in Nat /\ ahead' \in Nat /\ starved \in Nat
  BY <1>2, MovePassed, DeadlineAssumption DEF dispatch_batch, IInv, TypeOK
<1>6. ahead' <= batching'
  BY <1>3, <1>4, <1>5 DEF AheadInv
<1>7. starved > 0 => d = READ
  BY <1>1, <1>2, DirFacts, DeadlineAssumption DEF AheadInv
<1> QED
  BY <1>2, <1>3, <1>4, <1>6, <1>7

\* Starting a batch keeps it.  Writes start one over waiting reads only when
\* starved has been counted up since the last write.
LEMMA AheadFind ==
  ASSUME IInv, AheadInv, dispatch_reads \/ dispatch_writes
  PROVE  AheadInv'
<1> SUFFICES ASSUME writes_starved > 0
             PROVE  ahead' <= batching' /\ (starved' > 0 => ahead' = 0 /\ next_rq'[WRITE] = None)
  BY DEF AheadInv
<1>1. ASSUME NEW d \in Dir, fifo_list[d] # <<>>, dispatch_find(d)
      PROVE  /\ d = READ => ahead' = 0 /\ next_rq'[WRITE] = None
             /\ sort_list[READ] = {} => ahead' = 0
             /\ ahead' <= ahead + 1 /\ ahead' \in Nat /\ batching' = 1
  <2>1. PICK r \in sort_list[d] : deadline_move_request(r)
    BY <1>1, FindRequest DEF dispatch_find
  <2>2. r \in Request /\ rq_data_dir(r) = d
    BY <1>1, FindRequest
  <2> QED
    BY <1>1, <2>1, <2>2, MoveAhead, MovePassed DEF dispatch_find
<1>2. CASE dispatch_reads
  <2>1. ahead' = 0 /\ next_rq'[WRITE] = None /\ batching' = 1
    BY <1>1, <1>2, DirFacts DEF dispatch_reads, reads
  <2> QED
    BY <2>1
<1>3. CASE dispatch_writes
  <2>1. /\ sort_list[READ] = {} => ahead' = 0
        /\ ahead' <= ahead + 1 /\ ahead' \in Nat /\ batching' = 1
    BY <1>1, <1>3, DirFacts DEF dispatch_writes, writes
  <2>2. starved' = 0
    BY <1>3 DEF dispatch_writes
  <2>3. CASE reads
    <3>1. starved > 0
      BY <1>3, <2>3, DeadlineAssumption DEF dispatch_writes, IInv, TypeOK
    <3>2. ahead = 0
      BY <3>1 DEF AheadInv
    <3> QED
      BY <2>1, <2>2, <3>2
  <2>4. CASE ~reads
    <3>1. elems(fifo_list[READ]) = sort_list[READ]
      BY DirFacts DEF IInv, ListsOK
    <3>2. sort_list[READ] = {}
      BY <2>4, <3>1 DEF reads, elems
    <3> QED
      BY <2>1, <2>2, <3>2
  <2> QED
    BY <2>3, <2>4
<1> QED
  BY <1>2, <1>3

\* Every step keeps it: no other step dispatches, and a merge makes no write the
\* next one if there was none.
LEMMA AheadStep ==
  ASSUME IInv, AheadInv, [Next]_vars
  PROVE  AheadInv'
<1>1. ASSUME NEW req \in Request, NEW next \in Request, deadline_merged_requests(req, next)
      PROVE  AheadInv'
  <2>1. next_rq[WRITE] = None => next_rq'[WRITE] = None
    <3>1. next_rq \in [Dir -> Request \cup {None}] /\ None \notin Request
      BY DeadlineAssumption DEF IInv, TypeOK
    <3>2. next_rq' = remove_next_rq(next)
      BY <1>1 DEF deadline_merged_requests
    <3> QED
      BY <3>1, <3>2, DirFacts DEF remove_next_rq
  <2> QED
    BY <1>1, <2>1 DEF deadline_merged_requests, AheadInv
<1>2. ASSUME UNCHANGED <<ahead, batching, starved, next_rq>>
      PROVE  AheadInv'
  BY <1>2 DEF AheadInv
<1>3. ASSUME NEW r \in Request, deadline_add_request(r) \/ deadline_merged_request(r)
      PROVE  AheadInv'
  BY <1>2, <1>3 DEF deadline_add_request, deadline_merged_request
<1>4. CASE tick \/ (\E d \in Dir : expire_store(d)) \/ UNCHANGED vars
  BY <1>2, <1>4 DEF tick, expire_store, vars
<1> QED
  BY <1>1, <1>3, <1>4, AheadBatch, AheadFind DEF Next, deadline_dispatch_requests

\* In every reachable state, no more writes than the running batch has dispatched
\* went ahead of a waiting read, if reads are preferred at all.
LEMMA AheadInvariance == Spec => [](IInv /\ AheadInv)
<1>1. Init => AheadInv
  BY DirFacts, DeadlineAssumption DEF Init, AheadInv
<1>2. IInv /\ AheadInv /\ [Next]_vars => AheadInv'
  BY AheadStep
<1> QED
  BY <1>1, <1>2, Invariance, PTL DEF Spec

\* A batch has at most fifo_batch requests.
LEMMA AheadBound ==
  ASSUME IInv, AheadInv
  PROVE  writes_starved > 0 => ahead <= fifo_batch
BY DeadlineAssumption DEF IInv, TypeOK, AheadInv

(***************************************************************************)
(* The dispatcher implements ReadPreference.                               *)
(***************************************************************************)

\* An arrival is an arrival of ReadPreference.
LEMMA AddRefines ==
  ASSUME IInv, NEW r \in Request, deadline_add_request(r)
  PROVE  RP!Next
<1>1. PICK S \in SUBSET Request : S = sort_list[rq_data_dir(r)] \cup {r}
  BY DirFacts, Zenon DEF IInv, TypeOK
<1>2. sort_list' = [sort_list EXCEPT ![rq_data_dir(r)] = S] /\ UNCHANGED <<passed, ahead>>
  BY <1>1 DEF deadline_add_request
<1>3. r \notin sort_list[rq_data_dir(r)]
  BY DEF deadline_add_request, pending
<1>4. CASE r \in Reads
  <2>1. rq_data_dir(r) = READ
    BY <1>4 DEF rq_data_dir
  <2>2. sort_list'[READ] = S /\ sort_list'[WRITE] = sort_list[WRITE]
    BY <1>2, <2>1, DirFacts DEF IInv, TypeOK
  <2>3. RP!ArriveRead(r)
    BY <1>1, <1>2, <1>3, <2>1, <2>2 DEF RP!ArriveRead
  <2> QED
    BY <1>4, <2>3 DEF RP!Next
<1>5. CASE r \notin Reads
  <2>1. rq_data_dir(r) = WRITE /\ r \in Writes
    BY <1>5 DEF rq_data_dir, Request
  <2>2. sort_list'[WRITE] = S /\ sort_list'[READ] = sort_list[READ]
    BY <1>2, <2>1, DirFacts DEF IInv, TypeOK
  <2>3. RP!ArriveWrite(r)
    BY <1>1, <1>2, <1>3, <2>1, <2>2 DEF RP!ArriveWrite
  <2> QED
    BY <2>1, <2>3 DEF RP!Next
<1> QED
  BY <1>4, <1>5

\* A merge of two requests is one of ReadPreference.
LEMMA MergeRefines ==
  ASSUME IInv, NEW req \in Request, NEW next \in Request,
         deadline_merged_requests(req, next)
  PROVE  RP!Next
<1>1. PICK d \in Dir : d = rq_data_dir(req)
  BY DirFacts
<1>2. next \in sort_list[d] /\ next # req /\ req \in sort_list[d]
  BY <1>1, Latter DEF deadline_merged_requests, pending, IInv
<1>3. rq_data_dir(next) = d
  BY <1>2 DEF IInv, ListsOK
<1>4. sort_list' = [sort_list EXCEPT ![d] = @ \ {next}] /\ UNCHANGED <<passed, ahead>>
  BY <1>1 DEF deadline_merged_requests
<1>5. sort_list'[d] = sort_list[d] \ {next} /\ sort_list'[d] # {}
  BY <1>2, <1>4 DEF IInv, TypeOK
<1>6. CASE d = READ
  <2>1. next \in Reads /\ sort_list'[WRITE] = sort_list[WRITE]
    BY <1>3, <1>4, <1>6, DirFacts DEF rq_data_dir, IInv, TypeOK
  <2>2. RP!MergeRead(next)
    BY <1>2, <1>4, <1>5, <1>6, <2>1 DEF RP!MergeRead
  <2> QED
    BY <2>1, <2>2 DEF RP!Next
<1>7. CASE d = WRITE
  <2>1. next \in Writes /\ sort_list'[READ] = sort_list[READ]
    BY <1>3, <1>4, <1>7, DirFacts DEF rq_data_dir, Request, IInv, TypeOK
  <2>2. RP!MergeWrite(next)
    BY <1>2, <1>4, <1>5, <1>7, <2>1 DEF RP!MergeWrite
  <2> QED
    BY <2>1, <2>2 DEF RP!Next
<1> QED
  BY <1>6, <1>7, DirFacts

\* A dispatch is one that ReadPreference allows.
LEMMA MoveRefines ==
  ASSUME IInv, StarvationBound', writes_starved > 0 => ahead' <= fifo_batch, NEW r \in Request, pending(r), deadline_move_request(r)
  PROVE  RP!Next
<1>1. PICK d \in Dir : d = rq_data_dir(r) /\ r \in sort_list[d]
  BY DirFacts DEF pending
<1>2. sort_list' = [sort_list EXCEPT ![d] = @ \ {r}]
  BY <1>1 DEF deadline_move_request
<1>3. sort_list'[d] = sort_list[d] \ {r}
  BY <1>2 DEF IInv, TypeOK
<1>4. CASE d = READ
  <2>1. r \in Reads /\ sort_list'[WRITE] = sort_list[WRITE]
    BY <1>1, <1>2, <1>4, DirFacts DEF rq_data_dir, IInv, TypeOK
  <2>2. passed <= MaxPassed /\ passed \in Nat
    BY PassedBound DEF StarvationBound, IInv, TypeOK
  <2>3. \/ sort_list[WRITE] = {} /\ passed' = 0
        \/ sort_list[WRITE] # {} /\ passed' = passed + 1
    BY <1>1, <1>4, <2>2, DirFacts DEF deadline_move_request
  <2>4. MaxPassed \in Nat
    BY DeadlineAssumption DEF MaxPassed
  <2>5. passed' = passed + 1 => passed < MaxPassed
    BY <2>2, <2>4 DEF StarvationBound
  <2>6. ahead' = 0
    BY <1>1, <1>4 DEF deadline_move_request
  <2>7. RP!DispatchRead(r)
    BY <1>1, <1>3, <1>4, <2>1, <2>3, <2>5, <2>6 DEF RP!DispatchRead
  <2> QED
    BY <2>1, <2>7 DEF RP!Next
<1>5. CASE d = WRITE
  <2>1. r \in Writes /\ sort_list'[READ] = sort_list[READ]
    BY <1>1, <1>2, <1>5, DirFacts DEF rq_data_dir, Request, IInv, TypeOK
  <2>2. passed' = 0
    BY <1>1, <1>5 DEF deadline_move_request
  <2>3. \/ sort_list[READ] = {} /\ ahead' = 0
        \/ sort_list[READ] # {} /\ ahead' = ahead + 1
    BY <1>1, <1>5, DirFacts DEF deadline_move_request
  <2>4. ahead' = ahead + 1 /\ writes_starved > 0 => ahead < fifo_batch
    <3>1. ahead \in Nat /\ fifo_batch \in Nat
      BY DeadlineAssumption DEF IInv, TypeOK
    <3> QED
      BY <3>1
  <2>5. RP!DispatchWrite(r)
    BY <1>1, <1>3, <1>5, <2>1, <2>2, <2>3, <2>4 DEF RP!DispatchWrite
  <2> QED
    BY <2>1, <2>5 DEF RP!Next
<1> QED
  BY <1>4, <1>5, DirFacts

\* Every step of the dispatcher is a step of ReadPreference, or none.
LEMMA RefinementStep ==
  ASSUME IInv, StarvationBound', writes_starved > 0 => ahead' <= fifo_batch, [Next]_vars
  PROVE  [RP!Next]_<<sort_list[READ], sort_list[WRITE], passed, ahead>>
<1>1. ASSUME NEW r \in Request, deadline_add_request(r)
      PROVE  RP!Next
  BY <1>1, AddRefines
<1>2. ASSUME NEW req \in Request, NEW next \in Request, deadline_merged_requests(req, next)
      PROVE  RP!Next
  BY <1>2, MergeRefines
<1>3. CASE dispatch_batch
  <2>1. PICK d \in Dir : batch_rq \in sort_list[d]
    BY <1>3, DirFacts DEF dispatch_batch, in_batch, batch_rq, IInv, NextIsPending
  <2>2. batch_rq \in Request /\ pending(batch_rq)
    BY <2>1 DEF IInv, ListsOK, pending
  <2> QED
    BY <1>3, <2>2, MoveRefines DEF dispatch_batch
<1>4. ASSUME NEW d \in Dir, fifo_list[d] # <<>>, dispatch_find(d)
      PROVE  RP!Next
  <2>1. PICK r \in sort_list[d] : deadline_move_request(r)
    BY <1>4, FindRequest DEF dispatch_find
  <2>2. r \in Request /\ pending(r)
    BY <1>4, FindRequest
  <2> QED
    BY <2>1, <2>2, MoveRefines
<1>5. CASE dispatch_reads
  BY <1>4, <1>5, DirFacts DEF dispatch_reads, reads
<1>6. CASE dispatch_writes
  BY <1>4, <1>6, DirFacts DEF dispatch_writes, writes
<1>7. ASSUME NEW r \in Request, deadline_merged_request(r)
      PROVE  UNCHANGED <<sort_list, passed, ahead>>
  BY <1>7 DEF deadline_merged_request
<1>8. CASE tick \/ (\E d \in Dir : expire_store(d)) \/ UNCHANGED vars
  BY <1>8 DEF tick, expire_store, vars
<1> QED
  BY <1>1, <1>2, <1>3, <1>5, <1>6, <1>7, <1>8 DEF Next, deadline_dispatch_requests

\* Every behaviour of the dispatcher is one ReadPreference allows: arrivals,
\* merges, and dispatches with at most fifo_batch writes ahead of a waiting read
\* (if writes_starved is positive) and at most MaxPassed reads before a waiting
\* write.
THEOREM Refinement == Spec => ImplementsReadPreference
<1>1. Init => RP!Init
  BY DirFacts DEF Init, RP!Init
<1>2. IInv /\ AheadInv /\ (IInv /\ AheadInv)' /\ [Next]_vars
      => [RP!Next]_<<sort_list[READ], sort_list[WRITE], passed, ahead>>
  <2>1. IInv' => StarvationBound'
    BY PassedBound, PTL
  <2>2. (IInv /\ AheadInv)' => (writes_starved > 0 => ahead <= fifo_batch)'
    BY AheadBound, PTL
  <2> QED
    BY <2>1, <2>2, RefinementStep
<1> QED
  BY <1>1, <1>2, AheadInvariance, PTL DEF Spec, ImplementsReadPreference, RP!Spec

(***************************************************************************)
(* The order of the FIFOs, while the expiry settings stay as they are.     *)
(***************************************************************************)

\* s is in ascending order of f.
ordered(s, f) == \A j, k \in 1..Len(s) : j < k => f[s[j]] <= f[s[k]]

\* Only the values of f at the elements of s matter.
LEMMA OrderedSame ==
  ASSUME NEW s, NEW f, NEW g, ordered(s, f), \A x \in elems(s) : g[x] = f[x]
  PROVE  ordered(s, g)
<1>1. \A j \in 1..Len(s) : g[s[j]] = f[s[j]]
  BY DEF elems
<1> QED
  BY <1>1 DEF ordered

\* Removing an element keeps the order.
LEMMA OrderedWithout ==
  ASSUME NEW s \in Seq(Request), NEW f, NEW k \in 1..Len(s), ordered(s, f)
  PROVE  ordered(without(s, k), f)
<1> DEFINE w == without(s, k)
           n == Len(s)
<1>1. Len(w) = n - 1 /\ n \in Nat /\ n - 1 \in Nat
  BY WithoutPlaces
<1>2. \A j \in 1..(n - 1) : w[j] = s[place(k, j)]
  BY WithoutPlaces
<1>3. \A j \in 1..(n - 1) : place(k, j) \in 1..n
  BY <1>1, PlaceMap, Zenon
<1>4. \A i, j \in 1..(n - 1) : i < j <=> place(k, i) < place(k, j)
  BY <1>1, PlaceMap, Zenon
<1> HIDE DEF w
<1>5. ASSUME NEW i \in 1..(n - 1), NEW j \in 1..(n - 1), i < j
      PROVE  f[w[i]] <= f[w[j]]
  <2>1. /\ place(k, i) \in 1..n /\ place(k, j) \in 1..n
        /\ place(k, i) < place(k, j)
    BY <1>3, <1>4, <1>5
  <2>2. f[s[place(k, i)]] <= f[s[place(k, j)]]
    BY <2>1 DEF ordered
  <2> QED
    BY <1>2, <2>2
<1>6. ordered(w, f)
  BY <1>1, <1>5 DEF ordered
<1> QED
  BY <1>6 DEF w

\* merge_fifo keeps the order: req goes to the place of next with its expiry.
LEMMA OrderedMerge ==
  ASSUME NEW s \in Seq(Request), distinct(s), NEW req \in elems(s), NEW next \in elems(s),
         req # next, NEW f, NEW g, ordered(s, f), g[req] = f[next],
         \A x \in elems(s) \ {req, next} : g[x] = f[x]
  PROVE  ordered(merge_fifo(s, req, next), g)
<1> DEFINE m == index(s, next)
           k == index(s, req)
           n == Len(s)
           t == [s EXCEPT ![m] = req]
           w == without(t, k)
<1>1. m \in 1..n /\ s[m] = next /\ k \in 1..n /\ s[k] = req /\ m # k /\ req \in Request
  BY IndexOf DEF elems
<1> HIDE DEF m, k
<1>2. t \in Seq(Request) /\ Len(t) = n
  BY <1>1
<1>3. \A j \in 1..n : t[j] = IF j = m THEN req ELSE s[j]
  BY <1>1
<1> HIDE DEF t
<1>4. Len(w) = n - 1 /\ n \in Nat /\ n - 1 \in Nat
  BY <1>1, <1>2, WithoutPlaces
<1>5. \A j \in 1..(n - 1) : w[j] = t[place(k, j)]
  BY <1>1, <1>2, WithoutPlaces
<1>6. \A j \in 1..(n - 1) : place(k, j) \in 1..n /\ place(k, j) # k
  BY <1>1, <1>4, PlaceMap, Zenon
<1>7. \A i, j \in 1..(n - 1) : i < j <=> place(k, i) < place(k, j)
  BY <1>1, <1>4, PlaceMap, Zenon
<1>8. \A p \in 1..n : p # k => g[t[p]] = f[s[p]]
  <2>1. ASSUME NEW p \in 1..n, p # k, p # m
        PROVE  s[p] \in elems(s) \ {req, next}
    BY <1>1, <2>1 DEF distinct, elems
  <2> QED
    BY <1>1, <1>3, <2>1
<1> HIDE DEF w
<1>9. \A j \in 1..(n - 1) : g[w[j]] = f[s[place(k, j)]]
  BY <1>5, <1>6, <1>8
<1>10. ASSUME NEW i \in 1..(n - 1), NEW j \in 1..(n - 1), i < j
       PROVE  g[w[i]] <= g[w[j]]
  <2>1. /\ place(k, i) \in 1..n /\ place(k, j) \in 1..n
        /\ place(k, i) < place(k, j)
    BY <1>6, <1>7, <1>10
  <2>2. f[s[place(k, i)]] <= f[s[place(k, j)]]
    BY <2>1 DEF ordered
  <2> QED
    BY <1>9, <2>2
<1>11. ordered(w, g)
  BY <1>4, <1>10 DEF ordered
<1> QED
  BY <1>11 DEF merge_fifo, w, t, m, k

\* Appending an element that is not below the others.
LEMMA OrderedAppend ==
  ASSUME NEW s \in Seq(Request), NEW r \in Request, NEW f, ordered(s, f),
         \A x \in elems(s) : f[x] <= f[r]
  PROVE  ordered(Append(s, r), f)
<1> DEFINE w == Append(s, r)
           n == Len(s)
<1>1. /\ Len(w) = n + 1 /\ n \in Nat
      /\ \A j \in 1..n : w[j] = s[j]
      /\ w[n + 1] = r
  OBVIOUS
<1>2. \A j \in 1..n : f[s[j]] <= f[r]
  BY DEF elems
<1> HIDE DEF w
<1>3. ordered(w, f)
  BY <1>1, <1>2 DEF ordered
<1> QED
  BY <1>3 DEF w

\* The expiry time that a new request of the direction of r gets.
limit(r) == fifo_expire[rq_data_dir(r)]

\* No request has more time left than a new one of its direction would get.
FifoInv ==
  /\ \A d \in Dir : ordered(fifo_list[d], ttl)
  /\ \A r \in Request : ttl[r] <= limit(r)

\* An expiry is a natural number, and the limit of a waiting request is the
\* fifo_expire setting of its direction.
LEMMA Limits ==
  ASSUME IInv
  PROVE  /\ ttl \in [Request -> Nat]
         /\ \A r \in Request : limit(r) \in Nat
         /\ \A d \in Dir : \A r \in sort_list[d] :
              r \in Request /\ rq_data_dir(r) = d /\ limit(r) = fifo_expire[d]
<1>1. fifo_expire \in [Dir -> Nat] /\ ttl \in [Request -> Nat]
  BY DeadlineAssumption, Zenon DEF IInv, TypeOK
<1>2. \A r \in Request : rq_data_dir(r) \in Dir
  BY DirFacts
<1>3. \A d \in Dir : \A r \in sort_list[d] : r \in Request /\ rq_data_dir(r) = d
  BY DEF IInv, ListsOK
<1> QED
  BY <1>1, <1>2, <1>3 DEF limit

\* Limits change with the settings only.
LEMMA SameLimits ==
  ASSUME fifo_expire' = fifo_expire
  PROVE  \A r : limit(r)' = limit(r)
BY DEF limit, rq_data_dir

\* deadline_add_request keeps the FIFOs in order.
LEMMA FifoAdd ==
  ASSUME fifo_expire' = fifo_expire, IInv, FifoInv, NEW r \in Request, deadline_add_request(r)
  PROVE  FifoInv'
<1>1. PICK d \in Dir : d = rq_data_dir(r)
  BY DirFacts
<1>2. ttl \in [Request -> Nat] /\ \A x \in Request : limit(x) \in Nat
  BY Limits
<1>3. /\ ttl' = [ttl EXCEPT ![r] = limit(r)]
      /\ fifo_list' = [fifo_list EXCEPT ![d] = Append(@, r)]
  BY <1>1, Zenon DEF deadline_add_request, limit
<1>4. \A x \in Request : ttl'[x] <= limit(x)
  BY <1>2, <1>3 DEF FifoInv
<1>5. ASSUME NEW c \in Dir
      PROVE  ordered(fifo_list'[c], ttl')
  <2>1. fifo_list[c] \in Seq(Request) /\ elems(fifo_list[c]) = sort_list[c]
    BY DEF IInv, ListsOK
  <2>2. r \notin sort_list[c] /\ sort_list[c] \subseteq Request
    BY <1>1 DEF IInv, ListsOK, deadline_add_request, pending
  <2>3. \A x \in elems(fifo_list[c]) : ttl'[x] = ttl[x]
    BY <1>2, <1>3, <2>1, <2>2
  <2>4. ordered(fifo_list[c], ttl')
    BY <2>3, OrderedSame DEF FifoInv
  <2>5. CASE c = d
    <3>1. ttl'[r] = limit(r) /\ limit(r) = fifo_expire[c]
      BY <1>1, <1>2, <1>3, <2>5 DEF limit
    <3>2. \A x \in elems(fifo_list[c]) : ttl'[x] <= limit(x) /\ limit(x) = fifo_expire[c]
      BY <1>4, <2>1, <2>2, Limits
    <3>3. ordered(Append(fifo_list[c], r), ttl')
      BY <2>1, <2>4, <3>1, <3>2, OrderedAppend
    <3> QED
      BY <1>3, <2>5, <3>3 DEF IInv, TypeOK
  <2>6. CASE c # d
    BY <1>3, <2>4, <2>6 DEF IInv, TypeOK
  <2> QED
    BY <2>5, <2>6
<1> QED
  BY <1>4, <1>5, SameLimits DEF FifoInv

\* A dispatch keeps the FIFOs in order.
LEMMA FifoMove ==
  ASSUME fifo_expire' = fifo_expire, IInv, FifoInv, NEW r \in Request, pending(r),
         deadline_move_request(r)
  PROVE  FifoInv'
<1>1. PICK d \in Dir : d = rq_data_dir(r) /\ r \in sort_list[d]
  BY DirFacts DEF pending
<1>2. ttl \in [Request -> Nat] /\ \A x \in Request : limit(x) \in Nat
  BY Limits
<1>3. /\ ttl' = [ttl EXCEPT ![r] = 0]
      /\ fifo_list' = [fifo_list EXCEPT ![d] = without(@, index(@, r))]
  BY <1>1 DEF deadline_move_request
<1>4. \A x \in Request : ttl'[x] <= limit(x)
  BY <1>2, <1>3 DEF FifoInv
<1>5. ASSUME NEW c \in Dir
      PROVE  ordered(fifo_list'[c], ttl')
  <2>1. /\ fifo_list[c] \in Seq(Request) /\ elems(fifo_list[c]) = sort_list[c]
        /\ distinct(fifo_list[c]) /\ ordered(fifo_list[c], ttl) /\ sort_list[c] \subseteq Request
    BY DEF IInv, ListsOK, FifoInv
  <2>2. CASE c = d
    <3>1. PICK k : k = index(fifo_list[c], r)
      OBVIOUS
    <3>2. k \in 1..Len(fifo_list[c]) /\ fifo_list[c][k] = r
      BY <1>1, <2>1, <2>2, <3>1, IndexOf
    <3>3. ordered(without(fifo_list[c], k), ttl)
      BY <2>1, <3>2, OrderedWithout
    <3>4. elems(without(fifo_list[c], k)) = elems(fifo_list[c]) \ {fifo_list[c][k]}
      BY <2>1, <3>2, WithoutElems, Zenon
    <3>5. \A x \in elems(without(fifo_list[c], k)) : ttl'[x] = ttl[x]
      BY <1>2, <1>3, <2>1, <3>2, <3>4
    <3>6. ordered(without(fifo_list[c], k), ttl')
      BY <3>3, <3>5, OrderedSame
    <3> QED
      BY <1>3, <2>2, <3>1, <3>6 DEF IInv, TypeOK
  <2>3. CASE c # d
    <3>1. \A x \in sort_list[c] : x # r
      BY <1>1, <2>3 DEF IInv, ListsOK
    <3>2. \A x \in elems(fifo_list[c]) : ttl'[x] = ttl[x]
      BY <1>2, <1>3, <2>1, <3>1
    <3>3. ordered(fifo_list[c], ttl')
      BY <2>1, <3>2, OrderedSame
    <3> QED
      BY <1>3, <2>3, <3>3 DEF IInv, TypeOK
  <2> QED
    BY <2>2, <2>3
<1> QED
  BY <1>4, <1>5, SameLimits DEF FifoInv

\* deadline_merged_requests keeps the FIFOs in order.
LEMMA FifoMerge ==
  ASSUME fifo_expire' = fifo_expire, IInv, FifoInv, NEW req \in Request, NEW next \in Request,
         deadline_merged_requests(req, next)
  PROVE  FifoInv'
<1>1. PICK d \in Dir : d = rq_data_dir(req) /\ req \in sort_list[d]
  BY DirFacts DEF deadline_merged_requests, pending
<1>2. next \in sort_list[d] /\ next # req
  BY <1>1, Latter DEF deadline_merged_requests, IInv
<1>3. /\ ttl \in [Request -> Nat] /\ limit(next) = limit(req)
      /\ \A x \in Request : limit(x) \in Nat
      /\ fifo_list \in [Dir -> Seq(Request)]
  BY <1>1, <1>2, Limits, Zenon DEF IInv, TypeOK
<1>4. PICK before \in expires_before(next, req) :
        /\ fifo_list' = [fifo_list EXCEPT ![d] =
             IF before THEN merge_fifo(fifo_list[d], req, next)
             ELSE without(fifo_list[d], index(fifo_list[d], next))]
        /\ ttl' = [ttl EXCEPT ![req] = IF before THEN ttl[next] ELSE @, ![next] = 0]
  BY <1>1, Zenon DEF deadline_merged_requests
<1>5. PICK w : fifo_list' = [fifo_list EXCEPT ![d] = w] /\ w =
             IF before THEN merge_fifo(fifo_list[d], req, next)
             ELSE without(fifo_list[d], index(fifo_list[d], next))
  BY <1>4, Zenon
<1>6. PICK v : ttl' = [ttl EXCEPT ![req] = v, ![next] = 0]
               /\ v = IF before THEN ttl[next] ELSE ttl[req]
  BY <1>3, <1>4, Zenon
<1>7. v = ttl[next] \/ v = ttl[req]
  BY <1>6, Zenon
<1>8. /\ ttl'[req] = v /\ ttl'[next] = 0
      /\ \A x \in Request \ {req, next} : ttl'[x] = ttl[x]
  <2>1. ttl' = [ttl EXCEPT ![req] = v, ![next] = 0]
    BY <1>6, Zenon
  <2> QED
    BY <1>2, <1>3, <2>1
<1>9. \A x \in Request : ttl'[x] <= limit(x)
  <2>1. \A x \in Request : ttl[x] <= limit(x)
    BY DEF FifoInv
  <2>2. v <= limit(req) /\ 0 <= limit(next)
    BY <1>3, <1>7, <2>1
  <2> QED
    BY <1>8, <2>1, <2>2
<1>10. ASSUME NEW c \in Dir
       PROVE  /\ fifo_list[c] \in Seq(Request) /\ elems(fifo_list[c]) = sort_list[c]
              /\ distinct(fifo_list[c]) /\ ordered(fifo_list[c], ttl)
              /\ sort_list[c] \subseteq Request
  BY DEF IInv, ListsOK, FifoInv
<1>11. PICK s : s = fifo_list[d]
  OBVIOUS
<1>12. /\ s \in Seq(Request) /\ distinct(s) /\ ordered(s, ttl)
       /\ req \in elems(s) /\ next \in elems(s) /\ elems(s) \subseteq Request
  BY <1>1, <1>2, <1>10, <1>11
<1>13. ordered(w, ttl')
  <2>1. CASE before
    <3>1. w = merge_fifo(s, req, next) /\ v = ttl[next]
      BY <1>5, <1>6, <1>11, <2>1, Zenon
    <3>2. \A x \in elems(s) \ {req, next} : ttl'[x] = ttl[x]
      BY <1>8, <1>12
    <3>3. req # next /\ ttl'[req] = ttl[next]
      BY <1>2, <1>8, <3>1
    <3>4. ordered(merge_fifo(s, req, next), ttl')
      BY <1>12, <3>2, <3>3, OrderedMerge
    <3> QED
      BY <3>1, <3>4
  <2>2. CASE ~before
    <3>1. PICK k : k = index(s, next)
      OBVIOUS
    <3>2. w = without(s, k) /\ v = ttl[req]
      BY <1>5, <1>6, <1>11, <2>2, <3>1, Zenon
    <3>3. k \in 1..Len(s) /\ s[k] = next
      BY <1>12, <3>1, IndexOf
    <3>4. ordered(without(s, k), ttl)
      BY <1>12, <3>3, OrderedWithout
    <3>5. elems(without(s, k)) = elems(s) \ {s[k]}
      BY <1>12, <3>3, WithoutElems, Zenon
    <3>6. \A x \in elems(without(s, k)) : ttl'[x] = ttl[x]
      BY <1>8, <1>12, <3>2, <3>3, <3>5
    <3>7. ordered(without(s, k), ttl')
      BY <3>4, <3>6, OrderedSame
    <3> QED
      BY <3>2, <3>7
  <2> QED
    BY <2>1, <2>2, Zenon
<1>14. ASSUME NEW c \in Dir, c # d
       PROVE  ordered(fifo_list[c], ttl')
  <2>1. \A x \in sort_list[c] : x # req /\ x # next
    BY <1>1, <1>2, <1>14 DEF IInv, ListsOK
  <2>2. \A x \in elems(fifo_list[c]) : ttl'[x] = ttl[x]
    BY <1>8, <1>10, <2>1
  <2> QED
    BY <1>10, <2>2, OrderedSame
<1>15. \A c \in Dir : ordered(fifo_list'[c], ttl')
  BY <1>3, <1>5, <1>13, <1>14
<1> QED
  BY <1>9, <1>15, SameLimits DEF FifoInv

\* The passing of time keeps the FIFOs in order.
LEMMA FifoTick ==
  ASSUME fifo_expire' = fifo_expire, IInv, FifoInv, tick
  PROVE  FifoInv'
<1>1. /\ ttl \in [Request -> Nat] /\ fifo_list' = fifo_list
      /\ \A x \in Request : limit(x) \in Nat
  BY Limits DEF tick
<1>2. ttl' = [r \in Request |-> IF ttl[r] > 0 THEN ttl[r] - 1 ELSE 0]
  BY DEF tick
<1>3. \A x \in Request : ttl'[x] <= limit(x)
  BY <1>1, <1>2 DEF FifoInv
<1>4. \A x, y \in Request : ttl[x] <= ttl[y] => ttl'[x] <= ttl'[y]
  BY <1>1, <1>2
<1>5. ASSUME NEW d \in Dir
      PROVE  ordered(fifo_list[d], ttl')
  <2>1. \A k \in 1..Len(fifo_list[d]) : fifo_list[d][k] \in Request
    BY DEF IInv, TypeOK
  <2> QED
    BY <1>4, <2>1 DEF ordered, FifoInv
<1> QED
  BY <1>1, <1>3, <1>5, SameLimits DEF FifoInv

\* Every step that leaves fifo_expire alone keeps the FIFOs in order.
LEMMA FifoStep ==
  ASSUME fifo_expire' = fifo_expire, IInv, FifoInv, [Next]_vars
  PROVE  FifoInv'
<1>1. ASSUME NEW r \in Request, deadline_add_request(r)
      PROVE  FifoInv'
  BY <1>1, FifoAdd
<1>2. ASSUME NEW req \in Request, NEW next \in Request, deadline_merged_requests(req, next)
      PROVE  FifoInv'
  BY <1>2, FifoMerge
<1>3. CASE dispatch_batch
  <2>1. PICK d \in Dir : batch_rq \in sort_list[d]
    BY <1>3, DirFacts DEF dispatch_batch, in_batch, batch_rq, IInv, NextIsPending
  <2>2. batch_rq \in Request /\ pending(batch_rq)
    BY <2>1 DEF IInv, ListsOK, pending
  <2> QED
    BY <1>3, <2>2, FifoMove DEF dispatch_batch
<1>4. ASSUME NEW d \in Dir, fifo_list[d] # <<>>, dispatch_find(d)
      PROVE  FifoInv'
  <2>1. PICK r \in sort_list[d] : deadline_move_request(r)
    BY <1>4, FindRequest DEF dispatch_find
  <2>2. r \in Request /\ pending(r)
    BY <1>4, FindRequest
  <2> QED
    BY <2>1, <2>2, FifoMove
<1>5. CASE dispatch_reads
  BY <1>4, <1>5, DirFacts DEF dispatch_reads, reads
<1>6. CASE dispatch_writes
  BY <1>4, <1>6, DirFacts DEF dispatch_writes, writes
<1>7. CASE tick
  BY <1>7, FifoTick
<1>8. ASSUME NEW r \in Request, deadline_merged_request(r)
      PROVE  FifoInv'
  BY <1>8, SameLimits DEF deadline_merged_request, FifoInv
<1>9. CASE (\E d \in Dir : expire_store(d)) \/ UNCHANGED vars
  BY <1>9, SameLimits DEF expire_store, vars, FifoInv
<1> QED
  BY <1>1, <1>2, <1>3, <1>5, <1>6, <1>7, <1>8, <1>9 DEF Next, deadline_dispatch_requests

\* A batch that starts in direction d starts with an expired request if there
\* is one: an expired request anywhere on an ordered FIFO means an expired head.
LEMMA FindsExpired ==
  ASSUME IInv, FifoInv, NEW d \in Dir, fifo_list[d] # <<>>, dispatch_find(d),
         NEW c \in Dir, NEW r \in sort_list[c], r \notin sort_list'[c],
         NEW x \in sort_list[c], ttl[x] = 0
  PROVE  ttl[r] = 0
<1>1. PICK q \in Request :
        /\ q \in sort_list[d] /\ pending(q) /\ deadline_move_request(q)
        /\ q = IF deadline_check_fifo(d) \/ next_rq[d] = None
               THEN Head(fifo_list[d]) ELSE next_rq[d]
  BY FindRequest DEF dispatch_find
<1>2. rq_data_dir(q) = d /\ sort_list \in [Dir -> SUBSET Request]
  BY <1>1 DEF IInv, ListsOK
<1>3. sort_list' = [sort_list EXCEPT ![d] = @ \ {q}]
  BY <1>1, <1>2, Zenon DEF deadline_move_request
<1>4. c = d /\ r = q
  BY <1>2, <1>3
<1>5. /\ fifo_list[d] \in Seq(Request) /\ elems(fifo_list[d]) = sort_list[d]
      /\ ordered(fifo_list[d], ttl) /\ ttl \in [Request -> Nat]
  BY Zenon DEF IInv, TypeOK, ListsOK, FifoInv
<1>6. PICK k \in 1..Len(fifo_list[d]) : fifo_list[d][k] = x
  <2>1. x \in elems(fifo_list[d])
    BY <1>4, <1>5, Zenon
  <2> QED
    BY <2>1 DEF elems
<1>7. Head(fifo_list[d]) = fifo_list[d][1] /\ fifo_list[d][1] \in Request
      /\ 1 \in 1..Len(fifo_list[d])
  BY <1>5
<1>8. ttl[fifo_list[d][1]] <= ttl[x]
  BY <1>4, <1>5, <1>6, <1>7, <1>2 DEF ordered
<1>9. ttl[Head(fifo_list[d])] = 0
  BY <1>5, <1>7, <1>8
<1>10. q = Head(fifo_list[d])
  BY <1>1, <1>9 DEF deadline_check_fifo
<1> QED
  BY <1>4, <1>9, <1>10

\* With fixed settings the FIFOs are in order in every reachable state.
LEMMA FifoInvariance == FixedSpec => [](IInv /\ FifoInv)
<1>1. Init => FifoInv
  <2>1. ASSUME Init PROVE \A r \in Request : ttl[r] = 0 /\ limit(r) \in Nat
    <3>1. fifo_expire \in [Dir -> Nat]
      BY <2>1, DeadlineAssumption, Zenon DEF Init
    <3> QED
      BY <2>1, <3>1, DirFacts DEF Init, limit
  <2> QED
    BY <2>1 DEF Init, FifoInv, ordered
<1>2. [FixedNext]_vars => [Next]_vars /\ fifo_expire' = fifo_expire
  BY DEF FixedNext, vars
<1>3. IInv /\ FifoInv /\ [FixedNext]_vars => FifoInv'
  BY <1>2, FifoStep
<1>4. FixedSpec => []IInv
  BY <1>2, Invariance, PTL DEF FixedSpec, Spec
<1> QED
  BY <1>1, <1>3, <1>4, PTL DEF FixedSpec

\* While the expiry times are left alone, whatever they are for reads and for
\* writes, arrivals and merges (deadline_merged_requests) keep both FIFOs in
\* order of expiry.
THEOREM FifoOrder == FixedSpec => []FifoByExpiry
<1>1. IInv /\ FifoInv => FifoByExpiry
  BY DEF FifoInv, ordered, FifoByExpiry
<1> QED
  BY <1>1, FifoInvariance, PTL

\* Then looking at the head of the FIFO (deadline_check_fifo) is enough: a
\* batch never starts with an unexpired request while one has expired.
THEOREM ExpiredGoFirst == FixedSpec => ExpiredFirst
<1>1. ASSUME IInv, FifoInv, NEW d \in Dir, NEW r \in Request,
             dispatch_reads \/ dispatch_writes,
             r \in sort_list[d], r \notin sort_list'[d],
             \E x \in sort_list[d] : ttl[x] = 0
      PROVE  ttl[r] = 0
  <2>1. PICK c \in Dir : fifo_list[c] # <<>> /\ dispatch_find(c)
    BY <1>1, DirFacts DEF dispatch_reads, dispatch_writes, reads, writes
  <2> QED
    BY <1>1, <2>1, FindsExpired
<1>2. IInv /\ FifoInv =>
        [ \A d \in Dir, r \in Request :
            /\ dispatch_reads \/ dispatch_writes
            /\ r \in sort_list[d] /\ r \notin sort_list'[d]
            /\ \E x \in sort_list[d] : ttl[x] = 0
            => ttl[r] = 0 ]_vars
  BY <1>1
<1> QED
  BY <1>2, FifoInvariance, PTL DEF ExpiredFirst

=============================================================================
