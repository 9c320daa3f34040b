--------------------------- MODULE ReadPreference ---------------------------
(***************************************************************************)
(* What the deadline dispatcher promises to its clients, without batches,  *)
(* lists and sectors.  If reads are preferred, a waiting read sees no more *)
(* than Burst writes go ahead before a read is dispatched.  A waiting      *)
(* write is passed by at most Bound reads before a write is.  Two waiting  *)
(* requests of the same direction may become one.                          *)
(***************************************************************************)
EXTENDS Naturals

CONSTANTS Reads, Writes, Prefers, Burst, Bound

VARIABLES rwait, wwait,   \* waiting reads and writes
          passed,         \* reads dispatched over the heads of waiting writes
          ahead           \* writes dispatched over the heads of waiting reads

Init == rwait = {} /\ wwait = {} /\ passed = 0 /\ ahead = 0

ArriveRead(r)  == r \notin rwait /\ rwait' = rwait \cup {r} /\ UNCHANGED <<wwait, passed, ahead>>
ArriveWrite(w) == w \notin wwait /\ wwait' = wwait \cup {w} /\ UNCHANGED <<rwait, passed, ahead>>

\* The request lives on in another one.
MergeRead(r) ==
  r \in rwait /\ rwait' = rwait \ {r} /\ rwait' # {} /\ UNCHANGED <<wwait, passed, ahead>>
MergeWrite(w) ==
  w \in wwait /\ wwait' = wwait \ {w} /\ wwait' # {} /\ UNCHANGED <<rwait, passed, ahead>>

DispatchRead(r) ==
  /\ r \in rwait
  /\ rwait' = rwait \ {r} /\ ahead' = 0
  /\ \/ wwait = {} /\ passed' = 0
     \/ wwait # {} /\ passed < Bound /\ passed' = passed + 1
  /\ UNCHANGED wwait

DispatchWrite(w) ==
  /\ w \in wwait
  /\ wwait' = wwait \ {w} /\ passed' = 0
  /\ \/ rwait = {} /\ ahead' = 0
     \/ rwait # {} /\ (Prefers => ahead < Burst) /\ ahead' = ahead + 1
  /\ UNCHANGED rwait

Next ==
  \/ \E r \in Reads : ArriveRead(r) \/ MergeRead(r) \/ DispatchRead(r)
  \/ \E w \in Writes : ArriveWrite(w) \/ MergeWrite(w) \/ DispatchWrite(w)

Spec == Init /\ [][Next]_<<rwait, wwait, passed, ahead>>

=============================================================================
