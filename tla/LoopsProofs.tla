----------------------------- MODULE LoopsProofs -----------------------------
(***************************************************************************)
(* Two loops that await, and what they come to when they are over: that     *)
(* of a transfer, and the walk through the ssh configuration.              *)
(*                                                                         *)
(* What a transfer returns is the whole of it, for any size, any window and *)
(* any limits. The loop stops when nothing is in flight; that it has then   *)
(* moved everything rests on two facts about pump(): the slots it issues    *)
(* leave no gap below nextOffset, and it issues one whenever there is       *)
(* something left and nothing in flight.                                   *)
(*                                                                         *)
(* What the walk returns is every host in reach, for any files that include *)
(* each other in any way. When nothing is pending, the files visited are a  *)
(* set that no Include leads out of, so the least such set is within it.   *)
(***************************************************************************)
EXTENDS Transfers, HostList, TLAPS, FiniteSetTheorems

-----------------------------------------------------------------------------
(* Arithmetic.                                                             *)

\* Multiples of one number are in the order of their factors.
LEMMA Ordered ==
  ASSUME NEW c \in Nat \ {0}, NEW a \in Int, NEW b \in Int
  PROVE  (a <= b <=> c * a <= c * b) /\ (a < b <=> c * a < c * b)
<1>1. ASSUME a <= b PROVE c * a <= c * b
  <2>1. c * (b - a) >= 0
    BY <1>1
  <2> QED BY <2>1
<1>2. ASSUME b < a PROVE c * b < c * a
  <2>1. c * (a - b) > 0
    BY <1>2
  <2> QED BY <2>1
<1>3. ASSUME a < b PROVE c * a < c * b
  <2>1. c * (b - a) > 0
    BY <1>3
  <2> QED BY <2>1
<1>4. ASSUME b <= a PROVE c * b <= c * a
  <2>1. c * (a - b) >= 0
    BY <1>4
  <2> QED BY <2>1
<1>5. c * a \in Int /\ c * b \in Int
  OBVIOUS
<1>6. a <= b <=> c * a <= c * b
  BY <1>1, <1>2, <1>5
<1>7. a < b <=> c * a < c * b
  BY <1>3, <1>4, <1>5
<1> QED BY <1>6, <1>7

\* A quotient and its remainder.
LEMMA Divides ==
  ASSUME NEW c \in Nat \ {0}, NEW x \in Int
  PROVE  /\ x \div c \in Int /\ x % c \in 0..(c - 1)
         /\ x = c * (x \div c) + (x % c)
OBVIOUS

\* A multiple leaves no remainder, and is the multiple of its quotient.
LEMMA Remains ==
  ASSUME NEW c \in Nat \ {0}, NEW q \in Int
  PROVE  (c * q) % c = 0
<1> DEFINE x == c * q
           d == x \div c
           r == x % c
<1>1. x \in Int
  OBVIOUS
<1>2. d \in Int /\ r \in 0..(c - 1) /\ x = c * d + r
  BY <1>1, Divides
<1>3. c * d <= c * q /\ c * q < c * (d + 1)
  <2>1. c * (d + 1) = c * d + c
    BY <1>2
  <2>2. c * d \in Int
    BY <1>2
  <2> HIDE DEF d, r
  <2> QED BY <1>1, <1>2, <2>1, <2>2
<1>4. d <= q /\ q < d + 1
  <2> HIDE DEF d, r, x
  <2>1. d + 1 \in Int
    BY <1>2
  <2> QED BY <1>2, <1>3, <2>1, Ordered
<1>5. q = d
  <2> HIDE DEF d, r, x
  <2> QED BY <1>2, <1>4
<1> HIDE DEF d, r
<1>6. r = 0
  BY <1>1, <1>2, <1>5
<1> QED BY <1>6 DEF r

\* The lesser of two numbers.
LEMMA LeastOf ==
  ASSUME NEW a \in Int, NEW b \in Int
  PROVE  Least(a, b) = IF a <= b THEN a ELSE b
BY DEF Least, Min

-----------------------------------------------------------------------------
(* The invariant.                                                          *)

\* What the variables hold.
Typed ==
  /\ kind \in {"read", "write"}
  /\ total \in Nat /\ length \in Nat /\ limit \in {Unlimited, ServerMax}
  /\ next \in 0..total
  /\ active \subseteq 0..(total - 1)
  /\ moved \subseteq 0..(total - 1)
  /\ failure \in BOOLEAN /\ woken \in BOOLEAN /\ aborted \in BOOLEAN
  /\ result \in {"running", "returned", "threw"}

\* The offset i needs no request any more: its data has been moved, or there is none; or
\* nothing is promised, of a server that did not tell its limits.
Done(i) == \/ i \in moved
           \/ kind = "read" /\ (limit = Unlimited \/ i >= length)

\* Unless something failed there is no gap below nextOffset: what is not done is in the
\* slot of a request in flight.
NoGap == ~failure /\ ~aborted =>
           \A i \in 0..(next - 1) : Done(i) \/ \E o \in active : i \in Slot(o)

\* The end of the loop.
AtEnd == /\ Ended => active = {}
         /\ result = "returned" => \A i \in 0..(total - 1) : Done(i)

IInv == Typed /\ NoGap /\ AtEnd

\* A chunk is at least one unit, and no more than what a server with limits moves at once.
LEMMA Chunks ==
  ASSUME Typed
  PROVE  Chunk \in Nat \ {0} /\ (limit # Unlimited => Chunk <= ServerMax)
<1>1. Fallback \in Nat \ {0} /\ ServerMax \in Nat \ {0} /\ Unlimited = 0
  BY TransfersAssumption
<1>2. CASE limit = Unlimited
  BY <1>1, <1>2 DEF Chunk
<1>3. CASE limit = ServerMax
  <2>1. Least(Fallback, limit) = IF Fallback <= limit THEN Fallback ELSE limit
    BY <1>1, <1>3, LeastOf
  <2> QED BY <1>1, <1>3, <2>1 DEF Chunk
<1> QED BY <1>2, <1>3 DEF Typed

\* A slot lies within the file, from its offset on, and is at most a chunk long.
LEMMA Slots ==
  ASSUME Typed, NEW o \in 0..(total - 1)
  PROVE  \A i \in Int : i \in Slot(o) <=> i >= o /\ i < o + Chunk /\ i < total
<1>1. Chunk \in Nat \ {0}
  BY Chunks
<1>2. o + Chunk \in Int /\ total \in Int /\ o \in Int
  BY <1>1 DEF Typed
<1>3. Least(o + Chunk, total) = IF o + Chunk <= total THEN o + Chunk ELSE total
  BY <1>2, LeastOf
<1> QED BY <1>1, <1>2, <1>3 DEF Slot

\* The requests in flight can be counted.
LEMMA RoomIsInt ==
  ASSUME Typed
  PROVE  Room \in Int /\ (active = {} => Room > 0)
<1>1. IsFiniteSet(0..(total - 1))
  BY FS_Interval DEF Typed
<1>2. Cardinality(active) \in Nat
  BY <1>1, FS_Subset, FS_CardinalityType DEF Typed
<1> QED BY <1>2, FS_EmptySet, TransfersAssumption DEF Room

\* pump() issues the multiples of the chunk size from nextOffset on, as many as there is
\* room for, up to the end.
LEMMA FreshOnes ==
  ASSUME Typed, NEW q \in Nat
  PROVE  next + Chunk * q \in Fresh <=> next + Chunk * q < total /\ q < Room
<1> DEFINE c == Chunk
           o == next + c * q
<1>1. c \in Nat \ {0} /\ Room \in Int /\ next \in Nat /\ total \in Nat
  BY Chunks, RoomIsInt DEF Typed
<1>2. c * q \in Nat
  BY <1>1
<1>3. (o - next) % c = 0
  <2>1. o - next = c * q
    BY <1>1, <1>2
  <2>2. (c * q) % c = 0
    BY <1>1, Remains
  <2> HIDE DEF c, o
  <2> QED BY <2>1, <2>2
<1>4. q < Room <=> c * q < c * Room
  BY <1>1, Ordered
<1>5. Room * c = c * Room /\ c * Room \in Int
  BY <1>1
<1> HIDE DEF c
<1>6. o < next + Room * c <=> q < Room
  BY <1>1, <1>2, <1>4, <1>5
<1>7. o \in next..(total - 1) <=> o < total
  BY <1>1, <1>2
<1> HIDE DEF o
<1>8. o \in Fresh <=> o \in next..(total - 1) /\ (o - next) % c = 0 /\ o < next + Room * c
  BY DEF Fresh, c
<1> QED BY <1>3, <1>6, <1>7, <1>8 DEF o, c

\* Every one of them is of that form.
LEMMA FreshForm ==
  ASSUME Typed, NEW o \in Fresh
  PROVE  \E q \in Nat : o = next + Chunk * q
<1> DEFINE c == Chunk
           x == o - next
<1>1. c \in Nat \ {0} /\ next \in Nat /\ total \in Nat
  BY Chunks DEF Typed
<1>2. o \in next..(total - 1) /\ x % c = 0
  BY DEF Fresh
<1>3. x \in Nat
  BY <1>1, <1>2
<1>4. x \div c \in Int /\ x = c * (x \div c) + (x % c)
  <2> HIDE DEF x, c
  <2> QED BY <1>1, <1>3, Divides
<1> DEFINE q == x \div c
<1>5. x = c * q
  <2>1. c * q \in Int
    BY <1>1, <1>4
  <2> HIDE DEF x, c, q
  <2>2. x = c * q + 0
    BY <1>2, <1>4 DEF q
  <2> QED BY <2>1, <2>2
<1>6. q >= 0
  <2>1. c * 0 <= c * q
    BY <1>1, <1>3, <1>5
  <2> HIDE DEF x, c, q
  <2> QED BY <1>1, <1>4, <2>1, Ordered DEF q
<1>7. o = next + c * q
  <2>1. o \in Int /\ c * q \in Int /\ o - next = c * q
    BY <1>1, <1>2, <1>4, <1>5
  <2> HIDE DEF c, q, x
  <2> QED BY <1>1, <2>1
<1> HIDE DEF c, x, q
<1>8. q \in Nat
  BY <1>4, <1>6 DEF q
<1> QED BY <1>7, <1>8 DEF c

\* If there are any there is a last one, and it is Max(Fresh).
LEMMA LastFresh ==
  ASSUME Typed, Fresh # {}
  PROVE  Max(Fresh) \in Fresh /\ \A y \in Fresh : y <= Max(Fresh)
<1> DEFINE c == Chunk
           left == total - 1 - next
           p == left \div c
           k == IF Room - 1 <= p THEN Room - 1 ELSE p
           m == next + c * k
<1>1. c \in Nat \ {0} /\ next \in Nat /\ total \in Nat /\ Room \in Int
  BY Chunks, RoomIsInt DEF Typed
<1>2. left \in Int
  BY <1>1
<1>3. p \in Int /\ left % c \in 0..(c - 1) /\ left = c * p + (left % c)
  BY <1>1, <1>2, Divides
<1>4. c * p \in Int /\ c * p <= left /\ left < c * p + c
  <2>1. c * p \in Int
    BY <1>1, <1>3
  <2> HIDE DEF c, p, left
  <2> QED BY <1>1, <1>2, <1>3, <2>1
\* A fresh offset is at most the k-th.
<1>5. ASSUME NEW q \in Nat, next + c * q \in Fresh
      PROVE  q <= k
  <2>1. next + c * q < total /\ q < Room
    BY <1>5, FreshOnes
  <2>2. c * q \in Int
    BY <1>1
  <2>3. c * (p + 1) = c * p + c
    BY <1>1, <1>3
  <2> HIDE DEF c, p, left
  <2>4. c * q <= left
    BY <1>1, <2>1, <2>2 DEF left
  <2>5. c * q < c * (p + 1)
    BY <1>1, <1>2, <1>4, <2>2, <2>3, <2>4
  <2>6. q < p + 1
    BY <1>1, <1>3, <2>5, Ordered
  <2> QED BY <1>1, <1>3, <2>1, <2>6
<1>6. PICK y \in Fresh : TRUE
  OBVIOUS
<1>7. PICK q \in Nat : y = next + c * q
  BY <1>6, FreshForm
<1>8. q <= k
  BY <1>5, <1>6, <1>7
<1>9. k \in Nat /\ k < Room /\ k <= p
  <2> HIDE DEF c, p, left
  <2> QED BY <1>1, <1>3, <1>8
<1>10. c * k \in Int /\ c * k <= c * p
  <2> HIDE DEF c, p, left, k
  <2> QED BY <1>1, <1>3, <1>9, Ordered
<1>11. m \in Fresh
  <2>1. m < total
    <3> HIDE DEF c, p, k
    <3> QED BY <1>1, <1>4, <1>10
  <2> HIDE DEF p, left, k
  <2> QED BY <1>9, <2>1, FreshOnes
<1>12. ASSUME NEW z \in Fresh PROVE z <= m
  <2>1. PICK j \in Nat : z = next + c * j
    BY FreshForm
  <2>2. j <= k
    BY <1>5, <2>1
  <2> HIDE DEF c, p, left, k
  <2>3. c * j <= c * k /\ c * j \in Int
    BY <1>1, <1>9, <2>2, Ordered
  <2> QED BY <1>1, <1>10, <2>1, <2>3
<1> HIDE DEF m
<1>13. \A z \in Fresh : z \in Int
  BY <1>1 DEF Fresh
<1>14. m \in Int /\ \A z \in Fresh : m >= z
  BY <1>11, <1>12, <1>13
<1>15. /\ Max(Fresh) \in Fresh
       /\ \A z \in Fresh : Max(Fresh) >= z
  BY <1>11, <1>14 DEF Max
<1> QED BY <1>13, <1>15

-----------------------------------------------------------------------------
(* The steps.                                                              *)

\* Initially nothing is asked for, and nothing below nextOffset.
LEMMA Starts == Init => IInv
<1> SUFFICES ASSUME Init PROVE IInv
  OBVIOUS
<1>1. /\ kind \in {"read", "write"} /\ total \in Nat /\ limit \in {Unlimited, ServerMax}
      /\ next = 0 /\ active = {} /\ moved = {} /\ result = "running"
      /\ failure = FALSE /\ aborted = FALSE /\ woken = TRUE
  BY TransfersAssumption DEF Init
<1>2. length \in Nat
  BY TransfersAssumption DEF Init
<1>3. Typed
  <2>1. next \in 0..total
    BY <1>1
  <2>2. active \subseteq 0..(total - 1) /\ moved \subseteq 0..(total - 1)
    BY <1>1
  <2>3. failure \in BOOLEAN /\ aborted \in BOOLEAN /\ woken \in BOOLEAN
    BY <1>1
  <2>4. result \in {"running", "returned", "threw"}
    BY <1>1
  <2> QED BY <1>1, <1>2, <2>1, <2>2, <2>3, <2>4 DEF Typed
<1> QED BY <1>1, <1>3 DEF IInv, NoGap, AtEnd, Ended

\* pump() leaves no gap, and with nothing in flight it stops only at the end.
LEMMA Pumped ==
  ASSUME IInv, Pump, UNCHANGED job, result = "running"
  PROVE  /\ next' \in 0..total
         /\ active' \subseteq 0..(total - 1)
         /\ ~failure /\ ~aborted =>
              /\ \A i \in 0..(next' - 1) : Done(i) \/ \E o \in active' : i \in Slot(o)
              /\ active' = {} => next' = total
<1> DEFINE c == Chunk
<1>1. c \in Nat \ {0} /\ next \in Nat /\ total \in Nat /\ next <= total
  BY Chunks DEF IInv, Typed
<1>2. Typed /\ active \subseteq 0..(total - 1)
  BY DEF IInv, Typed
<1>3. CASE failure
  BY <1>1, <1>2, <1>3 DEF Pump
<1>4. CASE ~failure /\ Fresh = {}
  <2>1. next' = next /\ active' = active
    BY <1>4 DEF Pump
  <2>2. ASSUME active = {}, next # total PROVE FALSE
    <3>1. Room \in Int /\ 0 < Room
      BY <1>2, <2>2, RoomIsInt
    <3>2. c * 0 = 0
      BY <1>1
    <3>3. next + c * 0 \in Fresh
      <4> HIDE DEF c
      <4>1. next + c * 0 < total
        BY <1>1, <2>2, <3>2
      <4> QED BY <1>2, <3>1, <4>1, FreshOnes DEF c
    <3> QED BY <1>4, <3>3
  <2> QED BY <1>1, <1>2, <2>1, <2>2 DEF IInv, NoGap
<1>5. CASE ~failure /\ Fresh # {}
  <2> DEFINE m == Max(Fresh)
             n == next'
  <2>1. m \in Fresh /\ \A y \in Fresh : y <= m
    BY <1>2, <1>5, LastFresh
  <2>2. Fresh \subseteq next..(total - 1)
    BY DEF Fresh
  <2> HIDE DEF c, m, n
  <2>3. active' = active \cup Fresh /\ n = Least(m + c, total)
    BY <1>5 DEF Pump, m, c, n
  <2>4. m \in next..(total - 1)
    BY <2>1, <2>2
  <2>5. n = IF m + c <= total THEN m + c ELSE total
    <3>1. m + c \in Int
      BY <1>1, <2>4
    <3> QED BY <1>1, <2>3, <3>1, LeastOf
  <2>6. n \in 0..total /\ n <= m + c
    BY <1>1, <2>4, <2>5
  <2>7. active' \subseteq 0..(total - 1) /\ active' # {}
    BY <1>1, <1>2, <1>5, <2>2, <2>3
  \* An offset that pump() has passed is in the slot it has issued for it.
  <2>8. ASSUME NEW i, i \in next..(n - 1)
        PROVE  \E o \in Fresh : i \in Slot(o)
    <3> DEFINE x == i - next
               q == x \div c
               o == next + c * q
    <3>1. x \in Nat /\ i \in Int /\ i < total /\ i < m + c
      <4>1. n \in Int /\ n <= total /\ m + c \in Int
        BY <1>1, <2>4, <2>6
      <4>2. i \in Int /\ next <= i /\ i < n
        BY <1>1, <2>8, <4>1
      <4> QED BY <1>1, <2>6, <4>1, <4>2
    <3> HIDE DEF x
    <3>2. q \in Int /\ (x % c) \in 0..(c - 1) /\ x = c * q + (x % c)
      BY <1>1, <3>1, Divides
    <3> HIDE DEF q
    <3>3. c * q \in Int /\ c * q <= x /\ x < c * q + c /\ c * (q + 1) = c * q + c
      <4>1. c * q \in Int /\ c * (q + 1) = c * q + c
        BY <1>1, <3>2
      <4> QED BY <1>1, <3>1, <3>2, <4>1
    <3>4. q \in Nat
      <4>1. c * 0 < c * (q + 1)
        BY <1>1, <3>1, <3>3
      <4>2. 0 < q + 1
        BY <1>1, <3>2, <4>1, Ordered
      <4> QED BY <3>2, <4>2
    <3>5. PICK k \in Nat : m = next + c * k
      BY <1>2, <2>1, FreshForm DEF c
    <3>6. next + c * k < total /\ k < Room
      BY <1>2, <2>1, <3>5, FreshOnes DEF c
    <3>7. q <= k
      <4>1. c * k \in Int /\ c * (k + 1) = c * k + c
        BY <1>1
      <4>2. c * q < c * (k + 1)
        BY <1>1, <3>1, <3>3, <3>5, <4>1 DEF x
      <4>3. q < k + 1
        BY <1>1, <3>4, <4>2, Ordered
      <4> QED BY <3>4, <4>3
    <3>8. o < total
      BY <1>1, <3>1, <3>3 DEF x
    <3>9. o \in Fresh
      <4>1. q < Room
        BY <1>2, <3>4, <3>6, <3>7, RoomIsInt
      <4> QED BY <1>2, <3>4, <3>8, <4>1, FreshOnes DEF c
    <3>10. o \in 0..(total - 1)
      <4> HIDE DEF o
      <4> QED BY <1>1, <2>2, <3>9
    <3>11. i >= o /\ i < o + c
      BY <1>1, <3>1, <3>3 DEF x
    <3> HIDE DEF o
    <3>12. i \in Slot(o)
      BY <1>2, <3>1, <3>10, <3>11, Slots DEF c
    <3> QED BY <3>9, <3>12
  <2>9. ASSUME ~aborted, NEW i, i \in 0..(n - 1)
        PROVE  Done(i) \/ \E o \in active' : i \in Slot(o)
    <3>1. CASE i \in 0..(next - 1)
      BY <1>5, <2>3, <2>9, <3>1 DEF IInv, NoGap
    <3>2. CASE i \in next..(n - 1)
      BY <2>3, <2>8, <3>2
    <3>3. i \in 0..(next - 1) \/ i \in next..(n - 1)
      <4>1. n \in Int
        BY <1>1, <2>6
      <4> QED BY <1>1, <2>9, <4>1
    <3> QED BY <3>1, <3>2, <3>3
  <2> QED BY <2>6, <2>7, <2>9 DEF n
<1> QED BY <1>3, <1>4, <1>5

\* What does not change with the job: the slots, and when there is nothing left to do for
\* an offset, unless more is moved.
LEMMA SameJob ==
  ASSUME UNCHANGED job
  PROVE  /\ \A o \in Int : Slot(o)' = Slot(o)
         /\ \A i : moved \subseteq moved' /\ Done(i) => Done(i)'
<1>1. kind' = kind /\ total' = total /\ length' = length /\ limit' = limit
  BY DEF job
<1>2. Chunk' = Chunk
  BY <1>1 DEF Chunk
<1> QED BY <1>1, <1>2 DEF Slot, Done

\* The loop runs.
LEMMA LoopStep == IInv /\ Loop => IInv'
<1> SUFFICES ASSUME IInv, Loop PROVE IInv'
  OBVIOUS
<1>1. /\ kind' = kind /\ total' = total /\ length' = length /\ limit' = limit
      /\ UNCHANGED job /\ result = "running" /\ Pump /\ woken' = FALSE
      /\ failure' = failure /\ moved' = moved /\ aborted' = aborted
  BY DEF Loop, job
<1>2. /\ next' \in 0..total
      /\ active' \subseteq 0..(total - 1)
      /\ ~failure /\ ~aborted =>
           /\ \A i \in 0..(next' - 1) : Done(i) \/ \E o \in active' : i \in Slot(o)
           /\ active' = {} => next' = total
  BY <1>1, Pumped
<1>3. /\ active' # {} => result' = "running"
      /\ active' = {} => result' = IF failure \/ aborted THEN "threw" ELSE "returned"
  BY <1>1 DEF Loop
<1>4. \A i : Done(i)' = Done(i)
  BY <1>1 DEF Done
<1>5. Typed'
  BY <1>1, <1>2, <1>3 DEF IInv, Typed
<1>6. NoGap'
  <2>1. \A o \in active' : Slot(o)' = Slot(o)
    BY <1>1, <1>2, SameJob
  <2> QED BY <1>1, <1>2, <1>4, <2>1 DEF NoGap
<1>7. AtEnd'
  <2>1. ASSUME result' = "returned" PROVE \A i \in 0..(total - 1) : Done(i)
    BY <1>2, <1>3, <2>1
  <2>2. result' # "running" => active' = {}
    BY <1>3
  <2> QED BY <1>1, <1>4, <2>1, <2>2 DEF AtEnd, Ended
<1> QED BY <1>5, <1>6, <1>7 DEF IInv

\* A request is answered: its slot is done, and the others are as they were.
LEMMA AnsweredStep ==
  ASSUME IInv, NEW o \in active, Answered(o)
  PROVE  IInv'
<1>1. /\ kind' = kind /\ total' = total /\ length' = length /\ limit' = limit
      /\ UNCHANGED job /\ next' = next /\ aborted' = aborted /\ result' = result
      /\ active' = active \ {o} /\ woken' = TRUE /\ failure' = failure /\ ~aborted
  BY DEF Answered, Settles, job
<1>2. o \in 0..(total - 1) /\ Typed /\ result = "running"
  BY DEF IInv, Typed, AtEnd, Ended
<1>3. \/ kind = "read" /\ moved' = moved \cup {i \in Slot(o) : i < length /\ i < o + ServerMax}
      \/ kind = "write" /\ moved' = moved \cup Slot(o)
  BY DEF Answered
<1>4. Slot(o) \subseteq 0..(total - 1)
  <2>1. total \in Nat /\ Chunk \in Nat
    BY <1>2, Chunks DEF Typed
  <2>2. o + Chunk \in Int /\ Slot(o) \subseteq Int
    <3>1. Least(o + Chunk, total) \in Int
      BY <1>2, <2>1, LeastOf
    <3> QED BY <1>2, <2>1, <3>1 DEF Slot
  <2> QED BY <1>2, <2>1, <2>2, Slots
<1>5. moved \subseteq moved' /\ moved' \subseteq 0..(total - 1)
  BY <1>2, <1>3, <1>4 DEF Typed
<1>6. \A i \in Slot(o) : Done(i)'
  <2> TAKE i \in Slot(o)
  <2>1. CASE kind = "write"
    <3>1. moved' = moved \cup Slot(o)
      BY <1>3, <2>1
    <3>2. i \in moved'
      BY <3>1
    <3> QED BY <3>2 DEF Done
  <2>2. CASE kind = "read" /\ (limit = Unlimited \/ i >= length)
    BY <1>1, <2>2 DEF Done
  <2>3. CASE kind = "read" /\ ~(limit = Unlimited \/ i >= length)
    <3>1. Chunk \in Nat /\ Chunk <= ServerMax /\ ServerMax \in Nat
      BY <1>2, <2>3, Chunks, TransfersAssumption
    <3>2. i \in Int /\ o \in Int /\ length \in Int
      BY <1>2, <1>4 DEF Typed
    <3>3. i < o + Chunk
      BY <1>2, <3>2, Slots
    <3>4. i < length /\ i < o + ServerMax
      BY <2>3, <3>1, <3>2, <3>3
    <3>5. moved' = moved \cup {j \in Slot(o) : j < length /\ j < o + ServerMax}
      BY <1>3, <2>3
    <3>6. i \in moved'
      BY <3>4, <3>5
    <3> QED BY <3>6 DEF Done
  <2> QED BY <1>2, <2>1, <2>2, <2>3 DEF Typed
<1>7. Typed'
  BY <1>1, <1>2, <1>5 DEF Typed
<1>8. NoGap'
  <2>1. \A p \in active' : Slot(p)' = Slot(p)
    BY <1>1, <1>2, SameJob DEF Typed
  <2>2. ASSUME ~failure', ~aborted', NEW i \in 0..(next' - 1)
        PROVE  Done(i)' \/ \E p \in active' : i \in Slot(p)'
    <3>1. Done(i) \/ \E p \in active : i \in Slot(p)
      BY <1>1, <2>2 DEF IInv, NoGap
    <3>2. CASE Done(i)
      BY <1>1, <1>5, <3>2, SameJob
    <3>3. CASE i \in Slot(o)
      BY <1>6, <3>3
    <3>4. CASE \E p \in active \ {o} : i \in Slot(p)
      BY <1>1, <2>1, <3>4
    <3> QED BY <3>1, <3>2, <3>3, <3>4
  <2> QED BY <2>2 DEF NoGap
<1>9. AtEnd'
  BY <1>1, <1>2 DEF AtEnd, Ended
<1> QED BY <1>7, <1>8, <1>9 DEF IInv

\* A request fails: nothing is promised any more.
LEMMA FailedStep ==
  ASSUME IInv, NEW o \in active, Failed(o)
  PROVE  IInv'
<1>1. /\ kind' = kind /\ total' = total /\ length' = length /\ limit' = limit
      /\ next' = next /\ aborted' = aborted /\ result' = result
      /\ active' = active \ {o} /\ woken' = TRUE /\ failure' = TRUE
  BY DEF Failed, Settles, job
<1>2. o \in 0..(total - 1) /\ Typed /\ result = "running"
  BY DEF IInv, Typed, AtEnd, Ended
<1>3. Slot(o) \subseteq 0..(total - 1)
  <2>1. total \in Nat /\ Chunk \in Nat
    BY <1>2, Chunks DEF Typed
  <2>2. Slot(o) \subseteq Int
    <3>1. Least(o + Chunk, total) \in Int
      BY <1>2, <2>1, LeastOf
    <3> QED BY <1>2, <2>1, <3>1 DEF Slot
  <2> QED BY <1>2, <2>1, <2>2, Slots
<1>4. moved' \subseteq 0..(total - 1)
  BY <1>2, <1>3 DEF Failed, Typed
<1>5. Typed'
  BY <1>1, <1>2, <1>4 DEF Typed
<1> QED BY <1>1, <1>2, <1>5 DEF IInv, NoGap, AtEnd, Ended

\* The caller gives up: nothing is promised any more.
LEMMA AbortStep == IInv /\ Abort => IInv'
<1> SUFFICES ASSUME IInv, Abort PROVE IInv'
  OBVIOUS
<1>1. /\ kind' = kind /\ total' = total /\ length' = length /\ limit' = limit
      /\ next' = next /\ moved' = moved /\ result' = result /\ result = "running"
      /\ aborted' = TRUE /\ active' = {}
      /\ failure' = (failure \/ active # {}) /\ woken' = (woken \/ active # {})
  BY DEF Abort, job
<1>2. failure' \in BOOLEAN /\ woken' \in BOOLEAN
  BY <1>1
<1>3. Typed'
  BY <1>1, <1>2 DEF IInv, Typed
<1> QED BY <1>1, <1>3 DEF IInv, NoGap, AtEnd, Ended

\* Every step keeps the invariant.
LEMMA Steps == IInv /\ [Next]_vars => IInv'
<1> SUFFICES ASSUME IInv, [Next]_vars PROVE IInv'
  OBVIOUS
<1>1. CASE Loop
  BY <1>1, LoopStep
<1>2. CASE Abort
  BY <1>2, AbortStep
<1>3. ASSUME NEW o \in active, Answered(o) PROVE IInv'
  BY <1>3, AnsweredStep
<1>4. ASSUME NEW o \in active, Failed(o) PROVE IInv'
  BY <1>4, FailedStep
<1>5. CASE UNCHANGED vars
  <2>1. /\ UNCHANGED job
        /\ UNCHANGED <<next, active, failure, woken, moved, aborted, result>>
    BY <1>5 DEF vars
  <2>2. Typed'
    BY <2>1 DEF IInv, Typed, job
  <2>3. \A i : Done(i)' = Done(i)
    BY <2>1 DEF Done, job
  <2>4. \A o \in active : Slot(o)' = Slot(o)
    BY <2>1, SameJob DEF IInv, Typed
  <2> QED BY <2>1, <2>2, <2>3, <2>4 DEF IInv, NoGap, AtEnd, Ended, job
<1> QED BY <1>1, <1>2, <1>3, <1>4, <1>5 DEF Next

\* The invariant holds of every transfer.
THEOREM Invariance == Spec => []IInv
<1> QED BY Starts, Steps, PTL DEF Spec

\* What writeAll says it has written is on the server, and what readFile returns is what
\* the file has, for any size, window and chunk; when they end nothing is in flight.
THEOREM TransferIsWholeHolds == Spec => []TransferIsWhole
<1>1. IInv => TransferIsWhole
  <2> SUFFICES ASSUME IInv PROVE TransferIsWhole
    OBVIOUS
  <2>1. /\ total \in Nat /\ length \in Nat /\ moved \subseteq 0..(total - 1)
        /\ Ended => active = {}
        /\ result = "returned" => \A i \in 0..(total - 1) : Done(i)
    BY DEF IInv, Typed, AtEnd
  <2>2. WrittenIsComplete
    BY <2>1 DEF WrittenIsComplete, Done
  <2>3. ReadIsComplete
    <3>1. Least(total, length) = IF total <= length THEN total ELSE length
      BY <2>1, LeastOf
    <3> QED BY <2>1, <3>1 DEF ReadIsComplete, Present, Done
  <2> QED BY <2>2, <2>3 DEF TransferIsWhole
<1> QED BY <1>1, Invariance, PTL

-----------------------------------------------------------------------------
(* The list of hosts. Sequences first.                                     *)

\* A sequence that is not empty, from its first element and from its last.
LEMMA HeadAndTail ==
  ASSUME NEW S, NEW s \in Seq(S), s # <<>>
  PROVE  /\ Head(s) \in S /\ Tail(s) \in Seq(S) /\ Len(Tail(s)) = Len(s) - 1
         /\ Head(s) \in Range(s) /\ Range(Tail(s)) \subseteq Range(s)
         /\ \A x \in Range(s) : x = Head(s) \/ x \in Range(Tail(s))
<1>1. /\ Len(s) \in Nat \ {0} /\ DOMAIN s = 1..Len(s) /\ Head(s) = s[1]
      /\ Len(Tail(s)) = Len(s) - 1 /\ DOMAIN Tail(s) = 1..(Len(s) - 1)
      /\ \A i \in 1..(Len(s) - 1) : Tail(s)[i] = s[i + 1]
      /\ Tail(s) \in Seq(S) /\ s[1] \in S
  OBVIOUS
<1>2. ASSUME NEW x \in Range(s) PROVE x = Head(s) \/ x \in Range(Tail(s))
  <2>1. PICK i \in 1..Len(s) : x = s[i]
    BY <1>1 DEF Range
  <2>2. CASE i # 1
    <3>1. i - 1 \in 1..(Len(s) - 1) /\ Tail(s)[i - 1] = x
      BY <1>1, <2>1, <2>2
    <3> QED BY <1>1, <3>1 DEF Range
  <2> QED BY <1>1, <2>1, <2>2
<1>3. Range(Tail(s)) \subseteq Range(s)
  <2> SUFFICES ASSUME NEW i \in 1..(Len(s) - 1) PROVE \E j \in DOMAIN s : s[j] = Tail(s)[i]
    BY <1>1 DEF Range
  <2> QED BY <1>1, i + 1 \in 1..Len(s)
<1> QED BY <1>1, <1>2, <1>3 DEF Range

LEMMA FrontAndLast ==
  ASSUME NEW S, NEW s \in Seq(S), s # <<>>
  PROVE  /\ Front(s) \in Seq(S) /\ Last(s) \in S
         /\ Len(s) \in DOMAIN s /\ Last(s) = s[Len(s)]
         /\ DOMAIN Front(s) \subseteq DOMAIN s /\ Len(s) \notin DOMAIN Front(s)
         /\ \A i \in DOMAIN s : i = Len(s) \/ i \in DOMAIN Front(s)
         /\ \A i \in DOMAIN Front(s) : Front(s)[i] = s[i]
BY DEF Front, Last

\* The top of a stack replaced.
LEMMA Replaced ==
  ASSUME NEW S, NEW s \in Seq(S), s # <<>>, NEW e \in S
  PROVE  LET t == Append(Front(s), e)
         IN  /\ t \in Seq(S) /\ DOMAIN t = DOMAIN s /\ Len(s) \in DOMAIN s /\ t[Len(s)] = e
             /\ \A i \in DOMAIN s : i # Len(s) => t[i] = s[i]
<1> DEFINE r == Front(s)
           t == Append(r, e)
<1>1. Len(s) \in Nat /\ Len(s) # 0 /\ DOMAIN s = 1..Len(s)
  OBVIOUS
<1>2. r = SubSeq(s, 1, Len(s) - 1)
  BY DEF Front
<1>3. r \in Seq(S) /\ Len(r) = Len(s) - 1
  BY <1>1, <1>2
<1>4. \A i \in 1..(Len(s) - 1) : r[i] = s[i]
  BY <1>1, <1>2
<1> HIDE DEF r
<1>5. t \in Seq(S) /\ Len(t) = Len(s) /\ t[Len(s)] = e
  <2>1. t \in Seq(S) /\ Len(t) = Len(r) + 1 /\ t[Len(r) + 1] = e
    BY <1>3
  <2>2. Len(r) + 1 = Len(s)
    BY <1>1, <1>3
  <2> QED BY <2>1, <2>2
<1>6. DOMAIN t = 1..Len(s)
  BY <1>5
<1>7. \A i \in 1..(Len(s) - 1) : t[i] = s[i]
  BY <1>3, <1>4
<1> HIDE DEF t
<1>8. \A i \in DOMAIN s : i # Len(s) => t[i] = s[i]
  BY <1>1, <1>7
<1>9. DOMAIN t = DOMAIN s /\ Len(s) \in DOMAIN s
  BY <1>1, <1>6
<1> QED BY <1>5, <1>8, <1>9 DEF r, t

\* And one element more.
LEMMA Appended ==
  ASSUME NEW S, NEW s \in Seq(S), NEW e \in S
  PROVE  LET t == Append(s, e)
         IN  /\ t \in Seq(S) /\ DOMAIN s \subseteq DOMAIN t /\ Len(t) \in DOMAIN t \ DOMAIN s
             /\ t[Len(t)] = e
             /\ \A i \in DOMAIN t : i = Len(t) \/ i \in DOMAIN s
             /\ \A i \in DOMAIN s : t[i] = s[i]
OBVIOUS

-----------------------------------------------------------------------------
\* What the files in reach are.
LEMMA ReachIsLeast ==
  ASSUME NEW S
  PROVE  /\ Reach(S) \subseteq There
         /\ \A f \in There : f \in S => f \in Reach(S)
         /\ \A g \in Reach(S), f \in There : f \in Included(g) => f \in Reach(S)
         /\ \A T \in SUBSET There : Closed(S, T) => Reach(S) \subseteq T
BY DEF Reach, Closed

\* The files in reach of the user's configuration, and of both.
Early == Reach({Head(Roots)})
Reached == Reach(Range(Roots))

LEMMA Reaches ==
  /\ Early \subseteq Reached /\ Reached \subseteq There
  /\ Head(Roots) \in There => Head(Roots) \in Early
  /\ \A f \in There : f \in Range(Roots) => f \in Reached
  /\ \A g \in Early, f \in There : f \in Included(g) => f \in Early
  /\ \A g \in Reached, f \in There : f \in Included(g) => f \in Reached
<1>1. Head(Roots) \in Range(Roots)
  BY HostListAssumption, HeadAndTail
<1>2. Closed({Head(Roots)}, Reached)
  <2> SUFFICES ASSUME NEW f \in There,
                      f \in {Head(Roots)} \/ (\E g \in Reached : f \in Included(g))
               PROVE  f \in Reached
    BY DEF Closed
  <2> QED BY <1>1, ReachIsLeast DEF Reached
<1>3. Early \subseteq Reached
  BY <1>2, ReachIsLeast DEF Early, Reached
<1> QED BY <1>3, ReachIsLeast DEF Early, Reached

\* They are the same as long as the configuration is.
LEMMA Unedited ==
  ASSUME disk' = disk
  PROVE  /\ There' = There /\ Early' = Early /\ Reached' = Reached
         /\ \A f : (Exists(f)' <=> Exists(f)) /\ Names(f)' = Names(f)
<1>1. There' = There
  BY DEF There, Exists
<1>2. ASSUME NEW f PROVE Included(f)' = Included(f) /\ Names(f)' = Names(f) /\ (Exists(f)' <=> Exists(f))
  BY DEF Included, Names, Exists
<1>3. ASSUME NEW S, NEW T PROVE Closed(S, T)' <=> Closed(S, T)
  BY <1>1, <1>2 DEF Closed
<1>4. ASSUME NEW S PROVE Reach(S)' = Reach(S)
  BY <1>1, <1>3 DEF Reach
<1> QED BY <1>1, <1>2, <1>4 DEF Early, Reached

-----------------------------------------------------------------------------
Entries == [alias : Concrete, source : Files]
Frames == [path : Files, lines : Seq(Lines), matches : SUBSET Files]
Stages == {"idle", "resolve", "read", "line", "validate", "threw", "failed", "done"}

ListTypeOK ==
  /\ disk \in Contents /\ pc \in [Loads -> Stages]
  /\ roots \in [Loads -> Seq(Files)] /\ stack \in [Loads -> Seq(Frames)]
  /\ file \in [Loads -> Files] /\ visited \in [Loads -> SUBSET Files]
  /\ found \in [Loads -> Seq(Entries)] /\ steady \in [Loads -> BOOLEAN]

LEMMA RootTypes == Head(Roots) \in Files /\ Tail(Roots) \in Seq(Files)
BY HostListAssumption, HeadAndTail

LEMMA LinesRead ==
  ASSUME ListTypeOK, NEW f \in Files, Exists(f)
  PROVE  disk[Real[f]] \in Seq(Lines)
BY HostListAssumption DEF ListTypeOK, Exists

LEMMA AddedTypes ==
  ASSUME NEW hosts \in Seq(Entries), NEW word, NEW f \in Files
  PROVE  Added(hosts, word, f) \in Seq(Entries)
<1>1. CASE word \in Concrete
  <2>1. [alias |-> word, source |-> f] \in Entries
    BY <1>1 DEF Entries
  <2> QED BY <2>1 DEF Added
<1> QED BY <1>1 DEF Added

\* The type of a stack whose top becomes another frame.
LEMMA TopTypes ==
  ASSUME ListTypeOK, NEW l \in Loads, stack[l] # <<>>, NEW frame \in Frames, SetTop(l, frame)
  PROVE  stack' \in [Loads -> Seq(Frames)]
<1>1. stack[l] \in Seq(Frames)
  BY DEF ListTypeOK
<1>2. Append(Front(stack[l]), frame) \in Seq(Frames)
  BY <1>1, Replaced
<1> QED BY <1>2 DEF ListTypeOK, SetTop

LEMMA TopIsFrame ==
  ASSUME ListTypeOK, NEW l \in Loads, stack[l] # <<>>
  PROVE  Top(l) \in Frames /\ stack[l] \in Seq(Frames)
<1>1. stack[l] \in Seq(Frames)
  BY DEF ListTypeOK
<1> QED BY <1>1, FrontAndLast DEF Top

LEMMA InitTypes == ListInit => ListTypeOK
<1>1. <<>> \in Seq(Files) /\ <<>> \in Seq(Frames) /\ <<>> \in Seq(Entries)
  OBVIOUS
<1> QED BY <1>1, RootTypes DEF ListInit, ListTypeOK, Stages

LEMMA ParseTypes ==
  ASSUME ListTypeOK, NEW l \in Loads, Parse(l)
  PROVE  ListTypeOK'
<1> USE DEF ListTypeOK
<1>1. disk' = disk /\ steady' = steady /\ visited' = visited
  BY DEF Parse
<1>2. CASE stack[l] # <<>> /\ NextMatch(l)
  <2>1. PICK f \in Top(l).matches : /\ file' = [file EXCEPT ![l] = f] /\ To(l, "resolve")
                                    /\ SetTop(l, [Top(l) EXCEPT !.matches = @ \ {f}])
                                    /\ UNCHANGED <<roots, found, unchecked>>
    BY <1>2 DEF NextMatch
  <2>2. Top(l) \in Frames
    BY <1>2, TopIsFrame
  <2>3. f \in Files /\ [Top(l) EXCEPT !.matches = @ \ {f}] \in Frames
    BY <2>1, <2>2 DEF Frames
  <2>4. stack' \in [Loads -> Seq(Frames)]
    BY <1>2, <2>1, <2>3, TopTypes
  <2>5. pc' \in [Loads -> Stages] /\ file' \in [Loads -> Files]
    BY <2>1, <2>3 DEF To, Stages
  <2> QED BY <1>1, <2>1, <2>4, <2>5
<1>3. ASSUME NEW files \in SUBSET Files, stack[l] # <<>>, TakeLine(l, files)
      PROVE  stack' \in [Loads -> Seq(Frames)]
  <2>1. Top(l) \in Frames /\ Top(l).lines # <<>>
    BY <1>3, TopIsFrame DEF TakeLine
  <2>2. Tail(Top(l).lines) \in Seq(Lines)
    BY <2>1, HeadAndTail DEF Frames
  <2>3. [Top(l) EXCEPT !.lines = Tail(@), !.matches = files] \in Frames
    BY <2>1, <2>2 DEF Frames
  <2> QED BY <1>3, <2>3, TopTypes DEF TakeLine
<1>4. CASE stack[l] # <<>> /\ HostLine(l)
  <2>1. stack' \in [Loads -> Seq(Frames)]
    BY <1>3, <1>4 DEF HostLine
  <2>2. Top(l).path \in Files
    BY <1>4, TopIsFrame DEF Frames
  <2>3. Added(found[l], Head(Top(l).lines).word, Top(l).path) \in Seq(Entries)
    BY <2>2, AddedTypes
  <2> QED BY <1>1, <1>4, <2>1, <2>3 DEF HostLine, TakeLine
<1>5. CASE stack[l] # <<>> /\ IncludeLine(l)
  <2>1. Top(l) \in Frames /\ Top(l).lines # <<>>
    BY <1>5, TopIsFrame DEF IncludeLine
  <2>2. Head(Top(l).lines) \in Lines
    BY <2>1, HeadAndTail DEF Frames
  <2>3. Matches[Head(Top(l).lines).pattern] \subseteq Files
    BY <1>5, <2>2, HostListAssumption DEF IncludeLine, Lines
  <2>4. stack' \in [Loads -> Seq(Frames)]
    BY <1>3, <1>5, <2>3 DEF IncludeLine
  <2> QED BY <1>1, <1>5, <2>4 DEF IncludeLine, TakeLine
<1>6. CASE stack[l] # <<>> /\ EndOfFile(l)
  <2>1. Front(stack[l]) \in Seq(Frames)
    BY <1>6, TopIsFrame, FrontAndLast
  <2> QED BY <1>1, <1>6, <2>1 DEF EndOfFile
<1>7. CASE NextRoot(l)
  <2>1. CASE roots[l] # <<>>
    <3>1. Head(roots[l]) \in Files /\ Tail(roots[l]) \in Seq(Files)
      BY <2>1, HeadAndTail
    <3> QED BY <1>1, <1>7, <2>1, <3>1 DEF NextRoot, To, Stages
  <2> QED BY <1>1, <1>7, <2>1 DEF NextRoot, To, Stages
<1> QED BY <1>2, <1>4, <1>5, <1>6, <1>7 DEF Parse

LEMMA NextTypes == ListTypeOK /\ [ListNext]_listVars => ListTypeOK'
<1> SUFFICES ASSUME ListTypeOK, [ListNext]_listVars PROVE ListTypeOK'
  OBVIOUS
<1>1. CASE Refresh
  BY <1>1 DEF Refresh, ListTypeOK, walk
<1>2. CASE Edit
  BY <1>2 DEF Edit, ListTypeOK, walk
<1>3. ASSUME NEW l \in Loads, GetChildren(l) PROVE ListTypeOK'
  BY <1>3, RootTypes DEF GetChildren, ListTypeOK, To, Stages
<1>4. ASSUME NEW l \in Loads, Resolve(l) PROVE ListTypeOK'
  <2>1. Real[file[l]] \in Files
    BY HostListAssumption DEF ListTypeOK
  <2>2. pc' \in [Loads -> Stages]
    BY <1>4 DEF Resolve, ListTypeOK, To, Stages
  <2>3. visited' \in [Loads -> SUBSET Files]
    <3>1. visited' = visited \/ visited' = [visited EXCEPT ![l] = @ \cup {Real[file[l]]}]
      BY <1>4 DEF Resolve
    <3> QED BY <2>1, <3>1 DEF ListTypeOK
  <2> QED BY <1>4, <2>2, <2>3 DEF Resolve, ListTypeOK
<1>5. ASSUME NEW l \in Loads, Read(l) PROVE ListTypeOK'
  <2>1. ASSUME Exists(file[l])
        PROVE  Append(stack[l], [path |-> file[l], lines |-> disk[Real[file[l]]], matches |-> {}])
                 \in Seq(Frames)
    <3>1. file[l] \in Files /\ stack[l] \in Seq(Frames)
      BY DEF ListTypeOK
    <3>2. [path |-> file[l], lines |-> disk[Real[file[l]]], matches |-> {}] \in Frames
      BY <2>1, <3>1, LinesRead DEF Frames
    <3> QED BY <3>1, <3>2
  <2> QED BY <1>5, <2>1 DEF Read, ListTypeOK, To, Stages
<1>6. ASSUME NEW l \in Loads, Parse(l) PROVE ListTypeOK'
  BY <1>6, ParseTypes
<1>7. ASSUME NEW l \in Loads, NEW a, Checked(l, a) PROVE ListTypeOK'
  BY <1>7 DEF Checked, ListTypeOK, walk
<1>8. ASSUME NEW l \in Loads, Settle(l) PROVE ListTypeOK'
  BY <1>8 DEF Settle, ListTypeOK, To, Stages, walk
<1>9. CASE UNCHANGED listVars
  BY <1>9 DEF listVars, walk, ListTypeOK
<1> QED BY <1>1, <1>2, <1>3, <1>4, <1>5, <1>6, <1>7, <1>8, <1>9 DEF ListNext, Load, CheckTimesOut

-----------------------------------------------------------------------------
(* What is known of a load whose configuration has not changed.            *)

\* The files it may be at: of the user's configuration, until it is at the system's.
Zone(l) == IF roots[l] = Tail(Roots) THEN Early ELSE Reached

\* A file it has visited, by any path, or is about to; a host it has found.
Known(l, f) == Real[f] \in visited[l]
Queued(l, f) == \/ pc[l] = "resolve" /\ file[l] = f
                \/ \E i \in DOMAIN stack[l] : f \in stack[l][i].matches
Named(l, word) == \E i \in DOMAIN found[l] : found[l][i].alias = word

\* It finds nothing that is out of reach.
Inside(l) ==
  /\ pc[l] \in {"resolve", "read"} /\ Exists(file[l]) => file[l] \in Zone(l)
  /\ \A i \in DOMAIN stack[l] :
       /\ stack[l][i].path \in Zone(l)
       /\ \A g \in stack[l][i].matches : Exists(g) => g \in Zone(l)
       /\ Range(stack[l][i].lines) \subseteq Range(disk[Real[stack[l][i].path]])
  /\ \A i \in DOMAIN found[l] :
       found[l][i].source \in Zone(l) /\ found[l][i].alias \in Names(found[l][i].source)

\* The files it is in the middle of are different ones.
NoCycle(l) ==
  /\ pc[l] = "read" => Known(l, file[l]) /\ file[l] \in There
  /\ \A i \in DOMAIN stack[l] :
       /\ Known(l, stack[l][i].path)
       /\ pc[l] = "read" => Real[stack[l][i].path] # Real[file[l]]
       /\ \A j \in DOMAIN stack[l] : Real[stack[l][i].path] = Real[stack[l][j].path] => i = j

Once(l) == \A i, j \in DOMAIN found[l] : found[l][i].alias = found[l][j].alias => i = j

\* What becomes of a line, of each root, and of each line of a file that was visited.
Handled(l, line) ==
  IF line.key = "host" THEN line.word \in Concrete => Named(l, line.word)
  ELSE \A g \in Matches[line.pattern] : Exists(g) => Known(l, g) \/ Queued(l, g)

Pending(l, line) == \E i \in DOMAIN stack[l] : line \in Range(stack[l][i].lines)

NothingLeftOut(l) ==
  /\ Exists(Head(Roots)) => Known(l, Head(Roots)) \/ Queued(l, Head(Roots))
  /\ \A f \in Range(Roots) : Exists(f) => Known(l, f) \/ Queued(l, f) \/ f \in Range(roots[l])
  /\ \A f \in There : Known(l, f) =>
       \/ pc[l] = "read" /\ Real[f] = Real[file[l]]
       \/ \A line \in Range(disk[Real[f]]) : Handled(l, line) \/ Pending(l, line)

\* The user's hosts are found before the system's configuration is looked at.
UserFirst(l) ==
  roots[l] # Tail(Roots) => \A f \in Early : \A a \in Names(f) :
    \E i \in DOMAIN found[l] : found[l][i].alias = a /\ found[l][i].source \in Early

Walked(l) == /\ Inside(l) /\ NoCycle(l) /\ Once(l) /\ NothingLeftOut(l) /\ UserFirst(l)
             /\ Len(roots[l]) < Len(Roots) /\ Range(roots[l]) \subseteq Range(Roots)
             /\ pc[l] \in {"validate", "done"} => roots[l] = <<>> /\ stack[l] = <<>>

TooDeep == Cardinality({Real[f] : f \in Reached}) > MaxDepth

OfLoad(l) == CASE pc[l] = "idle" -> /\ file[l] = Head(Roots) /\ stack[l] = <<>>
                                    /\ visited[l] = {} /\ found[l] = <<>>
               [] pc[l] \in {"threw", "failed"} -> steady[l] => TooDeep
               [] OTHER -> steady[l] => Walked(l)

ListInv == ListTypeOK /\ \A l \in Loads : OfLoad(l)

-----------------------------------------------------------------------------
\* At the end of a configuration all that is in reach of it has been found.
LEMMA AllFound ==
  ASSUME ListTypeOK, NEW l \in Loads, NothingLeftOut(l), stack[l] = <<>>,
         pc[l] \notin {"resolve", "read"}
  PROVE  /\ \A f \in Early : \A a \in Names(f) : Named(l, a)
         /\ roots[l] = <<>> => \A f \in Reached : \A a \in Names(f) : Named(l, a)
<1> DEFINE T == {f \in There : Known(l, f)}
<1>1. \A f : ~Queued(l, f)
  BY DEF Queued
<1>2. \A line : ~Pending(l, line)
  BY DEF Pending
<1>3. ASSUME NEW f \in T, NEW line \in Range(disk[Real[f]]) PROVE Handled(l, line)
  BY <1>2 DEF NothingLeftOut
<1>4. ASSUME NEW g \in T, NEW f \in There, f \in Included(g) PROVE f \in T
  <2>1. PICK line \in Range(disk[Real[g]]) : line.key = "include" /\ f \in Matches[line.pattern]
    BY <1>4 DEF Included
  <2>2. Handled(l, line)
    BY <1>3
  <2> QED BY <1>1, <2>1, <2>2 DEF Handled, There
<1>5. ASSUME NEW f \in T, NEW a \in Names(f) PROVE Named(l, a)
  <2>1. PICK line \in Range(disk[Real[f]]) : line.key = "host" /\ line.word = a /\ a \in Concrete
    BY DEF Names
  <2>2. Handled(l, line)
    BY <1>3
  <2> QED BY <2>1, <2>2 DEF Handled
<1>6. T \in SUBSET There
  OBVIOUS
<1>7. Early \subseteq T
  <2>1. Closed({Head(Roots)}, T)
    BY <1>1, <1>4 DEF Closed, NothingLeftOut, There
  <2> QED BY <1>6, <2>1, ReachIsLeast DEF Early
<1>8. ASSUME roots[l] = <<>> PROVE Reached \subseteq T
  <2>1. Range(roots[l]) = {}
    BY <1>8 DEF Range
  <2>2. Closed(Range(Roots), T)
    BY <1>1, <1>4, <2>1 DEF Closed, NothingLeftOut, There
  <2> QED BY <1>6, <2>2, ReachIsLeast DEF Reached
<1> QED BY <1>5, <1>7, <1>8

\* The files of a stack are as many as it is deep.
LEMMA DeepStack ==
  ASSUME ListTypeOK, NEW l \in Loads, Inside(l), NoCycle(l), Len(stack[l]) > MaxDepth
  PROVE  TooDeep
<1> DEFINE n == Len(stack[l])
           canonical == {Real[f] : f \in Reached}
           at == [i \in 1..n |-> Real[stack[l][i].path]]
<1>1. n \in Nat /\ DOMAIN stack[l] = 1..n
  BY DEF ListTypeOK
<1>2. \A i \in 1..n : stack[l][i].path \in Reached
  BY <1>1, Reaches DEF Inside, Zone
<1>3. at \in Injection(1..n, canonical)
  <2>1. at \in [1..n -> canonical]
    BY <1>2
  <2>2. \A i, j \in 1..n : at[i] = at[j] => i = j
    BY <1>1 DEF NoCycle
  <2> QED BY <2>1, <2>2 DEF Injection, IsInjective
<1>4. IsFiniteSet(canonical) /\ Cardinality(canonical) \in Nat
  <2>1. canonical \in SUBSET Files
    BY HostListAssumption, Reaches DEF There
  <2>2. IsFiniteSet(canonical)
    BY <2>1, HostListAssumption, FS_Subset
  <2> QED BY <2>2, FS_CardinalityType
<1>5. Cardinality(1..n) = n
  BY <1>1, FS_Interval
<1>6. n <= Cardinality(canonical)
  BY <1>3, <1>4, <1>5, FS_Injection
<1> QED BY <1>1, <1>4, <1>6, HostListAssumption DEF TooDeep

-----------------------------------------------------------------------------
\* What a step may do without leaving anything out.
LEMMA StillNothingLeftOut ==
  ASSUME ListTypeOK, NEW l \in Loads, NothingLeftOut(l), disk' = disk,
         \A f : Exists(f) /\ (Known(l, f) \/ Queued(l, f)) => Known(l, f)' \/ Queued(l, f)',
         \A word : Named(l, word) => Named(l, word)',
         \A f \in Range(roots[l]) : f \in Range(roots[l])' \/ Queued(l, f)',
         \A line : Pending(l, line) => Handled(l, line)' \/ Pending(l, line)',
         \A f \in There : Known(l, f)' =>
           \/ Known(l, f) /\ ~(pc[l] = "read" /\ Real[f] = Real[file[l]])
           \/ pc'[l] = "read" /\ Real[f] = Real[file'[l]]
           \/ \A line \in Range(disk[Real[f]]) : Handled(l, line)' \/ Pending(l, line)'
  PROVE  NothingLeftOut(l)'
<1>1. There' = There /\ \A f : Exists(f)' <=> Exists(f)
  BY Unedited
<1>2. ASSUME NEW line, Handled(l, line) PROVE Handled(l, line)'
  BY <1>1, <1>2 DEF Handled
<1>3. Exists(Head(Roots))' => (Known(l, Head(Roots)) \/ Queued(l, Head(Roots)))'
  BY <1>1 DEF NothingLeftOut
<1>4. ASSUME NEW f \in Range(Roots), Exists(f)'
      PROVE  (Known(l, f) \/ Queued(l, f) \/ f \in Range(roots[l]))'
  BY <1>1, <1>4 DEF NothingLeftOut
<1>5. ASSUME NEW f \in There', Known(l, f)'
      PROVE  (\/ pc[l] = "read" /\ Real[f] = Real[file[l]]
              \/ \A line \in Range(disk[Real[f]]) : Handled(l, line) \/ Pending(l, line))'
  <2>1. CASE Known(l, f) /\ ~(pc[l] = "read" /\ Real[f] = Real[file[l]])
    <3>1. \A line \in Range(disk[Real[f]]) : Handled(l, line) \/ Pending(l, line)
      BY <1>1, <1>5, <2>1 DEF NothingLeftOut
    <3> QED BY <1>2, <3>1
  <2> QED BY <1>1, <1>5, <2>1
<1> QED BY <1>3, <1>4, <1>5 DEF NothingLeftOut

\* The depth, and a file that is a new one, or not.
LEMMA ResolveStep ==
  ASSUME ListTypeOK, NEW l \in Loads, Walked(l), Resolve(l)
  PROVE  IF pc'[l] = "threw" THEN TooDeep' ELSE Walked(l)'
<1> USE DEF Walked
<1>1. /\ disk' = disk /\ roots' = roots /\ stack' = stack /\ file' = file /\ found' = found
      /\ pc[l] = "resolve" /\ l \in DOMAIN pc /\ l \in DOMAIN visited
  BY DEF Resolve, ListTypeOK
<1>2. There' = There /\ Early' = Early /\ Reached' = Reached /\ Zone(l)' = Zone(l)
  BY <1>1, Unedited DEF Zone
<1>3. \A f : (Exists(f)' <=> Exists(f)) /\ Names(f)' = Names(f)
  BY <1>1, Unedited
<1>4. CASE Len(stack[l]) > MaxDepth
  <2>1. TooDeep
    BY <1>4, DeepStack
  <2> QED BY <1>1, <1>2, <1>4, <2>1 DEF Resolve, To, TooDeep
<1>5. CASE ~(Len(stack[l]) > MaxDepth) /\ (~Exists(file[l]) \/ Seen(l, file[l]))
  <2>1. pc'[l] = "line" /\ visited' = visited
    BY <1>1, <1>5 DEF Resolve, To
  <2>2. \A f : /\ Known(l, f)' <=> Known(l, f)
               /\ Exists(f) /\ Queued(l, f) => Known(l, f)' \/ Queued(l, f)'
    BY <1>1, <1>5, <2>1 DEF Known, Queued, Seen
  <2>3. NothingLeftOut(l)'
    BY <1>1, <2>1, <2>2, StillNothingLeftOut DEF Named, Pending
  <2>4. Inside(l)'
    BY <1>1, <1>2, <1>3, <2>1 DEF Inside
  <2>5. NoCycle(l)'
    BY <1>1, <2>1, <2>2 DEF NoCycle
  <2> QED BY <1>1, <1>2, <1>3, <2>1, <2>3, <2>4, <2>5 DEF Once, UserFirst
<1>6. CASE ~(Len(stack[l]) > MaxDepth) /\ Exists(file[l]) /\ ~Seen(l, file[l])
  <2>1. pc'[l] = "read" /\ visited'[l] = visited[l] \cup {Real[file[l]]}
    BY <1>1, <1>6 DEF Resolve, To
  <2>2. \A f : Known(l, f)' <=> Known(l, f) \/ Real[f] = Real[file[l]]
    BY <2>1 DEF Known
  <2>3. \A f : Queued(l, f) => Known(l, f)' \/ Queued(l, f)'
    BY <1>1, <2>2 DEF Queued
  <2>4. NothingLeftOut(l)'
    BY <1>1, <2>1, <2>2, <2>3, StillNothingLeftOut DEF Named, Pending
  <2>5. Inside(l)'
    BY <1>1, <1>2, <1>3, <2>1 DEF Inside
  <2>6. file[l] \in There
    BY <1>6 DEF ListTypeOK, There
  <2>7. NoCycle(l)'
    BY <1>1, <1>2, <1>6, <2>1, <2>2, <2>6 DEF NoCycle, Seen, Known
  <2> QED BY <1>1, <1>2, <1>3, <2>1, <2>4, <2>5, <2>7 DEF Once, UserFirst
<1> QED BY <1>4, <1>5, <1>6

\* readFile: the file's lines are pending.
LEMMA ReadStep ==
  ASSUME ListTypeOK, NEW l \in Loads, Walked(l), Read(l)
  PROVE  Walked(l)' /\ pc'[l] = "line"
<1> USE DEF Walked
<1> DEFINE top == Len(stack'[l])
           frame == [path |-> file[l], lines |-> disk[Real[file[l]]], matches |-> {}]
<1>1. /\ disk' = disk /\ roots' = roots /\ file' = file /\ found' = found /\ visited' = visited
      /\ pc[l] = "read" /\ pc'[l] = "line" /\ l \in DOMAIN stack
      /\ file[l] \in There /\ Exists(file[l]) /\ file[l] \in Files /\ stack[l] \in Seq(Frames)
  BY DEF Read, To, ListTypeOK, NoCycle, There
<1>2. There' = There /\ Early' = Early /\ Reached' = Reached /\ Zone(l)' = Zone(l)
  BY <1>1, Unedited DEF Zone
<1>3. \A f : (Exists(f)' <=> Exists(f)) /\ Names(f)' = Names(f)
  BY <1>1, Unedited
<1>4. frame \in Frames
  BY <1>1, LinesRead DEF Frames
<1>5. stack'[l] = Append(stack[l], frame)
  BY <1>1 DEF Read
<1>6. /\ DOMAIN stack[l] \subseteq DOMAIN stack'[l] /\ top \in DOMAIN stack'[l] \ DOMAIN stack[l]
      /\ stack'[l][top] = frame
      /\ \A i \in DOMAIN stack'[l] : i = top \/ i \in DOMAIN stack[l]
      /\ \A i \in DOMAIN stack[l] : stack'[l][i] = stack[l][i]
  BY <1>1, <1>4, <1>5, Appended
<1> HIDE DEF top
<1>7. \A f : (Known(l, f)' <=> Known(l, f)) /\ (Queued(l, f) => Queued(l, f)')
  BY <1>1, <1>6 DEF Known, Queued
<1>8. NothingLeftOut(l)'
  <2>1. \A line : Pending(l, line) => Pending(l, line)'
    BY <1>6 DEF Pending
  <2>2. \A line \in Range(disk[Real[file[l]]]) : Pending(l, line)'
    BY <1>6 DEF Pending
  <2> QED BY <1>1, <1>7, <2>1, <2>2, StillNothingLeftOut DEF Named
<1>9. Inside(l)'
  BY <1>1, <1>2, <1>3, <1>6 DEF Inside
<1>10. NoCycle(l)'
  BY <1>1, <1>6, <1>7 DEF NoCycle
<1> QED BY <1>1, <1>2, <1>3, <1>8, <1>9, <1>10 DEF Once, UserFirst

\* The frames of a stack when the top one becomes another.
LEMMA TopReplaced ==
  ASSUME ListTypeOK, NEW l \in Loads, stack[l] # <<>>, NEW frame \in Frames, SetTop(l, frame)
  PROVE  LET top == Len(stack[l])
         IN  /\ DOMAIN stack'[l] = DOMAIN stack[l] /\ top \in DOMAIN stack[l]
             /\ Top(l) = stack[l][top] /\ stack'[l][top] = frame
             /\ \A i \in DOMAIN stack[l] : i # top => stack'[l][i] = stack[l][i]
<1>1. stack[l] \in Seq(Frames) /\ stack'[l] = Append(Front(stack[l]), frame)
  BY DEF ListTypeOK, SetTop
<1>2. Top(l) = stack[l][Len(stack[l])]
  BY <1>1, FrontAndLast DEF Top
<1> QED BY <1>1, <1>2, Replaced

\* A file that an Include matched is the next to be resolved.
LEMMA MatchStep ==
  ASSUME ListTypeOK, NEW l \in Loads, Walked(l), Parse(l), stack[l] # <<>>, NextMatch(l)
  PROVE  Walked(l)' /\ pc'[l] = "resolve"
<1> USE DEF Walked
<1> DEFINE top == Len(stack[l])
<1>1. PICK f \in Top(l).matches : /\ file' = [file EXCEPT ![l] = f] /\ To(l, "resolve")
                                  /\ SetTop(l, [Top(l) EXCEPT !.matches = @ \ {f}])
                                  /\ UNCHANGED <<roots, found, unchecked>>
  BY DEF NextMatch
<1> DEFINE frame == [Top(l) EXCEPT !.matches = @ \ {f}]
<1>2. /\ disk' = disk /\ roots' = roots /\ found' = found /\ visited' = visited
      /\ pc[l] = "line" /\ pc'[l] = "resolve" /\ file'[l] = f
  BY <1>1 DEF Parse, To, ListTypeOK
<1>3. There' = There /\ Early' = Early /\ Reached' = Reached /\ Zone(l)' = Zone(l)
  BY <1>2, Unedited DEF Zone
<1>4. \A g : (Exists(g)' <=> Exists(g)) /\ Names(g)' = Names(g)
  BY <1>2, Unedited
<1>5. /\ frame \in Frames /\ frame.path = Top(l).path /\ frame.lines = Top(l).lines
      /\ frame.matches = Top(l).matches \ {f}
  BY TopIsFrame DEF Frames
<1>6. /\ DOMAIN stack'[l] = DOMAIN stack[l] /\ top \in DOMAIN stack[l]
      /\ Top(l) = stack[l][top] /\ stack'[l][top] = frame
      /\ \A i \in DOMAIN stack[l] : i # top => stack'[l][i] = stack[l][i]
  BY <1>1, <1>5, TopReplaced
<1> HIDE DEF top, frame
<1>7. \A g : (Known(l, g)' <=> Known(l, g)) /\ (Queued(l, g) => Queued(l, g)')
  BY <1>2, <1>5, <1>6 DEF Known, Queued
<1>8. NothingLeftOut(l)'
  <2>1. \A line : Pending(l, line) => Pending(l, line)'
    BY <1>5, <1>6 DEF Pending
  <2> QED BY <1>2, <1>7, <2>1, StillNothingLeftOut DEF Named
<1>9. Inside(l)'
  BY <1>2, <1>3, <1>4, <1>5, <1>6 DEF Inside
<1>10. NoCycle(l)'
  <2>1. \A i \in DOMAIN stack[l] : stack'[l][i].path = stack[l][i].path
    BY <1>5, <1>6
  <2> QED BY <1>2, <1>6, <1>7, <2>1 DEF NoCycle
<1> QED BY <1>2, <1>3, <1>4, <1>8, <1>9, <1>10 DEF Once, UserFirst

\* A line is taken: what it leaves pending, and the files it is queued for.
LEMMA LineStep ==
  ASSUME ListTypeOK, NEW l \in Loads, Walked(l), Parse(l), stack[l] # <<>>,
         NEW files \in SUBSET Files, TakeLine(l, files),
         \A g \in files : Exists(g) => g \in Zone(l),
         \A word : Named(l, word) => Named(l, word)',
         \A line : line = Head(Top(l).lines) => Handled(l, line)',
         \A i \in DOMAIN found'[l] :
           \/ i \in DOMAIN found[l] /\ found'[l][i] = found[l][i]
           \/ found'[l][i].source = Top(l).path /\ found'[l][i].alias \in Names(Top(l).path)
  PROVE  /\ Inside(l)' /\ NoCycle(l)' /\ NothingLeftOut(l)'
         /\ pc'[l] = "line" /\ disk' = disk /\ roots' = roots
<1> USE DEF Walked
<1> DEFINE top == Len(stack[l])
           frame == [Top(l) EXCEPT !.lines = Tail(@), !.matches = files]
           first == Head(Top(l).lines)
<1>1. /\ disk' = disk /\ roots' = roots /\ visited' = visited /\ file' = file
      /\ pc[l] = "line" /\ pc' = pc /\ Top(l).matches = {} /\ Top(l).lines # <<>>
  BY DEF Parse, TakeLine
<1>2. There' = There /\ Early' = Early /\ Reached' = Reached /\ Zone(l)' = Zone(l)
  BY <1>1, Unedited DEF Zone
<1>3. \A g : (Exists(g)' <=> Exists(g)) /\ Names(g)' = Names(g)
  BY <1>1, Unedited
<1>4. /\ Top(l) \in Frames /\ Top(l).lines \in Seq(Lines) /\ Tail(Top(l).lines) \in Seq(Lines)
      /\ Range(Tail(Top(l).lines)) \subseteq Range(Top(l).lines)
      /\ \A x \in Range(Top(l).lines) : x = first \/ x \in Range(Tail(Top(l).lines))
  <2>1. Top(l) \in Frames /\ Top(l).lines \in Seq(Lines)
    BY TopIsFrame DEF Frames
  <2> QED BY <1>1, <2>1, HeadAndTail
<1>5. /\ frame \in Frames /\ frame.path = Top(l).path /\ frame.lines = Tail(Top(l).lines)
      /\ frame.matches = files
  BY <1>4 DEF Frames
<1>6. /\ DOMAIN stack'[l] = DOMAIN stack[l] /\ top \in DOMAIN stack[l]
      /\ Top(l) = stack[l][top] /\ stack'[l][top] = frame
      /\ \A i \in DOMAIN stack[l] : i # top => stack'[l][i] = stack[l][i]
  BY <1>5, TopReplaced DEF TakeLine
<1> HIDE DEF top, frame
<1>7. \A g : (Known(l, g)' <=> Known(l, g)) /\ (Queued(l, g) => Queued(l, g)')
  BY <1>1, <1>6 DEF Known, Queued
<1>8. NothingLeftOut(l)'
  <2>1. \A x : Pending(l, x) => x = first \/ Pending(l, x)'
    BY <1>4, <1>5, <1>6 DEF Pending
  <2> QED BY <1>1, <1>7, <2>1, StillNothingLeftOut
<1>9. \A i \in DOMAIN stack[l] : stack'[l][i].path = stack[l][i].path
  BY <1>5, <1>6
<1>10. NoCycle(l)'
  BY <1>1, <1>6, <1>7, <1>9 DEF NoCycle
<1>11. Inside(l)'
  <2>1. ASSUME NEW i \in DOMAIN stack'[l]
        PROVE  /\ stack'[l][i].path \in Zone(l)
               /\ \A g \in stack'[l][i].matches : Exists(g) => g \in Zone(l)
               /\ Range(stack'[l][i].lines) \subseteq Range(disk[Real[stack'[l][i].path]])
    <3>1. CASE i = top
      BY <1>4, <1>5, <1>6, <3>1 DEF Inside
    <3>2. CASE i # top
      BY <1>6, <3>2 DEF Inside
    <3> QED BY <3>1, <3>2
  <2>2. Top(l).path \in Zone(l)
    BY <1>6 DEF Inside
  <2>3. \A i \in DOMAIN found'[l] :
          found'[l][i].source \in Zone(l) /\ found'[l][i].alias \in Names(found'[l][i].source)
    BY <2>2 DEF Inside
  <2> QED BY <1>1, <1>2, <1>3, <2>1, <2>3 DEF Inside
<1> QED BY <1>1, <1>8, <1>10, <1>11

\* The list of hosts with one word more.
LEMMA AddedOnce ==
  ASSUME NEW hosts \in Seq(Entries), NEW word, NEW f \in Files,
         \A i, j \in DOMAIN hosts : hosts[i].alias = hosts[j].alias => i = j
  PROVE  LET more == Added(hosts, word, f)
         IN  /\ DOMAIN hosts \subseteq DOMAIN more /\ \A i \in DOMAIN hosts : more[i] = hosts[i]
             /\ \A i \in DOMAIN more :
                  i \in DOMAIN hosts \/ (more[i] = [alias |-> word, source |-> f] /\ word \in Concrete)
             /\ \A i, j \in DOMAIN more : more[i].alias = more[j].alias => i = j
             /\ word \in Concrete => \E i \in DOMAIN more : more[i].alias = word
<1>1. CASE word \in Concrete /\ \A i \in DOMAIN hosts : hosts[i].alias # word
  <2> DEFINE new == [alias |-> word, source |-> f]
             more == Append(hosts, new)
  <2>1. new \in Entries
    BY <1>1 DEF Entries
  <2>2. Added(hosts, word, f) = more
    BY <1>1 DEF Added
  <2>3. /\ DOMAIN hosts \subseteq DOMAIN more /\ Len(more) \in DOMAIN more /\ more[Len(more)] = new
        /\ \A i \in DOMAIN more : i = Len(more) \/ i \in DOMAIN hosts
        /\ \A i \in DOMAIN hosts : more[i] = hosts[i]
    BY <2>1, Appended
  <2> QED BY <1>1, <2>2, <2>3
<1>2. CASE ~(word \in Concrete /\ \A i \in DOMAIN hosts : hosts[i].alias # word)
  BY <1>2 DEF Added
<1> QED BY <1>1, <1>2

\* The type of the line that is taken.
LEMMA FirstLine ==
  ASSUME ListTypeOK, NEW l \in Loads, Walked(l), stack[l] # <<>>, Top(l).lines # <<>>
  PROVE  /\ Head(Top(l).lines) \in Lines
         /\ Top(l).path \in Zone(l) /\ Top(l).path \in Files
         /\ Head(Top(l).lines) \in Range(disk[Real[Top(l).path]])
<1>1. Top(l) \in Frames /\ stack[l] \in Seq(Frames)
  BY TopIsFrame
<1>2. Top(l).lines \in Seq(Lines) /\ Top(l).path \in Files
  BY <1>1 DEF Frames
<1>3. Head(Top(l).lines) \in Lines /\ Head(Top(l).lines) \in Range(Top(l).lines)
  BY <1>2, HeadAndTail
<1>4. Len(stack[l]) \in DOMAIN stack[l] /\ Top(l) = stack[l][Len(stack[l])]
  BY <1>1, FrontAndLast DEF Top
<1> QED BY <1>2, <1>3, <1>4 DEF Walked, Inside

LEMMA HostStep ==
  ASSUME ListTypeOK, NEW l \in Loads, Walked(l), Parse(l), stack[l] # <<>>, HostLine(l)
  PROVE  Walked(l)' /\ pc'[l] = "line"
<1> DEFINE line == Head(Top(l).lines)
<1>1. /\ TakeLine(l, {}) /\ line.key = "host" /\ Top(l).lines # <<>> /\ pc[l] = "line"
      /\ found'[l] = Added(found[l], line.word, Top(l).path) /\ found[l] \in Seq(Entries)
  BY DEF HostLine, TakeLine, Parse, ListTypeOK
<1>2. Top(l).path \in Files /\ line \in Range(disk[Real[Top(l).path]])
  BY <1>1, FirstLine
<1>3. /\ DOMAIN found[l] \subseteq DOMAIN found'[l]
      /\ \A i \in DOMAIN found[l] : found'[l][i] = found[l][i]
      /\ \A i \in DOMAIN found'[l] :
           \/ i \in DOMAIN found[l]
           \/ /\ found'[l][i] = [alias |-> line.word, source |-> Top(l).path]
              /\ line.word \in Concrete
      /\ \A i, j \in DOMAIN found'[l] : found'[l][i].alias = found'[l][j].alias => i = j
      /\ line.word \in Concrete => \E i \in DOMAIN found'[l] : found'[l][i].alias = line.word
  BY <1>1, <1>2, AddedOnce DEF Walked, Once
<1>4. line.word \in Concrete => line.word \in Names(Top(l).path)
  BY <1>1, <1>2 DEF Names
<1>5. \A word : Named(l, word) => Named(l, word)'
  BY <1>3 DEF Named
<1>6. ASSUME NEW x, x = line PROVE Handled(l, x)'
  BY <1>1, <1>3, <1>6 DEF Handled, Named
<1>7. /\ Inside(l)' /\ NoCycle(l)' /\ NothingLeftOut(l)' /\ pc'[l] = "line" /\ disk' = disk
      /\ roots' = roots
  <2>1. \A i \in DOMAIN found'[l] :
          \/ i \in DOMAIN found[l] /\ found'[l][i] = found[l][i]
          \/ found'[l][i].source = Top(l).path /\ found'[l][i].alias \in Names(Top(l).path)
    BY <1>3, <1>4
  <2> QED BY <1>1, <1>5, <1>6, <2>1, LineStep
<1>8. Once(l)'
  BY <1>3 DEF Once
<1>9. UserFirst(l)'
  <2>1. Early' = Early /\ \A g : Names(g)' = Names(g)
    BY <1>7, Unedited
  <2> QED BY <1>3, <1>7, <2>1 DEF UserFirst, Walked
<1> QED BY <1>7, <1>8, <1>9 DEF Walked

LEMMA IncludeStep ==
  ASSUME ListTypeOK, NEW l \in Loads, Walked(l), Parse(l), stack[l] # <<>>, IncludeLine(l)
  PROVE  Walked(l)' /\ pc'[l] = "line"
<1> DEFINE line == Head(Top(l).lines)
           files == {f \in Matches[line.pattern] : Exists(f)}
<1>1. /\ Top(l).lines # <<>> /\ line.key = "include" /\ TakeLine(l, files) /\ found' = found
      /\ disk' = disk /\ pc' = pc /\ pc[l] = "line"
  BY DEF IncludeLine, TakeLine, Parse
<1>2. /\ line \in Lines /\ Top(l).path \in Zone(l) /\ Top(l).path \in Files
      /\ line \in Range(disk[Real[Top(l).path]])
  BY <1>1, FirstLine
<1>3. files \in SUBSET Files
  BY <1>1, <1>2, HostListAssumption DEF Lines
<1>4. \A g \in files : Exists(g) => g \in Zone(l)
  <2> SUFFICES ASSUME NEW g \in files PROVE g \in Zone(l)
    OBVIOUS
  <2>1. g \in There /\ g \in Included(Top(l).path)
    BY <1>1, <1>2, <1>3 DEF There, Included
  <2> QED BY <1>2, <2>1, Reaches DEF Zone
<1>5. \A word : Named(l, word) => Named(l, word)'
  BY <1>1 DEF Named
<1>6. ASSUME NEW x, x = line PROVE Handled(l, x)'
  <2>1. \E i \in DOMAIN stack'[l] : stack'[l][i].matches = files
    <3> DEFINE frame == [Top(l) EXCEPT !.lines = Tail(@), !.matches = files]
    <3>1. Top(l) \in Frames /\ Tail(Top(l).lines) \in Seq(Lines)
      BY <1>1, TopIsFrame, HeadAndTail DEF Frames
    <3>2. frame \in Frames /\ frame.matches = files
      BY <1>3, <3>1 DEF Frames
    <3>3. SetTop(l, frame)
      BY <1>1 DEF TakeLine
    <3> HIDE DEF frame
    <3> QED BY <3>2, <3>3, TopReplaced
  <2>2. \A g \in Matches[line.pattern] : Exists(g)' => Queued(l, g)'
    BY <1>1, <2>1, Unedited DEF Queued
  <2> QED BY <1>1, <1>6, <2>2 DEF Handled
<1> HIDE DEF files
<1>7. /\ Inside(l)' /\ NoCycle(l)' /\ NothingLeftOut(l)' /\ pc'[l] = "line" /\ roots' = roots
  BY <1>1, <1>3, <1>4, <1>5, <1>6, LineStep
<1>8. Early' = Early /\ \A g : Names(g)' = Names(g)
  BY <1>1, Unedited
<1> QED BY <1>1, <1>7, <1>8 DEF Walked, Once, UserFirst

\* The end of a file: nothing of it was left.
LEMMA EndStep ==
  ASSUME ListTypeOK, NEW l \in Loads, Walked(l), Parse(l), stack[l] # <<>>, EndOfFile(l)
  PROVE  Walked(l)' /\ pc'[l] = "line"
<1> USE DEF Walked
<1> DEFINE top == Len(stack[l])
<1>1. /\ disk' = disk /\ roots' = roots /\ visited' = visited /\ file' = file /\ found' = found
      /\ pc[l] = "line" /\ pc' = pc /\ Top(l).matches = {} /\ Top(l).lines = <<>>
      /\ stack[l] \in Seq(Frames) /\ stack'[l] = Front(stack[l])
  BY DEF Parse, EndOfFile, ListTypeOK
<1>2. There' = There /\ Early' = Early /\ Reached' = Reached /\ Zone(l)' = Zone(l)
  BY <1>1, Unedited DEF Zone
<1>3. \A g : (Exists(g)' <=> Exists(g)) /\ Names(g)' = Names(g)
  BY <1>1, Unedited
<1>4. /\ DOMAIN stack'[l] \subseteq DOMAIN stack[l] /\ Top(l) = stack[l][top]
      /\ \A i \in DOMAIN stack[l] : i = top \/ i \in DOMAIN stack'[l]
      /\ \A i \in DOMAIN stack'[l] : stack'[l][i] = stack[l][i]
  BY <1>1, FrontAndLast DEF Top
<1> HIDE DEF top
<1>5. \A g : (Known(l, g)' <=> Known(l, g)) /\ (Queued(l, g) => Queued(l, g)')
  BY <1>1, <1>4 DEF Known, Queued
<1>6. \A line : Pending(l, line) => Pending(l, line)'
  BY <1>1, <1>4 DEF Pending, Range
<1>7. NothingLeftOut(l)'
  BY <1>1, <1>5, <1>6, StillNothingLeftOut DEF Named
<1>8. Inside(l)'
  BY <1>1, <1>2, <1>3, <1>4 DEF Inside
<1>9. NoCycle(l)'
  BY <1>1, <1>4, <1>5 DEF NoCycle
<1> QED BY <1>1, <1>2, <1>3, <1>7, <1>8, <1>9 DEF Once, UserFirst

\* One configuration is done; what it is for the user's that all of it has been found.
LEMMA RootStep ==
  ASSUME ListTypeOK, NEW l \in Loads, Walked(l), Parse(l), NextRoot(l)
  PROVE  Walked(l)' /\ pc'[l] \in {"resolve", "validate"}
<1> USE DEF Walked
<1>1. /\ disk' = disk /\ visited' = visited /\ stack' = stack /\ found' = found
      /\ pc[l] = "line" /\ stack[l] = <<>> /\ roots[l] \in Seq(Files)
      /\ l \in DOMAIN pc /\ l \in DOMAIN roots /\ l \in DOMAIN file
  BY DEF Parse, NextRoot, ListTypeOK
<1>2. There' = There /\ Early' = Early /\ Reached' = Reached
  BY <1>1, Unedited
<1>3. \A g : (Exists(g)' <=> Exists(g)) /\ Names(g)' = Names(g)
  BY <1>1, Unedited
<1>4. DOMAIN stack[l] = {}
  BY <1>1
<1>5. CASE roots[l] # <<>>
  <2>1. /\ file'[l] = Head(roots[l]) /\ pc'[l] = "resolve" /\ roots'[l] = Tail(roots[l])
    BY <1>1, <1>5 DEF NextRoot, To
  <2>2. /\ Len(roots'[l]) = Len(roots[l]) - 1 /\ Head(roots[l]) \in Range(roots[l])
        /\ Range(roots'[l]) \subseteq Range(roots[l])
        /\ \A f \in Range(roots[l]) : f = file'[l] \/ f \in Range(roots'[l])
        /\ Head(roots[l]) \in Files
    BY <1>1, <1>5, <2>1, HeadAndTail
  <2>3. /\ Len(roots[l]) \in Nat /\ Len(Roots) \in Nat /\ Len(Tail(Roots)) = Len(Roots) - 1
    BY <1>1, HostListAssumption, HeadAndTail
  <2>4. Len(roots'[l]) < Len(Roots) /\ roots'[l] # Tail(Roots)
    BY <2>2, <2>3
  <2>5. Zone(l) \subseteq Zone(l)' /\ Zone(l)' = Reached
    BY <1>2, <2>4, Reaches DEF Zone
  <2>6. Inside(l)'
    <3>1. Exists(file'[l]) => file'[l] \in Reached
      BY <2>1, <2>2, Reaches DEF There
    <3> QED BY <1>1, <1>3, <1>4, <2>5, <3>1 DEF Inside
  <2>7. NoCycle(l)'
    BY <1>1, <1>4, <2>1 DEF NoCycle
  <2>8. NothingLeftOut(l)'
    <3>1. \A g : (Known(l, g)' <=> Known(l, g)) /\ ~Queued(l, g) /\ (Queued(l, g)' <=> g = file'[l])
      BY <1>1, <1>4, <2>1 DEF Known, Queued
    <3>2. \A f \in Range(roots[l]) : f \in Range(roots[l])' \/ Queued(l, f)'
      BY <2>2, <3>1
    <3> QED BY <1>1, <3>1, <3>2, StillNothingLeftOut DEF Named, Pending
  <2>9. UserFirst(l)'
    <3>1. CASE roots[l] = Tail(Roots)
      <4>1. \A f \in Early : \A a \in Names(f) : Named(l, a)
        BY <1>1, AllFound
      <4>2. \A i \in DOMAIN found[l] : found[l][i].source \in Early
        BY <3>1 DEF Inside, Zone
      <4> QED BY <1>1, <1>2, <1>3, <4>1, <4>2 DEF UserFirst, Named
    <3>2. CASE roots[l] # Tail(Roots)
      BY <1>1, <1>2, <1>3, <3>2 DEF UserFirst
    <3> QED BY <3>1, <3>2
  <2> QED BY <1>1, <2>1, <2>2, <2>4, <2>6, <2>7, <2>8, <2>9 DEF Once
<1>6. CASE roots[l] = <<>>
  <2>1. pc'[l] = "validate" /\ roots' = roots /\ file' = file
    BY <1>1, <1>6 DEF NextRoot, To
  <2>2. \A g : (Known(l, g)' <=> Known(l, g)) /\ ~Queued(l, g)
    BY <1>1, <1>4 DEF Known, Queued
  <2>3. NothingLeftOut(l)'
    BY <1>1, <2>1, <2>2, StillNothingLeftOut DEF Named, Pending
  <2>4. Zone(l)' = Zone(l)
    BY <1>2, <2>1 DEF Zone
  <2>5. Inside(l)' /\ NoCycle(l)'
    BY <1>1, <1>2, <1>3, <1>4, <2>1, <2>4 DEF Inside, NoCycle
  <2> QED BY <1>1, <1>2, <1>3, <1>6, <2>1, <2>3, <2>5 DEF Once, UserFirst
<1> QED BY <1>5, <1>6

\* A load that does not move, beside a step of another or of the tree itself, or that ends.
LEMMA Still ==
  ASSUME NEW l \in Loads, OfLoad(l), disk' = disk,
         \/ pc'[l] = pc[l]
         \/ pc[l] = "validate" /\ pc'[l] = "done"
         \/ pc[l] = "threw" /\ pc'[l] = "failed",
         roots'[l] = roots[l], stack'[l] = stack[l], file'[l] = file[l],
         visited'[l] = visited[l], found'[l] = found[l], steady'[l] = steady[l]
  PROVE  OfLoad(l)'
<1>1. There' = There /\ Early' = Early /\ Reached' = Reached /\ Zone(l)' = Zone(l)
  BY Unedited DEF Zone
<1>2. \A g : (Exists(g)' <=> Exists(g)) /\ Names(g)' = Names(g)
  BY Unedited
<1>3. \A g : /\ Known(l, g)' <=> Known(l, g)
             /\ Queued(l, g)' <=> Queued(l, g)
             /\ Named(l, g)' <=> Named(l, g)
  BY DEF Known, Queued, Named
<1>4. ASSUME Walked(l) PROVE Walked(l)'
  <2>1. Inside(l)'
    BY <1>1, <1>2, <1>4 DEF Walked, Inside
  <2>2. NoCycle(l)'
    BY <1>1, <1>3, <1>4 DEF Walked, NoCycle
  <2>3. NothingLeftOut(l)'
    <3>1. \A line : (Handled(l, line)' <=> Handled(l, line)) /\ (Pending(l, line)' <=> Pending(l, line))
      BY <1>2, <1>3 DEF Handled, Pending
    <3> QED BY <1>1, <1>2, <1>3, <1>4, <3>1 DEF Walked, NothingLeftOut
  <2> QED BY <1>1, <1>2, <1>4, <2>1, <2>2, <2>3 DEF Walked, Once, UserFirst
<1>5. TooDeep' <=> TooDeep
  BY <1>1 DEF TooDeep
<1> QED BY <1>4, <1>5 DEF OfLoad

\* A load begins.
LEMMA BeginStep ==
  ASSUME ListTypeOK, NEW l \in Loads, OfLoad(l), GetChildren(l)
  PROVE  OfLoad(l)'
<1>1. /\ disk' = disk /\ file' = file /\ stack' = stack /\ visited' = visited /\ found' = found
      /\ pc'[l] = "resolve" /\ roots'[l] = Tail(Roots)
      /\ stack[l] = <<>> /\ visited[l] = {} /\ found[l] = <<>>
  BY DEF GetChildren, ListTypeOK, To, OfLoad
<1>2. There' = There /\ Early' = Early /\ Zone(l)' = Early
  BY <1>1, Unedited DEF Zone
<1>3. /\ Roots \in Seq(Files) /\ Roots # <<>> /\ Len(roots'[l]) < Len(Roots)
      /\ Range(roots'[l]) \subseteq Range(Roots)
      /\ \A f \in Range(Roots) : f = Head(Roots) \/ f \in Range(roots'[l])
  BY <1>1, HostListAssumption, HeadAndTail
<1>4. file'[l] = Head(Roots) /\ Head(Roots) \in Files
  BY <1>1, RootTypes DEF OfLoad, GetChildren
<1>5. DOMAIN stack'[l] = {} /\ DOMAIN found'[l] = {}
  BY <1>1
<1>6. \A f : ~Known(l, f)' /\ (Queued(l, f)' <=> f = Head(Roots))
  BY <1>1, <1>4, <1>5 DEF Known, Queued
<1>7. Inside(l)'
  <2>1. Exists(Head(Roots))' => Head(Roots) \in Early
    BY <1>1, <1>4, Unedited, Reaches DEF There
  <2> QED BY <1>1, <1>2, <1>4, <1>5, <2>1 DEF Inside
<1>8. NoCycle(l)' /\ Once(l)' /\ UserFirst(l)'
  BY <1>1, <1>5 DEF NoCycle, Once, UserFirst
<1>9. NothingLeftOut(l)'
  BY <1>3, <1>6 DEF NothingLeftOut
<1> QED BY <1>1, <1>3, <1>7, <1>8, <1>9 DEF OfLoad, Walked

\* A step of a load that is going on.
LEMMA LoadStep ==
  ASSUME ListTypeOK, NEW l \in Loads, OfLoad(l), Resolve(l) \/ Read(l) \/ Parse(l)
  PROVE  OfLoad(l)'
<1>1. steady' = steady /\ pc[l] \in {"resolve", "read", "line"}
  BY DEF Resolve, Read, Parse
<1>2. pc'[l] \in {"threw", "resolve", "read", "line", "validate"}
  <2>1. l \in DOMAIN pc
    BY DEF ListTypeOK
  <2>2. CASE Resolve(l)
    BY <2>1, <2>2 DEF Resolve, To
  <2>3. CASE Read(l)
    BY <2>1, <2>3 DEF Read, To
  <2>4. CASE Parse(l)
    BY <2>1, <2>4, <1>1 DEF Parse, NextMatch, HostLine, IncludeLine, TakeLine, EndOfFile, NextRoot, To
  <2> QED BY <2>2, <2>3, <2>4
<1>3. CASE ~steady[l]
  BY <1>1, <1>2, <1>3 DEF OfLoad
<1>4. CASE steady[l]
  <2>1. Walked(l)
    BY <1>1, <1>4 DEF OfLoad
  <2>2. CASE Resolve(l)
    BY <1>2, <2>1, <2>2, ResolveStep DEF OfLoad
  <2>3. CASE Read(l)
    BY <2>1, <2>3, ReadStep DEF OfLoad
  <2>4. CASE Parse(l)
    <3>1. Walked(l)' /\ pc'[l] \in {"resolve", "line", "validate"}
      BY <2>1, <2>4, MatchStep, HostStep, IncludeStep, EndStep, RootStep DEF Parse
    <3> QED BY <3>1 DEF OfLoad
  <2> QED BY <2>2, <2>3, <2>4
<1> QED BY <1>3, <1>4

\* The invariant holds of the state the tree starts in, and every step keeps it.
LEMMA InitList == ListInit => ListInv
BY InitTypes DEF ListInit, ListInv, OfLoad

LEMMA NextList == ListInv /\ [ListNext]_listVars => ListInv'
<1> SUFFICES ASSUME ListInv, [ListNext]_listVars PROVE ListInv'
  OBVIOUS
<1>1. ListTypeOK /\ ListTypeOK'
  BY NextTypes DEF ListInv
<1> SUFFICES ASSUME NEW m \in Loads PROVE OfLoad(m)'
  BY <1>1 DEF ListInv
<1>2. OfLoad(m)
  BY DEF ListInv
<1>3. CASE Refresh \/ UNCHANGED listVars \/ (\E l \in Loads : \E a \in unchecked[l] : Checked(l, a))
  BY <1>2, <1>3, Still DEF Refresh, Checked, listVars, walk
<1>4. CASE Edit
  <2>1. /\ pc' = pc /\ file' = file /\ stack' = stack /\ visited' = visited /\ found' = found
        /\ ~steady'[m]
    BY <1>4 DEF Edit, walk
  <2> QED BY <1>2, <2>1 DEF OfLoad
<1>5. ASSUME NEW l \in Loads, GetChildren(l) PROVE OfLoad(m)'
  <2>1. CASE m = l
    BY <1>1, <1>2, <1>5, <2>1, BeginStep
  <2>2. CASE m # l
    BY <1>1, <1>2, <1>5, <2>2, Still DEF GetChildren, To, ListTypeOK
  <2> QED BY <2>1, <2>2
<1>6. ASSUME NEW l \in Loads, Resolve(l) \/ Read(l) \/ Parse(l) PROVE OfLoad(m)'
  <2>1. CASE m = l
    BY <1>1, <1>2, <1>6, <2>1, LoadStep
  <2>2. CASE m # l
    <3>1. disk' = disk /\ steady' = steady
      BY <1>6 DEF Resolve, Read, Parse
    <3>2. pc'[m] = pc[m] /\ file'[m] = file[m] /\ roots'[m] = roots[m]
      BY <1>1, <1>6, <2>2 DEF Resolve, Read, Parse, NextMatch, HostLine, IncludeLine, TakeLine, EndOfFile,
                              NextRoot, To, ListTypeOK
    <3>3. stack'[m] = stack[m]
      BY <1>1, <1>6, <2>2 DEF Resolve, Read, Parse, NextMatch, HostLine, IncludeLine, TakeLine, EndOfFile,
                              NextRoot, SetTop, ListTypeOK
    <3>4. visited'[m] = visited[m] /\ found'[m] = found[m]
      BY <1>1, <1>6, <2>2 DEF Resolve, Read, Parse, NextMatch, HostLine, IncludeLine, TakeLine, EndOfFile,
                              NextRoot, ListTypeOK
    <3> QED BY <1>2, <3>1, <3>2, <3>3, <3>4, Still
  <2> QED BY <2>1, <2>2
<1>7. ASSUME NEW l \in Loads, Settle(l) PROVE OfLoad(m)'
  BY <1>1, <1>2, <1>7, Still DEF Settle, To, ListTypeOK, walk
<1> QED BY <1>3, <1>4, <1>5, <1>6, <1>7 DEF ListNext, Load, CheckTimesOut, Overdue

\* What a load has found when it is over, from the invariant.
LEMMA ListedIsComplete == ListInv => ListIsComplete
<1> SUFFICES ASSUME ListInv, NEW l \in Loads, steady[l]
             PROVE  LET hosts == Range(found[l])
                        source(a) == Real[(CHOOSE h \in hosts : h.alias = a).source]
                    IN /\ pc[l] = "done" =>
                            /\ {h.alias : h \in hosts} = UNION {Names(f) : f \in Reached}
                            /\ Len(found[l]) = Cardinality({h.alias : h \in hosts})
                            /\ \A f \in Early : \A a \in Names(f) :
                                 source(a) \in {Real[g] : g \in Early}
                       /\ pc[l] \in {"threw", "failed"} => TooDeep
  BY DEF ListIsComplete, Reached, Early, TooDeep
<1> DEFINE hosts == Range(found[l])
           aliases == {h.alias : h \in hosts}
<1>1. ListTypeOK /\ OfLoad(l)
  BY DEF ListInv
<1>2. pc[l] \in {"threw", "failed"} => TooDeep
  BY <1>1 DEF OfLoad
<1>3. ASSUME pc[l] = "done"
      PROVE  /\ aliases = UNION {Names(f) : f \in Reached}
             /\ Len(found[l]) = Cardinality(aliases)
             /\ \A f \in Early : \A a \in Names(f) :
                  Real[(CHOOSE h \in hosts : h.alias = a).source] \in {Real[g] : g \in Early}
  <2>1. Walked(l) /\ roots[l] = <<>> /\ stack[l] = <<>> /\ found[l] \in Seq(Entries)
    BY <1>1, <1>3 DEF OfLoad, Walked, ListTypeOK
  <2>2. \A f \in Reached : \A a \in Names(f) : Named(l, a)
    BY <1>1, <1>3, <2>1, AllFound DEF Walked
  <2>3. \A i \in DOMAIN found[l] :
          /\ found[l][i].source \in Reached /\ found[l][i].alias \in Names(found[l][i].source)
          /\ roots[l] = Tail(Roots) => found[l][i].source \in Early
    BY <2>1, Reaches DEF Walked, Inside, Zone
  <2>4. aliases = UNION {Names(f) : f \in Reached}
    BY <2>2, <2>3 DEF Named, Range
  <2>5. \A i, j \in DOMAIN found[l] : found[l][i].alias = found[l][j].alias => i = j
    BY <2>1 DEF Walked, Once
  <2>6. Len(found[l]) = Cardinality(aliases)
    <3> DEFINE n == Len(found[l])
               at == [i \in 1..n |-> found[l][i].alias]
    <3>1. n \in Nat /\ DOMAIN found[l] = 1..n
      BY <2>1
    <3>2. at \in Bijection(1..n, aliases)
      <4>1. at \in [1..n -> aliases] /\ \A a \in aliases : \E i \in 1..n : at[i] = a
        BY <3>1 DEF Range
      <4>2. \A i, j \in 1..n : at[i] = at[j] => i = j
        BY <2>5, <3>1
      <4> QED BY <4>1, <4>2 DEF Bijection, Injection, IsInjective, Surjection
    <3> HIDE DEF n
    <3>3. IsFiniteSet(1..n) /\ Cardinality(1..n) = n
      BY <3>1, FS_Interval
    <3> USE DEF n
    <3> QED BY <3>2, <3>3, FS_Bijection DEF ExistsBijection
  <2>7. ASSUME NEW f \in Early, NEW a \in Names(f)
        PROVE  Real[(CHOOSE h \in hosts : h.alias = a).source] \in {Real[g] : g \in Early}
    <3>1. PICK i \in DOMAIN found[l] : found[l][i].alias = a /\ found[l][i].source \in Early
      <4>1. CASE roots[l] = Tail(Roots)
        BY <2>2, <2>3, <4>1, Reaches DEF Named
      <4>2. CASE roots[l] # Tail(Roots)
        BY <2>1, <4>2 DEF Walked, UserFirst
      <4> QED BY <4>1, <4>2
    <3>2. \A h \in hosts : h.alias = a => h = found[l][i]
      BY <2>5, <3>1 DEF Range
    <3>3. found[l][i] \in hosts
      BY <3>1 DEF Range
    <3>4. (CHOOSE h \in hosts : h.alias = a) = found[l][i]
      BY <3>1, <3>2, <3>3
    <3> QED BY <3>1, <3>4
  <2> QED BY <2>4, <2>6, <2>7
<1> QED BY <1>2, <1>3

\* The list has every host of every file in reach, once, and the user's configuration
\* first, for any files that include each other in any way.
THEOREM ListTypes == ListSpec => []ListTypeOK
BY InitTypes, NextTypes, PTL DEF ListSpec

THEOREM ListComplete == ListSpec => []ListIsComplete
BY InitList, NextList, ListedIsComplete, PTL DEF ListSpec
=============================================================================
