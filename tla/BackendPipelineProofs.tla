-------------------------- MODULE BackendPipelineProofs --------------------------
(***************************************************************************)
(* Proofs about BackendPipeline: for any capacities, delay, faults and     *)
(* bounds, frames keep their order, none is lost, a drain that ends has    *)
(* delivered them all, and only a fault outside the nodes brings the       *)
(* pipeline into error.                                                    *)
(*                                                                         *)
(* The flow is looked at as eleven stretches, from what is delivered back  *)
(* to the source's pending frame: a call of a node moves the first frame   *)
(* of one stretch to the end of the one before it.                         *)
(***************************************************************************)
EXTENDS BackendPipeline, Integers, SequenceTheorems, TLAPS

Older(f, g) == f.session < g.session \/ (f.session = g.session /\ f.pts < g.pts)

Stretches == [1..11 -> Seq(Frames)]

\* The frames, stretch by stretch, are in order
Ordered(P) ==
  \A k, l \in 1..11 : \A i \in 1..Len(P[k]), j \in 1..Len(P[l]) :
     k < l \/ (k = l /\ i < j) => Older(P[k][i], P[l][j])

Holds(P, f) == \E k \in 1..11 : \E i \in 1..Len(P[k]) : P[k][i] = f

\* The first frame of the stretch behind it is put at the end of the k-th
Moves(P, k) == [P EXCEPT ![k] = Append(P[k], Head(P[k + 1])), ![k + 1] = Tail(P[k + 1])]

------------------------------------------------------------------------------
(***************************************************************************)
(* Stretches.                                                              *)
(***************************************************************************)

\* What a move does to each stretch.
LEMMA MoveTells ==
  ASSUME NEW P \in Stretches, NEW k \in 1..10, P[k + 1] # <<>>
  PROVE  LET Q == Moves(P, k)
         IN  /\ Q \in Stretches
             /\ \A m \in 1..11 : m # k /\ m # k + 1 => Q[m] = P[m]
             /\ Len(Q[k]) = Len(P[k]) + 1 /\ Q[k][Len(P[k]) + 1] = P[k + 1][1]
             /\ \A i \in 1..Len(P[k]) : Q[k][i] = P[k][i]
             /\ Len(P[k + 1]) >= 1 /\ Len(Q[k + 1]) = Len(P[k + 1]) - 1
             /\ \A i \in 1..Len(Q[k + 1]) : Q[k + 1][i] = P[k + 1][i + 1]
<1> DEFINE s == P[k]
           t == P[k + 1]
           Q == Moves(P, k)
<1>1. k \in 1..11 /\ k + 1 \in 1..11 /\ k # k + 1
  OBVIOUS
<1>2. s \in Seq(Frames) /\ t \in Seq(Frames) /\ t # <<>>
  BY <1>1 DEF Stretches
<1>3. Q[k] = Append(s, Head(t)) /\ Q[k + 1] = Tail(t) /\ DOMAIN Q = 1..11
      /\ \A m \in 1..11 : m # k /\ m # k + 1 => Q[m] = P[m]
  BY <1>1 DEF Stretches, Moves
<1>Q. Q = [m \in 1..11 |-> Q[m]]
  BY <1>1 DEF Stretches, Moves
<1> HIDE DEF s, t, Q
<1>4. /\ Head(t) = t[1] /\ Head(t) \in Frames /\ Len(t) \in Nat /\ Len(t) >= 1
      /\ Tail(t) \in Seq(Frames) /\ Len(Tail(t)) = Len(t) - 1
      /\ \A i \in 1..Len(Tail(t)) : Tail(t)[i] = t[i + 1]
  BY <1>2
<1>5. /\ Append(s, Head(t)) \in Seq(Frames) /\ Len(Append(s, Head(t))) = Len(s) + 1
      /\ Append(s, Head(t))[Len(s) + 1] = Head(t)
      /\ \A i \in 1..Len(s) : Append(s, Head(t))[i] = s[i]
  BY <1>2, <1>4
<1>6. \A m \in 1..11 : Q[m] \in Seq(Frames)
  BY <1>3, <1>4, <1>5 DEF Stretches
<1>7. Q \in Stretches
  BY <1>6, <1>Q, Zenon DEF Stretches
<1> QED
  BY <1>3, <1>4, <1>5, <1>7 DEF s, t, Q

\* A move keeps the order: each frame comes from where it was, or moved on past
\* nothing.
LEMMA MoveOrdered ==
  ASSUME NEW P \in Stretches, NEW k \in 1..10, P[k + 1] # <<>>, Ordered(P)
  PROVE  Ordered(Moves(P, k))
<1> DEFINE Q == Moves(P, k)
<1>1. /\ \A m \in 1..11 : m # k /\ m # k + 1 => Q[m] = P[m]
      /\ Len(Q[k]) = Len(P[k]) + 1 /\ Q[k][Len(P[k]) + 1] = P[k + 1][1]
      /\ \A i \in 1..Len(P[k]) : Q[k][i] = P[k][i]
      /\ Len(P[k + 1]) >= 1 /\ Len(Q[k + 1]) = Len(P[k + 1]) - 1
      /\ \A i \in 1..Len(Q[k + 1]) : Q[k + 1][i] = P[k + 1][i + 1]
  BY MoveTells
<1>2. \A m \in 1..11 : Len(P[m]) \in Nat
  BY DEF Stretches
<1> HIDE DEF Q
<1>3. k \in Int /\ k \in 1..11 /\ k + 1 \in 1..11
  OBVIOUS
\* where the i-th frame of stretch m was before
<1> DEFINE Was(m, i, a, b) == /\ a \in 1..11 /\ b \in 1..Len(P[a]) /\ Q[m][i] = P[a][b]
                              /\ \/ m # k /\ m # k + 1 /\ a = m /\ b = i
                                 \/ m = k /\ i <= Len(P[k]) /\ a = k /\ b = i
                                 \/ m = k /\ i = Len(P[k]) + 1 /\ a = k + 1 /\ b = 1
                                 \/ m = k + 1 /\ a = k + 1 /\ b = i + 1
<1>4. ASSUME NEW m \in 1..11, NEW i \in 1..Len(Q[m])
      PROVE  \E a \in Int, b \in Int : Was(m, i, a, b)
  <2>1. CASE m # k /\ m # k + 1
    <3>1. Q[m] = P[m]
      BY <1>1, <2>1
    <3>2. i \in 1..Len(P[m]) /\ i \in Int /\ m \in Int
      BY <1>2, <3>1
    <3>3. Was(m, i, m, i)
      BY <2>1, <3>1, <3>2
    <3> QED
      BY <3>2, <3>3
  <2>2. CASE m = k /\ i <= Len(P[k])
    <3>1. i \in 1..Len(P[k])
      BY <1>1, <1>2, <1>3, <2>2
    <3>2. Was(m, i, k, i)
      BY <1>1, <1>3, <2>2, <3>1
    <3> QED
      BY <1>2, <1>3, <3>1, <3>2
  <2>3. CASE m = k /\ ~(i <= Len(P[k]))
    <3>0. \A x \in Nat : \A y \in 1..(x + 1) : ~(y <= x) => y = x + 1
      OBVIOUS
    <3>1. i = Len(P[k]) + 1
      <4>1. i \in 1..(Len(P[k]) + 1) /\ Len(P[k]) \in Nat
        BY <1>1, <1>2, <1>3, <2>3
      <4> QED
        BY <2>3, <3>0, <4>1, Zenon
    <3>2. 1 \in 1..Len(P[k + 1])
      BY <1>1, <1>2, <1>3
    <3>3. Was(m, i, k + 1, 1)
      BY <1>1, <1>3, <2>3, <3>1, <3>2
    <3> QED
      BY <3>3, <1>3
  <2>4. CASE m = k + 1
    <3>0. \A x \in Nat : \A y \in 1..(x - 1) : y + 1 \in 1..x
      OBVIOUS
    <3>1. i \in 1..Len(Q[k + 1]) /\ i + 1 \in 1..Len(P[k + 1])
      <4>1. i \in 1..(Len(P[k + 1]) - 1) /\ Len(P[k + 1]) \in Nat /\ i \in 1..Len(Q[k + 1])
        BY <1>1, <1>2, <1>3, <2>4, Zenon
      <4> QED
        BY <3>0, <4>1, Zenon
    <3>2. Q[m][i] = P[k + 1][i + 1]
      BY <1>1, <2>4, <3>1
    <3>3. Was(m, i, k + 1, i + 1)
      BY <1>3, <2>4, <3>1, <3>2
    <3> QED
      BY <3>1, <3>3, <1>3
  <2> QED
    BY <2>1, <2>2, <2>3, <2>4
<1>5. SUFFICES ASSUME NEW m \in 1..11, NEW l \in 1..11,
                      NEW i \in 1..Len(Q[m]), NEW j \in 1..Len(Q[l]), m < l \/ (m = l /\ i < j)
               PROVE  Older(Q[m][i], Q[l][j])
  BY DEF Ordered, Q
<1>6. PICK a \in Int, b \in Int : Was(m, i, a, b)
  BY <1>4
<1>7. PICK c \in Int, d \in Int : Was(l, j, c, d)
  BY <1>4
<1>8. Len(P[k]) \in Nat
  BY <1>2, <1>3
<1>9. a < c \/ (a = c /\ b < d)
  BY <1>3, <1>5, <1>6, <1>7, <1>8
<1> QED
  BY <1>6, <1>7, <1>9 DEF Ordered

\* A move keeps every frame and brings none.
LEMMA MoveHolds ==
  ASSUME NEW P \in Stretches, NEW k \in 1..10, P[k + 1] # <<>>
  PROVE  \A f : Holds(Moves(P, k), f) <=> Holds(P, f)
<1> DEFINE Q == Moves(P, k)
<1>1. /\ \A m \in 1..11 : m # k /\ m # k + 1 => Q[m] = P[m]
      /\ Len(Q[k]) = Len(P[k]) + 1 /\ Q[k][Len(P[k]) + 1] = P[k + 1][1]
      /\ \A i \in 1..Len(P[k]) : Q[k][i] = P[k][i]
      /\ Len(P[k + 1]) >= 1 /\ Len(Q[k + 1]) = Len(P[k + 1]) - 1
      /\ \A i \in 1..Len(Q[k + 1]) : Q[k + 1][i] = P[k + 1][i + 1]
  BY MoveTells
<1>2. k \in 1..11 /\ k + 1 \in 1..11 /\ Len(P[k]) \in Nat /\ Len(P[k + 1]) \in Nat
  <2>1. \A m \in 1..11 : P[m] \in Seq(Frames)
    BY DEF Stretches
  <2>2. k \in 1..11 /\ k + 1 \in 1..11
    OBVIOUS
  <2>3. P[k] \in Seq(Frames) /\ P[k + 1] \in Seq(Frames)
    BY <2>1, <2>2
  <2> QED
    BY <2>2, <2>3
<1> HIDE DEF Q
<1> DEFINE n == Len(P[k])
           o == Len(P[k + 1])
<1>3. n \in Nat /\ o \in Nat /\ o >= 1 /\ Len(Q[k]) = n + 1 /\ Len(Q[k + 1]) = o - 1
  BY <1>1, <1>2
<1>4. ASSUME NEW f, Holds(P, f) PROVE Holds(Q, f)
  <2>1. PICK m \in 1..11, i \in Nat : i \in 1..Len(P[m]) /\ P[m][i] = f
    <3>1. PICK m \in 1..11 : \E i \in 1..Len(P[m]) : P[m][i] = f
      BY <1>4 DEF Holds
    <3>2. Len(P[m]) \in Nat
      BY DEF Stretches
    <3> QED
      BY <3>1, <3>2
  <2>2. CASE m # k /\ m # k + 1
    BY <1>1, <2>1, <2>2, Zenon DEF Holds
  <2>3. CASE m = k
    <3>1. i \in 1..n /\ i \in 1..(n + 1)
      BY <1>3, <2>1, <2>3
    <3> QED
      BY <1>1, <1>2, <1>3, <2>1, <2>3, <3>1, Zenon DEF Holds
  <2>4. CASE m = k + 1 /\ i = 1
    <3>1. n + 1 \in 1..(n + 1)
      BY <1>3
    <3> QED
      BY <1>1, <1>2, <1>3, <2>1, <2>4, <3>1, ZenonT(60) DEF Holds
  <2>5. CASE m = k + 1 /\ i # 1
    <3>1. i \in 1..o
      BY <2>1, <2>5
    <3>2. i - 1 \in 1..(o - 1) /\ (i - 1) + 1 = i
      BY <1>3, <2>1, <2>5, <3>1
    <3>3. i - 1 \in 1..Len(Q[k + 1])
      BY <1>3, <3>2
    <3>4. Q[k + 1][i - 1] = P[k + 1][i]
      BY <1>1, <3>2, <3>3
    <3> QED
      BY <1>2, <2>1, <2>5, <3>3, <3>4, Zenon DEF Holds
  <2> QED
    BY <2>2, <2>3, <2>4, <2>5
<1>5. ASSUME NEW f, Holds(Q, f) PROVE Holds(P, f)
  <2>1. PICK m \in 1..11 : \E i \in 1..Len(Q[m]) : Q[m][i] = f
    BY <1>5 DEF Holds
  <2>2. PICK i \in 1..Len(Q[m]) : Q[m][i] = f
    BY <2>1
  <2>3. CASE m # k /\ m # k + 1
    BY <1>1, <2>2, <2>3, Zenon DEF Holds
  <2>4. CASE m = k
    <3>1. i \in 1..(n + 1)
      BY <1>3, <2>4
    <3>2. CASE i \in 1..n
      BY <1>1, <1>2, <2>2, <2>4, <3>2, Zenon DEF Holds
    <3>3. CASE i = n + 1
      <4>1. 1 \in 1..Len(P[k + 1])
        BY <1>3
      <4> QED
        BY <1>1, <1>2, <2>2, <2>4, <3>3, <4>1, Zenon DEF Holds
    <3> QED
      BY <1>3, <3>1, <3>2, <3>3
  <2>5. CASE m = k + 1
    <3>1. i \in 1..(o - 1)
      BY <1>3, <2>5
    <3>2. i + 1 \in 1..o
      BY <1>3, <3>1
    <3>3. i \in 1..Len(Q[k + 1]) /\ Q[k + 1][i] = f
      BY <2>2, <2>5
    <3> QED
      BY <1>1, <1>2, <3>2, <3>3, Zenon DEF Holds
  <2> QED
    BY <2>3, <2>4, <2>5
<1> QED
  BY <1>4, <1>5 DEF Q

\* Stretches that are emptied leave the others in order.
LEMMA DropOrdered ==
  ASSUME NEW P \in Stretches, NEW Q \in Stretches, Ordered(P),
         \A m \in 1..11 : Q[m] = P[m] \/ Q[m] = <<>>
  PROVE  Ordered(Q) /\ \A f : Holds(Q, f) => Holds(P, f)
<1>1. Len(<<>>) = 0 /\ 1..0 = {}
  OBVIOUS
<1>2. \A m \in 1..11 : \A i \in 1..Len(Q[m]) : Q[m] = P[m]
  BY <1>1
<1> QED
  BY <1>2, Zenon DEF Ordered, Holds

\* The source's new frame, younger than all others, goes to the end.
LEMMA AddOrdered ==
  ASSUME NEW P \in Stretches, Ordered(P), P[11] = <<>>, NEW g \in Frames,
         \A f : Holds(P, f) => Older(f, g)
  PROVE  LET Q == [P EXCEPT ![11] = <<g>>]
         IN  Q \in Stretches /\ Ordered(Q) /\ \A f : Holds(Q, f) <=> Holds(P, f) \/ f = g
<1> DEFINE Q == [P EXCEPT ![11] = <<g>>]
<1>1. <<g>> \in Seq(Frames) /\ Len(<<g>>) = 1 /\ <<g>>[1] = g /\ Len(<<>>) = 0
  OBVIOUS
<1>2. 11 \in 1..11 /\ \A m \in 1..11 : m # 11 => m < 11
  OBVIOUS
<1>3. Q \in Stretches /\ Q[11] = <<g>> /\ \A m \in 1..11 : m # 11 => Q[m] = P[m]
  BY <1>1, <1>2 DEF Stretches
<1> HIDE DEF Q
<1>4. \A m \in 1..11 : \A i \in 1..Len(Q[m]) : m # 11 \/ (i = 1 /\ Q[m][i] = g)
  <2>1. \A i \in 1..Len(<<g>>) : i = 1 /\ <<g>>[i] = g
    BY <1>1
  <2> QED
    BY <1>3, <2>1, Zenon
<1>5. \A m \in 1..11 : \A i \in 1..Len(Q[m]) :
        m # 11 => Holds(P, Q[m][i]) /\ i \in 1..Len(P[m]) /\ Q[m][i] = P[m][i]
  BY <1>3, Zenon DEF Holds
<1>6. Ordered(Q)
  <2> SUFFICES ASSUME NEW k \in 1..11, NEW l \in 1..11,
                      NEW i \in 1..Len(Q[k]), NEW j \in 1..Len(Q[l]), k < l \/ (k = l /\ i < j)
               PROVE  Older(Q[k][i], Q[l][j])
    BY Zenon DEF Ordered
  <2>1. CASE l # 11
    <3>1. k # 11
      BY <2>1
    <3> QED
      BY <1>5, <2>1, <3>1, Zenon DEF Ordered
  <2>2. CASE l = 11
    <3>1. j = 1 /\ Q[l][j] = g
      BY <1>4, <2>2
    <3>2. k # 11
      <4>1. \A n \in 1..Len(Q[k]) : ~(n < 1)
        OBVIOUS
      <4> QED
        BY <2>2, <3>1, <4>1
    <3> QED
      BY <1>5, <3>1, <3>2, Zenon
  <2> QED
    BY <2>1, <2>2
<1>7. \A f : Holds(Q, f) <=> Holds(P, f) \/ f = g
  <2>1. ASSUME NEW f, Holds(Q, f) PROVE Holds(P, f) \/ f = g
    <3>1. PICK m \in 1..11 : \E i \in 1..Len(Q[m]) : Q[m][i] = f
      BY <2>1 DEF Holds
    <3>2. PICK i \in 1..Len(Q[m]) : Q[m][i] = f
      BY <3>1
    <3> QED
      BY <1>4, <1>5, <3>2, Zenon
  <2>2. ASSUME NEW f, Holds(P, f) PROVE Holds(Q, f)
    <3>1. PICK m \in 1..11 : \E i \in 1..Len(P[m]) : P[m][i] = f
      BY <2>2 DEF Holds
    <3>2. m # 11
      BY <1>1, <3>1
    <3> QED
      BY <1>3, <3>1, <3>2, Zenon DEF Holds
  <2>3. Holds(Q, g)
    <3>1. 1 \in 1..Len(Q[11])
      BY <1>1, <1>3
    <3> QED
      BY <1>1, <1>2, <1>3, <3>1, ZenonT(60) DEF Holds
  <2> QED
    BY <2>1, <2>2, <2>3
<1> QED
  BY <1>3, <1>6, <1>7 DEF Q

------------------------------------------------------------------------------
(***************************************************************************)
(* The flow as one sequence.                                               *)
(***************************************************************************)
InOrder(s) == \A i, j \in 1..Len(s) : i < j => Older(s[i], s[j])
Occurs(s, f) == \E i \in 1..Len(s) : s[i] = f

\* s is the stretches from the lo-th to the hi-th, end to end
Spans(P, s, lo, hi) ==
  /\ s \in Seq(Frames) /\ InOrder(s)
  /\ \A f : Occurs(s, f) <=> \E m \in lo..hi : \E i \in 1..Len(P[m]) : P[m][i] = f

\* One stretch is a span.
LEMMA SpanOne ==
  ASSUME NEW P \in Stretches, Ordered(P), NEW k \in 1..11
  PROVE  Spans(P, P[k], k, k)
<1>1. P[k] \in Seq(Frames) /\ k..k = {k}
  <2>1. P[k] \in Seq(Frames)
    BY DEF Stretches
  <2>2. \A m \in Int : m..m = {m}
    OBVIOUS
  <2> QED
    BY <2>1, <2>2
<1>2. InOrder(P[k])
  BY DEF InOrder, Ordered
<1> QED
  BY <1>1, <1>2, Zenon DEF Spans, Occurs

\* The elements of two sequences, end to end.
LEMMA JoinTells ==
  ASSUME NEW s \in Seq(Frames), NEW t \in Seq(Frames)
  PROVE  /\ s \o t \in Seq(Frames) /\ Len(s \o t) = Len(s) + Len(t)
         /\ Len(s) \in Nat /\ Len(t) \in Nat
         /\ \A i \in 1..(Len(s) + Len(t)) :
              \/ i \in 1..Len(s) /\ (s \o t)[i] = s[i]
              \/ i - Len(s) \in 1..Len(t) /\ i > Len(s) /\ (s \o t)[i] = t[i - Len(s)]
OBVIOUS

\* Two spans, one behind the other, make one.
LEMMA SpanJoin ==
  ASSUME NEW P \in Stretches, Ordered(P), NEW a \in 1..11, NEW b \in a..11, NEW c \in b..11,
         NEW s, NEW t, Spans(P, s, a, b), Spans(P, t, b + 1, c)
  PROVE  Spans(P, s \o t, a, c)
<1>1. s \in Seq(Frames) /\ t \in Seq(Frames) /\ InOrder(s) /\ InOrder(t)
  BY DEF Spans
<1>2. /\ s \o t \in Seq(Frames) /\ Len(s \o t) = Len(s) + Len(t)
      /\ Len(s) \in Nat /\ Len(t) \in Nat
      /\ \A i \in 1..(Len(s) + Len(t)) :
           \/ i \in 1..Len(s) /\ (s \o t)[i] = s[i]
           \/ i - Len(s) \in 1..Len(t) /\ i > Len(s) /\ (s \o t)[i] = t[i - Len(s)]
  BY <1>1, JoinTells
<1>3. \A f, g : Occurs(s, f) /\ Occurs(t, g) => Older(f, g)
  <2> SUFFICES ASSUME NEW f, NEW g, Occurs(s, f), Occurs(t, g) PROVE Older(f, g)
    OBVIOUS
  <2>1. PICK m \in a..b : \E i \in 1..Len(P[m]) : P[m][i] = f
    BY Zenon DEF Spans
  <2>2. PICK l \in (b + 1)..c : \E j \in 1..Len(P[l]) : P[l][j] = g
    BY Zenon DEF Spans
  <2>3. m \in 1..11 /\ l \in 1..11 /\ m < l
    OBVIOUS
  <2> QED
    BY <2>1, <2>2, <2>3, Zenon DEF Ordered
<1>4. InOrder(s \o t)
  <2> SUFFICES ASSUME NEW i \in 1..(Len(s) + Len(t)), NEW j \in 1..(Len(s) + Len(t)), i < j
               PROVE  Older((s \o t)[i], (s \o t)[j])
    BY <1>2 DEF InOrder
  <2>1. CASE i \in 1..Len(s) /\ (s \o t)[i] = s[i] /\ j \in 1..Len(s) /\ (s \o t)[j] = s[j]
    BY <1>1, <2>1, Zenon DEF InOrder
  <2>2. CASE /\ i \in 1..Len(s) /\ (s \o t)[i] = s[i]
             /\ j - Len(s) \in 1..Len(t) /\ (s \o t)[j] = t[j - Len(s)]
    BY <1>3, <2>2, Zenon DEF Occurs
  <2>3. CASE /\ i - Len(s) \in 1..Len(t) /\ (s \o t)[i] = t[i - Len(s)]
             /\ j - Len(s) \in 1..Len(t) /\ (s \o t)[j] = t[j - Len(s)]
    <3>1. i - Len(s) < j - Len(s)
      BY <1>2
    <3> QED
      BY <1>1, <2>3, <3>1, Zenon DEF InOrder
  <2>4. ~(i > Len(s) /\ j \in 1..Len(s))
    BY <1>2
  <2> QED
    BY <1>2, <2>1, <2>2, <2>3, <2>4
<1>5. ASSUME NEW f
      PROVE  Occurs(s \o t, f) <=> Occurs(s, f) \/ Occurs(t, f)
  <2>1. Occurs(s \o t, f) => Occurs(s, f) \/ Occurs(t, f)
    BY <1>2, Zenon DEF Occurs
  <2>2. ASSUME Occurs(s, f) PROVE Occurs(s \o t, f)
    <3>1. PICK i \in 1..Len(s) : s[i] = f
      BY <2>2 DEF Occurs
    <3>2. i \in 1..(Len(s) + Len(t)) /\ ~(i > Len(s))
      BY <1>2
    <3>3. (s \o t)[i] = s[i]
      BY <1>2, <3>2
    <3> QED
      BY <1>2, <3>1, <3>2, <3>3, Zenon DEF Occurs
  <2>3. ASSUME Occurs(t, f) PROVE Occurs(s \o t, f)
    <3>1. PICK i \in 1..Len(t) : t[i] = f
      BY <2>3 DEF Occurs
    <3>2. /\ i + Len(s) \in 1..(Len(s) + Len(t)) /\ ~(i + Len(s) \in 1..Len(s))
          /\ (i + Len(s)) - Len(s) = i
      BY <1>2
    <3>3. (s \o t)[i + Len(s)] = t[i]
      BY <1>2, <3>2
    <3> QED
      BY <1>2, <3>1, <3>2, <3>3, Zenon DEF Occurs
  <2> QED
    BY <2>1, <2>2, <2>3
<1>6. \A m : m \in a..c <=> m \in a..b \/ m \in (b + 1)..c
  OBVIOUS
<1>7. \A f : Occurs(s \o t, f) <=> \E m \in a..c : \E i \in 1..Len(P[m]) : P[m][i] = f
  BY <1>5, <1>6, Zenon DEF Spans
<1> QED
  BY <1>2, <1>4, <1>7 DEF Spans

------------------------------------------------------------------------------
(***************************************************************************)
(* The results of calls.                                                   *)
(***************************************************************************)
Results == [nodes : [Node -> NodeType], pts : 1..(MaxFrames + 1), out : Seq(Frames),
            status : {"ok", "blocked", "eos", "failed"}, create : BOOLEAN, fault : Upsets]

\* The nodes, their order and their sinks.
LEMMA NodesTold ==
  /\ Node = {"source", "processor", "encoder", "sink"} /\ Backends \subseteq Node
  /\ Order[1] = "source" /\ Order[2] = "processor" /\ Order[3] = "encoder" /\ Order[4] = "sink"
  /\ Sink("source") = "processor" /\ Sink("processor") = "encoder" /\ Sink("encoder") = "sink"
<1>1. /\ Order[1] = "source" /\ Order[2] = "processor" /\ Order[3] = "encoder" /\ Order[4] = "sink"
  BY DEF Order
<1>2. \A k : k \in 1..4 <=> k = 1 \/ k = 2 \/ k = 3 \/ k = 4
  OBVIOUS
<1>3. Node = {"source", "processor", "encoder", "sink"}
  BY <1>1, <1>2 DEF Node
<1> QED
  BY <1>1, <1>3 DEF Backends, Sink

\* What a result is made of.
LEMMA ResultsTold ==
  ASSUME NEW x \in Results
  PROVE  /\ x.nodes \in [Node -> NodeType] /\ x.pts \in 1..(MaxFrames + 1) /\ x.pts \in Nat
         /\ x.out \in Seq(Frames) /\ x.create \in BOOLEAN /\ x.fault \in Upsets
         /\ x.status \in {"ok", "blocked", "eos", "failed"}
         /\ \A n \in Node :
              /\ x.nodes[n] \in NodeType
              /\ x.nodes[n].in \in Seq(Frames) /\ x.nodes[n].queue \in Seq(Frames)
              /\ x.nodes[n].pending_input \in Seq(Frames)
              /\ x.nodes[n].pending_output \in Seq(Frames)
              /\ x.nodes[n].accepted \in Nat /\ x.nodes[n].drain_started \in BOOLEAN
BY OptionAssumption DEF Results, NodeType

\* What a node is apart from its frames, and its frames but for the input queue
Kin(b, c) == c.backend = b.backend /\ c.drain_started = b.drain_started /\ c.accepted = b.accepted
Unmoved(b, c) == /\ Kin(b, c) /\ c.queue = b.queue
                 /\ c.pending_input = b.pending_input /\ c.pending_output = b.pending_output

\* A call of n touches n, and the input queue downstream
Others(x, y, n) ==
  /\ \A m \in Node : m # n => /\ Unmoved(x.nodes[m], y.nodes[m])
                              /\ m # Sink(n) => y.nodes[m].in = x.nodes[m].in
  /\ y.out = x.out /\ y.pts = x.pts /\ y.create = x.create /\ y.fault = x.fault

\* A step outside the nodes fails in the call.
Denied(x) == x.fault \in Failures

\* Two calls of a node leave the others alone if each does.
LEMMA OthersTwice ==
  ASSUME NEW x, NEW y, NEW z, NEW n, Others(x, y, n), Others(y, z, n)
  PROVE  Others(x, z, n)
BY DEF Others, Unmoved, Kin

\* Only the status is given.
LEMMA GiveTells ==
  ASSUME NEW x \in Results, NEW s \in {"ok", "blocked", "eos", "failed"}
  PROVE  /\ Give(x, s) \in Results /\ Give(x, s).status = s
         /\ Give(x, s).nodes = x.nodes /\ Give(x, s).out = x.out /\ Give(x, s).pts = x.pts
         /\ Give(x, s).create = x.create /\ Give(x, s).fault = x.fault
BY DEF Give, Results


\* A node is replaced.
LEMMA ReplaceTells ==
  ASSUME NEW x \in Results, NEW n \in Node, NEW c \in NodeType
  PROVE  LET y == [x EXCEPT !.nodes = [x.nodes EXCEPT ![n] = c]]
         IN  /\ y \in Results /\ y.out = x.out /\ y.pts = x.pts /\ y.status = x.status
             /\ y.create = x.create /\ y.fault = x.fault
             /\ y.nodes[n] = c /\ \A m \in Node : m # n => y.nodes[m] = x.nodes[m]
<1> DEFINE y == [x EXCEPT !.nodes = [x.nodes EXCEPT ![n] = c]]
<1>1. x.nodes \in [Node -> NodeType]
  BY ResultsTold
<1>2. [x.nodes EXCEPT ![n] = c] \in [Node -> NodeType]
      /\ [x.nodes EXCEPT ![n] = c][n] = c
      /\ \A m \in Node : m # n => [x.nodes EXCEPT ![n] = c][m] = x.nodes[m]
  BY <1>1
<1>3. /\ y \in Results /\ y.out = x.out /\ y.pts = x.pts /\ y.status = x.status
      /\ y.create = x.create /\ y.fault = x.fault /\ y.nodes = [x.nodes EXCEPT ![n] = c]
  BY <1>2 DEF Results
<1> QED
  BY <1>2, <1>3

\* y is x but for the frames of n, which are now these.
Sets(x, y, n, in, queue, pending_input, pending_output) ==
  /\ y \in Results /\ y.out = x.out /\ y.pts = x.pts /\ y.status = x.status
  /\ y.create = x.create /\ y.fault = x.fault
  /\ \A m \in Node : m # n => y.nodes[m] = x.nodes[m]
  /\ Kin(x.nodes[n], y.nodes[n])
  /\ y.nodes[n].in = in /\ y.nodes[n].queue = queue
  /\ y.nodes[n].pending_input = pending_input /\ y.nodes[n].pending_output = pending_output

\* What replacing the queues of a node tells.
LEMMA SetsTells ==
  ASSUME NEW x \in Results, NEW y, NEW n \in Node, NEW c \in NodeType, Kin(x.nodes[n], c),
         y = [x EXCEPT !.nodes = [x.nodes EXCEPT ![n] = c]]
  PROVE  Sets(x, y, n, c.in, c.queue, c.pending_input, c.pending_output)
BY ReplaceTells DEF Sets

\* One queue of a node is set.
LEMMA SetTells ==
  ASSUME NEW x \in Results, NEW n \in Node, NEW v \in Seq(Frames)
  PROVE  LET b == x.nodes[n]
         IN  /\ Sets(x, Set(x, n, "in", v), n, v, b.queue, b.pending_input, b.pending_output)
             /\ Sets(x, Set(x, n, "queue", v), n, b.in, v, b.pending_input, b.pending_output)
             /\ Sets(x, Set(x, n, "pending_input", v), n, b.in, b.queue, v, b.pending_output)
             /\ Sets(x, Set(x, n, "pending_output", v), n, b.in, b.queue, b.pending_input, v)
<1> DEFINE b == x.nodes[n]
           c(field) == [b EXCEPT ![field] = v]
<1>1. b \in NodeType
  BY ResultsTold
<1>2. \A field : Set(x, n, field, v) = [x EXCEPT !.nodes = [x.nodes EXCEPT ![n] = c(field)]]
  BY DEF Set
<1>3. /\ c("in") \in NodeType /\ Kin(b, c("in")) /\ c("in").in = v /\ c("in").queue = b.queue
      /\ c("in").pending_input = b.pending_input /\ c("in").pending_output = b.pending_output
  BY <1>1 DEF NodeType, Kin
<1>4. /\ c("queue") \in NodeType /\ Kin(b, c("queue")) /\ c("queue").in = b.in
      /\ c("queue").queue = v /\ c("queue").pending_input = b.pending_input
      /\ c("queue").pending_output = b.pending_output
  BY <1>1 DEF NodeType, Kin
<1>5. /\ c("pending_input") \in NodeType /\ Kin(b, c("pending_input"))
      /\ c("pending_input").in = b.in /\ c("pending_input").queue = b.queue
      /\ c("pending_input").pending_input = v
      /\ c("pending_input").pending_output = b.pending_output
  BY <1>1 DEF NodeType, Kin
<1>6. /\ c("pending_output") \in NodeType /\ Kin(b, c("pending_output"))
      /\ c("pending_output").in = b.in /\ c("pending_output").queue = b.queue
      /\ c("pending_output").pending_input = b.pending_input
      /\ c("pending_output").pending_output = v
  BY <1>1 DEF NodeType, Kin
<1> HIDE DEF c
<1>7. /\ Sets(x, Set(x, n, "in", v), n, c("in").in, c("in").queue, c("in").pending_input,
              c("in").pending_output)
      /\ Sets(x, Set(x, n, "queue", v), n, c("queue").in, c("queue").queue,
              c("queue").pending_input, c("queue").pending_output)
  BY <1>2, <1>3, <1>4, SetsTells
<1>8. /\ Sets(x, Set(x, n, "pending_input", v), n, c("pending_input").in, c("pending_input").queue,
              c("pending_input").pending_input, c("pending_input").pending_output)
      /\ Sets(x, Set(x, n, "pending_output", v), n, c("pending_output").in,
              c("pending_output").queue, c("pending_output").pending_input,
              c("pending_output").pending_output)
  BY <1>2, <1>5, <1>6, SetsTells
<1> QED
  BY <1>3, <1>4, <1>5, <1>6, <1>7, <1>8

\* The state of a node's backend is set.
LEMMA SetBackendTells ==
  ASSUME NEW x \in Results, NEW n \in Node, NEW v \in {"Draining", "Stopped", "Error"}
  PROVE  LET y == Set(x, n, "backend", v)
             b == x.nodes[n]
             c == y.nodes[n]
         IN  /\ y \in Results /\ y.out = x.out /\ y.pts = x.pts /\ y.status = x.status
             /\ y.create = x.create /\ y.fault = x.fault
             /\ \A m \in Node : m # n => y.nodes[m] = x.nodes[m]
             /\ c.in = b.in /\ c.queue = b.queue /\ c.pending_input = b.pending_input
             /\ c.pending_output = b.pending_output
             /\ c.backend = v /\ c.drain_started = b.drain_started /\ c.accepted = b.accepted
<1> DEFINE b == x.nodes[n]
           c == [b EXCEPT !["backend"] = v]
<1>1. b \in NodeType
  BY ResultsTold
<1>2. /\ c \in NodeType
      /\ c.in = b.in /\ c.queue = b.queue /\ c.pending_input = b.pending_input
      /\ c.pending_output = b.pending_output
      /\ c.backend = v /\ c.drain_started = b.drain_started /\ c.accepted = b.accepted
  BY <1>1 DEF NodeType
<1> DEFINE y == Set(x, n, "backend", v)
<1>3. y = [x EXCEPT !.nodes = [x.nodes EXCEPT ![n] = c]]
  BY DEF Set
<1> HIDE DEF c, y
<1>4. /\ y \in Results /\ y.out = x.out /\ y.pts = x.pts /\ y.status = x.status
      /\ y.create = x.create /\ y.fault = x.fault
      /\ y.nodes[n] = c /\ \A m \in Node : m # n => y.nodes[m] = x.nodes[m]
  BY <1>2, <1>3, ReplaceTells
<1> QED
  BY <1>2, <1>4, Zenon DEF y

\* A node's drain begins.
LEMMA BeginTells ==
  ASSUME NEW x \in Results, NEW n \in Node
  PROVE  LET y == BeginDrain(x, n)
             b == x.nodes[n]
             c == y.nodes[n]
         IN  /\ y \in Results /\ y.out = x.out /\ y.pts = x.pts /\ y.status = "ok"
             /\ y.create = x.create /\ y.fault = x.fault
             /\ \A m \in Node : m # n => y.nodes[m] = x.nodes[m]
             /\ c.in = b.in /\ c.queue = b.queue /\ c.pending_input = b.pending_input
             /\ c.pending_output = b.pending_output
             /\ c.backend = "Draining" /\ c.drain_started = TRUE /\ c.accepted = b.accepted
<1> DEFINE z == Set(x, n, "backend", "Draining")
           b == z.nodes[n]
           c == [b EXCEPT !["drain_started"] = TRUE]
           w == Set(z, n, "drain_started", TRUE)
<1>1. /\ z \in Results /\ z.out = x.out /\ z.pts = x.pts /\ z.status = x.status
      /\ z.create = x.create /\ z.fault = x.fault
      /\ \A m \in Node : m # n => z.nodes[m] = x.nodes[m]
      /\ b.in = x.nodes[n].in /\ b.queue = x.nodes[n].queue
      /\ b.pending_input = x.nodes[n].pending_input
      /\ b.pending_output = x.nodes[n].pending_output
      /\ b.backend = "Draining" /\ b.accepted = x.nodes[n].accepted
  BY SetBackendTells
<1>2. BeginDrain(x, n) = Give(w, "ok") /\ w = [z EXCEPT !.nodes = [z.nodes EXCEPT ![n] = c]]
  BY DEF BeginDrain, Ok, Set
<1> HIDE DEF z, w
<1>3. b \in NodeType
  BY <1>1, ResultsTold
<1>4. /\ c \in NodeType
      /\ c.in = b.in /\ c.queue = b.queue /\ c.pending_input = b.pending_input
      /\ c.pending_output = b.pending_output
      /\ c.backend = b.backend /\ c.drain_started = TRUE /\ c.accepted = b.accepted
  BY <1>3 DEF NodeType
<1> HIDE DEF b, c
<1>5. /\ w \in Results /\ w.out = z.out /\ w.pts = z.pts
      /\ w.create = z.create /\ w.fault = z.fault
      /\ w.nodes[n] = c /\ \A m \in Node : m # n => w.nodes[m] = z.nodes[m]
  BY <1>1, <1>2, <1>4, ReplaceTells
<1>6. /\ Give(w, "ok") \in Results /\ Give(w, "ok").status = "ok"
      /\ Give(w, "ok").nodes = w.nodes /\ Give(w, "ok").out = w.out /\ Give(w, "ok").pts = w.pts
      /\ Give(w, "ok").create = w.create /\ Give(w, "ok").fault = w.fault
  BY <1>5, GiveTells
<1>7. /\ c.in = x.nodes[n].in /\ c.queue = x.nodes[n].queue
      /\ c.pending_input = x.nodes[n].pending_input /\ c.pending_output = x.nodes[n].pending_output
      /\ c.backend = "Draining" /\ c.drain_started = TRUE /\ c.accepted = x.nodes[n].accepted
  BY <1>1, <1>4, Zenon
<1> DEFINE y == BeginDrain(x, n)
<1>8. y = Give(w, "ok")
  BY <1>2
<1> HIDE DEF y
<1>9. /\ y \in Results /\ y.out = x.out /\ y.pts = x.pts /\ y.status = "ok"
      /\ y.create = x.create /\ y.fault = x.fault
      /\ y.nodes[n] = c /\ \A m \in Node : m # n => y.nodes[m] = x.nodes[m]
  BY <1>1, <1>5, <1>6, <1>8, Zenon
<1> QED
  BY <1>7, <1>9, Zenon DEF y

------------------------------------------------------------------------------
(***************************************************************************)
(* The stretches of a result.                                              *)
(***************************************************************************)
Parts(x) ==
  [k \in 1..11 |->
     CASE k = 1 -> x.out
       [] k = 2 -> x.nodes["sink"].in
       [] k = 3 -> x.nodes["encoder"].pending_output
       [] k = 4 -> x.nodes["encoder"].queue
       [] k = 5 -> x.nodes["encoder"].pending_input
       [] k = 6 -> x.nodes["encoder"].in
       [] k = 7 -> x.nodes["processor"].pending_output
       [] k = 8 -> x.nodes["processor"].queue
       [] k = 9 -> x.nodes["processor"].pending_input
       [] k = 10 -> x.nodes["processor"].in
       [] k = 11 -> x.nodes["source"].pending_output]

\* The stretch of a backend's pending output; its other queues follow
First(n) == CASE n = "encoder" -> 3 [] n = "processor" -> 7 [] n = "source" -> 11

\* The stretches, one by one.
LEMMA PartsList ==
  ASSUME NEW x
  PROVE  /\ Parts(x)[1] = x.out /\ Parts(x)[2] = x.nodes["sink"].in
         /\ Parts(x)[3] = x.nodes["encoder"].pending_output
         /\ Parts(x)[4] = x.nodes["encoder"].queue
         /\ Parts(x)[5] = x.nodes["encoder"].pending_input
         /\ Parts(x)[6] = x.nodes["encoder"].in
         /\ Parts(x)[7] = x.nodes["processor"].pending_output
         /\ Parts(x)[8] = x.nodes["processor"].queue
         /\ Parts(x)[9] = x.nodes["processor"].pending_input
         /\ Parts(x)[10] = x.nodes["processor"].in
         /\ Parts(x)[11] = x.nodes["source"].pending_output
         /\ DOMAIN Parts(x) = 1..11 /\ Parts(x) = [k \in 1..11 |-> Parts(x)[k]]
BY DEF Parts

\* There are eleven stretches.
LEMMA Eleven ==
  \A k : k \in 1..11 <=> \/ k = 1 \/ k = 2 \/ k = 3 \/ k = 4 \/ k = 5 \/ k = 6
                         \/ k = 7 \/ k = 8 \/ k = 9 \/ k = 10 \/ k = 11
OBVIOUS

\* The stretches of a result are sequences of frames.
LEMMA PartsTyped ==
  ASSUME NEW x \in Results
  PROVE  Parts(x) \in Stretches
<1>1. /\ x.out \in Seq(Frames)
      /\ \A n \in Node : /\ x.nodes[n].in \in Seq(Frames) /\ x.nodes[n].queue \in Seq(Frames)
                         /\ x.nodes[n].pending_input \in Seq(Frames)
                         /\ x.nodes[n].pending_output \in Seq(Frames)
  BY ResultsTold, Zenon
<1>2. "source" \in Node /\ "processor" \in Node /\ "encoder" \in Node /\ "sink" \in Node
  BY NodesTold
<1> DEFINE P == Parts(x)
<1>3. /\ P[1] \in Seq(Frames) /\ P[2] \in Seq(Frames) /\ P[3] \in Seq(Frames)
      /\ P[4] \in Seq(Frames) /\ P[5] \in Seq(Frames) /\ P[6] \in Seq(Frames)
      /\ P[7] \in Seq(Frames) /\ P[8] \in Seq(Frames) /\ P[9] \in Seq(Frames)
      /\ P[10] \in Seq(Frames) /\ P[11] \in Seq(Frames)
  BY <1>1, <1>2, PartsList, Zenon
<1>4. P = [k \in 1..11 |-> P[k]]
  BY PartsList
<1> HIDE DEF P
<1>5. \A k \in 1..11 : P[k] \in Seq(Frames)
  BY <1>3, Eleven, Zenon
<1>6. P \in Stretches
  BY <1>4, <1>5, Zenon DEF Stretches
<1> QED
  BY <1>6 DEF P

\* The stretches at a backend, and the others.
LEMMA PartsAt ==
  ASSUME NEW n \in Backends, NEW x
  PROVE  /\ First(n) \in {3, 7} /\ First(n) - 1 \in 1..10
         /\ Parts(x)[First(n) - 1] = x.nodes[Sink(n)].in
         /\ Parts(x)[First(n)] = x.nodes[n].pending_output
         /\ Parts(x)[First(n) + 1] = x.nodes[n].queue
         /\ Parts(x)[First(n) + 2] = x.nodes[n].pending_input
         /\ Parts(x)[First(n) + 3] = x.nodes[n].in
<1>1. CASE n = "encoder"
  BY <1>1, PartsList, NodesTold DEF First
<1>2. CASE n = "processor"
  BY <1>2, PartsList, NodesTold DEF First
<1> QED
  BY <1>1, <1>2 DEF Backends

\* A call of a backend touches only its own stretches and the one downstream.
LEMMA PartsElsewhere ==
  ASSUME NEW n \in Backends, NEW x, NEW y, Others(x, y, n)
  PROVE  \A k \in 1..11 : k \notin (First(n) - 1)..(First(n) + 3) => Parts(y)[k] = Parts(x)[k]
<1> SUFFICES ASSUME NEW k \in 1..11, k \notin (First(n) - 1)..(First(n) + 3)
             PROVE  Parts(y)[k] = Parts(x)[k]
  OBVIOUS
<1>0. /\ y.out = x.out
      /\ \A m \in Node : m # n => /\ Unmoved(x.nodes[m], y.nodes[m])
                                  /\ m # Sink(n) => y.nodes[m].in = x.nodes[m].in
  BY DEF Others
<1>1. CASE n = "encoder"
  <2>1. k \in {1, 7, 8, 9, 10, 11}
    BY <1>1, Eleven DEF First
  <2>2. /\ Unmoved(x.nodes["processor"], y.nodes["processor"])
        /\ Unmoved(x.nodes["source"], y.nodes["source"])
        /\ y.nodes["processor"].in = x.nodes["processor"].in
    BY <1>0, <1>1, NodesTold
  <2> QED
    BY <1>0, <2>1, <2>2, PartsList DEF Unmoved
<1>2. CASE n = "processor"
  <2>1. k \in {1, 2, 3, 4, 5, 11}
    BY <1>2, Eleven DEF First
  <2>2. /\ Unmoved(x.nodes["encoder"], y.nodes["encoder"])
        /\ Unmoved(x.nodes["source"], y.nodes["source"])
        /\ y.nodes["sink"].in = x.nodes["sink"].in
    BY <1>0, <1>2, NodesTold
  <2> QED
    BY <1>0, <2>1, <2>2, PartsList DEF Unmoved
<1> QED
  BY <1>1, <1>2 DEF Backends

\* Stretches that agree one by one are the same.
LEMMA PartsEqual ==
  ASSUME NEW x, NEW P \in Stretches, \A k \in 1..11 : Parts(x)[k] = P[k]
  PROVE  Parts(x) = P
<1>1. Parts(x) = [k \in 1..11 |-> Parts(x)[k]] /\ P = [k \in 1..11 |-> P[k]]
  BY PartsList DEF Stretches
<1>2. [k \in 1..11 |-> Parts(x)[k]] = [k \in 1..11 |-> P[k]]
  BY Zenon
<1> QED
  BY <1>1, <1>2, Zenon

\* A frame moved on between two stretches of a result.
LEMMA Moved ==
  ASSUME NEW x \in Results, NEW y \in Results, NEW k \in 1..10, Parts(x)[k + 1] # <<>>,
         Parts(y)[k] = Append(Parts(x)[k], Head(Parts(x)[k + 1])),
         Parts(y)[k + 1] = Tail(Parts(x)[k + 1]),
         \A m \in 1..11 : m # k /\ m # k + 1 => Parts(y)[m] = Parts(x)[m]
  PROVE  /\ Ordered(Parts(x)) => Ordered(Parts(y))
         /\ \A f : Holds(Parts(y), f) <=> Holds(Parts(x), f)
<1> DEFINE P == Parts(x)
           Q == Moves(P, k)
<1>1. P \in Stretches
  BY PartsTyped
<1>2. k \in 1..11 /\ k + 1 \in 1..11 /\ k # k + 1
  OBVIOUS
<1> HIDE DEF P
<1>3. /\ Q \in Stretches
      /\ Q[k] = Append(P[k], Head(P[k + 1])) /\ Q[k + 1] = Tail(P[k + 1])
      /\ \A m \in 1..11 : m # k /\ m # k + 1 => Q[m] = P[m]
  <2>1. P[k + 1] # <<>>
    BY DEF P
  <2>2. Q \in Stretches
    BY <1>1, <2>1, MoveTells
  <2> QED
    BY <1>1, <1>2, <2>2 DEF Stretches, Moves
<1>4. \A m \in 1..11 : Parts(y)[m] = Q[m]
  BY <1>2, <1>3, Zenon DEF P
<1>5. Parts(y) = Q
  <2> HIDE DEF Q
  <2> QED
    BY <1>3, <1>4, PartsEqual
<1>6. P[k + 1] # <<>>
  BY DEF P
<1>7. Ordered(P) => Ordered(Q)
  BY <1>1, <1>6, MoveOrdered
<1>8. \A f : Holds(Q, f) <=> Holds(P, f)
  BY <1>1, <1>6, MoveHolds
<1> QED
  BY <1>5, <1>7, <1>8 DEF P

\* What taking the first frame of a queue does.
LEMMA One ==
  ASSUME NEW s \in Seq(Frames), NEW p \in Seq(Frames), p # <<>>
  PROVE  /\ Head(p) \in Frames /\ <<Head(p)>> \in Seq(Frames) /\ Tail(p) \in Seq(Frames)
         /\ Len(<<Head(p)>>) = 1 /\ <<Head(p)>> # <<>>
         /\ Append(<<>>, Head(p)) = <<Head(p)>>
         /\ Len(Tail(p)) <= Len(p) /\ Len(Append(s, Head(p))) = Len(s) + 1
         /\ Append(s, Head(p)) \in Seq(Frames)
         /\ Len(p) <= 1 => s \o p = Append(s, Head(p)) /\ Tail(p) = <<>>
<1>1. p \in Seq(Frames) /\ Len(p) \in Nat /\ Len(p) # 0
  BY EmptySeq
<1>2. Head(p) \in Frames /\ Tail(p) \in Seq(Frames) /\ Len(Tail(p)) = Len(p) - 1 /\ Head(p) = p[1]
  BY <1>1
<1>3. ASSUME Len(p) <= 1 PROVE s \o p = Append(s, Head(p)) /\ Tail(p) = <<>>
  <2>0. \A l \in Nat : l # 0 /\ l <= 1 => l = 1
    OBVIOUS
  <2>1. Len(p) = 1
    BY <1>1, <1>3, <2>0, Zenon
  <2>2. Tail(p) = <<>>
    <3>1. Len(Tail(p)) = 0
      BY <1>2, <2>1
    <3> QED
      BY <1>2, <3>1, EmptySeq
  <2>3. p = <<Head(p)>>
    BY <1>1, <1>2, <2>1
  <2>4. s \o <<Head(p)>> = Append(s, Head(p))
    BY <1>2, AppendIsConcat
  <2> QED
    BY <2>2, <2>3, <2>4
<1>4. Append(<<>>, Head(p)) = <<Head(p)>>
  BY <1>2
<1> QED
  BY <1>1, <1>2, <1>3, <1>4

\* The stretches of the source and of the queue behind it.
LEMMA PartsSource ==
  ASSUME NEW x
  PROVE  /\ First("source") = 11 /\ Parts(x)[10] = x.nodes[Sink("source")].in
         /\ Parts(x)[11] = x.nodes["source"].pending_output
         /\ \A y : Others(x, y, "source") => \A k \in 1..9 : Parts(y)[k] = Parts(x)[k]
<1>1. First("source") = 11
  BY DEF First
<1>2. ASSUME NEW y, Others(x, y, "source")
      PROVE  \A k \in 1..9 : Parts(y)[k] = Parts(x)[k]
  <2>1. /\ y.out = x.out
        /\ Unmoved(x.nodes["processor"], y.nodes["processor"])
        /\ Unmoved(x.nodes["encoder"], y.nodes["encoder"])
        /\ y.nodes["encoder"].in = x.nodes["encoder"].in
        /\ y.nodes["sink"].in = x.nodes["sink"].in
    BY <1>2, NodesTold DEF Others
  <2>2. \A k \in 1..9 : k \in {1, 2, 3, 4, 5, 6, 7, 8, 9}
    OBVIOUS
  <2> QED
    BY <2>1, <2>2, PartsList DEF Unmoved
<1> QED
  BY <1>1, <1>2, PartsList, NodesTold

\* What every node holds fits where it is.
Fit(b) == /\ Len(b.in) <= InputCapacity /\ Len(b.queue) <= QueueCapacity
          /\ Len(b.pending_input) <= 1 /\ Len(b.pending_output) <= 1
Fits(x) == \A n \in Node : Fit(x.nodes[n])

\* A call of n leaves the frames in order and none out of nowhere; unless it fails,
\* none is lost.
Passes(x, y, n) ==
  /\ y \in Results /\ Others(x, y, n) /\ Fits(y)
  /\ Ordered(Parts(x)) => Ordered(Parts(y))
  /\ \A f : Holds(Parts(y), f) => Holds(Parts(x), f)
  /\ y.status # "failed" => \A f : Holds(Parts(x), f) => Holds(Parts(y), f)

\* A result with the same nodes has the same stretches.
LEMMA PartsSame ==
  ASSUME NEW x, NEW y, y.nodes = x.nodes, y.out = x.out
  PROVE  Parts(y) = Parts(x) /\ (Fits(y) <=> Fits(x))
BY DEF Parts, Fits

\* A status alone moves no frame.
LEMMA PassesGive ==
  ASSUME NEW x \in Results, Fits(x), NEW s \in {"ok", "blocked", "eos", "failed"}, NEW n
  PROVE  Passes(x, Give(x, s), n)
<1> DEFINE y == Give(x, s)
<1>1. /\ y \in Results /\ y.nodes = x.nodes /\ y.out = x.out /\ y.pts = x.pts
      /\ y.create = x.create /\ y.fault = x.fault
  BY GiveTells
<1> HIDE DEF y
<1>2. Parts(y) = Parts(x) /\ Fits(y)
  BY <1>1, PartsSame
<1>3. Others(x, y, n)
  BY <1>1 DEF Others, Unmoved, Kin
<1>4. Passes(x, y, n)
  BY <1>1, <1>2, <1>3 DEF Passes
<1> QED
  BY <1>4 DEF y

\* One call of a node after another.
LEMMA PassesTwice ==
  ASSUME NEW x, NEW y, NEW z, NEW n, Passes(x, y, n), Passes(y, z, n), y.status # "failed"
  PROVE  Passes(x, z, n)
BY OthersTwice, Zenon DEF Passes

------------------------------------------------------------------------------
(***************************************************************************)
(* The calls of ports and backend.                                         *)
(***************************************************************************)

\* A pending output is sent, or kept when it is refused.
LEMMA SendTells ==
  ASSUME NEW x \in Results, Fits(x), NEW n \in {"source", "processor", "encoder"}
  PROVE  LET y == SendPending(x, n)
             b == x.nodes[n]
             c == y.nodes[n]
         IN  /\ Passes(x, y, n) /\ y.status \in {"ok", "blocked", "failed"}
             /\ y.status = "failed" => Denied(x)
             /\ Kin(b, c) /\ c.in = b.in /\ c.queue = b.queue
             /\ c.pending_input = b.pending_input
             /\ y.status = "ok" => c.pending_output = <<>>
<1> DEFINE y == SendPending(x, n)
           b == x.nodes[n]
           p == b.pending_output
           d == Sink(n)
           z == Set(x, d, "in", x.nodes[d].in \o p)
           w == Set(z, n, "pending_output", <<>>)
<1>1. n \in Node /\ d \in Node /\ d # n
  BY NodesTold
<1>2. /\ p \in Seq(Frames) /\ x.nodes[d].in \in Seq(Frames) /\ Fit(x.nodes[d]) /\ Fit(b)
  BY <1>1, ResultsTold DEF Fits
<1>3. CASE p = <<>> \/ ~HasRoom(x.nodes[d].in) \/ x.fault = "send"
  <2> DEFINE s == IF p = <<>> THEN "ok"
                  ELSE IF ~HasRoom(x.nodes[d].in) THEN "blocked" ELSE "failed"
  <2>1. y = Give(x, s)
    BY <1>3 DEF SendPending, Refused, Ok, Block, Hard
  <2>2. s \in {"ok", "blocked", "failed"} /\ (s = "ok" <=> p = <<>>) /\ (s = "failed" => Denied(x))
    BY <1>3 DEF Denied, Failures
  <2> HIDE DEF s
  <2>3. Passes(x, y, n) /\ y.nodes = x.nodes /\ y.status = s
    BY <2>1, <2>2, PassesGive, GiveTells
  <2> HIDE DEF y
  <2> QED
    BY <2>2, <2>3 DEF y, Kin
<1>4. CASE p # <<>> /\ HasRoom(x.nodes[d].in) /\ x.fault # "send"
  <2>1. y = Give(w, "ok")
    BY <1>4 DEF SendPending, Ok, Set
  <2>2. /\ Head(p) \in Frames /\ Tail(p) = <<>>
        /\ x.nodes[d].in \o p = Append(x.nodes[d].in, Head(p))
        /\ x.nodes[d].in \o p \in Seq(Frames)
        /\ Len(x.nodes[d].in \o p) = Len(x.nodes[d].in) + 1
    BY <1>2, <1>4, One, ZenonT(60) DEF Fit
  <2>3. Len(x.nodes[d].in \o p) <= InputCapacity
    <3>1. InputCapacity \in Nat /\ Len(x.nodes[d].in) \in Nat /\ Len(x.nodes[d].in) < InputCapacity
      BY <1>2, <1>4, CapacityAssumption DEF HasRoom
    <3> QED
      BY <2>2, <3>1
  <2>4. /\ z \in Results /\ z.out = x.out /\ z.pts = x.pts /\ z.status = x.status
        /\ z.create = x.create /\ z.fault = x.fault
        /\ \A m \in Node : m # d => z.nodes[m] = x.nodes[m]
        /\ Kin(x.nodes[d], z.nodes[d]) /\ z.nodes[d].in = Append(x.nodes[d].in, Head(p))
        /\ z.nodes[d].queue = x.nodes[d].queue
        /\ z.nodes[d].pending_input = x.nodes[d].pending_input
        /\ z.nodes[d].pending_output = x.nodes[d].pending_output
    <3>1. Sets(x, z, d, x.nodes[d].in \o p, x.nodes[d].queue, x.nodes[d].pending_input,
               x.nodes[d].pending_output)
      BY <1>1, <2>2, SetTells
    <3> HIDE DEF p, d, z
    <3> QED
      BY <2>2, <3>1 DEF Sets
  <2> HIDE DEF z
  <2>5. <<>> \in Seq(Frames)
    OBVIOUS
  <2>6. /\ w \in Results /\ w.out = z.out /\ w.pts = z.pts /\ w.status = z.status
        /\ w.create = z.create /\ w.fault = z.fault
        /\ \A m \in Node : m # n => w.nodes[m] = z.nodes[m]
        /\ Kin(z.nodes[n], w.nodes[n]) /\ w.nodes[n].pending_output = <<>>
        /\ w.nodes[n].in = z.nodes[n].in /\ w.nodes[n].queue = z.nodes[n].queue
        /\ w.nodes[n].pending_input = z.nodes[n].pending_input
    <3>1. Sets(z, w, n, z.nodes[n].in, z.nodes[n].queue, z.nodes[n].pending_input, <<>>)
      BY <1>1, <2>4, <2>5, SetTells
    <3> HIDE DEF w
    <3> QED
      BY <3>1, Zenon DEF Sets
  <2> HIDE DEF w
  <2>7. /\ y \in Results /\ y.status = "ok" /\ y.nodes = w.nodes /\ y.out = x.out
        /\ y.pts = x.pts /\ y.create = x.create /\ y.fault = x.fault
    BY <2>1, <2>4, <2>6, GiveTells
  <2> HIDE DEF y
  <2>8. /\ \A m \in Node : m # n /\ m # d => y.nodes[m] = x.nodes[m]
        /\ Unmoved(x.nodes[d], y.nodes[d]) /\ y.nodes[d].in = Append(x.nodes[d].in, Head(p))
        /\ Kin(b, y.nodes[n]) /\ y.nodes[n].pending_output = <<>> /\ y.nodes[n].in = b.in
        /\ y.nodes[n].queue = b.queue /\ y.nodes[n].pending_input = b.pending_input
    BY <1>1, <2>4, <2>6, <2>7, ZenonT(60) DEF Unmoved, Kin
  <2>9. Others(x, y, n)
    BY <2>7, <2>8 DEF Others, Unmoved, Kin
  <2>10. Fits(y)
    <3>1. Fit(y.nodes[n])
      BY <1>2, <2>8 DEF Fit
    <3>2. Fit(y.nodes[d])
      BY <1>2, <2>2, <2>3, <2>8 DEF Fit, Unmoved
    <3> QED
      BY <2>8, <3>1, <3>2 DEF Fits
  <2> DEFINE k == First(n) - 1
  <2>11. /\ k \in 1..10 /\ Parts(x)[k + 1] # <<>>
         /\ Parts(y)[k] = Append(Parts(x)[k], Head(Parts(x)[k + 1]))
         /\ Parts(y)[k + 1] = Tail(Parts(x)[k + 1])
         /\ \A m \in 1..11 : m # k /\ m # k + 1 => Parts(y)[m] = Parts(x)[m]
    <3>1. CASE n = "source"
      <4>1. k = 10 /\ k + 1 = 11 /\ \A m \in 1..11 : m # 10 /\ m # 11 => m \in 1..9
        BY <3>1, PartsSource
      <4> HIDE DEF k
      <4>2. \A m \in 1..11 : m # 10 /\ m # 11 => Parts(y)[m] = Parts(x)[m]
        BY <2>9, <3>1, <4>1, PartsSource
      <4>3. /\ Parts(x)[10] = x.nodes[d].in /\ Parts(x)[11] = p
            /\ Parts(y)[10] = y.nodes[d].in /\ Parts(y)[11] = y.nodes[n].pending_output
        BY <3>1, PartsSource
      <4> HIDE DEF p, d, b
      <4>4. k \in 1..10
        BY <4>1
      <4> QED
        BY <1>4, <2>2, <2>8, <4>1, <4>2, <4>3, <4>4, Zenon
    <3>2. CASE n \in Backends
      <4>1. /\ First(n) \in {3, 7} /\ k \in 1..10 /\ k + 1 = First(n)
            /\ Parts(x)[k] = x.nodes[d].in /\ Parts(y)[k] = y.nodes[d].in
            /\ Parts(x)[k + 1] = p /\ Parts(y)[k + 1] = y.nodes[n].pending_output
            /\ Parts(x)[First(n) + 1] = b.queue /\ Parts(y)[First(n) + 1] = y.nodes[n].queue
            /\ Parts(x)[First(n) + 2] = b.pending_input
            /\ Parts(y)[First(n) + 2] = y.nodes[n].pending_input
            /\ Parts(x)[First(n) + 3] = b.in /\ Parts(y)[First(n) + 3] = y.nodes[n].in
        BY <3>2, PartsAt
      <4>2. \A m \in 1..11 : m \notin (First(n) - 1)..(First(n) + 3) => Parts(y)[m] = Parts(x)[m]
        BY <2>9, <3>2, PartsElsewhere
      <4>3. \A m \in 1..11 : m # k /\ m # k + 1 =>
               \/ m \notin (First(n) - 1)..(First(n) + 3)
               \/ m = First(n) + 1 \/ m = First(n) + 2 \/ m = First(n) + 3
        BY <4>1
      <4> HIDE DEF k, p, b, d
      <4>4. \A m \in 1..11 : m # k /\ m # k + 1 => Parts(y)[m] = Parts(x)[m]
        BY <2>8, <4>1, <4>2, <4>3, Zenon
      <4> QED
        BY <1>4, <2>2, <2>8, <4>1, <4>4 DEF p
    <3> QED
      BY <3>1, <3>2 DEF Backends
  <2> HIDE DEF k, p, b, d
  <2>12. /\ Ordered(Parts(x)) => Ordered(Parts(y))
         /\ \A f : Holds(Parts(y), f) <=> Holds(Parts(x), f)
    BY <2>7, <2>11, Moved
  <2>13. Passes(x, y, n)
    BY <2>7, <2>9, <2>10, <2>12 DEF Passes
  <2> QED
    BY <2>7, <2>8, <2>13 DEF y, b
<1> QED
  BY <1>3, <1>4

\* The stretches of a backend, when a call changes no other node.
LEMMA PartsFrom ==
  ASSUME NEW x, NEW y, y.out = x.out, y.nodes["source"] = x.nodes["source"],
         y.nodes["sink"] = x.nodes["sink"]
  PROVE  LET P == Parts(x)
             Q == Parts(y)
         IN  /\ Q[1] = P[1] /\ Q[2] = P[2] /\ Q[11] = P[11]
             /\ y.nodes["processor"] = x.nodes["processor"] =>
                  Q[7] = P[7] /\ Q[8] = P[8] /\ Q[9] = P[9] /\ Q[10] = P[10]
             /\ y.nodes["encoder"] = x.nodes["encoder"] =>
                  Q[3] = P[3] /\ Q[4] = P[4] /\ Q[5] = P[5] /\ Q[6] = P[6]
BY DEF Parts

\* The stretches of a backend, before and after a call.
LEMMA PartsOf ==
  ASSUME NEW n \in Backends, NEW x, NEW y, y.out = x.out,
         \A m \in Node : m # n => y.nodes[m] = x.nodes[m]
  PROVE  LET b == x.nodes[n]
             c == y.nodes[n]
             k == First(n)
             P == Parts(x)
             Q == Parts(y)
         IN  /\ k \in {3, 7}
             /\ P[k] = b.pending_output /\ P[k + 1] = b.queue
             /\ P[k + 2] = b.pending_input /\ P[k + 3] = b.in
             /\ Q[k] = c.pending_output /\ Q[k + 1] = c.queue
             /\ Q[k + 2] = c.pending_input /\ Q[k + 3] = c.in
             /\ \A m \in 1..11 : m # k /\ m # k + 1 /\ m # k + 2 /\ m # k + 3 => Q[m] = P[m]
<1>1. "source" \in Node /\ "processor" \in Node /\ "encoder" \in Node /\ "sink" \in Node
  BY NodesTold
<1> DEFINE b == x.nodes[n]
           c == y.nodes[n]
           k == First(n)
           P == Parts(x)
           Q == Parts(y)
<1>2. /\ k \in {3, 7}
      /\ P[k] = b.pending_output /\ P[k + 1] = b.queue
      /\ P[k + 2] = b.pending_input /\ P[k + 3] = b.in
  BY PartsAt
<1>3. /\ Q[k] = c.pending_output /\ Q[k + 1] = c.queue
      /\ Q[k + 2] = c.pending_input /\ Q[k + 3] = c.in
  BY PartsAt
<1>4. ASSUME NEW m \in 1..11, m # k, m # k + 1, m # k + 2, m # k + 3
      PROVE  Q[m] = P[m]
  <2>1. CASE n = "encoder"
    <3>1. m = 1 \/ m = 2 \/ m = 7 \/ m = 8 \/ m = 9 \/ m = 10 \/ m = 11
      BY <1>4, <2>1 DEF First
    <3>2. /\ y.nodes["source"] = x.nodes["source"] /\ y.nodes["sink"] = x.nodes["sink"]
          /\ y.nodes["processor"] = x.nodes["processor"]
      BY <1>1, <2>1
    <3>3. /\ Q[1] = P[1] /\ Q[2] = P[2] /\ Q[7] = P[7] /\ Q[8] = P[8] /\ Q[9] = P[9]
          /\ Q[10] = P[10] /\ Q[11] = P[11]
      BY <3>2, PartsFrom, SMT
    <3> HIDE DEF P, Q
    <3> QED
      BY <3>1, <3>3, Zenon
  <2>2. CASE n = "processor"
    <3>1. m = 1 \/ m = 2 \/ m = 3 \/ m = 4 \/ m = 5 \/ m = 6 \/ m = 11
      BY <1>4, <2>2 DEF First
    <3>2. /\ y.nodes["source"] = x.nodes["source"] /\ y.nodes["sink"] = x.nodes["sink"]
          /\ y.nodes["encoder"] = x.nodes["encoder"]
      BY <1>1, <2>2
    <3>3. /\ Q[1] = P[1] /\ Q[2] = P[2] /\ Q[3] = P[3] /\ Q[4] = P[4] /\ Q[5] = P[5]
          /\ Q[6] = P[6] /\ Q[11] = P[11]
      BY <3>2, PartsFrom, SMT
    <3> HIDE DEF P, Q
    <3> QED
      BY <3>1, <3>3, Zenon
  <2> QED
    BY <2>1, <2>2 DEF Backends
<1> HIDE DEF b, c, k, P, Q
<1>5. /\ k \in {3, 7}
      /\ P[k] = b.pending_output /\ P[k + 1] = b.queue
      /\ P[k + 2] = b.pending_input /\ P[k + 3] = b.in
      /\ Q[k] = c.pending_output /\ Q[k + 1] = c.queue
      /\ Q[k + 2] = c.pending_input /\ Q[k + 3] = c.in
      /\ \A m \in 1..11 : m # k /\ m # k + 1 /\ m # k + 2 /\ m # k + 3 => Q[m] = P[m]
  BY <1>2, <1>3, <1>4, Zenon
<1> QED
  BY <1>5, Zenon DEF b, c, k, P, Q

\* A frame moves on inside a node: its oldest queued frame becomes the pending
\* output, or its pending input is queued, or its oldest input becomes pending.
Shift(b, c) ==
  \/ /\ b.queue # <<>>
     /\ c.pending_output = Append(b.pending_output, Head(b.queue)) /\ c.queue = Tail(b.queue)
     /\ c.pending_input = b.pending_input /\ c.in = b.in
  \/ /\ b.pending_input # <<>>
     /\ c.queue = Append(b.queue, Head(b.pending_input)) /\ c.pending_input = Tail(b.pending_input)
     /\ c.pending_output = b.pending_output /\ c.in = b.in
  \/ /\ b.in # <<>>
     /\ c.pending_input = Append(b.pending_input, Head(b.in)) /\ c.in = Tail(b.in)
     /\ c.pending_output = b.pending_output /\ c.queue = b.queue

\* A frame that moves up within its node keeps the order.
LEMMA StepUp ==
  ASSUME NEW n \in Backends, NEW x \in Results, NEW y \in Results, y.out = x.out,
         \A m \in Node : m # n => y.nodes[m] = x.nodes[m], Shift(x.nodes[n], y.nodes[n])
  PROVE  /\ Ordered(Parts(x)) => Ordered(Parts(y))
         /\ \A f : Holds(Parts(y), f) <=> Holds(Parts(x), f)
<1> DEFINE b == x.nodes[n]
           c == y.nodes[n]
           k == First(n)
           P == Parts(x)
           Q == Parts(y)
<1>1. /\ k \in {3, 7}
      /\ P[k] = b.pending_output /\ P[k + 1] = b.queue
      /\ P[k + 2] = b.pending_input /\ P[k + 3] = b.in
      /\ Q[k] = c.pending_output /\ Q[k + 1] = c.queue
      /\ Q[k + 2] = c.pending_input /\ Q[k + 3] = c.in
      /\ \A m \in 1..11 : m # k /\ m # k + 1 /\ m # k + 2 /\ m # k + 3 => Q[m] = P[m]
  BY PartsOf
<1>0. Shift(b, c)
  OBVIOUS
<1> HIDE DEF b, c, k, P, Q
<1>2. \E j \in 1..10 : /\ P[j + 1] # <<>> /\ Q[j] = Append(P[j], Head(P[j + 1]))
                       /\ Q[j + 1] = Tail(P[j + 1])
                       /\ \A m \in 1..11 : m # j /\ m # j + 1 => Q[m] = P[m]
  <2>1. k \in 1..10 /\ k + 1 \in 1..10 /\ k + 2 \in 1..10
    BY <1>1
  <2>2. (k + 1) + 1 = k + 2 /\ (k + 2) + 1 = k + 3
    BY <1>1
  <2>3. CASE /\ b.queue # <<>>
             /\ c.pending_output = Append(b.pending_output, Head(b.queue)) /\ c.queue = Tail(b.queue)
             /\ c.pending_input = b.pending_input /\ c.in = b.in
    <3>1. /\ P[k + 1] # <<>> /\ Q[k] = Append(P[k], Head(P[k + 1])) /\ Q[k + 1] = Tail(P[k + 1])
          /\ Q[k + 2] = P[k + 2] /\ Q[k + 3] = P[k + 3]
      BY <1>1, <2>3, Zenon
    <3>2. \A m \in 1..11 : m # k /\ m # k + 1 => Q[m] = P[m]
      BY <1>1, <3>1, Zenon
    <3> QED
      BY <2>1, <3>1, <3>2, Zenon
  <2>4. CASE /\ b.pending_input # <<>>
             /\ c.queue = Append(b.queue, Head(b.pending_input))
             /\ c.pending_input = Tail(b.pending_input)
             /\ c.pending_output = b.pending_output /\ c.in = b.in
    <3>1. /\ P[k + 2] # <<>> /\ Q[k + 1] = Append(P[k + 1], Head(P[k + 2]))
          /\ Q[k + 2] = Tail(P[k + 2]) /\ Q[k] = P[k] /\ Q[k + 3] = P[k + 3]
      BY <1>1, <2>4, Zenon
    <3>2. \A m \in 1..11 : m # k + 1 /\ m # k + 2 => Q[m] = P[m]
      BY <1>1, <3>1, Zenon
    <3> QED
      BY <2>1, <2>2, <3>1, <3>2, Zenon
  <2>5. CASE /\ b.in # <<>>
             /\ c.pending_input = Append(b.pending_input, Head(b.in)) /\ c.in = Tail(b.in)
             /\ c.pending_output = b.pending_output /\ c.queue = b.queue
    <3>1. /\ P[k + 3] # <<>> /\ Q[k + 2] = Append(P[k + 2], Head(P[k + 3]))
          /\ Q[k + 3] = Tail(P[k + 3]) /\ Q[k] = P[k] /\ Q[k + 1] = P[k + 1]
      BY <1>1, <2>5, Zenon
    <3>2. \A m \in 1..11 : m # k + 2 /\ m # k + 3 => Q[m] = P[m]
      BY <1>1, <3>1, Zenon
    <3> QED
      BY <2>1, <2>2, <3>1, <3>2, Zenon
  <2> QED
    BY <1>0, <2>3, <2>4, <2>5 DEF Shift
<1>3. PICK j \in 1..10 : /\ P[j + 1] # <<>> /\ Q[j] = Append(P[j], Head(P[j + 1]))
                         /\ Q[j + 1] = Tail(P[j + 1])
                         /\ \A m \in 1..11 : m # j /\ m # j + 1 => Q[m] = P[m]
  BY <1>2
<1> QED
  BY <1>3, Moved DEF P, Q

\* A change of a backend's state alone moves no frame.
LEMMA PassesBackend ==
  ASSUME NEW x \in Results, Fits(x), NEW n \in Backends, NEW v \in {"Stopped", "Error"},
         NEW s \in {"eos", "failed"}
  PROVE  LET turned == Give(Set(x, n, "backend", v), s)
             was    == x.nodes[n]
             now    == turned.nodes[n]
         IN  /\ Passes(x, turned, n) /\ turned.status = s
             /\ now.in = was.in /\ now.queue = was.queue
             /\ now.pending_input = was.pending_input /\ now.pending_output = was.pending_output
             /\ now.backend = v /\ now.drain_started = was.drain_started
             /\ now.accepted = was.accepted
<1> DEFINE b == x.nodes[n]
           z == Set(x, n, "backend", v)
<1>1. n \in Node /\ Fit(b)
  BY NodesTold DEF Fits
<1>2. /\ z \in Results /\ z.out = x.out /\ z.pts = x.pts
      /\ z.create = x.create /\ z.fault = x.fault
      /\ \A m \in Node : m # n => z.nodes[m] = x.nodes[m]
      /\ z.nodes[n].in = b.in /\ z.nodes[n].queue = b.queue
      /\ z.nodes[n].pending_input = b.pending_input
      /\ z.nodes[n].pending_output = b.pending_output
      /\ z.nodes[n].backend = v /\ z.nodes[n].drain_started = b.drain_started
      /\ z.nodes[n].accepted = b.accepted
  <2>1. CASE v = "Stopped"
    BY <1>1, <2>1, SetBackendTells
  <2>2. CASE v = "Error"
    BY <1>1, <2>2, SetBackendTells
  <2> QED
    BY <2>1, <2>2
<1> DEFINE y == Give(z, s)
<1> HIDE DEF z
<1>3. /\ y \in Results /\ y.status = s /\ y.nodes = z.nodes /\ y.out = z.out
      /\ y.pts = z.pts /\ y.create = z.create /\ y.fault = z.fault
  BY <1>2, GiveTells
<1> HIDE DEF y
<1>4. Others(x, y, n)
  BY <1>2, <1>3 DEF Others, Unmoved, Kin
<1>5. Fits(y)
  <2>1. Fit(y.nodes[n])
    BY <1>1, <1>2, <1>3 DEF Fit
  <2> QED
    BY <1>2, <1>3, <2>1 DEF Fits
<1>6. Parts(y) = Parts(x)
  <2>1. LET k == First(n)
            P == Parts(x)
            Q == Parts(y)
        IN  /\ k \in {3, 7}
            /\ P[k] = Q[k] /\ P[k + 1] = Q[k + 1] /\ P[k + 2] = Q[k + 2] /\ P[k + 3] = Q[k + 3]
            /\ \A m \in 1..11 : m # k /\ m # k + 1 /\ m # k + 2 /\ m # k + 3 => Q[m] = P[m]
    BY <1>2, <1>3, PartsOf
  <2>2. \A m \in 1..11 : Parts(y)[m] = Parts(x)[m]
    BY <2>1, Zenon
  <2>3. Parts(x) \in Stretches
    BY PartsTyped
  <2> QED
    BY <2>2, <2>3, PartsEqual
<1>7. Passes(x, y, n)
  BY <1>2, <1>3, <1>4, <1>5, <1>6 DEF Passes
<1> QED
  BY <1>2, <1>3, <1>7 DEF y, z

\* A backend that serves or drains gives its oldest frame, has none yet, is at its
\* end with nothing left, or fails to make the output.
LEMMA ReceiveTells ==
  ASSUME NEW x \in Results, Fits(x), NEW n \in Backends,
         x.nodes[n].pending_output = <<>>,
         x.nodes[n].backend \in {"Configured", "Running", "Draining"}
  PROVE  LET y == Receive(x, n)
             b == x.nodes[n]
             c == y.nodes[n]
         IN  /\ Passes(x, y, n) /\ y.status \in {"ok", "blocked", "eos", "failed"}
             /\ y.status = "failed" => Denied(x)
             /\ c.in = b.in /\ c.pending_input = b.pending_input
             /\ c.drain_started = b.drain_started /\ c.accepted = b.accepted
             /\ y.status \in {"ok", "blocked"} => c.backend = b.backend
             /\ y.status = "eos" => /\ b.backend = "Draining" /\ c.backend = "Stopped"
                                    /\ c.queue = <<>> /\ c.pending_output = <<>>
             /\ y.status = "blocked" => y.nodes = x.nodes
<1> DEFINE y == Receive(x, n)
           b == x.nodes[n]
           z == Set(x, n, "pending_output", <<Head(b.queue)>>)
           w == Set(z, n, "queue", Tail(b.queue))
           v == Set(x, n, "backend", "Stopped")
<1>1. n \in Node /\ b.queue \in Seq(Frames) /\ Fit(b)
  BY NodesTold, ResultsTold DEF Fits
<1>2. y = IF Available(b, n)
          THEN IF x.fault = "receive" THEN ReceiveFails(x, n) ELSE Give(w, "ok")
          ELSE IF b.backend = "Draining" THEN Give(v, "eos") ELSE Give(x, "blocked")
  BY DEF Receive, Ok, Block
<1>3. CASE Available(b, n) /\ x.fault # "receive"
  <2>1. b.queue # <<>>
    BY <1>3 DEF Available
  <2>2. /\ <<Head(b.queue)>> \in Seq(Frames) /\ Tail(b.queue) \in Seq(Frames)
        /\ Append(<<>>, Head(b.queue)) = <<Head(b.queue)>> /\ Len(<<Head(b.queue)>>) = 1
        /\ Len(Tail(b.queue)) <= Len(b.queue)
    BY <1>1, <2>1, One
  <2>3. Sets(x, z, n, b.in, b.queue, b.pending_input, <<Head(b.queue)>>)
    BY <1>1, <2>2, SetTells
  <2>4. z \in Results
    BY <2>3 DEF Sets
  <2> HIDE DEF z
  <2>5. Sets(z, w, n, z.nodes[n].in, Tail(b.queue), z.nodes[n].pending_input,
             z.nodes[n].pending_output)
    BY <1>1, <2>2, <2>4, SetTells
  <2> HIDE DEF w
  <2>6. Sets(x, w, n, b.in, Tail(b.queue), b.pending_input, <<Head(b.queue)>>)
    BY <2>3, <2>5 DEF Sets, Kin
  <2>7. /\ y \in Results /\ y.status = "ok" /\ y.nodes = w.nodes /\ y.out = x.out
        /\ y.pts = x.pts /\ y.create = x.create /\ y.fault = x.fault
    BY <1>2, <1>3, <2>6, GiveTells DEF Sets
  <2> HIDE DEF y, b
  <2>8. /\ \A m \in Node : m # n => y.nodes[m] = x.nodes[m]
        /\ Kin(b, y.nodes[n]) /\ y.nodes[n].in = b.in /\ y.nodes[n].queue = Tail(b.queue)
        /\ y.nodes[n].pending_input = b.pending_input
        /\ y.nodes[n].pending_output = Append(<<>>, Head(b.queue))
    BY <2>2, <2>6, <2>7 DEF Sets, b
  <2>9. Others(x, y, n)
    BY <2>7, <2>8 DEF Others, Unmoved, Kin
  <2>10. Fit(y.nodes[n])
    <3>1. Len(b.queue) \in Nat /\ Len(Tail(b.queue)) \in Nat /\ QueueCapacity \in Nat
      BY <1>1, <2>2, CapacityAssumption
    <3>2. Len(Tail(b.queue)) <= QueueCapacity
      BY <1>1, <2>2, <3>1 DEF Fit
    <3> QED
      BY <1>1, <2>2, <2>8, <3>2 DEF Fit
  <2>11. Fits(y)
    BY <2>8, <2>10 DEF Fits
  <2>12. /\ Ordered(Parts(x)) => Ordered(Parts(y))
         /\ \A f : Holds(Parts(y), f) <=> Holds(Parts(x), f)
    <3>1. b.pending_output = <<>> /\ b = x.nodes[n]
      BY DEF b
    <3>2. Shift(b, y.nodes[n])
      BY <2>1, <2>8, <3>1 DEF Shift
    <3>3. y.out = x.out /\ \A m \in Node : m # n => y.nodes[m] = x.nodes[m]
      BY <2>7, <2>8
    <3> QED
      BY <2>1, <2>7, <3>1, <3>2, <3>3, StepUp
  <2>13. Passes(x, y, n)
    BY <2>7, <2>9, <2>11, <2>12 DEF Passes
  <2> QED
    BY <2>7, <2>8, <2>13 DEF y, b, Kin
<1>4. CASE ~Available(b, n) /\ b.backend = "Draining"
  <2>1. b.queue = <<>>
    BY <1>4 DEF Available
  <2>2. y = Give(v, "eos")
    BY <1>2, <1>4
  <2>3. /\ Passes(x, y, n) /\ y.status = "eos"
        /\ y.nodes[n].in = b.in /\ y.nodes[n].queue = b.queue
        /\ y.nodes[n].pending_input = b.pending_input
        /\ y.nodes[n].pending_output = b.pending_output
        /\ y.nodes[n].backend = "Stopped" /\ y.nodes[n].drain_started = b.drain_started
        /\ y.nodes[n].accepted = b.accepted
    BY <2>2, PassesBackend
  <2> HIDE DEF y
  <2> QED
    BY <1>4, <2>1, <2>3 DEF y
<1>5. CASE ~Available(b, n) /\ b.backend # "Draining"
  <2>1. y = Give(x, "blocked")
    BY <1>2, <1>5
  <2>2. Passes(x, y, n) /\ y.nodes = x.nodes /\ y.status = "blocked"
    BY <2>1, PassesGive, GiveTells
  <2> HIDE DEF y
  <2> QED
    BY <2>2 DEF y
<1>6. CASE Available(b, n) /\ x.fault = "receive"
  <2>1. Denied(x)
    BY <1>6 DEF Denied, Failures
  <2>2. /\ Passes(x, y, n) /\ y.status = "failed"
        /\ y.nodes[n].in = b.in /\ y.nodes[n].pending_input = b.pending_input
        /\ y.nodes[n].drain_started = b.drain_started /\ y.nodes[n].accepted = b.accepted
    <3>1. CASE n = "encoder"
      <4>1. y = Give(Set(x, n, "backend", "Error"), "failed")
        BY <1>2, <1>6, <3>1 DEF ReceiveFails, Hard
      <4> HIDE DEF y
      <4> QED
        BY <4>1, PassesBackend
    <3>2. CASE n # "encoder"
      <4>1. y = Give(x, "failed")
        BY <1>2, <1>6, <3>2 DEF ReceiveFails, Hard
      <4>2. Passes(x, y, n) /\ y.nodes = x.nodes /\ y.status = "failed"
        BY <4>1, PassesGive, GiveTells
      <4> HIDE DEF y
      <4> QED
        BY <4>2
    <3> QED
      BY <3>1, <3>2
  <2> HIDE DEF y
  <2> QED
    BY <2>1, <2>2 DEF y
<1> QED
  BY <1>3, <1>4, <1>5, <1>6

\* What a backend gives on: a frame, none yet, nothing more, or a failure.
Gives(x, y, n) ==
  LET b == x.nodes[n]
      c == y.nodes[n]
  IN  /\ Passes(x, y, n) /\ y.status \in {"ok", "blocked", "eos", "failed"}
      /\ y.status = "failed" => Denied(x)
      /\ c.in = b.in /\ c.pending_input = b.pending_input
      /\ c.drain_started = b.drain_started /\ c.accepted = b.accepted
      /\ y.status \in {"ok", "blocked"} => c.backend = b.backend
      /\ y.status = "eos" => /\ b.backend = "Draining" /\ c.backend = "Stopped"
                             /\ c.queue = <<>> /\ c.pending_output = <<>>

\* What taking an output and sending it does.
LEMMA ReceiveAndSendTells ==
  ASSUME NEW x \in Results, Fits(x), NEW n \in Backends,
         x.nodes[n].pending_output = <<>>,
         x.nodes[n].backend \in {"Configured", "Running", "Draining"}
  PROVE  Gives(x, ReceiveAndSend(x, n), n)
<1> DEFINE got == Receive(x, n)
           y == SendPending(got, n)
<1>1. Gives(x, got, n)
  BY ReceiveTells DEF Gives
<1>2. CASE got.status # "ok"
  BY <1>1, <1>2 DEF ReceiveAndSend
<1>3. CASE got.status = "ok"
  <2>1. got \in Results /\ Fits(got) /\ n \in {"source", "processor", "encoder"}
        /\ got.fault = x.fault
    BY <1>1 DEF Gives, Passes, Others, Backends
  <2>2. ReceiveAndSend(x, n) = IF x.fault = "send_new" /\ HasRoom(x.nodes[Sink(n)].in)
                               THEN Give(got, "failed") ELSE y
    BY <1>3 DEF ReceiveAndSend, Hard
  <2> HIDE DEF got
  <2>3. /\ Passes(got, y, n) /\ y.status \in {"ok", "blocked", "failed"}
        /\ y.status = "failed" => Denied(got)
        /\ Kin(got.nodes[n], y.nodes[n]) /\ y.nodes[n].in = got.nodes[n].in
        /\ y.nodes[n].pending_input = got.nodes[n].pending_input
    BY <2>1, SendTells
  <2> HIDE DEF y
  <2>4. Passes(x, y, n)
    BY <1>1, <1>3, <2>3, PassesTwice DEF Gives
  <2>5. Gives(x, y, n)
    BY <1>1, <1>3, <2>1, <2>3, <2>4 DEF Gives, Kin, Denied
  <2>6. ASSUME x.fault = "send_new" PROVE Gives(x, Give(got, "failed"), n)
    <3>1. /\ Passes(got, Give(got, "failed"), n) /\ Give(got, "failed").nodes = got.nodes
          /\ Give(got, "failed").status = "failed"
      BY <2>1, PassesGive, GiveTells
    <3>2. Passes(x, Give(got, "failed"), n)
      BY <1>1, <1>3, <3>1, PassesTwice DEF Gives
    <3>3. Denied(x)
      BY <2>6 DEF Denied, Failures
    <3> QED
      BY <1>1, <3>1, <3>2, <3>3 DEF Gives
  <2> QED
    BY <2>2, <2>5, <2>6
<1> QED
  BY <1>2, <1>3

\* A lost device is one that has taken as many frames as it may.
Lost(b) == LostAfter # 0 /\ b.accepted >= LostAfter

\* A call of a node whose backend serves: it serves on, unless its device
\* is lost or a step outside fails.
Works(x, y, n) ==
  LET b == x.nodes[n]
      c == y.nodes[n]
  IN  /\ Passes(x, y, n)
      /\ y.status \in {"ok", "blocked", "failed"}
      /\ y.status # "failed" => Serving(c)
      /\ y.status = "failed" => Lost(b) \/ Denied(x)
      /\ LostAfter # 0 /\ b.accepted <= LostAfter => c.accepted <= LostAfter

\* One call of a serving node after another.
LEMMA WorksTwice ==
  ASSUME NEW x, NEW y, NEW z, NEW n, Works(x, y, n), Works(y, z, n), y.status # "failed",
         y.nodes[n].accepted = x.nodes[n].accepted
  PROVE  Works(x, z, n)
<1>1. Passes(x, z, n)
  BY PassesTwice DEF Works
<1>2. Denied(y) => Denied(x)
  BY DEF Works, Passes, Others, Denied
<1> QED
  BY <1>1, <1>2 DEF Works, Lost

\* The pending input of a backend that serves is accepted, kept, or lost with the
\* device, or refused for lack of memory.
LEMMA SubmitTells ==
  ASSUME NEW x \in Results, Fits(x), NEW n \in Backends, Serving(x.nodes[n]),
         x.nodes[n].pending_input # <<>>
  PROVE  LET y == SubmitPending(x, n)
         IN  /\ Works(x, y, n) /\ y.nodes[n].pending_output = x.nodes[n].pending_output
             /\ y.status = "failed" => y.nodes[n].pending_input = x.nodes[n].pending_input
             /\ y.status = "blocked" => y.nodes[n].accepted = x.nodes[n].accepted
<1> DEFINE y == SubmitPending(x, n)
           b == x.nodes[n]
           z == Set(x, n, "queue", <<>>)
           w == Set(z, n, "backend", "Error")
           v == [x EXCEPT !.nodes[n] = Accepted(b)]
<1>1. n \in Node /\ b \in NodeType /\ Fit(b) /\ b.accepted \in Nat /\ LostAfter \in Nat
  BY NodesTold, ResultsTold, OptionAssumption DEF Fits
<1>2. y = IF Lost(b) THEN Give(w, "failed")
          ELSE IF Len(b.queue) >= QueueCapacity THEN Give(x, "blocked")
          ELSE IF x.fault = "submit" THEN Give(x, "failed") ELSE Give(v, "ok")
  BY DEF SubmitPending, CanSubmit, Serving, Hard, Block, Ok, Lost
<1>3. CASE Lost(b)
  <2>1. <<>> \in Seq(Frames) /\ Len(<<>>) = 0
    OBVIOUS
  <2>2. Sets(x, z, n, b.in, <<>>, b.pending_input, b.pending_output)
    BY <1>1, <2>1, SetTells
  <2>3. z \in Results
    BY <2>2 DEF Sets
  <2> HIDE DEF z
  <2>4. /\ w \in Results /\ w.out = z.out /\ w.pts = z.pts
        /\ w.create = z.create /\ w.fault = z.fault
        /\ \A m \in Node : m # n => w.nodes[m] = z.nodes[m]
        /\ w.nodes[n].in = z.nodes[n].in /\ w.nodes[n].queue = z.nodes[n].queue
        /\ w.nodes[n].pending_input = z.nodes[n].pending_input
        /\ w.nodes[n].pending_output = z.nodes[n].pending_output
        /\ w.nodes[n].accepted = z.nodes[n].accepted
    BY <1>1, <2>3, SetBackendTells
  <2> HIDE DEF w
  <2>5. /\ y \in Results /\ y.status = "failed" /\ y.nodes = w.nodes /\ y.out = w.out
        /\ y.pts = w.pts /\ y.create = w.create /\ y.fault = w.fault
    BY <1>2, <1>3, <2>4, GiveTells
  <2> HIDE DEF y, b
  <2>6. /\ \A m \in Node : m # n => y.nodes[m] = x.nodes[m]
        /\ y.nodes[n].in = b.in /\ y.nodes[n].queue = <<>> /\ y.nodes[n].accepted = b.accepted
        /\ y.nodes[n].pending_input = b.pending_input
        /\ y.nodes[n].pending_output = b.pending_output
        /\ y.out = x.out /\ y.pts = x.pts /\ y.create = x.create /\ y.fault = x.fault
    BY <2>2, <2>4, <2>5 DEF Sets, Kin, b
  <2>7. Others(x, y, n)
    BY <2>6 DEF Others, Unmoved, Kin
  <2>8. Fits(y)
    <3>1. Fit(y.nodes[n])
      BY <1>1, <2>1, <2>6, CapacityAssumption DEF Fit
    <3> QED
      BY <2>6, <3>1 DEF Fits
  <2>9. /\ Ordered(Parts(x)) => Ordered(Parts(y))
        /\ \A f : Holds(Parts(y), f) => Holds(Parts(x), f)
    <3>1. LET k == First(n)
              P == Parts(x)
              Q == Parts(y)
          IN  /\ k \in {3, 7}
              /\ P[k] = Q[k] /\ Q[k + 1] = <<>> /\ P[k + 2] = Q[k + 2] /\ P[k + 3] = Q[k + 3]
              /\ \A m \in 1..11 : m # k /\ m # k + 1 /\ m # k + 2 /\ m # k + 3 => Q[m] = P[m]
      BY <2>6, PartsOf DEF b
    <3>2. \A m \in 1..11 : Parts(y)[m] = Parts(x)[m] \/ Parts(y)[m] = <<>>
      BY <3>1, Zenon
    <3>3. Parts(x) \in Stretches /\ Parts(y) \in Stretches
      BY <2>5, PartsTyped
    <3> HIDE DEF Parts
    <3>4. Ordered(Parts(x)) => Ordered(Parts(y))
      BY <3>2, <3>3, DropOrdered
    <3>5. \A f : Holds(Parts(y), f) => Holds(Parts(x), f)
      <4>1. \A m \in 1..11 : \A i \in 1..Len(Parts(y)[m]) : Parts(y)[m] = Parts(x)[m]
        <5>1. 1..Len(<<>>) = {}
          OBVIOUS
        <5> QED
          BY <3>2, <5>1
      <4> QED
        BY <4>1, Zenon DEF Holds
    <3> QED
      BY <3>4, <3>5
  <2>10. Passes(x, y, n)
    BY <2>5, <2>7, <2>8, <2>9 DEF Passes
  <2> QED
    BY <1>3, <2>5, <2>6, <2>10 DEF Works, y, b
<1>4. CASE ~Lost(b) /\ Len(b.queue) >= QueueCapacity
  <2>1. y = Give(x, "blocked")
    BY <1>2, <1>4
  <2>2. Passes(x, y, n) /\ y.nodes = x.nodes /\ y.status = "blocked"
    BY <2>1, PassesGive, GiveTells
  <2> HIDE DEF y
  <2> QED
    BY <2>2 DEF y, Works
<1>5. CASE ~Lost(b) /\ ~(Len(b.queue) >= QueueCapacity) /\ x.fault # "submit"
  <2> DEFINE c == Accepted(b)
  <2>1. /\ b.pending_input \in Seq(Frames) /\ b.queue \in Seq(Frames) /\ b.pending_input # <<>>
        /\ Len(b.pending_input) <= 1 /\ QueueCapacity \in Nat
    BY <1>1, ResultsTold, CapacityAssumption DEF Fit
  <2>2. /\ b.queue \o b.pending_input = Append(b.queue, Head(b.pending_input))
        /\ b.queue \o b.pending_input \in Seq(Frames) /\ Tail(b.pending_input) = <<>>
        /\ Len(b.queue \o b.pending_input) = Len(b.queue) + 1
    BY <2>1, One, ZenonT(60)
  <2>3. <<>> \in Seq(Frames) /\ Len(<<>>) = 0
    OBVIOUS
  <2>4. /\ c \in NodeType /\ c.in = b.in /\ c.queue = b.queue \o b.pending_input
        /\ c.pending_input = <<>> /\ c.pending_output = b.pending_output
        /\ c.accepted = b.accepted + 1 /\ c.backend = "Running"
        /\ c.drain_started = b.drain_started
    <3> DEFINE q == b.queue \o b.pending_input
               a == b.accepted + 1
    <3>1. c = [b EXCEPT !.queue = q, !.pending_input = <<>>, !.accepted = a, !.backend = "Running"]
      BY DEF Accepted
    <3>2. q \in Seq(Frames) /\ a \in Nat
      BY <1>1, <2>2
    <3> HIDE DEF q, a, b, c
    <3>3. /\ c.in = b.in /\ c.queue = q /\ c.pending_input = <<>> /\ c.accepted = a
          /\ c.pending_output = b.pending_output /\ c.backend = "Running"
          /\ c.drain_started = b.drain_started
      BY <1>1, <3>1 DEF NodeType
    <3>4. c \in NodeType
      BY <1>1, <2>3, <3>1, <3>2 DEF NodeType
    <3> QED
      BY <3>3, <3>4 DEF q, a
  <2>5. v = [x EXCEPT !.nodes = [x.nodes EXCEPT ![n] = c]]
    OBVIOUS
  <2> HIDE DEF c, v
  <2>6. /\ v \in Results /\ v.out = x.out /\ v.pts = x.pts
        /\ v.create = x.create /\ v.fault = x.fault
        /\ v.nodes[n] = c /\ \A m \in Node : m # n => v.nodes[m] = x.nodes[m]
    BY <1>1, <2>4, <2>5, ReplaceTells
  <2>7. /\ y \in Results /\ y.status = "ok" /\ y.nodes = v.nodes /\ y.out = v.out
        /\ y.pts = v.pts /\ y.create = v.create /\ y.fault = v.fault
    BY <1>2, <1>5, <2>6, GiveTells
  <2> HIDE DEF y
  <2>8. y.nodes[n] = c /\ \A m \in Node : m # n => y.nodes[m] = x.nodes[m]
    BY <2>6, <2>7
  <2>9. Others(x, y, n)
    BY <2>6, <2>7, <2>8 DEF Others, Unmoved, Kin
  <2>10. Fits(y)
    <3>1. Len(b.queue) \in Nat
      BY <2>1
    <3>2. Len(c.queue) <= QueueCapacity
      BY <1>5, <2>1, <2>2, <2>4, <3>1
    <3>3. Len(c.pending_input) = 0
      BY <2>3, <2>4, Zenon
    <3>4. Fit(c)
      <4>1. /\ Len(b.in) <= InputCapacity /\ Len(b.pending_output) <= 1
            /\ c.in = b.in /\ c.pending_output = b.pending_output
        BY <1>1, <2>4 DEF Fit
      <4> HIDE DEF b
      <4> QED
        BY <3>2, <3>3, <4>1 DEF Fit
    <3> QED
      BY <2>8, <3>4 DEF Fits
  <2>11. /\ Ordered(Parts(x)) => Ordered(Parts(y))
         /\ \A f : Holds(Parts(y), f) <=> Holds(Parts(x), f)
    <3>1. Shift(b, y.nodes[n])
      BY <2>1, <2>2, <2>4, <2>8 DEF Shift
    <3> QED
      BY <2>6, <2>7, <2>8, <3>1, StepUp
  <2>12. Passes(x, y, n)
    BY <2>7, <2>9, <2>10, <2>11 DEF Passes
  <2>13. Serving(c)
    BY <2>4 DEF Serving
  <2>14. LostAfter # 0 /\ b.accepted <= LostAfter => c.accepted <= LostAfter
    BY <1>1, <1>5, <2>4 DEF Lost
  <2>15. Works(x, y, n)
    BY <2>7, <2>8, <2>12, <2>13, <2>14 DEF Works
  <2> QED
    BY <2>4, <2>7, <2>8, <2>15 DEF y
<1>6. CASE ~Lost(b) /\ ~(Len(b.queue) >= QueueCapacity) /\ x.fault = "submit"
  <2>1. y = Give(x, "failed") /\ Denied(x)
    BY <1>2, <1>6 DEF Denied, Failures
  <2>2. Passes(x, y, n) /\ y.nodes = x.nodes /\ y.status = "failed"
    BY <2>1, PassesGive, GiveTells
  <2> HIDE DEF y
  <2> QED
    BY <2>1, <2>2 DEF y, Works
<1> QED
  BY <1>3, <1>4, <1>5, <1>6

\* The next input becomes the pending one.
LEMMA TakeTells ==
  ASSUME NEW x \in Results, Fits(x), NEW n \in Backends,
         x.nodes[n].pending_input = <<>>, x.nodes[n].in # <<>>
  PROVE  LET y == TakeInput(x, n)
             b == x.nodes[n]
             c == y.nodes[n]
         IN  /\ Passes(x, y, n) /\ y.status = x.status /\ Kin(b, c)
             /\ c.pending_input # <<>> /\ c.pending_output = b.pending_output
             /\ c.queue = b.queue
<1> DEFINE y == TakeInput(x, n)
           b == x.nodes[n]
           c == [b EXCEPT !.pending_input = <<Head(b.in)>>, !.in = Tail(b.in)]
<1>1. n \in Node /\ b \in NodeType /\ Fit(b) /\ b.in \in Seq(Frames)
  BY NodesTold, ResultsTold DEF Fits
<1>2. /\ <<Head(b.in)>> \in Seq(Frames) /\ Tail(b.in) \in Seq(Frames)
      /\ Append(<<>>, Head(b.in)) = <<Head(b.in)>> /\ Len(<<Head(b.in)>>) = 1
      /\ Len(Tail(b.in)) <= Len(b.in) /\ <<Head(b.in)>> # <<>>
  BY <1>1, One
<1>3. y = [x EXCEPT !.nodes = [x.nodes EXCEPT ![n] = c]]
  <2>1. x.nodes \in [Node -> NodeType]
    BY ResultsTold
  <2>2. DOMAIN x.nodes = Node
    BY <2>1
  <2>3. [[x.nodes EXCEPT ![n] = [b EXCEPT !.pending_input = <<Head(b.in)>>]] EXCEPT ![n] =
            [[b EXCEPT !.pending_input = <<Head(b.in)>>] EXCEPT !.in = Tail(b.in)]]
        = [x.nodes EXCEPT ![n] = c]
    BY <1>1, <2>1
  <2> QED
    BY <1>1, <2>1, <2>2, <2>3 DEF TakeInput, NodeType, Results
<1>4. /\ c \in NodeType /\ Kin(b, c) /\ c.in = Tail(b.in) /\ c.queue = b.queue
      /\ c.pending_input = <<Head(b.in)>> /\ c.pending_output = b.pending_output
  <2> DEFINE h == <<Head(b.in)>>
             t == Tail(b.in)
  <2>1. c = [b EXCEPT !.pending_input = h, !.in = t] /\ h \in Seq(Frames) /\ t \in Seq(Frames)
    BY <1>2
  <2> HIDE DEF h, t, b, c
  <2>2. /\ c \in NodeType /\ Kin(b, c) /\ c.in = t /\ c.queue = b.queue
        /\ c.pending_input = h /\ c.pending_output = b.pending_output
    BY <1>1, <2>1 DEF NodeType, Kin
  <2> QED
    BY <2>2 DEF h, t
<1> HIDE DEF c, y
<1>5. /\ y \in Results /\ y.out = x.out /\ y.pts = x.pts /\ y.status = x.status
      /\ y.create = x.create /\ y.fault = x.fault
      /\ y.nodes[n] = c /\ \A m \in Node : m # n => y.nodes[m] = x.nodes[m]
  BY <1>1, <1>3, <1>4, ReplaceTells
<1>6. Others(x, y, n)
  BY <1>5 DEF Others, Unmoved, Kin
<1>7. Fits(y)
  <2>1. Len(Tail(b.in)) \in Nat /\ Len(b.in) \in Nat /\ InputCapacity \in Nat
    BY <1>1, <1>2, CapacityAssumption
  <2>2. Len(c.in) <= InputCapacity
    BY <1>1, <1>2, <1>4, <2>1 DEF Fit
  <2>3. Len(c.pending_input) = 1
    BY <1>2, <1>4
  <2>4. Len(b.queue) <= QueueCapacity /\ Len(b.pending_output) <= 1
    BY <1>1 DEF Fit
  <2>5. Fit(c)
    <3> HIDE DEF b
    <3> QED
      BY <1>4, <2>2, <2>3, <2>4 DEF Fit
  <2> QED
    BY <1>5, <2>5 DEF Fits
<1>8. /\ Ordered(Parts(x)) => Ordered(Parts(y))
      /\ \A f : Holds(Parts(y), f) <=> Holds(Parts(x), f)
  <2>1. Shift(b, y.nodes[n])
    BY <1>2, <1>4, <1>5 DEF Shift
  <2> QED
    BY <1>5, <2>1, StepUp
<1>9. Passes(x, y, n)
  BY <1>5, <1>6, <1>7, <1>8 DEF Passes
<1> QED
  BY <1>2, <1>4, <1>5, <1>9 DEF y

\* A status alone keeps a node serving.
LEMMA WorksGive ==
  ASSUME NEW x \in Results, Fits(x), NEW n, Serving(x.nodes[n]), NEW s \in {"ok", "blocked"}
  PROVE  Works(x, Give(x, s), n)
<1>1. Passes(x, Give(x, s), n) /\ Give(x, s).nodes = x.nodes /\ Give(x, s).status = s
  BY PassesGive, GiveTells
<1> QED
  BY <1>1 DEF Works

\* What there is to submit is submitted.
LEMMA SubmitNextTells ==
  ASSUME NEW x \in Results, Fits(x), NEW n \in Backends, Serving(x.nodes[n]),
         x.status # "failed"
  PROVE  LET y == SubmitNext(x, n)
         IN  /\ Works(x, y, n) /\ y.nodes[n].pending_output = x.nodes[n].pending_output
             /\ y.status = "failed" /\ x.nodes[n].pending_input # <<>> =>
                  y.nodes[n].pending_input = x.nodes[n].pending_input
             /\ y.status = "blocked" => y.nodes[n].accepted = x.nodes[n].accepted
<1> DEFINE y == SubmitNext(x, n)
           z == TakeInput(x, n)
           w == SubmitPending(z, n)
<1>1. CASE x.nodes[n].pending_input # <<>>
  <2>1. y = SubmitPending(x, n)
    BY <1>1 DEF SubmitNext
  <2> QED
    BY <1>1, <2>1, SubmitTells
<1>2. CASE x.nodes[n].pending_input = <<>> /\ x.nodes[n].in # <<>>
  <2>1. y = w
    BY <1>2 DEF SubmitNext
  <2>2. /\ Passes(x, z, n) /\ z.status = x.status /\ Kin(x.nodes[n], z.nodes[n])
        /\ z.nodes[n].pending_input # <<>>
        /\ z.nodes[n].pending_output = x.nodes[n].pending_output
    BY <1>2, TakeTells
  <2> HIDE DEF z
  <2>3. Serving(z.nodes[n])
    BY <2>2 DEF Serving, Kin
  <2>4. /\ Works(z, w, n) /\ w.nodes[n].pending_output = z.nodes[n].pending_output
        /\ w.status = "blocked" => w.nodes[n].accepted = z.nodes[n].accepted
    BY <2>2, <2>3, SubmitTells DEF Passes
  <2> HIDE DEF w, y
  <2>5. Passes(x, w, n)
    BY <2>2, <2>4, PassesTwice DEF Works
  <2>6. Works(x, w, n)
    <3>1. Denied(z) => Denied(x)
      BY <2>2 DEF Passes, Others, Denied
    <3> QED
      BY <2>2, <2>4, <2>5, <3>1 DEF Works, Kin, Lost
  <2> QED
    BY <1>2, <2>1, <2>2, <2>4, <2>6 DEF y, Kin
<1>3. CASE x.nodes[n].pending_input = <<>> /\ x.nodes[n].in = <<>>
  <2>1. y = Give(x, "ok")
    BY <1>3 DEF SubmitNext, Ok
  <2>2. Works(x, y, n) /\ y.nodes = x.nodes
    BY <2>1, WorksGive, GiveTells
  <2> HIDE DEF y
  <2> QED
    BY <1>3, <2>2 DEF y
<1> QED
  BY <1>1, <1>2, <1>3

\* In a tick, a frame just received is lost with the device.
LEMMA TickSubmitsTells ==
  ASSUME NEW x \in Results, Fits(x), NEW n \in Backends, Serving(x.nodes[n]),
         x.status # "failed"
  PROVE  Works(x, TickSubmits(x, n), n)
<1> DEFINE e == SubmitNext(x, n)
           b == x.nodes[n]
           y == Set(e, n, "pending_input", b.pending_input)
<1>1. /\ Works(x, e, n)
      /\ e.status = "failed" /\ b.pending_input # <<>> => e.nodes[n].pending_input = b.pending_input
  BY SubmitNextTells
<1>2. n \in Node /\ b.pending_input \in Seq(Frames) /\ Fit(b) /\ e \in Results /\ Fits(e)
  BY <1>1, NodesTold, ResultsTold DEF Fits, Works, Passes
<1>3. CASE e.status # "failed"
  BY <1>1, <1>3 DEF TickSubmits
<1>4. CASE e.status = "failed"
  <2>1. TickSubmits(x, n) = y
    BY <1>4 DEF TickSubmits
  <2> HIDE DEF e, b
  <2>2. Sets(e, y, n, e.nodes[n].in, e.nodes[n].queue, b.pending_input, e.nodes[n].pending_output)
    BY <1>2, SetTells
  <2> HIDE DEF y
  <2>3. /\ y \in Results /\ y.status = "failed" /\ y.out = e.out /\ y.pts = e.pts
        /\ y.create = e.create /\ y.fault = e.fault /\ Kin(e.nodes[n], y.nodes[n])
        /\ \A m \in Node : m # n => y.nodes[m] = e.nodes[m]
    BY <1>4, <2>2 DEF Sets
  <2>4. Others(e, y, n)
    BY <2>3 DEF Others, Unmoved, Kin
  <2>5. Fits(y)
    <3>1. Fit(e.nodes[n])
      BY <1>2 DEF Fits
    <3>2. Fit(y.nodes[n])
      BY <1>2, <2>2, <3>1 DEF Fit, Sets
    <3> QED
      BY <1>2, <2>3, <3>2 DEF Fits
  <2>6. /\ Ordered(Parts(e)) => Ordered(Parts(y))
        /\ \A f : Holds(Parts(y), f) => Holds(Parts(e), f)
    <3>1. y.nodes[n].pending_input = e.nodes[n].pending_input \/ y.nodes[n].pending_input = <<>>
      BY <1>1, <1>4, <2>2 DEF Sets
    <3>2. LET k == First(n)
              P == Parts(e)
              Q == Parts(y)
          IN  /\ k \in {3, 7}
              /\ P[k] = Q[k] /\ P[k + 1] = Q[k + 1] /\ P[k + 3] = Q[k + 3]
              /\ Q[k + 2] = P[k + 2] \/ Q[k + 2] = <<>>
              /\ \A m \in 1..11 : m # k /\ m # k + 1 /\ m # k + 2 /\ m # k + 3 => Q[m] = P[m]
      BY <2>2, <2>3, <3>1, PartsOf DEF Sets
    <3>3. \A m \in 1..11 : Parts(y)[m] = Parts(e)[m] \/ Parts(y)[m] = <<>>
      BY <3>2, Zenon
    <3>4. Parts(e) \in Stretches /\ Parts(y) \in Stretches
      BY <1>2, <2>3, PartsTyped
    <3>5. Ordered(Parts(e)) => Ordered(Parts(y))
      BY <3>3, <3>4, DropOrdered
    <3>6. \A f : Holds(Parts(y), f) => Holds(Parts(e), f)
      <4>1. \A m \in 1..11 : \A i \in 1..Len(Parts(y)[m]) : Parts(y)[m] = Parts(e)[m]
        <5>1. 1..Len(<<>>) = {}
          OBVIOUS
        <5> QED
          BY <3>3, <5>1
      <4> QED
        BY <4>1, Zenon DEF Holds
    <3> QED
      BY <3>5, <3>6
  <2>7. Passes(x, y, n)
    <3>1. Others(x, y, n)
      BY <1>1, <2>4, OthersTwice DEF Works, Passes
    <3> QED
      BY <1>1, <2>3, <2>5, <2>6, <3>1 DEF Works, Passes
  <2>8. Works(x, y, n)
    BY <1>1, <1>4, <2>3, <2>7 DEF Works, Kin
  <2> QED
    BY <2>1, <2>8
<1> QED
  BY <1>3, <1>4

\* A pending output sent by a node that serves.
LEMMA SendWorks ==
  ASSUME NEW x \in Results, Fits(x), NEW n \in Backends, Serving(x.nodes[n])
  PROVE  LET y == SendPending(x, n)
         IN  /\ Works(x, y, n) /\ y.status \in {"ok", "blocked", "failed"}
             /\ y.nodes[n].accepted = x.nodes[n].accepted
             /\ y.status = "ok" => y.nodes[n].pending_output = <<>>
<1> DEFINE y == SendPending(x, n)
<1>1. /\ Passes(x, y, n) /\ y.status \in {"ok", "blocked", "failed"} /\ Kin(x.nodes[n], y.nodes[n])
      /\ y.status = "failed" => Denied(x)
      /\ y.status = "ok" => y.nodes[n].pending_output = <<>>
  BY SendTells DEF Backends
<1> HIDE DEF y
<1>2. Works(x, y, n)
  BY <1>1 DEF Works, Kin, Serving
<1> QED
  BY <1>1, <1>2 DEF y, Kin

\* What a backend gives on while it serves.
LEMMA GivesWorks ==
  ASSUME NEW x, NEW y, NEW n, Gives(x, y, n), Serving(x.nodes[n])
  PROVE  Works(x, y, n) /\ y.status # "eos" /\ y.nodes[n].accepted = x.nodes[n].accepted
BY DEF Gives, Works, Serving

\* A tick of a node that serves.
LEMMA TickBackendTells ==
  ASSUME NEW x \in Results, Fits(x), NEW n \in Backends, Serving(x.nodes[n])
  PROVE  Works(x, TickBackend(x, n), n)
<1> DEFINE sent == SendPending(x, n)
           got == Receive(sent, n)
           full == ReceiveAndSend(sent, n)
           y == TickSubmits(full, n)
<1>1. /\ Works(x, sent, n) /\ sent.status \in {"ok", "blocked", "failed"}
      /\ sent.nodes[n].accepted = x.nodes[n].accepted
      /\ sent.status = "ok" => sent.nodes[n].pending_output = <<>>
  BY SendWorks
<1>2. CASE sent.status # "ok"
  BY <1>1, <1>2 DEF TickBackend
<1>3. CASE sent.status = "ok"
  <2>1. /\ sent \in Results /\ Fits(sent) /\ Serving(sent.nodes[n])
        /\ sent.nodes[n].pending_output = <<>>
    BY <1>1, <1>3 DEF Works, Passes
  <2> HIDE DEF sent
  <2>2. sent.nodes[n].backend \in {"Configured", "Running", "Draining"}
    BY <2>1 DEF Serving
  <2>3. Gives(sent, got, n) /\ Gives(sent, full, n)
    <3>1. Gives(sent, got, n)
      BY <2>1, <2>2, ReceiveTells DEF Gives
    <3>2. Gives(sent, full, n)
      BY <2>1, <2>2, ReceiveAndSendTells
    <3> QED
      BY <3>1, <3>2
  <2>4. /\ got.status # "eos" /\ Works(sent, got, n)
        /\ got.nodes[n].accepted = sent.nodes[n].accepted
        /\ Works(sent, full, n) /\ full.status # "eos"
        /\ full.nodes[n].accepted = sent.nodes[n].accepted
    <3>1. /\ got.status # "eos" /\ Works(sent, got, n)
          /\ got.nodes[n].accepted = sent.nodes[n].accepted
      BY <2>1, <2>3, GivesWorks
    <3>2. /\ Works(sent, full, n) /\ full.status # "eos"
          /\ full.nodes[n].accepted = sent.nodes[n].accepted
      BY <2>1, <2>3, GivesWorks
    <3> QED
      BY <3>1, <3>2
  <2>5. /\ Works(x, got, n)
        /\ Works(x, full, n) /\ full.nodes[n].accepted = x.nodes[n].accepted
    <3> HIDE DEF full, got
    <3> QED
      BY <1>1, <1>3, <2>4, WorksTwice
  <2>6. TickBackend(x, n) = IF got.status = "failed" THEN got
                            ELSE IF got.status = "ok" /\ full.status # "ok" THEN full ELSE y
    BY <1>3, <2>4 DEF TickBackend, sent
  <2>7. CASE got.status = "failed" \/ (got.status = "ok" /\ full.status # "ok")
    BY <2>5, <2>6, <2>7
  <2>8. CASE got.status # "failed" /\ ~(got.status = "ok" /\ full.status # "ok")
    <3>0. full.status # "failed"
      <4>1. got.status \in {"ok", "blocked"}
        BY <2>3, <2>4, <2>8 DEF Gives
      <4>2. CASE got.status = "ok"
        BY <2>8, <4>2
      <4>3. CASE got.status = "blocked"
        <5>1. full = got
          BY <4>3 DEF ReceiveAndSend
        <5> QED
          BY <4>3, <5>1
      <4> QED
        BY <4>1, <4>2, <4>3
    <3> HIDE DEF full
    <3>1. full \in Results /\ Fits(full) /\ Serving(full.nodes[n])
      BY <2>4, <3>0 DEF Works, Passes
    <3>2. Works(full, y, n)
      BY <3>0, <3>1, TickSubmitsTells
    <3> HIDE DEF y
    <3>3. Works(x, y, n)
      BY <2>5, <3>0, <3>2, WorksTwice
    <3> QED
      BY <2>6, <2>8, <3>3
  <2> QED
    BY <2>7, <2>8
<1> QED
  BY <1>1, <1>2, <1>3

\* A call with another status.
LEMMA WorksGiven ==
  ASSUME NEW x, NEW y, NEW n, Works(x, y, n), y.status # "failed", NEW s \in {"ok", "blocked"}
  PROVE  LET z == Give(y, s)
         IN  Works(x, z, n) /\ z.nodes = y.nodes /\ z.status = s /\ z \in Results /\ Fits(z)
<1> DEFINE z == Give(y, s)
<1>1. y \in Results /\ Fits(y)
  BY DEF Works, Passes
<1>2. /\ Passes(y, z, n) /\ z.nodes = y.nodes /\ z.status = s /\ z \in Results
  BY <1>1, PassesGive, GiveTells
<1> HIDE DEF z
<1>3. Passes(x, z, n)
  BY <1>2, PassesTwice DEF Works
<1>4. Works(x, z, n)
  BY <1>2, <1>3 DEF Works
<1> QED
  BY <1>2, <1>3, <1>4 DEF z, Passes

\* A drain that has moved a frame asks for another turn.
LEMMA AgainTells ==
  ASSUME NEW y
  PROVE  /\ y.status = "ok" => Again(y) = Give(y, "blocked")
         /\ y.status # "ok" => Again(y) = y
BY DEF Again, Block

\* Until a drain has no input left, it keeps submitting.
LEMMA FlushTells ==
  ASSUME NEW x \in Results, Fits(x), NEW n \in Backends, Serving(x.nodes[n]),
         x.nodes[n].pending_output = <<>>, x.status = "ok"
  PROVE  LET y == FlushInput(x, n)
         IN  /\ Works(x, y, n)
             /\ y.status = "ok" => /\ y.nodes = x.nodes
                                   /\ y.nodes[n].pending_input = <<>> /\ y.nodes[n].in = <<>>
<1> DEFINE y == FlushInput(x, n)
           b == x.nodes[n]
           tried == SubmitNext(x, n)
           again == Give(tried, "ok")
           freed == ReceiveAndSend(again, n)
<1>1. CASE b.pending_input = <<>> /\ b.in = <<>>
  <2>1. y = Give(x, "ok")
    BY <1>1 DEF FlushInput, Ok
  <2>2. Works(x, y, n) /\ y.nodes = x.nodes
    BY <2>1, WorksGive, GiveTells
  <2> HIDE DEF y
  <2> QED
    BY <1>1, <2>2 DEF y
<1>2. CASE ~(b.pending_input = <<>> /\ b.in = <<>>)
  <2>1. /\ Works(x, tried, n) /\ tried.nodes[n].pending_output = <<>>
        /\ tried.status = "blocked" => tried.nodes[n].accepted = b.accepted
    BY SubmitNextTells
  <2>2. y = IF b.pending_input = <<>> \/ tried.status # "blocked" THEN Again(tried)
            ELSE IF freed.status = "eos" THEN Hard(freed) ELSE Again(freed)
    BY <1>2 DEF FlushInput, Ok
  <2> HIDE DEF tried
  <2>3. tried.status \in {"ok", "blocked", "failed"}
    BY <2>1 DEF Works
  <2>4. CASE b.pending_input = <<>> \/ tried.status # "blocked"
    <3>1. Works(x, Again(tried), n) /\ Again(tried).status # "ok"
      <4>1. CASE tried.status = "ok"
        <5>1. Works(x, Give(tried, "blocked"), n) /\ Give(tried, "blocked").status = "blocked"
          BY <2>1, <4>1, WorksGiven
        <5> QED
          BY <4>1, <5>1, AgainTells
      <4>2. CASE tried.status # "ok"
        BY <2>1, <4>2, AgainTells
      <4> QED
        BY <4>1, <4>2
    <3> QED
      BY <2>2, <2>4, <3>1
  <2>5. CASE ~(b.pending_input = <<>> \/ tried.status # "blocked")
    <3>1. /\ Works(x, again, n) /\ again.nodes = tried.nodes /\ again.status = "ok"
          /\ again \in Results /\ Fits(again)
      BY <2>1, <2>5, WorksGiven
    <3> HIDE DEF again
    <3>2. Serving(again.nodes[n]) /\ again.nodes[n].pending_output = <<>>
          /\ again.nodes[n].accepted = b.accepted
      BY <2>1, <2>5, <3>1 DEF Works
    <3>3. Gives(again, freed, n)
      BY <3>1, <3>2, ReceiveAndSendTells DEF Serving
    <3> HIDE DEF freed
    <3>4. Works(again, freed, n) /\ freed.status # "eos"
      BY <3>2, <3>3, GivesWorks
    <3>5. Works(x, freed, n)
      BY <3>1, <3>2, <3>3, <3>4, WorksTwice DEF Gives
    <3>6. Works(x, Again(freed), n) /\ Again(freed).status # "ok"
      <4>1. CASE freed.status = "ok"
        <5>1. Works(x, Give(freed, "blocked"), n) /\ Give(freed, "blocked").status = "blocked"
          BY <3>5, <4>1, WorksGiven
        <5> QED
          BY <4>1, <5>1, AgainTells
      <4>2. CASE freed.status # "ok"
        BY <3>5, <4>2, AgainTells
      <4> QED
        BY <4>1, <4>2
    <3>7. y = Again(freed)
      BY <2>2, <2>5, <3>4
    <3> QED
      BY <3>6, <3>7
  <2> QED
    BY <2>4, <2>5
<1> QED
  BY <1>1, <1>2

\* A call of stop on a node: it serves or drains on, is drained, its device is
\* lost, or a step outside fails.
Stops(x, y, n) ==
  LET b == x.nodes[n]
      c == y.nodes[n]
  IN  /\ Passes(x, y, n)
      /\ y.status \in {"blocked", "eos", "failed"}
      /\ y.status = "blocked" => Serving(c) \/ Ending(c)
      /\ y.status = "eos" => Drained(c)
      /\ y.status = "failed" => Lost(b) \/ Denied(x)
      /\ LostAfter # 0 /\ b.accepted <= LostAfter => c.accepted <= LostAfter

\* A call of a serving node is a turn of its drain.
LEMMA StopsWorks ==
  ASSUME NEW x, NEW y, NEW n, Works(x, y, n)
  PROVE  Stops(x, Again(y), n)
<1>1. CASE y.status = "ok"
  <2>1. /\ Works(x, Give(y, "blocked"), n) /\ Give(y, "blocked").status = "blocked"
    BY <1>1, WorksGiven
  <2> QED
    BY <1>1, <2>1, AgainTells DEF Works, Stops
<1>2. CASE y.status # "ok"
  BY <1>2, AgainTells DEF Works, Stops
<1> QED
  BY <1>1, <1>2

\* Once the node drains, its frames are taken out until there is none.
LEMMA EndingTells ==
  ASSUME NEW x \in Results, Fits(x), NEW n \in Backends, Ending(x.nodes[n]),
         x.nodes[n].pending_output = <<>>
  PROVE  LET y == Again(ReceiveAndSend(x, n))
         IN  Stops(x, y, n) /\ y.nodes[n].accepted = x.nodes[n].accepted
<1> DEFINE z == ReceiveAndSend(x, n)
           w == Give(z, "blocked")
<1>1. Gives(x, z, n)
  BY ReceiveAndSendTells DEF Ending
<1> HIDE DEF z
<1>2. CASE z.status = "ok"
  <2>1. z \in Results /\ Fits(z)
    BY <1>1 DEF Gives, Passes
  <2>2. Passes(z, w, n) /\ w.nodes = z.nodes /\ w.status = "blocked"
    BY <2>1, PassesGive, GiveTells
  <2> HIDE DEF w
  <2>3. Passes(x, w, n)
    BY <1>1, <1>2, <2>2, PassesTwice DEF Gives
  <2>4. Stops(x, w, n) /\ w.nodes[n].accepted = x.nodes[n].accepted
    BY <1>1, <1>2, <2>2, <2>3 DEF Gives, Stops, Ending
  <2> QED
    BY <1>2, <2>2, <2>4, AgainTells DEF z, w
<1>3. CASE z.status # "ok"
  <2>1. Stops(x, z, n) /\ z.nodes[n].accepted = x.nodes[n].accepted
    BY <1>1, <1>3 DEF Gives, Stops, Ending, Drained
  <2> QED
    BY <1>3, <2>1, AgainTells DEF z
<1> QED
  BY <1>2, <1>3

\* What stop does after sending what was pending.
LEMMA StopsTwice ==
  ASSUME NEW x, NEW y, NEW z, NEW n, Passes(x, y, n), y.status # "failed", Stops(y, z, n),
         y.nodes[n].accepted = x.nodes[n].accepted
  PROVE  Stops(x, z, n)
<1>1. Passes(x, z, n)
  BY PassesTwice DEF Stops
<1>2. Denied(y) => Denied(x)
  BY DEF Passes, Others, Denied
<1> QED
  BY <1>1, <1>2 DEF Stops, Lost

\* What a stop of a node with a backend does, before and after its drain begins.
LEMMA StopBackendTells ==
  ASSUME NEW x \in Results, Fits(x), NEW n \in Backends,
         Serving(x.nodes[n]) \/ Ending(x.nodes[n])
  PROVE  Stops(x, StopBackend(x, n), n)
<1> DEFINE sent == SendPending(x, n)
           flushed == FlushInput(sent, n)
           got == Receive(flushed, n)
           begun == BeginDrain(got, n)
           y == StopBackend(x, n)
<1>1. /\ Passes(x, sent, n) /\ sent.status \in {"ok", "blocked", "failed"}
      /\ sent.status = "failed" => Denied(x)
      /\ Kin(x.nodes[n], sent.nodes[n]) /\ sent.nodes[n].in = x.nodes[n].in
      /\ sent.nodes[n].pending_input = x.nodes[n].pending_input
      /\ sent.status = "ok" => sent.nodes[n].pending_output = <<>>
  BY SendTells DEF Backends
<1>2. /\ y = IF sent.status # "ok" THEN sent
             ELSE IF sent.nodes[n].drain_started THEN Again(ReceiveAndSend(sent, n))
             ELSE IF flushed.status # "ok" THEN flushed
             ELSE IF got.status = "blocked" THEN Again(ReceiveAndSend(begun, n))
             ELSE Again(ReceiveAndSend(flushed, n))
  BY DEF StopBackend
<1> HIDE DEF sent, y
<1>3. /\ sent \in Results /\ Fits(sent)
      /\ sent.nodes[n].accepted = x.nodes[n].accepted
      /\ Serving(x.nodes[n]) => Serving(sent.nodes[n])
      /\ Ending(x.nodes[n]) => Ending(sent.nodes[n])
  BY <1>1 DEF Passes, Kin, Serving, Ending
<1>4. CASE sent.status # "ok"
  <2>1. Stops(x, sent, n)
    BY <1>1, <1>3, <1>4 DEF Stops
  <2> QED
    BY <1>2, <1>4, <2>1 DEF y
<1>5. CASE sent.status = "ok" /\ Ending(x.nodes[n])
  <2>1. Stops(sent, Again(ReceiveAndSend(sent, n)), n)
    BY <1>1, <1>3, <1>5, EndingTells
  <2>2. y = Again(ReceiveAndSend(sent, n))
    BY <1>2, <1>3, <1>5 DEF Ending
  <2>3. Stops(x, y, n)
    BY <1>1, <1>3, <1>5, <2>1, <2>2, StopsTwice
  <2> QED
    BY <2>3 DEF y
<1>6. CASE sent.status = "ok" /\ Serving(x.nodes[n])
  <2>1. ~sent.nodes[n].drain_started
    BY <1>3, <1>6 DEF Serving
  <2>2. /\ Works(sent, flushed, n)
        /\ flushed.status = "ok" =>
             /\ flushed.nodes = sent.nodes
             /\ flushed.nodes[n].pending_input = <<>> /\ flushed.nodes[n].in = <<>>
    BY <1>1, <1>3, <1>6, FlushTells
  <2> HIDE DEF flushed
  <2>3. Stops(sent, y, n)
    <3>1. CASE flushed.status # "ok"
      <4>1. Stops(sent, flushed, n)
        BY <2>2, <3>1, StopsWorks, AgainTells
      <4> QED
        BY <1>2, <1>6, <2>1, <3>1, <4>1
    <3>2. CASE flushed.status = "ok"
      <4>1. /\ flushed \in Results /\ Fits(flushed) /\ Passes(sent, flushed, n)
            /\ Serving(flushed.nodes[n]) /\ flushed.nodes[n].pending_output = <<>>
            /\ flushed.nodes[n].accepted = sent.nodes[n].accepted
            /\ flushed.nodes[n].pending_input = <<>> /\ flushed.nodes[n].in = <<>>
        BY <1>1, <1>6, <2>2, <3>2 DEF Works, Passes
      <4>2. flushed.nodes[n].backend \in {"Configured", "Running", "Draining"}
        BY <4>1 DEF Serving
      <4>3. CASE got.status = "blocked"
        <5>1. /\ Passes(flushed, got, n) /\ got.nodes = flushed.nodes
          BY <4>1, <4>2, <4>3, ReceiveTells
        <5> HIDE DEF got
        <5>2. got \in Results /\ Fits(got) /\ n \in Node
          BY <5>1, NodesTold DEF Passes
        <5>3. /\ begun \in Results /\ begun.out = got.out /\ begun.pts = got.pts
              /\ begun.status = "ok" /\ begun.create = got.create /\ begun.fault = got.fault
              /\ \A m \in Node : m # n => begun.nodes[m] = got.nodes[m]
              /\ begun.nodes[n].in = got.nodes[n].in /\ begun.nodes[n].queue = got.nodes[n].queue
              /\ begun.nodes[n].pending_input = got.nodes[n].pending_input
              /\ begun.nodes[n].pending_output = got.nodes[n].pending_output
              /\ begun.nodes[n].backend = "Draining" /\ begun.nodes[n].drain_started = TRUE
              /\ begun.nodes[n].accepted = got.nodes[n].accepted
          BY <5>2, BeginTells, ZenonT(60)
        <5> HIDE DEF begun
        <5>4. Passes(got, begun, n)
          <6>1. Others(got, begun, n)
            BY <5>3 DEF Others, Unmoved, Kin
          <6>2. Fits(begun)
            <7>1. Fit(begun.nodes[n])
              BY <5>2, <5>3 DEF Fit, Fits
            <7> QED
              BY <5>2, <5>3, <7>1 DEF Fits
          <6>3. Parts(begun) = Parts(got)
            <7>1. LET k == First(n)
                      P == Parts(got)
                      Q == Parts(begun)
                  IN  /\ k \in {3, 7}
                      /\ P[k] = Q[k] /\ P[k + 1] = Q[k + 1] /\ P[k + 2] = Q[k + 2]
                      /\ P[k + 3] = Q[k + 3]
                      /\ \A m \in 1..11 : m # k /\ m # k + 1 /\ m # k + 2 /\ m # k + 3 =>
                           Q[m] = P[m]
              BY <5>3, PartsOf
            <7>2. \A m \in 1..11 : Parts(begun)[m] = Parts(got)[m]
              BY <7>1, Zenon
            <7>3. Parts(got) \in Stretches
              BY <5>2, PartsTyped
            <7> QED
              BY <7>2, <7>3, PartsEqual
          <6> QED
            BY <5>3, <6>1, <6>2, <6>3 DEF Passes
        <5>5. Ending(begun.nodes[n]) /\ begun.nodes[n].pending_output = <<>>
              /\ begun.nodes[n].accepted = sent.nodes[n].accepted /\ begun \in Results /\ Fits(begun)
          BY <4>1, <5>1, <5>3, <5>4 DEF Ending, Passes
        <5>6. Passes(sent, begun, n)
          <6>1. Passes(sent, got, n)
            BY <3>2, <4>1, <5>1, PassesTwice
          <6> QED
            BY <4>3, <5>4, <6>1, PassesTwice DEF got
        <5>7. Stops(begun, Again(ReceiveAndSend(begun, n)), n)
          BY <5>5, EndingTells
        <5>8. Stops(sent, Again(ReceiveAndSend(begun, n)), n)
          BY <5>3, <5>5, <5>6, <5>7, StopsTwice
        <5>9. y = Again(ReceiveAndSend(begun, n))
          BY <1>2, <1>6, <2>1, <3>2, <4>3 DEF got, begun
        <5> QED
          BY <5>8, <5>9
      <4>4. CASE got.status # "blocked"
        <5>1. Gives(flushed, ReceiveAndSend(flushed, n), n)
          BY <4>1, <4>2, ReceiveAndSendTells
        <5>2. Works(flushed, ReceiveAndSend(flushed, n), n)
          BY <4>1, <5>1, GivesWorks
        <5>3. Stops(flushed, Again(ReceiveAndSend(flushed, n)), n)
          BY <5>2, StopsWorks
        <5>4. y = Again(ReceiveAndSend(flushed, n))
          BY <1>2, <1>6, <2>1, <3>2, <4>4
        <5> QED
          BY <3>2, <4>1, <5>3, <5>4, StopsTwice
      <4> QED
        BY <4>3, <4>4
    <3> QED
      BY <3>1, <3>2
  <2>4. Stops(x, y, n)
    BY <1>1, <1>3, <1>6, <2>3, StopsTwice
  <2> QED
    BY <2>4 DEF y
<1> QED
  BY <1>1, <1>4, <1>5, <1>6

------------------------------------------------------------------------------
(***************************************************************************)
(* Source and sink, and the calls of any node.                             *)
(***************************************************************************)

\* The source has no inputs, the sink no outputs.
Tidy(x) ==
  /\ x.nodes["source"].in = <<>> /\ x.nodes["sink"].pending_output = <<>>
  /\ \A n \in {"source", "sink"} : x.nodes[n].queue = <<>> /\ x.nodes[n].pending_input = <<>>

\* What holds of the frames whatever is called
Good(x) == x \in Results /\ Fits(x) /\ Ordered(Parts(x)) /\ Tidy(x)

\* While the pipeline is open: every frame is older than the next one, and those
\* created since the start are all there.
Fresh(x) == \A f : Holds(Parts(x), f) => Older(f, Frame(x))
Whole(x) == \A k \in 1..(x.pts - 1) : Holds(Parts(x), [session |-> session, pts |-> k])

\* The other nodes keep what they have, but for the input queue downstream.
Away(x, y, n) ==
  \A m \in Node : m # n => /\ Unmoved(x.nodes[m], y.nodes[m])
                           /\ m # Sink(n) \/ n = "sink" => y.nodes[m].in = x.nodes[m].in

\* A call that passes the frames on leaves a good result.
LEMMA PassesGood ==
  ASSUME NEW x, NEW y, NEW n \in {"source", "processor", "encoder"}, Good(x), Passes(x, y, n),
         n = "source" => /\ y.nodes[n].in = x.nodes[n].in /\ y.nodes[n].queue = x.nodes[n].queue
                         /\ y.nodes[n].pending_input = x.nodes[n].pending_input
  PROVE  /\ Good(y) /\ Away(x, y, n)
         /\ Fresh(x) => Fresh(y)
         /\ y.status # "failed" /\ Whole(x) => Whole(y)
<1>1. Away(x, y, n)
  BY DEF Away, Passes, Others
<1>2. Tidy(y)
  <2>1. "source" \in Node /\ "sink" \in Node /\ n # "sink" /\ Sink(n) # "source"
    BY NodesTold
  <2>2. CASE n = "source"
    BY <1>1, <2>1, <2>2 DEF Away, Unmoved, Tidy, Good
  <2>3. CASE n # "source"
    BY <1>1, <2>1, <2>3 DEF Away, Unmoved, Tidy, Good
  <2> QED
    BY <2>2, <2>3
<1>3. y.pts = x.pts
  BY DEF Passes, Others
<1>4. Fresh(x) => Fresh(y)
  BY <1>3 DEF Fresh, Passes, Frame
<1>5. y.status # "failed" /\ Whole(x) => Whole(y)
  BY <1>3 DEF Whole, Passes
<1> QED
  BY <1>1, <1>2, <1>4, <1>5 DEF Good, Passes

\* Only the last stretch differs when only the source does.
LEMMA PartsBefore ==
  ASSUME NEW x, NEW y, y.out = x.out, y.nodes["sink"] = x.nodes["sink"],
         y.nodes["encoder"] = x.nodes["encoder"], y.nodes["processor"] = x.nodes["processor"],
         NEW m \in 1..10
  PROVE  Parts(y)[m] = Parts(x)[m]
<1>1. m \in 1..11 /\ m # 11
  OBVIOUS
<1> QED
  BY <1>1 DEF Parts

\* The source sends its pending frame or creates the next one, or a step outside
\* fails.
LEMMA TickSourceTells ==
  ASSUME NEW x, Good(x), Fresh(x), Whole(x), session \in 1..MaxSessions,
         x.create => x.pts <= MaxFrames
  PROVE  LET y == TickSource(x)
         IN  /\ Good(y) /\ Fresh(y) /\ Away(x, y, "source") /\ y.fault = x.fault
             /\ y.status \in {"ok", "blocked", "failed"}
             /\ y.status # "failed" => Whole(y)
             /\ y.status = "failed" => Denied(x)
<1> DEFINE y == TickSource(x)
           b == x.nodes["source"]
           g == Frame(x)
           w == Set(x, "source", "pending_output", <<g>>)
           z == Create(x)
<1>0. x \in Results /\ Fits(x) /\ "source" \in Node
  BY NodesTold DEF Good
<1>1. CASE b.pending_output # <<>>
  <2>1. y = SendPending(x, "source")
    BY <1>1 DEF TickSource
  <2>2. /\ Passes(x, y, "source") /\ y.status \in {"ok", "blocked", "failed"}
        /\ y.status = "failed" => Denied(x)
        /\ y.nodes["source"].in = b.in /\ y.nodes["source"].queue = b.queue
        /\ y.nodes["source"].pending_input = b.pending_input
    BY <1>0, <2>1, SendTells
  <2> HIDE DEF y
  <2>3. /\ Good(y) /\ Away(x, y, "source") /\ Fresh(y) /\ y.fault = x.fault
        /\ y.status # "failed" => Whole(y)
    BY <2>2, PassesGood DEF Passes, Others
  <2> QED
    BY <2>2, <2>3 DEF y
<1>2. CASE b.pending_output = <<>> /\ (~x.create \/ x.fault = "create")
  <2>1. y = Give(x, IF ~x.create THEN "ok" ELSE "failed")
    BY <1>2 DEF TickSource, Ok, Hard
  <2>2. /\ Passes(x, y, "source") /\ y.status \in {"ok", "failed"} /\ y.nodes = x.nodes
        /\ y.status = "failed" => Denied(x)
    BY <1>0, <1>2, <2>1, PassesGive, GiveTells DEF Denied, Failures
  <2> HIDE DEF y
  <2>3. /\ Good(y) /\ Away(x, y, "source") /\ Fresh(y) /\ y.fault = x.fault
        /\ y.status # "failed" => Whole(y)
    BY <2>2, PassesGood DEF Passes, Others
  <2> QED
    BY <2>2, <2>3 DEF y
<1>3. CASE b.pending_output = <<>> /\ x.create /\ x.fault # "create"
  <2>1. /\ y = IF x.fault = "count" THEN Give(z, "failed") ELSE SendPending(z, "source")
        /\ z = [w EXCEPT !.pts = @ + 1]
    BY <1>3 DEF TickSource, Hard, Create
  <2>2. x.pts \in Nat /\ x.pts >= 1 /\ x.pts <= MaxFrames /\ MaxFrames \in Nat
    BY <1>0, <1>3, ResultsTold, OptionAssumption
  <2>3. g \in Frames /\ g.session = session /\ g.pts = x.pts
    BY <2>2 DEF Frame, Frames
  <2> HIDE DEF g
  <2>4. <<g>> \in Seq(Frames) /\ Len(<<g>>) = 1
    BY <2>3
  <2>5. Sets(x, w, "source", b.in, b.queue, b.pending_input, <<g>>)
    BY <1>0, <2>4, SetTells
  <2> HIDE DEF w
  <2>6. /\ z \in Results /\ z.nodes = w.nodes /\ z.out = x.out /\ z.pts = x.pts + 1
        /\ z.status = x.status /\ z.fault = x.fault
    <3>1. /\ w \in Results /\ w.pts = x.pts /\ w.out = x.out /\ w.status = x.status
          /\ w.fault = x.fault
      BY <2>5 DEF Sets
    <3>2. x.pts + 1 \in 1..(MaxFrames + 1)
      BY <2>2
    <3> QED
      BY <2>1, <3>1, <3>2 DEF Results
  <2> HIDE DEF z, y
  <2>7. /\ \A m \in Node : m # "source" => z.nodes[m] = x.nodes[m]
        /\ z.nodes["source"].in = b.in /\ z.nodes["source"].queue = b.queue
        /\ z.nodes["source"].pending_input = b.pending_input
        /\ z.nodes["source"].pending_output = <<g>>
    BY <2>5, <2>6 DEF Sets
  <2>8. Parts(x) \in Stretches /\ Parts(x)[11] = <<>>
    BY <1>0, <1>3, PartsTyped, PartsSource
  <2> DEFINE P == Parts(x)
             Q == [P EXCEPT ![11] = <<g>>]
  <2>9. \A f : Holds(P, f) => Older(f, g)
    BY DEF Fresh, g
  <2>10. Q \in Stretches /\ Ordered(Q) /\ \A f : Holds(Q, f) <=> Holds(P, f) \/ f = g
    <3> HIDE DEF P
    <3>1. P \in Stretches /\ P[11] = <<>> /\ Ordered(P)
      BY <2>8 DEF P, Good
    <3> QED
      BY <2>3, <2>9, <3>1, AddOrdered
  <2>11. Parts(z) = Q
    <3>1. Parts(z)[11] = <<g>>
      BY <2>7, PartsSource
    <3>2. \A m \in Node : m # "source" => Unmoved(x.nodes[m], z.nodes[m]) /\ z.nodes[m].in = x.nodes[m].in
      BY <2>7 DEF Unmoved, Kin
    <3>3. \A m \in 1..10 : Parts(z)[m] = P[m]
      <4>1. /\ z.nodes["sink"] = x.nodes["sink"] /\ z.nodes["encoder"] = x.nodes["encoder"]
            /\ z.nodes["processor"] = x.nodes["processor"]
        BY <2>7, NodesTold
      <4> QED
        BY <2>6, <4>1, PartsBefore
    <3> HIDE DEF P
    <3>4. \A m \in 1..11 : Parts(z)[m] = Q[m]
      <4>1. P \in Stretches
        BY <2>8 DEF P
      <4>2. Q[11] = <<g>> /\ \A m \in 1..11 : m # 11 => Q[m] = P[m]
        BY <4>1 DEF Stretches
      <4>3. \A m \in 1..11 : m = 11 \/ m \in 1..10
        OBVIOUS
      <4> HIDE DEF Q
      <4> QED
        BY <3>1, <3>3, <4>2, <4>3
    <3> HIDE DEF Q
    <3> QED
      BY <2>10, <3>4, PartsEqual
  <2> HIDE DEF P, Q
  <2>12. Fits(z)
    <3>1. Fit(z.nodes["source"])
      BY <1>0, <2>4, <2>7 DEF Fit, Fits
    <3> QED
      BY <1>0, <2>7, <3>1 DEF Fits
  <2>13. Tidy(z)
    BY <2>7, NodesTold DEF Tidy, Good
  <2>14. Good(z)
    BY <2>6, <2>10, <2>11, <2>12, <2>13 DEF Good
  <2>15. Fresh(z)
    <3>1. Frame(z).session = session /\ Frame(z).pts = x.pts + 1
      BY <2>6 DEF Frame
    <3>2. Older(g, Frame(z))
      BY <2>2, <2>3, <3>1 DEF Older
    <3>3. \A f : Holds(P, f) => Older(f, Frame(z))
      <4> SUFFICES ASSUME NEW f, Holds(P, f) PROVE Older(f, Frame(z))
        OBVIOUS
      <4>1. Older(f, g)
        BY <2>9
      <4>2. f \in Frames
        <5>1. PICK m \in 1..11 : \E i \in 1..Len(P[m]) : P[m][i] = f
          BY DEF Holds
        <5>2. P[m] \in Seq(Frames)
          BY <2>8 DEF P, Stretches
        <5> QED
          BY <5>1, <5>2
      <4>3. f.pts \in Nat
        BY <2>2, <4>2 DEF Frames
      <4> QED
        BY <2>2, <2>3, <3>1, <4>1, <4>3 DEF Older
    <3> QED
      BY <2>10, <2>11, <3>2, <3>3, Zenon DEF Fresh
  <2>16. Whole(z)
    <3> SUFFICES ASSUME NEW k \in 1..x.pts PROVE Holds(Q, [session |-> session, pts |-> k])
      BY <2>2, <2>6, <2>11 DEF Whole
    <3>1. CASE k = x.pts
      <4>1. g = [session |-> session, pts |-> k]
        BY <3>1 DEF g, Frame
      <4> QED
        BY <2>10, <4>1
    <3>2. CASE k # x.pts
      <4>1. k \in 1..(x.pts - 1)
        BY <2>2, <3>2
      <4>2. Holds(P, [session |-> session, pts |-> k])
        BY <4>1 DEF Whole, P
      <4> QED
        BY <2>10, <4>2
    <3> QED
      BY <3>1, <3>2
  <2>17. /\ Passes(z, y, "source") /\ y.status \in {"ok", "blocked", "failed"}
         /\ y.status = "failed" => Denied(x)
         /\ y.nodes["source"].in = z.nodes["source"].in
         /\ y.nodes["source"].queue = z.nodes["source"].queue
         /\ y.nodes["source"].pending_input = z.nodes["source"].pending_input
    <3>1. CASE x.fault = "count"
      <4>1. Passes(z, y, "source") /\ y.nodes = z.nodes /\ y.status = "failed"
        BY <2>1, <2>6, <2>12, <3>1, PassesGive, GiveTells
      <4> QED
        BY <3>1, <4>1 DEF Denied, Failures
    <3>2. CASE x.fault # "count"
      <4>1. y = SendPending(z, "source")
        BY <2>1, <3>2
      <4>2. Denied(z) => Denied(x)
        BY <2>6 DEF Denied
      <4> QED
        BY <2>6, <2>12, <4>1, <4>2, SendTells
    <3> QED
      BY <3>1, <3>2
  <2>18. /\ Good(y) /\ Away(z, y, "source") /\ Fresh(y) /\ y.fault = x.fault
         /\ y.status # "failed" => Whole(y)
    BY <2>6, <2>14, <2>15, <2>16, <2>17, PassesGood DEF Passes, Others
  <2>19. Away(x, y, "source")
    BY <2>7, <2>18 DEF Away
  <2> QED
    BY <2>17, <2>18, <2>19 DEF y
<1> QED
  BY <1>1, <1>2, <1>3

\* Only the first two stretches differ when only the sink does.
LEMMA PartsBeyond ==
  ASSUME NEW x, NEW y, y.nodes["source"] = x.nodes["source"],
         y.nodes["encoder"] = x.nodes["encoder"], y.nodes["processor"] = x.nodes["processor"],
         NEW m \in 3..11
  PROVE  Parts(y)[m] = Parts(x)[m]
<1>1. m \in 1..11 /\ m # 1 /\ m # 2
  OBVIOUS
<1> QED
  BY <1>1 DEF Parts

\* What the sink leaves as it is.
LEMMA AwayGive ==
  ASSUME NEW x, Good(x), NEW s \in {"ok", "blocked", "failed"}, NEW n
  PROVE  LET y == Give(x, s)
         IN  /\ Good(y) /\ Away(x, y, n) /\ y.status = s /\ y.nodes = x.nodes
             /\ y.fault = x.fault
             /\ Fresh(x) => Fresh(y)
             /\ Whole(x) => Whole(y)
<1> DEFINE y == Give(x, s)
<1>1. x \in Results /\ Fits(x)
  BY DEF Good
<1>2. /\ y \in Results /\ y.status = s /\ y.nodes = x.nodes /\ y.out = x.out /\ y.pts = x.pts
      /\ y.fault = x.fault
  BY <1>1, GiveTells
<1> HIDE DEF y
<1>3. Parts(y) = Parts(x) /\ Fits(y)
  BY <1>1, <1>2, PartsSame
<1>4. Good(y)
  BY <1>2, <1>3 DEF Good, Tidy
<1>5. Away(x, y, n)
  BY <1>2 DEF Away, Unmoved, Kin
<1>6. (Fresh(x) => Fresh(y)) /\ (Whole(x) => Whole(y))
  BY <1>2, <1>3 DEF Fresh, Whole, Frame
<1> QED
  BY <1>2, <1>4, <1>5, <1>6 DEF y

\* The sink consumes its oldest frame, or is held up; what is taken out is kept
\* even if counting it fails.
LEMMA ConsumeTells ==
  ASSUME NEW x, Good(x)
  PROVE  LET y == Consume(x)
         IN  /\ Good(y) /\ Away(x, y, "sink") /\ y.status \in {"ok", "blocked", "failed"}
             /\ y.fault = x.fault
             /\ y.status = "failed" => Denied(x)
             /\ Fresh(x) => Fresh(y)
             /\ Whole(x) => Whole(y)
<1> DEFINE in == x.nodes["sink"].in
           y == Consume(x)
           z == Set(x, "sink", "in", Tail(in))
           o == Append(x.out, Head(in))
           w == Take(x)
<1>1. CASE in = <<>> \/ x.fault = "stall"
  <2> DEFINE s == IF in # <<>> THEN "blocked" ELSE IF x.fault = "gauge" THEN "failed" ELSE "ok"
  <2>1. y = Give(x, s)
    BY <1>1 DEF Consume, Ok, Block, Hard
  <2>2. s \in {"ok", "blocked", "failed"} /\ (s = "failed" => Denied(x))
    BY DEF Denied, Failures
  <2> HIDE DEF s
  <2> QED
    BY <2>1, <2>2, AwayGive
<1>2. CASE in # <<>> /\ x.fault # "stall"
  <2> DEFINE s == IF x.fault \in {"count", "gauge"} THEN "failed" ELSE "ok"
  <2>1. y = Give(w, s)
    BY <1>2 DEF Consume, Ok, Hard
  <2>0. s \in {"ok", "failed"} /\ (s = "failed" => Denied(x))
    BY DEF Denied, Failures
  <2> HIDE DEF s
  <2>2. /\ x \in Results /\ Fits(x) /\ "sink" \in Node /\ in \in Seq(Frames) /\ x.out \in Seq(Frames)
        /\ Fit(x.nodes["sink"])
    BY NodesTold, ResultsTold DEF Good, Fits
  <2>3. Tail(in) \in Seq(Frames) /\ o \in Seq(Frames) /\ Len(Tail(in)) <= Len(in)
    BY <1>2, <2>2, One
  <2>4. Sets(x, z, "sink", Tail(in), x.nodes["sink"].queue, x.nodes["sink"].pending_input,
             x.nodes["sink"].pending_output)
    BY <2>2, <2>3, SetTells
  <2>5. w = [z EXCEPT !.out = o] /\ z \in Results
    <3>1. z.out = x.out /\ z \in Results
      BY <2>4 DEF Sets
    <3>2. w = [z EXCEPT !.out = Append(@, Head(in))]
      BY DEF Take
    <3> HIDE DEF z, w
    <3> QED
      BY <3>1, <3>2 DEF Results
  <2> HIDE DEF z
  <2> HIDE DEF w, o
  <2>6. w \in Results /\ w.nodes = z.nodes /\ w.out = o /\ w.pts = z.pts
        /\ w.fault = z.fault
    BY <2>3, <2>5 DEF Results
  <2>7. /\ y \in Results /\ y.status = s /\ y.nodes = z.nodes /\ y.out = o /\ y.pts = x.pts
        /\ y.fault = x.fault
    BY <2>0, <2>1, <2>4, <2>6, GiveTells DEF Sets
  <2> HIDE DEF y
  <2>8. /\ \A m \in Node : m # "sink" => y.nodes[m] = x.nodes[m]
        /\ y.nodes["sink"].in = Tail(in) /\ y.nodes["sink"].queue = x.nodes["sink"].queue
        /\ y.nodes["sink"].pending_input = x.nodes["sink"].pending_input
        /\ y.nodes["sink"].pending_output = x.nodes["sink"].pending_output
    BY <2>4, <2>7 DEF Sets
  <2>9. Away(x, y, "sink")
    BY <2>8 DEF Away, Unmoved, Kin
  <2>10. Fits(y)
    <3>1. Len(in) \in Nat /\ Len(Tail(in)) \in Nat /\ InputCapacity \in Nat
          /\ Len(in) <= InputCapacity
      BY <2>2, <2>3, CapacityAssumption, SMTT(60) DEF Fit
    <3>2. Len(Tail(in)) <= InputCapacity
      BY <2>3, <3>1
    <3>3. Fit(y.nodes["sink"])
      BY <2>2, <2>8, <3>2 DEF Fit
    <3> QED
      BY <2>2, <2>8, <3>3 DEF Fits
  <2>11. Tidy(y)
    BY <2>8, NodesTold DEF Tidy, Good
  <2>12. /\ Ordered(Parts(x)) => Ordered(Parts(y))
         /\ \A f : Holds(Parts(y), f) <=> Holds(Parts(x), f)
    <3>1. /\ Parts(x)[1] = x.out /\ Parts(x)[2] = in
          /\ Parts(y)[1] = Append(x.out, Head(in)) /\ Parts(y)[2] = Tail(in)
      BY <2>7, <2>8, PartsList DEF o
    <3>2. \A m \in 3..11 : Parts(y)[m] = Parts(x)[m]
      BY <2>8, NodesTold, PartsBeyond
    <3>3. \A m \in 1..11 : m # 1 /\ m # 1 + 1 => m \in 3..11
      OBVIOUS
    <3>4. 1 \in 1..10 /\ 1 + 1 = 2
      OBVIOUS
    <3> HIDE DEF in
    <3>5. /\ Parts(x)[1 + 1] # <<>>
          /\ Parts(y)[1] = Append(Parts(x)[1], Head(Parts(x)[1 + 1]))
          /\ Parts(y)[1 + 1] = Tail(Parts(x)[1 + 1])
          /\ \A m \in 1..11 : m # 1 /\ m # 1 + 1 => Parts(y)[m] = Parts(x)[m]
      BY <1>2, <3>1, <3>2, <3>3, <3>4, Zenon
    <3> QED
      BY <2>2, <2>7, <3>4, <3>5, Moved
  <2>13. Good(y)
    BY <2>7, <2>10, <2>11, <2>12 DEF Good
  <2>14. Fresh(x) => Fresh(y)
    BY <2>7, <2>12 DEF Fresh, Frame
  <2>15. Whole(x) => Whole(y)
    BY <2>7, <2>12 DEF Whole
  <2> QED
    BY <2>0, <2>7, <2>9, <2>13, <2>14, <2>15 DEF y
<1> QED
  BY <1>1, <1>2

\* What a tick of any node does.
LEMMA TickTells ==
  ASSUME NEW x, Good(x), Fresh(x), Whole(x), session \in 1..MaxSessions,
         x.create => x.pts <= MaxFrames,
         NEW n \in Node, n \in Backends => Serving(x.nodes[n])
  PROVE  LET y == TickNode(x, n)
         IN  /\ Good(y) /\ Fresh(y) /\ Away(x, y, n) /\ y.status \in {"ok", "blocked", "failed"}
             /\ y.status # "failed" => Whole(y)
             /\ y.status = "failed" => (n \in Backends /\ Lost(x.nodes[n])) \/ Denied(x)
             /\ y.fault = x.fault
             /\ n \in Backends => /\ y.status # "failed" => Serving(y.nodes[n])
                                  /\ LostAfter # 0 /\ x.nodes[n].accepted <= LostAfter =>
                                       y.nodes[n].accepted <= LostAfter
<1> DEFINE y == TickNode(x, n)
<1>1. CASE n = "source"
  <2>1. y = TickSource(x)
    BY <1>1 DEF TickNode, Backends
  <2>2. /\ Good(y) /\ Fresh(y) /\ Away(x, y, "source") /\ y.fault = x.fault
        /\ y.status \in {"ok", "blocked", "failed"}
        /\ y.status # "failed" => Whole(y)
        /\ y.status = "failed" => Denied(x)
    BY <2>1, TickSourceTells
  <2> HIDE DEF y
  <2> QED
    BY <1>1, <2>2 DEF y, Backends
<1>2. CASE n = "sink"
  <2>1. y = Consume(x)
    BY <1>2 DEF TickNode, Backends
  <2>2. /\ Good(y) /\ Away(x, y, "sink") /\ y.status \in {"ok", "blocked", "failed"}
        /\ Fresh(y) /\ Whole(y) /\ y.fault = x.fault /\ (y.status = "failed" => Denied(x))
    BY <2>1, ConsumeTells
  <2> HIDE DEF y
  <2> QED
    BY <1>2, <2>2 DEF y, Backends
<1>3. CASE n \in Backends
  <2>1. y = TickBackend(x, n)
    BY <1>3 DEF TickNode, Backends
  <2>2. Works(x, y, n)
    BY <1>3, <2>1, TickBackendTells DEF Good
  <2> HIDE DEF y
  <2>3. Passes(x, y, n) /\ n \in {"source", "processor", "encoder"} /\ n # "source"
    BY <1>3, <2>2 DEF Works, Backends
  <2>4. Good(y) /\ Away(x, y, n) /\ Fresh(y) /\ (y.status # "failed" => Whole(y))
    BY <2>3, PassesGood
  <2>5. y.fault = x.fault
    BY <2>3 DEF Passes, Others
  <2> QED
    BY <1>3, <2>2, <2>4, <2>5 DEF y, Works
<1> QED
  BY <1>1, <1>2, <1>3, NodesTold DEF Backends

\* What a stop of any node does.
LEMMA StopTells ==
  ASSUME NEW x, Good(x), Fresh(x), Whole(x),
         NEW n \in Node, n \in Backends => Serving(x.nodes[n]) \/ Ending(x.nodes[n])
  PROVE  LET y == StopNode(x, n)
         IN  /\ Good(y) /\ Fresh(y) /\ Away(x, y, n)
             /\ y.status \in {"ok", "blocked", "eos", "failed"}
             /\ y.status # "failed" => Whole(y)
             /\ y.status = "failed" => (n \in Backends /\ Lost(x.nodes[n])) \/ Denied(x)
             /\ y.fault = x.fault
             /\ n \in Backends =>
                  /\ y.status = "blocked" => Serving(y.nodes[n]) \/ Ending(y.nodes[n])
                  /\ y.status \in {"ok", "eos"} => Drained(y.nodes[n])
                  /\ LostAfter # 0 /\ x.nodes[n].accepted <= LostAfter =>
                       y.nodes[n].accepted <= LostAfter
             /\ n = "source" /\ y.status \in {"ok", "eos"} => y.nodes[n].pending_output = <<>>
             /\ n = "sink" /\ y.status \in {"ok", "eos"} => y.nodes[n].in = <<>>
<1> DEFINE y == StopNode(x, n)
<1>1. CASE n = "source"
  <2>1. y = SendPending(x, "source")
    BY <1>1 DEF StopNode, Backends
  <2>2. /\ Passes(x, y, "source") /\ y.status \in {"ok", "blocked", "failed"}
        /\ y.status = "failed" => Denied(x)
        /\ y.nodes["source"].in = x.nodes["source"].in
        /\ y.nodes["source"].queue = x.nodes["source"].queue
        /\ y.nodes["source"].pending_input = x.nodes["source"].pending_input
        /\ y.status = "ok" => y.nodes["source"].pending_output = <<>>
    BY <2>1, SendTells DEF Good
  <2> HIDE DEF y
  <2>3. /\ Good(y) /\ Away(x, y, "source") /\ Fresh(y) /\ y.fault = x.fault
        /\ y.status # "failed" => Whole(y)
    BY <2>2, PassesGood DEF Passes, Others
  <2> QED
    BY <1>1, <2>2, <2>3 DEF y, Backends
<1>2. CASE n = "sink"
  <2>1. y = IF x.nodes["sink"].in # <<>> THEN Again(Consume(x))
            ELSE IF x.fault = "gauge" THEN Give(x, "blocked") ELSE Give(x, "ok")
    BY <1>2 DEF StopNode, StopSink, Ok, Block, Backends
  <2>2. CASE x.nodes["sink"].in = <<>>
    <3>1. /\ Good(y) /\ Away(x, y, "sink") /\ y.status \in {"ok", "blocked"}
          /\ y.nodes = x.nodes /\ Fresh(y) /\ Whole(y) /\ y.fault = x.fault
      BY <2>1, <2>2, AwayGive
    <3> HIDE DEF y
    <3> QED
      BY <1>2, <2>2, <3>1 DEF y, Backends
  <2>3. CASE x.nodes["sink"].in # <<>>
    <3> DEFINE z == Consume(x)
    <3>1. /\ Good(z) /\ Away(x, z, "sink") /\ z.status \in {"ok", "blocked", "failed"}
          /\ Fresh(z) /\ Whole(z) /\ z.fault = x.fault /\ (z.status = "failed" => Denied(x))
      BY ConsumeTells
    <3> HIDE DEF z
    <3>2. /\ Good(y) /\ Away(x, y, "sink") /\ y.status \in {"blocked", "failed"}
          /\ Fresh(y) /\ Whole(y) /\ y.fault = x.fault /\ (y.status = "failed" => Denied(x))
      <4>1. CASE z.status = "ok"
        <5>1. /\ Good(Give(z, "blocked")) /\ Give(z, "blocked").status = "blocked"
              /\ Give(z, "blocked").nodes = z.nodes /\ Give(z, "blocked").fault = z.fault
              /\ Fresh(Give(z, "blocked")) /\ Whole(Give(z, "blocked"))
          BY <3>1, AwayGive
        <5>2. y = Give(z, "blocked")
          BY <2>1, <2>3, <4>1, AgainTells DEF z
        <5> HIDE DEF y
        <5> QED
          BY <3>1, <5>1, <5>2 DEF Away
      <4>2. CASE z.status # "ok"
        <5>1. y = z
          BY <2>1, <2>3, <4>2, AgainTells DEF z
        <5> QED
          BY <3>1, <4>2, <5>1
      <4> QED
        BY <4>1, <4>2
    <3> HIDE DEF y
    <3> QED
      BY <1>2, <3>2 DEF y, Backends
  <2> QED
    BY <2>2, <2>3
<1>3. CASE n \in Backends
  <2>1. y = StopBackend(x, n)
    BY <1>3 DEF StopNode, Backends
  <2>2. Stops(x, y, n)
    BY <1>3, <2>1, StopBackendTells DEF Good
  <2> HIDE DEF y
  <2>3. Passes(x, y, n) /\ n \in {"source", "processor", "encoder"} /\ n # "source"
    BY <1>3, <2>2 DEF Stops, Backends
  <2>4. Good(y) /\ Away(x, y, n) /\ Fresh(y) /\ (y.status # "failed" => Whole(y))
    BY <2>3, PassesGood
  <2>5. n # "sink" /\ y.fault = x.fault
    BY <2>3 DEF Passes, Others
  <2> QED
    BY <1>3, <2>2, <2>3, <2>4, <2>5 DEF y, Stops
<1> QED
  BY <1>1, <1>2, <1>3, NodesTold DEF Backends

------------------------------------------------------------------------------
(***************************************************************************)
(* The states of the pipeline.                                             *)
(***************************************************************************)

\* The pipeline between two calls of nodes, as a result
Now == Begin(FALSE, "none")

Open == mode \in {"Running", "Draining"}

\* No frame is from a later session.
Past == \A f : Holds(Parts(Now), f) => f.session <= session

FramesInv == Good(Now) /\ Past /\ (Open => Fresh(Now) /\ Whole(Now))

IInv == TypeOK /\ PhaseInv /\ FramesInv

\* A result with the same frames is as good.
LEMMA SameFrames ==
  ASSUME NEW x, Good(x), NEW y \in Results, y.out = x.out,
         \A m \in Node : /\ y.nodes[m].in = x.nodes[m].in /\ y.nodes[m].queue = x.nodes[m].queue
                         /\ y.nodes[m].pending_input = x.nodes[m].pending_input
                         /\ y.nodes[m].pending_output = x.nodes[m].pending_output
  PROVE  Good(y) /\ Parts(y) = Parts(x)
<1>1. "source" \in Node /\ "processor" \in Node /\ "encoder" \in Node /\ "sink" \in Node
  BY NodesTold
<1>2. Parts(y) = Parts(x)
  <2>1. /\ y.nodes["sink"].in = x.nodes["sink"].in
        /\ y.nodes["source"].pending_output = x.nodes["source"].pending_output
        /\ y.nodes["encoder"].in = x.nodes["encoder"].in
        /\ y.nodes["encoder"].queue = x.nodes["encoder"].queue
        /\ y.nodes["encoder"].pending_input = x.nodes["encoder"].pending_input
        /\ y.nodes["encoder"].pending_output = x.nodes["encoder"].pending_output
        /\ y.nodes["processor"].in = x.nodes["processor"].in
        /\ y.nodes["processor"].queue = x.nodes["processor"].queue
        /\ y.nodes["processor"].pending_input = x.nodes["processor"].pending_input
        /\ y.nodes["processor"].pending_output = x.nodes["processor"].pending_output
    BY <1>1
  <2> QED
    BY <2>1 DEF Parts
<1>3. Fits(y)
  BY DEF Fits, Fit, Good
<1>4. Tidy(y)
  BY <1>1 DEF Tidy, Good
<1> QED
  BY <1>2, <1>3, <1>4 DEF Good

\* The state that a call leaves.
LEMMA Carried ==
  ASSUME NEW e, Good(e), nodes' = e.nodes, next_pts' = e.pts, delivered' = e.out
  PROVE  /\ Good(Now)' /\ Parts(Now)' = Parts(e)
         /\ nodes' \in [Node -> NodeType] /\ delivered' \in Seq(Frames)
         /\ next_pts' \in 1..(MaxFrames + 1)
<1> DEFINE y == [nodes |-> nodes', pts |-> next_pts', out |-> delivered', status |-> "ok",
                 create |-> FALSE /\ next_pts' <= MaxFrames, fault |-> "none"]
<1>1. e \in Results
  BY DEF Good
<1>2. /\ e.nodes \in [Node -> NodeType] /\ e.out \in Seq(Frames) /\ e.pts \in 1..(MaxFrames + 1)
  BY <1>1 DEF Results
<1>3. y \in Results
  BY <1>2 DEF Results, Upsets
<1>4. y.out = e.out /\ y.nodes = e.nodes
  OBVIOUS
<1>5. Good(y) /\ Parts(y) = Parts(e)
  <2> HIDE DEF y
  <2> QED
    BY <1>3, <1>4, SameFrames
<1>6. Now' = y
  BY DEF Now, Begin
<1>7. Parts(Now)' = Parts(y)
  BY <1>6 DEF Parts
<1>8. Good(Now)'
  <2>1. (Now \in Results)'
    BY <1>3, <1>6 DEF Results, NodeType, Frames
  <2>2. Fits(y) /\ Tidy(y) /\ Ordered(Parts(y))
    BY <1>5 DEF Good
  <2>3. Fits(Now)'
    BY <1>6, <2>2 DEF Fits, Fit
  <2>4. Tidy(Now)'
    BY <1>6, <2>2 DEF Tidy
  <2>5. Ordered(Parts(Now))'
    BY <2>2, Zenon DEF Ordered, Older, Parts, Now, Begin
  <2> QED
    BY <2>1, <2>3, <2>4, <2>5 DEF Good
<1> QED
  BY <1>2, <1>5, <1>7, <1>8

\* What holds of an open pipeline is carried into the next state.
LEMMA CarriedOpen ==
  ASSUME NEW e, Good(e), nodes' = e.nodes, next_pts' = e.pts, delivered' = e.out,
         session' = session
  PROVE  /\ Fresh(e) => Fresh(Now)'
         /\ Whole(e) => Whole(Now)'
<1>1. Parts(Now)' = Parts(e) /\ Now'.pts = e.pts
  BY Carried DEF Now, Begin
<1>2. ASSUME Fresh(e) PROVE Fresh(Now)'
  BY <1>1, <1>2 DEF Fresh, Frame, Holds, Older
<1>3. ASSUME Whole(e) PROVE Whole(Now)'
  <2> SUFFICES ASSUME NEW k \in 1..(e.pts - 1)
               PROVE  Holds(Parts(Now), [session |-> session, pts |-> k])'
    BY <1>1, Zenon DEF Whole
  <2>1. Holds(Parts(e), [session |-> session, pts |-> k])
    BY <1>3, Zenon DEF Whole
  <2> QED
    BY <1>1, <2>1, Zenon DEF Holds
<1> QED
  BY <1>2, <1>3

\* What a stretch holds is a frame.
LEMMA HeldTyped ==
  ASSUME NEW x \in Results, NEW f, Holds(Parts(x), f)
  PROVE  f \in Frames /\ f.session \in 1..MaxSessions
<1>1. Parts(x) \in Stretches
  BY PartsTyped
<1> DEFINE P == Parts(x)
<1>2. PICK m \in 1..11 : \E i \in 1..Len(P[m]) : P[m][i] = f
  BY DEF Holds
<1>3. P[m] \in Seq(Frames)
  BY <1>1 DEF Stretches
<1> HIDE DEF P
<1>4. f \in Frames
  BY <1>2, <1>3
<1> QED
  BY <1>4 DEF Frames

\* Frames older than the next one are of this session or an earlier one.
LEMMA FreshPast ==
  ASSUME NEW x, Good(x), Fresh(x), session \in 0..MaxSessions
  PROVE  \A f : Holds(Parts(x), f) => f.session <= session
<1> SUFFICES ASSUME NEW f, Holds(Parts(x), f) PROVE f.session <= session
  OBVIOUS
<1>1. f.session \in 1..MaxSessions /\ MaxSessions \in Nat
  BY HeldTyped, OptionAssumption DEF Good
<1>2. f.session < session \/ f.session = session
  BY DEF Fresh, Older, Frame
<1> QED
  BY <1>1, <1>2

\* The frames of the state that a call leaves.
LEMMA Leaving ==
  ASSUME NEW e, Good(e), nodes' = e.nodes, next_pts' = e.pts, delivered' = e.out,
         session' = session, \A f : Holds(Parts(e), f) => f.session <= session,
         mode' \in {"Running", "Draining"} => Fresh(e) /\ Whole(e)
  PROVE  /\ FramesInv'
         /\ nodes' \in [Node -> NodeType] /\ delivered' \in Seq(Frames)
         /\ next_pts' \in 1..(MaxFrames + 1)
<1>1. /\ Good(Now)' /\ Parts(Now)' = Parts(e)
      /\ nodes' \in [Node -> NodeType] /\ delivered' \in Seq(Frames)
      /\ next_pts' \in 1..(MaxFrames + 1)
  BY Carried
<1>2. Past'
  BY <1>1 DEF Past, Holds
<1>3. Open' => Fresh(Now)' /\ Whole(Now)'
  BY CarriedOpen DEF Open
<1> QED
  BY <1>1, <1>2, <1>3 DEF FramesInv

\* A node call begins with what the state has.
LEMMA Begun ==
  ASSUME IInv, NEW create \in BOOLEAN, NEW fault \in Upsets
  PROVE  LET x == Begin(create, fault)
         IN  /\ Good(x) /\ x.nodes = nodes /\ x.pts = next_pts /\ x.out = delivered
             /\ x.create => x.pts <= MaxFrames
             /\ x.fault = fault
             /\ Open => Fresh(x) /\ Whole(x)
             /\ \A f : Holds(Parts(x), f) => f.session <= session
<1> DEFINE x == Begin(create, fault)
<1>1. /\ x.nodes = nodes /\ x.pts = next_pts /\ x.out = delivered /\ x.status = "ok"
      /\ x.create = (create /\ next_pts <= MaxFrames) /\ x.fault = fault
      /\ Now.nodes = nodes /\ Now.pts = next_pts /\ Now.out = delivered
  BY DEF Now, Begin
<1>2. x \in Results
  <2>1. (create /\ next_pts <= MaxFrames) \in BOOLEAN
    BY Zenon
  <2>2. nodes \in [Node -> NodeType] /\ next_pts \in 1..(MaxFrames + 1) /\ delivered \in Seq(Frames)
    BY DEF IInv, TypeOK
  <2> QED
    BY <2>1, <2>2 DEF Begin, Results
<1>3. Good(Now)
  BY DEF IInv, FramesInv
<1>4. x.create => x.pts <= MaxFrames
  BY <1>1, Zenon
<1> HIDE DEF x
<1>5. Good(x) /\ Parts(x) = Parts(Now)
  BY <1>1, <1>2, <1>3, SameFrames
<1>6. Open => Fresh(x) /\ Whole(x)
  BY <1>1, <1>5 DEF IInv, FramesInv, Fresh, Whole, Frame
<1>7. \A f : Holds(Parts(x), f) => f.session <= session
  BY <1>5 DEF IInv, FramesInv, Past
<1> QED
  BY <1>1, <1>4, <1>5, <1>6, <1>7 DEF x

\* Reset empties the nodes, except for the input queues and the queue of a backend
\* that refuses it.
LEMMA ResetTells ==
  ASSUME NEW x, Good(x)
  PROVE  LET y == [nodes |-> ResetNodes(x.nodes), pts |-> 1, out |-> x.out, status |-> "ok",
                   create |-> FALSE, fault |-> "none"]
         IN  /\ Good(y) /\ \A f : Holds(Parts(y), f) => Holds(Parts(x), f)
             /\ \A n \in Backends :
                  /\ ~y.nodes[n].drain_started
                  /\ LostAfter # 0 /\ x.nodes[n].accepted <= LostAfter =>
                       y.nodes[n].accepted <= LostAfter
<1> DEFINE ns == ResetNodes(x.nodes)
           y == [nodes |-> ns, pts |-> 1, out |-> x.out, status |-> "ok",
                 create |-> FALSE, fault |-> "none"]
<1>1. /\ x \in Results /\ x.nodes \in [Node -> NodeType] /\ x.out \in Seq(Frames) /\ Fits(x)
      /\ DOMAIN x.nodes = Node
  BY ResultsTold DEF Good
<1>2. <<>> \in Seq(Frames) /\ Len(<<>>) = 0 /\ LostAfter \in Nat /\ MaxFrames \in Nat
  BY OptionAssumption
<1>3. ASSUME NEW n \in Node
      PROVE  /\ ns[n] \in NodeType /\ ns[n].in = x.nodes[n].in
             /\ ns[n].queue = x.nodes[n].queue \/ ns[n].queue = <<>>
             /\ ns[n].pending_input = <<>> /\ ns[n].pending_output = <<>>
             /\ ~ns[n].drain_started
             /\ ns[n].accepted = x.nodes[n].accepted \/ ns[n].accepted = 0
  <2> DEFINE b == x.nodes[n]
  <2>1. b \in NodeType
    BY <1>1
  <2>2. \/ ns[n] = [b EXCEPT !.pending_input = <<>>, !.pending_output = <<>>,
                             !.drain_started = FALSE, !.reset_blocked = TRUE]
        \/ ns[n] = ResetNode(b)
    BY <1>1 DEF ResetNodes
  <2> HIDE DEF b, ns
  <2>3. CASE ns[n] = [b EXCEPT !.pending_input = <<>>, !.pending_output = <<>>,
                               !.drain_started = FALSE, !.reset_blocked = TRUE]
    BY <1>2, <2>1, <2>3 DEF NodeType, b
  <2>4. CASE ns[n] = ResetNode(b)
    <3>1. ns[n] = [in |-> b.in, pending_input |-> <<>>, pending_output |-> <<>>,
                   drain_started |-> FALSE, backend |-> "Created", queue |-> <<>>,
                   accepted |-> 0, reset_blocked |-> b.reset_blocked]
      BY <2>4 DEF ResetNode, NewNode
    <3>2. b.in \in Seq(Frames) /\ b.reset_blocked \in BOOLEAN
      BY <2>1, Zenon DEF NodeType
    <3>3. ns[n] \in NodeType
      BY <1>2, <3>1, <3>2 DEF NodeType
    <3> QED
      BY <3>1, <3>3 DEF b
  <2> QED
    BY <2>2, <2>3, <2>4
<1>4. ns \in [Node -> NodeType]
  <2>1. DOMAIN ns = Node /\ ns = [n \in Node |-> ns[n]]
    BY <1>1 DEF ResetNodes
  <2> HIDE DEF ns
  <2> QED
    BY <1>3, <2>1
<1> HIDE DEF ns
<1>5. y \in Results
  BY <1>1, <1>2, <1>4 DEF Results, Upsets
<1>6. y.nodes = ns /\ y.out = x.out
  OBVIOUS
<1> HIDE DEF y
<1>7. /\ "source" \in Node /\ "processor" \in Node /\ "encoder" \in Node /\ "sink" \in Node
      /\ Backends \subseteq Node
  BY NodesTold
<1>8. \A m \in 1..11 : Parts(y)[m] = Parts(x)[m] \/ Parts(y)[m] = <<>>
  <2>1. \A n \in Node : /\ y.nodes[n].in = x.nodes[n].in /\ y.nodes[n].pending_input = <<>>
                        /\ y.nodes[n].pending_output = <<>>
                        /\ y.nodes[n].queue = x.nodes[n].queue \/ y.nodes[n].queue = <<>>
    BY <1>3, <1>6
  <2>2. y.nodes["sink"].in = x.nodes["sink"].in /\ y.nodes["source"].pending_output = <<>>
    BY <1>7, <2>1
  <2>3. /\ y.nodes["encoder"].in = x.nodes["encoder"].in
        /\ y.nodes["encoder"].pending_input = <<>> /\ y.nodes["encoder"].pending_output = <<>>
        /\ y.nodes["encoder"].queue = x.nodes["encoder"].queue \/ y.nodes["encoder"].queue = <<>>
    BY <1>7, <2>1
  <2>4. /\ y.nodes["processor"].in = x.nodes["processor"].in
        /\ y.nodes["processor"].pending_input = <<>> /\ y.nodes["processor"].pending_output = <<>>
        /\ \/ y.nodes["processor"].queue = x.nodes["processor"].queue
           \/ y.nodes["processor"].queue = <<>>
    BY <1>7, <2>1
  <2> SUFFICES ASSUME NEW m \in 1..11 PROVE Parts(y)[m] = Parts(x)[m] \/ Parts(y)[m] = <<>>
    OBVIOUS
  <2> QED
    BY <1>6, <2>2, <2>3, <2>4 DEF Parts
<1>9. Parts(x) \in Stretches /\ Parts(y) \in Stretches /\ Ordered(Parts(x))
  BY <1>1, <1>5, PartsTyped DEF Good
<1>10. Ordered(Parts(y)) /\ \A f : Holds(Parts(y), f) => Holds(Parts(x), f)
  BY <1>8, <1>9, DropOrdered
<1>11. Fits(y)
  <2>1. \A n \in Node : Fit(ns[n])
    BY <1>1, <1>2, <1>3, CapacityAssumption DEF Fits, Fit
  <2> QED
    BY <1>6, <2>1 DEF Fits
<1>12. Tidy(y)
  BY <1>3, <1>6, <1>7 DEF Tidy, Good
<1>13. Good(y)
  BY <1>5, <1>10, <1>11, <1>12 DEF Good
<1>14. \A n \in Backends :
         /\ ~y.nodes[n].drain_started
         /\ LostAfter # 0 /\ x.nodes[n].accepted <= LostAfter => y.nodes[n].accepted <= LostAfter
  BY <1>2, <1>3, <1>6, <1>7
<1> QED
  BY <1>10, <1>13, <1>14 DEF y, ns

\* The other nodes are where they were.
LEMMA AwayTells ==
  ASSUME NEW x, NEW y, NEW n, Away(x, y, n), NEW m \in Node, m # n
  PROVE  /\ Serving(x.nodes[m]) => Serving(y.nodes[m])
         /\ y.nodes[m].accepted = x.nodes[m].accepted
         /\ y.nodes[m].pending_output = x.nodes[m].pending_output
         /\ m # Sink(n) \/ n = "sink" => /\ Drained(x.nodes[m]) => Drained(y.nodes[m])
                                         /\ Ending(x.nodes[m]) => Ending(y.nodes[m])
                                         /\ y.nodes[m].in = x.nodes[m].in
BY DEF Away, Unmoved, Kin, Serving, Drained, Ending

\* The drain has stopped the first d nodes.
Drains(ns, d) ==
  /\ d >= 1 => ns["source"].pending_output = <<>>
  /\ \A n \in Backends :
       /\ d >= Place(n) => Drained(ns[n])
       /\ d = Place(n) - 1 => Serving(ns[n]) \/ Ending(ns[n])
       /\ d < Place(n) - 1 => Serving(ns[n])
  /\ d = 4 => ns["sink"].in = <<>>

\* How far the drain is, node by node.
LEMMA DrainsTells ==
  ASSUME NEW ns, NEW d \in 0..4
  PROVE  Drains(ns, d) <=>
           /\ d >= 1 => ns["source"].pending_output = <<>>
           /\ d >= 2 => Drained(ns["processor"])
           /\ d >= 3 => Drained(ns["encoder"])
           /\ d = 4 => ns["sink"].in = <<>>
           /\ d = 0 => Serving(ns["processor"])
           /\ d <= 1 => Serving(ns["encoder"])
           /\ d = 1 => Serving(ns["processor"]) \/ Ending(ns["processor"])
           /\ d = 2 => Serving(ns["encoder"]) \/ Ending(ns["encoder"])
<1>1. Place("processor") = 2 /\ Place("encoder") = 3
  BY DEF Place
<1>2. /\ d < Place("processor") - 1 <=> d = 0
      /\ d < Place("encoder") - 1 <=> d <= 1
      /\ d = Place("processor") - 1 <=> d = 1
      /\ d = Place("encoder") - 1 <=> d = 2
  BY <1>1
<1> QED
  BY <1>1, <1>2 DEF Drains, Backends

\* The node whose turn it was is stopped.
LEMMA DrainOn ==
  ASSUME NEW x, NEW y, NEW d \in 0..3, Drains(x.nodes, d), Away(x, y, Order[d + 1]),
         d = 0 => y.nodes["source"].pending_output = <<>>,
         d = 1 => Drained(y.nodes["processor"]),
         d = 2 => Drained(y.nodes["encoder"]),
         d = 3 => y.nodes["sink"].in = <<>>
  PROVE  Drains(y.nodes, d + 1)
<1>0. /\ "source" \in Node /\ "processor" \in Node /\ "encoder" \in Node /\ "sink" \in Node
      /\ Sink("encoder") = "sink"
  BY NodesTold
<1>1. CASE d = 0
  <2>1. Away(x, y, "source")
    BY <1>1, NodesTold
  <2>2. Serving(y.nodes["processor"]) /\ Serving(y.nodes["encoder"])
    BY <1>0, <1>1, <2>1, AwayTells, DrainsTells
  <2> QED
    BY <1>1, <2>2, DrainsTells
<1>2. CASE d = 1
  <2>1. Away(x, y, "processor")
    BY <1>2, NodesTold
  <2>2. x.nodes["source"].pending_output = <<>> /\ Serving(x.nodes["encoder"])
    BY <1>2, DrainsTells
  <2>3. y.nodes["source"].pending_output = <<>> /\ Serving(y.nodes["encoder"])
    BY <1>0, <2>1, <2>2, AwayTells
  <2> QED
    BY <1>2, <2>3, DrainsTells
<1>3. CASE d = 2
  <2>1. Away(x, y, "encoder")
    BY <1>3, NodesTold
  <2>2. x.nodes["source"].pending_output = <<>> /\ Drained(x.nodes["processor"])
    BY <1>3, DrainsTells
  <2>3. y.nodes["source"].pending_output = <<>> /\ Drained(y.nodes["processor"])
    BY <1>0, <2>1, <2>2, AwayTells
  <2> QED
    BY <1>3, <2>3, DrainsTells
<1>4. CASE d = 3
  <2>1. Away(x, y, "sink")
    BY <1>4, NodesTold
  <2>2. /\ x.nodes["source"].pending_output = <<>>
        /\ Drained(x.nodes["processor"]) /\ Drained(x.nodes["encoder"])
    BY <1>4, DrainsTells
  <2>3. /\ y.nodes["source"].pending_output = <<>>
        /\ Drained(y.nodes["processor"]) /\ Drained(y.nodes["encoder"])
    BY <1>0, <2>1, <2>2, AwayTells
  <2> QED
    BY <1>4, <2>3, DrainsTells
<1> QED
  BY <1>1, <1>2, <1>3, <1>4

\* The node whose turn it is, or one downstream, was served.
LEMMA DrainStays ==
  ASSUME NEW x, NEW y, NEW d \in 0..3, Drains(x.nodes, d), NEW k \in (d + 1)..4,
         Away(x, y, Order[k]),
         Order[k] \in Backends => \/ k = d + 1 /\ Ending(y.nodes[Order[k]])
                                  \/ Serving(y.nodes[Order[k]])
  PROVE  Drains(y.nodes, d)
<1>0. /\ "source" \in Node /\ "processor" \in Node /\ "encoder" \in Node /\ "sink" \in Node
      /\ Sink("encoder") = "sink" /\ "processor" \in Backends /\ "encoder" \in Backends
  BY NodesTold DEF Backends
<1>1. CASE k = 1
  <2>1. Away(x, y, "source") /\ d = 0
    BY <1>1, NodesTold
  <2>2. Serving(x.nodes["processor"]) /\ Serving(x.nodes["encoder"])
    BY <2>1, DrainsTells
  <2>3. Serving(y.nodes["processor"]) /\ Serving(y.nodes["encoder"])
    BY <1>0, <2>1, <2>2, AwayTells
  <2> QED
    BY <2>1, <2>3, DrainsTells
<1>2. CASE k = 2
  <2>1. Away(x, y, "processor") /\ (d = 0 \/ d = 1) /\ Order[k] = "processor"
    BY <1>2, NodesTold
  <2>2. /\ d = 1 => x.nodes["source"].pending_output = <<>>
        /\ Serving(x.nodes["encoder"])
    BY <2>1, DrainsTells
  <2>3. /\ d = 1 => y.nodes["source"].pending_output = <<>>
        /\ Serving(y.nodes["encoder"])
    BY <1>0, <2>1, <2>2, AwayTells
  <2>4. /\ d = 0 => Serving(y.nodes["processor"])
        /\ d = 1 => Serving(y.nodes["processor"]) \/ Ending(y.nodes["processor"])
    BY <1>0, <1>2, <2>1
  <2> QED
    BY <2>1, <2>3, <2>4, DrainsTells
<1>3. CASE k = 3
  <2>1. Away(x, y, "encoder") /\ (d = 0 \/ d = 1 \/ d = 2) /\ Order[k] = "encoder"
    BY <1>3, NodesTold
  <2>2. /\ d >= 1 => x.nodes["source"].pending_output = <<>>
        /\ d = 0 => Serving(x.nodes["processor"])
        /\ d = 1 => Serving(x.nodes["processor"]) \/ Ending(x.nodes["processor"])
        /\ d = 2 => Drained(x.nodes["processor"])
    BY <2>1, DrainsTells
  <2>3. /\ d >= 1 => y.nodes["source"].pending_output = <<>>
        /\ d = 0 => Serving(y.nodes["processor"])
        /\ d = 1 => Serving(y.nodes["processor"]) \/ Ending(y.nodes["processor"])
        /\ d = 2 => Drained(y.nodes["processor"])
    BY <1>0, <2>1, <2>2, AwayTells
  <2>4. /\ d <= 1 => Serving(y.nodes["encoder"])
        /\ d = 2 => Serving(y.nodes["encoder"]) \/ Ending(y.nodes["encoder"])
    BY <1>0, <1>3, <2>1
  <2> QED
    BY <2>1, <2>3, <2>4, DrainsTells
<1>4. CASE k = 4
  <2>1. Away(x, y, "sink") /\ d \in 0..3
    BY <1>4, NodesTold
  <2>2. /\ Serving(x.nodes["processor"]) => Serving(y.nodes["processor"])
        /\ Ending(x.nodes["processor"]) => Ending(y.nodes["processor"])
        /\ Drained(x.nodes["processor"]) => Drained(y.nodes["processor"])
        /\ Serving(x.nodes["encoder"]) => Serving(y.nodes["encoder"])
        /\ Ending(x.nodes["encoder"]) => Ending(y.nodes["encoder"])
        /\ Drained(x.nodes["encoder"]) => Drained(y.nodes["encoder"])
        /\ y.nodes["source"].pending_output = x.nodes["source"].pending_output
    BY <1>0, <2>1, AwayTells
  <2>3. d # 4 /\ d \in 0..4
    OBVIOUS
  <2> QED
    BY <2>2, <2>3, DrainsTells
<1> QED
  BY <1>1, <1>2, <1>3, <1>4

------------------------------------------------------------------------------
(***************************************************************************)
(* The steps.                                                              *)
(***************************************************************************)
LEMMA Beginning ==
  ASSUME Init
  PROVE  IInv
<1>1. /\ \A n \in Node : nodes[n] = NewNode
      /\ nodes = [n \in Node |-> NewNode]
      /\ mode = "Created" /\ drain_index = 0 /\ turn = "none" /\ at = 0
      /\ session = 0 /\ next_pts = 1 /\ delivered = <<>> /\ cause \in Upsets
  BY DEF Init, Upsets
<1>2. /\ <<>> \in Seq(Frames) /\ Len(<<>>) = 0 /\ LostAfter \in Nat
      /\ MaxFrames \in Nat /\ MaxSessions \in Nat
  BY OptionAssumption
<1>3. NewNode \in NodeType
  BY <1>2 DEF NewNode, NodeType
<1>4. nodes \in [Node -> NodeType]
  BY <1>1, <1>3
<1>5. TypeOK
  BY <1>1, <1>2, <1>4 DEF TypeOK
<1>6. /\ "source" \in Node /\ "processor" \in Node /\ "encoder" \in Node /\ "sink" \in Node
      /\ Backends \subseteq Node
  BY NodesTold
<1>7. \A n \in Node : /\ nodes[n].in = <<>> /\ nodes[n].pending_input = <<>>
                      /\ nodes[n].pending_output = <<>> /\ nodes[n].queue = <<>>
                      /\ nodes[n].drain_started = FALSE /\ nodes[n].accepted = 0
  BY <1>1 DEF NewNode
<1>8. PhaseInv
  BY <1>1, <1>2, <1>6, <1>7 DEF PhaseInv
<1>9. /\ Now.nodes = nodes /\ Now.out = <<>>
      /\ Now \in Results
  <2>1. (FALSE /\ next_pts <= MaxFrames) \in BOOLEAN
    BY Zenon
  <2> QED
    BY <1>1, <1>2, <1>4, <2>1 DEF Now, Begin, Results, Upsets
<1>10. \A m \in 1..11 : Parts(Now)[m] = <<>>
  <2>1. /\ nodes["sink"].in = <<>> /\ nodes["source"].pending_output = <<>>
        /\ nodes["encoder"].in = <<>> /\ nodes["encoder"].queue = <<>>
        /\ nodes["encoder"].pending_input = <<>> /\ nodes["encoder"].pending_output = <<>>
        /\ nodes["processor"].in = <<>> /\ nodes["processor"].queue = <<>>
        /\ nodes["processor"].pending_input = <<>> /\ nodes["processor"].pending_output = <<>>
    BY <1>6, <1>7
  <2> SUFFICES ASSUME NEW m \in 1..11 PROVE Parts(Now)[m] = <<>>
    OBVIOUS
  <2> QED
    BY <1>9, <2>1 DEF Parts
<1>11. Ordered(Parts(Now)) /\ \A f : ~Holds(Parts(Now), f)
  <2> DEFINE P == Parts(Now)
  <2>1. \A m \in 1..11 : 1..Len(P[m]) = {}
    BY <1>2, <1>10
  <2> HIDE DEF P
  <2>2. Ordered(P) /\ \A f : ~Holds(P, f)
    BY <2>1 DEF Ordered, Holds
  <2> QED
    BY <2>2 DEF P
<1>12. Fits(Now)
  BY <1>2, <1>7, <1>9, CapacityAssumption DEF Fits, Fit
<1>13. Tidy(Now)
  BY <1>6, <1>7, <1>9 DEF Tidy
<1>14. FramesInv
  BY <1>1, <1>9, <1>11, <1>12, <1>13 DEF FramesInv, Good, Past, Open
<1> QED
  BY <1>5, <1>8, <1>14 DEF IInv

\* The parts of the invariant that a step needs.
LEMMA Known ==
  ASSUME IInv
  PROVE  /\ session \in 0..MaxSessions /\ drain_index \in 0..4 /\ at \in 0..4
         /\ turn \in {"none", "tick", "stop", "downstream"}
         /\ mode \in {"Created", "Running", "Draining", "Stopped", "Error"}
         /\ turn = "tick" => mode = "Running" /\ at \in 1..4
         /\ turn = "stop" => mode = "Draining"
         /\ turn = "downstream" => /\ mode = "Draining" /\ drain_index \in 0..3
                                   /\ at \in (drain_index + 2)..4
         /\ mode = "Running" => \A n \in Backends : Serving(nodes[n])
         /\ mode = "Draining" => Drains(nodes, drain_index)
         /\ Open => session \in 1..MaxSessions
         /\ LostAfter # 0 => \A n \in Backends : nodes[n].accepted <= LostAfter
         /\ MaxSessions \in Nat /\ LostAfter \in Nat /\ cause \in Upsets
<1>1. TypeOK /\ PhaseInv /\ MaxSessions \in Nat /\ LostAfter \in Nat
  BY OptionAssumption DEF IInv
<1>2. /\ session \in 0..MaxSessions /\ drain_index \in 0..4 /\ at \in 0..4
      /\ turn \in {"none", "tick", "stop", "downstream"}
      /\ mode \in {"Created", "Running", "Draining", "Stopped", "Error"} /\ cause \in Upsets
  BY <1>1 DEF TypeOK
<1>3. Open => session \in 1..MaxSessions
  BY <1>1, <1>2 DEF PhaseInv, Open
<1>4. mode = "Draining" => Drains(nodes, drain_index)
  BY <1>1, Zenon DEF PhaseInv, DrainInv, Drains
<1> QED
  BY <1>1, <1>2, <1>3, <1>4 DEF PhaseInv

\* A step that leaves the frames and the session as they are.
LEMMA Staying ==
  ASSUME IInv, UNCHANGED <<nodes, next_pts, delivered, session>>,
         mode' \in {"Running", "Draining"} => Open
  PROVE  /\ FramesInv'
         /\ nodes' \in [Node -> NodeType] /\ delivered' \in Seq(Frames)
         /\ next_pts' \in 1..(MaxFrames + 1)
<1>1. /\ Good(Now) /\ (Open => Fresh(Now) /\ Whole(Now))
      /\ \A f : Holds(Parts(Now), f) => f.session <= session
  BY DEF IInv, FramesInv, Past
<1>2. nodes' = Now.nodes /\ next_pts' = Now.pts /\ delivered' = Now.out
  BY DEF Now, Begin
<1> HIDE DEF Now
<1> QED
  BY <1>1, <1>2, Leaving

\* A step that resets the nodes.
LEMMA Closing ==
  ASSUME IInv, NEW x, Good(x), \A f : Holds(Parts(x), f) => f.session <= session,
         LostAfter # 0 => \A n \in Backends : x.nodes[n].accepted <= LostAfter,
         nodes' = ResetNodes(x.nodes), next_pts' = 1, delivered' = x.out,
         mode' \in {"Error", "Stopped"}, turn' = "none", session' = session,
         drain_index' \in 0..4, at' \in 0..4, cause' \in Upsets
  PROVE  IInv'
<1> DEFINE r == [nodes |-> ResetNodes(x.nodes), pts |-> 1, out |-> x.out, status |-> "ok",
                 create |-> FALSE, fault |-> "none"]
<1>1. /\ Good(r) /\ \A f : Holds(Parts(r), f) => Holds(Parts(x), f)
      /\ \A n \in Backends :
           /\ ~r.nodes[n].drain_started
           /\ LostAfter # 0 /\ x.nodes[n].accepted <= LostAfter => r.nodes[n].accepted <= LostAfter
  BY ResetTells
<1>2. nodes' = r.nodes /\ next_pts' = r.pts /\ delivered' = r.out /\ r.pts = 1
  OBVIOUS
<1> HIDE DEF r
<1>3. mode' \notin {"Running", "Draining"} /\ \A f : Holds(Parts(r), f) => f.session <= session
  BY <1>1
<1>4. /\ FramesInv' /\ nodes' \in [Node -> NodeType] /\ delivered' \in Seq(Frames)
      /\ next_pts' \in 1..(MaxFrames + 1)
  BY <1>1, <1>2, <1>3, Leaving
<1>5. TypeOK'
  BY <1>4, Known DEF TypeOK
<1>6. PhaseInv'
  BY <1>1, <1>2 DEF PhaseInv
<1> QED
  BY <1>4, <1>5, <1>6 DEF IInv

\* A start begins a session: every frame there is belongs to an earlier one.
LEMMA StartStep ==
  ASSUME IInv, Start
  PROVE  IInv'
<1>1. /\ mode \in {"Created", "Stopped"} /\ turn = "none" /\ session < MaxSessions
      /\ mode' = "Running" /\ session' = session + 1
      /\ UNCHANGED <<drain_index, turn, at, next_pts, delivered, cause>>
      /\ nodes' = [n \in Node |-> IF n \in Backends THEN [nodes[n] EXCEPT !.backend = "Configured"]
                                  ELSE nodes[n]]
  BY DEF Start
<1>2. next_pts = 1 /\ \A n \in Backends : ~nodes[n].drain_started
  BY <1>1 DEF IInv, PhaseInv
<1>3. /\ Good(Now) /\ \A f : Holds(Parts(Now), f) => f.session <= session
      /\ Now.nodes = nodes /\ Now.out = delivered
  BY DEF IInv, FramesInv, Past, Now, Begin
<1>4. nodes \in [Node -> NodeType] /\ delivered \in Seq(Frames) /\ next_pts \in 1..(MaxFrames + 1)
  BY DEF IInv, TypeOK
<1>5. ASSUME NEW n \in Node
      PROVE  /\ nodes'[n] \in NodeType
             /\ nodes'[n].in = nodes[n].in /\ nodes'[n].queue = nodes[n].queue
             /\ nodes'[n].pending_input = nodes[n].pending_input
             /\ nodes'[n].pending_output = nodes[n].pending_output
             /\ nodes'[n].drain_started = nodes[n].drain_started
             /\ nodes'[n].accepted = nodes[n].accepted
             /\ n \in Backends => nodes'[n].backend = "Configured"
  <2> DEFINE b == nodes[n]
             c == [b EXCEPT !.backend = "Configured"]
  <2>1. b \in NodeType
    BY <1>4
  <2>2. nodes'[n] = (IF n \in Backends THEN c ELSE b)
    BY <1>1
  <2> HIDE DEF b
  <2>3. /\ c \in NodeType /\ c.in = b.in /\ c.queue = b.queue /\ c.pending_input = b.pending_input
        /\ c.pending_output = b.pending_output /\ c.drain_started = b.drain_started
        /\ c.accepted = b.accepted /\ c.backend = "Configured"
    BY <2>1 DEF NodeType
  <2> HIDE DEF c
  <2> QED
    BY <2>1, <2>2, <2>3 DEF b
<1>6. nodes' \in [Node -> NodeType]
  BY <1>1, <1>5
<1> DEFINE e == [nodes |-> nodes', pts |-> next_pts, out |-> delivered, status |-> "ok",
                 create |-> FALSE, fault |-> "none"]
<1>7. /\ e \in Results
      /\ e.nodes = nodes' /\ e.pts = next_pts' /\ e.out = delivered' /\ e.out = Now.out
  BY <1>1, <1>3, <1>4, <1>6 DEF Results, Upsets
<1> HIDE DEF e
<1>8. Good(e) /\ Parts(e) = Parts(Now)
  <2>1. \A m \in Node : /\ e.nodes[m].in = Now.nodes[m].in /\ e.nodes[m].queue = Now.nodes[m].queue
                        /\ e.nodes[m].pending_input = Now.nodes[m].pending_input
                        /\ e.nodes[m].pending_output = Now.nodes[m].pending_output
    BY <1>3, <1>5, <1>7
  <2> HIDE DEF Now
  <2> QED
    BY <1>3, <1>7, <2>1, SameFrames
<1>9. /\ Good(Now)' /\ Parts(Now)' = Parts(Now)
      /\ nodes' \in [Node -> NodeType] /\ delivered' \in Seq(Frames)
      /\ next_pts' \in 1..(MaxFrames + 1)
  BY <1>7, <1>8, Carried
<1>10. session \in 0..MaxSessions /\ MaxSessions \in Nat
  BY Known
<1>11. \A f : Holds(Parts(Now), f) => f.session < session' /\ f.session <= session'
  <2> SUFFICES ASSUME NEW f, Holds(Parts(Now), f)
               PROVE  f.session < session' /\ f.session <= session'
    OBVIOUS
  <2>1. f.session \in 1..MaxSessions /\ f.session <= session
    BY <1>3, HeldTyped DEF Good
  <2> QED
    BY <1>1, <1>10, <2>1
<1>12. Past'
  BY <1>9, <1>11 DEF Past, Holds
<1>13. Fresh(Now)'
  BY <1>9, <1>11 DEF Fresh, Frame, Holds, Older
<1>14. Whole(Now)'
  <2>1. Now'.pts = 1
    BY <1>1, <1>2 DEF Now, Begin
  <2> QED
    BY <2>1 DEF Whole
<1>15. FramesInv'
  BY <1>9, <1>12, <1>13, <1>14 DEF FramesInv
<1>16. TypeOK'
  BY <1>1, <1>9, <1>10, Known DEF TypeOK
<1>17. PhaseInv'
  <2>1. \A n \in Backends : Serving(nodes[n])'
    BY <1>2, <1>5, NodesTold DEF Serving
  <2>2. LostAfter # 0 => \A n \in Backends : nodes'[n].accepted <= LostAfter
    BY <1>5, Known, NodesTold
  <2> QED
    BY <1>1, <1>10, <2>1, <2>2 DEF PhaseInv
<1> QED
  BY <1>15, <1>16, <1>17 DEF IInv

\* A call that begins, and a step that changes nothing.
LEMMA CallSteps ==
  ASSUME IInv, TickCalled \/ StopCalled \/ UNCHANGED vars
  PROVE  IInv'
<1>1. CASE TickCalled
  <2>1. /\ turn = "none" /\ mode = "Running" /\ turn' = "tick" /\ at' = 1
        /\ UNCHANGED <<nodes, mode, drain_index, session, next_pts, delivered, cause>>
    BY <1>1 DEF TickCalled
  <2>2. FramesInv' /\ TypeOK'
    BY <2>1, Staying, Known DEF TypeOK, Open
  <2>3. PhaseInv'
    BY <2>1 DEF IInv, PhaseInv, Serving
  <2> QED
    BY <2>2, <2>3 DEF IInv
<1>2. CASE StopCalled
  <2>1. /\ turn = "none" /\ mode \in {"Running", "Draining"} /\ turn' = "stop"
        /\ mode' = "Draining"
        /\ drain_index' = IF mode = "Running" THEN 0 ELSE drain_index
        /\ UNCHANGED <<nodes, at, session, next_pts, delivered, cause>>
    BY <1>2 DEF StopCalled
  <2>2. FramesInv' /\ TypeOK'
    BY <2>1, Staying, Known DEF TypeOK, Open
  <2>3. Drains(nodes, drain_index')
    <3>1. CASE mode = "Running"
      <4>1. Serving(nodes["processor"]) /\ Serving(nodes["encoder"]) /\ drain_index' = 0
        BY <2>1, <3>1, Known DEF Backends
      <4> QED
        BY <4>1, DrainsTells
    <3>2. CASE mode = "Draining"
      BY <2>1, <3>2, Known
    <3> QED
      BY <2>1, <3>1, <3>2
  <2>4. DrainInv'
    BY <2>1, <2>3, Zenon DEF DrainInv, Drains, Drained, Serving, Ending
  <2>5. PhaseInv'
    BY <2>1, <2>4, Known DEF PhaseInv, Open
  <2> QED
    BY <2>2, <2>5 DEF IInv
<1>3. CASE UNCHANGED vars
  <2>1. /\ UNCHANGED <<nodes, mode, drain_index, turn, at, session, next_pts, delivered, cause>>
    BY <1>3 DEF vars
  <2>2. FramesInv' /\ TypeOK'
    BY <2>1, Staying, Known DEF TypeOK, Open
  <2>3. PhaseInv'
    BY <2>1, Zenon DEF IInv, PhaseInv, DrainInv, Drained, Serving, Ending
  <2> QED
    BY <2>2, <2>3 DEF IInv
<1> QED
  BY <1>1, <1>2, <1>3

\* A drain that completes, and a reset.
LEMMA ResetSteps ==
  ASSUME IInv, Reset \/ DrainCompletes
  PROVE  IInv'
<1>1. /\ nodes' = ResetNodes(nodes) /\ next_pts' = 1 /\ delivered' = delivered
      /\ mode' \in {"Error", "Stopped"} /\ turn' = "none" /\ session' = session
      /\ drain_index' = 0 /\ at' = at /\ cause' \in Upsets
  BY Known DEF Reset, DrainCompletes, Upsets
<1>2. /\ Good(Now) /\ \A f : Holds(Parts(Now), f) => f.session <= session
      /\ Now.nodes = nodes /\ Now.out = delivered
  BY DEF IInv, FramesInv, Past, Now, Begin
<1> HIDE DEF Now
<1>3. /\ LostAfter # 0 => \A n \in Backends : Now.nodes[n].accepted <= LostAfter
      /\ at' \in 0..4 /\ drain_index' \in 0..4
  BY <1>1, <1>2, Known
<1> QED
  BY <1>1, <1>2, <1>3, Closing

\* A backend whose device is lost, within the bound on what it has accepted.
Faulty == LostAfter # 0 /\ \E n \in Backends : nodes[n].accepted = LostAfter

\* A submission is refused as lost only by a device that is.
LEMMA LostFaulty ==
  ASSUME IInv, NEW n \in Backends, Lost(nodes[n])
  PROVE  Faulty
<1>1. LostAfter # 0 /\ nodes[n].accepted <= LostAfter /\ nodes[n].accepted >= LostAfter
  BY Known DEF Lost
<1>2. nodes[n].accepted \in Nat /\ LostAfter \in Nat
  <2>1. nodes \in [Node -> NodeType] /\ n \in Node
    BY NodesTold DEF IInv, TypeOK
  <2> QED
    BY <2>1, Known DEF NodeType
<1>3. nodes[n].accepted = LostAfter
  BY <1>1, <1>2
<1> QED
  BY <1>1, <1>3 DEF Faulty

\* A call within which one node is served counts its submissions.
LEMMA Counted ==
  ASSUME IInv, NEW x, x.nodes = nodes, NEW y, NEW n, Away(x, y, n),
         n \in Backends => (LostAfter # 0 /\ x.nodes[n].accepted <= LostAfter =>
                              y.nodes[n].accepted <= LostAfter)
  PROVE  LostAfter # 0 => \A m \in Backends : y.nodes[m].accepted <= LostAfter
<1> SUFFICES ASSUME LostAfter # 0, NEW m \in Backends PROVE y.nodes[m].accepted <= LostAfter
  OBVIOUS
<1>1. x.nodes[m].accepted <= LostAfter /\ m \in Node
  BY Known, NodesTold
<1>2. CASE m = n
  BY <1>1, <1>2
<1>3. CASE m # n
  BY <1>1, <1>3, AwayTells
<1> QED
  BY <1>2, <1>3

\* Each of the four positions is a node.
LEMMA Ordering ==
  ASSUME NEW k \in 1..4
  PROVE  Order[k] \in Node
BY DEF Node

\* What a call leaves as the cause of an error.
LEMMA Blamed ==
  ASSUME NEW e, Good(e), Leaves(e) \/ DrainFails(e)
  PROVE  cause' \in Upsets
<1>1. e.fault \in Upsets /\ "none" \in Upsets
  BY ResultsTold DEF Good, Upsets
<1> QED
  BY <1>1 DEF Leaves, DrainFails

\* A node is ticked.
LEMMA TickStep ==
  ASSUME IInv, NEW create \in BOOLEAN, NEW fault \in Upsets, TickNext(create, fault)
  PROVE  IInv' /\ (mode' = "Error" => Faulty \/ cause' \in Failures)
<1> DEFINE x == Begin(create, fault)
           n == Order[at]
           e == TickNode(x, n)
<1>1. turn = "tick" /\ mode = "Running" /\ at \in 1..4 /\ Open /\ n \in Node
  BY Known, Ordering DEF TickNext, Open
<1>2. /\ Leaves(e) /\ UNCHANGED <<drain_index, session>>
      /\ mode' = (IF e.status = "failed" THEN "Error" ELSE mode)
      /\ IF e.status = "failed" \/ at = 4 THEN turn' = "none" /\ at' = 0
         ELSE turn' = turn /\ at' = at + 1
  BY DEF TickNext
<1>3. x.nodes = nodes /\ Good(x) /\ Fresh(x) /\ Whole(x) /\ (x.create => x.pts <= MaxFrames)
  BY <1>1, Begun
<1> HIDE DEF x
<1>4. (n \in Backends => Serving(x.nodes[n])) /\ session \in 1..MaxSessions
  BY <1>1, <1>3, Known
<1> HIDE DEF x, n
<1>5. /\ Good(e) /\ Fresh(e) /\ Away(x, e, n) /\ e.status \in {"ok", "blocked", "failed"}
      /\ e.status # "failed" => Whole(e)
      /\ e.status = "failed" => (n \in Backends /\ Lost(x.nodes[n])) \/ Denied(x)
      /\ e.fault = x.fault
      /\ n \in Backends => /\ e.status # "failed" => Serving(e.nodes[n])
                           /\ LostAfter # 0 /\ x.nodes[n].accepted <= LostAfter =>
                                e.nodes[n].accepted <= LostAfter
  BY <1>1, <1>3, <1>4, TickTells
<1> HIDE DEF e
<1>6. nodes' = e.nodes /\ next_pts' = e.pts /\ delivered' = e.out /\ session' = session
  BY <1>2 DEF Leaves
<1>7. \A f : Holds(Parts(e), f) => f.session <= session
  BY <1>5, FreshPast, Known
<1>8. mode' \in {"Running", "Draining"} => Fresh(e) /\ Whole(e)
  BY <1>2, <1>5
<1>9. /\ FramesInv' /\ nodes' \in [Node -> NodeType] /\ delivered' \in Seq(Frames)
      /\ next_pts' \in 1..(MaxFrames + 1)
  BY <1>5, <1>6, <1>7, <1>8, Leaving
<1>10. TypeOK'
  <2>1. at' \in 0..4
    BY <1>1, <1>2
  <2>2. turn' \in {"none", "tick"} /\ mode' \in {"Error", "Running"}
    BY <1>1, <1>2
  <2> QED
    BY <1>2, <1>5, <1>9, <2>1, <2>2, Known, Blamed DEF TypeOK
<1>11. PhaseInv'
  <2>1. LostAfter # 0 => \A m \in Backends : nodes'[m].accepted <= LostAfter
    BY <1>3, <1>5, <1>6, Counted
  <2>2. mode' = "Running" => \A m \in Backends : Serving(e.nodes[m])
    <3> SUFFICES ASSUME mode' = "Running", NEW m \in Backends PROVE Serving(e.nodes[m])
      OBVIOUS
    <3>1. Serving(x.nodes[m]) /\ m \in Node /\ e.status # "failed"
      BY <1>1, <1>2, <1>3, Known, NodesTold
    <3>2. CASE m = n
      BY <1>5, <3>1, <3>2
    <3>3. CASE m # n
      BY <1>5, <3>1, <3>3, AwayTells
    <3> QED
      BY <3>2, <3>3
  <2>3. mode' = "Running" => \A m \in Backends : Serving(nodes[m])'
    BY <1>6, <2>2 DEF Serving
  <2>4. turn' = "none" \/ (turn' = "tick" /\ mode' = "Running" /\ at' \in 1..4)
    BY <1>1, <1>2
  <2>5. mode' \in {"Error", "Running"} /\ session >= 1
    BY <1>1, <1>2, <1>4
  <2> QED
    BY <1>2, <2>1, <2>3, <2>4, <2>5 DEF PhaseInv
<1>12. mode' = "Error" => Faulty \/ cause' \in Failures
  <2> SUFFICES ASSUME mode' = "Error" PROVE Faulty \/ cause' \in Failures
    OBVIOUS
  <2>1. e.status = "failed" /\ cause' = e.fault
    BY <1>1, <1>2 DEF Leaves
  <2> QED
    BY <1>3, <1>5, <2>1, LostFaulty DEF Denied
<1> QED
  BY <1>9, <1>10, <1>11, <1>12 DEF IInv

\* A call of the drain that fails.
LEMMA FailStep ==
  ASSUME IInv, NEW e, Good(e), Fresh(e), DrainFails(e), UNCHANGED <<session, drain_index>>,
         LostAfter # 0 => \A m \in Backends : e.nodes[m].accepted <= LostAfter
  PROVE  IInv'
<1>1. /\ nodes' = ResetNodes(e.nodes) /\ next_pts' = 1 /\ delivered' = e.out
      /\ mode' \in {"Error", "Stopped"} /\ turn' = "none" /\ at' \in 0..4
      /\ drain_index' \in 0..4 /\ session' = session /\ cause' \in Upsets
  BY Known, Blamed DEF DrainFails
<1>2. \A f : Holds(Parts(e), f) => f.session <= session
  BY FreshPast, Known
<1> QED
  BY <1>1, <1>2, Closing

\* A call of the drain that goes on.
LEMMA GoesOn ==
  ASSUME IInv, mode = "Draining", NEW e, Good(e), Fresh(e), Whole(e), Leaves(e),
         UNCHANGED <<session, mode>>, drain_index' \in 0..4, Drains(e.nodes, drain_index'),
         turn' \in {"none", "stop", "downstream"}, at' \in 0..4,
         turn' = "downstream" => drain_index' < 4 /\ at' \in (drain_index' + 2)..4,
         LostAfter # 0 => \A m \in Backends : e.nodes[m].accepted <= LostAfter
  PROVE  IInv'
<1>1. nodes' = e.nodes /\ next_pts' = e.pts /\ delivered' = e.out /\ session' = session
  BY DEF Leaves
<1>2. \A f : Holds(Parts(e), f) => f.session <= session
  BY FreshPast, Known
<1>3. /\ FramesInv' /\ nodes' \in [Node -> NodeType] /\ delivered' \in Seq(Frames)
      /\ next_pts' \in 1..(MaxFrames + 1)
  BY <1>1, <1>2, Leaving
<1>4. TypeOK'
  BY <1>3, Known, Blamed DEF TypeOK
<1>5. DrainInv'
  BY <1>1, Zenon DEF DrainInv, Drains, Drained, Serving, Ending
<1>6. session >= 1 /\ mode' = "Draining"
  BY Known DEF Open
<1>7. PhaseInv'
  BY <1>1, <1>5, <1>6 DEF PhaseInv
<1> QED
  BY <1>3, <1>4, <1>7 DEF IInv

\* After a node the next one is served, or the call returns.
LEMMA Turned ==
  ASSUME NEW k \in 2..5, TurnAfter(k)
  PROVE  \/ turn' = "downstream" /\ at' = k /\ k <= 4
         \/ turn' = "none" /\ at' = 0
BY DEF TurnAfter

\* The node whose turn it is takes its part in the drain.
LEMMA StopStep ==
  ASSUME IInv, NEW fault \in Upsets, StopNext(fault)
  PROVE  IInv' /\ mode' \in {"Draining", "Error"} /\ (mode' = "Error" => Faulty \/ cause' \in Failures)
<1> DEFINE x == Begin(FALSE, fault)
           d == drain_index
           n == Order[d + 1]
           e == StopNode(x, n)
<1>1. turn = "stop" /\ mode = "Draining" /\ d \in 0..3 /\ d + 1 \in 1..4 /\ Open /\ n \in Node
  <2>1. turn = "stop" /\ mode = "Draining" /\ d \in 0..3
    BY Known DEF StopNext
  <2>2. d + 1 \in 1..4
    BY <2>1
  <2> HIDE DEF d
  <2> QED
    BY <2>1, <2>2, Ordering DEF Open
<1>2. /\ e.status \in {"ok", "eos"} =>
           Leaves(e) /\ drain_index' = d + 1 /\ UNCHANGED <<mode, turn, at>>
      /\ e.status = "blocked" => Leaves(e) /\ TurnAfter(d + 2) /\ UNCHANGED <<mode, drain_index>>
      /\ e.status = "failed" => DrainFails(e) /\ UNCHANGED drain_index
      /\ UNCHANGED session
  BY Zenon DEF StopNext
<1>3. x.nodes = nodes /\ Good(x) /\ Fresh(x) /\ Whole(x)
  BY <1>1, Begun
<1> HIDE DEF x
<1>4. Drains(x.nodes, d) /\ d \in 0..4
  BY <1>1, <1>3, Known
<1>5. n \in Backends => Serving(x.nodes[n]) \/ Ending(x.nodes[n])
  <2>1. d = 0 \/ d = 3 => n \notin Backends
    BY NodesTold DEF Backends
  <2>2. d = 1 => n = "processor"
    BY NodesTold
  <2>3. d = 2 => n = "encoder"
    BY NodesTold
  <2> HIDE DEF d, n
  <2> QED
    BY <1>1, <1>4, <2>1, <2>2, <2>3, DrainsTells
<1> HIDE DEF n
<1>6. /\ Good(e) /\ Fresh(e) /\ Away(x, e, n)
      /\ e.status \in {"ok", "blocked", "eos", "failed"}
      /\ e.status # "failed" => Whole(e)
      /\ e.status = "failed" => (n \in Backends /\ Lost(x.nodes[n])) \/ Denied(x)
      /\ e.fault = x.fault
      /\ n \in Backends =>
           /\ e.status = "blocked" => Serving(e.nodes[n]) \/ Ending(e.nodes[n])
           /\ e.status \in {"ok", "eos"} => Drained(e.nodes[n])
           /\ LostAfter # 0 /\ x.nodes[n].accepted <= LostAfter =>
                e.nodes[n].accepted <= LostAfter
      /\ n = "source" /\ e.status \in {"ok", "eos"} => e.nodes[n].pending_output = <<>>
      /\ n = "sink" /\ e.status \in {"ok", "eos"} => e.nodes[n].in = <<>>
  BY <1>1, <1>3, <1>5, StopTells
<1> HIDE DEF e, d
<1>7. LostAfter # 0 => \A m \in Backends : e.nodes[m].accepted <= LostAfter
  BY <1>3, <1>6, Counted
<1>8. /\ e.status \in {"ok", "eos", "blocked"} => mode' = "Draining"
      /\ e.status = "failed" => mode' = "Error"
  BY <1>1, <1>2 DEF DrainFails
<1>9. CASE e.status \in {"ok", "eos"}
  <2>1. Drains(e.nodes, d + 1)
    <3>1. /\ d = 0 => e.nodes["source"].pending_output = <<>>
          /\ d = 1 => Drained(e.nodes["processor"])
          /\ d = 2 => Drained(e.nodes["encoder"])
          /\ d = 3 => e.nodes["sink"].in = <<>>
      BY <1>6, <1>9, NodesTold DEF n, Backends
    <3>2. Away(x, e, Order[d + 1])
      BY <1>6 DEF n
    <3> QED
      BY <1>1, <1>4, <3>1, <3>2, DrainOn
  <2>2. /\ Leaves(e) /\ drain_index' = d + 1 /\ mode' = mode /\ turn' = "stop" /\ at' = at
        /\ drain_index' \in 0..4 /\ at' \in 0..4 /\ Whole(e)
    BY <1>1, <1>2, <1>6, <1>9, Known
  <2> QED
    BY <1>1, <1>2, <1>6, <1>7, <1>8, <1>9, <2>1, <2>2, GoesOn
<1>10. CASE e.status = "blocked"
  <2>1. /\ Leaves(e) /\ TurnAfter(d + 2) /\ mode' = mode /\ drain_index' = d /\ Whole(e)
        /\ drain_index' \in 0..4 /\ d + 2 \in 2..5
    BY <1>1, <1>2, <1>6, <1>10, Known DEF d
  <2>2. /\ turn' \in {"none", "downstream"} /\ at' \in 0..4
        /\ turn' = "downstream" => drain_index' < 4 /\ at' \in (drain_index' + 2)..4
    BY <1>1, <2>1, Turned
  <2>3. Drains(e.nodes, d)
    <3>1. d + 1 \in (d + 1)..4 /\ Away(x, e, Order[d + 1])
      BY <1>1, <1>6 DEF n
    <3>2. Order[d + 1] \in Backends => \/ Ending(e.nodes[Order[d + 1]])
                                       \/ Serving(e.nodes[Order[d + 1]])
      BY <1>6, <1>10 DEF n
    <3> QED
      BY <1>1, <1>4, <3>1, <3>2, DrainStays
  <2> QED
    BY <1>1, <1>2, <1>6, <1>7, <1>8, <1>10, <2>1, <2>2, <2>3, GoesOn
<1>11. CASE e.status = "failed"
  <2>1. IInv'
    BY <1>2, <1>6, <1>7, <1>11, FailStep
  <2>2. cause' = e.fault
    BY <1>2, <1>11 DEF DrainFails
  <2>3. Faulty \/ cause' \in Failures
    BY <1>3, <1>6, <1>11, <2>2, LostFaulty DEF Denied
  <2> QED
    BY <1>8, <1>11, <2>1, <2>3
<1> QED
  BY <1>6, <1>9, <1>10, <1>11

\* A node downstream is served before the call returns.
LEMMA DownstreamStep ==
  ASSUME IInv, NEW fault \in Upsets, DownstreamNext(fault)
  PROVE  IInv' /\ (mode' = "Error" => Faulty \/ cause' \in Failures)
<1> DEFINE x == Begin(FALSE, fault)
           d == drain_index
           n == Order[at]
           e == TickNode(x, n)
<1>1. /\ turn = "downstream" /\ mode = "Draining" /\ d \in 0..3 /\ at \in (d + 2)..4
      /\ Open /\ n \in Node /\ d \in 0..4
  <2>1. turn = "downstream" /\ mode = "Draining" /\ d \in 0..3 /\ at \in (d + 2)..4
    BY Known DEF DownstreamNext
  <2>2. at \in 1..4
    BY <2>1
  <2> HIDE DEF d
  <2> QED
    BY <2>1, <2>2, Ordering DEF Open
<1>2. /\ e.status = "failed" => DrainFails(e)
      /\ e.status # "failed" => Leaves(e) /\ TurnAfter(at + 1) /\ UNCHANGED mode
      /\ UNCHANGED <<session, drain_index>>
  BY Zenon DEF DownstreamNext
<1>3. x.nodes = nodes /\ Good(x) /\ Fresh(x) /\ Whole(x) /\ (x.create => x.pts <= MaxFrames)
  BY <1>1, Begun
<1> HIDE DEF x
<1>4. Drains(x.nodes, d) /\ session \in 1..MaxSessions
  BY <1>1, <1>3, Known
<1>5. n \in Backends => Serving(x.nodes[n])
  <2>1. at = 4 => n \notin Backends
    BY NodesTold DEF Backends
  <2>2. at = 2 => n = "processor"
    BY NodesTold
  <2>3. at = 3 => n = "encoder"
    BY NodesTold
  <2> HIDE DEF d, n
  <2>4. \/ at = 4
        \/ at = 2 /\ d = 0
        \/ at = 3 /\ d <= 1
    BY <1>1
  <2> QED
    BY <1>1, <1>4, <2>1, <2>2, <2>3, <2>4, DrainsTells
<1> HIDE DEF n
<1>6. /\ Good(e) /\ Fresh(e) /\ Away(x, e, n) /\ e.status \in {"ok", "blocked", "failed"}
      /\ e.status # "failed" => Whole(e)
      /\ e.status = "failed" => (n \in Backends /\ Lost(x.nodes[n])) \/ Denied(x)
      /\ e.fault = x.fault
      /\ n \in Backends => /\ e.status # "failed" => Serving(e.nodes[n])
                           /\ LostAfter # 0 /\ x.nodes[n].accepted <= LostAfter =>
                                e.nodes[n].accepted <= LostAfter
  BY <1>1, <1>3, <1>4, <1>5, TickTells
<1> HIDE DEF e, d
<1>7. LostAfter # 0 => \A m \in Backends : e.nodes[m].accepted <= LostAfter
  BY <1>3, <1>6, Counted
<1>8. CASE e.status = "failed"
  <2>1. IInv'
    BY <1>2, <1>6, <1>7, <1>8, FailStep
  <2>2. cause' = e.fault
    BY <1>2, <1>8 DEF DrainFails
  <2>3. Faulty \/ cause' \in Failures
    BY <1>3, <1>6, <1>8, <2>2, LostFaulty DEF Denied
  <2> QED
    BY <2>1, <2>3
<1>9. CASE e.status # "failed"
  <2>1. /\ Leaves(e) /\ TurnAfter(at + 1) /\ mode' = mode /\ Whole(e)
        /\ drain_index' = d /\ drain_index' \in 0..4 /\ at + 1 \in 2..5
    BY <1>1, <1>2, <1>6, <1>9 DEF d
  <2>2. /\ turn' \in {"none", "downstream"} /\ at' \in 0..4
        /\ turn' = "downstream" => drain_index' < 4 /\ at' \in (drain_index' + 2)..4
    BY <1>1, <2>1, Turned
  <2>3. Drains(e.nodes, d)
    <3>1. at \in (d + 1)..4 /\ Away(x, e, Order[at])
      BY <1>1, <1>6 DEF n
    <3>2. Order[at] \in Backends => Serving(e.nodes[Order[at]])
      BY <1>6, <1>9 DEF n
    <3> QED
      BY <1>1, <1>4, <3>1, <3>2, DrainStays
  <2>4. mode' # "Error"
    BY <1>1, <2>1
  <2> QED
    BY <1>1, <1>2, <1>6, <1>7, <2>1, <2>2, <2>3, <2>4, GoesOn
<1> QED
  BY <1>8, <1>9

\* The invariant is kept, and only a fault makes a call of a node fail.
LEMMA Step ==
  ASSUME IInv, [Next]_vars
  PROVE  /\ IInv'
         /\ mode # "Error" /\ mode' = "Error" =>
              Faulty \/ cause' \in Failures \/ Reset \/ DrainCompletes
<1>2. CASE Start
  BY <1>2, StartStep DEF Start
<1>3. CASE TickCalled \/ StopCalled \/ UNCHANGED vars
  BY <1>3, CallSteps DEF TickCalled, StopCalled, vars
<1>4. CASE Reset \/ DrainCompletes
  BY <1>4, ResetSteps
<1>5. ASSUME NEW fault \in Upsets, Draining(fault)
      PROVE  IInv' /\ (mode' = "Error" => Faulty \/ cause' \in Failures)
  BY <1>5, StopStep, DownstreamStep DEF Draining
<1>6. ASSUME NEW fault \in Upsets, NEW create \in BOOLEAN, TickNext(create, fault)
      PROVE  IInv' /\ (mode' = "Error" => Faulty \/ cause' \in Failures)
  BY <1>6, TickStep
<1> QED
  BY <1>2, <1>3, <1>4, <1>5, <1>6 DEF Next

------------------------------------------------------------------------------
(***************************************************************************)
(* The flow of a state.                                                    *)
(***************************************************************************)

\* The flow is the eleven stretches, end to end.
LEMMA FlowSpans ==
  ASSUME IInv
  PROVE  Spans(Parts(Now), Flow, 1, 11)
<1> DEFINE P == Parts(Now)
<1>1. Good(Now)
  BY DEF IInv, FramesInv
<1>2. P \in Stretches /\ Ordered(P)
  BY <1>1, PartsTyped DEF Good
<1>3. /\ P[1] = delivered /\ P[2] = nodes["sink"].in
      /\ P[3] = nodes["encoder"].pending_output /\ P[4] = nodes["encoder"].queue
      /\ P[5] = nodes["encoder"].pending_input /\ P[6] = nodes["encoder"].in
      /\ P[7] = nodes["processor"].pending_output /\ P[8] = nodes["processor"].queue
      /\ P[9] = nodes["processor"].pending_input /\ P[10] = nodes["processor"].in
      /\ P[11] = nodes["source"].pending_output
  <2>1. Now.nodes = nodes /\ Now.out = delivered
    BY DEF Now, Begin
  <2> QED
    BY <2>1, PartsList
<1>4. /\ nodes["source"].in = <<>> /\ nodes["sink"].pending_output = <<>>
      /\ nodes["source"].queue = <<>> /\ nodes["source"].pending_input = <<>>
      /\ nodes["sink"].queue = <<>> /\ nodes["sink"].pending_input = <<>>
  <2>1. Tidy(Now) /\ Now.nodes = nodes
    BY <1>1 DEF Good, Now, Begin
  <2> QED
    BY <2>1 DEF Tidy
<1> HIDE DEF P
<1>5. \A s \in Seq(Frames) : s \o <<>> = s /\ <<>> \o s = s
  OBVIOUS
<1>6. <<>> \in Seq(Frames) /\ \A k \in 1..11 : P[k] \in Seq(Frames)
  BY <1>2 DEF Stretches
<1>7. InFlight("sink") = P[2] /\ InFlight("source") = P[11]
  BY <1>3, <1>4, <1>5, <1>6 DEF InFlight
<1>8. /\ InFlight("encoder") = P[3] \o P[4] \o P[5] \o P[6]
      /\ InFlight("processor") = P[7] \o P[8] \o P[9] \o P[10]
  BY <1>3 DEF InFlight
<1>9. Flow = P[1] \o P[2] \o InFlight("encoder") \o InFlight("processor") \o P[11]
  BY <1>3, <1>7 DEF Flow
<1>10. \A k \in 1..11 : Spans(P, P[k], k, k)
  BY <1>2, SpanOne
<1>11. Spans(P, P[1] \o P[2], 1, 2)
  BY <1>2, <1>10, SpanJoin
<1>12. Spans(P, InFlight("encoder"), 3, 6)
  <2>1. Spans(P, P[3] \o P[4], 3, 4)
    BY <1>2, <1>10, SpanJoin
  <2>2. Spans(P, P[3] \o P[4] \o P[5], 3, 5)
    BY <1>2, <1>10, <2>1, SpanJoin
  <2>3. Spans(P, P[3] \o P[4] \o P[5] \o P[6], 3, 6)
    BY <1>2, <1>10, <2>2, SpanJoin
  <2> QED
    BY <1>8, <2>3
<1>13. Spans(P, InFlight("processor"), 7, 10)
  <2>1. Spans(P, P[7] \o P[8], 7, 8)
    BY <1>2, <1>10, SpanJoin
  <2>2. Spans(P, P[7] \o P[8] \o P[9], 7, 9)
    BY <1>2, <1>10, <2>1, SpanJoin
  <2>3. Spans(P, P[7] \o P[8] \o P[9] \o P[10], 7, 10)
    BY <1>2, <1>10, <2>2, SpanJoin
  <2> QED
    BY <1>8, <2>3
<1>14. Spans(P, P[1] \o P[2] \o InFlight("encoder"), 1, 6)
  BY <1>2, <1>11, <1>12, SpanJoin
<1>15. Spans(P, P[1] \o P[2] \o InFlight("encoder") \o InFlight("processor"), 1, 10)
  BY <1>2, <1>13, <1>14, SpanJoin
<1>16. Spans(P, Flow, 1, 11)
  BY <1>2, <1>9, <1>10, <1>15, SpanJoin
<1> QED
  BY <1>16 DEF P

\* The flow is in order and has every frame that a stretch holds.
LEMMA FlowTells ==
  ASSUME IInv
  PROVE  /\ InOrder(Flow) /\ Flow \in Seq(Frames)
         /\ \A f : Holds(Parts(Now), f) => f \in Elements(Flow)
<1>1. Flow \in Seq(Frames) /\ InOrder(Flow)
  BY FlowSpans DEF Spans
<1>2. ASSUME NEW f, Holds(Parts(Now), f) PROVE f \in Elements(Flow)
  <2>1. Occurs(Flow, f)
    BY <1>2, FlowSpans, Zenon DEF Spans, Holds
  <2>2. PICK i \in 1..Len(Flow) : Flow[i] = f
    BY <2>1 DEF Occurs
  <2>3. DOMAIN Flow = 1..Len(Flow)
    BY <1>1
  <2> QED
    BY <2>2, <2>3 DEF Elements
<1> QED
  BY <1>1, <1>2

------------------------------------------------------------------------------
(***************************************************************************)
(* The theorems.                                                           *)
(***************************************************************************)

\* The type of every variable, the phase of pipeline and backends, and the frames
\* in their stretches are an inductive invariant.
THEOREM Invariance == Spec => []IInv
<1>1. Init => IInv
  BY Beginning
<1>2. IInv /\ [Next]_vars => IInv'
  BY Step
<1> QED
  BY <1>1, <1>2, PTL DEF Spec

\* Every variable always has its type: the backends are in one of their states,
\* the queues hold frames the source created, the loops are within the nodes.
THEOREM TypeCorrect == Spec => []TypeOK
<1>1. IInv => TypeOK
  BY DEF IInv
<1> QED
  BY <1>1, Invariance, PTL

\* For any capacities, delay and faults, frames never overtake or double on their
\* way through ports, pending slots and backends, over restarts too.
THEOREM FlowSafety == Spec => []FlowInOrder
<1>1. IInv => FlowInOrder
  <2> SUFFICES ASSUME IInv, NEW i \in DOMAIN Flow, NEW j \in DOMAIN Flow, i < j
               PROVE  Older(Flow[i], Flow[j])
    BY Zenon DEF FlowInOrder, Older
  <2>1. DOMAIN Flow = 1..Len(Flow) /\ InOrder(Flow)
    BY FlowTells
  <2> QED
    BY <2>1, Zenon DEF InOrder
<1> QED
  BY <1>1, Invariance, PTL

\* While the pipeline runs or drains, every frame created since its start is
\* delivered or on its way, and no queue or pending slot exceeds its room.
THEOREM LossSafety == Spec => []NothingLost
<1>1. IInv => NothingLost
  <2> SUFFICES ASSUME IInv PROVE NothingLost
    OBVIOUS
  <2>1. ASSUME mode \in {"Running", "Draining"}, NEW k \in 1..(next_pts - 1)
        PROVE  [session |-> session, pts |-> k] \in Elements(Flow)
    <3>1. Whole(Now) /\ Now.pts = next_pts
      BY <2>1 DEF IInv, FramesInv, Open, Now, Begin
    <3>2. Holds(Parts(Now), [session |-> session, pts |-> k])
      BY <3>1 DEF Whole
    <3> QED
      BY <3>2, FlowTells
  <2>2. \A n \in Node :
          /\ Len(nodes[n].in) <= InputCapacity /\ Len(nodes[n].queue) <= QueueCapacity
          /\ Len(nodes[n].pending_input) <= 1 /\ Len(nodes[n].pending_output) <= 1
    <3>1. Fits(Now) /\ Now.nodes = nodes
      BY DEF IInv, FramesInv, Good, Now, Begin
    <3> QED
      BY <3>1 DEF Fits, Fit
  <2> QED
    BY <2>1, <2>2 DEF NothingLost
<1> QED
  BY <1>1, Invariance, PTL

\* A drain that ends has delivered every frame created since the start.
THEOREM DrainSafety == Spec => DrainDeliversAll
<1>1. IInv /\ [Next]_vars =>
        [(turn = "stop" /\ mode' = "Stopped") =>
            \A k \in 1..(next_pts - 1) :
               [session |-> session, pts |-> k] \in Elements(delivered')]_vars
  <2> SUFFICES ASSUME IInv, Next, turn = "stop", mode' = "Stopped",
                      NEW k \in 1..(next_pts - 1)
               PROVE  [session |-> session, pts |-> k] \in Elements(delivered')
    OBVIOUS
  <2> DEFINE f == [session |-> session, pts |-> k]
  <2>1. mode = "Draining" /\ Open
    BY Known DEF Open
  <2>2. DrainCompletes
    <3>1. ~Start /\ ~TickCalled /\ ~StopCalled /\ ~Reset
      BY DEF Start, TickCalled, StopCalled, Reset
    <3>2. ~\E fault \in Upsets, create \in BOOLEAN : TickNext(create, fault)
      BY DEF TickNext
    <3>3. ASSUME NEW fault \in Upsets, Draining(fault) PROVE FALSE
      <4>1. CASE DownstreamNext(fault)
        BY <4>1 DEF DownstreamNext
      <4>2. CASE StopNext(fault)
        BY <4>2, StopStep
      <4> QED
        BY <3>3, <4>1, <4>2 DEF Draining
    <3> QED
      BY <3>1, <3>2, <3>3 DEF Next
  <2>3. delivered' = delivered /\ drain_index = 4
    BY <2>2 DEF DrainCompletes
  <2>4. Drains(nodes, 4)
    BY <2>1, <2>3, Known
  <2>5. /\ nodes["source"].pending_output = <<>> /\ nodes["sink"].in = <<>>
        /\ Drained(nodes["processor"]) /\ Drained(nodes["encoder"])
    BY <2>4, DrainsTells
  <2>6. Now.nodes = nodes /\ Now.out = delivered /\ Now.pts = next_pts
    BY DEF Now, Begin
  <2>7. \A m \in 2..11 : Parts(Now)[m] = <<>>
    <3>1. \A m : m \in 2..11 => /\ m \in 1..11
                                /\ m # 1
      OBVIOUS
    <3> QED
      BY <2>5, <2>6, <3>1 DEF Parts, Drained
  <2>8. Holds(Parts(Now), f)
    BY <2>1, <2>6 DEF IInv, FramesInv, Whole
  <2>9. PICK m \in 1..11 : \E i \in 1..Len(Parts(Now)[m]) : Parts(Now)[m][i] = f
    BY <2>8 DEF Holds
  <2>10. m = 1
    <3> DEFINE P == Parts(Now)
    <3>1. \A l \in 2..11 : Len(P[l]) = 0
      BY <2>7
    <3> HIDE DEF P
    <3> QED
      BY <2>9, <3>1, SMTT(60) DEF P
  <2>11. Parts(Now)[1] = delivered /\ delivered \in Seq(Frames)
    BY <2>6, PartsList DEF IInv, TypeOK
  <2> QED
    BY <2>3, <2>9, <2>10, <2>11 DEF Elements
<1> QED
  BY <1>1, Invariance, PTL DEF Spec, DrainDeliversAll

\* Behind every error of a running or draining pipeline there is a step that failed
\* outside the nodes in that very call, a lost device or a refused reset: no call of
\* a node ever reaches a backend in a state that rejects it.
THEOREM FaultSafety == Spec => OnlyFaultsFail
<1>1. IInv /\ [Next]_vars =>
        [(mode \in {"Running", "Draining"} /\ mode' = "Error") =>
            \/ cause' \in Failures
            \/ turn = "stop" /\ drain_index = 4 /\ ResetRefused
            \/ turn = "none" /\ ResetRefused
            \/ LostAfter # 0 /\ \E n \in Backends : nodes[n].accepted = LostAfter]_vars
  <2> SUFFICES ASSUME IInv, [Next]_vars, mode \in {"Running", "Draining"}, mode' = "Error"
               PROVE  \/ cause' \in Failures
                      \/ turn = "stop" /\ drain_index = 4 /\ ResetRefused
                      \/ turn = "none" /\ ResetRefused
                      \/ LostAfter # 0 /\ \E n \in Backends : nodes[n].accepted = LostAfter
    OBVIOUS
  <2>1. CASE Faulty
    BY <2>1 DEF Faulty
  <2>2. CASE Reset \/ DrainCompletes
    BY <2>2 DEF Reset, DrainCompletes
  <2> QED
    BY <2>1, <2>2, Step
<1> QED
  BY <1>1, Invariance, PTL DEF Spec, OnlyFaultsFail
==============================================================================
