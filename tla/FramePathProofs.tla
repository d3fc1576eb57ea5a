--------------------------- MODULE FramePathProofs ---------------------------
(***************************************************************************)
(* Selections, the layouts they negotiate and the buffers made of them,    *)
(* for any providers, requests and sizes: what is computed with sizes is   *)
(* proved from the definition of the greatest common divisor and of a      *)
(* layout by the principle of the least number, and carried into an        *)
(* invariant of the registry and one of the storage.                       *)
(***************************************************************************)
EXTENDS FramePath, FiniteSetTheorems, WellFoundedInduction, TLAPS

------------------------------------------------------------------------------
(***************************************************************************)
(* Numbers.                                                                *)
(***************************************************************************)

\* A set of numbers that is not empty has a least one.
LEMMA LeastNumber ==
  ASSUME NEW T \in SUBSET Nat, T # {}
  PROVE  \E m \in T : \A k \in T : m <= k
<1> DEFINE R == OpToRel(<, Nat)
<1>1. IsWellFoundedOn(R, Nat)
  BY NatLessThanWellFounded
<1>2. \A j, k \in Nat : k < j => <<k, j>> \in R
  BY DEF OpToRel
<1> HIDE DEF R
<1>3. PICK m \in T : \A k \in T : <<k, m>> \notin R
  BY <1>1, WFMin
<1>4. m \in T /\ \A k \in T : ~(k < m)
  BY <1>2, <1>3
<1>5. m \in Nat /\ \A k \in T : k \in Nat
  OBVIOUS
<1>6. \A j, k \in Nat : ~(k < j) => j <= k
  OBVIOUS
<1> QED
  BY <1>4, <1>5, <1>6, Zenon

\* Min is that one.
LEMMA MinTold ==
  ASSUME NEW T \in SUBSET Nat, T # {}
  PROVE  Min(T) \in T /\ \A k \in T : Min(T) <= k
BY LeastNumber, Zenon DEF Min

\* Of some things with numbers one has the least number.
LEMMA LeastOf ==
  ASSUME NEW C, C # {}, NEW f, \A c \in C : f[c] \in Nat
  PROVE  \E m \in C : \A k \in C : f[m] <= f[k]
<1> DEFINE T == {f[c] : c \in C}
<1>1. T \in SUBSET Nat /\ T # {}
  OBVIOUS
<1> HIDE DEF T
<1>2. PICK n \in T : \A k \in T : n <= k
  BY <1>1, LeastNumber
<1>3. PICK m \in C : n = f[m]
  BY <1>2 DEF T
<1>4. \A k \in C : f[k] \in T
  BY DEF T
<1> QED
  BY <1>2, <1>3, <1>4

\* A multiple leaves no remainder.
LEMMA Multiple == \A c \in Nat \ {0}, k \in Int : (c * k) % c = 0
OBVIOUS

\* What leaves no remainder is a multiple.
LEMMA Quotient ==
  \A c \in Nat \ {0}, a \in Int : a % c = 0 => a \div c \in Int /\ a = c * (a \div c)
OBVIOUS

\* A number divides sums and differences of what it divides.
LEMMA DividesSums ==
  \A c \in Nat \ {0}, a, b \in Int :
    a % c = 0 /\ b % c = 0 => (a + b) % c = 0 /\ (a - b) % c = 0
<1> SUFFICES ASSUME NEW c \in Nat \ {0}, NEW a \in Int, NEW b \in Int, a % c = 0, b % c = 0
             PROVE  (a + b) % c = 0 /\ (a - b) % c = 0
  OBVIOUS
<1>1. PICK p \in Int : a = c * p
  BY Quotient
<1>2. PICK q \in Int : b = c * q
  BY Quotient
<1>3. a + b = c * (p + q) /\ a - b = c * (p - q) /\ p + q \in Int /\ p - q \in Int
  BY <1>1, <1>2
<1> QED
  BY <1>3, Multiple

\* A number divides products of what it divides.
LEMMA DividesProducts ==
  \A c \in Nat \ {0}, a, b \in Int : a % c = 0 => (a * b) % c = 0 /\ (b * a) % c = 0
<1> SUFFICES ASSUME NEW c \in Nat \ {0}, NEW a \in Int, NEW b \in Int, a % c = 0
             PROVE  (a * b) % c = 0 /\ (b * a) % c = 0
  OBVIOUS
<1>1. PICK p \in Int : a = c * p
  BY Quotient
<1>2. a * b = c * (p * b) /\ b * a = a * b /\ p * b \in Int
  BY <1>1
<1> QED
  BY <1>2, Multiple

\* What divides a divisor divides.
LEMMA DividesFurther ==
  \A c, b \in Nat \ {0}, a \in Int : a % b = 0 /\ b % c = 0 => a % c = 0
<1> SUFFICES ASSUME NEW c \in Nat \ {0}, NEW b \in Nat \ {0}, NEW a \in Int, a % b = 0, b % c = 0
             PROVE  a % c = 0
  OBVIOUS
<1>1. PICK p \in Int : a = b * p
  BY Quotient
<1>2. b \in Int /\ p \in Int
  BY <1>1
<1>3. (b * p) % c = 0
  BY <1>2, DividesProducts, Zenon
<1> QED
  BY <1>1, <1>3

\* A remainder, and what divides it.
LEMMA RemainderTold ==
  \A l \in Nat, r \in Nat \ {0} :
    /\ l % r \in 0..(r - 1)
    /\ \A d \in Nat \ {0} : r % d = 0 => (l % d = 0 <=> (l % r) % d = 0)
<1> SUFFICES ASSUME NEW l \in Nat, NEW r \in Nat \ {0}
             PROVE  /\ l % r \in 0..(r - 1)
                    /\ \A d \in Nat \ {0} : r % d = 0 => (l % d = 0 <=> (l % r) % d = 0)
  OBVIOUS
<1> DEFINE q == l \div r
           m == l % r
<1>1. q \in Int /\ m \in 0..(r - 1) /\ l = r * q + m
  OBVIOUS
<1> HIDE DEF q, m
<1>2. ASSUME NEW d \in Nat \ {0}, r % d = 0
      PROVE  l % d = 0 <=> m % d = 0
  <2> DEFINE t == r * q
  <2>1. r \in Int /\ q \in Int /\ m \in Int /\ l \in Int
    BY <1>1
  <2>2. t % d = 0
    BY <1>2, <2>1, DividesProducts, Zenon
  <2>3. t \in Int /\ l = t + m /\ m = l - t
    BY <1>1, <2>1
  <2> HIDE DEF t
  <2>4. l % d = 0 => (l - t) % d = 0
    BY <2>1, <2>2, <2>3, DividesSums, Zenon
  <2>5. m % d = 0 => (t + m) % d = 0
    BY <2>1, <2>2, <2>3, DividesSums, Zenon
  <2> QED
    BY <2>3, <2>4, <2>5, Zenon
<1> QED
  BY <1>1, <1>2 DEF m

\* align_up gives a multiple that is no less.
LEMMA AlignUp ==
  \A v \in Nat, a \in Nat \ {0} :
    align_up(v, a) \in Nat /\ align_up(v, a) % a = 0 /\ align_up(v, a) >= v
<1> SUFFICES ASSUME NEW v \in Nat, NEW a \in Nat \ {0}
             PROVE  align_up(v, a) \in Nat /\ align_up(v, a) % a = 0 /\ align_up(v, a) >= v
  OBVIOUS
<1> DEFINE q == (v + a - 1) \div a
           m == (v + a - 1) % a
<1>1. q \in Int /\ m \in 0..(a - 1) /\ v + a - 1 = a * q + m
  OBVIOUS
<1>2. align_up(v, a) = a * q
  BY <1>1 DEF align_up
<1> HIDE DEF q, m
<1>3. a * q \in Int /\ a * q >= v
  BY <1>1
<1> QED
  BY <1>1, <1>2, <1>3, Multiple
------------------------------------------------------------------------------
(***************************************************************************)
(* Divisors and multiples of two sizes.                                    *)
(***************************************************************************)

\* What the greatest common divisor of two sizes is, both zero apart.
IsGcd(g, left, right) ==
  left # 0 \/ right # 0 =>
    /\ g \in Sizes \ {0} /\ left % g = 0 /\ right % g = 0
    /\ \A d \in Nat \ {0} : left % d = 0 /\ right % d = 0 => g % d = 0

\* The value of Euclid's function for a left and a right size
Euclid(f, s) == IF s[2] = 0 THEN s[1] ELSE f[<<s[2], s[1] % s[2]>>]

\* There is a function that Euclid's equation describes.
LEMMA EuclidHolds ==
  \A s \in Sizes \X Sizes :
    greatest_common_divisor[s] = Euclid(greatest_common_divisor, s)
<1> DEFINE G == greatest_common_divisor
           Pairs == Sizes \X Sizes
           Both(l, r) == {d \in Nat \ {0} : l % d = 0 /\ r % d = 0}
           Top(l, r)  == CHOOSE d \in Both(l, r) : \A e \in Both(l, r) : e <= d
           Value(l, r) == IF r = 0 THEN l ELSE IF l % r = 0 THEN r ELSE Top(l, r)
           F == [s \in Pairs |-> Value(s[1], s[2])]
<1>1. MaxSize \in Nat
  BY RegistryAssumption
<1>2. ASSUME NEW l \in Sizes, NEW r \in Sizes, r # 0
      PROVE  Value(l, r) = Value(r, l % r) /\ l % r \in Sizes
  <2>1. l \in Nat /\ r \in Nat \ {0} /\ l % r \in Sizes /\ r \in 1..MaxSize
    BY <1>1, <1>2, RemainderTold DEF Sizes
  <2>2. CASE l % r = 0
    BY <2>1, <2>2, <1>2
  <2>3. CASE l % r # 0
    <3> DEFINE m == l % r
    <3>1. m \in Nat \ {0} /\ m < r /\ m \in Sizes
      BY <2>1, <2>3, RemainderTold DEF Sizes
    <3>2. \A d \in Nat \ {0} : r % d = 0 => (l % d = 0 <=> m % d = 0)
      BY <2>1, RemainderTold
    <3>3. Value(l, r) = Top(l, r)
      BY <1>2, <2>3
    <3> HIDE DEF m
    <3>4. Both(l, r) = Both(r, m)
      BY <3>2
    <3>5. Top(l, r) = Top(r, m)
      BY <3>4
    <3>6. Value(r, m) = IF r % m = 0 THEN m ELSE Top(r, m)
      BY <3>1
    <3>7. ASSUME r % m = 0
          PROVE  Top(r, m) = m
      <4>1. m % m = 0
        BY <3>1
      <4>2. m \in Both(r, m)
        BY <3>1, <3>7, <4>1
      <4>3. \A e \in Both(r, m) : e <= m
        <5> SUFFICES ASSUME NEW e \in Nat \ {0}, m % e = 0 PROVE e <= m
          OBVIOUS
        <5>1. m \div e \in Int /\ m = e * (m \div e)
          BY <3>1, Quotient
        <5>2. m \div e >= 1
          BY <3>1, <5>1
        <5> QED
          BY <3>1, <5>1, <5>2
      <4>4. \A d \in Both(r, m) : (\A e \in Both(r, m) : e <= d) => d = m
        <5> SUFFICES ASSUME NEW d \in Both(r, m), \A e \in Both(r, m) : e <= d PROVE d = m
          OBVIOUS
        <5>1. d <= m /\ m <= d /\ d \in Nat
          BY <4>2, <4>3
        <5> QED
          BY <3>1, <5>1
      <4> HIDE DEF Both
      <4> QED
        BY <4>2, <4>3, <4>4
    <3>8. Value(l, r) = Value(r, m)
      <4> HIDE DEF Value, Top
      <4> QED
        BY <3>3, <3>5, <3>6, <3>7
    <3> QED
      BY <2>1, <3>8 DEF m
  <2> QED
    BY <2>2, <2>3
<1>3. \A s \in Pairs : Euclid(F, s) = Value(s[1], s[2])
  <2> SUFFICES ASSUME NEW s \in Pairs PROVE Euclid(F, s) = Value(s[1], s[2])
    OBVIOUS
  <2>1. s[1] \in Sizes /\ s[2] \in Sizes
    OBVIOUS
  <2>2. CASE s[2] = 0
    BY <2>2 DEF Euclid
  <2>3. CASE s[2] # 0
    <3> DEFINE t == <<s[2], s[1] % s[2]>>
    <3>1. t \in Pairs /\ Value(s[1], s[2]) = Value(t[1], t[2])
      <4> HIDE DEF Value
      <4> QED
        BY <1>2, <2>1, <2>3
    <3>2. F[t] = Value(t[1], t[2])
      <4> HIDE DEF Value, t
      <4> QED
        BY <3>1
    <3>3. Euclid(F, s) = F[t]
      BY <2>3 DEF Euclid
    <3> HIDE DEF F, Value, t
    <3> QED
      BY <3>1, <3>2, <3>3
  <2> QED
    BY <2>2, <2>3
<1>4. F = [s \in Pairs |-> Euclid(F, s)]
  <2> HIDE DEF Value, Pairs
  <2> QED
    BY <1>3
<1>5. G = CHOOSE f : f = [s \in Pairs |-> Euclid(f, s)]
  BY DEF greatest_common_divisor, Euclid
<1> HIDE DEF F, G, Pairs
<1>6. G = [s \in Pairs |-> Euclid(G, s)]
  BY <1>4, <1>5, Zenon
<1> QED
  BY <1>6 DEF G, Pairs

\* Euclid's function gives it, for if there were a right size of which that is
\* not so, the remainder would be a lesser one.
LEMMA GcdTold ==
  \A l, r \in Sizes : IsGcd(greatest_common_divisor[<<l, r>>], l, r)
<1> DEFINE G == greatest_common_divisor
           Good(l, r) == IsGcd(G[<<l, r>>], l, r)
           T == {r \in Sizes : \E l \in Sizes : ~Good(l, r)}
<1>1. MaxSize \in Nat
  BY RegistryAssumption
<1>2. T \in SUBSET Nat
  BY <1>1 DEF Sizes
<1>3. ASSUME T # {}
      PROVE  FALSE
  <2>1. PICK r \in T : \A k \in T : r <= k
    <3> HIDE DEF T
    <3> QED
      BY <1>2, <1>3, LeastNumber
  <2>2. PICK l \in Sizes : ~Good(l, r)
    BY <2>1
  <2>3. l \in Nat /\ r \in Nat /\ r \in Sizes
    BY <1>1, <2>1, <2>2 DEF Sizes
  <2>4. G[<<l, r>>] = IF r = 0 THEN l ELSE G[<<r, l % r>>]
    <3>1. <<l, r>> \in Sizes \X Sizes /\ <<l, r>>[1] = l /\ <<l, r>>[2] = r
      BY <2>2, <2>3
    <3> QED
      BY <3>1, EuclidHolds DEF Euclid
  <2>5. CASE r = 0
    <3>1. l # 0 => l \in Sizes \ {0} /\ l % l = 0 /\ r % l = 0
      BY <2>3, <2>5, <2>2
    <3>2. Good(l, r)
      BY <2>4, <2>5, <3>1 DEF IsGcd
    <3> QED
      BY <2>2, <3>2
  <2>6. CASE r # 0
    <3> DEFINE m == l % r
               g == G[<<r, m>>]
    <3>1. r \in Nat \ {0} /\ m \in 0..(r - 1)
      BY <2>3, <2>6, RemainderTold
    <3>2. \A d \in Nat \ {0} : r % d = 0 => (l % d = 0 <=> m % d = 0)
      BY <2>3, <3>1, RemainderTold
    <3>3. G[<<l, r>>] = g
      BY <2>4, <2>6
    <3>4. m \in Sizes /\ ~(r <= m)
      BY <1>1, <2>3, <3>1 DEF Sizes
    <3> HIDE DEF m
    <3>5. Good(r, m)
      BY <2>1, <2>3, <3>4
    <3> HIDE DEF g, G
    <3>6. IsGcd(g, r, m)
      BY <3>5 DEF g, G
    <3>7. g \in Sizes \ {0} /\ r % g = 0 /\ m % g = 0
          /\ \A d \in Nat \ {0} : r % d = 0 /\ m % d = 0 => g % d = 0
      BY <3>6, <2>6 DEF IsGcd
    <3>8. g \in Nat \ {0}
      BY <1>1, <3>7 DEF Sizes
    <3>9. l % g = 0 /\ \A d \in Nat \ {0} : l % d = 0 /\ r % d = 0 => g % d = 0
      BY <3>2, <3>7, <3>8, Zenon
    <3>10. IsGcd(g, l, r)
      BY <3>7, <3>9, Zenon DEF IsGcd
    <3> QED
      BY <2>2, <3>3, <3>10 DEF G
  <2> QED
    BY <2>5, <2>6
<1>4. \A r \in Sizes : \A l \in Sizes : Good(l, r)
  BY <1>3
<1> QED
  BY <1>4

\* The least common multiple of two sizes is a multiple of each.
LEMMA LcmTold ==
  \A l, r \in Sizes \ {0} :
    /\ least_common_multiple(l, r) \in Nat \ {0}
    /\ least_common_multiple(l, r) % l = 0 /\ least_common_multiple(l, r) % r = 0
<1> SUFFICES ASSUME NEW l \in Sizes \ {0}, NEW r \in Sizes \ {0}
             PROVE  /\ least_common_multiple(l, r) \in Nat \ {0}
                    /\ least_common_multiple(l, r) % l = 0 /\ least_common_multiple(l, r) % r = 0
  OBVIOUS
<1> DEFINE g == greatest_common_divisor[<<l, r>>]
           p == l \div g
           q == r \div g
           t == p * r
<1>1. l \in Nat \ {0} /\ r \in Nat \ {0} /\ l \in Sizes /\ r \in Sizes
  BY RegistryAssumption DEF Sizes
<1>2. g \in Nat \ {0} /\ l % g = 0 /\ r % g = 0
  <2>1. IsGcd(g, l, r)
    BY <1>1, GcdTold
  <2> QED
    BY <1>1, <2>1, RegistryAssumption DEF IsGcd, Sizes
<1>3. least_common_multiple(l, r) = t
  BY DEF least_common_multiple
<1> HIDE DEF g
<1>4. p \in Int /\ l = g * p /\ q \in Int /\ r = g * q
  BY <1>1, <1>2, Quotient
<1> HIDE DEF p, q
<1>5. p >= 1
  BY <1>1, <1>2, <1>4
<1>6. t \in Nat \ {0} /\ t = r * p
  BY <1>1, <1>4, <1>5
<1>7. t = l * q
  <2>1. t = p * (g * q)
    BY <1>4
  <2> QED
    BY <2>1, <1>2, <1>4
<1> HIDE DEF t
<1>8. t % l = 0 /\ t % r = 0
  BY <1>1, <1>4, <1>6, <1>7, Multiple
<1> QED
  BY <1>3, <1>6, <1>8

------------------------------------------------------------------------------
(***************************************************************************)
(* The maps of the storage, and what holds it.                             *)
(***************************************************************************)

\* the regions that hold the storage
HoldingOf(m) == {r \in Regions : Holds(m[r])}

IsRegion(region) ==
  \/ region = Absent
  \/ /\ region # Absent /\ region.is = "region"
     /\ region.holds \in BOOLEAN /\ region.data \in BOOLEAN /\ (region.data => region.holds)

\* A region points into the storage only when it holds it; the storage is
\* mapped once for each; and as long as one of them or a buffer holds it, it is
\* there.
MapsInv ==
  /\ DOMAIN regions = Regions /\ \A r \in Regions : IsRegion(regions[r])
  /\ mapped = Cardinality(HoldingOf(regions))
  /\ buffers # {} \/ HoldingOf(regions) # {} => storage # NoStorage

\* Absent holds nothing, and neither does a region moved from.
LEMMA EmptyHanded ==
  /\ ~Holds(Absent) /\ IsRegion(Absent)
  /\ \A region : Holds(MovedFrom(region)) = FALSE /\ IsRegion(MovedFrom(region))
                   /\ MovedFrom(region) # Absent
BY DEF Holds, Absent, Emptied, MovedFrom, IsRegion

\* How many hold the storage, when one more does, one less, or one in the place
\* of another.
LEMMA HoldersCounted ==
  ASSUME NEW H \in SUBSET Regions
  PROVE  /\ Cardinality(H) \in Nat /\ (Cardinality(H) = 0 <=> H = {})
         /\ \A r \in Regions \ H : Cardinality(H \cup {r}) = Cardinality(H) + 1
         /\ \A r \in H : Cardinality(H \ {r}) = Cardinality(H) - 1
         /\ \A r \in Regions \ H, from \in H :
              Cardinality((H \ {from}) \cup {r}) = Cardinality(H)
<1>1. IsFiniteSet(H)
  BY FrameAssumption, FS_Subset
<1>2. Cardinality(H) \in Nat /\ (Cardinality(H) = 0 <=> H = {})
  BY <1>1, FS_CardinalityType, FS_EmptySet
<1>3. \A r \in Regions \ H : Cardinality(H \cup {r}) = Cardinality(H) + 1
  BY <1>1, FS_AddElement
<1>4. \A r \in H : Cardinality(H \ {r}) = Cardinality(H) - 1
  BY <1>1, FS_RemoveElement
<1>5. ASSUME NEW r \in Regions \ H, NEW from \in H
      PROVE  Cardinality((H \ {from}) \cup {r}) = Cardinality(H)
  <2> DEFINE K == H \ {from}
  <2>1. IsFiniteSet(K) /\ Cardinality(K) = Cardinality(H) - 1
    BY <1>1, <1>4, FS_RemoveElement
  <2>2. r \notin K
    OBVIOUS
  <2> HIDE DEF K
  <2>3. Cardinality(K \cup {r}) = Cardinality(K) + 1
    BY <2>1, <2>2, FS_AddElement
  <2> QED
    BY <1>2, <2>1, <2>3 DEF K
<1> QED
  BY <1>2, <1>3, <1>4, <1>5

\* The storage is there while a buffer or a region holds it.
LEMMA SharedTold ==
  ASSUME NEW left, NEW m, storage # NoStorage, left # {} \/ HoldingOf(m) # {}
  PROVE  Shared(left, m) = storage /\ Shared(left, m) # NoStorage
BY DEF Shared, HoldingOf

\* A storage that has been allocated is one.
LEMMA AllocatedTold ==
  ASSUME Allocate
  PROVE  storage' # NoStorage
<1>1. PICK capacity \in Capacities, alignment \in Alignments :
        storage' = [capacity |-> capacity, alignment |-> alignment, base |-> 3 * alignment]
  BY Zenon DEF Allocate
<1>2. alignment # 0
  BY FrameAssumption
<1> QED
  BY <1>1, <1>2 DEF NoStorage

\* Regions are constructed empty of maps.
LEMMA MapsBegin == FrameInit => MapsInv
<1> SUFFICES ASSUME FrameInit PROVE MapsInv
  OBVIOUS
<1>1. HoldingOf(regions) = {}
  BY EmptyHanded DEF FrameInit, HoldingOf
<1>2. Cardinality(HoldingOf(regions)) = 0
  BY <1>1, FS_EmptySet
<1>3. DOMAIN regions = Regions /\ \A r \in Regions : IsRegion(regions[r])
  BY EmptyHanded DEF FrameInit
<1> QED
  BY <1>1, <1>2, <1>3 DEF FrameInit, MapsInv

\* Mapping a plane: what is mapped is mapped for a region that then holds it.
LEMMA MapsMapPlane ==
  ASSUME MapsInv, NEW planes \in buffers, NEW index, NEW r \in Regions, MapPlane(planes, index, r)
  PROVE  MapsInv'
<1> DEFINE H == HoldingOf(regions)
<1>1. PICK size, address \in BOOLEAN, covered \in BOOLEAN :
        /\ mapped' = MappedAgain(covered)
        /\ regions' = IF covered
             THEN [regions EXCEPT ![r] = [is |-> "region", holds |-> TRUE,
                                          data |-> address, plane |-> planes[index]]]
             ELSE regions
  <2>1. PICK size \in {0, storage.capacity}, address \in BOOLEAN :
          LET plane   == planes[index]
              covered == is_within(plane.offset, plane.size, size) /\ (address \/ plane.size = 0)
          IN /\ mapped' = MappedAgain(covered)
             /\ regions' = IF covered
                  THEN [regions EXCEPT ![r] = [is |-> "region", holds |-> TRUE,
                                               data |-> address, plane |-> plane]]
                  ELSE regions
    BY Zenon DEF MapPlane
  <2>2. (is_within(planes[index].offset, planes[index].size, size)
           /\ (address \/ planes[index].size = 0)) \in BOOLEAN
    BY Zenon DEF is_within
  <2> QED
    BY <2>1, <2>2, Zenon
<1>2. regions[r] = Absent /\ UNCHANGED <<storage, buffers>>
  BY DEF MapPlane
<1>3. CASE ~covered
  BY <1>1, <1>2, <1>3 DEF MapsInv, MappedAgain, HoldingOf
<1>4. CASE covered
  <2> DEFINE new == [is |-> "region", holds |-> TRUE, data |-> address, plane |-> planes[index]]
  <2>1. Holds(new) /\ IsRegion(new) /\ ~Holds(regions[r])
    BY <1>2, EmptyHanded DEF Holds, IsRegion, Absent
  <2>2. regions' = [regions EXCEPT ![r] = new] /\ mapped' = mapped + 1
    BY <1>1, <1>4 DEF MappedAgain
  <2> HIDE DEF new
  <2>3. HoldingOf(regions') = H \cup {r} /\ r \notin H
    BY <2>1, <2>2 DEF HoldingOf, MapsInv
  <2>4. Cardinality(HoldingOf(regions')) = Cardinality(H) + 1
    BY <2>3, HoldersCounted DEF HoldingOf
  <2>5. DOMAIN regions' = Regions /\ \A q \in Regions : IsRegion(regions'[q])
    BY <2>1, <2>2 DEF MapsInv
  <2> QED
    BY <1>2, <2>2, <2>4, <2>5 DEF MapsInv
<1> QED
  BY <1>3, <1>4

\* Moving a region into a new one: the storage is held by the new in its place.
LEMMA MapsMoveConstruct ==
  ASSUME MapsInv, NEW r \in Regions, NEW from \in Regions, MoveConstruct(r, from)
  PROVE  MapsInv'
<1> DEFINE H == HoldingOf(regions)
           moved == MovedFrom(regions[from])
<1>1. /\ regions[r] = Absent /\ regions[from] # Absent
      /\ regions' = [regions EXCEPT ![r] = regions[from], ![from] = moved]
      /\ UNCHANGED <<storage, buffers, mapped>>
  BY DEF MoveConstruct
<1>2. ~Holds(moved) /\ IsRegion(moved) /\ ~Holds(regions[r]) /\ r # from
  BY <1>1, EmptyHanded
<1> HIDE DEF moved
<1>3. DOMAIN regions' = Regions /\ \A q \in Regions : IsRegion(regions'[q])
  BY <1>1, <1>2 DEF MapsInv
<1>4. Cardinality(HoldingOf(regions')) = Cardinality(H)
      /\ (HoldingOf(regions') # {} => H # {})
  <2>1. CASE from \in H
    <3>1. HoldingOf(regions') = (H \ {from}) \cup {r} /\ r \notin H
      BY <1>1, <1>2, <2>1 DEF HoldingOf, MapsInv
    <3> QED
      BY <2>1, <3>1, HoldersCounted DEF HoldingOf
  <2>2. CASE from \notin H
    <3>1. HoldingOf(regions') = H
      BY <1>1, <1>2, <2>2 DEF HoldingOf, MapsInv
    <3> QED
      BY <3>1
  <2> QED
    BY <2>1, <2>2
<1> QED
  BY <1>1, <1>3, <1>4 DEF MapsInv

\* Moving a region to another: what the other held is unmapped first.
LEMMA MapsMoveAssign ==
  ASSUME MapsInv, NEW r \in Regions, NEW from \in Regions, MoveAssign(r, from)
  PROVE  MapsInv'
<1> DEFINE H == HoldingOf(regions)
           moved == MovedFrom(regions[from])
<1>1. /\ r # from /\ regions[from] # Absent
      /\ mapped' = Unmapped(regions[r])
      /\ regions' = [regions EXCEPT ![r] = regions[from], ![from] = moved]
      /\ storage' = Shared(buffers, regions') /\ buffers' = buffers
  BY DEF MoveAssign
<1>2. ~Holds(moved) /\ IsRegion(moved)
  BY EmptyHanded
<1> HIDE DEF moved
<1>3. DOMAIN regions' = Regions /\ \A q \in Regions : IsRegion(regions'[q])
  BY <1>1, <1>2 DEF MapsInv
<1>4. mapped' = (IF r \in H THEN Cardinality(H) - 1 ELSE Cardinality(H))
  BY <1>1 DEF Unmapped, MapsInv, HoldingOf
<1>5. Cardinality(HoldingOf(regions')) = mapped' /\ (HoldingOf(regions') # {} => H # {})
  <2>1. CASE from \in H /\ r \notin H
    <3>1. HoldingOf(regions') = (H \ {from}) \cup {r}
      BY <1>1, <1>2, <2>1 DEF HoldingOf, MapsInv
    <3> QED
      BY <1>4, <2>1, <3>1, HoldersCounted DEF HoldingOf
  <2>2. CASE from \in H /\ r \in H
    <3>1. HoldingOf(regions') = H \ {from}
      BY <1>1, <1>2, <2>2 DEF HoldingOf, MapsInv
    <3> QED
      BY <1>4, <2>2, <3>1, HoldersCounted DEF HoldingOf
  <2>3. CASE from \notin H /\ r \in H
    <3>1. HoldingOf(regions') = H \ {r}
      BY <1>1, <1>2, <2>3 DEF HoldingOf, MapsInv
    <3> QED
      BY <1>4, <2>3, <3>1, HoldersCounted DEF HoldingOf
  <2>4. CASE from \notin H /\ r \notin H
    <3>1. HoldingOf(regions') = H
      BY <1>1, <1>2, <2>4 DEF HoldingOf, MapsInv
    <3> QED
      BY <1>4, <2>4, <3>1
  <2> QED
    BY <2>1, <2>2, <2>3, <2>4
<1>6. buffers # {} \/ HoldingOf(regions') # {} => storage' # NoStorage
  BY <1>1, <1>5, SharedTold DEF MapsInv
<1> QED
  BY <1>1, <1>3, <1>5, <1>6 DEF MapsInv

\* Destroying a region: what it held is unmapped.
LEMMA MapsDestroyRegion ==
  ASSUME MapsInv, NEW r \in Regions, DestroyRegion(r)
  PROVE  MapsInv'
<1> DEFINE H == HoldingOf(regions)
<1>1. /\ mapped' = Unmapped(regions[r])
      /\ regions' = [regions EXCEPT ![r] = Absent]
      /\ storage' = Shared(buffers, regions') /\ buffers' = buffers
  BY DEF DestroyRegion
<1>2. DOMAIN regions' = Regions /\ \A q \in Regions : IsRegion(regions'[q])
  BY <1>1, EmptyHanded DEF MapsInv
<1>3. HoldingOf(regions') = H \ {r}
  BY <1>1, EmptyHanded DEF HoldingOf, MapsInv
<1>4. mapped' = (IF r \in H THEN Cardinality(H) - 1 ELSE Cardinality(H))
  BY <1>1 DEF Unmapped, MapsInv, HoldingOf
<1>5. Cardinality(HoldingOf(regions')) = mapped' /\ (HoldingOf(regions') # {} => H # {})
  <2>1. CASE r \in H
    BY <1>3, <1>4, <2>1, HoldersCounted DEF HoldingOf
  <2>2. CASE r \notin H
    <3>1. H \ {r} = H
      BY <2>2
    <3> QED
      BY <1>3, <1>4, <2>2, <3>1
  <2> QED
    BY <2>1, <2>2
<1>6. buffers # {} \/ HoldingOf(regions') # {} => storage' # NoStorage
  BY <1>1, <1>5, SharedTold DEF MapsInv
<1> QED
  BY <1>1, <1>2, <1>5, <1>6 DEF MapsInv

\* Whatever the client does, the maps are accounted for.
LEMMA MapsKept == MapsInv /\ [FrameNext]_vars => MapsInv'
<1> SUFFICES ASSUME MapsInv, [FrameNext]_vars PROVE MapsInv'
  OBVIOUS
<1>1. ASSUME UNCHANGED frameVars PROVE MapsInv'
  BY <1>1 DEF frameVars, MapsInv, HoldingOf, IsRegion
<1>2. CASE UNCHANGED vars
  BY <1>1, <1>2 DEF vars
<1>3. CASE Allocate
  <2>1. storage' # NoStorage /\ UNCHANGED <<regions, mapped>>
    BY <1>3, AllocatedTold DEF Allocate
  <2> QED
    BY <2>1 DEF MapsInv, HoldingOf
<1>4. ASSUME NEW planes \in buffers, DropBuffer(planes) PROVE MapsInv'
  <2>1. UNCHANGED <<regions, mapped>> /\ storage' = Shared(buffers', regions)
    BY <1>4 DEF DropBuffer
  <2>2. storage # NoStorage
    BY DEF MapsInv
  <2>3. buffers' # {} \/ HoldingOf(regions) # {} => storage' # NoStorage
    BY <2>1, <2>2, SharedTold
  <2> QED
    BY <2>1, <2>3 DEF MapsInv
<1>5. ASSUME NEW planes \in buffers, Submit(planes) PROVE MapsInv'
  BY <1>5 DEF Submit, MapsInv
<1>6. ASSUME NEW planes \in buffers, NEW index, NEW offset, NEW length,
             Slice(planes, index, offset, length)
      PROVE  MapsInv'
  <2>1. UNCHANGED <<storage, regions, mapped>> /\ storage # NoStorage
    BY <1>6 DEF Slice, MapsInv
  <2> QED
    BY <2>1 DEF MapsInv
<1>7. ASSUME NEW planes \in buffers, NEW index, NEW r \in Regions, MapPlane(planes, index, r)
      PROVE  MapsInv'
  BY <1>7, MapsMapPlane
<1>8. ASSUME NEW r \in Regions, NEW from \in Regions, MoveConstruct(r, from) \/ MoveAssign(r, from)
      PROVE  MapsInv'
  BY <1>8, MapsMoveConstruct, MapsMoveAssign
<1>9. ASSUME NEW r \in Regions, DestroyRegion(r) PROVE MapsInv'
  BY <1>9, MapsDestroyRegion
<1> QED
  BY <1>1, <1>2, <1>3, <1>4, <1>5, <1>6, <1>7, <1>8, <1>9, Zenon DEF FrameNext

\* Each map of the storage is undone by one region, and nothing that points
\* into the storage outlives it: what MappedRegion's destructor and its moves do
\* in buffer.cpp, for any number of regions and storages.
THEOREM MapsSafe == Spec => []MapsAccounted
<1>1. MapsInv => MapsAccounted
  <2> SUFFICES ASSUME MapsInv PROVE MapsAccounted
    OBVIOUS
  <2>1. HoldingOf(regions) \in SUBSET Regions
    BY DEF HoldingOf
  <2>2. mapped \in Nat /\ (mapped = 0 <=> HoldingOf(regions) = {})
    BY <2>1, HoldersCounted DEF MapsInv
  <2>3. \A r \in Regions : regions[r] # Absent /\ regions[r].data => Holds(regions[r])
    BY DEF MapsInv, IsRegion, Holds
  <2>4. mapped > 0 => HoldingOf(regions) # {}
    BY <2>2
  <2> QED
    BY <2>3, <2>4 DEF MapsAccounted, MapsInv, HoldingOf
<1> QED
  BY <1>1, MapsBegin, MapsKept, PTL DEF Spec

------------------------------------------------------------------------------
(***************************************************************************)
(* What is found in a sequence.                                            *)
(***************************************************************************)

\* The domain found for a format is one of the list, for that pixel format in
\* that memory.
LEMMA DomainFound ==
  ASSUME NEW domains \in Seq(Domains), NEW format, find_format(domains, format) # 0
  PROVE  LET found == domains[find_format(domains, format)]
         IN found \in Domains /\ found.pixel = format.pixel /\ found.memory = format.memory
<1> DEFINE I == {i \in 1..Len(domains) : domains[i].pixel = format.pixel
                                           /\ domains[i].memory = format.memory}
<1>1. find_format(domains, format) = IF I # {} THEN Min(I) ELSE 0
  BY DEF find_format, SelectInSeq
<1>2. I \in SUBSET Nat /\ \A i \in I : domains[i] \in Domains
                           /\ domains[i].pixel = format.pixel /\ domains[i].memory = format.memory
  OBVIOUS
<1> HIDE DEF I
<1>3. find_format(domains, format) \in I
  BY <1>1, <1>2, MinTold
<1> QED
  BY <1>2, <1>3

\* The capability a provider matches a request with is one of its own, and
\* matches.
LEMMA CapabilityTold ==
  ASSUME NEW request \in Requests, NEW probe \in Answers, Matching[request][probe] # 0
  PROVE  /\ Capability(probe, request) \in Range(probe.capabilities)
         /\ Matches(Capability(probe, request), request)
<1> DEFINE C == probe.capabilities
           I == {i \in 1..Len(C) : Matches(C[i], request)}
<1>1. Matching[request][probe] = IF I # {} THEN Min(I) ELSE 0
  BY DEF Matching, SelectInSeq
<1>2. C \in Seq(Range(C))
  BY AnswerAssumption
<1>3. I \in SUBSET Nat /\ \A i \in I : C[i] \in Range(C) /\ Matches(C[i], request)
  <2>1. \A i \in 1..Len(C) : C[i] \in Range(C)
    BY <1>2
  <2> QED
    BY <2>1
<1> HIDE DEF I, C
<1>4. Matching[request][probe] \in I
  BY <1>1, <1>3, MinTold
<1> QED
  BY <1>3, <1>4 DEF Capability, C

\* The place of an id in the order of ids is its own.
LEMMA IdPlaced ==
  ASSUME NEW id \in Ids
  PROVE  LET place == SelectInSeq(IdOrder, LAMBDA i : i = id)
         IN place \in Nat /\ IdOrder[place] = id
<1> DEFINE I == {i \in 1..Len(IdOrder) : IdOrder[i] = id}
<1>1. SelectInSeq(IdOrder, LAMBDA i : i = id) = IF I # {} THEN Min(I) ELSE 0
  BY DEF SelectInSeq
<1>2. I # {}
  BY RegistryAssumption DEF Ids, Range
<1>3. I \in SUBSET Nat /\ \A i \in I : i \in Nat /\ IdOrder[i] = id
  OBVIOUS
<1> HIDE DEF I
<1>4. Min(I) \in I
  BY <1>2, <1>3, MinTold
<1> QED
  BY <1>1, <1>2, <1>3, <1>4

\* Where a request lists an id as preferred
ListedIn(preferred, id) == {n \in DOMAIN preferred : preferred[n] = id}

EarlierIn(preferred, id, other) ==
  /\ ListedIn(preferred, id) # {}
  /\ \A n \in ListedIn(preferred, other) : \E m \in ListedIn(preferred, id) : m < n

\* The rank of a preferred provider says which of two is listed earlier.
LEMMA RankTold ==
  ASSUME NEW preferred \in Seq(STRING), NEW id, NEW other
  PROVE  /\ preferred_provider_rank(preferred, id) \in Nat
         /\ preferred_provider_rank(preferred, other) \in Nat
         /\ EarlierIn(preferred, id, other)
              <=> preferred_provider_rank(preferred, id) < preferred_provider_rank(preferred, other)
<1> DEFINE L(i) == ListedIn(preferred, i)
           Rank(i) == preferred_provider_rank(preferred, i)
           N == Len(preferred)
<1>1. ASSUME NEW i
      PROVE  Rank(i) = IF L(i) # {} THEN Min(L(i)) - 1 ELSE N + 1
  <2> DEFINE I == {n \in 1..Len(preferred) : preferred[n] = i}
  <2>1. I = L(i) /\ I \in SUBSET (Nat \ {0})
    BY DEF ListedIn
  <2>2. Rank(i) = LET index == IF I # {} THEN Min(I) ELSE 0
                  IN IF index = 0 THEN N + 1 ELSE index - 1
    BY DEF preferred_provider_rank, SelectInSeq
  <2>3. I # {} => Min(I) # 0
    <3> HIDE DEF I
    <3> QED
      BY <2>1, MinTold
  <2> HIDE DEF I, L, Rank
  <2> QED
    BY <2>1, <2>2, <2>3
<1>2. ASSUME NEW i
      PROVE  L(i) \in SUBSET (1..N) /\ N \in Nat
  BY DEF ListedIn
<1> HIDE DEF L, Rank, N
<1>3. ASSUME NEW i, L(i) # {}
      PROVE  Min(L(i)) \in L(i) /\ Min(L(i)) \in 1..N /\ \A k \in L(i) : Min(L(i)) <= k
  BY <1>2, <1>3, MinTold
<1>4. EarlierIn(preferred, id, other)
        <=> L(id) # {} /\ \A n \in L(other) : \E m \in L(id) : m < n
  BY DEF EarlierIn, L
<1>5. Rank(id) \in Nat /\ Rank(other) \in Nat
  BY <1>1, <1>2, <1>3
<1>6. ASSUME L(id) # {}, \A n \in L(other) : \E m \in L(id) : m < n
      PROVE  Rank(id) < Rank(other)
  <2>1. CASE L(other) = {}
    BY <1>1, <1>2, <1>3, <1>6, <2>1
  <2>2. CASE L(other) # {}
    <3>1. PICK m \in L(id) : m < Min(L(other))
      BY <1>3, <1>6, <2>2
    <3>2. m \in 1..N /\ Min(L(id)) <= m
      BY <1>2, <1>3, <3>1
    <3> QED
      BY <1>1, <1>2, <1>3, <1>6, <2>2, <3>1, <3>2
  <2> QED
    BY <2>1, <2>2
<1>7. ASSUME Rank(id) < Rank(other)
      PROVE  L(id) # {} /\ \A n \in L(other) : \E m \in L(id) : m < n
  <2>1. L(id) # {}
    <3> SUFFICES ASSUME L(id) = {} PROVE FALSE
      OBVIOUS
    <3>1. Rank(id) = N + 1 /\ Rank(other) <= N + 1
      BY <1>1, <1>2, <1>3
    <3> QED
      BY <1>2, <1>5, <1>7, <3>1
  <2>2. ASSUME NEW n \in L(other) PROVE Min(L(id)) < n
    <3>1. L(other) # {} /\ Min(L(other)) <= n /\ n \in 1..N
      BY <1>2, <1>3
    <3> QED
      BY <1>1, <1>2, <1>3, <1>7, <2>1, <3>1
  <2> QED
    BY <1>3, <2>1, <2>2
<1> QED
  BY <1>4, <1>5, <1>6, <1>7 DEF Rank

------------------------------------------------------------------------------
(***************************************************************************)
(* The provider chosen.                                                    *)
(***************************************************************************)
Tuples == Nat \X Nat \X Nat \X Nat

\* The order of scores, one coordinate after the other.
LEMMA LessTold ==
  \A s, t \in Tuples :
    Less(s, t) <=> \/ s[1] < t[1]
                   \/ s[1] = t[1] /\ s[2] < t[2]
                   \/ s[1] = t[1] /\ s[2] = t[2] /\ s[3] < t[3]
                   \/ s[1] = t[1] /\ s[2] = t[2] /\ s[3] = t[3] /\ s[4] < t[4]
<1> SUFFICES ASSUME NEW s \in Tuples, NEW t \in Tuples
             PROVE  Less(s, t) <=> \/ s[1] < t[1]
                                   \/ s[1] = t[1] /\ s[2] < t[2]
                                   \/ s[1] = t[1] /\ s[2] = t[2] /\ s[3] < t[3]
                                   \/ s[1] = t[1] /\ s[2] = t[2] /\ s[3] = t[3] /\ s[4] < t[4]
  OBVIOUS
<1>1. DOMAIN s = 1..4
  BY DEF Tuples
<1>2. 1..4 = {1, 2, 3, 4} /\ 1..(1 - 1) = {} /\ 1..(2 - 1) = {1} /\ 1..(3 - 1) = {1, 2}
      /\ 1..(4 - 1) = {1, 2, 3}
  OBVIOUS
<1> QED
  BY <1>1, <1>2 DEF Less

\* Among scores that differ in the last coordinate one is less than the others.
LEMMA LeastScore ==
  ASSUME NEW C, C # {}, NEW s, \A c \in C : s[c] \in Tuples,
         \A c, d \in C : s[c][4] = s[d][4] => c = d
  PROVE  \E m \in C : \A k \in C \ {m} : Less(s[m], s[k])
<1> DEFINE f1 == [c \in C |-> s[c][1]]
           f2 == [c \in C |-> s[c][2]]
           f3 == [c \in C |-> s[c][3]]
           f4 == [c \in C |-> s[c][4]]
<1>1. \A c \in C : f1[c] \in Nat /\ f2[c] \in Nat /\ f3[c] \in Nat /\ f4[c] \in Nat
  BY DEF Tuples
<1>2. \A c \in C : /\ f1[c] = s[c][1] /\ f2[c] = s[c][2]
                   /\ f3[c] = s[c][3] /\ f4[c] = s[c][4]
  OBVIOUS
<1> HIDE DEF f1, f2, f3, f4
<1>3. PICK m1 \in C : \A k \in C : f1[m1] <= f1[k]
  BY <1>1, LeastOf
<1> DEFINE C1 == {c \in C : f1[c] = f1[m1]}
<1>4. C1 # {} /\ \A c \in C1 : c \in C /\ f2[c] \in Nat
  BY <1>1, <1>3
<1> HIDE DEF C1
<1>5. PICK m2 \in C1 : \A k \in C1 : f2[m2] <= f2[k]
  BY <1>4, LeastOf
<1> DEFINE C2 == {c \in C1 : f2[c] = f2[m2]}
<1>6. C2 # {} /\ \A c \in C2 : c \in C1 /\ f3[c] \in Nat
  BY <1>1, <1>4, <1>5
<1> HIDE DEF C2
<1>7. PICK m3 \in C2 : \A k \in C2 : f3[m3] <= f3[k]
  BY <1>6, LeastOf
<1> DEFINE C3 == {c \in C2 : f3[c] = f3[m3]}
<1>8. C3 # {} /\ \A c \in C3 : c \in C2 /\ f4[c] \in Nat
  BY <1>1, <1>4, <1>6, <1>7
<1> HIDE DEF C3
<1>9. PICK m \in C3 : \A k \in C3 : f4[m] <= f4[k]
  BY <1>8, LeastOf
<1>10. /\ m \in C /\ f1[m] = f1[m1] /\ f2[m] = f2[m2] /\ f3[m] = f3[m3]
       /\ \A k \in C : /\ f1[m] <= f1[k]
                       /\ f1[m] = f1[k] => f2[m] <= f2[k]
                       /\ f1[m] = f1[k] /\ f2[m] = f2[k] => f3[m] <= f3[k]
                       /\ f1[m] = f1[k] /\ f2[m] = f2[k] /\ f3[m] = f3[k] => f4[m] <= f4[k]
  BY <1>3, <1>4, <1>5, <1>6, <1>7, <1>8, <1>9 DEF C1, C2, C3
<1>11. ASSUME NEW k \in C \ {m} PROVE Less(s[m], s[k])
  <2>1. f4[m] # f4[k]
    BY <1>2, <1>10
  <2>2. \/ f1[m] < f1[k]
        \/ f1[m] = f1[k] /\ f2[m] < f2[k]
        \/ f1[m] = f1[k] /\ f2[m] = f2[k] /\ f3[m] < f3[k]
        \/ f1[m] = f1[k] /\ f2[m] = f2[k] /\ f3[m] = f3[k] /\ f4[m] < f4[k]
    BY <1>1, <1>10, <2>1
  <2>3. s[m] \in Tuples /\ s[k] \in Tuples
    BY <1>10
  <2> QED
    BY <1>2, <1>10, <2>2, <2>3, LessTold
<1> QED
  BY <1>10, <1>11

\* What a selection has seen: answers of the providers it probed
ProbesSeen(probes) ==
  /\ DOMAIN probes \subseteq Ids
  /\ \A id \in DOMAIN probes : probes[id].status = "ok" => probes[id] \in Answers

\* The score of one that has answered: four numbers, the last its own
LEMMA ScoreTold ==
  ASSUME NEW request \in Requests, NEW probe \in Answers, NEW id \in Ids
  PROVE  /\ Score(probe, id, request) \in Tuples
         /\ Score(probe, id, request)[1] = preferred_provider_rank(request.preferred, id)
         /\ Score(probe, id, request)[2] = provider_kind_rank(probe.kind, request.prefer_hardware)
         /\ Score(probe, id, request)[3] = zero_copy_rank(Capability(probe, request), request)
         /\ IdOrder[Score(probe, id, request)[4]] = id
<1> DEFINE a == preferred_provider_rank(request.preferred, id)
           b == provider_kind_rank(probe.kind, request.prefer_hardware)
           c == zero_copy_rank(Capability(probe, request), request)
           d == SelectInSeq(IdOrder, LAMBDA i : i = id)
<1>1. a \in Nat
  BY RequestAssumption, RankTold
<1>2. b \in Nat
  BY AnswerAssumption DEF provider_kind_rank
<1>3. c \in Nat
  BY DEF zero_copy_rank
<1>4. d \in Nat /\ IdOrder[d] = id
  BY IdPlaced
<1>5. Score(probe, id, request) = <<a, b, c, d>>
  BY DEF Score
<1> HIDE DEF a, b, c, d
<1> QED
  BY <1>1, <1>2, <1>3, <1>4, <1>5 DEF Tuples, a, b, c

\* There is a best candidate.
LEMMA BestTold ==
  ASSUME NEW request \in Requests, NEW probes, ProbesSeen(probes),
         Candidates(probes, request) # {}
  PROVE  /\ Best(probes, request) \in Candidates(probes, request)
         /\ \A other \in Candidates(probes, request) \ {Best(probes, request)} :
              Less(Score(probes[Best(probes, request)], Best(probes, request), request),
                   Score(probes[other], other, request))
<1> DEFINE C == Candidates(probes, request)
           s == [c \in C |-> Score(probes[c], c, request)]
           IsBest(id) == \A other \in C \ {id} :
             Less(Score(probes[id], id, request), Score(probes[other], other, request))
<1>1. \A c \in C : c \in Ids /\ probes[c] \in Answers
  BY DEF Candidates, ProbesSeen
<1>2. \A c \in C : s[c] = Score(probes[c], c, request)
  OBVIOUS
<1>3. Best(probes, request) = CHOOSE id \in C : IsBest(id)
  BY DEF Best
<1> HIDE DEF C, s
<1>4. \A c \in C : s[c] \in Tuples /\ IdOrder[s[c][4]] = c
  BY <1>1, <1>2, ScoreTold
<1>5. \A c, d \in C : s[c][4] = s[d][4] => c = d
  BY <1>4, Zenon
<1>6. PICK m \in C : \A k \in C \ {m} : Less(s[m], s[k])
  BY <1>4, <1>5, LeastScore DEF C
<1>7. IsBest(m)
  BY <1>2, <1>6
<1> HIDE DEF IsBest
<1>8. Best(probes, request) \in C /\ IsBest(Best(probes, request))
  BY <1>3, <1>7
<1> QED
  BY <1>8 DEF C, IsBest

------------------------------------------------------------------------------
(***************************************************************************)
(* The selection.                                                          *)
(***************************************************************************)

\* A selection that succeeded is the negotiation with what a provider answered
\* when it was probed for it: the best of them, unless one was required.
IsSelection(s) ==
  s.result.status = "ok" =>
    /\ s.request \in Requests /\ ProbesSeen(s.probes)
    /\ s.provider \in DOMAIN s.probes /\ s.probes[s.provider] \in Answers
    /\ s.result = Negotiate[s.request][s.probes[s.provider]]
    /\ s.request.required = "none" =>
         Candidates(s.probes, s.request) # {} /\ s.provider = Best(s.probes, s.request)

RegistryInv ==
  /\ DOMAIN providers \subseteq Ids /\ \A id \in DOMAIN providers : providers[id] \in Providers
  /\ IsSelection(selection)

\* What a registry selects is such a selection.
LEMMA SelectTold ==
  ASSUME RegistryInv, NEW request \in Requests, Select(request)
  PROVE  IsSelection(selection')
<1>1. PICK probes \in [Probed(request) -> UNION {ProbesOf[p] : p \in Providers}] :
        LET outcome == IF request.required = "none" THEN Chosen(probes, request)
                                                    ELSE Required(probes, request)
        IN selection' = [request |-> request, probes |-> probes,
                         provider |-> outcome.provider, result |-> outcome.result]
  BY Zenon DEF Select
<1> DEFINE outcome == IF request.required = "none" THEN Chosen(probes, request)
                                                   ELSE Required(probes, request)
           made == [request |-> request, probes |-> probes,
                    provider |-> outcome.provider, result |-> outcome.result]
<1>2. selection' = made
  BY <1>1
<1> HIDE DEF outcome
<1>3. DOMAIN probes = Probed(request) /\ Probed(request) \subseteq DOMAIN providers
  BY DEF Probed
<1>4. ProbesSeen(probes)
  BY <1>3 DEF ProbesSeen, RegistryInv, Answers
<1>5. CASE outcome.result.status # "ok"
  BY <1>2, <1>5 DEF IsSelection
<1>6. CASE outcome.result.status = "ok"
  <2>1. CASE request.required = "none"
    <3> DEFINE C == Candidates(probes, request)
               best == Best(probes, request)
    <3>1. outcome = Chosen(probes, request)
      BY <2>1 DEF outcome
    <3>2. C # {} /\ outcome = Served(probes, best, request)
      BY <1>6, <3>1 DEF Chosen, Refused, Refusal
    <3>3. best \in C
      BY <1>4, <3>2, BestTold
    <3>4. best \in DOMAIN probes /\ probes[best] \in Answers
      BY <1>4, <3>3 DEF Candidates, ProbesSeen
    <3>5. outcome.provider = best /\ outcome.result = Negotiate[request][probes[best]]
      BY <3>2 DEF Served
    <3> QED
      BY <1>2, <1>4, <3>2, <3>4, <3>5 DEF IsSelection
  <2>2. CASE request.required # "none"
    <3> DEFINE id == request.required
    <3>1. outcome = Required(probes, request)
      BY <2>2 DEF outcome
    <3>2. /\ id \in DOMAIN providers /\ probes[id].status = "ok"
          /\ outcome = Served(probes, id, request)
      BY <1>6, <3>1 DEF Required, Refused, Refusal
    <3>3. id \in DOMAIN probes
      BY <1>3, <2>2, <3>2 DEF Probed
    <3>4. probes[id] \in Answers
      BY <1>4, <3>2, <3>3 DEF ProbesSeen
    <3>5. outcome.provider = id /\ outcome.result = Negotiate[request][probes[id]]
      BY <3>2 DEF Served
    <3> QED
      BY <1>2, <1>4, <2>2, <3>3, <3>4, <3>5 DEF IsSelection
  <2> QED
    BY <2>1, <2>2
<1> QED
  BY <1>5, <1>6

\* What changes the providers and the selection, and what the client does
LEMMA RegistryApart ==
  ASSUME [FrameNext]_vars
  PROVE  \/ UNCHANGED registryVars
         \/ UNCHANGED frameVars /\ \/ \E p \in Providers : Register(p)
                                   \/ Freeze
                                   \/ /\ selection = NoSelection
                                      /\ \E request \in Requests : Select(request)
<1>1. CASE UNCHANGED vars
  BY <1>1, Zenon DEF vars
<1>2. CASE Allocate
  BY <1>2, Zenon DEF Allocate
<1>3. ASSUME NEW planes, DropBuffer(planes) \/ Submit(planes) PROVE UNCHANGED registryVars
  BY <1>3, Zenon DEF DropBuffer, Submit
<1>4. ASSUME NEW planes, NEW index, NEW offset, NEW length, Slice(planes, index, offset, length)
      PROVE  UNCHANGED registryVars
  BY <1>4, Zenon DEF Slice
<1>5. ASSUME NEW planes, NEW index, NEW r, MapPlane(planes, index, r)
      PROVE  UNCHANGED registryVars
  BY <1>5, Zenon DEF MapPlane
<1>6. ASSUME NEW r, NEW from, MoveConstruct(r, from) \/ MoveAssign(r, from)
      PROVE  UNCHANGED registryVars
  BY <1>6, Zenon DEF MoveConstruct, MoveAssign
<1>7. ASSUME NEW r, DestroyRegion(r) PROVE UNCHANGED registryVars
  BY <1>7, Zenon DEF DestroyRegion
<1> QED
  BY <1>1, <1>2, <1>3, <1>4, <1>5, <1>6, <1>7, Zenon DEF FrameNext

\* Nothing is selected at first.
LEMMA RegistryBegins == FrameInit => RegistryInv
<1>1. NoSelection.result.status # "ok"
  BY DEF NoSelection, Refusal
<1>2. DOMAIN <<>> = {}
  OBVIOUS
<1> QED
  BY <1>1, <1>2 DEF FrameInit, Init, RegistryInv, IsSelection

\* However providers come and what they answer, the selection is as it says.
LEMMA RegistryKept == RegistryInv /\ [FrameNext]_vars => RegistryInv'
<1> SUFFICES ASSUME RegistryInv, [FrameNext]_vars PROVE RegistryInv'
  OBVIOUS
<1>1. CASE UNCHANGED registryVars
  <2>1. UNCHANGED <<providers, selection>>
    BY <1>1 DEF registryVars
  <2> QED
    BY <2>1, Zenon DEF RegistryInv
<1>2. ASSUME NEW p \in Providers, Register(p) PROVE RegistryInv'
  <2>1. /\ providers' = [id \in DOMAIN providers \cup {IdOf[p]} |->
                           IF id = IdOf[p] THEN p ELSE providers[id]]
        /\ selection' = selection
    BY <1>2 DEF Register
  <2>2. IdOf[p] \in Ids
    BY RegistryAssumption
  <2>3. DOMAIN providers' \subseteq Ids
        /\ \A id \in DOMAIN providers' : providers'[id] \in Providers
    BY <2>1, <2>2 DEF RegistryInv
  <2> QED
    BY <2>1, <2>3, Zenon DEF RegistryInv
<1>3. CASE Freeze
  <2>1. UNCHANGED <<providers, selection>>
    BY <1>3 DEF Freeze
  <2> QED
    BY <2>1, Zenon DEF RegistryInv
<1>4. ASSUME NEW request \in Requests, Select(request) PROVE RegistryInv'
  <2>1. providers' = providers
    BY <1>4 DEF Select
  <2>2. IsSelection(selection')
    BY <1>4, SelectTold
  <2> QED
    BY <2>1, <2>2, Zenon DEF RegistryInv
<1> QED
  BY <1>1, <1>2, <1>3, <1>4, RegistryApart, Zenon

\* No candidate outranks the best.
LEMMA BestOutranks ==
  ASSUME RegistryInv, Selected, selection.request.required = "none",
         NEW other \in Candidates(selection.probes, selection.request)
  PROVE  ~Outranks(other, selection.provider)
<1> DEFINE request == selection.request
           probes  == selection.probes
           best    == selection.provider
           preferred == request.preferred
           Kind(i) == provider_kind_rank(probes[i].kind, request.prefer_hardware)
           Copy(i) == zero_copy_rank(Capability(probes[i], request), request)
           Rank(i) == preferred_provider_rank(preferred, i)
           Listed(i) == {n \in DOMAIN request.preferred : request.preferred[n] = i}
           Earlier(i, j) == Listed(i) # {} /\ \A n \in Listed(j) : \E m \in Listed(i) : m < n
           Nearer(i, j) ==
             LET kinds == <<selection.probes[i].kind, selection.probes[j].kind>>
             IN request.prefer_hardware
                  /\ kinds \in {<<"hardware", "software">>, <<"hardware", "reference">>,
                                <<"software", "reference">>}
           Copies(i) == ~Negotiate[request][selection.probes[i]].zero_copy
           Leaner(i, j) == /\ request.prefer_zero_copy
                           /\ Negotiate[request][selection.probes[i]].status = "ok"
                           /\ Negotiate[request][selection.probes[j]].status = "ok"
                           /\ ~Copies(i) /\ Copies(j)
<1>1. /\ request \in Requests /\ ProbesSeen(probes) /\ Candidates(probes, request) # {}
      /\ best = Best(probes, request)
  BY DEF RegistryInv, IsSelection, Selected
<1>2. /\ best \in Candidates(probes, request)
      /\ other # best => Less(Score(probes[best], best, request),
                              Score(probes[other], other, request))
  BY <1>1, BestTold
<1>3. \A i \in Candidates(probes, request) :
        i \in Ids /\ probes[i] \in Answers /\ Matching[request][probes[i]] # 0
  BY <1>1 DEF Candidates, ProbesSeen, MatchStatus
<1>4. \A i \in Candidates(probes, request) :
        LET score == Score(probes[i], i, request)
        IN score \in Tuples /\ score[1] = Rank(i) /\ score[2] = Kind(i) /\ score[3] = Copy(i)
  BY <1>1, <1>3, ScoreTold
<1>5. /\ Rank(best) \in Nat /\ Kind(best) \in Nat /\ Copy(best) \in Nat
      /\ Rank(other) \in Nat /\ Kind(other) \in Nat /\ Copy(other) \in Nat
  BY <1>2, <1>4 DEF Tuples
<1>6. \/ other = best
      \/ Rank(best) < Rank(other)
      \/ Rank(best) = Rank(other) /\ Kind(best) < Kind(other)
      \/ Rank(best) = Rank(other) /\ Kind(best) = Kind(other) /\ Copy(best) <= Copy(other)
  <2> HIDE DEF Rank, Kind, Copy, probes, request, best
  <2> DEFINE a == Score(probes[best], best, request)
             b == Score(probes[other], other, request)
  <2>1. /\ a \in Tuples /\ a[1] = Rank(best) /\ a[2] = Kind(best) /\ a[3] = Copy(best)
        /\ b \in Tuples /\ b[1] = Rank(other) /\ b[2] = Kind(other) /\ b[3] = Copy(other)
    BY <1>2, <1>4 DEF probes, request
  <2>2. other # best => Less(a, b)
    BY <1>2
  <2> HIDE DEF a, b
  <2> QED
    BY <1>5, <2>1, <2>2, LessTold
<1>7. \A i, j \in Candidates(probes, request) : Earlier(i, j) <=> Rank(i) < Rank(j)
  <2>1. preferred \in Seq(STRING)
    BY <1>1, RequestAssumption
  <2>2. \A i, j : EarlierIn(preferred, i, j) <=> Rank(i) < Rank(j)
    BY <2>1, RankTold
  <2>3. \A i, j : Earlier(i, j) <=> EarlierIn(preferred, i, j)
    BY DEF EarlierIn, ListedIn
  <2> QED
    BY <2>2, <2>3
<1>8. \A i, j \in Candidates(probes, request) : Nearer(i, j) <=> Kind(i) < Kind(j)
  <2>1. \A i \in Candidates(probes, request) :
          probes[i].kind \in {"hardware", "software", "reference"}
    BY <1>3, AnswerAssumption
  <2> HIDE DEF probes, request
  <2>2. \A k, l \in {"hardware", "software", "reference"} :
          request.prefer_hardware /\ <<k, l>> \in {<<"hardware", "software">>,
                                     <<"hardware", "reference">>, <<"software", "reference">>}
          <=> provider_kind_rank(k, request.prefer_hardware)
                < provider_kind_rank(l, request.prefer_hardware)
    BY DEF provider_kind_rank
  <2> QED
    BY <2>1, <2>2 DEF probes, request
<1>9. \A i, j \in Candidates(probes, request) : Leaner(i, j) => Copy(i) < Copy(j)
  <2> SUFFICES ASSUME NEW i \in Candidates(probes, request),
                      NEW j \in Candidates(probes, request), Leaner(i, j)
               PROVE  Copy(i) < Copy(j)
    OBVIOUS
  <2>1. \A k \in Candidates(probes, request) :
          Negotiate[request][probes[k]].status = "ok" =>
            Negotiate[request][probes[k]].zero_copy
              = uses_zero_copy(Capability(probes[k], request), request)
    <3> HIDE DEF probes, request
    <3>1. \A k \in Candidates(probes, request) :
            Negotiate[request][probes[k]] = Negotiation(Capability(probes[k], request), request)
      BY <1>1, <1>3 DEF Negotiate
    <3>2. \A c : Negotiation(c, request).status = "ok" =>
            Negotiation(c, request).zero_copy = uses_zero_copy(c, request)
      BY DEF Negotiation, Refusal
    <3> QED
      BY <3>1, <3>2
  <2>2. /\ uses_zero_copy(Capability(probes[i], request), request)
        /\ ~uses_zero_copy(Capability(probes[j], request), request)
        /\ request.prefer_zero_copy
    BY <2>1
  <2> QED
    BY <2>2 DEF zero_copy_rank
<1>10. Outranks(other, best) <=>
         \/ Earlier(other, best)
         \/ /\ ~Earlier(best, other)
            /\ Nearer(other, best) \/ (~Nearer(best, other) /\ Leaner(other, best))
  BY Zenon DEF Outranks
<1> HIDE DEF Rank, Kind, Copy, Earlier, Nearer, Leaner, probes, request, best
<1>11. other = best =>
         Rank(other) = Rank(best) /\ Kind(other) = Kind(best) /\ Copy(other) = Copy(best)
  OBVIOUS
<1>12. ~Outranks(other, best)
  BY <1>2, <1>5, <1>6, <1>7, <1>8, <1>9, <1>10, <1>11 DEF probes, request
<1> QED
  BY <1>12 DEF best

\* The provider that serves a request is the best by what the request prefers,
\* whatever the providers, their answers and the order they were registered in:
\* BackendRegistry::select_video_processor and select_video_encoder.
THEOREM BestIsSelected == Spec => []BestSelected
<1>1. RegistryInv => BestSelected
  BY BestOutranks, Zenon DEF BestSelected
<1> QED
  BY <1>1, RegistryBegins, RegistryKept, PTL DEF Spec

------------------------------------------------------------------------------
(***************************************************************************)
(* Layouts.                                                                *)
(***************************************************************************)

\* A constraint that a domain puts on a plane, in a domain that is valid
Positive(constraint) ==
  /\ constraint \in Constraints
  /\ {constraint.h, constraint.v, constraint.bytes, constraint.stride, constraint.offset,
      constraint.size, constraint.address} \subseteq Nat \ {0}

\* A valid domain constrains each plane of its pixel format, and a pixel format
\* has three planes at most.
LEMMA DomainTold ==
  ASSUME NEW domain \in Domains, DomainValid(domain)
  PROVE  /\ domain.planes \in Seq(Constraints) /\ Len(domain.planes) \in 1..3
         /\ Len(domain.planes) = Len(PixelFormats[domain.pixel])
         /\ \A i \in DOMAIN domain.planes : Positive(domain.planes[i])
<1>1. domain.planes \in Seq(Constraints) /\ domain.pixel \in DOMAIN PixelFormats
  BY DEF Domains
<1>2. \A p \in DOMAIN PixelFormats : Len(PixelFormats[p]) \in 1..3
  BY DEF PixelFormats, Sampling
<1>3. \A i \in DOMAIN domain.planes : domain.planes[i] \in Constraints
  BY <1>1
<1>4. ASSUME NEW i \in DOMAIN domain.planes
      PROVE  Positive(domain.planes[i])
  <2> DEFINE c == domain.planes[i]
  <2>1. c \in Constraints /\ \A field \in DOMAIN c : c[field] > 0
    BY <1>3 DEF DomainValid
  <2>2. \A s \in Sizes : s \in Int
    BY RegistryAssumption DEF Sizes
  <2> HIDE DEF c
  <2>3. DOMAIN c = {"h", "v", "bytes", "stride", "offset", "size", "address"}
    BY <2>1 DEF Constraints
  <2>4. /\ c.h > 0 /\ c.v > 0 /\ c.bytes > 0 /\ c.stride > 0 /\ c.offset > 0 /\ c.size > 0
        /\ c.address > 0
    BY <2>1, <2>3
  <2>5. /\ c.h \in Int /\ c.v \in Int /\ c.bytes \in Int /\ c.stride \in Int
        /\ c.offset \in Int /\ c.size \in Int /\ c.address \in Int
    BY <2>1, <2>2 DEF Constraints
  <2>6. Positive(c)
    BY <2>1, <2>4, <2>5 DEF Positive
  <2> QED
    BY <2>6 DEF c
<1> QED
  BY <1>1, <1>2, <1>4 DEF DomainValid

\* Extents, subsampled, are numbers.
LEMMA SubsampledTold ==
  \A extent \in Nat, v \in Nat \ {0} : Subsampled(extent, v) \in Nat
<1> SUFFICES ASSUME NEW extent \in Nat, NEW v \in Nat \ {0} PROVE Subsampled(extent, v) \in Nat
  OBVIOUS
<1>1. (extent + v - 1) \div v \in Nat
  OBVIOUS
<1> QED
  BY <1>1, RegistryAssumption DEF Subsampled, Overflow

\* A plane laid out for a constraint fulfils it, as far as its offset is a size.
IsLaid(plane, constraint, width, height) ==
  /\ plane \in [offset : Nat, size : Nat, stride : Nat]
  /\ plane.stride = Strided(constraint, width) /\ plane.stride % constraint.stride = 0
  /\ plane.size % constraint.size = 0
  /\ plane.size >= plane.stride * Subsampled(height, constraint.v)
  /\ plane.offset \in Sizes =>
       plane.offset % constraint.offset = 0 /\ plane.offset % constraint.address = 0

\* That is what laying out a plane does.
LEMMA LaidTold ==
  ASSUME NEW constraint, Positive(constraint), NEW width \in Nat, NEW height \in Nat,
         NEW after \in Nat
  PROVE  IsLaid(Laid(constraint, width, height, after), constraint, width, height)
<1> DEFINE c == constraint
           w == Subsampled(width, c.h) * c.bytes
           h == Subsampled(height, c.v)
           stride == Strided(c, width)
           rows == stride * h
           size == align_up(rows, c.size)
           unit == least_common_multiple(c.offset, c.address)
           aligned == align_up(after, unit)
           offset == IF unit \in Sizes THEN aligned ELSE Overflow
           plane == Laid(c, width, height, after)
<1>1. /\ c.h \in Nat \ {0} /\ c.v \in Nat \ {0} /\ c.bytes \in Nat \ {0}
      /\ c.stride \in Nat \ {0} /\ c.size \in Nat \ {0}
      /\ c.offset \in Nat \ {0} /\ c.address \in Nat \ {0}
  BY DEF Positive
<1>2. c.offset \in Sizes \ {0} /\ c.address \in Sizes \ {0}
  BY <1>1 DEF Positive, Constraints
<1>3. /\ plane.stride = stride /\ plane.size = size /\ plane.offset = offset
      /\ plane = [offset |-> offset, size |-> size, stride |-> stride]
  BY DEF Laid
<1>4. w \in Nat /\ h \in Nat
  <2> DEFINE across == Subsampled(width, c.h)
  <2>1. across \in Nat /\ h \in Nat
    BY <1>1, SubsampledTold, Zenon
  <2> HIDE DEF across, h
  <2>2. across * c.bytes \in Nat
    BY <1>1, <2>1
  <2> QED
    BY <2>1, <2>2 DEF across
<1>5. stride = align_up(w, c.stride)
  BY DEF Strided
<1> HIDE DEF w, h, plane
<1>6. stride \in Nat /\ stride % c.stride = 0
  BY <1>1, <1>4, <1>5, AlignUp
<1> HIDE DEF stride
<1>7. rows \in Nat
  BY <1>4, <1>6
<1> HIDE DEF rows
<1>8. size \in Nat /\ size % c.size = 0 /\ size >= rows
  BY <1>1, <1>7, AlignUp
<1> HIDE DEF size
<1>9. unit \in Nat \ {0} /\ unit % c.offset = 0 /\ unit % c.address = 0
  BY <1>2, LcmTold
<1> HIDE DEF unit
<1>10. aligned \in Nat /\ aligned % unit = 0
  BY <1>9, AlignUp
<1> HIDE DEF aligned
<1>11. aligned % c.offset = 0 /\ aligned % c.address = 0
  BY <1>1, <1>9, <1>10, DividesFurther
<1>12. Overflow \in Nat /\ Overflow \notin Sizes
  BY RegistryAssumption DEF Overflow, Sizes
<1>13. offset \in Nat /\ (offset \in Sizes => offset % c.offset = 0 /\ offset % c.address = 0)
  BY <1>10, <1>11, <1>12
<1> HIDE DEF offset
<1>14. IsLaid(plane, c, width, height)
  BY <1>3, <1>6, <1>8, <1>13 DEF IsLaid, stride, rows, h
<1> QED
  BY <1>14 DEF plane

\* A layout has a plane for each constraint, laid out for it.
LEMMA LaidOutTold ==
  ASSUME NEW cs \in Seq(Constraints), Len(cs) \in 1..3, \A i \in DOMAIN cs : Positive(cs[i]),
         NEW width \in Nat, NEW height \in Nat
  PROVE  /\ DOMAIN LaidOut(cs, width, height) = DOMAIN cs
         /\ Len(LaidOut(cs, width, height)) = Len(cs)
         /\ \A i \in DOMAIN cs : IsLaid(LaidOut(cs, width, height)[i], cs[i], width, height)
<1> DEFINE N == Len(cs)
           Next1(p, n) == Append(p, Laid(cs[n], width, height, End(p)))
           Step(f, n) == IF n = 0 THEN <<>> ELSE Next1(f[n - 1], n)
           P1 == Next1(<<>>, 1)
           P2 == Next1(P1, 2)
           P3 == Next1(P2, 3)
           F == [n \in 0..N |-> IF n = 0 THEN <<>> ELSE IF n = 1 THEN P1
                                ELSE IF n = 2 THEN P2 ELSE P3]
           G == CHOOSE f : f = [n \in 0..N |-> Step(f, n)]
           IsPart(p, k) == /\ p \in Seq([offset : Nat, size : Nat, stride : Nat]) /\ Len(p) = k
                           /\ \A i \in 1..k : IsLaid(p[i], cs[i], width, height)
<1>1. LaidOut(cs, width, height) = G[N]
  BY Zenon DEF LaidOut
<1>2. N \in 1..3 /\ DOMAIN cs = 1..N
  OBVIOUS
<1> HIDE DEF P1, P2, P3
<1>3. F = [n \in 0..N |-> Step(F, n)]
  <2>1. ASSUME NEW n \in 0..N PROVE F[n] = Step(F, n)
    <3>1. n = 0 \/ n = 1 \/ n = 2 \/ n = 3
      BY <1>2
    <3> HIDE DEF Next1
    <3>2. CASE n = 0
      BY <3>2
    <3>3. CASE n = 1
      <4>1. F[0] = <<>> /\ F[1] = P1
        BY <1>2, <3>3
      <4> QED
        BY <3>3, <4>1 DEF P1
    <3>4. CASE n = 2
      <4>1. F[1] = P1 /\ F[2] = P2
        BY <1>2, <3>4
      <4> QED
        BY <3>4, <4>1 DEF P2
    <3>5. CASE n = 3
      <4>1. F[2] = P2 /\ F[3] = P3
        BY <1>2, <3>5
      <4> QED
        BY <3>5, <4>1 DEF P3
    <3> QED
      BY <3>1, <3>2, <3>3, <3>4, <3>5
  <2> HIDE DEF Step
  <2> QED
    BY <2>1
<1> HIDE DEF F
<1>4. G = [n \in 0..N |-> Step(G, n)]
  <2> HIDE DEF Step
  <2> QED
    BY <1>3, Zenon
<1> HIDE DEF G
<1>5. \A n \in 0..N : G[n] = IF n = 0 THEN <<>> ELSE Next1(G[n - 1], n)
  <2> HIDE DEF Next1
  <2> QED
    BY <1>4
<1>6. ASSUME NEW k \in 0..2, NEW p, IsPart(p, k), k + 1 <= N
      PROVE  IsPart(Next1(p, k + 1), k + 1)
  <2> DEFINE plane == Laid(cs[k + 1], width, height, End(p))
  <2>1. End(p) \in Nat
    <3>1. CASE p = <<>>
      BY <3>1 DEF End
    <3>2. CASE p # <<>>
      <4> DEFINE R == [offset : Nat, size : Nat, stride : Nat]
      <4>1. p \in Seq(R) /\ Len(p) = k
        BY <1>6
      <4> HIDE DEF R
      <4>2. Len(p) \in 1..2 /\ p[Len(p)] \in R
        BY <3>2, <4>1
      <4>3. p[Len(p)].offset \in Nat /\ p[Len(p)].size \in Nat
        BY <4>2 DEF R
      <4> QED
        BY <3>2, <4>3 DEF End, Last
    <3> QED
      BY <3>1, <3>2
  <2>2. IsLaid(plane, cs[k + 1], width, height)
    <3>1. Positive(cs[k + 1])
      BY <1>2, <1>6
    <3> QED
      BY <2>1, <3>1, LaidTold
  <2>3. plane \in [offset : Nat, size : Nat, stride : Nat]
    BY <2>2 DEF IsLaid
  <2> HIDE DEF plane
  <2>4. p \in Seq([offset : Nat, size : Nat, stride : Nat]) /\ Len(p) = k
        /\ \A i \in 1..k : IsLaid(p[i], cs[i], width, height)
    BY <1>6
  <2>5. Append(p, plane) \in Seq([offset : Nat, size : Nat, stride : Nat])
        /\ Len(Append(p, plane)) = k + 1 /\ Append(p, plane)[k + 1] = plane
        /\ \A i \in 1..k : Append(p, plane)[i] = p[i]
    BY <2>3, <2>4
  <2>6. \A i \in 1..(k + 1) : i \in 1..k \/ i = k + 1
    OBVIOUS
  <2>7. \A i \in 1..(k + 1) : IsLaid(Append(p, plane)[i], cs[i], width, height)
    BY <2>2, <2>4, <2>5, <2>6, Zenon
  <2> QED
    BY <2>5, <2>7 DEF plane
<1>7. IsPart(G[0], 0)
  <2>1. G[0] = <<>>
    BY <1>2, <1>5
  <2>2. IsPart(<<>>, 0)
    OBVIOUS
  <2> HIDE DEF IsPart
  <2> QED
    BY <2>1, <2>2
<1> HIDE DEF IsPart, Next1
<1>8. N >= 1 => IsPart(G[1], 1)
  BY <1>2, <1>5, <1>6, <1>7
<1>9. N >= 2 => IsPart(G[2], 2)
  BY <1>2, <1>5, <1>6, <1>8
<1>10. N >= 3 => IsPart(G[3], 3)
  BY <1>2, <1>5, <1>6, <1>9
<1>11. IsPart(G[N], N)
  BY <1>2, <1>8, <1>9, <1>10
<1>12. IsPart(LaidOut(cs, width, height), N)
  BY <1>1, <1>11
<1> QED
  BY <1>2, <1>12 DEF IsPart

------------------------------------------------------------------------------
(***************************************************************************)
(* What is negotiated.                                                     *)
(***************************************************************************)

\* A side of a request that a capability of a provider serves
Serves(capability, request, side) ==
  /\ capability.widths[side] \in Ranges /\ capability.heights[side] \in Ranges
  /\ capability.domains[side] \in Seq(Domains) /\ Found(capability, request, side)
  /\ DomainValid(Domain(capability, request, side))
  /\ InRange(capability.widths[side], request.sides[side].format.width)
  /\ InRange(capability.heights[side], request.sides[side].format.height)
  /\ request.sides[side].format \in Formats /\ request.sides[side].address \in Sizes
  /\ FormatStatus(request.sides[side].format) = "ok"

\* The format of a side: the one that was offered, which is taken as it is, or
\* one that was made for it
IsActual(format, capability, request, side, conversion) ==
  IF conversion
    THEN LET made == make_actual_format(request.sides[side].format,
                       Domain(capability, request, side), capability.widths[side],
                       capability.heights[side])
         IN made.status = "ok" /\ format = made.format
    ELSE format = request.sides[side].format /\ SideMatches(capability, request, side)

IsNegotiated(n, request) ==
  /\ request \in Requests
  /\ n.capability.kind = request.kind
  /\ DOMAIN request.sides = Sides(request.kind)
  /\ DOMAIN n.formats = Sides(request.kind)
  /\ n.conversion \in BOOLEAN
  /\ \A side \in Sides(request.kind) :
       /\ Serves(n.capability, request, side)
       /\ IsActual(n.formats[side], n.capability, request, side, n.conversion)
  /\ request.zero_copy => ~n.conversion /\ n.zero_copy

\* The formats a request is given are all as offered, or all made.
LEMMA ActualTold ==
  ASSUME NEW capability, NEW request \in Requests, ActualFormats(capability, request).status = "ok"
  PROVE  LET formats == ActualFormats(capability, request).formats
         IN /\ DOMAIN formats = Sides(request.kind)
            /\ \A side \in Sides(request.kind) :
                 IsActual(formats[side], capability, request, side,
                          requires_explicit_conversion(capability, request))
<1> DEFINE Actual(side) ==
             make_actual_format(request.sides[side].format, Domain(capability, request, side),
                                capability.widths[side], capability.heights[side])
           S == DOMAIN request.sides
           refused == {side \in S : Actual(side).status # "ok"}
           first == CHOOSE side \in refused : \A other \in refused : side <= other
           offered == [status |-> "ok",
                       formats |-> [side \in S |-> request.sides[side].format]]
           made == [status |-> "ok", formats |-> [side \in S |-> Actual(side).format]]
           conversion == requires_explicit_conversion(capability, request)
           answer == ActualFormats(capability, request)
<1>1. answer = IF ~conversion THEN offered ELSE IF refused # {} THEN Actual(first) ELSE made
  BY DEF ActualFormats
<1>2. S = Sides(request.kind) /\ S \in SUBSET Nat
  BY RequestAssumption DEF Sides
<1>3. conversion <=> \E side \in S : ~SideMatches(capability, request, side)
  BY DEF requires_explicit_conversion
<1>4. CASE ~conversion
  <2>1. answer.formats = [side \in S |-> request.sides[side].format]
    <3>1. answer = offered
      BY <1>1, <1>4, Zenon
    <3>2. offered.formats = [side \in S |-> request.sides[side].format]
      OBVIOUS
    <3> HIDE DEF answer, offered
    <3> QED
      BY <3>1, <3>2
  <2>2. \A side \in S : SideMatches(capability, request, side)
    BY <1>3, <1>4
  <2> QED
    BY <1>2, <1>4, <2>1, <2>2 DEF IsActual
<1>5. CASE conversion
  <2>1. refused = {}
    <3> SUFFICES ASSUME refused # {} PROVE FALSE
      OBVIOUS
    <3>1. answer = Actual(first)
      BY <1>1, <1>5
    <3>2. refused \in SUBSET Nat
      BY <1>2
    <3> HIDE DEF refused, Actual
    <3>3. PICK m \in refused : \A k \in refused : m <= k
      BY <3>2, LeastNumber
    <3>4. first \in refused
      BY <3>3
    <3>5. Actual(first).status # "ok"
      BY <3>4 DEF refused
    <3> QED
      BY <3>1, <3>5
  <2>2. answer.formats = [side \in S |-> Actual(side).format]
    <3>1. answer = made
      BY <1>1, <1>5, <2>1, Zenon
    <3>2. made.formats = [side \in S |-> Actual(side).format]
      OBVIOUS
    <3> HIDE DEF answer, made
    <3> QED
      BY <3>1, <3>2
  <2>3. \A side \in S : Actual(side).status = "ok"
    BY <2>1
  <2> QED
    BY <1>2, <1>5, <2>2, <2>3 DEF IsActual
<1> QED
  BY <1>4, <1>5

\* A capability that matches serves each side of the request.
LEMMA ServesTold ==
  ASSUME NEW request \in Requests, NEW probe \in Answers,
         NEW capability \in Range(probe.capabilities), Matches(capability, request),
         NEW side \in Sides(request.kind)
  PROVE  Serves(capability, request, side)
<1>1. /\ request.sides \in [Sides(request.kind) -> [format : Formats, address : Sizes]]
      /\ FormatStatus(request.sides[side].format) = "ok"
  BY RequestAssumption
<1>2. request.sides[side].format \in Formats /\ request.sides[side].address \in Sizes
      /\ side \in DOMAIN request.sides
  BY <1>1
<1>3. /\ {capability.widths, capability.heights} \subseteq [Sides(capability.kind) -> Ranges]
      /\ capability.domains \in [Sides(capability.kind) -> Seq(Domains)]
  BY AnswerAssumption
<1>4. capability.kind = request.kind /\ SidesMatch(capability, request)
  BY DEF Matches
<1>5. /\ capability.widths[side] \in Ranges /\ capability.heights[side] \in Ranges
      /\ capability.domains[side] \in Seq(Domains)
  <2>1. side \in Sides(capability.kind)
    BY <1>4
  <2> QED
    BY <1>3, <2>1
<1> QED
  BY <1>1, <1>2, <1>4, <1>5 DEF Serves, SidesMatch

\* What is negotiated with a provider that matches is a negotiation of the
\* capability that does.
LEMMA NegotiateTold ==
  ASSUME NEW request \in Requests, NEW probe \in Answers,
         Negotiate[request][probe].status = "ok"
  PROVE  IsNegotiated(Negotiate[request][probe], request)
<1> DEFINE n == Negotiate[request][probe]
           c == Capability(probe, request)
           actual == ActualFormats(c, request)
           conversion == requires_explicit_conversion(c, request)
<1>1. Matching[request][probe] # 0 /\ n = Negotiation(c, request)
  BY DEF Negotiate, Refusal
<1>2. c \in Range(probe.capabilities) /\ Matches(c, request)
  BY <1>1, CapabilityTold
<1>3. \A side \in Sides(request.kind) : Serves(c, request, side)
  BY <1>2, ServesTold
<1>4. /\ actual.status = "ok"
      /\ n = [status |-> "ok", conversion |-> conversion,
              zero_copy |-> uses_zero_copy(c, request), capability |-> c,
              formats |-> actual.formats]
  BY <1>1 DEF Negotiation, Refusal
<1>5. /\ n.conversion = conversion /\ n.zero_copy = uses_zero_copy(c, request)
      /\ n.capability = c /\ n.formats = actual.formats
  BY <1>4
<1>6. /\ DOMAIN actual.formats = Sides(request.kind)
      /\ \A side \in Sides(request.kind) :
           IsActual(actual.formats[side], c, request, side, conversion)
  BY <1>4, ActualTold
<1>7. c.kind = request.kind /\ ZeroCopyMatches(c, request)
  BY <1>2 DEF Matches
<1>8. conversion \in BOOLEAN
  BY Zenon DEF requires_explicit_conversion
<1>9. request.zero_copy => ~conversion /\ uses_zero_copy(c, request)
  BY <1>7 DEF ZeroCopyMatches, uses_zero_copy
<1>10. DOMAIN request.sides = Sides(request.kind)
  BY RequestAssumption
<1> HIDE DEF n, c, actual, conversion
<1>11. IsNegotiated(n, request)
  BY <1>3, <1>5, <1>6, <1>7, <1>8, <1>9, <1>10 DEF IsNegotiated
<1> QED
  BY <1>11 DEF n

\* And so is the result of a selection.
LEMMA SelectionTold ==
  ASSUME RegistryInv, Selected
  PROVE  IsNegotiated(selection.result, selection.request)
<1>1. /\ selection.request \in Requests /\ selection.probes[selection.provider] \in Answers
      /\ selection.result = Negotiate[selection.request][selection.probes[selection.provider]]
  BY DEF RegistryInv, IsSelection, Selected
<1> QED
  BY <1>1, NegotiateTold DEF Selected

\* A value in a range, and what it is stored in, are numbers.
LEMMA InRangeTold ==
  ASSUME NEW range \in Ranges, NEW value \in Int, InRange(range, value)
  PROVE  range.alignment \in Nat \ {0} /\ value \in Nat \ {0}
         /\ align_up(value, range.alignment) \in Nat
<1>1. /\ range.minimum \in Int /\ range.maximum \in Int /\ range.alignment \in Int
      /\ range.minimum > 0 /\ range.alignment > 0 /\ value \in range.minimum..range.maximum
  BY DEF Ranges, InRange, RangeValid
<1>2. range.alignment \in Nat \ {0} /\ value \in Nat \ {0}
  BY <1>1
<1> QED
  BY <1>2, AlignUp

\* A format that was made has the planes of a layout for its domain, and is
\* otherwise what was requested.
IsMade(format, requested, domain, width, height) ==
  /\ format.pixel = domain.pixel /\ format.memory = domain.memory
  /\ format.width = requested.width /\ format.height = requested.height
  /\ FormatStatus(format) = "ok"
  /\ width \in Nat /\ height \in Nat
  /\ DOMAIN format.planes = DOMAIN domain.planes
  /\ Len(format.planes) = Len(domain.planes)
  /\ \A i \in DOMAIN domain.planes :
       IsLaid(format.planes[i], domain.planes[i], width, height)

\* The formats that are made are like that.
LEMMA MadeTold ==
  ASSUME NEW capability, NEW request, NEW side, Serves(capability, request, side), NEW format,
         IsActual(format, capability, request, side, TRUE)
  PROVE  IsMade(format, request.sides[side].format, Domain(capability, request, side),
                align_up(format.width, capability.widths[side].alignment),
                align_up(format.height, capability.heights[side].alignment))
<1> DEFINE domain == Domain(capability, request, side)
           requested == request.sides[side].format
           width  == align_up(requested.width, capability.widths[side].alignment)
           height == align_up(requested.height, capability.heights[side].alignment)
           laid   == LaidOut(domain.planes, width, height)
           actual == [requested EXCEPT !.planes = laid]
           made   == make_actual_format(requested, domain, capability.widths[side],
                                        capability.heights[side])
<1>1. made.status = "ok" /\ format = made.format
  BY DEF IsActual
<1>2. made = IF ~DomainValid(domain) THEN Refusal("mismatch")
             ELSE IF End(actual.planes) \notin Sizes THEN Refusal("exhausted")
             ELSE IF FormatStatus(actual) # "ok" THEN Refusal(FormatStatus(actual))
             ELSE Made(actual)
  BY DEF make_actual_format
<1>3. domain \in Domains /\ DomainValid(domain)
      /\ domain.pixel = requested.pixel /\ domain.memory = requested.memory
  BY DomainFound DEF Serves, Found, Domain
<1>4. requested \in Formats /\ requested.width \in Int /\ requested.height \in Int
  BY DEF Serves, Formats
<1>5. width \in Nat /\ height \in Nat
  BY <1>4, InRangeTold DEF Serves
<1> HIDE DEF made, width, height, domain, requested
<1>6. FormatStatus(actual) = "ok" /\ format = actual
  <2> HIDE DEF actual
  <2> QED
    BY <1>1, <1>2 DEF Refusal, Made
<1>7. /\ DOMAIN laid = DOMAIN domain.planes /\ Len(laid) = Len(domain.planes)
      /\ \A i \in DOMAIN domain.planes : IsLaid(laid[i], domain.planes[i], width, height)
  BY <1>3, <1>5, DomainTold, LaidOutTold
<1> HIDE DEF laid
<1>8. /\ format.pixel = requested.pixel /\ format.memory = requested.memory
      /\ format.width = requested.width /\ format.height = requested.height
      /\ format.planes = laid
  BY <1>4, <1>6 DEF Formats
<1> HIDE DEF actual
<1> QED
  BY <1>3, <1>5, <1>6, <1>7, <1>8 DEF IsMade, width, height, domain, requested

\* The planes of a format that is accepted are apart.
LEMMA AcceptedTold ==
  ASSUME NEW format, FormatStatus(format) = "ok"
  PROVE  PlanesApart(format.planes, MaxSize)
BY DEF FormatStatus

\* What a capability asks of a plane, the address apart
PlaneFits(plane, constraint, width, height) ==
  /\ plane.stride >= Strided(constraint, width)
  /\ plane.stride % constraint.stride = 0
  /\ plane.offset % constraint.offset = 0
  /\ plane.size % constraint.size = 0
  /\ plane.size >= plane.stride * Subsampled(height, constraint.v)
  /\ constraint.address = 1 \/ plane.offset % constraint.address = 0

\* A plane in its place
Placed == [offset : Sizes, size : Sizes, stride : Nat]

\* A layout is taken when its planes fit, at an address that is aligned.
LEMMA LayoutTaken ==
  ASSUME NEW format, NEW domain, NEW width_range, NEW height_range, NEW address,
         DomainValid(domain), Len(format.planes) = Len(domain.planes),
         InRange(width_range, format.width), InRange(height_range, format.height),
         PlanesApart(format.planes, MaxSize),
         \A i \in DOMAIN format.planes :
           /\ PlaneFits(format.planes[i], domain.planes[i],
                        align_up(format.width, width_range.alignment),
                        align_up(format.height, height_range.alignment))
           /\ address # 0 /\ address % domain.planes[i].address = 0
  PROVE  layout_matches(format, domain, width_range, height_range, address)
BY Zenon DEF layout_matches, PlaneFits, plane_address_is_proven

\* The planes of what was negotiated fit, made or as they were offered.
LEMMA PlanesTold ==
  ASSUME NEW capability, NEW request, NEW side, Serves(capability, request, side),
         NEW format, NEW conversion \in BOOLEAN,
         IsActual(format, capability, request, side, conversion)
  PROVE  LET domain == Domain(capability, request, side)
         IN /\ domain \in Domains /\ DomainValid(domain)
            /\ FormatStatus(format) = "ok" /\ PlanesApart(format.planes, MaxSize)
            /\ format.pixel = domain.pixel /\ format.memory = domain.memory
            /\ Len(format.planes) = Len(domain.planes)
            /\ DOMAIN format.planes = DOMAIN domain.planes
            /\ format.width = request.sides[side].format.width
            /\ format.height = request.sides[side].format.height
            /\ \A i \in DOMAIN format.planes :
                 /\ format.planes[i] \in Placed
                 /\ Positive(domain.planes[i])
                 /\ PlaneFits(format.planes[i], domain.planes[i],
                              align_up(format.width, capability.widths[side].alignment),
                              align_up(format.height, capability.heights[side].alignment))
<1> DEFINE domain == Domain(capability, request, side)
           offered == request.sides[side].format
           width  == align_up(format.width, capability.widths[side].alignment)
           height == align_up(format.height, capability.heights[side].alignment)
<1>1. domain \in Domains /\ DomainValid(domain)
      /\ domain.pixel = offered.pixel /\ domain.memory = offered.memory
  BY DomainFound DEF Serves, Found, Domain
<1>2. \A i \in DOMAIN domain.planes : Positive(domain.planes[i])
  BY <1>1, DomainTold
<1>3. MaxSize \in Nat
  BY RegistryAssumption
<1>4. CASE conversion
  <2>1. IsActual(format, capability, request, side, TRUE)
    BY <1>4
  <2>2. /\ format.pixel = domain.pixel /\ format.memory = domain.memory
        /\ format.width = offered.width /\ format.height = offered.height
        /\ FormatStatus(format) = "ok" /\ width \in Nat /\ height \in Nat
        /\ DOMAIN format.planes = DOMAIN domain.planes
        /\ Len(format.planes) = Len(domain.planes)
        /\ \A i \in DOMAIN domain.planes :
             IsLaid(format.planes[i], domain.planes[i], width, height)
    <3>1. IsMade(format, offered, domain, width, height)
      BY <2>1, MadeTold
    <3> HIDE DEF width, height, domain, offered
    <3> QED
      BY <3>1 DEF IsMade
  <2>3. PlanesApart(format.planes, MaxSize)
    BY <2>2, AcceptedTold
  <2> HIDE DEF width, height, domain, offered
  <2>4. ASSUME NEW i \in DOMAIN format.planes
        PROVE  /\ format.planes[i] \in Placed
               /\ PlaneFits(format.planes[i], domain.planes[i], width, height)
    <3> DEFINE plane == format.planes[i]
               c == domain.planes[i]
    <3>1. IsLaid(plane, c, width, height) /\ is_within(plane.offset, plane.size, MaxSize)
      BY <2>2, <2>3 DEF PlanesApart
    <3> HIDE DEF plane, c
    <3>2. plane.offset \in Nat /\ plane.size \in Nat /\ plane.stride \in Nat
      BY <3>1 DEF IsLaid
    <3>3. plane.offset \in Sizes /\ plane.size \in Sizes
      BY <1>3, <3>1, <3>2 DEF is_within, Sizes
    <3>6. plane \in Placed
      <4>1. plane \in [offset : Nat, size : Nat, stride : Nat]
        BY <3>1 DEF IsLaid
      <4> QED
        BY <3>3, <4>1 DEF Placed
    <3>4. plane.stride >= Strided(c, width)
      <4> DEFINE s == Strided(c, width)
      <4>1. plane.stride = s
        BY <3>1 DEF IsLaid
      <4> HIDE DEF s
      <4>2. plane.stride >= s
        BY <3>2, <4>1
      <4> QED
        BY <4>2 DEF s
    <3>5. PlaneFits(plane, c, width, height)
      BY <3>1, <3>3, <3>4, Zenon DEF PlaneFits, IsLaid
    <3> QED
      BY <3>5, <3>6 DEF plane, c
  <2>5. /\ domain \in Domains /\ DomainValid(domain)
        /\ \A i \in DOMAIN format.planes : Positive(domain.planes[i])
    BY <1>1, <1>2, <2>2
  <2> QED
    BY <2>2, <2>3, <2>4, <2>5 DEF width, height, domain, offered
<1>5. CASE ~conversion
  <2>1. format = offered /\ SideMatches(capability, request, side)
    BY <1>5 DEF IsActual
  <2>2. layout_matches(format, domain, capability.widths[side], capability.heights[side],
                       request.sides[side].address)
    BY <2>1 DEF SideMatches
  <2>3. /\ Len(format.planes) = Len(domain.planes) /\ PlanesApart(format.planes, MaxSize)
        /\ \A i \in DOMAIN format.planes :
             PlaneFits(format.planes[i], domain.planes[i], width, height)
    BY <2>2, Zenon DEF layout_matches, PlaneFits, plane_address_is_proven
  <2>4. format \in Formats /\ FormatStatus(format) = "ok"
    BY <2>1 DEF Serves
  <2>5. format.planes \in Seq(Planes) /\ domain.planes \in Seq(Constraints)
    BY <1>1, <2>4 DEF Formats, Domains
  <2> HIDE DEF width, height, domain, offered
  <2>6. DOMAIN format.planes = DOMAIN domain.planes
    BY <2>3, <2>5
  <2>7. \A i \in DOMAIN format.planes : format.planes[i] \in Placed
    <3>1. \A i \in DOMAIN format.planes : format.planes[i] \in Planes
      BY <2>5
    <3>2. Planes \subseteq Placed
      BY <1>3 DEF Planes, Placed, Sizes
    <3> QED
      BY <3>1, <3>2
  <2>8. /\ domain \in Domains /\ DomainValid(domain)
        /\ \A i \in DOMAIN format.planes : Positive(domain.planes[i])
    BY <1>1, <1>2, <2>6
  <2> QED
    BY <1>1, <2>1, <2>3, <2>4, <2>6, <2>7, <2>8 DEF width, height, domain, offered
<1> QED
  BY <1>4, <1>5

\* A negotiated side is a format that the capability takes at every address
\* that is aligned.
LEMMA SideUsable ==
  ASSUME NEW capability, NEW request, NEW side, Serves(capability, request, side),
         NEW format, NEW conversion \in BOOLEAN,
         IsActual(format, capability, request, side, conversion),
         NEW address \in Sizes \ {0},
         \A plane \in Range(Domain(capability, request, side).planes) : address % plane.address = 0
  PROVE  layout_matches(format, Domain(capability, request, side), capability.widths[side],
                        capability.heights[side], address)
<1> DEFINE domain == Domain(capability, request, side)
<1>1. /\ domain \in Domains /\ DomainValid(domain)
      /\ PlanesApart(format.planes, MaxSize) /\ Len(format.planes) = Len(domain.planes)
      /\ DOMAIN format.planes = DOMAIN domain.planes
      /\ format.width = request.sides[side].format.width
      /\ format.height = request.sides[side].format.height
      /\ \A i \in DOMAIN format.planes :
           PlaneFits(format.planes[i], domain.planes[i],
                     align_up(format.width, capability.widths[side].alignment),
                     align_up(format.height, capability.heights[side].alignment))
  BY PlanesTold
<1>2. InRange(capability.widths[side], format.width)
      /\ InRange(capability.heights[side], format.height)
  BY <1>1 DEF Serves
<1>3. address # 0 /\ \A i \in DOMAIN format.planes : address % domain.planes[i].address = 0
  <2>1. \A i \in DOMAIN domain.planes : domain.planes[i] \in Range(domain.planes)
    BY DEF Range
  <2> HIDE DEF domain
  <2>2. address # 0
    OBVIOUS
  <2>3. \A plane \in Range(domain.planes) : address % plane.address = 0
    BY DEF domain
  <2> QED
    BY <1>1, <2>1, <2>2, <2>3
<1> HIDE DEF domain
<1>4. layout_matches(format, domain, capability.widths[side], capability.heights[side], address)
  BY <1>1, <1>2, <1>3, LayoutTaken
<1> QED
  BY <1>4 DEF domain

\* What a provider negotiates can be used as it is, for any constraints, sizes
\* and layouts: make_actual_format, layout_matches and negotiate agree.
THEOREM UsableNegotiated == Spec => []NegotiatedIsUsable
<1>1. ASSUME RegistryInv, Selected
      PROVE  NegotiatedIsUsable
  <2> DEFINE request    == selection.request
             negotiated == selection.result
             capability == negotiated.capability
             Aligned(address, side) ==
               \A plane \in Range(Domain(capability, request, side).planes) :
                 address % plane.address = 0
  <2>1. IsNegotiated(negotiated, request)
    BY <1>1, SelectionTold
  <2>2. Addresses \subseteq Sizes \ {0}
    BY RegistryAssumption
  <2> HIDE DEF request, negotiated
  <2>3. ASSUME NEW side \in DOMAIN negotiated.formats
        PROVE  /\ Serves(capability, request, side) /\ negotiated.conversion \in BOOLEAN
               /\ IsActual(negotiated.formats[side], capability, request, side,
                           negotiated.conversion)
    BY <2>1, Zenon DEF IsNegotiated
  <2> HIDE DEF capability
  <2>4. ASSUME NEW side \in DOMAIN negotiated.formats
        PROVE  /\ FormatStatus(negotiated.formats[side]) = "ok"
               /\ \A address \in Addresses : Aligned(address, side) =>
                    layout_matches(negotiated.formats[side], Domain(capability, request, side),
                                   capability.widths[side], capability.heights[side], address)
    BY <2>2, <2>3, PlanesTold, SideUsable
  <2>5. ~negotiated.conversion =>
          \A side \in DOMAIN negotiated.formats :
            negotiated.formats[side] = request.sides[side].format
    BY <2>3 DEF IsActual
  <2>6. request.zero_copy => ~negotiated.conversion /\ negotiated.zero_copy
    BY <2>1 DEF IsNegotiated
  <2> QED
    BY <2>4, <2>5, <2>6, Zenon DEF NegotiatedIsUsable, request, negotiated, capability
<1>2. RegistryInv => NegotiatedIsUsable
  BY <1>1, Zenon DEF NegotiatedIsUsable
<1> QED
  BY <1>2, RegistryBegins, RegistryKept, PTL DEF Spec

------------------------------------------------------------------------------
(***************************************************************************)
(* Buffers and frames.                                                     *)
(***************************************************************************)
Inside(plane, wholes) ==
  \E whole \in Range(wholes) :
    /\ whole.offset <= plane.offset
    /\ plane.offset + plane.size <= whole.offset + whole.size

\* A storage that the client has allocated for what selection s negotiated
IsAllocated(store, s) ==
  /\ s.result.status = "ok"
  /\ store.capacity \in Sizes
  /\ store.alignment \in Sizes \ {0} /\ store.base = 3 * store.alignment

\* A buffer of the planes of that, or of parts of them
IsBuffer(planes, s) ==
  \A i \in DOMAIN planes : planes[i] \in Placed /\ Inside(planes[i], s.result.formats[1].planes)

\* The answer of the provider to a frame of what was negotiated, in a storage
FrameAnswer(store, s) ==
  validate_frame_plane_alignment(store, s.result.formats[1].planes, s.result.formats[1],
                                 Domain(s.result.capability, s.request, 1))

StorageInv ==
  /\ storage # NoStorage =>
       /\ IsAllocated(storage, selection)
       /\ submitted # "none" => submitted = FrameAnswer(storage, selection)
  /\ \A planes \in buffers : IsBuffer(planes, selection)

\* The planes that were negotiated for the first side, and what is required of
\* them
LEMMA FirstSide ==
  ASSUME RegistryInv, Selected
  PROVE  LET format == selection.result.formats[1]
             domain == Domain(selection.result.capability, selection.request, 1)
         IN /\ DomainValid(domain) /\ Len(format.planes) = Len(domain.planes)
            /\ format.pixel = domain.pixel /\ format.memory = domain.memory
            /\ DOMAIN format.planes = DOMAIN domain.planes
            /\ \A i \in DOMAIN format.planes :
                 format.planes[i] \in Placed /\ Positive(domain.planes[i])
            /\ ~selection.result.conversion =>
                 /\ selection.request.sides[1].address \in Sizes
                 /\ \A i \in DOMAIN format.planes :
                      plane_address_is_proven(domain.planes[i], format.planes[i],
                                              selection.request.sides[1].address)
<1> DEFINE request == selection.request
           n == selection.result
           capability == n.capability
           format == n.formats[1]
           domain == Domain(capability, request, 1)
<1>1. IsNegotiated(n, request)
  BY SelectionTold
<1> HIDE DEF n, request
<1>2. 1 \in Sides(request.kind)
  BY DEF Sides
<1>3. /\ Serves(capability, request, 1) /\ n.conversion \in BOOLEAN
      /\ IsActual(format, capability, request, 1, n.conversion)
  BY <1>1, <1>2, Zenon DEF IsNegotiated
<1>4. /\ DomainValid(domain) /\ Len(format.planes) = Len(domain.planes)
      /\ format.pixel = domain.pixel /\ format.memory = domain.memory
      /\ DOMAIN format.planes = DOMAIN domain.planes
      /\ \A i \in DOMAIN format.planes :
           format.planes[i] \in Placed /\ Positive(domain.planes[i])
  BY <1>3, PlanesTold
<1>5. ASSUME ~n.conversion
      PROVE  /\ request.sides[1].address \in Sizes
             /\ \A i \in DOMAIN format.planes :
                  plane_address_is_proven(domain.planes[i], format.planes[i],
                                          request.sides[1].address)
  <2>1. format = request.sides[1].format /\ SideMatches(capability, request, 1)
        /\ request.sides[1].address \in Sizes
    BY <1>3, <1>5, Zenon DEF IsActual, Serves
  <2>2. layout_matches(format, domain, capability.widths[1], capability.heights[1],
                       request.sides[1].address)
    BY <2>1 DEF SideMatches
  <2> QED
    BY <2>1, <2>2, Zenon DEF layout_matches
<1> QED
  BY <1>4, <1>5 DEF n, request

\* A buffer of the negotiated planes is one.
LEMMA WholeBuffer ==
  ASSUME RegistryInv, Selected
  PROVE  IsBuffer(Negotiated.planes, selection)
<1> DEFINE planes == selection.result.formats[1].planes
<1>1. \A i \in DOMAIN planes : planes[i] \in Placed
  BY FirstSide
<1> HIDE DEF planes
<1>2. \A i \in DOMAIN planes : planes[i] \in Range(planes)
  BY DEF Range
<1>3. \A i \in DOMAIN planes : planes[i].offset <= planes[i].offset
        /\ planes[i].offset + planes[i].size <= planes[i].offset + planes[i].size
  BY <1>1, RegistryAssumption DEF Placed, Sizes
<1>4. \A i \in DOMAIN planes : Inside(planes[i], planes)
  BY <1>2, <1>3, Zenon DEF Inside
<1> QED
  BY <1>1, <1>4 DEF IsBuffer, Negotiated, planes

\* And so is a slice of one.
LEMMA PartOfBuffer ==
  ASSUME NEW planes, NEW s, IsBuffer(planes, s), NEW index \in DOMAIN planes,
         IsBuffer(s.result.formats[1].planes, s),
         NEW offset \in Cuts, NEW length \in Cuts,
         is_within(offset, length, planes[index].size),
         NEW capacity \in Sizes, is_within(planes[index].offset + offset, length, capacity)
  PROVE  IsBuffer(<<Part(planes[index], offset, length)>>, s)
<1> DEFINE plane == planes[index]
           wholes == s.result.formats[1].planes
           part == Part(plane, offset, length)
<1>1. plane \in Placed /\ Inside(plane, wholes)
  BY DEF IsBuffer
<1>2. offset \in Sizes /\ length \in Sizes /\ MaxSize \in Nat
  BY FrameAssumption, RegistryAssumption
<1>3. is_within(offset, length, plane.size) /\ is_within(plane.offset + offset, length, capacity)
  OBVIOUS
<1>4. part = [plane EXCEPT !.offset = plane.offset + offset, !.size = length]
  BY DEF Part
<1> HIDE DEF plane, part, wholes
<1>5. plane.offset \in Nat /\ plane.size \in Nat /\ offset \in Nat /\ length \in Nat
  BY <1>1, <1>2 DEF Placed, Sizes
<1>6. part.offset = plane.offset + offset /\ part.size = length /\ part.stride = plane.stride
  BY <1>1, <1>4 DEF Placed
<1>7. part.offset \in Sizes
  BY <1>2, <1>3, <1>5, <1>6 DEF is_within, Sizes
<1>8. part \in Placed
  BY <1>1, <1>2, <1>4, <1>6, <1>7 DEF Placed
<1>9. PICK whole \in Range(wholes) :
        whole.offset <= plane.offset /\ plane.offset + plane.size <= whole.offset + whole.size
  BY <1>1 DEF Inside
<1>10. whole \in Placed
  BY <1>9 DEF IsBuffer, Range, wholes
<1>11. whole.offset \in Nat /\ whole.size \in Nat
  BY <1>2, <1>10 DEF Placed, Sizes
<1>12. whole.offset <= part.offset /\ part.offset + part.size <= whole.offset + whole.size
  BY <1>3, <1>5, <1>6, <1>9, <1>11 DEF is_within
<1>13. part \in Placed /\ Inside(part, wholes)
  BY <1>8, <1>9, <1>12, Zenon DEF Inside
<1>14. DOMAIN <<part>> = {1} /\ <<part>>[1] = part
  OBVIOUS
<1>15. IsBuffer(<<part>>, s)
  BY <1>13, <1>14 DEF IsBuffer, wholes
<1> QED
  BY <1>15 DEF part, plane

\* A storage is allocated for what was negotiated, and its buffers stay within
\* the planes of that.
LEMMA StorageAllocated ==
  ASSUME RegistryInv, MapsInv, StorageInv, Allocate
  PROVE  StorageInv'
<1>1. PICK capacity \in Capacities, alignment \in Alignments :
        storage' = [capacity |-> capacity, alignment |-> alignment, base |-> 3 * alignment]
  BY Zenon DEF Allocate
<1>2. /\ Selected /\ selection' = selection /\ submitted' = "none"
      /\ buffers' = {Negotiated.planes}
  BY DEF Allocate, registryVars
<1>3. IsAllocated(storage', selection)
  BY <1>1, <1>2, FrameAssumption DEF IsAllocated, Selected
<1>4. IsBuffer(Negotiated.planes, selection)
  BY <1>2, WholeBuffer
<1> QED
  BY <1>2, <1>3, <1>4 DEF StorageInv

\* The rest of what the client does leaves the storage what it is, or frees it.
LEMMA StorageSame ==
  ASSUME StorageInv, selection' = selection, storage' \in {storage, NoStorage},
         submitted' = submitted, \A planes \in buffers' : IsBuffer(planes, selection)
  PROVE  StorageInv'
BY DEF StorageInv

\* Whatever the client does, the storage and its buffers are as they say.
LEMMA StorageKept ==
  RegistryInv /\ MapsInv /\ StorageInv /\ [FrameNext]_vars => StorageInv'
<1> SUFFICES ASSUME RegistryInv, MapsInv, StorageInv, [FrameNext]_vars PROVE StorageInv'
  OBVIOUS
<1>1. \A planes \in buffers : IsBuffer(planes, selection)
  BY DEF StorageInv
<1>2. \A left, m : Shared(left, m) \in {storage, NoStorage}
  BY DEF Shared
<1>3. storage # NoStorage => Selected
  BY DEF StorageInv, IsAllocated, Selected
<1>4. CASE UNCHANGED vars
  <2>1. UNCHANGED <<selection, storage, buffers, submitted>>
    BY <1>4 DEF vars, registryVars, frameVars
  <2> QED
    BY <1>1, <2>1, StorageSame
<1>5. ASSUME UNCHANGED frameVars, UNCHANGED selection \/ selection = NoSelection
      PROVE  StorageInv'
  <2>1. UNCHANGED <<storage, buffers, submitted>>
    BY <1>5 DEF frameVars
  <2>2. CASE UNCHANGED selection
    BY <1>1, <2>1, <2>2, StorageSame
  <2>3. CASE selection = NoSelection
    <3>1. ~Selected
      BY <2>3 DEF NoSelection, Refusal, Selected
    <3>2. storage = NoStorage /\ buffers = {}
      BY <1>3, <3>1 DEF MapsInv
    <3> QED
      BY <2>1, <3>2 DEF StorageInv
  <2> QED
    BY <1>5, <2>2, <2>3
<1>6. CASE Allocate
  BY <1>6, StorageAllocated
<1>7. ASSUME NEW planes \in buffers, DropBuffer(planes) PROVE StorageInv'
  <2>1. /\ UNCHANGED <<selection, submitted>> /\ storage' = Shared(buffers', regions)
        /\ buffers' \subseteq buffers
    BY <1>7 DEF DropBuffer, registryVars
  <2> QED
    BY <1>1, <1>2, <2>1, StorageSame
<1>8. ASSUME NEW planes \in buffers, Submit(planes) PROVE StorageInv'
  <2>1. /\ UNCHANGED <<selection, storage, buffers>> /\ submitted' = FrameAnswer(storage, selection)
    BY <1>8 DEF Submit, registryVars, FrameAnswer, Negotiated
  <2> QED
    BY <1>1, <2>1 DEF StorageInv
<1>9. ASSUME NEW planes \in buffers, NEW index \in DOMAIN planes,
             NEW offset \in Cuts, NEW length \in Cuts, Slice(planes, index, offset, length)
      PROVE  StorageInv'
  <2> DEFINE part == Part(planes[index], offset, length)
  <2>1. /\ UNCHANGED <<selection, storage, submitted>> /\ buffers' = buffers \cup {<<part>>}
        /\ is_within(offset, length, planes[index].size)
        /\ BufferStatus(storage, <<part>>) = "ok"
    BY <1>9 DEF Slice, registryVars
  <2>2. Selected
    BY <1>3 DEF MapsInv
  <2>3. IsBuffer(planes, selection) /\ IsBuffer(selection.result.formats[1].planes, selection)
    BY <1>1, <2>2, WholeBuffer DEF Negotiated
  <2>4. storage.capacity \in Sizes
    BY DEF MapsInv, StorageInv, IsAllocated
  <2>5. is_within(part.offset, part.size, storage.capacity)
    <3> HIDE DEF part
    <3>1. DOMAIN <<part>> = {1} /\ <<part>>[1] = part
      OBVIOUS
    <3>2. PlanesApart(<<part>>, storage.capacity)
      BY <2>1 DEF BufferStatus
    <3> QED
      BY <3>1, <3>2 DEF PlanesApart
  <2>6. part.offset = planes[index].offset + offset /\ part.size = length
    <3>1. planes[index] \in Placed
      BY <1>1 DEF IsBuffer
    <3> QED
      BY <3>1 DEF Part, Placed
  <2>7. is_within(planes[index].offset + offset, length, storage.capacity)
    BY <2>5, <2>6
  <2>8. IsBuffer(<<part>>, selection)
    BY <2>1, <2>3, <2>4, <2>7, PartOfBuffer
  <2> QED
    BY <1>1, <2>1, <2>8, StorageSame
<1>10. ASSUME NEW planes \in buffers, NEW index, NEW r \in Regions, MapPlane(planes, index, r)
       PROVE  StorageInv'
  <2>1. UNCHANGED <<selection, storage, buffers, submitted>>
    BY <1>10 DEF MapPlane, registryVars
  <2> QED
    BY <1>1, <2>1, StorageSame
<1>11. ASSUME NEW r \in Regions, NEW from \in Regions,
              MoveConstruct(r, from) \/ MoveAssign(r, from)
       PROVE  StorageInv'
  <2>1. /\ UNCHANGED <<selection, buffers, submitted>>
        /\ storage' = storage \/ storage' = Shared(buffers, regions')
    BY <1>11 DEF MoveConstruct, MoveAssign, registryVars
  <2> QED
    BY <1>1, <1>2, <2>1, StorageSame
<1>12. ASSUME NEW r \in Regions, DestroyRegion(r) PROVE StorageInv'
  <2>1. /\ UNCHANGED <<selection, buffers, submitted>> /\ storage' = Shared(buffers, regions')
    BY <1>12 DEF DestroyRegion, registryVars
  <2> QED
    BY <1>1, <1>2, <2>1, StorageSame
<1>13. ASSUME NEW p \in Providers, Register(p) PROVE UNCHANGED selection
  BY <1>13 DEF Register
<1>14. ASSUME Freeze PROVE UNCHANGED selection
  BY <1>14 DEF Freeze
<1> QED
  BY <1>4, <1>5, <1>6, <1>7, <1>8, <1>9, <1>10, <1>11, <1>12, <1>13, <1>14, Zenon DEF FrameNext

FrameInv == RegistryInv /\ MapsInv /\ StorageInv

\* All of it holds at first, and is kept.
LEMMA FrameHolds == Spec => []FrameInv
<1>1. FrameInit => StorageInv
  BY DEF FrameInit, StorageInv
<1>2. FrameInit => FrameInv
  BY <1>1, RegistryBegins, MapsBegin DEF FrameInv
<1>3. FrameInv /\ [FrameNext]_vars => FrameInv'
  BY RegistryKept, MapsKept, StorageKept DEF FrameInv
<1> QED
  BY <1>2, <1>3, PTL DEF Spec

\* The alignment a buffer claims for a plane divides what the storage promises
\* and the offset, and everything that divides both; so it divides the address.
LEMMA AlignmentTold ==
  ASSUME NEW store, NEW s, IsAllocated(store, s), NEW plane \in Placed
  PROVE  LET g == plane_address_alignment(store, plane)
         IN /\ g \in Nat \ {0}
            /\ \A d \in Nat \ {0} :
                 /\ store.alignment % d = 0 /\ plane.offset % d = 0 => g % d = 0
                 /\ g % d = 0 => (store.base + plane.offset) % d = 0
<1> DEFINE a == store.alignment
           o == plane.offset
           b == 3 * a
           g == plane_address_alignment(store, plane)
<1>1. a \in Sizes \ {0} /\ store.base = b /\ o \in Sizes
  BY DEF IsAllocated, Placed
<1>2. a \in Nat \ {0} /\ o \in Nat /\ a \in Sizes
  BY <1>1, RegistryAssumption DEF Sizes
<1>3. g = IF o = 0 THEN a ELSE greatest_common_divisor[<<a, o>>]
  BY DEF plane_address_alignment
<1> HIDE DEF g, a, o
<1>4. /\ g \in Nat \ {0} /\ a % g = 0 /\ o % g = 0
      /\ \A d \in Nat \ {0} : a % d = 0 /\ o % d = 0 => g % d = 0
  <2>1. CASE o = 0
    <3>1. g = a
      BY <1>3, <2>1
    <3>2. a % a = 0 /\ o % a = 0
      BY <1>2, <2>1
    <3> QED
      BY <1>2, <3>1, <3>2
  <2>2. CASE o # 0
    <3>1. IsGcd(g, a, o)
      BY <1>1, <1>2, <1>3, <2>2, GcdTold
    <3>2. g \in Sizes \ {0} /\ a % g = 0 /\ o % g = 0
          /\ \A d \in Nat \ {0} : a % d = 0 /\ o % d = 0 => g % d = 0
      BY <2>2, <3>1 DEF IsGcd
    <3>3. g \in Nat \ {0}
      BY <3>2, RegistryAssumption DEF Sizes
    <3> QED
      BY <3>2, <3>3
  <2> QED
    BY <2>1, <2>2
<1>5. ASSUME NEW d \in Nat \ {0}, g % d = 0
      PROVE  (b + o) % d = 0
  <2>1. a \in Int /\ o \in Int /\ b \in Int /\ 3 \in Int
    BY <1>2
  <2>2. a % d = 0 /\ o % d = 0
    BY <1>4, <1>5, <2>1, DividesFurther, Zenon
  <2>3. b % d = 0
    BY <2>1, <2>2, DividesProducts, Zenon
  <2> HIDE DEF b
  <2> QED
    BY <2>1, <2>2, <2>3, DividesSums, Zenon
<1>6. \A d \in Nat \ {0} :
        /\ a % d = 0 /\ o % d = 0 => g % d = 0
        /\ g % d = 0 => (store.base + o) % d = 0
  <2> HIDE DEF b
  <2> QED
    BY <1>1, <1>4, <1>5, Zenon
<1> QED
  BY <1>4, <1>6 DEF g, a, o

\* However a buffer is sliced, it stays within a plane of the frame and claims
\* no alignment its address does not have: Buffer::slice_plane and
\* plane_address_alignment, for any sizes.
THEOREM BuffersSafe == Spec => []BuffersHonest
<1>1. ASSUME FrameInv
      PROVE  BuffersHonest
  <2> SUFFICES ASSUME NEW planes \in buffers, NEW i \in DOMAIN planes
               PROVE  /\ \E whole \in Range(Negotiated.planes) :
                           /\ whole.offset <= planes[i].offset
                           /\ planes[i].offset + planes[i].size <= whole.offset + whole.size
                      /\ (storage.base + planes[i].offset)
                           % plane_address_alignment(storage, planes[i]) = 0
    BY Zenon DEF BuffersHonest
  <2>1. IsBuffer(planes, selection) /\ IsAllocated(storage, selection)
    BY <1>1 DEF FrameInv, MapsInv, StorageInv
  <2>2. planes[i] \in Placed /\ Inside(planes[i], Negotiated.planes)
    BY <2>1 DEF IsBuffer, Negotiated
  <2> DEFINE g == plane_address_alignment(storage, planes[i])
  <2>3. g \in Nat \ {0}
        /\ \A d \in Nat \ {0} : g % d = 0 => (storage.base + planes[i].offset) % d = 0
    BY <2>1, <2>2, AlignmentTold
  <2> HIDE DEF g
  <2>4. g % g = 0
    BY <2>3
  <2>5. (storage.base + planes[i].offset) % g = 0
    BY <2>3, <2>4
  <2> QED
    BY <2>2, <2>5, Zenon DEF Inside, g
<1> QED
  BY <1>1, FrameHolds, PTL

\* What a frame's answer says of the addresses of its planes
LEMMA AnswerTold ==
  ASSUME FrameInv, storage # NoStorage
  PROVE  LET required == Domain(selection.result.capability, selection.request, 1).planes
             promised == selection.request.sides[1].address
             answer   == FrameAnswer(storage, selection)
         IN /\ answer = "ok" =>
                 \A i \in DOMAIN required :
                   (storage.base + Negotiated.planes[i].offset) % required[i].address = 0
            /\ ~selection.result.conversion
                 /\ (promised = 0 \/ storage.alignment % promised = 0) => answer = "ok"
<1> DEFINE format == selection.result.formats[1]
           domain == Domain(selection.result.capability, selection.request, 1)
           planes == format.planes
           required == domain.planes
           promised == selection.request.sides[1].address
           answer == FrameAnswer(storage, selection)
           g(i) == plane_address_alignment(storage, planes[i])
<1>1. RegistryInv /\ Selected /\ IsAllocated(storage, selection)
  BY DEF FrameInv, StorageInv, IsAllocated, Selected
<1>2. /\ DomainValid(domain) /\ Len(planes) = Len(required)
      /\ format.pixel = domain.pixel /\ format.memory = domain.memory
      /\ DOMAIN planes = DOMAIN required
      /\ \A i \in DOMAIN planes : planes[i] \in Placed /\ Positive(required[i])
      /\ ~selection.result.conversion =>
           /\ promised \in Sizes
           /\ \A i \in DOMAIN planes : plane_address_is_proven(required[i], planes[i], promised)
  BY <1>1, FirstSide, Zenon
<1>3. answer = IF \A i \in DOMAIN planes : g(i) % required[i].address = 0 THEN "ok" ELSE "mismatch"
  BY <1>2, Zenon DEF FrameAnswer, validate_frame_plane_alignment
<1>4. \A i \in DOMAIN planes :
        /\ g(i) \in Nat \ {0}
        /\ \A d \in Nat \ {0} :
             /\ storage.alignment % d = 0 /\ planes[i].offset % d = 0 => g(i) % d = 0
             /\ g(i) % d = 0 => (storage.base + planes[i].offset) % d = 0
  BY <1>1, <1>2, AlignmentTold
<1>5. \A i \in DOMAIN planes : required[i].address \in Nat \ {0}
  BY <1>2 DEF Positive
<1>6. storage.alignment \in Nat \ {0}
  BY <1>1, RegistryAssumption DEF IsAllocated, Sizes
<1> HIDE DEF planes, required, promised, answer, g
<1>7. ASSUME answer = "ok", NEW i \in DOMAIN required
      PROVE  (storage.base + planes[i].offset) % required[i].address = 0
  <2>1. i \in DOMAIN planes /\ g(i) % required[i].address = 0
    BY <1>2, <1>3, <1>7 DEF planes, required
  <2> QED
    BY <1>4, <1>5, <2>1, Zenon
<1>8. ASSUME ~selection.result.conversion, promised = 0 \/ storage.alignment % promised = 0
      PROVE  answer = "ok"
  <2> SUFFICES ASSUME NEW i \in DOMAIN planes PROVE g(i) % required[i].address = 0
    BY <1>3, Zenon
  <2> DEFINE d == required[i].address
  <2>1. d \in Nat \ {0} /\ g(i) \in Nat \ {0} /\ promised \in Nat
    BY <1>2, <1>4, <1>5, <1>8, RegistryAssumption DEF Sizes
  <2>2. plane_address_is_proven(required[i], planes[i], promised)
    BY <1>2, <1>8
  <2>3. d = 1 \/ (promised # 0 /\ promised % d = 0 /\ planes[i].offset % d = 0)
    BY <2>2 DEF plane_address_is_proven
  <2> HIDE DEF d
  <2>4. CASE d = 1
    BY <2>1, <2>4 DEF d
  <2>5. CASE promised # 0 /\ promised % d = 0 /\ planes[i].offset % d = 0
    <3>1. storage.alignment % promised = 0 /\ promised \in Nat \ {0} /\ storage.alignment \in Int
      BY <1>6, <1>8, <2>1, <2>5
    <3>2. storage.alignment % d = 0
      BY <2>1, <2>5, <3>1, DividesFurther, Zenon
    <3>3. g(i) % d = 0
      BY <1>4, <2>1, <2>5, <3>2, Zenon
    <3> QED
      BY <3>3 DEF d
  <2> QED
    BY <2>3, <2>4, <2>5
<1>9. Negotiated.planes = planes
  BY DEF Negotiated, planes
<1> QED
  BY <1>7, <1>8, <1>9, Zenon DEF required, promised, answer

\* A frame the provider takes is aligned as it requires, and one that was
\* negotiated as offered is taken wherever the request's promise is kept:
\* negotiate and validate_frame_plane_alignment agree.
THEOREM PromiseIsKept == Spec => []PromiseKept
<1>1. ASSUME FrameInv
      PROVE  PromiseKept
  <2>1. CASE storage # NoStorage /\ submitted # "none"
    <3>1. submitted = FrameAnswer(storage, selection)
      BY <1>1, <2>1 DEF FrameInv, StorageInv
    <3> QED
      BY <1>1, <2>1, <3>1, AnswerTold, Zenon DEF PromiseKept
  <2>2. CASE ~(storage # NoStorage /\ submitted # "none")
    BY <2>2, Zenon DEF PromiseKept
  <2> QED
    BY <2>1, <2>2
<1> QED
  BY <1>1, FrameHolds, PTL
==============================================================================
