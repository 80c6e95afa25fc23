------------------------- MODULE BlockRequestsProofs -------------------------
(***************************************************************************)
(* Proofs about what a block request goes through: for every width of the  *)
(* addresses, every configuration and every target, an accepted block      *)
(* keeps within the policy.  The arithmetic of prefixes comes first: the   *)
(* powers of two, which are defined by recursion (Powers unfolds them,     *)
(* from an induction over sets of naturals), and division by them.         *)
(***************************************************************************)
EXTENDS BlockRequests, FiniteSetTheorems, WellFoundedInduction, TLAPS

-----------------------------------------------------------------------------
(* Powers of two. *)

\* A set of naturals with 0 and every successor holds them all.
LEMMA NaturalsByInduction ==
  ASSUME NEW S, 0 \in S, \A n \in Nat : n \in S => n + 1 \in S
  PROVE  Nat \subseteq S
<1> SUFFICES ASSUME Nat \ S # {} PROVE FALSE
  OBVIOUS
<1>1. IsWellFoundedOn(OpToRel(<, Nat), Nat)
  BY NatLessThanWellFounded
<1>2. PICK x \in Nat \ S : \A y \in Nat \ S : ~ (<<y, x>> \in OpToRel(<, Nat))
  BY <1>1, WFMin
<1>3. \A y \in Nat : y < x => <<y, x>> \in OpToRel(<, Nat)
  BY DEF OpToRel
<1>4. x # 0 /\ x - 1 \in Nat \ S /\ x - 1 < x
  OBVIOUS
<1> QED
  BY <1>2, <1>3, <1>4

\* g starts with 1 and doubles, up to n.
Doubling(g, n) == g \in [0..n -> Nat \ {0}] /\ g[0] = 1 /\ \A i \in 1..n : g[i] = 2 * g[i - 1]

\* Up to any n there is a function that starts with 1 and doubles.
LEMMA DoublingExists == \A n \in Nat : \E g : Doubling(g, n)
<1> DEFINE S == {n \in Nat : \E g : Doubling(g, n)}
<1>1. 0 \in S
  <2>1. Doubling([i \in 0..0 |-> 1], 0)
    BY DEF Doubling
  <2> QED
    BY <2>1
<1>2. ASSUME NEW n \in Nat, n \in S PROVE n + 1 \in S
  <2>1. PICK g : Doubling(g, n)
    BY <1>2
  <2> DEFINE h == [i \in 0..(n + 1) |-> IF i = n + 1 THEN 2 * g[n] ELSE g[i]]
  <2>2. \A i \in 0..n : h[i] = g[i] /\ g[i] \in Nat \ {0}
    BY <2>1 DEF Doubling
  <2>3. h[n + 1] = 2 * g[n] /\ g[n] \in Nat \ {0}
    BY <2>2
  <2>4. h \in [0..(n + 1) -> Nat \ {0}]
    BY <2>2, <2>3
  <2>5. h[0] = 1
    BY <2>1, <2>2 DEF Doubling
  <2>6. ASSUME NEW i \in 1..(n + 1) PROVE h[i] = 2 * h[i - 1]
    <3>1. CASE i = n + 1
      BY <2>2, <2>3, <3>1
    <3>2. CASE i # n + 1
      <4>1. i \in 1..n /\ i \in 0..n /\ i - 1 \in 0..n
        BY <3>2
      <4> QED
        BY <2>1, <2>2, <4>1 DEF Doubling
    <3> QED
      BY <3>1, <3>2
  <2> HIDE DEF h
  <2>7. Doubling(h, n + 1)
    BY <2>4, <2>5, <2>6 DEF Doubling
  <2> QED
    BY <2>7
<1> HIDE DEF S
<1>3. Nat \subseteq S
  BY <1>1, <1>2, NaturalsByInduction
<1> QED
  BY <1>3 DEF S

\* Two of them agree as far as both reach.
LEMMA DoublingUnique ==
  ASSUME NEW g, NEW h, NEW m \in Nat, NEW n \in Nat, Doubling(g, m), Doubling(h, n), m <= n
  PROVE  \A i \in 0..m : g[i] = h[i]
<1> DEFINE S == {i \in Nat : i \in 0..m => g[i] = h[i]}
<1>1. 0 \in S
  BY DEF Doubling
<1>2. ASSUME NEW i \in Nat, i \in S PROVE i + 1 \in S
  <2> SUFFICES ASSUME i + 1 \in 0..m PROVE g[i + 1] = h[i + 1]
    OBVIOUS
  <2>1. i + 1 \in 1..m /\ i + 1 \in 1..n /\ (i + 1) - 1 = i /\ i \in 0..m
    OBVIOUS
  <2>2. g[i + 1] = 2 * g[i] /\ h[i + 1] = 2 * h[i]
    BY <2>1 DEF Doubling
  <2> QED
    BY <1>2, <2>1, <2>2
<1> HIDE DEF S
<1>3. Nat \subseteq S
  BY <1>1, <1>2, NaturalsByInduction
<1> QED
  BY <1>3 DEF S

\* So the recursion of Pow2 has a solution, and Pow2 is one.
LEMMA Powers ==
  /\ Pow2 \in [Nat -> Nat \ {0}]
  /\ Pow2[0] = 1
  /\ \A n \in Nat : Pow2[n + 1] = 2 * Pow2[n]
<1> DEFINE upTo(n) == CHOOSE g : Doubling(g, n)
           f == [n \in Nat |-> upTo(n)[n]]
           R(g) == g = [n \in Nat |-> IF n = 0 THEN 1 ELSE 2 * g[n - 1]]
<1>1. \A n \in Nat : Doubling(upTo(n), n)
  BY DoublingExists
<1> HIDE DEF upTo
<1>2. f \in [Nat -> Nat \ {0}] /\ f[0] = 1
  BY <1>1 DEF Doubling
<1>3. ASSUME NEW n \in Nat, n # 0 PROVE f[n] = 2 * f[n - 1]
  <2>1. n - 1 \in Nat /\ n - 1 <= n /\ n \in 1..n /\ n - 1 \in 0..(n - 1)
    BY <1>3
  <2>2. upTo(n)[n] = 2 * upTo(n)[n - 1]
    BY <1>1, <2>1 DEF Doubling
  <2>3. upTo(n - 1)[n - 1] = upTo(n)[n - 1]
    BY <1>1, <2>1, DoublingUnique
  <2> QED
    BY <2>1, <2>2, <2>3
<1>4. R(f)
  <2>1. f = [n \in Nat |-> f[n]]
    OBVIOUS
  <2>2. \A n \in Nat : f[n] = IF n = 0 THEN 1 ELSE 2 * f[n - 1]
    BY <1>2, <1>3
  <2> HIDE DEF f
  <2> QED
    BY <2>1, <2>2
<1> HIDE DEF f
<1>5. Pow2 = CHOOSE g : R(g)
  BY DEF Pow2
<1>6. R(CHOOSE g : R(g))
  <2> HIDE DEF R
  <2> QED
    BY <1>4
<1>7. R(Pow2)
  BY <1>5, <1>6
<1>8. \A n \in Nat : Pow2[n] = IF n = 0 THEN 1 ELSE 2 * Pow2[n - 1]
  BY <1>7
<1>9. \A n \in Nat : Pow2[n + 1] = 2 * Pow2[n]
  <2> TAKE n \in Nat
  <2>1. n + 1 \in Nat /\ n + 1 # 0 /\ (n + 1) - 1 = n
    OBVIOUS
  <2> QED
    BY <1>8, <2>1
<1>10. \A n \in Nat : Pow2[n] \in Nat \ {0}
  <2> DEFINE S == {n \in Nat : Pow2[n] \in Nat \ {0}}
  <2>1. 0 \in S
    BY <1>8
  <2>2. \A n \in Nat : n \in S => n + 1 \in S
    BY <1>9
  <2> HIDE DEF S
  <2>3. Nat \subseteq S
    BY <2>1, <2>2, NaturalsByInduction
  <2> QED
    BY <2>3 DEF S
<1>11. Pow2[0] = 1
  BY <1>8
<1>12. Pow2 \in [Nat -> Nat \ {0}]
  BY <1>7, <1>10
<1> QED
  BY <1>9, <1>11, <1>12

\* The power of a sum is the product of the powers.
LEMMA PowersAdd == \A m, n \in Nat : Pow2[m + n] = Pow2[m] * Pow2[n]
<1> SUFFICES ASSUME NEW m \in Nat PROVE \A n \in Nat : Pow2[m + n] = Pow2[m] * Pow2[n]
  OBVIOUS
<1> DEFINE S == {n \in Nat : Pow2[m + n] = Pow2[m] * Pow2[n]}
<1>1. \A n \in Nat : Pow2[n] \in Nat
  BY Powers
<1>2. 0 \in S
  <2>1. m + 0 = m /\ Pow2[m] * 1 = Pow2[m]
    BY <1>1
  <2> QED
    BY <2>1, Powers
<1>3. ASSUME NEW n \in Nat, n \in S PROVE n + 1 \in S
  <2>1. Pow2[m + (n + 1)] = 2 * Pow2[m + n]
    <3>1. m + (n + 1) = (m + n) + 1 /\ m + n \in Nat
      OBVIOUS
    <3> QED
      BY <3>1, Powers
  <2>2. Pow2[m + n] = Pow2[m] * Pow2[n] /\ Pow2[n + 1] = 2 * Pow2[n]
    BY <1>3, Powers
  <2>3. 2 * (Pow2[m] * Pow2[n]) = Pow2[m] * (2 * Pow2[n])
    BY <1>1
  <2> QED
    BY <2>1, <2>2, <2>3
<1> HIDE DEF S
<1>4. Nat \subseteq S
  BY <1>2, <1>3, NaturalsByInduction
<1> QED
  BY <1>4 DEF S

\* A power is a multiple of the smaller ones.
LEMMA PowersGrow ==
  ASSUME NEW m \in Nat, NEW n \in Nat, m <= n
  PROVE  /\ Pow2[n] = Pow2[m] * Pow2[n - m]
         /\ Pow2[m] <= Pow2[n]
<1>1. n - m \in Nat /\ m + (n - m) = n
  OBVIOUS
<1>2. Pow2[n] = Pow2[m] * Pow2[n - m]
  BY <1>1, PowersAdd
<1>3. Pow2[m] \in Nat \ {0} /\ Pow2[n - m] \in Nat \ {0}
  BY <1>1, Powers
<1>4. \A a, b \in Nat \ {0} : a <= a * b
  OBVIOUS
<1> QED
  BY <1>2, <1>3, <1>4

\* A quotient and a remainder make the number up.
LEMMA Quotient ==
  ASSUME NEW x \in Nat, NEW T \in Nat \ {0}
  PROVE  /\ x \div T \in Nat
         /\ x % T \in Nat /\ x % T < T
         /\ x = (x \div T) * T + (x % T)
OBVIOUS

\* ... and what makes a number up this way are its quotient and its remainder.
LEMMA QuotientIs ==
  ASSUME NEW q \in Nat, NEW r \in Nat, NEW T \in Nat \ {0}, r < T
  PROVE  (q * T + r) \div T = q /\ (q * T + r) % T = r
OBVIOUS

\* To divide by a product is to divide twice.
LEMMA QuotientTwice ==
  ASSUME NEW x \in Nat, NEW S \in Nat \ {0}, NEW T \in Nat \ {0}
  PROVE  x \div (S * T) = (x \div S) \div T
OBVIOUS

\* Numbers alike above their low s bits are alike above their low t bits, when s <= t.
LEMMA Coarser ==
  ASSUME NEW x \in Nat, NEW y \in Nat, NEW s \in Nat, NEW t \in Nat, s <= t,
         x \div Pow2[s] = y \div Pow2[s]
  PROVE  x \div Pow2[t] = y \div Pow2[t]
<1>1. Pow2[t] = Pow2[s] * Pow2[t - s] /\ Pow2[s] \in Nat \ {0} /\ Pow2[t - s] \in Nat \ {0}
  <2>1. t - s \in Nat
    OBVIOUS
  <2> QED
    BY <2>1, PowersGrow, Powers
<1>2. x \div Pow2[t] = (x \div Pow2[s]) \div Pow2[t - s] /\ y \div Pow2[t] = (y \div Pow2[s]) \div Pow2[t - s]
  BY <1>1, QuotientTwice
<1> QED
  BY <1>2

\* To clear the host bits changes nothing above them.
LEMMA FloorKeeps ==
  ASSUME NEW x \in Nat, NEW T \in Nat \ {0}
  PROVE  ((x \div T) * T) \in Nat /\ ((x \div T) * T) \div T = x \div T
<1>1. x \div T \in Nat /\ (x \div T) * T + 0 = (x \div T) * T
  BY Quotient
<1> QED
  BY <1>1, QuotientIs

\* A quotient by T is made of the quotient by a multiple of T and of the rest.
LEMMA QuotientOfParts ==
  ASSUME NEW x \in Nat, NEW T \in Nat \ {0}, NEW K \in Nat \ {0}
  PROVE  x \div T = (x \div (T * K)) * K + (x % (T * K)) \div T
<1> DEFINE N == T * K
<1>1. N \in Nat \ {0}
  OBVIOUS
<1>2. PICK q \in Nat, r \in Nat : q = x \div N /\ r = x % N /\ x = q * N + r
  BY <1>1, Quotient
<1>3. PICK u \in Nat, v \in Nat : u = r \div T /\ v < T /\ r = u * T + v
  BY Quotient
<1>4. q * N = (q * K) * T
  OBVIOUS
<1>5. x = (q * K + u) * T + v
  <2> HIDE DEF N
  <2>1. x = (q * K) * T + (u * T + v)
    BY <1>2, <1>3, <1>4
  <2>2. (q * K) \in Nat
    OBVIOUS
  <2>3. \A a, b, c \in Nat : a * T + (b * T + c) = (a + b) * T + c
    OBVIOUS
  <2> QED
    BY <2>1, <2>2, <2>3
<1>6. x \div T = q * K + u
  <2>1. q * K + u \in Nat
    OBVIOUS
  <2> QED
    BY <1>3, <1>5, <2>1, QuotientIs
<1> HIDE DEF N
<1> QED
  BY <1>2, <1>3, <1>6 DEF N

\* x and y, alike above the low n bits, agree above the low t bits iff their low n bits do.
LEMMA LowBits ==
  ASSUME NEW x \in Nat, NEW y \in Nat, NEW n \in Nat, NEW t \in Nat, t <= n,
         x \div Pow2[n] = y \div Pow2[n]
  PROVE  x \div Pow2[t] = y \div Pow2[t] <=> (x % Pow2[n]) \div Pow2[t] = (y % Pow2[n]) \div Pow2[t]
<1> DEFINE N == Pow2[n]
           T == Pow2[t]
           K == Pow2[n - t]
<1>1. N = T * K /\ T \in Nat \ {0} /\ K \in Nat \ {0} /\ N \in Nat \ {0}
  <2>1. n - t \in Nat
    OBVIOUS
  <2> QED
    BY <2>1, PowersGrow, Powers
<1>2. x \div N = y \div N
  OBVIOUS
<1> SUFFICES x \div T = y \div T <=> (x % N) \div T = (y % N) \div T
  OBVIOUS
<1> HIDE DEF N, T, K
<1>3. x \div T = (x \div N) * K + (x % N) \div T /\ y \div T = (y \div N) * K + (y % N) \div T
  BY <1>1, QuotientOfParts
<1>4. PICK q \in Nat, u \in Nat, v \in Nat : q = (x \div N) * K /\ u = (x % N) \div T /\ v = (y % N) \div T
  <2>1. x \div N \in Nat /\ x % N \in Nat /\ y % N \in Nat
    BY <1>1, Quotient
  <2>2. (x \div N) * K \in Nat
    BY <1>1, <2>1
  <2>3. (x % N) \div T \in Nat /\ (y % N) \div T \in Nat
    BY <1>1, <2>1, Quotient
  <2> QED
    BY <2>2, <2>3
<1>5. x \div T = q + u /\ y \div T = q + v
  BY <1>2, <1>3, <1>4
<1>6. q + u = q + v <=> u = v
  OBVIOUS
<1> QED
  BY <1>4, <1>5, <1>6

-----------------------------------------------------------------------------
(* Prefixes and the addresses they stand for. *)

\* A prefix, canonical or not.
Prefixes == [family : {4}, addr : Nat, bits : 0..W4] \cup [family : {6}, addr : Nat, bits : 0..W6]

\* The host bits of a prefix, and what is above them.
Tail(p) == Width(p.family) - p.bits
Above(x, t) == x \div Pow2[t]

\* The fields of a prefix and the width of its family.
LEMMA PrefixShape ==
  ASSUME NEW p \in Prefixes
  PROVE  /\ p.family \in {4, 6} /\ p.addr \in Nat /\ p.bits \in 0..Width(p.family) /\ Width(p.family) \in Nat
         /\ Tail(p) \in 0..Width(p.family) /\ Span(p) = Pow2[Tail(p)] /\ Span(p) \in Nat \ {0}
         /\ p = [family |-> p.family, addr |-> p.addr, bits |-> p.bits]
<1>1. p.family \in {4, 6} /\ p.addr \in Nat
  BY DEF Prefixes
<1>2. p.bits \in 0..Width(p.family) /\ Width(p.family) \in Nat
  BY AddressAssumption DEF Prefixes, Width
<1>3. Tail(p) \in 0..Width(p.family)
  BY <1>2 DEF Tail
<1>4. Span(p) = Pow2[Tail(p)] /\ Tail(p) \in Nat
  BY <1>2, <1>3 DEF Span, Tail
<1>5. p = [family |-> p.family, addr |-> p.addr, bits |-> p.bits]
  BY DEF Prefixes
<1> QED
  BY <1>1, <1>2, <1>3, <1>4, <1>5, Powers

\* A record with such fields is a prefix.
LEMMA PrefixOf ==
  ASSUME NEW f \in {4, 6}, NEW a \in Nat, NEW b \in 0..Width(f)
  PROVE  [family |-> f, addr |-> a, bits |-> b] \in Prefixes
<1>1. CASE f = 4
  BY <1>1 DEF Prefixes, Width
<1>2. CASE f = 6
  BY <1>2 DEF Prefixes, Width
<1> QED
  BY <1>1, <1>2

\* Masked clears the host bits and nothing else.
LEMMA MaskedShape ==
  ASSUME NEW p \in Prefixes
  PROVE  /\ Masked(p) \in Prefixes
         /\ Masked(p) = [family |-> p.family, addr |-> Above(p.addr, Tail(p)) * Pow2[Tail(p)], bits |-> p.bits]
         /\ Above(Masked(p).addr, Tail(p)) = Above(p.addr, Tail(p))
<1> DEFINE T == Pow2[Tail(p)]
           floor == (p.addr \div T) * T
<1>1. T \in Nat \ {0} /\ p.addr \in Nat /\ p.family \in {4, 6} /\ p.bits \in 0..Width(p.family) /\ Span(p) = T
  BY PrefixShape
<1>2. Masked(p) = [family |-> p.family, addr |-> floor, bits |-> p.bits]
  <2>1. p = [family |-> p.family, addr |-> p.addr, bits |-> p.bits]
    BY PrefixShape
  <2> QED
    BY <1>1, <2>1 DEF Masked
<1>3. floor \in Nat /\ floor \div T = p.addr \div T
  BY <1>1, FloorKeeps
<1>4. Masked(p) \in Prefixes
  BY <1>1, <1>2, <1>3, PrefixOf
<1> QED
  BY <1>2, <1>3, <1>4 DEF Above

\* Two prefixes have the same mask of k bits iff they agree above the rest.
LEMMA SameMask ==
  ASSUME NEW p \in Prefixes, NEW q \in Prefixes, p.family = q.family, NEW k \in 0..Width(p.family)
  PROVE  /\ [p EXCEPT !.bits = k] \in Prefixes /\ [q EXCEPT !.bits = k] \in Prefixes
         /\ Masked([p EXCEPT !.bits = k]) = Masked([q EXCEPT !.bits = k]) <=>
            Above(p.addr, Width(p.family) - k) = Above(q.addr, Width(p.family) - k)
<1> DEFINE pk == [p EXCEPT !.bits = k]
           qk == [q EXCEPT !.bits = k]
<1>1. /\ pk = [family |-> p.family, addr |-> p.addr, bits |-> k]
      /\ qk = [family |-> p.family, addr |-> q.addr, bits |-> k]
      /\ p.family \in {4, 6} /\ p.addr \in Nat /\ q.addr \in Nat
  BY PrefixShape
<1>2. pk \in Prefixes /\ qk \in Prefixes
  BY <1>1, PrefixOf
<1>3. Tail(pk) = Width(p.family) - k /\ Tail(qk) = Width(p.family) - k
  BY <1>1 DEF Tail
<1>4. pk.addr = p.addr /\ qk.addr = q.addr /\ pk.family = p.family /\ qk.family = p.family /\ pk.bits = k /\ qk.bits = k
  BY <1>1
<1> HIDE DEF pk, qk
<1> DEFINE t == Width(p.family) - k
           T == Pow2[t]
<1>5. /\ Masked(pk) = [family |-> p.family, addr |-> Above(p.addr, t) * T, bits |-> k]
      /\ Masked(qk) = [family |-> p.family, addr |-> Above(q.addr, t) * T, bits |-> k]
  BY <1>2, <1>3, <1>4, MaskedShape
<1>6. Above(p.addr, t) * T = Above(q.addr, t) * T <=> Above(p.addr, t) = Above(q.addr, t)
  <2>1. Above(p.addr, t) \in Nat /\ Above(q.addr, t) \in Nat /\ T \in Nat \ {0}
    <3>1. T \in Nat \ {0}
      BY <1>2, <1>3, PrefixShape
    <3> QED
      BY <1>1, <3>1, Quotient DEF Above
  <2>2. \A a, b \in Nat : a * T = b * T => a = b
    <3> HIDE DEF T
    <3> QED
      BY <2>1
  <2> QED
    BY <2>1, <2>2
<1>7. Masked(pk) = Masked(qk) <=> Above(p.addr, t) * T = Above(q.addr, t) * T
  <2> HIDE DEF T, t
  <2> QED
    BY <1>5
<1> QED
  BY <1>2, <1>6, <1>7 DEF pk, qk

\* A member is an address of the family that agrees with the prefix above the host bits.
LEMMA MembersAre ==
  ASSUME NEW p \in Prefixes, NEW m
  PROVE  m \in Members(p) <=>
           \E x \in 0..(Pow2[Width(p.family)] - 1) : m = <<p.family, x>> /\ Above(x, Tail(p)) = Above(p.addr, Tail(p))
BY DEF Members, Above, Tail

\* Masked keeps the members.
LEMMA MaskedMembers ==
  ASSUME NEW p \in Prefixes
  PROVE  Members(Masked(p)) = Members(p)
<1>1. Masked(p) \in Prefixes /\ Above(Masked(p).addr, Tail(p)) = Above(p.addr, Tail(p))
  BY MaskedShape
<1>2. Masked(p).family = p.family /\ Tail(Masked(p)) = Tail(p)
  BY MaskedShape DEF Tail
<1>3. \A m : m \in Members(Masked(p)) <=> m \in Members(p)
  BY <1>1, <1>2, MembersAre
<1> QED
  BY <1>3

\* Coarser, said of Above.
LEMMA AboveCoarser ==
  ASSUME NEW x \in Nat, NEW y \in Nat, NEW s \in Nat, NEW t \in Nat, s <= t, Above(x, s) = Above(y, s)
  PROVE  Above(x, t) = Above(y, t)
BY Coarser DEF Above

\* LowBits, said of Above.
LEMMA AboveLowBits ==
  ASSUME NEW x \in Nat, NEW y \in Nat, NEW n \in Nat, NEW t \in Nat, t <= n, Above(x, n) = Above(y, n)
  PROVE  Above(x, t) = Above(y, t) <=> Above(x % Pow2[n], t) = Above(y % Pow2[n], t)
BY LowBits DEF Above

\* A prefix within another has its addresses among the other's.
LEMMA WithinCovers ==
  ASSUME NEW p \in Prefixes, NEW q \in Prefixes, within(p, q)
  PROVE  Members(p) \subseteq Members(q)
<1>1. q.family = p.family /\ q.bits <= p.bits /\ Masked([p EXCEPT !.bits = q.bits]) = Masked(q)
  BY DEF within
<1>2. q.bits \in 0..Width(p.family) /\ [q EXCEPT !.bits = q.bits] = q
  BY <1>1, PrefixShape
<1>3. Above(p.addr, Tail(q)) = Above(q.addr, Tail(q))
  BY <1>1, <1>2, SameMask DEF Tail
<1>4. Tail(p) \in Nat /\ Tail(q) \in Nat /\ Tail(p) <= Tail(q)
  BY <1>1, PrefixShape DEF Tail
<1> SUFFICES ASSUME NEW m \in Members(p) PROVE m \in Members(q)
  OBVIOUS
<1>5. PICK x \in 0..(Pow2[Width(p.family)] - 1) : m = <<p.family, x>> /\ Above(x, Tail(p)) = Above(p.addr, Tail(p))
  BY MembersAre
<1>6. Above(x, Tail(q)) = Above(p.addr, Tail(q))
  BY <1>4, <1>5, PrefixShape, AboveCoarser
<1> QED
  BY <1>1, <1>3, <1>5, <1>6, MembersAre

\* Prefixes that do not overlap have no address in common.
LEMMA ApartIsDisjoint ==
  ASSUME NEW p \in Prefixes, NEW q \in Prefixes, ~overlaps(p, q)
  PROVE  Members(p) \cap Members(q) = {}
<1> SUFFICES ASSUME NEW m \in Members(p), m \in Members(q) PROVE FALSE
  OBVIOUS
<1>1. PICK x \in 0..(Pow2[Width(p.family)] - 1) : m = <<p.family, x>> /\ Above(x, Tail(p)) = Above(p.addr, Tail(p))
  BY MembersAre
<1>2. PICK y \in 0..(Pow2[Width(q.family)] - 1) : m = <<q.family, y>> /\ Above(y, Tail(q)) = Above(q.addr, Tail(q))
  BY MembersAre
<1>3. p.family = q.family /\ x = y
  BY <1>1, <1>2
<1> DEFINE k == Lesser(p.bits, q.bits)
           t == Width(p.family) - k
<1>4. /\ k \in 0..Width(p.family) /\ t \in Nat /\ Tail(p) \in Nat /\ Tail(q) \in Nat /\ x \in Nat
      /\ Tail(p) <= t /\ Tail(q) <= t
  BY <1>1, <1>3, PrefixShape DEF Lesser, Tail
<1>5. Above(x, t) = Above(p.addr, t) /\ Above(x, t) = Above(q.addr, t)
  <2> HIDE DEF t
  <2> QED
    BY <1>1, <1>2, <1>3, <1>4, PrefixShape, AboveCoarser
<1>6. Masked([p EXCEPT !.bits = k]) = Masked([q EXCEPT !.bits = k])
  <2> HIDE DEF k
  <2> QED
    BY <1>3, <1>4, <1>5, SameMask
<1> QED
  BY <1>3, <1>6 DEF overlaps

\* The unmapped form of a mapped prefix stands for the IPv4 addresses of its members.
LEMMA UnmappedMembers ==
  ASSUME NEW p \in Prefixes, Is4In6(p), p.bits >= Offset, p.addr < Pow2[W6]
  PROVE  /\ Unmapped(p) \in Prefixes
         /\ {<<4, m[2] % Pow2[W4]>> : m \in Members(p)} = Members(Unmapped(p))
<1> DEFINE u == Unmapped(p)
           N == Pow2[W4]
           t == Tail(p)
<1>1. /\ p.family = 6 /\ p.addr \in Nat /\ p.addr \div N = MappedBlock /\ Width(6) = W6 /\ Width(4) = W4
      /\ p.bits \in 0..W6 /\ N \in Nat \ {0} /\ W4 \in Nat /\ W6 \in Nat /\ W4 <= W6
  BY AddressAssumption, PrefixShape, Powers DEF Is4In6, Width
<1>2. p.addr % N \in Nat /\ p.bits - Offset \in 0..W4
  BY <1>1, Quotient DEF Offset
<1>3. u = [family |-> 4, addr |-> p.addr % N, bits |-> p.bits - Offset] /\ u \in Prefixes
  BY <1>1, <1>2, PrefixOf DEF Unmapped, Prefix
<1>4. t = W6 - p.bits /\ t \in Nat /\ t <= W4 /\ Tail(u) = t /\ u.family = 4 /\ u.addr = p.addr % N
  BY <1>1, <1>2, <1>3 DEF Tail, Offset
<1>5. MappedBlock \in Nat /\ Pow2[W6] = N * Pow2[Offset] /\ Pow2[Offset] \in Nat \ {0} /\ MappedBlock <= Pow2[Offset] - 1
  <2>1. Offset \in Nat /\ Offset = W6 - W4
    BY <1>1 DEF Offset
  <2>2. Pow2[Offset] \in Nat \ {0} /\ Pow2[W6] = N * Pow2[Offset]
    BY <1>1, <2>1, PowersGrow, Powers
  <2> QED
    BY <2>2, AddressAssumption
<1> HIDE DEF u, N, t
<1>6. ASSUME NEW x \in 0..(Pow2[W6] - 1), Above(x, t) = Above(p.addr, t)
      PROVE  x % N \in 0..(N - 1) /\ Above(x % N, t) = Above(u.addr, t)
  <2>1. x \in Nat /\ x % N \in 0..(N - 1)
    BY <1>1, <1>5, Quotient
  <2>2. Above(x, W4) = Above(p.addr, W4)
    BY <1>1, <1>4, <1>6, <2>1, AboveCoarser
  <2>3. Above(x % N, t) = Above(p.addr % N, t)
    BY <1>1, <1>4, <1>6, <2>1, <2>2, AboveLowBits DEF N
  <2> QED
    BY <1>4, <2>1, <2>3
<1>7. ASSUME NEW y \in 0..(N - 1), Above(y, t) = Above(u.addr, t)
      PROVE  \E x \in 0..(Pow2[W6] - 1) : x % N = y /\ Above(x, t) = Above(p.addr, t)
  <2> DEFINE x == MappedBlock * N + y
  <2>1. x \in Nat /\ x \div N = MappedBlock /\ x % N = y
    <3>1. MappedBlock \in Nat /\ y \in Nat /\ N \in Nat \ {0} /\ y < N
      BY <1>1, <1>5
    <3>2. (MappedBlock * N + y) \div N = MappedBlock /\ (MappedBlock * N + y) % N = y
      BY <3>1, QuotientIs
    <3>3. MappedBlock * N \in Nat
      BY <3>1
    <3> QED
      BY <3>1, <3>2, <3>3
  <2>2. x <= Pow2[W6] - 1
    <3>1. MappedBlock * N <= (Pow2[Offset] - 1) * N
      BY <1>1, <1>5
    <3>2. (Pow2[Offset] - 1) * N = Pow2[W6] - N
      BY <1>1, <1>5
    <3>3. MappedBlock * N \in Nat /\ Pow2[W6] \in Nat
      BY <1>1, <1>5, Powers
    <3> QED
      BY <1>1, <3>1, <3>2, <3>3
  <2> HIDE DEF x
  <2>3. Above(x % N, t) = Above(p.addr % N, t)
    BY <1>4, <1>7, <2>1
  <2>4. Above(x, t) = Above(p.addr, t)
    <3>1. Above(x, W4) = Above(p.addr, W4)
      BY <1>1, <2>1 DEF Above, N
    <3> QED
      BY <1>1, <1>4, <2>1, <2>3, <3>1, AboveLowBits DEF N
  <2>5. x \in 0..(Pow2[W6] - 1)
    BY <2>1, <2>2, <1>1, Powers
  <2> QED
    BY <2>1, <2>4, <2>5
<1>8. \A m : m \in Members(p) <=> \E x \in 0..(Pow2[W6] - 1) : m = <<6, x>> /\ Above(x, t) = Above(p.addr, t)
  BY <1>1, MembersAre DEF t
<1>9. \A m : m \in Members(u) <=> \E y \in 0..(N - 1) : m = <<4, y>> /\ Above(y, t) = Above(u.addr, t)
  BY <1>1, <1>3, <1>4, MembersAre DEF N
<1>10. ASSUME NEW m \in Members(p) PROVE <<4, m[2] % N>> \in Members(u)
  <2>1. PICK x \in 0..(Pow2[W6] - 1) : m = <<6, x>> /\ Above(x, t) = Above(p.addr, t)
    BY <1>8
  <2>2. x % N \in 0..(N - 1) /\ Above(x % N, t) = Above(u.addr, t) /\ m[2] = x
    BY <1>6, <2>1
  <2> QED
    BY <1>9, <2>2
<1>11. ASSUME NEW m \in Members(u) PROVE m \in {<<4, n[2] % N>> : n \in Members(p)}
  <2>1. PICK y \in 0..(N - 1) : m = <<4, y>> /\ Above(y, t) = Above(u.addr, t)
    BY <1>9
  <2>2. PICK x \in 0..(Pow2[W6] - 1) : x % N = y /\ Above(x, t) = Above(p.addr, t)
    BY <1>7, <2>1
  <2>3. <<6, x>> \in Members(p) /\ <<6, x>>[2] = x
    BY <1>8, <2>2
  <2> QED
    BY <2>1, <2>2, <2>3
<1>12. {<<4, n[2] % N>> : n \in Members(p)} = Members(u)
  BY <1>10, <1>11
<1> QED
  BY <1>3, <1>12 DEF u, N

\* A canonical prefix is the run of addresses that starts with its own.
LEMMA HowManyMembers ==
  ASSUME NEW p \in Prefixes, Masked(p) = p
  PROVE  /\ IsFiniteSet(Members(p))
         /\ Cardinality(Members(p)) \in Nat
         /\ Cardinality(Members(p)) <= Pow2[Tail(p)]
<1> DEFINE T == Pow2[Tail(p)]
           run == 0..(T - 1)
           address == [i \in run |-> <<p.family, p.addr + i>>]
           All == {<<p.family, p.addr + i>> : i \in run}
<1>1. T \in Nat \ {0} /\ p.addr \in Nat /\ p.addr = Above(p.addr, Tail(p)) * T
  <2>1. T \in Nat \ {0} /\ p.addr \in Nat
    BY PrefixShape
  <2>2. p.addr = Above(p.addr, Tail(p)) * T
    BY MaskedShape
  <2> QED
    BY <2>1, <2>2
<1>2. ASSUME NEW m \in Members(p) PROVE m \in All
  <2>1. PICK x \in 0..(Pow2[Width(p.family)] - 1) : m = <<p.family, x>> /\ Above(x, Tail(p)) = Above(p.addr, Tail(p))
    BY MembersAre
  <2>2. x \in Nat
    BY PrefixShape, Powers
  <2>3. x % T \in run /\ x = Above(x, Tail(p)) * T + (x % T)
    <3>1. x % T \in Nat /\ x % T < T /\ x = (x \div T) * T + (x % T)
      BY <1>1, <2>2, Quotient
    <3> QED
      BY <1>1, <3>1 DEF Above
  <2>4. x = p.addr + (x % T)
    BY <1>1, <2>1, <2>3
  <2> HIDE DEF run
  <2> QED
    BY <2>1, <2>3, <2>4
<1>3. IsFiniteSet(run) /\ Cardinality(run) = T
  <2>1. 0 \in Int /\ T - 1 \in Int /\ ~ (0 > T - 1) /\ (T - 1) - 0 + 1 = T
    BY <1>1
  <2> HIDE DEF T
  <2> QED
    BY <2>1, FS_Interval
<1> HIDE DEF run
<1>4. address \in Surjection(run, All)
  BY DEF Surjection
<1> HIDE DEF All, address
<1>5. IsFiniteSet(All) /\ Cardinality(All) <= Cardinality(run)
  BY <1>3, <1>4, FS_Surjection
<1>6. Members(p) \in SUBSET All
  BY <1>2
<1>7. IsFiniteSet(Members(p)) /\ Cardinality(Members(p)) <= Cardinality(All)
  BY <1>5, <1>6, FS_Subset
<1>8. Cardinality(Members(p)) \in Nat /\ Cardinality(All) \in Nat
  BY <1>5, <1>7, FS_CardinalityType
<1> QED
  BY <1>1, <1>3, <1>5, <1>7, <1>8

-----------------------------------------------------------------------------
(* What is written, and what it is read as. *)

\* What a target may be written as.
Writable == Forms(4, Nat) \cup Forms(6, Nat)

\* What may be written has the shape of a prefix once it has a length within the width.
LEMMA WrittenShape ==
  ASSUME NEW w \in Writable
  PROVE  /\ w.family \in {4, 6} /\ w.addr \in Nat /\ w.addr < Pow2[Width(w.family)] /\ w.bits \in Nat \cup {-1}
         /\ WithLength(w).bits <= Width(w.family) =>
              /\ WithLength(w) \in Prefixes
              /\ WithLength(w).family = w.family /\ WithLength(w).addr = w.addr
<1>1. PICK f \in {4, 6} : w \in [family : {f}, addr : 0..(Pow2[Width(f)] - 1), bits : {-1} \cup Nat]
  BY DEF Writable, Forms, Bare
<1>2. Width(f) \in Nat
  BY AddressAssumption DEF Width
<1>3. Pow2[Width(f)] \in Nat \ {0}
  BY <1>2, Powers
<1>4. w.family = f /\ w.addr \in Nat /\ w.addr < Pow2[Width(f)] /\ w.bits \in {-1} \cup Nat
  BY <1>1, <1>3
<1>5. w = [family |-> f, addr |-> w.addr, bits |-> w.bits]
  BY <1>1
<1>6. ASSUME WithLength(w).bits <= Width(f)
      PROVE  /\ WithLength(w) \in Prefixes
             /\ WithLength(w).family = f /\ WithLength(w).addr = w.addr
  <2>1. PICK b \in 0..Width(f) : WithLength(w) = [family |-> f, addr |-> w.addr, bits |-> b]
    <3>1. CASE w.bits = -1
      <4>1. WithLength(w) = [family |-> f, addr |-> w.addr, bits |-> Width(f)]
        BY <1>4, <1>5, <3>1 DEF WithLength, Bare
      <4> QED
        BY <1>2, <4>1
    <3>2. CASE w.bits # -1
      <4>1. WithLength(w) = w
        BY <3>2 DEF WithLength, Bare
      <4>2. w.bits \in 0..Width(f)
        BY <1>2, <1>4, <1>6, <3>2, <4>1
      <4> QED
        BY <1>5, <4>1, <4>2
    <3> QED
      BY <3>1, <3>2
  <2> QED
    BY <1>4, <2>1, PrefixOf
<1> QED
  BY <1>4, <1>6

\* An entry of a list stands for what is written there.
LEMMA EntryMeans ==
  ASSUME NEW w \in Lists
  PROVE  ListEntry(w) \in Prefixes /\ Members(ListEntry(w)) = Means(w)
<1> DEFINE p == WithLength(w)
<1>1. w \in Writable /\ p.bits <= Width(w.family)
  <2>1. PICK f \in {4, 6} : w \in [family : {f}, addr : 0..(Pow2[Width(f)] - 1), bits : {-1} \cup 0..Width(f)]
    BY DEF Lists, Forms, Bare, Width
  <2>2. Width(f) \in Nat
    BY AddressAssumption DEF Width
  <2>3. w \in Forms(f, Nat)
    BY <2>1, <2>2 DEF Forms, Bare
  <2>4. w.family = f /\ w.bits \in {-1} \cup 0..Width(f)
    BY <2>1
  <2>5. w.bits = -1 => p.bits = Width(f)
    BY <2>1, <2>4 DEF WithLength, Bare
  <2>6. w.bits # -1 => p.bits = w.bits
    BY DEF WithLength, Bare
  <2> QED
    BY <2>2, <2>3, <2>4, <2>5, <2>6 DEF Writable
<1>2. p \in Prefixes /\ p.family = w.family /\ p.addr < Pow2[Width(p.family)]
  BY <1>1, WrittenShape
<1> HIDE DEF p
<1>3. CASE Is4In6(p) /\ p.bits >= Offset
  <2>1. p.addr < Pow2[W6]
    BY <1>2, <1>3 DEF Is4In6, Width
  <2>2. ListEntry(w) = Masked(Unmapped(p)) /\ Means(w) = {<<4, m[2] % Pow2[W4]>> : m \in Members(p)}
    BY <1>3 DEF ListEntry, Means, p
  <2>3. Unmapped(p) \in Prefixes /\ Means(w) = Members(Unmapped(p))
    BY <1>2, <1>3, <2>1, <2>2, UnmappedMembers
  <2> QED
    BY <2>2, <2>3, MaskedShape, MaskedMembers
<1>4. CASE ~ (Is4In6(p) /\ p.bits >= Offset)
  <2>1. ListEntry(w) = Masked(p) /\ Means(w) = Members(p)
    BY <1>4 DEF ListEntry, Means, p
  <2> QED
    BY <1>2, <2>1, MaskedShape, MaskedMembers
<1> QED
  BY <1>3, <1>4

\* A target that is accepted is canonical, and stands for what was written.
LEMMA TargetMeans ==
  ASSUME NEW w \in Writable, ParseTarget(w) # NoTarget
  PROVE  /\ ParseTarget(w) \in Prefixes /\ Masked(ParseTarget(w)) = ParseTarget(w) /\ ~Is4In6(ParseTarget(w))
         /\ ParseTarget(w).addr < Pow2[Width(ParseTarget(w).family)]
         /\ Members(ParseTarget(w)) = Means(w) /\ Means(ParseTarget(w)) = Means(w)
<1> DEFINE q == WithLength(w)
           p == ParseTarget(w)
           out == IF Is4In6(q) THEN Unmapped(q) ELSE q
<1>1. w.family \in {4, 6} /\ w.addr < Pow2[Width(w.family)] /\ Width(w.family) \in Nat
  BY WrittenShape, AddressAssumption DEF Width
<1>2. ~ (q.bits > Width(w.family)) /\ p = canonicalPrefix(q)
  BY <1>1 DEF ParseTarget
<1>3. q.bits \in Nat
  <2>1. w.bits \in Nat \cup {-1}
    BY WrittenShape
  <2>2. w.bits # -1 => q.bits = w.bits
    BY DEF WithLength, Bare
  <2>3. w.bits = -1 => q.bits = Width(w.family)
    <3>1. w = [family |-> w.family, addr |-> w.addr, bits |-> w.bits]
      BY DEF Writable, Forms
    <3> QED
      BY <3>1 DEF WithLength, Bare
  <2> QED
    BY <1>1, <2>1, <2>2, <2>3
<1>4. q \in Prefixes /\ q.family = w.family /\ q.addr = w.addr
  BY <1>1, <1>2, <1>3, WrittenShape
<1> HIDE DEF q
<1>5. ~ (Is4In6(q) /\ q.bits < Offset) /\ Masked(out) = out /\ p = out
  BY <1>2 DEF canonicalPrefix
<1>6. CASE Is4In6(q)
  <2>1. q.family = 6 /\ Width(6) = W6 /\ Width(4) = W4 /\ Offset \in Int
    BY <1>6, AddressAssumption DEF Is4In6, Width, Offset
  <2>2. q.bits >= Offset /\ q.addr < Pow2[W6]
    BY <1>1, <1>3, <1>4, <1>5, <1>6, <2>1
  <2>3. p = Unmapped(q) /\ Means(w) = {<<4, m[2] % Pow2[W4]>> : m \in Members(q)}
    BY <1>5, <1>6, <2>2 DEF Means, q
  <2>4. p \in Prefixes /\ Members(p) = Means(w)
    BY <1>4, <1>6, <2>2, <2>3, UnmappedMembers
  <2>5. p.family = 4 /\ p.addr = q.addr % Pow2[W4]
    BY <1>5, <1>6 DEF Unmapped, Prefix
  <2>6. p.addr < Pow2[W4] /\ ~Is4In6(p)
    <3>1. Pow2[W4] \in Nat \ {0} /\ q.addr \in Nat
      BY <1>4, AddressAssumption, Powers, PrefixShape
    <3>2. q.addr % Pow2[W4] < Pow2[W4]
      BY <3>1, Quotient
    <3> QED
      BY <2>5, <3>2 DEF Is4In6
  <2> HIDE DEF p, out
  <2>7. p.addr < Pow2[Width(p.family)]
    BY <2>1, <2>5, <2>6
  <2>8. Means(p) = Members(p)
    <3>1. p.bits # -1
      BY <2>4, PrefixShape
    <3> QED
      BY <2>6, <3>1 DEF Means, WithLength, Bare
  <2>9. Masked(p) = p
    BY <1>5
  <2> QED
    BY <2>4, <2>6, <2>7, <2>8, <2>9 DEF p
<1>7. CASE ~Is4In6(q)
  <2>1. p = q /\ Masked(q) = q
    BY <1>5, <1>7
  <2>2. Means(w) = Members(q)
    BY <1>7 DEF Means, q
  <2>3. q.bits # -1
    BY <1>4, PrefixShape
  <2>4. Means(q) = Members(q)
    BY <1>7, <2>3 DEF Means, WithLength, Bare
  <2> QED
    BY <1>1, <1>4, <1>7, <2>1, <2>2, <2>4
<1> QED
  BY <1>6, <1>7

\* A canonical target survives its row and the listing.
LEMMA StoredForm ==
  ASSUME NEW p \in Prefixes, Masked(p) = p, ~Is4In6(p), p.addr < Pow2[Width(p.family)],
         p.bits >= IF p.family = 4 THEN FloorV4 ELSE FloorV6
  PROVE  ReadBack(p) = p /\ TargetFromParts(p.family, p.addr, p.bits) = p
<1>1. /\ p.family \in {4, 6} /\ p.addr \in Nat /\ p.bits \in 0..Width(p.family) /\ p.bits # 0 /\ Width(p.family) \in Nat
      /\ p = [family |-> p.family, addr |-> p.addr, bits |-> p.bits]
  BY PrefixShape, AddressAssumption
<1>2. normalizeBlockTarget(p.family, p.addr, p.bits) = p
  <2>1. Is4In6(Prefix(p.family, p.addr, 0)) = FALSE
    BY DEF Is4In6, Prefix
  <2>2. CASE p.family = 4
    BY <1>1, <2>1, <2>2 DEF normalizeBlockTarget, Prefix, Width
  <2>3. CASE p.family = 6
    <3>1. ~ (p.bits < FloorV6 \/ p.bits > W6)
      <4>1. p.bits >= FloorV6 /\ p.bits \in 0..W6 /\ FloorV6 \in Int /\ W6 \in Int
        BY <1>1, <2>3, AddressAssumption DEF Width
      <4> QED
        BY <4>1
    <3> QED
      BY <1>1, <2>1, <2>3, <3>1 DEF normalizeBlockTarget, Prefix
  <2> QED
    BY <1>1, <2>2, <2>3
<1>3. normalizeBlockTarget(6, Column(p), p.bits) = p
  <2>1. CASE p.family = 4
    <3> DEFINE N == Pow2[W4]
               c == MappedBlock * N + p.addr
    <3>1. N \in Nat \ {0} /\ p.addr < N /\ MappedBlock \in Nat /\ W4 \in Nat /\ Width(p.family) = W4
      BY <2>1, AddressAssumption, Powers DEF Width
    <3>2. c \div N = MappedBlock /\ c % N = p.addr
      <4>1. MappedBlock \in Nat /\ N \in Nat \ {0} /\ p.addr \in Nat /\ p.addr < N
        BY <1>1, <3>1
      <4> HIDE DEF N
      <4> QED
        BY <4>1, QuotientIs
    <3> HIDE DEF c
    <3>3. Column(p) = c
      BY <2>1 DEF Column, c
    <3>4. Is4In6(Prefix(6, c, 0))
      BY <3>2 DEF Is4In6, Prefix
    <3>5. ~ (p.bits > W4) /\ ~ (p.bits = 0)
      BY <1>1, <3>1
    <3>6. normalizeBlockTarget(6, c, p.bits) = Prefix(4, c % N, p.bits)
      BY <3>4, <3>5 DEF normalizeBlockTarget, N
    <3> QED
      BY <1>1, <2>1, <3>2, <3>3, <3>6 DEF Prefix
  <2>2. CASE p.family = 6
    BY <1>1, <1>2, <2>2 DEF Column
  <2> QED
    BY <1>1, <2>1, <2>2
<1>4. ReadBack(p) = p
  BY <1>2, <1>3 DEF ReadBack
<1>5. TargetFromParts(p.family, p.addr, p.bits) = ParseTarget(p)
  BY <1>1 DEF TargetFromParts, Prefix
<1>6. WithLength(p) = p
  <2>1. p.bits # -1
    BY <1>1
  <2> QED
    BY <2>1 DEF WithLength, Bare
<1>7. ParseTarget(p) = p
  <2>1. ~ (p.family = 0 \/ p.bits > Width(p.family))
    BY <1>1
  <2> QED
    BY <1>6, <2>1 DEF ParseTarget, canonicalPrefix
<1> QED
  BY <1>4, <1>5, <1>7

-----------------------------------------------------------------------------
(* The blocks and the policy. *)

\* Why a block is there: the target was read, the policy and the limits let it through.
Justified(r, b) ==
  /\ b.written \in Writable /\ b.prefix = ParseTarget(b.written) /\ b.prefix # NoTarget
  /\ Check(r, b.prefix)
  /\ b.duration >= UnitsPerMinute /\ b.duration <= MaxDuration(r)

\* The inductive invariant: the configuration is one of those assumed, and every block is justified.
RequestInv == raw \in RawSettings /\ \A b \in blocks : Justified(raw, b)

\* The length the policy asks for is at least the floor, and the whole width where none is configured.
LEMMA LengthsAreFloored ==
  ASSUME raw \in RawSettings, NEW p \in Prefixes, p.bits >= EffectiveMin(raw, p.family)
  PROVE  /\ p.bits >= IF p.family = 4 THEN FloorV4 ELSE FloorV6
         /\ IF p.family = 4 THEN raw.minLenV4 = 0 => p.bits = W4 ELSE raw.minLenV6 = 0 => p.bits = W6
<1>1. raw.minLenV4 \in Int /\ raw.minLenV6 \in Int
  BY SettingsAssumption
<1>2. p.bits \in 0..Width(p.family) /\ W4 \in Nat /\ W6 \in Nat /\ FloorV4 \in 1..W4 /\ FloorV6 \in 1..W6
  BY PrefixShape, AddressAssumption
<1>3. CASE p.family = 4
  BY <1>1, <1>2, <1>3 DEF EffectiveMin, MinLen, Lesser, Greater, Width
<1>4. CASE p.family # 4
  BY <1>1, <1>2, <1>4 DEF EffectiveMin, MinLen, Lesser, Greater, Width
<1> QED
  BY <1>3, <1>4

\* What Check lets through has no address that is reserved, protected, or one of the session's.
LEMMA OffLimitsIs ==
  ASSUME raw \in RawSettings, NEW p \in Prefixes, Check(raw, p)
  PROVE  Members(p) \cap OffLimits = {}
<1>1. ASSUME NEW q \in reservedPrefixes PROVE Members(p) \cap Members(q) = {}
  <2>1. q \in Prefixes
    BY AddressAssumption DEF Lists, Forms, Prefixes, Width, Bare
  <2> QED
    BY <2>1, ApartIsDisjoint DEF Check
<1>2. ASSUME NEW w \in raw.protected PROVE Members(p) \cap Means(w) = {}
  <2>1. w \in Lists
    BY SettingsAssumption
  <2>2. ListEntry(w) \in Protected(raw)
    BY DEF Protected, ParsePrefixList
  <2> QED
    BY <2>1, <2>2, EntryMeans, ApartIsDisjoint DEF Check
<1>3. ASSUME NEW w \in {raw.peer, raw.nextHop, raw.nextHopV6, raw.routerID}, IsSet(w)
      PROVE  Members(p) \cap Means(w) = {}
  <2>1. w \in Lists /\ w.bits = Bare
    BY <1>3, SettingsAssumption DEF IsSet
  <2>2. [w EXCEPT !.bits = Bare] = w
    <3>1. w = [family |-> w.family, addr |-> w.addr, bits |-> w.bits]
      BY <2>1 DEF Lists, Forms
    <3> QED
      BY <2>1, <3>1
  <2>3. ParseIP(w) = ListEntry(w)
    BY <2>2 DEF ParseIP
  <2>4. ListEntry(w) \in Protected(raw)
    BY <1>3, <2>3 DEF Protected
  <2> QED
    BY <2>1, <2>4, EntryMeans, ApartIsDisjoint DEF Check
<1> SUFFICES ASSUME NEW m \in Members(p), m \in OffLimits PROVE FALSE
  OBVIOUS
<1>4. \/ \E q \in reservedPrefixes : m \in Members(q)
      \/ \E w \in raw.protected : m \in Means(w)
      \/ \E w \in {raw.peer, raw.nextHop, raw.nextHopV6, raw.routerID} : IsSet(w) /\ m \in Means(w)
  BY DEF OffLimits
<1> QED
  BY <1>1, <1>2, <1>3, <1>4

\* A justified block keeps within the policy.
LEMMA PolicyHolds == RequestInv => BlocksKeepWithinThePolicy
<1> SUFFICES ASSUME RequestInv, NEW b \in blocks
             PROVE  LET hosts == Means(b.prefix)
                        p == b.prefix
                    IN  /\ hosts = Means(b.written)
                        /\ \E w \in (IF raw.allowed # {} THEN raw.allowed ELSE raw.local) : hosts \subseteq Means(w)
                        /\ hosts \cap OffLimits = {}
                        /\ Cardinality(hosts) <= IF p.family = 4 THEN Pow2[W4 - FloorV4] ELSE Pow2[W6 - FloorV6]
                        /\ IF p.family = 4 THEN raw.minLenV4 = 0 => Cardinality(hosts) = 1
                                           ELSE raw.minLenV6 = 0 => Cardinality(hosts) = 1
                        /\ b.duration >= UnitsPerMinute /\ b.duration <= MaxDuration(raw)
                        /\ ReadBack(p) = p
                        /\ TargetFromParts(p.family, p.addr, p.bits) = p
  BY DEF BlocksKeepWithinThePolicy
<1> DEFINE p == b.prefix
           hosts == Means(b.prefix)
<1>1. Justified(raw, b) /\ raw \in RawSettings
  BY DEF RequestInv
<1>2. /\ p \in Prefixes /\ Masked(p) = p /\ ~Is4In6(p) /\ p.addr < Pow2[Width(p.family)]
      /\ Members(p) = hosts /\ hosts = Means(b.written)
  BY <1>1, TargetMeans DEF Justified
<1>3. Check(raw, p)
  BY <1>1 DEF Justified
<1> HIDE DEF p, hosts
<1>4. \E w \in (IF raw.allowed # {} THEN raw.allowed ELSE raw.local) : hosts \subseteq Means(w)
  <2>1. PICK w \in (IF raw.allowed # {} THEN raw.allowed ELSE raw.local) : within(p, ListEntry(w))
    BY <1>3 DEF Check, Allowed, ParsePrefixList
  <2>2. w \in Lists
    BY <1>1, SettingsAssumption
  <2>3. Members(p) \subseteq Means(w)
    BY <1>2, <2>1, <2>2, EntryMeans, WithinCovers
  <2> QED
    BY <1>2, <2>3
<1>5. hosts \cap OffLimits = {}
  BY <1>1, <1>2, <1>3, OffLimitsIs
<1>6. /\ p.bits >= IF p.family = 4 THEN FloorV4 ELSE FloorV6
      /\ IF p.family = 4 THEN raw.minLenV4 = 0 => p.bits = W4 ELSE raw.minLenV6 = 0 => p.bits = W6
  BY <1>1, <1>2, <1>3, LengthsAreFloored DEF Check
<1>7. IsFiniteSet(hosts) /\ Cardinality(hosts) \in Nat /\ Cardinality(hosts) <= Pow2[Tail(p)]
  BY <1>2, HowManyMembers
<1>8. p.family \in {4, 6} /\ p.addr \in Nat /\ p.bits \in 0..Width(p.family) /\ Tail(p) = Width(p.family) - p.bits /\ Tail(p) \in Nat
  BY <1>2, PrefixShape DEF Tail
<1>9. Cardinality(hosts) <= IF p.family = 4 THEN Pow2[W4 - FloorV4] ELSE Pow2[W6 - FloorV6]
  <2> DEFINE most == IF p.family = 4 THEN W4 - FloorV4 ELSE W6 - FloorV6
  <2>1. most \in Nat /\ Tail(p) <= most
    BY <1>6, <1>8, AddressAssumption DEF Width
  <2>2. Pow2[Tail(p)] <= Pow2[most] /\ Pow2[Tail(p)] \in Nat /\ Pow2[most] \in Nat
    BY <1>8, <2>1, PowersGrow, Powers
  <2>3. Cardinality(hosts) <= Pow2[most]
    <3> HIDE DEF most
    <3> QED
      BY <1>7, <2>2
  <2> QED
    BY <2>3
<1>10. IF p.family = 4 THEN raw.minLenV4 = 0 => Cardinality(hosts) = 1 ELSE raw.minLenV6 = 0 => Cardinality(hosts) = 1
  <2>1. ASSUME p.bits = Width(p.family) PROVE Cardinality(hosts) = 1
    <3>1. Tail(p) = 0 /\ Cardinality(hosts) <= 1
      BY <1>7, <1>8, <2>1, Powers
    <3>2. <<p.family, p.addr>> \in hosts
      <4>1. p.addr \in 0..(Pow2[Width(p.family)] - 1)
        <5>1. Width(p.family) \in Nat
          BY <1>2, PrefixShape
        <5>2. Pow2[Width(p.family)] \in Nat
          BY <5>1, Powers
        <5> QED
          BY <1>2, <1>8, <5>2
      <4> QED
        BY <1>2, <4>1, MembersAre
    <3>3. Cardinality(hosts) # 0
      BY <1>7, <3>2, FS_EmptySet
    <3> QED
      BY <1>7, <3>1, <3>3
  <2>2. p.family = 4 => Width(p.family) = W4
    BY DEF Width
  <2>3. p.family # 4 => Width(p.family) = W6
    BY DEF Width
  <2> QED
    BY <1>6, <2>1, <2>2, <2>3
<1>11. ReadBack(p) = p /\ TargetFromParts(p.family, p.addr, p.bits) = p
  BY <1>2, <1>6, StoredForm
<1>12. b.duration >= UnitsPerMinute /\ b.duration <= MaxDuration(raw)
  BY <1>1 DEF Justified
<1> QED
  BY <1>2, <1>4, <1>5, <1>9, <1>10, <1>11, <1>12 DEF p, hosts

\* Whatever the service answers, what Block adds is justified.
LEMMA BlockStep ==
  ASSUME RequestInv, raw' = raw, NEW w, w = NoTarget \/ w \in Writable, NEW minutes, Block(w, minutes)
  PROVE  RequestInv'
<1> DEFINE p == ParseTarget(w)
           asked == ToDuration(minutes)
           duration == IF asked = 0 THEN DefaultDuration(raw) ELSE asked
           new == [prefix |-> p, written |-> w, duration |-> duration]
<1> HIDE DEF p, duration
<1>1. CASE UNCHANGED blocks
  BY <1>1 DEF RequestInv
<1>2. CASE ~ UNCHANGED blocks
  <2>1. /\ blocks' = blocks \cup {new}
        /\ p # NoTarget /\ duration >= UnitsPerMinute /\ duration <= MaxDuration(raw) /\ Check(raw, p)
    BY <1>2 DEF Block, Refuse, p, duration
  <2>2. w \in Writable
    <3>1. ParseTarget(NoTarget) = NoTarget
      BY DEF ParseTarget, NoTarget, Prefix
    <3> QED
      BY <2>1, <3>1 DEF p
  <2>3. new.prefix = p /\ new.written = w /\ new.duration = duration
    OBVIOUS
  <2> HIDE DEF new
  <2>4. Justified(raw, new)
    BY <2>1, <2>2, <2>3 DEF Justified, p
  <2> QED
    BY <2>1, <2>4 DEF RequestInv
<1> QED
  BY <1>1, <1>2

\* At first there is no block.
LEMMA RequestsInitially == BRInit => RequestInv
BY DEF BRInit, RequestInv

\* One case per handler; each either refuses, drops blocks or goes through Block.
LEMMA RequestStep == RequestInv /\ [BRNext]_brVars => RequestInv'
<1> SUFFICES ASSUME RequestInv, [BRNext]_brVars PROVE RequestInv'
  OBVIOUS
<1>1. ASSUME raw' = raw, blocks' \subseteq blocks PROVE RequestInv'
  BY <1>1 DEF RequestInv
<1>2. ASSUME NEW status, Refuse(status), raw' = raw PROVE RequestInv'
  BY <1>1, <1>2 DEF Refuse
<1>3. ASSUME NEW w \in Requested PROVE w = NoTarget \/ w \in Writable
  BY TargetAssumption DEF Requested, Writable
<1>4. ASSUME NEW w \in Requested, NEW minutes \in Minutes, CreateBGPBlock(w, minutes) PROVE RequestInv'
  <2>1. raw' = raw
    BY <1>4 DEF CreateBGPBlock, Asked
  <2>2. Refuse(409) \/ Refuse(400) \/ Block(w, minutes)
    BY <1>4 DEF CreateBGPBlock
  <2> QED
    BY <1>2, <1>3, <2>1, <2>2, BlockStep
<1>5. ASSUME NEW w \in Requested, NEW minutes \in Minutes, AutoBlock(w, minutes) PROVE RequestInv'
  <2>1. raw' = raw
    BY <1>5 DEF AutoBlock, Asked
  <2>2. Refuse(401) \/ Refuse(409) \/ Refuse(400) \/ Block(w, minutes)
    BY <1>5 DEF AutoBlock, InternalAutoBlock
  <2> QED
    BY <1>2, <1>3, <2>1, <2>2, BlockStep
<1>6. ASSUME NEW w \in Requested, DeleteBGPBlock(w) PROVE RequestInv'
  <2>1. raw' = raw
    BY <1>6 DEF DeleteBGPBlock, Asked
  <2>2. Refuse(409) \/ Refuse(400) \/ blocks' = {b \in blocks : b.prefix # ParseTarget(w)}
    BY <1>6 DEF DeleteBGPBlock
  <2> QED
    BY <1>1, <1>2, <2>1, <2>2
<1>7. ASSUME NEW a \in Hosts6, NEW hostRule \in BOOLEAN, NEW minutes \in Minutes, BlockAlertBGP(a, hostRule, minutes)
      PROVE  RequestInv'
  <2>1. raw' = raw
    BY <1>7 DEF BlockAlertBGP, Asked
  <2>2. Refuse(409) \/ Refuse(400) \/ Refuse(422) \/ Block(alertTarget(a), minutes)
    BY <1>7 DEF BlockAlertBGP
  <2>3. alertTarget(a) \in Writable
    <3>1. PICK w \in Targets6 : a = w.addr
      BY DEF Hosts6
    <3>2. a \in 0..(Pow2[Width(6)] - 1)
      BY <3>1, TargetAssumption DEF Forms
    <3> QED
      BY <3>2 DEF alertTarget, Prefix, Forms, Writable
  <2> QED
    BY <1>2, <2>1, <2>2, <2>3, BlockStep
<1>8. CASE UNCHANGED brVars
  BY <1>1, <1>8 DEF brVars
<1> QED
  BY <1>4, <1>5, <1>6, <1>7, <1>8 DEF BRNext

\* Whatever is configured, written and asked, an accepted block stands for the addresses the
\* request named, inside the allow-list, clear of all that is off limits and no larger than the
\* floor admits, and is the same after its row (ParseTarget, Check, normalizeBlockTarget).
THEOREM BlocksFollowThePolicy == BRSpec => []BlocksKeepWithinThePolicy
BY RequestsInitially, RequestStep, PolicyHolds, PTL DEF BRSpec
=============================================================================
