---------------------------- MODULE MeterProofs ----------------------------
(***************************************************************************)
(* Proofs about Meter for any bands, threads, packet sizes and batches: a  *)
(* band lets through no more than its rate and burst, and takes nothing    *)
(* from a sender that stays within what is Promised.                       *)
(*                                                                         *)
(* Both come from relating the bucket of a band to a ghost bucket, at      *)
(* every call whatever order the threads come in: what has passed in       *)
(* excess of the rate and what is in the bucket are together no more than  *)
(* the capacity, and the ideal bucket never has more than the real one.    *)
(***************************************************************************)
EXTENDS Meter, NaturalsInduction, WellFoundedInduction, TLAPS

-----------------------------------------------------------------------------
(* Numbers.                                                                *)

(* Induction, by the least number that is not in S.                        *)
LEMMA AllNat ==
  ASSUME NEW S, 0 \in S, \A n \in Nat : n \in S => n + 1 \in S
  PROVE  Nat \subseteq S
<1> DEFINE T == Nat \ S
           R == OpToRel(<, Nat)
<1> SUFFICES ASSUME T # {}
             PROVE  FALSE
  OBVIOUS
<1>1. IsWellFoundedOn(R, Nat)
  BY NatLessThanWellFounded
<1>a. \A x, y \in Nat : x < y => <<x, y>> \in R
  BY DEF OpToRel
<1>2. T \subseteq Nat
  OBVIOUS
<1> HIDE DEF R
<1> HIDE DEF T
<1>3. PICK x \in T : \A y \in T : ~ (<<y, x>> \in R)
  BY <1>1, <1>2, WFMin
<1> USE DEF T
<1>4. x # 0 /\ x \in Nat
  BY <1>3
<1>5. x - 1 \in Nat /\ x - 1 < x /\ (x - 1) + 1 = x
  BY <1>4
<1>6. x - 1 \in S
  BY <1>a, <1>3, <1>4, <1>5
<1> QED
  BY <1>3, <1>5, <1>6

LEMMA TimesNat == \A a, b \in Nat : a * b \in Nat
  OBVIOUS

LEMMA TimesMono ==
  ASSUME NEW a \in Nat, NEW b \in Nat, NEW r \in Nat, a <= b
  PROVE  a * r <= b * r
<1>1. (b - a) * r \in Nat
  <2>1. b - a \in Nat
    OBVIOUS
  <2> HIDE DEF Nat
  <2> QED
    BY <2>1, TimesNat
<1>2. b * r = a * r + (b - a) * r
  OBVIOUS
<1>3. a * r \in Nat /\ b * r \in Nat
  BY TimesNat
<1> QED
  BY <1>1, <1>2, <1>3

(* A time rounded down fills the bucket but for less than a rate.          *)
LEMMA RoundedDown ==
  ASSUME NEW c \in Nat, NEW r \in Nat \ {0}
  PROVE  c \div r \in Nat /\ (c \div r) * r <= c /\ c - r + 1 <= (c \div r) * r
  OBVIOUS

-----------------------------------------------------------------------------
(* The recursive functions of Total and Drain.                             *)

Sums(s, costs) ==
  s = [i \in 0 .. Len(costs) |-> IF i = 0 THEN 0 ELSE s[i - 1] + costs[i]]

Drains(d, bucket, costs) ==
  d = [i \in 0 .. Len(costs) |->
         IF i = 0 THEN bucket
         ELSE IF d[i - 1] >= costs[i] THEN d[i - 1] - costs[i] ELSE d[i - 1]]

LEMMA SumsExist ==
  ASSUME NEW costs \in Seq(Nat)
  PROVE  \E s : Sums(s, costs)
<1> DEFINE n == Len(costs)
           Up(s, k) == s = [i \in 0 .. k |-> IF i = 0 THEN 0 ELSE s[i - 1] + costs[i]]
           S == {k \in Nat : \E s : Up(s, k)}
<1>1. 0 \in S
  <2>1. Up([i \in 0 .. 0 |-> 0], 0)
    OBVIOUS
  <2> QED
    BY <2>1
<1>2. ASSUME NEW k \in Nat, k \in S
      PROVE  k + 1 \in S
  <2>1. PICK s : Up(s, k)
    BY <1>2
  <2> DEFINE t == [i \in 0 .. k + 1 |-> IF i = k + 1 THEN s[k] + costs[k + 1] ELSE s[i]]
  <2>2. ASSUME NEW i \in 0 .. k + 1
        PROVE  t[i] = IF i = 0 THEN 0 ELSE t[i - 1] + costs[i]
    <3>1. CASE i = k + 1
      <4>1. t[i] = s[k] + costs[k + 1] /\ t[k] = s[k] /\ i # 0 /\ i - 1 = k
        BY <3>1
      <4> QED
        BY <3>1, <4>1
    <3>2. CASE i # k + 1
      <4>1. i \in 0 .. k /\ t[i] = s[i]
        BY <3>2
      <4>2. s[i] = IF i = 0 THEN 0 ELSE s[i - 1] + costs[i]
        BY <2>1, <4>1
      <4>3. i # 0 => t[i - 1] = s[i - 1]
        BY <4>1
      <4> QED
        BY <4>1, <4>2, <4>3
    <3> QED
      BY <3>1, <3>2
  <2>3. t = [i \in 0 .. k + 1 |-> t[i]]
    OBVIOUS
  <2> HIDE DEF t
  <2>4. Up(t, k + 1)
    BY <2>2, <2>3
  <2> HIDE DEF Up
  <2> QED
    BY <2>4
<1> HIDE DEF S
<1>3. n \in S
  <2>1. n \in Nat
    OBVIOUS
  <2> QED
    BY <1>1, <1>2, <2>1, AllNat
<1> QED
  BY <1>3 DEF S, Sums

LEMMA DrainsExist ==
  ASSUME NEW bucket, NEW costs \in Seq(Nat)
  PROVE  \E d : Drains(d, bucket, costs)
<1> DEFINE n == Len(costs)
           New(x, i) == IF x >= costs[i] THEN x - costs[i] ELSE x
           Up(d, k) == d = [i \in 0 .. k |-> IF i = 0 THEN bucket ELSE New(d[i - 1], i)]
           S == {k \in Nat : \E d : Up(d, k)}
<1>1. 0 \in S
  <2>1. Up([i \in 0 .. 0 |-> bucket], 0)
    OBVIOUS
  <2> QED
    BY <2>1
<1>2. ASSUME NEW k \in Nat, k \in S
      PROVE  k + 1 \in S
  <2>1. PICK d : Up(d, k)
    BY <1>2
  <2> HIDE DEF New
  <2> DEFINE t == [i \in 0 .. k + 1 |-> IF i = k + 1 THEN New(d[k], k + 1) ELSE d[i]]
  <2>2. ASSUME NEW i \in 0 .. k + 1
        PROVE  t[i] = IF i = 0 THEN bucket ELSE New(t[i - 1], i)
    <3>1. CASE i = k + 1
      <4>1. t[i] = New(d[k], k + 1) /\ t[k] = d[k] /\ i # 0 /\ i - 1 = k
        BY <3>1
      <4> QED
        BY <3>1, <4>1
    <3>2. CASE i # k + 1
      <4>1. i \in 0 .. k /\ t[i] = d[i]
        BY <3>2
      <4>2. d[i] = IF i = 0 THEN bucket ELSE New(d[i - 1], i)
        BY <2>1, <4>1
      <4>3. i # 0 => t[i - 1] = d[i - 1]
        BY <4>1
      <4> QED
        BY <4>1, <4>2, <4>3
    <3> QED
      BY <3>1, <3>2
  <2>3. t = [i \in 0 .. k + 1 |-> t[i]]
    OBVIOUS
  <2> HIDE DEF t
  <2>4. Up(t, k + 1)
    BY <2>2, <2>3
  <2> HIDE DEF Up
  <2> QED
    BY <2>4
<1> HIDE DEF S
<1>3. n \in S
  <2>1. n \in Nat
    OBVIOUS
  <2> QED
    BY <1>1, <1>2, <2>1, AllNat
<1> QED
  BY <1>3 DEF S, Drains

LEMMA SumsFacts ==
  ASSUME NEW costs \in Seq(Nat), NEW s, Sums(s, costs)
  PROVE  /\ s[0] = 0 /\ \A i \in 1 .. Len(costs) : s[i] = s[i - 1] + costs[i]
         /\ \A i \in 0 .. Len(costs) : s[i] \in Nat
         /\ \A i \in 0 .. Len(costs) : s[i] <= s[Len(costs)]
<1> DEFINE n == Len(costs)
<1>1. n \in Nat /\ \A i \in 1 .. n : costs[i] \in Nat
  OBVIOUS
<1> HIDE DEF n
<1>2. s[0] = 0 /\ \A i \in 1 .. n : s[i] = s[i - 1] + costs[i]
  <2>1. s = [i \in 0 .. n |-> IF i = 0 THEN 0 ELSE s[i - 1] + costs[i]]
    BY DEF Sums, n
  <2>2. \A i \in 0 .. n : s[i] = IF i = 0 THEN 0 ELSE s[i - 1] + costs[i]
    BY <2>1
  <2>3. 0 \in 0 .. n /\ \A i \in 1 .. n : i \in 0 .. n /\ i # 0
    BY <1>1
  <2> QED
    BY <2>2, <2>3
<1>3. \A i \in 0 .. n : s[i] \in Nat
  <2> DEFINE S == {i \in Nat : i <= n => s[i] \in Nat}
  <2>1. 0 \in S
    BY <1>2
  <2>2. ASSUME NEW k \in Nat, k \in S
        PROVE  k + 1 \in S
    <3> SUFFICES ASSUME k + 1 <= n
                 PROVE  s[k + 1] \in Nat
      OBVIOUS
    <3>1. k + 1 \in 1 .. n /\ (k + 1) - 1 = k
      BY <1>1
    <3>2. s[k] \in Nat
      BY <1>1, <2>2
    <3>3. s[k + 1] = s[k] + costs[k + 1] /\ costs[k + 1] \in Nat
      BY <1>1, <1>2, <3>1
    <3> QED
      BY <3>2, <3>3
  <2> HIDE DEF S
  <2>3. Nat \subseteq S
    BY <2>1, <2>2, AllNat
  <2> QED
    BY <1>1, <2>3 DEF S
<1>4. \A i \in 0 .. n : s[i] <= s[n]
  <2> DEFINE S == {j \in Nat : j <= n => s[n - j] <= s[n]}
  <2>1. 0 \in S
    BY <1>1, <1>3
  <2>2. ASSUME NEW k \in Nat, k \in S
        PROVE  k + 1 \in S
    <3> SUFFICES ASSUME k + 1 <= n
                 PROVE  s[n - (k + 1)] <= s[n]
      OBVIOUS
    <3>1. PICK i \in 1 .. n : i = n - k
      BY <1>1
    <3>2. i - 1 = n - (k + 1) /\ i \in 0 .. n /\ i - 1 \in 0 .. n /\ n \in 0 .. n
      BY <1>1, <3>1
    <3>3. s[i] <= s[n]
      BY <1>1, <2>2, <3>1
    <3>4. s[i] = s[i - 1] + costs[i] /\ costs[i] \in Nat
      BY <1>1, <1>2
    <3>5. s[i] \in Nat /\ s[i - 1] \in Nat /\ s[n] \in Nat
      BY <1>3, <3>2
    <3>6. s[i - 1] <= s[n]
      BY <3>3, <3>4, <3>5
    <3> QED
      BY <3>2, <3>6
  <2> HIDE DEF S
  <2>3. Nat \subseteq S
    BY <2>1, <2>2, AllNat
  <2>4. ASSUME NEW i \in 0 .. n
        PROVE  s[i] <= s[n]
    <3>1. PICK j \in Nat : j = n - i
      BY <1>1
    <3>2. n - j = i /\ j <= n
      BY <1>1, <3>1
    <3> QED
      BY <2>3, <3>2 DEF S
  <2> QED
    BY <2>4
<1> QED
  BY <1>2, <1>3, <1>4 DEF n

LEMMA TotalSum ==
  ASSUME NEW costs \in Seq(Nat)
  PROVE  \E s : Sums(s, costs) /\ Total(costs) = s[Len(costs)]
<1> DEFINE s == CHOOSE f : f = [i \in 0 .. Len(costs) |-> IF i = 0 THEN 0 ELSE f[i - 1] + costs[i]]
<1>1. Sums(s, costs)
  BY SumsExist DEF Sums
<1>2. Total(costs) = s[Len(costs)]
  BY DEF Total
<1> QED
  BY <1>1, <1>2

LEMMA DrainFacts ==
  ASSUME NEW bucket \in Nat, NEW costs \in Seq(Nat), NEW d, d = Drain(bucket, costs)
  PROVE  /\ d[0] = bucket
         /\ \A i \in 1 .. Len(costs) :
              d[i] = IF d[i - 1] >= costs[i] THEN d[i - 1] - costs[i] ELSE d[i - 1]
         /\ \A i \in 0 .. Len(costs) : d[i] \in Nat
<1> DEFINE n == Len(costs)
<1>1. n \in Nat /\ \A i \in 1 .. n : costs[i] \in Nat
  OBVIOUS
<1>2. Drains(d, bucket, costs)
  <2> DEFINE f == CHOOSE g : g = [i \in 0 .. Len(costs) |->
                    IF i = 0 THEN bucket
                    ELSE IF g[i - 1] >= costs[i] THEN g[i - 1] - costs[i] ELSE g[i - 1]]
  <2>1. \E g : Drains(g, bucket, costs)
    BY DrainsExist
  <2>2. Drains(f, bucket, costs)
    BY <2>1 DEF Drains
  <2>3. d = f
    BY DEF Drain
  <2> QED
    BY <2>2, <2>3
<1> HIDE DEF n
<1>3. /\ d[0] = bucket
      /\ \A i \in 1 .. n :
           d[i] = IF d[i - 1] >= costs[i] THEN d[i - 1] - costs[i] ELSE d[i - 1]
  <2>1. d = [i \in 0 .. n |-> IF i = 0 THEN bucket
                              ELSE IF d[i - 1] >= costs[i] THEN d[i - 1] - costs[i]
                              ELSE d[i - 1]]
    BY <1>2 DEF Drains, n
  <2>2. \A i \in 0 .. n : d[i] = IF i = 0 THEN bucket
                                 ELSE IF d[i - 1] >= costs[i] THEN d[i - 1] - costs[i]
                                 ELSE d[i - 1]
    BY <2>1
  <2>3. 0 \in 0 .. n /\ \A i \in 1 .. n : i \in 0 .. n /\ i # 0
    BY <1>1
  <2> QED
    BY <2>2, <2>3
<1>4. \A i \in 0 .. n : d[i] \in Nat
  <2> DEFINE S == {i \in Nat : i <= n => d[i] \in Nat}
  <2>1. 0 \in S
    BY <1>3
  <2>2. ASSUME NEW k \in Nat, k \in S
        PROVE  k + 1 \in S
    <3> SUFFICES ASSUME k + 1 <= n
                 PROVE  d[k + 1] \in Nat
      OBVIOUS
    <3>1. k + 1 \in 1 .. n /\ (k + 1) - 1 = k
      BY <1>1
    <3>2. d[k] \in Nat
      BY <1>1, <2>2
    <3>3. d[k + 1] = (IF d[k] >= costs[k + 1] THEN d[k] - costs[k + 1] ELSE d[k])
          /\ costs[k + 1] \in Nat
      BY <1>1, <1>3, <3>1
    <3> QED
      BY <3>2, <3>3
  <2> HIDE DEF S
  <2>3. Nat \subseteq S
    BY <2>1, <2>2, AllNat
  <2> QED
    BY <1>1, <2>3 DEF S
<1> QED
  BY <1>3, <1>4 DEF n

(* One call of a band: what passes all bands leaves its bucket; a bucket   *)
(* loses no more than what came; if any packet exceeds it, all of them     *)
(* together do.                                                            *)
LEMMA BandDrain ==
  ASSUME NEW bucket \in Nat, NEW costs \in Seq(Nat), NEW dropped, NEW left,
         left = Drain(bucket, costs), Exceeding(left, costs) \subseteq dropped
  PROVE  LET n == Len(costs)
             sent == Total([i \in DOMAIN costs |-> IF i \in dropped THEN 0 ELSE costs[i]])
         IN  /\ left[n] \in Nat /\ sent \in Nat /\ Total(costs) \in Nat
             /\ sent + left[n] <= bucket
             /\ bucket - Total(costs) <= left[n]
             /\ Exceeding(left, costs) # {} => bucket < Total(costs)
<1> DEFINE n == Len(costs)
           ps == [i \in DOMAIN costs |-> IF i \in dropped THEN 0 ELSE costs[i]]
<1>1. /\ n \in Nat /\ DOMAIN costs = 1 .. n /\ \A i \in 1 .. n : costs[i] \in Nat
      /\ ps \in Seq(Nat) /\ Len(ps) = n
  OBVIOUS
<1>2. \A i \in 1 .. n : ps[i] = (IF i \in dropped THEN 0 ELSE costs[i])
  OBVIOUS
<1>3. PICK s : Sums(s, costs) /\ Total(costs) = s[n]
  BY TotalSum
<1>4. PICK p : Sums(p, ps) /\ Total(ps) = p[n]
  BY <1>1, TotalSum
<1>5. /\ s[0] = 0 /\ \A i \in 1 .. n : s[i] = s[i - 1] + costs[i]
      /\ \A i \in 0 .. n : s[i] \in Nat /\ s[i] <= s[n]
  BY <1>3, SumsFacts
<1> HIDE DEF ps
<1>6. /\ p[0] = 0 /\ \A i \in 1 .. n : p[i] = p[i - 1] + ps[i]
      /\ \A i \in 0 .. n : p[i] \in Nat
  <2>1. Len(ps) = n
    BY <1>1
  <2>2. ps \in Seq(Nat) /\ Sums(p, ps)
    BY <1>1, <1>4
  <2>3. /\ p[0] = 0 /\ \A i \in 1 .. Len(ps) : p[i] = p[i - 1] + ps[i]
        /\ \A i \in 0 .. Len(ps) : p[i] \in Nat
    BY <2>2, SumsFacts
  <2> HIDE DEF n
  <2> QED
    BY <2>1, <2>3
<1>7. /\ left[0] = bucket /\ \A i \in 0 .. n : left[i] \in Nat
      /\ \A i \in 1 .. n :
           left[i] = IF left[i - 1] >= costs[i] THEN left[i - 1] - costs[i] ELSE left[i - 1]
  BY DrainFacts
<1>8. \A i \in 1 .. n : left[i - 1] < costs[i] => i \in dropped
  BY <1>1 DEF Exceeding
<1> HIDE DEF n
<1>9. \A i \in 0 .. n : p[i] + left[i] <= bucket /\ bucket <= s[i] + left[i]
  <2> DEFINE Good(i) == p[i] + left[i] <= bucket /\ bucket <= s[i] + left[i]
             S == {i \in Nat : i <= n => Good(i)}
  <2>1. 0 \in S
    BY <1>5, <1>6, <1>7
  <2>2. ASSUME NEW k \in Nat, k \in S
        PROVE  k + 1 \in S
    <3> SUFFICES ASSUME k + 1 <= n
                 PROVE  Good(k + 1)
      OBVIOUS
    <3>1. PICK i \in 1 .. n : i = k + 1
      BY <1>1
    <3>2. i - 1 = k /\ i \in 0 .. n /\ k \in 0 .. n
      BY <1>1, <3>1
    <3>3. Good(k)
      BY <1>1, <2>2
    <3>4. /\ s[i] = s[k] + costs[i] /\ p[i] = p[k] + ps[i]
          /\ left[i] = IF left[k] >= costs[i] THEN left[k] - costs[i] ELSE left[k]
          /\ left[k] < costs[i] => i \in dropped
          /\ ps[i] = IF i \in dropped THEN 0 ELSE costs[i]
      BY <1>2, <1>5, <1>6, <1>7, <1>8, <3>2
    <3>5. /\ costs[i] \in Nat /\ s[k] \in Nat /\ p[k] \in Nat /\ left[k] \in Nat
      BY <1>1, <1>5, <1>6, <1>7, <3>2
    <3> DEFINE c == costs[i]
               sk == s[k]
               pk == p[k]
               lk == left[k]
    <3>6. Good(i)
      <4>1. /\ s[i] = sk + c /\ p[i] = pk + ps[i]
            /\ left[i] = IF lk >= c THEN lk - c ELSE lk
            /\ lk < c => i \in dropped
            /\ ps[i] = IF i \in dropped THEN 0 ELSE c
            /\ c \in Nat /\ sk \in Nat /\ pk \in Nat /\ lk \in Nat
            /\ pk + lk <= bucket /\ bucket <= sk + lk
        BY <3>3, <3>4, <3>5
      <4> HIDE DEF c, sk, pk, lk
      <4>2. CASE lk >= c
        BY <4>1, <4>2
      <4>3. CASE ~(lk >= c)
        <5>1. left[i] = lk /\ ps[i] = 0
          BY <4>1, <4>3
        <5> QED
          BY <4>1, <5>1
      <4> QED
        BY <4>2, <4>3
    <3> HIDE DEF Good
    <3> QED
      BY <3>1, <3>6
  <2> HIDE DEF S
  <2>3. Nat \subseteq S
    BY <2>1, <2>2, AllNat
  <2> QED
    BY <1>1, <2>3 DEF S
<1>10. /\ left[n] \in Nat /\ p[n] \in Nat /\ s[n] \in Nat
       /\ p[n] + left[n] <= bucket /\ bucket - s[n] <= left[n]
  <2>1. n \in 0 .. n
    BY <1>1
  <2>2. left[n] \in Nat /\ p[n] \in Nat /\ s[n] \in Nat
        /\ p[n] + left[n] <= bucket /\ bucket <= s[n] + left[n]
    BY <1>5, <1>6, <1>7, <1>9, <2>1
  <2> QED
    BY <2>2
<1>11. ASSUME Exceeding(left, costs) # {}
       PROVE  bucket < s[n]
  <2>1. PICK i \in 1 .. n : left[i - 1] < costs[i]
    BY <1>1, <1>11 DEF Exceeding
  <2>2. PICK k \in 0 .. n : k = i - 1
    BY <1>1
  <2>3. /\ bucket <= s[k] + left[k] /\ left[k] < costs[i] /\ s[i] = s[k] + costs[i]
        /\ s[i] <= s[n] /\ i \in 0 .. n
    BY <1>1, <1>5, <1>9, <2>1, <2>2
  <2>4. s[k] \in Nat /\ left[k] \in Nat /\ s[i] \in Nat /\ s[n] \in Nat /\ costs[i] \in Nat
    BY <1>1, <1>5, <1>7, <1>10, <2>2, <2>3
  <2> QED
    BY <2>3, <2>4
<1>12. Total(ps) = p[n] /\ Total(costs) = s[n]
  BY <1>3, <1>4
<1> QED
  BY <1>10, <1>11, <1>12 DEF n, ps

-----------------------------------------------------------------------------
(* One band.                                                               *)

LEMMA BandNumbers ==
  ASSUME NEW band \in Bands
  PROVE  /\ band.rate \in Nat \ {0} /\ Capacity(band) \in Nat /\ FillTime(band) \in Nat
         /\ Capacity(band) - band.rate + 1 <= FillTime(band) * band.rate
         /\ Promised(band) \in Nat /\ Promised(band) <= Capacity(band)
         /\ Promised(band) = Most(Capacity(band) - band.rate + 1, 0)
<1>1. band.rate \in Nat \ {0} /\ band.burst \in Nat /\ Thousand \in Nat
  BY MeterAssumption DEF Bands
<1>2. Capacity(band) \in Nat
  BY <1>1, TimesNat DEF Capacity
<1> DEFINE c == Capacity(band)
           r == band.rate
<1>3. c \in Nat /\ r \in Nat \ {0} /\ FillTime(band) = c \div r
      /\ Promised(band) = Most(c - r + 1, 0)
  BY <1>1, <1>2 DEF FillTime, Promised
<1> HIDE DEF c, r
<1>4. FillTime(band) \in Nat /\ c - r + 1 <= FillTime(band) * r
  BY <1>3, RoundedDown
<1>5. Promised(band) \in Nat /\ Promised(band) <= c
  BY <1>3 DEF Most
<1> QED
  BY <1>3, <1>4, <1>5 DEF c, r

LEMMA MaxDeltaCovers ==
  ASSUME NEW bands \in Seq(Bands), NEW b \in DOMAIN bands
  PROVE  MaxDelta(bands) \in Nat /\ FillTime(bands[b]) <= MaxDelta(bands)
<1> DEFINE n == Len(bands)
           F(i) == FillTime(bands[i])
<1>1. n \in Nat /\ DOMAIN bands = 1 .. n /\ \A i \in 1 .. n : F(i) \in Nat
  <2>1. \A i \in 1 .. n : bands[i] \in Bands
    OBVIOUS
  <2> QED
    BY <2>1, BandNumbers
<1> HIDE DEF n, F
<1>2. \E i \in 1 .. n : \A j \in 1 .. n : F(j) <= F(i)
  <2> DEFINE Top(k) == \E i \in 1 .. k : \A j \in 1 .. k : F(j) <= F(i)
             S == {k \in Nat : k + 1 <= n => Top(k + 1)}
  <2>1. 0 \in S
    <3> SUFFICES ASSUME 1 <= n
                 PROVE  Top(1)
      OBVIOUS
    <3>1. 1 \in 1 .. 1 /\ \A j \in 1 .. 1 : j = 1
      OBVIOUS
    <3>2. F(1) \in Nat
      BY <1>1
    <3>3. F(1) <= F(1)
      BY <3>2
    <3> QED
      BY <3>1, <3>3
  <2>2. ASSUME NEW k \in Nat, k \in S
        PROVE  k + 1 \in S
    <3> SUFFICES ASSUME k + 2 <= n
                 PROVE  Top(k + 2)
      OBVIOUS
    <3>1. PICK i \in 1 .. k + 1 : \A j \in 1 .. k + 1 : F(j) <= F(i)
      BY <1>1, <2>2
    <3>2. F(i) \in Nat /\ F(k + 2) \in Nat /\ \A j \in 1 .. k + 2 : F(j) \in Nat
      BY <1>1
    <3>3. \A j \in 1 .. k + 2 : j \in 1 .. k + 1 \/ j = k + 2
      OBVIOUS
    <3>4. CASE F(i) <= F(k + 2)
      <4>1. \A j \in 1 .. k + 2 : F(j) <= F(k + 2)
        <5> TAKE j \in 1 .. k + 2
        <5>1. CASE j = k + 2
          BY <3>2, <5>1
        <5>2. CASE j \in 1 .. k + 1
          <6>1. F(j) <= F(i) /\ F(j) \in Nat
            BY <3>1, <3>2, <5>2
          <6> QED
            BY <3>2, <3>4, <6>1
        <5> QED
          BY <3>3, <5>1, <5>2
      <4>2. k + 2 \in 1 .. k + 2
        OBVIOUS
      <4> QED
        BY <4>1, <4>2
    <3>5. CASE ~(F(i) <= F(k + 2))
      <4>1. \A j \in 1 .. k + 2 : F(j) <= F(i)
        <5> TAKE j \in 1 .. k + 2
        <5>1. CASE j = k + 2
          BY <3>2, <3>5, <5>1
        <5>2. CASE j \in 1 .. k + 1
          BY <3>1, <5>2
        <5> QED
          BY <3>3, <5>1, <5>2
      <4>2. i \in 1 .. k + 2
        OBVIOUS
      <4> QED
        BY <4>1, <4>2
    <3> QED
      BY <3>4, <3>5
  <2> HIDE DEF S
  <2>3. Nat \subseteq S
    BY <2>1, <2>2, AllNat
  <2> HIDE DEF Top
  <2>4. n >= 1
    BY <1>1
  <2>5. PICK k \in Nat : k + 1 = n
    <3>1. n - 1 \in Nat /\ (n - 1) + 1 = n
      BY <1>1, <2>4
    <3> QED
      BY <3>1
  <2>6. k \in S
    BY <2>3
  <2>7. Top(k + 1)
    BY <1>1, <2>5, <2>6 DEF S
  <2> QED
    BY <2>5, <2>7 DEF Top
<1> DEFINE X == {F(i) : i \in 1 .. n}
           d == CHOOSE x \in X : \A i \in 1 .. n : x >= F(i)
<1>3. d \in X /\ \A i \in 1 .. n : d >= F(i)
  <2>1. PICK i \in 1 .. n : \A j \in 1 .. n : F(j) <= F(i)
    BY <1>2
  <2>2. \A j \in 1 .. n : F(i) >= F(j)
    BY <1>1, <2>1
  <2> QED
    BY <2>2
<1>4. MaxDelta(bands) = d
  BY <1>1 DEF MaxDelta, F
<1>5. d \in Nat
  BY <1>1, <1>3
<1> HIDE DEF d
<1>6. F(b) <= d
  BY <1>1, <1>3, <1>5
<1> QED
  BY <1>4, <1>5, <1>6 DEF F

(* The refilled bucket has what the ideal one has: were the time cut off   *)
(* at max_delta_t, it would have filled all that is promised.              *)
LEMMA RefillCovers ==
  ASSUME NEW band \in Bands, NEW bucket \in Nat, NEW ideal \in Nat, ideal <= bucket,
         NEW true \in Nat, NEW passed \in Nat, true <= passed,
         NEW limit \in Nat, FillTime(band) <= limit
  PROVE  /\ Least(ideal + true * band.rate, Promised(band)) \in Nat
         /\ Least(ideal + true * band.rate, Promised(band))
              <= Refill(bucket, band, Least(passed, limit))
<1> DEFINE c == Capacity(band)
           r == band.rate
           f == FillTime(band)
           p == Promised(band)
<1>1. /\ c \in Nat /\ r \in Nat /\ f \in Nat /\ p \in Nat /\ p <= c
      /\ c - r + 1 <= f * r /\ p = Most(c - r + 1, 0)
  BY BandNumbers
<1> HIDE DEF c, r, f, p
<1>2. f <= limit
  BY DEF f
<1>3. /\ true * r \in Nat /\ passed * r \in Nat /\ limit * r \in Nat /\ f * r \in Nat
      /\ true * r <= passed * r /\ f * r <= limit * r
  BY <1>1, <1>2, TimesNat, TimesMono
<1> DEFINE tr == true * r
           pr == passed * r
           lr == limit * r
           fr == f * r
<1>4. /\ tr \in Nat /\ pr \in Nat /\ lr \in Nat /\ fr \in Nat /\ tr <= pr /\ fr <= lr
      /\ c - r + 1 <= fr
  BY <1>1, <1>3
<1>5. Refill(bucket, band, Least(passed, limit))
        = Least(bucket + (IF passed <= limit THEN pr ELSE lr), c)
  <2>1. CASE passed <= limit
    BY <2>1 DEF Refill, Least, c, r
  <2>2. CASE ~(passed <= limit)
    BY <2>2 DEF Refill, Least, c, r
  <2> QED
    BY <2>1, <2>2
<1> HIDE DEF tr, pr, lr, fr
<1>6. Least(ideal + tr, p) \in Nat /\ Least(ideal + tr, p) <= p
      /\ Least(ideal + tr, p) <= ideal + tr
  BY <1>1, <1>4 DEF Least
<1>7. Least(ideal + tr, p) <= Least(bucket + pr, c)
  BY <1>1, <1>4, <1>6 DEF Least
<1>8. Least(ideal + tr, p) <= Least(bucket + lr, c)
  <2>1. p <= lr
    BY <1>1, <1>4 DEF Most
  <2> QED
    BY <1>1, <1>4, <1>6, <2>1 DEF Least
<1> QED
  BY <1>5, <1>6, <1>7, <1>8 DEF tr, r, p

(* The level and the bucket move against each other.                       *)
LEMMA RefillKeeps ==
  ASSUME NEW band \in Bands, NEW bucket \in Nat, NEW level \in Nat,
         level + bucket <= Capacity(band),
         NEW passed \in Nat, NEW limit \in Nat
  PROVE  /\ Refill(bucket, band, Least(passed, limit)) \in Nat
         /\ Most(level - passed * band.rate, 0) \in Nat
         /\ Most(level - passed * band.rate, 0) + Refill(bucket, band, Least(passed, limit))
              <= Capacity(band)
<1> DEFINE c == Capacity(band)
           r == band.rate
           q == Least(passed, limit)
<1>1. c \in Nat /\ r \in Nat /\ level + bucket <= c
  BY BandNumbers
<1>2. q \in Nat /\ q <= passed
  BY DEF Least
<1> HIDE DEF c, r, q
<1>3. q * r \in Nat /\ passed * r \in Nat /\ q * r <= passed * r
  BY <1>1, <1>2, TimesNat, TimesMono
<1> DEFINE qr == q * r
           pr == passed * r
<1>4. qr \in Nat /\ pr \in Nat /\ qr <= pr
  BY <1>3
<1>5. Refill(bucket, band, q) = Least(bucket + qr, c)
  BY DEF Refill, c, r
<1> HIDE DEF qr, pr
<1>6. /\ Least(bucket + qr, c) \in Nat /\ Most(level - pr, 0) \in Nat
      /\ Most(level - pr, 0) + Least(bucket + qr, c) <= c
  BY <1>1, <1>4 DEF Least, Most
<1> QED
  BY <1>5, <1>6 DEF pr, c, r, q

-----------------------------------------------------------------------------
(* The inductive invariant.                                                *)

MeterType == [cfg : Configs, used : Nat, bucket : Seq(Nat)]
GhostType == [latest : Nat, ideal : Seq(Nat), level : Seq(Nat)]

(* A meter and its ghost: the ghost knows a time as late as that of the    *)
(* meter; per band, what has passed beyond the rate and what is left are   *)
(* within the capacity, and the ideal bucket has no more than the real.    *)
Sound(mt, g) ==
  LET bands == mt.cfg.bands IN
  /\ mt \in MeterType /\ g \in GhostType
  /\ Len(mt.bucket) = Len(bands) /\ Len(g.ideal) = Len(bands) /\ Len(g.level) = Len(bands)
  /\ mt.used <= g.latest
  /\ \A b \in 1 .. Len(bands) : /\ g.level[b] + mt.bucket[b] <= Capacity(bands[b])
                                /\ g.ideal[b] <= mt.bucket[b]

Typed ==
  /\ clock \in Nat /\ wronged \in BOOLEAN
  /\ meter \in Seq(MeterType) /\ ghost \in Seq(GhostType) /\ Len(ghost) = Len(meter)
  /\ cur \in 0 .. Len(meter) /\ setting \in 0 .. Len(meter)
  /\ th \in [Thread -> [now : Int, m : Nat]]
  /\ \A t \in Thread : th[t].m <= Len(meter) /\ (th[t] = Idle \/ th[t].now \in Nat)

IInv == Typed /\ (\A m \in 1 .. Len(meter) : Sound(meter[m], ghost[m])) /\ ~wronged

(* The parts of RunMeter, for a meter mt, its ghost g and a batch.         *)
Costs(mt, sizes) == [i \in DOMAIN sizes |-> IF mt.cfg.pktps THEN Thousand ELSE sizes[i]]
Left(mt, now, costs) ==
  [b \in DOMAIN mt.cfg.bands |->
     Drain(Refill(mt.bucket[b], mt.cfg.bands[b], Delta(mt, now)), costs)]
Over(mt, now, costs) ==
  [b \in DOMAIN mt.cfg.bands |-> Exceeding(Left(mt, now, costs)[b], costs)]
Sent(dropped, costs) == Total([i \in DOMAIN costs |-> IF i \in dropped THEN 0 ELSE costs[i]])
Dropped(mt, now, costs) == UNION {Over(mt, now, costs)[b] : b \in DOMAIN mt.cfg.bands}
LevelOf(mt, g, b, now) ==
  Most(g.level[b] - Most(now - mt.used, 0) * mt.cfg.bands[b].rate, 0)
IdealOf(mt, g, b, now) ==
  Least(g.ideal[b] + Most(now - g.latest, 0) * mt.cfg.bands[b].rate,
        Promised(mt.cfg.bands[b]))

Room(mt, g, now, costs) ==
  [b \in DOMAIN mt.cfg.bands |-> IdealOf(mt, g, b, now) - Total(costs)]

LEMMA SoundParts ==
  ASSUME NEW mt, NEW g, Sound(mt, g)
  PROVE  LET n == Len(mt.cfg.bands) IN
         /\ mt \in MeterType /\ g \in GhostType /\ mt.cfg \in Configs
         /\ mt.cfg.bands \in Seq(Bands) /\ n \in Nat /\ DOMAIN mt.cfg.bands = 1 .. n
         /\ mt.used \in Nat /\ g.latest \in Nat /\ mt.used <= g.latest
         /\ mt.bucket \in Seq(Nat) /\ g.ideal \in Seq(Nat) /\ g.level \in Seq(Nat)
         /\ Len(mt.bucket) = n /\ Len(g.ideal) = n /\ Len(g.level) = n
<1>1. mt \in MeterType /\ g \in GhostType
  BY DEF Sound
<1>2. mt.cfg \in Configs /\ mt.used \in Nat /\ mt.bucket \in Seq(Nat)
  BY <1>1 DEF MeterType
<1>3. g.latest \in Nat /\ g.ideal \in Seq(Nat) /\ g.level \in Seq(Nat)
  BY <1>1 DEF GhostType
<1>4. mt.cfg.bands \in Seq(Bands)
  BY <1>2, MeterAssumption
<1>5. Len(mt.cfg.bands) \in Nat /\ DOMAIN mt.cfg.bands = 1 .. Len(mt.cfg.bands)
  BY <1>4
<1> QED
  BY <1>1, <1>2, <1>3, <1>4, <1>5 DEF Sound

LEMMA MostNat ==
  ASSUME NEW a \in Int, NEW b \in Int
  PROVE  Most(a - b, 0) \in Nat
  BY DEF Most

(* One band of one call.                                                   *)
LEMMA BandRun ==
  ASSUME NEW mt, NEW g, Sound(mt, g), NEW now \in Nat, NEW costs \in Seq(Nat),
         NEW b \in 1 .. Len(mt.cfg.bands)
  PROVE  LET left == Left(mt, now, costs)[b][Len(costs)]
             room == IdealOf(mt, g, b, now) - Total(costs)
             level == LevelOf(mt, g, b, now) + Sent(Dropped(mt, now, costs), costs)
         IN  /\ left \in Nat /\ Most(room, 0) \in Nat /\ level \in Nat
             /\ level + left <= Capacity(mt.cfg.bands[b])
             /\ Most(room, 0) <= left
             /\ ~(Over(mt, now, costs)[b] # {} /\ room >= 0)
<1> DEFINE band == mt.cfg.bands[b]
           passed == Most(now - mt.used, 0)
           true == Most(now - g.latest, 0)
           limit == MaxDelta(mt.cfg.bands)
           bk == mt.bucket[b]
           gi == g.ideal[b]
           gl == g.level[b]
           refilled == Refill(bk, band, Least(passed, limit))
           dr == Drain(refilled, costs)
           left == dr[Len(costs)]
           dropped == Dropped(mt, now, costs)
           sent == Sent(dropped, costs)
           level == Most(gl - passed * band.rate, 0)
           ideal == Least(gi + true * band.rate, Promised(band))
           total == Total(costs)
<1>1. /\ passed \in Nat /\ true \in Nat /\ true <= passed
  <2>1. mt.used \in Nat /\ g.latest \in Nat /\ mt.used <= g.latest
    BY SoundParts
  <2> QED
    BY <2>1 DEF Most
<1>2. band \in Bands /\ bk \in Nat /\ gi \in Nat /\ gl \in Nat /\ b \in DOMAIN mt.cfg.bands
  <2> DEFINE n == Len(mt.cfg.bands)
             bs == mt.cfg.bands
             ks == mt.bucket
             is == g.ideal
             ls == g.level
  <2>1. /\ bs \in Seq(Bands) /\ ks \in Seq(Nat) /\ is \in Seq(Nat) /\ ls \in Seq(Nat)
        /\ Len(bs) = n /\ Len(ks) = n /\ Len(is) = n /\ Len(ls) = n /\ b \in 1 .. n
    BY SoundParts
  <2> HIDE DEF n, bs, ks, is, ls
  <2>2. bs[b] \in Bands /\ ks[b] \in Nat /\ is[b] \in Nat /\ ls[b] \in Nat /\ b \in DOMAIN bs
    BY <2>1
  <2> QED
    BY <2>2 DEF bs, ks, is, ls
<1>3. limit \in Nat /\ FillTime(band) <= limit
  <2>1. mt.cfg.bands \in Seq(Bands)
    BY SoundParts
  <2> QED
    BY <1>2, <2>1, MaxDeltaCovers
<1>4. gl + bk <= Capacity(band) /\ gi <= bk /\ Capacity(band) \in Nat
  BY <1>2, BandNumbers DEF Sound
<1>5. /\ LevelOf(mt, g, b, now) = level /\ IdealOf(mt, g, b, now) = ideal
      /\ Left(mt, now, costs)[b] = dr
      /\ Over(mt, now, costs)[b] = Exceeding(dr, costs)
      /\ Exceeding(dr, costs) \subseteq dropped
  <2>1. Delta(mt, now) = Least(passed, limit)
    BY DEF Delta
  <2>2. Left(mt, now, costs)[b] = dr
    BY <1>2, <2>1 DEF Left
  <2>3. Over(mt, now, costs)[b] = Exceeding(dr, costs)
    BY <1>2, <2>2 DEF Over
  <2>4. Exceeding(dr, costs) \subseteq dropped
    BY <1>2, <2>3 DEF Dropped
  <2> QED
    BY <2>2, <2>3, <2>4 DEF LevelOf, IdealOf
<1> HIDE DEF band, passed, true, limit, bk, gi, gl
<1>6. ideal \in Nat /\ ideal <= refilled
  BY <1>1, <1>2, <1>3, <1>4, RefillCovers
<1>7. refilled \in Nat /\ level \in Nat /\ level + refilled <= Capacity(band)
  BY <1>1, <1>2, <1>3, <1>4, RefillKeeps
<1> HIDE DEF refilled, level, ideal
<1>8. /\ left \in Nat /\ sent \in Nat /\ total \in Nat /\ sent + left <= refilled
      /\ refilled - total <= left
      /\ Exceeding(dr, costs) # {} => refilled < total
  <2>1. dr = Drain(refilled, costs)
    OBVIOUS
  <2> HIDE DEF dr, dropped
  <2> QED
    BY <1>5, <1>7, <2>1, BandDrain DEF Sent
<1> DEFINE ex == Exceeding(dr, costs) # {}
<1>9. ex => refilled < total
  BY <1>8
<1>10. ex = (Over(mt, now, costs)[b] # {})
  BY <1>5
<1> HIDE DEF left, sent, total, dr, ex
<1>11. /\ Most(ideal - total, 0) \in Nat /\ Most(ideal - total, 0) <= left
       /\ ~(ex /\ ideal - total >= 0)
  BY <1>6, <1>7, <1>8, <1>9 DEF Most
<1>12. level + sent \in Nat /\ level + sent + left <= Capacity(band)
  BY <1>4, <1>7, <1>8
<1> QED
  BY <1>5, <1>8, <1>10, <1>11, <1>12 DEF left, sent, total, dr, dropped, band

(* All of them.                                                            *)
NewMeter(mt, now, costs) ==
  [[mt EXCEPT !.used = now] EXCEPT
     !.bucket = [b \in DOMAIN mt.cfg.bands |-> Left(mt, now, costs)[b][Len(costs)]]]
NewGhost(mt, g, now, costs) ==
  [latest |-> Most(g.latest, now),
   ideal  |-> [b \in DOMAIN mt.cfg.bands |-> Most(Room(mt, g, now, costs)[b], 0)],
   level  |-> [b \in DOMAIN mt.cfg.bands |->
                 LevelOf(mt, g, b, now) + Sent(Dropped(mt, now, costs), costs)]]

LEMMA RunSound ==
  ASSUME NEW mt, NEW g, Sound(mt, g), NEW now \in Nat, NEW costs \in Seq(Nat)
  PROVE  Sound(NewMeter(mt, now, costs), NewGhost(mt, g, now, costs))
<1> DEFINE n == Len(mt.cfg.bands)
           bs == [b \in 1 .. n |-> Left(mt, now, costs)[b][Len(costs)]]
           is == [b \in 1 .. n |-> Most(IdealOf(mt, g, b, now) - Total(costs), 0)]
           ls == [b \in 1 .. n |->
                    LevelOf(mt, g, b, now) + Sent(Dropped(mt, now, costs), costs)]
           lt == Most(g.latest, now)
<1>1. /\ n \in Nat /\ DOMAIN mt.cfg.bands = 1 .. n /\ g.latest \in Nat
      /\ mt \in MeterType
  BY SoundParts
<1>2. NewMeter(mt, now, costs) = [[mt EXCEPT !.used = now] EXCEPT !.bucket = bs]
  BY <1>1 DEF NewMeter
<1>3. NewGhost(mt, g, now, costs) = [latest |-> lt, ideal |-> is, level |-> ls]
  <2>1. \A b \in 1 .. n : Room(mt, g, now, costs)[b] = IdealOf(mt, g, b, now) - Total(costs)
    BY <1>1 DEF Room
  <2> QED
    BY <1>1, <2>1 DEF NewGhost
<1>4. \A b \in 1 .. n : /\ bs[b] \in Nat /\ is[b] \in Nat /\ ls[b] \in Nat
                        /\ ls[b] + bs[b] <= Capacity(mt.cfg.bands[b]) /\ is[b] <= bs[b]
  BY BandRun
<1>5. lt \in Nat /\ now <= lt
  BY <1>1 DEF Most
<1>6. DOMAIN bs = 1 .. n /\ DOMAIN is = 1 .. n /\ DOMAIN ls = 1 .. n
      /\ bs = [b \in 1 .. n |-> bs[b]] /\ is = [b \in 1 .. n |-> is[b]]
      /\ ls = [b \in 1 .. n |-> ls[b]]
  OBVIOUS
<1> DEFINE m2 == NewMeter(mt, now, costs)
           g2 == NewGhost(mt, g, now, costs)
<1> HIDE DEF bs, is, ls, lt, n
<1>7. bs \in Seq(Nat) /\ is \in Seq(Nat) /\ ls \in Seq(Nat)
      /\ Len(bs) = n /\ Len(is) = n /\ Len(ls) = n
  <2>1. \A f \in [1 .. n -> Nat] : f \in Seq(Nat) /\ Len(f) = n
    BY <1>1
  <2>2. bs \in [1 .. n -> Nat]
    BY <1>4, <1>6
  <2>3. is \in [1 .. n -> Nat]
    BY <1>4, <1>6
  <2>4. ls \in [1 .. n -> Nat]
    BY <1>4, <1>6
  <2> QED
    BY <2>1, <2>2, <2>3, <2>4
<1>8. m2 \in MeterType /\ m2.cfg = mt.cfg /\ m2.used = now /\ m2.bucket = bs
  <2>1. mt \in [cfg : Configs, used : Nat, bucket : Seq(Nat)]
    BY <1>1 DEF MeterType
  <2> QED
    BY <1>2, <1>7, <2>1 DEF MeterType
<1>9. g2 \in GhostType /\ g2.latest = lt /\ g2.ideal = is /\ g2.level = ls
  BY <1>3, <1>5, <1>7 DEF GhostType
<1> HIDE DEF m2, g2
<1>10. Sound(m2, g2)
  <2>1. Len(m2.cfg.bands) = n /\ m2.cfg.bands = mt.cfg.bands
    BY <1>8 DEF n
  <2> QED
    BY <1>4, <1>5, <1>7, <1>8, <1>9, <2>1 DEF Sound
<1> QED
  BY <1>10 DEF m2, g2

-----------------------------------------------------------------------------
(* The actions.                                                            *)

LEMMA InvInit ==
  ASSUME Init
  PROVE  IInv
<1>1. meter = <<>> /\ ghost = <<>> /\ wronged = FALSE /\ clock = 0 /\ cur = 0 /\ setting = 0
      /\ th = [t \in Thread |-> Idle]
  BY DEF Init
<1>2. meter \in Seq(MeterType) /\ ghost \in Seq(GhostType) /\ Len(meter) = 0 /\ Len(ghost) = 0
  BY <1>1
<1>3. Idle \in [now : Int, m : Nat] /\ Idle.m = 0
  BY DEF Idle
<1>4. Typed
  <2>1. th \in [Thread -> [now : Int, m : Nat]] /\ \A t \in Thread : th[t] = Idle
    BY <1>1, <1>3
  <2>2. \A t \in Thread : th[t].m <= Len(meter) /\ (th[t] = Idle \/ th[t].now \in Nat)
    <3>1. Idle.m <= Len(meter)
      BY <1>2, <1>3
    <3> QED
      BY <2>1, <3>1
  <2>3. 0 \in 0 .. Len(meter) /\ 0 \in Nat /\ FALSE \in BOOLEAN
    BY <1>2
  <2> QED
    BY <1>1, <1>2, <2>1, <2>2, <2>3 DEF Typed
<1> QED
  BY <1>1, <1>2, <1>4 DEF IInv

LEMMA InvTick ==
  ASSUME IInv, Tick
  PROVE  IInv'
<1>1. clock' \in Nat /\ UNCHANGED <<meter, cur, setting, th, ghost, wronged>>
  BY DEF IInv, Typed, Tick
<1> QED
  BY <1>1 DEF IInv, Typed

LEMMA InvAttach ==
  ASSUME IInv, Attach \/ MeterDel
  PROVE  IInv'
<1>1. UNCHANGED <<clock, meter, th, ghost, wronged>>
  BY DEF Attach, MeterDel
<1>2. cur' \in 0 .. Len(meter) /\ setting' \in 0 .. Len(meter)
  <2>1. cur \in 0 .. Len(meter) /\ setting \in 0 .. Len(meter) /\ 0 \in 0 .. Len(meter)
    BY DEF IInv, Typed
  <2> QED
    BY <2>1 DEF Attach, MeterDel
<1> QED
  BY <1>1, <1>2 DEF IInv, Typed

LEMMA InvReceive ==
  ASSUME IInv, NEW t \in Thread, Receive(t) \/ Lookup(t)
  PROVE  IInv'
<1>1. UNCHANGED <<clock, meter, cur, setting, ghost, wronged>>
  BY DEF Receive, Lookup
<1>2. /\ Len(meter) \in Nat /\ cur \in Nat /\ cur <= Len(meter) /\ clock \in Nat
      /\ th \in [Thread -> [now : Int, m : Nat]] /\ Idle \in [now : Int, m : Nat] /\ Idle.m = 0
      /\ \A u \in Thread : th[u].m <= Len(meter) /\ (th[u] = Idle \/ th[u].now \in Nat)
  BY DEF IInv, Typed, Idle
<1>3. PICK r : /\ th' = [th EXCEPT ![t] = r] /\ r \in [now : Int, m : Nat]
               /\ r.m <= Len(meter) /\ (r = Idle \/ r.now \in Nat)
  <2>1. CASE Receive(t)
    <3>1. th' = [th EXCEPT ![t] = [th[t] EXCEPT !.now = clock]]
      BY <2>1 DEF Receive
    <3>2. th[t] \in [now : Int, m : Nat] /\ th[t].m <= Len(meter)
      BY <1>2
    <3> DEFINE r == [th[t] EXCEPT !.now = clock]
    <3>3. r \in [now : Int, m : Nat] /\ r.m = th[t].m /\ r.now = clock
      BY <1>2, <3>2
    <3> HIDE DEF r
    <3>4. th' = [th EXCEPT ![t] = r]
      BY <3>1 DEF r
    <3> QED
      BY <1>2, <3>2, <3>3, <3>4
  <2>2. CASE Lookup(t)
    <3>1. th' = [th EXCEPT ![t] = IF cur = 0 THEN Idle ELSE [th[t] EXCEPT !.m = cur]]
          /\ th[t] # Idle
      BY <2>2 DEF Lookup
    <3>2. CASE cur = 0
      <4>1. th' = [th EXCEPT ![t] = Idle]
        BY <3>1, <3>2
      <4>2. Idle.m <= Len(meter) /\ Idle \in [now : Int, m : Nat]
        BY <1>2
      <4> QED
        BY <4>1, <4>2, Zenon
    <3>3. CASE cur # 0
      <4> DEFINE r == [th[t] EXCEPT !.m = cur]
      <4>1. th[t] \in [now : Int, m : Nat] /\ th[t].now \in Nat
        BY <1>2, <3>1
      <4>2. r \in [now : Int, m : Nat] /\ r.m = cur /\ r.now = th[t].now
        BY <1>2, <4>1
      <4>3. th' = [th EXCEPT ![t] = r]
        BY <3>1, <3>3
      <4> HIDE DEF r
      <4> QED
        BY <1>2, <4>1, <4>2, <4>3
    <3> QED
      BY <3>2, <3>3
  <2> QED
    BY <2>1, <2>2
<1>4. /\ th' \in [Thread -> [now : Int, m : Nat]]
      /\ \A u \in Thread : th'[u].m <= Len(meter) /\ (th'[u] = Idle \/ th'[u].now \in Nat)
  BY <1>2, <1>3
<1> QED
  BY <1>1, <1>4 DEF IInv, Typed

LEMMA InvMeterSet ==
  ASSUME IInv, NEW c \in Configs, MeterSet(c)
  PROVE  IInv'
<1> DEFINE mt == [cfg |-> c, used |-> clock,
                  bucket |-> [b \in DOMAIN c.bands |-> Capacity(c.bands[b])]]
           g == [latest |-> clock, level |-> [b \in DOMAIN c.bands |-> 0],
                 ideal |-> [b \in DOMAIN c.bands |-> Promised(c.bands[b])]]
           n == Len(c.bands)
<1>1. /\ meter' = Append(meter, mt) /\ ghost' = Append(ghost, g)
      /\ cur' = 0 /\ setting' = Len(meter') /\ UNCHANGED <<clock, th, wronged>>
  BY DEF MeterSet
<1>2. /\ clock \in Nat /\ meter \in Seq(MeterType) /\ ghost \in Seq(GhostType)
      /\ Len(ghost) = Len(meter) /\ Len(meter) \in Nat
  BY DEF IInv, Typed
<1>3. c.bands \in Seq(Bands) /\ n \in Nat /\ DOMAIN c.bands = 1 .. n
  BY MeterAssumption
<1>4. \A b \in 1 .. n : /\ Capacity(c.bands[b]) \in Nat /\ Promised(c.bands[b]) \in Nat
                        /\ Promised(c.bands[b]) <= Capacity(c.bands[b])
  <2> TAKE b \in 1 .. n
  <2>1. c.bands[b] \in Bands
    BY <1>3
  <2> QED
    BY <2>1, BandNumbers
<1>5. Sound(mt, g)
  <2> DEFINE bs == [b \in 1 .. n |-> Capacity(c.bands[b])]
             is == [b \in 1 .. n |-> Promised(c.bands[b])]
             ls == [b \in 1 .. n |-> 0]
  <2>1. mt = [cfg |-> c, used |-> clock, bucket |-> bs]
        /\ g = [latest |-> clock, level |-> ls, ideal |-> is]
    BY <1>3
  <2>2. \A f \in [1 .. n -> Nat] : f \in Seq(Nat) /\ Len(f) = n
    BY <1>3
  <2>3. bs \in [1 .. n -> Nat] /\ is \in [1 .. n -> Nat] /\ ls \in [1 .. n -> Nat]
    BY <1>4
  <2>4. \A b \in 1 .. n : ls[b] + bs[b] <= Capacity(c.bands[b]) /\ is[b] <= bs[b]
    BY <1>4
  <2> HIDE DEF bs, is, ls, mt, g
  <2>5. bs \in Seq(Nat) /\ is \in Seq(Nat) /\ ls \in Seq(Nat)
        /\ Len(bs) = n /\ Len(is) = n /\ Len(ls) = n
    BY <2>2, <2>3
  <2>6. mt \in MeterType /\ mt.cfg = c /\ mt.used = clock /\ mt.bucket = bs
    BY <1>2, <2>1, <2>5 DEF MeterType
  <2>7. g \in GhostType /\ g.latest = clock /\ g.ideal = is /\ g.level = ls
    BY <1>2, <2>1, <2>5 DEF GhostType
  <2>8. clock <= clock
    BY <1>2
  <2> QED
    BY <2>4, <2>5, <2>6, <2>7, <2>8 DEF Sound
<1>6. mt \in MeterType /\ g \in GhostType
  BY <1>5 DEF Sound
<1> HIDE DEF mt, g, n
<1>7. /\ meter' \in Seq(MeterType) /\ ghost' \in Seq(GhostType)
      /\ Len(meter') = Len(meter) + 1 /\ Len(ghost') = Len(meter')
      /\ meter'[Len(meter')] = mt /\ ghost'[Len(meter')] = g
      /\ \A m \in 1 .. Len(meter) : meter'[m] = meter[m] /\ ghost'[m] = ghost[m]
  BY <1>1, <1>2, <1>6
<1>8. Typed'
  <2>1. th \in [Thread -> [now : Int, m : Nat]] /\ wronged \in BOOLEAN
        /\ \A t \in Thread : th[t].m <= Len(meter) /\ (th[t] = Idle \/ th[t].now \in Nat)
    BY DEF IInv, Typed
  <2>2. \A t \in Thread : th[t].m <= Len(meter')
    BY <1>2, <1>7, <2>1
  <2>3. 0 \in 0 .. Len(meter') /\ Len(meter') \in 0 .. Len(meter')
    BY <1>2, <1>7
  <2> QED
    BY <1>1, <1>2, <1>7, <2>1, <2>2, <2>3 DEF Typed
<1>9. \A m \in 1 .. Len(meter') : Sound(meter'[m], ghost'[m])
  <2> TAKE m \in 1 .. Len(meter')
  <2>1. m \in 1 .. Len(meter) \/ m = Len(meter')
    BY <1>2, <1>7
  <2>2. \A k \in 1 .. Len(meter) : Sound(meter[k], ghost[k])
    BY DEF IInv
  <2>3. ASSUME m \in 1 .. Len(meter)
        PROVE  Sound(meter'[m], ghost'[m])
    <3>1. meter'[m] = meter[m] /\ ghost'[m] = ghost[m]
      BY <1>7, <2>3
    <3> QED
      BY <2>2, <2>3, <3>1
  <2>4. ASSUME m = Len(meter')
        PROVE  Sound(meter'[m], ghost'[m])
    BY <1>5, <1>7, <2>4
  <2> QED
    BY <2>1, <2>3, <2>4
<1>10. ~wronged'
  BY <1>1 DEF IInv
<1> QED
  BY <1>8, <1>9, <1>10 DEF IInv

LEMMA CostsType ==
  ASSUME NEW mt, NEW sizes \in Batches
  PROVE  Costs(mt, sizes) \in Seq(Nat)
<1>1. MaxBatch \in Nat /\ Sizes \subseteq Nat /\ Thousand \in Nat
  BY MeterAssumption
<1>2. PICK k \in 1 .. MaxBatch : sizes \in [1 .. k -> Sizes]
  BY DEF Batches
<1>3. k \in Nat
  BY <1>1
<1>4. DOMAIN sizes = 1 .. k /\ \A i \in 1 .. k : sizes[i] \in Nat
  BY <1>1, <1>2
<1>5. Costs(mt, sizes) \in [1 .. k -> Nat]
  BY <1>1, <1>4 DEF Costs
<1> QED
  BY <1>3, <1>5

(* RunMeter in these terms.                                                *)
LEMMA RunParts ==
  ASSUME NEW t \in Thread, RunMeter(t)
  PROVE  LET m == th[t].m
             now == th[t].now
             mt == meter[m]
             g == ghost[m]
         IN  \E sizes \in Batches :
               LET costs == Costs(mt, sizes) IN
               /\ meter' = [meter EXCEPT ![m].used = now,
                                         ![m].bucket = [b \in DOMAIN mt.cfg.bands |->
                                                          Left(mt, now, costs)[b][Len(costs)]]]
               /\ ghost' = [ghost EXCEPT ![m] = NewGhost(mt, g, now, costs)]
               /\ wronged' = (wronged \/ \E b \in DOMAIN mt.cfg.bands :
                                           /\ Over(mt, now, costs)[b] # {}
                                           /\ Room(mt, g, now, costs)[b] >= 0)
  BY Zenon
     DEF RunMeter, Costs, NewGhost, Over, Left, Dropped, Sent, Room, LevelOf, IdealOf, Level, Ideal

LEMMA InvRunMeter ==
  ASSUME IInv, NEW t \in Thread, RunMeter(t)
  PROVE  IInv'
<1> DEFINE m == th[t].m
           now == th[t].now
           mt == meter[m]
           g == ghost[m]
<1>1. /\ m \in 1 .. Len(meter) /\ now \in Nat /\ Len(meter) \in Nat /\ Sound(mt, g)
      /\ meter \in Seq(MeterType) /\ ghost \in Seq(GhostType) /\ Len(ghost) = Len(meter)
      /\ th \in [Thread -> [now : Int, m : Nat]]
  <2>1. /\ m \in Nat /\ m <= Len(meter) /\ Len(meter) \in Nat /\ (th[t] = Idle \/ now \in Nat)
        /\ meter \in Seq(MeterType) /\ ghost \in Seq(GhostType) /\ Len(ghost) = Len(meter)
        /\ th \in [Thread -> [now : Int, m : Nat]]
    BY DEF IInv, Typed
  <2>2. m # 0 /\ Idle.m = 0
    BY DEF RunMeter, Idle
  <2>3. th[t] # Idle
    BY <2>2
  <2>4. m \in 1 .. Len(meter)
    BY <2>1, <2>2
  <2>5. Sound(mt, g)
    BY <2>4 DEF IInv
  <2> QED
    BY <2>1, <2>3, <2>4, <2>5
<1>2. PICK sizes \in Batches :
        LET costs == Costs(mt, sizes) IN
        /\ meter' = [meter EXCEPT ![m].used = now,
                                  ![m].bucket = [b \in DOMAIN mt.cfg.bands |->
                                                   Left(mt, now, costs)[b][Len(costs)]]]
        /\ ghost' = [ghost EXCEPT ![m] = NewGhost(mt, g, now, costs)]
        /\ wronged' = (wronged \/ \E b \in DOMAIN mt.cfg.bands :
                                    /\ Over(mt, now, costs)[b] # {}
                                    /\ Room(mt, g, now, costs)[b] >= 0)
  BY RunParts
<1> DEFINE costs == Costs(mt, sizes)
<1>3. costs \in Seq(Nat)
  BY CostsType
<1> DEFINE mt2 == NewMeter(mt, now, costs)
           g2 == NewGhost(mt, g, now, costs)
<1>4. meter' = [meter EXCEPT ![m] = mt2] /\ ghost' = [ghost EXCEPT ![m] = g2]
  <2> DEFINE bs == [b \in DOMAIN mt.cfg.bands |-> Left(mt, now, costs)[b][Len(costs)]]
  <2>1. meter' = [meter EXCEPT ![m].used = now, ![m].bucket = bs] /\ m \in DOMAIN meter
    <3>1. meter' = [meter EXCEPT ![m].used = now, ![m].bucket = bs]
      BY <1>2
    <3>2. m \in DOMAIN meter
      <4> HIDE DEF m
      <4> QED
        BY <1>1
    <3> QED
      BY <3>1, <3>2
  <2>2. mt2 = [[mt EXCEPT !.used = now] EXCEPT !.bucket = bs]
    BY DEF NewMeter
  <2> HIDE DEF bs, mt2
  <2> QED
    BY <1>2, <2>1, <2>2
<1>5. wronged' = wronged
  <2>1. ASSUME NEW b \in DOMAIN mt.cfg.bands
        PROVE  ~(Over(mt, now, costs)[b] # {} /\ Room(mt, g, now, costs)[b] >= 0)
    <3>1. b \in 1 .. Len(mt.cfg.bands)
      BY <1>1, SoundParts
    <3>2. Room(mt, g, now, costs)[b] = IdealOf(mt, g, b, now) - Total(costs)
      BY DEF Room
    <3> HIDE DEF mt, g, now, costs
    <3> QED
      BY <1>1, <1>3, <3>1, <3>2, BandRun
  <2>2. wronged \in BOOLEAN
    BY DEF IInv, Typed
  <2> QED
    BY <1>2, <2>1, <2>2, Zenon
<1>6. Sound(mt2, g2)
  <2> HIDE DEF mt, g, now, costs
  <2> QED
    BY <1>1, <1>3, RunSound
<1>7. mt2 \in MeterType /\ g2 \in GhostType
  <2> HIDE DEF mt2, g2
  <2> QED
    BY <1>6 DEF Sound
<1>8. UNCHANGED <<clock, cur, setting>> /\ th' = [th EXCEPT ![t] = Idle]
  BY DEF RunMeter
<1>9. /\ \A k \in 1 .. Len(meter) : Sound(meter[k], ghost[k])
      /\ clock \in Nat /\ wronged \in BOOLEAN /\ ~wronged
      /\ cur \in 0 .. Len(meter) /\ setting \in 0 .. Len(meter)
      /\ \A u \in Thread : th[u].m <= Len(meter) /\ (th[u] = Idle \/ th[u].now \in Nat)
      /\ Idle \in [now : Int, m : Nat] /\ Idle.m = 0
  BY DEF IInv, Typed, Idle
<1> HIDE DEF mt2, g2, m
<1>10. /\ meter' \in Seq(MeterType) /\ ghost' \in Seq(GhostType)
       /\ Len(meter') = Len(meter) /\ Len(ghost') = Len(meter')
       /\ meter'[m] = mt2 /\ ghost'[m] = g2
       /\ \A k \in 1 .. Len(meter) : k # m => meter'[k] = meter[k] /\ ghost'[k] = ghost[k]
  BY <1>1, <1>4, <1>7
<1>11. \A k \in 1 .. Len(meter') : Sound(meter'[k], ghost'[k])
  <2> TAKE k \in 1 .. Len(meter')
  <2>1. CASE k = m
    BY <1>6, <1>10, <2>1
  <2>2. CASE k # m
    <3>1. meter'[k] = meter[k] /\ ghost'[k] = ghost[k] /\ k \in 1 .. Len(meter)
      BY <1>10, <2>2
    <3> QED
      BY <1>9, <3>1
  <2> QED
    BY <2>1, <2>2
<1>12. /\ th' \in [Thread -> [now : Int, m : Nat]]
       /\ \A u \in Thread : th'[u].m <= Len(meter) /\ (th'[u] = Idle \/ th'[u].now \in Nat)
  <2>1. Idle.m <= Len(meter)
    BY <1>1, <1>9
  <2>2. th' \in [Thread -> [now : Int, m : Nat]]
    BY <1>1, <1>8, <1>9
  <2>3. \A u \in Thread : th'[u] = Idle \/ th'[u] = th[u]
    BY <1>1, <1>8
  <2> QED
    BY <1>9, <2>1, <2>2, <2>3
<1>13. Typed'
  BY <1>5, <1>8, <1>9, <1>10, <1>12 DEF Typed
<1> QED
  BY <1>5, <1>9, <1>11, <1>13 DEF IInv

LEMMA InvStep ==
  ASSUME IInv, [Next]_vars
  PROVE  IInv'
<1>1. CASE UNCHANGED vars
  BY <1>1 DEF vars, IInv, Typed
<1>2. CASE Tick
  BY <1>2, InvTick
<1>3. CASE Attach \/ MeterDel
  BY <1>3, InvAttach
<1>4. ASSUME NEW c \in Configs, MeterSet(c)
      PROVE  IInv'
  BY <1>4, InvMeterSet
<1>5. ASSUME NEW t \in Thread, Receive(t) \/ Lookup(t)
      PROVE  IInv'
  BY <1>5, InvReceive
<1>6. ASSUME NEW t \in Thread, RunMeter(t)
      PROVE  IInv'
  BY <1>6, InvRunMeter
<1> QED
  BY <1>1, <1>2, <1>3, <1>4, <1>5, <1>6 DEF Next

(* Whatever the order in which threads come to the lock of a meter, and    *)
(* whenever the main thread replaces or deletes it, each meter's buckets   *)
(* and their ghosts keep to each other.                                    *)
THEOREM Invariance == Spec => []IInv
<1>1. Init => IInv
  BY InvInit
<1>2. IInv /\ [Next]_vars => IInv'
  BY InvStep
<1> QED
  BY <1>1, <1>2, PTL DEF Spec

(* dp_netdev_run_meter: no band lets through more than its burst and its   *)
(* rate over time, from whichever call on.                                 *)
THEOREM Limited == Spec => []RateKept
<1>1. IInv => RateKept
  <2> SUFFICES ASSUME IInv, NEW m \in DOMAIN meter, NEW b \in DOMAIN meter[m].bucket
               PROVE  ghost[m].level[b] <= Capacity(meter[m].cfg.bands[b])
    BY DEF RateKept
  <2> DEFINE mt == meter[m]
             g == ghost[m]
             bands == mt.cfg.bands
             ks == mt.bucket
             ls == g.level
  <2>1. Sound(mt, g)
    BY DEF IInv, Typed
  <2>2. /\ bands \in Seq(Bands) /\ ks \in Seq(Nat) /\ ls \in Seq(Nat)
        /\ Len(ks) = Len(bands) /\ Len(ls) = Len(bands) /\ b \in DOMAIN ks
    BY <2>1, SoundParts
  <2>3. \A i \in 1 .. Len(bands) : ls[i] + ks[i] <= Capacity(bands[i])
    BY <2>1 DEF Sound
  <2> HIDE DEF bands, ks, ls
  <2>4. /\ b \in 1 .. Len(bands) /\ bands[b] \in Bands /\ ks[b] \in Nat /\ ls[b] \in Nat
    BY <2>2
  <2>5. ls[b] + ks[b] <= Capacity(bands[b]) /\ Capacity(bands[b]) \in Nat
    BY <2>3, <2>4, BandNumbers
  <2>6. ls[b] <= Capacity(bands[b])
    BY <2>4, <2>5
  <2> QED
    BY <2>6 DEF bands, ls
<1> QED
  BY <1>1, Invariance, PTL

(* A sender within what is promised loses nothing, though the time since   *)
(* the last call is cut off at max_delta_t and is none for a thread that   *)
(* comes late.                                                             *)
THEOREM Served == Spec => []WithinRatePasses
<1>1. IInv => WithinRatePasses
  BY DEF IInv, WithinRatePasses
<1> QED
  BY <1>1, Invariance, PTL
=============================================================================
