--------------------------- MODULE AggregateProofs ---------------------------
(***************************************************************************)
(* Theorems about Aggregate for every set of requirements the CHECKs admit *)
(* and any width of integers: lines combine, drop nothing, can be stored   *)
(* and have the exact totals.  Lowest terms and sums over requirements are *)
(* recursive or defined by a least number; their lemmas take induction as  *)
(* the least element of a set of naturals.                                 *)
(***************************************************************************)
EXTENDS Aggregate, WellFoundedInduction, TLAPS

-----------------------------------------------------------------------------
(* Least numbers and division.                                             *)

LessThan == OpToRel(<, Nat)

LEMMA LessThanHolds == \A x, y \in Nat : x < y => <<x, y>> \in LessThan
BY Zenon DEF LessThan, OpToRel

LEMMA LessThanWellFounded == IsWellFoundedOn(LessThan, Nat)
BY NatLessThanWellFounded, Zenon DEF LessThan

(* Induction over the naturals, without an operator for the claim.         *)
LEMMA Least ==
  ASSUME NEW S \in SUBSET Nat, S # {}
  PROVE  \E x \in S : \A y \in S : x <= y
<1>1. PICK x \in S : \A y \in S : <<y, x>> \notin LessThan
  BY WFMin, LessThanWellFounded
<1>2. \A y \in S : ~(y < x)
  BY <1>1, LessThanHolds
<1> QED
  BY <1>2

LEMMA Division ==
  ASSUME NEW a \in Nat, NEW d \in Nat \ {0}, a % d = 0
  PROVE  a \div d \in Nat /\ a = d * (a \div d)
<1>1. a = d * (a \div d) + (a % d) /\ a \div d \in Nat
  OBVIOUS
<1> QED
  BY <1>1

LEMMA Multiple ==
  ASSUME NEW m \in Nat, NEW d \in Nat \ {0}
  PROVE  (d * m) % d = 0 /\ (d * m) \div d = m
OBVIOUS

LEMMA Cancel ==
  ASSUME NEW a \in Int, NEW b \in Int, NEW d \in Nat \ {0}, d * a = d * b
  PROVE  a = b
OBVIOUS

-----------------------------------------------------------------------------
(* Fractions in lowest terms.                                              *)

LowestOf(n, d, k) ==
  /\ k \in 1..d /\ (n * k) % d = 0
  /\ \A j \in 1..(k - 1) : (n * j) % d # 0

LEMMA LowestIs ==
  ASSUME NEW n \in Nat, NEW d \in Nat \ {0}
  PROVE  LowestOf(n, d, Lowest(n, d))
<1> DEFINE S == {k \in 1..d : (n * k) % d = 0}
<1>1. n * d \in Nat /\ n * d = d * n
  OBVIOUS
<1>2. (n * d) % d = 0
  BY <1>1, Multiple
<1>3. S \in SUBSET Nat /\ d \in S
  BY <1>2
<1>4. PICK k \in S : \A j \in S : k <= j
  BY <1>3, Least
<1>5. \A j \in 1..(k - 1) : (n * j) % d # 0
  BY <1>3, <1>4
<1>6. LowestOf(n, d, k)
  BY <1>4, <1>5 DEF LowestOf
<1>7. \E i \in 1..d : (n * i) % d = 0 /\ \A j \in 1..(i - 1) : (n * j) % d # 0
  BY <1>6, Zenon DEF LowestOf
<1> QED
  BY <1>7, Zenon DEF Lowest, LowestOf

(* A fraction keeps its value.                                             *)
LEMMA FractionValue ==
  ASSUME NEW n \in Nat, NEW d \in Nat \ {0}
  PROVE  /\ Fraction(n, d) \in Ratio
         /\ Fraction(n, d).num * d = n * Fraction(n, d).den
<1> DEFINE k == Lowest(n, d)
<1>1. k \in 1..d /\ (n * k) % d = 0
  BY LowestIs DEF LowestOf
<1> HIDE DEF k
<1>2. n * k \in Nat
  BY <1>1
<1>3. (n * k) \div d \in Nat /\ n * k = d * ((n * k) \div d)
  BY <1>1, <1>2, Division
<1> QED
  BY <1>1, <1>3 DEF Fraction, Ratio, k

LEMMA SameWhole ==
  ASSUME NEW a \in Nat, NEW b \in Nat \ {0}, NEW c \in Nat, NEW d \in Nat \ {0},
         a * d = c * b, NEW k \in Nat, NEW m \in Nat, a * k = b * m
  PROVE  c * k = d * m
<1>1. b * (c * k) = (a * d) * k
  OBVIOUS
<1>2. (a * d) * k = d * (b * m)
  OBVIOUS
<1>3. b * (c * k) = b * (d * m)
  BY <1>1, <1>2
<1>4. c * k \in Int /\ d * m \in Int
  OBVIOUS
<1> QED
  BY <1>3, <1>4, Cancel

LEMMA LowestWhole ==
  ASSUME NEW n \in Nat, NEW d \in Nat \ {0}
  PROVE  Lowest(n, d) \in Nat
<1>1. \A k \in 1..d : k \in Nat
  OBVIOUS
<1> QED
  BY <1>1, LowestIs DEF LowestOf

LEMMA SameNumber ==
  ASSUME NEW x \in Nat, NEW y \in Nat, x <= y, y <= x
  PROVE  x = y
OBVIOUS

LEMMA LowestUnique ==
  ASSUME NEW a \in Nat, NEW b \in Nat \ {0}, NEW c \in Nat, NEW d \in Nat \ {0},
         a * d = c * b
  PROVE  Lowest(a, b) <= Lowest(c, d)
<1> DEFINE i == Lowest(a, b)
           k == Lowest(c, d)
<1>1. LowestOf(a, b, i) /\ LowestOf(c, d, k)
  BY LowestIs
<1> HIDE DEF i, k
<1>2. /\ i \in Nat /\ k \in Nat \ {0} /\ c * k \in Nat
      /\ \A j \in 1..(i - 1) : (a * j) % b # 0
  BY <1>1 DEF LowestOf
<1>3. PICK m \in Nat : c * k = d * m
  <2>1. (c * k) % d = 0
    BY <1>1 DEF LowestOf
  <2> QED
    BY <1>2, <2>1, Division
<1>4. a * k = b * m
  BY <1>2, <1>3, SameWhole
<1>5. (a * k) % b = 0
  BY <1>2, <1>4, Multiple
<1>6. ~(k <= i - 1)
  BY <1>2, <1>5
<1> QED
  BY <1>2, <1>6 DEF i, k

(* Equal values are one fraction.                                          *)
LEMMA FractionUnique ==
  ASSUME NEW a \in Nat, NEW b \in Nat \ {0}, NEW c \in Nat, NEW d \in Nat \ {0},
         a * d = c * b
  PROVE  Fraction(a, b) = Fraction(c, d)
<1> DEFINE k == Lowest(a, b)
<1>1. k = Lowest(c, d)
  <2>1. Lowest(a, b) \in Nat /\ Lowest(c, d) \in Nat
    BY LowestWhole
  <2>2. Lowest(a, b) <= Lowest(c, d) /\ Lowest(c, d) <= Lowest(a, b)
    BY LowestUnique
  <2> QED
    BY <2>1, <2>2, SameNumber
<1>2. LowestOf(a, b, k)
  BY LowestIs
<1> HIDE DEF k
<1>3. k \in Nat /\ (a * k) % b = 0 /\ a * k \in Nat
  BY <1>2 DEF LowestOf
<1>4. PICK m \in Nat : a * k = b * m
  BY <1>3, Division
<1>5. c * k = d * m
  BY <1>3, <1>4, SameWhole
<1>6. (a * k) \div b = m /\ (c * k) \div d = m
  BY <1>4, <1>5, Multiple
<1> QED
  BY <1>1, <1>6 DEF Fraction, k

(* A fraction is in lowest terms, and one that was stays as it is.         *)
LEMMA FractionReduced ==
  ASSUME NEW n \in Nat, NEW d \in Nat \ {0}
  PROVE  Reduced(Fraction(n, d))
<1> DEFINE f == Fraction(n, d)
<1>1. f \in Ratio /\ f.num * d = n * f.den
  BY FractionValue
<1>2. f.num \in Nat /\ f.den \in Nat \ {0}
  BY <1>1 DEF Ratio
<1> HIDE DEF f
<1>3. Fraction(f.num, f.den) = Fraction(n, d)
  BY <1>1, <1>2, FractionUnique
<1> QED
  BY <1>1, <1>3 DEF Reduced, f

-----------------------------------------------------------------------------
(* Arithmetic on values.                                                   *)

Positive == [num : Nat \ {0}, den : Nat \ {0}]

(* q has the value n / d.                                                  *)
Worth(q, n, d) ==
  q \in Ratio /\ n \in Nat /\ d \in Nat \ {0} /\ q.num * d = n * q.den

LEMMA FractionWorth ==
  ASSUME NEW n \in Nat, NEW d \in Nat \ {0}
  PROVE  Worth(Fraction(n, d), n, d)
BY FractionValue DEF Worth

LEMMA RatioWorth ==
  ASSUME NEW q \in Ratio
  PROVE  q.num \in Nat /\ q.den \in Nat \ {0} /\ Worth(q, q.num, q.den)
BY DEF Worth, Ratio

LEMMA WorthReduced ==
  ASSUME NEW q, Reduced(q), NEW n, NEW d, Worth(q, n, d)
  PROVE  q = Fraction(n, d)
<1>1. q.num \in Nat /\ q.den \in Nat \ {0} /\ n \in Nat /\ d \in Nat \ {0} /\ q.num * d = n * q.den
  BY DEF Reduced, Worth, Ratio
<1>2. Fraction(q.num, q.den) = Fraction(n, d)
  BY <1>1, FractionUnique
<1> QED
  BY <1>2 DEF Reduced

LEMMA SumWorth ==
  ASSUME NEW p, NEW q, NEW a, NEW b, NEW c, NEW d, Worth(p, a, b), Worth(q, c, d)
  PROVE  /\ Sum(p, q) = Fraction(a * d + c * b, b * d)
         /\ Reduced(Sum(p, q)) /\ Worth(Sum(p, q), a * d + c * b, b * d)
<1> DEFINE pn == p.num
           pd == p.den
           qn == q.num
           qd == q.den
<1>1. /\ pn \in Nat /\ pd \in Nat \ {0} /\ qn \in Nat /\ qd \in Nat \ {0}
      /\ a \in Nat /\ b \in Nat \ {0} /\ c \in Nat /\ d \in Nat \ {0}
      /\ pn * b = a * pd /\ qn * d = c * qd
  BY DEF Worth, Ratio
<1> HIDE DEF pn, pd, qn, qd
<1>2. (pn * qd + qn * pd) * (b * d) = (pn * b) * (qd * d) + (qn * d) * (pd * b)
  BY <1>1
<1>3. (a * d + c * b) * (pd * qd) = (a * pd) * (qd * d) + (c * qd) * (pd * b)
  BY <1>1
<1>4. (pn * qd + qn * pd) * (b * d) = (a * d + c * b) * (pd * qd)
  BY <1>1, <1>2, <1>3
<1>5. /\ pn * qd + qn * pd \in Nat /\ pd * qd \in Nat \ {0}
      /\ a * d + c * b \in Nat /\ b * d \in Nat \ {0}
  BY <1>1
<1>6. Fraction(pn * qd + qn * pd, pd * qd) = Fraction(a * d + c * b, b * d)
  BY <1>4, <1>5, FractionUnique
<1>7. Sum(p, q) = Fraction(a * d + c * b, b * d)
  BY <1>6 DEF Sum, pn, pd, qn, qd
<1> QED
  BY <1>5, <1>7, FractionReduced, FractionWorth

LEMMA TimesWorth ==
  ASSUME NEW p, NEW a, NEW b, Worth(p, a, b), NEW s \in Positive
  PROVE  /\ Times(p, s) = Fraction(a * s.num, b * s.den)
         /\ Reduced(Times(p, s)) /\ Worth(Times(p, s), a * s.num, b * s.den)
<1> DEFINE pn == p.num
           pd == p.den
           sn == s.num
           sd == s.den
<1>1. /\ pn \in Nat /\ pd \in Nat \ {0} /\ sn \in Nat \ {0} /\ sd \in Nat \ {0}
      /\ a \in Nat /\ b \in Nat \ {0} /\ pn * b = a * pd
  BY DEF Worth, Ratio, Positive
<1> HIDE DEF pn, pd, sn, sd
<1>2. (pn * sn) * (b * sd) = (pn * b) * (sn * sd) /\ (a * sn) * (pd * sd) = (a * pd) * (sn * sd)
  BY <1>1
<1>3. (pn * sn) * (b * sd) = (a * sn) * (pd * sd)
  BY <1>1, <1>2
<1>4. pn * sn \in Nat /\ pd * sd \in Nat \ {0} /\ a * sn \in Nat /\ b * sd \in Nat \ {0}
  BY <1>1
<1>5. Fraction(pn * sn, pd * sd) = Fraction(a * sn, b * sd)
  BY <1>3, <1>4, FractionUnique
<1>6. Times(p, s) = Fraction(a * sn, b * sd)
  BY <1>5 DEF Times, pn, pd, sn, sd
<1>7. Reduced(Times(p, s)) /\ Worth(Times(p, s), a * sn, b * sd)
  BY <1>4, <1>6, FractionReduced, FractionWorth
<1> QED
  BY <1>6, <1>7 DEF sn, sd

(* Dividing is multiplying by the inverse.                                 *)
LEMMA QuotientWorth ==
  ASSUME NEW p, NEW a, NEW b, Worth(p, a, b), NEW s \in Positive
  PROVE  /\ Quotient(p, s) = Fraction(a * s.den, b * s.num)
         /\ Reduced(Quotient(p, s)) /\ Worth(Quotient(p, s), a * s.den, b * s.num)
<1> DEFINE i == [num |-> s.den, den |-> s.num]
<1>1. i \in Positive /\ i.num = s.den /\ i.den = s.num
  BY DEF Positive
<1>2. Quotient(p, s) = Times(p, i)
  BY DEF Quotient, Times
<1> HIDE DEF i
<1> QED
  BY <1>1, <1>2, TimesWorth

LEMMA Scale ==
  ASSUME NEW a \in Int, NEW b \in Int, NEW d \in Nat \ {0}
  PROVE  d * a <= d * b <=> a <= b
OBVIOUS

LEMMA AtMostWorth ==
  ASSUME NEW p, NEW q, NEW a, NEW b, NEW c, NEW d, Worth(p, a, b), Worth(q, c, d)
  PROVE  AtMost(p, q) <=> a * d <= c * b
<1> DEFINE pn == p.num
           pd == p.den
           qn == q.num
           qd == q.den
<1>1. /\ pn \in Nat /\ pd \in Nat \ {0} /\ qn \in Nat /\ qd \in Nat \ {0}
      /\ a \in Nat /\ b \in Nat \ {0} /\ c \in Nat /\ d \in Nat \ {0}
      /\ pn * b = a * pd /\ qn * d = c * qd
  BY DEF Worth, Ratio
<1>2. AtMost(p, q) <=> pn * qd <= qn * pd
  BY DEF AtMost
<1> HIDE DEF pn, pd, qn, qd
<1>3. /\ b * d \in Nat \ {0} /\ pd * qd \in Nat \ {0}
      /\ pn * qd \in Int /\ qn * pd \in Int /\ a * d \in Int /\ c * b \in Int
  BY <1>1
<1>4. (b * d) * (pn * qd) = (pn * b) * (d * qd) /\ (pd * qd) * (a * d) = (a * pd) * (d * qd)
  BY <1>1
<1>5. (b * d) * (qn * pd) = (qn * d) * (b * pd) /\ (pd * qd) * (c * b) = (c * qd) * (b * pd)
  BY <1>1
<1>6. /\ (b * d) * (pn * qd) = (pd * qd) * (a * d)
      /\ (b * d) * (qn * pd) = (pd * qd) * (c * b)
  BY <1>1, <1>4, <1>5
<1>7. (b * d) * (pn * qd) <= (b * d) * (qn * pd) <=> pn * qd <= qn * pd
  BY <1>3, Scale
<1>8. (pd * qd) * (a * d) <= (pd * qd) * (c * b) <=> a * d <= c * b
  BY <1>3, Scale
<1> QED
  BY <1>2, <1>6, <1>7, <1>8

(* Of two sums the one with larger parts is larger, and equal only when    *)
(* its parts are.                                                          *)
LEMMA SumAtMost ==
  ASSUME NEW p \in Ratio, NEW q \in Ratio, NEW r \in Ratio, NEW s \in Ratio,
         AtMost(p, q), AtMost(r, s)
  PROVE  /\ AtMost(Sum(p, r), Sum(q, s))
         /\ AtMost(Sum(q, s), Sum(p, r)) <=> AtMost(q, p) /\ AtMost(s, r)
<1> DEFINE pn == p.num
           pd == p.den
           qn == q.num
           qd == q.den
           rn == r.num
           rd == r.den
           sn == s.num
           sd == s.den
<1>1. /\ pn \in Nat /\ pd \in Nat \ {0} /\ qn \in Nat /\ qd \in Nat \ {0}
      /\ rn \in Nat /\ rd \in Nat \ {0} /\ sn \in Nat /\ sd \in Nat \ {0}
      /\ Worth(p, pn, pd) /\ Worth(q, qn, qd) /\ Worth(r, rn, rd) /\ Worth(s, sn, sd)
  BY RatioWorth
<1>2. /\ pn * qd <= qn * pd /\ rn * sd <= sn * rd
      /\ AtMost(q, p) <=> qn * pd <= pn * qd
      /\ AtMost(s, r) <=> sn * rd <= rn * sd
  BY DEF AtMost
<1> HIDE DEF pn, pd, qn, qd, rn, rd, sn, sd
<1>3. /\ Worth(Sum(p, r), pn * rd + rn * pd, pd * rd)
      /\ Worth(Sum(q, s), qn * sd + sn * qd, qd * sd)
  BY <1>1, SumWorth
<1> DEFINE left == (pn * rd + rn * pd) * (qd * sd)
           right == (qn * sd + sn * qd) * (pd * rd)
           A == pn * qd
           B == qn * pd
           C == rn * sd
           D == sn * rd
           x == rd * sd
           y == pd * qd
<1>4. AtMost(Sum(p, r), Sum(q, s)) <=> left <= right
  BY <1>3, AtMostWorth
<1>5. AtMost(Sum(q, s), Sum(p, r)) <=> right <= left
  BY <1>3, AtMostWorth
<1>6. left = x * A + y * C /\ right = x * B + y * D
  BY <1>1
<1>7. /\ A \in Int /\ B \in Int /\ C \in Int /\ D \in Int
      /\ x \in Nat \ {0} /\ y \in Nat \ {0} /\ A <= B /\ C <= D
  BY <1>1, <1>2
<1>8. /\ AtMost(q, p) <=> B <= A
      /\ AtMost(s, r) <=> D <= C
  BY <1>2
<1> HIDE DEF left, right, A, B, C, D, x, y
<1>9. x * A <= x * B /\ y * C <= y * D
  BY <1>7, Scale
<1>10. /\ x * B <= x * A <=> B <= A
       /\ y * D <= y * C <=> D <= C
  BY <1>7, Scale
<1>11. x * A \in Int /\ x * B \in Int /\ y * C \in Int /\ y * D \in Int
  BY <1>7
<1>12. left <= right
  BY <1>6, <1>9, <1>11
<1>13. right <= left <=> x * B <= x * A /\ y * D <= y * C
  BY <1>6, <1>9, <1>11
<1> QED
  BY <1>4, <1>5, <1>8, <1>10, <1>12, <1>13

LEMMA SameReduced ==
  ASSUME NEW p, NEW q, Reduced(p), Reduced(q), AtMost(p, q)
  PROVE  p = q <=> AtMost(q, p)
<1>1. p.num \in Nat /\ p.den \in Nat \ {0} /\ q.num \in Nat /\ q.den \in Nat \ {0}
  BY DEF Reduced, Ratio
<1>2. AtMost(q, p) => p.num * q.den = q.num * p.den
  BY <1>1 DEF AtMost
<1>3. AtMost(q, p) => Fraction(p.num, p.den) = Fraction(q.num, q.den)
  BY <1>1, <1>2, FractionUnique
<1> QED
  BY <1>3 DEF Reduced

-----------------------------------------------------------------------------
(* Conversions.                                                            *)

LEMMA SumInBase ==
  ASSUME NEW p \in Ratio, NEW q \in Ratio, NEW unit, unit # None => unit.base \in Positive
  PROVE  InBase(Sum(p, q), unit) = Sum(InBase(p, unit), InBase(q, unit))
<1> DEFINE pn == p.num
           pd == p.den
           qn == q.num
           qd == q.den
<1>1. /\ pn \in Nat /\ pd \in Nat \ {0} /\ qn \in Nat /\ qd \in Nat \ {0}
      /\ Worth(p, pn, pd) /\ Worth(q, qn, qd)
  BY RatioWorth
<1>2. /\ Sum(p, q) = Fraction(pn * qd + qn * pd, pd * qd) /\ Reduced(Sum(p, q))
      /\ Worth(Sum(p, q), pn * qd + qn * pd, pd * qd)
  BY <1>1, SumWorth
<1>3. CASE unit = None
  <2>1. Worth(Fraction(pn, pd), pn, pd) /\ Worth(Fraction(qn, qd), qn, qd)
    BY <1>1, FractionWorth
  <2>2. Sum(Fraction(pn, pd), Fraction(qn, qd)) = Fraction(pn * qd + qn * pd, pd * qd)
    BY <2>1, SumWorth
  <2> QED
    BY <1>2, <1>3, <2>2 DEF InBase, Reduced
<1>4. CASE unit # None
  <2> DEFINE sn == unit.base.num
             sd == unit.base.den
  <2>1. sn \in Nat \ {0} /\ sd \in Nat \ {0}
    BY <1>4 DEF Positive
  <2>2. /\ Worth(Times(p, unit.base), pn * sn, pd * sd)
        /\ Worth(Times(q, unit.base), qn * sn, qd * sd)
    BY <1>1, <1>4, TimesWorth
  <2>3. Times(Sum(p, q), unit.base) = Fraction((pn * qd + qn * pd) * sn, (pd * qd) * sd)
    BY <1>2, <1>4, TimesWorth
  <2>4. Sum(Times(p, unit.base), Times(q, unit.base))
          = Fraction((pn * sn) * (qd * sd) + (qn * sn) * (pd * sd), (pd * sd) * (qd * sd))
    BY <2>2, SumWorth
  <2> HIDE DEF pn, pd, qn, qd, sn, sd
  <2>5. /\ (pn * qd + qn * pd) * sn \in Nat /\ (pd * qd) * sd \in Nat \ {0}
        /\ (pn * sn) * (qd * sd) + (qn * sn) * (pd * sd) \in Nat
        /\ (pd * sd) * (qd * sd) \in Nat \ {0}
    BY <1>1, <2>1
  <2>6. ((pn * qd + qn * pd) * sn) * ((pd * sd) * (qd * sd))
          = ((pn * sn) * (qd * sd) + (qn * sn) * (pd * sd)) * ((pd * qd) * sd)
    BY <1>1, <2>1
  <2>7. Fraction((pn * qd + qn * pd) * sn, (pd * qd) * sd)
          = Fraction((pn * sn) * (qd * sd) + (qn * sn) * (pd * sd), (pd * sd) * (qd * sd))
    BY <2>5, <2>6, FractionUnique
  <2> QED
    BY <1>4, <2>3, <2>4, <2>7 DEF InBase
<1> QED
  BY <1>3, <1>4

(* A line whose amounts are in a unit that r's converts to, or in packages *)
(* like r's.                                                               *)
Takes(line, r) ==
  /\ r.unit = None <=> r.package # None
  /\ line.unit = None <=> r.unit = None
  /\ r.unit # None => r.unit.base \in Positive /\ line.unit.base \in Positive

LEMMA ConvertWorth ==
  ASSUME NEW line, NEW r, Takes(line, r), NEW q \in Ratio
  PROVE  /\ Reduced(Convert(q, r, line))
         /\ r.unit = None => Worth(Convert(q, r, line), q.num, q.den)
         /\ r.unit # None =>
              Worth(Convert(q, r, line), (q.num * r.unit.base.num) * line.unit.base.den,
                    (q.den * r.unit.base.den) * line.unit.base.num)
<1>1. q.num \in Nat /\ q.den \in Nat \ {0} /\ Worth(q, q.num, q.den)
  BY RatioWorth
<1>2. CASE r.unit = None
  <2>1. Convert(q, r, line) = Fraction(q.num, q.den)
    BY <1>2 DEF Convert, Takes
  <2> QED
    BY <1>1, <1>2, <2>1, FractionReduced, FractionWorth
<1>3. CASE r.unit # None
  <2>1. Convert(q, r, line) = Quotient(Times(q, r.unit.base), line.unit.base)
    BY <1>3 DEF Convert, Takes
  <2>2. r.unit.base \in Positive /\ line.unit.base \in Positive
    BY <1>3 DEF Takes
  <2>3. Worth(Times(q, r.unit.base), q.num * r.unit.base.num, q.den * r.unit.base.den)
    BY <1>1, <2>2, TimesWorth
  <2> QED
    BY <1>3, <2>1, <2>2, <2>3, QuotientWorth
<1> QED
  BY <1>2, <1>3

(* Converting keeps the amount.                                            *)
LEMMA ConvertInBase ==
  ASSUME NEW line, NEW r, Takes(line, r), NEW q \in Ratio
  PROVE  InBase(Convert(q, r, line), line.unit) = InBase(q, r.unit)
<1>1. q.num \in Nat /\ q.den \in Nat \ {0} /\ Worth(q, q.num, q.den)
  BY RatioWorth
<1>2. CASE r.unit = None
  <2>1. Convert(q, r, line) = Fraction(q.num, q.den) /\ Reduced(Convert(q, r, line))
    BY <1>2, ConvertWorth DEF Convert, Takes
  <2> QED
    BY <1>2, <2>1 DEF InBase, Reduced, Takes
<1>3. CASE r.unit # None
  <2> DEFINE n == q.num * r.unit.base.num
             d == q.den * r.unit.base.den
             sn == line.unit.base.num
             sd == line.unit.base.den
  <2>1. r.unit.base \in Positive /\ line.unit.base \in Positive /\ line.unit # None
    BY <1>3 DEF Takes
  <2>2. n \in Nat /\ d \in Nat \ {0} /\ sn \in Nat \ {0} /\ sd \in Nat \ {0}
    BY <1>1, <2>1 DEF Positive
  <2>3. Times(q, r.unit.base) = Fraction(n, d)
    BY <1>1, <2>1, TimesWorth
  <2>4. Worth(Convert(q, r, line), n * sd, d * sn)
    BY <1>3, ConvertWorth
  <2>5. Times(Convert(q, r, line), line.unit.base) = Fraction((n * sd) * sn, (d * sn) * sd)
    BY <2>1, <2>4, TimesWorth
  <2> HIDE DEF n, d, sn, sd
  <2>6. /\ (n * sd) * sn \in Nat /\ (d * sn) * sd \in Nat \ {0}
        /\ ((n * sd) * sn) * d = n * ((d * sn) * sd)
    BY <2>2
  <2>7. Fraction((n * sd) * sn, (d * sn) * sd) = Fraction(n, d)
    BY <2>2, <2>6, FractionUnique
  <2> QED
    BY <1>3, <2>1, <2>3, <2>5, <2>7 DEF InBase
<1> QED
  BY <1>2, <1>3

(* Converting keeps the order.                                             *)
LEMMA ConvertAtMost ==
  ASSUME NEW line, NEW r, Takes(line, r), NEW p \in Ratio, NEW q \in Ratio
  PROVE  AtMost(Convert(p, r, line), Convert(q, r, line)) <=> AtMost(p, q)
<1>1. /\ p.num \in Nat /\ p.den \in Nat \ {0} /\ Worth(p, p.num, p.den)
      /\ q.num \in Nat /\ q.den \in Nat \ {0} /\ Worth(q, q.num, q.den)
  BY RatioWorth
<1>2. CASE r.unit = None
  <2>1. /\ Worth(Convert(p, r, line), p.num, p.den)
        /\ Worth(Convert(q, r, line), q.num, q.den)
    BY <1>2, ConvertWorth
  <2> QED
    BY <2>1, AtMostWorth DEF AtMost
<1>3. CASE r.unit # None
  <2> DEFINE pn == p.num
             pd == p.den
             qn == q.num
             qd == q.den
             rn == r.unit.base.num
             rd == r.unit.base.den
             sn == line.unit.base.num
             sd == line.unit.base.den
  <2>1. rn \in Nat \ {0} /\ rd \in Nat \ {0} /\ sn \in Nat \ {0} /\ sd \in Nat \ {0}
    BY <1>3 DEF Takes, Positive
  <2>2. /\ Worth(Convert(p, r, line), (pn * rn) * sd, (pd * rd) * sn)
        /\ Worth(Convert(q, r, line), (qn * rn) * sd, (qd * rd) * sn)
    BY <1>3, ConvertWorth
  <2>3. AtMost(Convert(p, r, line), Convert(q, r, line))
          <=> ((pn * rn) * sd) * ((qd * rd) * sn) <= ((qn * rn) * sd) * ((pd * rd) * sn)
    BY <2>2, AtMostWorth
  <2>4. AtMost(p, q) <=> pn * qd <= qn * pd
    BY DEF AtMost
  <2> HIDE DEF pn, pd, qn, qd, rn, rd, sn, sd
  <2>5. /\ ((pn * rn) * sd) * ((qd * rd) * sn) = ((rn * sd) * (rd * sn)) * (pn * qd)
        /\ ((qn * rn) * sd) * ((pd * rd) * sn) = ((rn * sd) * (rd * sn)) * (qn * pd)
    BY <1>1, <2>1 DEF pn, pd, qn, qd
  <2>6. (rn * sd) * (rd * sn) \in Nat \ {0} /\ pn * qd \in Int /\ qn * pd \in Int
    BY <1>1, <2>1 DEF pn, pd, qn, qd
  <2>7. ((rn * sd) * (rd * sn)) * (pn * qd) <= ((rn * sd) * (rd * sn)) * (qn * pd)
          <=> pn * qd <= qn * pd
    BY <2>6, Scale
  <2> QED
    BY <2>3, <2>4, <2>5, <2>7
<1> QED
  BY <1>2, <1>3

-----------------------------------------------------------------------------
(* Sums over requirements.                                                 *)

(* The sums f of the requirements in I, up to number k.                    *)
SumsTo(f, I, a, k) ==
  /\ f[0] = Fraction(0, 1)
  /\ \A n \in 1..k : f[n] = IF n \in I THEN Sum(f[n - 1], a[n]) ELSE f[n - 1]

LEMMA SumsExist ==
  ASSUME NEW I, NEW a
  PROVE  \A k \in Nat : \E f : SumsTo(f, I, a, k)
<1> DEFINE S == {k \in Nat : ~\E f : SumsTo(f, I, a, k)}
<1> SUFFICES ASSUME S # {} PROVE FALSE
  OBVIOUS
<1>1. PICK k \in S : \A j \in S : k <= j
  BY Least
<1>2. CASE k = 0
  <2>1. SumsTo([n \in Nat |-> Fraction(0, 1)], I, a, 0)
    BY DEF SumsTo
  <2> QED
    BY <1>1, <1>2, <2>1
<1>3. CASE k # 0
  <2>1. k - 1 \in Nat /\ k - 1 \notin S
    BY <1>1, <1>3
  <2>2. PICK f : SumsTo(f, I, a, k - 1)
    BY <2>1
  <2> DEFINE g == [n \in Nat |-> IF n = k
                                 THEN IF k \in I THEN Sum(f[k - 1], a[k]) ELSE f[k - 1]
                                 ELSE f[n]]
  <2>3. \A n \in 0..(k - 1) : g[n] = f[n]
    BY <1>1
  <2>4. g[k] = IF k \in I THEN Sum(g[k - 1], a[k]) ELSE g[k - 1]
    BY <2>1, <2>3
  <2> HIDE DEF g
  <2>5. \A n \in 1..k : n = k \/ (n \in 1..(k - 1) /\ n - 1 \in 0..(k - 1) /\ n \in 0..(k - 1))
    BY <1>1
  <2>6. SumsTo(g, I, a, k)
    BY <2>1, <2>2, <2>3, <2>4, <2>5 DEF SumsTo
  <2> QED
    BY <1>1, <2>6
<1> QED
  BY <1>2, <1>3

(* Sums agree as far as what they add does.                                *)
LEMMA SumsAgree ==
  ASSUME NEW I, NEW a, NEW J, NEW b, NEW k \in Nat, NEW f, NEW g,
         \A n \in 1..k : (n \in I <=> n \in J) /\ (n \in I => a[n] = b[n]),
         SumsTo(f, I, a, k), SumsTo(g, J, b, k)
  PROVE  \A n \in 0..k : f[n] = g[n]
<1> DEFINE S == {n \in 0..k : f[n] # g[n]}
<1> SUFFICES ASSUME S # {} PROVE FALSE
  OBVIOUS
<1>1. S \in SUBSET Nat
  OBVIOUS
<1>2. PICK n \in S : \A m \in S : n <= m
  BY <1>1, Least
<1>3. n # 0
  BY <1>2 DEF SumsTo
<1>4. n \in 1..k /\ n - 1 \in 0..k /\ n - 1 \notin S
  BY <1>2, <1>3
<1>5. f[n - 1] = g[n - 1]
  BY <1>4
<1>6. f[n] = g[n]
  BY <1>4, <1>5 DEF SumsTo
<1> QED
  BY <1>2, <1>6

(* The recursive definition of PartialSums has the function it describes.  *)
LEMMA PartialSumsAdd ==
  ASSUME NEW I, NEW a, NEW k \in Nat
  PROVE  SumsTo(PartialSums(I, a), I, a, k)
<1> DEFINE F(n) == CHOOSE f : SumsTo(f, I, a, n)
           h == [n \in Nat |-> F(n)[n]]
           Step(f) == [n \in Nat |-> IF n = 0 THEN Fraction(0, 1)
                                     ELSE IF n \in I THEN Sum(f[n - 1], a[n]) ELSE f[n - 1]]
<1>1. \A n \in Nat : SumsTo(F(n), I, a, n)
  BY SumsExist
<1> HIDE DEF F
<1>2. h[0] = Fraction(0, 1)
  BY <1>1 DEF SumsTo
<1>3. ASSUME NEW n \in Nat \ {0}
      PROVE  h[n] = IF n \in I THEN Sum(h[n - 1], a[n]) ELSE h[n - 1]
  <2>1. n \in Nat /\ n - 1 \in Nat /\ n \in 1..n
    OBVIOUS
  <2>2. SumsTo(F(n), I, a, n) /\ SumsTo(F(n - 1), I, a, n - 1)
    BY <1>1, <2>1
  <2>3. SumsTo(F(n), I, a, n - 1)
    BY <2>2 DEF SumsTo
  <2>4. F(n)[n - 1] = F(n - 1)[n - 1]
    BY <2>1, <2>2, <2>3, SumsAgree
  <2> QED
    BY <2>1, <2>2, <2>4 DEF SumsTo
<1>4. h = Step(h)
  BY <1>2, <1>3
<1>5. PartialSums(I, a) = CHOOSE f : f = Step(f)
  BY DEF PartialSums
<1> HIDE DEF h
<1>6. PartialSums(I, a) = Step(PartialSums(I, a))
  BY <1>4, <1>5
<1> QED
  BY <1>6 DEF SumsTo

-----------------------------------------------------------------------------
(* Requirements and their keys.                                            *)

Kinds == {"unspecified", "exact", "range"}

LEMMA RequirementFacts ==
  ASSUME NEW r \in Requirement
  PROVE  /\ r.mode \in {"measured", "counted", "presence-only"} /\ r.kind \in Kinds
         /\ r.optional \in BOOLEAN
         /\ r.kind # "unspecified" =>
              /\ r.unit = None <=> r.package # None
              /\ r.min \in Ratio /\ High(r) \in Ratio /\ AtMost(r.min, High(r))
         /\ r.unit # None => r.unit.base \in Positive
<1>1. /\ r.mode \in {"measured", "counted", "presence-only"} /\ r.kind \in Kinds
      /\ r.optional \in BOOLEAN
      /\ {r.min, r.max} \subseteq Ratio \cup {None}
      /\ r.unit # None => r.unit.base \in [num : Nat \ {0}, den : Nat \ {0}]
      /\ r.kind = "exact" => r.min # None
      /\ r.kind = "range" => r.min # None /\ r.max # None /\ AtMost(r.min, r.max)
      /\ r.kind # "unspecified" => (r.unit = None <=> r.package # None)
  BY RequirementAssumption DEF Kinds
<1>2. r.kind # "unspecified" => r.min \in Ratio /\ High(r) \in Ratio
  BY <1>1 DEF High, Kinds
<1>3. r.kind # "unspecified" => AtMost(r.min, High(r))
  <2>1. CASE r.kind = "range"
    BY <1>1, <2>1 DEF High
  <2>2. CASE r.kind = "exact"
    BY <1>2, <2>2 DEF High, AtMost, Ratio
  <2> QED
    BY <1>1, <2>1, <2>2 DEF Kinds
<1> QED
  BY <1>1, <1>2, <1>3 DEF Positive

LEMMA KeyIs ==
  ASSUME NEW r \in Requirement, NEW n
  PROVE  /\ r.mode = "presence-only" => AggregationKey(r, n) = <<r.item, "presence">>
         /\ r.mode # "presence-only" /\ r.kind = "unspecified" =>
              AggregationKey(r, n) = <<r.item, "unspecified", n>>
         /\ r.mode # "presence-only" /\ r.kind # "unspecified" =>
              IF r.package # None THEN AggregationKey(r, n) = <<r.item, "package", r.package>>
              ELSE IF r.unit.dimension # "count"
                   THEN AggregationKey(r, n) = <<r.item, "dimension", r.unit.dimension>>
                   ELSE AggregationKey(r, n) = <<r.item, "unit", r.unit.key>>
<1>1. /\ r.kind = "unspecified" => r.package = None /\ r.unit = None
      /\ r.kind # "unspecified" => (r.unit = None <=> r.package # None)
  BY RequirementAssumption
<1> QED
  BY <1>1 DEF AggregationKey

(* Two requirements have one key exactly when they may be combined.        *)
LEMMA KeysAgree ==
  ASSUME NEW r \in Requirement, NEW s \in Requirement, NEW m, NEW n, m # n
  PROVE  AggregationKey(r, m) = AggregationKey(s, n) <=> Combinable(r, s)
<1> DEFINE j == AggregationKey(r, m)
           k == AggregationKey(s, n)
<1>1. /\ r.item = s.item => r.mode = s.mode
      /\ None \notin {r.unit, s.unit} /\ r.unit.key = s.unit.key => r.unit = s.unit
      /\ r.kind # "unspecified" => (r.unit = None <=> r.package # None)
      /\ s.kind # "unspecified" => (s.unit = None <=> s.package # None)
  BY RequirementAssumption
<1>2. CASE r.mode = "presence-only" \/ s.mode = "presence-only"
  <2>1. CASE r.mode = "presence-only" /\ s.mode = "presence-only"
    BY <2>1, KeyIs DEF Combinable
  <2>2. CASE r.mode = "presence-only" /\ s.mode # "presence-only"
    <3>1. j[2] = "presence"
      BY <2>2, KeyIs
    <3>2. k[2] \in {"unspecified", "package", "dimension", "unit"}
      BY <2>2, KeyIs
    <3> QED
      BY <2>2, <3>1, <3>2 DEF Combinable
  <2>3. CASE r.mode # "presence-only" /\ s.mode = "presence-only"
    <3>1. k[2] = "presence"
      BY <2>3, KeyIs
    <3>2. j[2] \in {"unspecified", "package", "dimension", "unit"}
      BY <2>3, KeyIs
    <3> QED
      BY <2>3, <3>1, <3>2 DEF Combinable
  <2> QED
    BY <1>2, <2>1, <2>2, <2>3
<1>3. CASE r.mode # "presence-only" /\ s.mode # "presence-only"
  <2>1. CASE r.kind = "unspecified" \/ s.kind = "unspecified"
    <3>1. ~Combinable(r, s)
      BY <1>3, <2>1 DEF Combinable
    <3>2. j # k
      <4>1. r.kind = "unspecified" => j[2] = "unspecified" /\ j[3] = m
        BY <1>3, KeyIs
      <4>2. s.kind = "unspecified" => k[2] = "unspecified" /\ k[3] = n
        BY <1>3, KeyIs
      <4>3. r.kind # "unspecified" => j[2] \in {"package", "dimension", "unit"}
        BY <1>3, KeyIs
      <4>4. s.kind # "unspecified" => k[2] \in {"package", "dimension", "unit"}
        BY <1>3, KeyIs
      <4> QED
        BY <2>1, <4>1, <4>2, <4>3, <4>4
    <3> QED
      BY <3>1, <3>2
  <2>2. CASE r.kind # "unspecified" /\ s.kind # "unspecified"
    <3>1. /\ j[1] = r.item
          /\ r.package # None => j[2] = "package" /\ j[3] = r.package
          /\ r.package = None /\ r.unit.dimension # "count" =>
               j[2] = "dimension" /\ j[3] = r.unit.dimension
          /\ r.package = None /\ r.unit.dimension = "count" => j[2] = "unit" /\ j[3] = r.unit.key
      BY <1>3, <2>2, KeyIs
    <3>2. /\ k[1] = s.item
          /\ s.package # None => k[2] = "package" /\ k[3] = s.package
          /\ s.package = None /\ s.unit.dimension # "count" =>
               k[2] = "dimension" /\ k[3] = s.unit.dimension
          /\ s.package = None /\ s.unit.dimension = "count" => k[2] = "unit" /\ k[3] = s.unit.key
      BY <1>3, <2>2, KeyIs
    <3>3. j = <<j[1], j[2], j[3]>> /\ k = <<k[1], k[2], k[3]>>
      BY <1>3, <2>2, KeyIs
    <3> HIDE DEF j, k
    <3>4. j = k <=> j[1] = k[1] /\ j[2] = k[2] /\ j[3] = k[3]
      BY <3>3
    <3>5. Combinable(r, s) <=>
            /\ r.item = s.item /\ r.package = s.package
            /\ r.package = None =>
                 /\ r.unit.dimension = s.unit.dimension
                 /\ r.unit.dimension = "count" => r.unit = s.unit
      BY <1>1, <1>3, <2>2 DEF Combinable
    <3> QED
      BY <1>1, <2>2, <3>1, <3>2, <3>4, <3>5 DEF j, k
  <2> QED
    BY <2>1, <2>2
<1> QED
  BY <1>2, <1>3

(* A line that agrees with a requirement agrees with all it may be         *)
(* combined with.                                                          *)
LEMMA AgreesWithAll ==
  ASSUME NEW r \in Requirement, NEW s \in Requirement, Combinable(r, s), NEW line,
         Agrees(line, r)
  PROVE  Agrees(line, s)
<1>1. /\ r.kind # "unspecified" => (r.unit = None <=> r.package # None)
      /\ s.kind # "unspecified" => (s.unit = None <=> s.package # None)
  BY RequirementAssumption
<1>2. CASE r.mode = "presence-only"
  BY <1>2 DEF Agrees, Combinable
<1>3. CASE r.mode # "presence-only"
  <2>1. /\ s.mode # "presence-only" /\ r.kind # "unspecified" /\ s.kind # "unspecified"
        /\ r.package = s.package
        /\ r.package = None => r.unit.dimension = s.unit.dimension
    BY <1>3 DEF Combinable
  <2> QED
    BY <1>1, <1>3, <2>1 DEF Agrees
<1> QED
  BY <1>2, <1>3

LEMMA CombinableBack ==
  ASSUME NEW r \in Requirement, NEW s \in Requirement, Combinable(r, s)
  PROVE  Combinable(s, r)
BY DEF Combinable

-----------------------------------------------------------------------------
(* One requirement.                                                        *)

(* The line that is open for requirement r, the n-th.                      *)
OpenFor(opened, index, r, n) ==
  /\ opened \in Seq(Line) /\ index \in DOMAIN opened
  /\ opened[index].key = AggregationKey(r, n)
  /\ \A i, j \in DOMAIN opened : opened[i].key = opened[j].key => i = j
  /\ DOMAIN lines \subseteq DOMAIN opened /\ DOMAIN opened \subseteq DOMAIN lines \cup {index}
  /\ \A i \in DOMAIN lines : opened[i] = lines[i]
  /\ opened[index].contributions
       = {m \in DOMAIN taken : AggregationKey(taken[m], m) = AggregationKey(r, n)}
  /\ opened[index].optional <=> \A m \in opened[index].contributions : taken[m].optional
  /\ \/ opened[index] = NewLine(r, n) /\ index \notin DOMAIN lines
     \/ index \in DOMAIN lines /\ Agrees(opened[index], r)

LEMMA NewLineType ==
  ASSUME NEW r \in Requirement, NEW n \in 1..MaxTaken
  PROVE  NewLine(r, n) \in Line
<1>1. r.kind \in Kinds
  BY RequirementFacts
<1>2. /\ r.unit \in {q.unit : q \in Requirement} \cup {None}
      /\ r.package \in {q.package : q \in Requirement} \cup {None}
      /\ AggregationKey(r, n) \in {AggregationKey(q, m) : q \in Requirement, m \in 1..MaxTaken}
  OBVIOUS
<1> QED
  BY <1>1, <1>2 DEF NewLine, Line, Kinds

LEMMA LineIsOpen ==
  ASSUME AggregateInvariant, error = None, NEW r \in Requirement, Len(taken) < MaxTaken
  PROVE  LET n == Len(taken) + 1
             opened == Opened(r, n)
         IN  OpenFor(opened, IndexOf(opened, AggregationKey(r, n)), r, n)
<1> DEFINE n == Len(taken) + 1
           key == AggregationKey(r, n)
           opened == Opened(r, n)
           index == IndexOf(opened, key)
<1>1. /\ taken \in Seq(Requirement) /\ lines \in Seq(Line) /\ n \in 1..MaxTaken
      /\ DOMAIN taken = 1..Len(taken) /\ n \notin DOMAIN taken
      /\ DOMAIN lines = 1..Len(lines) /\ Len(lines) \in Nat
  BY RequirementAssumption DEF AggregateInvariant, TypeOK
<1>2. CASE \E i \in DOMAIN lines : lines[i].key = key
  <2>1. opened = lines
    BY <1>2 DEF Opened
  <2>2. PICK i \in DOMAIN lines : lines[i].key = key
    BY <1>2
  <2>3. index = i
    BY <2>1, <2>2 DEF IndexOf, AggregateInvariant
  <2>4. /\ lines[i].contributions = {m \in DOMAIN taken : AggregationKey(taken[m], m) = key}
        /\ lines[i].contributions # {}
        /\ \A m \in lines[i].contributions : Agrees(lines[i], taken[m])
        /\ lines[i].optional <=> \A m \in lines[i].contributions : taken[m].optional
        /\ \A j, k \in DOMAIN lines : lines[j].key = lines[k].key => j = k
    BY <2>2 DEF AggregateInvariant
  <2>5. PICK m \in DOMAIN taken : AggregationKey(taken[m], m) = key /\ Agrees(lines[i], taken[m])
    BY <2>4
  <2>6. taken[m] \in Requirement /\ m # n
    BY <1>1
  <2>7. Agrees(lines[i], r)
    BY <2>5, <2>6, KeysAgree, AgreesWithAll
  <2> HIDE DEF n, key, opened, index
  <2>8. OpenFor(opened, index, r, n)
    BY <1>1, <2>1, <2>2, <2>3, <2>4, <2>7 DEF OpenFor, key
  <2> QED
    BY <2>8 DEF n, key, opened, index
<1>3. CASE ~\E i \in DOMAIN lines : lines[i].key = key
  <2> DEFINE line == NewLine(r, n)
             last == Len(lines) + 1
  <2>1. opened = Append(lines, line) /\ line \in Line
    BY <1>1, <1>3, NewLineType DEF Opened
  <2>2. line.key = key /\ line.contributions = {} /\ line.optional = TRUE
    BY DEF NewLine
  <2> HIDE DEF line, n, key
  <2>3. /\ opened \in Seq(Line) /\ DOMAIN opened = 1..last /\ last \notin DOMAIN lines
        /\ opened[last] = line /\ \A i \in DOMAIN lines : opened[i] = lines[i]
        /\ DOMAIN opened = DOMAIN lines \cup {last}
    BY <1>1, <2>1
  <2> HIDE DEF opened, last
  <2>4. index = last
    BY <1>3, <2>2, <2>3 DEF IndexOf
  <2>5. \A i, j \in DOMAIN opened : opened[i].key = opened[j].key => i = j
    BY <1>3, <2>2, <2>3 DEF AggregateInvariant
  <2>6. {m \in DOMAIN taken : AggregationKey(taken[m], m) = key} = {}
    BY <1>3 DEF AggregateInvariant
  <2> HIDE DEF index
  <2>7. OpenFor(opened, index, r, n)
    BY <2>2, <2>3, <2>4, <2>5, <2>6 DEF OpenFor, key, line
  <2> QED
    BY <2>7 DEF n, key, opened, index
<1> QED
  BY <1>2, <1>3

(* The line l with requirement r, the n-th, added.                         *)
Added(l, r, n, new) ==
  /\ new \in Line /\ Agrees(new, r)
  /\ new.key = l.key /\ new.contributions = l.contributions \cup {n}
  /\ new.optional <=> l.optional /\ r.optional
  /\ new.unit = l.unit
  /\ new.kind \in {"exact", "range"} =>
       /\ Takes(new, r) /\ r.kind # "unspecified"
       /\ new.min = Plus(l.min, Convert(r.min, r, new))
       /\ new.max = Plus(l.max, Convert(High(r), r, new))

LEMMA ExtendedLine ==
  ASSUME NEW l \in Line, NEW r \in Requirement, NEW n \in 1..MaxTaken
  PROVE  LET line == Extended(l, r, n)
         IN  /\ line \in Line /\ line.contributions = l.contributions \cup {n}
             /\ line.optional <=> l.optional /\ r.optional
             /\ line.key = l.key /\ line.kind = l.kind /\ line.unit = l.unit
             /\ line.package = l.package /\ line.min = l.min /\ line.max = l.max
<1> DEFINE keys == {AggregationKey(q, m) : q \in Requirement, m \in 1..MaxTaken}
           units == {q.unit : q \in Requirement} \cup {None}
           packages == {q.package : q \in Requirement} \cup {None}
           amounts == Ratio \cup {None}
           optional == l.optional /\ r.optional
           contributions == l.contributions \cup {n}
<1>1. Line = [key : keys, optional : BOOLEAN, contributions : SUBSET (1..MaxTaken),
              kind : {"presence", "unspecified", "exact", "range"},
              unit : units, package : packages, min : amounts, max : amounts]
  BY DEF Line
<1> HIDE DEF keys, units, packages, amounts
<1>2. contributions \in SUBSET (1..MaxTaken)
  BY <1>1
<1>3. optional \in BOOLEAN
  OBVIOUS
<1>4. Extended(l, r, n) = [l EXCEPT !.optional = optional, !.contributions = contributions]
  BY DEF Extended
<1> HIDE DEF optional, contributions
<1>5. /\ Extended(l, r, n) \in Line /\ Extended(l, r, n).optional = optional
      /\ Extended(l, r, n).contributions = contributions
  BY <1>1, <1>2, <1>3, <1>4
<1>6. LET line == Extended(l, r, n)
      IN  /\ line.key = l.key /\ line.kind = l.kind /\ line.unit = l.unit
          /\ line.package = l.package /\ line.min = l.min /\ line.max = l.max
  BY <1>1, <1>4
<1> QED
  BY <1>5, <1>6 DEF optional, contributions

LEMMA LineUnit ==
  ASSUME NEW l \in Line, l.unit # None
  PROVE  l.unit.base \in Positive
<1>1. PICK r \in Requirement : l.unit = r.unit
  BY DEF Line
<1> QED
  BY <1>1, RequirementFacts

LEMMA TotalledType ==
  ASSUME NEW l \in Line, NEW low, NEW high,
         Plus(l.min, low) \in Ratio, Plus(l.max, high) \in Ratio
  PROVE  LET new == Totalled(l, low, high)
             min == Plus(l.min, low)
             max == Plus(l.max, high)
         IN  /\ new \in Line /\ new.key = l.key /\ new.optional = l.optional
             /\ new.contributions = l.contributions /\ new.unit = l.unit
             /\ new.package = l.package /\ new.min = min /\ new.max = max
             /\ new.kind = IF min = max THEN "exact" ELSE "range"
<1> DEFINE keys == {AggregationKey(q, m) : q \in Requirement, m \in 1..MaxTaken}
           units == {q.unit : q \in Requirement} \cup {None}
           packages == {q.package : q \in Requirement} \cup {None}
           amounts == Ratio \cup {None}
           min == Plus(l.min, low)
           max == Plus(l.max, high)
           kind == IF min = max THEN "exact" ELSE "range"
<1>1. Line = [key : keys, optional : BOOLEAN, contributions : SUBSET (1..MaxTaken),
              kind : {"presence", "unspecified", "exact", "range"},
              unit : units, package : packages, min : amounts, max : amounts]
  BY DEF Line
<1>2. min \in amounts /\ max \in amounts
  OBVIOUS
<1>3. kind \in {"exact", "range"}
  OBVIOUS
<1>4. Totalled(l, low, high) = [l EXCEPT !.min = min, !.max = max, !.kind = kind]
  BY DEF Totalled
<1> HIDE DEF keys, units, packages, amounts, min, max, kind
<1>5. /\ Totalled(l, low, high) \in Line /\ Totalled(l, low, high).min = min
      /\ Totalled(l, low, high).max = max /\ Totalled(l, low, high).kind = kind
  BY <1>1, <1>2, <1>3, <1>4
<1>6. LET new == Totalled(l, low, high)
      IN  /\ new.key = l.key /\ new.optional = l.optional
          /\ new.contributions = l.contributions /\ new.unit = l.unit
          /\ new.package = l.package
  BY <1>1, <1>4
<1> QED
  BY <1>5, <1>6 DEF min, max, kind

(* A numeric requirement adds to a line that agrees with it.               *)
LEMMA TotalledLine ==
  ASSUME NEW l \in Line, NEW r \in Requirement, NEW n \in 1..MaxTaken,
         r.mode # "presence-only", r.kind # "unspecified",
         l = NewLine(r, n) \/ Agrees(l, r)
  PROVE  LET line == Extended(l, r, n)
             low  == Convert(r.min, r, line)
             high == IF r.kind = "range" THEN Convert(r.max, r, line) ELSE low
         IN  Compatible(r, line) /\ Added(l, r, n, Totalled(line, low, high))
<1> DEFINE line == Extended(l, r, n)
           low  == Convert(r.min, r, line)
           high == IF r.kind = "range" THEN Convert(r.max, r, line) ELSE low
           new  == Totalled(line, low, high)
<1>1. /\ line \in Line /\ line.contributions = l.contributions \cup {n}
      /\ line.optional <=> l.optional /\ r.optional
      /\ line.key = l.key /\ line.kind = l.kind /\ line.unit = l.unit
      /\ line.package = l.package /\ line.min = l.min /\ line.max = l.max
  BY ExtendedLine
<1>2. /\ r.unit = None <=> r.package # None
      /\ r.min \in Ratio /\ High(r) \in Ratio /\ AtMost(r.min, High(r))
      /\ r.unit # None => r.unit.base \in Positive
  BY RequirementFacts
<1>3. /\ l.package = r.package /\ (l.unit = None <=> r.unit = None)
      /\ l.unit # None => l.unit.dimension = r.unit.dimension
      /\ \/ l.min = None /\ l.max = None
         \/ Reduced(l.min) /\ Reduced(l.max) /\ AtMost(l.min, l.max)
  BY DEF NewLine, Agrees
<1>4. Compatible(r, line)
  BY <1>1, <1>2, <1>3 DEF Compatible
<1>5. Takes(line, r)
  BY <1>1, <1>2, <1>3, LineUnit DEF Takes
<1>6. high = Convert(High(r), r, line)
  BY DEF High
<1>7. Reduced(low) /\ Reduced(high) /\ AtMost(low, high)
  BY <1>2, <1>5, <1>6, ConvertWorth, ConvertAtMost
<1> HIDE DEF line, low, high
<1> DEFINE min == Plus(line.min, low)
           max == Plus(line.max, high)
<1>8. Reduced(min) /\ Reduced(max) /\ AtMost(min, max)
  <2>1. CASE l.min = None /\ l.max = None
    BY <1>1, <1>7, <2>1 DEF Plus
  <2>2. CASE l.min \in Ratio /\ l.max \in Ratio /\ AtMost(l.min, l.max)
    <3>1. low \in Ratio /\ high \in Ratio
      BY <1>7 DEF Reduced
    <3>2. Reduced(Sum(l.min, low)) /\ Reduced(Sum(l.max, high))
      BY <2>2, <3>1, RatioWorth, SumWorth
    <3>3. AtMost(Sum(l.min, low), Sum(l.max, high))
      BY <1>7, <2>2, <3>1, SumAtMost
    <3> QED
      BY <1>1, <2>2, <3>2, <3>3, RequirementAssumption DEF Plus
  <2> QED
    BY <1>3, <2>1, <2>2 DEF Reduced
<1>9. /\ new \in Line /\ new.key = line.key /\ new.optional = line.optional
      /\ new.contributions = line.contributions /\ new.unit = line.unit
      /\ new.package = line.package /\ new.min = min /\ new.max = max
      /\ new.kind = IF min = max THEN "exact" ELSE "range"
  <2>1. min \in Ratio /\ max \in Ratio
    BY <1>8 DEF Reduced
  <2> QED
    BY <1>1, <2>1, TotalledType DEF min, max
<1> HIDE DEF min, max, new
<1>10. Agrees(new, r)
  BY <1>1, <1>3, <1>8, <1>9 DEF Agrees
<1>11. Takes(new, r) /\ \A q : Convert(q, r, new) = Convert(q, r, line)
  BY <1>5, <1>9 DEF Takes, Convert
<1>12. Added(l, r, n, new)
  BY <1>1, <1>6, <1>9, <1>10, <1>11 DEF Added, min, max, low
<1> QED
  BY <1>4, <1>12 DEF line, low, high, new

(* A requirement without an amount leaves its line without one.            *)
LEMMA PlainLine ==
  ASSUME NEW l \in Line, NEW r \in Requirement, NEW n \in 1..MaxTaken,
         l.kind = "presence" \/ r.kind = "unspecified",
         l = NewLine(r, n) \/ Agrees(l, r)
  PROVE  Added(l, r, n, Extended(l, r, n))
<1> DEFINE new == Extended(l, r, n)
<1>1. /\ new \in Line /\ new.contributions = l.contributions \cup {n}
      /\ new.optional <=> l.optional /\ r.optional
      /\ new.key = l.key /\ new.kind = l.kind /\ new.unit = l.unit
      /\ new.package = l.package /\ new.min = l.min /\ new.max = l.max
  BY ExtendedLine
<1>2. /\ {l.min, l.max, l.unit, l.package} = {None}
      /\ \/ r.mode = "presence-only" /\ l.kind = "presence"
         \/ r.mode # "presence-only" /\ r.kind = "unspecified" /\ l.kind = "unspecified"
  <2>1. CASE l = NewLine(r, n)
    <3>1. r.kind = "unspecified" => r.unit = None /\ r.package = None
      BY RequirementAssumption
    <3>2. r.kind # "presence"
      BY RequirementFacts DEF Kinds
    <3> QED
      BY <2>1, <3>1, <3>2 DEF NewLine
  <2>2. CASE Agrees(l, r)
    BY <2>2 DEF Agrees
  <2> QED
    BY <2>1, <2>2
<1> HIDE DEF new
<1>3. Agrees(new, r)
  BY <1>1, <1>2 DEF Agrees
<1>4. new.kind \notin {"exact", "range"}
  BY <1>1, <1>2
<1>5. Added(l, r, n, new)
  BY <1>1, <1>3, <1>4 DEF Added
<1> QED
  BY <1>5 DEF new

(* Take fails for the width of integers only, or adds the requirement.     *)
LEMMA TakeAdds ==
  ASSUME AggregateInvariant, NEW r \in Requirement, Take(r)
  PROVE  LET n == Len(taken) + 1
             opened == Opened(r, n)
             index == IndexOf(opened, AggregationKey(r, n))
         IN  /\ error = None /\ taken' = Append(taken, r) /\ n \in 1..MaxTaken
             /\ OpenFor(opened, index, r, n)
             /\ \/ error' = "overflow" /\ lines' = <<>>
                \/ /\ error' = error
                   /\ \E new : /\ Added(opened[index], r, n, new)
                               /\ lines' = [opened EXCEPT ![index] = new]
<1> DEFINE n == Len(taken) + 1
           opened == Opened(r, n)
           index == IndexOf(opened, AggregationKey(r, n))
           l == opened[index]
           line == Extended(l, r, n)
           low == Convert(r.min, r, line)
           high == IF r.kind = "range" THEN Convert(r.max, r, line) ELSE low
           sums == {low, high, Plus(line.min, low), Plus(line.max, high)}
<1>1. error = None /\ taken' = Append(taken, r) /\ Len(taken) < MaxTaken
  BY DEF Take
<1>2. n \in 1..MaxTaken
  BY <1>1, RequirementAssumption DEF AggregateInvariant, TypeOK
<1>3. OpenFor(opened, index, r, n)
  BY <1>1, LineIsOpen
<1>4. IF line.kind = "presence" \/ r.kind = "unspecified" THEN Put(opened, index, line)
      ELSE IF ~Compatible(r, line) THEN Fail("incompatible units")
      ELSE IF \E q \in sums : ~Fits(q) THEN Fail("overflow")
      ELSE Put(opened, index, Totalled(line, low, high))
  BY DEF Take
<1> HIDE DEF n, opened, index, sums
<1>5. l \in Line /\ (l = NewLine(r, n) \/ Agrees(l, r))
  BY <1>3 DEF OpenFor
<1> HIDE DEF l
<1>6. line.kind = l.kind
  BY <1>2, <1>5, ExtendedLine
<1>7. CASE line.kind = "presence" \/ r.kind = "unspecified"
  <2>1. Added(l, r, n, line)
    BY <1>2, <1>5, <1>6, <1>7, PlainLine
  <2>2. error' = error /\ lines' = [opened EXCEPT ![index] = line]
    BY <1>4, <1>7 DEF Put
  <2> QED
    BY <1>1, <1>2, <1>3, <2>1, <2>2 DEF n, opened, index, l
<1>8. CASE ~(line.kind = "presence" \/ r.kind = "unspecified")
  <2>1. r.mode # "presence-only"
    BY <1>5, <1>6, <1>8 DEF NewLine, Agrees
  <2>2. Compatible(r, line) /\ Added(l, r, n, Totalled(line, low, high))
    BY <1>2, <1>5, <1>8, <2>1, TotalledLine
  <2> HIDE DEF line, low, high
  <2>3. CASE \E q \in sums : ~Fits(q)
    <3>1. error' = "overflow" /\ lines' = <<>>
      BY <1>4, <1>8, <2>2, <2>3 DEF Fail
    <3> QED
      BY <1>1, <1>2, <1>3, <3>1 DEF n, opened, index
  <2>4. CASE ~\E q \in sums : ~Fits(q)
    <3>1. error' = error /\ lines' = [opened EXCEPT ![index] = Totalled(line, low, high)]
      BY <1>4, <1>8, <2>2, <2>4 DEF Put
    <3> QED
      BY <1>1, <1>2, <1>3, <2>2, <3>1 DEF n, opened, index, l
  <2> QED
    BY <2>3, <2>4
<1> QED
  BY <1>7, <1>8

-----------------------------------------------------------------------------
(* The invariant.                                                          *)

(* What the requirements are after one more.                               *)
LEMMA TakenMore ==
  ASSUME TypeOK, NEW r \in Requirement, Len(taken) + 1 \in 1..MaxTaken, taken' = Append(taken, r)
  PROVE  LET n == Len(taken) + 1
         IN  /\ taken' \in Seq(Requirement) /\ Len(taken') = n /\ Len(taken') <= MaxTaken
             /\ DOMAIN taken = 1..(n - 1) /\ DOMAIN taken' = DOMAIN taken \cup {n}
             /\ n \notin DOMAIN taken /\ taken'[n] = r
             /\ \A m \in DOMAIN taken : taken'[m] = taken[m] /\ taken[m] \in Requirement /\ m # n
BY RequirementAssumption DEF TypeOK

LEMMA TakeKeeps ==
  ASSUME AggregateInvariant, NEW r \in Requirement, Take(r)
  PROVE  AggregateInvariant'
<1> DEFINE n == Len(taken) + 1
           key == AggregationKey(r, n)
           opened == Opened(r, n)
           index == IndexOf(opened, key)
           l == opened[index]
<1>1. /\ error = None /\ taken' = Append(taken, r) /\ n \in 1..MaxTaken
      /\ OpenFor(opened, index, r, n)
      /\ \/ error' = "overflow" /\ lines' = <<>>
         \/ /\ error' = error
            /\ \E new : Added(l, r, n, new) /\ lines' = [opened EXCEPT ![index] = new]
  BY TakeAdds
<1>2. TypeOK
  BY DEF AggregateInvariant
<1>3. /\ taken' \in Seq(Requirement) /\ Len(taken') <= MaxTaken
      /\ DOMAIN taken' = DOMAIN taken \cup {n}
      /\ n \notin DOMAIN taken /\ taken'[n] = r
      /\ \A m \in DOMAIN taken : taken'[m] = taken[m] /\ taken[m] \in Requirement /\ m # n
  BY <1>1, <1>2, TakenMore
<1> HIDE DEF n, key, opened, index
<1>4. CASE error' = "overflow" /\ lines' = <<>>
  <2>1. TypeOK'
    BY <1>3, <1>4 DEF TypeOK
  <2>2. error' # None
    BY <1>4, NoneAssumption
  <2>3. DOMAIN lines' = {}
    BY <1>4
  <2> QED
    BY <1>4, <2>1, <2>2, <2>3 DEF AggregateInvariant
<1>5. CASE error' = error /\ \E new : Added(l, r, n, new) /\ lines' = [opened EXCEPT ![index] = new]
  <2>1. PICK new : Added(l, r, n, new) /\ lines' = [opened EXCEPT ![index] = new]
    BY <1>5
  <2>2. /\ opened \in Seq(Line) /\ index \in DOMAIN opened /\ l.key = key
        /\ \A i, j \in DOMAIN opened : opened[i].key = opened[j].key => i = j
        /\ DOMAIN lines \subseteq DOMAIN opened /\ DOMAIN opened \subseteq DOMAIN lines \cup {index}
        /\ \A i \in DOMAIN lines : opened[i] = lines[i]
        /\ l.contributions = {m \in DOMAIN taken : AggregationKey(taken[m], m) = key}
        /\ l.optional <=> \A m \in l.contributions : taken[m].optional
    BY <1>1 DEF OpenFor, key
  <2>3. /\ new \in Line /\ Agrees(new, r) /\ new.key = key
        /\ new.contributions = l.contributions \cup {n}
        /\ new.optional <=> l.optional /\ r.optional
    BY <2>1, <2>2 DEF Added
  <2> HIDE DEF l
  <2>4. /\ lines' \in Seq(Line) /\ DOMAIN lines' = DOMAIN opened /\ lines'[index] = new
        /\ \A i \in DOMAIN opened \ {index} : lines'[i] = opened[i]
    BY <2>1, <2>2, <2>3
  <2>5. \A i \in DOMAIN lines' : lines'[i].key = opened[i].key
    BY <2>2, <2>3, <2>4 DEF l
  <2>6. \A i, j \in DOMAIN lines' : lines'[i].key = lines'[j].key => i = j
    BY <2>2, <2>4, <2>5
  <2>7. ASSUME NEW i \in DOMAIN lines'
        PROVE  /\ lines'[i].contributions
                    = {m \in DOMAIN taken' : AggregationKey(taken'[m], m) = lines'[i].key}
               /\ lines'[i].contributions # {}
               /\ \A m \in lines'[i].contributions : Agrees(lines'[i], taken'[m])
               /\ lines'[i].optional <=> \A m \in lines'[i].contributions : taken'[m].optional
    <3>1. CASE i = index
      <4>1. lines'[i] = new
        BY <2>4, <3>1
      <4>2. new.contributions = {m \in DOMAIN taken' : AggregationKey(taken'[m], m) = key}
        BY <1>3, <2>2, <2>3 DEF key
      <4>3. ASSUME NEW m \in l.contributions
            PROVE  Agrees(new, taken[m])
        <5>1. m \in DOMAIN taken /\ AggregationKey(taken[m], m) = key
          BY <2>2
        <5>2. taken[m] \in Requirement /\ m # n
          BY <1>3, <5>1
        <5>3. Combinable(taken[m], r)
          BY <5>1, <5>2, KeysAgree DEF key
        <5>4. Combinable(r, taken[m])
          BY <5>2, <5>3, CombinableBack
        <5> QED
          BY <2>3, <5>2, <5>4, AgreesWithAll
      <4>4. \A m \in new.contributions : Agrees(new, taken'[m])
        BY <1>3, <2>2, <2>3, <4>3
      <4>5. new.optional <=> \A m \in new.contributions : taken'[m].optional
        BY <1>3, <2>2, <2>3
      <4> QED
        BY <2>3, <4>1, <4>2, <4>4, <4>5
    <3>2. CASE i # index
      <4>1. i \in DOMAIN lines /\ lines'[i] = lines[i] /\ lines[i].key # key
        BY <2>2, <2>4, <3>2 DEF l
      <4>2. /\ lines[i].contributions
                 = {m \in DOMAIN taken : AggregationKey(taken[m], m) = lines[i].key}
            /\ lines[i].contributions # {}
            /\ \A m \in lines[i].contributions : Agrees(lines[i], taken[m])
            /\ lines[i].optional <=> \A m \in lines[i].contributions : taken[m].optional
        BY <4>1 DEF AggregateInvariant
      <4>3. AggregationKey(taken'[n], n) # lines[i].key
        BY <1>3, <4>1 DEF key
      <4>4. lines[i].contributions
              = {m \in DOMAIN taken' : AggregationKey(taken'[m], m) = lines[i].key}
        BY <1>3, <4>2, <4>3
      <4>5. \A m \in lines[i].contributions : taken'[m] = taken[m]
        BY <1>3, <4>2
      <4> QED
        BY <4>1, <4>2, <4>4, <4>5
    <3> QED
      BY <3>1, <3>2
  <2>8. \A m \in DOMAIN taken' : \E i \in DOMAIN lines' :
          lines'[i].key = AggregationKey(taken'[m], m)
    <3>1. lines'[index].key = AggregationKey(taken'[n], n) /\ index \in DOMAIN lines'
      BY <1>3, <2>2, <2>3, <2>4 DEF key
    <3>2. ASSUME NEW m \in DOMAIN taken
          PROVE  \E i \in DOMAIN lines' : lines'[i].key = AggregationKey(taken'[m], m)
      <4>1. PICK i \in DOMAIN lines : lines[i].key = AggregationKey(taken[m], m)
        BY <1>1 DEF AggregateInvariant
      <4>2. i \in DOMAIN lines' /\ lines'[i].key = lines[i].key
        BY <2>2, <2>4, <2>5
      <4> QED
        BY <1>3, <4>1, <4>2
    <3> QED
      BY <1>3, <3>1, <3>2
  <2>9. TypeOK'
    BY <1>3, <2>4 DEF TypeOK
  <2> QED
    BY <1>1, <1>5, <2>6, <2>7, <2>8, <2>9 DEF AggregateInvariant
<1> QED
  BY <1>1, <1>4, <1>5

LEMMA InitAggregate == Init => AggregateInvariant /\ TotalsExact /\ OnlyOverflowFails
BY RequirementAssumption DEF Init, AggregateInvariant, TypeOK, TotalsExact, OnlyOverflowFails

LEMMA NextAggregate == AggregateInvariant /\ [Next]_vars => AggregateInvariant'
<1>1. ASSUME AggregateInvariant, UNCHANGED vars
      PROVE  AggregateInvariant'
  <2>1. taken' = taken /\ lines' = lines /\ error' = error
    BY <1>1 DEF vars
  <2>2. TypeOK'
    BY <1>1, <2>1 DEF TypeOK, AggregateInvariant
  <2>3. \A i \in DOMAIN lines :
          {n \in DOMAIN taken : AggregationKey(taken[n], n) = lines[i].key}
            = {n \in DOMAIN taken' : AggregationKey(taken'[n], n) = lines'[i].key}
    BY <2>1
  <2> QED
    BY <1>1, <2>1, <2>2, <2>3 DEF AggregateInvariant
<1> QED
  BY <1>1, TakeKeeps DEF Next

(* Keys name the requirements that may be combined and nothing else; lines *)
(* agree with all they stand for.                                          *)
THEOREM AggregateInvariantHolds == Spec => []AggregateInvariant
BY InitAggregate, NextAggregate, PTL DEF Spec

(* Requirements share a line exactly when they may be combined.            *)
THEOREM LinesAlwaysCombine == Spec => []LinesCombine
<1>1. ASSUME AggregateInvariant, error = None, NEW m \in DOMAIN taken, NEW n \in DOMAIN taken, m # n
      PROVE  Combinable(taken[m], taken[n])
               <=> \E i \in DOMAIN lines : {m, n} \subseteq lines[i].contributions
  <2>1. taken[m] \in Requirement /\ taken[n] \in Requirement
    BY <1>1 DEF AggregateInvariant, TypeOK
  <2>2. Combinable(taken[m], taken[n])
          <=> AggregationKey(taken[m], m) = AggregationKey(taken[n], n)
    BY <1>1, <2>1, KeysAgree
  <2>3. \A i \in DOMAIN lines : lines[i].contributions
          = {k \in DOMAIN taken : AggregationKey(taken[k], k) = lines[i].key}
    BY <1>1 DEF AggregateInvariant
  <2>4. \E i \in DOMAIN lines : lines[i].key = AggregationKey(taken[m], m)
    BY <1>1 DEF AggregateInvariant
  <2> QED
    BY <1>1, <2>2, <2>3, <2>4
<1>2. AggregateInvariant => LinesCombine
  BY <1>1 DEF LinesCombine
<1> QED
  BY <1>2, AggregateInvariantHolds, PTL

(* Every requirement is behind a line, and a line is optional only when    *)
(* all behind it is.                                                       *)
THEOREM NothingIsDropped == Spec => []NothingDropped
<1>1. ASSUME AggregateInvariant, error = None
      PROVE  UNION {lines[i].contributions : i \in DOMAIN lines} = DOMAIN taken
  <2>1. \A i \in DOMAIN lines : lines[i].contributions
          = {n \in DOMAIN taken : AggregationKey(taken[n], n) = lines[i].key}
    BY <1>1 DEF AggregateInvariant
  <2>2. \A n \in DOMAIN taken : \E i \in DOMAIN lines : n \in lines[i].contributions
    BY <1>1, <2>1 DEF AggregateInvariant
  <2>3. \A n \in UNION {lines[i].contributions : i \in DOMAIN lines} : n \in DOMAIN taken
    BY <2>1
  <2>4. \A n \in DOMAIN taken : n \in UNION {lines[i].contributions : i \in DOMAIN lines}
    BY <2>2
  <2> QED
    BY <2>3, <2>4
<1>2. AggregateInvariant => NothingDropped
  BY <1>1 DEF NothingDropped, AggregateInvariant
<1> QED
  BY <1>2, AggregateInvariantHolds, PTL

(* Aggregation fails for nothing but the width of integers: two units that *)
(* do not convert never have one key.                                      *)
THEOREM OnlyOverflowEverFails == Spec => []OnlyOverflowFails
<1>1. AggregateInvariant /\ OnlyOverflowFails /\ [Next]_vars => OnlyOverflowFails'
  <2>1. ASSUME AggregateInvariant, OnlyOverflowFails, NEW r \in Requirement, Take(r)
        PROVE  OnlyOverflowFails'
    BY <2>1, TakeAdds DEF OnlyOverflowFails
  <2> QED
    BY <2>1 DEF Next, vars, OnlyOverflowFails
<1> QED
  BY <1>1, InitAggregate, AggregateInvariantHolds, PTL DEF Spec

LEMMA AgreesStorable ==
  ASSUME NEW r \in Requirement, NEW line \in Line, Agrees(line, r)
  PROVE  Storable(Returned(line))
<1> DEFINE back == Returned(line)
<1>1. /\ back.kind = line.kind /\ back.min = line.min /\ back.unit = line.unit
      /\ back.package = line.package
      /\ back.max = IF line.kind = "exact" THEN None ELSE line.max
  BY DEF Returned, Line
<1> HIDE DEF back
<1>2. line.kind \in {"presence", "unspecified", "exact", "range"}
  BY DEF Line
<1>3. ASSUME line.kind \in {"presence", "unspecified"}
      PROVE  Storable(back)
  <2>1. {line.min, line.max, line.unit, line.package} = {None}
    BY <1>3 DEF Agrees
  <2>2. back.min = None /\ back.max = None /\ back.unit = None /\ back.package = None
    BY <1>1, <1>3, <2>1
  <2>3. {back.min, back.max, back.unit, back.package} = {None}
    BY <2>2
  <2> QED
    BY <1>1, <1>3, <2>3 DEF Storable
<1>4. ASSUME line.kind \in {"exact", "range"}
      PROVE  Storable(back)
  <2>1. /\ line.unit = None <=> line.package # None
        /\ line.min \in Ratio /\ line.max \in Ratio /\ AtMost(line.min, line.max)
    BY <1>4, RequirementFacts DEF Agrees, Reduced
  <2>2. line.min # None /\ line.max # None
    BY <2>1, RequirementAssumption
  <2>3. /\ back.unit = None <=> back.package # None
        /\ back.min # None
        /\ line.kind = "exact" => back.kind = "exact" /\ back.max = None
        /\ line.kind = "range" =>
             back.kind = "range" /\ back.max # None /\ AtMost(back.min, back.max)
    BY <1>1, <2>1, <2>2
  <2> QED
    BY <1>4, <2>3 DEF Storable
<1>5. Storable(back)
  BY <1>2, <1>3, <1>4
<1> QED
  BY <1>5 DEF back

(* A returned line is one the CHECKs of shopping_lines admit.              *)
THEOREM LinesAreStorable == Spec => []LinesStorable
<1>1. ASSUME AggregateInvariant, NEW i \in DOMAIN lines
      PROVE  Storable(Returned(lines[i]))
  <2>1. lines[i] \in Line
    BY <1>1 DEF AggregateInvariant, TypeOK
  <2>2. PICK m \in DOMAIN taken : Agrees(lines[i], taken[m])
    BY <1>1 DEF AggregateInvariant
  <2>3. taken[m] \in Requirement
    BY <1>1 DEF AggregateInvariant, TypeOK
  <2> QED
    BY <2>1, <2>2, <2>3, AgreesStorable
<1>2. AggregateInvariant => LinesStorable
  BY <1>1 DEF LinesStorable
<1> QED
  BY <1>2, AggregateInvariantHolds, PTL

-----------------------------------------------------------------------------
(* The totals are exact.                                                   *)

(* Sums after one more requirement, for those it does not add to.          *)
LEMMA NoMore ==
  ASSUME NEW k \in Nat, NEW C \in SUBSET (1..k), NEW a
  PROVE  PartialSums(C, a)[k + 1] = PartialSums(C, a)[k]
<1>1. k + 1 \in Nat /\ k + 1 \in 1..(k + 1) /\ k + 1 \notin C /\ (k + 1) - 1 = k
  OBVIOUS
<1>2. SumsTo(PartialSums(C, a), C, a, k + 1)
  BY <1>1, PartialSumsAdd
<1> QED
  BY <1>1, <1>2 DEF SumsTo

(* D is C and the one more.                                                *)
LEMMA OneMore ==
  ASSUME NEW k \in Nat, NEW C \in SUBSET (1..k), NEW D, NEW n, n = k + 1, n \in D,
         \A m \in 1..k : m \in D <=> m \in C,
         NEW a, NEW b, \A m \in C : b[m] = a[m]
  PROVE  PartialSums(D, b)[n] = Sum(PartialSums(C, a)[k], b[n])
<1>1. n \in Nat /\ n \in 1..n /\ k \in 0..k /\ n - 1 = k
  OBVIOUS
<1>2. SumsTo(PartialSums(C, a), C, a, k) /\ SumsTo(PartialSums(D, b), D, b, n)
  BY <1>1, PartialSumsAdd
<1>3. SumsTo(PartialSums(D, b), D, b, k)
  BY <1>2 DEF SumsTo
<1>4. \A m \in 1..k : (m \in D <=> m \in C) /\ (m \in D => b[m] = a[m])
  OBVIOUS
<1>5. PartialSums(D, b)[k] = PartialSums(C, a)[k]
  BY <1>1, <1>2, <1>3, <1>4, SumsAgree
<1>6. PartialSums(D, b)[n] = Sum(PartialSums(D, b)[k], b[n])
  BY <1>1, <1>2 DEF SumsTo
<1> QED
  BY <1>5, <1>6

LEMMA NoneAdded ==
  ASSUME NEW k \in Nat, NEW a
  PROVE  PartialSums({}, a)[k] = Fraction(0, 1)
<1> DEFINE f == [n \in Nat |-> Fraction(0, 1)]
<1>1. SumsTo(f, {}, a, k)
  BY DEF SumsTo
<1>2. SumsTo(PartialSums({}, a), {}, a, k)
  BY PartialSumsAdd
<1> HIDE DEF f
<1>3. PartialSums({}, a)[k] = f[k]
  BY <1>1, <1>2, SumsAgree
<1> QED
  BY <1>3 DEF f

LEMMA ZeroAdds ==
  ASSUME NEW q, Reduced(q)
  PROVE  Sum(Fraction(0, 1), q) = q
<1>1. q.num \in Nat /\ q.den \in Nat \ {0} /\ Worth(q, q.num, q.den)
  BY RatioWorth DEF Reduced
<1>2. Worth(Fraction(0, 1), 0, 1)
  BY FractionWorth
<1>3. Sum(Fraction(0, 1), q) = Fraction(0 * q.den + q.num * 1, 1 * q.den)
  BY <1>1, <1>2, SumWorth
<1>4. 0 * q.den + q.num * 1 = q.num /\ 1 * q.den = q.den
  BY <1>1
<1> QED
  BY <1>3, <1>4 DEF Reduced

LEMMA InBaseReduced ==
  ASSUME NEW r \in Requirement, NEW q \in Ratio
  PROVE  Reduced(InBase(q, r.unit))
<1>1. q.num \in Nat /\ q.den \in Nat \ {0} /\ Worth(q, q.num, q.den)
  BY RatioWorth
<1>2. r.unit # None => r.unit.base \in Positive
  BY RequirementFacts
<1> QED
  BY <1>1, <1>2, FractionReduced, TimesWorth DEF InBase

(* The total of C, which is nil as long as there is none.                  *)
HasTotal(total, unit, C, a, k) ==
  \/ C = {} /\ total = None
  \/ total \in Ratio /\ InBase(total, unit) = PartialSums(C, a)[k]

(* D is C, of 1..k, and n, the one more; b is a on C, and q's amount on n. *)
Extends(D, C, k, n) ==
  n = k + 1 /\ C \in SUBSET (1..k) /\ n \in D /\ \A m \in 1..k : m \in D <=> m \in C
Follows(b, a, C, n, q, unit) == b[n] = InBase(q, unit) /\ \A m \in C : b[m] = a[m]

(* An amount added to the total of C gives the total of C and one more.    *)
LEMMA PlusTotal ==
  ASSUME NEW r \in Requirement, NEW new, Takes(new, r), NEW q \in Ratio, NEW total,
         NEW k \in Nat, NEW C, NEW D, NEW n, Extends(D, C, k, n),
         NEW a, NEW b, Follows(b, a, C, n, q, r.unit), HasTotal(total, new.unit, C, a, k)
  PROVE  InBase(Plus(total, Convert(q, r, new)), new.unit) = PartialSums(D, b)[n]
<1>1. PartialSums(D, b)[n] = Sum(PartialSums(C, a)[k], b[n]) /\ b[n] = InBase(q, r.unit)
  BY OneMore DEF Extends, Follows
<1>2. InBase(Convert(q, r, new), new.unit) = b[n] /\ Convert(q, r, new) \in Ratio
  BY <1>1, ConvertInBase, ConvertWorth DEF Reduced
<1>3. CASE C = {} /\ total = None
  <2>1. PartialSums(C, a)[k] = Fraction(0, 1)
    BY <1>3, NoneAdded
  <2>2. Reduced(b[n])
    BY <1>1, InBaseReduced
  <2>3. PartialSums(D, b)[n] = b[n]
    BY <1>1, <2>1, <2>2, ZeroAdds
  <2> QED
    BY <1>2, <1>3, <2>3 DEF Plus
<1>4. CASE total \in Ratio /\ InBase(total, new.unit) = PartialSums(C, a)[k]
  <2>1. total # None
    BY <1>4, RequirementAssumption
  <2>2. new.unit # None => new.unit.base \in Positive
    BY DEF Takes
  <2>3. InBase(Sum(total, Convert(q, r, new)), new.unit)
          = Sum(InBase(total, new.unit), InBase(Convert(q, r, new), new.unit))
    BY <1>2, <1>4, <2>2, SumInBase
  <2> QED
    BY <1>1, <1>2, <1>4, <2>1, <2>3 DEF Plus
<1> QED
  BY <1>3, <1>4 DEF HasTotal

Numeric(line) == line.kind \in {"exact", "range"}

LEMMA NumericAgrees ==
  ASSUME NEW line, NEW r, Agrees(line, r)
  PROVE  /\ Numeric(line) <=> r.mode # "presence-only" /\ r.kind # "unspecified"
         /\ Numeric(line) =>
              /\ Reduced(line.min) /\ Reduced(line.max) /\ AtMost(line.min, line.max)
              /\ line.kind = "exact" <=> line.min = line.max
BY DEF Agrees, Numeric

(* A line stays exact as long as what it adds is.                          *)
LEMMA ExactAdded ==
  ASSUME NEW r \in Requirement, r.kind # "unspecified", NEW new, Takes(new, r),
         Reduced(new.min), Reduced(new.max), AtMost(new.min, new.max),
         NEW low, NEW high,
         new.min = Plus(low, Convert(r.min, r, new)),
         new.max = Plus(high, Convert(High(r), r, new)),
         \/ low = None /\ high = None
         \/ low \in Ratio /\ high \in Ratio /\ AtMost(low, high)
  PROVE  new.min = new.max <=>
           /\ AtMost(High(r), r.min)
           /\ low # None => AtMost(high, low)
<1>1. r.min \in Ratio /\ High(r) \in Ratio /\ AtMost(r.min, High(r))
  BY RequirementFacts
<1> DEFINE p == Convert(r.min, r, new)
           q == Convert(High(r), r, new)
<1>2. /\ p \in Ratio /\ q \in Ratio /\ AtMost(p, q)
      /\ AtMost(q, p) <=> AtMost(High(r), r.min)
  BY <1>1, ConvertWorth, ConvertAtMost DEF Reduced
<1>3. new.min = new.max <=> AtMost(new.max, new.min)
  BY SameReduced
<1> HIDE DEF p, q
<1>4. CASE low = None /\ high = None
  <2>1. new.min = p /\ new.max = q
    BY <1>4 DEF Plus, p, q
  <2> QED
    BY <1>2, <1>3, <1>4, <2>1
<1>5. CASE low \in Ratio /\ high \in Ratio /\ AtMost(low, high)
  <2>1. low # None /\ high # None
    BY <1>5, RequirementAssumption
  <2>2. new.min = Sum(low, p) /\ new.max = Sum(high, q)
    BY <2>1 DEF Plus, p, q
  <2>3. AtMost(Sum(high, q), Sum(low, p)) <=> AtMost(high, low) /\ AtMost(q, p)
    BY <1>2, <1>5, SumAtMost
  <2> QED
    BY <1>2, <1>3, <2>1, <2>2, <2>3
<1> QED
  BY <1>4, <1>5

LowIn(T, C) == [n \in C |-> InBase(T[n].min, T[n].unit)]
HighIn(T, C) == [n \in C |-> InBase(High(T[n]), T[n].unit)]

(* TotalsExact for one line.                                               *)
ExactLine(line, T) ==
  Numeric(line) =>
    /\ InBase(line.min, line.unit)
         = PartialSums(line.contributions, LowIn(T, line.contributions))[Len(T)]
    /\ InBase(line.max, line.unit)
         = PartialSums(line.contributions, HighIn(T, line.contributions))[Len(T)]
    /\ line.kind = "exact" <=> \A n \in line.contributions : AtMost(High(T[n]), T[n].min)

LEMMA TotalsExactIs ==
  /\ TotalsExact <=> \A i \in DOMAIN lines : ExactLine(lines[i], taken)
  /\ TotalsExact' <=> \A i \in DOMAIN lines' : ExactLine(lines'[i], taken')
BY DEF TotalsExact, ExactLine, Numeric, TotalLow, TotalHigh, Total, LowIn, HighIn

(* The line that takes the requirement.                                    *)
LEMMA TakingLine ==
  ASSUME NEW T, NEW U, NEW k \in Nat, NEW n, n = k + 1,
         Len(T) = k, Len(U) = n,
         NEW r \in Requirement, U[n] = r, \A m \in 1..k : U[m] = T[m],
         NEW l, NEW new, Added(l, r, n, new), l.contributions \in SUBSET (1..k),
         \/ l = NewLine(r, n) /\ l.contributions = {}
         \/ l.contributions # {} /\ Agrees(l, r) /\ ExactLine(l, T)
  PROVE  ExactLine(new, U)
<1> SUFFICES ASSUME Numeric(new)
             PROVE  /\ InBase(new.min, new.unit)
                         = PartialSums(new.contributions, LowIn(U, new.contributions))[n]
                    /\ InBase(new.max, new.unit)
                         = PartialSums(new.contributions, HighIn(U, new.contributions))[n]
                    /\ new.kind = "exact" <=>
                         \A m \in new.contributions : AtMost(High(U[m]), U[m].min)
  BY DEF ExactLine
<1> DEFINE C == l.contributions
           D == C \cup {n}
<1>1. /\ Agrees(new, r) /\ new.contributions = D /\ new.unit = l.unit
      /\ Takes(new, r) /\ r.kind # "unspecified"
      /\ new.min = Plus(l.min, Convert(r.min, r, new))
      /\ new.max = Plus(l.max, Convert(High(r), r, new))
  BY DEF Added, Numeric
<1>2. /\ r.mode # "presence-only"
      /\ Reduced(new.min) /\ Reduced(new.max) /\ AtMost(new.min, new.max)
      /\ new.kind = "exact" <=> new.min = new.max
  BY <1>1, NumericAgrees
<1>3. r.min \in Ratio /\ High(r) \in Ratio
  BY <1>1, RequirementFacts
<1>4. \/ C = {} /\ l.min = None /\ l.max = None
      \/ /\ C # {} /\ ExactLine(l, T) /\ Numeric(l)
         /\ Reduced(l.min) /\ Reduced(l.max) /\ AtMost(l.min, l.max)
         /\ l.kind = "exact" <=> l.min = l.max
  BY <1>1, <1>2, NumericAgrees DEF NewLine
<1> HIDE DEF C
<1>5. /\ C \in SUBSET (1..k) /\ n \in D /\ n \notin C
      /\ \A m \in 1..k : m \in D <=> m \in C
  BY DEF C
<1>6. /\ LowIn(U, D)[n] = InBase(r.min, r.unit)
      /\ HighIn(U, D)[n] = InBase(High(r), r.unit)
      /\ \A m \in C : LowIn(U, D)[m] = LowIn(T, C)[m] /\ HighIn(U, D)[m] = HighIn(T, C)[m]
  BY <1>5 DEF LowIn, HighIn
<1>7. /\ HasTotal(l.min, new.unit, C, LowIn(T, C), k)
      /\ HasTotal(l.max, new.unit, C, HighIn(T, C), k)
  BY <1>1, <1>4 DEF HasTotal, ExactLine, Reduced, C
<1>8. /\ InBase(new.min, new.unit) = PartialSums(D, LowIn(U, D))[n]
      /\ InBase(new.max, new.unit) = PartialSums(D, HighIn(U, D))[n]
  <2> DEFINE lowT == LowIn(T, C)
             lowU == LowIn(U, D)
             highT == HighIn(T, C)
             highU == HighIn(U, D)
  <2>1. /\ lowU[n] = InBase(r.min, r.unit) /\ \A m \in C : lowU[m] = lowT[m]
        /\ highU[n] = InBase(High(r), r.unit) /\ \A m \in C : highU[m] = highT[m]
    BY <1>6
  <2>2. HasTotal(l.min, new.unit, C, lowT, k) /\ HasTotal(l.max, new.unit, C, highT, k)
    BY <1>7
  <2> DEFINE p == r.min
             q == High(r)
             min == l.min
             max == l.max
  <2> HIDE DEF D, lowT, lowU, highT, highU
  <2>3. /\ Takes(new, r) /\ p \in Ratio /\ q \in Ratio
        /\ lowU[n] = InBase(p, r.unit) /\ highU[n] = InBase(q, r.unit)
        /\ HasTotal(min, new.unit, C, lowT, k) /\ HasTotal(max, new.unit, C, highT, k)
    BY <1>1, <1>3, <2>1, <2>2
  <2>4. /\ Extends(D, C, k, n)
        /\ Follows(lowU, lowT, C, n, p, r.unit) /\ Follows(highU, highT, C, n, q, r.unit)
    BY <1>5, <2>1, <2>3 DEF Extends, Follows
  <2> HIDE DEF p, q, min, max
  <2>5. InBase(Plus(min, Convert(p, r, new)), new.unit) = PartialSums(D, lowU)[n]
    BY <2>3, <2>4, PlusTotal
  <2>6. InBase(Plus(max, Convert(q, r, new)), new.unit) = PartialSums(D, highU)[n]
    BY <2>3, <2>4, PlusTotal
  <2> QED
    BY <1>1, <2>5, <2>6 DEF lowU, highU, p, q, min, max
<1>9. new.min = new.max <=>
        /\ AtMost(High(r), r.min)
        /\ l.min # None => AtMost(l.max, l.min)
  <2> DEFINE low == l.min
             high == l.max
  <2>1. \/ low = None /\ high = None
        \/ low \in Ratio /\ high \in Ratio /\ AtMost(low, high)
    BY <1>4 DEF Reduced
  <2>2. /\ Reduced(new.min) /\ Reduced(new.max) /\ AtMost(new.min, new.max)
        /\ Takes(new, r) /\ r.kind # "unspecified"
        /\ new.min = Plus(low, Convert(r.min, r, new))
        /\ new.max = Plus(high, Convert(High(r), r, new))
    BY <1>1, <1>2
  <2> HIDE DEF low, high
  <2>3. new.min = new.max <=>
          /\ AtMost(High(r), r.min)
          /\ low # None => AtMost(high, low)
    BY <2>1, <2>2, ExactAdded
  <2> QED
    BY <2>3 DEF low, high
<1>10. (l.min # None => AtMost(l.max, l.min)) <=> \A m \in C : AtMost(High(T[m]), T[m].min)
  <2>1. CASE C = {} /\ l.min = None
    BY <2>1
  <2>2. CASE /\ ExactLine(l, T) /\ Numeric(l)
             /\ Reduced(l.min) /\ Reduced(l.max) /\ AtMost(l.min, l.max)
             /\ l.kind = "exact" <=> l.min = l.max
    <3>1. l.kind = "exact" <=> \A m \in C : AtMost(High(T[m]), T[m].min)
      BY <2>2 DEF ExactLine, C
    <3>2. l.min # None
      BY <2>2, RequirementAssumption DEF Reduced
    <3> QED
      BY <2>2, <3>1, <3>2, SameReduced
  <2> QED
    BY <1>4, <2>1, <2>2
<1>11. (\A m \in D : AtMost(High(U[m]), U[m].min))
         <=> AtMost(High(r), r.min) /\ \A m \in C : AtMost(High(T[m]), T[m].min)
  BY <1>5
<1> QED
  BY <1>1, <1>2, <1>8, <1>9, <1>10, <1>11

LEMMA TakeTotals ==
  ASSUME AggregateInvariant, TotalsExact, NEW r \in Requirement, Take(r)
  PROVE  TotalsExact'
<1> DEFINE k == Len(taken)
           n == k + 1
           opened == Opened(r, n)
           index == IndexOf(opened, AggregationKey(r, n))
           l == opened[index]
<1>1. /\ taken' = Append(taken, r) /\ n \in 1..MaxTaken
      /\ OpenFor(opened, index, r, n)
      /\ \/ lines' = <<>>
         \/ \E new : Added(l, r, n, new) /\ lines' = [opened EXCEPT ![index] = new]
  BY TakeAdds
<1>2. TypeOK
  BY DEF AggregateInvariant
<1>3. /\ k \in Nat /\ Len(taken) = k /\ Len(taken') = n /\ n = k + 1
      /\ DOMAIN taken = 1..k /\ taken'[n] = r
      /\ \A m \in 1..k : taken'[m] = taken[m]
  <2>1. /\ Len(taken') = n /\ DOMAIN taken = 1..(n - 1) /\ taken'[n] = r
        /\ \A m \in DOMAIN taken : taken'[m] = taken[m]
    BY <1>1, <1>2, TakenMore
  <2>2. k \in Nat
    BY <1>2 DEF TypeOK
  <2> QED
    BY <2>1, <2>2
<1> HIDE DEF opened, index, k, n
<1>4. CASE lines' = <<>>
  BY <1>4, TotalsExactIs
<1>5. CASE \E new : Added(l, r, n, new) /\ lines' = [opened EXCEPT ![index] = new]
  <2>1. PICK new : Added(l, r, n, new) /\ lines' = [opened EXCEPT ![index] = new]
    BY <1>5
  <2>2. /\ index \in DOMAIN opened
        /\ DOMAIN opened \subseteq DOMAIN lines \cup {index}
        /\ \A i \in DOMAIN lines : opened[i] = lines[i]
        /\ l.contributions = {m \in DOMAIN taken : AggregationKey(taken[m], m) = AggregationKey(r, n)}
        /\ \/ l = NewLine(r, n) /\ index \notin DOMAIN lines
           \/ index \in DOMAIN lines /\ Agrees(l, r)
    BY <1>1 DEF OpenFor
  <2>3. ASSUME NEW i \in DOMAIN lines', i # index
        PROVE  ExactLine(lines'[i], taken')
    <3>1. i \in DOMAIN lines /\ lines'[i] = lines[i]
      BY <2>1, <2>2, <2>3
    <3> DEFINE C == lines[i].contributions
    <3>2. C \in SUBSET (1..k) /\ ExactLine(lines[i], taken)
      BY <1>3, <3>1, TotalsExactIs DEF AggregateInvariant
    <3>3. \A m \in C : taken'[m] = taken[m]
      BY <1>3, <3>2
    <3>4. LowIn(taken', C) = LowIn(taken, C) /\ HighIn(taken', C) = HighIn(taken, C)
      BY <3>3 DEF LowIn, HighIn
    <3> DEFINE low == LowIn(taken, C)
               high == HighIn(taken, C)
    <3> HIDE DEF C, low, high
    <3>5. PartialSums(C, low)[n] = PartialSums(C, low)[k]
      BY <1>3, <3>2, NoMore
    <3>6. PartialSums(C, high)[n] = PartialSums(C, high)[k]
      BY <1>3, <3>2, NoMore
    <3> QED
      BY <1>3, <3>1, <3>2, <3>3, <3>4, <3>5, <3>6 DEF ExactLine, C, low, high
  <2>4. ExactLine(new, taken')
    <3>1. l.contributions \in SUBSET (1..k)
      BY <1>3, <2>2
    <3>2. CASE l = NewLine(r, n) /\ index \notin DOMAIN lines
      <4>1. l.contributions = {}
        BY <3>2 DEF NewLine
      <4> HIDE DEF l
      <4> QED
        BY <1>3, <2>1, <3>1, <3>2, <4>1, TakingLine
    <3>3. CASE index \in DOMAIN lines /\ Agrees(l, r)
      <4>1. l = lines[index]
        BY <2>2, <3>3
      <4>2. l.contributions # {} /\ ExactLine(l, taken)
        BY <3>3, <4>1, TotalsExactIs DEF AggregateInvariant
      <4> HIDE DEF l
      <4> QED
        BY <1>3, <2>1, <3>1, <3>3, <4>2, TakingLine
    <3> QED
      BY <2>2, <3>2, <3>3
  <2>5. DOMAIN lines' = DOMAIN opened /\ lines'[index] = new
    BY <2>1, <2>2
  <2> QED
    BY <2>3, <2>4, <2>5, TotalsExactIs
<1> QED
  BY <1>1, <1>4, <1>5

(* A line's totals are exactly those of its contributions, whichever came  *)
(* first, and it is exact when they all are.                               *)
THEOREM TotalsAreExact == Spec => []TotalsExact
<1>1. AggregateInvariant /\ TotalsExact /\ [Next]_vars => TotalsExact'
  <2>1. ASSUME TotalsExact, UNCHANGED vars
        PROVE  TotalsExact'
    BY <2>1, TotalsExactIs DEF vars
  <2> QED
    BY <2>1, TakeTotals DEF Next
<1> QED
  BY <1>1, InitAggregate, AggregateInvariantHolds, PTL DEF Spec
=============================================================================
