--------------------------- MODULE IdentityProofs ---------------------------
(***************************************************************************)
(* Proofs about identity matching and reconciliation.                      *)
(*                                                                         *)
(* Matching: the loop of Match answers what Answers allows, for any table, *)
(* names and number of candidates, and what the weights and thresholds     *)
(* make of its answers.                                                    *)
(*                                                                         *)
(* Reconcile, which builds on Answers: for every set of places, records,   *)
(* feeds and importers, type correctness, that the retry loop never loses  *)
(* a record (Accounted), that a sweep deletes and bumps the rows it has    *)
(* read, that an attach always finds its place, and that an import         *)
(* reconsiders the rows it must.                                           *)
(***************************************************************************)
EXTENDS Matching, Reconcile, FiniteSetTheorems, TLAPS

----------------------------------------------------------------------------
(* Scores.                                                                  *)

IsScore(s) == s.num \in Nat /\ s.den \in Nat \ {0}

(* A score above one that no earlier score exceeds exceeds the earlier one. *)
LEMMA ExceedsAll ==
  ASSUME NEW a, NEW b, NEW c, IsScore(a), IsScore(b), IsScore(c),
         ~Exceeds(a, b), Exceeds(c, b)
  PROVE  Exceeds(c, a)
<1> DEFINE an == a.num  ad == a.den  bn == b.num  bd == b.den  cn == c.num  cd == c.den
<1>1. an \in Nat /\ bn \in Nat /\ cn \in Nat /\ ad \in Nat \ {0} /\ bd \in Nat \ {0} /\ cd \in Nat \ {0}
  BY DEF IsScore
<1>2. an * bd <= bn * ad /\ cn * bd > bn * cd
  BY <1>1 DEF Exceeds
<1> HIDE DEF an, ad, bn, bd, cn, cd
<1>3. (an * bd) * cd <= (bn * ad) * cd
  BY <1>1, <1>2
<1>4. (cn * bd) * ad > (bn * cd) * ad
  BY <1>1, <1>2
<1>5. (cn * ad) * bd > (an * cd) * bd
  BY <1>1, <1>3, <1>4
<1>6. cn * ad > an * cd
  BY <1>1, <1>5
<1> QED
  BY <1>6 DEF Exceeds, an, ad, cn, cd

LEMMA ExceedsIsStrict ==
  ASSUME NEW a, NEW b, IsScore(a), IsScore(b), Exceeds(a, b)
  PROVE  ~Exceeds(b, a)
BY DEF Exceeds, IsScore

LEMMA NotAbove ==
  ASSUME NEW a, NEW b, NEW u \in Nat, NEW v \in Nat,
         a.num * b.den = u, b.num * a.den = v, u <= v
  PROVE  ~Exceeds(a, b)
BY DEF Exceeds

(* The components of a score are bounded, whatever record and place.        *)
LEMMA NameScoreType ==
  ASSUME NEW r \in RecordRows, NEW p \in PlaceRows
  PROVE  /\ IsScore(NameScore(r, p))
         /\ NameScore(r, p).num <= NameScore(r, p).den
<1> DEFINE R == TokenSet(r.name)
           P == TokenSet(p.name)
<1>1. ASSUME NEW s \in Text
      PROVE  IsFiniteSet(TokenSet(s))
  <2> DEFINE all == {Fold[s[i]] : i \in DOMAIN s}
             image == [i \in DOMAIN s |-> Fold[s[i]]]
  <2>1. IsFiniteSet(DOMAIN s)
    <3>1. DOMAIN s = 1..Len(s) /\ Len(s) \in Nat
      BY DEF Text
    <3> QED
      BY <3>1, FS_Interval
  <2>2. image \in Surjection(DOMAIN s, all)
    BY DEF Surjection
  <2>3. IsFiniteSet(all)
    BY <2>1, <2>2, FS_Surjection
  <2> QED
    BY <2>3, FS_Difference DEF TokenSet
<1>2. IsFiniteSet(R) /\ IsFiniteSet(P)
  BY <1>1, RecordsAssumption, RowsAssumption
<1> HIDE DEF R, P
<1>3. CASE R = {} \/ P = {}
  BY <1>3 DEF NameScore, Jaccard, IsScore, R, P
<1>4. CASE R # {} /\ P # {}
  <2>1. IsFiniteSet(R \cup P) /\ R \cap P \in SUBSET (R \cup P) /\ R \cup P # {}
    BY <1>2, <1>4, FS_Union
  <2>2. /\ Cardinality(R \cup P) \in Nat /\ Cardinality(R \cup P) # 0
        /\ Cardinality(R \cap P) \in Nat /\ Cardinality(R \cap P) <= Cardinality(R \cup P)
    BY <2>1, FS_Subset, FS_CardinalityType, FS_EmptySet
  <2>3. NameScore(r, p) = [num |-> Cardinality(R \cap P), den |-> Cardinality(R \cup P)]
    BY <1>4 DEF NameScore, Jaccard, R, P
  <2> QED
    BY <2>2, <2>3 DEF IsScore
<1> QED
  BY <1>3, <1>4

LEMMA ComponentTypes ==
  ASSUME NEW r \in RecordRows, NEW p \in PlaceRows
  PROVE  /\ Meters(r, p) \in Nat
         /\ DistanceScore(r, p) \in 0..50
         /\ DistanceScore(r, p) > 0 => DistanceScore(r, p) = 50 - Meters(r, p)
         /\ AddressScore(r, p) \in {0, 1, 2}
<1>1. r.pos \in Int /\ p.pos \in Int
  BY RecordsAssumption, RowsAssumption
<1> QED
  BY <1>1 DEF Meters, DistanceScore, AddressScore, RadiusM

(* A score with its denominators multiplied out.                            *)
LEMMA ScoreParts ==
  ASSUME NEW r \in RecordRows, NEW p \in PlaceRows, NEW d, NEW n, NEW m, NEW a,
         d = DistanceScore(r, p), n = NameScore(r, p).num, m = NameScore(r, p).den,
         a = AddressScore(r, p)
  PROVE  /\ d \in 0..50 /\ n \in Nat /\ m \in Nat \ {0} /\ a \in {0, 1, 2}
         /\ n <= m /\ d * m \in Nat /\ m * a \in Nat /\ d * m <= 50 * m /\ m * a <= 2 * m
         /\ Score(r, p) = IF AddressPresent(r, p)
                          THEN [num |-> 10 * (d * m) + 400 * n + 50 * (m * a), den |-> 1000 * m]
                          ELSE [num |-> 10 * (d * m) + 400 * n, den |-> 900 * m]
<1>1. d \in 0..50 /\ a \in {0, 1, 2}
  BY ComponentTypes
<1>2. n \in Nat /\ m \in Nat \ {0} /\ n <= m
  BY NameScoreType DEF IsScore
<1>3. Score(r, p) = CombinedScore(d, NameScore(r, p), a, AddressPresent(r, p))
  BY DEF Score
<1>4. /\ 2 * d * m * 5 + 2 * 50 * n * 4 = 10 * (d * m) + 400 * n
      /\ 50 * m * a * 1 = 50 * (m * a)
      /\ (2 * 50 * m) * (5 + 4 + 1) = 1000 * m
      /\ (2 * 50 * m) * (5 + 4) = 900 * m
  BY <1>1, <1>2
<1>5. d * m <= 50 * m /\ m * a <= 2 * m /\ d * m \in Nat /\ m * a \in Nat
  BY <1>1, <1>2
<1>6. Score(r, p) = IF AddressPresent(r, p)
                    THEN [num |-> 10 * (d * m) + 400 * n + 50 * (m * a), den |-> 1000 * m]
                    ELSE [num |-> 10 * (d * m) + 400 * n, den |-> 900 * m]
  BY <1>3, <1>4 DEF CombinedScore, RadiusM, WeightDistance, WeightName, WeightAddress
<1> QED
  BY <1>1, <1>2, <1>5, <1>6

LEMMA ScoreType ==
  ASSUME NEW r \in RecordRows, NEW p \in PlaceRows
  PROVE  IsScore(Score(r, p))
<1>1. PICK d, n, m, a : /\ d = DistanceScore(r, p) /\ n = NameScore(r, p).num
                        /\ m = NameScore(r, p).den /\ a = AddressScore(r, p)
  OBVIOUS
<1>2. PICK x \in Nat, y \in Nat :
        /\ n \in Nat /\ m \in Nat \ {0}
        /\ Score(r, p) = IF AddressPresent(r, p)
                         THEN [num |-> 10 * x + 400 * n + 50 * y, den |-> 1000 * m]
                         ELSE [num |-> 10 * x + 400 * n, den |-> 900 * m]
  BY <1>1, ScoreParts
<1> QED
  BY <1>2 DEF IsScore

(* No score leaves the unit interval, whatever the names and addresses: the *)
(* thresholds are fractions of the best score there is.                     *)
THEOREM ScoresAreShares ==
  ASSUME NEW r \in RecordRows, NEW p \in PlaceRows
  PROVE  IsScore(Score(r, p)) /\ Score(r, p).num <= Score(r, p).den
<1>1. PICK d, n, m, a : /\ d = DistanceScore(r, p) /\ n = NameScore(r, p).num
                        /\ m = NameScore(r, p).den /\ a = AddressScore(r, p)
  OBVIOUS
<1>2. PICK x \in Nat, y \in Nat :
        /\ x <= 50 * m /\ y <= 2 * m /\ n \in Nat /\ m \in Nat \ {0} /\ n <= m
        /\ Score(r, p) = IF AddressPresent(r, p)
                         THEN [num |-> 10 * x + 400 * n + 50 * y, den |-> 1000 * m]
                         ELSE [num |-> 10 * x + 400 * n, den |-> 900 * m]
  BY <1>1, ScoreParts
<1> QED
  BY <1>2, ScoreType

(* A fraction of a larger numerator, in the terms of CombinedScore: the     *)
(* distance d is of 50, the name n of m, the address a of two.              *)
LEMMA SumIsMonotone ==
  ASSUME NEW d \in Nat, NEW n \in Nat, NEW m \in Nat \ {0}, NEW a \in Nat,
         NEW e \in Nat, NEW o \in Nat, NEW l \in Nat \ {0}, NEW b \in Nat,
         d <= e, n * l <= o * m, a <= b, NEW w \in {900, 1000}
  PROVE  (10 * (d * m) + 400 * n + 50 * (m * a)) * (w * l)
           <= (10 * (e * l) + 400 * o + 50 * (l * b)) * (w * m)
<1>1. PICK k \in Nat : k = m * l
  OBVIOUS
<1>2. d * k <= e * k /\ a * k <= b * k
  BY <1>1
<1>3. PICK dk \in Nat, ek \in Nat, ak \in Nat, bk \in Nat, nl \in Nat, om \in Nat :
        /\ dk = d * k /\ ek = e * k /\ ak = a * k /\ bk = b * k /\ nl = n * l /\ om = o * m
  BY <1>1
<1>4. 10 * dk + 400 * nl + 50 * ak <= 10 * ek + 400 * om + 50 * bk
  BY <1>2, <1>3
<1>5. (d * m) * l = dk /\ (m * a) * l = ak /\ (e * l) * m = ek /\ (l * b) * m = bk
  BY <1>1, <1>3
<1>6. (10 * (d * m) + 400 * n + 50 * (m * a)) * l = 10 * dk + 400 * nl + 50 * ak
  <2>1. (10 * (d * m) + 400 * n + 50 * (m * a)) * l = 10 * ((d * m) * l) + 400 * (n * l) + 50 * ((m * a) * l)
    OBVIOUS
  <2> QED
    BY <1>3, <1>5, <2>1
<1>7. (10 * (e * l) + 400 * o + 50 * (l * b)) * m = 10 * ek + 400 * om + 50 * bk
  <2>1. (10 * (e * l) + 400 * o + 50 * (l * b)) * m = 10 * ((e * l) * m) + 400 * (o * m) + 50 * ((l * b) * m)
    OBVIOUS
  <2> QED
    BY <1>3, <1>5, <2>1
<1>8. PICK s \in Nat, t \in Nat : /\ s = 10 * (d * m) + 400 * n + 50 * (m * a)
                                  /\ t = 10 * (e * l) + 400 * o + 50 * (l * b)
  OBVIOUS
<1>9. s * l <= t * m
  BY <1>4, <1>6, <1>7, <1>8
<1>10. s * (w * l) = w * (s * l) /\ t * (w * m) = w * (t * m)
  BY <1>8
<1>11. w * (s * l) <= w * (t * m)
  BY <1>8, <1>9
<1> QED
  BY <1>8, <1>10, <1>11

(* Better evidence never lowers a score: of two places that both have a     *)
(* street to compare or both have none, one that is at least as near, whose *)
(* name shares as much with the record's and whose address agrees as well   *)
(* scores no less, however the denominators of the names differ.            *)
THEOREM EvidenceNeverHurts ==
  ASSUME NEW r \in RecordRows, NEW p \in PlaceRows, NEW q \in PlaceRows,
         AddressPresent(r, p) <=> AddressPresent(r, q),
         Meters(r, q) <= Meters(r, p),
         ~Exceeds(NameScore(r, p), NameScore(r, q)),
         AddressScore(r, p) <= AddressScore(r, q)
  PROVE  ~Exceeds(Score(r, p), Score(r, q))
<1>1. PICK d, n, m, a : /\ d = DistanceScore(r, p) /\ n = NameScore(r, p).num
                        /\ m = NameScore(r, p).den /\ a = AddressScore(r, p)
  OBVIOUS
<1>2. PICK e, o, l, b : /\ e = DistanceScore(r, q) /\ o = NameScore(r, q).num
                        /\ l = NameScore(r, q).den /\ b = AddressScore(r, q)
  OBVIOUS
<1>3. /\ d \in Nat /\ n \in Nat /\ m \in Nat \ {0} /\ a \in Nat
      /\ e \in Nat /\ o \in Nat /\ l \in Nat \ {0} /\ b \in Nat
  BY <1>1, <1>2, ScoreParts
<1>4. d <= e
  <2>1. Meters(r, p) \in Nat /\ Meters(r, q) \in Nat
    BY ComponentTypes
  <2> QED
    BY <1>1, <1>2, <2>1 DEF DistanceScore, RadiusM
<1>5. n * l <= o * m /\ a <= b
  BY <1>1, <1>2, <1>3 DEF Exceeds
<1>6. CASE AddressPresent(r, p)
  <2>1. /\ Score(r, p) = [num |-> 10 * (d * m) + 400 * n + 50 * (m * a), den |-> 1000 * m]
        /\ Score(r, q) = [num |-> 10 * (e * l) + 400 * o + 50 * (l * b), den |-> 1000 * l]
    BY <1>1, <1>2, <1>6, ScoreParts
  <2>2. PICK s \in Nat, t \in Nat : /\ s = 10 * (d * m) + 400 * n + 50 * (m * a)
                                    /\ t = 10 * (e * l) + 400 * o + 50 * (l * b)
    BY <1>3
  <2>3. PICK u \in Nat, v \in Nat : u = s * (1000 * l) /\ v = t * (1000 * m)
    BY <1>3
  <2>4. u <= v
    BY <1>3, <1>4, <1>5, <2>2, <2>3, SumIsMonotone
  <2>5. Score(r, p).num * Score(r, q).den = u /\ Score(r, q).num * Score(r, p).den = v
    BY <2>1, <2>2, <2>3
  <2> QED
    BY <2>4, <2>5, NotAbove
<1>7. CASE ~AddressPresent(r, p)
  <2>1. /\ Score(r, p) = [num |-> 10 * (d * m) + 400 * n, den |-> 900 * m]
        /\ Score(r, q) = [num |-> 10 * (e * l) + 400 * o, den |-> 900 * l]
    BY <1>1, <1>2, <1>7, ScoreParts
  <2>2. PICK s \in Nat, t \in Nat : s = 10 * (d * m) + 400 * n /\ t = 10 * (e * l) + 400 * o
    BY <1>3
  <2>3. PICK u \in Nat, v \in Nat : u = s * (900 * l) /\ v = t * (900 * m)
    BY <1>3
  <2>4. s = 10 * (d * m) + 400 * n + 50 * (m * 0) /\ t = 10 * (e * l) + 400 * o + 50 * (l * 0)
    BY <1>3, <2>2
  <2>5. (10 * (d * m) + 400 * n + 50 * (m * 0)) * (900 * l)
          <= (10 * (e * l) + 400 * o + 50 * (l * 0)) * (900 * m)
    BY <1>3, <1>4, <1>5, SumIsMonotone
  <2>6. u <= v
    BY <2>3, <2>4, <2>5
  <2>7. Score(r, p).num * Score(r, q).den = u /\ Score(r, q).num * Score(r, p).den = v
    BY <2>1, <2>2, <2>3
  <2> QED
    BY <2>6, <2>7, NotAbove
<1> QED
  BY <1>6, <1>7

(* What the weights make of a confident score.                              *)
LEMMA ConfidentParts ==
  ASSUME NEW r \in RecordRows, NEW p \in PlaceRows, KindOf(Score(r, p)) = "confident"
  PROVE  Meters(r, p) <= 20 /\ 2 * NameScore(r, p).num >= NameScore(r, p).den
<1>1. PICK d, n, m, a : /\ d = DistanceScore(r, p) /\ n = NameScore(r, p).num
                        /\ m = NameScore(r, p).den /\ a = AddressScore(r, p)
  OBVIOUS
<1>2. PICK x \in Nat, y \in Nat :
        /\ x = d * m /\ x <= 50 * m /\ y <= 2 * m
        /\ d \in 0..50 /\ n \in Nat /\ m \in Nat \ {0} /\ n <= m
        /\ Score(r, p) = IF AddressPresent(r, p)
                         THEN [num |-> 10 * x + 400 * n + 50 * y, den |-> 1000 * m]
                         ELSE [num |-> 10 * x + 400 * n, den |-> 900 * m]
  BY <1>1, ScoreParts
<1>3. 100 * Score(r, p).num >= 80 * Score(r, p).den
  BY DEF KindOf, AtLeast, ConfidentThreshold, LowConfidenceThreshold
<1>4. \/ 100 * (10 * x + 400 * n + 50 * y) >= 80 * (1000 * m)
      \/ 100 * (10 * x + 400 * n) >= 80 * (900 * m)
  BY <1>2, <1>3
<1>5. x >= 30 * m /\ 2 * n >= m
  BY <1>2, <1>4
<1>6. d >= 30
  BY <1>2, <1>5
<1> QED
  BY <1>1, <1>2, <1>5, <1>6, ComponentTypes

(* Without its street a candidate scores no more than with a full address.  *)
LEMMA AddressHelps ==
  ASSUME NEW r \in RecordRows, NEW p \in PlaceRows,
         AddressPresent(r, p), AddressScore(r, p) = 2
  PROVE  ~Exceeds(Score(r, [p EXCEPT !.street = << >>]), Score(r, p))
<1>1. PICK d, n, m : d = DistanceScore(r, p) /\ n = NameScore(r, p).num /\ m = NameScore(r, p).den
  OBVIOUS
<1>2. PICK x \in Nat :
        /\ x = d * m /\ x <= 50 * m /\ n \in Nat /\ m \in Nat \ {0} /\ n <= m /\ d \in 0..50
        /\ Score(r, p) = [num |-> 10 * x + 400 * n + 50 * (m * 2), den |-> 1000 * m]
  BY <1>1, ScoreParts
<1>3. PICK bare : bare = [p EXCEPT !.street = << >>]
  OBVIOUS
<1>4. p.street # << >> /\ bare.pos = p.pos /\ bare.name = p.name
  BY <1>3 DEF AddressPresent
<1>5. ~AddressPresent(r, bare)
  <2>1. bare.street = << >>
    BY <1>3
  <2> QED
    BY <2>1 DEF AddressPresent
<1>6. DistanceScore(r, bare) = d /\ NameScore(r, bare) = NameScore(r, p)
  BY <1>1, <1>4 DEF DistanceScore, Meters, NameScore
<1>7. Score(r, bare) = [num |-> 10 * x + 400 * n, den |-> 900 * m]
  <2>1. Score(r, bare) = CombinedScore(d, NameScore(r, p), AddressScore(r, bare), AddressPresent(r, bare))
    BY <1>6 DEF Score
  <2>2. /\ 2 * d * m * 5 + 2 * 50 * n * 4 = 10 * x + 400 * n
        /\ (2 * 50 * m) * (5 + 4) = 900 * m
    BY <1>2
  <2> QED
    BY <1>1, <1>5, <2>1, <2>2 DEF CombinedScore, RadiusM, WeightDistance, WeightName
<1>8. PICK k \in Nat : k = 10 * x + 400 * n /\ k <= 900 * m
  BY <1>2
<1>9. k * (1000 * m) <= (k + 50 * (m * 2)) * (900 * m)
  <2>1. k * m <= (900 * m) * m
    BY <1>2, <1>8
  <2>2. k * (1000 * m) = 1000 * (k * m) /\ (k + 50 * (m * 2)) * (900 * m) = 900 * (k * m) + 90000 * (m * m)
        /\ (900 * m) * m = 900 * (m * m)
    BY <1>2
  <2>3. k * m \in Nat /\ m * m \in Nat
    BY <1>2
  <2> QED
    BY <2>1, <2>2, <2>3
<1>10. PICK u \in Nat, v \in Nat : u = k * (1000 * m) /\ v = (k + 50 * (m * 2)) * (900 * m) /\ u <= v
  BY <1>2, <1>9
<1>11. Score(r, p).num = k + 50 * (m * 2) /\ Score(r, p).den = 1000 * m
  BY <1>2, <1>8
<1>12. Score(r, bare).num = k /\ Score(r, bare).den = 900 * m
  BY <1>7, <1>8
<1>13. Score(r, bare).num * Score(r, p).den = u /\ Score(r, p).num * Score(r, bare).den = v
  BY <1>10, <1>11, <1>12
<1> QED
  BY <1>3, <1>10, <1>13, NotAbove

(* What FindCandidates returns: the nearest eligible places, in order.      *)
LEMMA CandidatesAre ==
  ASSUME NEW r \in RecordRows, NEW T \in [Ids -> PlaceRows], NEW c \in FindCandidates(r, T)
  PROVE  /\ Len(c) \in Nat /\ \A i \in 1..Len(c) : c[i] \in Ids
         /\ \A i, j \in 1..Len(c) : i < j => Meters(r, T[c[i]]) <= Meters(r, T[c[j]])
         /\ {c[i] : i \in 1..Len(c)} \in Fetched(r, T)
<1> DEFINE E == Eligible(r, T)
           n == IF Cardinality(E) <= CandidateLimit THEN Cardinality(E) ELSE CandidateLimit
           C == {c[i] : i \in 1..Len(c)}
<1>1. E \in SUBSET Ids
  BY DEF Eligible
<1>2. n \in Nat
  BY <1>1, IdsAssumption, LimitAssumption, FS_Subset, FS_CardinalityType
<1>3. /\ c \in [1..n -> E]
      /\ \A i, j \in 1..n : i # j => c[i] # c[j]
      /\ \A i, j \in 1..n : i < j => Meters(r, T[c[i]]) <= Meters(r, T[c[j]])
      /\ \A i \in 1..n : \A p \in E \ Range(c) : Meters(r, T[c[i]]) <= Meters(r, T[p])
  BY DEF FindCandidates
<1> HIDE DEF E, n
<1>4. Len(c) = n
  BY <1>2, <1>3
<1>5. C = Range(c) /\ C \in SUBSET E
  BY <1>3, <1>4 DEF Range
<1>6. Cardinality(C) = n
  <2>1. c \in Bijection(1..n, C)
    BY <1>3, <1>4 DEF Bijection, Injection, Surjection, IsInjective
  <2>2. IsFiniteSet(1..n) /\ Cardinality(1..n) = n
    BY <1>2, FS_Interval
  <2> QED
    BY <2>1, <2>2, FS_Bijection DEF ExistsBijection
<1>7. \A p \in C : \A q \in E \ C : Meters(r, T[p]) <= Meters(r, T[q])
  BY <1>3, <1>4, <1>5
<1>8. C \in Fetched(r, T)
  BY <1>5, <1>6, <1>7 DEF Fetched, E, n
<1> QED
  BY <1>1, <1>2, <1>3, <1>4, <1>8

----------------------------------------------------------------------------
(* The loop of Match: of the candidates before next, best is the first of   *)
(* those that no other one exceeds.                                         *)

Taken(n) == n \in 1..Len(candidates) /\ n < next

BestSoFar ==
  \A n \in Nat : Taken(n) =>
    /\ ~Exceeds(ScoreAt(n), ScoreAt(best))
    /\ n < best => Exceeds(ScoreAt(best), ScoreAt(n))

MatchInv ==
  /\ record \in RecordRows
  /\ places \in [Ids -> PlaceRows]
  /\ next \in Nat /\ best \in Nat
  /\ next = 0 => decision = Pending /\ best = 0
  /\ next # 0 =>
       /\ candidates \in FindCandidates(record, places)
       /\ best = 0 <=> next = 1
       /\ best # 0 => Taken(best)
       /\ BestSoFar
  /\ decision # Pending =>
       /\ next > Len(candidates)
       /\ decision = IF best = 0 THEN NoMatch ELSE Decision(ScoreAt(best), candidates[best])

LEMMA ScoreAtType ==
  ASSUME MatchInv, next # 0, NEW n \in 1..Len(candidates)
  PROVE  IsScore(ScoreAt(n)) /\ candidates[n] \in Ids
<1>1. candidates[n] \in Ids
  BY CandidatesAre DEF MatchInv
<1>2. places[candidates[n]] \in PlaceRows
  BY <1>1 DEF MatchInv
<1> QED
  BY <1>1, <1>2, ScoreType DEF MatchInv, ScoreAt

LEMMA MatchInitially == MatchInit => MatchInv
BY DEF MatchInit, MatchInv

LEMMA FetchKeeps == MatchInv /\ Fetch => MatchInv'
<1> SUFFICES ASSUME MatchInv, Fetch PROVE MatchInv'
  OBVIOUS
<1>1. next' = 1 /\ best' = 0 /\ decision' = Pending /\ record' = record /\ places' = places
      /\ candidates' \in FindCandidates(record, places)
  BY DEF Fetch, MatchInv
<1> QED
  BY <1>1 DEF MatchInv, BestSoFar, Taken

LEMMA ConsiderKeeps == MatchInv /\ Consider => MatchInv'
<1> SUFFICES ASSUME MatchInv, Consider PROVE MatchInv'
  OBVIOUS
<1>1. /\ UNCHANGED <<record, places, candidates, decision>> /\ decision = Pending
      /\ next \in Nat \ {0} /\ best \in Nat /\ next <= Len(candidates) /\ next' = next + 1
      /\ candidates \in FindCandidates(record, places)
  BY DEF Consider, Scanning, MatchInv
<1>2. Len(candidates) \in Nat /\ next \in 1..Len(candidates)
  BY <1>1, CandidatesAre DEF MatchInv
<1>3. \A n : ScoreAt(n)' = ScoreAt(n)
  BY <1>1 DEF ScoreAt
<1>4. \A n \in 1..Len(candidates) : IsScore(ScoreAt(n))
  BY <1>1, ScoreAtType
<1>5. CASE best = 0 \/ Exceeds(ScoreAt(next), ScoreAt(best))
  <2>1. best' = next
    BY <1>5 DEF Consider
  <2>2. ASSUME NEW n \in 1..Len(candidates), n < next
        PROVE  Exceeds(ScoreAt(next), ScoreAt(n)) /\ ~Exceeds(ScoreAt(n), ScoreAt(next))
    <3>1. best # 0 /\ best \in 1..Len(candidates)
      BY <1>1, <2>2 DEF MatchInv, Taken
    <3>2. ~Exceeds(ScoreAt(n), ScoreAt(best))
      BY <1>1, <2>2 DEF MatchInv, BestSoFar, Taken
    <3>3. Exceeds(ScoreAt(next), ScoreAt(n))
      BY <1>2, <1>4, <1>5, <3>1, <3>2, ExceedsAll
    <3> QED
      BY <1>2, <1>4, <3>3, ExceedsIsStrict
  <2>3. ~Exceeds(ScoreAt(next), ScoreAt(next))
    BY <1>2, <1>4, ExceedsIsStrict
  <2>4. BestSoFar'
    <3>1. ASSUME NEW n \in 1..Len(candidates), n < next + 1
          PROVE  ~Exceeds(ScoreAt(n), ScoreAt(next)) /\ (n < next => Exceeds(ScoreAt(next), ScoreAt(n)))
      BY <1>1, <2>2, <2>3, <3>1
    <3> QED
      BY <1>1, <1>3, <2>1, <3>1 DEF BestSoFar, Taken, ScoreAt
  <2> QED
    BY <1>1, <1>2, <2>1, <2>4 DEF MatchInv, Taken
<1>6. CASE best # 0 /\ ~Exceeds(ScoreAt(next), ScoreAt(best))
  <2>1. best' = best /\ next # 1 /\ best < next /\ best \in 1..Len(candidates)
    BY <1>1, <1>6 DEF Consider, MatchInv, Taken
  <2>2. BestSoFar'
    <3>1. ASSUME NEW n \in 1..Len(candidates), n < next + 1
          PROVE  ~Exceeds(ScoreAt(n), ScoreAt(best)) /\ (n < best => Exceeds(ScoreAt(best), ScoreAt(n)))
      <4>1. CASE n = next
        BY <1>1, <1>6, <2>1, <4>1
      <4>2. CASE n < next
        BY <1>1, <4>2 DEF MatchInv, BestSoFar, Taken
      <4> QED
        BY <1>1, <3>1, <4>1, <4>2
    <3> QED
      BY <1>1, <1>3, <2>1, <3>1 DEF BestSoFar, Taken, ScoreAt
  <2> QED
    BY <1>1, <1>2, <2>1, <2>2 DEF MatchInv, Taken
<1> QED
  BY <1>1, <1>5, <1>6

LEMMA DecideKeeps == MatchInv /\ Decide => MatchInv'
<1> SUFFICES ASSUME MatchInv, Decide PROVE MatchInv'
  OBVIOUS
<1>1. UNCHANGED <<record, places, candidates, next, best>> /\ next # 0 /\ next > Len(candidates)
      /\ decision' = IF best = 0 THEN NoMatch ELSE Decision(ScoreAt(best), candidates[best])
  BY DEF Decide, Scanning
<1> QED
  BY <1>1 DEF MatchInv, BestSoFar, Taken, ScoreAt

LEMMA MatchInductive == MatchInv /\ [MatchNext]_matchVars => MatchInv'
<1> SUFFICES ASSUME MatchInv, [MatchNext]_matchVars PROVE MatchInv'
  OBVIOUS
<1>1. CASE UNCHANGED matchVars
  BY <1>1 DEF matchVars, MatchInv, BestSoFar, Taken, ScoreAt
<1> QED
  BY <1>1, FetchKeeps, ConsiderKeeps, DecideKeeps DEF MatchNext

LEMMA BestIsAnAnswer ==
  ASSUME MatchInv, decision # Pending
  PROVE  decision \in Answers(record, places)
<1> DEFINE C == {candidates[i] : i \in 1..Len(candidates)}
<1>1. /\ next # 0 /\ next \in Nat /\ next > Len(candidates)
      /\ record \in RecordRows /\ places \in [Ids -> PlaceRows]
      /\ candidates \in FindCandidates(record, places)
  BY DEF MatchInv
<1>2. /\ Len(candidates) \in Nat /\ C \in Fetched(record, places)
      /\ \A i, j \in 1..Len(candidates) :
           i < j => Meters(record, places[candidates[i]]) <= Meters(record, places[candidates[j]])
      /\ \A i \in 1..Len(candidates) : candidates[i] \in Ids
  BY <1>1, CandidatesAre
<1>3. CASE best = 0
  <2>1. Len(candidates) = 0
    BY <1>1, <1>2, <1>3 DEF MatchInv
  <2>2. C = {}
    BY <2>1
  <2>3. decision = NoMatch
    BY <1>3 DEF MatchInv
  <2> QED
    BY <1>2, <2>2, <2>3 DEF Answers
<1>4. CASE best # 0
  <2>1. best \in 1..Len(candidates) /\ candidates[best] \in C
    BY <1>1, <1>4 DEF MatchInv, Taken
  <2>2. ASSUME NEW q \in C
        PROVE  /\ ~Exceeds(Score(record, places[q]), Score(record, places[candidates[best]]))
               /\ \/ Exceeds(Score(record, places[candidates[best]]), Score(record, places[q]))
                  \/ Meters(record, places[candidates[best]]) <= Meters(record, places[q])
    <3>1. PICK n \in 1..Len(candidates) : q = candidates[n]
      BY <2>2
    <3>2. Taken(n) /\ n \in Nat
      BY <1>1, <1>2, <3>1 DEF Taken
    <3>3. ~Exceeds(ScoreAt(n), ScoreAt(best)) /\ (n < best => Exceeds(ScoreAt(best), ScoreAt(n)))
      BY <1>1, <3>2 DEF MatchInv, BestSoFar
    <3>4. best <= n => Meters(record, places[candidates[best]]) <= Meters(record, places[candidates[n]])
      <4>1. places[candidates[n]] \in PlaceRows
        BY <1>1, <1>2, <3>1
      <4>2. Meters(record, places[candidates[n]]) \in Nat
        BY <1>1, <4>1, ComponentTypes
      <4>3. CASE best = n
        BY <4>2, <4>3
      <4>4. CASE best < n
        BY <1>2, <2>1, <4>4
      <4> QED
        BY <1>2, <2>1, <4>3, <4>4
    <3> QED
      BY <1>2, <2>1, <3>1, <3>3, <3>4 DEF ScoreAt
  <2>3. candidates[best] \in Best(record, places, C)
    BY <2>1, <2>2 DEF Best
  <2>4. decision = Decision(Score(record, places[candidates[best]]), candidates[best])
    BY <1>4 DEF MatchInv, ScoreAt
  <2>5. C # {}
    BY <2>1
  <2> HIDE DEF C
  <2> QED
    BY <1>2, <2>3, <2>4, <2>5 DEF Answers
<1> QED
  BY <1>3, <1>4

(* The loop of Match answers what the order-free definition allows: of the  *)
(* candidates fetched, one that none exceeds, the nearest of equals.  It is *)
(* the answer that Reconcile builds on.                                     *)
THEOREM MatchIsCorrect == MatchSpec => []MatchMeetsReference
<1>1. MatchInv => MatchMeetsReference
  BY BestIsAnAnswer DEF MatchMeetsReference
<1> QED
  BY <1>1, MatchInitially, MatchInductive, PTL DEF MatchSpec

(* No record is attached with confidence on one signal alone, whatever the  *)
(* names, the address and the other candidates: with these weights and this *)
(* threshold the place is within 20 m and shares half of the name's tokens. *)
THEOREM ConfidenceIsEarned == MatchSpec => []ConfidentNeedsBothSignals
<1>1. MatchInv => ConfidentNeedsBothSignals
  <2> SUFFICES ASSUME MatchInv, Matched, decision.kind = "confident"
               PROVE  LET p == places[decision.place]
                      IN Meters(record, p) <= 20 /\ 2 * NameScore(record, p).num >= NameScore(record, p).den
    BY DEF ConfidentNeedsBothSignals
  <2>1. /\ next # 0 /\ best # 0 /\ Taken(best) /\ record \in RecordRows /\ places \in [Ids -> PlaceRows]
        /\ decision = Decision(ScoreAt(best), candidates[best])
    BY DEF MatchInv, Matched
  <2>2. best \in 1..Len(candidates) /\ candidates[best] \in Ids
    BY <2>1, ScoreAtType DEF Taken
  <2>3. decision = [kind |-> KindOf(ScoreAt(best)), place |-> candidates[best]]
    BY <2>1 DEF Decision, Matched
  <2>4. KindOf(Score(record, places[candidates[best]])) = "confident" /\ decision.place = candidates[best]
    BY <2>3 DEF ScoreAt
  <2> QED
    BY <2>1, <2>2, <2>4, ConfidentParts
<1> QED
  BY <1>1, MatchInitially, MatchInductive, PTL DEF MatchSpec

(* A street and a house number that agree never cost a candidate anything   *)
(* against having no address, although its weight is then shared out.       *)
THEOREM AddressNeverHurts == MatchSpec => []FullAddressNeverHurts
<1>1. MatchInv => FullAddressNeverHurts
  BY AddressHelps DEF MatchInv, FullAddressNeverHurts
<1> QED
  BY <1>1, MatchInitially, MatchInductive, PTL DEF MatchSpec

----------------------------------------------------------------------------
(* Reconcile: the answers it is given.                                      *)

(* What a decision of the matcher is, whatever the scores.                  *)
LEMMA AnswersType ==
  ASSUME NEW r, NEW a \in Answers(r, Table)
  PROVE  a # NoMatch => a.place \in Places /\ place[a.place] # NoRow
<1> SUFFICES ASSUME a # NoMatch PROVE a.place \in Places /\ place[a.place] # NoRow
  OBVIOUS
<1>1. PICK C \in Fetched(r, Table) :
        a \in IF C = {} THEN {NoMatch}
              ELSE {Decision(Score(r, Table[p]), p) : p \in Best(r, Table, C)}
  BY DEF Answers
<1>2. PICK p \in Best(r, Table, C) : a = Decision(Score(r, Table[p]), p)
  BY <1>1
<1>3. C \subseteq Eligible(r, Table)
  BY DEF Fetched
<1>4. p \in DOMAIN Table
  BY <1>2, <1>3 DEF Best, Eligible
<1>5. a.place = p
  BY <1>2 DEF Decision
<1> QED
  BY <1>4, <1>5 DEF Table

----------------------------------------------------------------------------
(* Type correctness.                                                        *)

LEMMA NearTouchedType ==
  ASSUME TypeOK, NEW touched
  PROVE  NearTouched(touched) \in SUBSET Snapshot
BY DEF NearTouched, TypeOK, QueueRow, Snapshot, Queued

LEMMA CountsUp ==
  ASSUME NEW n \in 1..MaxAttempts
  PROVE  OneMore(n) \in 1..MaxAttempts /\ OneMore(n) >= n
BY BoundAssumption DEF OneMore

(* A row that is bumped is a row, under its number.                          *)
LEMMA Bumped ==
  ASSUME TypeOK, NEW r \in Records, Queued(r)
  PROVE  LET new == [queue[r] EXCEPT !.attempts = OneMore(@)]
         IN /\ new \in QueueRow /\ new # NoRow /\ new.id = queue[r].id
            /\ queue[r].attempts \in 1..MaxAttempts /\ new.attempts >= queue[r].attempts
<1> DEFINE new == [queue[r] EXCEPT !.attempts = OneMore(@)]
<1>1. queue[r] \in QueueRow /\ queue[r].attempts \in 1..MaxAttempts
  BY DEF Queued, TypeOK, QueueRow
<1>2. OneMore(queue[r].attempts) \in 1..MaxAttempts /\ OneMore(queue[r].attempts) >= queue[r].attempts
  BY <1>1, CountsUp
<1>3. /\ new \in QueueRow /\ new.id = queue[r].id
      /\ new.attempts = OneMore(queue[r].attempts)
  BY <1>1, <1>2 DEF QueueRow
<1>4. new # NoRow
  BY <1>3 DEF QueueRow, NoRow
<1> QED
  BY <1>1, <1>2, <1>3, <1>4

LEMMA FeedStep ==
  ASSUME TypeOK, NEW f \in Feeds, FeedNext(f)
  PROVE  TypeOK'
<1> USE SourceAssumption, BoundAssumption DEF TypeOK
<1>1. ASSUME NEW r \in Records, NEW row \in RecordRows, Resolve(f, r, row)
      PROVE  TypeOK'
  <2>1. PICK a \in Answers(row, Table) :
          feed' = [feed EXCEPT ![f] =
            IF a = NoMatch THEN [pc |-> "enqueue", record |-> r, row |-> row]
                           ELSE [pc |-> "attach", record |-> r, place |-> a.place]]
    BY <1>1 DEF Resolve
  <2>2. feed' \in [Feeds -> FeedState]
    BY <2>1, AnswersType DEF FeedState
  <2> QED
    BY <1>1, <2>2 DEF Resolve
<1>2. CASE ResolveAttach(f)
  <2>1. feed[f].record \in Records /\ feed[f].place \in Places
    BY <1>2 DEF ResolveAttach, FeedState, Idle
  <2> QED
    BY <1>2, <2>1 DEF ResolveAttach, AttachExternalRef, FeedState
<1>3. CASE ResolveEnqueue(f)
  <2> DEFINE r == feed[f].record
             row == feed[f].row
  <2>1. r \in Records /\ row \in RecordRows
    BY <1>3 DEF ResolveEnqueue, FeedState, Idle
  <2>2. queue' \in [Records -> QueueRow \cup {NoRow}]
    BY <1>3, <2>1 DEF ResolveEnqueue, Enqueue, NewRow, Refreshed, OneMore, QueueRow, Queued
  <2>3. nextId' \in Nat
    BY <1>3 DEF ResolveEnqueue, Enqueue, NewRow, Refreshed, OneMore
  <2>4. feed' \in [Feeds -> FeedState]
    BY <1>3 DEF ResolveEnqueue, FeedState
  <2>5. settled' \subseteq Records /\ requeued' \in [Importers -> SUBSET Records]
    BY <1>3, <2>1 DEF ResolveEnqueue, Enqueue, NewRow, Refreshed, OneMore
  <2> QED
    BY <1>3, <2>2, <2>3, <2>4, <2>5 DEF ResolveEnqueue
<1>4. CASE ResolveFails(f)
  BY <1>4 DEF ResolveFails, FeedState
<1> QED
  BY <1>1, <1>2, <1>3, <1>4 DEF FeedNext

LEMMA SweepType ==
  ASSUME TypeOK, NEW i \in Importers, importer[i].pc \in {"sweeping", "attach", "delete", "bump"}
  PROVE  /\ importer[i].rows \in SUBSET Snapshot
         /\ importer[i].pc # "sweeping" =>
              /\ importer[i].current \in Snapshot
              /\ importer[i].current.record \in Records
              /\ importer[i].current.id \in Nat
         /\ importer[i].pc \in {"attach", "delete"} => importer[i].place \in Places
BY DEF TypeOK, ImporterState, Idle, Snapshot

LEMMA ImporterStep ==
  ASSUME TypeOK, NEW i \in Importers, ImporterNext(i)
  PROVE  TypeOK'
<1> USE PlacesAssumption, SourceAssumption, BoundAssumption DEF TypeOK
<1>1. CASE StartImport(i)
  BY <1>1 DEF StartImport, ImporterState
<1>2. ASSUME NEW batch \in Batches, FlushBatch(i, batch)
      PROVE  TypeOK'
  <2>1. PICK B \in SUBSET OsmPlaces : batch \in [B -> PlaceRows]
    BY DEF Batches
  <2>2. DOMAIN batch \subseteq OsmPlaces /\ \A p \in DOMAIN batch : batch[p] \in PlaceRows
    BY <2>1
  <2>3. place' \in [Places -> PlaceRows \cup {NoRow}]
    BY <1>2, <2>2 DEF FlushBatch, Upserted
  <2>4. ref' \in [Places -> [Sources -> Records \cup {NoRecord}]]
    BY <1>2 DEF FlushBatch
  <2>5. importer[i] \in [pc : {"flushing"}, touched : SUBSET OsmPlaces, flushes : 0..MaxFlushes]
    BY <1>2 DEF FlushBatch, ImporterState, Idle
  <2>6. [importer[i] EXCEPT !.touched = @ \cup DOMAIN batch, !.flushes = @ + 1]
          \in [pc : {"flushing"}, touched : SUBSET OsmPlaces, flushes : 0..MaxFlushes]
    BY <1>2, <2>2, <2>5 DEF FlushBatch
  <2>7. importer' \in [Importers -> ImporterState]
    BY <1>2, <2>6 DEF FlushBatch, ImporterState
  <2>8. settled' \subseteq Records
    BY <1>2 DEF FlushBatch
  <2> QED
    BY <1>2, <2>3, <2>4, <2>7, <2>8 DEF FlushBatch
<1>3. CASE BeginSweep(i)
  <2>1. NearTouched(importer[i].touched) \in SUBSET Snapshot
    BY NearTouchedType
  <2>2. importer' \in [Importers -> ImporterState]
    BY <1>3, <2>1 DEF BeginSweep, ImporterState
  <2>3. requeued' \in [Importers -> SUBSET Records] /\ gone' \in [Importers -> SUBSET Records]
    BY <1>3 DEF BeginSweep
  <2> QED
    BY <1>3, <2>2, <2>3 DEF BeginSweep
<1>4. CASE SweepMatch(i)
  <2>1. PICK s \in importer[i].rows : \E a \in Answers(s.row, Table) :
          importer' = [importer EXCEPT ![i] =
            IF a = NoMatch
            THEN [pc |-> "bump", rows |-> @.rows \ {s}, current |-> s]
            ELSE [pc |-> "attach", rows |-> @.rows \ {s}, current |-> s, place |-> a.place]]
    BY <1>4 DEF SweepMatch
  <2>2. PICK a \in Answers(s.row, Table) :
          importer' = [importer EXCEPT ![i] =
            IF a = NoMatch
            THEN [pc |-> "bump", rows |-> @.rows \ {s}, current |-> s]
            ELSE [pc |-> "attach", rows |-> @.rows \ {s}, current |-> s, place |-> a.place]]
    BY <2>1
  <2>3. importer[i].rows \in SUBSET Snapshot /\ s \in Snapshot
    BY <1>4, SweepType DEF SweepMatch
  <2>4. a # NoMatch => a.place \in Places
    BY AnswersType
  <2>5. importer' \in [Importers -> ImporterState]
    BY <2>2, <2>3, <2>4 DEF ImporterState
  <2> QED
    BY <1>4, <2>5 DEF SweepMatch
<1>5. CASE SweepAttach(i)
  <2>1. importer[i].current.record \in Records /\ importer[i].place \in Places
    BY <1>5, SweepType DEF SweepAttach
  <2>2. importer' \in [Importers -> ImporterState]
    <3> DEFINE Holding == [pc : {"attach", "delete"}, rows : SUBSET Snapshot,
                           current : Snapshot, place : Places]
    <3>1. importer[i] \in Holding
      BY <1>5 DEF SweepAttach, ImporterState, Idle
    <3>2. [importer[i] EXCEPT !.pc = "delete"] \in Holding
      BY <3>1
    <3> HIDE DEF Holding
    <3>3. Holding \subseteq ImporterState
      BY DEF Holding, ImporterState
    <3> QED
      BY <1>5, <3>2, <3>3 DEF SweepAttach
  <2>3. ref' \in [Places -> [Sources -> Records \cup {NoRecord}]] /\ settled' \subseteq Records
    BY <1>5, <2>1 DEF SweepAttach, AttachExternalRef
  <2> QED
    BY <1>5, <2>2, <2>3 DEF SweepAttach
<1>6. ASSUME NextRow(i), importer[i].pc \in {"attach", "delete", "bump"}
      PROVE  importer' \in [Importers -> ImporterState]
  BY <1>6, SweepType DEF NextRow, ImporterState
<1>7. CASE SweepDelete(i)
  <2>1. importer' \in [Importers -> ImporterState]
    BY <1>6, <1>7 DEF SweepDelete
  <2>2. queue' \in [Records -> QueueRow \cup {NoRow}] /\ settled' \subseteq Records
    BY <1>7 DEF SweepDelete
  <2>3. gone' \in [Importers -> SUBSET Records]
    BY <1>7 DEF SweepDelete, RowsWithId
  <2> QED
    BY <1>7, <2>1, <2>2, <2>3 DEF SweepDelete
<1>8. CASE SweepBump(i)
  <2>1. importer' \in [Importers -> ImporterState]
    BY <1>6, <1>8 DEF SweepBump
  <2>2. \A r \in RowsWithId(importer[i].current) : [queue[r] EXCEPT !.attempts = OneMore(@)] \in QueueRow
    BY Bumped DEF RowsWithId
  <2>3. queue' \in [Records -> QueueRow \cup {NoRow}]
    BY <1>8, <2>2 DEF SweepBump
  <2> QED
    BY <1>8, <2>1, <2>3 DEF SweepBump
<1>9. CASE SweepRowFails(i)
  <2>1. CASE importer[i].pc \in {"attach", "delete", "bump"} /\ NextRow(i)
    BY <1>6, <1>9, <2>1 DEF SweepRowFails
  <2>2. ASSUME importer[i].pc = "sweeping",
               NEW s \in importer[i].rows, importer' = [importer EXCEPT ![i].rows = @ \ {s}]
        PROVE  importer' \in [Importers -> ImporterState]
    <3>1. importer[i] \in [pc : {"sweeping"}, rows : SUBSET Snapshot]
      BY <2>2 DEF ImporterState, Idle
    <3> QED
      BY <2>2, <3>1 DEF ImporterState
  <2> QED
    BY <1>9, <2>1, <2>2 DEF SweepRowFails
<1>10. CASE EndSweep(i)
  BY <1>10 DEF EndSweep, ImporterState
<1>11. CASE ImportDies(i)
  BY <1>11 DEF ImportDies, ImporterState
<1> QED
  BY <1>1, <1>2, <1>3, <1>4, <1>5, <1>7, <1>8, <1>9, <1>10, <1>11 DEF ImporterNext, SweepStep

(* Every variable keeps its type.                                           *)
THEOREM TypeCorrect == Spec => []TypeOK
<1>1. Init => TypeOK
  BY BoundAssumption DEF Init, TypeOK, FeedState, ImporterState
<1>2. TypeOK /\ [Next]_vars => TypeOK'
  <2> SUFFICES ASSUME TypeOK, [Next]_vars PROVE TypeOK'
    OBVIOUS
  <2>1. CASE \E f \in Feeds : FeedNext(f)
    BY <2>1, FeedStep
  <2>2. CASE \E i \in Importers : ImporterNext(i)
    BY <2>2, ImporterStep
  <2>3. ASSUME NEW p \in Places, NEW row \in PlaceRows, CreatePlace(p, row)
        PROVE  TypeOK'
    BY <2>3 DEF CreatePlace, TypeOK
  <2>4. CASE UNCHANGED vars
    BY <2>4 DEF vars, TypeOK
  <2> QED
    BY <2>1, <2>2, <2>3, <2>4 DEF Next
<1> QED
  BY <1>1, <1>2, PTL DEF Spec

----------------------------------------------------------------------------
(* The rows of the queue.                                                   *)

InSweep(m) == m.pc \in {"sweeping", "attach", "delete", "bump"}

LEMMA ImporterMoves ==
  ASSUME TypeOK, [Next]_vars, NEW i \in Importers, importer'[i] # importer[i]
  PROVE  ImporterNext(i)
<1>1. ASSUME NEW j \in Importers \ {i}, ImporterNext(j)
      PROVE  FALSE
  <2>1. ASSUME NEW n, importer' = [importer EXCEPT ![j] = n]
        PROVE  FALSE
    BY <2>1 DEF TypeOK
  <2>2. CASE StartImport(j) \/ BeginSweep(j) \/ EndSweep(j) \/ ImportDies(j)
    BY <2>1, <2>2 DEF StartImport, BeginSweep, EndSweep, ImportDies
  <2>3. CASE \E batch \in Batches : FlushBatch(j, batch)
    BY <2>3 DEF FlushBatch, TypeOK
  <2>4. CASE SweepMatch(j)
    BY <2>4 DEF SweepMatch, TypeOK
  <2>5. CASE SweepAttach(j) \/ SweepDelete(j) \/ SweepBump(j)
    BY <2>1, <2>5 DEF SweepAttach, SweepDelete, SweepBump, NextRow
  <2>6. CASE SweepRowFails(j)
    BY <2>6 DEF SweepRowFails, NextRow, TypeOK
  <2> QED
    BY <1>1, <2>2, <2>3, <2>4, <2>5, <2>6 DEF ImporterNext, SweepStep
<1> QED
  BY <1>1 DEF Next, vars, FeedNext, Resolve, ResolveAttach, ResolveEnqueue, ResolveFails, CreatePlace

(* What a step makes of the row of a record.                                *)
Inserted(r) ==
  /\ ~Queued(r) /\ queue'[r] \in QueueRow
  /\ queue'[r].id = nextId /\ nextId' = nextId + 1

Rewritten(r) ==
  /\ Queued(r) /\ queue'[r] \in QueueRow
  /\ queue'[r].id = queue[r].id /\ queue'[r].attempts >= queue[r].attempts

Deleted(r) == queue'[r] = NoRow

LEMMA EnqueueStep ==
  ASSUME TypeOK, NEW f \in Feeds, ResolveEnqueue(f)
  PROVE  /\ nextId' \in {nextId, nextId + 1} /\ UNCHANGED gone
         /\ \E r \in Records :
              /\ Inserted(r) \/ Rewritten(r)
              /\ \A q \in Records \ {r} : queue'[q] = queue[q]
<1>1. PICK r \in Records, row \in RecordRows : r = feed[f].record /\ row = feed[f].row
  BY DEF ResolveEnqueue, TypeOK, FeedState, Idle
<1>2. nextId' = (IF nextId <= MaxRowId THEN nextId + 1 ELSE nextId) /\ UNCHANGED gone
  BY DEF ResolveEnqueue, Enqueue
<1>3. queue' = [queue EXCEPT ![r] = IF Queued(r) THEN Refreshed(@, row) ELSE NewRow(row)]
  BY <1>1 DEF ResolveEnqueue, Enqueue
<1>4. \A q \in Records \ {r} : queue'[q] = queue[q]
  BY <1>3 DEF TypeOK
<1>5. CASE Queued(r)
  <2>1. queue[r] \in QueueRow /\ queue[r].attempts \in 1..MaxAttempts
    BY <1>5 DEF Queued, TypeOK, QueueRow
  <2>2. queue'[r] = [id |-> queue[r].id, row |-> row, attempts |-> OneMore(queue[r].attempts)]
    BY <1>3, <1>5 DEF TypeOK, Refreshed
  <2>3. Rewritten(r)
    BY <1>5, <2>1, <2>2, CountsUp DEF Rewritten, QueueRow
  <2> QED
    BY <1>2, <1>4, <2>3
<1>6. CASE ~Queued(r)
  <2>1. nextId <= MaxRowId
    BY <1>1, <1>6 DEF ResolveEnqueue
  <2>2. queue'[r] = [id |-> nextId, row |-> row, attempts |-> 1]
    BY <1>3, <1>6 DEF TypeOK, NewRow
  <2>3. Inserted(r)
    BY <1>2, <1>6, <2>1, <2>2, BoundAssumption DEF Inserted, QueueRow, TypeOK
  <2> QED
    BY <1>2, <1>4, <2>3
<1> QED
  BY <1>5, <1>6

(* A step inserts a row under a number of its own at most; it rewrites or   *)
(* deletes the others, or leaves them alone.                                *)
LEMMA QueueStep ==
  ASSUME TypeOK, [Next]_vars
  PROVE  /\ nextId' \in {nextId, nextId + 1}
         /\ \A r \in Records :
              queue'[r] = queue[r] \/ Inserted(r) \/ Rewritten(r) \/ Deleted(r)
         /\ \A r \in Records, q \in Records : Inserted(r) /\ Inserted(q) => r = q
         /\ \A j \in Importers : \A r \in gone'[j] : r \in gone[j] \/ Deleted(r)
<1> DEFINE Goal == /\ nextId' \in {nextId, nextId + 1}
                   /\ \A r \in Records :
                        queue'[r] = queue[r] \/ Inserted(r) \/ Rewritten(r) \/ Deleted(r)
                   /\ \A r \in Records, q \in Records : Inserted(r) /\ Inserted(q) => r = q
                   /\ \A j \in Importers : \A r \in gone'[j] : r \in gone[j] \/ Deleted(r)
<1>1. CASE UNCHANGED <<queue, nextId, gone>>
  BY <1>1 DEF Inserted, TypeOK
<1>2. ASSUME NEW f \in Feeds, ResolveEnqueue(f)
      PROVE  Goal
  <2>1. PICK r \in Records : /\ Inserted(r) \/ Rewritten(r)
                             /\ \A q \in Records \ {r} : queue'[q] = queue[q]
    BY <1>2, EnqueueStep
  <2>2. nextId' \in {nextId, nextId + 1} /\ UNCHANGED gone
    BY <1>2, EnqueueStep
  <2>3. \A q \in Records : Inserted(q) => q = r
    <3>1. ASSUME NEW q \in Records \ {r}, Inserted(q)
          PROVE  FALSE
      BY <2>1, <3>1 DEF Inserted, Queued, QueueRow, NoRow
    <3> QED
      BY <3>1
  <2> QED
    BY <2>1, <2>2, <2>3
<1>3. ASSUME NEW i \in Importers, SweepDelete(i)
      PROVE  Goal
  <2>1. PICK hit : hit = RowsWithId(importer[i].current) /\ hit \subseteq Records
    BY DEF RowsWithId
  <2>2. /\ queue' = [r \in Records |-> IF r \in hit THEN NoRow ELSE queue[r]]
        /\ gone' = [j \in Importers |-> gone[j] \cup hit]
        /\ nextId' = nextId
    BY <1>3, <2>1 DEF SweepDelete
  <2> QED
    BY <2>1, <2>2 DEF Inserted, Deleted, TypeOK
<1>4. ASSUME NEW i \in Importers, SweepBump(i)
      PROVE  Goal
  <2>1. PICK hit : hit = RowsWithId(importer[i].current)
    OBVIOUS
  <2>2. /\ queue' = [r \in Records |->
             IF r \in hit THEN [queue[r] EXCEPT !.attempts = OneMore(@)] ELSE queue[r]]
        /\ UNCHANGED <<nextId, gone>>
    BY <1>4, <2>1 DEF SweepBump
  <2>3. ASSUME NEW r \in hit
        PROVE  r \in Records /\ Rewritten(r)
    BY <2>1, <2>2, <2>3, Bumped DEF RowsWithId, Rewritten
  <2> QED
    BY <2>2, <2>3 DEF Inserted, TypeOK
<1>5. ASSUME NEW f \in Feeds,
             \/ \E r \in Records, row \in RecordRows : Resolve(f, r, row)
             \/ ResolveAttach(f) \/ ResolveFails(f)
      PROVE  UNCHANGED <<queue, nextId, gone>>
  BY <1>5 DEF Resolve, ResolveAttach, ResolveFails
<1>6. ASSUME NEW i \in Importers,
             \/ StartImport(i) \/ (\E batch \in Batches : FlushBatch(i, batch))
             \/ SweepMatch(i) \/ SweepAttach(i) \/ EndSweep(i)
             \/ SweepRowFails(i) \/ ImportDies(i)
      PROVE  UNCHANGED <<queue, nextId, gone>>
  <2>1. CASE \E batch \in Batches : FlushBatch(i, batch)
    BY <2>1 DEF FlushBatch
  <2>2. CASE StartImport(i) \/ EndSweep(i) \/ ImportDies(i)
    BY <2>2 DEF StartImport, EndSweep, ImportDies
  <2>3. CASE SweepMatch(i)
    BY <2>3 DEF SweepMatch
  <2>4. CASE SweepAttach(i) \/ SweepRowFails(i)
    BY <2>4 DEF SweepAttach, SweepRowFails
  <2> QED
    BY <1>6, <2>1, <2>2, <2>3, <2>4
<1>7. ASSUME NEW i \in Importers, BeginSweep(i)
      PROVE  Goal
  <2>1. UNCHANGED <<queue, nextId>> /\ \A j \in Importers : gone'[j] \subseteq gone[j]
    BY <1>7 DEF BeginSweep, TypeOK
  <2> QED
    BY <2>1 DEF Inserted, TypeOK
<1>8. ASSUME NEW p \in Places, NEW row \in PlaceRows, CreatePlace(p, row)
      PROVE  UNCHANGED <<queue, nextId, gone>>
  BY <1>8 DEF CreatePlace
<1> QED
  BY <1>1, <1>2, <1>3, <1>4, <1>5, <1>6, <1>7, <1>8
  DEF Next, FeedNext, ImporterNext, SweepStep, vars

(* Two records never share a row's number, and none is used again.          *)
IdsAreUnique ==
  /\ \A r \in Records : Queued(r) => queue[r].id < nextId
  /\ \A r \in Records, q \in Records :
       Queued(r) /\ Queued(q) /\ queue[r].id = queue[q].id => r = q

(* The rows an import in its sweep still holds.                             *)
Held(m) == m.rows \cup IF m.pc = "sweeping" THEN {} ELSE {m.current}

(* The row that carries the number i has read for s, if there is one, is    *)
(* that of the record it was read of, and has been there since.             *)
Known(i, s) ==
  /\ s.id < nextId
  /\ \A r \in Records : Queued(r) /\ queue[r].id = s.id => r = s.record /\ r \notin gone[i]

HeldRowsAreKnown ==
  \A i \in Importers : InSweep(importer[i]) => \A s \in Held(importer[i]) : Known(i, s)

LEMMA IdsStay ==
  ASSUME TypeOK, IdsAreUnique, [Next]_vars
  PROVE  IdsAreUnique'
<1>1. PICK n \in Nat : n = nextId
  BY DEF TypeOK
<1>2. \A r \in Records : Queued(r) => queue[r].id \in Nat
  BY DEF Queued, TypeOK, QueueRow
<1>3. nextId' \in {n, n + 1}
  BY <1>1, QueueStep
<1>4. ASSUME NEW r \in Records, queue'[r] # NoRow
      PROVE  \/ Inserted(r)
             \/ Queued(r) /\ queue'[r].id = queue[r].id
  BY <1>4, QueueStep DEF Deleted, Rewritten, Queued
<1>5. ASSUME NEW r \in Records, queue'[r] # NoRow
      PROVE  queue'[r].id < nextId'
  BY <1>1, <1>2, <1>3, <1>4, <1>5 DEF IdsAreUnique, Inserted
<1>6. ASSUME NEW r \in Records, NEW q \in Records, queue'[r] # NoRow, queue'[q] # NoRow,
             queue'[r].id = queue'[q].id
      PROVE  r = q
  <2>1. CASE Inserted(r) /\ Inserted(q)
    BY <2>1, QueueStep
  <2>2. CASE Inserted(r) /\ ~Inserted(q)
    <3>1. queue'[r].id = n
      BY <1>1, <2>2 DEF Inserted
    <3>2. PICK k \in Nat : k = queue[q].id /\ k < n /\ k = queue'[q].id
      BY <1>1, <1>2, <1>4, <1>6, <2>2 DEF IdsAreUnique
    <3>3. k = n
      BY <1>6, <3>1, <3>2
    <3> QED
      BY <3>2, <3>3
  <2>3. CASE ~Inserted(r) /\ Inserted(q)
    BY <1>1, <1>2, <1>4, <1>6, <2>3 DEF IdsAreUnique, Inserted
  <2>4. CASE ~Inserted(r) /\ ~Inserted(q)
    BY <1>4, <1>6, <2>4 DEF IdsAreUnique
  <2> QED
    BY <2>1, <2>2, <2>3, <2>4
<1> QED
  BY <1>5, <1>6 DEF IdsAreUnique, Queued

LEMMA KnownStays ==
  ASSUME TypeOK, [Next]_vars, NEW i \in Importers, NEW s \in Snapshot, Known(i, s)
  PROVE  Known(i, s)'
<1>1. PICK n \in Nat, k \in Nat : n = nextId /\ k = s.id
  BY DEF TypeOK, Snapshot
<1>2. nextId' \in {n, n + 1}
  BY <1>1, QueueStep
<1>3. ASSUME NEW r \in Records, queue'[r] # NoRow, queue'[r].id = s.id
      PROVE  r = s.record /\ r \notin gone'[i]
  <2>1. ~Inserted(r)
    BY <1>1, <1>3 DEF Inserted, Known
  <2>2. Queued(r) /\ queue'[r].id = queue[r].id
    BY <1>3, <2>1, QueueStep DEF Deleted, Rewritten, Queued
  <2>3. r = s.record /\ r \notin gone[i]
    BY <1>3, <2>2 DEF Known
  <2> QED
    BY <1>3, <2>3, QueueStep DEF Deleted
<1>4. s.id < nextId'
  BY <1>1, <1>2 DEF Known
<1> QED
  BY <1>3, <1>4 DEF Known, Queued

(* An import in its sweep holds what it held, or has begun it.              *)
LEMMA HeldShrinks ==
  ASSUME TypeOK, NEW i \in Importers, ImporterNext(i), InSweep(importer'[i])
  PROVE  \/ InSweep(importer[i]) /\ Held(importer'[i]) \subseteq Held(importer[i])
         \/ BeginSweep(i) /\ Held(importer'[i]) = NearTouched(importer[i].touched)
<1> DEFINE Goal == \/ InSweep(importer[i]) /\ Held(importer'[i]) \subseteq Held(importer[i])
                   \/ BeginSweep(i) /\ Held(importer'[i]) = NearTouched(importer[i].touched)
<1>1. PICK m : m = importer[i]
  OBVIOUS
<1>2. ASSUME NEW n, importer' = [importer EXCEPT ![i] = n]
      PROVE  importer'[i] = n
  BY <1>2 DEF TypeOK
<1>3. CASE StartImport(i) \/ EndSweep(i) \/ ImportDies(i)
  <2>1. importer'[i].pc \in {"flushing", "idle"}
    BY <1>2, <1>3 DEF StartImport, EndSweep, ImportDies, Idle
  <2> QED
    BY <2>1 DEF InSweep
<1>4. ASSUME NEW batch \in Batches, FlushBatch(i, batch)
      PROVE  Goal
  <2>1. m \in [pc : {"flushing"}, touched : SUBSET OsmPlaces, flushes : 0..MaxFlushes]
    BY <1>1, <1>4 DEF FlushBatch, TypeOK, ImporterState, Idle
  <2>2. importer'[i] = [m EXCEPT !.touched = @ \cup DOMAIN batch, !.flushes = @ + 1]
    BY <1>1, <1>4 DEF FlushBatch, TypeOK
  <2>3. importer'[i].pc = "flushing"
    BY <2>1, <2>2
  <2> QED
    BY <2>3 DEF InSweep
<1>5. CASE BeginSweep(i)
  <2>1. importer'[i] = Idle \/ importer'[i] = [pc |-> "sweeping", rows |-> NearTouched(m.touched)]
    BY <1>1, <1>2, <1>5 DEF BeginSweep
  <2>2. importer'[i] # Idle
    BY DEF InSweep, Idle
  <2> QED
    BY <1>1, <1>5, <2>1, <2>2 DEF Held
<1>6. CASE SweepMatch(i)
  <2>1. PICK s \in m.rows : \E a \in Answers(s.row, Table) :
          importer' = [importer EXCEPT ![i] =
            IF a = NoMatch
            THEN [pc |-> "bump", rows |-> m.rows \ {s}, current |-> s]
            ELSE [pc |-> "attach", rows |-> m.rows \ {s}, current |-> s, place |-> a.place]]
    BY <1>1, <1>6 DEF SweepMatch
  <2>2. PICK a \in Answers(s.row, Table) :
          importer' = [importer EXCEPT ![i] =
            IF a = NoMatch
            THEN [pc |-> "bump", rows |-> m.rows \ {s}, current |-> s]
            ELSE [pc |-> "attach", rows |-> m.rows \ {s}, current |-> s, place |-> a.place]]
    BY <2>1
  <2>3. importer'[i].pc # "sweeping" /\ importer'[i].rows = m.rows \ {s} /\ importer'[i].current = s
    <3>1. \/ importer'[i] = [pc |-> "bump", rows |-> m.rows \ {s}, current |-> s]
          \/ importer'[i] = [pc |-> "attach", rows |-> m.rows \ {s}, current |-> s, place |-> a.place]
      BY <1>2, <2>2
    <3> QED
      BY <3>1
  <2>4. Held(importer'[i]) \subseteq m.rows
    BY <2>3 DEF Held
  <2> QED
    BY <1>1, <1>6, <2>4 DEF SweepMatch, InSweep, Held
<1>7. CASE SweepAttach(i)
  <2>1. m.pc = "attach" /\ importer'[i] = [m EXCEPT !.pc = "delete"]
    BY <1>1, <1>7 DEF SweepAttach, TypeOK
  <2>2. m \in [pc : {"attach", "delete"}, rows : SUBSET Snapshot, current : Snapshot, place : Places]
    BY <1>1, <2>1 DEF TypeOK, ImporterState, Idle
  <2>3. importer'[i].rows = m.rows /\ importer'[i].current = m.current
    BY <2>1, <2>2
  <2> QED
    BY <1>1, <2>1, <2>3 DEF InSweep, Held
<1>8. ASSUME NextRow(i), m.pc \in {"attach", "delete", "bump"}
      PROVE  Goal
  <2>1. importer'[i] = [pc |-> "sweeping", rows |-> m.rows]
    BY <1>1, <1>8 DEF NextRow, TypeOK
  <2> QED
    BY <1>1, <1>8, <2>1 DEF InSweep, Held
<1>9. CASE SweepDelete(i) \/ SweepBump(i)
  BY <1>1, <1>8, <1>9 DEF SweepDelete, SweepBump
<1>10. CASE SweepRowFails(i)
  <2>1. CASE m.pc \in {"attach", "delete", "bump"} /\ NextRow(i)
    BY <1>8, <2>1
  <2>2. ASSUME m.pc = "sweeping", NEW s \in m.rows, importer' = [importer EXCEPT ![i].rows = @ \ {s}]
        PROVE  Goal
    <3>1. m \in [pc : {"sweeping"}, rows : SUBSET Snapshot]
      BY <1>1, <2>2 DEF TypeOK, ImporterState, Idle
    <3>2. importer'[i] = [m EXCEPT !.rows = m.rows \ {s}]
      BY <1>1, <2>2 DEF TypeOK
    <3>3. importer'[i].pc = "sweeping" /\ importer'[i].rows = m.rows \ {s}
      BY <2>2, <3>1, <3>2
    <3> QED
      BY <1>1, <2>2, <3>3 DEF InSweep, Held
  <2> QED
    BY <1>1, <1>10, <2>1, <2>2 DEF SweepRowFails
<1> QED
  BY <1>3, <1>4, <1>5, <1>6, <1>7, <1>9, <1>10 DEF ImporterNext, SweepStep

LEMMA HeldStay ==
  ASSUME TypeOK, IdsAreUnique, HeldRowsAreKnown, [Next]_vars
  PROVE  HeldRowsAreKnown'
<1>1. ASSUME NEW i \in Importers, InSweep(importer[i])
      PROVE  Held(importer[i]) \subseteq Snapshot
  BY <1>1, SweepType DEF InSweep, Held
<1>2. ASSUME NEW i \in Importers, InSweep(importer[i]), NEW s \in Held(importer[i])
      PROVE  Known(i, s)'
  BY <1>1, <1>2, KnownStays DEF HeldRowsAreKnown
<1>3. ASSUME NEW i \in Importers, BeginSweep(i), NEW s \in NearTouched(importer[i].touched)
      PROVE  Known(i, s)'
  <2>1. PICK q \in Records : Queued(q) /\ s = [record |-> q, id |-> queue[q].id, row |-> queue[q].row]
    BY <1>3 DEF NearTouched
  <2>2. UNCHANGED <<queue, nextId>> /\ gone'[i] = {}
    BY <1>3 DEF BeginSweep, TypeOK
  <2>3. s.id < nextId' /\ s.id = queue[q].id /\ s.record = q
    BY <2>1, <2>2 DEF IdsAreUnique
  <2>4. ASSUME NEW r \in Records, queue'[r] # NoRow, queue'[r].id = s.id
        PROVE  r = s.record /\ r \notin gone'[i]
    BY <2>1, <2>2, <2>3, <2>4 DEF IdsAreUnique, Queued
  <2> QED
    BY <2>3, <2>4 DEF Known, Queued
<1>4. ASSUME NEW i \in Importers, InSweep(importer'[i]), NEW s \in Held(importer'[i])
      PROVE  Known(i, s)'
  <2>1. CASE importer'[i] = importer[i]
    BY <1>2, <1>4, <2>1
  <2>2. CASE importer'[i] # importer[i]
    <3>1. ImporterNext(i)
      BY <2>2, ImporterMoves
    <3> QED
      BY <1>2, <1>3, <1>4, <3>1, HeldShrinks
  <2> QED
    BY <2>1, <2>2
<1> QED
  BY <1>4 DEF HeldRowsAreKnown, InSweep, Held

LEMMA RowsKnown == Spec => [](IdsAreUnique /\ HeldRowsAreKnown)
<1>1. Init => IdsAreUnique /\ HeldRowsAreKnown
  BY DEF Init, IdsAreUnique, HeldRowsAreKnown, Queued, InSweep, Idle
<1>2. /\ TypeOK /\ IdsAreUnique /\ HeldRowsAreKnown /\ [Next]_vars
      => (IdsAreUnique /\ HeldRowsAreKnown)'
  BY IdsStay, HeldStay
<1> QED
  BY <1>1, <1>2, TypeCorrect, PTL DEF Spec

(* The row that a sweep deletes or bumps by its number.                     *)
LEMMA HitsAreKnown ==
  ASSUME HeldRowsAreKnown, NEW i \in Importers, importer[i].pc \in {"delete", "bump"}
  PROVE  \A r \in RowsWithId(importer[i].current) : r = importer[i].current.record /\ r \notin gone[i]
<1>1. Known(i, importer[i].current)
  BY DEF HeldRowsAreKnown, InSweep, Held
<1> QED
  BY <1>1 DEF Known, RowsWithId

(* The row a sweep deletes or bumps is that of the record it has read, and  *)
(* has been in the queue since, however many imports sweep and feeds write  *)
(* beside it.                                                               *)
THEOREM SweepsHit == Spec => SweepsHitTheirRows
<1>1. ASSUME TypeOK, HeldRowsAreKnown, [Next]_vars, NEW i \in Importers, NEW r \in Records,
             importer[i].pc \in {"delete", "bump"}, importer'[i] # importer[i],
             Queued(r), queue'[r] # queue[r]
      PROVE  r = importer[i].current.record /\ r \notin gone[i]
  <2>1. ImporterNext(i)
    BY <1>1, ImporterMoves
  <2>2. SweepDelete(i) \/ SweepBump(i)
    <3>1. CASE StartImport(i) \/ BeginSweep(i) \/ SweepMatch(i) \/ SweepAttach(i) \/ EndSweep(i)
      BY <1>1, <3>1 DEF StartImport, BeginSweep, SweepMatch, SweepAttach, EndSweep, Idle
    <3>2. CASE \E batch \in Batches : FlushBatch(i, batch)
      BY <1>1, <3>2 DEF FlushBatch
    <3>3. CASE SweepRowFails(i) \/ ImportDies(i)
      BY <1>1, <3>3 DEF SweepRowFails, ImportDies
    <3> QED
      BY <2>1, <3>1, <3>2, <3>3 DEF ImporterNext, SweepStep
  <2>3. r \in RowsWithId(importer[i].current)
    BY <1>1, <2>2 DEF SweepDelete, SweepBump
  <2> QED
    BY <1>1, <2>3, HitsAreKnown
<1>2. TypeOK /\ HeldRowsAreKnown /\ [Next]_vars =>
        [\A i \in Importers, r \in Records :
           /\ importer[i].pc \in {"delete", "bump"} /\ importer'[i] # importer[i]
           /\ Queued(r) /\ queue'[r] # queue[r]
           => r = importer[i].current.record /\ r \notin gone[i]]_vars
  BY <1>1
<1> QED
  BY <1>2, TypeCorrect, RowsKnown, PTL DEF Spec, SweepsHitTheirRows

(* While a row stays in the queue its attempts never go down, whoever       *)
(* enqueues its record again or fails to match it.                          *)
THEOREM AttemptsKept == Spec => AttemptsNeverReset
<1>1. ASSUME TypeOK, [Next]_vars, NEW r \in Records,
             Queued(r), Queued(r)', queue'[r].id = queue[r].id
      PROVE  queue'[r].attempts >= queue[r].attempts
  <2>1. queue[r].attempts \in Nat
    BY <1>1, BoundAssumption DEF TypeOK, Queued, QueueRow
  <2>2. queue'[r] = queue[r] \/ Rewritten(r)
    BY <1>1, QueueStep DEF Inserted, Deleted, Queued
  <2> QED
    BY <2>1, <2>2 DEF Rewritten
<1>2. TypeOK /\ [Next]_vars =>
        [\A r \in Records :
           Queued(r) /\ Queued(r)' /\ queue'[r].id = queue[r].id =>
             queue'[r].attempts >= queue[r].attempts]_vars
  BY <1>1
<1> QED
  BY <1>2, TypeCorrect, PTL DEF Spec, AttemptsNeverReset

----------------------------------------------------------------------------
(* No record is lost.                                                       *)

(* What is attached stays attached, unless it is displaced: then it leaves  *)
(* settled.                                                                 *)
LEMMA AttachKeeps ==
  ASSUME TypeOK, NEW p \in Places, NEW r \in Records, AttachExternalRef(p, r)
  PROVE  /\ settled' \subseteq settled \cup {r}
         /\ Attached(r)'
         /\ \A q \in settled' : Attached(q) => Attached(q)'
<1> USE SourceAssumption DEF TypeOK, AttachExternalRef
<1>1. SourceOf[r] \in Sources
  OBVIOUS
<1>2. ref'[p][SourceOf[r]] = r
  BY <1>1
<1>3. Attached(r)'
  BY <1>2 DEF Attached
<1>4. ASSUME NEW q \in settled', Attached(q)
      PROVE  Attached(q)'
  <2>1. q \in Records /\ SourceOf[q] \in Sources
    OBVIOUS
  <2>2. PICK o \in Places : ref[o][SourceOf[q]] = q
    BY <1>4 DEF Attached
  <2>3. CASE o = p /\ SourceOf[q] = SourceOf[r]
    BY <1>3, <2>2, <2>3
  <2>4. CASE o # p \/ SourceOf[q] # SourceOf[r]
    <3>1. ref'[o][SourceOf[q]] = q
      BY <2>1, <2>2, <2>4
    <3> QED
      BY <3>1 DEF Attached
  <2> QED
    BY <2>3, <2>4
<1> QED
  BY <1>3, <1>4

(* What an upsert wipes leaves settled; the rest keeps its reference.       *)
LEMMA FlushKeeps ==
  ASSUME NEW i, NEW batch, FlushBatch(i, batch), TypeOK
  PROVE  \A q \in settled' : q \in settled /\ (Attached(q) => Attached(q)')
<1> SUFFICES ASSUME NEW q \in settled', Attached(q) PROVE Attached(q)'
  BY DEF FlushBatch
<1>1. q \in Records /\ SourceOf[q] \in Sources
  BY SourceAssumption DEF FlushBatch, TypeOK
<1>2. PICK o \in Places : ref[o][SourceOf[q]] = q
  BY DEF Attached
<1>3. o \notin DOMAIN batch
  BY <1>1, <1>2 DEF FlushBatch
<1>4. ref'[o][SourceOf[q]] = q
  BY <1>2, <1>3 DEF FlushBatch
<1> QED
  BY <1>4 DEF Attached

(* The inductive invariant.                                                 *)
IInv == TypeOK /\ Accounted /\ DeleteIsSafe

(* Steps that leave the two tables alone.                                   *)
LEMMA TablesKept ==
  ASSUME Accounted, UNCHANGED <<ref, queue, settled>>
  PROVE  Accounted'
BY DEF Accounted, Queued, Attached

(* Steps after which i is not about to delete, the others being unmoved.    *)
LEMMA OthersKept ==
  ASSUME TypeOK, DeleteIsSafe, NEW i \in Importers,
         importer' = [importer EXCEPT ![i] = importer'[i]], importer'[i].pc # "delete",
         settled' \subseteq settled,
         \A j \in Importers : j # i => requeued'[j] = requeued[j],
         \A q \in settled' : Attached(q) => Attached(q)'
  PROVE  DeleteIsSafe'
<1> SUFFICES ASSUME NEW j \in Importers, importer'[j].pc = "delete",
                    NEW r \in settled', r = importer'[j].current.record, r \notin requeued'[j]
             PROVE  Attached(r)'
  BY DEF DeleteIsSafe, Attached
<1>1. j # i /\ importer'[j] = importer[j] /\ requeued'[j] = requeued[j]
  BY DEF TypeOK
<1>2. Attached(r)
  BY <1>1 DEF DeleteIsSafe
<1> QED
  BY <1>2

LEMMA FeedKeeps ==
  ASSUME IInv, NEW f \in Feeds, FeedNext(f)
  PROVE  Accounted' /\ DeleteIsSafe'
<1> USE DEF IInv
<1>1. CASE UNCHANGED <<ref, queue, importer, settled, requeued>>
  BY <1>1 DEF Accounted, DeleteIsSafe, Queued, Attached
<1>2. CASE ResolveAttach(f)
  <2>1. PICK r \in Records : r = feed[f].record /\ feed[f].place \in Places
    BY <1>2 DEF ResolveAttach, TypeOK, FeedState, Idle
  <2>2. /\ settled' \subseteq settled \cup {r}
        /\ Attached(r)'
        /\ \A q \in settled' : Attached(q) => Attached(q)'
    BY <1>2, <2>1, AttachKeeps DEF ResolveAttach
  <2>3. Accounted'
    BY <1>2, <2>2 DEF ResolveAttach, Accounted, Queued, Attached
  <2>4. DeleteIsSafe'
    BY <1>2, <2>2 DEF ResolveAttach, DeleteIsSafe, Attached
  <2> QED
    BY <2>3, <2>4
<1>3. CASE ResolveEnqueue(f)
  <2>1. PICK r \in Records : r = feed[f].record
    BY <1>3 DEF ResolveEnqueue, TypeOK, FeedState, Idle
  <2>2. /\ settled' = settled \cup {r} /\ UNCHANGED <<ref, importer>>
        /\ \A j \in Importers : requeued'[j] = requeued[j] \cup {r}
    BY <1>3, <2>1 DEF ResolveEnqueue, Enqueue, NewRow, Refreshed, OneMore
  <2>3. \A q \in Records : Queued(q) \/ q = r => queue'[q] # NoRow
    BY <1>3, <2>1 DEF ResolveEnqueue, Enqueue, NewRow, Refreshed, OneMore, Queued, TypeOK, NoRow
  <2>4. Accounted'
    BY <2>1, <2>2, <2>3 DEF Accounted, Queued, Attached, TypeOK
  <2>5. DeleteIsSafe'
    BY <2>2 DEF DeleteIsSafe, Attached
  <2> QED
    BY <2>4, <2>5
<1> QED
  BY <1>1, <1>2, <1>3 DEF FeedNext, Resolve, ResolveFails

LEMMA ImporterKeeps ==
  ASSUME IInv, HeldRowsAreKnown, NEW i \in Importers, ImporterNext(i)
  PROVE  Accounted' /\ DeleteIsSafe'
<1> USE DEF IInv
<1>1. CASE /\ UNCHANGED <<ref, queue, settled>>
           /\ importer' = [importer EXCEPT ![i] = importer'[i]] /\ importer'[i].pc # "delete"
           /\ \A j \in Importers : j # i => requeued'[j] = requeued[j]
  <2>1. \A q \in settled' : Attached(q) => Attached(q)'
    BY <1>1 DEF Attached
  <2> QED
    BY <1>1, <2>1, TablesKept, OthersKept
<1>2. CASE StartImport(i) \/ EndSweep(i) \/ ImportDies(i)
  BY <1>1, <1>2 DEF StartImport, EndSweep, ImportDies, TypeOK, Idle
<1>3. ASSUME NEW batch \in Batches, FlushBatch(i, batch)
      PROVE  Accounted' /\ DeleteIsSafe'
  <2>1. \A q \in settled' : q \in settled /\ (Attached(q) => Attached(q)')
    BY <1>3, FlushKeeps
  <2>2. Accounted'
    BY <1>3, <2>1 DEF FlushBatch, Accounted, Queued, Attached
  <2>3. /\ importer' = [importer EXCEPT ![i] = importer'[i]]
        /\ importer'[i].pc # "delete"
    BY <1>3 DEF FlushBatch, TypeOK, ImporterState, Idle
  <2>4. DeleteIsSafe'
    BY <1>3, <2>1, <2>3, OthersKept DEF FlushBatch
  <2> QED
    BY <2>2, <2>4
<1>4. CASE BeginSweep(i)
  BY <1>1, <1>4 DEF BeginSweep, TypeOK, Idle
<1>5. CASE SweepMatch(i)
  BY <1>1, <1>5 DEF SweepMatch, TypeOK
<1>6. CASE SweepAttach(i)
  <2>1. PICK r \in Records : r = importer[i].current.record /\ importer[i].place \in Places
    BY <1>6, SweepType DEF SweepAttach
  <2>2. /\ settled' \subseteq settled \cup {r}
        /\ Attached(r)'
        /\ \A q \in settled' : Attached(q) => Attached(q)'
    BY <1>6, <2>1, AttachKeeps DEF SweepAttach
  <2>3. Accounted'
    BY <1>6, <2>2 DEF SweepAttach, Accounted, Queued, Attached
  <2>4. \A j \in Importers : importer'[j].pc = "delete" =>
          importer'[j].current.record = r \/ importer'[j] = importer[j]
    BY <1>6, <2>1 DEF SweepAttach, TypeOK, ImporterState, Idle
  <2>5. DeleteIsSafe'
    <3> SUFFICES ASSUME NEW j \in Importers, importer'[j].pc = "delete",
                        NEW q \in settled', q = importer'[j].current.record,
                        q \notin requeued'[j]
                 PROVE  Attached(q)'
      BY DEF DeleteIsSafe, Attached
    <3>1. CASE q = r
      BY <2>2, <3>1
    <3>2. CASE q # r
      <4>1. Attached(q)
        BY <1>6, <2>2, <2>4, <3>2 DEF SweepAttach, DeleteIsSafe
      <4> QED
        BY <2>2, <4>1
    <3> QED
      BY <3>1, <3>2
  <2> QED
    BY <2>3, <2>5
<1>7. ASSUME NextRow(i), importer[i].pc # "idle"
      PROVE  importer' = [importer EXCEPT ![i] = importer'[i]] /\ importer'[i].pc # "delete"
  BY <1>7 DEF NextRow, TypeOK
<1>8. CASE SweepDelete(i)
  <2>1. PICK r \in Records : r = importer[i].current.record
    BY <1>8, SweepType DEF SweepDelete
  <2>2. /\ settled' \subseteq settled
        /\ UNCHANGED <<ref, requeued>>
        /\ \A q \in Records : q # r => queue'[q] = queue[q]
        /\ \/ queue'[r] = queue[r]
           \/ r \in requeued[i] => r \notin settled'
    <3>1. RowsWithId(importer[i].current) \subseteq {r}
      BY <1>8, <2>1, HitsAreKnown DEF SweepDelete
    <3> QED
      BY <1>8, <2>1, <3>1 DEF SweepDelete
  <2>3. r \in settled /\ r \notin requeued[i] => Attached(r)
    BY <1>8, <2>1 DEF SweepDelete, DeleteIsSafe
  <2>4. Accounted'
    BY <2>1, <2>2, <2>3 DEF Accounted, Queued, Attached, TypeOK
  <2>5. \A q \in settled' : Attached(q) => Attached(q)'
    BY <2>2 DEF Attached
  <2>6. DeleteIsSafe'
    BY <1>7, <1>8, <2>2, <2>5, OthersKept DEF SweepDelete
  <2> QED
    BY <2>4, <2>6
<1>9. CASE SweepBump(i)
  <2>2. \A q \in Records : Queued(q) => queue'[q] # NoRow
    BY <1>9, Bumped DEF SweepBump, Queued
  <2>3. UNCHANGED <<ref, settled, requeued>>
    BY <1>9 DEF SweepBump
  <2>4. Accounted'
    BY <2>2, <2>3 DEF Accounted, Queued, Attached, TypeOK
  <2>5. \A q \in settled' : Attached(q) => Attached(q)'
    BY <2>3 DEF Attached
  <2>6. DeleteIsSafe'
    BY <1>7, <1>9, <2>3, <2>5, OthersKept DEF SweepBump
  <2> QED
    BY <2>4, <2>6
<1>10. CASE SweepRowFails(i)
  <2>1. UNCHANGED <<ref, queue, settled, requeued>>
    BY <1>10 DEF SweepRowFails
  <2>2. CASE importer[i].pc \in {"attach", "delete", "bump"} /\ NextRow(i)
    BY <1>1, <1>7, <2>1, <2>2
  <2>3. CASE /\ importer[i].pc = "sweeping"
             /\ \E s \in importer[i].rows : importer' = [importer EXCEPT ![i].rows = @ \ {s}]
    <3>1. /\ importer' = [importer EXCEPT ![i] = importer'[i]]
          /\ importer'[i].pc # "delete"
      BY <2>3 DEF TypeOK, ImporterState, Idle
    <3> QED
      BY <1>1, <2>1, <3>1
  <2> QED
    BY <1>10, <2>2, <2>3 DEF SweepRowFails
<1> QED
  BY <1>2, <1>3, <1>4, <1>5, <1>6, <1>8, <1>9, <1>10 DEF ImporterNext, SweepStep

(* No external record that a feed or a sweep has written is lost, whatever  *)
(* fails or dies and however the pipelines interleave.                      *)
THEOREM NoRecordIsLost == Spec => []Accounted
<1>1. Init => IInv
  <2>1. Init => TypeOK
    BY BoundAssumption DEF Init, TypeOK, FeedState, ImporterState
  <2> QED
    BY <2>1 DEF Init, IInv, Accounted, DeleteIsSafe, Idle
<1>2. IInv /\ HeldRowsAreKnown /\ [Next]_vars => IInv'
  <2> SUFFICES ASSUME IInv, HeldRowsAreKnown, [Next]_vars PROVE IInv'
    OBVIOUS
  <2>1. ASSUME NEW f \in Feeds, FeedNext(f)
        PROVE  IInv'
    BY <2>1, FeedStep, FeedKeeps DEF IInv
  <2>2. ASSUME NEW i \in Importers, ImporterNext(i)
        PROVE  IInv'
    BY <2>2, ImporterStep, ImporterKeeps DEF IInv
  <2>3. ASSUME NEW p \in Places, NEW row \in PlaceRows, CreatePlace(p, row)
        PROVE  IInv'
    BY <2>3 DEF CreatePlace, IInv, TypeOK, Accounted, DeleteIsSafe, Queued, Attached
  <2>4. CASE UNCHANGED vars
    BY <2>4 DEF vars, IInv, TypeOK, Accounted, DeleteIsSafe, Queued, Attached
  <2> QED
    BY <2>1, <2>2, <2>3, <2>4 DEF Next
<1>3. IInv => Accounted
  BY DEF IInv
<1> QED
  BY <1>1, <1>2, <1>3, RowsKnown, PTL DEF Spec

----------------------------------------------------------------------------
(* Attaching.                                                               *)

(* No step removes a place.                                                 *)
LEMMA PlacesStay ==
  ASSUME TypeOK, [Next]_vars
  PROVE  \A p \in Places : place[p] # NoRow => place'[p] # NoRow
<1> USE AbsenceAssumption
<1>1. ASSUME NEW i \in Importers, NEW batch \in Batches, FlushBatch(i, batch)
      PROVE  \A p \in Places : place[p] # NoRow => place'[p] # NoRow
  <2>1. PICK B \in SUBSET OsmPlaces : batch \in [B -> PlaceRows]
    BY DEF Batches
  <2> QED
    BY <1>1, <2>1 DEF FlushBatch, Upserted
<1>2. ASSUME NEW p \in Places, NEW row \in PlaceRows, CreatePlace(p, row)
      PROVE  \A q \in Places : place[q] # NoRow => place'[q] # NoRow
  BY <1>2 DEF CreatePlace, TypeOK
<1>3. CASE UNCHANGED place
  BY <1>3
<1>4. ASSUME NEW f \in Feeds, FeedNext(f)
      PROVE  UNCHANGED place
  BY <1>4 DEF FeedNext, Resolve, ResolveAttach, ResolveEnqueue, ResolveFails
<1>5. ASSUME NEW i \in Importers, ImporterNext(i),
             ~ \E batch \in Batches : FlushBatch(i, batch)
      PROVE  UNCHANGED place
  BY <1>5 DEF ImporterNext, StartImport, BeginSweep, SweepStep, SweepMatch, SweepAttach,
              SweepDelete, SweepBump, EndSweep, SweepRowFails, ImportDies
<1> QED
  BY <1>1, <1>2, <1>3, <1>4, <1>5 DEF Next, vars

LEMMA FeedTargets ==
  ASSUME TypeOK, AttachTargetExists, NEW f \in Feeds, FeedNext(f)
  PROVE  AttachTargetExists'
<1>1. UNCHANGED place
  BY DEF FeedNext, Resolve, ResolveAttach, ResolveEnqueue, ResolveFails
<1>2. UNCHANGED importer
  BY DEF FeedNext, Resolve, ResolveAttach, ResolveEnqueue, ResolveFails
<1>3. ASSUME NEW r \in Records, NEW row \in RecordRows, Resolve(f, r, row)
      PROVE  AttachTargetExists'
  <2>1. PICK a \in Answers(row, Table) :
          feed' = [feed EXCEPT ![f] =
            IF a = NoMatch THEN [pc |-> "enqueue", record |-> r, row |-> row]
                           ELSE [pc |-> "attach", record |-> r, place |-> a.place]]
    BY <1>3 DEF Resolve
  <2>2. a # NoMatch => place[a.place] # NoRow
    BY AnswersType
  <2> QED
    BY <1>1, <1>2, <2>1, <2>2 DEF AttachTargetExists, TypeOK
<1>4. CASE feed' = [feed EXCEPT ![f] = Idle]
  BY <1>1, <1>2, <1>4 DEF AttachTargetExists, TypeOK, Idle
<1> QED
  BY <1>3, <1>4 DEF FeedNext, ResolveAttach, ResolveEnqueue, ResolveFails

LEMMA ImporterTargets ==
  ASSUME TypeOK, AttachTargetExists, NEW i \in Importers, ImporterNext(i)
  PROVE  AttachTargetExists'
<1>1. UNCHANGED feed
  <2>1. CASE SweepStep(i)
    BY <2>1 DEF SweepStep, SweepMatch, SweepAttach, SweepDelete, SweepBump, EndSweep
  <2>2. CASE StartImport(i) \/ BeginSweep(i) \/ SweepRowFails(i) \/ ImportDies(i)
    BY <2>2 DEF StartImport, BeginSweep, SweepRowFails, ImportDies
  <2>3. ASSUME NEW batch \in Batches, FlushBatch(i, batch)
        PROVE  UNCHANGED feed
    BY <2>3 DEF FlushBatch
  <2> QED
    BY <2>1, <2>2, <2>3 DEF ImporterNext
<1>2. \A p \in Places : place[p] # NoRow => place'[p] # NoRow
  BY PlacesStay DEF Next
<1>3. CASE /\ importer' = [importer EXCEPT ![i] = importer'[i]]
           /\ importer'[i].pc = "attach" => place'[importer'[i].place] # NoRow
  <2>1. ASSUME NEW f \in Feeds, feed'[f].pc = "attach"
        PROVE  place'[feed'[f].place] # NoRow
    <3>1. feed[f].pc = "attach" /\ feed'[f].place = feed[f].place
      BY <1>1, <2>1
    <3>2. feed[f].place \in Places /\ place[feed[f].place] # NoRow
      BY <3>1 DEF AttachTargetExists, TypeOK, FeedState, Idle
    <3> QED
      BY <1>2, <3>1, <3>2
  <2>2. ASSUME NEW j \in Importers, importer'[j].pc = "attach"
        PROVE  place'[importer'[j].place] # NoRow
    <3>1. CASE j = i
      BY <1>3, <2>2, <3>1
    <3>2. CASE j # i
      <4>1. importer'[j] = importer[j]
        BY <1>3, <3>2 DEF TypeOK
      <4>2. importer[j].place \in Places /\ place[importer[j].place] # NoRow
        BY <2>2, <4>1, SweepType DEF AttachTargetExists
      <4> QED
        BY <1>2, <4>1, <4>2
    <3> QED
      BY <3>1, <3>2
  <2> QED
    BY <2>1, <2>2 DEF AttachTargetExists
<1>4. CASE SweepMatch(i)
  <2>1. PICK s \in importer[i].rows : \E a \in Answers(s.row, Table) :
          importer' = [importer EXCEPT ![i] =
            IF a = NoMatch
            THEN [pc |-> "bump", rows |-> @.rows \ {s}, current |-> s]
            ELSE [pc |-> "attach", rows |-> @.rows \ {s}, current |-> s, place |-> a.place]]
    BY <1>4 DEF SweepMatch
  <2>2. PICK a \in Answers(s.row, Table) :
          importer' = [importer EXCEPT ![i] =
            IF a = NoMatch
            THEN [pc |-> "bump", rows |-> @.rows \ {s}, current |-> s]
            ELSE [pc |-> "attach", rows |-> @.rows \ {s}, current |-> s, place |-> a.place]]
    BY <2>1
  <2>3. a # NoMatch => place[a.place] # NoRow
    BY AnswersType
  <2> QED
    BY <1>3, <1>4, <2>2, <2>3 DEF SweepMatch, TypeOK
<1>5. CASE NextRow(i) \/ importer' = [importer EXCEPT ![i] = Idle]
  BY <1>3, <1>5 DEF NextRow, TypeOK, Idle
<1>6. CASE StartImport(i) \/ BeginSweep(i)
  BY <1>3, <1>6 DEF StartImport, BeginSweep, TypeOK, Idle
<1>7. ASSUME NEW batch \in Batches, FlushBatch(i, batch)
      PROVE  AttachTargetExists'
  BY <1>3, <1>7 DEF FlushBatch, TypeOK, ImporterState, Idle
<1>8. CASE SweepAttach(i)
  BY <1>3, <1>8 DEF SweepAttach, TypeOK, ImporterState, Idle
<1>9. CASE SweepRowFails(i)
  <2>1. CASE /\ importer[i].pc = "sweeping"
             /\ \E s \in importer[i].rows : importer' = [importer EXCEPT ![i].rows = @ \ {s}]
    BY <1>3, <2>1 DEF TypeOK, ImporterState, Idle
  <2> QED
    BY <1>5, <1>9, <2>1 DEF SweepRowFails
<1> QED
  BY <1>4, <1>5, <1>6, <1>7, <1>8, <1>9
  DEF ImporterNext, SweepStep, SweepDelete, SweepBump, EndSweep, ImportDies

(* The place an attach names is in the table when the statement runs.       *)
THEOREM AttachTargets == Spec => []AttachTargetExists
<1>1. Init => AttachTargetExists
  BY DEF Init, AttachTargetExists, Idle
<1>2. TypeOK /\ AttachTargetExists /\ [Next]_vars => AttachTargetExists'
  <2> SUFFICES ASSUME TypeOK, AttachTargetExists, [Next]_vars PROVE AttachTargetExists'
    OBVIOUS
  <2>1. ASSUME NEW p \in Places, NEW row \in PlaceRows, CreatePlace(p, row)
        PROVE  AttachTargetExists'
    <3>1. \A q \in Places : place[q] # NoRow => place'[q] # NoRow
      BY PlacesStay
    <3> QED
      BY <2>1, <3>1 DEF CreatePlace, AttachTargetExists, TypeOK, FeedState, ImporterState, Idle
  <2>2. CASE UNCHANGED vars
    BY <2>2 DEF vars, AttachTargetExists
  <2> QED
    BY <2>1, <2>2, FeedTargets, ImporterTargets DEF Next
<1> QED
  BY <1>1, <1>2, TypeCorrect, PTL DEF Spec

----------------------------------------------------------------------------
(* The sweep of an import.                                                  *)

(* A place that may be the answer for a row lies within the radius that the *)
(* sweep looks around it.                                                   *)
LEMMA AnswersAreNear ==
  ASSUME NEW r, NEW a \in Answers(r, Table), a # NoMatch
  PROVE  place[a.place] # NoRow /\ Meters(r, place[a.place]) <= RadiusM
<1>1. PICK C \in Fetched(r, Table) :
        a \in IF C = {} THEN {NoMatch}
              ELSE {Decision(Score(r, Table[p]), p) : p \in Best(r, Table, C)}
  BY DEF Answers
<1>2. PICK p \in Best(r, Table, C) : a = Decision(Score(r, Table[p]), p)
  BY <1>1
<1>3. p \in Eligible(r, Table)
  BY <1>2 DEF Fetched, Best
<1>4. a.place = p
  BY <1>2 DEF Decision
<1> QED
  BY <1>3, <1>4 DEF Eligible, Table

(* Whatever the other processes do and whatever fails, an import that is    *)
(* done with its batches takes up every row of the queue that a place it    *)
(* touched could match, as long as one query can bind the identifiers.      *)
THEOREM SweepsReconsider ==
  ASSUME IsFiniteSet(OsmPlaces), Cardinality(OsmPlaces) <= MaxParams
  PROVE  Spec => ImportReconsiders
<1>1. ASSUME TypeOK, NEW i \in Importers, BeginSweep(i), NEW r \in Records, Queued(r),
             NEW a \in Answers(queue[r].row, Table), a # NoMatch, a.place \in importer[i].touched
      PROVE  /\ importer'[i].pc = "sweeping"
             /\ \E s \in importer'[i].rows : s.record = r /\ s.row = queue[r].row
  <2>1. importer[i].touched \in SUBSET OsmPlaces
    BY <1>1 DEF BeginSweep, TypeOK, ImporterState, Idle
  <2>2. ~(Cardinality(importer[i].touched) > MaxParams)
    BY <2>1, FS_Subset, FS_CardinalityType, BoundAssumption
  <2>3. importer'[i] = [pc |-> "sweeping", rows |-> NearTouched(importer[i].touched)]
    BY <1>1, <2>2 DEF BeginSweep, TypeOK
  <2>4. place[a.place] # NoRow /\ Meters(queue[r].row, place[a.place]) <= RadiusM
    BY <1>1, AnswersAreNear
  <2>5. [record |-> r, id |-> queue[r].id, row |-> queue[r].row] \in NearTouched(importer[i].touched)
    BY <1>1, <2>4 DEF NearTouched
  <2> QED
    BY <2>3, <2>5
<1>2. TypeOK /\ [Next]_vars =>
        [\A i \in Importers : BeginSweep(i) =>
           \A r \in Records :
             Queued(r) /\ (\E a \in Answers(queue[r].row, Table) :
                             a # NoMatch /\ a.place \in importer[i].touched) =>
               /\ importer'[i].pc = "sweeping"
               /\ \E s \in importer'[i].rows : s.record = r /\ s.row = queue[r].row]_vars
  BY <1>1
<1> QED
  BY <1>2, TypeCorrect, PTL DEF Spec, ImportReconsiders

----------------------------------------------------------------------------
(* A sweep comes to its end.                                                *)

(* The steps a sweep may still take: three for a row (match, attach, delete *)
(* or fewer), those of the row it is at, and its end.                       *)
SweepLeft(m) ==
  CASE m.pc = "sweeping" -> 3 * Cardinality(m.rows) + 1
    [] m.pc = "attach"   -> 3 * Cardinality(m.rows) + 3
    [] m.pc \in {"delete", "bump"} -> 3 * Cardinality(m.rows) + 2
    [] OTHER -> 0

(* A sweep begins with three steps for each record and one at most, and     *)
(* each of its steps, the failing ones among them, brings it closer to its  *)
(* end: rows that are enqueued meanwhile are not added to it, and none that *)
(* it is done with comes back.                                              *)
EverySweepStepCounts ==
  \A i \in Importers :
    /\ SweepLeft(importer[i]) \in Nat
    /\ InSweep(importer[i]) /\ importer'[i] # importer[i] =>
         SweepLeft(importer'[i]) < SweepLeft(importer[i])
    /\ ~InSweep(importer[i]) /\ InSweep(importer'[i]) =>
         SweepLeft(importer'[i]) <= 3 * Cardinality(Records) + 1

(* The rows of a sweep were read by one query.                              *)
RowsAreFinite == \A i \in Importers : InSweep(importer[i]) => IsFiniteSet(importer[i].rows)

LEMMA NearTouchedIsFinite ==
  ASSUME IsFiniteSet(Records), NEW touched
  PROVE  /\ IsFiniteSet(NearTouched(touched))
         /\ Cardinality(NearTouched(touched)) <= Cardinality(Records)
<1> DEFINE near == {q \in Records : /\ Queued(q)
                                    /\ \E p \in touched : place[p] # NoRow
                                                       /\ Meters(queue[q].row, place[p]) <= RadiusM}
           copy == [r \in near |-> [record |-> r, id |-> queue[r].id, row |-> queue[r].row]]
<1>1. IsFiniteSet(near) /\ Cardinality(near) <= Cardinality(Records)
  BY FS_Subset
<1>2. NearTouched(touched) = {copy[r] : r \in near}
  BY DEF NearTouched
<1> HIDE DEF near
<1>3. copy \in Surjection(near, {copy[r] : r \in near})
  BY DEF Surjection
<1>4. /\ IsFiniteSet({copy[r] : r \in near})
      /\ Cardinality({copy[r] : r \in near}) <= Cardinality(near)
  BY <1>1, <1>3, FS_Surjection
<1>5. PICK n \in Nat, m \in Nat, k \in Nat :
        n = Cardinality({copy[r] : r \in near}) /\ m = Cardinality(near) /\ k = Cardinality(Records)
  BY <1>1, <1>4, FS_CardinalityType
<1> QED
  BY <1>1, <1>2, <1>4, <1>5

(* The states an importer goes over to, from one to the next.               *)
SweepMoves(m, n) ==
  \/ m.pc = "sweeping" /\ n.pc \in {"bump", "attach"} /\ \E s \in m.rows : n.rows = m.rows \ {s}
  \/ m.pc = "attach" /\ n.pc = "delete" /\ n.rows = m.rows
  \/ m.pc \in {"attach", "delete", "bump"} /\ n.pc = "sweeping" /\ n.rows = m.rows
  \/ m.pc = "sweeping" /\ n.pc = "sweeping" /\ \E s \in m.rows : n.rows = m.rows \ {s}
  \/ InSweep(m) /\ n = Idle

LEMMA SweepStepMoves ==
  ASSUME TypeOK, NEW i \in Importers, SweepStep(i) \/ SweepRowFails(i)
  PROVE  InSweep(importer[i]) /\ SweepMoves(importer[i], importer'[i])
<1>1. PICK m : m = importer[i]
  OBVIOUS
<1>2. ASSUME NEW n, importer' = [importer EXCEPT ![i] = n]
      PROVE  importer'[i] = n
  BY <1>2 DEF TypeOK
<1>3. CASE SweepMatch(i)
  <2>1. PICK s \in m.rows : \E a \in Answers(s.row, Table) :
          importer' = [importer EXCEPT ![i] =
            IF a = NoMatch
            THEN [pc |-> "bump", rows |-> m.rows \ {s}, current |-> s]
            ELSE [pc |-> "attach", rows |-> m.rows \ {s}, current |-> s, place |-> a.place]]
    BY <1>1, <1>3 DEF SweepMatch
  <2>2. PICK a \in Answers(s.row, Table) :
          importer' = [importer EXCEPT ![i] =
            IF a = NoMatch
            THEN [pc |-> "bump", rows |-> m.rows \ {s}, current |-> s]
            ELSE [pc |-> "attach", rows |-> m.rows \ {s}, current |-> s, place |-> a.place]]
    BY <2>1
  <2>3. importer'[i].pc \in {"bump", "attach"} /\ importer'[i].rows = m.rows \ {s}
    BY <1>2, <2>2
  <2> QED
    BY <1>1, <1>3, <2>1, <2>3 DEF SweepMatch, SweepMoves, InSweep
<1>4. CASE SweepAttach(i)
  <2>1. m.pc = "attach" /\ importer'[i] = [m EXCEPT !.pc = "delete"]
    BY <1>1, <1>4 DEF SweepAttach, TypeOK
  <2>2. m \in [pc : {"attach", "delete"}, rows : SUBSET Snapshot, current : Snapshot, place : Places]
    BY <1>1, <2>1 DEF TypeOK, ImporterState, Idle
  <2>3. importer'[i].pc = "delete" /\ importer'[i].rows = m.rows
    BY <2>1, <2>2
  <2> QED
    BY <1>1, <2>1, <2>3 DEF SweepMoves, InSweep
<1>5. ASSUME NextRow(i), m.pc \in {"attach", "delete", "bump"}
      PROVE  InSweep(importer[i]) /\ SweepMoves(importer[i], importer'[i])
  <2>1. importer'[i] = [pc |-> "sweeping", rows |-> m.rows]
    BY <1>1, <1>5 DEF NextRow, TypeOK
  <2> QED
    BY <1>1, <1>5, <2>1 DEF SweepMoves, InSweep
<1>6. CASE SweepDelete(i) \/ SweepBump(i)
  BY <1>1, <1>5, <1>6 DEF SweepDelete, SweepBump
<1>7. CASE SweepRowFails(i)
  <2>1. CASE m.pc \in {"attach", "delete", "bump"} /\ NextRow(i)
    BY <1>5, <2>1
  <2>2. ASSUME m.pc = "sweeping", NEW s \in m.rows, importer' = [importer EXCEPT ![i].rows = @ \ {s}]
        PROVE  InSweep(importer[i]) /\ SweepMoves(importer[i], importer'[i])
    <3>1. m \in [pc : {"sweeping"}, rows : SUBSET Snapshot]
      BY <1>1, <2>2 DEF TypeOK, ImporterState, Idle
    <3>2. importer'[i] = [m EXCEPT !.rows = m.rows \ {s}]
      BY <1>1, <2>2 DEF TypeOK
    <3>3. importer'[i].pc = "sweeping" /\ importer'[i].rows = m.rows \ {s}
      BY <2>2, <3>1, <3>2
    <3> QED
      BY <1>1, <2>2, <3>3 DEF SweepMoves, InSweep
  <2> QED
    BY <1>1, <1>7, <2>1, <2>2 DEF SweepRowFails
<1>8. CASE EndSweep(i)
  BY <1>2, <1>8 DEF EndSweep, SweepMoves, InSweep
<1> QED
  BY <1>3, <1>4, <1>6, <1>7, <1>8 DEF SweepStep

(* Moving on is coming closer to the end.                                   *)
LEMMA MovingCounts ==
  ASSUME NEW m, NEW n, InSweep(m), IsFiniteSet(m.rows), SweepMoves(m, n)
  PROVE  /\ SweepLeft(m) \in Nat /\ SweepLeft(n) < SweepLeft(m)
         /\ InSweep(n) => IsFiniteSet(n.rows)
<1>1. PICK k \in Nat : k = Cardinality(m.rows)
  BY FS_CardinalityType
<1>2. /\ SweepLeft(m) \in Nat /\ SweepLeft(m) >= 1
      /\ m.pc = "sweeping" => SweepLeft(m) = 3 * k + 1
      /\ m.pc = "attach" => SweepLeft(m) = 3 * k + 3
      /\ m.pc \in {"delete", "bump"} => SweepLeft(m) = 3 * k + 2
  BY <1>1 DEF InSweep, SweepLeft
<1>3. CASE n = Idle
  BY <1>2, <1>3 DEF Idle, SweepLeft, InSweep
<1>4. CASE n.rows = m.rows
  <2>1. \/ m.pc = "attach" /\ n.pc = "delete"
        \/ m.pc \in {"attach", "delete", "bump"} /\ n.pc = "sweeping"
        \/ n = Idle
    <3>1. ASSUME NEW s \in m.rows, n.rows = m.rows \ {s}
          PROVE  FALSE
      BY <1>4, <3>1
    <3> QED
      BY <3>1 DEF SweepMoves
  <2>2. n.pc = "delete" => SweepLeft(n) = 3 * k + 2
    BY <1>1, <1>4 DEF SweepLeft
  <2>3. n.pc = "sweeping" => SweepLeft(n) = 3 * k + 1
    BY <1>1, <1>4 DEF SweepLeft
  <2> QED
    BY <1>1, <1>2, <1>3, <1>4, <2>1, <2>2, <2>3
<1>5. ASSUME NEW s \in m.rows, n.rows = m.rows \ {s}
      PROVE  /\ SweepLeft(n) < SweepLeft(m)
             /\ InSweep(n) => IsFiniteSet(n.rows)
  <2>1. IsFiniteSet(n.rows) /\ Cardinality(n.rows) = k - 1
    BY <1>1, <1>5, FS_RemoveElement
  <2>2. \/ m.pc = "sweeping" /\ n.pc \in {"bump", "attach", "sweeping"}
        \/ n = Idle
    <3>1. n.rows # m.rows
      BY <1>5
    <3> QED
      BY <3>1 DEF SweepMoves
  <2>3. n.pc \in {"bump", "attach", "sweeping"} =>
          SweepLeft(n) \in {3 * (k - 1) + 1, 3 * (k - 1) + 2, 3 * (k - 1) + 3}
    BY <1>1, <2>1 DEF SweepLeft
  <2>4. n.pc \in {"bump", "attach", "sweeping"} => SweepLeft(n) < 3 * k + 1
    BY <2>3
  <2>5. CASE m.pc = "sweeping" /\ n.pc \in {"bump", "attach", "sweeping"}
    BY <1>2, <2>1, <2>4, <2>5
  <2> QED
    BY <1>3, <2>2, <2>5
<1> QED
  BY <1>2, <1>3, <1>4, <1>5 DEF SweepMoves

LEMMA SweepAdvances ==
  ASSUME IsFiniteSet(Records), TypeOK, RowsAreFinite, [Next]_vars, NEW i \in Importers
  PROVE  /\ SweepLeft(importer[i]) \in Nat
         /\ InSweep(importer[i]) /\ importer'[i] # importer[i] =>
              SweepLeft(importer'[i]) < SweepLeft(importer[i])
         /\ ~InSweep(importer[i]) /\ InSweep(importer'[i]) =>
              SweepLeft(importer'[i]) <= 3 * Cardinality(Records) + 1
         /\ InSweep(importer'[i]) => IsFiniteSet(importer'[i].rows)
<1>1. PICK m, n : m = importer[i] /\ n = importer'[i]
  OBVIOUS
<1>2. InSweep(m) => IsFiniteSet(m.rows)
  BY <1>1 DEF RowsAreFinite
<1>3. SweepLeft(m) \in Nat
  <2>1. InSweep(m) => Cardinality(m.rows) \in Nat
    BY <1>2, FS_CardinalityType
  <2> QED
    BY <2>1 DEF SweepLeft, InSweep
<1>4. CASE n = m
  BY <1>1, <1>2, <1>3, <1>4
<1>5. CASE SweepStep(i) \/ SweepRowFails(i)
  <2>1. InSweep(m) /\ SweepMoves(m, n)
    BY <1>1, <1>5, SweepStepMoves
  <2> QED
    BY <1>1, <1>2, <1>3, <2>1, MovingCounts
<1>6. CASE ImportDies(i)
  <2>1. n = Idle
    BY <1>1, <1>6 DEF ImportDies, TypeOK
  <2>2. InSweep(m) => SweepMoves(m, n)
    BY <2>1 DEF SweepMoves
  <2>3. ~InSweep(n)
    BY <2>1 DEF Idle, InSweep
  <2> QED
    BY <1>1, <1>2, <1>3, <2>2, <2>3, MovingCounts
<1>7. CASE StartImport(i)
  <2>1. n = [pc |-> "flushing", touched |-> {}, flushes |-> 0]
    BY <1>1, <1>7 DEF StartImport, TypeOK
  <2>2. m = Idle
    BY <1>1, <1>7 DEF StartImport
  <2> QED
    BY <1>1, <1>3, <2>1, <2>2 DEF InSweep, Idle
<1>8. ASSUME NEW batch \in Batches, FlushBatch(i, batch)
      PROVE  n.pc = "flushing" /\ m.pc = "flushing"
  <2>1. m \in [pc : {"flushing"}, touched : SUBSET OsmPlaces, flushes : 0..MaxFlushes]
    BY <1>1, <1>8 DEF FlushBatch, TypeOK, ImporterState, Idle
  <2>2. n = [m EXCEPT !.touched = @ \cup DOMAIN batch, !.flushes = @ + 1]
    BY <1>1, <1>8 DEF FlushBatch, TypeOK
  <2> QED
    BY <2>1, <2>2
<1>9. CASE \E batch \in Batches : FlushBatch(i, batch)
  BY <1>1, <1>3, <1>8, <1>9 DEF InSweep
<1>10. CASE BeginSweep(i)
  <2>1. m.pc = "flushing"
    BY <1>1, <1>10 DEF BeginSweep
  <2>2. n = Idle \/ n = [pc |-> "sweeping", rows |-> NearTouched(m.touched)]
    BY <1>1, <1>10 DEF BeginSweep, TypeOK
  <2>3. CASE n = Idle
    BY <1>1, <1>3, <2>1, <2>3 DEF Idle, InSweep
  <2>4. CASE n = [pc |-> "sweeping", rows |-> NearTouched(m.touched)]
    <3>1. IsFiniteSet(n.rows) /\ Cardinality(n.rows) <= Cardinality(Records)
      BY <2>4, NearTouchedIsFinite
    <3>2. PICK k \in Nat, l \in Nat : k = Cardinality(n.rows) /\ l = Cardinality(Records)
      BY <3>1, FS_CardinalityType
    <3>3. SweepLeft(n) = 3 * k + 1
      BY <2>4, <3>2 DEF SweepLeft
    <3> QED
      BY <1>1, <1>3, <2>1, <3>1, <3>2, <3>3 DEF InSweep
  <2> QED
    BY <2>2, <2>3, <2>4
<1> QED
  BY <1>1, <1>4, <1>5, <1>6, <1>7, <1>9, <1>10, ImporterMoves DEF ImporterNext

(* A sweep is over within three statements for each record and one, for any *)
(* number of importers and feeds that write beside it.                      *)
THEOREM SweepsAreFinite ==
  ASSUME IsFiniteSet(Records)
  PROVE  Spec => [][EverySweepStepCounts]_vars
<1>1. Init => RowsAreFinite
  BY DEF Init, RowsAreFinite, InSweep, Idle
<1>2. TypeOK /\ RowsAreFinite /\ [Next]_vars => RowsAreFinite' /\ EverySweepStepCounts
  <2> SUFFICES ASSUME TypeOK, RowsAreFinite, [Next]_vars
               PROVE  RowsAreFinite' /\ EverySweepStepCounts
    OBVIOUS
  <2>1. EverySweepStepCounts
    BY SweepAdvances DEF EverySweepStepCounts
  <2>2. ASSUME NEW i \in Importers
        PROVE  InSweep(importer'[i]) => IsFiniteSet(importer'[i].rows)
    BY SweepAdvances
  <2> QED
    BY <2>1, <2>2 DEF RowsAreFinite, InSweep
<1> QED
  BY <1>1, <1>2, TypeCorrect, PTL DEF Spec
=============================================================================
