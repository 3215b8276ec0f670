---------------------------- MODULE MatchScore ----------------------------
(***************************************************************************)
(* The identity matcher (internal/identity): does an incoming external     *)
(* record denote a place the registry already holds?  The module has no    *)
(* variables.  It translates Match and the score components it combines,   *)
(* and gives a reference definition of what Match decides.                 *)
(*                                                                         *)
(* Abstractions.                                                           *)
(*   - A position is a number of metres along a line; the great-circle     *)
(*     distance of two points is then the absolute difference.             *)
(*   - A string is the sequence of its whitespace-separated tokens; "" is  *)
(*     the empty sequence.  Fold maps a token to its lower-case form       *)
(*     without diacritics.                                                 *)
(*   - A score is an exact fraction [num, den], where the code has a       *)
(*     float64: weights are kept in tenths and thresholds in percent.      *)
(***************************************************************************)
EXTENDS Integers, Sequences, FiniteSets, SequencesExt

CONSTANTS
  Token,             \* the tokens strings are made of
  Fold,              \* function: lower-cased token without diacritics
  CaseFold,          \* function: what strings.EqualFold compares
  BusinessSuffixes,  \* folded tokens that Normalize drops
  CandidateLimit,    \* rows FindCandidates returns at most (32 in the code)
  RecordRows,        \* what the matcher reads of a record
  PlaceRows          \* what the matcher reads of a place row

ASSUME FoldAssumption == Fold \in [Token -> Token] /\ CaseFold \in [Token -> Token]
ASSUME LimitAssumption == CandidateLimit \in Nat \ {0}

Text == Seq(Token)

ASSUME RecordsAssumption ==
  \A r \in RecordRows : r.pos \in Int /\ {r.name, r.street, r.house} \subseteq Text
ASSUME RowsAssumption ==
  \A p \in PlaceRows : p.pos \in Int /\ {p.name, p.street, p.house} \subseteq Text

----------------------------------------------------------------------------
(* Tuning constants.                                                        *)

RadiusM == 50
WeightDistance == 5
WeightName == 4
WeightAddress == 1
ConfidentBelow == 70  \* mistake: too low
ConfidentThreshold == 80
LowConfidenceThreshold == 55

FoodService == {"cafe", "restaurant", "bar"}

(* Categories a record of category c may match against.                     *)
Compatible(c) == IF c \in FoodService THEN FoodService ELSE {c}

----------------------------------------------------------------------------
(* Score components.                                                        *)

Normalize(s) == SelectSeq([i \in DOMAIN s |-> Fold[s[i]]],
                          LAMBDA t : t \notin BusinessSuffixes)

(* The tokenSet of a normalized string.                                     *)
TokenSet(s) == {Fold[s[i]] : i \in DOMAIN s} \ BusinessSuffixes

Meters(r, p) == IF r.pos >= p.pos THEN r.pos - p.pos ELSE p.pos - r.pos

(* distanceScore, in units of 1 / RadiusM.                                  *)
DistanceScore(r, p) == IF Meters(r, p) >= RadiusM THEN 0 ELSE RadiusM - Meters(r, p)

(* nameScore: Jaccard similarity of two token sets.                         *)
Jaccard(R, P) ==
  IF R = {} \/ P = {}
  THEN [num |-> 0, den |-> 1]
  ELSE [num |-> Cardinality(R \cap P), den |-> Cardinality(R \cup P)]

NameScore(r, p) == Jaccard(TokenSet(r.name), TokenSet(p.name))

(* addressScore, in halves; only meaningful when both sides have a street.  *)
AddressPresent(r, p) == r.street # << >> /\ p.street # << >>

AddressScore(r, p) ==
  IF Normalize(r.street) # Normalize(p.street) THEN 0
  ELSE IF /\ r.house # << >> /\ p.house # << >>
          /\ [i \in DOMAIN r.house |-> CaseFold[r.house[i]]]
               = [i \in DOMAIN p.house |-> CaseFold[p.house[i]]]
       THEN 2
       ELSE 1

(* Mistake: without an address the sum is divided by one weight instead of  *)
(* two.                                                                     *)
CombinedSkewed(dist, name, addr, present) ==
  LET dn == 2 * dist * name.den * WeightDistance + 2 * RadiusM * name.num * WeightName
  IN IF present
     THEN [num |-> dn + RadiusM * name.den * addr * WeightAddress,
           den |-> 2 * RadiusM * name.den * (WeightDistance + WeightName + WeightAddress)]
     ELSE [num |-> dn, den |-> 2 * RadiusM * name.den * WeightDistance]

(* combinedScore.  dist is in units of 1/RadiusM, name is a fraction, addr  *)
(* is in halves.  Without an address its weight is shared out between the   *)
(* other two in proportion, which is a division by their joint weight.      *)
CombinedScore(dist, name, addr, present) ==
  LET dn == 2 * dist * name.den * WeightDistance + 2 * RadiusM * name.num * WeightName
      one == 2 * RadiusM * name.den
  IN IF present
     THEN [num |-> dn + RadiusM * name.den * addr * WeightAddress,
           den |-> one * (WeightDistance + WeightName + WeightAddress)]
     ELSE [num |-> dn, den |-> one * (WeightDistance + WeightName)]

Score(r, p) ==
  CombinedScore(DistanceScore(r, p), NameScore(r, p), AddressScore(r, p), AddressPresent(r, p))

Exceeds(s, t) == s.num * t.den > t.num * s.den
AtLeast(s, percent) == 100 * s.num >= percent * s.den

(* The decision for the best score.                                         *)
KindOf(s) ==
  IF AtLeast(s, ConfidentThreshold) THEN "confident"
  ELSE IF AtLeast(s, LowConfidenceThreshold) THEN "low_confidence"
  ELSE "no_match"

----------------------------------------------------------------------------
(* What Match reads and decides.  T is the table of places: a function whose values are places,    *)
(* records with fields pos, name, street, house, cat and active.            *)

Eligible(r, T) ==
  {p \in DOMAIN T : /\ T[p].active
                    /\ T[p].cat \in Compatible(r.cat)
                    /\ Meters(r, T[p]) <= RadiusM}

(* The results FindCandidates may return: nearest first, at most            *)
(* CandidateLimit of them, ties in the order the database happens to use.   *)
FindCandidates(r, T) ==
  LET E == Eligible(r, T)
      n == IF Cardinality(E) <= CandidateLimit THEN Cardinality(E) ELSE CandidateLimit
  IN {c \in [1..n -> E] :
        /\ \A i, j \in 1..n : i # j => c[i] # c[j]
        /\ \A i, j \in 1..n : i < j => Meters(r, T[c[i]]) <= Meters(r, T[c[j]])
        /\ \A i \in 1..n : \A p \in E \ Range(c) : Meters(r, T[c[i]]) <= Meters(r, T[p])}

NoMatch == [kind |-> "no_match"]

Decision(s, p) ==
  IF KindOf(s) = "no_match" THEN NoMatch ELSE [kind |-> KindOf(s), place |-> p]

----------------------------------------------------------------------------
(* Reference definition, without loop and order: the set of the answers     *)
(* Match may give for r over T.  Among the candidates fetched, the highest  *)
(* score wins, and the nearest of those that share it.                      *)

Fetched(r, T) ==
  LET E == Eligible(r, T)
  IN {C \in SUBSET E :
        /\ Cardinality(C) = (IF Cardinality(E) <= CandidateLimit THEN Cardinality(E) ELSE CandidateLimit)
        /\ \A p \in C : \A q \in E \ C : Meters(r, T[p]) <= Meters(r, T[q])}

Best(r, T, C) ==
  {p \in C : \A q \in C :
     /\ ~Exceeds(Score(r, T[q]), Score(r, T[p]))
     /\ Exceeds(Score(r, T[p]), Score(r, T[q])) \/ Meters(r, T[p]) <= Meters(r, T[q])}

Answers(r, T) ==
  UNION {IF C = {} THEN {NoMatch} ELSE {Decision(Score(r, T[p]), p) : p \in Best(r, T, C)} :
           C \in Fetched(r, T)}
=============================================================================
