----------------------------- MODULE Matching -----------------------------
(***************************************************************************)
(* One call of identity.Match: a record, a table of places, the candidates *)
(* that FindCandidates returns and the loop that looks for the best one.   *)
(* The calls are independent, and nobody else sees what the loop works on: *)
(* Reconcile takes one of the Answers in a single step.                    *)
(***************************************************************************)
EXTENDS MatchScore

CONSTANTS Ids  \* identifiers of the places in the table

ASSUME IdsAssumption == IsFiniteSet(Ids)

VARIABLES
  record, places,
  candidates,  \* the rows fetched, by their index
  next,        \* the candidate the loop is at, 0 before the query
  best,        \* bestIdx, 0 while there is none
  decision

matchVars == <<record, places, candidates, next, best, decision>>

Pending == [kind |-> "pending"]

MatchInit ==
  /\ record \in RecordRows
  /\ places \in [Ids -> PlaceRows]
  /\ candidates = << >>
  /\ next = 0
  /\ best = 0
  /\ decision = Pending

Fetch ==
  /\ next = 0
  /\ candidates' \in FindCandidates(record, places)
  /\ next' = 1
  /\ UNCHANGED <<record, places, best, decision>>

Scanning == next # 0 /\ decision = Pending

ScoreAt(n) == Score(record, places[candidates[n]])

(* Mistake: a later candidate wins a tie.                                   *)
ConsiderLast ==
  /\ Scanning
  /\ next <= Len(candidates)
  /\ best' = IF best = 0 \/ ~Exceeds(ScoreAt(best), ScoreAt(next)) THEN next ELSE best
  /\ next' = next + 1
  /\ UNCHANGED <<record, places, candidates, decision>>

(* No score is negative, so the first candidate exceeds the initial -1.     *)
Consider ==
  /\ Scanning
  /\ next <= Len(candidates)
  /\ best' = IF best = 0 \/ Exceeds(ScoreAt(next), ScoreAt(best)) THEN next ELSE best
  /\ next' = next + 1
  /\ UNCHANGED <<record, places, candidates, decision>>

Decide ==
  /\ Scanning
  /\ next > Len(candidates)
  /\ decision' = IF best = 0 THEN NoMatch ELSE Decision(ScoreAt(best), candidates[best])
  /\ UNCHANGED <<record, places, candidates, next, best>>

MatchNext == Fetch \/ Consider \/ Decide

MatchSpec == MatchInit /\ [][MatchNext]_matchVars

----------------------------------------------------------------------------
(* Properties.                                                              *)

Matched == decision # Pending /\ decision # NoMatch

(* The answer of the candidate loop is one the order-free definition allows: *)
(* the best score among the candidates fetched, the nearest of equals.       *)
MatchMeetsReference ==
  decision # Pending => decision \in Answers(record, places)

(* A confident match is never decided by one signal alone: the place lies    *)
(* within 20 m and at least half of the two names' tokens are shared.        *)
ConfidentNeedsBothSignals ==
  Matched /\ decision.kind = "confident" =>
    LET p == places[decision.place]
        n == NameScore(record, p)
    IN Meters(record, p) <= 20 /\ 2 * n.num >= n.den

(* Evidence never hurts: a candidate whose street and house number both      *)
(* agree scores at least what it would score with no address at all.         *)
FullAddressNeverHurts ==
  \A p \in Ids :
    AddressPresent(record, places[p]) /\ AddressScore(record, places[p]) = 2 =>
      ~Exceeds(Score(record, [places[p] EXCEPT !.street = << >>]), Score(record, places[p]))
=============================================================================
