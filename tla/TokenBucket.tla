---------------------------- MODULE TokenBucket ----------------------------
(***************************************************************************)
(* The promise of a rate limiter to each key: a bucket of Burst tokens,    *)
(* one more at every tick of the refill period, a request allowed exactly  *)
(* when there is a token to take.                                          *)
(***************************************************************************)
EXTENDS Naturals

CONSTANTS Keys, Burst

VARIABLE tokens

Refill(n) == IF n < Burst THEN n + 1 ELSE Burst

Init == tokens = [k \in Keys |-> Burst]

Tick == tokens' = [k \in Keys |-> Refill(tokens[k])]

Take(k) == tokens[k] > 0 /\ tokens' = [tokens EXCEPT ![k] = @ - 1]

Next == Tick \/ \E k \in Keys : Take(k)

Spec == Init /\ [][Next]_tokens
=============================================================================
