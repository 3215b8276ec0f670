------------------------------ MODULE MCIngest ------------------------------
(***************************************************************************)
(* Ingest with batches of two.  The extracts hold elements that are        *)
(* dropped, places without accessibility tags, a last batch that is not    *)
(* full, and an element that comes twice, in one batch or in two.          *)
(***************************************************************************)
EXTENDS Ingest

CONSTANTS n1, n2, w1, d1, d2, good, bad

El(id, data, rating) == [id |-> id, data |-> data, rating |-> rating]

Plain == <<El(n1, d1, Nil), El(n2, d1, good), El(w1, Dropped, Nil), El(w1, d2, bad)>>
Twice == <<El(n1, d1, good), El(n2, d2, Nil), El(n1, d2, bad)>>
Clash == <<El(n2, d1, good), El(n2, d2, good)>>

MCExtracts == {Plain, Twice, Clash}
=============================================================================
