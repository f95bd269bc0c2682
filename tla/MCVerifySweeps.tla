--------------------------- MODULE MCVerifySweeps ---------------------------
(* Model checking of VerifySweeps: which postings are near copies. *)
EXTENDS VerifySweeps

(* The first and the last posting have the same text. *)
MCTextOf(u) == IF u = Postings THEN 1 ELSE u
=============================================================================
