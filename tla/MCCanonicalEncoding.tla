------------------------ MODULE MCCanonicalEncoding ------------------------
(***************************************************************************)
(* CanonicalEncoding with bits for bytes: label lengths up to 1 in one     *)
(* bit, value lengths up to 3 in two, and labels and values that are       *)
(* longer.                                                                 *)
(***************************************************************************)
EXTENDS CanonicalEncoding

MCLabelLength == [n \in 0..1 |-> <<n>>]
MCValueLength == [n \in 0..3 |-> <<n \div 2, n % 2>>]

MCLabels == {<<>>, <<0>>, <<1>>, <<0, 0>>}
MCValues == {<<>>, <<0>>, <<1>>, <<0, 1>>, <<1, 0, 0>>, <<0, 0, 1, 0>>}
MCRecords == [label : MCLabels, value : MCValues]
MCStatements == UNION {[1..n -> MCRecords] : n \in 0..2}
=============================================================================
