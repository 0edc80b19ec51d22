------------------------- MODULE MCSearcherGateway -------------------------
(***************************************************************************)
(* SearcherGateway with one or two sockets.                                *)
(***************************************************************************)
EXTENDS SearcherGateway

CONSTANTS s1, s2

\* Every peer holds s1's key; only the first also holds s2's.
MCKeysOf == [w \in Sockets |-> IF w = 1 THEN {s1, s2} ELSE {s1}]
=============================================================================
