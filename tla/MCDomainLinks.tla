--------------------------- MODULE MCDomainLinks ---------------------------
(***************************************************************************)
(* Two services, so that a link can move; of the rest, one value, which is *)
(* there or not.                                                           *)
(***************************************************************************)
EXTENDS DomainLinks

CONSTANTS s1, s2
=============================================================================
