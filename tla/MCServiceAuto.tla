--------------------------- MODULE MCServiceAuto ---------------------------
(***************************************************************************)
(* Small instances of ServiceAuto for TLC: two block kinds, so that a torn *)
(* configuration exists, and two values.                                   *)
(***************************************************************************)
EXTENDS ServiceAutoInv

CONSTANTS a, b, n1, n2

Old == <<a, a>>
New == <<b, b>>
Bad == <<a, b>>

Ask(name, cfg, force, reuse) ==
    [present |-> TRUE, name |-> name, cfg |-> cfg, force |-> force, reuse |-> reuse]

Drop == [present |-> FALSE, name |-> n1, cfg |-> Old, force |-> FALSE, reuse |-> FALSE]

\* Publish, change, be refused, and destroy, with and without force_destroy
\* and reuse.
PlainRequests == {Ask(n1, Old, FALSE, FALSE), Ask(n2, New, TRUE, FALSE),
                  Ask(n1, New, FALSE, TRUE), Ask(n1, Bad, FALSE, FALSE), Drop}

\* Everything can be destroyed.
ForcedRequests == {Ask(n1, Old, TRUE, FALSE), Ask(n2, New, TRUE, FALSE), Drop}

\* One wish, so that what goes wrong is not the wish.
OneRequest == {Ask(n1, New, TRUE, FALSE)}

InvalidConfigs == {Bad}
ForeignConfigs == {New}
=============================================================================
