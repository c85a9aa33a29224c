------------------------ MODULE MCRoutingConfigAuto ------------------------
(***************************************************************************)
(* Two paths, so that one comes or goes while the other changes, listed in *)
(* either order; two rules before the default rule, in either order.       *)
(***************************************************************************)
EXTENDS RoutingConfigAuto

CONSTANTS r1, r2, default, n1, n2

Block(p, rules) == [path |-> p, rules |-> rules]

\* The list of these blocks.
Blocks(s) ==
    [rules |-> [p \in Paths |-> IF \E i \in DOMAIN s : s[i].path = p
                               THEN s[CHOOSE i \in DOMAIN s : s[i].path = p].rules
                               ELSE Absent],
     before |-> UNION {{<<s[i].path, s[j].path>> : j \in (i + 1) .. Len(s)} : i \in DOMAIN s}]

Ask(name, blocks) == [present |-> TRUE, name |-> name, paths |-> Blocks(blocks)]

Requested == {
    Ask(n1, <<Block(1, <<r1, r2, default>>)>>),
    Ask(n1, <<Block(1, <<r2, r1, default>>)>>),
    Ask(n1, <<Block(1, <<r1, default>>), Block(2, <<default>>)>>),
    Ask(n1, <<Block(2, <<default>>), Block(1, <<r1, default>>)>>),
    Ask(n2, <<Block(2, <<r1, default>>)>>),
    [Ask(n1, <<>>) EXCEPT !.present = FALSE]}
=============================================================================
