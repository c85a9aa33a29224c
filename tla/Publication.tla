---------------------------- MODULE Publication ----------------------------
(***************************************************************************)
(* What an automatic service resource promises about the traffic its       *)
(* services carry: a service serves either nothing or one configuration    *)
(* that somebody asked for as a whole.  A new configuration replaces the   *)
(* old one in a single step; no mixture of the two is ever served, however *)
(* the apply that publishes it fails or is interrupted.                    *)
(***************************************************************************)
CONSTANTS
    Service,     \* the services
    Whole,       \* the complete configurations
    Outside,     \* configurations an operator may publish by hand
    Nothing      \* a service that serves nothing

VARIABLES
    asked,       \* the configurations Terraform was asked to publish
    served       \* what every service serves now

Init ==
    /\ asked = {}
    /\ served = [s \in Service |-> Nothing]

\* The user asks for c.
Ask(c) ==
    /\ asked' = asked \cup {c}
    /\ UNCHANGED served

\* A configuration goes live as a whole.
Publish(s, c) ==
    /\ c \in asked \cup Outside
    /\ served' = [served EXCEPT ![s] = c]
    /\ UNCHANGED asked

Withdraw(s) ==
    /\ served' = [served EXCEPT ![s] = Nothing]
    /\ UNCHANGED asked

Next ==
    \/ \E c \in Whole : Ask(c)
    \/ \E s \in Service, c \in Whole : Publish(s, c)
    \/ \E s \in Service : Withdraw(s)

Spec == Init /\ [][Next]_<<asked, served>>
=============================================================================
