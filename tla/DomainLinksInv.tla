--------------------------- MODULE DomainLinksInv ---------------------------
(***************************************************************************)
(* The inductive invariant of DomainLinks, for the three resources in one  *)
(* configuration: what an apply without errors has made of the domain by   *)
(* the time each operation ends, and what the links have read.             *)
(***************************************************************************)
EXTENDS DomainLinks

\* An operation is one the configuration asks for.
JobsAreAskedFor ==
    Together => \A r \in Resources :
        /\ job[r] = "delete" => ~Wanted(r)
        /\ job[r] \in {"create", "update"} => Wanted(r)

\* An update of the domain knows its service, unless a link was written since.
UpdateKnows ==
    Together /\ job.domain = "update" =>
        /\ domain # Null /\ state.domain # Null
        /\ wrote = {} => domain.service = state.domain.service

\* A configured link has waited for the domain.
LinksWait ==
    Together /\ config.present => \A l \in Links :
        config[l] # Null /\ (l \in wrote \/ got[l] # Null) => job.domain = "none"

\* What it read is current, unless the other link was written since.
ReadIsCurrent ==
    Together /\ config.present => \A l \in Links :
        config[l] # Null /\ got[l] # Null /\ wrote \subseteq {l} =>
            got[l].service = domain.service

Unfailed ==
    Together /\ config.present /\ stack.domain \in (running \ failed) \cup applied

\* No link was removed.
AllConfigured == \A l \in wrote : config[l] # Null

ReadIsDescribed ==
    Unfailed /\ AllConfigured => \A l \in Links :
        config[l] # Null /\ got[l] # Null => got[l].description = Sent

\* When the operation of the domain has ended.
DomainDone ==
    Unfailed /\ job.domain = "none" =>
        /\ domain # Null
        /\ AllConfigured => domain.description = Sent
        /\ AllConfigured /\ wrote # Links /\ config.own # Null => domain.service = config.own

\* When that of a link has.
RoutingDone ==
    Unfailed /\ config.routing # Null /\ job.routing = "none" =>
        domain # Null /\ domain.routing = config.routing

ServiceDone ==
    Unfailed /\ config.service # Null /\ job.service = "none" =>
        /\ domain # Null
        /\ AllConfigured /\ wrote # Links => domain.service = config.service

InOneStack ==
    /\ JobsAreAskedFor
    /\ UpdateKnows
    /\ LinksWait
    /\ ReadIsCurrent
    /\ ReadIsDescribed
    /\ DomainDone
    /\ RoutingDone
    /\ ServiceDone

IInv == TypeOK /\ InOneStack
=============================================================================
