------------------------ MODULE RoutingConfigAutoInv ------------------------
(***************************************************************************)
(* The inductive invariant of RoutingConfigAuto: how far each path of the  *)
(* draft is on the way from what was listed to what is planned.            *)
(***************************************************************************)
EXTENDS RoutingConfigAuto

\* A routing config starts with an empty draft.
FreshDrafts == \A i \in Ids : i > created => draft[i] = None

\* Handlers work for the configuration, and for a routing config or for none.
HandlersAreAskedFor ==
    /\ pc \notin {"idle", "plan"} =>
        plan = config /\ (plan.present => plan.paths.rules \in requested)
    /\ pc \in {"create", "list", "write"} => plan.present
    /\ pc = "create" => ~Tracked
    /\ pc \in {"list", "write"} => Tracked

\* What is not to be deleted or reconciled any more is as planned.
OnItsWay ==
    pc = "write" =>
        /\ todo \subseteq Existing(plan.paths.rules)
        /\ surplus \cap Existing(plan.paths.rules) = {}
        /\ \A p \in Paths : p \in surplus \cup todo \/ Old(p) = Wanted(p)

\* These are the first rules wanted, and not all of them.
Begun(rules, wanted) ==
    Len(rules) < Len(wanted) /\ \A i \in 1 .. Len(rules) : rules[i] = wanted[i]

\* Rules are written when nothing is left to delete.  The path they belong to is
\* there, and once the rules it had are deleted it holds only the first of those
\* it is to have.
RulesOnTheirWay ==
    pc = "write" =>
        /\ at # "compare" => surplus = {}
        /\ \A p \in Paths : IsNext(p) =>
            /\ at # "compare" => Old(p) # Absent
            /\ at = "create" => Begun(Old(p), Wanted(p))

\* Where nothing was changed, the draft is what the state says, and the plan
\* knew whether that is what is configured.
UnchangedIsKnown ==
    /\ pc = "write" /\ ~changed => Listed = state.paths.rules
    /\ pc = "list" \/ (pc = "write" /\ ~changed) =>
        (state.paths.rules = config.paths.rules => matched)

AppliedIsOver == applied => pc = "idle"

\* Also of the routing configs that are gone.
ActiveIsRequested == \A i \in Ids : active[i] # Absent => active[i] \in requested

OnTrack ==
    /\ FreshDrafts
    /\ HandlersAreAskedFor
    /\ OnItsWay
    /\ RulesOnTheirWay
    /\ UnchangedIsKnown
    /\ AppliedIsOver
    /\ ActiveIsRequested
    /\ AppliedIsServed
    /\ NoConfigIsLost

IInv == TypeOK /\ OnTrack
=============================================================================
