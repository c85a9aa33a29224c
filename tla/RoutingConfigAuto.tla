------------------------- MODULE RoutingConfigAuto -------------------------
(***************************************************************************)
(* fastly_routing_config_auto: a routing config has one draft, which the   *)
(* API edits path by path and rule by rule, and an active version, which   *)
(* Activate replaces by the draft.  The resource reconciles the draft with *)
(* the configuration and activates it if anything changed; it never asks   *)
(* for the active version, and its state holds what the draft was.         *)
(*                                                                         *)
(* One action per API call that writes.  The calls that list paths and     *)
(* rules are one step: nobody else writes while a handler runs.            *)
(*                                                                         *)
(* A list of `path` blocks, in the configuration and the state, is given   *)
(* by the rules of each path and by which path comes before which.         *)
(***************************************************************************)
EXTENDS Naturals, Sequences

CONSTANTS
    Paths,       \* URL patterns; numbers: MatchOrder sorts them
    Rules,
    Defaults,    \* rules without a condition
    Names,
    Requests,    \* what the configuration may say
    Absent,      \* no such path in the draft; no active version
    MaxConfigs,  \* bound: routing configs ever created
    MaxFaults,   \* bound: calls that fail, processes that are killed
    MaxEdits,    \* bound: edits of the configuration
    MaxDrifts    \* bound: edits by an operator

Contents == [Paths -> Seq(Rules) \cup {Absent}]

None == [p \in Paths |-> Absent]

Existing(d) == {p \in Paths : d[p] # Absent}

\* One path of a list comes first, and so on.
InOrder(list) ==
    LET before == list.before
    IN  /\ before \subseteq Existing(list.rules) \X Existing(list.rules)
        /\ \A p, q \in Existing(list.rules) :
            /\ p # q => <<p, q>> \in before \/ <<q, p>> \in before
            /\ <<p, q>> \in before => <<q, p>> \notin before
        /\ \A p, q, r \in Existing(list.rules) :
            <<p, q>> \in before /\ <<q, r>> \in before => <<p, r>> \in before

Lists == {l \in [rules : Contents, before : SUBSET (Paths \X Paths)] : InOrder(l)}

\* ValidateConfig: a path, no path twice, and for each a default rule, which is
\* the last.
Valid(list) ==
    /\ Existing(list.rules) # {}
    /\ \A p \in Existing(list.rules) :
        LET rules == list.rules[p]
        IN  /\ rules # <<>>
            /\ \A i \in DOMAIN rules : rules[i] \in Defaults <=> i = Len(rules)

IsRequest(r) ==
    /\ r \in [present : BOOLEAN, name : Names, paths : Lists]
    /\ r.present => Valid(r.paths)

ASSUME RoutingAssumption ==
    /\ Paths \subseteq Nat /\ Defaults \subseteq Rules /\ Absent \notin Seq(Rules)
    /\ \A r \in Requests : IsRequest(r)
    /\ MaxConfigs \in Nat \ {0} /\ MaxFaults \in Nat /\ MaxEdits \in Nat /\ MaxDrifts \in Nat

VARIABLES
    live, created, \* routing configs that exist; how many ever were
    names,         \* of each ever created, in that order
    draft, active,
    config,        \* what the user asks for
    state,         \* Terraform's record: the routing config and its paths
    pc, plan,      \* the step an apply is at, the configuration it works for
    surplus,       \* the paths it has still to delete
    todo,          \* the paths it has still to reconcile
    at,            \* what it does about the rules of the first of them
    changed,       \* Update: whether to activate
    faults, edits, drifts,
    applied,       \* history: the last apply ended without an error
    matched,       \* history: when it was planned, state was as configured
    requested,     \* history: whole contents that someone meant to be served
    adrift         \* history: routing configs no record could be kept of

content == <<draft, active>>
remote == <<live, created, names, content>>
bounds == <<faults, edits, drifts>>
history == <<matched, requested, adrift>>
work == <<surplus, todo, at, changed>>
vars == <<remote, config, state, pc, plan, work, bounds, applied, history>>

Ids == 1 .. MaxConfigs
NoList == [rules |-> None, before |-> {}]
NoState == [id |-> 0, paths |-> NoList, tainted |-> FALSE]
Tracked == state.id # 0

TypeOK ==
    /\ created \in 0 .. MaxConfigs /\ live \in SUBSET (1 .. created)
    /\ names \in Seq(Names) /\ Len(names) = created
    /\ draft \in [Ids -> Contents] /\ active \in [Ids -> Contents \cup {Absent}]
    /\ config \in Requests /\ plan \in Requests
    /\ state \in [id : 0 .. created, paths : Lists, tainted : BOOLEAN]
    /\ pc \in {"idle", "plan", "delete", "create", "list", "write"}
    /\ surplus \subseteq Paths /\ todo \subseteq Paths /\ at \in {"compare", "delete", "create"}
    /\ changed \in BOOLEAN /\ applied \in BOOLEAN /\ matched \in BOOLEAN
    /\ faults \in 0 .. MaxFaults /\ edits \in 0 .. MaxEdits /\ drifts \in 0 .. MaxDrifts
    /\ requested \subseteq Contents
    /\ adrift \in SUBSET Ids

Init ==
    /\ live = {} /\ created = 0 /\ names = <<>>
    /\ draft = [i \in Ids |-> None] /\ active = [i \in Ids |-> Absent]
    /\ config \in Requests /\ plan = config
    /\ state = NoState
    /\ pc = "idle" /\ surplus = {} /\ todo = {} /\ at = "compare" /\ changed = FALSE
    /\ faults = 0 /\ edits = 0 /\ drifts = 0
    /\ applied = FALSE /\ matched = FALSE
    /\ requested = {} /\ adrift = {}

---------------------------------------------------------------------------
(* Lists of paths.                                                         *)

\* Mutation: paths that are not listed any more are kept.
KeepsUnlisted(d, prior) ==
    [rules |-> d,
     before |-> prior.before \cup {pq \in Existing(d) \X Existing(d) :
                    pq[2] \notin Existing(prior.rules)
                    /\ (pq[1] \in Existing(prior.rules) \/ pq[1] < pq[2])}]

\* matchPathOrder: the paths the state knows keep its order; others follow,
\* sorted.
MatchOrder(d, prior) ==
    LET known == Existing(prior.rules)
    IN  [rules |-> d,
         before |-> {pq \in Existing(d) \X Existing(d) :
                        \/ pq \in prior.before
                        \/ pq[2] \notin known /\ (pq[1] \in known \/ pq[1] < pq[2])}]

---------------------------------------------------------------------------
(* Refresh and plan.                                                       *)

\* Read.
Refreshed ==
    IF ~Tracked \/ state.id \notin live THEN NoState
    ELSE [state EXCEPT !.paths = MatchOrder(draft[state.id], state.paths)]

Begin ==
    /\ pc = "idle"
    /\ pc' = "plan"
    /\ applied' = FALSE
    /\ UNCHANGED <<remote, config, plan, work, bounds, history>>

Refresh == Begin /\ state' = Refreshed

\* terraform apply -refresh=false
SkipRefresh == Begin /\ UNCHANGED state

\* A tainted resource, or one that is to have another name, is replaced.
Planned ==
    IF ~config.present THEN IF Tracked THEN "delete" ELSE "idle"
    ELSE IF ~Tracked THEN "create"
    ELSE IF state.tainted \/ names[state.id] # config.name THEN "delete"
    ELSE IF state.paths = config.paths THEN "idle" ELSE "list"

Plan ==
    /\ pc = "plan"
    /\ pc' = Planned
    /\ plan' = config
    /\ applied' = (Planned = "idle")
    /\ matched' = (Planned \in {"idle", "list"} /\ state.paths.rules = config.paths.rules)
    /\ requested' = IF config.present THEN requested \cup {config.paths.rules} ELSE requested
    /\ UNCHANGED <<remote, config, state, work, bounds, adrift>>

---------------------------------------------------------------------------
(* The handlers.                                                           *)

unmoved == <<config, plan, edits, drifts, matched, requested>>

Ends == pc' = "idle" /\ applied' = TRUE

\* Delete, with force; one that is gone is deleted.  In a replacement Create
\* comes next.
Delete ==
    /\ pc = "delete"
    /\ live' = live \ {state.id}
    /\ state' = NoState
    /\ IF plan.present THEN pc' = "create" /\ UNCHANGED applied ELSE Ends
    /\ UNCHANGED <<created, names, content, unmoved, work, faults, adrift>>

\* Mutation: the state is set at the end of Create.
RecordsNothing(id) == NoState

\* The state as soon as the ID exists.  A resource whose Create fails is
\* tainted and replaced as a whole, so what it says of paths is left out.
Recorded(id) == [id |-> id, paths |-> NoList, tainted |-> TRUE]

\* The first call of Create.
NewConfig ==
    /\ pc = "create" /\ created < MaxConfigs
    /\ created' = created + 1
    /\ live' = live \cup {created'}
    /\ names' = Append(names, plan.name)
    /\ UNCHANGED content

\* None of the paths is there: createPaths.
Create ==
    /\ NewConfig
    /\ state' = Recorded(created')
    /\ surplus' = {} /\ todo' = Existing(plan.paths.rules) /\ at' = "compare"
    /\ changed' = TRUE
    /\ pc' = "write"
    /\ UNCHANGED <<unmoved, applied, faults, adrift>>

\* listPaths.
Listed == draft[state.id]

\* Mutation: paths that are no longer configured stay.
KeepsSurplus == {}

\* What is deleted comes from the draft.
Surplus == Existing(Listed) \ Existing(plan.paths.rules)

\* Mutation: work that an earlier Update left in the draft is not activated.
OnlyOwnChanges == FALSE

\* pathsDiffer: "A draft that differs from state is unactivated work from a
\* failed Update, so it needs activating even if it already matches the plan."
Differs == Listed # state.paths.rules

\* The first calls of Update.
List ==
    /\ pc = "list" /\ state.id \in live
    /\ surplus' = Surplus /\ todo' = Existing(plan.paths.rules) /\ at' = "compare"
    /\ changed' = Differs
    /\ pc' = "write"
    /\ UNCHANGED <<remote, unmoved, state, applied, faults, adrift>>

ListFindsNothing ==
    /\ pc = "list" /\ state.id \notin live
    /\ pc' = "idle"
    /\ UNCHANGED <<remote, unmoved, state, work, applied, faults, adrift>>

\* The first of the paths to reconcile, its rules in the draft, and as planned.
IsNext(p) == surplus = {} /\ p \in todo /\ \A q \in todo : <<q, p>> \notin plan.paths.before
Old(p) == draft[state.id][p]
Wanted(p) == plan.paths.rules[p]

\* Mutation: rules are compared without their order.
IgnoresOrder(p) ==
    Old(p) # Absent /\ {Old(p)[i] : i \in DOMAIN Old(p)} = {Wanted(p)[i] : i \in DOMAIN Wanted(p)}

\* sameRules
Same(p) == Old(p) = Wanted(p)

DeletesRules(p) == at # "create" /\ Old(p) \notin {Absent, <<>>}

\* What the next call makes of a path: a path without rules, then, after all
\* rules it had have been deleted, one rule after the other.  Rules are kept in
\* the order in which they were created, the oldest is deleted first.
Written(p) ==
    IF Old(p) = Absent THEN <<>>
    ELSE IF DeletesRules(p) THEN Tail(Old(p))
    ELSE Append(Old(p), Wanted(p)[Len(Old(p)) + 1])

Draw(p, rules) == draft' = [draft EXCEPT ![state.id][p] = rules]

\* The paths to delete come from a Go map, in any order.
DrawsDeletion(p) == p \in surplus /\ Draw(p, Absent)
DrawsRules(p) == IsNext(p) /\ (at = "compare" => ~Same(p)) /\ Draw(p, Written(p))

Writing ==
    /\ pc = "write"
    /\ UNCHANGED <<live, created, names, active, unmoved, state, pc, applied, faults, adrift>>

DeletePath(p) ==
    /\ Writing /\ DrawsDeletion(p)
    /\ surplus' = surplus \ {p} /\ changed' = TRUE
    /\ UNCHANGED <<todo, at>>

\* paths.Create, reconcileRules, createRules.
WriteRules(p) ==
    /\ Writing /\ DrawsRules(p)
    /\ changed' = TRUE
    /\ IF ~DeletesRules(p) /\ Written(p) = Wanted(p)
       THEN todo' = todo \ {p} /\ at' = "compare"
       ELSE /\ at' = IF DeletesRules(p) THEN "delete" ELSE "create"
            /\ UNCHANGED todo
    /\ UNCHANGED surplus

\* No call: the rules are as planned.
KeepRules(p) ==
    /\ Writing /\ IsNext(p) /\ at = "compare" /\ Same(p)
    /\ todo' = todo \ {p}
    /\ UNCHANGED <<draft, surplus, at, changed>>

Write == \E p \in Paths : DeletePath(p) \/ WriteRules(p) \/ KeepRules(p)

Reconciled == pc = "write" /\ surplus = {} /\ todo = {}

Saved == state' = [state EXCEPT !.paths = plan.paths, !.tainted = FALSE]

\* Nothing had to be changed: the routing config is read instead.
Get ==
    /\ Reconciled /\ ~changed
    /\ Saved /\ Ends
    /\ UNCHANGED <<remote, unmoved, work, faults, adrift>>

Publish == active' = [active EXCEPT ![state.id] = draft[state.id]]

Activate ==
    /\ Reconciled /\ changed
    /\ Publish
    /\ Saved /\ Ends
    /\ UNCHANGED <<live, created, names, draft, unmoved, work, faults, adrift>>

Handler == Delete \/ Create \/ List \/ ListFindsNothing \/ Write \/ Get \/ Activate

---------------------------------------------------------------------------
(* Failures.  A call fails, and may have been carried out all the same: a  *)
(* diagnostic, after which Terraform keeps the state the handler set.      *)

Fault ==
    /\ faults < MaxFaults
    /\ faults' = faults + 1
    /\ pc' = "idle" /\ surplus' = {} /\ todo' = {} /\ at' = "compare"
    /\ UNCHANGED <<unmoved, changed, applied>>

CallFails ==
    /\ pc \in {"plan", "delete", "create", "list", "write"}
    /\ Fault
    /\ UNCHANGED <<remote, state, adrift>>

\* The call was carried out.
ResponseLost ==
    /\ Fault
    /\ UNCHANGED state
    /\ \/ /\ pc = "delete" /\ live' = live \ {state.id}
          /\ UNCHANGED <<created, names, content, adrift>>
       \/ NewConfig /\ adrift' = adrift \cup {created'}
       \/ /\ pc = "write" /\ \E p \in Paths : DrawsDeletion(p) \/ DrawsRules(p)
          /\ UNCHANGED <<live, created, names, active, adrift>>
       \/ /\ Reconciled /\ changed /\ Publish
          /\ UNCHANGED <<live, created, names, draft, adrift>>

\* The provider is killed: what Create would have returned is lost.
Killed ==
    /\ pc = "write" /\ state.tainted
    /\ Fault
    /\ state' = NoState
    /\ adrift' = adrift \cup {state.id}
    /\ UNCHANGED remote

---------------------------------------------------------------------------
(* The user and the operators, between applies.                            *)

between == <<names, pc, plan, work, faults, matched>>

Edit ==
    /\ pc = "idle" /\ edits < MaxEdits
    /\ edits' = edits + 1
    /\ config' \in Requests
    /\ applied' = FALSE
    /\ UNCHANGED <<between, live, created, content, state, drifts, requested, adrift>>

\* ImportState, of a routing config there is no record of.
Import ==
    /\ pc = "idle" /\ ~Tracked
    /\ \E i \in live \cap adrift :
        /\ state' = [id |-> i, paths |-> MatchOrder(draft[i], NoList), tainted |-> FALSE]
        /\ adrift' = adrift \ {i}
    /\ applied' = FALSE
    /\ UNCHANGED <<between, live, created, content, config, edits, drifts, requested>>

Drift ==
    /\ pc = "idle" /\ drifts < MaxDrifts
    /\ drifts' = drifts + 1
    /\ state.id \in live
    /\ applied' = FALSE
    /\ UNCHANGED <<between, created, config, edits, state, adrift>>

\* An operator takes a path out of the draft, or all but its default rule, and
\* may activate that.
EditDraft ==
    /\ Drift
    /\ \E p \in Paths, rules \in {<<r>> : r \in Defaults} \cup {Absent} :
        draft' = [draft EXCEPT ![state.id][p] = rules]
    /\ \/ UNCHANGED <<active, requested>>
       \/ /\ active' = [active EXCEPT ![state.id] = draft'[state.id]]
          /\ requested' = requested \cup {draft'[state.id]}
    /\ UNCHANGED live

DeleteByHand ==
    /\ Drift
    /\ live' = live \ {state.id}
    /\ UNCHANGED <<content, requested>>

Others == Edit \/ Import \/ EditDraft \/ DeleteByHand

Next ==
    \/ Refresh \/ SkipRefresh \/ Plan \/ Handler
    \/ CallFails \/ ResponseLost \/ Killed
    \/ Others

Spec == Init /\ [][Next]_vars

\* Applies are run again, not always with -refresh=false, and handlers go on.
FairSpec ==
    /\ Spec
    /\ WF_vars(Refresh \/ Plan \/ Handler)
    /\ SF_vars(Refresh)

---------------------------------------------------------------------------
(* Properties.                                                             *)

\* What is served is always whole, and what someone asked for: no failed or
\* interrupted reconcile, and nothing it left in the draft, is ever part of
\* what a later apply activates.
ServesWholeWishes ==
    \A i \in live : active[i] # Absent => active[i] \in requested

\* An apply that ends without an error has made the configuration the served
\* version, whatever the draft held and whatever the state knew of it, unless
\* its plan found the state already as configured.
AppliedIsServed ==
    applied /\ config.present /\ ~matched =>
        Tracked /\ active[state.id] = config.paths.rules

\* "Save state as soon as the ID exists, so a later failure here still lets a
\* destroy clean up the routing config instead of leaking it" (Create): there
\* is a record of every routing config, unless a response was lost or the
\* provider killed.
NoConfigIsLost == live \subseteq {state.id} \cup adrift

\* Repeated applies make the draft and the state what is asked for.
Converges ==
    <>[](IF config.present
         THEN /\ state.id \in live /\ ~state.tainted
              /\ names[state.id] = config.name
              /\ draft[state.id] = config.paths.rules
              /\ state.paths = config.paths
         ELSE ~Tracked)

\* "every apply reconciles the routing config's draft paths and rules against
\* this resource's configuration and, if anything changed, activates the
\* result" (the schema's description): after an apply without errors, nothing
\* is left in the draft of a routing config in use that is not active.
NothingLeftInDraft ==
    applied /\ Tracked /\ active[state.id] # Absent => active[state.id] = draft[state.id]
=============================================================================
