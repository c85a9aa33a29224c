----------------------------- MODULE BlockPair -----------------------------
(***************************************************************************)
(* Reconciling two kinds of blocks of one draft version when blocks of the *)
(* second kind, the dependents, name blocks of the first, the parents:     *)
(* directors name backends, rate limiters name dictionaries (Update in     *)
(* servicecdnauto, internal/reconcile).                                    *)
(*                                                                         *)
(* The blocks of a kind live in a version under unique names.  Run lists   *)
(* what is there, deletes what is not wanted, and creates or updates the   *)
(* rest; the pair is reconciled in an order that never leaves a reference  *)
(* hanging.  The order in which the names of one pass are handled is left  *)
(* open.  Every step is one API call, and any of them can fail.            *)
(***************************************************************************)
EXTENDS Integers, FiniteSets

CONSTANTS
    Parents,             \* names of parents
    Dependents,          \* names of dependents
    Values,              \* what a block is set to, other than its references
    Absent,              \* stands for a block that does not exist
    ParentsRecreated,    \* a parent is changed by deleting and creating it
                         \* (dictionaries), not in place (backends)
    RefsAreAssociations, \* a reference is an object of its own (directors),
                         \* not a field (rate limiters)
    APIRefuses,          \* the API refuses what leaves a reference hanging
    MaxFaults            \* bound: failed calls

ASSUME PairAssumption ==
    /\ Absent \notin Values \cup Parents \cup Dependents
    /\ Absent \notin [val: Values, refs: SUBSET Parents]
    /\ ParentsRecreated \in BOOLEAN
    /\ RefsAreAssociations \in BOOLEAN
    /\ APIRefuses \in BOOLEAN
    /\ IsFiniteSet(Parents)
    /\ MaxFaults \in Nat

VARIABLES
    parents, deps,         \* the draft: name -> the block, or Absent
    wantParents, wantDeps, \* the plan
    known,                 \* whether the state has any dependents
    pass,                  \* where the handler is
    doomed, toWrite,       \* names the pass has yet to delete, to write
    cur,                   \* the block whose calls have begun, or Absent
    faults,
    refused,               \* history: the API has refused a call of this run
    beganParents, beganDeps  \* history: the draft when this run began

draft == <<parents, deps>>
wanted == <<wantParents, wantDeps>>
began == <<beganParents, beganDeps>>
vars == <<draft, wanted, known, pass, doomed, toWrite, cur, faults, refused, began>>

Dependent == [val: Values, refs: SUBSET Parents]
ParentsType == [Parents -> Values \cup {Absent}]
DepsType == [Dependents -> Dependent \cup {Absent}]

Passes == {"listParents", "deleteParents", "upsertParents", "listDeps",
           "deleteDeps", "upsertDeps", "relistParents", "done", "failed"}

Names == Parents \cup Dependents

\* Every reference of a dependent in d names a parent in p.
Resolves(p, d) ==
    \A n \in Dependents : d[n] # Absent => \A r \in d[n].refs : p[r] # Absent

TypeOK ==
    /\ parents \in ParentsType /\ wantParents \in ParentsType /\ beganParents \in ParentsType
    /\ deps \in DepsType /\ wantDeps \in DepsType /\ beganDeps \in DepsType
    /\ known \in BOOLEAN
    /\ pass \in Passes
    /\ doomed \in SUBSET Names
    /\ toWrite \in SUBSET Names
    /\ cur \in Names \cup {Absent}
    /\ faults \in 0 .. MaxFaults
    /\ refused \in BOOLEAN

AnyBlock(blocks) == \E n \in DOMAIN blocks : blocks[n] # Absent

\* A field names at most one parent.
Possible(d) ==
    RefsAreAssociations \/
    \A n \in Dependents : d[n] # Absent => \A r, q \in d[n].refs : r = q

\* The draft is any whole version, or what a failed run has left.  The plan
\* has passed ValidateBackendReferences and ValidateDictionaryReferences.
\* The state may be older than the version the draft was cloned from.
Init ==
    /\ parents \in ParentsType /\ deps \in DepsType
    /\ Resolves(parents, deps) /\ Possible(deps)
    /\ wantParents \in ParentsType /\ wantDeps \in DepsType
    /\ Resolves(wantParents, wantDeps) /\ Possible(wantDeps)
    /\ known \in BOOLEAN
    /\ pass = "listParents"
    /\ doomed = {} /\ toWrite = {} /\ cur = Absent
    /\ faults = 0
    /\ refused = FALSE
    /\ beganParents = parents /\ beganDeps = deps

---------------------------------------------------------------------------
(* The order of the passes.                                                *)

\* Mutation: only the plan is asked whether there are dependents.
PresentInPlan == AnyBlock(wantDeps)

\* dependentPresent.
Present == AnyBlock(wantDeps) \/ known

\* Mutation: parents are created before the surplus ones are deleted.
CreatesFirst ==
    CASE pass = "listParents" -> "upsertParents"
      [] pass = "upsertParents" -> IF Present THEN "listDeps" ELSE "deleteParents"
      [] pass = "deleteParents" -> IF Present THEN "done" ELSE "listDeps"
      [] pass = "listDeps" -> "deleteDeps"
      [] pass = "deleteDeps" -> "upsertDeps"
      [] pass = "upsertDeps" -> IF Present THEN "relistParents" ELSE "done"
      [] pass = "relistParents" -> "deleteParents"

\* ThreePassUpdate: Run for the parents, then for the dependents; or, with
\* dependents present, CreateOrUpdate, the dependents' Run, DeleteRemoved.
NextPass ==
    CASE pass = "listParents" -> IF Present THEN "upsertParents" ELSE "deleteParents"
      [] pass = "deleteParents" -> IF Present THEN "done" ELSE "upsertParents"
      [] pass = "upsertParents" -> "listDeps"
      [] pass = "listDeps" -> "deleteDeps"
      [] pass = "deleteDeps" -> "upsertDeps"
      [] pass = "upsertDeps" -> IF Present THEN "relistParents" ELSE "done"
      [] pass = "relistParents" -> "deleteParents"

---------------------------------------------------------------------------
(* What a pass has to do, from the one List it begins with.                *)

Surplus(have, want) == {n \in DOMAIN have : have[n] # Absent /\ want[n] = Absent}

\* Mutation: Equal is not asked.
AllWanted(have, want) == {n \in DOMAIN want : want[n] # Absent}

Differing(have, want) == {n \in DOMAIN want : want[n] # Absent /\ have[n] # want[n]}

ListParents ==
    /\ pass \in {"listParents", "relistParents"}
    /\ pass' = NextPass
    /\ doomed' = Surplus(parents, wantParents)
    /\ toWrite' = Differing(parents, wantParents)
    /\ UNCHANGED <<draft, wanted, known, cur, faults, refused, began>>

ListDeps ==
    /\ pass = "listDeps"
    /\ pass' = NextPass
    /\ doomed' = Surplus(deps, wantDeps)
    /\ toWrite' = Differing(deps, wantDeps)
    /\ UNCHANGED <<draft, wanted, known, cur, faults, refused, began>>

PassDone ==
    /\ \/ pass \in {"deleteParents", "deleteDeps"} /\ doomed = {}
       \/ pass \in {"upsertParents", "upsertDeps"} /\ toWrite = {}
    /\ pass' = NextPass
    /\ UNCHANGED <<draft, wanted, known, doomed, toWrite, cur, faults, refused, began>>

---------------------------------------------------------------------------
(* The calls.                                                              *)

\* The next call of CreateOrUpdate for parent n makes it one of these.
ParentCall(n) ==
    IF ParentsRecreated /\ parents[n] # Absent THEN Absent ELSE wantParents[n]

\* Mutation: a field is cleared by an update, which leaves it as it is.
ClearedInPlace(n) ==
    LET have == deps[n]
        want == wantDeps[n]
    IN  IF have # Absent /\ have.refs # {} /\ want.refs = {}
        THEN {[want EXCEPT !.refs = have.refs]}
        ELSE {want}

\* A rate limiter is written with one call, except that a field is cleared
\* by deleting and creating the rate limiter.
FieldCalls(n) ==
    LET have == deps[n]
        want == wantDeps[n]
    IN  IF have # Absent /\ have.refs # {} /\ want.refs = {} THEN {Absent} ELSE {want}

\* Mutation: a director is created with its name alone.
NoSettings(n) ==
    IF deps[n] = Absent THEN {[wantDeps[n] EXCEPT !.val = Absent, !.refs = {}]}
                        ELSE {wantDeps[n]}

\* Removals come before additions, one key a call.
DiffSet(current, want) ==
    IF current \ want # {} THEN {current \ {r} : r \in current \ want}
                           ELSE {current \cup {r} : r \in want \ current}

\* A director is created or updated, then its associations are.
AssociationCalls(n) ==
    LET have == deps[n]
        want == wantDeps[n]
    IN  IF have = Absent THEN {[want EXCEPT !.refs = {}]}
        ELSE IF have.val # want.val THEN {[have EXCEPT !.val = want.val]}
        ELSE {[have EXCEPT !.refs = s] : s \in DiffSet(have.refs, want.refs)}

DepCalls(n) == IF RefsAreAssociations THEN AssociationCalls(n) ELSE FieldCalls(n)

---------------------------------------------------------------------------

\* The names whose turn it may be.  The calls about one block are not
\* interrupted by calls about another.
Turn ==
    CASE pass \in {"deleteParents", "deleteDeps"} -> doomed
      [] pass \in {"upsertParents", "upsertDeps"} -> IF cur = Absent THEN toWrite ELSE {cur}
      [] OTHER -> {}

\* What the draft may be after the next call about block n.
Effects(n) ==
    CASE pass = "deleteParents" -> {<<[parents EXCEPT ![n] = Absent], deps>>}
      [] pass = "deleteDeps" -> {<<parents, [deps EXCEPT ![n] = Absent]>>}
      [] pass = "upsertParents" -> {<<[parents EXCEPT ![n] = ParentCall(n)], deps>>}
      [] pass = "upsertDeps" -> {<<parents, [deps EXCEPT ![n] = x]>> : x \in DepCalls(n)}

\* This was the last call about block n: it created or updated the block, and
\* a director has no associations left to change.
Finished(n) ==
    CASE pass = "upsertParents" -> parents'[n] # Absent
      [] pass = "upsertDeps" -> deps'[n] # Absent /\ (RefsAreAssociations => deps'[n] = wantDeps[n])
      [] OTHER -> TRUE

\* The API may refuse to leave a reference hanging.
Accepted(effect) == APIRefuses => Resolves(effect[1], effect[2])

DraftBecomes(effect) == parents' = effect[1] /\ deps' = effect[2]

Call ==
    /\ \E n \in Turn : \E effect \in Effects(n) :
        /\ Accepted(effect)
        /\ DraftBecomes(effect)
        /\ doomed' = doomed \ {n}
        /\ IF Finished(n) THEN toWrite' = toWrite \ {n} /\ cur' = Absent
                          ELSE cur' = n /\ UNCHANGED toWrite
    /\ UNCHANGED <<wanted, known, pass, faults, refused, began>>

\* The handler returns the error.
Fail ==
    /\ pass' = "failed"
    /\ doomed' = {} /\ toWrite' = {} /\ cur' = Absent
    /\ UNCHANGED <<wanted, known, began>>

CallRefused ==
    /\ \E n \in Turn : \E effect \in Effects(n) : ~Accepted(effect)
    /\ refused' = TRUE
    /\ UNCHANGED <<draft, faults>>
    /\ Fail

\* The call fails, carried out or not.
CallFails ==
    /\ faults < MaxFaults
    /\ faults' = faults + 1
    /\ \/ pass \in {"listParents", "listDeps", "relistParents"} /\ UNCHANGED draft
       \/ Turn # {} /\ UNCHANGED draft
       \/ \E n \in Turn : \E effect \in Effects(n) : Accepted(effect) /\ DraftBecomes(effect)
    /\ UNCHANGED refused
    /\ Fail

\* Mutation: the next apply does not look at the version again.
RetriesBlindly ==
    /\ pass = "failed"
    /\ pass' = "listParents"
    /\ refused' = FALSE
    /\ beganParents' = parents /\ beganDeps' = deps
    /\ UNCHANGED <<draft, wanted, known, doomed, toWrite, cur, faults>>

\* The next apply reads the version it is going to clone: what the failed
\* run left when no version is active, and the version as it was otherwise.
Retry ==
    /\ pass = "failed"
    /\ pass' = "listParents"
    /\ UNCHANGED draft \/ DraftBecomes(began)
    /\ beganParents' = parents' /\ beganDeps' = deps'
    /\ known' = AnyBlock(deps')
    /\ refused' = FALSE
    /\ UNCHANGED <<wanted, doomed, toWrite, cur, faults>>

Handler == ListParents \/ ListDeps \/ PassDone \/ Call \/ CallRefused \/ Retry

Next == Handler \/ CallFails

Spec == Init /\ [][Next]_vars

\* The handler goes on, and a failed apply is run again.
FairSpec == Spec /\ WF_vars(Handler)

---------------------------------------------------------------------------
(* Properties.                                                             *)

\* When the reconcile reports success the version holds exactly the wanted
\* blocks of both kinds, whatever it held before: another version's blocks,
\* or what a failed run left half done.
EndsAsWanted == pass = "done" => parents = wantParents /\ deps = wantDeps

\* The order of the passes never makes a call that the API refuses, unless
\* the state did not know of the dependents the version has: a parent is
\* created before it is named and deleted after it is no longer named.
RefusedOnlyWhenStale == refused => ~known /\ AnyBlock(beganDeps)

\* Blocks that are as wanted from the start are not taken away or changed,
\* not even for a moment.
UntouchedStay ==
    /\ \A n \in Parents : beganParents[n] = wantParents[n] => parents[n] = beganParents[n]
    /\ \A n \in Dependents : beganDeps[n] = wantDeps[n] => deps[n] = beganDeps[n]

Existing(blocks) == {n \in DOMAIN blocks : blocks[n] # Absent}

\* Without dependents there is never a parent more than before or after,
\* which could exceed a service-side limit (ThreePassUpdate's reason for
\* deleting first).
NoExcess ==
    ~Present =>
        \/ Cardinality(Existing(parents)) <= Cardinality(Existing(beganParents))
        \/ Cardinality(Existing(parents)) <= Cardinality(Existing(wantParents))

\* Once calls stop failing, repeated applies succeed.
Completes == <>(pass = "done")
=============================================================================
