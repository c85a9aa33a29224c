--------------------------- MODULE BlockPairInv ---------------------------
(***************************************************************************)
(* The inductive invariant of BlockPair, in named parts.  What a pass has  *)
(* still to do is always exactly what the draft and the plan differ in, as *)
(* far as the pass is concerned; what earlier passes did is not undone.    *)
(***************************************************************************)
EXTENDS BlockPair

\* The third pass, with dependents present.
LastDelete == pass = "deleteParents" /\ Present

\* Passes after which every wanted parent is as wanted.
ParentsWritten ==
    LastDelete \/ pass \in {"listDeps", "deleteDeps", "upsertDeps", "relistParents", "done"}

\* Passes after which every dependent is as wanted.
DepsWritten == LastDelete \/ pass \in {"relistParents", "done"}

Work ==
    /\ pass = "deleteParents" => doomed = Surplus(parents, wantParents)
    /\ pass \in {"deleteParents", "upsertParents"} => toWrite = Differing(parents, wantParents)
    /\ pass = "deleteDeps" => doomed = Surplus(deps, wantDeps)
    /\ pass \in {"deleteDeps", "upsertDeps"} => toWrite = Differing(deps, wantDeps)
    /\ cur # Absent => cur \in toWrite /\ pass \in {"upsertParents", "upsertDeps"}

Achieved ==
    /\ ParentsWritten => Differing(parents, wantParents) = {}
    /\ pass = "done" \/ (~Present /\ pass \in {"upsertParents", "listDeps", "deleteDeps", "upsertDeps"})
            => Surplus(parents, wantParents) = {}
    /\ DepsWritten \/ pass = "upsertDeps" => Surplus(deps, wantDeps) = {}
    /\ DepsWritten => Differing(deps, wantDeps) = {}
    /\ pass = "relistParents" => Present

\* What the run has not come to yet.
Ahead ==
    /\ pass = "listParents" => parents = beganParents
    /\ pass \in {"listParents", "upsertParents", "listDeps"} \/ (pass = "deleteParents" /\ ~Present)
            => deps = beganDeps

References ==
    /\ Resolves(wantParents, wantDeps)
    /\ APIRefuses => Resolves(parents, deps) /\ Resolves(beganParents, beganDeps)

\* Without dependents the parents first shrink and then grow.
Bounded ==
    ~Present => \/ Existing(parents) \subseteq Existing(beganParents)
                \/ Existing(parents) \subseteq Existing(wantParents)

IInv ==
    /\ TypeOK
    /\ Work
    /\ Achieved
    /\ Ahead
    /\ References
    /\ Bounded
    /\ UntouchedStay

\* Calls are refused only to a handler whose state was stale, provided that
\* parents are changed in place.
Stale == ~ParentsRecreated => RefusedOnlyWhenStale
=============================================================================
