-------------------------- MODULE ServiceAutoInv --------------------------
(***************************************************************************)
(* The inductive invariant of ServiceAuto, in named parts.  The safety     *)
(* invariants are not inductive by themselves: that what goes live is      *)
(* whole rests on what holds half way through a reconcile, on who owns     *)
(* which draft, and on which handler may run at which step.                *)
(***************************************************************************)
EXTENDS ServiceAuto

\* How the remote parts fit together.
RemoteShape ==
    \A s \in Services :
        /\ locked[s] \subseteq 1 .. latest[s]
        /\ theirs[s] \subseteq 1 .. latest[s]
        /\ active[s] # 0 => active[s] \in locked[s]
        /\ Fresh(s) => latest[s] = 0 /\ active[s] = 0
        /\ Live(s) => latest[s] >= 1

\* An operator's draft is whole, and stays as the operator made it.
TheirsAreWhole ==
    \A s \in Services : \A v \in theirs[s] : content[s][v] \in Foreign

Refreshing == {"refresh", "readBlocks", "plan"}
Updating == {"metadata", "select", "clone"}
Writing == {"blocks", "validate", "activate"}
Deleting == {"details", "deactivate", "remove"}

\* Which handler runs at which step, and on which service.
Control ==
    /\ pc \in {"idle", "create"} \cup Refreshing => op = "none"
    /\ pc \in Updating => op = "update"
    /\ pc \in Writing => op \in {"create", "update"}
    /\ pc \in Deleting => op = "delete"
    /\ pc = "idle" => plan = config
    /\ pc \notin {"idle", "create"} => sid \in Services
    /\ pc = "create" \/ op = "create" => ~Tracked
    /\ pc \in Refreshing \/ op \in {"update", "delete"} => sid = state.id
    /\ pc \in {"create"} \cup Updating \cup Writing => plan.present
    /\ pc # "idle" /\ plan.present => plan.cfg \in requested

\* What Read and Update hold on to between two calls still makes sense.
HeldVersions ==
    /\ pc = "readBlocks" =>
        /\ seen.version \in 1 .. latest[sid]
        /\ seen.active => seen.version \in locked[sid]
    /\ pc = "clone" => source \in 1 .. latest[sid]
    /\ op = "create" => target # 0

\* How far the reconcile has got with the draft.
Progress ==
    /\ pc = "blocks" =>
        /\ step \in Blocks
        /\ \A b \in Blocks : b < step => content[sid][target][b] = plan.cfg[b]
    /\ pc \in {"validate", "activate"} => content[sid][target] = plan.cfg
    /\ pc = "activate" => plan.cfg \notin Invalid

\* Only an import has no version on record, and only until Read fills it in.
RecordShape ==
    /\ ~Tracked => state = NoState
    /\ Tracked /\ state.managed = 0 =>
        pc \in {"refresh", "readBlocks"} /\ state.active = 0

\* What Delete has looked at before it takes a service down or deletes it.
DeletePolicy ==
    /\ op = "delete" => ~plan.present \/ state.tainted
    /\ pc = "deactivate" => state.force \/ state.reuse
    /\ pc = "remove" => ~state.reuse

IInv ==
    /\ TypeOK
    /\ RemoteShape
    /\ TheirsAreWhole
    /\ Control
    /\ HeldVersions
    /\ Progress
    /\ RecordShape
    /\ DeletePolicy
    /\ WorksOnItsOwnDraft
    /\ NothingTornGoesLive
    /\ StateDescribesActiveVersion
    /\ NoServiceIsLost
=============================================================================
