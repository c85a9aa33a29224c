---------------------------- MODULE ServiceAuto ----------------------------
(***************************************************************************)
(* The life of one automatic service resource, fastly_service_cdn_auto or  *)
(* fastly_service_compute_auto, driven by Terraform Core against the       *)
(* Fastly API.                                                             *)
(*                                                                         *)
(* One apply of Terraform is a sequence of steps, one per API call that    *)
(* another party can interleave with: refresh (Read), plan, then Create,   *)
(* Update or Delete.  Any call can fail, can succeed with its response     *)
(* lost, and the process can be killed between two of them.  Meanwhile an  *)
(* operator works on the same services through the Fastly API or web UI.   *)
(*                                                                         *)
(* What Terraform Core does around the handlers is not in the repository:  *)
(* it keeps the prior state when a handler returns an error, marks an      *)
(* object whose Create failed as tainted, and replaces a tainted object.   *)
(***************************************************************************)
EXTENDS FastlyService

CONSTANTS
    Requests,        \* what the user's configuration may say
    Invalid,         \* configurations that ValidateVersion turns down
    Foreign,         \* configurations an operator may publish by hand
    MaxFaults,       \* bound: failed, lost or killed calls
    MaxEdits,        \* bound: edits of the user's configuration
    MaxRescues,      \* bound: manual imports and untaints
    MaxForeign       \* bound: operator actions

Request == [present: BOOLEAN, name: Names, cfg: Config,
            force: BOOLEAN, reuse: BOOLEAN]

ASSUME AutoAssumption ==
    /\ Requests \subseteq Request
    /\ Requests # {}
    /\ Invalid \subseteq Config
    /\ Foreign \subseteq Config
    /\ MaxFaults \in Nat
    /\ MaxEdits \in Nat
    /\ MaxRescues \in Nat
    /\ MaxForeign \in Nat

VARIABLES
    config,    \* what the user asks for now
    state,     \* Terraform's record of the resource; id 0 when there is none
    pc,        \* the next step of the running apply, "idle" between applies
    op,        \* the handler the apply is in: "none", "create", "update", "delete"
    plan,      \* what the user asked for when the apply began
    sid,       \* the service the handler works on
    source,    \* the version number the handler read from the service details
    target,    \* the version the handler writes to
    step,      \* the next block to reconcile
    seen,      \* what Read took from the service details
    faults, edits, rescues, foreign,  \* how much of each bound is used
    requested, \* history: every configuration an apply set out to publish
    theirs,    \* history: Services -> drafts that belong to the operator
    adrift,    \* history: services that no record could be kept of
    clones     \* history: versions cloned since this apply began

local == <<config, state, pc, op, plan, sid, source, target, step, seen>>
counters == <<faults, edits, rescues, foreign>>
history == <<requested, theirs, adrift, clones>>
vars == <<remote, local, counters, history>>

Steps == {"idle", "refresh", "readBlocks", "plan", "create", "metadata",
          "select", "clone", "blocks", "validate", "activate",
          "details", "deactivate", "remove"}

State == [id: 0 .. MaxServices, name: Names, cfg: Content,
          force: BOOLEAN, reuse: BOOLEAN,
          managed: 0 .. MaxVersions, active: 0 .. MaxVersions,
          tainted: BOOLEAN]

NoState == [id |-> 0, name |-> AnyName, cfg |-> EmptyConfig,
            force |-> FALSE, reuse |-> FALSE,
            managed |-> 0, active |-> 0, tainted |-> FALSE]

NoDetails == [version |-> 0, active |-> FALSE, name |-> AnyName]

Tracked == state.id # 0

TypeOK ==
    /\ RemoteTypeOK
    /\ config \in Requests
    /\ state \in State
    /\ pc \in Steps
    /\ op \in {"none", "create", "update", "delete"}
    /\ plan \in Request
    /\ sid \in 0 .. MaxServices
    /\ source \in 0 .. MaxVersions
    /\ target \in 0 .. MaxVersions
    /\ step \in 1 .. NumBlocks + 1
    /\ seen \in [version: 0 .. MaxVersions, active: BOOLEAN, name: Names]
    /\ faults \in 0 .. MaxFaults
    /\ edits \in 0 .. MaxEdits
    /\ rescues \in 0 .. MaxRescues
    /\ foreign \in 0 .. MaxForeign
    /\ requested \in SUBSET Config
    /\ theirs \in [Services -> SUBSET Versions]
    /\ adrift \in SUBSET Services
    /\ clones \in Nat

Init ==
    /\ RemoteInit
    /\ config \in Requests
    /\ state = NoState
    /\ pc = "idle"
    /\ op = "none"
    /\ plan = config
    /\ sid = 0
    /\ source = 0
    /\ target = 0
    /\ step = 1
    /\ seen = NoDetails
    /\ faults = 0 /\ edits = 0 /\ rescues = 0 /\ foreign = 0
    /\ requested = {}
    /\ theirs = [s \in Services |-> {}]
    /\ adrift = {}
    /\ clones = 0

---------------------------------------------------------------------------
(* Version selection (internal/service/version.go).                        *)

\* Mutation: Read describes the newest version, active or not.
ReadsNewest(s) == latest[s]

\* The version Read describes: the active one, else the newest.
SelectReadVersion(s) == IF active[s] # 0 THEN active[s] ELSE latest[s]

\* The version Update clones: the same order, and it always clones.
SelectWorkingVersion(s) == IF active[s] # 0 THEN active[s] ELSE latest[s]

---------------------------------------------------------------------------
(* How a handler ends.                                                     *)

NoFault == UNCHANGED faults

Fault == faults < MaxFaults /\ faults' = faults + 1

\* Mutation: a failing step of Create returns without recording the service.
RecordsNothing == NoState

\* The state a Create leaves behind once the service exists: identity only.
PartialCreateState ==
    [id |-> sid, name |-> plan.name, cfg |-> EmptyConfig,
     force |-> plan.force, reuse |-> plan.reuse,
     managed |-> target, active |-> 0, tainted |-> TRUE]

\* The plan, with the versions the handler arrived at.
FullState(id, managed, act) ==
    [id |-> id, name |-> plan.name, cfg |-> plan.cfg,
     force |-> plan.force, reuse |-> plan.reuse,
     managed |-> managed, active |-> act, tainted |-> FALSE]

\* The apply is over, with st as the resource's state; everything else the
\* handler held is gone.
Finish(st) ==
    /\ pc' = "idle"
    /\ op' = "none"
    /\ state' = st
    /\ plan' = config
    /\ sid' = 0 /\ source' = 0 /\ target' = 0 /\ step' = 1
    /\ seen' = NoDetails
    /\ UNCHANGED config

\* Mutation: a failing Update stores the blocks it was going to write.
StoresPlanOnFailure ==
    Finish(IF op = "create" THEN PartialCreateState
           ELSE IF op = "update" THEN [state EXCEPT !.cfg = plan.cfg]
           ELSE state)

\* The handler returns an error.  A Create that made a service records it;
\* otherwise Terraform Core keeps what it had.
Fail == Finish(IF op = "create" THEN PartialCreateState ELSE state)

\* The resource is gone from the state.  An apply that wants it goes on to
\* create it.
Forgotten ==
    IF plan.present
    THEN /\ state' = NoState
         /\ op' = "none"
         /\ pc' = "create"
         /\ sid' = 0 /\ source' = 0 /\ target' = 0 /\ step' = 1
         /\ seen' = NoDetails
         /\ UNCHANGED <<config, plan>>
    ELSE Finish(NoState)

Goto(next) ==
    /\ pc' = next
    /\ UNCHANGED <<config, state, op, plan, sid, source, target, step, seen>>

\* Most steps leave the other parties' bookkeeping alone.
Quiet == UNCHANGED <<edits, rescues, foreign, history>>

---------------------------------------------------------------------------
(* Terraform Core and its user.                                            *)

\* The user edits the configuration between two applies.
EditConfig ==
    /\ pc = "idle"
    /\ edits < MaxEdits
    /\ edits' = edits + 1
    /\ config' \in Requests \ {config}
    /\ plan' = config'
    /\ UNCHANGED <<remote, state, pc, op, sid, source, target, step, seen,
                   faults, rescues, foreign, history>>

\* An apply begins: a tracked service is refreshed first, an untracked one
\* is created when the configuration asks for it.
BeginApply ==
    /\ pc = "idle"
    /\ Tracked \/ config.present
    /\ plan' = config
    /\ pc' = IF Tracked THEN "refresh" ELSE "create"
    /\ sid' = state.id
    /\ clones' = 0
    /\ requested' = IF config.present THEN requested \cup {config.cfg}
                                      ELSE requested
    /\ UNCHANGED <<remote, config, state, op, source, target, step, seen,
                   counters, theirs, adrift>>

\* An apply with an import block: the state holds the id only until Read
\* has filled it in.
ImportState ==
    /\ pc = "idle"
    /\ ~Tracked
    /\ config.present
    /\ rescues < MaxRescues
    /\ rescues' = rescues + 1
    /\ \E s \in Services :
        /\ Live(s)
        /\ state' = [id |-> s, name |-> meta[s], cfg |-> EmptyConfig,
                     force |-> FALSE, reuse |-> FALSE,
                     managed |-> 0, active |-> 0, tainted |-> FALSE]
        /\ sid' = s
        /\ adrift' = adrift \ {s}
    /\ plan' = config
    /\ pc' = "refresh"
    /\ clones' = 0
    /\ requested' = requested \cup {config.cfg}
    /\ UNCHANGED <<remote, config, op, source, target, step, seen,
                   faults, edits, foreign, theirs>>

\* terraform untaint.
Untaint ==
    /\ pc = "idle"
    /\ Tracked
    /\ state.tainted
    /\ rescues < MaxRescues
    /\ rescues' = rescues + 1
    /\ state' = [state EXCEPT !.tainted = FALSE]
    /\ UNCHANGED <<remote, config, pc, op, plan, sid, source, target, step, seen,
                   faults, edits, foreign, history>>

\* Mutation: name and comment are not compared.
DiffWithoutMetadata == \/ state.cfg # plan.cfg
                       \/ state.force # plan.force
                       \/ state.reuse # plan.reuse

\* The state differs from the configuration in something the user sets.
Diff == \/ state.name # plan.name
        \/ state.cfg # plan.cfg
        \/ state.force # plan.force
        \/ state.reuse # plan.reuse

Enter(handler, first) ==
    /\ op' = handler
    /\ pc' = first
    /\ UNCHANGED <<config, state, plan, sid, source, target, step, seen>>

\* Terraform plans from the refreshed state.
MakePlan ==
    /\ pc = "plan"
    /\ \/ /\ ~plan.present \/ state.tainted
          /\ Enter("delete", "details")
       \/ /\ plan.present /\ ~state.tainted /\ Diff
          /\ Enter("update", "metadata")
       \/ /\ plan.present /\ ~state.tainted /\ ~Diff
          /\ Finish(state)
    /\ UNCHANGED <<remote, counters, history>>

\* The process is killed.  A Create in flight leaves a service nobody knows,
\* an import in flight leaves no state.
Crash ==
    /\ pc # "idle"
    /\ Fault
    /\ Finish(IF state.managed = 0 THEN NoState ELSE state)
    /\ adrift' = IF op = "create" \/ (Tracked /\ state.managed = 0)
                 THEN adrift \cup {sid} ELSE adrift
    /\ UNCHANGED <<remote, edits, rescues, foreign, requested, theirs, clones>>

---------------------------------------------------------------------------
(* Read.                                                                   *)

\* A failed read leaves the state alone; a failed import leaves none.
FailRead ==
    /\ Finish(IF state.managed = 0 THEN NoState ELSE state)
    /\ adrift' = IF state.managed = 0 THEN adrift \cup {sid} ELSE adrift
    /\ UNCHANGED <<remote, edits, rescues, foreign, requested, theirs, clones>>

\* GetServiceDetails.
ReadDetails ==
    /\ pc = "refresh"
    /\ \/ /\ Live(sid)
          /\ NoFault
          /\ seen' = [version |-> SelectReadVersion(sid),
                      active |-> active[sid] # 0, name |-> meta[sid]]
          /\ pc' = "readBlocks"
          /\ UNCHANGED <<remote, config, state, op, plan, sid, source, target, step>>
          /\ Quiet
       \/ /\ ~Live(sid)   \* 404: RemoveResource
          /\ NoFault
          /\ Forgotten
          /\ UNCHANGED remote
          /\ Quiet
       \/ Fault /\ FailRead

\* The read steps, all against the version the details named.
ReadBlocks ==
    /\ pc = "readBlocks"
    /\ \/ /\ Live(sid)
          /\ NoFault
          /\ state' = [state EXCEPT
                !.name = seen.name,
                !.cfg = content[sid][seen.version],
                !.managed = seen.version,
                !.active = IF seen.active THEN seen.version ELSE 0]
          /\ pc' = "plan"
          /\ UNCHANGED <<remote, config, op, plan, sid, source, target, step, seen>>
          /\ Quiet
       \/ ~Live(sid) /\ NoFault /\ FailRead
       \/ Fault /\ FailRead

---------------------------------------------------------------------------
(* Create.                                                                 *)

CreateService ==
    /\ pc = "create"
    /\ \E s \in Services :
        /\ Fresh(s)
        /\ CreateServiceCall(s, plan.name)
        /\ \/ /\ NoFault
              /\ pc' = "blocks" /\ op' = "create"
              /\ sid' = s /\ target' = 1 /\ step' = 1
              /\ UNCHANGED <<config, state, plan, source, seen, history>>
           \/ /\ Fault    \* the response is lost: POST is not retried
              /\ adrift' = adrift \cup {s}
              /\ Finish(state)
              /\ UNCHANGED <<requested, theirs, clones>>
    /\ UNCHANGED <<edits, rescues, foreign>>

CreateServiceRejected ==
    /\ pc = "create"
    /\ Fault
    /\ Finish(state)
    /\ Quiet
    /\ UNCHANGED remote

---------------------------------------------------------------------------
(* Update, up to the version it writes to.                                 *)

\* UpdateMetadataIfChanged, then the comparison of the nested blocks.
UpdateMetadata ==
    /\ pc = "metadata"
    /\ IF plan.name # state.name
       THEN Live(sid) /\ UpdateServiceCall(sid, plan.name)
       ELSE UNCHANGED remote
    /\ IF plan.cfg # state.cfg
       THEN Goto("select")
       ELSE Finish(FullState(sid, state.managed, state.active))
    /\ NoFault
    /\ Quiet

UpdateMetadataFails ==
    /\ pc = "metadata"
    /\ plan.name # state.name
    /\ \/ ~Live(sid) /\ NoFault /\ UNCHANGED remote
       \/ Fault /\ UNCHANGED remote
       \/ Live(sid) /\ Fault /\ UpdateServiceCall(sid, plan.name)
    /\ Fail
    /\ Quiet

SelectSource ==
    /\ pc = "select"
    /\ \/ /\ Live(sid)
          /\ NoFault
          /\ source' = SelectWorkingVersion(sid)
          /\ pc' = "clone"
          /\ UNCHANGED <<config, state, op, plan, sid, target, step, seen>>
       \/ ~Live(sid) /\ NoFault /\ Fail
       \/ Fault /\ Fail
    /\ Quiet
    /\ UNCHANGED remote

\* Mutation: shouldClone is false, Update writes to the version it selected.
WritesToSource ==
    /\ pc = "clone"
    /\ Live(sid)
    /\ NoFault
    /\ target' = source
    /\ step' = 1
    /\ pc' = "blocks"
    /\ UNCHANGED <<remote, config, state, op, plan, sid, source, seen,
                   edits, rescues, foreign, history>>

\* CloneVersion is a PUT: when its response is lost the transport sends it
\* again, and the API clones again.  The handler sees the last response.
CloneVersion ==
    /\ pc = "clone"
    /\ Live(sid)
    /\ \E n \in 1 .. 2 :
        /\ latest[sid] + n <= MaxVersions
        /\ CloneVersionCall(sid, source, n)
        /\ IF n = 1 THEN NoFault ELSE Fault
        /\ target' = latest[sid] + n
        /\ clones' = clones + n
    /\ step' = 1
    /\ pc' = "blocks"
    /\ UNCHANGED <<config, state, op, plan, sid, source, seen,
                   edits, rescues, foreign, requested, theirs, adrift>>

CloneVersionFails ==
    /\ pc = "clone"
    /\ \/ ~Live(sid) /\ NoFault /\ UNCHANGED <<remote, clones>>
       \/ Fault /\ UNCHANGED <<remote, clones>>
       \/ /\ Live(sid) /\ Fault
          /\ latest[sid] < MaxVersions
          /\ CloneVersionCall(sid, source, 1)
          /\ clones' = clones + 1
    /\ Fail
    /\ UNCHANGED <<edits, rescues, foreign, requested, theirs, adrift>>

---------------------------------------------------------------------------
(* The tail Create and Update share: reconcile, validate, activate.        *)

\* Mutation: the last step of the list is never run.
SkipsLastBlock ==
    /\ pc = "blocks"
    /\ WriteBlockCall(sid, target, step, plan.cfg[step])
    /\ NoFault
    /\ step' = step + 1
    /\ pc' = IF step + 1 >= NumBlocks THEN "validate" ELSE "blocks"
    /\ UNCHANGED <<config, state, op, plan, sid, source, target, seen>>
    /\ Quiet

\* Mutation: the list of steps is overrun by one.
RunsPastLastBlock ==
    /\ pc = "blocks"
    /\ WriteBlockCall(sid, target, step, plan.cfg[step])
    /\ NoFault
    /\ step' = step + 1
    /\ pc' = IF step = NumBlocks + 1 THEN "validate" ELSE "blocks"
    /\ UNCHANGED <<config, state, op, plan, sid, source, target, seen>>
    /\ Quiet

\* One mutateStep: reconcile the block from whatever the version holds, then
\* read it back.
ReconcileBlock ==
    /\ pc = "blocks"
    /\ WriteBlockCall(sid, target, step, plan.cfg[step])
    /\ NoFault
    /\ step' = step + 1
    /\ pc' = IF step = NumBlocks THEN "validate" ELSE "blocks"
    /\ UNCHANGED <<config, state, op, plan, sid, source, target, seen>>
    /\ Quiet

\* Mutation: the error of a step is dropped and the handler goes on.
IgnoresStepError ==
    /\ pc = "blocks"
    /\ Fault
    /\ \/ UNCHANGED remote
       \/ \E x \in {Partial, plan.cfg[step]} : WriteBlockCall(sid, target, step, x)
    /\ step' = step + 1
    /\ pc' = IF step = NumBlocks THEN "validate" ELSE "blocks"
    /\ UNCHANGED <<config, state, op, plan, sid, source, target, seen>>
    /\ Quiet

\* The step stops at its first error, with none, some or all of its writes
\* made (all of them when the read-back is what failed).
ReconcileBlockFails ==
    /\ pc = "blocks"
    /\ \/ /\ Fault
          /\ \/ UNCHANGED remote
             \/ \E x \in {Partial, plan.cfg[step]} :
                    WriteBlockCall(sid, target, step, x)
       \/ ~(Live(sid) /\ target \notin locked[sid]) /\ NoFault /\ UNCHANGED remote
    /\ Fail
    /\ Quiet

ValidateVersion ==
    /\ pc = "validate"
    /\ \/ Live(sid) /\ content[sid][target] \notin Invalid /\ NoFault /\ Goto("activate")
       \/ ~Live(sid) /\ NoFault /\ Fail
       \/ content[sid][target] \in Invalid /\ NoFault /\ Fail
       \/ Fault /\ Fail
    /\ Quiet
    /\ UNCHANGED remote

ActivateVersion ==
    /\ pc = "activate"
    /\ Live(sid)
    /\ ActivateVersionCall(sid, target)
    /\ NoFault
    /\ Finish(FullState(sid, target, target))
    /\ Quiet

ActivateVersionFails ==
    /\ pc = "activate"
    /\ \/ ~Live(sid) /\ NoFault /\ UNCHANGED remote
       \/ Fault /\ UNCHANGED remote
       \/ Live(sid) /\ Fault /\ ActivateVersionCall(sid, target)
    /\ Fail
    /\ Quiet

---------------------------------------------------------------------------
(* Delete (DeleteWithPolicy), run for a destroy and for a replacement.     *)

\* Mutation: the active version is taken down whatever the policy says.
DeactivatesAlways ==
    /\ pc = "details"
    /\ \/ ~Live(sid) /\ NoFault /\ Forgotten
       \/ Fault /\ Fail
       \/ /\ Live(sid) /\ active[sid] # 0 /\ NoFault
          /\ source' = active[sid]
          /\ pc' = "deactivate"
          /\ UNCHANGED <<config, state, op, plan, sid, target, step, seen>>
       \/ Live(sid) /\ active[sid] = 0 /\ ~state.reuse /\ NoFault /\ Goto("remove")
    /\ Quiet
    /\ UNCHANGED remote

\* Only force_destroy or reuse look at the active version.
DeleteDetails ==
    /\ pc = "details"
    /\ \/ ~(state.force \/ state.reuse) /\ NoFault /\ Goto("remove")
       \/ /\ state.force \/ state.reuse
          /\ \/ ~Live(sid) /\ NoFault /\ Forgotten
             \/ Fault /\ Fail
             \/ /\ Live(sid) /\ active[sid] # 0 /\ NoFault
                /\ source' = active[sid]
                /\ pc' = "deactivate"
                /\ UNCHANGED <<config, state, op, plan, sid, target, step, seen>>
             \/ Live(sid) /\ active[sid] = 0 /\ ~state.reuse /\ NoFault /\ Goto("remove")
    /\ Quiet
    /\ UNCHANGED remote

\* A reused service without an active version is just let go.
ReleaseInactive ==
    /\ pc = "details"
    /\ state.reuse
    /\ Live(sid)
    /\ active[sid] = 0
    /\ NoFault
    /\ Forgotten
    /\ adrift' = adrift \cup {sid}
    /\ UNCHANGED <<remote, edits, rescues, foreign, requested, theirs, clones>>

Deactivate ==
    /\ pc = "deactivate"
    /\ Live(sid)
    /\ active[sid] = source
    /\ DeactivateVersionCall(sid)
    /\ NoFault
    /\ IF state.reuse
       THEN Forgotten /\ adrift' = adrift \cup {sid}
       ELSE Goto("remove") /\ UNCHANGED adrift
    /\ UNCHANGED <<edits, rescues, foreign, requested, theirs, clones>>

\* The service is gone (404, tolerated), the version read from the details
\* is not active any more, or the call fails.
DeactivateFails ==
    /\ pc = "deactivate"
    /\ \/ ~Live(sid) /\ NoFault /\ UNCHANGED remote
          /\ IF state.reuse THEN Forgotten ELSE Goto("remove")
       \/ Live(sid) /\ active[sid] # source /\ NoFault /\ UNCHANGED remote /\ Fail
       \/ Fault /\ UNCHANGED remote /\ Fail
       \/ /\ Live(sid) /\ active[sid] = source /\ Fault
          /\ DeactivateVersionCall(sid) /\ Fail
    /\ Quiet

DeleteService ==
    /\ pc = "remove"
    /\ \/ DeleteServiceCall(sid)
       \/ ~Live(sid) /\ UNCHANGED remote
    /\ NoFault
    /\ Forgotten
    /\ Quiet

DeleteServiceFails ==
    /\ pc = "remove"
    /\ \/ Live(sid) /\ active[sid] # 0 /\ NoFault /\ UNCHANGED remote
       \/ Fault /\ UNCHANGED remote
       \/ Fault /\ DeleteServiceCall(sid)
    /\ Fail
    /\ Quiet

---------------------------------------------------------------------------
(* An operator working on the services by hand.  The operator leaves the   *)
(* provider's own drafts alone.                                            *)

ForeignStep ==
    /\ foreign < MaxForeign
    /\ foreign' = foreign + 1
    /\ UNCHANGED <<local, faults, edits, rescues, requested, adrift, clones>>

\* A new draft, the service's newest version.
ForeignDraft ==
    /\ ForeignStep
    /\ \E s \in Services, c \in Foreign :
        /\ Live(s)
        /\ latest[s] < MaxVersions
        /\ AppendDrafts(s, c, 1)
        /\ theirs' = [theirs EXCEPT ![s] = @ \cup {latest[s] + 1}]

\* The operator's own draft, or a roll back to a version that was active.
ForeignActivate ==
    /\ ForeignStep
    /\ \E s \in Services : \E v \in theirs[s] \cup locked[s] :
        /\ Live(s)
        /\ v # active[s]
        /\ ActivateVersionCall(s, v)
    /\ UNCHANGED theirs

ForeignDeactivate ==
    /\ ForeignStep
    /\ \E s \in Services : Live(s) /\ active[s] # 0 /\ DeactivateVersionCall(s)
    /\ UNCHANGED theirs

ForeignDelete ==
    /\ ForeignStep
    /\ \E s \in Services : DeleteServiceCall(s)
    /\ UNCHANGED theirs

ForeignRename ==
    /\ ForeignStep
    /\ \E s \in Services, n \in Names : Live(s) /\ n # meta[s] /\ UpdateServiceCall(s, n)
    /\ UNCHANGED theirs

---------------------------------------------------------------------------

Apply ==
    \/ BeginApply \/ ReadDetails \/ ReadBlocks \/ MakePlan
    \/ CreateService \/ CreateServiceRejected
    \/ UpdateMetadata \/ UpdateMetadataFails
    \/ SelectSource \/ CloneVersion \/ CloneVersionFails
    \/ ReconcileBlock \/ ReconcileBlockFails \/ ValidateVersion
    \/ ActivateVersion \/ ActivateVersionFails
    \/ DeleteDetails \/ ReleaseInactive \/ Deactivate \/ DeactivateFails
    \/ DeleteService \/ DeleteServiceFails

User == EditConfig \/ ImportState \/ Untaint \/ Crash

Operator ==
    \/ ForeignDraft \/ ForeignActivate \/ ForeignDeactivate
    \/ ForeignDelete \/ ForeignRename

Next == Apply \/ User \/ Operator

Spec == Init /\ [][Next]_vars

\* The user re-runs the apply until there is nothing left to do, and a
\* running handler always goes on to its next call.
FairSpec == Spec /\ WF_vars(Apply)

---------------------------------------------------------------------------
(* Safety.                                                                 *)

\* A version that the provider ever made live holds, block for block, one
\* configuration an apply asked for, and never one that validation turns
\* down: reconcile, validate and activate act on one and the same draft, and
\* no failed, retried or interrupted apply leaks a half-written draft into a
\* later one (Update and Create in servicecdnauto and servicecomputeauto).
NothingTornGoesLive ==
    \A s \in Services : \A v \in locked[s] \ theirs[s] :
        content[s][v] \in requested \ Invalid

\* While a handler reconciles, validates and activates, its version is a
\* draft no one has ever activated, that belongs to no operator and that the
\* state does not describe as live: Update never works on the version it
\* cloned from.
WorksOnItsOwnDraft ==
    pc \in {"blocks", "validate", "activate"} =>
        /\ sid \in Services
        /\ target \in 1 .. latest[sid]
        /\ target \notin locked[sid] \cup theirs[sid]

\* When the state names an active version, its nested blocks are exactly the
\* content of that version, whatever failed since and whoever else works on
\* the service: an update that fails half way may not leave planned blocks
\* in the state, and a refresh may not mix two versions.
StateDescribesActiveVersion ==
    Tracked /\ state.active # 0 =>
        /\ state.active \in locked[state.id]
        /\ state.managed = state.active
        /\ content[state.id][state.active] = state.cfg

\* Every service that exists is in the state, or is being created by the
\* handler that will record it, or got away in one of the ways the provider
\* cannot help: its CreateService response was lost, the process was killed
\* before Create returned, or reuse let it go.  In particular no failure of
\* a step of Create loses the service (recordOrphanSafeState).
NoServiceIsLost ==
    \A s \in Services :
        Live(s) => s = state.id \/ s \in adrift \/ (op = "create" /\ s = sid)

\* An apply takes a service off the air only if the state says force_destroy
\* or reuse, and deletes one only if the state does not say reuse; either
\* way it is the service the state tracks, and it is destroyed because the
\* user dropped it or because its Create had failed.
DestroyHonoursPolicy ==
    [][ foreign' = foreign =>
        \A s \in Services :
            /\ active[s] # 0 /\ active'[s] = 0 =>
                    s = state.id /\ (state.force \/ state.reuse)
            /\ Live(s) /\ ~Live(s)' =>
                    s = state.id /\ ~state.reuse /\ (~plan.present \/ state.tainted)
      ]_vars

\* The content that is served changes only from one whole configuration to
\* another (module Publication).
Served == [s \in Services |-> IF active[s] = 0 THEN <<>> ELSE content[s][active[s]]]

Abstract == INSTANCE Publication WITH
    Service <- Services, Whole <- Config, Outside <- Foreign, Nothing <- <<>>,
    asked <- requested, served <- Served

AbstractSpec == Abstract!Spec

---------------------------------------------------------------------------
(* Liveness, under FairSpec.                                               *)

Current == active[state.id]

\* There is nothing left to do: the state, and the version a refresh reads,
\* are what the user asks for.
Settled ==
    IF config.present
    THEN /\ Tracked
         /\ ~state.tainted
         /\ Live(state.id)
         /\ meta[state.id] = config.name
         /\ content[state.id][SelectReadVersion(state.id)] = config.cfg
    ELSE ~Tracked

\* Once faults, edits and operators stop, repeated applies reach the
\* configuration and stay there: no failed create, lost response, retried
\* clone or leftover draft leaves the resource in a state that further
\* applies cannot repair.
Converges == <>[]Settled

\* ... and what is asked for is then served, as long as no one else put his
\* hand in: a service that an operator deactivated, or whose failed Create was
\* untainted, may settle as a draft (AppliedMeansActive).
GoesLive == <>[](rescues = 0 /\ foreign = 0 /\ config.present =>
                    Tracked /\ Current # 0 /\ content[state.id][Current] = config.cfg)

---------------------------------------------------------------------------
(* What the documents say and the code does not do.                        *)

\* "Automatic activation is not optional in the automatic compatibility
\* family" (docs/design/dual-model-provider-design.md): an apply that ends
\* without an error leaves the service with an active version.  It does not
\* when a refresh finds no active version and a newest draft that already
\* matches: Read describes the draft, Terraform sees no difference.
AppliedMeansActive ==
    [][ pc = "plan" /\ pc' = "idle" /\ faults' = faults => state.active # 0 ]_vars

\* The transport repeats "methods that are idempotent per RFC 7231 (GET,
\* HEAD, PUT, DELETE)" (internal/client/data.go), and an update works on one
\* version (the design document): one apply adds at most one version.
\* CloneVersion is a PUT that adds a version every time it is carried out.
OneVersionPerApply == clones <= 1
=============================================================================
