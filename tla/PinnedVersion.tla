--------------------------- MODULE PinnedVersion ---------------------------
(***************************************************************************)
(* The explicit resources (fastly_service_backend and the like): each is   *)
(* one block of the service version that the configuration pins.  The      *)
(* provider checks that a version is not locked before it writes to it     *)
(* (VersionChecker, TypeChecker) and never clones or activates; the user   *)
(* does, between applies and while one is running.                         *)
(*                                                                         *)
(* An apply reads every block the state names, plans one operation for     *)
(* each resource, and carries them out side by side.  An operation is up   *)
(* to three API calls: the service's type, the version's lock, the write.  *)
(***************************************************************************)
EXTENDS Naturals, Sequences, FiniteSets

CONSTANTS
    Blocks,      \* the resources of the configuration, one block each
    Followed,    \* whose Update only looks the block up in the new version
                 \* (dictionaries, ACLs); another value is a replacement
    Replaced,    \* for which another version is a replacement (snippets,
                 \* custom VCL)
    Loggers,     \* whose Delete goes through logging.PrepareDelete
    Values,
    Absent,
    Careful,     \* the user removes or replaces a resource only when the
                 \* state has it in the pinned version
    MaxVersions, \* bound: versions of the service
    MaxCommits,  \* bound: changes of the configuration
    MaxFaults    \* bound: failed calls

ASSUME PinnedAssumption ==
    /\ Followed \subseteq Blocks /\ Replaced \subseteq Blocks /\ Loggers \subseteq Blocks
    /\ Followed \cap Replaced = {}
    /\ Careful \in BOOLEAN
    /\ Absent \notin [version: 1 .. MaxVersions, value: Values]
    /\ MaxVersions \in Nat \ {0} /\ MaxCommits \in Nat /\ MaxFaults \in Nat

VARIABLES
    exists,      \* the service has not been deleted
    versions,    \* of the service: their locks and blocks
    config, pin, \* what the configuration says of each block, and `version`
    state,       \* Terraform state: the version and value of each block
    running,     \* an apply is running
    job, stage,  \* per resource: the operation planned, the call it is at
    typeKnown,   \* TypeChecker.cache has the service
    cache,       \* VersionChecker.cache
    failed,      \* resources whose operation failed in this apply
    refused,     \* of them, those refused because a version is locked
    applied,     \* history: this configuration has been applied
    commits, faults

service == <<exists, versions>>
files == <<config, pin, commits>>
jobs == <<running, job, stage, failed, refused>>
checkers == <<typeKnown, cache>>
vars == <<service, files, state, jobs, checkers, applied, faults>>

Maybe == Values \cup {Absent}
Noted == [version: 1 .. MaxVersions, value: Values]
Ops == {"none", "create", "update", "delete", "replace"}

TypeOK ==
    /\ exists \in BOOLEAN /\ running \in BOOLEAN /\ applied \in BOOLEAN /\ typeKnown \in BOOLEAN
    /\ versions \in Seq([locked: BOOLEAN, blocks: [Blocks -> Maybe]])
    /\ Len(versions) \in 1 .. MaxVersions
    /\ config \in [Blocks -> Maybe]
    /\ pin \in 1 .. Len(versions)
    /\ state \in [Blocks -> Noted \cup {Absent}]
    /\ \A b \in Blocks : state[b] # Absent => state[b].version <= Len(versions)
    /\ job \in [Blocks -> Ops]
    /\ stage \in [Blocks -> {"type", "version", "call"}]
    /\ cache \in [1 .. MaxVersions -> {"unknown", "mutable", "locked"}]
    /\ failed \in SUBSET Blocks /\ refused \in SUBSET failed
    /\ commits \in 0 .. MaxCommits /\ faults \in 0 .. MaxFaults

\* The service is new, with its first version, and nothing has been applied.
Init ==
    /\ exists = TRUE
    /\ versions = <<[locked |-> FALSE, blocks |-> [b \in Blocks |-> Absent]]>>
    /\ config \in [Blocks -> Maybe] /\ pin = 1
    /\ state = [b \in Blocks |-> Absent]
    /\ running = FALSE
    /\ job = [b \in Blocks |-> "none"] /\ stage = [b \in Blocks |-> "type"]
    /\ typeKnown = FALSE /\ cache = [v \in 1 .. MaxVersions |-> "unknown"]
    /\ failed = {} /\ refused = {}
    /\ applied = FALSE
    /\ commits = 0 /\ faults = 0

---------------------------------------------------------------------------
(* Refresh and plan.                                                       *)

\* Read: a block that is not found is removed from the state.
Refreshed(b) ==
    IF state[b] = Absent \/ ~exists \/ versions[state[b].version].blocks[b] = Absent
    THEN Absent
    ELSE [state[b] EXCEPT !.value = versions[state[b].version].blocks[b]]

\* Mutation: another version is a replacement for every kind.
ReplacesWhatMoves(b, s) ==
    s.version # pin \/ (b \in Followed /\ s.value # config[b])

\* The schema's RequiresReplace.
MustReplace(b, s) ==
    \/ b \in Replaced /\ s.version # pin
    \/ b \in Followed /\ s.value # config[b]

\* Mutation: the version is not compared.
IgnoresVersion(b, s) ==
    IF s = Absent THEN IF config[b] = Absent THEN "none" ELSE "create"
    ELSE IF config[b] = Absent THEN "delete"
    ELSE IF MustReplace(b, s) THEN "replace"
    ELSE IF s.value = config[b] THEN "none" ELSE "update"

\* The operation Terraform plans, s being the refreshed state.
Planned(b, s) ==
    IF s = Absent THEN IF config[b] = Absent THEN "none" ELSE "create"
    ELSE IF config[b] = Absent THEN "delete"
    ELSE IF MustReplace(b, s) THEN "replace"
    ELSE IF s = [version |-> pin, value |-> config[b]] THEN "none" ELSE "update"

\* The first call of an operation.  The Update of a dictionary or an ACL
\* checks nothing.
FirstStage(b, op) == IF op = "update" /\ b \in Followed THEN "call" ELSE "type"

BeginRun ==
    /\ ~running
    /\ running' = TRUE
    /\ state' = [b \in Blocks |-> Refreshed(b)]
    /\ job' = [b \in Blocks |-> Planned(b, state'[b])]
    /\ stage' = [b \in Blocks |-> FirstStage(b, job'[b])]
    /\ UNCHANGED <<service, files, failed, refused, checkers, applied, faults>>

\* Every apply has a provider of its own: its checkers' answers go with it.
EndRun ==
    /\ running
    /\ \A b \in Blocks : job[b] = "none"
    /\ running' = FALSE
    /\ applied' = (failed = {})
    /\ failed' = {} /\ refused' = {}
    /\ typeKnown' = FALSE
    /\ cache' = [v \in 1 .. MaxVersions |-> "unknown"]
    /\ UNCHANGED <<service, files, state, job, stage, faults>>

---------------------------------------------------------------------------
(* The operation of one resource.                                          *)

Deleting(b) == job[b] \in {"delete", "replace"}

\* The version an operation is about: the plan's, or for Delete the state's.
Target(b) == IF Deleting(b) THEN state[b].version ELSE pin

At(b, s) == running /\ job[b] # "none" /\ stage[b] = s

Goes(b, s) ==
    /\ stage' = [stage EXCEPT ![b] = s]
    /\ UNCHANGED <<state, job, failed, refused>>

\* A diagnostic: Terraform keeps the state the resource had.
Fails(b) ==
    /\ job' = [job EXCEPT ![b] = "none"]
    /\ failed' = failed \cup {b}
    /\ stage' = [stage EXCEPT ![b] = "type"]
    /\ UNCHANGED state

\* The resource is removed from the state; a replacement goes on to Create.
Removed(b) ==
    /\ state' = [state EXCEPT ![b] = Absent]
    /\ job' = [job EXCEPT ![b] = IF job[b] = "replace" THEN "create" ELSE "none"]
    /\ stage' = [stage EXCEPT ![b] = "type"]
    /\ UNCHANGED <<failed, refused>>

\* Mutation: Update fills in the state's model and not the plan's.
KeepsVersion(b, value) ==
    /\ state' = [state EXCEPT ![b] = [version |-> IF @ = Absent THEN pin ELSE @.version,
                                      value |-> value]]
    /\ job' = [job EXCEPT ![b] = "none"]
    /\ stage' = [stage EXCEPT ![b] = "type"]
    /\ UNCHANGED refused

Written(b, value) ==
    /\ state' = [state EXCEPT ![b] = [version |-> pin, value |-> value]]
    /\ job' = [job EXCEPT ![b] = "none"]
    /\ stage' = [stage EXCEPT ![b] = "type"]
    /\ UNCHANGED refused

\* Delete has nothing to do when the service is not found.
GoneTolerated(b) == Deleting(b) /\ b \notin Loggers

\* EnsureServiceTypeSupported.
CheckType(b) ==
    /\ At(b, "type")
    /\ \/ (typeKnown \/ exists) /\ typeKnown' = TRUE /\ Goes(b, "version")
       \/ ~typeKnown /\ ~exists /\ UNCHANGED typeKnown
          /\ IF GoneTolerated(b) THEN Removed(b) ELSE Fails(b) /\ UNCHANGED refused
    /\ UNCHANGED <<running, service, files, cache, applied, faults>>

\* GetMutability: the answer, and what is cached of it.
Answer(v) ==
    IF cache[v] # "unknown" THEN cache[v]
    ELSE IF ~exists THEN "notFound"
    ELSE IF versions[v].locked THEN "locked" ELSE "mutable"

\* Mutation: that there is no such version is cached, too.
CachesErrors(v) == Answer(v)

Cached(v) == IF Answer(v) = "notFound" THEN cache[v] ELSE Answer(v)

\* Mutation: Delete has nothing to do on a locked version.
LockedIsGone(b, answer) ==
    CASE answer = "mutable" -> Goes(b, "call")
      [] answer \in {"locked", "notFound"} /\ Deleting(b) -> Removed(b)
      [] answer = "locked" /\ ~Deleting(b) -> Fails(b) /\ refused' = refused \cup {b}
      [] OTHER -> Fails(b) /\ UNCHANGED refused

\* EnsureMutable and EnsureMutableForDelete.
Mutable(b, answer) ==
    CASE answer = "mutable" -> Goes(b, "call")
      [] answer = "notFound" /\ Deleting(b) -> Removed(b)
      [] answer = "locked" -> Fails(b) /\ refused' = refused \cup {b}
      [] OTHER -> Fails(b) /\ UNCHANGED refused

CheckVersion(b) ==
    /\ At(b, "version")
    /\ LET v == Target(b) IN
       /\ cache' = [cache EXCEPT ![v] = Cached(v)]
       /\ Mutable(b, Answer(v))
    /\ UNCHANGED <<running, service, files, typeKnown, applied, faults>>

\* The block in the version that the operation is about.
Remote(b) == versions[Target(b)].blocks[b]

SetRemote(b, value) ==
    versions' = [versions EXCEPT ![Target(b)].blocks[b] = value]

\* The API carries the call out.
Writable(b) ==
    /\ exists
    /\ ~versions[Target(b)].locked
    /\ job[b] = "create" <=> Remote(b) = Absent

Effect(b) ==
    IF Deleting(b) THEN SetRemote(b, Absent)
    ELSE IF job[b] = "update" /\ b \in Followed THEN UNCHANGED versions
    ELSE SetRemote(b, config[b])

Delete(b) ==
    /\ At(b, "call") /\ Deleting(b)
    /\ \/ Writable(b) /\ Effect(b) /\ Removed(b)
       \/ (~exists \/ Remote(b) = Absent) /\ UNCHANGED versions /\ Removed(b)
       \/ /\ exists /\ Remote(b) # Absent /\ versions[Target(b)].locked
          /\ refused' = refused \cup {b}
          /\ UNCHANGED versions
          /\ Fails(b)
    /\ UNCHANGED <<running, exists, files, checkers, applied, faults>>

\* Create, or Update of a block that is written.
Write(b) ==
    /\ At(b, "call")
    /\ job[b] = "create" \/ (job[b] = "update" /\ b \notin Followed)
    /\ \/ Writable(b) /\ Effect(b) /\ Written(b, config[b]) /\ UNCHANGED failed
       \/ /\ ~Writable(b)
          /\ refused' = IF exists /\ versions[Target(b)].locked THEN refused \cup {b} ELSE refused
          /\ UNCHANGED versions
          /\ Fails(b)
    /\ UNCHANGED <<running, exists, files, checkers, applied, faults>>

\* Update of a dictionary or an ACL: the pinned version must have it.  A value
\* other than the planned one is an error to Terraform, after the state is set.
Follow(b) ==
    /\ At(b, "call") /\ job[b] = "update" /\ b \in Followed
    /\ IF exists /\ Remote(b) # Absent
       THEN /\ Written(b, Remote(b))
            /\ failed' = IF Remote(b) = config[b] THEN failed ELSE failed \cup {b}
       ELSE Fails(b) /\ UNCHANGED refused
    /\ UNCHANGED <<running, service, files, checkers, applied, faults>>

\* A call fails; a write may have been carried out all the same.
CallFails(b) ==
    /\ running /\ job[b] # "none"
    /\ faults < MaxFaults
    /\ faults' = faults + 1
    /\ UNCHANGED versions \/ (stage[b] = "call" /\ Writable(b) /\ Effect(b))
    /\ Fails(b)
    /\ UNCHANGED <<running, exists, files, checkers, applied, refused>>

Operation(b) == CheckType(b) \/ CheckVersion(b) \/ Delete(b) \/ Write(b) \/ Follow(b)

Terraform == BeginRun \/ EndRun \/ \E b \in Blocks : Operation(b)

---------------------------------------------------------------------------
(* The user: actions, the CLI, and the files.                              *)

unmoved == <<files, state, jobs, checkers, applied, faults>>

Clone ==
    /\ exists /\ Len(versions) < MaxVersions
    /\ \E v \in 1 .. Len(versions) :
        versions' = Append(versions, [versions[v] EXCEPT !.locked = FALSE])
    /\ UNCHANGED <<exists, unmoved>>

Activate ==
    /\ exists
    /\ \E v \in 1 .. Len(versions) : versions' = [versions EXCEPT ![v].locked = TRUE]
    /\ UNCHANGED <<exists, unmoved>>

DeleteService ==
    /\ exists
    /\ exists' = FALSE
    /\ UNCHANGED <<versions, unmoved>>

\* No resource that the state has in another version is to be deleted.
NoBlindDelete ==
    \A b \in Blocks : state[b] # Absent /\ state[b].version # pin =>
        config[b] # Absent /\ (b \in Followed => config[b] = state[b].value)

\* The files are edited between applies; the plan is made of one edition.
Commit ==
    /\ ~running /\ commits < MaxCommits
    /\ commits' = commits + 1
    /\ config' \in [Blocks -> Maybe]
    /\ pin' \in 1 .. Len(versions)
    /\ UNCHANGED <<service, state, jobs, checkers, faults>>
    /\ Careful => NoBlindDelete'
    /\ applied' = FALSE

Next ==
    \/ Terraform
    \/ \E b \in Blocks : CallFails(b)
    \/ Clone \/ Activate \/ DeleteService \/ Commit

Spec == Init /\ [][Next]_vars

\* The handlers go on, and the apply is run again.
FairSpec == Spec /\ WF_vars(Terraform)

---------------------------------------------------------------------------
(* Properties.                                                             *)

\* After an apply without errors the pinned version holds every block of the
\* configuration, and the state says so.
AppliedInPin ==
    applied /\ ~running /\ exists =>
        \A b \in Blocks : config[b] # Absent =>
            /\ versions[pin].blocks[b] = config[b]
            /\ state[b] = [version |-> pin, value |-> config[b]]

\* "clone this version and pin Terraform to the new draft version before
\* applying changes" (EnsureMutable): an apply is refused for a locked version
\* only if the version pinned is locked.
RefusedOnlyForPin == refused # {} => versions[pin].locked

Forgets(b) == running /\ state[b] # Absent /\ state'[b] = Absent

\* Delete takes a resource out of the state only if the pinned version does
\* not have it (EnsureMutableForDelete: or it would remain, unmanaged).
ForgottenIsGone ==
    [][\A b \in Blocks : Forgets(b) => ~exists \/ versions'[pin].blocks[b] = Absent]_vars

\* The pinned version has a block the state does not know, so that Create
\* conflicts; or it does not have one that the state has in another version.
OutOfStep(b) ==
    IF state[b] = Absent THEN versions[pin].blocks[b] # Absent
                         ELSE state[b].version # pin /\ versions[pin].blocks[b] = Absent

InPlace(b) ==
    IF config[b] = Absent THEN state[b] = Absent
                          ELSE state[b] = [version |-> pin, value |-> config[b]]

\* Repeated applies bring every resource into the pinned version, unless the
\* service is gone, that version is locked, or the user has to import a block
\* or to choose another version.
Settles ==
    <>[](\/ ~exists \/ versions[pin].locked
         \/ \E b \in Blocks : config[b] # Absent /\ OutOfStep(b)
         \/ \A b \in Blocks : InPlace(b))
=============================================================================
