------------------------ MODULE PinnedVersion_proofs ------------------------
(***************************************************************************)
(* Proofs about PinnedVersion, for any resources of any kinds, values and  *)
(* bounds.                                                                 *)
(***************************************************************************)
EXTENDS PinnedVersionInv, SequenceTheorems, TLAPS

Version == [locked: BOOLEAN, blocks: [Blocks -> Maybe]]

\* The version an operation is about exists.
LEMMA TargetExists ==
    ASSUME TypeOK, JobsAreAskedFor, NEW b \in Blocks
    PROVE  /\ Target(b) \in 1 .. Len(versions) /\ Target(b) \in 1 .. MaxVersions
           /\ Len(versions) \in Nat /\ DOMAIN versions = 1 .. Len(versions)
           /\ versions[Target(b)] \in Version
           /\ versions[pin] \in Version
<1>1. /\ versions \in Seq(Version) /\ Len(versions) \in 1 .. MaxVersions
      /\ MaxVersions \in Nat /\ pin \in 1 .. Len(versions)
  BY PinnedAssumption DEF TypeOK, Version
<1>2. Target(b) \in 1 .. Len(versions)
  <2>1. CASE Deleting(b)
    <3>1. state[b] \in Noted /\ state[b].version <= Len(versions)
      BY <2>1 DEF TypeOK, JobsAreAskedFor
    <3>. QED  BY <1>1, <2>1, <3>1 DEF Target, Noted
  <2>2. CASE ~Deleting(b)
    BY <1>1, <2>2 DEF Target
  <2>. QED  BY <2>1, <2>2
<1>3. Len(versions) \in Nat /\ DOMAIN versions = 1 .. Len(versions)
  BY <1>1, LenProperties
<1>4. \A v \in 1 .. Len(versions) : versions[v] \in Version
  BY <1>1, ElementOfSeq
<1>. QED  BY <1>1, <1>2, <1>3, <1>4

\* What a write changes: one block of one version.
LEMMA WriteStep ==
    ASSUME TypeOK, JobsAreAskedFor, NEW b \in Blocks, NEW x \in Maybe, SetRemote(b, x)
    PROVE  /\ versions' \in Seq(Version) /\ Len(versions') = Len(versions)
           /\ \A v \in 1 .. Len(versions) :
                /\ versions'[v].locked = versions[v].locked
                /\ \A c \in Blocks :
                    versions'[v].blocks[c] = IF v = Target(b) /\ c = b THEN x
                                             ELSE versions[v].blocks[c]
<1>. DEFINE t == Target(b)
            new == [versions[t] EXCEPT !.blocks[b] = x]
<1>1. /\ t \in 1 .. Len(versions) /\ versions[t] \in Version
      /\ versions \in Seq(Version)
  BY TargetExists DEF TypeOK, Version
<1>2. new \in Version /\ new.locked = versions[t].locked
      /\ new.blocks = [versions[t].blocks EXCEPT ![b] = x]
  BY <1>1 DEF Version
<1>3. versions' = [versions EXCEPT ![t] = new]
  BY DEF SetRemote
<1>. HIDE DEF new
<1>4. /\ versions' \in Seq(Version) /\ Len(versions') = Len(versions)
      /\ \A v \in 1 .. Len(versions) : versions'[v] = IF v = t THEN new ELSE versions[v]
  BY <1>1, <1>2, <1>3, ExceptSeq
<1>5. \A c \in Blocks : new.blocks[c] = IF c = b THEN x ELSE versions[t].blocks[c]
  BY <1>1, <1>2 DEF Version
<1>. QED  BY <1>2, <1>4, <1>5

---------------------------------------------------------------------------
(* The type invariant.                                                     *)

LEMMA InitInv == Init => IInv
<1>. SUFFICES ASSUME Init PROVE IInv
  OBVIOUS
<1>1. TypeOK
  <2>1. versions \in Seq(Version) /\ Len(versions) = 1
    BY DEF Init, Version, Maybe
  <2>2. 1 \in 1 .. MaxVersions /\ 0 \in 0 .. MaxCommits /\ 0 \in 0 .. MaxFaults
    BY PinnedAssumption
  <2>3. job \in [Blocks -> Ops] /\ stage \in [Blocks -> {"type", "version", "call"}]
    BY DEF Init, Ops
  <2>4. cache \in [1 .. MaxVersions -> {"unknown", "mutable", "locked"}]
    BY DEF Init
  <2>5. state \in [Blocks -> Noted \cup {Absent}] /\ \A b \in Blocks : state[b] = Absent
    BY DEF Init
  <2>6. /\ exists = TRUE /\ running = FALSE /\ applied = FALSE /\ typeKnown = FALSE
        /\ config \in [Blocks -> Maybe] /\ pin = 1
        /\ failed = {} /\ refused = {} /\ commits = 0 /\ faults = 0
    BY DEF Init
  <2>7. /\ Len(versions) \in 1 .. MaxVersions /\ pin \in 1 .. Len(versions)
        /\ commits \in 0 .. MaxCommits /\ faults \in 0 .. MaxFaults
        /\ failed \in SUBSET Blocks /\ refused \in SUBSET failed
    BY <2>1, <2>2, <2>6
  <2>. QED  BY <2>1, <2>3, <2>4, <2>5, <2>6, <2>7 DEF TypeOK, Version
<1>. QED  BY <1>1 DEF Init, IInv, Idle, JobsAreAskedFor, Deleting, EndedInPin

\* What an operation of b may do to the jobs and the state: it goes on, fails, or
\* ends with b out of the state or in the pinned version.
Turns(b) ==
    \/ \E s \in {"version", "call"} : Goes(b, s)
    \/ Fails(b) /\ refused' \in {refused, refused \cup {b}}
    \/ Removed(b)
    \/ \E x \in Values : Written(b, x) /\ failed' \in {failed, failed \cup {b}}

LEMMA TurnTyped ==
    ASSUME TypeOK, NEW b \in Blocks, Turns(b), pin' = pin, config' = config,
           Len(versions') = Len(versions)
    PROVE  /\ state' \in [Blocks -> Noted \cup {Absent}]
           /\ \A c \in Blocks : state'[c] # Absent => state'[c].version <= Len(versions')
           /\ job' \in [Blocks -> Ops] /\ stage' \in [Blocks -> {"type", "version", "call"}]
           /\ failed' \in SUBSET Blocks /\ refused' \in SUBSET failed'
<1>0. /\ state \in [Blocks -> Noted \cup {Absent}]
      /\ \A c \in Blocks : state[c] # Absent => state[c].version <= Len(versions)
      /\ job \in [Blocks -> Ops] /\ stage \in [Blocks -> {"type", "version", "call"}]
      /\ failed \in SUBSET Blocks /\ refused \in SUBSET failed
      /\ Len(versions) \in 1 .. MaxVersions /\ pin \in 1 .. Len(versions)
      /\ MaxVersions \in Nat
  BY PinnedAssumption DEF TypeOK
<1>1. CASE \E s \in {"version", "call"} : Goes(b, s)
  BY <1>0, <1>1 DEF Goes
<1>2. CASE Fails(b) /\ refused' \in {refused, refused \cup {b}}
  BY <1>0, <1>2 DEF Fails, Ops
<1>3. CASE Removed(b)
  <2>1. state' = [state EXCEPT ![b] = Absent]
    BY <1>3 DEF Removed
  <2>2. job' \in [Blocks -> Ops] /\ stage' \in [Blocks -> {"type", "version", "call"}]
    BY <1>0, <1>3 DEF Removed, Ops
  <2>. QED  BY <1>0, <1>3, <2>1, <2>2 DEF Removed
<1>4. CASE \E x \in Values : Written(b, x) /\ failed' \in {failed, failed \cup {b}}
  <2>1. PICK x \in Values : Written(b, x) /\ failed' \in {failed, failed \cup {b}}
    BY <1>4
  <2>2. [version |-> pin, value |-> x] \in Noted
    BY <1>0 DEF Noted
  <2>3. state' = [state EXCEPT ![b] = [version |-> pin, value |-> x]]
    BY <2>1 DEF Written
  <2>4. state' \in [Blocks -> Noted \cup {Absent}]
    BY <1>0, <2>2, <2>3
  <2>5. \A c \in Blocks : state'[c] # Absent => state'[c].version <= Len(versions')
    BY <1>0, <2>3
  <2>. QED  BY <1>0, <2>1, <2>4, <2>5 DEF Written, Ops
<1>. QED  BY <1>1, <1>2, <1>3, <1>4 DEF Turns

\* What an operation may do to the versions.
Writes(b) ==
    \/ UNCHANGED versions
    \/ Deleting(b) /\ SetRemote(b, Absent)
    \/ /\ job[b] = "create" \/ (job[b] = "update" /\ b \notin Followed)
       /\ SetRemote(b, config[b])

\* An operation of b, whatever it is.
Step(b) ==
    /\ running /\ job[b] # "none"
    /\ Turns(b) /\ Writes(b)
    /\ UNCHANGED <<running, exists, files, applied>>
    /\ typeKnown' \in BOOLEAN
    /\ \/ UNCHANGED cache
       \/ cache' = [cache EXCEPT ![Target(b)] = Cached(Target(b))]
    /\ faults' \in 0 .. MaxFaults

\* Every action of an operation is such a step.
LEMMA OperationSteps ==
    ASSUME IInv, NEW b \in Blocks, Operation(b) \/ CallFails(b)
    PROVE  Step(b)
<1>0. TypeOK /\ JobsAreAskedFor
  BY DEF IInv
<1>. USE DEF files, checkers, service
<1>1. CASE CheckType(b)
  BY <1>0, <1>1 DEF CheckType, Step, Turns, Writes, At, TypeOK
<1>2. CASE CheckVersion(b)
  BY <1>0, <1>2 DEF CheckVersion, Step, Turns, Writes, At, Mutable, TypeOK
<1>3. CASE Delete(b)
  BY <1>0, <1>3 DEF Delete, Step, Turns, Writes, At, Effect, Fails, Removed, TypeOK
<1>4. CASE Write(b)
  <2>1. config[b] \in Values
    BY <1>0, <1>4 DEF Write, JobsAreAskedFor, TypeOK, Maybe
  <2>. QED  BY <1>0, <1>4, <2>1
         DEF Write, Step, Turns, Writes, At, Effect, Fails, Deleting, TypeOK
<1>5. CASE Follow(b)
  <2>1. exists /\ Remote(b) # Absent => Remote(b) \in Values
    BY <1>0, TargetExists DEF Remote, Version, Maybe
  <2>. QED  BY <1>0, <1>5, <2>1 DEF Follow, Step, Turns, Writes, At, TypeOK
<1>6. CASE CallFails(b)
  <2>1. running /\ job[b] # "none" /\ Turns(b)
    BY <1>6 DEF CallFails, Turns
  <2>2. job[b] \in Ops /\ typeKnown \in BOOLEAN /\ faults' \in 0 .. MaxFaults
    BY <1>0, <1>6, PinnedAssumption DEF CallFails, TypeOK
  <2>3. Writes(b)
    BY <1>6, <2>1, <2>2 DEF CallFails, Writes, Effect, Deleting, Ops
  <2>. QED  BY <1>6, <2>1, <2>2, <2>3 DEF CallFails, Step
<1>. QED  BY <1>1, <1>2, <1>3, <1>4, <1>5, <1>6 DEF Operation

LEMMA WriteTyped ==
    ASSUME TypeOK, JobsAreAskedFor, NEW b \in Blocks, Writes(b)
    PROVE  versions' \in Seq(Version) /\ Len(versions') = Len(versions)
<1>1. CASE UNCHANGED versions
  BY <1>1 DEF TypeOK, Version
<1>2. ASSUME NEW x \in Maybe, SetRemote(b, x)
      PROVE  versions' \in Seq(Version) /\ Len(versions') = Len(versions)
  BY <1>2, WriteStep
<1>3. config[b] \in Maybe /\ Absent \in Maybe
  BY DEF TypeOK, Maybe
<1>. QED  BY <1>1, <1>2, <1>3 DEF Writes

LEMMA CachedTyped ==
    ASSUME TypeOK, NEW v \in 1 .. MaxVersions
    PROVE  Cached(v) \in {"unknown", "mutable", "locked"}
BY DEF TypeOK, Cached, Answer

LEMMA StepTyped ==
    ASSUME IInv, NEW b \in Blocks, Step(b)
    PROVE  TypeOK'
<1>0. TypeOK /\ JobsAreAskedFor
  BY DEF IInv
<1>1. /\ UNCHANGED <<running, exists, config, pin, commits, applied>> /\ typeKnown' \in BOOLEAN
      /\ faults' \in 0 .. MaxFaults /\ Turns(b) /\ Writes(b)
  BY DEF Step, files
<1>2. versions' \in Seq(Version) /\ Len(versions') = Len(versions)
  BY <1>0, <1>1, WriteTyped
<1>3. cache' \in [1 .. MaxVersions -> {"unknown", "mutable", "locked"}]
  BY <1>0, TargetExists, CachedTyped DEF Step, TypeOK
<1>4. /\ state' \in [Blocks -> Noted \cup {Absent}]
      /\ \A c \in Blocks : state'[c] # Absent => state'[c].version <= Len(versions')
      /\ job' \in [Blocks -> Ops] /\ stage' \in [Blocks -> {"type", "version", "call"}]
      /\ failed' \in SUBSET Blocks /\ refused' \in SUBSET failed'
  BY <1>0, <1>1, <1>2, TurnTyped
<1>. QED  BY <1>0, <1>1, <1>2, <1>3, <1>4 DEF TypeOK, Version

\* A refresh keeps to the types, and to the versions the state named.
LEMMA RefreshTyped ==
    ASSUME TypeOK, NEW b \in Blocks
    PROVE  /\ Refreshed(b) \in Noted \cup {Absent}
           /\ Refreshed(b) # Absent =>
                /\ exists /\ state[b] # Absent
                /\ Refreshed(b).version = state[b].version
                /\ Refreshed(b).version \in 1 .. Len(versions)
                /\ Refreshed(b).value = versions[state[b].version].blocks[b]
                /\ Refreshed(b).value # Absent
<1>1. CASE state[b] = Absent \/ ~exists \/ versions[state[b].version].blocks[b] = Absent
  BY <1>1 DEF Refreshed
<1>2. CASE ~(state[b] = Absent \/ ~exists \/ versions[state[b].version].blocks[b] = Absent)
  <2>1. state[b] \in Noted /\ state[b].version \in 1 .. Len(versions)
    BY <1>2, PinnedAssumption DEF TypeOK, Noted
  <2>2. versions[state[b].version] \in Version
    BY <2>1, ElementOfSeq DEF TypeOK, Version
  <2>3. versions[state[b].version].blocks[b] \in Values
    BY <1>2, <2>2 DEF Version, Maybe
  <2>4. Refreshed(b) = [state[b] EXCEPT !.value = versions[state[b].version].blocks[b]]
    BY <1>2 DEF Refreshed
  <2>. QED  BY <1>2, <2>1, <2>3, <2>4 DEF Noted
<1>. QED  BY <1>1, <1>2

\* What is planned is asked for by the configuration.
LEMMA PlanAsked ==
    ASSUME NEW b \in Blocks, NEW s
    PROVE  /\ Planned(b, s) \in Ops
           /\ Planned(b, s) \in {"create", "update", "replace"} => config[b] # Absent
           /\ Planned(b, s) = "delete" => config[b] = Absent
           /\ Planned(b, s) \in {"delete", "replace"} => s # Absent
           /\ Planned(b, s) = "create" => s = Absent
           /\ Planned(b, s) = "replace" => MustReplace(b, s)
           /\ Planned(b, s) = "none" /\ config[b] # Absent =>
                s = [version |-> pin, value |-> config[b]]
BY DEF Planned, Ops

\* BeginRun, resource by resource.
LEMMA BeginRunStep ==
    ASSUME BeginRun
    PROVE  /\ running' = TRUE
           /\ UNCHANGED <<service, files, failed, refused, checkers, applied, faults>>
           /\ state' = [b \in Blocks |-> Refreshed(b)]
           /\ job' = [b \in Blocks |-> Planned(b, Refreshed(b))]
           /\ stage' = [b \in Blocks |-> FirstStage(b, Planned(b, Refreshed(b)))]
BY DEF BeginRun

LEMMA BeginRunTyped ==
    ASSUME IInv, BeginRun
    PROVE  TypeOK'
<1>0. TypeOK
  BY DEF IInv
<1>1. /\ UNCHANGED <<exists, versions, config, pin, commits, failed, refused, typeKnown, cache,
                     applied, faults>>
      /\ running' = TRUE
  BY BeginRunStep DEF service, files, checkers
<1>2. /\ state' \in [Blocks -> Noted \cup {Absent}]
      /\ \A b \in Blocks : state'[b] # Absent => state'[b].version <= Len(versions')
  BY <1>0, <1>1, BeginRunStep, RefreshTyped
<1>3. job' \in [Blocks -> Ops] /\ stage' \in [Blocks -> {"type", "version", "call"}]
  BY BeginRunStep, PlanAsked DEF FirstStage
<1>. QED  BY <1>0, <1>1, <1>2, <1>3 DEF TypeOK

LEMMA EndRunTyped ==
    ASSUME IInv, EndRun
    PROVE  TypeOK'
BY DEF IInv, TypeOK, EndRun, service, files

LEMMA CloneTyped ==
    ASSUME TypeOK, Clone
    PROVE  /\ TypeOK' /\ Len(versions') = Len(versions) + 1
           /\ \A v \in 1 .. Len(versions) : versions'[v] = versions[v]
<1>1. PICK v \in 1 .. Len(versions) :
        versions' = Append(versions, [versions[v] EXCEPT !.locked = FALSE])
  BY Zenon DEF Clone
<1>2. [versions[v] EXCEPT !.locked = FALSE] \in Version /\ versions \in Seq(Version)
  <2>1. versions \in Seq(Version)
    BY DEF TypeOK, Version
  <2>2. versions[v] \in Version
    BY <2>1, ElementOfSeq
  <2>. QED  BY <2>1, <2>2 DEF Version
<1>. HIDE DEF Version
<1>3. /\ versions' \in Seq(Version) /\ Len(versions') = Len(versions) + 1
      /\ \A w \in 1 .. Len(versions) : versions'[w] = versions[w]
  BY <1>1, <1>2, AppendProperties
<1>4. /\ Len(versions) \in Nat /\ MaxVersions \in Nat /\ Len(versions) < MaxVersions
      /\ Len(versions) \in 1 .. MaxVersions /\ pin \in 1 .. Len(versions)
  BY <1>2, LenProperties, PinnedAssumption DEF Clone, TypeOK
<1>5. /\ Len(versions') \in 1 .. MaxVersions /\ pin \in 1 .. Len(versions')
  BY <1>3, <1>4
<1>6. \A b \in Blocks : state[b] # Absent => state[b].version <= Len(versions')
  <2>. SUFFICES ASSUME NEW b \in Blocks, state[b] # Absent
                PROVE  state[b].version <= Len(versions')
    OBVIOUS
  <2>1. state[b].version \in Nat /\ state[b].version <= Len(versions)
    BY <1>4 DEF TypeOK, Noted
  <2>. QED  BY <1>3, <1>4, <2>1
<1>7. TypeOK'
  BY <1>3, <1>5, <1>6 DEF TypeOK, Clone, unmoved, files, jobs, checkers, Version
<1>. QED  BY <1>3, <1>7

LEMMA ActivateTyped ==
    ASSUME TypeOK, Activate
    PROVE  /\ TypeOK' /\ Len(versions') = Len(versions)
           /\ \A v \in 1 .. Len(versions) :
                /\ versions'[v].blocks = versions[v].blocks
                /\ versions[v].locked => versions'[v].locked
<1>1. PICK v \in 1 .. Len(versions) : versions' = [versions EXCEPT ![v].locked = TRUE]
  BY DEF Activate
<1>. DEFINE new == [versions[v] EXCEPT !.locked = TRUE]
<1>2. versions[v] \in Version /\ versions \in Seq(Version)
  BY ElementOfSeq DEF TypeOK, Version
<1>3. new \in Version /\ new.blocks = versions[v].blocks /\ new.locked
  BY <1>2 DEF Version
<1>4. versions' = [versions EXCEPT ![v] = new]
  BY <1>1
<1>. HIDE DEF new, Version
<1>5. /\ versions' \in Seq(Version) /\ Len(versions') = Len(versions)
      /\ \A w \in 1 .. Len(versions) : versions'[w] = IF w = v THEN new ELSE versions[w]
  BY <1>2, <1>3, <1>4, ExceptSeq
<1>6. TypeOK'
  BY <1>5 DEF TypeOK, Activate, unmoved, files, jobs, checkers, Version
<1>. QED  BY <1>3, <1>5, <1>6

LEMMA CommitTyped ==
    ASSUME TypeOK, Commit
    PROVE  TypeOK'
<1>1. /\ UNCHANGED <<exists, versions, state, running, job, stage, failed, refused, typeKnown,
                     cache, faults>>
      /\ config' \in [Blocks -> Maybe] /\ pin' \in 1 .. Len(versions) /\ applied' = FALSE
      /\ commits' = commits + 1 /\ commits < MaxCommits
  BY Zenon DEF Commit, service, jobs, checkers
<1>2. commits' \in 0 .. MaxCommits
  BY <1>1, PinnedAssumption DEF TypeOK
<1>. QED  BY <1>1, <1>2 DEF TypeOK

LEMMA NextTyped ==
    ASSUME IInv, [Next]_vars
    PROVE  TypeOK'
<1>0. TypeOK
  BY DEF IInv
<1>1. CASE \E b \in Blocks : Operation(b) \/ CallFails(b)
  BY <1>1, OperationSteps, StepTyped
<1>2. CASE BeginRun
  BY <1>2, BeginRunTyped
<1>3. CASE EndRun
  BY <1>3, EndRunTyped
<1>4. CASE Clone
  BY <1>0, <1>4, CloneTyped
<1>5. CASE Activate
  BY <1>0, <1>5, ActivateTyped
<1>6. CASE DeleteService
  BY <1>0, <1>6 DEF DeleteService, TypeOK, unmoved, files, jobs, checkers
<1>7. CASE Commit
  BY <1>0, <1>7, CommitTyped
<1>8. CASE UNCHANGED vars
  BY <1>0, <1>8 DEF vars, TypeOK, service, files, jobs, checkers
<1>. QED  BY <1>1, <1>2, <1>3, <1>4, <1>5, <1>6, <1>7, <1>8 DEF Next, Terraform

---------------------------------------------------------------------------
(* The other parts of IInv.                                                *)

\* An operation of b leaves the other resources alone, and ends with b out of the
\* state, failed, or in the pinned version.
LEMMA TurnEnds ==
    ASSUME TypeOK, NEW b \in Blocks, Turns(b)
    PROVE  /\ \A c \in Blocks \ {b} :
                /\ state'[c] = state[c] /\ job'[c] = job[c]
                /\ c \in failed' <=> c \in failed
           /\ failed \subseteq failed'
           /\ \/ state'[b] = state[b] /\ job'[b] = job[b]
              \/ state'[b] = state[b] /\ job'[b] = "none" /\ b \in failed'
              \/ /\ state'[b] = Absent
                 /\ job'[b] = IF job[b] = "replace" THEN "create" ELSE "none"
              \/ /\ state'[b] \in Noted /\ state'[b].version = pin
                 /\ job'[b] = "none"
<1>0. /\ state \in [Blocks -> Noted \cup {Absent}] /\ job \in [Blocks -> Ops]
      /\ pin \in 1 .. MaxVersions
  BY PinnedAssumption DEF TypeOK
<1>1. CASE \E s \in {"version", "call"} : Goes(b, s)
  BY <1>1 DEF Goes
<1>2. CASE Fails(b)
  BY <1>0, <1>2 DEF Fails
<1>3. CASE Removed(b)
  BY <1>0, <1>3 DEF Removed
<1>4. CASE \E x \in Values : Written(b, x) /\ failed' \in {failed, failed \cup {b}}
  <2>1. PICK x \in Values : Written(b, x) /\ failed' \in {failed, failed \cup {b}}
    BY <1>4
  <2>2. [version |-> pin, value |-> x] \in Noted
    BY <1>0 DEF Noted
  <2>. QED  BY <1>0, <2>1, <2>2 DEF Written
<1>. QED  BY <1>1, <1>2, <1>3, <1>4 DEF Turns

LEMMA StepJobs ==
    ASSUME IInv, NEW b \in Blocks, Step(b)
    PROVE  Idle' /\ JobsAreAskedFor'
<1>0. TypeOK /\ JobsAreAskedFor /\ Turns(b) /\ UNCHANGED <<running, config>> /\ running
      /\ job[b] # "none"
  BY DEF IInv, Step, files
<1>1. Idle'
  BY <1>0 DEF Idle
<1>2. JobsAreAskedFor'
  BY <1>0, TurnEnds DEF JobsAreAskedFor, Deleting
<1>. QED  BY <1>1, <1>2

\* An operation that ends without an error has put its block into the pinned version.
LEMMA EndsInPin ==
    ASSUME IInv, NEW b \in Blocks, Operation(b) \/ CallFails(b),
           exists, job'[b] = "none", b \notin failed', config[b] # Absent
    PROVE  /\ versions'[pin].blocks[b] = config[b]
           /\ state'[b] = [version |-> pin, value |-> config[b]]
<1>0. TypeOK /\ JobsAreAskedFor /\ Step(b)
  BY OperationSteps DEF IInv
<1>. USE DEF At
<1>1. job[b] # "none" /\ job[b] # "delete" /\ pin \in 1 .. Len(versions) /\ b \in DOMAIN job
      /\ state \in [Blocks -> Noted \cup {Absent}]
  BY <1>0 DEF Step, JobsAreAskedFor, TypeOK
<1>2. ~Fails(b) /\ (\A s : ~Goes(b, s)) /\ ~(Deleting(b) /\ Removed(b))
  BY <1>1 DEF Fails, Goes, Removed, Deleting
<1>3. ~CheckType(b) /\ ~CheckVersion(b) /\ ~Delete(b) /\ ~CallFails(b)
  BY <1>2 DEF CheckType, CheckVersion, Delete, CallFails, Mutable, GoneTolerated
<1>4. CASE Write(b)
  <2>1. ~Deleting(b) /\ Target(b) = pin /\ SetRemote(b, config[b]) /\ Written(b, config[b])
    BY <1>2, <1>4 DEF Write, Effect, Deleting, Target
  <2>2. config[b] \in Maybe
    BY <1>0 DEF TypeOK
  <2>3. versions'[pin].blocks[b] = config[b]
    BY <1>0, <1>1, <2>1, <2>2, WriteStep
  <2>. QED  BY <1>1, <2>1, <2>3 DEF Written
<1>5. CASE Follow(b)
  <2>1. Written(b, Remote(b)) /\ failed' = (IF Remote(b) = config[b] THEN failed ELSE failed \cup {b})
    BY <1>2, <1>5 DEF Follow
  <2>2. Remote(b) = config[b] /\ versions' = versions /\ Target(b) = pin
    BY <1>5, <2>1 DEF Follow, service, Target, Deleting
  <2>. QED  BY <1>1, <2>1, <2>2 DEF Written, Remote
<1>. QED  BY <1>3, <1>4, <1>5 DEF Operation

\* A write leaves the blocks of the other resources as they are.
LEMMA WritesOwn ==
    ASSUME TypeOK, JobsAreAskedFor, NEW b \in Blocks, Writes(b)
    PROVE  \A v \in 1 .. Len(versions) :
              /\ versions'[v].locked = versions[v].locked
              /\ \A c \in Blocks \ {b} : versions'[v].blocks[c] = versions[v].blocks[c]
<1>1. config[b] \in Maybe /\ Absent \in Maybe
  BY DEF TypeOK, Maybe
<1>2. ASSUME NEW x \in Maybe, SetRemote(b, x)
      PROVE  \A v \in 1 .. Len(versions) :
              /\ versions'[v].locked = versions[v].locked
              /\ \A c \in Blocks \ {b} : versions'[v].blocks[c] = versions[v].blocks[c]
  BY <1>2, WriteStep
<1>. QED  BY <1>1, <1>2 DEF Writes

LEMMA StepEndedInPin ==
    ASSUME IInv, NEW b \in Blocks, Operation(b) \/ CallFails(b)
    PROVE  EndedInPin'
<1>0. /\ TypeOK /\ JobsAreAskedFor /\ EndedInPin /\ Step(b) /\ Turns(b) /\ Writes(b)
      /\ UNCHANGED <<running, exists, pin, config, applied>> /\ running
      /\ pin \in 1 .. Len(versions)
  BY OperationSteps DEF IInv, Step, files, TypeOK
<1>. SUFFICES ASSUME exists, NEW c \in Blocks,
                     job'[c] = "none", c \notin failed', config[c] # Absent
              PROVE  /\ versions'[pin].blocks[c] = config[c]
                     /\ state'[c] = [version |-> pin, value |-> config[c]]
  BY <1>0 DEF EndedInPin
<1>1. CASE c = b
  BY <1>1, EndsInPin
<1>2. CASE c # b
  <2>1. job[c] = "none" /\ c \notin failed /\ state'[c] = state[c]
    BY <1>0, <1>2, TurnEnds
  <2>2. versions'[pin].blocks[c] = versions[pin].blocks[c]
    BY <1>0, <1>2, WritesOwn
  <2>. QED  BY <1>0, <2>1, <2>2 DEF EndedInPin
<1>. QED  BY <1>1, <1>2

LEMMA BeginRunInv ==
    ASSUME IInv, BeginRun
    PROVE  Idle' /\ JobsAreAskedFor' /\ EndedInPin'
<1>0. TypeOK /\ Idle
  BY DEF IInv
<1>1. /\ UNCHANGED <<exists, versions, config, pin, failed>> /\ running' = TRUE
      /\ \A b \in Blocks : state'[b] = Refreshed(b) /\ job'[b] = Planned(b, Refreshed(b))
  BY BeginRunStep DEF service, files
<1>2. Idle'
  BY <1>1 DEF Idle
<1>3. JobsAreAskedFor'
  BY <1>1, PlanAsked DEF JobsAreAskedFor, Deleting
<1>4. EndedInPin'
  <2>. SUFFICES ASSUME exists, NEW b \in Blocks, Planned(b, Refreshed(b)) = "none",
                       config[b] # Absent
                PROVE  /\ versions[pin].blocks[b] = config[b]
                       /\ Refreshed(b) = [version |-> pin, value |-> config[b]]
    BY <1>1 DEF EndedInPin
  <2>1. Refreshed(b) = [version |-> pin, value |-> config[b]]
    BY PlanAsked
  <2>2. Refreshed(b) # Absent
    BY PlanAsked, <2>1 DEF Planned
  <2>. QED  BY <1>0, <2>1, <2>2, RefreshTyped
<1>. QED  BY <1>2, <1>3, <1>4

LEMMA EndRunInv ==
    ASSUME IInv, EndRun
    PROVE  Idle' /\ JobsAreAskedFor' /\ EndedInPin'
BY DEF IInv, EndRun, Idle, JobsAreAskedFor, Deleting, EndedInPin, service, files

LEMMA NextInv ==
    ASSUME IInv, [Next]_vars
    PROVE  IInv'
<1>0. TypeOK /\ Idle /\ JobsAreAskedFor /\ EndedInPin /\ TypeOK' /\ pin \in 1 .. Len(versions)
  BY NextTyped DEF IInv, TypeOK
<1>. SUFFICES Idle' /\ JobsAreAskedFor' /\ EndedInPin'
  BY <1>0 DEF IInv
<1>1. CASE \E b \in Blocks : Operation(b) \/ CallFails(b)
  BY <1>1, OperationSteps, StepJobs, StepEndedInPin
<1>2. CASE BeginRun
  BY <1>2, BeginRunInv
<1>3. CASE EndRun
  BY <1>3, EndRunInv
<1>4. CASE Clone
  <2>1. /\ UNCHANGED <<exists, config, pin, state, running, job, failed, applied>>
        /\ versions'[pin] = versions[pin]
    BY <1>0, <1>4, CloneTyped DEF Clone, unmoved, files, jobs
  <2>. QED  BY <1>0, <2>1 DEF Idle, JobsAreAskedFor, EndedInPin, Deleting
<1>5. CASE Activate
  <2>1. /\ UNCHANGED <<exists, config, pin, state, running, job, failed, applied>>
        /\ versions'[pin].blocks = versions[pin].blocks
    BY <1>0, <1>5, ActivateTyped DEF Activate, unmoved, files, jobs
  <2>. QED  BY <1>0, <2>1 DEF Idle, JobsAreAskedFor, EndedInPin, Deleting
<1>6. CASE DeleteService
  BY <1>0, <1>6
     DEF DeleteService, unmoved, files, jobs, Idle, JobsAreAskedFor, EndedInPin, Deleting
<1>7. CASE Commit
  <2>1. /\ UNCHANGED <<running, job, state, failed>> /\ ~running /\ applied' = FALSE
    BY <1>7 DEF Commit, jobs
  <2>. QED  BY <1>0, <2>1 DEF Idle, JobsAreAskedFor, EndedInPin, Deleting
<1>8. CASE UNCHANGED vars
  BY <1>0, <1>8 DEF vars, service, files, jobs, Idle, JobsAreAskedFor, EndedInPin, Deleting
<1>. QED  BY <1>1, <1>2, <1>3, <1>4, <1>5, <1>6, <1>7, <1>8 DEF Next, Terraform

\* IInv holds in every reachable state: what an apply has done so far, and what it
\* may still do, fits the configuration and the pinned version.
THEOREM PinnedInvariance == Spec => []IInv
<1>1. Init => IInv
  BY InitInv
<1>2. IInv /\ [Next]_vars => IInv'
  BY NextInv
<1>. QED  BY <1>1, <1>2, PTL DEF Spec

\* Every variable keeps its type, and versions that are named exist.
THEOREM PinnedTypeCorrect == Spec => []TypeOK
<1>1. IInv => TypeOK
  BY DEF IInv
<1>. QED  BY <1>1, PinnedInvariance, PTL

\* After an apply without errors the pinned version holds every block of the
\* configuration, and the state says so: for every kind of resource, whatever the user
\* did to the service meanwhile, and after any failures.
THEOREM AppliesIntoPin == Spec => []AppliedInPin
<1>1. IInv => AppliedInPin
  BY DEF IInv, Idle, EndedInPin, AppliedInPin
<1>. QED  BY <1>1, PinnedInvariance, PTL

---------------------------------------------------------------------------
(* Careful users, of kinds that another version does not replace.          *)

\* What an operation leaves in the state it found there, or has seen in the pinned
\* version.
LEMMA StateIsSeen ==
    ASSUME IInv, NEW b \in Blocks, Operation(b) \/ CallFails(b), state'[b] # Absent
    PROVE  \/ state'[b] = state[b]
           \/ state'[b].version = pin /\ versions'[pin].blocks[b] = state'[b].value
<1>0. TypeOK /\ JobsAreAskedFor
  BY DEF IInv
<1>1. state \in [Blocks -> Noted \cup {Absent}] /\ config[b] \in Maybe /\ pin \in 1 .. Len(versions)
  BY <1>0 DEF TypeOK
<1>2. ~Removed(b)
  BY <1>1 DEF Removed
<1>3. Fails(b) \/ (\E s : Goes(b, s)) => state' = state
  BY DEF Fails, Goes
<1>4. CASE Write(b) /\ Effect(b) /\ Written(b, config[b])
  <2>1. SetRemote(b, config[b]) /\ Target(b) = pin
    BY <1>4 DEF Write, Effect, Target, Deleting
  <2>2. versions'[pin].blocks[b] = config[b]
    BY <1>0, <1>1, <2>1, WriteStep
  <2>. QED  BY <1>1, <1>4, <2>2 DEF Written
<1>5. CASE Follow(b) /\ Written(b, Remote(b))
  <2>1. Target(b) = pin /\ versions' = versions
    BY <1>5 DEF Follow, Target, Deleting, service
  <2>. QED  BY <1>1, <1>5, <2>1 DEF Written, Remote
<1>6. CASE Fails(b) \/ \E s : Goes(b, s)
  BY <1>3, <1>6
<1>. QED  BY <1>2, <1>4, <1>5, <1>6
       DEF Operation, CheckType, CheckVersion, Mutable, Delete, Write, Follow, CallFails

LEMMA StepCareful ==
    ASSUME IInv, CarefulInv, NEW b \in Blocks, Operation(b) \/ CallFails(b)
    PROVE  CarefulInv'
<1>0. /\ TypeOK /\ JobsAreAskedFor /\ Step(b) /\ Turns(b) /\ Writes(b)
      /\ UNCHANGED <<running, exists, pin, config>>
      /\ Len(versions') = Len(versions) /\ versions' \in Seq(Version)
      /\ \A v \in 1 .. Len(versions) :
              /\ versions'[v].locked = versions[v].locked
              /\ \A c \in Blocks \ {b} : versions'[v].blocks[c] = versions[v].blocks[c]
  BY OperationSteps, WriteTyped, WritesOwn DEF IInv, Step, files
<1>1. /\ pin \in 1 .. Len(versions) /\ Target(b) \in 1 .. Len(versions)
      /\ DOMAIN versions = 1 .. Len(versions) /\ DOMAIN versions' = 1 .. Len(versions)
  BY <1>0, TargetExists, LenProperties DEF TypeOK
<1>2. /\ \A c \in Blocks \ {b} : state'[c] = state[c] /\ job'[c] = job[c]
      /\ state'[b] # state[b] => state'[b] = Absent \/ state'[b].version = pin
      /\ Deleting(b)' => state'[b] = state[b] /\ job'[b] = job[b]
      /\ job'[b] = "create" => (job[b] = "create" /\ state'[b] = state[b]) \/ state'[b] = Absent
  BY <1>0, TurnEnds DEF Deleting
<1>3. NoBlindDelete'
  <2>1. ASSUME NEW c \in Blocks, state'[c] # Absent, state'[c].version # pin
        PROVE  state'[c] = state[c]
    BY <1>2, <2>1
  <2>. QED  BY <1>0, <2>1 DEF CarefulInv, NoBlindDelete
<1>4. LockedIsLocked'
  <2>. SUFFICES ASSUME NEW v \in 1 .. MaxVersions, cache'[v] = "locked"
                PROVE  v \in 1 .. Len(versions) /\ versions[v].locked
    BY <1>0, <1>1 DEF LockedIsLocked
  <2>1. CASE cache[v] = "locked"
    BY <1>1, <2>1 DEF CarefulInv, LockedIsLocked
  <2>2. CASE cache[v] # "locked"
    <3>1. v = Target(b) /\ Cached(v) = "locked"
      BY <1>0, <2>2 DEF Step, TypeOK
    <3>2. versions[v].locked
      BY <2>2, <3>1 DEF Cached, Answer
    <3>. QED  BY <1>1, <3>1, <3>2
  <2>. QED  BY <2>1, <2>2
<1>5. FollowedIsKnown'
  <2>. SUFFICES ASSUME NEW c \in Followed, state'[c] # Absent
                PROVE  versions'[state'[c].version].blocks[c] \in {state'[c].value, Absent}
    BY DEF FollowedIsKnown
  <2>0. c \in Blocks
    BY PinnedAssumption
  <2>1. ASSUME state'[c] = state[c]
        PROVE  /\ state[c].version \in 1 .. Len(versions)
               /\ versions[state[c].version].blocks[c] \in {state'[c].value, Absent}
    <3>1. state[c] \in Noted /\ state[c].version <= Len(versions)
      BY <1>0, <2>0, <2>1 DEF TypeOK
    <3>. QED  BY <1>0, <2>1, <3>1, PinnedAssumption DEF CarefulInv, FollowedIsKnown, Noted, TypeOK
  <2>2. CASE c # b
    BY <1>0, <1>2, <2>0, <2>1, <2>2
  <2>3. CASE c = b /\ state'[b] = state[b]
    <3>1. CASE Deleting(b) /\ SetRemote(b, Absent)
      BY <1>0, <2>1, <2>3, <3>1, WriteStep DEF Maybe
    <3>2. CASE UNCHANGED versions
      BY <2>1, <2>3, <3>2
    <3>3. job[b] # "create"
      BY <2>3 DEF CarefulInv, CreatesTheUnknown
    <3>. QED  BY <1>0, <2>3, <3>1, <3>2, <3>3 DEF Writes
  <2>4. CASE c = b /\ state'[b] # state[b]
    BY <2>4, StateIsSeen
  <2>. QED  BY <2>2, <2>3, <2>4
<1>6. DeletesInPin'
  BY <1>0, <1>2 DEF CarefulInv, DeletesInPin, Deleting
<1>7. CreatesTheUnknown'
  BY <1>2 DEF CarefulInv, CreatesTheUnknown
<1>8. RefusedOnlyForPin'
  <2>1. refused' \subseteq refused \/ versions[Target(b)].locked
    <3>1. CASE CheckVersion(b)
      <4>1. Answer(Target(b)) = "locked" => versions[Target(b)].locked
        BY <1>0, <1>1, TargetExists DEF Answer, CarefulInv, LockedIsLocked
      <4>. QED  BY <3>1, <4>1 DEF CheckVersion, Mutable, Goes, Removed, Fails
    <3>. QED  BY <3>1 DEF Operation, CheckType, Delete, Write, Follow, CallFails,
                          Goes, Removed, Written
  <2>2. Target(b) = pin
    BY DEF Target, CarefulInv, DeletesInPin
  <2>. QED  BY <1>0, <1>1, <2>1, <2>2 DEF CarefulInv, RefusedOnlyForPin
<1>. QED  BY <1>3, <1>4, <1>5, <1>6, <1>7, <1>8 DEF CarefulInv

LEMMA BeginRunCareful ==
    ASSUME Replaced = {}, IInv, CarefulInv, BeginRun
    PROVE  CarefulInv'
<1>0. TypeOK /\ Followed \subseteq Blocks
  BY PinnedAssumption DEF IInv
<1>1. /\ UNCHANGED <<exists, versions, config, pin, refused, cache>>
      /\ \A b \in Blocks : state'[b] = Refreshed(b) /\ job'[b] = Planned(b, Refreshed(b))
  BY BeginRunStep DEF service, files, checkers
<1>2. \A b \in Blocks : Refreshed(b) # Absent =>
        /\ state[b] # Absent
        /\ Refreshed(b).version = state[b].version
        /\ Refreshed(b).value = versions[state[b].version].blocks[b]
        /\ Refreshed(b).value # Absent
  BY <1>0, RefreshTyped
<1>3. \A b \in Followed : Refreshed(b) # Absent => Refreshed(b).value = state[b].value
  BY <1>0, <1>2 DEF CarefulInv, FollowedIsKnown
<1>4. NoBlindDelete'
  BY <1>0, <1>1, <1>2, <1>3 DEF CarefulInv, NoBlindDelete
<1>5. LockedIsLocked'
  BY <1>1 DEF CarefulInv, LockedIsLocked
<1>6. FollowedIsKnown'
  BY <1>0, <1>1, <1>2 DEF FollowedIsKnown
<1>7. DeletesInPin'
  <2>. SUFFICES ASSUME NEW b \in Blocks, Planned(b, Refreshed(b)) \in {"delete", "replace"}
                PROVE  Refreshed(b).version = pin
    BY <1>1 DEF DeletesInPin, Deleting
  <2>1. Refreshed(b) # Absent
    BY PlanAsked
  <2>2. config[b] = Absent \/ (b \in Followed /\ Refreshed(b).value # config[b])
    BY PlanAsked DEF MustReplace
  <2>. QED  BY <1>1, <1>4, <2>1, <2>2 DEF NoBlindDelete
<1>8. CreatesTheUnknown'
  BY <1>1, PlanAsked DEF CreatesTheUnknown
<1>9. RefusedOnlyForPin'
  BY <1>1 DEF CarefulInv, RefusedOnlyForPin
<1>. QED  BY <1>4, <1>5, <1>6, <1>7, <1>8, <1>9 DEF CarefulInv

\* What the user does between the calls, and the end of an apply.
LEMMA OthersCareful ==
    ASSUME Careful, IInv, CarefulInv,
           EndRun \/ Clone \/ Activate \/ DeleteService \/ Commit \/ UNCHANGED vars
    PROVE  CarefulInv'
<1>0. /\ TypeOK /\ pin \in 1 .. Len(versions) /\ MaxVersions \in Nat
      /\ DOMAIN versions = 1 .. Len(versions) /\ Len(versions) \in Nat
  BY PinnedAssumption, LenProperties DEF IInv, TypeOK
<1>. USE DEF CarefulInv
<1>1. CASE EndRun
  <2>1. /\ UNCHANGED <<exists, versions, config, pin, state, job>> /\ refused' = {}
        /\ \A v \in 1 .. MaxVersions : cache'[v] = "unknown"
    BY <1>1 DEF EndRun, service, files
  <2>. QED  BY <2>1 DEF NoBlindDelete, LockedIsLocked, FollowedIsKnown, DeletesInPin,
                        CreatesTheUnknown, RefusedOnlyForPin, Deleting
<1>2. ASSUME UNCHANGED <<exists, config, pin, state, job, refused, cache>>, versions' = versions
      PROVE  CarefulInv'
  BY <1>2 DEF NoBlindDelete, LockedIsLocked, FollowedIsKnown, DeletesInPin,
              CreatesTheUnknown, RefusedOnlyForPin, Deleting
<1>3. ASSUME UNCHANGED <<config, pin, state, job, refused, cache>>,
             1 .. Len(versions) \subseteq DOMAIN versions',
             \A v \in 1 .. Len(versions) :
                /\ versions'[v].blocks = versions[v].blocks
                /\ versions[v].locked => versions'[v].locked
      PROVE  CarefulInv'
  <2>1. NoBlindDelete' /\ DeletesInPin' /\ CreatesTheUnknown'
    BY <1>3 DEF NoBlindDelete, DeletesInPin, CreatesTheUnknown, Deleting
  <2>2. LockedIsLocked' /\ RefusedOnlyForPin'
    BY <1>0, <1>3 DEF LockedIsLocked, RefusedOnlyForPin
  <2>3. FollowedIsKnown'
    <3>1. \A b \in Followed : state[b] # Absent => state[b].version \in 1 .. Len(versions)
      BY <1>0, PinnedAssumption DEF TypeOK, Noted
    <3>. QED  BY <1>3, <3>1 DEF FollowedIsKnown
  <2>. QED  BY <2>1, <2>2, <2>3
<1>4. CASE Clone
  <2>1. TypeOK' /\ Len(versions') = Len(versions) + 1
        /\ \A v \in 1 .. Len(versions) : versions'[v] = versions[v]
    BY <1>0, <1>4, CloneTyped
  <2>2. DOMAIN versions' = 1 .. Len(versions) + 1
    BY <2>1, LenProperties DEF TypeOK
  <2>. QED  BY <1>0, <1>3, <1>4, <2>1, <2>2 DEF Clone, unmoved, files, jobs, checkers
<1>5. CASE Activate
  <2>1. TypeOK' /\ Len(versions') = Len(versions)
        /\ \A v \in 1 .. Len(versions) :
                /\ versions'[v].blocks = versions[v].blocks
                /\ versions[v].locked => versions'[v].locked
    BY <1>0, <1>5, ActivateTyped
  <2>2. DOMAIN versions' = 1 .. Len(versions)
    BY <2>1, LenProperties DEF TypeOK
  <2>. QED  BY <1>0, <1>3, <1>5, <2>1, <2>2 DEF Activate, unmoved, files, jobs, checkers
<1>6. CASE DeleteService
  BY <1>3, <1>0, <1>6 DEF DeleteService, unmoved, files, jobs, checkers
<1>7. CASE Commit
  <2>1. /\ UNCHANGED <<versions, state, job, refused, cache>> /\ NoBlindDelete'
        /\ failed = {} /\ \A b \in Blocks : job[b] = "none"
    BY <1>7 DEF Commit, service, jobs, checkers, IInv, Idle
  <2>2. refused = {}
    BY <2>1 DEF IInv, TypeOK
  <2>. QED  BY <2>1, <2>2 DEF LockedIsLocked, FollowedIsKnown, DeletesInPin,
                        CreatesTheUnknown, RefusedOnlyForPin, Deleting
<1>8. CASE UNCHANGED vars
  BY <1>2, <1>8 DEF vars, service, files, jobs, checkers
<1>. QED  BY <1>1, <1>4, <1>5, <1>6, <1>7, <1>8

LEMMA CarefulNext ==
    ASSUME Careful, Replaced = {}, IInv, CarefulInv, [Next]_vars
    PROVE  CarefulInv'
<1>1. CASE \E b \in Blocks : Operation(b) \/ CallFails(b)
  BY <1>1, StepCareful
<1>2. CASE BeginRun
  BY <1>2, BeginRunCareful
<1>3. CASE EndRun \/ Clone \/ Activate \/ DeleteService \/ Commit \/ UNCHANGED vars
  BY <1>3, OthersCareful
<1>. QED  BY <1>1, <1>2, <1>3 DEF Next, Terraform

LEMMA CarefulInit == Init => CarefulInv
<1>. SUFFICES ASSUME Init PROVE CarefulInv
  OBVIOUS
<1>1. /\ \A b \in Blocks : state[b] = Absent /\ job[b] = "none"
      /\ \A v \in 1 .. MaxVersions : cache[v] = "unknown"
      /\ refused = {} /\ Followed \subseteq Blocks
  BY PinnedAssumption DEF Init
<1>. QED  BY <1>1 DEF CarefulInv, NoBlindDelete, LockedIsLocked, FollowedIsKnown,
                     DeletesInPin, CreatesTheUnknown, RefusedOnlyForPin, Deleting

\* Delete takes a block out of the state only when the pinned version does not have it.
LEMMA ForgetsTheGone ==
    ASSUME IInv, CarefulInv, [Next]_vars, NEW b \in Blocks, Forgets(b)
    PROVE  ~exists \/ versions'[pin].blocks[b] = Absent
<1>0. /\ TypeOK /\ JobsAreAskedFor /\ running /\ state'[b] # state[b] /\ state'[b] = Absent
      /\ pin \in 1 .. Len(versions) /\ state \in [Blocks -> Noted \cup {Absent}]
  BY DEF IInv, Forgets, TypeOK
<1>1. PICK c \in Blocks : Operation(c) \/ CallFails(c)
  BY <1>0 DEF Next, Terraform, BeginRun, EndRun, Clone, Activate, DeleteService, Commit,
              unmoved, vars
<1>2. c = b /\ Step(b)
  BY <1>0, <1>1, OperationSteps, TurnEnds DEF Step
<1>3. (\A s : ~Goes(b, s)) /\ ~Fails(b)
  BY <1>0 DEF Goes, Fails
<1>4. CASE CheckType(b)
  BY <1>3, <1>4 DEF CheckType
<1>5. CASE CheckVersion(b)
  <2>1. Answer(Target(b)) = "notFound"
    BY <1>3, <1>5 DEF CheckVersion, Mutable
  <2>2. cache[Target(b)] # "notFound"
    BY <1>0, TargetExists DEF TypeOK
  <2>. QED  BY <2>1, <2>2 DEF Answer
<1>6. CASE Delete(b)
  <2>1. Target(b) = pin
    BY DEF Target, CarefulInv, DeletesInPin
  <2>2. CASE SetRemote(b, Absent)
    BY <1>0, <2>1, <2>2, WriteStep DEF Maybe
  <2>3. CASE (~exists \/ Remote(b) = Absent) /\ UNCHANGED versions
    BY <2>1, <2>3 DEF Remote
  <2>4. Deleting(b) /\ Effect(b) => SetRemote(b, Absent)
    BY DEF Effect
  <2>. QED  BY Zenon, <1>3, <1>6, <2>2, <2>3, <2>4 DEF Delete
<1>7. \A x \in Values : ~Written(b, x)
  <2>. SUFFICES ASSUME NEW x \in Values, Written(b, x) PROVE FALSE
    OBVIOUS
  <2>1. state'[b] = [version |-> pin, value |-> x]
    BY <1>0 DEF Written
  <2>2. pin \in 1 .. MaxVersions
    BY <1>0, PinnedAssumption DEF TypeOK
  <2>. QED  BY <1>0, <2>1, <2>2, PinnedAssumption
<1>8. CASE Write(b) \/ Follow(b) \/ CallFails(b)
  <2>1. config[b] \in Values \/ ~Write(b)
    BY <1>0 DEF Write, JobsAreAskedFor, TypeOK, Maybe
  <2>2. exists /\ Remote(b) # Absent => Remote(b) \in Values
    BY <1>0, TargetExists DEF Remote, Version, Maybe
  <2>. QED  BY <1>3, <1>7, <1>8, <2>1, <2>2 DEF Write, Follow, CallFails
<1>. QED  BY <1>1, <1>2, <1>4, <1>5, <1>6, <1>8 DEF Operation

---------------------------------------------------------------------------

LEMMA CarefulInvariance ==
    ASSUME Careful, Replaced = {}
    PROVE  Spec => [](IInv /\ CarefulInv)
<1>1. Init => IInv /\ CarefulInv
  BY InitInv, CarefulInit
<1>2. IInv /\ CarefulInv /\ [Next]_vars => (IInv /\ CarefulInv)'
  BY NextInv, CarefulNext
<1>. QED  BY <1>1, <1>2, PTL DEF Spec

\* "clone this version and pin Terraform to the new draft version": the advice is right.
\* An apply is refused for a locked version only if the version pinned is locked, when
\* the user removes resources only after their state is in the pinned version and no
\* kind is replaced for another version.
THEOREM RefusedForThePin ==
    ASSUME Careful, Replaced = {}
    PROVE  Spec => []RefusedOnlyForPin
<1>1. IInv /\ CarefulInv => RefusedOnlyForPin
  BY DEF CarefulInv
<1>. QED  BY <1>1, CarefulInvariance, PTL

\* Under the same conditions no Delete takes a resource out of the state while the
\* pinned version still has its block.
THEOREM NothingIsForgotten ==
    ASSUME Careful, Replaced = {}
    PROVE  Spec => ForgottenIsGone
<1>1. IInv /\ CarefulInv /\ [Next]_vars =>
        [\A b \in Blocks : Forgets(b) => ~exists \/ versions'[pin].blocks[b] = Absent]_vars
  BY ForgetsTheGone
<1>. QED  BY <1>1, CarefulInvariance, PTL DEF Spec, ForgottenIsGone
=============================================================================
