-------------------------- MODULE PinnedVersionInv --------------------------
(***************************************************************************)
(* The inductive invariants of PinnedVersion.  IInv holds whatever the     *)
(* user does; CarefulInv of users who look at the state before they remove *)
(* a resource, and of kinds that no other version replaces.                *)
(***************************************************************************)
EXTENDS PinnedVersion

\* Between applies nothing is left of the last one.
Idle == ~running => failed = {} /\ \A b \in Blocks : job[b] = "none"

\* An operation is one the configuration asks for, and the state has what is
\* to be deleted.
JobsAreAskedFor ==
    \A b \in Blocks :
        /\ job[b] \in {"create", "update", "replace"} => config[b] # Absent
        /\ job[b] = "delete" => config[b] = Absent
        /\ Deleting(b) => state[b] # Absent

\* A resource whose operation has ended without an error is in the pinned
\* version as configured.
EndedInPin ==
    exists /\ (running \/ applied) =>
        \A b \in Blocks : job[b] = "none" /\ b \notin failed /\ config[b] # Absent =>
            /\ versions[pin].blocks[b] = config[b]
            /\ state[b] = [version |-> pin, value |-> config[b]]

IInv ==
    /\ TypeOK
    /\ Idle
    /\ JobsAreAskedFor
    /\ EndedInPin

\* Locks are for good, so an answer that is cached does not get old.
LockedIsLocked ==
    \A v \in 1 .. MaxVersions : cache[v] = "locked" => v \in DOMAIN versions /\ versions[v].locked

\* The state has the value of a dictionary or an ACL, which is never written
\* after it was made.
FollowedIsKnown ==
    \A b \in Followed : state[b] # Absent =>
        versions[state[b].version].blocks[b] \in {state[b].value, Absent}

\* What Delete is about is in the pinned version.
DeletesInPin == \A b \in Blocks : Deleting(b) => state[b].version = pin

\* What is created is not in the state.
CreatesTheUnknown == \A b \in Blocks : job[b] = "create" => state[b] = Absent

CarefulInv ==
    /\ NoBlindDelete
    /\ LockedIsLocked
    /\ FollowedIsKnown
    /\ DeletesInPin
    /\ CreatesTheUnknown
    /\ RefusedOnlyForPin
=============================================================================
