--------------------------- MODULE OwnedItemsInv ---------------------------
(***************************************************************************)
(* The inductive invariant of OwnedItems: what the operations do for the   *)
(* configuration, what the state and the history know of the items, and    *)
(* what the guard of a container has seen.                                 *)
(***************************************************************************)
EXTENDS OwnedItems

---------------------------------------------------------------------------
(* The operations.                                                         *)

AtRest ==
    ~running => /\ failed = {}
                /\ \A r \in Resources : job[r] = "none"

\* An operation is one the configuration asks for, of a resource that the
\* state has, or has not.
ItemsAreAskedFor ==
    /\ job.items = "delete" => config.items = None /\ state.items # None
    /\ job.items \in {"create", "update"} => config.items # None
    /\ job.items = "update" => state.items # None
    /\ job.items = "create" => state.items = None
    /\ stage.items = "reread" => job.items # "delete"

\* Nothing has been done about the items of a container that is to be created.
ContainerIsAskedFor ==
    /\ job.container = "delete" => ~config.present
    /\ job.container = "create" =>
        job.items = "none" \/ (job.items = "create" /\ stage.items = "list")
    /\ stage.container \in {"guard", "purge"} => job.container \in {"none", "delete"}

\* The items have been listed.
Handled == job.items # "none" /\ stage.items # "list"

OpsAreDesired ==
    /\ Handled => \A o \in ops : o.value = Desired[o.key]
    /\ stage.items = "reread" => ops = {}

\* The batch that is waited for is the last that was accepted.
WaitsForLast ==
    Handled /\ stage.items = "wait" /\ pending # <<>> => pending[Len(pending)] = ops

---------------------------------------------------------------------------
(* The state and the histories.                                            *)

\* The keys that the state knows.
Held == IF state.items \in {None, Null} THEN {} ELSE In(state.items)

WrittenIsThere == written # {} => store # None /\ \A k \in written : store[k] # Null

Deletions == {o.key : o \in {x \in ops : x.op = "delete"}}

\* The state knows what the provider wrote, or the operation will have put it there.
WrittenIsKnown ==
    written \subseteq strays \cup (IF Handled THEN Declared \cup Deletions ELSE Held)

AsConfigured == IF config.items = None THEN None ELSE Flatten(config.items)

StateAsConfigured ==
    running /\ failed = {} /\ job.items = "none" => state.items = AsConfigured

\* A declared item is there, or about to be sent or applied.
DeclaredIsThere ==
    /\ running /\ failed = {} /\ ~late /\ config.items # None
    /\ job.items = "none" \/ stage.items # "list"
    => /\ store # None
       /\ \A k \in Declared : \/ store[k] = config.items[k]
                              \/ job.items # "none" /\ \E o \in ops : o.key = k

AppliedStays ==
    applied =>
        /\ ~running
        /\ config.items # None => store # None /\ \A k \in Declared : store[k] = config.items[k]
        /\ written \subseteq strays \cup Declared

---------------------------------------------------------------------------
(* What is managed.                                                        *)

OnlyManaged(batch) == \A o \in batch : o.value = Null => o.key \in managed

\* The state of a map, which is never null, and what is deleted for it.
HeldIsManaged ==
    ~kind.nullWhenEmpty =>
        /\ state.items # Null /\ Held \subseteq managed
        /\ OnlyManaged(ops)
        /\ \A i \in DOMAIN pending : OnlyManaged(pending[i])

DeclaredIsManaged == running => Declared \subseteq managed

---------------------------------------------------------------------------
(* The container.                                                          *)

\* There is a container that the state does not know only if others made it.
ContainerIsKnown == ~kind.nested /\ store # None => state.container # None

DeletesTheKnown ==
    job.container = "delete" /\ state.container = None /\ ~late => store = None

\* What the guard has seen stays so.
GuardHasSeen ==
    kind.guard # "none" /\ job.container = "delete" /\ stage.container # "guard" =>
        /\ job.items = "none"
        /\ Forced \/ late \/ store \in {None, NoItems}

GuardedIsNotLate == kind.guard # "none" => pending = <<>>

---------------------------------------------------------------------------

Operating == AtRest /\ ItemsAreAskedFor /\ ContainerIsAskedFor /\ OpsAreDesired /\ WaitsForLast
Knowing == WrittenIsThere /\ WrittenIsKnown /\ StateAsConfigured /\ DeclaredIsThere /\ AppliedStays
Managing == HeldIsManaged /\ DeclaredIsManaged
Guarding == ContainerIsKnown /\ DeletesTheKnown /\ GuardHasSeen /\ GuardedIsNotLate

IInv == TypeOK /\ Operating /\ Knowing /\ Managing /\ Guarding
=============================================================================
