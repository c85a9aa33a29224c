----------------------------- MODULE OwnedItems -----------------------------
(***************************************************************************)
(* A container (a dictionary, an ACL, a store) and the resource that       *)
(* manages some of its items (fastly_service_dictionary_items and the      *)
(* like).  Items have no version: they are written at once, in batches,    *)
(* and by others too, who own the keys that the configuration does not     *)
(* declare.  What is left in a container is lost with it, so most          *)
(* containers refuse to be deleted, unless `force_destroy` says so, when   *)
(* they are not empty.                                                     *)
(*                                                                         *)
(* Both resources are in one Terraform configuration; the items refer to   *)
(* the container.                                                          *)
(***************************************************************************)
EXTENDS Naturals, Sequences, FiniteSets

CONSTANTS
    Kinds,      \* of container, see KindType
    Keys, Values,
    None,       \* no such resource, container or configuration
    Null,       \* an attribute without a value; a key without an item
    ChunkSize,  \* BatchModifyMaximumOperations
    MaxFaults,  \* bound: failed calls and timeouts
    MaxEdits,   \* bound: edits of the configuration
    MaxWrites   \* bound: what others do to the container

\* What tells the kinds apart.
KindType == [
    guard : {"none", "empty", "refuse", "purge"}, \* what Delete asks of the container
    nested : BOOLEAN,        \* it is a block of an automatic service
    items : BOOLEAN,         \* there is a resource for its items
    waits : BOOLEAN,         \* the API applies a batch later, and the provider waits
    rereads : BOOLEAN,       \* the state is what is listed after the batch
    nullWhenEmpty : BOOLEAN, \* no items read back as null
    toleratesGone : BOOLEAN] \* Delete goes on when the batch finds no container

\* The kinds, as their packages make them.
ConfigStore == [guard |-> "none", nested |-> FALSE, items |-> TRUE, waits |-> FALSE,
                rereads |-> FALSE, nullWhenEmpty |-> FALSE, toleratesGone |-> FALSE]
Dictionary == [ConfigStore EXCEPT !.guard = "empty"]
NestedDictionary == [Dictionary EXCEPT !.nested = TRUE]
WriteOnlyDictionary == [ConfigStore EXCEPT !.guard = "refuse", !.items = FALSE]
KVStore == [ConfigStore EXCEPT !.guard = "purge", !.items = FALSE]
ComputeACL == [ConfigStore EXCEPT !.waits = TRUE, !.toleratesGone = TRUE]
CdnACL ==
    [Dictionary EXCEPT !.rereads = TRUE, !.nullWhenEmpty = TRUE, !.toleratesGone = TRUE]

Items == [Keys -> Values \cup {Null}]

\* A container that is written later has no guard.
ASSUME ItemsAssumption ==
    /\ Kinds \subseteq KindType
    /\ \A k \in Kinds : k.waits => k.guard = "none"
    /\ Keys \subseteq Nat /\ Null \notin Values
    /\ {None, Null} \cap Items = {} /\ None \notin BOOLEAN \cup {Null}
    /\ ChunkSize \in Nat \ {0}
    /\ MaxFaults \in Nat /\ MaxEdits \in Nat /\ MaxWrites \in Nat

VARIABLES
    kind,
    store,     \* the container's items; None: there is no container
    pending,   \* batches the API has accepted and not applied
    config,    \* [present, force, items]
    state,     \* [container, items]
    running,
    job,       \* per resource: the operation planned
    stage,     \* per resource: the call it is at
    ops,       \* operations still to be sent, a set; those awaited
    failed,
    applied,   \* history: nothing has happened since an apply without errors
    managed,   \* history: keys that have been declared, or imported
    written,   \* history: keys whose item the provider wrote last
    strays,    \* history: keys written by an operation that then failed
    late,      \* history: others wrote since the apply began, or a batch from before it
    faults, edits, writes

vars == <<kind, store, pending, config, state, running, job, stage, ops, failed,
          applied, managed, written, strays, late, faults, edits, writes>>

Resources == {"container", "items"}
NoItems == [k \in Keys |-> Null]
In(m) == {k \in Keys : m[k] # Null}

Op == {o \in [op : {"create", "update", "delete"}, key : Keys, value : Values \cup {Null}] :
          o.op = "delete" <=> o.value = Null}

Config == {c \in [present : BOOLEAN, force : BOOLEAN, items : Items \cup {None}] :
              /\ c.items # None => c.present
              /\ ~c.present => ~c.force}

\* Of a kind: not all have a resource for the items, or `force_destroy`.
Possible ==
    {c \in Config : /\ ~kind.items => c.items = None
                    /\ kind.guard = "none" => ~c.force}

TypeOK ==
    /\ kind \in Kinds
    /\ store \in Items \cup {None}
    /\ pending \in Seq(SUBSET Op)
    /\ config \in Possible
    /\ state \in [container : BOOLEAN \cup {None}, items : Items \cup {None, Null}]
    /\ running \in BOOLEAN /\ applied \in BOOLEAN /\ late \in BOOLEAN
    /\ job \in [Resources -> {"none", "create", "update", "delete"}]
    /\ stage \in [Resources -> {"guard", "purge", "call", "list", "send", "wait", "reread"}]
    /\ ops \subseteq Op
    /\ failed \subseteq Resources
    /\ managed \subseteq Keys /\ written \subseteq Keys /\ strays \subseteq Keys
    /\ faults \in 0 .. MaxFaults /\ edits \in 0 .. MaxEdits /\ writes \in 0 .. MaxWrites

\* The container has been applied; others may have put an item into it.
Init ==
    /\ kind \in Kinds
    /\ store \in {m \in Items : Cardinality(In(m)) <= 1}
    /\ pending = <<>>
    /\ config \in Possible /\ config.present
    /\ state = [container |-> config.force, items |-> None]
    /\ running = FALSE
    /\ job = [r \in Resources |-> "none"]
    /\ stage = [r \in Resources |-> "call"]
    /\ ops = {}
    /\ failed = {} /\ applied = FALSE
    /\ managed = {} /\ written = {} /\ strays = {}
    /\ late = FALSE
    /\ faults = 0 /\ edits = 0 /\ writes = 0

---------------------------------------------------------------------------
(* Refresh and plan.                                                       *)

Filter(remote, owned) == [k \in Keys |-> IF owned[k] # Null THEN remote[k] ELSE Null]

Flatten(m) == IF kind.nullWhenEmpty /\ m = NoItems THEN Null ELSE m

Expand(a) == IF a = Null THEN NoItems ELSE a

\* Mutation: a refresh adopts all there are.
AdoptsAll ==
    IF state.items = None \/ store = None THEN None ELSE Flatten(store)

\* Read of the items: without a value (import) it adopts all there are.
RefreshedItems ==
    IF state.items = None \/ store = None THEN None
    ELSE IF state.items = Null THEN Flatten(store)
    ELSE Flatten(Filter(store, state.items))

\* Read; of an automatic service, every block of the active version.
RefreshedContainer ==
    IF store = None THEN None
    ELSE IF state.container = None /\ kind.nested THEN FALSE
    ELSE state.container

\* Mutation: what differs is replaced.
ReplacesWhatDiffers(known, wanted, same) ==
    CASE known = None /\ wanted -> "create"
      [] known # None /\ ~wanted -> "delete"
      [] known # None /\ wanted /\ ~same -> "replace"
      [] OTHER -> "none"

Operation(known, wanted, same) ==
    CASE known = None /\ wanted -> "create"
      [] known # None /\ ~wanted -> "delete"
      [] known # None /\ wanted /\ ~same -> "update"
      [] OTHER -> "none"

\* Mutation: items of one key are taken for equal.
ComparesKeys(known) ==
    Operation(known, config.items # None,
              config.items # None /\ In(Expand(known)) = In(config.items))

ItemsPlanned(known) ==
    Operation(known, config.items # None, config.items # None /\ known = Flatten(config.items))

ContainerPlanned(known) == Operation(known, config.present, known = config.force)

Declared == IF config.items = None THEN {} ELSE In(config.items)

\* A block is also deleted by an update of the service for another reason.
Begin ==
    /\ ~running
    /\ running' = TRUE
    /\ state' = [container |-> RefreshedContainer, items |-> RefreshedItems]
    /\ \E c \in {ContainerPlanned(state'.container)}
               \cup (IF kind.nested /\ ~config.present THEN {"delete"} ELSE {}) :
        job' = [container |-> c, items |-> ItemsPlanned(state'.items)]
    /\ stage' = [container |-> IF job'.container = "delete" THEN "guard" ELSE "call",
                 items |-> "list"]
    /\ managed' = managed \cup Declared
    /\ late' = (pending # <<>>)
    /\ applied' = FALSE
    /\ UNCHANGED <<kind, store, pending, config, ops, failed, written, strays,
                   faults, edits, writes>>

End ==
    /\ running
    /\ \A r \in Resources : job[r] = "none"
    /\ running' = FALSE
    /\ applied' = (failed = {} /\ ~late)
    /\ failed' = {}
    /\ UNCHANGED <<kind, store, pending, config, state, job, stage, ops, managed,
                   written, strays, late, faults, edits, writes>>

---------------------------------------------------------------------------
(* The items' handlers.                                                    *)

standing == <<kind, config, running, applied, managed, late, edits, writes>>

\* The items wait for the container they refer to, and it, to be deleted, for them.
MayGo(r) ==
    /\ job[r] # "none"
    /\ IF r = "items"
       THEN job.items = "delete" \/ job.container \in {"none", "delete"}
       ELSE job.container = "delete" => job.items = "none"

\* What is not attempted when r failed: the container is not deleted with
\* items left, and there are no items without their container.
After(r) ==
    [x \in Resources |->
        IF x = r \/ job.container \in {"create", "delete"} THEN "none" ELSE job[x]]

\* A diagnostic.
Fails(r) ==
    /\ job' = After(r)
    /\ ops' = IF r = "items" THEN {} ELSE ops
    /\ failed' = failed \cup {r}
    /\ strays' = strays \cup (IF r = "items" THEN written ELSE {})
    /\ UNCHANGED stage

Finish(r) ==
    /\ job' = [job EXCEPT ![r] = "none"]
    /\ ops' = IF r = "items" THEN {} ELSE ops
    /\ UNCHANGED <<failed, strays, stage>>

Owned == IF job.items = "create" THEN NoItems ELSE Expand(state.items)
Desired == IF job.items = "delete" THEN NoItems ELSE config.items

\* buildBatchOperations: what is owned, not desired and there is deleted;
\* what is desired is created or updated.
Batch(remote, owned, desired) ==
    {[op |-> "delete", key |-> k, value |-> Null] :
        k \in {j \in In(owned) : desired[j] = Null /\ remote[j] # Null}}
    \cup {[op |-> IF remote[k] = Null THEN "create" ELSE "update", key |-> k,
           value |-> desired[k]] : k \in {j \in In(desired) : remote[j] # desired[j]}}

\* Their order: deletions first, and by key.
Before(p, o) ==
    \/ p.op = "delete" /\ o.op # "delete"
    \/ (p.op = "delete" <=> o.op = "delete") /\ p.key < o.key

\* The list that starts Create, Update and Delete.  Update finds no container:
\* it removes the resource, which the framework reports as an error.
List ==
    /\ MayGo("items") /\ stage.items = "list"
    /\ IF store # None
       THEN /\ ops' = Batch(store, Owned, Desired)
            /\ stage' = [stage EXCEPT !.items = "send"]
            /\ UNCHANGED <<state, job, failed, strays>>
       ELSE /\ state' = [state EXCEPT !.items = IF job.items = "create" THEN @ ELSE None]
            /\ IF job.items = "delete" THEN Finish("items") ELSE Fails("items")
    /\ UNCHANGED <<standing, store, pending, written, faults>>

\* What the API makes of a batch; it refuses one that does not fit its items.
Fits(batch) == \A o \in batch : o.op = "create" <=> store[o.key] = Null

ApplyBatch(m, batch) ==
    [k \in Keys |-> IF \E o \in batch : o.key = k
                    THEN (CHOOSE o \in batch : o.key = k).value ELSE m[k]]

WrittenBy(batch) ==
    (written \cup {o.key : o \in {x \in batch : x.op # "delete"}})
        \ {o.key : o \in {x \in batch : x.op = "delete"}}

\* One request; the ACL of a Compute service takes all of them in one.
Sending ==
    IF kind.waits THEN ops
    ELSE {o \in ops : Cardinality({p \in ops : Before(p, o)}) < ChunkSize}

Accept ==
    IF kind.waits
    THEN pending' = Append(pending, Sending) /\ UNCHANGED <<store, written>>
    ELSE /\ store' = ApplyBatch(store, Sending)
         /\ written' = WrittenBy(Sending)
         /\ UNCHANGED pending

Sent ==
    IF kind.waits THEN ops' = ops /\ stage' = [stage EXCEPT !.items = "wait"]
    ELSE ops' = ops \ Sending /\ UNCHANGED stage

Send ==
    /\ MayGo("items") /\ stage.items = "send" /\ ops # {}
    /\ IF store # None /\ (kind.waits \/ Fits(Sending))
       THEN /\ Accept
            /\ Sent
            /\ UNCHANGED <<state, job, failed, strays>>
       ELSE /\ IF job.items = "delete" /\ store = None /\ kind.toleratesGone
               THEN Finish("items") /\ state' = [state EXCEPT !.items = None]
               ELSE Fails("items") /\ UNCHANGED state
            /\ UNCHANGED <<store, pending, written>>
    /\ UNCHANGED <<standing, faults>>

\* Mutation: only the deletions are waited for.
AwaitsDeletions == \A o \in ops : o.op = "delete" => store[o.key] = o.value

\* entriesConverged
Converged == \A o \in ops : store[o.key] = o.value

Record(items) ==
    /\ state' = [state EXCEPT !.items = items]
    /\ job' = [job EXCEPT !.items = "none"]
    /\ ops' = {}
    /\ strays' = strays \ Declared
    /\ UNCHANGED <<failed, stage>>

\* The end of an operation: the plan becomes the state.
Done == stage.items = "send" /\ ops = {}
Awaited == stage.items = "wait" /\ store # None /\ Converged

Save ==
    /\ MayGo("items")
    /\ Done \/ Awaited
    /\ IF kind.rereads /\ job.items # "delete"
       THEN /\ stage' = [stage EXCEPT !.items = "reread"] /\ ops' = {}
            /\ UNCHANGED <<state, job, failed, strays>>
       ELSE Record(IF job.items = "delete" THEN None ELSE Flatten(config.items))
    /\ UNCHANGED <<standing, store, pending, written, faults>>

\* waitForEntries finds no ACL.
WaitFindsNone ==
    /\ MayGo("items") /\ stage.items = "wait" /\ store = None
    /\ IF job.items = "delete" THEN Record(None) ELSE Fails("items") /\ UNCHANGED state
    /\ UNCHANGED <<standing, store, pending, written, faults>>

\* entriesPollTimeout passes; the batch is still accepted, or others undid it.
TimesOut ==
    /\ MayGo("items") /\ stage.items = "wait" /\ store # None /\ ~Converged
    /\ IF pending = <<>> THEN UNCHANGED faults
       ELSE faults < MaxFaults /\ faults' = faults + 1
    /\ Fails("items")
    /\ UNCHANGED <<standing, store, pending, state, written>>

\* The list after the batch.  Terraform reports a state that is not the plan.
Reread ==
    /\ MayGo("items") /\ stage.items = "reread"
    /\ IF store = None
       THEN Fails("items") /\ UNCHANGED state
       ELSE /\ state' = [state EXCEPT !.items = Flatten(Filter(store, config.items))]
            /\ IF state'.items = Flatten(config.items) THEN Finish("items") ELSE Fails("items")
    /\ UNCHANGED <<standing, store, pending, written, faults>>

\* A call fails; a batch may have been carried out.
ItemsCallFails ==
    /\ MayGo("items") /\ stage.items # "wait" /\ ~Done
    /\ faults < MaxFaults
    /\ faults' = faults + 1
    /\ \/ UNCHANGED <<store, pending, written>>
       \/ stage.items = "send" /\ store # None /\ (kind.waits \/ Fits(Sending)) /\ Accept
    /\ job' = After("items")
    /\ ops' = {}
    /\ failed' = failed \cup {"items"}
    /\ strays' = strays \cup written'
    /\ UNCHANGED <<standing, state, stage>>

---------------------------------------------------------------------------
(* The container's handlers.                                               *)

\* Create and Update.  An automatic service takes a block that is there for
\* its own; Update only records `force_destroy`.
WriteContainer ==
    /\ MayGo("container") /\ job.container \in {"create", "update"}
    /\ IF job.container = "create" /\ store # None /\ ~kind.nested
       THEN Fails("container") /\ UNCHANGED <<store, state>>
       ELSE /\ store' = IF job.container = "create" /\ store = None THEN NoItems ELSE store
            /\ state' = [state EXCEPT !.container = config.force]
            /\ Finish("container")
    /\ UNCHANGED <<standing, pending, written, faults>>

Forced == state.container = TRUE

\* Mutation: the guard looks for items in the state.
RefusesManaged ==
    /\ kind.guard # "none" /\ state.container # None /\ ~Forced
    /\ kind.guard = "refuse" \/ store = None \/ state.items # None

\* CheckGuards, Delete: why a container is not deleted.  An automatic service
\* asks this of the blocks in its state.
Refused ==
    /\ kind.guard # "none" /\ state.container # None /\ ~Forced
    /\ kind.guard = "refuse" \/ store = None \/ store # NoItems

Guard ==
    /\ MayGo("container") /\ stage.container = "guard"
    /\ IF Refused
       THEN Fails("container")
       ELSE /\ stage' = [stage EXCEPT !.container = IF kind.guard = "purge" THEN "purge" ELSE "call"]
            /\ UNCHANGED <<job, ops, failed, strays>>
    /\ UNCHANGED <<standing, store, pending, state, written, faults>>

\* deleteAllKeys
Purge ==
    /\ MayGo("container") /\ stage.container = "purge"
    /\ IF store = None
       THEN Fails("container") /\ UNCHANGED <<store, written>>
       ELSE /\ store' = NoItems /\ written' = {}
            /\ stage' = [stage EXCEPT !.container = "call"]
            /\ strays' = {}
            /\ UNCHANGED <<job, ops, failed>>
    /\ UNCHANGED <<standing, pending, state, faults>>

Removed == store' = None /\ pending' = <<>> /\ written' = {} /\ strays' = {}

\* "the store itself cannot be deleted by the API while it still contains
\* entries"; other containers can.
DeleteContainer ==
    /\ MayGo("container") /\ job.container = "delete" /\ stage.container = "call"
    /\ IF kind.guard = "purge" /\ store \notin {None, NoItems}
       THEN Fails("container") /\ UNCHANGED <<store, pending, state, written>>
       ELSE /\ Removed
            /\ state' = [state EXCEPT !.container = None]
            /\ job' = [job EXCEPT !.container = "none"]
            /\ UNCHANGED <<ops, failed, stage>>
    /\ UNCHANGED <<standing, faults>>

\* A call fails; a deletion may have been carried out.
ContainerCallFails ==
    /\ MayGo("container") /\ job.container # "update"
    /\ faults < MaxFaults
    /\ faults' = faults + 1
    /\ \/ Fails("container") /\ UNCHANGED <<store, pending, written>>
       \/ /\ job.container = "delete" /\ stage.container = "call"
          /\ kind.guard = "purge" => store = NoItems
          /\ Removed
          /\ job' = After("container")
          /\ failed' = failed \cup {"container"}
          /\ UNCHANGED <<stage, ops>>
    /\ UNCHANGED <<standing, state>>

Provider ==
    \/ List \/ Send \/ Save \/ WaitFindsNone \/ TimesOut \/ Reread
    \/ WriteContainer \/ Guard \/ Purge \/ DeleteContainer

---------------------------------------------------------------------------
(* The API, the others and the user.                                       *)

handling == <<kind, config, state, running, job, stage, ops, failed, managed>>

\* An accepted batch is applied: the one that is waited for, or one that no
\* operation waits for any more.
ApplyPending ==
    /\ pending # <<>> /\ store # None
    /\ store' = ApplyBatch(store, Head(pending))
    /\ pending' = Tail(pending)
    /\ written' = WrittenBy(Head(pending))
    /\ IF stage.items = "wait" /\ job.items # "none" /\ Len(pending) = 1
       THEN strays' = strays \cap written' /\ UNCHANGED <<applied, late>>
       ELSE strays' = written' /\ applied' = FALSE /\ late' = TRUE
    /\ UNCHANGED <<handling, faults, edits, writes>>

\* Another writer of the container; of an automatic service, the block comes
\* and goes with versions that others activate.
Others ==
    /\ writes < MaxWrites
    /\ writes' = writes + 1
    /\ \/ /\ store # None
          /\ \E k \in Keys, v \in Values \cup {Null} :
                /\ store[k] # v
                /\ store' = [store EXCEPT ![k] = v]
                /\ written' = written \ {k} /\ strays' = strays \ {k}
          /\ UNCHANGED pending
       \/ store # None /\ Removed
       \/ /\ store = None /\ kind.nested
          /\ store' \in Items
          /\ UNCHANGED <<pending, written, strays>>
    /\ late' = TRUE
    /\ applied' = FALSE
    /\ UNCHANGED <<handling, faults, edits>>

\* Items whose container is dropped go with it; it does not come back.
Edit ==
    /\ ~running /\ edits < MaxEdits
    /\ edits' = edits + 1
    /\ config' \in Possible
    /\ config'.present => config.present
    /\ applied' = FALSE
    /\ UNCHANGED <<kind, store, pending, state, running, job, stage, ops, failed,
                   managed, written, strays, late, faults, writes>>

\* terraform import: no items are known, and Read adopts those there are.
Import ==
    /\ ~running /\ kind.items /\ config.items # None
    /\ state.items = None /\ store # None
    /\ state' = [state EXCEPT !.items = Flatten(store)]
    /\ managed' = managed \cup In(store)
    /\ applied' = FALSE
    /\ UNCHANGED <<kind, store, pending, config, running, job, stage, ops, failed,
                   written, strays, late, faults, edits, writes>>

Next ==
    \/ Begin \/ End \/ Provider
    \/ ItemsCallFails \/ ContainerCallFails
    \/ ApplyPending \/ Others \/ Edit \/ Import

Spec == Init /\ [][Next]_vars

\* Applies are repeated and go on, and the API applies what it accepted.
FairSpec == Spec /\ WF_vars(Begin \/ End \/ Provider) /\ WF_vars(ApplyPending)

---------------------------------------------------------------------------
(* Properties.                                                             *)

TheirsGone == {k \in Keys : store # None /\ store[k] # Null
                              /\ (store' = None \/ store'[k] = Null)}

\* Nothing that others wrote goes by a write of the items' resource, unless
\* the configuration has declared its key or it has been imported.
KeepsTheirs ==
    [][/\ writes' = writes /\ job.items # "none"
       => TheirsGone \subseteq managed]_vars

\* "remote keys that have never been managed by this resource are left
\* untouched" (the items' buildBatchOperations), whatever failed before.
LeavesOthersItems ==
    [][/\ ~kind.nullWhenEmpty
       /\ writes' = writes /\ job.items # "none"
       => TheirsGone \subseteq managed]_vars

\* After an apply without errors, until something else writes, the declared
\* items are there, and those the resource once wrote and that are no longer
\* declared are not; but for what a failed operation left behind, which no
\* state knows of.
AppliedIsThere ==
    applied =>
        /\ config.items # None => \A k \in Declared : store[k] = config.items[k]
        /\ kind.items => written \ strays \subseteq Declared

\* A container that asks is deleted with items in it only by a configuration
\* that was applied with `force_destroy`, or if others wrote to it, or made
\* it, after the plan.
DestroyedEmptyOrForced ==
    [][/\ writes' = writes /\ job.container = "delete" /\ job.items = "none" /\ kind.guard # "none"
       /\ TheirsGone # {}
       => Forced \/ late]_vars

\* Applies that are repeated end with the declared items in the container, or
\* with the container gone, unless it refuses to go.
Converges ==
    <>[](IF config.present
         THEN store # None /\ \A k \in Declared : store[k] = config.items[k]
         ELSE store = None \/ Refused \/ kind.nested)
=============================================================================
