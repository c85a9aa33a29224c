------------------------- MODULE OwnedItems_proofs -------------------------
(***************************************************************************)
(* Proofs about OwnedItems, for any kinds of containers in which the API   *)
(* applies at once what a guarded container is sent, any keys, values,     *)
(* batch size and bounds.                                                  *)
(***************************************************************************)
EXTENDS OwnedItemsInv, SequenceTheorems, TLAPS

---------------------------------------------------------------------------
(* Items and batches.                                                      *)

LEMMA Markers ==
    /\ None \notin Items /\ Null \notin Items /\ None # Null
    /\ None \notin BOOLEAN /\ Null \notin Values
BY ItemsAssumption

LEMMA Bounds == MaxFaults \in Nat /\ MaxEdits \in Nat /\ MaxWrites \in Nat
BY ItemsAssumption

LEMMA ItemsTyped ==
    /\ NoItems \in Items /\ In(NoItems) = {}
    /\ \A m, o \in Items :
        /\ Filter(m, o) \in Items
        /\ \A k \in Keys : Filter(m, o)[k] = IF o[k] # Null THEN m[k] ELSE Null
        /\ Flatten(m) \in Items \cup {Null}
        /\ Flatten(m) = Flatten(o) => m = o
    /\ \A a \in Items \cup {Null} : Expand(a) \in Items
<1>1. NoItems \in Items /\ In(NoItems) = {}
  BY DEF NoItems, Items, In
<1>2. \A m, o \in Items : /\ Filter(m, o) \in Items
                          /\ \A k \in Keys : Filter(m, o)[k] = IF o[k] # Null THEN m[k] ELSE Null
  BY DEF Filter, Items
<1>3. \A m, o \in Items : /\ Flatten(m) \in Items \cup {Null}
                          /\ Flatten(m) = Flatten(o) => m = o
  BY Markers DEF Flatten
<1>4. \A a \in Items \cup {Null} : Expand(a) \in Items
  BY <1>1 DEF Expand
<1>. QED  BY <1>1, <1>2, <1>3, <1>4

\* What a batch is made of.
LEMMA BatchIsDesired ==
    ASSUME NEW remote \in Items, NEW owned \in Items, NEW desired \in Items
    PROVE  /\ Batch(remote, owned, desired) \subseteq Op
           /\ \A o \in Batch(remote, owned, desired) :
                /\ o.value = desired[o.key]
                /\ o.op = "delete" => o.key \in In(owned)
           /\ \A k \in Keys : desired[k] # Null /\ remote[k] # desired[k] =>
                \E o \in Batch(remote, owned, desired) : o.key = k
           /\ \A k \in In(owned) : desired[k] = Null /\ remote[k] # Null =>
                \E o \in Batch(remote, owned, desired) : o.key = k /\ o.op = "delete"
<1>. DEFINE gone == {j \in In(owned) : desired[j] = Null /\ remote[j] # Null}
            wanted == {j \in In(desired) : remote[j] # desired[j]}
            del(k) == [op |-> "delete", key |-> k, value |-> Null]
            put(k) == [op |-> IF remote[k] = Null THEN "create" ELSE "update", key |-> k,
                       value |-> desired[k]]
            B == Batch(remote, owned, desired)
<1>1. B = {del(k) : k \in gone} \cup {put(k) : k \in wanted}
  BY DEF Batch
<1>2. \A k \in gone : k \in Keys /\ desired[k] = Null /\ k \in In(owned)
  BY DEF In
<1>3. \A k \in wanted : k \in Keys /\ desired[k] \in Values /\ desired[k] # Null
  BY Markers DEF In, Items
<1>4. \A k : /\ del(k).op = "delete" /\ del(k).key = k /\ del(k).value = Null
             /\ put(k).op \in {"create", "update"} /\ put(k).key = k /\ put(k).value = desired[k]
  OBVIOUS
<1>5. (\A k \in gone : del(k) \in Op) /\ \A k \in wanted : put(k) \in Op
  <2>1. \A k \in gone : del(k) \in Op
    BY <1>2 DEF Op
  <2>2. \A k \in wanted : put(k) \in Op
    BY <1>3 DEF Op
  <2>. QED  BY <2>1, <2>2
<1>6. \A o \in B : \/ \E k \in gone : o = del(k)
                   \/ \E k \in wanted : o = put(k)
  BY <1>1
<1>7. (\A k \in gone : del(k) \in B) /\ \A k \in wanted : put(k) \in B
  BY <1>1
<1>. HIDE DEF del, put, B
<1>8. B \subseteq Op
  BY <1>5, <1>6
<1>9. \A o \in B : /\ o.value = desired[o.key]
                   /\ o.op = "delete" => o.key \in In(owned)
  BY <1>2, <1>3, <1>4, <1>6
<1>10. \A k \in Keys : desired[k] # Null /\ remote[k] # desired[k] => \E o \in B : o.key = k
  BY <1>4, <1>7 DEF In
<1>11. \A k \in In(owned) : desired[k] = Null /\ remote[k] # Null =>
            \E o \in B : o.key = k /\ o.op = "delete"
  BY <1>4, <1>7
<1>. QED  BY <1>8, <1>9, <1>10, <1>11 DEF B

\* What the API makes of one.
LEMMA BatchApplied ==
    ASSUME NEW m \in Items, NEW batch \in SUBSET Op
    PROVE  /\ ApplyBatch(m, batch) \in Items
           /\ \A k \in Keys :
                IF \E o \in batch : o.key = k
                THEN \E o \in batch : o.key = k /\ ApplyBatch(m, batch)[k] = o.value
                ELSE ApplyBatch(m, batch)[k] = m[k]
<1>1. ASSUME NEW k \in Keys, \E o \in batch : o.key = k
      PROVE  /\ (CHOOSE o \in batch : o.key = k) \in batch
             /\ (CHOOSE o \in batch : o.key = k).key = k
             /\ (CHOOSE o \in batch : o.key = k).value \in Values \cup {Null}
  <2>. DEFINE c == CHOOSE o \in batch : o.key = k
  <2>1. c \in batch /\ c.key = k
    BY <1>1
  <2>. HIDE DEF c
  <2>2. c.value \in Values \cup {Null}
    BY <2>1 DEF Op
  <2>. QED  BY <2>1, <2>2 DEF c
<1>2. \A k \in Keys : ApplyBatch(m, batch)[k]
        = IF \E o \in batch : o.key = k THEN (CHOOSE o \in batch : o.key = k).value ELSE m[k]
  BY DEF ApplyBatch
<1>3. ApplyBatch(m, batch) \in Items
  BY <1>1 DEF ApplyBatch, Items
<1>. QED  BY <1>1, <1>2, <1>3

LEMMA BatchWritten ==
    ASSUME NEW batch \in SUBSET Op
    PROVE  /\ WrittenBy(batch) \subseteq written \cup {o.key : o \in {x \in batch : x.op # "delete"}}
           /\ {o.key : o \in {x \in batch : x.op # "delete"}} \subseteq Keys
           /\ \A o \in batch : o.op = "delete" => o.key \notin WrittenBy(batch)
BY DEF WrittenBy, Op

---------------------------------------------------------------------------
(* The type invariant.                                                     *)

LEMMA Fields ==
    ASSUME TypeOK
    PROVE  /\ kind \in KindType /\ (kind.guard # "none" => ~kind.waits)
           /\ config.present \in BOOLEAN /\ config.force \in BOOLEAN
           /\ config.items \in Items \cup {None} /\ (config.items # None => config.present)
           /\ state.container \in BOOLEAN \cup {None} /\ state.items \in Items \cup {None, Null}
           /\ job.items = job["items"] /\ job.container = job["container"]
           /\ stage.items = stage["items"] /\ stage.container = stage["container"]
           /\ "items" \in Resources /\ "container" \in Resources
           /\ Declared \subseteq Keys
BY ItemsAssumption DEF TypeOK, Possible, Config, Resources, Declared, In

Jobs == {"none", "create", "update", "delete"}
Stages == {"guard", "purge", "call", "list", "send", "wait", "reread"}

\* What is left of the operations when one has failed.
LEMMA AfterTyped ==
    ASSUME TypeOK, NEW r \in Resources
    PROVE  /\ After(r) \in [Resources -> Jobs]
           /\ After(r)[r] = "none"
           /\ \A x \in Resources : After(r)[x] \in {"none", job[x]}
           /\ job.container \in {"create", "delete"} => \A x \in Resources : After(r)[x] = "none"
BY DEF After, TypeOK, Jobs

LEMMA FailsTyped ==
    ASSUME TypeOK, NEW r \in Resources, Fails(r), written' \subseteq Keys
    PROVE  /\ job' \in [Resources -> Jobs] /\ stage' \in [Resources -> Stages]
           /\ ops' \subseteq Op /\ failed' \subseteq Resources /\ strays' \subseteq Keys
<1>1. job' = After(r)
  BY DEF Fails
<1>. QED  BY <1>1, AfterTyped DEF Fails, TypeOK, Stages

LEMMA FinishTyped ==
    ASSUME TypeOK, NEW r \in Resources, Finish(r)
    PROVE  /\ job' \in [Resources -> Jobs] /\ stage' \in [Resources -> Stages]
           /\ ops' \subseteq Op /\ failed' \subseteq Resources /\ strays' \subseteq Keys
BY DEF Finish, TypeOK, Jobs, Stages

\* The parts of TypeOK that operations are about.
ItemsTypeOK ==
    /\ store \in Items \cup {None} /\ pending \in Seq(SUBSET Op)
    /\ state \in [container : BOOLEAN \cup {None}, items : Items \cup {None, Null}]
    /\ job \in [Resources -> Jobs] /\ stage \in [Resources -> Stages]
    /\ ops \subseteq Op /\ failed \subseteq Resources
    /\ written \subseteq Keys /\ strays \subseteq Keys

LEMMA StandingTyped ==
    ASSUME TypeOK, ItemsTypeOK', UNCHANGED standing, faults' \in 0 .. MaxFaults
    PROVE  TypeOK'
BY DEF standing, TypeOK, ItemsTypeOK, Possible, Jobs, Stages

LEMMA SendingTyped ==
    ASSUME TypeOK
    PROVE  Sending \subseteq ops /\ Sending \subseteq Op /\ (kind.waits => Sending = ops)
BY DEF TypeOK, Sending

LEMMA AcceptTyped ==
    ASSUME TypeOK, store # None, Accept
    PROVE  store' \in Items /\ pending' \in Seq(SUBSET Op) /\ written' \subseteq Keys
<1>1. CASE kind.waits
  BY <1>1, SendingTyped, AppendProperties DEF Accept, TypeOK
<1>2. CASE ~kind.waits
  BY <1>2, SendingTyped, BatchApplied, BatchWritten DEF Accept, TypeOK
<1>. QED  BY <1>1, <1>2

LEMMA InitTyped == Init => TypeOK
<1>. SUFFICES ASSUME Init PROVE TypeOK
  OBVIOUS
<1>1. /\ kind \in Kinds /\ store \in Items /\ config \in Possible
      /\ pending = <<>> /\ ops = {} /\ failed = {} /\ managed = {} /\ written = {} /\ strays = {}
      /\ running = FALSE /\ applied = FALSE /\ late = FALSE
      /\ faults = 0 /\ edits = 0 /\ writes = 0
  BY DEF Init
<1>2. job \in [Resources -> Jobs] /\ stage \in [Resources -> Stages]
  BY DEF Init, Jobs, Stages
<1>3. state \in [container : BOOLEAN \cup {None}, items : Items \cup {None, Null}]
  BY DEF Init, Possible, Config
<1>4. faults \in 0 .. MaxFaults /\ edits \in 0 .. MaxEdits /\ writes \in 0 .. MaxWrites
  BY <1>1, Bounds
<1>5. pending \in Seq(SUBSET Op)
  BY <1>1
<1>. QED  BY <1>1, <1>2, <1>3, <1>4, <1>5 DEF TypeOK, Jobs, Stages

LEMMA RefreshTyped ==
    ASSUME TypeOK
    PROVE  /\ RefreshedContainer \in BOOLEAN \cup {None}
           /\ RefreshedItems \in Items \cup {None, Null}
BY ItemsTyped DEF TypeOK, RefreshedContainer, RefreshedItems

LEMMA OperationTyped ==
    ASSUME NEW known, NEW wanted \in BOOLEAN, NEW same
    PROVE  /\ Operation(known, wanted, same) \in Jobs
           /\ Operation(known, wanted, same) = "delete" => known # None /\ ~wanted
           /\ Operation(known, wanted, same) = "create" => known = None /\ wanted
           /\ Operation(known, wanted, same) = "update" => known # None /\ wanted
           /\ Operation(known, wanted, same) = "none" =>
                IF wanted THEN known # None /\ same ELSE known = None
BY DEF Operation, Jobs

LEMMA BeginStep ==
    ASSUME TypeOK, Begin
    PROVE  /\ ~running /\ running' = TRUE /\ applied' = FALSE
           /\ state'.container = RefreshedContainer /\ state'.items = RefreshedItems
           /\ state' \in [container : BOOLEAN \cup {None}, items : Items \cup {None, Null}]
           /\ job'["container"] = ContainerPlanned(RefreshedContainer)
                \/ (job'["container"] = "delete" /\ kind.nested /\ ~config.present)
           /\ job'["items"] = ItemsPlanned(RefreshedItems)
           /\ job' \in [Resources -> Jobs] /\ stage' \in [Resources -> Stages]
           /\ stage'["items"] = "list"
           /\ stage'["container"] = IF job'["container"] = "delete" THEN "guard" ELSE "call"
           /\ managed' = managed \cup Declared
           /\ late' = (pending # <<>>)
           /\ UNCHANGED <<kind, store, pending, config, ops, failed, written, strays,
                          faults, edits, writes>>
<1>1. /\ state' = [container |-> RefreshedContainer, items |-> RefreshedItems]
      /\ ~running /\ running' = TRUE /\ applied' = FALSE
      /\ managed' = managed \cup Declared /\ late' = (pending # <<>>)
      /\ UNCHANGED <<kind, store, pending, config, ops, failed, written, strays,
                     faults, edits, writes>>
  BY DEF Begin
<1>2. PICK c \in {ContainerPlanned(RefreshedContainer)}
               \cup (IF kind.nested /\ ~config.present THEN {"delete"} ELSE {}) :
        job' = [container |-> c, items |-> ItemsPlanned(RefreshedItems)]
  BY <1>1 DEF Begin
<1>3. c \in Jobs /\ ItemsPlanned(RefreshedItems) \in Jobs
  <2>1. ContainerPlanned(RefreshedContainer) \in Jobs
    BY OperationTyped, Fields DEF ContainerPlanned
  <2>2. ItemsPlanned(RefreshedItems) \in Jobs
    BY OperationTyped DEF ItemsPlanned
  <2>. QED  BY <1>2, <2>1, <2>2 DEF Jobs
<1>4. /\ job'["container"] = c /\ job'["items"] = ItemsPlanned(RefreshedItems)
      /\ job' \in [Resources -> Jobs]
  BY <1>2, <1>3 DEF Resources
<1>5. /\ stage'["items"] = "list"
      /\ stage'["container"] = IF job'["container"] = "delete" THEN "guard" ELSE "call"
      /\ stage' \in [Resources -> Stages]
  <2>1. stage' = [container |-> IF job'["container"] = "delete" THEN "guard" ELSE "call",
                  items |-> "list"]
    BY DEF Begin
  <2>. QED  BY <2>1 DEF Resources, Stages
<1>6. c = ContainerPlanned(RefreshedContainer) \/ (c = "delete" /\ kind.nested /\ ~config.present)
  BY <1>2
<1>. QED  BY <1>1, <1>4, <1>5, <1>6, RefreshTyped

LEMMA RecordTyped ==
    ASSUME TypeOK, NEW x \in Items \cup {None, Null}, Record(x), UNCHANGED <<store, pending, written>>
    PROVE  ItemsTypeOK'
BY DEF Record, TypeOK, ItemsTypeOK, Jobs, Stages

LEMMA ListTyped ==
    ASSUME TypeOK, ItemsAreAskedFor, List
    PROVE  TypeOK'
<1>1. UNCHANGED standing /\ UNCHANGED <<store, pending, written, faults>>
  BY DEF List
<1>2. CASE store # None
  <2>1. /\ ops' = Batch(store, Owned, Desired) /\ stage' = [stage EXCEPT !.items = "send"]
        /\ UNCHANGED <<state, job, failed, strays>>
    BY <1>2 DEF List
  <2>2. Owned \in Items /\ Desired \in Items
    BY ItemsTyped, Fields DEF Owned, Desired, ItemsAreAskedFor, List, MayGo, TypeOK
  <2>3. ops' \subseteq Op
    BY <1>2, <2>1, <2>2, BatchIsDesired DEF TypeOK
  <2>4. ItemsTypeOK'
    BY <1>1, <2>1, <2>3 DEF TypeOK, ItemsTypeOK, Jobs, Stages
  <2>. QED  BY <1>1, <2>4, StandingTyped DEF TypeOK
<1>3. CASE store = None
  <2>1. /\ Finish("items") \/ Fails("items")
        /\ state' = [state EXCEPT !.items = IF job.items = "create" THEN @ ELSE None]
    BY <1>3 DEF List
  <2>2. ItemsTypeOK'
    BY <1>1, <2>1, FailsTyped, FinishTyped, Fields DEF TypeOK, ItemsTypeOK
  <2>. QED  BY <1>1, <2>2, StandingTyped DEF TypeOK
<1>. QED  BY <1>2, <1>3

LEMMA SendTyped ==
    ASSUME TypeOK, Send
    PROVE  TypeOK'
<1>1. UNCHANGED standing /\ UNCHANGED faults
  BY DEF Send
<1>2. CASE store # None /\ Accept /\ Sent /\ UNCHANGED <<state, job, failed, strays>>
  <2>1. store' \in Items /\ pending' \in Seq(SUBSET Op) /\ written' \subseteq Keys
    BY <1>2, AcceptTyped
  <2>2. ops' \subseteq Op /\ stage' \in [Resources -> Stages]
    BY <1>2 DEF Sent, TypeOK, Stages
  <2>3. ItemsTypeOK'
    BY <1>2, <2>1, <2>2 DEF TypeOK, ItemsTypeOK, Jobs
  <2>. QED  BY <1>1, <2>3, StandingTyped DEF TypeOK
<1>3. CASE /\ Finish("items") \/ Fails("items")
           /\ state' = [state EXCEPT !.items = None] \/ state' = state
           /\ UNCHANGED <<store, pending, written>>
  <2>1. ItemsTypeOK'
    BY <1>3, FailsTyped, FinishTyped, Fields DEF TypeOK, ItemsTypeOK
  <2>. QED  BY <1>1, <2>1, StandingTyped DEF TypeOK
<1>. QED  BY <1>2, <1>3 DEF Send

LEMMA EndsTyped ==
    ASSUME TypeOK, ItemsAreAskedFor, Save \/ WaitFindsNone \/ TimesOut \/ Reread
    PROVE  TypeOK'
<1>1. UNCHANGED standing /\ UNCHANGED <<pending, written, store>>
  BY DEF Save, WaitFindsNone, TimesOut, Reread
<1>2. faults' \in 0 .. MaxFaults
  BY Bounds DEF Save, WaitFindsNone, TimesOut, Reread, TypeOK
<1>3. ASSUME Finish("items") \/ Fails("items"), NEW x \in Items \cup {None, Null},
             state' = [state EXCEPT !.items = x] \/ state' = state
      PROVE  TypeOK'
  <2>1. ItemsTypeOK'
    BY <1>1, <1>3, FailsTyped, FinishTyped, Fields DEF TypeOK, ItemsTypeOK
  <2>. QED  BY <1>1, <1>2, <2>1, StandingTyped
<1>4. ASSUME NEW x \in Items \cup {None, Null}, Record(x)
      PROVE  TypeOK'
  BY <1>1, <1>2, <1>4, RecordTyped, StandingTyped
<1>5. ASSUME MayGo("items"), job.items # "delete"
      PROVE  config.items \in Items /\ Flatten(config.items) \in Items \cup {Null}
             /\ (store \in Items => Flatten(Filter(store, config.items)) \in Items \cup {Null})
  BY <1>5, Fields, ItemsTyped DEF ItemsAreAskedFor, MayGo, TypeOK
<1>6. CASE Save
  <2>1. CASE /\ stage' = [stage EXCEPT !.items = "reread"] /\ ops' = {}
             /\ UNCHANGED <<state, job, failed, strays>>
    <3>1. ItemsTypeOK'
      BY <1>1, <2>1 DEF TypeOK, ItemsTypeOK, Jobs, Stages
    <3>. QED  BY <1>1, <1>2, <3>1, StandingTyped
  <2>2. CASE Record(IF job.items = "delete" THEN None ELSE Flatten(config.items))
    BY <1>4, <1>5, <1>6, <2>2 DEF Save
  <2>. QED  BY <1>6, <2>1, <2>2 DEF Save
<1>7. CASE WaitFindsNone
  BY <1>3, <1>4, <1>7 DEF WaitFindsNone
<1>8. CASE TimesOut
  BY <1>3, <1>8 DEF TimesOut
<1>9. CASE Reread
  <2>1. CASE store = None
    BY <1>3, <1>9, <2>1 DEF Reread
  <2>2. CASE store # None
    <3>1. MayGo("items") /\ job.items # "delete"
      BY <1>9 DEF Reread, ItemsAreAskedFor
    <3>2. Flatten(Filter(store, config.items)) \in Items \cup {Null}
      BY <1>5, <2>2, <3>1 DEF TypeOK
    <3>. QED  BY <1>3, <1>9, <2>2, <3>2 DEF Reread
  <2>. QED  BY <2>1, <2>2
<1>. QED  BY <1>6, <1>7, <1>8, <1>9

LEMMA ItemsCallFailsTyped ==
    ASSUME TypeOK, ItemsCallFails
    PROVE  TypeOK'
<1>1. /\ UNCHANGED standing /\ UNCHANGED <<state, stage>>
      /\ job' = After("items") /\ ops' = {} /\ failed' = failed \cup {"items"}
      /\ strays' = strays \cup written' /\ faults' = faults + 1 /\ faults < MaxFaults
  BY DEF ItemsCallFails
<1>2. UNCHANGED <<store, pending, written>> \/ (store # None /\ Accept)
  BY DEF ItemsCallFails
<1>3. store' \in Items \cup {None} /\ pending' \in Seq(SUBSET Op) /\ written' \subseteq Keys
  BY <1>2, AcceptTyped DEF TypeOK
<1>4. faults' \in 0 .. MaxFaults
  BY <1>1, Bounds DEF TypeOK
<1>5. job' \in [Resources -> Jobs]
  BY <1>1, AfterTyped, Fields
<1>6. ItemsTypeOK'
  BY <1>1, <1>3, <1>5, Fields DEF TypeOK, ItemsTypeOK, Stages
<1>. QED  BY <1>1, <1>4, <1>6, StandingTyped

LEMMA RemovedTyped == Removed => /\ store' = None /\ pending' \in Seq(SUBSET Op)
                                 /\ written' \subseteq Keys /\ strays' \subseteq Keys
BY DEF Removed

LEMMA ContainerTyped ==
    ASSUME TypeOK, WriteContainer \/ Guard \/ Purge \/ DeleteContainer \/ ContainerCallFails
    PROVE  TypeOK'
<1>1. UNCHANGED standing
  BY DEF WriteContainer, Guard, Purge, DeleteContainer, ContainerCallFails
<1>2. faults' \in 0 .. MaxFaults
  BY Bounds DEF WriteContainer, Guard, Purge, DeleteContainer, ContainerCallFails, TypeOK
<1>3. CASE WriteContainer
  <2>1. Fails("container") \/ Finish("container")
    BY <1>3 DEF WriteContainer
  <2>2. store' \in Items \cup {None} /\ UNCHANGED <<pending, written>>
        /\ (UNCHANGED state \/ state' = [state EXCEPT !.container = config.force])
    BY <1>3, ItemsTyped DEF WriteContainer, TypeOK
  <2>3. ItemsTypeOK'
    BY <2>1, <2>2, FailsTyped, FinishTyped, Fields DEF TypeOK, ItemsTypeOK
  <2>. QED  BY <1>1, <1>2, <2>3, StandingTyped
<1>4. CASE Guard
  <2>1. UNCHANGED <<store, pending, state, written>>
    BY <1>4 DEF Guard
  <2>2. CASE Fails("container")
    <3>1. ItemsTypeOK'
      BY <2>1, <2>2, FailsTyped, Fields DEF TypeOK, ItemsTypeOK
    <3>. QED  BY <1>1, <1>2, <3>1, StandingTyped
  <2>3. CASE /\ stage' = [stage EXCEPT !.container = IF kind.guard = "purge" THEN "purge" ELSE "call"]
             /\ UNCHANGED <<job, ops, failed, strays>>
    <3>1. ItemsTypeOK'
      BY <2>1, <2>3 DEF TypeOK, ItemsTypeOK, Jobs, Stages
    <3>. QED  BY <1>1, <1>2, <3>1, StandingTyped
  <2>. QED  BY <1>4, <2>2, <2>3 DEF Guard
<1>5. CASE Purge
  <2>1. UNCHANGED <<pending, state>>
    BY <1>5 DEF Purge
  <2>2. CASE Fails("container") /\ UNCHANGED <<store, written>>
    <3>1. ItemsTypeOK'
      BY <2>1, <2>2, FailsTyped, Fields DEF TypeOK, ItemsTypeOK
    <3>. QED  BY <1>1, <1>2, <3>1, StandingTyped
  <2>3. CASE /\ store' = NoItems /\ written' = {} /\ strays' = {}
             /\ stage' = [stage EXCEPT !.container = "call"]
             /\ UNCHANGED <<job, ops, failed>>
    <3>1. ItemsTypeOK'
      BY <2>1, <2>3, ItemsTyped DEF TypeOK, ItemsTypeOK, Jobs, Stages
    <3>. QED  BY <1>1, <1>2, <3>1, StandingTyped
  <2>. QED  BY <1>5, <2>2, <2>3 DEF Purge
<1>6. CASE DeleteContainer
  <2>1. CASE Fails("container") /\ UNCHANGED <<store, pending, state, written>>
    <3>1. ItemsTypeOK'
      BY <2>1, FailsTyped, Fields DEF TypeOK, ItemsTypeOK
    <3>. QED  BY <1>1, <1>2, <3>1, StandingTyped
  <2>2. CASE /\ Removed /\ state' = [state EXCEPT !.container = None]
             /\ job' = [job EXCEPT !.container = "none"]
             /\ UNCHANGED <<ops, failed, stage>>
    <3>1. ItemsTypeOK'
      BY <2>2, RemovedTyped DEF TypeOK, ItemsTypeOK, Jobs, Stages
    <3>. QED  BY <1>1, <1>2, <3>1, StandingTyped
  <2>. QED  BY <1>6, <2>1, <2>2 DEF DeleteContainer
<1>7. CASE ContainerCallFails
  <2>1. CASE Fails("container") /\ UNCHANGED <<store, pending, written>>
    <3>1. ItemsTypeOK'
      BY <1>7, <2>1, FailsTyped, Fields DEF TypeOK, ItemsTypeOK, ContainerCallFails
    <3>. QED  BY <1>1, <1>2, <3>1, StandingTyped
  <2>2. CASE /\ Removed /\ job' = After("container") /\ failed' = failed \cup {"container"}
             /\ UNCHANGED <<stage, ops>>
    <3>1. job' \in [Resources -> Jobs]
      BY <2>2, AfterTyped, Fields
    <3>2. ItemsTypeOK'
      BY <1>7, <2>2, <3>1, RemovedTyped, Fields DEF TypeOK, ItemsTypeOK, Stages, ContainerCallFails
    <3>. QED  BY <1>1, <1>2, <3>2, StandingTyped
  <2>. QED  BY <1>7, <2>1, <2>2 DEF ContainerCallFails
<1>. QED  BY <1>3, <1>4, <1>5, <1>6, <1>7

LEMMA OutsideTyped ==
    ASSUME TypeOK, ApplyPending \/ Others \/ Edit \/ Import
    PROVE  TypeOK'
<1>1. CASE ApplyPending
  <2>1. Head(pending) \in SUBSET Op /\ Tail(pending) \in Seq(SUBSET Op)
    BY <1>1, HeadTailProperties DEF ApplyPending, TypeOK
  <2>2. store' \in Items /\ written' \subseteq Keys /\ pending' \in Seq(SUBSET Op)
    BY <1>1, <2>1, BatchApplied, BatchWritten DEF ApplyPending, TypeOK
  <2>3. strays' \subseteq Keys /\ applied' \in BOOLEAN /\ late' \in BOOLEAN
    BY <1>1, <2>2 DEF ApplyPending, TypeOK
  <2>4. UNCHANGED handling /\ UNCHANGED <<faults, edits, writes>>
    BY <1>1 DEF ApplyPending
  <2>. QED  BY <2>2, <2>3, <2>4 DEF TypeOK, handling, Possible
<1>2. CASE Others
  <2>1. UNCHANGED handling /\ UNCHANGED <<faults, edits>> /\ late' = TRUE /\ applied' = FALSE
    BY <1>2 DEF Others
  <2>2. writes' \in 0 .. MaxWrites
    BY <1>2, Bounds DEF Others, TypeOK
  <2>3. store' \in Items \cup {None} /\ pending' \in Seq(SUBSET Op)
        /\ written' \subseteq Keys /\ strays' \subseteq Keys
    <3>1. CASE Removed
      BY <3>1, RemovedTyped
    <3>2. ASSUME NEW k \in Keys, NEW v \in Values \cup {Null}, store # None,
                 store' = [store EXCEPT ![k] = v],
                 written' = written \ {k}, strays' = strays \ {k}, UNCHANGED pending
          PROVE  store' \in Items /\ pending' \in Seq(SUBSET Op)
                 /\ written' \subseteq Keys /\ strays' \subseteq Keys
      BY <3>2 DEF TypeOK, Items
    <3>3. CASE store' \in Items /\ UNCHANGED <<pending, written, strays>>
      BY <3>3 DEF TypeOK
    <3>. QED  BY <1>2, <3>1, <3>2, <3>3 DEF Others
  <2>. QED  BY <2>1, <2>2, <2>3 DEF TypeOK, handling, Possible
<1>3. CASE Edit
  <2>1. edits' \in 0 .. MaxEdits
    BY <1>3, Bounds DEF Edit, TypeOK
  <2>2. config' \in Possible' /\ applied' = FALSE
        /\ UNCHANGED <<kind, store, pending, state, running, job, stage, ops, failed,
                       managed, written, strays, late, faults, writes>>
    BY <1>3 DEF Edit, Possible
  <2>. QED  BY <2>1, <2>2 DEF TypeOK
<1>4. CASE Import
  <2>1. store \in Items /\ Flatten(store) \in Items \cup {Null} /\ In(store) \subseteq Keys
    BY <1>4, ItemsTyped DEF Import, TypeOK, In
  <2>2. state' = [state EXCEPT !.items = Flatten(store)] /\ managed' = managed \cup In(store)
        /\ applied' = FALSE
        /\ UNCHANGED <<kind, store, pending, config, running, job, stage, ops, failed,
                       written, strays, late, faults, edits, writes>>
    BY <1>4 DEF Import
  <2>. QED  BY <2>1, <2>2 DEF TypeOK, Possible
<1>. QED  BY <1>1, <1>2, <1>3, <1>4

LEMMA PlanTyped ==
    ASSUME TypeOK, Begin \/ End
    PROVE  TypeOK'
<1>1. CASE Begin
  BY <1>1, BeginStep, Fields DEF TypeOK, Possible, Jobs, Stages
<1>2. CASE End
  BY <1>2 DEF End, TypeOK, Possible
<1>. QED  BY <1>1, <1>2

LEMMA NextTyped ==
    ASSUME TypeOK, ItemsAreAskedFor, [Next]_vars
    PROVE  TypeOK'
<1>1. CASE UNCHANGED vars
  BY <1>1 DEF TypeOK, vars, Possible
<1>2. CASE Next
  BY <1>2, ListTyped, SendTyped, EndsTyped, ItemsCallFailsTyped, ContainerTyped, OutsideTyped,
     PlanTyped DEF Next, Provider
<1>. QED  BY <1>1, <1>2

---------------------------------------------------------------------------
(* What a step does to the operations.                                     *)

ItemsWork == List \/ Send \/ Save \/ WaitFindsNone \/ TimesOut \/ Reread \/ ItemsCallFails
ContainerWork == WriteContainer \/ Guard \/ Purge \/ DeleteContainer \/ ContainerCallFails
Outside == ApplyPending \/ Others
User == Edit \/ Import

\* A failure, and the end of an operation.
LEMMA FailsStep ==
    ASSUME TypeOK, NEW r \in Resources, Fails(r)
    PROVE  /\ job'[r] = "none" /\ \A x \in Resources : job'[x] \in {"none", job[x]}
           /\ job.container \in {"create", "delete"} => \A x \in Resources : job'[x] = "none"
           /\ failed' = failed \cup {r} /\ failed' # {} /\ stage' = stage
           /\ ops' \in {ops, {}} /\ (r = "container" => ops' = ops)
           /\ strays' = strays \cup (IF r = "items" THEN written ELSE {})
BY AfterTyped DEF Fails

LEMMA FinishStep ==
    ASSUME TypeOK, NEW r \in Resources, Finish(r)
    PROVE  /\ job'[r] = "none" /\ \A x \in Resources \ {r} : job'[x] = job[x]
           /\ failed' = failed /\ stage' = stage /\ strays' = strays
           /\ ops' \in {ops, {}} /\ (r = "container" => ops' = ops)
BY DEF Finish, TypeOK

LEMMA RecordStep ==
    ASSUME TypeOK, NEW x, Record(x)
    PROVE  /\ job'["items"] = "none" /\ job'["container"] = job["container"]
           /\ state'.items = x /\ state'.container = state.container
           /\ failed' = failed /\ stage' = stage /\ strays' = strays \ Declared /\ ops' = {}
BY DEF Record, TypeOK, Resources

\* The step of the items' operation.
LEMMA ItemsGoOn ==
    ASSUME TypeOK, AtRest, ItemsWork
    PROVE  /\ running /\ job["items"] # "none" /\ MayGo("items") /\ UNCHANGED standing
           /\ state'.container = state.container /\ stage'["container"] = stage["container"]
           /\ job'["items"] \in {"none", job["items"]}
           /\ job'["container"] \in {"none", job["container"]}
           /\ job'["items"] # "none" => state'.items = state.items
           /\ store = None => store' = None
           /\ stage'["items"] \in {stage["items"], "send", "wait", "reread"}
           /\ stage'["items"] = "reread" =>
                (stage["items"] = "reread" \/ job["items"] # "delete")
           /\ failed \subseteq failed'
<1>1. running /\ job["items"] # "none" /\ MayGo("items") /\ UNCHANGED standing
  BY Fields DEF ItemsWork, List, Send, Save, WaitFindsNone, TimesOut, Reread, ItemsCallFails,
     MayGo, AtRest
<1>2. ASSUME Fails("items") PROVE
        /\ job'["items"] = "none" /\ job'["container"] \in {"none", job["container"]}
        /\ stage' = stage /\ failed \subseteq failed'
  BY <1>2, FailsStep, Fields
<1>3. ASSUME Finish("items") PROVE
        /\ job'["items"] = "none" /\ job'["container"] \in {"none", job["container"]}
        /\ stage' = stage /\ failed \subseteq failed'
  BY <1>3, FinishStep, Fields DEF Resources
<1>4. ASSUME NEW x, state' = [state EXCEPT !.items = x] PROVE state'.container = state.container
  BY <1>4 DEF TypeOK
<1>5. ASSUME NEW x, stage' = [stage EXCEPT !.items = x]
      PROVE  stage'["container"] = stage["container"] /\ stage'["items"] = x
  BY <1>5, Fields DEF TypeOK
<1>6. CASE List
  <2>1. CASE store # None
    BY <1>1, <1>5, <1>6, <2>1 DEF List
  <2>2. CASE store = None
    <3>1. Fails("items") \/ Finish("items")
      BY <1>6, <2>2 DEF List
    <3>. QED  BY <1>1, <1>2, <1>3, <1>4, <1>6, <2>2, <3>1 DEF List
  <2>. QED  BY <2>1, <2>2
<1>7. CASE Send
  <2>1. CASE store # None /\ Sent /\ UNCHANGED <<state, job, failed, strays>>
    <3>1. stage' = stage \/ stage' = [stage EXCEPT !.items = "wait"]
      BY <2>1 DEF Sent
    <3>. QED  BY <1>1, <1>5, <2>1, <3>1
  <2>2. CASE /\ Fails("items") \/ Finish("items")
             /\ UNCHANGED state \/ state' = [state EXCEPT !.items = None]
             /\ UNCHANGED store
    BY <1>1, <1>2, <1>3, <1>4, <2>2
  <2>. QED  BY <1>7, <2>1, <2>2 DEF Send
<1>8. CASE Save
  <2>1. CASE kind.rereads /\ job.items # "delete"
    BY <1>1, <1>5, <1>8, <2>1, Fields DEF Save
  <2>2. CASE ~(kind.rereads /\ job.items # "delete")
    <3>1. PICK x : Record(x)
      BY <1>8, <2>2 DEF Save
    <3>. QED  BY <1>1, <1>8, <3>1, RecordStep DEF Save
  <2>. QED  BY <2>1, <2>2
<1>9. CASE WaitFindsNone
  <2>1. Record(None) \/ (Fails("items") /\ UNCHANGED state)
    BY <1>9 DEF WaitFindsNone
  <2>. QED  BY <1>1, <1>2, <1>9, <2>1, RecordStep DEF WaitFindsNone
<1>10. CASE TimesOut
  BY <1>1, <1>2, <1>10 DEF TimesOut
<1>11. CASE Reread
  <2>1. Fails("items") \/ Finish("items")
    BY <1>11 DEF Reread
  <2>. QED  BY <1>1, <1>2, <1>3, <1>4, <1>11, <2>1 DEF Reread
<1>12. CASE ItemsCallFails
  <2>1. job' = After("items") /\ failed' = failed \cup {"items"} /\ UNCHANGED <<state, stage>>
        /\ (store = None => store' = None)
    BY <1>12 DEF ItemsCallFails
  <2>. QED  BY <1>1, <2>1, AfterTyped, Fields
<1>. QED  BY <1>6, <1>7, <1>8, <1>9, <1>10, <1>11, <1>12 DEF ItemsWork

\* The step of the container's operation.
LEMMA ContainerGoesOn ==
    ASSUME TypeOK, AtRest, ContainerIsAskedFor, ContainerWork
    PROVE  /\ running /\ job["container"] # "none" /\ MayGo("container") /\ UNCHANGED standing
           /\ state'.items = state.items /\ stage'["items"] = stage["items"] /\ ops' = ops
           /\ job'["items"] \in {"none", job["items"]}
           /\ job'["container"] \in {"none", job["container"]}
           /\ job["container"] \notin {"create", "delete"} => job'["items"] = job["items"]
           /\ job["container"] = "delete" => job["items"] = "none"
           /\ failed' = {} => job'["items"] = job["items"]
           /\ failed \subseteq failed'
           /\ \/ UNCHANGED <<store, pending, written, strays>>
              \/ /\ job["container"] = "create" /\ store = None /\ store' = NoItems
                 /\ state'.container = config.force
                 /\ UNCHANGED <<pending, written, strays>>
              \/ /\ job["container"] = "delete" /\ store # None /\ store' = NoItems
                 /\ stage["container"] = "purge"
                 /\ written' = {} /\ strays' = {} /\ UNCHANGED pending
                 /\ state'.container = state.container
              \/ /\ job["container"] = "delete" /\ stage["container"] = "call" /\ Removed
<1>1. running /\ job["container"] # "none" /\ MayGo("container") /\ UNCHANGED standing
  BY Fields DEF ContainerWork, WriteContainer, Guard, Purge, DeleteContainer, ContainerCallFails,
     MayGo, AtRest
<1>2. job["container"] = "delete" => job["items"] = "none"
  BY <1>1, Fields DEF MayGo
<1>3. ASSUME Fails("container") PROVE
        /\ job'["items"] \in {"none", job["items"]} /\ job'["container"] = "none"
        /\ job["container"] \in {"create", "delete"} \/ job'["items"] = job["items"]
        /\ stage' = stage /\ failed \subseteq failed' /\ failed' # {}
        /\ strays' = strays /\ ops' = ops
  BY <1>3, FailsStep, Fields DEF Fails, After, Resources
<1>4. ASSUME NEW x, state' = [state EXCEPT !.container = x]
      PROVE  state'.items = state.items /\ state'.container = x
  BY <1>4 DEF TypeOK
<1>5. ASSUME NEW x, stage' = [stage EXCEPT !.container = x] PROVE stage'["items"] = stage["items"]
  BY <1>5, Fields DEF TypeOK
<1>6. CASE WriteContainer
  <2>1. CASE Fails("container") /\ UNCHANGED <<store, state>>
    BY <1>1, <1>2, <1>3, <1>6, <2>1 DEF WriteContainer
  <2>2. CASE /\ store' = IF job.container = "create" /\ store = None THEN NoItems ELSE store
             /\ state' = [state EXCEPT !.container = config.force]
             /\ Finish("container")
    <3>1. /\ job'["items"] = job["items"] /\ job'["container"] = "none"
          /\ failed' = failed /\ stage' = stage /\ strays' = strays /\ ops' = ops
      BY <2>2, FinishStep, Fields DEF Resources
    <3>. QED  BY <1>1, <1>2, <1>4, <1>6, <2>2, <3>1, Fields DEF WriteContainer
  <2>. QED  BY <1>6, <2>1, <2>2 DEF WriteContainer
<1>7. CASE Guard
  <2>1. UNCHANGED <<store, pending, state, written>>
    BY <1>7 DEF Guard
  <2>2. CASE Fails("container")
    BY <1>1, <1>2, <1>3, <2>1, <2>2
  <2>3. CASE /\ stage' = [stage EXCEPT !.container = IF kind.guard = "purge" THEN "purge" ELSE "call"]
             /\ UNCHANGED <<job, ops, failed, strays>>
    BY <1>1, <1>2, <1>5, <2>1, <2>3
  <2>. QED  BY <1>7, <2>2, <2>3 DEF Guard
<1>8. CASE Purge
  <2>1. UNCHANGED <<pending, state>> /\ stage["container"] = "purge"
    BY <1>8, Fields DEF Purge
  <2>2. CASE Fails("container") /\ UNCHANGED <<store, written>>
    BY <1>1, <1>2, <1>3, <2>1, <2>2
  <2>3. CASE /\ store # None /\ store' = NoItems /\ written' = {} /\ strays' = {}
             /\ stage' = [stage EXCEPT !.container = "call"]
             /\ UNCHANGED <<job, ops, failed>>
    <3>1. job["container"] = "delete"
      BY <1>1, <2>1, Fields DEF ContainerIsAskedFor
    <3>. QED  BY <1>1, <1>2, <1>5, <2>1, <2>3, <3>1
  <2>. QED  BY <1>8, <2>2, <2>3 DEF Purge
<1>9. CASE DeleteContainer
  <2>1. CASE Fails("container") /\ UNCHANGED <<store, pending, state, written>>
    BY <1>1, <1>2, <1>3, <2>1
  <2>2. CASE /\ Removed
             /\ state' = [state EXCEPT !.container = None]
             /\ job' = [job EXCEPT !.container = "none"]
             /\ UNCHANGED <<ops, failed, stage>>
    <3>1. job'["items"] = job["items"] /\ job'["container"] = "none"
      BY <2>2, Fields DEF TypeOK
    <3>. QED  BY <1>1, <1>2, <1>4, <1>9, <2>2, <3>1, Fields DEF DeleteContainer
  <2>. QED  BY <1>9, <2>1, <2>2 DEF DeleteContainer
<1>10. CASE ContainerCallFails
  <2>1. UNCHANGED state
    BY <1>10 DEF ContainerCallFails
  <2>2. CASE Fails("container") /\ UNCHANGED <<store, pending, written>>
    BY <1>1, <1>2, <1>3, <2>1, <2>2
  <2>3. CASE /\ job.container = "delete" /\ stage.container = "call" /\ Removed
             /\ job' = After("container")
             /\ failed' = failed \cup {"container"}
             /\ UNCHANGED <<stage, ops>>
    <3>1. /\ job'["items"] = "none" /\ job'["container"] = "none"
          /\ job["container"] = "delete" /\ stage["container"] = "call"
      BY <2>3, AfterTyped, Fields
    <3>. QED  BY <1>1, <1>2, <2>1, <2>3, <3>1
  <2>. QED  BY <1>10, <2>2, <2>3 DEF ContainerCallFails
<1>. QED  BY <1>6, <1>7, <1>8, <1>9, <1>10 DEF ContainerWork

\* The fields of a function of resources.
LEMMA Dots ==
    /\ job'.items = job'["items"] /\ job'.container = job'["container"]
    /\ stage'.items = stage'["items"] /\ stage'.container = stage'["container"]
OBVIOUS

LEMMA NextCases == Next => Begin \/ End \/ ItemsWork \/ ContainerWork \/ Outside \/ User
BY DEF Next, Provider, ItemsWork, ContainerWork, Outside, User

LEMMA OutsideStep == Outside => UNCHANGED handling
BY DEF Outside, ApplyPending, Others

LEMMA UserStep ==
    User => /\ ~running /\ applied' = FALSE /\ managed \subseteq managed'
            /\ UNCHANGED <<kind, store, pending, running, job, stage, ops, failed, written, strays, late>>
BY DEF User, Edit, Import

---------------------------------------------------------------------------
(* The operations.                                                         *)

LEMMA KeepsAtRest ==
    ASSUME IInv, Next
    PROVE  AtRest'
<1>. USE DEF IInv, Operating
<1>1. CASE Begin
  BY <1>1, BeginStep DEF AtRest
<1>2. CASE End
  BY <1>2 DEF End, AtRest
<1>3. CASE ItemsWork
  BY <1>3, ItemsGoOn DEF AtRest, standing
<1>4. CASE ContainerWork
  BY <1>4, ContainerGoesOn DEF AtRest, standing
<1>5. CASE Outside
  BY <1>5, OutsideStep DEF AtRest, handling
<1>6. CASE User
  BY <1>6, UserStep DEF AtRest
<1>. QED  BY <1>1, <1>2, <1>3, <1>4, <1>5, <1>6, NextCases

\* What the plan makes of the items.
LEMMA BeginItems ==
    ASSUME IInv, Begin
    PROVE  /\ job'["items"] = "delete" => config.items = None /\ state'.items # None
           /\ job'["items"] \in {"create", "update"} => config.items # None
           /\ job'["items"] = "update" => state'.items # None
           /\ job'["items"] = "create" => state'.items = None
           /\ job'["items"] = "none" =>
                IF config.items = None THEN state'.items = None
                ELSE state'.items # None /\ state'.items = Flatten(config.items)
           /\ job["items"] = "none" /\ job["container"] = "none"
<1>1. job'["items"] = ItemsPlanned(RefreshedItems) /\ state'.items = RefreshedItems
  BY BeginStep DEF IInv
<1>2. job["items"] = "none" /\ job["container"] = "none"
  BY Fields DEF IInv, Operating, AtRest, Begin
<1>. QED  BY <1>1, <1>2, OperationTyped DEF ItemsPlanned

\* An operation on the items that goes on does so for the same configuration
\* and from the same state.
LEMMA SameOperation ==
    ASSUME IInv, Next, ~Begin, job'["items"] # "none"
    PROVE  /\ running /\ job["items"] = job'["items"]
           /\ UNCHANGED config /\ state'.items = state.items
<1>. USE DEF IInv, Operating
<1>1. CASE End
  BY <1>1, Fields DEF End
<1>2. CASE ItemsWork
  BY <1>2, ItemsGoOn DEF standing
<1>3. CASE ContainerWork
  BY <1>3, ContainerGoesOn DEF standing
<1>4. CASE Outside
  BY <1>4, OutsideStep, Fields DEF handling, AtRest
<1>5. CASE User
  BY <1>5, UserStep, Fields DEF AtRest
<1>. QED  BY <1>1, <1>2, <1>3, <1>4, <1>5, NextCases

LEMMA SameContainerOperation ==
    ASSUME IInv, Next, ~Begin, job'["container"] # "none"
    PROVE  /\ running /\ job["container"] = job'["container"] /\ UNCHANGED config
           /\ job'["items"] \in {"none", job["items"]}
<1>. USE DEF IInv, Operating
<1>1. CASE End
  BY <1>1, Fields DEF End
<1>2. CASE ItemsWork
  BY <1>2, ItemsGoOn DEF standing
<1>3. CASE ContainerWork
  BY <1>3, ContainerGoesOn DEF standing
<1>4. CASE Outside
  BY <1>4, OutsideStep, Fields DEF handling, AtRest
<1>5. CASE User
  BY <1>5, UserStep, Fields DEF AtRest
<1>. QED  BY <1>1, <1>2, <1>3, <1>4, <1>5, NextCases

\* The step that changes the call the items' operation is at.
LEMMA StageSteps ==
    ASSUME IInv, Next, ~Begin
    PROVE  stage'["items"] = stage["items"] \/ ItemsWork
<1>. USE DEF IInv, Operating
<1>1. CASE End
  BY <1>1 DEF End
<1>2. CASE ContainerWork
  BY <1>2, ContainerGoesOn
<1>3. CASE Outside
  BY <1>3, OutsideStep DEF handling
<1>4. CASE User
  BY <1>4, UserStep
<1>. QED  BY <1>1, <1>2, <1>3, <1>4, NextCases

\* The step that changes the call the container's operation is at.
LEMMA ContainerStageSteps ==
    ASSUME IInv, Next, ~Begin
    PROVE  /\ stage'["container"] \in {stage["container"], "purge", "call"}
           /\ stage'["container"] # stage["container"] =>
                /\ (Guard /\ ~Refused) \/ Purge
                /\ stage["container"] \in {"guard", "purge"}
                /\ UNCHANGED <<job, state>>
<1>. USE DEF IInv, Operating
<1>1. CASE End
  BY <1>1 DEF End
<1>2. CASE ItemsWork
  BY <1>2, ItemsGoOn
<1>3. CASE ContainerWork
  <2>1. CASE stage' = stage
    BY <2>1
  <2>2. CASE WriteContainer \/ DeleteContainer \/ ContainerCallFails
    BY <2>2 DEF WriteContainer, DeleteContainer, ContainerCallFails, Fails, Finish
  <2>3. CASE Guard
    BY <2>3, Fields DEF Guard, Fails, TypeOK
  <2>4. CASE Purge
    BY <2>4, Fields DEF Purge, Fails, TypeOK
  <2>. QED  BY <1>3, <2>1, <2>2, <2>3, <2>4 DEF ContainerWork
<1>4. CASE Outside
  BY <1>4, OutsideStep DEF handling
<1>5. CASE User
  BY <1>5, UserStep
<1>. QED  BY <1>1, <1>2, <1>3, <1>4, <1>5, NextCases

LEMMA KeepsItemsAskedFor ==
    ASSUME IInv, Next
    PROVE  ItemsAreAskedFor'
<1>. USE DEF IInv, Operating
<1>0. TypeOK'
  BY NextTyped
<1>1. CASE Begin
  BY <1>0, <1>1, BeginItems, BeginStep, Dots DEF ItemsAreAskedFor
<1>2. CASE ~Begin
  <2>1. stage'["items"] = "reread" => job'["items"] # "delete"
    BY <1>2, SameOperation, StageSteps, ItemsGoOn, Fields DEF ItemsAreAskedFor
  <2>2. CASE job'["items"] = "none"
    BY <2>1, <2>2, Dots DEF ItemsAreAskedFor
  <2>3. CASE job'["items"] # "none"
    BY <1>2, <2>1, <2>3, SameOperation, Dots, Fields DEF ItemsAreAskedFor
  <2>. QED  BY <2>2, <2>3
<1>. QED  BY <1>1, <1>2

LEMMA KeepsContainerAskedFor ==
    ASSUME IInv, Next
    PROVE  ContainerIsAskedFor'
<1>. USE DEF IInv, Operating
<1>1. CASE Begin
  <2>1. config.present \in BOOLEAN /\ UNCHANGED config
        /\ (RefreshedContainer = None => RefreshedItems = None)
    BY <1>1, BeginStep, Fields, Markers
       DEF RefreshedContainer, RefreshedItems, Guarding, ContainerIsKnown
  <2>2. \/ job'["container"] = Operation(RefreshedContainer, config.present,
                                         RefreshedContainer = config.force)
        \/ job'["container"] = "delete" /\ ~config.present
    BY <1>1, BeginStep DEF ContainerPlanned
  <2>3. job'["container"] = "delete" => ~config.present
    BY <2>1, <2>2, OperationTyped
  <2>4. job'["container"] = "create" => RefreshedItems = None
    BY <2>1, <2>2, OperationTyped
  <2>5. state'.items = RefreshedItems /\ stage'["items"] = "list" /\ job' \in [Resources -> Jobs]
        /\ stage'["container"] = IF job'["container"] = "delete" THEN "guard" ELSE "call"
    BY <1>1, BeginStep
  <2>6. job'["items"] \in Jobs
    BY <2>5 DEF Resources
  <2>7. job'["container"] = "create" => job'["items"] \in {"none", "create"}
    BY <1>1, <2>4, <2>5, <2>6, BeginItems DEF Jobs
  <2>8. stage'["container"] \in {"guard", "purge"} => job'["container"] \in {"none", "delete"}
    BY <2>5
  <2>. HIDE DEF IInv, Operating
  <2>. QED  BY <2>1, <2>3, <2>5, <2>7, <2>8, Dots DEF ContainerIsAskedFor
<1>2. CASE ~Begin
  <2>1. CASE job'["container"] = "none"
    BY <2>1, Dots DEF ContainerIsAskedFor
  <2>2. CASE job'["container"] # "none"
    <3>1. /\ job["container"] = job'["container"] /\ UNCHANGED config
          /\ job'["items"] \in {"none", job["items"]}
      BY <1>2, <2>2, SameContainerOperation
    <3>2. job["container"] = "create" => stage'["items"] = stage["items"]
      BY <1>2, StageSteps, ItemsGoOn, Fields DEF MayGo, ContainerIsAskedFor
    <3>3. stage'["container"] \in {"guard", "purge"} => job["container"] = "delete"
      <4>1. stage'["container"] \in {"guard", "purge"} => stage["container"] \in {"guard", "purge"}
        BY <1>2, ContainerStageSteps
      <4>. QED  BY <2>2, <3>1, <4>1, Fields DEF ContainerIsAskedFor
    <3>. QED  BY <3>1, <3>2, <3>3, Fields, Dots DEF ContainerIsAskedFor
  <2>. QED  BY <2>1, <2>2
<1>. QED  BY <1>1, <1>2

\* The list: what the operation is to send.
LEMMA ListStep ==
    ASSUME TypeOK, ItemsAreAskedFor, List
    PROVE  /\ UNCHANGED <<standing, store, pending, written, faults>>
           /\ stage["items"] = "list" /\ job["items"] # "none"
           /\ Owned \in Items /\ Desired \in Items
           /\ \/ /\ store # None /\ ops' = Batch(store, Owned, Desired) /\ stage'["items"] = "send"
                 /\ UNCHANGED <<state, job, failed, strays>>
              \/ /\ store = None /\ stage' = stage /\ job'["items"] = "none" /\ ops' \in {ops, {}}
                 /\ \/ job["items"] = "delete" /\ state'.items = None
                       /\ UNCHANGED <<failed, strays>>
                    \/ /\ failed' # {} /\ strays' = strays \cup written
                       /\ state'.items \in {state.items, None}
<1>1. /\ UNCHANGED <<standing, store, pending, written, faults>>
      /\ stage["items"] = "list" /\ job["items"] # "none"
  BY Fields DEF List, MayGo
<1>2. Owned \in Items /\ Desired \in Items
  BY <1>1, ItemsTyped, Fields DEF Owned, Desired, ItemsAreAskedFor, TypeOK
<1>3. CASE store # None
  <2>1. /\ ops' = Batch(store, Owned, Desired) /\ stage'["items"] = "send"
        /\ UNCHANGED <<state, job, failed, strays>>
    BY <1>3, Fields DEF List, TypeOK
  <2>. QED  BY <1>1, <1>2, <1>3, <2>1
<1>4. CASE store = None
  <2>1. /\ state'.items = IF job["items"] = "create" THEN state.items ELSE None
        /\ IF job["items"] = "delete" THEN Finish("items") ELSE Fails("items")
    BY <1>4, Fields DEF List, TypeOK
  <2>2. CASE job["items"] = "delete"
    <3>1. Finish("items") /\ state'.items = None
      BY <2>1, <2>2
    <3>. QED  BY <1>1, <1>2, <1>4, <2>2, <3>1, FinishStep, Fields
  <2>3. CASE job["items"] # "delete"
    <3>1. Fails("items")
      BY <2>1, <2>3
    <3>2. stage' = stage /\ job'["items"] = "none" /\ ops' \in {ops, {}}
          /\ failed' # {} /\ strays' = strays \cup written
      BY <3>1, FailsStep, Fields
    <3>. QED  BY <1>1, <1>2, <1>4, <2>1, <2>3, <3>2
  <2>. QED  BY <2>2, <2>3
<1>. QED  BY <1>3, <1>4

\* A request: accepted for later, carried out, or not made.
LEMMA SendStep ==
    ASSUME TypeOK, Send
    PROVE  /\ UNCHANGED <<standing, faults>>
           /\ stage["items"] = "send" /\ job["items"] # "none" /\ ops # {}
           /\ \/ /\ kind.waits /\ store # None /\ pending' = Append(pending, ops) /\ ops' = ops
                 /\ stage'["items"] = "wait"
                 /\ UNCHANGED <<store, written, state, job, failed, strays>>
              \/ /\ ~kind.waits /\ store # None /\ store' = ApplyBatch(store, Sending)
                 /\ written' = WrittenBy(Sending) /\ ops' = ops \ Sending
                 /\ UNCHANGED <<pending, state, job, failed, strays, stage>>
              \/ /\ job["items"] = "delete" /\ store = None /\ state'.items = None
                 /\ job'["items"] = "none" /\ ops' \in {ops, {}}
                 /\ UNCHANGED <<store, pending, written, failed, strays, stage>>
              \/ /\ job'["items"] = "none" /\ failed' # {} /\ strays' = strays \cup written
                 /\ ops' \in {ops, {}}
                 /\ UNCHANGED <<store, pending, written, state, stage>>
<1>1. /\ UNCHANGED <<standing, faults>>
      /\ stage["items"] = "send" /\ job["items"] # "none" /\ ops # {}
  BY Fields DEF Send, MayGo
<1>2. CASE store # None /\ (kind.waits \/ Fits(Sending))
  <2>1. Accept /\ Sent /\ UNCHANGED <<state, job, failed, strays>>
    BY <1>2 DEF Send
  <2>2. CASE kind.waits
    <3>1. pending' = Append(pending, ops) /\ UNCHANGED <<store, written>>
      BY <2>1, <2>2, SendingTyped DEF Accept
    <3>2. ops' = ops /\ stage'["items"] = "wait"
      BY <2>1, <2>2, Fields DEF Sent, TypeOK
    <3>. QED  BY <1>1, <1>2, <2>1, <2>2, <3>1, <3>2
  <2>3. CASE ~kind.waits
    BY <1>1, <1>2, <2>1, <2>3 DEF Accept, Sent
  <2>. QED  BY <2>2, <2>3
<1>3. CASE ~(store # None /\ (kind.waits \/ Fits(Sending)))
  <2>1. /\ UNCHANGED <<store, pending, written>>
        /\ \/ /\ job["items"] = "delete" /\ store = None
              /\ Finish("items") /\ state' = [state EXCEPT !.items = None]
           \/ Fails("items") /\ UNCHANGED state
    BY <1>3, Fields DEF Send
  <2>2. ASSUME Finish("items")
        PROVE  job'["items"] = "none" /\ ops' \in {ops, {}} /\ UNCHANGED <<failed, strays, stage>>
    BY <2>2, FinishStep, Fields
  <2>3. ASSUME Fails("items")
        PROVE  job'["items"] = "none" /\ failed' # {} /\ strays' = strays \cup written
               /\ ops' \in {ops, {}} /\ UNCHANGED stage
    BY <2>3, FailsStep, Fields
  <2>4. ASSUME state' = [state EXCEPT !.items = None] PROVE state'.items = None
    BY <2>4 DEF TypeOK
  <2>. QED  BY <1>1, <2>1, <2>2, <2>3, <2>4
<1>. QED  BY <1>2, <1>3

\* The ends of an operation: the plan is the state, the state is read back
\* first, or a failure.
LEMMA EndStep ==
    ASSUME TypeOK, ItemsAreAskedFor, OpsAreDesired, Save \/ WaitFindsNone \/ TimesOut \/ Reread
    PROVE  /\ UNCHANGED standing /\ UNCHANGED <<store, pending, written>>
           /\ job["items"] # "none" /\ stage["items"] \in {"send", "wait", "reread"}
           /\ \/ /\ store = None \/ \A o \in ops : store[o.key] = o.value \/ ops = {}
                 /\ store = None => job["items"] = "delete" \/ ops = {}
                 /\ job'["items"] = "none" /\ UNCHANGED failed
                 /\ state'.items = IF job["items"] = "delete" THEN None ELSE Flatten(config.items)
                 /\ ops' \in {ops, {}} /\ strays' \in {strays, strays \ Declared}
              \/ /\ Done \/ Awaited
                 /\ job["items"] # "delete" /\ stage'["items"] = "reread" /\ ops' = {}
                 /\ UNCHANGED <<state, job, failed, strays>>
              \/ /\ job'["items"] = "none" /\ failed' # {} /\ strays' = strays \cup written
                 /\ ops' \in {ops, {}}
                 /\ \/ UNCHANGED state
                    \/ store # None /\ config.items \in Items
                       /\ state'.items = Flatten(Filter(store, config.items))
<1>1. /\ UNCHANGED standing /\ UNCHANGED <<store, pending, written>> /\ job["items"] # "none"
  BY Fields DEF Save, WaitFindsNone, TimesOut, Reread, MayGo
<1>2. ASSUME Fails("items")
      PROVE  job'["items"] = "none" /\ failed' # {} /\ strays' = strays \cup written
             /\ ops' \in {ops, {}}
  BY <1>2, FailsStep, Fields
<1>3. CASE Save
  <2>1. Done \/ Awaited
    BY <1>3 DEF Save
  <2>2. CASE kind.rereads /\ job.items # "delete"
    <3>1. stage'["items"] = "reread" /\ ops' = {} /\ UNCHANGED <<state, job, failed, strays>>
      BY <1>3, <2>2, Fields DEF Save, TypeOK
    <3>. QED  BY <1>1, <2>1, <2>2, <3>1, Fields DEF Done, Awaited
  <2>3. CASE ~(kind.rereads /\ job.items # "delete")
    <3>1. Record(IF job["items"] = "delete" THEN None ELSE Flatten(config.items))
      BY <1>3, <2>3, Fields DEF Save
    <3>2. /\ job'["items"] = "none" /\ UNCHANGED failed /\ ops' = {} /\ strays' = strays \ Declared
          /\ state'.items = IF job["items"] = "delete" THEN None ELSE Flatten(config.items)
      BY <3>1, RecordStep
    <3>3. (\A o \in ops : store[o.key] = o.value \/ ops = {}) /\ (store = None => ops = {})
      BY <2>1 DEF Done, Awaited, Converged
    <3>4. stage["items"] \in {"send", "wait", "reread"}
      BY <2>1, Fields DEF Done, Awaited
    <3>. QED  BY <1>1, <3>2, <3>3, <3>4
  <2>. QED  BY <2>2, <2>3
<1>4. CASE WaitFindsNone
  <2>1. stage["items"] = "wait" /\ store = None
    BY <1>4, Fields DEF WaitFindsNone
  <2>2. CASE job["items"] = "delete"
    <3>1. Record(None)
      BY <1>4, <2>2, Fields DEF WaitFindsNone
    <3>. QED  BY <1>1, <2>1, <2>2, <3>1, RecordStep
  <2>3. CASE job["items"] # "delete"
    <3>1. Fails("items") /\ UNCHANGED state
      BY <1>4, <2>3, Fields DEF WaitFindsNone
    <3>. QED  BY <1>1, <1>2, <2>1, <3>1
  <2>. QED  BY <2>2, <2>3
<1>5. CASE TimesOut
  <2>1. stage["items"] = "wait" /\ Fails("items") /\ UNCHANGED state
    BY <1>5, Fields DEF TimesOut
  <2>. QED  BY <1>1, <1>2, <2>1
<1>6. CASE Reread
  <2>1. stage["items"] = "reread" /\ job["items"] # "delete" /\ ops = {}
        /\ config.items \in Items
    BY <1>1, <1>6, Fields DEF Reread, ItemsAreAskedFor, OpsAreDesired, TypeOK
  <2>2. CASE store = None
    BY <1>1, <1>2, <1>6, <2>1, <2>2 DEF Reread
  <2>3. CASE store # None
    <3>1. state'.items = Flatten(Filter(store, config.items))
          /\ IF state'.items = Flatten(config.items) THEN Finish("items") ELSE Fails("items")
      BY <1>6, <2>3 DEF Reread, TypeOK
    <3>2. CASE Finish("items") /\ state'.items = Flatten(config.items)
      <4>1. job'["items"] = "none" /\ UNCHANGED <<failed, strays>> /\ ops' \in {ops, {}}
        BY <3>2, FinishStep, Fields
      <4>. QED  BY <1>1, <2>1, <2>3, <3>2, <4>1
    <3>3. CASE Fails("items")
      BY <1>1, <1>2, <2>1, <2>3, <3>1, <3>3
    <3>. QED  BY <3>1, <3>2, <3>3
  <2>. QED  BY <2>2, <2>3
<1>. QED  BY <1>3, <1>4, <1>5, <1>6

\* A call of the items' operation that fails, a batch carried out or not.
LEMMA ItemsFailStep ==
    ASSUME TypeOK, ItemsCallFails
    PROVE  /\ UNCHANGED standing /\ UNCHANGED <<state, stage>>
           /\ job["items"] # "none" /\ job'["items"] = "none"
           /\ ops' = {} /\ failed' # {} /\ strays' = strays \cup written'
           /\ \/ UNCHANGED <<store, pending, written>>
              \/ /\ stage["items"] = "send" /\ store # None /\ kind.waits
                 /\ pending' = Append(pending, ops) /\ UNCHANGED <<store, written>>
              \/ /\ stage["items"] = "send" /\ store # None /\ ~kind.waits
                 /\ store' = ApplyBatch(store, Sending) /\ written' = WrittenBy(Sending)
                 /\ UNCHANGED pending
<1>1. /\ UNCHANGED standing /\ UNCHANGED <<state, stage>> /\ job["items"] # "none"
      /\ ops' = {} /\ failed' # {} /\ strays' = strays \cup written' /\ job' = After("items")
  BY Fields DEF ItemsCallFails, MayGo
<1>2. job'["items"] = "none"
  BY <1>1, AfterTyped, Fields
<1>3. \/ UNCHANGED <<store, pending, written>>
      \/ stage["items"] = "send" /\ store # None /\ Accept
  BY Fields DEF ItemsCallFails
<1>. QED  BY <1>1, <1>2, <1>3, SendingTyped DEF Accept

LEMMA KeepsOpsDesired ==
    ASSUME IInv, Next
    PROVE  OpsAreDesired'
<1>. TypeOK /\ AtRest /\ ItemsAreAskedFor /\ ContainerIsAskedFor /\ OpsAreDesired
  BY DEF IInv, Operating
<1>. SUFFICES /\ job'["items"] # "none" /\ stage'["items"] # "list" =>
                    \A o \in ops' : o.value = Desired'[o.key]
              /\ stage'["items"] = "reread" => ops' = {}
  BY Dots DEF OpsAreDesired, Handled
<1>1. CASE Begin
  BY <1>1, BeginStep
<1>2. CASE ~Begin
  <2>1. job'["items"] # "none" => Desired' = Desired
    BY <1>2, SameOperation, Dots, Fields DEF Desired
  <2>2. ASSUME ops' \subseteq ops, stage["items"] # "list"
        PROVE  job'["items"] # "none" => \A o \in ops' : o.value = Desired'[o.key]
    BY <1>2, <2>1, <2>2, SameOperation, Fields DEF OpsAreDesired, Handled
  <2>3. ASSUME ops' = ops, stage'["items"] = stage["items"] PROVE
               /\ job'["items"] # "none" /\ stage'["items"] # "list" =>
                    \A o \in ops' : o.value = Desired'[o.key]
               /\ stage'["items"] = "reread" => ops' = {}
    BY <2>2, <2>3, Fields DEF OpsAreDesired
  <2>4. CASE End
    BY <2>3, <2>4 DEF End
  <2>5. CASE ContainerWork
    BY <2>3, <2>5, ContainerGoesOn
  <2>6. CASE Outside
    BY <2>3, <2>6, OutsideStep DEF handling
  <2>7. CASE User
    BY <2>3, <2>7, UserStep
  <2>8. CASE List
    <3>1. CASE store # None
      BY <2>1, <2>8, <3>1, ListStep, BatchIsDesired DEF TypeOK
    <3>2. CASE store = None
      BY <2>8, <3>2, ListStep
    <3>. QED  BY <3>1, <3>2
  <2>9. CASE Send
    BY <2>2, <2>9, SendStep, SendingTyped
  <2>10. CASE Save \/ WaitFindsNone \/ TimesOut \/ Reread
    <3>1. stage'["items"] = "reread" => ops' = {}
      BY <2>10, Fields DEF Save, WaitFindsNone, TimesOut, Reread, Record, Fails, Finish, OpsAreDesired
    <3>. QED  BY <2>2, <2>10, <3>1, EndStep
  <2>11. CASE ItemsCallFails
    BY <2>11, ItemsFailStep
  <2>. QED  BY <1>2, <2>4, <2>5, <2>6, <2>7, <2>8, <2>9, <2>10, <2>11, NextCases DEF ItemsWork
<1>. QED  BY <1>1, <1>2

LEMMA KeepsWaitsForLast ==
    ASSUME IInv, Next
    PROVE  WaitsForLast'
<1>. TypeOK /\ AtRest /\ ItemsAreAskedFor /\ ContainerIsAskedFor /\ OpsAreDesired /\ WaitsForLast
  BY DEF IInv, Operating
<1>. SUFFICES ASSUME job'["items"] # "none", stage'["items"] = "wait", pending' # <<>>
              PROVE  pending'[Len(pending')] = ops'
  BY Dots DEF WaitsForLast, Handled
<1>0. ~Begin /\ job["items"] = job'["items"]
  BY BeginStep, SameOperation
<1>1. ASSUME UNCHANGED <<pending, ops>>, stage["items"] = stage'["items"]
      PROVE  pending'[Len(pending')] = ops'
  BY <1>0, <1>1, Fields DEF WaitsForLast, Handled
<1>2. CASE End
  BY <1>1, <1>2 DEF End
<1>3. CASE ContainerWork
  BY <1>1, <1>3, ContainerGoesOn DEF Removed
<1>4. CASE Others
  BY <1>1, <1>4, OutsideStep DEF Others, handling, Removed, Outside
<1>5. CASE ApplyPending
  <2>1. /\ pending' = Tail(pending) /\ pending # <<>> /\ pending \in Seq(SUBSET Op)
        /\ ops' = ops /\ stage["items"] = stage'["items"]
    BY <1>5, OutsideStep DEF ApplyPending, handling, Outside, TypeOK
  <2>2. Tail(pending)[Len(Tail(pending))] = pending[Len(pending)]
    BY <2>1, HeadTailProperties, LenProperties
  <2>. QED  BY <1>0, <2>1, <2>2, Fields DEF WaitsForLast, Handled
<1>6. CASE User
  BY <1>1, <1>6, UserStep
<1>7. CASE List
  BY <1>7, ListStep
<1>8. CASE Send
  <2>1. /\ pending' = Append(pending, ops) /\ ops' = ops /\ pending \in Seq(SUBSET Op) /\ ops \in SUBSET Op
    BY <1>8, SendStep DEF TypeOK
  <2>. QED  BY <2>1, AppendProperties
<1>9. CASE Save \/ WaitFindsNone \/ TimesOut \/ Reread
  BY <1>9, EndStep
<1>10. CASE ItemsCallFails
  BY <1>10, ItemsFailStep
<1>. QED
  BY <1>0, <1>2, <1>3, <1>4, <1>5, <1>6, <1>7, <1>8, <1>9, <1>10, NextCases DEF ItemsWork, Outside

---------------------------------------------------------------------------
(* What the state and the histories know.                                  *)

\* What the provider has written is there after a batch as it was before.
LEMMA BatchKeepsWritten ==
    ASSUME TypeOK, WrittenIsThere, store # None, NEW batch \in SUBSET Op
    PROVE  \A k \in WrittenBy(batch) : k \in Keys /\ ApplyBatch(store, batch)[k] # Null
<1>. SUFFICES ASSUME NEW k \in WrittenBy(batch)
              PROVE  k \in Keys /\ ApplyBatch(store, batch)[k] # Null
  OBVIOUS
<1>1. store \in Items
  BY DEF TypeOK
<1>2. k \in Keys /\ \A o \in batch : o.key = k => o.op # "delete"
  BY BatchWritten DEF TypeOK
<1>3. CASE \E o \in batch : o.key = k
  <2>1. PICK o \in batch : o.key = k /\ ApplyBatch(store, batch)[k] = o.value
    BY <1>1, <1>2, <1>3, BatchApplied
  <2>2. o.value # Null
    BY <1>2, <2>1 DEF Op
  <2>. QED  BY <2>1, <2>2, <1>2
<1>4. CASE ~\E o \in batch : o.key = k
  <2>1. k \in written
    BY <1>4, BatchWritten
  <2>. QED  BY <1>1, <1>2, <1>4, <2>1, BatchApplied DEF WrittenIsThere
<1>. QED  BY <1>3, <1>4

\* A step that writes items: a batch, others, a container that comes or goes.
LEMMA StoreSteps ==
    ASSUME IInv, Next
    PROVE  \/ UNCHANGED <<store, written>>
           \/ written' = {}
           \/ store = None /\ UNCHANGED written
           \/ store # None /\ \E batch \in SUBSET Op :
                store' = ApplyBatch(store, batch) /\ written' = WrittenBy(batch)
           \/ store # None /\ \E k \in Keys, v \in Values \cup {Null} :
                store' = [store EXCEPT ![k] = v] /\ written' = written \ {k}
<1>. TypeOK /\ AtRest /\ ItemsAreAskedFor /\ ContainerIsAskedFor /\ OpsAreDesired
  BY DEF IInv, Operating
<1>1. CASE Begin \/ End \/ User
  BY <1>1, BeginStep, UserStep DEF End
<1>2. CASE ContainerWork
  BY <1>2, ContainerGoesOn DEF Removed
<1>3. CASE List \/ Save \/ WaitFindsNone \/ TimesOut \/ Reread
  BY <1>3, ListStep, EndStep
<1>4. CASE Send
  <2>1. Sending \in SUBSET Op
    BY SendingTyped
  <2>. QED  BY <1>4, <2>1, SendStep
<1>5. CASE ItemsCallFails
  <2>1. Sending \in SUBSET Op
    BY SendingTyped
  <2>. QED  BY <1>5, <2>1, ItemsFailStep
<1>6. CASE ApplyPending
  <2>1. Head(pending) \in SUBSET Op
    BY <1>6, HeadTailProperties DEF ApplyPending, TypeOK
  <2>. QED  BY <1>6, <2>1 DEF ApplyPending
<1>7. CASE Others
  BY <1>7 DEF Others, Removed
<1>. QED  BY <1>1, <1>2, <1>3, <1>4, <1>5, <1>6, <1>7, NextCases DEF ItemsWork, Outside

LEMMA KeepsWrittenThere ==
    ASSUME IInv, Next
    PROVE  WrittenIsThere'
<1>. TypeOK /\ ItemsAreAskedFor /\ WrittenIsThere
  BY DEF IInv, Operating, Knowing
<1>. TypeOK'
  BY NextTyped
<1>1. CASE UNCHANGED <<store, written>> \/ written' = {} \/ (store = None /\ UNCHANGED written)
  BY <1>1 DEF WrittenIsThere
<1>2. ASSUME store # None, NEW batch \in SUBSET Op,
             store' = ApplyBatch(store, batch), written' = WrittenBy(batch)
      PROVE  WrittenIsThere'
  <2>1. store' \in Items
    BY <1>2, BatchApplied DEF TypeOK
  <2>. QED  BY <1>2, <2>1, BatchKeepsWritten, Markers DEF WrittenIsThere
<1>3. ASSUME store # None, NEW k \in Keys, NEW v \in Values \cup {Null},
             store' = [store EXCEPT ![k] = v], written' = written \ {k}
      PROVE  WrittenIsThere'
  <2>1. store' # None
    BY <1>3, Markers DEF TypeOK, Items
  <2>. QED  BY <1>3, <2>1 DEF WrittenIsThere, TypeOK, Items
<1>. QED  BY <1>1, <1>2, <1>3, StoreSteps

\* The items of a map are those of its flattened value.
LEMMA HeldOf ==
    ASSUME NEW m \in Items, NEW a, a = Flatten(m)
    PROVE  (IF a \in {None, Null} THEN {} ELSE In(a)) = In(m)
<1>1. CASE kind.nullWhenEmpty /\ m = NoItems
  BY <1>1, ItemsTyped DEF Flatten
<1>2. CASE ~(kind.nullWhenEmpty /\ m = NoItems)
  BY <1>2, Markers DEF Flatten
<1>. QED  BY <1>1, <1>2

\* The state after a read.
LEMMA RefreshKeepsHeld ==
    ASSUME TypeOK, store # None, NEW k \in Held, store[k] # Null, NEW a, a = RefreshedItems
    PROVE  a \notin {None, Null} /\ k \in In(a)
<1>1. /\ state.items \in Items /\ store \in Items /\ k \in Keys /\ state.items[k] # Null
      /\ state.items \notin {None, Null}
  <2>1. state.items \notin {None, Null} /\ k \in In(state.items)
    BY DEF Held
  <2>2. state.items \in Items /\ store \in Items
    BY <2>1, Fields DEF TypeOK
  <2>. QED  BY <2>1, <2>2 DEF In
<1>. DEFINE m == Filter(store, state.items)
<1>2. m \in Items /\ m[k] # Null
  <2>1. m \in Items /\ m[k] = store[k]
    BY <1>1, ItemsTyped
  <2>. QED  BY <2>1
<1>3. a = Flatten(m)
  BY <1>1 DEF RefreshedItems
<1>4. k \in In(m)
  BY <1>1, <1>2 DEF In
<1>. HIDE DEF m
<1>. QED  BY <1>2, <1>3, <1>4, HeldOf

\* What is written is declared.
LEMMA DesiredIsDeclared ==
    ASSUME TypeOK, ItemsAreAskedFor, job["items"] # "none"
    PROVE  /\ \A k \in Keys : Desired[k] # Null => k \in Declared /\ Desired = config.items
           /\ config.items # None => Desired = config.items
           /\ OpsAreDesired /\ stage["items"] # "list" => \A o \in ops :
                /\ o.value = Desired[o.key] /\ o.key \in Keys
                /\ o.op # "delete" => o.key \in Declared /\ o.value = config.items[o.key]
<1>1. config.items = None => job["items"] = "delete"
  BY Fields DEF ItemsAreAskedFor, TypeOK
<1>2. config.items # None => job["items"] # "delete"
  BY Fields DEF ItemsAreAskedFor
<1>3. \A k \in Keys : Desired[k] # Null => k \in Declared /\ Desired = config.items
  BY <1>1, <1>2, Fields DEF Desired, NoItems, Declared, In
<1>4. config.items # None => Desired = config.items
  BY <1>2, Fields DEF Desired
<1>5. ASSUME OpsAreDesired, stage["items"] # "list", NEW o \in ops
      PROVE  /\ o.value = Desired[o.key] /\ o.key \in Keys
             /\ o.op # "delete" => o.key \in Declared /\ o.value = config.items[o.key]
  <2>1. o.value = Desired[o.key]
    BY <1>5, Fields DEF OpsAreDesired, Handled
  <2>2. o.key \in Keys /\ (o.op # "delete" => o.value # Null)
    BY DEF TypeOK, Op
  <2>. QED  BY <1>3, <2>1, <2>2
<1>. QED  BY <1>3, <1>4, <1>5

LEMMA KeepsWrittenKnown ==
    ASSUME IInv, Next
    PROVE  WrittenIsKnown'
<1>. TypeOK /\ AtRest /\ ItemsAreAskedFor /\ ContainerIsAskedFor /\ OpsAreDesired /\ WaitsForLast
     /\ WrittenIsThere /\ WrittenIsKnown
  BY DEF IInv, Operating, Knowing
<1>. SUFFICES ASSUME NEW k \in written', k \notin strays'
              PROVE  IF Handled' THEN k \in Declared' \/ \E o \in ops' : o.op = "delete" /\ o.key = k
                     ELSE k \in Held'
  BY DEF WrittenIsKnown, Deletions
<1>1. Handled' <=> job'["items"] # "none" /\ stage'["items"] # "list"
  BY Dots DEF Handled
<1>2. Handled <=> job["items"] # "none" /\ stage["items"] # "list"
  BY Fields DEF Handled
<1>3. Held' = IF state'.items \in {None, Null} THEN {} ELSE In(state'.items)
  BY DEF Held, In
<1>4. ASSUME k \in written, k \notin strays
      PROVE  /\ IF Handled THEN k \in Declared \/ \E o \in ops : o.op = "delete" /\ o.key = k
                ELSE k \in Held
             /\ k \in Keys /\ store # None /\ store[k] # Null
  BY <1>4 DEF WrittenIsKnown, Deletions, WrittenIsThere, TypeOK
\* What has not changed.
<1>5. ASSUME k \in written, k \notin strays, state'.items = state.items, Handled' = Handled,
             Handled => ops' = ops /\ config' = config
      PROVE  IF Handled' THEN k \in Declared' \/ \E o \in ops' : o.op = "delete" /\ o.key = k
             ELSE k \in Held'
  BY <1>3, <1>4, <1>5 DEF Declared, Held, In
<1>6. CASE Begin
  <2>1. /\ ~Handled' /\ ~Handled /\ k \in written /\ k \notin strays
        /\ state'.items = RefreshedItems
    BY <1>1, <1>2, <1>6, BeginStep, BeginItems
  <2>. QED  BY <1>3, <1>4, <2>1, RefreshKeepsHeld
<1>7. CASE End
  BY <1>1, <1>2, <1>5, <1>7 DEF End
<1>8. CASE User
  <2>1. ~Handled /\ ~Handled' /\ k \in written /\ k \notin strays
    BY <1>1, <1>2, <1>8, UserStep, Fields DEF AtRest
  <2>2. state' = state \/ state.items = None
    BY <1>8 DEF User, Edit, Import
  <2>. QED  BY <1>4, <1>5, <2>1, <2>2 DEF Held
<1>9. CASE ContainerWork
  <2>1. /\ state'.items = state.items /\ ops' = ops /\ stage'["items"] = stage["items"]
        /\ config' = config
    BY <1>9, ContainerGoesOn DEF standing
  <2>2. Handled' = Handled
    BY <1>1, <1>2, <1>9, <2>1, ContainerGoesOn, Fields DEF ContainerIsAskedFor
  <2>3. k \in written /\ k \notin strays
    BY <1>9, ContainerGoesOn DEF Removed
  <2>. QED  BY <1>5, <2>1, <2>2, <2>3
<1>10. CASE Others
  <2>1. k \in written /\ k \notin strays
    BY <1>10 DEF Others, Removed
  <2>2. UNCHANGED handling
    BY <1>10, OutsideStep DEF Outside
  <2>. QED  BY <1>1, <1>2, <1>5, <2>1, <2>2 DEF handling
<1>11. CASE ApplyPending
  <2>1. UNCHANGED handling
    BY <1>11, OutsideStep DEF Outside
  <2>2. /\ job["items"] # "none" /\ stage["items"] = "wait" /\ Len(pending) = 1 /\ pending # <<>>
        /\ written' = WrittenBy(Head(pending)) /\ strays' = strays \cap written'
    BY <1>11, Fields DEF ApplyPending
  <2>3. Head(pending) = ops
    BY <1>2, <2>2, Fields DEF WaitsForLast, Handled
  <2>4. \/ k \in written /\ k \notin strays
        \/ \E o \in ops : o.key = k /\ o.op # "delete"
    BY <2>2, <2>3, BatchWritten DEF WrittenBy
  <2>5. ASSUME NEW o \in ops, o.key = k, o.op # "delete"
        PROVE  k \in Declared
    BY <2>2, <2>5, DesiredIsDeclared
  <2>. QED  BY <1>1, <1>2, <1>5, <2>1, <2>2, <2>4, <2>5 DEF handling, Declared
<1>12. CASE List
  <2>1. written' = written /\ (k \notin strays => store # None /\ k \in Held /\ store[k] # Null)
    BY <1>2, <1>4, <1>12, ListStep
  <2>2. CASE store # None
    <3>1. /\ ops' = Batch(store, Owned, Desired) /\ UNCHANGED <<state, job, strays, config>>
          /\ stage'["items"] = "send" /\ job["items"] # "none"
          /\ Owned \in Items /\ Desired \in Items
      BY <1>12, <2>2, ListStep DEF standing
    <3>2. k \in Held /\ store[k] # Null /\ k \in Keys
      BY <1>4, <2>1, <3>1
    <3>3. k \in In(Owned)
      BY <3>1, <3>2, Fields DEF Owned, Held, Expand, ItemsAreAskedFor
    <3>4. CASE Desired[k] = Null
      BY <1>1, <2>2, <3>1, <3>2, <3>3, <3>4, BatchIsDesired DEF TypeOK
    <3>5. CASE Desired[k] # Null
      <4>1. k \in Declared
        BY <3>1, <3>2, <3>5, DesiredIsDeclared
      <4>. QED  BY <1>1, <3>1, <4>1 DEF Declared
    <3>. QED  BY <3>4, <3>5
  <2>3. CASE store = None
    BY <1>12, <2>1, <2>3, ListStep
  <2>. QED  BY <2>2, <2>3
<1>13. CASE Send
  <2>1. /\ UNCHANGED config /\ job["items"] # "none" /\ stage["items"] = "send"
        /\ \/ UNCHANGED <<written, state, job, strays>> /\ stage'["items"] = "wait" /\ ops' = ops
           \/ /\ written' = WrittenBy(Sending) /\ ops' = ops \ Sending
              /\ UNCHANGED <<state, job, strays, stage>>
           \/ store = None /\ UNCHANGED <<written, strays>>
           \/ UNCHANGED written /\ strays' = strays \cup written
    BY <1>13, SendStep DEF standing
  <2>2. CASE UNCHANGED <<written, state, job, strays>> /\ stage'["items"] = "wait" /\ ops' = ops
    BY <1>1, <1>2, <1>5, <2>1, <2>2
  <2>3. CASE store = None /\ UNCHANGED <<written, strays>>
    BY <1>4, <2>3
  <2>4. CASE UNCHANGED written /\ strays' = strays \cup written
    BY <2>4
  <2>5. CASE /\ written' = WrittenBy(Sending) /\ ops' = ops \ Sending
             /\ UNCHANGED <<state, job, strays, stage>>
    <3>1. Handled /\ Handled' /\ Declared' = Declared
      BY <1>1, <1>2, <2>1, <2>5 DEF Declared
    <3>2. Sending \subseteq ops /\ Sending \in SUBSET Op
      BY SendingTyped
    <3>3. /\ \A o \in Sending : o.op = "delete" => o.key # k
          /\ k \in written \/ \E o \in Sending : o.op # "delete" /\ o.key = k
      BY <2>5, <3>2, BatchWritten
    <3>4. CASE k \in written
      <4>1. k \in Declared \/ \E o \in ops : o.op = "delete" /\ o.key = k
        BY <1>4, <2>5, <3>1, <3>4
      <4>. QED  BY <2>5, <3>1, <3>3, <4>1
    <3>5. ASSUME NEW o \in Sending, o.op # "delete", o.key = k
          PROVE  k \in Declared
      BY <2>1, <3>2, <3>5, DesiredIsDeclared
    <3>. QED  BY <3>1, <3>3, <3>4, <3>5
  <2>. QED  BY <2>1, <2>2, <2>3, <2>4, <2>5
<1>14. CASE Save \/ WaitFindsNone \/ TimesOut \/ Reread
  <2>1. /\ UNCHANGED <<config, store, written>> /\ job["items"] # "none"
        /\ stage["items"] \in {"send", "wait", "reread"}
    BY <1>14, EndStep DEF standing
  <2>2. CASE strays' = strays \cup written
    BY <2>1, <2>2
  <2>3. ASSUME k \notin strays, store = None \/ \A o \in ops : store[o.key] = o.value
        PROVE  k \in Declared
    <3>1. \A o \in ops : o.op = "delete" => store[o.key] = Null
      BY <1>4, <2>1, <2>3 DEF TypeOK, Op
    <3>. QED  BY <1>2, <1>4, <2>1, <2>3, <3>1
  <2>4. CASE /\ store = None \/ \A o \in ops : store[o.key] = o.value \/ ops = {}
             /\ store = None => job["items"] = "delete" \/ ops = {}
             /\ job'["items"] = "none" /\ UNCHANGED failed
             /\ state'.items = IF job["items"] = "delete" THEN None ELSE Flatten(config.items)
             /\ ops' \in {ops, {}} /\ strays' \in {strays, strays \ Declared}
    <3>1. k \in Declared
      BY <2>1, <2>3, <2>4
    <3>2. config.items \in Items /\ k \in In(config.items) /\ job["items"] # "delete"
      BY <3>1, Fields DEF Declared, ItemsAreAskedFor
    <3>3. k \in Held'
      BY <1>3, <2>4, <3>2, HeldOf
    <3>. QED  BY <1>1, <2>4, <3>3
  <2>5. CASE /\ Done \/ Awaited
             /\ job["items"] # "delete" /\ stage'["items"] = "reread" /\ ops' = {}
             /\ UNCHANGED <<state, job, failed, strays>>
    <3>1. \A o \in ops : store[o.key] = o.value
      BY <2>5 DEF Done, Awaited, Converged
    <3>2. k \in Declared /\ Handled'
      BY <1>1, <2>1, <2>3, <2>5, <3>1
    <3>. QED  BY <2>1, <3>2 DEF Declared
  <2>. QED  BY <1>14, <2>2, <2>4, <2>5, EndStep
<1>15. CASE ItemsCallFails
  BY <1>15, ItemsFailStep
<1>. QED
  BY <1>6, <1>7, <1>8, <1>9, <1>10, <1>11, <1>12, <1>13, <1>14, <1>15, NextCases
     DEF ItemsWork, Outside

LEMMA KeepsStateConfigured ==
    ASSUME IInv, Next
    PROVE  StateAsConfigured'
<1>. TypeOK /\ AtRest /\ ItemsAreAskedFor /\ ContainerIsAskedFor /\ OpsAreDesired
     /\ StateAsConfigured
  BY DEF IInv, Operating, Knowing
<1>. SUFFICES ASSUME running', failed' = {}, job'["items"] = "none"
              PROVE  state'.items = AsConfigured'
  BY Dots DEF StateAsConfigured
<1>0. UNCHANGED <<kind, config>> => AsConfigured' = AsConfigured
  BY DEF AsConfigured, Flatten, NoItems
<1>1. ASSUME UNCHANGED <<kind, config, running>>, failed \subseteq failed',
             state'.items = state.items, job'["items"] = job["items"]
      PROVE  state'.items = AsConfigured'
  BY <1>0, <1>1, Fields DEF StateAsConfigured
<1>2. CASE Begin
  BY <1>0, <1>2, BeginItems, BeginStep DEF AsConfigured
<1>3. CASE End
  BY <1>3 DEF End
<1>4. CASE User
  BY <1>4, UserStep
<1>5. CASE Outside
  BY <1>1, <1>5, OutsideStep DEF handling
<1>6. CASE ContainerWork
  BY <1>1, <1>6, ContainerGoesOn DEF standing
<1>7. CASE List
  BY <1>0, <1>7, ListStep, Fields DEF AsConfigured, ItemsAreAskedFor, standing
<1>8. CASE Send
  BY <1>0, <1>8, SendStep, Fields DEF AsConfigured, ItemsAreAskedFor, standing
<1>9. CASE Save \/ WaitFindsNone \/ TimesOut \/ Reread
  <2>1. job["items"] # "none" /\ UNCHANGED <<kind, config>>
        /\ state'.items = IF job["items"] = "delete" THEN None ELSE Flatten(config.items)
    BY <1>9, EndStep DEF standing
  <2>. QED  BY <1>0, <2>1, Fields DEF AsConfigured, ItemsAreAskedFor, TypeOK
<1>10. CASE ItemsCallFails
  BY <1>10, ItemsFailStep
<1>. QED
  BY <1>2, <1>3, <1>4, <1>5, <1>6, <1>7, <1>8, <1>9, <1>10, NextCases DEF ItemsWork

\* A batch puts there what is declared, and leaves the rest of it.
LEMMA BatchKeepsDeclared ==
    ASSUME TypeOK, ItemsAreAskedFor, OpsAreDesired, Handled, store # None, config.items # None,
           NEW batch \in SUBSET ops, NEW k \in Declared,
           store[k] = config.items[k] \/ \E o \in ops : o.key = k
    PROVE  ApplyBatch(store, batch)[k] = config.items[k] \/ \E o \in ops \ batch : o.key = k
<1>1. store \in Items /\ batch \in SUBSET Op /\ k \in Keys /\ job["items"] # "none"
      /\ stage["items"] # "list" /\ Desired = config.items
  BY Fields, DesiredIsDeclared DEF TypeOK, Handled
<1>2. CASE \E o \in batch : o.key = k
  <2>1. PICK o \in batch : o.key = k /\ ApplyBatch(store, batch)[k] = o.value
    BY <1>1, <1>2, BatchApplied
  <2>. QED  BY <1>1, <2>1, DesiredIsDeclared
<1>3. CASE ~\E o \in batch : o.key = k
  BY <1>1, <1>3, BatchApplied
<1>. QED  BY <1>2, <1>3

LEMMA KeepsDeclaredThere ==
    ASSUME IInv, Next
    PROVE  DeclaredIsThere'
<1>. TypeOK /\ AtRest /\ ItemsAreAskedFor /\ ContainerIsAskedFor /\ OpsAreDesired /\ WaitsForLast
     /\ DeclaredIsThere
  BY DEF IInv, Operating, Knowing
<1>. SUFFICES ASSUME running', failed' = {}, ~late', config'.items # None,
                     job'["items"] = "none" \/ stage'["items"] # "list"
              PROVE  /\ store' # None
                     /\ \A k \in Declared' : \/ store'[k] = config'.items[k]
                                             \/ job'["items"] # "none" /\ \E o \in ops' : o.key = k
  BY Dots DEF DeclaredIsThere
<1>1. ASSUME UNCHANGED <<config, running, late>>, failed = {},
             job["items"] = "none" \/ stage["items"] # "list"
      PROVE  /\ config.items # None /\ Declared' = Declared /\ store # None
             /\ \A k \in Declared : \/ store[k] = config.items[k]
                                    \/ job["items"] # "none" /\ \E o \in ops : o.key = k
  BY <1>1, Fields DEF DeclaredIsThere, Declared
<1>2. ASSUME UNCHANGED <<config, running, late, store, ops>>, failed \subseteq failed',
             job'["items"] = job["items"], stage'["items"] = stage["items"]
      PROVE  /\ store' # None
             /\ \A k \in Declared' : \/ store'[k] = config'.items[k]
                                     \/ job'["items"] # "none" /\ \E o \in ops' : o.key = k
  BY <1>1, <1>2
<1>3. CASE Begin
  <2>1. /\ job'["items"] = "none" /\ UNCHANGED <<config, store>> /\ config.items # None
        /\ state'.items = RefreshedItems /\ RefreshedItems # None
        /\ RefreshedItems = Flatten(config.items)
    BY <1>3, BeginStep, BeginItems
  <2>2. store \in Items /\ config.items \in Items /\ state.items # None
    BY <2>1, Fields DEF RefreshedItems, TypeOK
  <2>3. ASSUME NEW k \in Declared PROVE store[k] = config.items[k]
    <3>1. k \in Keys /\ config.items[k] # Null
      BY <2>1, <2>3 DEF Declared, In
    <3>2. CASE state.items = Null
      BY <2>1, <2>2, <3>2, ItemsTyped DEF RefreshedItems
    <3>3. CASE state.items # Null
      <4>1. state.items \in Items
        BY <2>2, <3>3, Fields
      <4>2. Filter(store, state.items) = config.items
        BY <2>1, <2>2, <3>3, <4>1, ItemsTyped DEF RefreshedItems
      <4>. QED  BY <2>2, <3>1, <4>1, <4>2, ItemsTyped
    <3>. QED  BY <3>2, <3>3
  <2>. QED  BY <2>1, <2>2, <2>3, Markers DEF Declared
<1>4. CASE End
  BY <1>4 DEF End
<1>5. CASE User
  BY <1>5, UserStep
<1>6. CASE Others
  BY <1>6 DEF Others
<1>7. CASE ApplyPending
  <2>1. UNCHANGED handling
    BY <1>7, OutsideStep DEF Outside
  <2>2. /\ job["items"] # "none" /\ stage["items"] = "wait" /\ Len(pending) = 1 /\ pending # <<>>
        /\ store' = ApplyBatch(store, Head(pending)) /\ UNCHANGED late /\ store # None
    BY <1>7, Fields DEF ApplyPending
  <2>3. Head(pending) = ops /\ Handled
    BY <2>2, Fields DEF WaitsForLast, Handled
  <2>4. store' \in Items
    BY <2>2, <2>3, BatchApplied DEF TypeOK
  <2>5. config.items # None /\ Declared' = Declared
        /\ \A k \in Declared : store[k] = config.items[k] \/ \E o \in ops : o.key = k
    BY <1>1, <2>1, <2>2 DEF handling
  <2>6. \A k \in Declared : store'[k] = config.items[k]
    BY <2>2, <2>3, <2>5, BatchKeepsDeclared
  <2>. QED  BY <2>1, <2>4, <2>5, <2>6, Markers DEF handling
<1>8. CASE ContainerWork
  <2>1. /\ UNCHANGED <<config, running, late, ops>> /\ stage'["items"] = stage["items"]
        /\ job'["items"] = job["items"] /\ failed = {}
    BY <1>8, ContainerGoesOn DEF standing
  <2>2. config.present /\ job["container"] # "delete"
    BY <2>1, Fields DEF ContainerIsAskedFor
  <2>3. store = None => job["container"] # "create"
    BY <1>1, <2>1, Fields DEF ContainerIsAskedFor
  <2>. QED  BY <1>2, <1>8, <2>1, <2>2, <2>3, ContainerGoesOn
<1>9. CASE List
  <2>1. CASE store # None
    <3>1. /\ ops' = Batch(store, Owned, Desired) /\ UNCHANGED <<job, store, config>>
          /\ job["items"] # "none" /\ Owned \in Items /\ Desired \in Items
      BY <1>9, <2>1, ListStep DEF standing
    <3>2. Desired = config.items /\ store \in Items /\ Declared' = Declared
      BY <2>1, <3>1, DesiredIsDeclared DEF TypeOK, Declared
    <3>3. \A k \in Declared : k \in Keys /\ Desired[k] # Null
      BY <3>1, <3>2 DEF Declared, In
    <3>. QED  BY <2>1, <3>1, <3>2, <3>3, BatchIsDesired
  <2>2. CASE store = None
    BY <1>9, <2>2, ListStep, Fields DEF ItemsAreAskedFor, standing
  <2>. QED  BY <2>1, <2>2
<1>10. CASE Send
  <2>1. job["items"] # "none" /\ stage["items"] = "send" /\ UNCHANGED <<config, running, late>>
    BY <1>10, SendStep DEF standing
  <2>2. job["items"] # "delete"
    BY <2>1, Fields DEF ItemsAreAskedFor
  <2>3. failed = {} /\ UNCHANGED job
    BY <1>10, <2>2, SendStep
  <2>4. /\ config.items # None /\ Declared' = Declared /\ store # None
        /\ \A k \in Declared : store[k] = config.items[k] \/ \E o \in ops : o.key = k
    BY <1>1, <2>1, <2>3
  <2>5. CASE UNCHANGED <<store, ops>>
    BY <2>1, <2>3, <2>4, <2>5
  <2>6. CASE store' = ApplyBatch(store, Sending) /\ ops' = ops \ Sending
    <3>1. Sending \in SUBSET ops /\ Handled /\ Sending \in SUBSET Op
      BY <2>1, SendingTyped, Fields DEF Handled
    <3>2. store' \in Items
      BY <2>4, <2>6, <3>1, BatchApplied DEF TypeOK
    <3>. QED  BY <2>1, <2>3, <2>4, <2>6, <3>1, <3>2, BatchKeepsDeclared, Markers
  <2>. QED  BY <1>10, <2>2, <2>5, <2>6, SendStep
<1>11. CASE Save \/ WaitFindsNone \/ TimesOut \/ Reread
  <2>1. /\ job["items"] # "none" /\ stage["items"] # "list" /\ UNCHANGED <<config, running, late, store>>
    BY <1>11, EndStep DEF standing
  <2>2. job["items"] # "delete"
    BY <2>1, Fields DEF ItemsAreAskedFor
  <2>3. failed = {} /\ \A o \in ops : store[o.key] = o.value
    BY <1>1, <1>11, <2>1, <2>2, EndStep DEF Done, Awaited, Converged
  <2>4. /\ config.items # None /\ Declared' = Declared /\ store # None
        /\ \A k \in Declared : store[k] = config.items[k] \/ \E o \in ops : o.key = k
    BY <1>1, <2>1, <2>3
  <2>5. \A o \in ops : o.value = config.items[o.key]
    BY <2>1, <2>4, DesiredIsDeclared
  <2>. QED  BY <2>1, <2>3, <2>4, <2>5
<1>12. CASE ItemsCallFails
  BY <1>12, ItemsFailStep
<1>. QED
  BY <1>3, <1>4, <1>5, <1>6, <1>7, <1>8, <1>9, <1>10, <1>11, <1>12, NextCases
     DEF ItemsWork, Outside

LEMMA KeepsAppliedStays ==
    ASSUME IInv, Next
    PROVE  AppliedStays'
<1>. TypeOK /\ AtRest /\ ItemsAreAskedFor /\ ContainerIsAskedFor /\ OpsAreDesired /\ AppliedStays
  BY DEF IInv, Operating, Knowing
<1>1. CASE Begin \/ Others \/ User
  BY <1>1, BeginStep, UserStep DEF Others, AppliedStays
<1>2. CASE ItemsWork
  BY <1>2, ItemsGoOn DEF AppliedStays, standing
<1>3. CASE ContainerWork
  BY <1>3, ContainerGoesOn DEF AppliedStays, standing
<1>4. CASE ApplyPending
  <2>1. applied' = FALSE \/ (UNCHANGED applied /\ job["items"] # "none")
    BY <1>4, Fields DEF ApplyPending
  <2>. QED  BY <2>1, Fields DEF AppliedStays, AtRest
<1>5. CASE End
  <2>1. /\ running /\ job["items"] = "none" /\ running' = FALSE /\ applied' = (failed = {} /\ ~late)
        /\ UNCHANGED <<store, config, written, strays>>
    BY <1>5, Fields DEF End
  <2>. SUFFICES ASSUME failed = {}, ~late
                PROVE  /\ config.items # None =>
                            store # None /\ \A k \in Declared : store[k] = config.items[k]
                       /\ written \subseteq strays \cup Declared
    BY <2>1 DEF AppliedStays, Declared
  <2>2. config.items # None => store # None /\ \A k \in Declared : store[k] = config.items[k]
    BY <2>1, Fields DEF IInv, Knowing, DeclaredIsThere
  <2>3. Held = Declared
    <3>1. state.items = AsConfigured
      BY <2>1, Fields DEF IInv, Knowing, StateAsConfigured
    <3>2. CASE config.items = None
      BY <3>1, <3>2 DEF AsConfigured, Held, Declared
    <3>3. CASE config.items # None
      BY <3>1, <3>3, HeldOf, Fields DEF AsConfigured, Held, Declared
    <3>. QED  BY <3>2, <3>3
  <2>4. written \subseteq strays \cup Held
    BY <2>1, Fields DEF IInv, Knowing, WrittenIsKnown, Handled
  <2>. QED  BY <2>2, <2>3, <2>4
<1>. QED  BY <1>1, <1>2, <1>3, <1>4, <1>5, NextCases DEF Outside

---------------------------------------------------------------------------
(* What is managed.                                                        *)

LEMMA KeepsDeclaredManaged ==
    ASSUME IInv, Next
    PROVE  DeclaredIsManaged' /\ managed \subseteq managed'
<1>. TypeOK /\ AtRest /\ ContainerIsAskedFor /\ DeclaredIsManaged
  BY DEF IInv, Operating, Managing
<1>1. CASE Begin
  BY <1>1, BeginStep DEF DeclaredIsManaged, Declared, In
<1>2. CASE End
  BY <1>2 DEF End, DeclaredIsManaged
<1>3. CASE User
  BY <1>3, UserStep DEF DeclaredIsManaged
<1>4. CASE Outside
  BY <1>4, OutsideStep DEF handling, DeclaredIsManaged, Declared, In
<1>5. CASE ItemsWork
  BY <1>5, ItemsGoOn DEF standing, DeclaredIsManaged, Declared, In
<1>6. CASE ContainerWork
  BY <1>6, ContainerGoesOn DEF standing, DeclaredIsManaged, Declared, In
<1>. QED  BY <1>1, <1>2, <1>3, <1>4, <1>5, <1>6, NextCases

\* Batches are made of operations, and come from pending ones.
LEMMA PendingSteps ==
    ASSUME IInv, Next
    PROVE  \/ \A i \in DOMAIN pending' : \E j \in DOMAIN pending : pending'[i] = pending[j]
           \/ kind.waits /\ pending' = Append(pending, ops)
<1>. TypeOK /\ AtRest /\ ItemsAreAskedFor /\ ContainerIsAskedFor /\ OpsAreDesired
  BY DEF IInv, Operating
<1>0. ASSUME pending' = pending \/ pending' = <<>>
      PROVE  \A i \in DOMAIN pending' : \E j \in DOMAIN pending : pending'[i] = pending[j]
  BY <1>0
<1>1. CASE Begin \/ End \/ User
  BY <1>0, <1>1, BeginStep, UserStep DEF End
<1>2. CASE ContainerWork
  BY <1>0, <1>2, ContainerGoesOn DEF Removed
<1>3. CASE List \/ Save \/ WaitFindsNone \/ TimesOut \/ Reread
  BY <1>0, <1>3, ListStep, EndStep
<1>4. CASE Send \/ ItemsCallFails
  BY <1>0, <1>4, SendStep, ItemsFailStep
<1>5. CASE ApplyPending
  <2>1. pending' = Tail(pending) /\ pending \in Seq(SUBSET Op) /\ pending # <<>>
    BY <1>5 DEF ApplyPending, TypeOK
  <2>2. ASSUME NEW i \in DOMAIN pending' PROVE i + 1 \in DOMAIN pending /\ pending'[i] = pending[i + 1]
    BY <2>1, <2>2, HeadTailProperties, LenProperties
  <2>. QED  BY <2>2
<1>6. CASE Others
  BY <1>0, <1>6 DEF Others, Removed
<1>. QED  BY <1>1, <1>2, <1>3, <1>4, <1>5, <1>6, NextCases DEF ItemsWork, Outside

LEMMA KeepsHeldManaged ==
    ASSUME IInv, Next
    PROVE  HeldIsManaged'
<1>. TypeOK /\ AtRest /\ ItemsAreAskedFor /\ ContainerIsAskedFor /\ OpsAreDesired
     /\ HeldIsManaged /\ DeclaredIsManaged
  BY DEF IInv, Operating, Managing
<1>. DEFINE Managed(a) == a # Null /\ ((IF a \in {None, Null} THEN {} ELSE In(a)) \subseteq managed')
<1>1. managed \subseteq managed'
  BY KeepsDeclaredManaged
<1>2. kind' = kind
  BY BeginStep, UserStep, OutsideStep, ItemsGoOn, ContainerGoesOn, NextCases
     DEF End, handling, standing
<1>. SUFFICES ASSUME ~kind.nullWhenEmpty
              PROVE  /\ Managed(state'.items)
                     /\ \A o \in ops' : o.value = Null => o.key \in managed'
                     /\ \A i \in DOMAIN pending' : \A o \in pending'[i] :
                            o.value = Null => o.key \in managed'
  BY <1>2 DEF HeldIsManaged, OnlyManaged, Held, In
<1>3. /\ Managed(state.items)
      /\ \A o \in ops : o.value = Null => o.key \in managed
      /\ \A i \in DOMAIN pending : \A o \in pending[i] : o.value = Null => o.key \in managed
  BY <1>1 DEF HeldIsManaged, OnlyManaged, Held
\* The batches that were accepted.
<1>4. \A i \in DOMAIN pending' : \A o \in pending'[i] : o.value = Null => o.key \in managed'
  <2>1. CASE \A i \in DOMAIN pending' : \E j \in DOMAIN pending : pending'[i] = pending[j]
    BY <1>1, <1>3, <2>1
  <2>2. CASE pending' = Append(pending, ops)
    <3>1. \A i \in DOMAIN pending' : pending'[i] = ops
                                     \/ (i \in DOMAIN pending /\ pending'[i] = pending[i])
      BY <2>2, AppendProperties, LenProperties DEF TypeOK
    <3>. QED  BY <1>1, <1>3, <3>1
  <2>. QED  BY <2>1, <2>2, PendingSteps
\* The state.
<1>5. \A m, o \in Items : /\ Managed(None)
                          /\ In(m) \subseteq managed' => Managed(m)
                          /\ In(o) \subseteq managed' => Managed(Filter(m, o))
                          /\ Flatten(m) = m
  <2>1. \A m \in Items : m # Null /\ m # None
    BY Markers
  <2>2. \A m, o \in Items : Filter(m, o) \in Items /\ In(Filter(m, o)) \subseteq In(o)
    BY ItemsTyped, Markers DEF In
  <2>. QED  BY <2>1, <2>2, Markers DEF Flatten
<1>6. running => Declared \subseteq managed'
  BY <1>1 DEF DeclaredIsManaged
<1>. HIDE DEF Managed
<1>7. Managed(state'.items)
  <2>1. CASE state'.items \in {state.items, None}
    BY <1>3, <1>5, <2>1, ItemsTyped
  <2>2. ASSUME NEW m \in Items, state'.items = Flatten(m), In(m) \subseteq managed'
        PROVE  Managed(state'.items)
    BY <1>5, <2>2
  <2>3. ASSUME NEW m \in Items, NEW o \in Items, state'.items = Flatten(Filter(m, o)),
               In(o) \subseteq managed'
        PROVE  Managed(state'.items)
    BY <1>5, <2>3, ItemsTyped
  <2>4. state.items # None =>
          state.items \in Items /\ state.items # Null /\ In(state.items) \subseteq managed'
    BY <1>1, Fields DEF HeldIsManaged, Held
  <2>5. CASE Begin
    <3>1. state'.items = RefreshedItems
      BY <2>5, BeginStep
    <3>2. CASE RefreshedItems = None
      BY <2>1, <3>1, <3>2
    <3>3. CASE RefreshedItems # None
      <4>1. /\ RefreshedItems = Flatten(Filter(store, state.items))
            /\ store \in Items /\ state.items # None
        BY <2>4, <3>3 DEF RefreshedItems, TypeOK
      <4>. QED  BY <2>3, <2>4, <3>1, <4>1
    <3>. QED  BY <3>2, <3>3
  <2>6. CASE Import
    <3>1. state'.items = Flatten(store) /\ store \in Items /\ In(store) \subseteq managed'
      BY <2>6 DEF Import, TypeOK
    <3>. QED  BY <2>2, <3>1
  <2>7. CASE Save \/ WaitFindsNone \/ TimesOut \/ Reread
    <3>1. running
      BY <2>7, ItemsGoOn DEF ItemsWork
    <3>2. ASSUME config.items # None PROVE config.items \in Items /\ In(config.items) \subseteq managed'
      BY <1>6, <3>1, <3>2, Fields DEF Declared
    <3>3. job["items"] \in {"none", "create", "update", "delete"}
          /\ (job["items"] \in {"create", "update"} => config.items # None)
      BY Fields DEF ItemsAreAskedFor, TypeOK
    <3>4. \/ state'.items \in {state.items, None}
          \/ config.items # None /\ state'.items = Flatten(config.items)
          \/ /\ store # None /\ config.items \in Items
             /\ state'.items = Flatten(Filter(store, config.items))
      BY <2>7, <3>3, EndStep
    <3>. QED  BY <2>1, <2>2, <2>3, <3>2, <3>4, Markers DEF TypeOK
  <2>8. CASE List \/ Send \/ ItemsCallFails
    BY <2>1, <2>8, ListStep, SendStep, ItemsFailStep
  <2>9. CASE End \/ Edit
    BY <2>1, <2>9 DEF End, Edit
  <2>10. CASE Outside
    BY <2>1, <2>10, OutsideStep DEF handling
  <2>11. CASE ContainerWork
    BY <2>1, <2>11, ContainerGoesOn
  <2>. QED  BY <2>5, <2>6, <2>7, <2>8, <2>9, <2>10, <2>11, NextCases DEF ItemsWork, User
\* The operations.
<1>8. \A o \in ops' : o.value = Null => o.key \in managed'
  <2>1. ASSUME ops' \subseteq ops PROVE \A o \in ops' : o.value = Null => o.key \in managed'
    BY <1>1, <1>3, <2>1
  <2>2. CASE Begin \/ End \/ User
    BY <2>1, <2>2, BeginStep, UserStep DEF End
  <2>3. CASE Outside
    BY <2>1, <2>3, OutsideStep DEF handling
  <2>4. CASE ContainerWork
    BY <2>1, <2>4, ContainerGoesOn
  <2>5. CASE Send \/ ItemsCallFails
    BY <2>1, <2>5, SendStep, ItemsFailStep
  <2>6. CASE Save \/ WaitFindsNone \/ TimesOut \/ Reread
    BY <2>1, <2>6, EndStep
  <2>7. CASE List
    <3>1. CASE store = None
      BY <2>1, <2>7, <3>1, ListStep
    <3>2. CASE store # None
      <4>1. /\ ops' = Batch(store, Owned, Desired) /\ store \in Items
            /\ Owned \in Items /\ Desired \in Items /\ job["items"] # "none"
        BY <2>7, <3>2, ListStep DEF TypeOK
      <4>2. In(Owned) \subseteq managed'
        <5>1. CASE job["items"] = "create"
          BY <5>1, ItemsTyped, Fields DEF Owned
        <5>2. CASE job["items"] # "create"
          <6>1. state.items # None
            BY <4>1, <5>2, Fields DEF ItemsAreAskedFor, TypeOK
          <6>. QED  BY <1>1, <5>2, <6>1, Fields DEF Owned, Expand, HeldIsManaged, Held
        <5>. QED  BY <5>1, <5>2
      <4>3. \A o \in ops' : o.value = Null => o.op = "delete"
        BY <4>1, BatchIsDesired DEF Op
      <4>. QED  BY <4>1, <4>2, <4>3, BatchIsDesired
    <3>. QED  BY <3>1, <3>2
  <2>. QED  BY <2>2, <2>3, <2>4, <2>5, <2>6, <2>7, NextCases DEF ItemsWork
<1>. QED  BY <1>4, <1>7, <1>8

---------------------------------------------------------------------------
(* The container.                                                          *)

\* Only an apply of the container, or others, make one.
LEMMA StoreAppears ==
    ASSUME IInv, Next, store = None, store' # None
    PROVE  \/ Others
           \/ job["container"] = "create" /\ state'.container = config.force /\ UNCHANGED config
<1>. TypeOK /\ AtRest /\ ItemsAreAskedFor /\ ContainerIsAskedFor /\ OpsAreDesired
  BY DEF IInv, Operating
<1>1. CASE Begin \/ End \/ User
  BY <1>1, BeginStep, UserStep DEF End
<1>2. CASE ItemsWork
  BY <1>2, ItemsGoOn
<1>3. CASE ContainerWork
  BY <1>3, ContainerGoesOn DEF Removed, standing
<1>4. CASE ApplyPending
  BY <1>4 DEF ApplyPending
<1>. QED  BY <1>1, <1>2, <1>3, <1>4, NextCases DEF Outside

LEMMA StateSteps ==
    ASSUME IInv, Next
    PROVE  /\ kind' = kind
           /\ \/ state'.container = state.container
              \/ Begin
              \/ WriteContainer /\ state'.container = config.force
              \/ DeleteContainer /\ store' = None
<1>. TypeOK /\ AtRest /\ ContainerIsAskedFor
  BY DEF IInv, Operating
<1>1. CASE Begin
  BY <1>1, BeginStep
<1>2. CASE End
  BY <1>2 DEF End
<1>3. CASE User
  BY <1>3 DEF User, Edit, Import, TypeOK
<1>4. CASE Outside
  BY <1>4, OutsideStep DEF handling
<1>5. CASE ItemsWork
  BY <1>5, ItemsGoOn DEF standing
<1>6. CASE ContainerWork
  <2>1. kind' = kind
    BY <1>6, ContainerGoesOn DEF standing
  <2>2. CASE Guard \/ Purge \/ ContainerCallFails
    BY <2>1, <2>2 DEF Guard, Purge, ContainerCallFails
  <2>3. CASE WriteContainer
    BY <2>1, <2>3 DEF WriteContainer, TypeOK
  <2>4. CASE DeleteContainer
    BY <2>1, <2>4 DEF DeleteContainer, Removed
  <2>. QED  BY <1>6, <2>2, <2>3, <2>4 DEF ContainerWork
<1>. QED  BY <1>1, <1>2, <1>3, <1>4, <1>5, <1>6, NextCases

LEMMA KeepsContainerKnown ==
    ASSUME IInv, Next
    PROVE  ContainerIsKnown'
<1>. TypeOK /\ ContainerIsKnown
  BY DEF IInv, Guarding
<1>. SUFFICES ASSUME ~kind.nested, store' # None PROVE state'.container # None
  BY StateSteps DEF ContainerIsKnown
<1>1. CASE store = None
  BY <1>1, StoreAppears, Fields, Markers DEF Others
<1>2. CASE store # None
  <2>1. state.container # None
    BY <1>2 DEF ContainerIsKnown
  <2>2. CASE Begin
    BY <1>2, <2>1, <2>2, BeginStep DEF RefreshedContainer
  <2>3. CASE ~Begin
    BY <2>1, <2>3, StateSteps, Fields, Markers
  <2>. QED  BY <2>2, <2>3
<1>. QED  BY <1>1, <1>2

\* What can become of a container that is to be deleted.
LEMMA LateSteps ==
    ASSUME IInv, Next, ~Begin
    PROVE  /\ Others => late'
           /\ late => late'
           /\ ApplyPending => kind.guard = "none" /\ store # None
<1>. TypeOK /\ AtRest /\ ContainerIsAskedFor
  BY DEF IInv, Operating
<1>1. ApplyPending => kind.guard = "none" /\ store # None
  BY DEF ApplyPending, IInv, Guarding, GuardedIsNotLate
<1>2. Others => late'
  BY DEF Others
<1>3. late => late'
  BY UserStep, ItemsGoOn, ContainerGoesOn, NextCases
     DEF End, standing, Outside, Others, ApplyPending
<1>. QED  BY <1>1, <1>2, <1>3

LEMMA KeepsDeletesKnown ==
    ASSUME IInv, Next
    PROVE  DeletesTheKnown'
<1>. TypeOK /\ AtRest /\ ContainerIsAskedFor /\ DeletesTheKnown
  BY DEF IInv, Operating, Guarding
<1>. SUFFICES ASSUME job'["container"] = "delete", state'.container = None, ~late'
              PROVE  store' = None
  BY Dots DEF DeletesTheKnown
<1>1. CASE Begin
  <2>1. state'.container = RefreshedContainer /\ store' = store
        /\ (job'["container"] = Operation(RefreshedContainer, config.present,
                                          RefreshedContainer = config.force) \/ kind.nested)
    BY <1>1, BeginStep DEF ContainerPlanned
  <2>2. kind.nested
    BY <2>1, OperationTyped, Fields
  <2>. QED  BY <2>1, <2>2, Markers DEF RefreshedContainer
<1>2. CASE ~Begin
  <2>1. job["container"] = "delete"
    BY <1>2, SameContainerOperation
  <2>2. ~WriteContainer
    BY <2>1, Fields DEF WriteContainer
  <2>3. store' = None \/ state.container = None
    BY <1>2, <2>2, StateSteps
  <2>4. store' = None \/ store = None
    BY <1>2, <2>1, <2>3, LateSteps, Fields DEF DeletesTheKnown
  <2>. QED  BY <1>2, <2>1, <2>4, StoreAppears, LateSteps
<1>. QED  BY <1>1, <1>2

\* The items of a container that is being deleted change only by its
\* deletion, or by others.
LEMMA DeletedSteps ==
    ASSUME IInv, Next, ~Begin, job["container"] = "delete", job["items"] = "none",
           kind.guard # "none", ~late'
    PROVE  \/ store' = store
           \/ store' \in {None, NoItems} /\ stage["container"] # "guard"
<1>. TypeOK /\ AtRest /\ ItemsAreAskedFor /\ ContainerIsAskedFor
  BY DEF IInv, Operating
<1>1. CASE End \/ User
  BY <1>1, UserStep DEF End
<1>2. CASE ItemsWork
  BY <1>2, ItemsGoOn
<1>3. CASE ContainerWork
  BY <1>3, ContainerGoesOn DEF Removed
<1>4. CASE Outside
  BY <1>4, LateSteps DEF Outside
<1>. QED  BY <1>1, <1>2, <1>3, <1>4, NextCases

LEMMA KeepsGuardSeen ==
    ASSUME IInv, Next
    PROVE  GuardHasSeen'
<1>. TypeOK /\ AtRest /\ ContainerIsAskedFor /\ DeletesTheKnown /\ GuardHasSeen
  BY DEF IInv, Operating, Guarding
<1>0. kind' = kind
  BY StateSteps
<1>. SUFFICES ASSUME kind.guard # "none", job'["container"] = "delete", stage'["container"] # "guard"
              PROVE  /\ job'["items"] = "none"
                     /\ state'.container = TRUE \/ late' \/ store' \in {None, NoItems}
  BY <1>0, Dots DEF GuardHasSeen, Forced, NoItems
<1>1. CASE Begin
  BY <1>1, BeginStep
<1>2. CASE ~Begin
  <2>1. job["container"] = "delete" /\ job'["items"] \in {"none", job["items"]}
    BY <1>2, SameContainerOperation
  <2>2. job["items"] = "none" /\ (Forced \/ late \/ store \in {None, NoItems})
    <3>1. CASE stage["container"] # "guard"
      BY <2>1, <3>1, Fields DEF GuardHasSeen
    <3>2. CASE stage["container"] = "guard"
      <4>1. Guard /\ ~Refused
        BY <1>2, <3>2, ContainerStageSteps, Fields DEF Purge
      <4>2. job["items"] = "none"
        BY <2>1, <4>1, Fields DEF Guard, MayGo
      <4>. QED  BY <2>1, <4>1, <4>2, Fields DEF Refused, DeletesTheKnown
    <3>. QED  BY <3>1, <3>2
  <2>3. state'.container = state.container
    <3>1. ~WriteContainer
      BY <2>1, Fields DEF WriteContainer
    <3>2. DeleteContainer => state' = state
      BY Fields DEF DeleteContainer, TypeOK
    <3>. QED  BY <1>2, <3>1, <3>2, StateSteps
  <2>. QED  BY <1>2, <2>1, <2>2, <2>3, DeletedSteps, LateSteps DEF Forced
<1>. QED  BY <1>1, <1>2

LEMMA KeepsGuardedNotLate ==
    ASSUME IInv, Next
    PROVE  GuardedIsNotLate'
<1>. TypeOK /\ GuardedIsNotLate
  BY DEF IInv, Guarding
<1>1. kind' = kind
  BY StateSteps
<1>2. ASSUME kind.guard # "none", pending = <<>> PROVE pending' = <<>>
  <2>1. \A i \in DOMAIN pending' : \E j \in DOMAIN pending : pending'[i] = pending[j]
    BY <1>2, PendingSteps, Fields
  <2>2. pending' \in Seq(SUBSET Op)
    <3>1. TypeOK'
      BY NextTyped DEF IInv, Operating
    <3>. QED  BY <3>1 DEF TypeOK
  <2>3. pending \in Seq(SUBSET Op) /\ Len(pending) = 0
    BY <1>2, EmptySeq DEF TypeOK
  <2>4. ~\E j \in DOMAIN pending : TRUE
    BY <2>3, LenProperties
  <2>5. pending' # <<>> => 1 \in DOMAIN pending'
    BY <2>2, EmptySeq, LenProperties
  <2>. QED  BY <2>1, <2>4, <2>5
<1>. QED  BY <1>1, <1>2 DEF GuardedIsNotLate

---------------------------------------------------------------------------
(* The theorems.                                                           *)

LEMMA InitInv == Init => IInv
<1>. SUFFICES ASSUME Init PROVE IInv
  OBVIOUS
<1>1. TypeOK
  BY InitTyped
<1>2. /\ pending = <<>> /\ ops = {} /\ failed = {} /\ written = {} /\ running = FALSE
      /\ applied = FALSE /\ job["items"] = "none" /\ job["container"] = "none"
      /\ stage["items"] = "call" /\ stage["container"] = "call"
  BY DEF Init, Resources
<1>3. state.container = config.force /\ state.items = None
  BY DEF Init
<1>4. Operating
  <2>1. \A r \in Resources : job[r] = "none"
    BY DEF Init
  <2>. QED  BY <1>1, <1>2, <2>1, Fields
            DEF Operating, AtRest, ItemsAreAskedFor, ContainerIsAskedFor, OpsAreDesired,
                WaitsForLast, Handled
<1>5. Knowing
  BY <1>2 DEF Knowing, WrittenIsThere, WrittenIsKnown, StateAsConfigured, DeclaredIsThere,
              AppliedStays
<1>6. Managing
  <2>1. DOMAIN pending = {}
    BY <1>2
  <2>. QED  BY <1>2, <1>3, <2>1, Markers DEF Managing, HeldIsManaged, DeclaredIsManaged, Held, OnlyManaged
<1>7. Guarding
  BY <1>1, <1>2, <1>3, Fields, Markers
     DEF Guarding, ContainerIsKnown, DeletesTheKnown, GuardHasSeen, GuardedIsNotLate
<1>. QED  BY <1>1, <1>4, <1>5, <1>6, <1>7 DEF IInv

LEMMA StutterInv == IInv /\ UNCHANGED vars => IInv'
<1>. SUFFICES ASSUME IInv, UNCHANGED vars PROVE IInv'
  OBVIOUS
<1>1. TypeOK'
  BY NextTyped DEF IInv, Operating
<1>. USE DEF vars
<1>2. Operating'
  BY DEF IInv, Operating, AtRest, ItemsAreAskedFor, ContainerIsAskedFor, OpsAreDesired,
         WaitsForLast, Handled, Desired, NoItems
<1>3. Knowing'
  BY DEF IInv, Knowing, WrittenIsThere, WrittenIsKnown, StateAsConfigured, DeclaredIsThere,
         AppliedStays, Declared, Deletions, Held, Handled, AsConfigured, Flatten, NoItems, In
<1>4. Managing'
  BY DEF IInv, Managing, HeldIsManaged, DeclaredIsManaged, Held, OnlyManaged, Declared, In
<1>5. Guarding'
  BY DEF IInv, Guarding, ContainerIsKnown, DeletesTheKnown, GuardHasSeen, GuardedIsNotLate,
         Forced, NoItems
<1>. QED  BY <1>1, <1>2, <1>3, <1>4, <1>5 DEF IInv

LEMMA NextInv == IInv /\ [Next]_vars => IInv'
<1>1. ASSUME IInv, Next PROVE IInv'
  <2>1. TypeOK'
    BY <1>1, NextTyped DEF IInv, Operating
  <2>2. Operating'
    BY <1>1, KeepsAtRest, KeepsItemsAskedFor, KeepsContainerAskedFor, KeepsOpsDesired,
       KeepsWaitsForLast DEF Operating
  <2>3. Knowing'
    BY <1>1, KeepsWrittenThere, KeepsWrittenKnown, KeepsStateConfigured, KeepsDeclaredThere,
       KeepsAppliedStays DEF Knowing
  <2>4. Managing'
    BY <1>1, KeepsHeldManaged, KeepsDeclaredManaged DEF Managing
  <2>5. Guarding'
    BY <1>1, KeepsContainerKnown, KeepsDeletesKnown, KeepsGuardSeen, KeepsGuardedNotLate
       DEF Guarding
  <2>. QED  BY <2>1, <2>2, <2>3, <2>4, <2>5 DEF IInv
<1>. QED  BY <1>1, StutterInv

\* What a batch takes away.
LEMMA BatchTakes ==
    ASSUME TypeOK, store # None, NEW batch \in SUBSET Op, OnlyManaged(batch), NEW k \in Keys,
           store[k] # Null, ApplyBatch(store, batch)[k] = Null
    PROVE  k \in managed
<1>1. store \in Items
  BY DEF TypeOK
<1>2. PICK o \in batch : o.key = k /\ ApplyBatch(store, batch)[k] = o.value
  BY <1>1, BatchApplied
<1>. QED  BY <1>2 DEF OnlyManaged

LEMMA OthersWrite == TypeOK /\ Others => writes' # writes
BY Bounds DEF TypeOK, Others

\* What the operations do for the configuration, what the state and the
\* histories know of the items, and what the guard has seen, in every step of
\* an apply, of the API and of others.
THEOREM ItemsInvariance == Spec => []IInv
BY InitInv, NextInv, PTL DEF Spec

\* Every variable keeps its type; a batch that deletes a key has no value for it.
THEOREM ItemsTypeCorrect == Spec => []TypeOK
<1>1. IInv => TypeOK
  BY DEF IInv
<1>. QED  BY <1>1, ItemsInvariance, PTL

\* After an apply without errors the declared items are in the container, and
\* of what the resource wrote only they, and what a failed operation left.
THEOREM AppliesItems == Spec => []AppliedIsThere
<1>1. IInv => AppliedIsThere
  BY DEF IInv, Knowing, AppliedStays, AppliedIsThere
<1>. QED  BY <1>1, ItemsInvariance, PTL

\* Items of keys that the configuration never declared are left to others by
\* every step of an operation on the items, failed and late ones included.
THEOREM LeavesTheirs == Spec => LeavesOthersItems
<1>1. ASSUME IInv, [Next]_vars, ~kind.nullWhenEmpty, writes' = writes, job.items # "none"
      PROVE  TheirsGone \subseteq managed
  <2>. TypeOK /\ AtRest /\ ItemsAreAskedFor /\ ContainerIsAskedFor /\ OpsAreDesired /\ HeldIsManaged
    BY <1>1 DEF IInv, Operating, Managing
  <2>. SUFFICES ASSUME NEW k \in Keys, store # None, store[k] # Null,
                       store' = None \/ store'[k] = Null
                PROVE  k \in managed
    BY DEF TheirsGone
  <2>1. store \in Items /\ running /\ job["items"] # "none"
    BY <1>1, Fields DEF TypeOK, AtRest
  <2>2. store' # store
    BY <2>1, Markers
  <2>3. ASSUME NEW batch \in SUBSET Op, OnlyManaged(batch), store' = ApplyBatch(store, batch)
        PROVE  k \in managed
    <3>1. store' # None
      BY <2>1, <2>3, BatchApplied, Markers
    <3>. QED  BY <2>3, <3>1, BatchTakes
  <2>4. CASE UNCHANGED vars
    BY <2>2, <2>4 DEF vars
  <2>5. CASE Begin \/ End \/ User
    BY <2>1, <2>2, <2>5, UserStep DEF Begin, End
  <2>6. CASE ContainerWork
    BY <2>1, <2>2, <2>6, ContainerGoesOn
  <2>7. CASE Others
    BY <1>1, <2>7, OthersWrite
  <2>8. CASE ApplyPending
    <3>1. /\ pending \in Seq(SUBSET Op) /\ pending # <<>>
          /\ store' = ApplyBatch(store, Head(pending))
      BY <2>8 DEF ApplyPending, TypeOK
    <3>2. 1 \in DOMAIN pending /\ Head(pending) = pending[1] /\ Head(pending) \in SUBSET Op
      BY <3>1, HeadTailProperties, EmptySeq, LenProperties
    <3>3. OnlyManaged(Head(pending))
      BY <1>1, <3>2 DEF HeldIsManaged
    <3>. QED  BY <2>3, <3>1, <3>2, <3>3
  <2>9. CASE Send \/ ItemsCallFails
    <3>1. store' = ApplyBatch(store, Sending)
      BY <2>2, <2>9, SendStep, ItemsFailStep
    <3>2. Sending \in SUBSET Op /\ OnlyManaged(Sending)
      BY <1>1, SendingTyped DEF HeldIsManaged, OnlyManaged
    <3>. QED  BY <2>3, <3>1, <3>2
  <2>10. CASE List \/ Save \/ WaitFindsNone \/ TimesOut \/ Reread
    BY <2>2, <2>10, ListStep, EndStep
  <2>. QED
    BY <1>1, <2>4, <2>5, <2>6, <2>7, <2>8, <2>9, <2>10, NextCases DEF ItemsWork, Outside
<1>. QED  BY <1>1, ItemsInvariance, PTL DEF Spec, LeavesOthersItems

\* A container with a guard that is deleted with items in it was applied with
\* `force_destroy`, or others wrote to it, or made it, after the plan.
THEOREM DestroysEmptyOrForced == Spec => DestroyedEmptyOrForced
<1>1. ASSUME IInv, [Next]_vars, writes' = writes, job.container = "delete", job.items = "none",
             kind.guard # "none", ~Forced, ~late
      PROVE  TheirsGone = {}
  <2>. TypeOK /\ AtRest /\ ItemsAreAskedFor /\ ContainerIsAskedFor /\ OpsAreDesired /\ GuardHasSeen
    BY <1>1 DEF IInv, Operating, Guarding
  <2>1. running /\ job["container"] = "delete" /\ job["items"] = "none"
    BY <1>1, Fields DEF AtRest
  <2>2. CASE UNCHANGED vars
    BY <2>2, Markers DEF vars, TheirsGone, TypeOK
  <2>3. CASE Next
    <3>1. ~Begin /\ ~Others
      BY <1>1, <2>1, OthersWrite DEF Begin
    <3>2. late' = late
      BY <1>1, <2>3, <3>1, LateSteps, UserStep, ItemsGoOn, ContainerGoesOn, NextCases
         DEF End, standing, Outside
    <3>3. store' = store \/ stage["container"] # "guard"
      BY <1>1, <2>1, <2>3, <3>1, <3>2, DeletedSteps
    <3>4. stage["container"] # "guard" => store \in {None, NoItems}
      BY <1>1, <2>1, Fields DEF GuardHasSeen
    <3>5. store \in {None, NoItems} => TheirsGone = {}
      BY DEF TheirsGone, NoItems
    <3>6. store' = store => TheirsGone = {}
      BY DEF TheirsGone
    <3>. QED  BY <3>3, <3>4, <3>5, <3>6
  <2>. QED  BY <1>1, <2>2, <2>3
<1>2. IInv /\ [Next]_vars =>
        [/\ writes' = writes /\ job.container = "delete" /\ job.items = "none"
         /\ kind.guard # "none" /\ TheirsGone # {}
         => Forced \/ late]_vars
  BY <1>1
<1>. QED  BY <1>2, ItemsInvariance, PTL DEF Spec, DestroyedEmptyOrForced
=============================================================================
