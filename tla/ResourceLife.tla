---------------------------- MODULE ResourceLife ----------------------------
(***************************************************************************)
(* The life of one remote object under Terraform, seen at one of its       *)
(* attributes: refreshed, planned, created, changed, replaced and deleted  *)
(* by the handlers of its kind, imported, and changed by others.  A call   *)
(* to the API may fail, or be carried out and its answer lost.             *)
(*                                                                         *)
(* An object is a resource of its own, or a block of an automatic service  *)
(* (place "block"): then the service's Update writes it into a draft and   *)
(* reads it back, and a failure leaves the active version as it was.       *)
(*                                                                         *)
(* Each attribute is followed alone, in a unit.                            *)
(***************************************************************************)
EXTENDS AttributeUnits, SequencesExt

CONSTANTS
    MaxFaults,  \* bound: calls that fail or whose answer is lost
    MaxEdits,   \* bound: edits of the configuration
    MaxDrifts   \* bound: changes by others

ASSUME LifeAssumption == MaxFaults \in Nat /\ MaxEdits \in Nat /\ MaxDrifts \in Nat

VARIABLES
    unit,
    config,   \* the attribute's value in the configuration; None: no resource block
    remote,   \* the object of the state or the name
    state,    \* [value, tainted]
    running,
    todo,     \* steps the handlers have before them
    creating, \* Create is running
    planned,  \* the attribute's value in the plan
    answer,   \* what the last call answered
    verdict,  \* of the apply: "ok", "failed", "inconsistent"
    applied,  \* history: nothing has happened since an apply without errors
    unknown,  \* history: an object was made and the state does not have it
    unheard,  \* history: the answer to a POST, or to a PUT of what Read keeps, was lost
    disturbed,\* history: others deleted the object during the apply
    faults, edits, drifts

vars == <<unit, config, remote, state, running, todo, creating, planned, answer,
          verdict, applied, unknown, unheard, disturbed, faults, edits, drifts>>

State == [value : Value \cup {Unknown}, tainted : BOOLEAN]

TypeOK ==
    /\ unit \in UnitType
    /\ config \in Value \cup {None}
    /\ remote \in Value \cup {None} /\ answer \in Value \cup {None}
    /\ state \in State \cup {None}
    /\ planned \in Value \cup {None, Unknown}
    /\ todo \in Seq(Steps \cup {"reconcile"})
    /\ verdict \in {"ok", "failed", "inconsistent"}
    /\ {running, creating, applied, unknown, unheard, disturbed} \subseteq BOOLEAN
    /\ faults \in 0 .. MaxFaults /\ edits \in 0 .. MaxEdits /\ drifts \in 0 .. MaxDrifts

---------------------------------------------------------------------------
(* Refresh and plan.                                                       *)

\* Mutation: an object that is gone stays in the state.
KeepsWhatIsGone ==
    IF remote = None THEN state ELSE [value |-> Read(unit, remote, Unknown), tainted |-> FALSE]

\* Mutation: what is known is forgotten when the object is read again.
ReadsAnew ==
    IF remote = None \/ (state = None /\ ~Nested(unit)) THEN None
    ELSE [value |-> Read(unit, remote, Unknown), tainted |-> state # None /\ state.tainted]

Refreshed ==
    IF remote = None THEN None
    ELSE IF Nested(unit)
    THEN [value |-> Read(unit, remote, IF state = None THEN Unknown ELSE state.value),
          tainted |-> FALSE]
    ELSE IF state = None THEN None
    ELSE [state EXCEPT !.value = Read(unit, remote, state.value)]

Wanted(known) ==
    Planned(unit.schema, config, IF known = None THEN Unknown ELSE known.value)

Operation(known) ==
    CASE config = None /\ known = None -> "none"
      [] config = None /\ known # None -> "delete"
      [] config # None /\ known = None -> "create"
      [] OTHER ->
            IF known.tainted \/ Replaces(unit, Wanted(known), known.value) THEN "replace"
            ELSE IF Wanted(known) # known.value THEN "update" ELSE "none"

\* ValidateNoVCLOnlyAttributesForCompute: asked before the first call.
Refused == unit.place = "computeResource" /\ unit.vclOnly /\ config \notin {None, Null}

Program(op, known) ==
    CASE op = "none" -> <<>>
      [] op # "none" /\ Nested(unit) -> <<"reconcile">>
      [] op = "create" /\ ~Nested(unit) -> unit.creating
      [] op = "update" /\ ~Nested(unit) ->
            IF Recreates(unit, Wanted(known), known.value) THEN <<"drop">> \o unit.creating
            ELSE unit.updating
      [] op = "delete" /\ ~Nested(unit) -> unit.deleting
      [] op = "replace" /\ ~Nested(unit) -> unit.deleting \o unit.creating

Init ==
    /\ unit \in Units
    /\ config \in Configurable(unit.schema)
    /\ Mute(unit) /\ Nested(unit) => config = Null
    /\ remote = None /\ state = None /\ answer = None /\ planned = None
    /\ running = FALSE /\ todo = <<>> /\ creating = FALSE
    /\ verdict = "ok" /\ applied = FALSE /\ unknown = FALSE /\ unheard = FALSE
    /\ disturbed = FALSE
    /\ faults = 0 /\ edits = 0 /\ drifts = 0

Begin ==
    /\ ~running
    /\ state' = Refreshed
    /\ LET op == Operation(Refreshed)
           refused == Refused /\ op \in {"create", "update", "replace"}
       IN  /\ todo' = IF ~refused THEN Program(op, Refreshed)
                      ELSE IF op = "replace" THEN unit.deleting ELSE <<>>
           /\ planned' = IF config = None THEN None
                         ELSE Wanted(IF op = "replace" THEN None ELSE Refreshed)
           /\ creating' = (op = "create")
           /\ verdict' = IF refused THEN "failed" ELSE "ok"
    /\ running' = TRUE
    /\ applied' = FALSE
    /\ answer' = None
    /\ disturbed' = FALSE
    /\ UNCHANGED <<unit, config, remote, unknown, unheard, faults, edits, drifts>>

End ==
    /\ running /\ todo = <<>>
    /\ running' = FALSE
    /\ applied' = (verdict = "ok" /\ ~disturbed)
    /\ UNCHANGED <<unit, config, remote, state, todo, creating, planned, answer, verdict,
                   unknown, unheard, disturbed, faults, edits, drifts>>

---------------------------------------------------------------------------
(* The steps of the handlers.                                              *)

At(step) == running /\ todo # <<>> /\ Head(todo) = step

standing == <<unit, config, running, planned, applied, disturbed, edits, drifts>>

Goes ==
    /\ todo' = Tail(todo)
    /\ UNCHANGED <<creating, verdict, faults>>

\* An error ends the handler; what Create has recorded until then is tainted.
Stops ==
    /\ todo' = <<>>
    /\ verdict' = "failed"
    /\ state' = IF creating /\ state # None THEN [state EXCEPT !.tainted = TRUE] ELSE state
    /\ UNCHANGED creating

Fault == faults < MaxFaults /\ faults' = faults + 1

\* A call is refused, or does not reach the API.
CallFails ==
    /\ \E step \in {"post", "get", "put", "change", "delete", "drop", "reconcile"} : At(step)
    /\ Fault
    /\ unheard' = (unheard \/ (At("get") /\ Untold(unit)))
    /\ Stops
    /\ UNCHANGED <<standing, remote, answer, unknown>>

\* A name that is taken is refused.
Post ==
    /\ At("post")
    /\ ~(unit.named /\ remote # None)
    /\ \E r \in CreateValue(unit, planned) :
        /\ remote' = r
        /\ answer' = r
    /\ unknown' = (unknown \/ remote # None)
    /\ creating' = (creating \/ state = None)
    /\ todo' = Tail(todo)
    /\ UNCHANGED <<standing, state, verdict, unheard, faults>>

PostConflicts ==
    /\ At("post")
    /\ unit.named /\ remote # None
    /\ Stops
    /\ UNCHANGED <<standing, remote, answer, unknown, unheard, faults>>

PostUnheard ==
    /\ At("post")
    /\ ~(unit.named /\ remote # None)
    /\ Fault
    /\ \E r \in CreateValue(unit, planned) : remote' = r
    /\ unheard' = TRUE
    /\ unknown' = (unknown \/ remote # None)
    /\ Stops
    /\ UNCHANGED <<standing, answer>>

Writing == At("put") \/ At("change")

\* The object may have been deleted by others meanwhile.
Put ==
    /\ Writing
    /\ remote # None
    /\ remote' \in UpdateValue(unit, planned, remote)
    /\ answer' = remote'
    /\ Goes
    /\ UNCHANGED <<standing, state, unknown, unheard>>

PutUnheard ==
    /\ Writing
    /\ remote # None
    /\ Fault
    /\ remote' \in UpdateValue(unit, planned, remote)
    /\ unheard' = (unheard \/ Untold(unit))
    /\ Stops
    /\ UNCHANGED <<standing, answer, unknown>>

Attach ==
    /\ At("attach")
    /\ remote # None
    /\ remote' = Attachment(unit, planned, remote)
    /\ answer' = remote'
    /\ Goes
    /\ UNCHANGED <<standing, state, unknown, unheard>>

\* When a later call fails, the object is stored: as it is by then if the handler
\* fetches it, else as the first call answered.
AttachFails ==
    /\ At("attach")
    /\ remote # None
    /\ unit.create = "attached" /\ unit.update # "attached" => planned \notin Empty
    /\ Fault
    /\ remote' \in {remote, Attachment(unit, planned, remote)}
    /\ LET r == IF "get" \in ToSet(todo) THEN remote' ELSE answer
       IN  state' = [value |-> Read(unit, r, planned), tainted |-> creating]
    /\ verdict' = "failed"
    /\ todo' = <<>>
    /\ UNCHANGED <<standing, creating, answer, unknown, unheard>>

\* Mutation: an empty answer is taken for an object.
GetUnguarded ==
    /\ At("get")
    /\ answer' = remote
    /\ Goes
    /\ UNCHANGED <<standing, remote, state, unknown, unheard>>

Get ==
    /\ At("get")
    /\ remote # None
    /\ answer' = remote
    /\ Goes
    /\ UNCHANGED <<standing, remote, state, unknown, unheard>>

NotFound ==
    /\ \E step \in {"attach", "get", "put", "drop"} : At(step)
    /\ remote = None
    /\ Stops
    /\ UNCHANGED <<standing, remote, answer, unknown, unheard, faults>>

\* Update takes what is gone out of the state, which Terraform reports.
Gone ==
    /\ At("change")
    /\ remote = None
    /\ state' = None
    /\ todo' = <<>>
    /\ verdict' = "failed"
    /\ UNCHANGED <<standing, remote, creating, answer, unknown, unheard, faults>>

\* Update deletes the object to create it anew.
Drop ==
    /\ At("drop")
    /\ remote # None
    /\ remote' = None
    /\ Goes
    /\ UNCHANGED <<standing, state, answer, unknown, unheard>>

\* Mutation: the id is forgotten.
RecordsNothing ==
    /\ At("record")
    /\ Goes
    /\ UNCHANGED <<standing, remote, state, answer, unknown, unheard>>

\* SetAttribute of the id: the object will be known whatever happens.
Record ==
    /\ At("record")
    /\ state' = [value |-> Null, tainted |-> FALSE]
    /\ Goes
    /\ UNCHANGED <<standing, remote, answer, unknown, unheard>>

\* Terraform compares the state with what was planned.
Judge(value) ==
    IF planned \in {Unknown, value} THEN verdict ELSE "inconsistent"

\* Mutation: the answer is read without the plan.
SavesBlind ==
    /\ At("save")
    /\ LET value == Read(unit, answer, Unknown) IN
        /\ verdict' = Judge(value)
        /\ state' = [value |-> value,
                     tainted |-> creating /\ verdict' = "inconsistent"]
    /\ todo' = Tail(todo)
    /\ UNCHANGED <<standing, remote, creating, answer, unknown, unheard, faults>>

Save ==
    /\ At("save")
    /\ LET value == Read(unit, answer, planned) IN
        /\ verdict' = Judge(value)
        /\ state' = [value |-> value,
                     tainted |-> creating /\ verdict' = "inconsistent"]
    /\ todo' = Tail(todo)
    /\ UNCHANGED <<standing, remote, creating, answer, unknown, unheard, faults>>

\* There is nothing to ask the API for: the state becomes the plan.
Keep ==
    /\ At("keep")
    /\ state' = [value |-> planned, tainted |-> FALSE]
    /\ Goes
    /\ UNCHANGED <<standing, remote, answer, unknown, unheard>>

\* An object that is gone is as good as deleted.
Delete ==
    /\ At("delete")
    /\ remote' = None
    /\ state' = None
    /\ Goes
    /\ UNCHANGED <<standing, answer, unknown, unheard>>

DeleteUnheard ==
    /\ At("delete") \/ At("drop")
    /\ Fault
    /\ remote' = None
    /\ Stops
    /\ UNCHANGED <<standing, answer, unknown, unheard>>

\* Mutation: a block of that name is left as it is.
HasTheName == state # None

\* No block differs: the service gets no draft.
AsWanted == state # None /\ SameModel(unit, planned, state.value)

\* The blocks of a draft are listed, changed where they differ, and read back.  A
\* service whose blocks are all as they were gets no draft.
Reconcile ==
    /\ At("reconcile")
    /\ IF config = None
       THEN remote' = None /\ state' = None /\ UNCHANGED verdict
       ELSE IF AsWanted
       THEN /\ state' = [value |-> IF planned = Unknown THEN state.value ELSE planned,
                         tainted |-> FALSE]
            /\ UNCHANGED <<remote, verdict>>
       ELSE /\ remote' \in Rewritten(unit, planned, remote,
                                     IF state = None THEN Unknown ELSE state.value)
            /\ state' = [value |-> Read(unit, remote', Taken(unit, planned)), tainted |-> FALSE]
            /\ verdict' = Judge(state'.value)
    /\ todo' = <<>>
    /\ UNCHANGED <<standing, creating, answer, unknown, unheard, faults>>

---------------------------------------------------------------------------
(* What is done around it.                                                 *)

EditConfig ==
    /\ ~running /\ edits < MaxEdits
    /\ config' \in Configurable(unit.schema) \cup {None}
    /\ Mute(unit) /\ Nested(unit) => config' \in {None, Null}
    /\ config' # config
    /\ edits' = edits + 1
    /\ applied' = FALSE
    /\ UNCHANGED <<unit, remote, state, running, todo, creating, planned, answer, verdict,
                   unknown, unheard, disturbed, faults, drifts>>

\* What others change of it is not noticed.
Unseen ==
    \/ Untold(unit)
    \/ unit.read = "unsetKept" /\ state # None /\ state.value \in Empty

\* Others change the object, or delete it; during an apply they only delete it.
Drift ==
    /\ drifts < MaxDrifts
    /\ remote # None
    /\ remote' \in (Configurable(unit.schema) \ {remote}) \cup {None}
    /\ running \/ Unseen => remote' = None
    /\ drifts' = drifts + 1
    /\ applied' = FALSE
    /\ disturbed' = running
    /\ UNCHANGED <<unit, config, state, running, todo, creating, planned, answer, verdict,
                   unknown, unheard, faults, edits>>

\* `terraform import` of an object that the state does not have.
Import ==
    /\ ~running /\ ~Nested(unit)
    /\ state = None /\ remote # None
    /\ state' = [value |-> Read(unit, remote, Unknown), tainted |-> FALSE]
    /\ applied' = FALSE
    /\ UNCHANGED <<unit, config, remote, running, todo, creating, planned, answer, verdict,
                   unknown, unheard, disturbed, faults, edits, drifts>>

Handlers ==
    \/ Post \/ PostConflicts \/ Attach \/ Put \/ Get \/ NotFound \/ Gone \/ Drop \/ Record
    \/ Save \/ Keep \/ Delete \/ Reconcile \/ End

Faults == CallFails \/ AttachFails \/ PostUnheard \/ PutUnheard \/ DeleteUnheard

Next == Begin \/ Handlers \/ Faults \/ EditConfig \/ Drift \/ Import

Spec == Init /\ [][Next]_vars

\* Terraform runs the handlers, the user applies again after an error, and imports
\* what the provider made and lost.
Fairness ==
    /\ WF_vars(Handlers)
    /\ WF_vars(Begin /\ ~applied)
    /\ SF_vars(Import /\ unit.named)

FairSpec == Spec /\ Fairness

---------------------------------------------------------------------------
(* Properties.                                                             *)

\* What the configuration leaves to the API, or keeps to itself, can be any.
Free(wanted) == MayBeAny(unit, wanted) \/ (Untold(unit) /\ unheard)

\* What Create and Update store is what was planned, so Terraform never stops with
\* "Provider produced inconsistent result after apply", and a second apply never
\* replaces an object because of it.
Consistent == verdict = "inconsistent" => Blank(unit, planned)

\* After an apply without errors the object has the configured value, or the default
\* if there is none: one that is taken out of the configuration is really cleared. With
\* nothing configured there is no object, but for one whose creation was never recorded.
AppliedIsRemote ==
    applied =>
        IF config = None THEN state = None /\ (unheard \/ unit \in Lossy \/ remote = None)
        ELSE remote # None /\ (Free(Wanted(state)) \/ Matches(unit, remote, Wanted(state)))

\* After it nothing is left to do.
Settles == applied /\ ~Blank(unit, config) => Operation(Refreshed) = "none"

\* An object whose creation was answered is in the state when the apply ends, so that
\* it can be read, repaired and destroyed; whatever fails after the answer. Lossy are the
\* kinds for which that is not so.
NothingIsOrphaned ==
    ~running /\ ~unheard /\ (unknown \/ (remote # None /\ state = None)) => unit \in Lossy

\* "Persist the created object immediately" (tlsmutualauthentication/resource.go:68-69): the
\* same of any kind. It does not hold of the Lossy ones, that one among them.
CreatedIsPersisted == ~running /\ ~unheard => ~unknown /\ (remote # None => state # None)

\* With faults, edits and others at an end, applying again ends without an error.
Converges == <>[](Refused \/ Blank(unit, config) \/ (~running => applied))
=============================================================================
