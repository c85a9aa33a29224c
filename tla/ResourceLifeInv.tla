-------------------------- MODULE ResourceLifeInv --------------------------
(***************************************************************************)
(* The inductive invariant of ResourceLife: what the steps a handler has   *)
(* before it know of the object and of the plan.                           *)
(***************************************************************************)
EXTENDS ResourceLife

\* A plan without a value is a deletion; one that leaves it to the API is of an
\* attribute the API chooses.
PlanIsAsked ==
    /\ running => (planned = None <=> config = None)
    /\ planned = None => \A i \in DOMAIN todo : todo[i] \in {"get", "delete", "reconcile"}
    /\ planned = Unknown => unit.schema \in Choosing
    /\ ~running => todo = <<>>

AnswerIsThere == answer = None => Answered(todo)

\* An object is created first of all or after the one before it was deleted, and
\* recorded before anything else may fail.
PostsFollowRemovals(s) ==
    \A i \in DOMAIN s : i > 1 /\ s[i] = "post" => s[i - 1] \in {"delete", "drop"}

PostsAreRecorded(s) == \A i \in DOMAIN s : s[i] = "post" => RecordsFrom(s, i + 1)

Heard == ~unheard /\ unit \notin Lossy

\* An object that is not in the state is about to be recorded, and there is none
\* when one is created.
ObjectIsKnown ==
    Heard =>
        /\ ~unknown
        /\ todo # <<>> /\ todo[1] = "post" => remote = None
        /\ remote # None /\ state = None => RecordsFrom(todo, 1)

InHand ==
    /\ unit \in Units
    /\ PlanIsAsked
    /\ AnswerIsThere
    /\ PostsFollowRemovals(todo)
    /\ unit \notin Lossy => PostsAreRecorded(todo)
    /\ ObjectIsKnown

IInv == TypeOK /\ InHand

---------------------------------------------------------------------------
(* The values: how the object, the state and the answer stand to what is   *)
(* planned while the steps of a program are done.                          *)

\* The unit, the configuration and the plan of the apply.
Wish == config \in Wishes(unit) /\ planned = Plan(unit, config)

\* Steps at the beginning of a program, and those that end one.
Opening == {"put", "change", "keep", "reconcile"}
Closing == {"save", "keep", "delete", "reconcile"}

\* What is written is read and stored; what could not be sent is attached next; what is
\* removed is created anew, unless it was to be deleted.
ShapeAt(s, i) ==
    /\ s[i] \in {"post", "put", "change", "attach", "record", "save"} =>
        \A j \in i + 1 .. Len(s) : s[j] \in Answering
    /\ s[i] \in {"post", "put", "change"} /\ unit.update = "attached" =>
        i + 1 \in DOMAIN s /\ s[i + 1] = "attach"
    /\ s[i] = "post" /\ unit.create = "attached" =>
        i + 1 \in DOMAIN s /\ s[i + 1] = "attach"
    /\ i > 1 => s[i] \notin Opening
    /\ s[i] \in {"keep", "reconcile"} => i = Len(s)
    /\ s[i] \in {"delete", "drop"} /\ i # Len(s) => s[i + 1] = "post"
    /\ s[i] = "reconcile" <=> Nested(unit)

Shape(s) ==
    /\ s # <<>> => s[Len(s)] \in Closing
    /\ \A i \in DOMAIN s : ShapeAt(s, i)

\* All that is left is to take the answer.
Taking(s) == s # <<>> /\ \A i \in DOMAIN s : s[i] \in Answering

ObjectsAreKnown ==
    /\ config \in Configurable(unit.schema) \cup {None}
    /\ Nested(unit) /\ Mute(unit) => config \in {None, Null}
    /\ remote \in Objects(unit) \cup {None}

\* Either the plan is carried out, or only a deletion that leads to nothing is left.
PlanIsMade ==
    todo # <<>> /\ config # None =>
        \/ verdict = "failed" /\ \A i \in DOMAIN todo : todo[i] \in {"get", "delete"}
        \/ verdict # "failed" /\ Wish /\ todo[Len(todo)] # "delete"

\* An object that others have not deleted meanwhile is as the refresh found it, and
\* not as it is planned.
IsDue ==
    /\ remote # None => Due(unit, config, remote, state.value)
    /\ state.value \in Value /\ planned \notin {state.value, Unknown}
    /\ remote = None => disturbed

UpdateIsDue ==
    todo # <<>> /\ todo[1] \in {"put", "change", "keep"} =>
        /\ state # None /\ IsDue
        /\ ~Replaces(unit, planned, state.value) /\ ~Recreates(unit, planned, state.value)
        /\ todo[1] = "keep" <=> unit.updating = <<"keep">>

BlockIsDue ==
    todo # <<>> /\ todo[1] = "reconcile" /\ config # None =>
        IF state = None THEN remote = None ELSE IsDue

\* The answer is the object, and storing it does what is planned.
AnswerStores ==
    Taking(todo) =>
        /\ remote \in {answer, None} /\ answer # None
        /\ remote = None => disturbed
        /\ config # None /\ verdict # "failed"
        /\ Stores(unit, config, Attachment(unit, planned, answer))
        /\ todo[1] # "attach" => Attachment(unit, planned, answer) = answer

\* What Read keeps is what was written last.
KeptIsMet ==
    Untold(unit) /\ ~unheard /\ state # None /\ remote # None /\ ~Taking(todo) =>
        Meets(unit, remote, state.value)

\* An apply that went well leaves nothing to do.
Done ==
    IF config = None
    THEN /\ state = None
         /\ remote # None => ~Nested(unit) /\ (unheard \/ unit \in Lossy)
    ELSE /\ remote # None /\ state # None
         /\ ~state.tainted /\ Settled(unit, config, remote, state.value)

WellDone ==
    /\ applied => ~running /\ Done
    /\ running /\ todo = <<>> /\ verdict = "ok" /\ ~disturbed => Done

InPlan ==
    /\ Shape(todo)
    /\ ObjectsAreKnown
    /\ PlanIsMade
    /\ UpdateIsDue
    /\ BlockIsDue
    /\ AnswerStores
    /\ KeptIsMet
    /\ Consistent
    /\ WellDone

VInv == IInv /\ InPlan
=============================================================================
