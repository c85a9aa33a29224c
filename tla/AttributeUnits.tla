--------------------------- MODULE AttributeUnits ---------------------------
(***************************************************************************)
(* An attribute of a kind at a place, with the handlers of its kind: a     *)
(* unit.  Attributes are sent and read one by one, so each can be followed *)
(* alone.                                                                  *)
(*                                                                         *)
(* A unit says what becomes of a value that is planned, sent, answered and *)
(* read.  What all units have in common is stated as assumptions, which    *)
(* TLC evaluates for those of the whole catalogue.                         *)
(***************************************************************************)
EXTENDS Attributes, Naturals, Sequences

CONSTANTS
    Units,
    Lossy,      \* those whose Create stores nothing until it has fetched the object
    None        \* no such object, state or configuration

Steps == {"post", "attach", "get", "record", "save", "put", "change", "keep", "delete", "drop"}
Places == {"resource", "computeResource", "block", "computeBlock"}

UnitType == [
    place : Places,
    schema : Schemas,
    replaces : BOOLEAN,  \* RequiresReplace
    replacesCleared : BOOLEAN, \* RequiresReplaceIf it is cleared
    create : Sends, update : Sends, read : Reads,
    compared : BOOLEAN,  \* ModelsEqual looks at it
    preserved : BOOLEAN, \* a block is read back with the plan at hand
    equals : {"plan", "previous", "nothing"}, \* what Equal has at hand
    cleared : BOOLEAN,   \* cleared by deleting and creating
    changed : BOOLEAN,   \* changed by deleting and creating
    vclOnly : BOOLEAN,   \* means nothing to a Compute service
    named : BOOLEAN,     \* the API finds the object by a name of the configuration
    creating : Seq(Steps), updating : Seq(Steps), deleting : Seq(Steps)]

ASSUME UnitsAssumption ==
    /\ Units \subseteq UnitType
    /\ Lossy \subseteq Units
    /\ None \notin Value \cup {Unknown} \cup [value : Value \cup {Unknown}, tainted : BOOLEAN]

\* An attribute of a kind, at a place.
UnitOf(kind, name, place) ==
    [place |-> place, schema |-> kind.schema[name],
     replaces |-> name \in kind.replaces,
     replacesCleared |-> name \in kind.replacesCleared,
     create |-> kind.create[name], update |-> kind.update[name], read |-> kind.state[name],
     compared |-> name \in kind.block.same,
     preserved |-> name \in kind.block.preserved,
     equals |-> IF name \in kind.block.remembered THEN "previous"
                ELSE IF name \in kind.block.preserved \ kind.block.blind THEN "plan"
                ELSE "nothing",
     cleared |-> name \in kind.block.cleared, changed |-> name \in kind.block.changed,
     vclOnly |-> name \in kind.vclOnly, named |-> kind.named,
     creating |-> kind.creating, updating |-> kind.updating, deleting |-> kind.deleting]

---------------------------------------------------------------------------
(* What a unit makes of the values of its attribute.                       *)

Nested(u) == u.place \in {"block", "computeBlock"}

\* Compute services have no VCL: the attribute is neither sent nor read.
Mute(u) == u.vclOnly /\ u.place \in {"computeResource", "computeBlock"}

\* Read keeps what the state has.
Untold(u) == u.read \in {"kept", "merged"}

\* flatten, and ResetVCLOnlyToDefaults for Compute.
Read(u, r, known) ==
    IF Mute(u) THEN DefaultOf(u.schema) ELSE ReadAs(u.read, u.schema, r, known)

\* What the API may hold after it was sent s: an omitted field gets its default, and
\* so does an empty list where the API has one.
Created(u, s) ==
    IF s # Omitted THEN {s} \cup (IF s = Zero /\ u.read = "unsetKept" THEN {Default} ELSE {})
    ELSE IF u.schema \in Choosing \cup {"sentinel"} THEN {Null, Zero, Other}
    ELSE {Null, IF u.read \in {"filledOrNull", "reconciled"} THEN Zero ELSE DefaultOf(u.schema)}

Updated(u, s, old) == IF s = Omitted THEN {old} ELSE Created(u, s)

CreateValue(u, p) == Created(u, IF Mute(u) THEN Omitted ELSE Sent(u.create, p))
UpdateValue(u, p, old) == Updated(u, IF Mute(u) THEN Omitted ELSE Sent(u.update, p), old)

\* What the calls that follow the first send.
Attachment(u, p, r) ==
    IF \/ u.update = "attached"
       \/ u.create = "attached" /\ p \notin Empty
    THEN p ELSE r

\* ModelsEqual
SameModel(u, a, b) == u.compared => SameValue(a, b)

Replaces(u, wanted, old) ==
    \/ u.replaces /\ wanted # old
    \/ u.replacesCleared /\ wanted \in Empty /\ old \notin Empty

\* UpdateOrRecreate
Recreates(u, wanted, known) ==
    \/ u.cleared /\ wanted \in Empty /\ known \notin Empty
    \/ u.changed /\ ~SameValue(wanted, known)

\* What a listed block is read with when it is stored, and when Equal compares it.
Taken(u, p) == IF u.preserved THEN p ELSE Unknown

Compared(u, p, previous) ==
    CASE u.equals = "plan" -> p
      [] u.equals = "previous" -> IF previous \in Empty THEN p ELSE Unknown
      [] u.equals = "nothing" -> Unknown

\* Run: what the block of a draft becomes.
Rewritten(u, p, r, previous) ==
    IF u.update = "attached" THEN {p}
    ELSE IF r = None THEN CreateValue(u, p)
    ELSE IF SameModel(u, p, Read(u, r, Compared(u, p, previous))) THEN {r}
    ELSE IF Recreates(u, p, r) THEN CreateValue(u, p)
    ELSE UpdateValue(u, p, r)

\* What the configuration leaves to the API, or keeps to itself, can be any.
MayBeAny(u, wanted) ==
    \/ wanted \in {Unset, Unknown} \/ Mute(u)
    \/ u.create = "never" /\ u.update = "never"
    \/ u.read = "kept" /\ wanted = Null
    \/ u.read = "unsetKept" /\ wanted \in Empty

\* A field the API has not set stands for what it is read as.
Matches(u, r, wanted) ==
    LET meant == IF r # Null THEN r ELSE IF u.read = "plain" THEN Zero ELSE DefaultOf(u.schema)
        exact == u.update \in {"clearing", "whole"} /\ u.read # "filledOrNull"
    IN  IF exact THEN meant = wanted ELSE SameValue(meant, wanted)

\* An attribute written as "" and read back as null, or not sent and chosen by the API,
\* is outside what the provider handles: Terraform stops each apply of it.
Blank(u, wanted) ==
    /\ wanted = Zero
    /\ \/ u.schema = "optional" /\ u.read = "filledOrNull"
       \/ u.schema = "computed" /\ u.create = "nonZero"

---------------------------------------------------------------------------
(* What the handlers of all kinds have in common.                          *)

\* From its i-th step on a handler records the object before anything else may end it.
RecordsFrom(s, i) ==
    \E j \in i .. Len(s) : s[j] \in {"record", "save"} /\ \A k \in i .. j - 1 : s[k] = "attach"

\* Steps that take an answer come after a call that has one.
Answered(s) ==
    \A j \in DOMAIN s : s[j] \in {"attach", "save"} =>
        \E i \in 1 .. j - 1 : s[i] \in {"post", "get", "put", "change"}

Answering == {"attach", "get", "record", "save"}

\* The first step writes; what it could not send is attached next; in the end the
\* answer is saved.
WritesFirst(s, writes, attaches) ==
    /\ Len(s) > 1 /\ s[1] \in writes /\ s[Len(s)] = "save"
    /\ \A i \in 2 .. Len(s) : s[i] \in Answering /\ (s[i] = "attach" => i = 2)
    /\ attaches => s[2] = "attach"

ASSUME HandlersAssumption == \A u \in Units :
    /\ WritesFirst(u.creating, {"post"}, "attached" \in {u.create, u.update})
    /\ u \notin Lossy => RecordsFrom(u.creating, 2)
    /\ \/ u.updating = <<"keep">>
       \/ WritesFirst(u.updating, {"put", "change"}, u.update = "attached")
    /\ u.deleting # <<>>
    /\ \A i \in DOMAIN u.deleting :
        u.deleting[i] = IF i = Len(u.deleting) THEN "delete" ELSE "get"
    /\ "explicit" \in {u.create, u.update} \/ u.update = "attached" => u.schema \notin Choosing

---------------------------------------------------------------------------
(* How the tables of a kind fit together.                                  *)

\* What is planned when nothing is known.
Plan(u, c) == Planned(u.schema, c, Unknown)

\* What the handlers are asked for.
Wishes(u) == IF Mute(u) THEN {Null} ELSE Configurable(u.schema)

\* What the API may hold.
Objects(u) == Configurable(u.schema) \cup UNION {CreateValue(u, Plan(u, c)) : c \in Wishes(u)}

Meets(u, r, wanted) == MayBeAny(u, wanted) \/ Matches(u, r, wanted)

\* With v in the state and r at the API, nothing is left to do.
Settled(u, c, r, v) ==
    /\ Planned(u.schema, c, v) = v
    /\ Untold(u) \/ Meets(u, r, v)
    /\ Blank(u, c) \/ Planned(u.schema, c, Read(u, r, v)) = Read(u, r, v)

\* What was planned is stored, and then nothing is left to do.
Fits(u, c, r, v) ==
    /\ Plan(u, c) \in {Unknown, v} \/ Blank(u, Plan(u, c))
    /\ Plan(u, c) \in {Unknown, v} => Settled(u, c, r, v)
    /\ Untold(u) => Meets(u, r, v)

\* The object that is left by the calls is stored as it should be.
Stores(u, c, r) ==
    /\ r \in Objects(u)
    /\ Fits(u, c, r, Read(u, r, IF Nested(u) THEN Taken(u, Plan(u, c)) ELSE Plan(u, c)))

\* A refresh may find v.
Found(u, r, v) == r \in Objects(u) /\ \E known \in Value \cup {Unknown} : v = Read(u, r, known)

\* It is not what is planned.
Due(u, c, r, v) == Found(u, r, v) /\ Plan(u, c) \notin {v, Unknown}

ASSUME ObjectsAssumption == \A u \in Units : \A c \in Wishes(u), r \in Objects(u) :
    /\ Attachment(u, Plan(u, c), r) \in Objects(u)
    /\ UpdateValue(u, Plan(u, c), r) \subseteq Objects(u)

ASSUME CreatesAssumption == \A u \in Units : \A c \in Wishes(u) :
    /\ \A r \in CreateValue(u, Plan(u, c)) : Stores(u, c, Attachment(u, Plan(u, c), r))
    /\ Nested(u) /\ u.create = "attached" => u.update = "attached"

ASSUME UpdatesAssumption == \A u \in Units : \A c \in Wishes(u), r \in Objects(u), v \in Value :
    LET p == Plan(u, c) IN
    ~Nested(u) /\ Due(u, c, r, v) /\ ~Replaces(u, p, v) /\ ~Recreates(u, p, v) =>
        IF u.updating = <<"keep">> THEN Fits(u, c, r, p)
        ELSE \A s \in UpdateValue(u, p, r) :
                /\ Stores(u, c, Attachment(u, p, s))
                /\ u.update # "attached" => Attachment(u, p, s) = s

ASSUME BlocksAssumption == \A u \in Units : \A c \in Wishes(u), r \in Objects(u), v \in Value :
    LET p == Plan(u, c) IN
    Nested(u) /\ Due(u, c, r, v) =>
        IF SameModel(u, p, v)
        THEN Settled(u, c, r, p) /\ (Untold(u) /\ Meets(u, r, v) => Meets(u, r, p))
        ELSE \A s \in Rewritten(u, p, r, v) : Stores(u, c, s)

\* What a refresh finds as it should be is, and what it is not told stays.
ASSUME RefreshesAssumption == \A u \in Units : \A r \in Objects(u) :
    /\ \A c \in Configurable(u.schema), v \in Value :
        Found(u, r, v) /\ Planned(u.schema, c, v) = v => Settled(u, c, r, v)
    /\ Untold(u) =>
        /\ Meets(u, r, Read(u, r, Unknown))
        /\ \A v \in Value : Meets(u, r, v) => Meets(u, r, Read(u, r, v))
        /\ "attached" \notin {u.create, u.update}
=============================================================================
