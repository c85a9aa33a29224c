----------------------------- MODULE Attributes -----------------------------
(***************************************************************************)
(* What becomes of one attribute on its way from the configuration over    *)
(* the plan and the API request into the state.  A value is absent (Null), *)
(* the zero of its type (Zero: "", 0 or false), the default of a kind that *)
(* has one (Default) or another (Other).  Unset is the number that stands  *)
(* for "not configured" where zero is a value of its own.                  *)
(*                                                                         *)
(* A kind of resource says of each of its attributes how the schema        *)
(* declares it, how Create and Update send it and how the answer is read.  *)
(* These tables are functions from names of attributes to classes; the     *)
(* operators below make them, and are combined with @@, the first to name  *)
(* an attribute having it.                                                 *)
(***************************************************************************)
EXTENDS TLC

Null == "null"
Zero == "zero"
Default == "default"
Other == "other"
Unset == "unset"
Unknown == "unknown"   \* in a plan: whatever the API will answer
Omitted == "omitted"   \* in a request: the field is not there

Value == {Null, Zero, Default, Other, Unset}

All(class, names) == [name \in names |-> class]

---------------------------------------------------------------------------
(* The schema.                                                             *)

Required(names) == All("required", names)
RequiredFilled(names) == All("requiredFilled", names) \* the zero value is refused
Optional(names) == All("optional", names)             \* without a default
OptionalFilled(names) == All("optionalFilled", names) \* the same, zero refused
ZeroDefault(names) == All("zeroDefault", names)
Filled(names) == All("filled", names)                 \* has a default, zero refused
FilledOrZero(names) == All("filledOrZero", names)     \* has a default, zero is a value
Sentinel(names) == All("sentinel", names)             \* defaults to Unset
Computed(names) == All("computed", names)             \* the API chooses when omitted
Chosen(names) == All("chosen", names)                 \* the same, zero refused

Schemas == {"required", "requiredFilled", "optional", "optionalFilled", "zeroDefault",
            "filled", "filledOrZero", "sentinel", "computed", "chosen"}

Choosing == {"computed", "chosen"}

\* Values a configuration can have.
Configurable(schema) ==
    CASE schema = "required" -> {Zero, Default, Other}
      [] schema = "requiredFilled" -> {Default, Other}
      [] schema \in {"optionalFilled", "filled", "chosen"} -> {Null, Default, Other}
      [] OTHER -> {Null, Zero, Default, Other}

DefaultOf(schema) ==
    CASE schema = "zeroDefault" -> Zero
      [] schema \in {"filled", "filledOrZero"} -> Default
      [] schema = "sentinel" -> Unset
      [] OTHER -> Null

\* What the framework plans; `prior` is the state's value, Unknown if there is none.
Planned(schema, configured, prior) ==
    IF configured # Null THEN configured
    ELSE IF schema \in Choosing THEN prior
    ELSE DefaultOf(schema)

---------------------------------------------------------------------------
(* The request.                                                            *)

Always(names) == All("always", names)     \* new(StringValue(a)): null goes out as zero
NonZero(names) == All("nonZero", names)   \* NullString(..): zero is left out
WhenSet(names) == All("whenSet", names)   \* the pointer: null is left out
Clearing(names) == All("clearing", names) \* zero goes out as a JSON null
Explicit(names) == All("explicit", names) \* all but the sentinel
Whole(names) == All("whole", names)       \* a part of a value that is replaced as a whole
Never(names) == All("never", names)
Attached(names) == All("attached", names) \* sent by calls that follow the first

Sends == {"always", "nonZero", "whenSet", "clearing", "explicit", "whole", "never", "attached"}

Empty == {Null, Zero, Unknown}

Sent(send, planned) ==
    CASE send = "always" -> IF planned \in Empty THEN Zero ELSE planned
      [] send = "nonZero" -> IF planned \in Empty THEN Omitted ELSE planned
      [] send = "whenSet" -> IF planned \in {Null, Unknown} THEN Omitted ELSE planned
      [] send = "clearing" -> IF planned \in Empty THEN Null ELSE planned
      [] send = "explicit" -> IF planned \in {Null, Unset} THEN Omitted ELSE planned
      [] send = "whole" -> IF planned = Unknown THEN Null ELSE planned
      [] send \in {"never", "attached"} -> Omitted

---------------------------------------------------------------------------
(* The answer.                                                             *)

Plain(names) == All("plain", names)             \* ToValue(p): nil is zero
OrNull(names) == All("orNull", names)           \* the pointer
OrDefault(names) == All("orDefault", names)     \* PointerOrDefault(p, default)
FilledOrNull(names) == All("filledOrNull", names) \* zero and nil are null
Kept(names) == All("kept", names)               \* the API does not tell
Reconciled(names) == All("reconciled", names)   \* zero stays null if it was null
OrUnset(names) == All("orUnset", names)         \* preserveGzipSentinel
UnsetKept(names) == All("unsetKept", names)     \* what is unset stays unset
EmptyKept(names) == All("emptyKept", names)     \* an empty collection stays empty
Merged(names) == All("merged", names)           \* what is not told stays

Reads == {"plain", "orNull", "orDefault", "filledOrNull", "kept", "reconciled", "orUnset",
          "unsetKept", "emptyKept", "merged"}

\* `known` is the plan's value after a write, the state's in Read, Unknown if there is
\* neither, as in an import.
ReadAs(read, schema, remote, known) ==
    CASE read = "plain" -> IF remote = Null THEN Zero ELSE remote
      [] read = "orNull" -> remote
      [] read = "orDefault" -> IF remote = Null THEN DefaultOf(schema) ELSE remote
      [] read = "filledOrNull" -> IF remote = Zero THEN Null ELSE remote
      [] read = "kept" -> IF known = Unknown THEN Null ELSE known
      [] read = "reconciled" ->
            IF remote \in Empty THEN (IF known \in {Null, Unknown} THEN Null ELSE Zero)
            ELSE remote
      [] read = "orUnset" ->
            IF \/ known = Unset
               \/ remote = Null
               \/ known \in {Null, Unknown} /\ remote = Zero
            THEN Unset ELSE remote
      [] read = "unsetKept" ->
            IF known \in {Null, Zero} THEN known ELSE IF remote = Zero THEN Null ELSE remote
      [] read = "emptyKept" ->
            IF remote \in Empty THEN (IF known = Zero THEN Zero ELSE Null) ELSE remote
      [] read = "merged" ->
            IF remote \notin Empty THEN remote ELSE IF known = Unknown THEN Null ELSE known

\* StringValue(a) == StringValue(b): null and zero compare equal.
SameValue(a, b) == a = b \/ {a, b} \subseteq {Null, Zero}

---------------------------------------------------------------------------
(* A kind: the tables, and the steps of its handlers.                      *)

\* As a block: what ModelsEqual compares, which attributes are read back with the
\* plan at hand, and which are cleared by a new creation.  Equal reads what it compares
\* with the plan at hand too, unless it has the previous state or neither.
Block(same, preserved, cleared) ==
    [same |-> same, preserved |-> preserved, cleared |-> cleared,
     changed |-> {}, remembered |-> {}, blind |-> {}]

NoBlock == Block({}, {}, {})

\* The handlers most kinds have.
Posting == <<"post", "save">>
Putting == <<"put", "save">>
Forgetting == <<"change", "save">> \* Update removes from the state what is gone
Keeping == <<"keep">>        \* Update has nothing to ask the API for
Deleting == <<"delete">>

\* An object the API finds by an id of its own; `replaces` are its RequiresReplace.
Resource(schema, create, update, state, replaces) ==
    [schema |-> schema, create |-> create, update |-> update, state |-> state,
     block |-> NoBlock, replaces |-> replaces, replacesCleared |-> {}, vclOnly |-> {},
     named |-> FALSE, places |-> {"resource"},
     creating |-> Posting, updating |-> Putting, deleting |-> Deleting]

\* One that cannot be changed.
Fixed(kind) == [kind EXCEPT !.updating = Keeping]
=============================================================================
