--------------------------- MODULE FastlyService ---------------------------
(***************************************************************************)
(* The versioned services of the Fastly API, as far as the provider under  *)
(* src/ relies on them.  The API is not part of the repository: every      *)
(* operator here is external and says what the code assumes of one call.   *)
(*                                                                         *)
(* A service is a numbered history of versions.  A version is a draft      *)
(* until it is activated; from then on it is locked for good, also after   *)
(* another version has replaced it or it has been deactivated.             *)
(*                                                                         *)
(* The content of a version is one value per block kind.  Blocks are       *)
(* numbered in the order in which the provider reconciles them.  Partial   *)
(* stands for a block some of whose API calls were made and others not.    *)
(***************************************************************************)
EXTENDS Integers, FiniteSets

CONSTANTS
    NumBlocks,     \* how many block kinds a service version has
    Values,        \* the values one block can be configured to
    EmptyValue,    \* what a block holds in a version nobody has written to
    Partial,       \* a block left half written
    Names,         \* service metadata (name and comment)
    MaxServices,   \* bound: services that can ever be created
    MaxVersions    \* bound: versions a service can have

ASSUME FastlyAssumption ==
    /\ NumBlocks \in Nat \ {0}
    /\ EmptyValue \in Values
    /\ Partial \notin Values
    /\ Names # {}
    /\ MaxServices \in Nat \ {0}
    /\ MaxVersions \in Nat \ {0}

Blocks == 1 .. NumBlocks
Services == 1 .. MaxServices
Versions == 1 .. MaxVersions

Config == [Blocks -> Values]
Content == [Blocks -> Values \cup {Partial}]
AnyName == CHOOSE n \in Names : TRUE
EmptyConfig == [b \in Blocks |-> EmptyValue]

VARIABLES
    status,    \* Services -> "unused", "live" or "deleted"
    meta,      \* Services -> Names
    latest,    \* Services -> number of the newest version, 0 when unused
    active,    \* Services -> number of the active version, 0 for none
    content,   \* Services -> Versions -> Content
    locked     \* Services -> the versions that have ever been active

remote == <<status, meta, latest, active, content, locked>>

RemoteTypeOK ==
    /\ status \in [Services -> {"unused", "live", "deleted"}]
    /\ meta \in [Services -> Names]
    /\ latest \in [Services -> 0 .. MaxVersions]
    /\ active \in [Services -> 0 .. MaxVersions]
    /\ content \in [Services -> [Versions -> Content]]
    /\ locked \in [Services -> SUBSET Versions]

RemoteInit ==
    /\ status = [s \in Services |-> "unused"]
    /\ meta = [s \in Services |-> AnyName]
    /\ latest = [s \in Services |-> 0]
    /\ active = [s \in Services |-> 0]
    /\ content = [s \in Services |-> [v \in Versions |-> EmptyConfig]]
    /\ locked = [s \in Services |-> {}]

Live(s) == status[s] = "live"

Fresh(s) == status[s] = "unused"

---------------------------------------------------------------------------
(* What each call changes when the API carries it out.                     *)

\* CreateService makes a service whose only version, 1, is an empty draft.
CreateServiceCall(s, name) ==
    /\ status' = [status EXCEPT ![s] = "live"]
    /\ meta' = [meta EXCEPT ![s] = name]
    /\ latest' = [latest EXCEPT ![s] = 1]
    /\ UNCHANGED <<active, content, locked>>

UpdateServiceCall(s, name) ==
    /\ meta' = [meta EXCEPT ![s] = name]
    /\ UNCHANGED <<status, latest, active, content, locked>>

\* n drafts are appended, each holding c.
AppendDrafts(s, c, n) ==
    /\ latest' = [latest EXCEPT ![s] = @ + n]
    /\ content' = [content EXCEPT ![s] =
            [v \in Versions |->
                IF v \in latest[s] + 1 .. latest[s] + n THEN c ELSE content[s][v]]]
    /\ UNCHANGED <<status, meta, active, locked>>

CloneVersionCall(s, source, n) == AppendDrafts(s, content[s][source], n)

\* The API refuses to write to a locked version.
WriteBlockCall(s, v, b, x) ==
    /\ Live(s)
    /\ v \notin locked[s]
    /\ content' = [content EXCEPT ![s][v][b] = x]
    /\ UNCHANGED <<status, meta, latest, active, locked>>

ActivateVersionCall(s, v) ==
    /\ active' = [active EXCEPT ![s] = v]
    /\ locked' = [locked EXCEPT ![s] = @ \cup {v}]
    /\ UNCHANGED <<status, meta, latest, content>>

DeactivateVersionCall(s) ==
    /\ active' = [active EXCEPT ![s] = 0]
    /\ UNCHANGED <<status, meta, latest, content, locked>>

\* The API refuses to delete a service that has an active version.
DeleteServiceCall(s) ==
    /\ Live(s)
    /\ active[s] = 0
    /\ status' = [status EXCEPT ![s] = "deleted"]
    /\ UNCHANGED <<meta, latest, active, content, locked>>
=============================================================================
