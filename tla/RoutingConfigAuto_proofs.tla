---------------------- MODULE RoutingConfigAuto_proofs ----------------------
(***************************************************************************)
(* Proofs about RoutingConfigAuto, for any paths, rules, requests and      *)
(* bounds.                                                                 *)
(***************************************************************************)
EXTENDS RoutingConfigAutoInv, SequenceTheorems, TLAPS

---------------------------------------------------------------------------
(* Lists of paths.                                                         *)

LEMMA Marker == Absent \notin Seq(Rules)
BY RoutingAssumption

LEMMA Bounds ==
    /\ MaxConfigs \in Nat \ {0} /\ MaxFaults \in Nat /\ MaxEdits \in Nat /\ MaxDrifts \in Nat
BY RoutingAssumption

LEMMA NoListTyped == NoList \in Lists /\ None \in Contents
<1>1. None \in Contents /\ Existing(None) = {}
  BY DEF None, Contents, Existing
<1>2. InOrder(NoList)
  BY <1>1 DEF NoList, InOrder
<1>. QED  BY <1>1, <1>2 DEF Lists, NoList

\* What the order MatchOrder gives says of two paths.
LEMMA MatchedPair ==
    ASSUME NEW d \in Contents, NEW prior \in Lists, NEW p \in Existing(d), NEW q \in Existing(d)
    PROVE  <<p, q>> \in MatchOrder(d, prior).before <=>
             \/ <<p, q>> \in prior.before
             \/ /\ q \notin Existing(prior.rules)
                /\ p \in Existing(prior.rules) \/ p < q
BY DEF MatchOrder

\* MatchOrder puts any content in one order, whatever the order it goes by.
LEMMA MatchOrderTyped ==
    ASSUME NEW d \in Contents, NEW prior \in Lists
    PROVE  MatchOrder(d, prior) \in Lists /\ MatchOrder(d, prior).rules = d
<1>. DEFINE known == Existing(prior.rules)
            list == MatchOrder(d, prior)
<1>1. list.rules = d /\ list.before \subseteq Existing(d) \X Existing(d)
  BY DEF MatchOrder
<1>2. Existing(d) \subseteq Paths /\ Paths \subseteq Nat
  BY RoutingAssumption DEF Existing
<1>3. /\ prior.before \subseteq known \X known
      /\ \A p, q \in known : /\ p # q => <<p, q>> \in prior.before \/ <<q, p>> \in prior.before
                             /\ <<p, q>> \in prior.before => <<q, p>> \notin prior.before
      /\ \A p, q, r \in known :
            <<p, q>> \in prior.before /\ <<q, r>> \in prior.before => <<p, r>> \in prior.before
  BY DEF Lists, InOrder
<1>4. ASSUME NEW p \in Existing(d), NEW q \in Existing(d)
      PROVE  /\ p # q => <<p, q>> \in list.before \/ <<q, p>> \in list.before
             /\ <<p, q>> \in list.before => <<q, p>> \notin list.before
  <2>1. /\ <<p, q>> \in list.before <=> \/ <<p, q>> \in prior.before
                                        \/ q \notin known /\ (p \in known \/ p < q)
        /\ <<q, p>> \in list.before <=> \/ <<q, p>> \in prior.before
                                        \/ p \notin known /\ (q \in known \/ q < p)
    BY MatchedPair
  <2>2. p \in Nat /\ q \in Nat
    BY <1>2
  <2>3. /\ <<p, q>> \in prior.before => p \in known /\ q \in known
        /\ <<q, p>> \in prior.before => p \in known /\ q \in known
    BY <1>3
  <2>. HIDE DEF list, known
  <2>. QED  BY <1>3, <2>1, <2>2, <2>3
<1>5. ASSUME NEW p \in Existing(d), NEW q \in Existing(d), NEW r \in Existing(d),
             <<p, q>> \in list.before, <<q, r>> \in list.before
      PROVE  <<p, r>> \in list.before
  <2>1. /\ <<p, q>> \in prior.before \/ (q \notin known /\ (p \in known \/ p < q))
        /\ <<q, r>> \in prior.before \/ (r \notin known /\ (q \in known \/ q < r))
        /\ \/ <<p, r>> \in prior.before
           \/ r \notin known /\ (p \in known \/ p < r)
           => <<p, r>> \in list.before
    BY <1>5, MatchedPair
  <2>2. p \in Nat /\ q \in Nat /\ r \in Nat
    BY <1>2
  <2>3. /\ <<p, q>> \in prior.before => p \in known /\ q \in known
        /\ <<q, r>> \in prior.before => q \in known /\ r \in known
    BY <1>3
  <2>. HIDE DEF list, known
  <2>. QED  BY <1>3, <2>1, <2>2, <2>3
<1>6. InOrder(list)
  BY <1>1, <1>4, <1>5 DEF InOrder
<1>7. list \in [rules : Contents, before : SUBSET (Paths \X Paths)]
  BY <1>1, <1>2 DEF MatchOrder
<1>. QED  BY <1>1, <1>6, <1>7 DEF Lists

\* Of some paths of a list at most one comes first.
LEMMA OneFirst ==
    ASSUME NEW list \in Lists, NEW S \in SUBSET Existing(list.rules), NEW p \in S, NEW q \in S,
           \A r \in S : <<r, p>> \notin list.before,
           \A r \in S : <<r, q>> \notin list.before
    PROVE  p = q
BY DEF Lists, InOrder

LEMMA AskedTyped ==
    ASSUME NEW r \in Requests
    PROVE  /\ r.present \in BOOLEAN /\ r.name \in Names /\ r.paths \in Lists
           /\ r.paths.rules \in Contents
           /\ r.present => \A p \in Existing(r.paths.rules) : r.paths.rules[p] # <<>>
<1>1. r \in [present : BOOLEAN, name : Names, paths : Lists] /\ (r.present => Valid(r.paths))
  BY RoutingAssumption DEF IsRequest
<1>. QED  BY <1>1 DEF Valid, Lists

---------------------------------------------------------------------------
(* The type invariant.                                                     *)

LEMMA Fields ==
    ASSUME TypeOK
    PROVE  /\ state.id \in 0 .. created /\ state.paths \in Lists /\ state.tainted \in BOOLEAN
           /\ state.paths.rules \in Contents
           /\ created \in Nat /\ MaxConfigs \in Nat /\ created <= MaxConfigs
           /\ Tracked => state.id \in Ids /\ Listed \in Contents
           /\ \A i \in live : i \in Ids /\ i # 0
           /\ plan.paths.rules \in Contents
<1>1. /\ state.id \in 0 .. created /\ state.paths \in Lists /\ state.tainted \in BOOLEAN
      /\ created \in 0 .. MaxConfigs
  BY DEF TypeOK
<1>2. created \in Nat /\ MaxConfigs \in Nat /\ created <= MaxConfigs
  BY <1>1, Bounds
<1>3. Tracked => state.id \in Ids /\ Listed \in Contents
  BY <1>1, <1>2 DEF Tracked, Ids, Listed, TypeOK
<1>4. \A i \in live : i \in Ids /\ i # 0
  BY <1>2 DEF TypeOK, Ids
<1>. QED  BY <1>1, <1>2, <1>3, <1>4, AskedTyped DEF Lists, TypeOK

LEMMA InitTyped == Init => TypeOK
<1>. SUFFICES ASSUME Init PROVE TypeOK
  OBVIOUS
<1>1. created \in 0 .. MaxConfigs /\ live \in SUBSET (1 .. created)
  BY Bounds DEF Init
<1>2. names \in Seq(Names) /\ Len(names) = created
  BY EmptySeq DEF Init
<1>3. draft \in [Ids -> Contents] /\ active \in [Ids -> Contents \cup {Absent}]
  BY NoListTyped DEF Init
<1>4. state \in [id : 0 .. created, paths : Lists, tainted : BOOLEAN]
  BY NoListTyped DEF Init, NoState
<1>5. faults \in 0 .. MaxFaults /\ edits \in 0 .. MaxEdits /\ drifts \in 0 .. MaxDrifts
  BY Bounds DEF Init
<1>. QED  BY <1>1, <1>2, <1>3, <1>4, <1>5 DEF Init, TypeOK

\* What a step leaves in the state keeps to the types if the lists do.
LEMMA NoStateTyped ==
    ASSUME NEW c \in Nat
    PROVE  NoState \in [id : 0 .. c, paths : Lists, tainted : BOOLEAN]
BY NoListTyped DEF NoState

LEMMA RefreshedTyped ==
    ASSUME TypeOK
    PROVE  Refreshed \in [id : 0 .. created, paths : Lists, tainted : BOOLEAN]
<1>1. CASE ~Tracked \/ state.id \notin live
  BY <1>1, Fields, NoStateTyped DEF Refreshed
<1>2. CASE Tracked /\ state.id \in live
  <2>1. MatchOrder(draft[state.id], state.paths) \in Lists
    BY <1>2, Fields, MatchOrderTyped DEF Listed
  <2>. HIDE DEF Lists
  <2>. QED  BY <1>2, <2>1 DEF Refreshed, TypeOK
<1>. QED  BY <1>1, <1>2

LEMMA BeginTyped ==
    ASSUME TypeOK, Refresh \/ SkipRefresh
    PROVE  TypeOK'
<1>1. /\ UNCHANGED <<live, created, names, draft, active, config, plan>>
      /\ UNCHANGED <<surplus, todo, at, changed, faults, edits, drifts, matched, requested, adrift>>
      /\ pc' = "plan" /\ applied' = FALSE
      /\ state' \in {state, Refreshed}
  BY DEF Refresh, SkipRefresh, Begin, remote, content, work, bounds, history
<1>. HIDE DEF Lists, Contents
<1>. QED  BY <1>1, RefreshedTyped DEF TypeOK

LEMMA PlanTyped ==
    ASSUME TypeOK, Plan
    PROVE  TypeOK'
<1>1. /\ UNCHANGED <<live, created, names, draft, active, config, state>>
      /\ UNCHANGED <<surplus, todo, at, changed, faults, edits, drifts, adrift>>
      /\ pc' = Planned /\ plan' = config /\ applied' \in BOOLEAN /\ matched' \in BOOLEAN
      /\ requested' \in {requested, requested \cup {config.paths.rules}}
  BY DEF Plan, remote, content, work, bounds
<1>2. Planned \in {"idle", "delete", "create", "list"}
  BY DEF Planned
<1>3. requested' \subseteq Contents
  BY <1>1, AskedTyped DEF TypeOK
<1>. HIDE DEF Lists, Contents
<1>. QED  BY <1>1, <1>2, <1>3 DEF TypeOK

\* A new routing config: the one after the last.
LEMMA NewConfigTyped ==
    ASSUME TypeOK, NewConfig
    PROVE  /\ created' \in 0 .. MaxConfigs /\ live' \in SUBSET (1 .. created')
           /\ created' = created + 1 /\ created' \in Ids /\ created' # 0
           /\ names' \in Seq(Names) /\ Len(names') = created'
<1>1. /\ created < MaxConfigs /\ created' = created + 1 /\ live' = live \cup {created'}
      /\ names' = Append(names, plan.name)
  BY DEF NewConfig
<1>2. plan.name \in Names
  BY AskedTyped DEF TypeOK
<1>. QED  BY <1>1, <1>2, Fields, AppendProperties DEF TypeOK, Ids

LEMMA DeleteTyped ==
    ASSUME TypeOK, Delete
    PROVE  TypeOK'
<1>1. /\ UNCHANGED <<created, names, draft, active, config, plan>>
      /\ UNCHANGED <<surplus, todo, at, changed, faults, edits, drifts, matched, requested, adrift>>
      /\ live' = live \ {state.id} /\ state' = NoState
      /\ pc' \in {"create", "idle"} /\ applied' \in {applied, TRUE}
  BY DEF Delete, Ends, content, unmoved, work
<1>2. state' \in [id : 0 .. created', paths : Lists, tainted : BOOLEAN]
  BY <1>1, Fields, NoStateTyped
<1>. HIDE DEF Lists, Contents
<1>. QED  BY <1>1, <1>2 DEF TypeOK

LEMMA CreateTyped ==
    ASSUME TypeOK, Create
    PROVE  TypeOK'
<1>1. /\ UNCHANGED <<draft, active, config, plan, edits, drifts, matched, requested>>
      /\ UNCHANGED <<applied, faults, adrift>>
      /\ NewConfig
      /\ state' = [id |-> created', paths |-> NoList, tainted |-> TRUE]
      /\ surplus' = {} /\ todo' = Existing(plan.paths.rules) /\ at' = "compare"
      /\ changed' = TRUE /\ pc' = "write"
  BY DEF Create, NewConfig, Recorded, content, unmoved
<1>2. state' \in [id : 0 .. created', paths : Lists, tainted : BOOLEAN]
  BY <1>1, Fields, NewConfigTyped, NoListTyped
<1>3. todo' \subseteq Paths
  BY <1>1 DEF Existing
<1>. HIDE DEF Lists, Contents
<1>. QED  BY <1>1, <1>2, <1>3, NewConfigTyped DEF TypeOK

\* Only one path comes next.
LEMMA OneIsNext ==
    ASSUME TypeOK, OnItsWay, pc = "write", NEW p \in Paths, NEW q \in Paths, IsNext(p), IsNext(q)
    PROVE  p = q
<1>1. plan.paths \in Lists /\ todo \in SUBSET Existing(plan.paths.rules)
  BY AskedTyped DEF TypeOK, OnItsWay
<1>2. /\ p \in todo /\ q \in todo
      /\ \A r \in todo : <<r, p>> \notin plan.paths.before
      /\ \A r \in todo : <<r, q>> \notin plan.paths.before
  BY DEF IsNext
<1>. QED  BY <1>1, <1>2, OneFirst

\* A call about the rules of a path leaves rules, and once those it had are
\* deleted the first of those it is to have.
LEMMA WrittenTyped ==
    ASSUME TypeOK, HandlersAreAskedFor, OnItsWay, RulesOnTheirWay, pc = "write",
           NEW p \in Paths, DrawsRules(p)
    PROVE  /\ Written(p) \in Seq(Rules)
           /\ ~DeletesRules(p) => Written(p) = Wanted(p) \/ Begun(Written(p), Wanted(p))
<1>1. Wanted(p) \in Seq(Rules) /\ Wanted(p) # <<>>
  <2>1. p \in Existing(plan.paths.rules) /\ plan \in Requests /\ plan.present
    BY DEF DrawsRules, IsNext, OnItsWay, HandlersAreAskedFor, TypeOK
  <2>. QED  BY <2>1, AskedTyped DEF Existing, Contents, Wanted
<1>2. Old(p) \in Seq(Rules) \cup {Absent}
  <2>1. Listed \in Contents
    BY Fields DEF HandlersAreAskedFor
  <2>. QED  BY <2>1 DEF Contents, Listed, Old
<1>3. CASE Old(p) = Absent
  <2>1. Written(p) = <<>> /\ ~DeletesRules(p)
    BY <1>3 DEF Written, DeletesRules
  <2>2. Begun(<<>>, Wanted(p))
    BY <1>1, EmptySeq, LenProperties DEF Begun
  <2>. QED  BY <2>1, <2>2, EmptySeq
<1>4. CASE DeletesRules(p)
  <2>1. Written(p) = Tail(Old(p)) /\ Old(p) \in Seq(Rules) /\ Old(p) # <<>>
    BY <1>2, <1>4 DEF Written, DeletesRules
  <2>. QED  BY <1>4, <2>1, HeadTailProperties
<1>5. CASE Old(p) # Absent /\ ~DeletesRules(p)
  <2>1. Old(p) \in Seq(Rules) /\ Begun(Old(p), Wanted(p))
    <3>1. CASE Old(p) = <<>>
      BY <1>1, <3>1, EmptySeq, LenProperties DEF Begun
    <3>2. CASE Old(p) # <<>>
      BY <1>2, <1>5, <3>2 DEF DeletesRules, RulesOnTheirWay, DrawsRules
    <3>. QED  BY <3>1, <3>2, <1>2, <1>5
  <2>. DEFINE old == Old(p)
              wanted == Wanted(p)
              next == wanted[Len(old) + 1]
              new == Append(old, next)
  <2>2. Written(p) = new
    BY <1>5 DEF Written
  <2>3. /\ Len(old) \in Nat /\ Len(wanted) \in Nat /\ Len(old) < Len(wanted)
        /\ \A i \in 1 .. Len(old) : old[i] = wanted[i]
    BY <1>1, <2>1, LenProperties DEF Begun
  <2>4. next \in Rules
    BY <1>1, <2>3, ElementOfSeq
  <2>5. new \in Seq(Rules) /\ Len(new) = Len(old) + 1
    BY <2>1, <2>4, AppendProperties
  <2>6. \A i \in 1 .. Len(new) : new[i] = wanted[i]
    BY <2>1, <2>3, <2>4, AppendProperties
  <2>7. CASE Len(new) < Len(wanted)
    BY <2>2, <2>5, <2>6, <2>7 DEF Begun
  <2>8. CASE Len(new) >= Len(wanted)
    <3>1. Len(new) = Len(wanted)
      BY <2>3, <2>5, <2>8
    <3>2. wanted \in Seq(Rules)
      BY <1>1
    <3>. HIDE DEF new, wanted
    <3>3. new = wanted
      BY <2>5, <2>6, <3>1, <3>2, SeqEqual
    <3>. QED  BY <3>3, <2>2, <2>5 DEF new, wanted
  <2>. QED  BY <2>3, <2>5, <2>7, <2>8
<1>. QED  BY <1>3, <1>4, <1>5

\* A call that writes changes one path of the draft of the routing config.
LEMMA DrawTyped ==
    ASSUME TypeOK, HandlersAreAskedFor, pc = "write",
           NEW p \in Paths, NEW rules \in Seq(Rules) \cup {Absent}, Draw(p, rules)
    PROVE  /\ draft' \in [Ids -> Contents]
           /\ \A q \in Paths : draft'[state.id][q] = IF q = p THEN rules ELSE draft[state.id][q]
           /\ \A i \in Ids \ {state.id} : draft'[i] = draft[i]
<1>1. state.id \in Ids /\ draft \in [Ids -> [Paths -> Seq(Rules) \cup {Absent}]]
  BY Fields DEF HandlersAreAskedFor, TypeOK, Contents
<1>2. draft' = [draft EXCEPT ![state.id][p] = rules]
  BY DEF Draw
<1>. HIDE DEF Ids
<1>. QED  BY <1>1, <1>2 DEF Contents

LEMMA DrawsTyped ==
    ASSUME TypeOK, HandlersAreAskedFor, OnItsWay, RulesOnTheirWay, pc = "write",
           NEW p \in Paths, DrawsDeletion(p) \/ DrawsRules(p)
    PROVE  draft' \in [Ids -> Contents] /\ \A i \in Ids \ {state.id} : draft'[i] = draft[i]
<1>1. CASE DrawsDeletion(p)
  BY <1>1, DrawTyped DEF DrawsDeletion
<1>2. CASE DrawsRules(p)
  BY <1>2, DrawTyped, WrittenTyped DEF DrawsRules
<1>. QED  BY <1>1, <1>2

LEMMA ListTyped ==
    ASSUME TypeOK, List \/ ListFindsNothing
    PROVE  TypeOK'
<1>1. /\ UNCHANGED <<live, created, names, draft, active, config, plan>>
      /\ UNCHANGED <<state, applied, faults, edits, drifts, matched, requested, adrift>>
      /\ pc' \in {"write", "idle"}
  BY DEF List, ListFindsNothing, remote, content, unmoved
<1>2. surplus' \subseteq Paths /\ todo' \subseteq Paths
  BY DEF List, ListFindsNothing, work, TypeOK, Surplus, Existing
<1>3. at' \in {"compare", "delete", "create"} /\ changed' \in BOOLEAN
  BY DEF List, ListFindsNothing, work, TypeOK, Differs
<1>. HIDE DEF Lists, Contents
<1>. QED  BY <1>1, <1>2, <1>3 DEF TypeOK

\* What the steps that write leave as it was.
LEMMA WritingKeeps ==
    ASSUME Writing
    PROVE  /\ UNCHANGED <<live, created, names, active, config, plan>>
           /\ UNCHANGED <<edits, drifts, matched, requested, state, pc, applied, faults, adrift>>
           /\ pc = "write"
BY DEF Writing, unmoved

LEMMA WriteTyped ==
    ASSUME TypeOK, HandlersAreAskedFor, OnItsWay, RulesOnTheirWay,
           NEW p \in Paths, DeletePath(p) \/ WriteRules(p) \/ KeepRules(p)
    PROVE  TypeOK'
<1>1. Writing
  BY DEF DeletePath, WriteRules, KeepRules
<1>2. draft' \in [Ids -> Contents]
  <2>1. CASE DrawsDeletion(p) \/ DrawsRules(p)
    BY <1>1, <2>1, DrawsTyped, WritingKeeps
  <2>2. CASE draft' = draft
    BY <2>2 DEF TypeOK
  <2>. QED  BY <2>1, <2>2 DEF DeletePath, WriteRules, KeepRules
<1>3. surplus' \subseteq Paths /\ todo' \subseteq Paths
  BY DEF DeletePath, WriteRules, KeepRules, TypeOK
<1>4. at' \in {"compare", "delete", "create"} /\ changed' \in BOOLEAN
  BY DEF DeletePath, WriteRules, KeepRules, TypeOK
<1>. HIDE DEF Lists, Contents
<1>. QED  BY <1>1, <1>2, <1>3, <1>4, WritingKeeps DEF TypeOK

\* What is saved and published at the end of a handler.
LEMMA SavedTyped ==
    ASSUME TypeOK, Saved
    PROVE  state' \in [id : 0 .. created, paths : Lists, tainted : BOOLEAN]
<1>1. plan.paths \in Lists
  BY AskedTyped DEF TypeOK
<1>. HIDE DEF Lists
<1>. QED  BY <1>1 DEF Saved, TypeOK

LEMMA PublishTyped ==
    ASSUME TypeOK, Publish, Tracked
    PROVE  active' \in [Ids -> Contents \cup {Absent}]
<1>. HIDE DEF Contents
<1>. QED  BY Fields DEF Publish, TypeOK, Listed

LEMMA EndTyped ==
    ASSUME TypeOK, HandlersAreAskedFor, Get \/ Activate
    PROVE  TypeOK'
<1>1. /\ UNCHANGED <<live, created, names, draft, config, plan, surplus, todo, at, changed>>
      /\ UNCHANGED <<faults, edits, drifts, matched, requested, adrift>>
      /\ pc = "write" /\ pc' = "idle" /\ applied' = TRUE /\ Saved
      /\ active' = active \/ Publish
  BY DEF Get, Activate, Reconciled, Ends, remote, content, unmoved, work
<1>2. active' \in [Ids -> Contents \cup {Absent}]
  BY <1>1, PublishTyped DEF HandlersAreAskedFor, TypeOK
<1>. HIDE DEF Lists, Contents
<1>. QED  BY <1>1, <1>2, SavedTyped DEF TypeOK

\* What every failure does, whatever the call did.
LEMMA FaultTyped ==
    ASSUME TypeOK, Fault
    PROVE  /\ UNCHANGED <<config, plan, edits, drifts, matched, requested, changed, applied>>
           /\ surplus' = {} /\ todo' = {} /\ at' = "compare" /\ pc' = "idle"
           /\ faults' \in 0 .. MaxFaults
BY Bounds DEF Fault, unmoved, TypeOK

LEMMA CallFailsTyped ==
    ASSUME TypeOK, CallFails
    PROVE  TypeOK'
<1>1. Fault /\ UNCHANGED <<live, created, names, draft, active, state, adrift>>
  BY DEF CallFails, remote, content
<1>. HIDE DEF Lists, Contents
<1>. QED  BY <1>1, FaultTyped DEF TypeOK

\* A call that was carried out and whose response is lost: a deletion, the
\* creation of a routing config, a write to a draft, an activation.
LEMMA LostResponse ==
    ASSUME ResponseLost
    PROVE  /\ Fault /\ state' = state
           /\ \/ /\ pc = "delete" /\ live' = live \ {state.id}
                 /\ UNCHANGED <<created, names, draft, active, adrift>>
              \/ NewConfig /\ adrift' = adrift \cup {created'} /\ UNCHANGED <<draft, active>>
              \/ /\ pc = "write" /\ \E p \in Paths : DrawsDeletion(p) \/ DrawsRules(p)
                 /\ UNCHANGED <<live, created, names, active, adrift>>
              \/ /\ Reconciled /\ changed /\ Publish
                 /\ UNCHANGED <<live, created, names, draft, adrift>>
BY DEF ResponseLost, NewConfig, content

LEMMA ResponseLostTyped ==
    ASSUME TypeOK, HandlersAreAskedFor, OnItsWay, RulesOnTheirWay, ResponseLost
    PROVE  TypeOK'
<1>. HIDE DEF Lists, Contents
<1>0. Fault /\ state' = state
  BY LostResponse
<1>1. CASE /\ pc = "delete" /\ live' = live \ {state.id}
           /\ UNCHANGED <<created, names, draft, active, adrift>>
  BY <1>0, <1>1, FaultTyped DEF TypeOK
<1>2. CASE NewConfig /\ adrift' = adrift \cup {created'} /\ UNCHANGED <<draft, active>>
  <2>1. state' \in [id : 0 .. created', paths : Lists, tainted : BOOLEAN]
    <3>1. 0 .. created \subseteq 0 .. created'
      BY <1>2, Fields, NewConfigTyped
    <3>. QED  BY <1>0, <3>1 DEF TypeOK
  <2>2. adrift' \in SUBSET Ids
    BY <1>2, NewConfigTyped DEF TypeOK
  <2>. QED  BY <1>0, <1>2, <2>1, <2>2, FaultTyped, NewConfigTyped DEF TypeOK
<1>3. CASE /\ pc = "write" /\ \E p \in Paths : DrawsDeletion(p) \/ DrawsRules(p)
           /\ UNCHANGED <<live, created, names, active, adrift>>
  <2>1. draft' \in [Ids -> Contents]
    BY <1>3, DrawsTyped
  <2>. QED  BY <1>0, <1>3, <2>1, FaultTyped DEF TypeOK
<1>4. CASE /\ Reconciled /\ changed /\ Publish
           /\ UNCHANGED <<live, created, names, draft, adrift>>
  <2>1. active' \in [Ids -> Contents \cup {Absent}]
    BY <1>4, PublishTyped DEF Reconciled, HandlersAreAskedFor
  <2>. QED  BY <1>0, <1>4, <2>1, FaultTyped DEF TypeOK
<1>. QED  BY <1>1, <1>2, <1>3, <1>4, LostResponse

LEMMA KilledTyped ==
    ASSUME TypeOK, HandlersAreAskedFor, Killed
    PROVE  TypeOK'
<1>1. /\ Fault /\ pc = "write" /\ state' = NoState /\ adrift' = adrift \cup {state.id}
      /\ UNCHANGED <<live, created, names, draft, active>>
  BY DEF Killed, remote, content
<1>2. state' \in [id : 0 .. created', paths : Lists, tainted : BOOLEAN]
  BY <1>1, Fields, NoStateTyped
<1>3. adrift' \in SUBSET Ids
  BY <1>1, Fields DEF HandlersAreAskedFor, TypeOK
<1>. HIDE DEF Lists, Contents
<1>. QED  BY <1>1, <1>2, <1>3, FaultTyped DEF TypeOK

LEMMA EditTyped ==
    ASSUME TypeOK, Edit
    PROVE  TypeOK'
<1>1. /\ UNCHANGED <<live, created, names, draft, active, plan, state, pc>>
      /\ UNCHANGED <<surplus, todo, at, changed, faults, drifts, matched, requested, adrift>>
      /\ config' \in Requests /\ applied' = FALSE
      /\ edits < MaxEdits /\ edits' = edits + 1
  BY DEF Edit, content, between, work
<1>2. edits' \in 0 .. MaxEdits
  BY <1>1, Bounds DEF TypeOK
<1>. HIDE DEF Lists, Contents
<1>. QED  BY <1>1, <1>2 DEF TypeOK

LEMMA ImportTyped ==
    ASSUME TypeOK, Import
    PROVE  TypeOK'
<1>1. /\ UNCHANGED <<live, created, names, draft, active, config, plan, pc>>
      /\ UNCHANGED <<surplus, todo, at, changed, faults, edits, drifts, matched, requested>>
      /\ applied' = FALSE
  BY DEF Import, content, between, work
<1>2. PICK i \in live \cap adrift :
        /\ state' = [id |-> i, paths |-> MatchOrder(draft[i], NoList), tainted |-> FALSE]
        /\ adrift' = adrift \ {i}
  BY DEF Import
<1>3. i \in 0 .. created /\ draft[i] \in Contents
  BY Fields DEF TypeOK
<1>4. MatchOrder(draft[i], NoList) \in Lists
  BY <1>3, MatchOrderTyped, NoListTyped
<1>. HIDE DEF Lists, Contents
<1>. QED  BY <1>1, <1>2, <1>3, <1>4 DEF TypeOK

\* What an operator's steps leave as it was.
LEMMA DriftTyped ==
    ASSUME TypeOK, Drift
    PROVE  /\ UNCHANGED <<created, names, config, plan, state, pc, surplus, todo, at, changed>>
           /\ UNCHANGED <<faults, edits, matched, adrift>>
           /\ pc = "idle" /\ applied' = FALSE /\ state.id \in live /\ drifts' \in 0 .. MaxDrifts
BY Bounds DEF Drift, between, work, TypeOK

LEMMA EditDraftTyped ==
    ASSUME TypeOK, EditDraft
    PROVE  /\ TypeOK' /\ \A i \in Ids \ {state.id} : draft'[i] = draft[i]
           /\ live' = live
           /\ \/ UNCHANGED <<active, requested>>
              \/ \E d \in Contents : /\ active' = [active EXCEPT ![state.id] = d]
                                     /\ requested' = requested \cup {d}
<1>1. Drift /\ live' = live
  BY DEF EditDraft
<1>2. state.id \in Ids
  BY <1>1, DriftTyped, Fields
<1>3. draft' \in [Ids -> Contents] /\ \A i \in Ids \ {state.id} : draft'[i] = draft[i]
  <2>1. PICK p \in Paths, rules \in {<<r>> : r \in Defaults} \cup {Absent} :
            draft' = [draft EXCEPT ![state.id][p] = rules]
    BY DEF EditDraft
  <2>2. rules \in Seq(Rules) \cup {Absent}
    <3>1. CASE rules # Absent
      <4>1. PICK r \in Defaults : rules = <<r>>
        BY <3>1
      <4>2. r \in Rules
        BY RoutingAssumption
      <4>. QED  BY <4>1, <4>2
    <3>. QED  BY <3>1
  <2>3. draft \in [Ids -> [Paths -> Seq(Rules) \cup {Absent}]]
    BY DEF TypeOK, Contents
  <2>. HIDE DEF Ids
  <2>. QED  BY <1>2, <2>1, <2>2, <2>3 DEF Contents
<1>4. \/ UNCHANGED <<active, requested>>
      \/ \E d \in Contents : /\ active' = [active EXCEPT ![state.id] = d]
                             /\ requested' = requested \cup {d}
  BY <1>2, <1>3 DEF EditDraft
<1>5. active' \in [Ids -> Contents \cup {Absent}] /\ requested' \subseteq Contents
  BY <1>2, <1>4 DEF TypeOK
<1>. HIDE DEF Lists, Contents
<1>. QED  BY <1>1, <1>3, <1>4, <1>5, DriftTyped DEF TypeOK

LEMMA DeleteByHandTyped ==
    ASSUME TypeOK, DeleteByHand
    PROVE  TypeOK'
<1>1. Drift /\ live' = live \ {state.id} /\ UNCHANGED <<draft, active, requested>>
  BY DEF DeleteByHand, content
<1>. HIDE DEF Lists, Contents
<1>. QED  BY <1>1, DriftTyped DEF TypeOK

---------------------------------------------------------------------------
(* The inductive invariant.                                                *)

LEMMA InitOnTrack == Init => OnTrack
<1>. SUFFICES ASSUME Init PROVE OnTrack
  OBVIOUS
<1>1. /\ live = {} /\ draft = [i \in Ids |-> None] /\ active = [i \in Ids |-> Absent]
      /\ pc = "idle" /\ applied = FALSE
  BY DEF Init
<1>. QED  BY <1>1 DEF OnTrack, FreshDrafts, HandlersAreAskedFor, OnItsWay, RulesOnTheirWay,
                      UnchangedIsKnown, AppliedIsOver, ActiveIsRequested, AppliedIsServed,
                      NoConfigIsLost

\* Between handlers there is nothing to say of what they are at.
LEMMA AtRest ==
    ASSUME pc' \in {"idle", "plan"}
    PROVE  /\ HandlersAreAskedFor' /\ OnItsWay' /\ RulesOnTheirWay' /\ UnchangedIsKnown'
           /\ pc' = "idle" => AppliedIsOver'
BY DEF HandlersAreAskedFor, OnItsWay, RulesOnTheirWay, UnchangedIsKnown, AppliedIsOver

\* Steps that change no draft, no served version and no history.
LEMMA Unwritten ==
    ASSUME IInv, UNCHANGED <<draft, active, created>>, requested \subseteq requested'
    PROVE  FreshDrafts' /\ ActiveIsRequested'
BY DEF IInv, OnTrack, FreshDrafts, ActiveIsRequested

LEMMA BeginOnTrack ==
    ASSUME IInv, Refresh \/ SkipRefresh
    PROVE  OnTrack'
<1>1. /\ UNCHANGED <<live, created, draft, active, requested, adrift>>
      /\ pc' = "plan" /\ applied' = FALSE
      /\ state' \in {state, Refreshed}
  BY DEF Refresh, SkipRefresh, Begin, remote, content, history
<1>2. Refreshed.id = state.id \/ state.id \notin live
  <2>1. state \in [id : 0 .. created, paths : Lists, tainted : BOOLEAN]
    BY DEF IInv, TypeOK
  <2>2. ~Tracked => state.id \notin live
    BY Fields DEF IInv, Tracked
  <2>. HIDE DEF Lists
  <2>. QED  BY <2>1, <2>2 DEF Refreshed
<1>3. NoConfigIsLost'
  BY <1>1, <1>2 DEF IInv, OnTrack, NoConfigIsLost
<1>. QED  BY <1>1, <1>3, AtRest, Unwritten DEF OnTrack, AppliedIsOver, AppliedIsServed

LEMMA PlanOnTrack ==
    ASSUME IInv, Plan
    PROVE  OnTrack'
<1>1. /\ UNCHANGED <<live, created, draft, active, config, state, adrift>>
      /\ pc' = Planned /\ plan' = config
      /\ applied' <=> Planned = "idle"
      /\ matched' <=> Planned \in {"idle", "list"} /\ state.paths.rules = config.paths.rules
      /\ config.present => requested' = requested \cup {config.paths.rules}
      /\ requested \subseteq requested'
  BY DEF Plan, remote, content
<1>2. /\ Planned \in {"create", "list"} => config.present
      /\ Planned = "create" => ~Tracked
      /\ Planned = "list" => Tracked
      /\ Planned = "idle" /\ config.present => Tracked /\ state.paths = config.paths
      /\ Planned # "write"
  BY DEF Planned
<1>3. HandlersAreAskedFor'
  BY <1>1, <1>2 DEF HandlersAreAskedFor, Tracked
<1>4. OnItsWay' /\ RulesOnTheirWay'
  BY <1>1, <1>2 DEF OnItsWay, RulesOnTheirWay
<1>5. UnchangedIsKnown' /\ AppliedIsServed' /\ AppliedIsOver'
  BY <1>1, <1>2 DEF UnchangedIsKnown, AppliedIsServed, AppliedIsOver
<1>6. NoConfigIsLost'
  BY <1>1 DEF IInv, OnTrack, NoConfigIsLost
<1>. QED  BY <1>1, <1>3, <1>4, <1>5, <1>6, Unwritten DEF OnTrack

LEMMA DeleteOnTrack ==
    ASSUME IInv, Delete
    PROVE  OnTrack'
<1>1. /\ UNCHANGED <<created, draft, active, config, plan, requested, adrift>>
      /\ pc = "delete" /\ live' = live \ {state.id} /\ state' = NoState
      /\ IF plan.present THEN pc' = "create" /\ applied' = applied
                         ELSE pc' = "idle" /\ applied' = TRUE
  BY DEF Delete, Ends, content, unmoved
<1>2. ~applied /\ plan = config /\ (plan.present => plan.paths.rules \in requested)
  BY <1>1 DEF IInv, OnTrack, AppliedIsOver, HandlersAreAskedFor
<1>3. NoConfigIsLost' /\ NoState.id = 0
  BY <1>1 DEF IInv, OnTrack, NoConfigIsLost, NoState
<1>4. AppliedIsServed' /\ AppliedIsOver'
  BY <1>1, <1>2 DEF AppliedIsServed, AppliedIsOver
<1>5. CASE plan.present
  <2>1. HandlersAreAskedFor' /\ OnItsWay' /\ RulesOnTheirWay' /\ UnchangedIsKnown'
    BY <1>1, <1>2, <1>3, <1>5
       DEF HandlersAreAskedFor, OnItsWay, RulesOnTheirWay, UnchangedIsKnown, Tracked
  <2>. QED  BY <1>1, <1>3, <1>4, <2>1, Unwritten DEF OnTrack
<1>6. CASE ~plan.present
  BY <1>1, <1>3, <1>4, <1>6, AtRest, Unwritten DEF OnTrack
<1>. QED  BY <1>5, <1>6

LEMMA CreateOnTrack ==
    ASSUME IInv, Create
    PROVE  OnTrack'
<1>1. /\ UNCHANGED <<draft, active, config, plan, matched, requested, applied, adrift>>
      /\ pc = "create" /\ NewConfig /\ live' = live \cup {created'}
      /\ state' = [id |-> created', paths |-> NoList, tainted |-> TRUE]
      /\ surplus' = {} /\ todo' = Existing(plan.paths.rules) /\ at' = "compare"
      /\ changed' = TRUE /\ pc' = "write"
  BY DEF Create, NewConfig, Recorded, content, unmoved
<1>2. /\ ~applied /\ plan = config /\ plan.present /\ plan.paths.rules \in requested
      /\ state.id = 0
  BY <1>1 DEF IInv, OnTrack, AppliedIsOver, HandlersAreAskedFor, Tracked
<1>3. created' = created + 1 /\ created' \in Ids /\ created' # 0 /\ created \in Nat
  BY <1>1, NewConfigTyped, Fields DEF IInv
<1>4. draft[created'] = None
  BY <1>3 DEF IInv, OnTrack, FreshDrafts
<1>5. FreshDrafts' /\ ActiveIsRequested'
  BY <1>1, <1>3 DEF IInv, OnTrack, FreshDrafts, ActiveIsRequested, Ids
<1>6. HandlersAreAskedFor' /\ RulesOnTheirWay' /\ UnchangedIsKnown'
  BY <1>1, <1>2, <1>3 DEF HandlersAreAskedFor, RulesOnTheirWay, UnchangedIsKnown, Tracked
<1>7. OnItsWay'
  <2>1. \A p \in Paths : p \in todo' \/ plan.paths.rules[p] = Absent
    BY <1>1 DEF Existing
  <2>. QED  BY <1>1, <1>4, <2>1 DEF OnItsWay, Old, Wanted, None
<1>8. AppliedIsServed' /\ AppliedIsOver'
  BY <1>1, <1>2 DEF AppliedIsServed, AppliedIsOver
<1>9. NoConfigIsLost'
  <2>1. \A i \in live : i # 0
    BY Fields DEF IInv
  <2>. QED  BY <1>1, <1>2, <2>1 DEF IInv, OnTrack, NoConfigIsLost
<1>. QED  BY <1>5, <1>6, <1>7, <1>8, <1>9 DEF OnTrack

LEMMA ListOnTrack ==
    ASSUME IInv, List
    PROVE  OnTrack'
<1>1. /\ UNCHANGED <<live, created, draft, active, config, plan, state, matched, requested>>
      /\ UNCHANGED <<applied, adrift>>
      /\ pc = "list" /\ pc' = "write" /\ surplus' = Surplus
      /\ todo' = Existing(plan.paths.rules) /\ at' = "compare" /\ changed' = Differs
  BY DEF List, remote, content, unmoved
<1>2. HandlersAreAskedFor /\ UnchangedIsKnown /\ ~applied
  BY <1>1 DEF IInv, OnTrack, AppliedIsOver
<1>3. HandlersAreAskedFor' /\ RulesOnTheirWay'
  BY <1>1, <1>2 DEF HandlersAreAskedFor, RulesOnTheirWay, Tracked
<1>4. OnItsWay'
  <2>1. \A p \in Paths : p \in surplus' \cup todo' \/ Listed[p] = plan.paths.rules[p]
    BY <1>1 DEF Surplus, Existing
  <2>2. surplus' \cap todo' = {}
    BY <1>1 DEF Surplus
  <2>. QED  BY <1>1, <2>1, <2>2 DEF OnItsWay, Listed, Old, Wanted
<1>5. UnchangedIsKnown'
  BY <1>1, <1>2 DEF UnchangedIsKnown, Differs, Listed
<1>6. AppliedIsServed' /\ AppliedIsOver' /\ NoConfigIsLost'
  BY <1>1, <1>2 DEF IInv, OnTrack, AppliedIsServed, AppliedIsOver, NoConfigIsLost
<1>. QED  BY <1>1, <1>3, <1>4, <1>5, <1>6, Unwritten DEF OnTrack

LEMMA ListFindsNothingOnTrack ==
    ASSUME IInv, ListFindsNothing
    PROVE  OnTrack'
<1>1. /\ UNCHANGED <<live, created, draft, active, state, requested, applied, adrift>>
      /\ pc = "list" /\ pc' = "idle"
  BY DEF ListFindsNothing, remote, content, unmoved
<1>2. ~applied
  BY <1>1 DEF IInv, OnTrack, AppliedIsOver
<1>3. AppliedIsServed' /\ NoConfigIsLost'
  BY <1>1, <1>2 DEF IInv, OnTrack, AppliedIsServed, NoConfigIsLost
<1>. QED  BY <1>1, <1>3, AtRest, Unwritten DEF OnTrack

\* The conjuncts no step of a write disturbs.
LEMMA WritingOnTrack ==
    ASSUME IInv, Writing, \A i \in Ids \ {state.id} : draft'[i] = draft[i],
           changed' \/ (changed' = changed /\ draft' = draft)
    PROVE  /\ FreshDrafts' /\ HandlersAreAskedFor' /\ UnchangedIsKnown' /\ AppliedIsOver'
           /\ ActiveIsRequested' /\ AppliedIsServed' /\ NoConfigIsLost'
<1>1. /\ UNCHANGED <<live, created, active, config, plan>>
      /\ UNCHANGED <<matched, requested, state, pc, applied, adrift>>
      /\ pc = "write"
  BY WritingKeeps
<1>2. FreshDrafts'
  <2>1. state.id \in 0 .. created /\ created \in Nat
    BY Fields DEF IInv
  <2>2. \A i \in Ids : i > created => i # state.id
    BY <2>1
  <2>. QED  BY <1>1, <2>2 DEF IInv, OnTrack, FreshDrafts
<1>3. UnchangedIsKnown'
  BY <1>1 DEF IInv, OnTrack, UnchangedIsKnown, Listed
<1>4. HandlersAreAskedFor' /\ AppliedIsOver' /\ ActiveIsRequested'
  BY <1>1 DEF IInv, OnTrack, HandlersAreAskedFor, AppliedIsOver, ActiveIsRequested, Tracked
<1>5. AppliedIsServed' /\ NoConfigIsLost'
  BY <1>1 DEF IInv, OnTrack, AppliedIsServed, AppliedIsOver, NoConfigIsLost
<1>. QED  BY <1>2, <1>3, <1>4, <1>5

LEMMA DeletePathOnTrack ==
    ASSUME IInv, NEW p \in Paths, DeletePath(p)
    PROVE  OnTrack'
<1>1. /\ Writing /\ p \in surplus /\ Draw(p, Absent) /\ surplus' = surplus \ {p} /\ changed'
      /\ UNCHANGED <<todo, at>>
  BY DEF DeletePath, DrawsDeletion
<1>2. UNCHANGED <<plan, state, pc>> /\ pc = "write"
  BY <1>1, WritingKeeps
<1>3. TypeOK /\ HandlersAreAskedFor /\ OnItsWay
  BY DEF IInv, OnTrack
<1>4. /\ \A q \in Paths : draft'[state.id][q] = IF q = p THEN Absent ELSE draft[state.id][q]
      /\ \A i \in Ids \ {state.id} : draft'[i] = draft[i]
  BY <1>1, <1>2, <1>3, DrawTyped
<1>5. OnItsWay'
  BY <1>1, <1>2, <1>3, <1>4 DEF OnItsWay, Old, Wanted, Existing
<1>6. RulesOnTheirWay'
  <2>1. at = "compare"
    BY <1>1, <1>2 DEF IInv, OnTrack, RulesOnTheirWay
  <2>. QED  BY <1>1, <2>1 DEF RulesOnTheirWay
<1>. QED  BY <1>1, <1>4, <1>5, <1>6, WritingOnTrack DEF OnTrack

LEMMA WriteRulesOnTrack ==
    ASSUME IInv, NEW p \in Paths, WriteRules(p)
    PROVE  OnTrack'
<1>. DEFINE done == ~DeletesRules(p) /\ Written(p) = Wanted(p)
<1>1. /\ Writing /\ DrawsRules(p) /\ IsNext(p) /\ Draw(p, Written(p)) /\ surplus' = surplus
      /\ changed'
      /\ done => todo' = todo \ {p} /\ at' = "compare"
      /\ ~done => todo' = todo /\ at' = IF DeletesRules(p) THEN "delete" ELSE "create"
  BY DEF WriteRules, DrawsRules
<1>2. UNCHANGED <<plan, state, pc>> /\ pc = "write" /\ surplus = {}
  BY <1>1, WritingKeeps DEF IsNext
<1>3. TypeOK /\ HandlersAreAskedFor /\ OnItsWay /\ RulesOnTheirWay
  BY DEF IInv, OnTrack
<1>4. /\ Written(p) \in Seq(Rules)
      /\ ~DeletesRules(p) => Written(p) = Wanted(p) \/ Begun(Written(p), Wanted(p))
  BY <1>1, <1>2, <1>3, WrittenTyped
<1>5. /\ \A q \in Paths : draft'[state.id][q] = IF q = p THEN Written(p) ELSE draft[state.id][q]
      /\ \A i \in Ids \ {state.id} : draft'[i] = draft[i]
  BY <1>1, <1>2, <1>3, <1>4, DrawTyped
<1>6. \A q \in Paths : Old(q)' = (IF q = p THEN Written(p) ELSE Old(q)) /\ Wanted(q)' = Wanted(q)
  BY <1>2, <1>5 DEF Old, Wanted
<1>. HIDE DEF done
<1>7. OnItsWay'
  <2>1. todo' \subseteq Existing(plan'.paths.rules)
    BY <1>1, <1>2, <1>3 DEF OnItsWay
  <2>2. ASSUME NEW q \in Paths, q \notin todo'
        PROVE  Old(q)' = Wanted(q)'
    <3>1. CASE q = p
      <4>1. done
        BY <1>1, <2>2, <3>1 DEF IsNext
      <4>. QED  BY <1>6, <3>1, <4>1 DEF done
    <3>2. CASE q # p
      BY <1>1, <1>2, <1>3, <1>6, <2>2, <3>2 DEF OnItsWay
    <3>. QED  BY <3>1, <3>2
  <2>. QED  BY <1>1, <1>2, <2>1, <2>2 DEF OnItsWay
<1>8. RulesOnTheirWay'
  <2>1. CASE done
    BY <1>1, <2>1 DEF RulesOnTheirWay
  <2>2. CASE ~done
    <3>1. ASSUME NEW q \in Paths, IsNext(q)'
          PROVE  q = p
      <4>1. IsNext(q)
        BY <1>1, <1>2, <2>2, <3>1 DEF IsNext
      <4>. QED  BY <1>1, <1>2, <1>3, <4>1, OneIsNext
    <3>2. Old(p)' # Absent
      BY <1>4, <1>6, Marker
    <3>3. at' = "create" => Begun(Old(p)', Wanted(p)')
      BY <1>1, <1>4, <1>6, <2>2 DEF done
    <3>4. \A q \in Paths : IsNext(q)' =>
            /\ at' # "compare" => Old(q)' # Absent
            /\ at' = "create" => Begun(Old(q)', Wanted(q)')
      BY <3>1, <3>2, <3>3
    <3>. QED  BY <1>1, <1>2, <3>4 DEF RulesOnTheirWay, Begun
  <2>. QED  BY <2>1, <2>2
<1>. QED  BY <1>1, <1>5, <1>7, <1>8, WritingOnTrack DEF OnTrack

LEMMA KeepRulesOnTrack ==
    ASSUME IInv, NEW p \in Paths, KeepRules(p)
    PROVE  OnTrack'
<1>1. /\ Writing /\ IsNext(p) /\ at = "compare" /\ Old(p) = Wanted(p) /\ todo' = todo \ {p}
      /\ UNCHANGED <<draft, surplus, at, changed>>
  BY DEF KeepRules, Same
<1>2. UNCHANGED <<plan, state, pc>> /\ pc = "write"
  BY <1>1, WritingKeeps
<1>3. OnItsWay'
  BY <1>1, <1>2 DEF IInv, OnTrack, OnItsWay, Old, Wanted
<1>4. RulesOnTheirWay'
  BY <1>1 DEF RulesOnTheirWay
<1>. QED  BY <1>1, <1>3, <1>4, WritingOnTrack DEF OnTrack

\* Once everything is reconciled the draft is what is planned.
LEMMA DraftIsPlanned ==
    ASSUME IInv, Reconciled
    PROVE  /\ draft[state.id] = config.paths.rules /\ draft[state.id] \in requested
           /\ Tracked /\ plan = config /\ ~applied
<1>1. pc = "write" /\ surplus = {} /\ todo = {}
  BY DEF Reconciled
<1>2. Tracked /\ plan = config /\ plan.paths.rules \in requested /\ ~applied
  BY <1>1 DEF IInv, OnTrack, HandlersAreAskedFor, AppliedIsOver
<1>3. \A p \in Paths : draft[state.id][p] = plan.paths.rules[p]
  BY <1>1 DEF IInv, OnTrack, OnItsWay, Old, Wanted
<1>4. draft[state.id] \in Contents /\ plan.paths.rules \in Contents
  BY <1>2, Fields DEF IInv, Listed
<1>5. draft[state.id] = plan.paths.rules
  BY <1>3, <1>4 DEF Contents
<1>. QED  BY <1>2, <1>5

\* What a handler that has reconciled everything publishes.
LEMMA PublishedIsPlanned ==
    ASSUME IInv, Reconciled, Publish, requested' = requested
    PROVE  /\ active'[state.id] = config.paths.rules /\ ActiveIsRequested'
           /\ \A i \in Ids \ {state.id} : active'[i] = active[i]
<1>1. state.id \in Ids /\ active \in [Ids -> Contents \cup {Absent}]
  BY DraftIsPlanned, Fields DEF IInv, TypeOK
<1>2. /\ active'[state.id] = draft[state.id]
      /\ \A i \in Ids \ {state.id} : active'[i] = active[i]
  BY <1>1 DEF Publish
<1>. QED  BY <1>2, DraftIsPlanned DEF IInv, OnTrack, ActiveIsRequested

LEMMA SavedKeepsId ==
    ASSUME TypeOK, Saved
    PROVE  state'.id = state.id
BY DEF Saved, TypeOK

LEMMA EndOnTrack ==
    ASSUME IInv, Get \/ Activate
    PROVE  OnTrack'
<1>1. /\ UNCHANGED <<live, created, draft, config, matched, requested, adrift>>
      /\ Reconciled /\ pc' = "idle" /\ Saved
      /\ \/ ~changed /\ active' = active
         \/ Publish
  BY DEF Get, Activate, Ends, remote, content, unmoved
<1>2. state'.id = state.id
  BY <1>1, SavedKeepsId DEF IInv
<1>3. FreshDrafts' /\ NoConfigIsLost'
  BY <1>1, <1>2 DEF IInv, OnTrack, FreshDrafts, NoConfigIsLost
<1>4. ActiveIsRequested' /\ AppliedIsServed'
  <2>1. CASE ~changed /\ active' = active
    <3>1. matched
      BY <1>1, <2>1, DraftIsPlanned DEF IInv, OnTrack, UnchangedIsKnown, Reconciled, Listed
    <3>. QED  BY <1>1, <2>1, <3>1 DEF IInv, OnTrack, ActiveIsRequested, AppliedIsServed
  <2>2. CASE Publish
    BY <1>1, <1>2, <2>2, DraftIsPlanned, PublishedIsPlanned DEF AppliedIsServed, Tracked
  <2>. QED  BY <1>1, <2>1, <2>2
<1>. QED  BY <1>1, <1>3, <1>4, AtRest DEF OnTrack

\* A failed call ends a handler, and no apply without errors.
LEMMA FaultEnds ==
    ASSUME IInv, Fault, pc # "idle"
    PROVE  /\ HandlersAreAskedFor' /\ OnItsWay' /\ RulesOnTheirWay' /\ UnchangedIsKnown'
           /\ AppliedIsOver' /\ AppliedIsServed' /\ requested' = requested
<1>1. pc' = "idle" /\ UNCHANGED <<applied, requested>>
  BY FaultTyped DEF IInv
<1>2. ~applied
  BY DEF IInv, OnTrack, AppliedIsOver
<1>. QED  BY <1>1, <1>2, AtRest DEF AppliedIsServed

LEMMA CallFailsOnTrack ==
    ASSUME IInv, CallFails
    PROVE  OnTrack'
<1>1. Fault /\ pc # "idle" /\ UNCHANGED <<live, created, draft, active, state, adrift>>
  BY DEF CallFails, remote, content
<1>2. NoConfigIsLost'
  BY <1>1 DEF IInv, OnTrack, NoConfigIsLost
<1>. QED  BY <1>1, <1>2, FaultEnds, Unwritten DEF OnTrack

LEMMA ResponseLostOnTrack ==
    ASSUME IInv, ResponseLost
    PROVE  OnTrack'
<1>0. Fault /\ state' = state /\ TypeOK /\ NoConfigIsLost
  BY LostResponse DEF IInv, OnTrack
<1>1. CASE /\ pc = "delete" /\ live' = live \ {state.id}
           /\ UNCHANGED <<created, names, draft, active, adrift>>
  <2>1. NoConfigIsLost'
    BY <1>0, <1>1 DEF NoConfigIsLost
  <2>. QED  BY <1>0, <1>1, <2>1, FaultEnds, Unwritten DEF OnTrack
<1>2. CASE NewConfig /\ adrift' = adrift \cup {created'} /\ UNCHANGED <<draft, active>>
  <2>1. pc = "create" /\ live' = live \cup {created'} /\ created' = created + 1 /\ created \in Nat
    BY <1>0, <1>2, Fields DEF NewConfig
  <2>2. FreshDrafts'
    BY <1>2, <2>1 DEF IInv, OnTrack, FreshDrafts, Ids
  <2>3. ActiveIsRequested' /\ NoConfigIsLost'
    BY <1>0, <1>2, <2>1, FaultEnds DEF IInv, OnTrack, ActiveIsRequested, NoConfigIsLost
  <2>. QED  BY <1>0, <2>1, <2>2, <2>3, FaultEnds DEF OnTrack
<1>3. CASE /\ pc = "write" /\ \E p \in Paths : DrawsDeletion(p) \/ DrawsRules(p)
           /\ UNCHANGED <<live, created, names, active, adrift>>
  <2>1. \A i \in Ids \ {state.id} : draft'[i] = draft[i]
    BY <1>0, <1>3, DrawsTyped DEF IInv, OnTrack
  <2>2. \A i \in Ids : i > created => i # state.id
    BY <1>0, Fields
  <2>3. FreshDrafts'
    BY <1>3, <2>1, <2>2 DEF IInv, OnTrack, FreshDrafts
  <2>4. ActiveIsRequested' /\ NoConfigIsLost'
    BY <1>0, <1>3, FaultEnds DEF IInv, OnTrack, ActiveIsRequested, NoConfigIsLost
  <2>. QED  BY <1>0, <1>3, <2>3, <2>4, FaultEnds DEF OnTrack
<1>4. CASE /\ Reconciled /\ changed /\ Publish
           /\ UNCHANGED <<live, created, names, draft, adrift>>
  <2>1. pc # "idle"
    BY <1>4 DEF Reconciled
  <2>2. ActiveIsRequested'
    BY <1>0, <1>4, <2>1, FaultEnds, PublishedIsPlanned
  <2>3. FreshDrafts' /\ NoConfigIsLost'
    BY <1>0, <1>4 DEF IInv, OnTrack, FreshDrafts, NoConfigIsLost
  <2>. QED  BY <1>0, <2>1, <2>2, <2>3, FaultEnds DEF OnTrack
<1>. QED  BY <1>1, <1>2, <1>3, <1>4, LostResponse

LEMMA KilledOnTrack ==
    ASSUME IInv, Killed
    PROVE  OnTrack'
<1>1. /\ Fault /\ pc = "write" /\ adrift' = adrift \cup {state.id}
      /\ UNCHANGED <<live, created, draft, active>>
  BY DEF Killed, remote, content
<1>2. NoConfigIsLost'
  BY <1>1 DEF IInv, OnTrack, NoConfigIsLost
<1>. QED  BY <1>1, <1>2, FaultEnds, Unwritten DEF OnTrack

LEMMA EditOnTrack ==
    ASSUME IInv, Edit \/ Import
    PROVE  OnTrack'
<1>1. /\ UNCHANGED <<live, created, draft, active, pc, requested>>
      /\ pc = "idle" /\ applied' = FALSE
  BY DEF Edit, Import, content, between
<1>2. NoConfigIsLost'
  <2>1. CASE Edit
    BY <2>1, <1>1 DEF IInv, OnTrack, NoConfigIsLost, Edit
  <2>2. CASE Import
    <3>1. PICK i \in live \cap adrift :
            /\ state' = [id |-> i, paths |-> MatchOrder(draft[i], NoList), tainted |-> FALSE]
            /\ adrift' = adrift \ {i}
      BY <2>2 DEF Import
    <3>2. state.id = 0 /\ state'.id = i
      BY <2>2, <3>1 DEF Import, Tracked
    <3>3. \A j \in live : j # 0
      BY Fields DEF IInv
    <3>. QED  BY <1>1, <3>1, <3>2, <3>3 DEF IInv, OnTrack, NoConfigIsLost
  <2>. QED  BY <2>1, <2>2
<1>. QED  BY <1>1, <1>2, AtRest, Unwritten DEF OnTrack, AppliedIsServed

LEMMA DriftOnTrack ==
    ASSUME IInv, EditDraft \/ DeleteByHand
    PROVE  OnTrack'
<1>1. /\ Drift /\ UNCHANGED <<created, state, pc, adrift>>
      /\ pc = "idle" /\ applied' = FALSE /\ state.id \in live /\ live' \subseteq live
  BY DriftTyped DEF EditDraft, DeleteByHand, IInv
<1>2. NoConfigIsLost'
  BY <1>1 DEF IInv, OnTrack, NoConfigIsLost
<1>3. FreshDrafts' /\ ActiveIsRequested'
  <2>1. CASE EditDraft
    <3>1. /\ \A i \in Ids \ {state.id} : draft'[i] = draft[i]
          /\ \/ UNCHANGED <<active, requested>>
             \/ \E d \in Contents : /\ active' = [active EXCEPT ![state.id] = d]
                                    /\ requested' = requested \cup {d}
      BY <2>1, EditDraftTyped DEF IInv
    <3>2. \A i \in Ids : i > created => i # state.id
      BY Fields DEF IInv
    <3>3. FreshDrafts'
      BY <1>1, <3>1, <3>2 DEF IInv, OnTrack, FreshDrafts
    <3>4. active \in [Ids -> Contents \cup {Absent}]
      BY DEF IInv, TypeOK
    <3>5. ActiveIsRequested'
      BY <3>1, <3>4 DEF IInv, OnTrack, ActiveIsRequested
    <3>. QED  BY <3>3, <3>5
  <2>2. CASE DeleteByHand
    BY <1>1, <2>2, Unwritten DEF DeleteByHand, content
  <2>. QED  BY <2>1, <2>2
<1>. QED  BY <1>1, <1>2, <1>3, AtRest DEF OnTrack, AppliedIsServed

---------------------------------------------------------------------------
(* Theorems.                                                               *)

LEMMA InitInv == Init => IInv
BY InitTyped, InitOnTrack DEF IInv

LEMMA NextInv ==
    ASSUME IInv, [Next]_vars
    PROVE  IInv'
<1>0. /\ TypeOK /\ HandlersAreAskedFor /\ OnItsWay /\ RulesOnTheirWay
  BY DEF IInv, OnTrack
<1>1. CASE Refresh \/ SkipRefresh
  BY <1>0, <1>1, BeginTyped, BeginOnTrack DEF IInv
<1>2. CASE Plan
  BY <1>0, <1>2, PlanTyped, PlanOnTrack DEF IInv
<1>3. CASE Delete
  BY <1>0, <1>3, DeleteTyped, DeleteOnTrack DEF IInv
<1>4. CASE Create
  BY <1>0, <1>4, CreateTyped, CreateOnTrack DEF IInv
<1>5. CASE List \/ ListFindsNothing
  BY <1>0, <1>5, ListTyped, ListOnTrack, ListFindsNothingOnTrack DEF IInv
<1>6. CASE Write
  <2>1. PICK p \in Paths : DeletePath(p) \/ WriteRules(p) \/ KeepRules(p)
    BY <1>6 DEF Write
  <2>2. TypeOK'
    BY <1>0, <2>1, WriteTyped
  <2>3. OnTrack'
    BY <2>1, DeletePathOnTrack, WriteRulesOnTrack, KeepRulesOnTrack
  <2>. QED  BY <2>2, <2>3 DEF IInv
<1>7. CASE Get \/ Activate
  BY <1>0, <1>7, EndTyped, EndOnTrack DEF IInv
<1>8. CASE CallFails
  BY <1>0, <1>8, CallFailsTyped, CallFailsOnTrack DEF IInv
<1>9. CASE ResponseLost
  BY <1>0, <1>9, ResponseLostTyped, ResponseLostOnTrack DEF IInv
<1>10. CASE Killed
  BY <1>0, <1>10, KilledTyped, KilledOnTrack DEF IInv
<1>11. CASE Edit \/ Import
  BY <1>0, <1>11, EditTyped, ImportTyped, EditOnTrack DEF IInv
<1>12. CASE EditDraft \/ DeleteByHand
  BY <1>0, <1>12, EditDraftTyped, DeleteByHandTyped, DriftOnTrack DEF IInv
<1>13. CASE UNCHANGED vars
  BY <1>13 DEF vars, remote, content, work, bounds, history, IInv, TypeOK, OnTrack, FreshDrafts,
               HandlersAreAskedFor, OnItsWay, RulesOnTheirWay, UnchangedIsKnown, AppliedIsOver,
               ActiveIsRequested, AppliedIsServed, NoConfigIsLost, Tracked, Listed, Old, Wanted,
               IsNext, Begun
<1>. QED  BY <1>1, <1>2, <1>3, <1>4, <1>5, <1>6, <1>7, <1>8, <1>9, <1>10, <1>11, <1>12, <1>13
          DEF Next, Handler, Others

\* Each path of the draft is on its way from what was listed to what is planned,
\* in every state.
THEOREM RoutingInvariance == Spec => []IInv
<1>1. IInv /\ [Next]_vars => IInv'
  BY NextInv
<1>. QED  BY <1>1, InitInv, PTL DEF Spec

\* The record, the drafts and the served versions keep to their types; lists of
\* paths stay in one order however MatchOrder has put them together.
THEOREM RoutingTypeCorrect == Spec => []TypeOK
<1>1. IInv => TypeOK
  BY DEF IInv
<1>. QED  BY <1>1, RoutingInvariance, PTL

\* Activate only ever makes whole configurations the served version: what a
\* failed Update left of one in the draft is reconciled first.
THEOREM ServesRequests == Spec => []ServesWholeWishes
<1>1. IInv => ServesWholeWishes
  BY Fields DEF IInv, OnTrack, ActiveIsRequested, ServesWholeWishes
<1>. QED  BY <1>1, RoutingInvariance, PTL

\* Update compares with the draft and with the state, so that an apply that did
\* something without an error serves the configuration.
THEOREM AppliesRouting == Spec => []AppliedIsServed
<1>1. IInv => AppliedIsServed
  BY DEF IInv, OnTrack
<1>. QED  BY <1>1, RoutingInvariance, PTL

\* Create records the routing config with its first call, so that no failure
\* loses it.
THEOREM RecordsConfigs == Spec => []NoConfigIsLost
<1>1. IInv => NoConfigIsLost
  BY DEF IInv, OnTrack
<1>. QED  BY <1>1, RoutingInvariance, PTL
=============================================================================
