-------------------------- MODULE BlockPair_proofs --------------------------
(***************************************************************************)
(* Proofs about BlockPair, for any names, values and bound on failures,    *)
(* for parents changed in place or recreated, references that are fields   *)
(* or associations, and an API that refuses hanging references or not.     *)
(***************************************************************************)
EXTENDS BlockPairInv, FiniteSetTheorems, TLAPS

\* The part of TypeOK about the draft, the plan and the beginning of the run.
BlocksTypeOK ==
    /\ parents \in ParentsType /\ wantParents \in ParentsType /\ beganParents \in ParentsType
    /\ deps \in DepsType /\ wantDeps \in DepsType /\ beganDeps \in DepsType

\* A block that exists is one of its kind.
LEMMA Blocks ==
    ASSUME BlocksTypeOK
    PROVE  /\ \A n \in Dependents : deps[n] # Absent => deps[n] \in Dependent
           /\ \A n \in Dependents : wantDeps[n] # Absent => wantDeps[n] \in Dependent
           /\ Absent \notin Dependent
           /\ DOMAIN parents = Parents /\ DOMAIN wantParents = Parents
           /\ DOMAIN deps = Dependents /\ DOMAIN wantDeps = Dependents
           /\ DOMAIN beganParents = Parents /\ DOMAIN beganDeps = Dependents
BY PairAssumption DEF BlocksTypeOK, ParentsType, DepsType, Dependent

\* A call about a dependent makes it a dependent, with references it had or
\* should have, or takes it away.
LEMMA DepCallsTyped ==
    ASSUME BlocksTypeOK, NEW n \in Dependents, wantDeps[n] # Absent, NEW x \in DepCalls(n)
    PROVE  /\ x \in Dependent \cup {Absent}
           /\ x # Absent =>
                \A r \in x.refs : r \in wantDeps[n].refs \/ (deps[n] # Absent /\ r \in deps[n].refs)
<1>1. wantDeps[n] \in Dependent /\ (deps[n] = Absent \/ deps[n] \in Dependent)
  BY Blocks
<1>2. CASE ~RefsAreAssociations
  <2>1. x = Absent \/ x = wantDeps[n]
    BY <1>2 DEF DepCalls, FieldCalls
  <2>. QED  BY <1>1, <2>1
<1>3. CASE RefsAreAssociations
  <2>1. x \in AssociationCalls(n)
    BY <1>3 DEF DepCalls
  <2>2. CASE deps[n] = Absent
    BY <1>1, <2>1, <2>2 DEF AssociationCalls, Dependent
  <2>3. CASE deps[n] # Absent /\ deps[n].val # wantDeps[n].val
    BY <1>1, <2>1, <2>3 DEF AssociationCalls, Dependent
  <2>4. CASE deps[n] # Absent /\ deps[n].val = wantDeps[n].val
    <3>1. PICK s \in DiffSet(deps[n].refs, wantDeps[n].refs) : x = [deps[n] EXCEPT !.refs = s]
      BY <2>1, <2>4 DEF AssociationCalls
    <3>2. s \subseteq deps[n].refs \cup wantDeps[n].refs
      <4>1. CASE deps[n].refs \ wantDeps[n].refs # {}
        BY <4>1 DEF DiffSet
      <4>2. CASE deps[n].refs \ wantDeps[n].refs = {}
        BY <4>2 DEF DiffSet
      <4>. QED  BY <4>1, <4>2
    <3>. QED  BY <1>1, <3>1, <3>2, <2>4 DEF Dependent
  <2>. QED  BY <2>2, <2>3, <2>4
<1>. QED  BY <1>2, <1>3

---------------------------------------------------------------------------
(* The four kinds of calls.                                                *)

DeletesParent(n, e) ==
    /\ pass = "deleteParents" /\ n \in Parents /\ n \in doomed
    /\ parents[n] # Absent /\ wantParents[n] = Absent
    /\ e = <<[parents EXCEPT ![n] = Absent], deps>>

WritesParent(n, e) ==
    /\ pass = "upsertParents" /\ n \in Parents /\ n \in toWrite /\ cur \in {n, Absent}
    /\ wantParents[n] # Absent /\ parents[n] # wantParents[n]
    /\ e = <<[parents EXCEPT ![n] = ParentCall(n)], deps>>

DeletesDep(n, e) ==
    /\ pass = "deleteDeps" /\ n \in Dependents /\ n \in doomed
    /\ deps[n] # Absent /\ wantDeps[n] = Absent
    /\ e = <<parents, [deps EXCEPT ![n] = Absent]>>

WritesDep(n, e) ==
    /\ pass = "upsertDeps" /\ n \in Dependents /\ n \in toWrite /\ cur \in {n, Absent}
    /\ wantDeps[n] # Absent /\ deps[n] # wantDeps[n]
    /\ \E x \in DepCalls(n) : e = <<parents, [deps EXCEPT ![n] = x]>>

\* Every call is about one block that the draft and the plan differ in.
LEMMA CallKinds ==
    ASSUME IInv, NEW n \in Turn, NEW e \in Effects(n)
    PROVE  DeletesParent(n, e) \/ WritesParent(n, e) \/ DeletesDep(n, e) \/ WritesDep(n, e)
<1>0. BlocksTypeOK /\ Work
  BY DEF IInv, TypeOK, BlocksTypeOK
<1>1. pass \in {"deleteParents", "upsertParents", "deleteDeps", "upsertDeps"}
  BY DEF Turn
<1>2. CASE pass = "deleteParents"
  BY <1>0, <1>2, Blocks DEF Turn, Effects, DeletesParent, Work, Surplus
<1>3. CASE pass = "upsertParents"
  BY <1>0, <1>3, Blocks DEF Turn, Effects, WritesParent, Work, Differing
<1>4. CASE pass = "deleteDeps"
  BY <1>0, <1>4, Blocks DEF Turn, Effects, DeletesDep, Work, Surplus
<1>5. CASE pass = "upsertDeps"
  BY <1>0, <1>5, Blocks DEF Turn, Effects, WritesDep, Work, Differing
<1>. QED  BY <1>1, <1>2, <1>3, <1>4, <1>5

\* What holds of the draft after any accepted call, whether the handler
\* learns of it or not.
LEMMA DraftStep ==
    ASSUME IInv, NEW n \in Turn, NEW e \in Effects(n), Accepted(e), DraftBecomes(e),
           UNCHANGED <<wanted, known, began>>
    PROVE  BlocksTypeOK' /\ References' /\ Bounded' /\ UntouchedStay'
<1>0. BlocksTypeOK /\ Work /\ Achieved /\ Ahead /\ References /\ Bounded /\ UntouchedStay
  BY DEF IInv, TypeOK, BlocksTypeOK
<1>. USE DEF wanted, began, DraftBecomes
<1>1. References'
  BY <1>0 DEF References, Accepted, Resolves
<1>2. CASE DeletesParent(n, e)
  <2>1. parents' = [parents EXCEPT ![n] = Absent] /\ deps' = deps
    BY <1>2 DEF DeletesParent
  <2>2. n \in Parents /\ wantParents[n] = Absent /\ parents[n] # Absent
    BY <1>2 DEF DeletesParent
  <2>3. BlocksTypeOK'
    BY <1>0, <2>1 DEF BlocksTypeOK, ParentsType
  <2>4. UntouchedStay'
    BY <1>0, <2>1, <2>2 DEF BlocksTypeOK, UntouchedStay, ParentsType
  <2>5. Existing(parents)' \subseteq Existing(parents)
    BY <1>0, <2>1, <2>3, Blocks DEF Existing, BlocksTypeOK, ParentsType
  <2>6. Bounded'
    BY <1>0, <2>5 DEF Bounded, Present, Existing
  <2>. QED  BY <1>1, <2>3, <2>4, <2>6
<1>3. CASE WritesParent(n, e)
  <2>1. parents' = [parents EXCEPT ![n] = ParentCall(n)] /\ deps' = deps
    BY <1>3 DEF WritesParent
  <2>2. n \in Parents /\ wantParents[n] # Absent /\ parents[n] # wantParents[n]
        /\ pass = "upsertParents"
    BY <1>3 DEF WritesParent
  <2>3. BlocksTypeOK'
    BY <1>0, <2>1, <2>2 DEF BlocksTypeOK, ParentsType, ParentCall
  <2>4. UntouchedStay'
    BY <1>0, <2>1, <2>2 DEF BlocksTypeOK, UntouchedStay, ParentsType
  <2>5. Bounded'
    <3>1. SUFFICES ASSUME ~Present
                   PROVE  Existing(parents)' \subseteq Existing(wantParents)
      BY DEF Bounded, Present, Existing
    <3>2. Surplus(parents, wantParents) = {}
      BY <1>0, <2>2, <3>1 DEF Achieved
    <3>. QED  BY <1>0, <2>1, <2>2, <2>3, <3>2, Blocks
           DEF Surplus, Existing, BlocksTypeOK, ParentsType
  <2>. QED  BY <1>1, <2>3, <2>4, <2>5
<1>4. CASE DeletesDep(n, e)
  <2>1. parents' = parents /\ deps' = [deps EXCEPT ![n] = Absent]
    BY <1>4 DEF DeletesDep
  <2>2. n \in Dependents /\ wantDeps[n] = Absent /\ deps[n] # Absent
    BY <1>4 DEF DeletesDep
  <2>3. BlocksTypeOK'
    BY <1>0, <2>1 DEF BlocksTypeOK, DepsType
  <2>4. UntouchedStay'
    BY <1>0, <2>1, <2>2 DEF BlocksTypeOK, UntouchedStay, DepsType
  <2>5. Bounded'
    BY <1>0, <2>1 DEF Bounded, Present, Existing
  <2>. QED  BY <1>1, <2>3, <2>4, <2>5
<1>5. CASE WritesDep(n, e)
  <2>0. PICK x \in DepCalls(n) : e = <<parents, [deps EXCEPT ![n] = x]>>
    BY <1>5 DEF WritesDep
  <2>1. parents' = parents /\ deps' = [deps EXCEPT ![n] = x]
    BY <2>0
  <2>2. n \in Dependents /\ wantDeps[n] # Absent /\ deps[n] # wantDeps[n]
    BY <1>5 DEF WritesDep
  <2>3. BlocksTypeOK'
    <3>1. x \in Dependent \cup {Absent}
      BY <1>0, <2>2, DepCallsTyped
    <3>. QED  BY <1>0, <2>1, <3>1 DEF BlocksTypeOK, DepsType
  <2>4. UntouchedStay'
    BY <1>0, <2>1, <2>2 DEF BlocksTypeOK, UntouchedStay, DepsType
  <2>5. Bounded'
    BY <1>0, <2>1 DEF Bounded, Present, Existing
  <2>. QED  BY <1>1, <2>3, <2>4, <2>5
<1>. QED  BY CallKinds, <1>2, <1>3, <1>4, <1>5

---------------------------------------------------------------------------
(* The invariant.                                                          *)

\* The rest of TypeOK.
HandlerTypeOK ==
    /\ known \in BOOLEAN /\ pass \in Passes /\ doomed \in SUBSET Names
    /\ toWrite \in SUBSET Names /\ cur \in Names \cup {Absent}
    /\ faults \in 0 .. MaxFaults /\ refused \in BOOLEAN

\* TypeOK in two parts.
LEMMA TypeParts ==
    /\ TypeOK <=> BlocksTypeOK /\ HandlerTypeOK
    /\ TypeOK' <=> BlocksTypeOK' /\ HandlerTypeOK'
BY DEF TypeOK, BlocksTypeOK, HandlerTypeOK

\* A draft without surplus and without differences is the plan.
LEMMA NothingLeft ==
    ASSUME BlocksTypeOK
    PROVE  /\ Differing(parents, wantParents) = {} /\ Surplus(parents, wantParents) = {}
                => parents = wantParents
           /\ Differing(deps, wantDeps) = {} /\ Surplus(deps, wantDeps) = {}
                => deps = wantDeps
<1>1. /\ \A n \in Parents : (wantParents[n] # Absent => parents[n] = wantParents[n])
                            /\ (wantParents[n] = Absent => parents[n] = Absent)
                => parents[n] = wantParents[n]
      /\ \A n \in Dependents : (wantDeps[n] # Absent => deps[n] = wantDeps[n])
                            /\ (wantDeps[n] = Absent => deps[n] = Absent)
                => deps[n] = wantDeps[n]
  OBVIOUS
<1>2. Differing(parents, wantParents) = {} /\ Surplus(parents, wantParents) = {}
        => \A n \in Parents : parents[n] = wantParents[n]
  BY <1>1, Blocks DEF Differing, Surplus
<1>3. Differing(deps, wantDeps) = {} /\ Surplus(deps, wantDeps) = {}
        => \A n \in Dependents : deps[n] = wantDeps[n]
  BY <1>1, Blocks DEF Differing, Surplus
<1>. QED  BY <1>2, <1>3 DEF BlocksTypeOK, ParentsType, DepsType

\* The run begins with nothing done.
LEMMA IInvInit == Init => IInv
<1>. SUFFICES ASSUME Init PROVE IInv
  OBVIOUS
<1>1. TypeOK
  <2>1. BlocksTypeOK
    BY DEF Init, BlocksTypeOK
  <2>2. faults \in 0 .. MaxFaults
    BY PairAssumption DEF Init
  <2>3. HandlerTypeOK
    BY <2>2 DEF Init, HandlerTypeOK, Passes
  <2>. QED  BY <2>1, <2>3, TypeParts
<1>2. Work /\ Achieved /\ Ahead
  BY DEF Init, Work, Achieved, Ahead, ParentsWritten, DepsWritten, LastDelete
<1>3. References /\ Bounded /\ UntouchedStay
  BY DEF Init, References, Bounded, UntouchedStay
<1>. QED  BY <1>1, <1>2, <1>3 DEF IInv

\* What does not depend on where the handler is stays as long as the draft does.
LEMMA FrozenDraft ==
    ASSUME IInv, UNCHANGED <<draft, wanted, known, began>>
    PROVE  BlocksTypeOK' /\ References' /\ Bounded' /\ UntouchedStay'
<1>. USE DEF draft, wanted, began
<1>1. BlocksTypeOK'
  BY DEF IInv, TypeOK, BlocksTypeOK
<1>2. References'
  BY DEF IInv, References, Resolves
<1>3. Bounded'
  BY DEF IInv, Bounded, Present, Existing
<1>4. UntouchedStay'
  BY DEF IInv, UntouchedStay
<1>. QED  BY <1>1, <1>2, <1>3, <1>4

\* A list finds what there is to do.
LEMMA ListStep ==
    ASSUME IInv, ListParents \/ ListDeps
    PROVE  IInv'
<1>0. BlocksTypeOK /\ HandlerTypeOK /\ Work /\ Achieved /\ Ahead
  BY TypeParts DEF IInv
<1>1. BlocksTypeOK' /\ References' /\ Bounded' /\ UntouchedStay'
  BY FrozenDraft DEF ListParents, ListDeps
<1>2. CASE ListParents
  <2>1. HandlerTypeOK'
    BY <1>0, <1>2, Blocks DEF ListParents, NextPass, HandlerTypeOK, Passes, Surplus, Differing, Names, wanted, began, draft
  <2>2. Work'
    BY <1>0, <1>2 DEF ListParents, NextPass, Work, Present, Surplus, Differing, wanted, began, draft
  <2>3. Achieved'
    BY <1>0, <1>2 DEF ListParents, NextPass, Achieved, Present, Surplus, Differing, wanted, began, draft,
        ParentsWritten, DepsWritten, LastDelete
  <2>4. Ahead'
    BY <1>0, <1>2 DEF ListParents, NextPass, Ahead, Achieved, Present, wanted, began, draft
  <2>. QED  BY <1>1, <2>1, <2>2, <2>3, <2>4, TypeParts DEF IInv
<1>3. CASE ListDeps
  <2>1. HandlerTypeOK'
    BY <1>0, <1>3, Blocks DEF ListDeps, NextPass, HandlerTypeOK, Passes, Surplus, Differing, Names, wanted, began, draft
  <2>2. Work'
    BY <1>0, <1>3 DEF ListDeps, NextPass, Work, Present, Surplus, Differing, wanted, began, draft
  <2>3. Achieved'
    BY <1>0, <1>3 DEF ListDeps, NextPass, Achieved, Present, Surplus, Differing, wanted, began, draft,
        ParentsWritten, DepsWritten, LastDelete
  <2>4. Ahead'
    BY <1>0, <1>3 DEF ListDeps, NextPass, Ahead, Present, wanted, began, draft
  <2>. QED  BY <1>1, <2>1, <2>2, <2>3, <2>4, TypeParts DEF IInv
<1>. QED  BY <1>2, <1>3

\* A pass that has nothing left to do has achieved what it is there for.
LEMMA PassDoneStep ==
    ASSUME IInv, PassDone
    PROVE  IInv'
<1>0. BlocksTypeOK /\ HandlerTypeOK /\ Work /\ Achieved /\ Ahead
  BY TypeParts DEF IInv
<1>1. BlocksTypeOK' /\ References' /\ Bounded' /\ UntouchedStay'
  BY FrozenDraft DEF PassDone
<1>2. HandlerTypeOK'
  BY <1>0 DEF PassDone, NextPass, HandlerTypeOK, Passes, wanted, began, draft
<1>3. Work'
  BY <1>0 DEF PassDone, NextPass, Work, Present, Surplus, Differing, wanted, began, draft
<1>4. Achieved'
  BY <1>0 DEF PassDone, NextPass, Work, Achieved, Present, Surplus, Differing, wanted, began, draft,
      ParentsWritten, DepsWritten, LastDelete
<1>5. Ahead'
  BY <1>0 DEF PassDone, NextPass, Ahead, Present, wanted, began, draft
<1>. QED  BY <1>1, <1>2, <1>3, <1>4, <1>5, TypeParts DEF IInv

\* A handler that fails leaves the draft as it is, or as its last call made it.
LEMMA FailStep ==
    ASSUME IInv, CallRefused \/ CallFails
    PROVE  IInv'
<1>0. BlocksTypeOK /\ HandlerTypeOK
  BY TypeParts DEF IInv
<1>1. BlocksTypeOK' /\ References' /\ Bounded' /\ UntouchedStay'
  BY FrozenDraft, DraftStep DEF CallRefused, CallFails, Fail
<1>2. HandlerTypeOK'
  <2>1. faults' \in 0 .. MaxFaults
    BY <1>0, PairAssumption DEF CallRefused, CallFails, HandlerTypeOK
  <2>2. refused' = TRUE \/ refused' = refused
    BY DEF CallRefused, CallFails
  <2>. QED  BY <1>0, <2>1, <2>2 DEF CallRefused, CallFails, Fail, HandlerTypeOK, Passes
<1>3. pass' = "failed" /\ doomed' = {} /\ toWrite' = {} /\ cur' = Absent
  BY DEF CallRefused, CallFails, Fail
<1>4. Work' /\ Achieved' /\ Ahead'
  BY <1>3 DEF Work, Achieved, Ahead, ParentsWritten, DepsWritten, LastDelete
<1>. QED  BY <1>1, <1>2, <1>4, TypeParts DEF IInv

\* The next run begins where the failed one ended, or began.
LEMMA RetryStep ==
    ASSUME IInv, Retry
    PROVE  IInv'
<1>0. BlocksTypeOK /\ HandlerTypeOK /\ References /\ Work
  BY TypeParts DEF IInv
<1>1. /\ UNCHANGED wanted /\ pass = "failed" /\ pass' = "listParents"
      /\ UNCHANGED <<doomed, toWrite, cur, faults>>
      /\ beganParents' = parents' /\ beganDeps' = deps' /\ refused' = FALSE /\ known' \in BOOLEAN
  BY DEF Retry, AnyBlock
<1>2. \/ parents' = parents /\ deps' = deps
      \/ parents' = beganParents /\ deps' = beganDeps
  BY DEF Retry, DraftBecomes, draft, began
<1>3. BlocksTypeOK'
  BY <1>0, <1>1, <1>2 DEF BlocksTypeOK, wanted
<1>4. References'
  BY <1>0, <1>1, <1>2 DEF References, Resolves, wanted
<1>5. Bounded' /\ UntouchedStay' /\ Ahead'
  BY <1>1 DEF Bounded, UntouchedStay, Ahead
<1>6. HandlerTypeOK'
  BY <1>0, <1>1 DEF HandlerTypeOK, Passes
<1>7. Work' /\ Achieved'
  BY <1>0, <1>1 DEF Work, Achieved, ParentsWritten, DepsWritten, LastDelete
<1>. QED  BY <1>3, <1>4, <1>5, <1>6, <1>7, TypeParts DEF IInv

\* A call brings the draft one block, or one call, closer to the plan.
LEMMA CallStep ==
    ASSUME IInv, Call
    PROVE  IInv'
<1>0. BlocksTypeOK /\ HandlerTypeOK /\ Work /\ Achieved /\ Ahead
  BY TypeParts DEF IInv
<1>1. PICK n \in Turn : \E e \in Effects(n) :
        /\ Accepted(e)
        /\ DraftBecomes(e)
        /\ doomed' = doomed \ {n}
        /\ IF Finished(n) THEN toWrite' = toWrite \ {n} /\ cur' = Absent
                          ELSE cur' = n /\ UNCHANGED toWrite
  BY DEF Call
<1>2. PICK e \in Effects(n) :
        /\ Accepted(e)
        /\ DraftBecomes(e)
        /\ doomed' = doomed \ {n}
        /\ IF Finished(n) THEN toWrite' = toWrite \ {n} /\ cur' = Absent
                          ELSE cur' = n /\ UNCHANGED toWrite
  BY <1>1
<1>3. UNCHANGED <<wantParents, wantDeps, known, pass, faults, refused, beganParents, beganDeps>>
  BY DEF Call, wanted, began
<1>4. BlocksTypeOK' /\ References' /\ Bounded' /\ UntouchedStay'
  BY <1>2, <1>3, DraftStep DEF wanted, began
<1>5. n \in Names
  BY CallKinds, <1>2 DEF DeletesParent, WritesParent, DeletesDep, WritesDep, Names
<1>6. HandlerTypeOK'
  BY <1>0, <1>2, <1>3, <1>5 DEF HandlerTypeOK
<1>7. CASE DeletesParent(n, e)
  <2>1. /\ pass = "deleteParents" /\ n \in Parents /\ parents[n] # Absent /\ wantParents[n] = Absent
        /\ parents' = [parents EXCEPT ![n] = Absent] /\ deps' = deps
        /\ toWrite' = toWrite \ {n} /\ cur' = Absent
    BY <1>2, <1>7 DEF DeletesParent, DraftBecomes, Finished
  <2>2. /\ Surplus(parents, wantParents)' = Surplus(parents, wantParents) \ {n}
        /\ Differing(parents, wantParents)' = Differing(parents, wantParents)
        /\ n \notin Differing(parents, wantParents)
    BY <1>0, <1>3, <1>4, <2>1, Blocks DEF Surplus, Differing, BlocksTypeOK, ParentsType
  <2>3. Surplus(deps, wantDeps)' = Surplus(deps, wantDeps)
        /\ Differing(deps, wantDeps)' = Differing(deps, wantDeps)
    BY <1>3, <2>1 DEF Surplus, Differing
  <2>4. Present' = Present
    BY <1>3 DEF Present, AnyBlock
  <2>5. Work'
    BY <1>0, <1>2, <1>3, <2>1, <2>2 DEF Work
  <2>6. Achieved'
    BY <1>0, <1>3, <2>1, <2>2, <2>3, <2>4
       DEF Achieved, ParentsWritten, DepsWritten, LastDelete
  <2>7. Ahead'
    BY <1>0, <1>3, <2>1, <2>4 DEF Ahead
  <2>. QED  BY <1>4, <1>6, <2>5, <2>6, <2>7, TypeParts DEF IInv
<1>8. CASE WritesParent(n, e)
  <2>1. /\ pass = "upsertParents" /\ n \in Parents /\ n \in toWrite /\ wantParents[n] # Absent
        /\ parents' = [parents EXCEPT ![n] = ParentCall(n)] /\ deps' = deps
    BY <1>2, <1>8 DEF WritesParent, DraftBecomes
  <2>2. /\ parents'[n] = wantParents[n] => toWrite' = toWrite \ {n} /\ cur' = Absent
        /\ parents'[n] # wantParents[n] => toWrite' = toWrite /\ cur' = n
    <3>1. parents'[n] = ParentCall(n) /\ (ParentCall(n) = Absent \/ ParentCall(n) = wantParents[n])
      BY <1>0, <2>1, Blocks DEF ParentCall
    <3>2. Finished(n) <=> parents'[n] # Absent
      BY <2>1 DEF Finished
    <3>. QED  BY <1>2, <2>1, <3>1, <3>2
  <2>3. /\ parents'[n] = wantParents[n] =>
                Differing(parents, wantParents)' = Differing(parents, wantParents) \ {n}
        /\ parents'[n] # wantParents[n] =>
                Differing(parents, wantParents)' = Differing(parents, wantParents)
        /\ Surplus(parents, wantParents) = {} => Surplus(parents, wantParents)' = {}
    BY <1>0, <1>3, <1>4, <2>1, Blocks DEF Surplus, Differing, Work, BlocksTypeOK, ParentsType
  <2>4. Present' = Present
    BY <1>3 DEF Present, AnyBlock
  <2>5. Work'
    BY <1>0, <1>3, <2>1, <2>2, <2>3 DEF Work
  <2>6. Achieved'
    BY <1>0, <1>3, <2>1, <2>3, <2>4 DEF Achieved, ParentsWritten, DepsWritten, LastDelete
  <2>7. Ahead'
    BY <1>0, <1>3, <2>1, <2>4 DEF Ahead
  <2>. QED  BY <1>4, <1>6, <2>5, <2>6, <2>7, TypeParts DEF IInv
<1>9. CASE DeletesDep(n, e)
  <2>1. /\ pass = "deleteDeps" /\ n \in Dependents /\ deps[n] # Absent /\ wantDeps[n] = Absent
        /\ deps' = [deps EXCEPT ![n] = Absent] /\ parents' = parents
        /\ toWrite' = toWrite \ {n} /\ cur' = Absent
    BY <1>2, <1>9 DEF DeletesDep, DraftBecomes, Finished
  <2>2. /\ Surplus(deps, wantDeps)' = Surplus(deps, wantDeps) \ {n}
        /\ Differing(deps, wantDeps)' = Differing(deps, wantDeps)
        /\ n \notin Differing(deps, wantDeps)
    BY <1>0, <1>3, <1>4, <2>1, Blocks DEF Surplus, Differing, BlocksTypeOK, DepsType
  <2>3. Surplus(parents, wantParents)' = Surplus(parents, wantParents)
        /\ Differing(parents, wantParents)' = Differing(parents, wantParents)
    BY <1>3, <2>1 DEF Surplus, Differing
  <2>4. Present' = Present
    BY <1>3 DEF Present, AnyBlock
  <2>5. Work'
    BY <1>0, <1>2, <1>3, <2>1, <2>2 DEF Work
  <2>6. Achieved'
    BY <1>0, <1>3, <2>1, <2>2, <2>3, <2>4
       DEF Achieved, ParentsWritten, DepsWritten, LastDelete
  <2>7. Ahead'
    BY <1>0, <1>3, <2>1 DEF Ahead
  <2>. QED  BY <1>4, <1>6, <2>5, <2>6, <2>7, TypeParts DEF IInv
<1>10. CASE WritesDep(n, e)
  <2>0. PICK x \in DepCalls(n) : e = <<parents, [deps EXCEPT ![n] = x]>>
    BY <1>10 DEF WritesDep
  <2>1. /\ pass = "upsertDeps" /\ n \in Dependents /\ n \in toWrite /\ wantDeps[n] # Absent
        /\ deps' = [deps EXCEPT ![n] = x] /\ parents' = parents
    BY <1>2, <1>10, <2>0 DEF WritesDep, DraftBecomes
  <2>2. /\ deps'[n] = wantDeps[n] => toWrite' = toWrite \ {n} /\ cur' = Absent
        /\ deps'[n] # wantDeps[n] => toWrite' = toWrite /\ cur' = n
    <3>1. deps'[n] = x
      BY <1>0, <2>1, Blocks
    <3>2. ~RefsAreAssociations => x = Absent \/ x = wantDeps[n]
      BY DEF DepCalls, FieldCalls
    <3>3. Finished(n) <=> x # Absent /\ (RefsAreAssociations => x = wantDeps[n])
      BY <1>3, <2>1, <3>1 DEF Finished
    <3>. QED  BY <1>2, <1>3, <2>1, <3>1, <3>2, <3>3
  <2>3. /\ deps'[n] = wantDeps[n] =>
                Differing(deps, wantDeps)' = Differing(deps, wantDeps) \ {n}
        /\ deps'[n] # wantDeps[n] =>
                Differing(deps, wantDeps)' = Differing(deps, wantDeps)
        /\ Surplus(deps, wantDeps) = {} => Surplus(deps, wantDeps)' = {}
    BY <1>0, <1>3, <1>4, <2>1, Blocks DEF Surplus, Differing, Work, BlocksTypeOK, DepsType
  <2>4. Present' = Present
    BY <1>3 DEF Present, AnyBlock
  <2>5. Surplus(parents, wantParents)' = Surplus(parents, wantParents)
        /\ Differing(parents, wantParents)' = Differing(parents, wantParents)
    BY <1>3, <2>1 DEF Surplus, Differing
  <2>6. Work'
    BY <1>0, <1>3, <2>1, <2>2, <2>3 DEF Work
  <2>7. Achieved'
    BY <1>0, <1>3, <2>1, <2>3, <2>4, <2>5 DEF Achieved, ParentsWritten, DepsWritten, LastDelete
  <2>8. Ahead'
    BY <1>0, <1>3, <2>1 DEF Ahead
  <2>. QED  BY <1>4, <1>6, <2>6, <2>7, <2>8, TypeParts DEF IInv
<1>. QED  BY CallKinds, <1>7, <1>8, <1>9, <1>10

\* Every step keeps the invariant.
LEMMA IInvStep == IInv /\ [Next]_vars => IInv'
<1>. SUFFICES ASSUME IInv, [Next]_vars PROVE IInv'
  OBVIOUS
<1>1. CASE UNCHANGED vars
  <2>1. BlocksTypeOK' /\ References' /\ Bounded' /\ UntouchedStay'
    BY <1>1, FrozenDraft DEF vars
  <2>2. HandlerTypeOK' /\ Work' /\ Achieved' /\ Ahead'
    BY <1>1, TypeParts DEF IInv, vars, draft, wanted, began, HandlerTypeOK, Work, Achieved, Ahead,
        ParentsWritten, DepsWritten, LastDelete, Present, AnyBlock, Surplus, Differing
  <2>. QED  BY <2>1, <2>2, TypeParts DEF IInv
<1>. QED
  BY <1>1, ListStep, PassDoneStep, CallStep, FailStep, RetryStep DEF Next, Handler

\* Every reachable state satisfies the inductive invariant.
THEOREM PairInvariance == Spec => []IInv
BY IInvInit, IInvStep, PTL DEF Spec

\* Every variable keeps its type, what is still to be done of a pass included.
THEOREM PairTypeCorrect == Spec => []TypeOK
<1>1. IInv => TypeOK
  BY DEF IInv
<1>. QED  BY <1>1, PairInvariance, PTL

\* A reconcile that reports success has made the draft the plan.
THEOREM ReconcileEndsAsWanted == Spec => []EndsAsWanted
<1>1. IInv => EndsAsWanted
  BY TypeParts, NothingLeft DEF IInv, Achieved, EndsAsWanted, ParentsWritten, DepsWritten
<1>. QED  BY <1>1, PairInvariance, PTL

\* A reconcile leaves alone what is as wanted, at every step.
THEOREM ReconcileLeavesAlone == Spec => []UntouchedStay
<1>1. IInv => UntouchedStay
  BY DEF IInv
<1>. QED  BY <1>1, PairInvariance, PTL

\* Without dependents the number of parents never exceeds both what it was
\* and what it is to be.
THEOREM ReconcileStaysInBounds == Spec => []NoExcess
<1>1. IInv => NoExcess
  <2>. SUFFICES ASSUME IInv PROVE NoExcess
    OBVIOUS
  <2>1. /\ Existing(beganParents) \subseteq Parents /\ Existing(wantParents) \subseteq Parents
        /\ Bounded
    BY TypeParts, Blocks DEF IInv, Existing
  <2>2. IsFiniteSet(Existing(beganParents)) /\ IsFiniteSet(Existing(wantParents))
    BY <2>1, PairAssumption, FS_Subset
  <2>3. /\ Existing(parents) \subseteq Existing(beganParents)
                => Cardinality(Existing(parents)) <= Cardinality(Existing(beganParents))
        /\ Existing(parents) \subseteq Existing(wantParents)
                => Cardinality(Existing(parents)) <= Cardinality(Existing(wantParents))
    BY <2>2, FS_Subset
  <2>. QED  BY <2>1, <2>3 DEF Bounded, NoExcess
<1>. QED  BY <1>1, PairInvariance, PTL

---------------------------------------------------------------------------
(* Why the API has nothing to refuse.                                      *)

\* With parents changed in place, and a state that knows of the dependents,
\* no call leaves a reference hanging: a parent goes away only after the
\* dependents are as planned, or when there are none.
LEMMA NoReferenceHangs ==
    ASSUME IInv, APIRefuses, ~ParentsRecreated, known \/ ~AnyBlock(beganDeps),
           NEW n \in Turn, NEW e \in Effects(n)
    PROVE  Resolves(e[1], e[2])
<1>0. BlocksTypeOK /\ Achieved /\ Ahead /\ References
  BY TypeParts DEF IInv
<1>1. Resolves(parents, deps) /\ Resolves(wantParents, wantDeps)
  BY <1>0 DEF References
<1>2. CASE DeletesParent(n, e)
  <2>1. /\ pass = "deleteParents" /\ wantParents[n] = Absent
        /\ e[1] = [parents EXCEPT ![n] = Absent] /\ e[2] = deps
    BY <1>2 DEF DeletesParent
  <2>2. CASE Present
    <3>1. deps = wantDeps /\ Differing(parents, wantParents) = {}
      BY <1>0, <2>1, <2>2, NothingLeft
         DEF Achieved, ParentsWritten, DepsWritten, LastDelete
    <3>2. \A r \in Parents : wantParents[r] # Absent => e[1][r] # Absent
      BY <1>0, <2>1, <3>1, Blocks DEF Differing, BlocksTypeOK, ParentsType
    <3>3. \A d \in Dependents : deps[d] # Absent => deps[d].refs \subseteq Parents
      BY <1>0, Blocks DEF Dependent
    <3>. QED  BY <1>1, <2>1, <3>1, <3>2, <3>3 DEF Resolves
  <2>3. CASE ~Present
    <3>1. deps = beganDeps /\ ~AnyBlock(beganDeps)
      BY <1>0, <2>1, <2>3 DEF Ahead, Present
    <3>. QED  BY <1>0, <2>1, <3>1, Blocks DEF Resolves, AnyBlock
  <2>. QED  BY <2>2, <2>3
<1>3. CASE WritesParent(n, e)
  <2>1. /\ n \in Parents /\ wantParents[n] # Absent
        /\ e[1] = [parents EXCEPT ![n] = wantParents[n]] /\ e[2] = deps
    BY <1>3 DEF WritesParent, ParentCall
  <2>2. \A r \in Parents : parents[r] # Absent => e[1][r] # Absent
    BY <1>0, <2>1 DEF BlocksTypeOK, ParentsType
  <2>3. \A d \in Dependents : deps[d] # Absent => deps[d].refs \subseteq Parents
    BY <1>0, Blocks DEF Dependent
  <2>. QED  BY <1>1, <2>1, <2>2, <2>3 DEF Resolves
<1>4. CASE DeletesDep(n, e)
  <2>1. n \in Dependents /\ e[1] = parents /\ e[2] = [deps EXCEPT ![n] = Absent]
    BY <1>4 DEF DeletesDep
  <2>. QED  BY <1>0, <1>1, <2>1 DEF Resolves, BlocksTypeOK, DepsType
<1>5. CASE WritesDep(n, e)
  <2>1. PICK x \in DepCalls(n) : e = <<parents, [deps EXCEPT ![n] = x]>>
    BY <1>5 DEF WritesDep
  <2>2. n \in Dependents /\ wantDeps[n] # Absent /\ pass = "upsertDeps"
    BY <1>5 DEF WritesDep
  <2>3. /\ x # Absent => \A r \in x.refs :
                r \in wantDeps[n].refs \/ (deps[n] # Absent /\ r \in deps[n].refs)
        /\ x \in Dependent \cup {Absent}
    BY <1>0, <2>2, DepCallsTyped
  <2>4. Differing(parents, wantParents) = {}
    BY <1>0, <2>2 DEF Achieved, ParentsWritten
  <2>5. \A r \in Parents : wantParents[r] # Absent => parents[r] # Absent
    BY <1>0, <2>4, Blocks DEF Differing
  <2>6. x # Absent => \A r \in x.refs : parents[r] # Absent
    <3>1. x # Absent => x.refs \subseteq Parents
      BY <1>0, <2>3, Blocks DEF Dependent
    <3>. QED  BY <1>1, <2>2, <2>3, <2>5, <3>1 DEF Resolves
  <2>7. \A d \in Dependents \ {n} : e[2][d] = deps[d]
    BY <1>0, <2>1 DEF BlocksTypeOK, DepsType
  <2>8. e[2][n] = x
    BY <1>0, <2>1, <2>2 DEF BlocksTypeOK, DepsType
  <2>9. e[1] = parents
    BY <2>1
  <2>. QED  BY <1>1, <2>6, <2>7, <2>8, <2>9 DEF Resolves
<1>. QED  BY CallKinds, <1>2, <1>3, <1>4, <1>5

\* Only a call to a handler with a stale state is refused.
LEMMA StaleStep == IInv /\ Stale /\ [Next]_vars => Stale'
<1>. SUFFICES ASSUME IInv, Stale, [Next]_vars, ~ParentsRecreated, refused'
              PROVE  (~known /\ AnyBlock(beganDeps))'
  BY DEF Stale, RefusedOnlyWhenStale
<1>1. CASE CallRefused
  <2>1. APIRefuses /\ \E n \in Turn : \E e \in Effects(n) : ~Resolves(e[1], e[2])
    BY <1>1 DEF CallRefused, Accepted
  <2>2. ~known /\ AnyBlock(beganDeps)
    BY <2>1, NoReferenceHangs
  <2>. QED  BY <1>1, <2>2 DEF CallRefused, Fail, began, AnyBlock
<1>2. CASE refused' = refused /\ UNCHANGED <<known, began>>
  BY <1>2 DEF Stale, RefusedOnlyWhenStale, began, AnyBlock
<1>3. CASE Retry
  BY <1>3 DEF Retry
<1>4. ListParents \/ ListDeps \/ PassDone \/ Call \/ CallFails \/ UNCHANGED vars
        => refused' = refused /\ UNCHANGED <<known, began>>
  BY DEF ListParents, ListDeps, PassDone, Call, CallFails, Fail, vars
<1>. QED  BY <1>1, <1>2, <1>3, <1>4 DEF Next, Handler

\* The order of the three passes never makes a call the API refuses, unless
\* the state is older than the version, provided that parents are changed in
\* place, as backends are.
THEOREM OrderIsNeverRefused ==
    ASSUME ~ParentsRecreated
    PROVE  Spec => []RefusedOnlyWhenStale
<1>1. Init => Stale
  BY DEF Init, Stale, RefusedOnlyWhenStale
<1>2. Stale => RefusedOnlyWhenStale
  BY DEF Stale
<1>3. IInv /\ Stale /\ [Next]_vars => Stale'
  BY StaleStep
<1>. QED  BY <1>1, <1>2, <1>3, PairInvariance, PTL DEF Spec
=============================================================================
