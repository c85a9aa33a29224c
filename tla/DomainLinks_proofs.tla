------------------------- MODULE DomainLinks_proofs -------------------------
(***************************************************************************)
(* Proofs about DomainLinks, for any descriptions, services, routings and  *)
(* bounds.                                                                 *)
(***************************************************************************)
EXTENDS DomainLinksInv, TLAPS

---------------------------------------------------------------------------
(* The type invariant.                                                     *)

\* What the types say of the records' fields, and of what is sent.
LEMMA Fields ==
    ASSUME TypeOK
    PROVE  /\ config.present \in BOOLEAN /\ config.description \in Descriptions
           /\ config.own \in Maybe(Services) /\ config.service \in Maybe(Services)
           /\ config.routing \in Maybe(Routings)
           /\ config.own = Null \/ config.service = Null
           /\ state.domain \in Maybe(DomainState) /\ state.service \in Maybe(Services)
           /\ state.routing \in Maybe(Routings)
           /\ Sent \in Text /\ PlannedService \in Maybe(Services)
<1>1. config \in [present: BOOLEAN, description: Descriptions, own: Maybe(Services),
                  service: Maybe(Services), routing: Maybe(Routings)]
      /\ (config.own = Null \/ config.service = Null)
  BY DEF TypeOK, Config
<1>2. state \in [domain: Maybe(DomainState), service: Maybe(Services), routing: Maybe(Routings)]
  BY DEF TypeOK, State
<1>3. Sent \in Text
  BY <1>1 DEF Sent, Text
<1>4. PlannedService \in Maybe(Services)
  BY <1>1, <1>2 DEF PlannedService, Maybe, DomainState
<1>. QED  BY <1>1, <1>2, <1>3, <1>4

\* The domain as a write or a link leaves it.
LEMMA WrittenTyped ==
    ASSUME TypeOK
    PROVE  /\ DomainWritten \in Domain
           /\ DomainWritten.description = Sent /\ DomainWritten.service = PlannedService
           /\ domain # Null => DomainWritten.routing = domain.routing
<1>1. CASE domain = Null
  BY <1>1, Fields DEF DomainWritten, Domain, Maybe
<1>2. CASE domain # Null
  <2>1. domain \in Domain
    BY <1>2 DEF TypeOK, Maybe
  <2>. QED  BY <1>2, <2>1, Fields DEF DomainWritten, Domain
<1>. QED  BY <1>1, <1>2

LEMMA LinkedTyped ==
    ASSUME TypeOK, NEW l \in Links, got[l] # Null, domain # Null
    PROVE  /\ Linked(l) \in Domain
           /\ Linked(l).description = got[l].description
           /\ Linked(l).service = IF l = "service" THEN config.service ELSE got[l].service
           /\ Linked(l).routing = IF l = "routing" THEN config.routing ELSE domain.routing
           /\ got[l].description \in Text
<1>1. domain \in Domain /\ got[l] \in Domain
  BY DEF TypeOK, Maybe
<1>2. l = "service" \/ l = "routing"
  BY DEF Links
<1>. QED  BY <1>1, <1>2, Fields DEF Linked, Domain

LEMMA FlattenedTyped ==
    ASSUME TypeOK, NEW d \in Domain, NEW known
    PROVE  /\ Flattened(d, known) \in DomainState
           /\ Flattened(d, known).service = d.service
           /\ Flattened(d, known).description = ReconcileDescription(d.description, known)
BY DEF Flattened, ReconcileDescription, DomainState, Domain, Maybe

LEMMA NullIsNoRecord == Null \notin Domain /\ Null \notin DomainState /\ Null # ""
BY LinksAssumption

LEMMA Bounds == MaxFaults \in Nat /\ MaxEdits \in Nat
BY LinksAssumption

\* What a refresh leaves in the state.
LEMMA RefreshTyped ==
    ASSUME TypeOK
    PROVE  /\ Refreshed("domain") \in Maybe(DomainState)
           /\ Refreshed("service") \in Maybe(Services)
           /\ Refreshed("routing") \in Maybe(Routings)
           /\ \A r \in Resources : Refreshed(r) # Null => domain # Null /\ state[r] # Null
           /\ Refreshed("domain") # Null =>
                /\ Refreshed("domain").service = domain.service
                /\ Refreshed("domain").description
                    = ReconcileDescription(domain.description, state.domain.description)
           /\ \A l \in Links : Refreshed(l) # Null => Refreshed(l) = domain[l]
<1>1. CASE domain = Null
  BY <1>1 DEF Refreshed, Maybe, Links
<1>2. CASE domain # Null
  <2>1. domain \in Domain
    BY <1>2 DEF TypeOK, Maybe
  <2>2. Refreshed("domain") \in {Null, Flattened(domain, state.domain.description)}
    BY DEF Refreshed
  <2>3. \A l \in Links : Refreshed(l) \in {Null, domain[l]}
    BY DEF Refreshed, Links
  <2>4. domain.service \in Maybe(Services) /\ domain.routing \in Maybe(Routings)
    BY <2>1 DEF Domain
  <2>5. Refreshed("domain") \in Maybe(DomainState)
    BY <2>1, <2>2, FlattenedTyped DEF Maybe
  <2>6. Refreshed("service") \in Maybe(Services) /\ Refreshed("routing") \in Maybe(Routings)
    BY <2>3, <2>4 DEF Maybe, Links
  <2>7. \A r \in Resources : Refreshed(r) # Null => state[r] # Null
    BY DEF Refreshed
  <2>. QED  BY <1>2, <2>1, <2>2, <2>3, <2>5, <2>6, <2>7, FlattenedTyped
<1>. QED  BY <1>1, <1>2

LEMMA PlanTyped ==
    ASSUME NEW r \in Resources, NEW s
    PROVE  /\ Planned(r, s) \in {"none", "create", "update", "delete"}
           /\ Planned(r, s) = "delete" => ~Wanted(r)
           /\ Planned(r, s) \in {"create", "update"} => Wanted(r)
           /\ Planned(r, s) = "update" => s # Null
           /\ Planned(r, s) = "none" /\ Wanted(r) => s # Null /\ ~Differs(r, s)
BY DEF Planned

\* The end of an operation keeps to the types.
LEMMA FinishTyped ==
    ASSUME TypeOK, NEW r \in Resources, Finish(r), UNCHANGED <<stack, running>>
    PROVE  /\ job' \in [Resources -> {"none", "create", "update", "delete"}]
           /\ \A q \in Resources : job'[q] # "none" => stack'[q] \in running'
           /\ got' \in [Links -> Maybe(Domain)]
           /\ \A l \in Links : got'[l] # Null => job'[l] # "none"
           /\ job'[r] = "none" /\ \A q \in Resources \ {r} : job'[q] = job[q]
           /\ \A l \in Links : got'[l] = IF l = r THEN Null ELSE got[l]
BY DEF Finish, TypeOK, Maybe

\* A resource that may go has an operation, and its stack is being applied.
LEMMA GoesInItsRun ==
    ASSUME TypeOK, NEW r \in Resources, MayGo(r)
    PROVE  job[r] # "none" /\ stack[r] \in running
BY DEF MayGo, TypeOK

LEMMA InitTyped == Init => TypeOK
<1>. SUFFICES ASSUME Init PROVE TypeOK
  OBVIOUS
<1>1. stack \in [Resources -> Resources]
  BY DEF Init, Resources
<1>2. config \in Config
  BY DEF Init
<1>3. state \in State /\ domain \in Maybe(Domain)
  <2>1. state = [domain |-> Null, service |-> Null, routing |-> Null] /\ domain = Null
    BY DEF Init
  <2>2. \A S : Null \in Maybe(S)
    BY DEF Maybe
  <2>. QED  BY <2>1, <2>2 DEF State
<1>4. /\ job \in [Resources -> {"none", "create", "update", "delete"}]
      /\ \A r \in Resources : job[r] = "none"
  BY DEF Init
<1>5. got \in [Links -> Maybe(Domain)] /\ \A l \in Links : got[l] = Null
  BY DEF Init, Maybe
<1>6. running = {} /\ failed = {} /\ applied = {} /\ wrote = {} /\ faults = 0 /\ edits = 0
  BY DEF Init
<1>7. faults \in 0 .. MaxFaults /\ edits \in 0 .. MaxEdits
  BY <1>6, Bounds
<1>. QED  BY <1>1, <1>2, <1>3, <1>4, <1>5, <1>6, <1>7 DEF TypeOK

LEMMA BeginTyped ==
    ASSUME TypeOK, NEW k \in Stacks, Begin(k)
    PROVE  TypeOK'
<1>1. /\ UNCHANGED <<stack, domain, config, got, failed, faults, edits>>
      /\ k \notin running /\ running' = running \cup {k}
      /\ applied' = applied \ {k} /\ wrote' = wrote \ In(k)
      /\ state' = [r \in Resources |-> IF r \in In(k) THEN Refreshed(r) ELSE state[r]]
      /\ job' = [r \in Resources |-> IF r \in In(k) THEN Planned(r, state'[r]) ELSE job[r]]
  BY DEF Begin
<1>2. state' \in State
  <2>1. /\ state.domain = state["domain"] /\ state.service = state["service"]
        /\ state.routing = state["routing"]
    OBVIOUS
  <2>2. /\ state'["domain"] \in Maybe(DomainState) /\ state'["service"] \in Maybe(Services)
        /\ state'["routing"] \in Maybe(Routings)
    BY <1>1, <2>1, Fields, RefreshTyped DEF Resources, Links
  <2>3. state' = [domain |-> state'["domain"], service |-> state'["service"],
                  routing |-> state'["routing"]]
    BY <1>1 DEF Resources, Links
  <2>. HIDE DEF DomainState
  <2>. QED  BY <2>2, <2>3 DEF State
<1>3. job' \in [Resources -> {"none", "create", "update", "delete"}]
  BY <1>1, PlanTyped DEF TypeOK
<1>4. \A r \in Resources : job'[r] # "none" => stack'[r] \in running'
  BY <1>1 DEF TypeOK, In
<1>5. \A l \in Links : got'[l] # Null => job'[l] # "none"
  BY <1>1 DEF TypeOK, In, Resources
<1>. QED  BY <1>1, <1>2, <1>3, <1>4, <1>5 DEF TypeOK, Stacks

LEMMA EndTyped ==
    ASSUME TypeOK, NEW k \in Stacks, End(k)
    PROVE  TypeOK'
<1>1. /\ UNCHANGED <<stack, domain, config, state, job, got, wrote, faults, edits>>
      /\ k \in running /\ running' = running \ {k} /\ failed' = failed \ {k}
      /\ applied' = IF k \in failed THEN applied ELSE applied \cup {k}
      /\ \A r \in In(k) : job[r] = "none"
  BY DEF End
<1>2. \A r \in Resources : job'[r] # "none" => stack'[r] \in running'
  BY <1>1 DEF TypeOK, In
<1>3. /\ running' \subseteq Stacks' /\ failed' \subseteq running'
      /\ applied' \subseteq Stacks' \ running'
  BY <1>1 DEF TypeOK, Stacks
<1>. QED  BY <1>1, <1>2, <1>3 DEF TypeOK

LEMMA WriteDomainTyped ==
    ASSUME TypeOK, WriteDomain
    PROVE  TypeOK'
<1>0. /\ MayGo("domain") /\ "domain" \in Resources
      /\ UNCHANGED <<stack, config, running, applied, edits, wrote, faults>>
      /\ Finish("domain")
      /\ failed' \in {failed, failed \cup {stack.domain}}
  BY DEF WriteDomain, Fails, standing, Resources
<1>1. stack.domain \in running
  BY <1>0, GoesInItsRun
<1>2. domain' \in Maybe(Domain) /\ state' \in State
  <2>1. CASE /\ domain' = DomainWritten
             /\ state' = [state EXCEPT !.domain = Flattened(domain', config.description)]
    <3>1. domain' \in Domain /\ Flattened(domain', config.description) \in DomainState
      BY <2>1, WrittenTyped, FlattenedTyped
    <3>. QED  BY <2>1, <3>1 DEF TypeOK, State, Maybe
  <2>2. CASE UNCHANGED <<domain, state>>
    BY <2>2 DEF TypeOK
  <2>. QED  BY <2>1, <2>2 DEF WriteDomain, Fails
<1>. QED  BY <1>0, <1>1, <1>2, FinishTyped DEF TypeOK, Stacks

LEMMA DeleteDomainTyped ==
    ASSUME TypeOK, DeleteDomain
    PROVE  TypeOK'
<1>0. /\ UNCHANGED <<stack, config, running, applied, edits, failed, wrote, faults>>
      /\ domain' = Null /\ state' = [state EXCEPT !.domain = Null] /\ Finish("domain")
      /\ "domain" \in Resources
  BY DEF DeleteDomain, standing, Resources
<1>1. domain' \in Maybe(Domain) /\ state' \in State
  BY <1>0 DEF TypeOK, State, Maybe
<1>. QED  BY <1>0, <1>1, FinishTyped DEF TypeOK, Stacks

\* What a handler of a link does to the state and the failures of its run.
LEMMA LinkTurnTyped ==
    ASSUME TypeOK, NEW l \in Links, MayGo(l), UNCHANGED <<stack, running>>,
           state' = [state EXCEPT ![l] = config[l]] \/ state' = [state EXCEPT ![l] = Null]
                \/ state' = state,
           failed' \in {failed, failed \cup {stack[l]}}
    PROVE  state' \in State /\ failed' \subseteq running'
<1>1. l \in Resources /\ stack[l] \in running
  BY GoesInItsRun DEF Resources
<1>2. state' \in State
  <2>1. state \in [domain: Maybe(DomainState), service: Maybe(Services), routing: Maybe(Routings)]
    BY DEF TypeOK, State
  <2>2. l = "service" \/ l = "routing"
    BY DEF Links
  <2>. QED  BY <2>1, <2>2, Fields DEF State, Maybe
<1>. QED  BY <1>1, <1>2 DEF TypeOK

LEMMA GetTyped ==
    ASSUME TypeOK, NEW l \in Links, Get(l)
    PROVE  TypeOK'
<1>0. /\ MayGo(l) /\ UNCHANGED <<stack, config, running, applied, edits, domain, wrote, faults>>
      /\ l \in Resources
  BY DEF Get, standing, Resources
<1>1. CASE domain # Null
  <2>1. got' = [got EXCEPT ![l] = domain] /\ UNCHANGED <<state, job, failed>>
    BY <1>1 DEF Get
  <2>2. job[l] # "none"
    BY <1>0, GoesInItsRun
  <2>. QED  BY <1>0, <2>1, <2>2 DEF TypeOK, Stacks
<1>2. CASE domain = Null
  <2>1. /\ Finish(l)
        /\ state' = [state EXCEPT ![l] = Null] \/ state' = state
        /\ failed' \in {failed, failed \cup {stack[l]}}
    BY <1>2 DEF Get, Fails
  <2>2. state' \in State /\ failed' \subseteq running'
    BY <1>0, <2>1, LinkTurnTyped
  <2>. QED  BY <1>0, <2>1, <2>2, FinishTyped DEF TypeOK, Stacks
<1>. QED  BY <1>1, <1>2

LEMMA PatchTyped ==
    ASSUME TypeOK, NEW l \in Links, Patch(l)
    PROVE  TypeOK'
<1>0. /\ MayGo(l) /\ UNCHANGED <<stack, config, running, applied, edits, faults>>
      /\ l \in Resources /\ got[l] # Null /\ Finish(l)
      /\ domain' \in {domain, Linked(l)} /\ (domain = Null => domain' = domain)
      /\ wrote' \in {wrote, wrote \cup {l}}
      /\ state' = [state EXCEPT ![l] = config[l]] \/ state' = [state EXCEPT ![l] = Null]
            \/ state' = state
      /\ failed' \in {failed, failed \cup {stack[l]}}
  BY DEF Patch, Fails, standing, Resources
<1>1. domain' \in Maybe(Domain)
  BY <1>0, LinkedTyped DEF TypeOK, Maybe
<1>2. state' \in State /\ failed' \subseteq running'
  BY <1>0, LinkTurnTyped
<1>. QED  BY <1>0, <1>1, <1>2, FinishTyped DEF TypeOK, Stacks

LEMMA CallFailsTyped ==
    ASSUME TypeOK, NEW r \in Resources, CallFails(r)
    PROVE  TypeOK'
<1>0. /\ MayGo(r) /\ UNCHANGED <<stack, config, running, applied, edits, state>>
      /\ Finish(r) /\ failed' = failed \cup {stack[r]}
      /\ faults < MaxFaults /\ faults' = faults + 1
  BY DEF CallFails, Fails, standing
<1>1. domain' \in Maybe(Domain) /\ wrote' \subseteq Links
  <2>1. CASE UNCHANGED <<domain, wrote>>
    BY <2>1 DEF TypeOK
  <2>2. CASE domain' \in {Null, DomainWritten} /\ UNCHANGED wrote
    BY <2>2, WrittenTyped DEF TypeOK, Maybe
  <2>3. CASE /\ r \in Links /\ got[r] # Null /\ domain # Null
             /\ domain' = Linked(r) /\ wrote' = wrote \cup {r}
    BY <2>3, LinkedTyped DEF TypeOK, Maybe
  <2>. QED  BY <2>1, <2>2, <2>3 DEF CallFails
<1>2. faults' \in 0 .. MaxFaults
  BY <1>0, Bounds DEF TypeOK
<1>3. stack[r] \in running
  BY <1>0, GoesInItsRun
<1>. QED  BY <1>0, <1>1, <1>2, <1>3, FinishTyped DEF TypeOK, Stacks

LEMMA EditTyped ==
    ASSUME TypeOK, NEW k \in Stacks, Edit(k)
    PROVE  TypeOK'
<1>1. /\ UNCHANGED <<stack, domain, state, running, job, got, failed, wrote, faults>>
      /\ config' \in Config /\ applied' = applied \ {k}
      /\ edits' = edits + 1 /\ edits < MaxEdits
  BY DEF Edit
<1>2. edits' \in 0 .. MaxEdits
  BY <1>1, Bounds DEF TypeOK
<1>3. Stacks' = Stacks
  BY <1>1 DEF Stacks
<1>. QED  BY <1>1, <1>2, <1>3 DEF TypeOK

LEMMA ImportTyped ==
    ASSUME TypeOK, Import
    PROVE  TypeOK'
<1>1. /\ UNCHANGED <<stack, domain, config, running, job, got, failed, applied, wrote,
                     faults, edits>>
      /\ state' = [state EXCEPT !.domain = Flattened(domain, Null)]
      /\ domain \in Domain
  BY DEF Import, TypeOK, Maybe
<1>2. state' \in State
  BY <1>1, FlattenedTyped DEF TypeOK, State, Maybe
<1>3. Stacks' = Stacks
  BY <1>1 DEF Stacks
<1>. QED  BY <1>1, <1>2, <1>3 DEF TypeOK

LEMMA NextTyped ==
    ASSUME TypeOK, [Next]_vars
    PROVE  TypeOK'
<1>1. CASE UNCHANGED vars
  BY <1>1 DEF vars, TypeOK, Stacks
<1>2. CASE Next
  BY <1>2, BeginTyped, EndTyped, WriteDomainTyped, DeleteDomainTyped, GetTyped, PatchTyped,
     CallFailsTyped, EditTyped, ImportTyped DEF Next, Apply
<1>. QED  BY <1>1, <1>2

\* Every variable keeps its type; operations, and what a handler has read, belong to an
\* apply that is running.
THEOREM LinksTypeCorrect == Spec => []TypeOK
<1>1. Init => TypeOK
  BY InitTyped
<1>2. TypeOK /\ [Next]_vars => TypeOK'
  BY NextTyped
<1>. QED  BY <1>1, <1>2, PTL DEF Spec

---------------------------------------------------------------------------
(* The three resources in one configuration.                               *)

LEMMA OneStack ==
    ASSUME TypeOK, Together
    PROVE  /\ Stacks = {"domain"} /\ In("domain") = Resources
           /\ \A r \in Resources : stack[r] = "domain"
           /\ "domain" \in Resources /\ "service" \in Links /\ "routing" \in Links
           /\ Links \subseteq Resources
           /\ job.domain = job["domain"] /\ job.service = job["service"]
           /\ job.routing = job["routing"]
BY DEF Together, Stacks, In, Resources, Links

\* Between applies there is nothing to do, and nothing has been read.
LEMMA AtRest ==
    ASSUME TypeOK, Together, "domain" \notin running
    PROVE  /\ \A r \in Resources : job[r] = "none"
           /\ \A l \in Links : got[l] = Null
BY OneStack DEF TypeOK

USE DEF InOneStack

LEMMA EditOneStack ==
    ASSUME IInv, Together, NEW k \in Stacks, Edit(k)
    PROVE  InOneStack'
<1>1. k = "domain" /\ "domain" \notin running /\ TypeOK
  BY OneStack DEF Edit, IInv
<1>2. /\ UNCHANGED <<stack, domain, state, running, job, got, failed, wrote>>
      /\ applied' = applied \ {"domain"}
  BY <1>1 DEF Edit
<1>3. /\ \A r \in Resources : job'[r] = "none"
      /\ \A l \in Links : got'[l] = Null
      /\ "domain" \in Resources
  BY <1>1, <1>2, AtRest, OneStack
<1>4. ~Unfailed'
  BY <1>1, <1>2, OneStack DEF Unfailed
<1>5. JobsAreAskedFor' /\ UpdateKnows' /\ LinksWait' /\ ReadIsCurrent'
  BY <1>3 DEF JobsAreAskedFor, UpdateKnows, LinksWait, ReadIsCurrent
<1>. QED  BY <1>4, <1>5 DEF ReadIsDescribed, DomainDone, RoutingDone, ServiceDone

LEMMA ImportOneStack ==
    ASSUME IInv, Together, Import
    PROVE  InOneStack'
<1>1. stack.domain = "domain" /\ "domain" \notin running /\ TypeOK
  BY OneStack DEF Import, IInv
<1>2. UNCHANGED <<stack, domain, config, running, job, got, failed, applied, wrote>>
  BY DEF Import
<1>3. UpdateKnows'
  BY <1>1, <1>2, AtRest, OneStack DEF UpdateKnows
<1>. QED  BY <1>2, <1>3 DEF IInv, JobsAreAskedFor, LinksWait, ReadIsCurrent, Unfailed,
        AllConfigured, ReadIsDescribed, DomainDone, RoutingDone, ServiceDone, Together, Wanted, Sent

LEMMA EndOneStack ==
    ASSUME IInv, Together, NEW k \in Stacks, End(k)
    PROVE  InOneStack'
<1>1. TypeOK /\ k = "domain" /\ stack.domain = "domain"
  BY OneStack DEF IInv
<1>2. /\ UNCHANGED <<stack, domain, config, state, job, got, wrote>>
      /\ running' = running \ {"domain"} /\ failed' = failed \ {"domain"}
      /\ applied' = IF "domain" \in failed THEN applied ELSE applied \cup {"domain"}
      /\ "domain" \in running /\ "domain" \notin applied
  BY <1>1 DEF End, TypeOK
<1>3. Unfailed' => Unfailed
  BY <1>1, <1>2 DEF Unfailed, Together
<1>4. JobsAreAskedFor' /\ UpdateKnows' /\ LinksWait' /\ ReadIsCurrent'
  BY <1>2 DEF IInv, JobsAreAskedFor, UpdateKnows, LinksWait, ReadIsCurrent, Together, Wanted
<1>5. ReadIsDescribed' /\ DomainDone' /\ RoutingDone' /\ ServiceDone'
  BY <1>2, <1>3 DEF IInv, ReadIsDescribed, DomainDone, RoutingDone, ServiceDone,
        AllConfigured, Sent
<1>. QED  BY <1>4, <1>5

LEMMA BeginOneStack ==
    ASSUME IInv, Together, NEW k \in Stacks, Begin(k)
    PROVE  InOneStack'
<1>1. TypeOK /\ k = "domain" /\ In(k) = Resources /\ "domain" \notin running
      /\ Links \subseteq Resources /\ "domain" \in Resources
  BY OneStack DEF IInv, Begin
<1>2. /\ UNCHANGED <<stack, domain, config, got, failed>>
      /\ wrote' = {} /\ running' = running \cup {"domain"} /\ applied' = applied \ {"domain"}
      /\ \A r \in Resources : state'[r] = Refreshed(r) /\ job'[r] = Planned(r, Refreshed(r))
      /\ state'.domain = state'["domain"] /\ state.domain = state["domain"]
      /\ job'.domain = job'["domain"]
      /\ job'.service = job'["service"] /\ job'.routing = job'["routing"]
  BY <1>1 DEF Begin, TypeOK
<1>3. \A l \in Links : got'[l] = Null
  BY <1>1, <1>2, AtRest
<1>4. JobsAreAskedFor'
  BY <1>2, PlanTyped DEF JobsAreAskedFor, Wanted
<1>5. UpdateKnows'
  <2>. SUFFICES ASSUME job'["domain"] = "update"
                PROVE  domain # Null /\ state'["domain"] # Null
                       /\ domain.service = state'["domain"].service
    BY <1>2 DEF UpdateKnows
  <2>. QED  BY <1>1, <1>2, PlanTyped, RefreshTyped
<1>6. LinksWait' /\ ReadIsCurrent' /\ ReadIsDescribed'
  BY <1>2, <1>3 DEF LinksWait, ReadIsCurrent, ReadIsDescribed
<1>7. DomainDone'
  <2>. SUFFICES ASSUME config.present, job'["domain"] = "none"
                PROVE  /\ domain # Null /\ domain.description = Sent
                       /\ config.own # Null => domain.service = config.own
    BY <1>2 DEF DomainDone, Unfailed, Sent
  <2>1. Wanted("domain")
    BY DEF Wanted
  <2>2. Refreshed("domain") # Null /\ ~DomainDiffers(Refreshed("domain"))
    BY <1>1, <1>2, <2>1, PlanTyped DEF Differs
  <2>3. /\ domain \in Domain /\ domain # Null
        /\ Refreshed("domain").service = domain.service
        /\ Refreshed("domain").description
            = ReconcileDescription(domain.description, state.domain.description)
    BY <1>1, <2>2, RefreshTyped DEF TypeOK, Maybe
  <2>4. domain.description \in Text /\ Null \notin Text
    BY <2>3, NullIsNoRecord DEF Domain, Text
  <2>5. domain.description = Sent
    BY <2>2, <2>3, <2>4 DEF DomainDiffers, ReconcileDescription, Sent
  <2>6. config.own # Null => domain.service = config.own
    BY <2>2, <2>3 DEF DomainDiffers
  <2>. QED  BY <2>3, <2>5, <2>6
<1>8. ASSUME NEW l \in Links, config[l] # Null, job'[l] = "none"
      PROVE  domain # Null /\ domain[l] = config[l]
  <2>1. l # "domain" /\ Wanted(l) /\ l \in Resources
    BY <1>1, <1>8 DEF Wanted, Links
  <2>2. Refreshed(l) # Null /\ ~Differs(l, Refreshed(l))
    BY <1>2, <1>8, <2>1, PlanTyped
  <2>. QED  BY <1>1, <2>1, <2>2, RefreshTyped DEF Differs
<1>9. RoutingDone' /\ ServiceDone'
  BY <1>2, <1>8 DEF RoutingDone, ServiceDone, Links
<1>. QED  BY <1>4, <1>5, <1>6, <1>7, <1>9

\* A configured link goes after the domain.
LEMMA GoesAfterDomain ==
    ASSUME IInv, Together, NEW l \in Links, MayGo(l), config.present, config[l] # Null
    PROVE  job.domain = "none"
<1>1. TypeOK /\ l \in Resources /\ l # "domain" /\ stack[l] = "domain" /\ stack.domain = "domain"
      /\ job.domain = job["domain"] /\ "domain" \in Resources
  BY OneStack DEF IInv, Links, Resources
<1>2. job[l] # "delete"
  BY <1>1 DEF IInv, JobsAreAskedFor, Wanted
<1>3. job.domain # "delete"
  BY <1>1 DEF IInv, JobsAreAskedFor, Wanted
<1>. QED  BY <1>1, <1>2, <1>3 DEF MayGo

\* The end of an operation disturbs only what is said of an apply without errors.
LEMMA FinishKeeps ==
    ASSUME IInv, Together, NEW r \in Resources, Finish(r),
           UNCHANGED <<stack, config, running>>
    PROVE  /\ JobsAreAskedFor'
           /\ \A l \in Links : got'[l] # Null => got'[l] = got[l] /\ got[l] # Null /\ l # r
           /\ \A q \in Resources : job'[q] = IF q = r THEN "none" ELSE job[q]
           /\ job'.domain = job'["domain"] /\ job.domain = job["domain"]
<1>1. TypeOK
  BY DEF IInv
<1>2. /\ \A q \in Resources : job'[q] = IF q = r THEN "none" ELSE job[q]
      /\ \A l \in Links : got'[l] = IF l = r THEN Null ELSE got[l]
  BY <1>1, FinishTyped
<1>. QED  BY <1>2 DEF IInv, JobsAreAskedFor, Wanted, Together

LEMMA WriteDomainOneStack ==
    ASSUME IInv, Together, WriteDomain
    PROVE  InOneStack'
<1>0. /\ TypeOK /\ "domain" \in Resources /\ stack.domain = "domain"
      /\ UNCHANGED <<stack, config, running, applied, wrote>> /\ Finish("domain")
      /\ job.domain \in {"create", "update"} /\ "domain" \in running
      /\ "domain" \notin applied
  <2>1. MayGo("domain") /\ TypeOK
    BY DEF WriteDomain, IInv
  <2>. QED  BY <2>1, OneStack, GoesInItsRun DEF WriteDomain, Fails, standing, TypeOK
<1>1. /\ JobsAreAskedFor' /\ job'.domain = "none"
      /\ \A q \in Links : job'[q] = job[q]
      /\ \A l \in Links : got'[l] # Null => got[l] # Null
      /\ Links \subseteq Resources \ {"domain"}
  BY <1>0, FinishKeeps DEF Links, Resources
<1>2. config.present
  BY <1>0 DEF IInv, JobsAreAskedFor, Wanted
<1>3. \A l \in Links : config[l] # Null => l \notin wrote /\ got[l] = Null
  BY <1>0, <1>2 DEF IInv, LinksWait
<1>4. UpdateKnows' /\ LinksWait'
  BY <1>1 DEF UpdateKnows, LinksWait
<1>5. ReadIsCurrent' /\ ReadIsDescribed'
  BY <1>0, <1>1, <1>3 DEF ReadIsCurrent, ReadIsDescribed
<1>6. CASE ~(job.domain = "create" <=> domain = Null)
  <2>1. ~Unfailed'
    BY <1>0, <1>6 DEF WriteDomain, Fails, Unfailed
  <2>. QED  BY <1>1, <1>4, <1>5, <2>1 DEF DomainDone, RoutingDone, ServiceDone
<1>7. CASE job.domain = "create" <=> domain = Null
  <2>1. domain' = DomainWritten /\ failed' = failed
    BY <1>7 DEF WriteDomain
  <2>2. /\ domain' # Null /\ domain'.description = Sent /\ domain'.service = PlannedService
        /\ domain # Null => domain'.routing = domain.routing
    BY <1>0, <2>1, WrittenTyped, NullIsNoRecord
  <2>3. Unfailed' => Unfailed
    BY <1>0, <2>1 DEF Unfailed, Together
  <2>4. AllConfigured' => wrote = {}
    BY <1>0, <1>3 DEF AllConfigured, TypeOK
  <2>5. DomainDone'
    BY <1>0, <2>2 DEF DomainDone, Sent, PlannedService
  <2>6. RoutingDone'
    BY <1>0, <1>1, <2>2, <2>3 DEF IInv, RoutingDone, Links
  <2>7. ServiceDone'
    <3>. SUFFICES ASSUME Unfailed, config.service # Null, job.service = "none", wrote = {}
                  PROVE  domain'.service = config.service
      BY <1>0, <1>1, <2>2, <2>3, <2>4 DEF ServiceDone, Links
    <3>1. domain # Null /\ domain.service = config.service
      BY DEF IInv, ServiceDone, AllConfigured, Links
    <3>2. state.domain # Null /\ state.domain.service = config.service
      BY <1>0, <1>7, <3>1 DEF IInv, UpdateKnows
    <3>3. config.own = Null
      BY <1>0, Fields
    <3>. QED  BY <2>2, <3>2, <3>3 DEF PlannedService
  <2>. QED  BY <1>1, <1>4, <1>5, <2>5, <2>6, <2>7
<1>. QED  BY <1>6, <1>7

LEMMA DeleteDomainOneStack ==
    ASSUME IInv, Together, DeleteDomain
    PROVE  InOneStack'
<1>0. /\ TypeOK /\ "domain" \in Resources
      /\ UNCHANGED <<stack, config, running>> /\ Finish("domain") /\ job.domain = "delete"
  BY OneStack DEF DeleteDomain, IInv, standing
<1>1. JobsAreAskedFor' /\ job'.domain = "none"
  BY <1>0, FinishKeeps
<1>2. ~config'.present
  BY <1>0 DEF IInv, JobsAreAskedFor, Wanted
<1>. QED  BY <1>1, <1>2 DEF UpdateKnows, LinksWait, ReadIsCurrent, Unfailed, ReadIsDescribed,
        DomainDone, RoutingDone, ServiceDone

\* What a failure leaves of InOneStack, whatever has been written.
LEMMA FailedOneStack ==
    ASSUME IInv, Together, NEW r \in Resources, MayGo(r), Fails(r),
           UNCHANGED <<stack, config, running, applied>>
    PROVE  JobsAreAskedFor' /\ ~Unfailed'
<1>1. "domain" \in running /\ "domain" \notin applied /\ stack[r] = "domain" /\ Finish(r)
      /\ stack.domain = "domain"
  BY OneStack, GoesInItsRun DEF IInv, TypeOK, Fails
<1>. QED  BY <1>1, FinishKeeps DEF Fails, Unfailed

LEMMA CallFailsOneStack ==
    ASSUME IInv, Together, NEW r \in Resources, CallFails(r)
    PROVE  InOneStack'
<1>0. /\ TypeOK /\ MayGo(r) /\ Fails(r) /\ Finish(r)
      /\ UNCHANGED <<stack, config, running, applied, state>>
      /\ job.domain = job["domain"] /\ "domain" \in Resources
  BY OneStack DEF CallFails, IInv, Fails, standing
<1>1. JobsAreAskedFor' /\ ~Unfailed'
  BY <1>0, FailedOneStack
<1>2. /\ \A l \in Links : got'[l] # Null => got'[l] = got[l] /\ got[l] # Null /\ l # r
      /\ \A q \in Resources : job'[q] = IF q = r THEN "none" ELSE job[q]
      /\ job'.domain = job'["domain"]
  BY <1>0, FinishKeeps
<1>3. \/ UNCHANGED <<domain, wrote>>
      \/ r = "domain" /\ UNCHANGED wrote
      \/ r \in Links /\ wrote' = wrote \cup {r} /\ domain' # Null /\ got[r] # Null
  BY <1>0, LinkedTyped, NullIsNoRecord DEF CallFails
<1>4. UpdateKnows'
  BY <1>0, <1>2, <1>3 DEF IInv, UpdateKnows, Links
<1>5. LinksWait'
  BY <1>0, <1>2, <1>3 DEF IInv, LinksWait, Together
<1>6. ReadIsCurrent'
  <2>. SUFFICES ASSUME config.present, NEW l \in Links, config[l] # Null, got[l] # Null,
                       wrote' \subseteq {l}, l # r
                PROVE  got[l].service = domain'.service
    BY <1>0, <1>2 DEF ReadIsCurrent
  <2>1. job.domain = "none"
    BY DEF IInv, LinksWait
  <2>2. r # "domain"
    BY <1>0, <2>1, GoesInItsRun
  <2>3. UNCHANGED <<domain, wrote>>
    BY <1>3, <2>2
  <2>. QED  BY <2>3 DEF IInv, ReadIsCurrent
<1>. QED  BY <1>1, <1>4, <1>5, <1>6 DEF ReadIsDescribed, DomainDone, RoutingDone, ServiceDone

LEMMA GetOneStack ==
    ASSUME IInv, Together, NEW l \in Links, Get(l)
    PROVE  InOneStack'
<1>0. /\ TypeOK /\ MayGo(l) /\ l \in Resources /\ l # "domain"
      /\ UNCHANGED <<stack, config, running, applied, domain, wrote>>
      /\ job.domain = job["domain"] /\ "domain" \in Resources
  BY OneStack DEF Get, IInv, standing, Links
<1>1. CASE domain # Null
  <2>1. got' = [got EXCEPT ![l] = domain] /\ UNCHANGED <<state, job, failed>>
    BY <1>1 DEF Get
  <2>2. \A m \in Links : got'[m] = IF m = l THEN domain ELSE got[m]
    BY <1>0, <2>1 DEF TypeOK
  <2>3. config.present /\ config[l] # Null => job.domain = "none"
    BY <1>0, GoesAfterDomain
  <2>4. LinksWait' /\ ReadIsCurrent'
    BY <1>0, <2>1, <2>2, <2>3 DEF IInv, LinksWait, ReadIsCurrent, Together
  <2>5. Unfailed' = Unfailed /\ AllConfigured' = AllConfigured /\ Sent' = Sent
    BY <1>0, <2>1 DEF Unfailed, AllConfigured, Sent, Together
  <2>6. ReadIsDescribed'
    BY <1>0, <2>2, <2>3, <2>5 DEF IInv, ReadIsDescribed, DomainDone, Unfailed
  <2>. QED  BY <1>0, <2>1, <2>4, <2>5, <2>6 DEF IInv, JobsAreAskedFor, UpdateKnows, DomainDone,
        RoutingDone, ServiceDone, Together, Wanted
<1>2. CASE domain = Null
  <2>1. Finish(l)
    BY <1>2 DEF Get, Fails
  <2>2. /\ JobsAreAskedFor'
        /\ \A m \in Links : got'[m] # Null => got'[m] = got[m] /\ got[m] # Null
        /\ \A q \in Resources : job'[q] = IF q = l THEN "none" ELSE job[q]
        /\ job'.domain = job'["domain"]
    BY <1>0, <2>1, FinishKeeps
  <2>3. job'.domain = job.domain
    BY <1>0, <2>2
  <2>4. UpdateKnows' /\ LinksWait' /\ ReadIsCurrent'
    BY <1>0, <1>2, <2>2, <2>3 DEF IInv, UpdateKnows, LinksWait, ReadIsCurrent, Together
  <2>5. CASE Fails(l)
    <3>1. ~Unfailed'
      BY <1>0, <2>5, FailedOneStack
    <3>. QED  BY <2>2, <2>4, <3>1 DEF ReadIsDescribed, DomainDone, RoutingDone, ServiceDone
  <2>6. CASE job[l] = "delete" /\ UNCHANGED failed
    <3>1. config[l] = Null
      BY <1>0, <2>6 DEF IInv, JobsAreAskedFor, Wanted
    <3>2. Unfailed' = Unfailed /\ AllConfigured' = AllConfigured /\ Sent' = Sent
      BY <1>0, <2>6 DEF Unfailed, AllConfigured, Sent, Together
    <3>3. ReadIsDescribed' /\ DomainDone'
      BY <1>0, <2>2, <2>3, <3>2 DEF IInv, ReadIsDescribed, DomainDone
    <3>4. RoutingDone' /\ ServiceDone'
      BY <1>0, <2>2, <3>1, <3>2 DEF IInv, RoutingDone, ServiceDone, Resources, Links
    <3>. QED  BY <2>2, <2>4, <3>3, <3>4
  <2>. QED  BY <1>2, <2>5, <2>6 DEF Get
<1>. QED  BY <1>1, <1>2

LEMMA PatchOneStack ==
    ASSUME IInv, Together, NEW l \in Links, Patch(l)
    PROVE  InOneStack'
<1>0. /\ TypeOK /\ MayGo(l) /\ l \in Resources /\ l # "domain" /\ Finish(l) /\ got[l] # Null
      /\ UNCHANGED <<stack, config, running, applied>>
      /\ job.domain = job["domain"] /\ "domain" \in Resources
  BY OneStack DEF Patch, IInv, Fails, standing, Links
<1>1. /\ JobsAreAskedFor'
      /\ \A m \in Links : got'[m] # Null => got'[m] = got[m] /\ got[m] # Null /\ m # l
      /\ \A q \in Resources : job'[q] = IF q = l THEN "none" ELSE job[q]
      /\ job'.domain = job.domain
  BY <1>0, FinishKeeps
<1>2. config.present /\ config[l] # Null => job.domain = "none"
  BY <1>0, GoesAfterDomain
<1>3. CASE domain # Null
  <2>1. /\ domain' = Linked(l) /\ wrote' = wrote \cup {l} /\ UNCHANGED failed
        /\ state'.domain = state.domain
    BY <1>0, <1>3, Fields DEF Patch, TypeOK, State
  <2>2. /\ domain' # Null /\ domain'.description = got[l].description
        /\ domain'.service = IF l = "service" THEN config.service ELSE got[l].service
        /\ domain'.routing = IF l = "routing" THEN config.routing ELSE domain.routing
    BY <1>0, <1>3, <2>1, LinkedTyped, NullIsNoRecord
  <2>3. UpdateKnows' /\ LinksWait' /\ ReadIsCurrent'
    BY <1>0, <1>1, <1>2, <2>1, <2>2
       DEF IInv, UpdateKnows, LinksWait, ReadIsCurrent, Together
  <2>4. /\ Unfailed' = Unfailed /\ Sent' = Sent
        /\ AllConfigured' => AllConfigured /\ config[l] # Null
    BY <1>0, <2>1 DEF Unfailed, AllConfigured, Sent, Together
  <2>5. ReadIsDescribed'
    BY <1>0, <1>1, <2>4 DEF IInv, ReadIsDescribed
  <2>6. Unfailed /\ AllConfigured' => domain'.description = Sent
    BY <1>0, <2>2, <2>4 DEF IInv, ReadIsDescribed
  <2>7. Unfailed /\ AllConfigured' /\ wrote' # Links /\ l = "routing" =>
            domain'.service = domain.service /\ wrote # Links
    <3>1. l = "routing" /\ wrote' # Links => wrote \subseteq {l} /\ wrote # Links
      BY <1>0, <2>1 DEF TypeOK, Links
    <3>. QED  BY <1>0, <2>2, <2>4, <3>1 DEF IInv, ReadIsCurrent, Unfailed
  <2>8. DomainDone'
    <3>. SUFFICES ASSUME Unfailed, job.domain = "none", AllConfigured', wrote' # Links,
                         config.own # Null
                  PROVE  domain'.service = config.own
      BY <1>0, <1>1, <2>2, <2>4, <2>6 DEF DomainDone
    <3>1. l = "routing"
      BY <1>0, <2>4, Fields DEF Links
    <3>. QED  BY <2>4, <2>7, <3>1 DEF IInv, DomainDone
  <2>9. RoutingDone'
    BY <1>0, <1>1, <2>2, <2>4 DEF IInv, RoutingDone, Links, Resources
  <2>10. ServiceDone'
    BY <1>0, <1>1, <2>2, <2>4, <2>7 DEF IInv, ServiceDone, Links, Resources
  <2>. QED  BY <1>1, <2>3, <2>5, <2>8, <2>9, <2>10
<1>4. CASE domain = Null
  <2>1. UNCHANGED <<domain, wrote>>
    BY <1>4 DEF Patch
  <2>2. UpdateKnows' /\ LinksWait' /\ ReadIsCurrent'
    BY <1>0, <1>1, <1>4, <2>1 DEF IInv, UpdateKnows, LinksWait, ReadIsCurrent, Together
  <2>3. CASE Fails(l)
    <3>1. ~Unfailed'
      BY <1>0, <2>3, FailedOneStack
    <3>. QED  BY <1>1, <2>2, <3>1 DEF ReadIsDescribed, DomainDone, RoutingDone, ServiceDone
  <2>4. CASE job[l] = "delete" /\ UNCHANGED failed
    <3>1. config[l] = Null
      BY <1>0, <2>4 DEF IInv, JobsAreAskedFor, Wanted
    <3>2. Unfailed' = Unfailed /\ AllConfigured' = AllConfigured /\ Sent' = Sent
      BY <1>0, <2>1, <2>4 DEF Unfailed, AllConfigured, Sent, Together
    <3>3. ReadIsDescribed' /\ DomainDone'
      BY <1>0, <1>1, <2>1, <3>2 DEF IInv, ReadIsDescribed, DomainDone
    <3>4. RoutingDone' /\ ServiceDone'
      BY <1>0, <1>1, <2>1, <3>1, <3>2 DEF IInv, RoutingDone, ServiceDone, Resources, Links
    <3>. QED  BY <1>1, <2>2, <3>3, <3>4
  <2>. QED  BY <1>4, <2>3, <2>4 DEF Patch
<1>. QED  BY <1>3, <1>4

---------------------------------------------------------------------------

LEMMA InitInv == Init => IInv
<1>. SUFFICES ASSUME Init PROVE IInv
  OBVIOUS
<1>1. TypeOK
  BY InitTyped
<1>2. /\ \A r \in Resources : job[r] = "none"
      /\ \A l \in Links : got[l] = Null
      /\ running = {} /\ applied = {} /\ job.domain = "none"
  BY DEF Init, Resources
<1>3. JobsAreAskedFor /\ UpdateKnows /\ LinksWait /\ ReadIsCurrent /\ ~Unfailed
  BY <1>2 DEF JobsAreAskedFor, UpdateKnows, LinksWait, ReadIsCurrent, Unfailed
<1>. QED  BY <1>1, <1>3 DEF IInv, ReadIsDescribed, DomainDone, RoutingDone, ServiceDone

LEMMA NextInv ==
    ASSUME IInv, [Next]_vars
    PROVE  IInv'
<1>1. TypeOK'
  BY NextTyped DEF IInv
<1>2. UNCHANGED stack
  BY Zenon DEF Next, Apply, Begin, End, WriteDomain, DeleteDomain, Get, Patch, CallFails, Edit,
         Import, standing, vars
<1>3. CASE Together
  <2>. SUFFICES InOneStack'
    BY <1>1 DEF IInv
  <2>1. CASE UNCHANGED vars
    <3>1. UNCHANGED <<stack, domain, config, state, running, job, got, failed, applied, wrote>>
      BY <2>1 DEF vars
    <3>2. /\ UNCHANGED Unfailed /\ UNCHANGED AllConfigured /\ UNCHANGED Sent
          /\ \A r \in Resources : Wanted(r)' = Wanted(r)
      BY <3>1 DEF Unfailed, AllConfigured, Sent, Wanted, Together
    <3>3. JobsAreAskedFor' /\ UpdateKnows' /\ LinksWait' /\ ReadIsCurrent'
      BY <1>3, <3>1, <3>2 DEF IInv, JobsAreAskedFor, UpdateKnows, LinksWait, ReadIsCurrent
    <3>4. ReadIsDescribed' /\ DomainDone' /\ RoutingDone' /\ ServiceDone'
      BY <3>1, <3>2 DEF IInv, ReadIsDescribed, DomainDone, RoutingDone, ServiceDone
    <3>. QED  BY <3>3, <3>4
  <2>2. CASE Next
    BY <1>3, <2>2, BeginOneStack, EndOneStack, WriteDomainOneStack, DeleteDomainOneStack,
       GetOneStack, PatchOneStack, CallFailsOneStack, EditOneStack, ImportOneStack
       DEF Next, Apply
  <2>. QED  BY <2>1, <2>2
<1>4. CASE ~Together
  <2>1. ~Together'
    BY <1>2, <1>4 DEF Together
  <2>. QED  BY <1>1, <2>1 DEF IInv, JobsAreAskedFor, UpdateKnows, LinksWait, ReadIsCurrent,
       Unfailed, ReadIsDescribed, DomainDone, RoutingDone, ServiceDone
<1>. QED  BY <1>3, <1>4

\* IInv holds in every reachable state.
THEOREM LinksInvariance == Spec => []IInv
<1>1. Init => IInv
  BY InitInv
<1>2. IInv /\ [Next]_vars => IInv'
  BY NextInv
<1>. QED  BY <1>1, <1>2, PTL DEF Spec

\* After an apply without errors the domain is described, routed and linked as
\* configured, through any failures, editions and imports, unless that apply removed a
\* link or wrote both.
THEOREM AppliesLinks == Spec => []AppliedIsLinked
<1>1. ASSUME IInv, Finished
      PROVE  /\ domain # Null
             /\ config.routing # Null => domain.routing = config.routing
             /\ AllConfigured =>
                /\ domain.description = Sent
                /\ wrote # Links => ServiceAsConfigured
  <2>1. /\ TypeOK /\ Together /\ Unfailed /\ "domain" \notin running
        /\ "domain" \in Resources /\ Links \subseteq Resources
        /\ job.domain = job["domain"] /\ job.service = job["service"]
        /\ job.routing = job["routing"]
    BY <1>1, OneStack DEF IInv, Finished, Unfailed, TypeOK
  <2>2. job.domain = "none" /\ job.service = "none" /\ job.routing = "none"
    BY <2>1, AtRest DEF Links
  <2>3. /\ domain # Null
        /\ AllConfigured => domain.description = Sent
        /\ AllConfigured /\ wrote # Links /\ config.own # Null => domain.service = config.own
    BY <1>1, <2>1, <2>2 DEF IInv, DomainDone
  <2>4. AllConfigured /\ wrote # Links /\ config.service # Null => domain.service = config.service
    BY <1>1, <2>1, <2>2 DEF IInv, ServiceDone
  <2>5. config.routing # Null => domain.routing = config.routing
    BY <1>1, <2>1, <2>2 DEF IInv, RoutingDone
  <2>. QED  BY <2>3, <2>4, <2>5 DEF ServiceAsConfigured
<1>2. IInv => AppliedIsLinked
  BY <1>1 DEF AppliedIsLinked, AllConfigured
<1>. QED  BY <1>2, LinksInvariance, PTL

\* An update of the domain keeps a service that it does not configure, if no link was
\* written under it: "picked up on refresh instead of being planned away".
THEOREM UpdateKeepsLink == Spec => DomainKeepsLink
<1>. DEFINE Kept == Together /\ config.own = Null /\ job.domain = "update" /\ domain' # domain
                      /\ wrote' = {} => domain'.service = domain.service
<1>1. ASSUME IInv, Next, Together, config.own = Null, job.domain = "update",
             domain' # domain, wrote' = {}
      PROVE  domain'.service = domain.service
  <2>1. domain' = DomainWritten
    <3>1. \A k : ~Begin(k) /\ ~End(k) /\ ~Edit(k)
      BY <1>1 DEF Begin, End, Edit
    <3>2. ~Import /\ ~DeleteDomain /\ \A l \in Links : ~Get(l) /\ ~Patch(l)
      BY <1>1 DEF Import, DeleteDomain, Get, Patch
    <3>3. WriteDomain \/ \E r \in Resources : CallFails(r)
      BY <1>1, <3>1, <3>2 DEF Next, Apply
    <3>. QED  BY <1>1, <3>3 DEF WriteDomain, CallFails
  <2>2. wrote = {}
    <3>1. \A k : ~Begin(k)
      BY <1>1 DEF Begin
    <3>. QED  BY <1>1, <3>1 DEF Next, Apply, End, WriteDomain, DeleteDomain, Get, Patch, CallFails,
                               Edit, Import
  <2>3. state.domain # Null /\ domain.service = state.domain.service
    BY <1>1, <2>2 DEF IInv, UpdateKnows
  <2>4. DomainWritten.service = PlannedService
    BY <1>1, WrittenTyped DEF IInv
  <2>. QED  BY <1>1, <2>1, <2>3, <2>4 DEF PlannedService
<1>2. IInv /\ [Next]_vars => [Kept]_vars
  BY <1>1
<1>. QED  BY <1>2, LinksInvariance, PTL DEF Spec, DomainKeepsLink
=============================================================================
