---------------------------- MODULE DomainLinks ----------------------------
(***************************************************************************)
(* Three resources that write to one versionless domain: fastly_domain     *)
(* (description, service), fastly_domain_service_link (service) and        *)
(* fastly_routing_config_domain_link (routing).  An update of a domain     *)
(* sends its description and its service whether or not they are to        *)
(* change, so each of the links reads the domain first and sends back what *)
(* it read.                                                                *)
(*                                                                         *)
(* The resources are in one Terraform configuration, where the links wait  *)
(* for the domain they refer to but not for each other, or in three, "owned*)
(* by separate Terraform configurations", whose applies overlap.           *)
(***************************************************************************)
EXTENDS FiniteSets, Naturals

CONSTANTS
    Descriptions, \* what the configuration may say of the description
    Services, Routings,
    Null,         \* not set; the API's null
    MaxFaults,    \* bound: failed calls
    MaxEdits      \* bound: edits of a configuration

Text == (Descriptions \ {Null}) \cup {""}
Maybe(S) == S \cup {Null}
Domain == [description: Text, service: Maybe(Services), routing: Maybe(Routings)]

\* What the state of fastly_domain has of it.
DomainState == [description: Maybe(Text), service: Maybe(Services)]

ASSUME LinksAssumption ==
    /\ Null \in Descriptions \ (Services \cup Routings)
    /\ Null # "" /\ Null \notin Domain /\ Null \notin DomainState
    /\ MaxFaults \in Nat /\ MaxEdits \in Nat

Links == {"service", "routing"}
Resources == {"domain"} \cup Links

VARIABLES
    stack,   \* the Terraform configuration a resource is in
    domain,  \* of the API; Null: there is none
    config,
    state,   \* of each resource; Null: it is not in the state
    running, \* stacks that are being applied
    job,     \* per resource: the operation planned
    got,     \* per link: the domain its handler read; Null: not yet
    failed,  \* stacks with an error in this apply
    applied, \* history: stacks whose last apply ended without an error
    wrote,   \* history: links written to since the apply of their stack began
    faults, edits

vars == <<stack, domain, config, state, running, job, got, failed, applied, wrote, faults, edits>>

\* A domain is linked to its service by one of the two resources.
Config == {c \in [present: BOOLEAN, description: Descriptions, own: Maybe(Services),
                  service: Maybe(Services), routing: Maybe(Routings)] :
              c.own = Null \/ c.service = Null}

\* What the state has of the domain, and of a link.
State == [domain: Maybe(DomainState), service: Maybe(Services), routing: Maybe(Routings)]

Together == \A r \in Resources : stack[r] = "domain"

Stacks == {stack[r] : r \in Resources}

TypeOK ==
    /\ stack \in [Resources -> Resources]
    /\ domain \in Maybe(Domain)
    /\ config \in Config /\ state \in State
    /\ running \subseteq Stacks /\ failed \subseteq running /\ applied \subseteq Stacks \ running
    /\ job \in [Resources -> {"none", "create", "update", "delete"}]
    /\ \A r \in Resources : job[r] # "none" => stack[r] \in running
    /\ got \in [Links -> Maybe(Domain)]
    /\ \A l \in Links : got[l] # Null => job[l] # "none"
    /\ wrote \subseteq Links
    /\ faults \in 0 .. MaxFaults /\ edits \in 0 .. MaxEdits

Init ==
    /\ stack \in {[r \in Resources |-> "domain"], [r \in Resources |-> r]}
    /\ domain = Null
    /\ config \in {c \in Config : c.present}
    /\ state = [domain |-> Null, service |-> Null, routing |-> Null]
    /\ running = {} /\ failed = {} /\ applied = {}
    /\ job = [r \in Resources |-> "none"]
    /\ got = [l \in Links |-> Null]
    /\ wrote = {}
    /\ faults = 0 /\ edits = 0

---------------------------------------------------------------------------
(* Refresh and plan.                                                       *)

\* An unset description reads back as "".
ReconcileDescription(returned, known) ==
    IF returned = "" /\ known = Null THEN Null ELSE returned

Flattened(d, known) ==
    [description |-> ReconcileDescription(d.description, known), service |-> d.service]

\* Mutation: a link that has been cleared stays in the state.
KeepsCleared(r) ==
    IF state[r] = Null \/ domain = Null THEN Null
    ELSE IF r = "domain" THEN Flattened(domain, state.domain.description)
    ELSE IF domain[r] = Null THEN state[r] ELSE domain[r]

\* Read; a link of a domain without one is gone.
Refreshed(r) ==
    IF state[r] = Null \/ domain = Null THEN Null
    ELSE IF r = "domain" THEN Flattened(domain, state.domain.description)
    ELSE domain[r]

\* `service_id` is optional and computed: no value is no difference.
DomainDiffers(s) ==
    s.description # config.description \/ config.own \notin {Null, s.service}

Wanted(r) == IF r = "domain" THEN config.present ELSE config[r] # Null

Differs(r, s) == IF r = "domain" THEN DomainDiffers(s) ELSE s # config[r]

Planned(r, s) ==
    CASE s = Null /\ Wanted(r) -> "create"
      [] s # Null /\ ~Wanted(r) -> "delete"
      [] s # Null /\ Wanted(r) /\ Differs(r, s) -> "update"
      [] OTHER -> "none"

In(k) == {r \in Resources : stack[r] = k}

Begin(k) ==
    /\ k \notin running
    /\ running' = running \cup {k}
    /\ state' = [r \in Resources |-> IF r \in In(k) THEN Refreshed(r) ELSE state[r]]
    /\ job' = [r \in Resources |-> IF r \in In(k) THEN Planned(r, state'[r]) ELSE job[r]]
    /\ applied' = applied \ {k}
    /\ wrote' = wrote \ In(k)
    /\ UNCHANGED <<stack, domain, config, got, failed, faults, edits>>

End(k) ==
    /\ k \in running
    /\ \A r \in In(k) : job[r] = "none"
    /\ running' = running \ {k}
    /\ applied' = IF k \in failed THEN applied ELSE applied \cup {k}
    /\ failed' = failed \ {k}
    /\ UNCHANGED <<stack, domain, config, state, job, got, wrote, faults, edits>>

---------------------------------------------------------------------------
(* The handlers.                                                           *)

\* Terraform's order within a stack: a link after the domain it refers to,
\* and the domain's deletion after its links'.
MayGo(r) ==
    IF r = "domain"
    THEN job.domain # "none" /\ (job.domain = "delete" =>
            \A l \in Links : stack[l] = stack.domain => job[l] = "none")
    ELSE job[r] # "none" /\ (stack[r] = stack.domain =>
            job[r] = "delete" \/ job.domain \in {"none", "delete"})

\* Mutation: the domain once read is read no more.
CachesRead(r) == job' = [job EXCEPT ![r] = "none"] /\ UNCHANGED got

Finish(r) ==
    /\ job' = [job EXCEPT ![r] = "none"]
    /\ got' = [l \in Links |-> IF l = r THEN Null ELSE got[l]]

\* A diagnostic: the state stays as it is.
Fails(r) ==
    /\ Finish(r)
    /\ failed' = failed \cup {stack[r]}
    /\ UNCHANGED state

standing == <<stack, config, running, applied, edits>>

Sent == IF config.description = Null THEN "" ELSE config.description

\* Mutation: `service_id` does not keep the value of the state.
SendsConfigured == config.own

\* The plan's `service_id`: UseStateForUnknown.
PlannedService ==
    IF config.own # Null THEN config.own
    ELSE IF state.domain = Null THEN Null ELSE state.domain.service

DomainWritten ==
    IF domain = Null
    THEN [description |-> Sent, service |-> PlannedService, routing |-> Null]
    ELSE [domain EXCEPT !.description = Sent, !.service = PlannedService]

\* Create or Update of fastly_domain; a second domain of that name conflicts.
WriteDomain ==
    /\ MayGo("domain") /\ job.domain \in {"create", "update"}
    /\ IF job.domain = "create" <=> domain = Null
       THEN /\ domain' = DomainWritten
            /\ state' = [state EXCEPT !.domain = Flattened(domain', config.description)]
            /\ Finish("domain")
            /\ UNCHANGED failed
       ELSE Fails("domain") /\ UNCHANGED domain
    /\ UNCHANGED <<standing, wrote, faults>>

DeleteDomain ==
    /\ MayGo("domain") /\ job.domain = "delete"
    /\ domain' = Null
    /\ state' = [state EXCEPT !.domain = Null]
    /\ Finish("domain")
    /\ UNCHANGED <<standing, failed, wrote, faults>>

\* upsert, first half.  Delete has nothing to do when there is no domain.
Get(l) ==
    /\ MayGo(l) /\ got[l] = Null
    /\ IF domain # Null
       THEN got' = [got EXCEPT ![l] = domain] /\ UNCHANGED <<state, job, failed>>
       ELSE IF job[l] = "delete"
       THEN state' = [state EXCEPT ![l] = Null] /\ Finish(l) /\ UNCHANGED failed
       ELSE Fails(l)
    /\ UNCHANGED <<standing, domain, wrote, faults>>

\* Mutation: the service link does not send the description back.
SendsNoDescription(l) ==
    IF l = "service"
    THEN [domain EXCEPT !.description = "", !.service = config.service]
    ELSE [domain EXCEPT !.description = got[l].description,
                        !.service = got[l].service,
                        !.routing = config.routing]

\* What upsert's update leaves: `routing` stays when it is not sent.
Linked(l) ==
    IF l = "service"
    THEN [domain EXCEPT !.description = got[l].description, !.service = config.service]
    ELSE [domain EXCEPT !.description = got[l].description,
                        !.service = got[l].service,
                        !.routing = config.routing]

\* upsert, second half.
Patch(l) ==
    /\ MayGo(l) /\ got[l] # Null
    /\ IF domain # Null
       THEN /\ domain' = Linked(l)
            /\ state' = [state EXCEPT ![l] = config[l]]
            /\ Finish(l)
            /\ wrote' = wrote \cup {l}
            /\ UNCHANGED failed
       ELSE /\ IF job[l] = "delete"
               THEN state' = [state EXCEPT ![l] = Null] /\ Finish(l) /\ UNCHANGED failed
               ELSE Fails(l)
            /\ UNCHANGED <<domain, wrote>>
    /\ UNCHANGED <<standing, faults>>

\* A call fails; a write may have been carried out.
CallFails(r) ==
    /\ MayGo(r) /\ faults < MaxFaults
    /\ faults' = faults + 1
    /\ \/ UNCHANGED <<domain, wrote>>
       \/ /\ r = "domain" /\ (job[r] = "create" <=> domain = Null)
          /\ domain' = IF job[r] = "delete" THEN Null ELSE DomainWritten
          /\ UNCHANGED wrote
       \/ /\ r \in Links /\ got[r] # Null /\ domain # Null
          /\ domain' = Linked(r)
          /\ wrote' = wrote \cup {r}
    /\ Fails(r)
    /\ UNCHANGED standing

Apply(k) ==
    \/ Begin(k) \/ End(k)
    \/ k = stack.domain /\ (WriteDomain \/ DeleteDomain)
    \/ \E l \in In(k) \cap Links : Get(l) \/ Patch(l)

---------------------------------------------------------------------------
(* The user.                                                               *)

\* An edition of one stack, while it is not being applied.  A domain that was
\* dropped does not come back; links that refer to it go with it.
Edit(k) ==
    /\ k \in Stacks \ running /\ edits < MaxEdits
    /\ edits' = edits + 1
    /\ config' \in Config
    /\ \A r \in Resources \ In(k) :
        IF r = "domain"
        THEN \A f \in {"present", "description", "own"} : config'[f] = config[f]
        ELSE config'[r] = config[r]
    /\ config'.present => config.present
    /\ ~config'.present => \A l \in Links \cap In(stack.domain) : config'[l] = Null
    /\ applied' = applied \ {k}
    /\ UNCHANGED <<stack, domain, state, running, job, got, failed, wrote, faults>>

\* ImportState of a domain whose Create was carried out without an answer.
Import ==
    /\ stack.domain \notin running
    /\ domain # Null /\ state.domain = Null
    /\ state' = [state EXCEPT !.domain = Flattened(domain, Null)]
    /\ UNCHANGED <<stack, domain, config, running, job, got, failed, applied, wrote, faults, edits>>

Next ==
    \/ \E k \in Stacks : Apply(k) \/ Edit(k)
    \/ \E r \in Resources : CallFails(r)
    \/ Import

Spec == Init /\ [][Next]_vars

\* Every stack is applied again and again, and handlers go on.
FairSpec == Spec /\ \A k \in Resources : WF_vars(k \in Stacks /\ Apply(k))

---------------------------------------------------------------------------
(* Properties, of one configuration for all three unless they say          *)
(* otherwise.                                                              *)

Finished == Together /\ stack.domain \in applied /\ config.present

ServiceAsConfigured ==
    \A s \in {config.own, config.service} \ {Null} : domain.service = s

\* After an apply without errors the domain is described, routed and linked
\* as configured.  Removing a link does not wait for the update of the domain,
\* and may clear or restore what that writes; and one link may clear the other.
AppliedIsLinked ==
    Finished =>
        /\ domain # Null
        /\ config.routing # Null => domain.routing = config.routing
        /\ (\A l \in wrote : config[l] # Null) =>
            /\ domain.description = Sent
            /\ wrote # Links => ServiceAsConfigured

\* "Computed so that a link created via `fastly_domain_service_link` is picked
\* up on refresh instead of being planned away" (the schema of fastly_domain):
\* an update of the domain keeps a service it does not configure, if that did
\* not change under it.
DomainKeepsLink ==
    [][Together /\ config.own = Null /\ job.domain = "update" /\ domain' # domain
            /\ wrote' = {}
        => domain'.service = domain.service]_vars

\* In one configuration or in several, applies that are repeated end with the
\* domain as configured, unless it has to be imported.
Converges ==
    <>[](\/ domain # Null /\ state.domain = Null
         \/ IF config.present
            THEN /\ domain # Null
                 /\ domain.description = Sent
                 /\ \A l \in Links : config[l] # Null => domain[l] = config[l]
                 /\ ServiceAsConfigured
            ELSE domain = Null)

\* "upsert preserves description/service_id" (routingconfigdomainlink): what an
\* apply links to a service is linked when it ends without an error.
ServiceLinkSurvives == Finished /\ domain # Null => ServiceAsConfigured
=============================================================================
