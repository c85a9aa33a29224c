--------------------------- MODULE AccountObjects ---------------------------
(***************************************************************************)
(* The kinds of objects that belong to the account and not to a version of *)
(* a service: stores, domains, DNS, TLS, alerts and other settings.  The   *)
(* API finds them by an id of its own.  The id of another object, such as  *)
(* service_id, is never empty, whether or not the schema says so.          *)
(***************************************************************************)
EXTENDS Attributes

---------------------------------------------------------------------------
(* Stores and lists.                                                       *)

\* configstore: the only store that can be renamed.
ConfigStoreSchema == RequiredFilled({"name"})

ConfigStoreInput == Always({"name"})

ConfigStoreState == Plain({"name"})

ConfigStore ==
    [Resource(ConfigStoreSchema, ConfigStoreInput, ConfigStoreInput, ConfigStoreState, {})
        EXCEPT !.updating = Forgetting]

\* kvstore: Delete looks into the store first, and fails if there is none.
KVStoreSchema ==
    Required({"name"}) @@ OptionalFilled({"location"}) @@ ZeroDefault({"force_destroy"})

KVStoreCreate ==
    Always({"name"}) @@ NonZero({"location"}) @@ Never({"force_destroy"})

KVStoreState == Plain({"name"}) @@ Kept({"location", "force_destroy"})

KVStoreDeleting == <<"get", "delete">>

KVStore ==
    [Fixed(Resource(KVStoreSchema, KVStoreCreate, Never(DOMAIN KVStoreSchema), KVStoreState,
                    {"name", "location"}))
        EXCEPT !.deleting = KVStoreDeleting]

\* secretstore, acl
NameSchema == RequiredFilled({"name"})

ACLSchema == Required({"name"})

NameCreate == Always({"name"})

NameState == Plain({"name"})

SecretStore == Fixed(Resource(NameSchema, NameCreate, Never({"name"}), NameState, {"name"}))

ACL == Fixed(Resource(ACLSchema, NameCreate, Never({"name"}), NameState, {"name"}))

\* objectstorageaccesskey
AccessKeySchema ==
    Required({"description"}) @@ RequiredFilled({"permission"}) @@ Optional({"buckets"})

AccessKeyCreate == Always({"description", "permission"}) @@ WhenSet({"buckets"})

AccessKeyState == Plain({"description", "permission"}) @@ Reconciled({"buckets"})

AccessKey ==
    Fixed(Resource(AccessKeySchema, AccessKeyCreate, Never(DOMAIN AccessKeySchema),
                   AccessKeyState, DOMAIN AccessKeySchema))

---------------------------------------------------------------------------
(* Domains and DNS.                                                        *)

\* domainmanagement: a link made elsewhere is taken over.
ManagedDomainSchema == Required({"fqdn"}) @@ Optional({"description"}) @@ Chosen({"service_id"})

ManagedDomainCreate == Always({"fqdn"}) @@ WhenSet({"description", "service_id"})

ManagedDomainUpdate == Never({"fqdn"}) @@ WhenSet({"description", "service_id"})

ManagedDomainState == Plain({"fqdn"}) @@ Reconciled({"description"}) @@ OrNull({"service_id"})

ManagedDomain ==
    Resource(ManagedDomainSchema, ManagedDomainCreate, ManagedDomainUpdate, ManagedDomainState,
             {"fqdn"})

\* dnszone
ZoneSchema ==
       RequiredFilled({"name", "address"})
    @@ Optional({"description"})
    @@ OptionalFilled({"inbound_tsig_key_id"})

ZoneCreate ==
       Always({"name"})
    @@ WhenSet({"description"})
    @@ Whole({"address"})
    @@ NonZero({"inbound_tsig_key_id"})

ZoneUpdate ==
       Never({"name"})
    @@ Always({"description"})
    @@ Whole({"address"})
    @@ Clearing({"inbound_tsig_key_id"})

ZoneState ==
    OrNull({"name", "address", "inbound_tsig_key_id"}) @@ EmptyKept({"description"})

DNSZone == Resource(ZoneSchema, ZoneCreate, ZoneUpdate, ZoneState, {"name"})

\* tsigkey: the secret is not told.
TSIGKeySchema ==
    RequiredFilled({"name", "secret", "algorithm"}) @@ Optional({"description"})

TSIGKeyCreate == Always({"name", "algorithm"}) @@ WhenSet({"secret", "description"})

TSIGKeyUpdate ==
    Always({"name", "algorithm", "description"}) @@ WhenSet({"secret"})

TSIGKeyState ==
    OrNull({"name", "algorithm"}) @@ Kept({"secret"}) @@ EmptyKept({"description"})

TSIGKey == Resource(TSIGKeySchema, TSIGKeyCreate, TSIGKeyUpdate, TSIGKeyState, {})

---------------------------------------------------------------------------
(* Observability and settings.                                             *)

\* alert: the dimensions and the strategy are sent as a whole.
AlertSchema ==
       Required({"name", "metric", "threshold"})
    @@ RequiredFilled({"source", "type", "period"})
    @@ ZeroDefault({"description"})
    @@ OptionalFilled({"service_id"})
    @@ Computed({"integration_ids"})
    @@ Optional({"domains", "origins"})
    @@ OptionalFilled({"ignore_below"})

AlertWhole == {"domains", "origins", "ignore_below", "type", "period", "threshold"}

AlertCreate == Whole(AlertWhole) @@ Always(DOMAIN AlertSchema)

AlertUpdate == Never({"source", "service_id"}) @@ AlertCreate

AlertState ==
       FilledOrNull({"service_id"})
    @@ OrNull({"domains", "origins", "ignore_below"})
    @@ Plain(DOMAIN AlertSchema)

Alert == Resource(AlertSchema, AlertCreate, AlertUpdate, AlertState, {"source", "service_id"})

\* auditlogeventmapping
EventMappingSchema ==
       RequiredFilled({"name", "scope_type", "event_types", "integration_ids"})
    @@ Optional({"description", "scope_ids"})

EventMappingCreate ==
    WhenSet({"description"}) @@ Always(DOMAIN EventMappingSchema)

EventMappingUpdate == Always(DOMAIN EventMappingSchema)

EventMappingState ==
    Reconciled({"description", "scope_ids"}) @@ Plain(DOMAIN EventMappingSchema)

EventMapping ==
    Resource(EventMappingSchema, EventMappingCreate, EventMappingUpdate, EventMappingState, {})

\* customdashboard
DashboardSchema == RequiredFilled({"name"}) @@ Optional({"description"})

DashboardCreate == Always({"name"}) @@ WhenSet({"description"})

DashboardUpdate == Always({"name", "description"})

DashboardState == Plain({"name"}) @@ Reconciled({"description"})

Dashboard == Resource(DashboardSchema, DashboardCreate, DashboardUpdate, DashboardState, {})

\* integration: fetched after it is written, before it is stored.
IntegrationSchema ==
       RequiredFilled({"name", "type"})
    @@ Optional({"description", "authentication"})

IntegrationInput == WhenSet({"authentication"}) @@ Always(DOMAIN IntegrationSchema)

IntegrationState ==
    Kept({"authentication"}) @@ Merged({"description"}) @@ Plain(DOMAIN IntegrationSchema)

IntegrationCreating == <<"post", "get", "save">>

IntegrationUpdating == <<"put", "get", "save">>

Integration ==
    [Resource(IntegrationSchema, IntegrationInput, IntegrationInput, IntegrationState, {})
        EXCEPT !.creating = IntegrationCreating, !.updating = IntegrationUpdating]

\* apisecurityoperation: PATCH clears what is left out.
OperationSchema ==
       Required({"domain", "path"})
    @@ RequiredFilled({"method"})
    @@ ZeroDefault({"description"})
    @@ Computed({"tag_ids"})

OperationKey == {"domain", "path", "method"}

OperationCreate == Always(OperationKey) @@ WhenSet({"description", "tag_ids"})

OperationUpdate ==
    Never(OperationKey) @@ Always({"description"}) @@ Whole({"tag_ids"})

OperationState == Plain(DOMAIN OperationSchema)

APIOperation ==
    [Resource(OperationSchema, OperationCreate, OperationUpdate, OperationState, OperationKey)
        EXCEPT !.updating = Forgetting]

\* apisecurityoperationtag
TagSchema == Required({"name"}) @@ ZeroDefault({"description"})

TagInput == Always(DOMAIN TagSchema)

TagState == Plain(DOMAIN TagSchema)

APIOperationTag ==
    [Resource(TagSchema, TagInput, TagInput, TagState, {}) EXCEPT !.updating = Forgetting]

---------------------------------------------------------------------------
(* TLS.                                                                    *)

\* tlscertificate: the body is not told.
CertificateSchema == Required({"certificate_body"}) @@ Computed({"name"})

CertificateInput == Always({"certificate_body"}) @@ NonZero({"name"})

CertificateState == Kept({"certificate_body"}) @@ Plain({"name"})

Certificate ==
    Resource(CertificateSchema, CertificateInput, CertificateInput, CertificateState, {})

\* tlsplatformcertificate
PlatformSchema ==
       Required({"certificate_body", "intermediates_blob"})
    @@ RequiredFilled({"configuration_id"})
    @@ ZeroDefault({"allow_untrusted_root"})

PlatformCreate == Always(DOMAIN PlatformSchema)

PlatformUpdate == Never({"configuration_id"}) @@ Always(DOMAIN PlatformSchema)

PlatformState == Plain({"configuration_id"}) @@ Kept(DOMAIN PlatformSchema)

PlatformCertificate ==
    Resource(PlatformSchema, PlatformCreate, PlatformUpdate, PlatformState,
             {"configuration_id"})

\* tlsprivatekey: its id is recorded before it is fetched.
PrivateKeySchema == RequiredFilled({"name"}) @@ Required({"key_pem"})

PrivateKeyCreate == Always(DOMAIN PrivateKeySchema)

PrivateKeyState == Plain({"name"}) @@ Kept({"key_pem"})

PrivateKeyCreating == <<"post", "record", "get", "save">>

PrivateKey ==
    [Fixed(Resource(PrivateKeySchema, PrivateKeyCreate, Never(DOMAIN PrivateKeySchema),
                    PrivateKeyState, DOMAIN PrivateKeySchema))
        EXCEPT !.creating = PrivateKeyCreating]

\* tlsactivation: a second call gives it its mutual authentication.
ActivationSchema ==
       RequiredFilled({"certificate_id", "domain"})
    @@ Chosen({"configuration_id", "mutual_authentication_id"})

ActivationCreate ==
       Always({"certificate_id", "domain"})
    @@ NonZero({"configuration_id"})
    @@ Attached({"mutual_authentication_id"})

ActivationUpdate ==
       Always({"certificate_id"})
    @@ Never({"domain", "configuration_id"})
    @@ Clearing({"mutual_authentication_id"})

ActivationState == OrNull(DOMAIN ActivationSchema)

ActivationCreating == <<"post", "attach", "save">>

Activation ==
    [Resource(ActivationSchema, ActivationCreate, ActivationUpdate, ActivationState,
              {"domain", "configuration_id"})
        EXCEPT !.creating = ActivationCreating]

\* tlssubscription, while it is pending or issued: then its domains may change.
SubscriptionSchema ==
       RequiredFilled({"certificate_authority", "domains"})
    @@ Chosen({"common_name", "configuration_id"})
    @@ ZeroDefault({"force_destroy", "force_update"})

SubscriptionForce == {"force_destroy", "force_update"}

SubscriptionCreate ==
       Always({"certificate_authority", "domains"})
    @@ NonZero({"common_name", "configuration_id"})
    @@ Never(SubscriptionForce)

SubscriptionUpdate ==
       Never({"certificate_authority"} \cup SubscriptionForce)
    @@ Always({"domains", "common_name", "configuration_id"})

SubscriptionState == Kept(SubscriptionForce) @@ Plain(DOMAIN SubscriptionSchema)

SubscriptionCreating == <<"post", "save", "get", "save">>

SubscriptionUpdating == <<"put", "get", "save">>

Subscription ==
    [Resource(SubscriptionSchema, SubscriptionCreate, SubscriptionUpdate, SubscriptionState,
              {"certificate_authority"})
        EXCEPT !.creating = SubscriptionCreating, !.updating = SubscriptionUpdating]

\* tlsmutualauthentication, but for the activations it is linked to: stored only when it
\* has been fetched, and not found is deleted.
MutualAuthenticationSchema ==
       Required({"cert_bundle"})
    @@ Computed({"enforced"})
    @@ Chosen({"name"})
    @@ Optional({"include"})

MutualAuthenticationCreate ==
       Always({"cert_bundle"})
    @@ WhenSet({"enforced"})
    @@ NonZero({"name"})
    @@ Never({"include"})

MutualAuthenticationUpdate ==
    Always({"cert_bundle", "enforced", "name"}) @@ Never({"include"})

MutualAuthenticationState ==
    Kept({"cert_bundle", "include"}) @@ Plain({"enforced", "name"})

MutualAuthenticationCreating == <<"post", "get", "save">>

MutualAuthenticationUpdating == <<"put", "get", "save">>

MutualAuthentication ==
    [Resource(MutualAuthenticationSchema, MutualAuthenticationCreate,
              MutualAuthenticationUpdate, MutualAuthenticationState, {})
        EXCEPT !.creating = MutualAuthenticationCreating,
               !.updating = MutualAuthenticationUpdating]

---------------------------------------------------------------------------

AccountKinds == [
    configstore |-> ConfigStore, kvstore |-> KVStore, secretstore |-> SecretStore,
    acl |-> ACL, objectstorageaccesskey |-> AccessKey,
    domainmanagement |-> ManagedDomain, dnszone |-> DNSZone, tsigkey |-> TSIGKey,
    alert |-> Alert, auditlogeventmapping |-> EventMapping, customdashboard |-> Dashboard,
    integration |-> Integration, apisecurityoperation |-> APIOperation,
    apisecurityoperationtag |-> APIOperationTag,
    tlscertificate |-> Certificate, tlsplatformcertificate |-> PlatformCertificate,
    tlsprivatekey |-> PrivateKey, tlsactivation |-> Activation,
    tlssubscription |-> Subscription, tlsmutualauthentication |-> MutualAuthentication]
=============================================================================
