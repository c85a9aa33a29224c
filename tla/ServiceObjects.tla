--------------------------- MODULE ServiceObjects ---------------------------
(***************************************************************************)
(* The kinds of objects of a service version, but for its logging          *)
(* endpoints: explicit resources that name a version, blocks of the        *)
(* automatic services, and most of them both.                              *)
(***************************************************************************)
EXTENDS Attributes

\* The API finds these by the name of the configuration.
Versioned(schema, create, update, state, block) ==
    [Resource(schema, create, update, state, {})
        EXCEPT !.block = block, !.named = TRUE, !.places = {"resource", "block"}]

OnlyBlock(kind) == [kind EXCEPT !.places = {"block"}]
OnlyResource(kind) == [kind EXCEPT !.places = {"resource"}]

---------------------------------------------------------------------------
\* backend
BackendOptional == {"max_lifetime", "max_use", "max_tls_version", "min_tls_version",
    "override_host", "share_key", "ssl_ca_cert", "ssl_cert_hostname", "ssl_ciphers",
    "ssl_sni_hostname"}

BackendSchema ==
       Required({"address"})
    @@ Optional({"comment"})
    @@ Computed({"keepalive_time", "ssl_client_secrets"})
    @@ FilledOrZero({"between_bytes_timeout", "connect_timeout", "first_byte_timeout",
                     "max_conn", "port", "ssl_check_cert", "weight"})
    @@ ZeroDefault(BackendOptional \cup {"auto_loadbalance", "healthcheck", "prefer_ipv6",
                                         "request_condition", "shield", "use_ssl"})

BackendCreate ==
       NonZero(BackendOptional \cup {"comment", "keepalive_time", "ssl_client_secrets"})
    @@ Always(DOMAIN BackendSchema)

BackendUpdate == BackendCreate

BackendState ==
       Plain({"address", "ssl_client_secrets"})
    @@ OrNull({"keepalive_time"})
    @@ FilledOrNull({"comment"})
    @@ OrDefault(DOMAIN BackendSchema)

BackendSame == DOMAIN BackendSchema

BackendBlock == Block(BackendSame, {}, {})

Backend ==
    Versioned(BackendSchema, BackendCreate, BackendUpdate, BackendState, BackendBlock)

\* healthcheck
HealthcheckSchema ==
       Required({"host", "path"})
    @@ Optional({"headers"})
    @@ Filled({"check_interval", "http_version"})
    @@ FilledOrZero({"expected_response", "initial", "method", "threshold", "timeout",
                     "window"})

HealthcheckCreate == NonZero({"headers"}) @@ Always(DOMAIN HealthcheckSchema)

HealthcheckUpdate == NonZero({"headers"}) @@ Always(DOMAIN HealthcheckSchema)

HealthcheckState ==
    Plain({"host", "path"}) @@ EmptyKept({"headers"}) @@ OrDefault(DOMAIN HealthcheckSchema)

HealthcheckSame == DOMAIN HealthcheckSchema

\* applyPlanHeaders
HealthcheckBlock == Block(HealthcheckSame, {"headers"}, {})

\* The API cannot clear the headers.
Healthcheck ==
    [Versioned(HealthcheckSchema, HealthcheckCreate, HealthcheckUpdate, HealthcheckState,
               HealthcheckBlock)
        EXCEPT !.replacesCleared = {"headers"}]

\* header
HeaderSchema ==
       RequiredFilled({"action", "type"})
    @@ Required({"destination"})
    @@ FilledOrZero({"priority"})
    @@ ZeroDefault({"cache_condition", "ignore_if_set", "regex", "request_condition",
                    "response_condition", "source", "substitution"})

HeaderCreate == Always(DOMAIN HeaderSchema)

HeaderUpdate == Always(DOMAIN HeaderSchema)

HeaderState == Plain(DOMAIN HeaderSchema)

HeaderSame == DOMAIN HeaderSchema

HeaderBlock == Block(HeaderSame, {}, {})

Header == Versioned(HeaderSchema, HeaderCreate, HeaderUpdate, HeaderState, HeaderBlock)

\* gzip
GzipLists == {"content_types", "extensions"}

GzipSchema == Optional({"cache_condition"} \cup GzipLists)

GzipCreate == Always(DOMAIN GzipSchema)

GzipUpdate == Always(DOMAIN GzipSchema)

\* The API answers an empty list with one of its own.
GzipState == FilledOrNull({"cache_condition"}) @@ UnsetKept(GzipLists)

GzipSame == DOMAIN GzipSchema

\* opsWithPrevious
GzipBlock == [Block(GzipSame, GzipLists, {}) EXCEPT !.remembered = GzipLists]

Gzip == Versioned(GzipSchema, GzipCreate, GzipUpdate, GzipState, GzipBlock)

\* condition
ConditionSchema ==
    RequiredFilled({"type"}) @@ Required({"statement"}) @@ FilledOrZero({"priority"})

ConditionCreate == Always(DOMAIN ConditionSchema)

ConditionUpdate == Never({"type"}) @@ Always(DOMAIN ConditionSchema)

ConditionState == OrDefault({"priority"}) @@ Plain(DOMAIN ConditionSchema)

ConditionSame == DOMAIN ConditionSchema

\* Update fetches the condition, and recreates it if the type is another.
ConditionBlock == [Block(ConditionSame, {}, {}) EXCEPT !.changed = {"type"}]

Condition ==
    Versioned(ConditionSchema, ConditionCreate, ConditionUpdate, ConditionState,
              ConditionBlock)

\* cachesetting
CacheSettingSchema ==
       OptionalFilled({"action"})
    @@ Optional({"cache_condition"})
    @@ ZeroDefault({"stale_ttl", "ttl"})

CacheSettingCreate == NonZero({"action"}) @@ Always(DOMAIN CacheSettingSchema)

CacheSettingUpdate == Always(DOMAIN CacheSettingSchema)

CacheSettingState ==
    FilledOrNull({"action", "cache_condition"}) @@ Plain({"stale_ttl", "ttl"})

CacheSettingSame == DOMAIN CacheSettingSchema

CacheSettingBlock == Block(CacheSettingSame, {}, {})

CacheSetting ==
    Versioned(CacheSettingSchema, CacheSettingCreate, CacheSettingUpdate,
              CacheSettingState, CacheSettingBlock)

\* requestsetting
RequestSettingSchema ==
       OptionalFilled({"action", "xff"})
    @@ ZeroDefault({"bypass_busy_wait", "default_host", "force_miss", "force_ssl",
                    "hash_keys", "max_stale_age", "request_condition", "timer_support"})

RequestSettingCreate == NonZero({"action", "xff"}) @@ Always(DOMAIN RequestSettingSchema)

RequestSettingUpdate == Always(DOMAIN RequestSettingSchema)

RequestSettingState ==
    FilledOrNull({"action", "xff"}) @@ Plain(DOMAIN RequestSettingSchema)

RequestSettingSame == DOMAIN RequestSettingSchema

RequestSettingBlock == Block(RequestSettingSame, {}, {})

RequestSetting ==
    Versioned(RequestSettingSchema, RequestSettingCreate, RequestSettingUpdate,
              RequestSettingState, RequestSettingBlock)

\* responseobject
ResponseObjectSchema ==
       Computed({"content_type"})
    @@ FilledOrZero({"response", "status"})
    @@ ZeroDefault({"cache_condition", "content", "request_condition"})

ResponseObjectCreate == NonZero({"content_type"}) @@ Always(DOMAIN ResponseObjectSchema)

ResponseObjectUpdate == NonZero({"content_type"}) @@ Always(DOMAIN ResponseObjectSchema)

ResponseObjectState == OrNull({"content_type"}) @@ OrDefault(DOMAIN ResponseObjectSchema)

ResponseObjectSame == DOMAIN ResponseObjectSchema

ResponseObjectBlock == Block(ResponseObjectSame, {}, {})

ResponseObject ==
    Versioned(ResponseObjectSchema, ResponseObjectCreate, ResponseObjectUpdate,
              ResponseObjectState, ResponseObjectBlock)

\* snippet
SnippetSchema ==
    RequiredFilled({"type"}) @@ Required({"content"}) @@ FilledOrZero({"priority"})

SnippetCreate == Always(DOMAIN SnippetSchema)

SnippetUpdate == Always(DOMAIN SnippetSchema)

SnippetState == Plain(DOMAIN SnippetSchema)

SnippetSame == DOMAIN SnippetSchema

SnippetBlock == Block(SnippetSame, {}, {})

Snippet ==
    Versioned(SnippetSchema, SnippetCreate, SnippetUpdate, SnippetState, SnippetBlock)

\* customvcl
CustomVCLSchema == Required({"content"}) @@ ZeroDefault({"main"})

CustomVCLCreate == Always(DOMAIN CustomVCLSchema)

\* Which file is the main one cannot be changed.
CustomVCLUpdate == Always({"content"}) @@ Never({"main"})

CustomVCLState == OrDefault({"main"}) @@ Plain({"content"})

CustomVCLSame == DOMAIN CustomVCLSchema

CustomVCLBlock == [Block(CustomVCLSame, {}, {}) EXCEPT !.changed = {"main"}]

CustomVCL ==
    [Versioned(CustomVCLSchema, CustomVCLCreate, CustomVCLUpdate, CustomVCLState,
               CustomVCLBlock)
        EXCEPT !.replaces = {"main"}]

\* domain: the block clears the comment, the resource leaves it.
DomainSchema == Optional({"comment"})

DomainCreate == NonZero({"comment"})

DomainUpdate == NonZero({"comment"})

DomainState == FilledOrNull({"comment"})

Domain ==
    OnlyResource(Versioned(DomainSchema, DomainCreate, DomainUpdate, DomainState, NoBlock))

DomainBlockUpdate == Always({"comment"})

DomainSame == {"comment"}

DomainBlock ==
    OnlyBlock(Versioned(DomainSchema, WhenSet({"comment"}), DomainBlockUpdate, DomainState,
                        Block(DomainSame, {}, {})))

\* resourcelink
ResourceLinkSchema == Required({"name", "resource_id"})

ResourceLinkCreate == Always(DOMAIN ResourceLinkSchema)

ResourceLinkUpdate == Always({"name"}) @@ Never({"resource_id"})

ResourceLinkState == Plain(DOMAIN ResourceLinkSchema)

ResourceLinkSame == DOMAIN ResourceLinkSchema

\* Blocks are matched by what they link: a link to another object is another block.
ResourceLinkBlock == [Block(ResourceLinkSame, {}, {}) EXCEPT !.changed = {"resource_id"}]

ResourceLink ==
    [Versioned(ResourceLinkSchema, ResourceLinkCreate, ResourceLinkUpdate,
               ResourceLinkState, ResourceLinkBlock)
        EXCEPT !.replaces = {"resource_id"}]

\* cdnacl: what it holds is not the configuration's, only whether it may be lost.
CDNACLSchema == ZeroDefault({"force_destroy"})

CDNACLCreate == Never({"force_destroy"})

CDNACLState == Kept({"force_destroy"})

CDNACLBlock == Block({}, {"force_destroy"}, {})

CDNACL ==
    Fixed(Versioned(CDNACLSchema, CDNACLCreate, CDNACLCreate, CDNACLState, CDNACLBlock))

\* dictionary
DictionarySchema == ZeroDefault({"write_only", "force_destroy"})

DictionaryCreate == Always({"write_only"}) @@ Never({"force_destroy"})

DictionaryState == Plain({"write_only"}) @@ Kept({"force_destroy"})

DictionarySame == {"write_only"}

\* Update deletes the dictionary and creates it.
DictionaryBlock ==
    [Block(DictionarySame, {"force_destroy"}, {}) EXCEPT !.changed = {"write_only"}]

Dictionary ==
    Fixed([Versioned(DictionarySchema, DictionaryCreate, Never(DOMAIN DictionarySchema),
                     DictionaryState, DictionaryBlock)
            EXCEPT !.replaces = {"write_only"}])

\* director
DirectorSchema ==
       RequiredFilled({"backends"})
    @@ ZeroDefault({"comment", "shield"})
    @@ FilledOrZero({"quorum", "retries"})
    @@ Filled({"type"})

DirectorCreate == Attached({"backends"}) @@ Always(DOMAIN DirectorSchema)

DirectorUpdate == Attached({"backends"}) @@ Always(DOMAIN DirectorSchema)

DirectorState == OrDefault({"type"}) @@ Plain(DOMAIN DirectorSchema)

DirectorSame == DOMAIN DirectorSchema

DirectorBlock == Block(DirectorSame, {}, {})

\* The backends are attached one by one, then the director is fetched.
DirectorCreating == <<"post", "attach", "get", "save">>

DirectorUpdating == <<"put", "attach", "get", "save">>

Director ==
    [Versioned(DirectorSchema, DirectorCreate, DirectorUpdate, DirectorState, DirectorBlock)
        EXCEPT !.creating = DirectorCreating, !.updating = DirectorUpdating]

\* ratelimiter: Update cannot clear some of its attributes.
RateLimiterOptional ==
    {"logger_type", "response", "response_object_name", "uri_dictionary_name"}

RateLimiterSchema ==
       RequiredFilled({"action", "client_key", "http_methods", "penalty_box_duration",
                       "rps_limit", "window_size"})
    @@ FilledOrZero({"feature_revision"})
    @@ OptionalFilled({"logger_type", "response"})
    @@ Optional({"response_object_name", "uri_dictionary_name"})

RateLimiterCreate == NonZero(RateLimiterOptional) @@ Always(DOMAIN RateLimiterSchema)

RateLimiterUpdate == NonZero(RateLimiterOptional) @@ Always(DOMAIN RateLimiterSchema)

RateLimiterState ==
    FilledOrNull(RateLimiterOptional \cup {"action"}) @@ Plain(DOMAIN RateLimiterSchema)

RateLimiterSame == DOMAIN RateLimiterSchema

\* needsRecreate
RateLimiterRecreated == {"response", "response_object_name", "uri_dictionary_name"}

RateLimiterBlock == Block(RateLimiterSame, {}, RateLimiterRecreated)

RateLimiter ==
    Versioned(RateLimiterSchema, RateLimiterCreate, RateLimiterUpdate, RateLimiterState,
              RateLimiterBlock)

\* dynamicsnippet, dynamicvclsnippet: the content is not read, and compared with nothing.
DynamicSnippetSchema ==
    RequiredFilled({"type"}) @@ FilledOrZero({"priority"}) @@ Optional({"content"})

DynamicSnippetCreate == Always(DOMAIN DynamicSnippetSchema)

\* PushConfiguredContent
DynamicSnippetUpdate == WhenSet({"content"}) @@ Always(DOMAIN DynamicSnippetSchema)

DynamicSnippetState == Kept({"content"}) @@ Plain(DOMAIN DynamicSnippetSchema)

DynamicSnippetSame == DOMAIN DynamicSnippetSchema

DynamicSnippetBlock ==
    [Block(DynamicSnippetSame, {"content"}, {}) EXCEPT !.blind = {"content"}]

DynamicSnippet ==
    OnlyBlock(Versioned(DynamicSnippetSchema, DynamicSnippetCreate, DynamicSnippetUpdate,
                        DynamicSnippetState, DynamicSnippetBlock))

DynamicVCLSnippet ==
    OnlyResource(Versioned(DynamicSnippetSchema, DynamicSnippetCreate,
                           DynamicSnippetUpdate, DynamicSnippetState, NoBlock))

\* settings: a service has always some; without a block they are the defaults.
SettingsSchema ==
       ZeroDefault({"default_host", "stale_if_error", "http3"})
    @@ FilledOrZero({"default_ttl", "stale_if_error_ttl"})

SettingsUpdate == Always(DOMAIN SettingsSchema)

SettingsState == Plain({"http3"}) @@ OrDefault(DOMAIN SettingsSchema)

SettingsSame == DOMAIN SettingsSchema

Settings ==
    OnlyBlock(Versioned(SettingsSchema, SettingsUpdate, SettingsUpdate, SettingsState,
                        Block(SettingsSame, {}, {})))

\* imageoptimizerdefaultsettings: likewise.
ImageOptimizerSchema ==
       ZeroDefault({"allow_video", "upscale", "webp"})
    @@ Filled({"jpeg_quality", "jpeg_type", "resize_filter", "webp_quality"})

ImageOptimizerUpdate == Always(DOMAIN ImageOptimizerSchema)

ImageOptimizerState == Plain(DOMAIN ImageOptimizerSchema)

ImageOptimizerSame == DOMAIN ImageOptimizerSchema

ImageOptimizer ==
    OnlyBlock(Versioned(ImageOptimizerSchema, ImageOptimizerUpdate, ImageOptimizerUpdate,
                        ImageOptimizerState, Block(ImageOptimizerSame, {}, {})))

ServiceKinds == [
    backend |-> Backend, healthcheck |-> Healthcheck, header |-> Header, gzip |-> Gzip,
    condition |-> Condition, cachesetting |-> CacheSetting,
    requestsetting |-> RequestSetting, responseobject |-> ResponseObject,
    snippet |-> Snippet, customvcl |-> CustomVCL, domain |-> Domain,
    domainblock |-> DomainBlock, resourcelink |-> ResourceLink, cdnacl |-> CDNACL,
    dictionary |-> Dictionary, director |-> Director, ratelimiter |-> RateLimiter,
    dynamicsnippet |-> DynamicSnippet, dynamicvclsnippet |-> DynamicVCLSnippet,
    settings |-> Settings,
    imageoptimizer |-> ImageOptimizer]
=============================================================================
