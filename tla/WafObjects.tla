----------------------------- MODULE WafObjects -----------------------------
(***************************************************************************)
(* The kinds of Next-Gen WAF objects: workspaces, rules, lists, signals,   *)
(* thresholds, redactions and alert integrations.  An object belongs to a  *)
(* workspace, which is part of its address and cannot be changed, or to    *)
(* the account; it is written in one call and read from its answer.  The   *)
(* id of another object, such as workspace_id, is never empty.             *)
(***************************************************************************)
EXTENDS Attributes

---------------------------------------------------------------------------
(* Rules.  The conditions, the actions and the rate limit go out as lists  *)
(* that replace the ones of before.                                        *)

CommonAttributes == Required({"enabled"}) @@ Filled({"group_operator"})

Conditions == {"condition", "group_condition", "multival_condition"}

ConditionBlocks == OptionalFilled(Conditions)

NewInput == Always({"enabled"}) @@ WhenSet({"group_operator"}) @@ Whole(Conditions)

FlattenCommon ==
    Plain({"enabled"}) @@ FilledOrNull({"group_operator"}) @@ OrNull(Conditions)

\* The fields of an action.
ActionBlock ==
       RequiredFilled({"type"})
    @@ Optional({"signal", "redirect_url", "response_code", "allow_interactive"})
    @@ OptionalFilled({"deception_type"})

ExpandActions == Whole(DOMAIN ActionBlock)

FlattenActions ==
    Plain({"type"}) @@ OrNull({"allow_interactive"}) @@ FilledOrNull(DOMAIN ActionBlock)

AccountActionBlock == RequiredFilled({"type"}) @@ Optional({"signal"})

ExpandAccountActions == Whole(DOMAIN AccountActionBlock)

FlattenAccountActions == Plain({"type"}) @@ FilledOrNull({"signal"})

SignalActionBlock == RequiredFilled({"signal"})

ExpandSignalActions == Whole({"signal"})

FlattenSignalActions == Plain({"signal"})

WorkspaceID == RequiredFilled({"workspace_id"})

AppliesTo == RequiredFilled({"applies_to"})

\* The scope names the rule's workspace when it is created and when it is changed.
Scope == Always({"workspace_id", "applies_to"})

FlattenScope == OrNull({"workspace_id"}) @@ Plain({"applies_to"})

Describing == Always({"description"})

Logging == WhenSet({"request_logging"})

\* ngwafrequestrule
RequestRuleSchema ==
       CommonAttributes @@ ConditionBlocks @@ AppliesTo @@ AccountActionBlock
    @@ RequiredFilled({"description"}) @@ Filled({"request_logging"})

RequestRuleInput == NewInput @@ Scope @@ Describing @@ Logging @@ ExpandAccountActions

RequestRuleState ==
       FlattenCommon @@ FlattenScope @@ FlattenAccountActions
    @@ Plain({"description", "request_logging"})

RequestRule ==
    Resource(RequestRuleSchema, RequestRuleInput, RequestRuleInput, RequestRuleState, {})

\* ngwafsignalrule
SignalRuleSchema ==
       CommonAttributes @@ ConditionBlocks @@ AppliesTo @@ SignalActionBlock
    @@ RequiredFilled({"description"})

SignalRuleInput == NewInput @@ Scope @@ Describing @@ ExpandSignalActions

SignalRuleState ==
    FlattenCommon @@ FlattenScope @@ FlattenSignalActions @@ Plain({"description"})

SignalRule == Resource(SignalRuleSchema, SignalRuleInput, SignalRuleInput, SignalRuleState, {})

\* ngwafworkspacerequestrule
WorkspaceRequestRuleSchema ==
       CommonAttributes @@ ConditionBlocks @@ WorkspaceID @@ ActionBlock
    @@ RequiredFilled({"description"}) @@ Filled({"request_logging"})

WorkspaceRequestRuleInput == NewInput @@ Scope @@ Describing @@ Logging @@ ExpandActions

WorkspaceRequestRuleState ==
    FlattenCommon @@ FlattenScope @@ FlattenActions @@ Plain({"description", "request_logging"})

WorkspaceRequestRule ==
    Resource(WorkspaceRequestRuleSchema, WorkspaceRequestRuleInput, WorkspaceRequestRuleInput,
             WorkspaceRequestRuleState, {"workspace_id"})

\* ngwafworkspacesignalrule
WorkspaceSignalRuleSchema ==
       CommonAttributes @@ ConditionBlocks @@ WorkspaceID @@ SignalActionBlock
    @@ RequiredFilled({"description"})

WorkspaceSignalRuleInput == NewInput @@ Scope @@ Describing @@ ExpandSignalActions

WorkspaceSignalRuleState ==
    FlattenCommon @@ FlattenScope @@ FlattenSignalActions @@ Plain({"description"})

WorkspaceSignalRule ==
    Resource(WorkspaceSignalRuleSchema, WorkspaceSignalRuleInput, WorkspaceSignalRuleInput,
             WorkspaceSignalRuleState, {"workspace_id"})

\* ngwafworkspaceratelimitrule: the signal of the rate limit, and the fields of a client
\* identifier.
Limits == {"duration", "interval", "limit_signal", "threshold"}

RateLimitRuleSchema ==
       CommonAttributes @@ ConditionBlocks @@ WorkspaceID @@ ActionBlock
    @@ RequiredFilled(Limits \cup {"description", "identifier_type"})
    @@ Optional({"key", "name", "identifier_signal"})

RateLimitRuleInput ==
       NewInput @@ Scope @@ Describing @@ ExpandActions
    @@ Always({"identifier_signal"})
    @@ Whole(Limits \cup {"identifier_type", "key", "name"})

RateLimitRuleState ==
       FlattenCommon @@ FlattenScope @@ FlattenActions
    @@ Plain(Limits \cup {"description", "identifier_type"})
    @@ FilledOrNull({"key", "name", "identifier_signal"})

RateLimitRule ==
    Resource(RateLimitRuleSchema, RateLimitRuleInput, RateLimitRuleInput, RateLimitRuleState,
             {"workspace_id"})

\* ngwafworkspacetemplatedsignalrule: the API has no update for it.
TemplatedRuleSchema ==
    CommonAttributes @@ ConditionBlocks @@ WorkspaceID @@ SignalActionBlock

TemplatedRuleInput == NewInput @@ Scope @@ ExpandSignalActions

TemplatedRuleState == FlattenCommon @@ FlattenScope @@ FlattenSignalActions

TemplatedRule ==
    Fixed(Resource(TemplatedRuleSchema, TemplatedRuleInput, Never(DOMAIN TemplatedRuleSchema),
                   TemplatedRuleState, DOMAIN TemplatedRuleSchema))

---------------------------------------------------------------------------
(* Lists and signals.                                                      *)

\* ngwaflist: of countries, addresses, signals, strings and wildcards.
ListSchema ==
    RequiredFilled({"name"}) @@ Chosen({"description"}) @@ Required({"entries"})

ListCreate == Always({"name", "entries"}) @@ WhenSet({"description"})

ListUpdate == Never({"name", "workspace_id"}) @@ ListCreate

ListState == Plain({"name", "entries", "description"})

AccountList == Resource(ListSchema, ListCreate, ListUpdate, ListState, {"name"})

WorkspaceList ==
    Resource(ListSchema @@ WorkspaceID, ListCreate @@ Scope, ListUpdate,
             ListState @@ Plain({"workspace_id"}), {"name", "workspace_id"})

\* ngwafsignal
SignalSchema == AppliesTo @@ RequiredFilled({"name"}) @@ ZeroDefault({"description"})

SignalCreate == Scope @@ Always({"name", "description"})

SignalUpdate == Never({"applies_to", "name"}) @@ Describing

SignalState == Plain({"applies_to", "name", "description"})

Signal == Resource(SignalSchema, SignalCreate, SignalUpdate, SignalState, {"applies_to", "name"})

\* ngwafworkspacesignal
WorkspaceSignalSchema ==
    WorkspaceID @@ RequiredFilled({"name"}) @@ ZeroDefault({"description"})

WorkspaceSignalCreate == Scope @@ Always({"name", "description"})

WorkspaceSignalUpdate == Never({"workspace_id", "name"}) @@ Describing

WorkspaceSignalState == Plain({"workspace_id", "name", "description"})

WorkspaceSignal ==
    Resource(WorkspaceSignalSchema, WorkspaceSignalCreate, WorkspaceSignalUpdate,
             WorkspaceSignalState, {"workspace_id", "name"})

---------------------------------------------------------------------------
(* Workspaces.                                                             *)

\* ngwafworkspace: the API does not clear the headers.
Thresholds == {"one_hour", "one_minute", "ten_minutes"}

WorkspaceSchema ==
       RequiredFilled({"name", "mode"})
    @@ Required({"description"})
    @@ OptionalFilled({"ip_anonymization"})
    @@ Filled({"default_blocking_response_code"} \cup Thresholds)
    @@ ZeroDefault({"default_redirect_url", "auto_enable_new_virtual_patches", "immediate"})
    @@ Chosen({"client_ip_headers"})

WorkspaceInput == WhenSet({"client_ip_headers"}) @@ Always(DOMAIN WorkspaceSchema)

WorkspaceState ==
       FilledOrNull({"ip_anonymization"})
    @@ OrNull({"client_ip_headers"})
    @@ OrDefault(Thresholds)
    @@ Plain(DOMAIN WorkspaceSchema)

Workspace == Resource(WorkspaceSchema, WorkspaceInput, WorkspaceInput, WorkspaceState, {})

\* ngwafworkspacethreshold
Counts == {"duration", "interval", "limit"}

ThresholdSchema ==
       WorkspaceID
    @@ RequiredFilled({"action", "name", "signal"})
    @@ Required({"dont_notify", "enabled"})
    @@ Filled(Counts)

ThresholdInput == Always(DOMAIN ThresholdSchema)

ThresholdState == OrDefault(Counts) @@ Plain(DOMAIN ThresholdSchema)

Threshold ==
    Resource(ThresholdSchema, ThresholdInput, ThresholdInput, ThresholdState, {"workspace_id"})

\* ngwafworkspaceredaction
RedactionSchema == WorkspaceID @@ RequiredFilled({"field", "type"})

RedactionInput == Always(DOMAIN RedactionSchema)

RedactionState == Plain(DOMAIN RedactionSchema)

Redaction ==
    Resource(RedactionSchema, RedactionInput, RedactionInput, RedactionState, {"workspace_id"})

---------------------------------------------------------------------------
(* ngwafalertintegration: one of eight types, each with a configuration of *)
(* its own.  A description cannot be changed.                              *)

DatadogConfig == RequiredFilled({"site", "key"})

JiraConfig ==
    RequiredFilled({"host", "username", "project", "key"}) @@ FilledOrZero({"issue_type"})

MailingListConfig == RequiredFilled({"address"})

MicrosoftTeamsConfig == RequiredFilled({"webhook"})

OpsgenieConfig == RequiredFilled({"key"})

PagerdutyConfig == RequiredFilled({"key"})

SlackConfig == RequiredFilled({"webhook"})

WebhookConfig == RequiredFilled({"webhook"})

IntegrationAttributes(config) == WorkspaceID @@ ZeroDefault({"description"}) @@ config

IntegrationUpdate(config) == Never({"workspace_id", "description"}) @@ Always(DOMAIN config)

IntegrationCreate(config) == Always({"workspace_id", "description"} \cup DOMAIN config)

FlattenIntegration(config) == Plain({"workspace_id", "description"} \cup DOMAIN config)

AlertIntegration(config) ==
    Resource(IntegrationAttributes(config), IntegrationCreate(config), IntegrationUpdate(config),
             FlattenIntegration(config), {"workspace_id", "description"})

---------------------------------------------------------------------------

WafKinds == [
    ngwafrequestrule |-> RequestRule, ngwafsignalrule |-> SignalRule,
    ngwafworkspacerequestrule |-> WorkspaceRequestRule,
    ngwafworkspacesignalrule |-> WorkspaceSignalRule,
    ngwafworkspaceratelimitrule |-> RateLimitRule,
    ngwafworkspacetemplatedsignalrule |-> TemplatedRule,
    ngwaflist |-> AccountList, ngwafworkspacelist |-> WorkspaceList,
    ngwafsignal |-> Signal, ngwafworkspacesignal |-> WorkspaceSignal,
    ngwafworkspace |-> Workspace, ngwafworkspacethreshold |-> Threshold,
    ngwafworkspaceredaction |-> Redaction,
    datadogalert |-> AlertIntegration(DatadogConfig),
    jiraalert |-> AlertIntegration(JiraConfig),
    mailinglistalert |-> AlertIntegration(MailingListConfig),
    microsoftteamsalert |-> AlertIntegration(MicrosoftTeamsConfig),
    opsgeniealert |-> AlertIntegration(OpsgenieConfig),
    pagerdutyalert |-> AlertIntegration(PagerdutyConfig),
    slackalert |-> AlertIntegration(SlackConfig),
    webhookalert |-> AlertIntegration(WebhookConfig)]
=============================================================================
