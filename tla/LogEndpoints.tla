---------------------------- MODULE LogEndpoints ----------------------------
(***************************************************************************)
(* The kinds of logging endpoints.  All have the same handlers, and exist  *)
(* as a resource of their own and as a block of both automatic services.   *)
(* What differs is which attributes they have, and how each is declared,   *)
(* sent and read.                                                          *)
(*                                                                         *)
(* A default taken from the environment is a ZeroDefault: it is "" unless  *)
(* the variable is set, and may be set to "".                              *)
(***************************************************************************)
EXTENDS Attributes

\* What matters to VCL only.
VCLOnlySchema ==
       Filled({"format", "format_version"})
    @@ OptionalFilled({"placement"})
    @@ ZeroDefault({"response_condition"})

VCLOnlyCreate == NonZero(DOMAIN VCLOnlySchema)

VCLOnlyUpdate ==
       NonZero({"format", "format_version"})
    @@ Clearing({"placement"})
    @@ Always({"response_condition"})

VCLOnlyState ==
    OrNull({"placement"}) @@ OrDefault(DOMAIN VCLOnlySchema)

Endpoint(schema, create, update, state, block) ==
    [Resource(schema @@ VCLOnlySchema, create @@ VCLOnlyCreate, update @@ VCLOnlyUpdate,
              state @@ VCLOnlyState, {})
        EXCEPT !.block = [block EXCEPT !.same = @ \cup DOMAIN VCLOnlySchema],
               !.vclOnly = DOMAIN VCLOnlySchema,
               !.named = TRUE,
               !.places = {"resource", "computeResource", "block", "computeBlock"}]

---------------------------------------------------------------------------
\* loggingbigquery
BigQuerySchema ==
       Required({"project_id", "dataset", "table"})
    @@ ZeroDefault({"account_name", "email", "secret_key", "template"})
    @@ Filled({"processing_region"})

BigQueryCreate ==
       Always({"project_id", "dataset", "table"})
    @@ NonZero(DOMAIN BigQuerySchema)

BigQueryUpdate ==
       NonZero({"account_name", "processing_region"})
    @@ Always(DOMAIN BigQuerySchema)

BigQueryState ==
       Plain({"project_id", "dataset", "table"})
    @@ OrDefault(DOMAIN BigQuerySchema)

BigQuerySame == DOMAIN BigQuerySchema

BigQueryBlock == Block(BigQuerySame, {}, {"account_name"})

BigQuery ==
    Endpoint(BigQuerySchema, BigQueryCreate, BigQueryUpdate,
             BigQueryState, BigQueryBlock)

\* loggingblobstorage
BlobStorageSchema ==
       Required({"container"})
    @@ ZeroDefault({"account_name", "sas_token", "compression_codec",
                     "file_max_bytes", "path", "public_key"})
    @@ Filled({"message_type", "processing_region", "timestamp_format"})
    @@ FilledOrZero({"period"})
    @@ Sentinel({"gzip_level"})

BlobStorageCreate ==
       Explicit({"gzip_level"})
    @@ Always({"container", "path"})
    @@ NonZero(DOMAIN BlobStorageSchema)

BlobStorageUpdate ==
       Explicit({"gzip_level"})
    @@ NonZero({"message_type", "period", "processing_region", "timestamp_format"})
    @@ Always(DOMAIN BlobStorageSchema)

BlobStorageState ==
       OrUnset({"gzip_level"})
    @@ Plain({"container"})
    @@ OrDefault(DOMAIN BlobStorageSchema)

BlobStorageSame == DOMAIN BlobStorageSchema

BlobStorageBlock == Block(BlobStorageSame, {"gzip_level"}, {})

BlobStorage ==
    Endpoint(BlobStorageSchema, BlobStorageCreate, BlobStorageUpdate,
             BlobStorageState, BlobStorageBlock)

\* loggingcloudfiles
CloudFilesSchema ==
       Required({"bucket_name", "access_key", "user"})
    @@ ZeroDefault({"compression_codec", "path", "public_key", "region"})
    @@ Filled({"message_type", "processing_region", "timestamp_format"})
    @@ FilledOrZero({"period"})
    @@ Sentinel({"gzip_level"})

CloudFilesCreate ==
       Explicit({"gzip_level"})
    @@ Always({"bucket_name", "access_key", "user", "path"})
    @@ NonZero(DOMAIN CloudFilesSchema)

CloudFilesUpdate ==
       Explicit({"gzip_level"})
    @@ NonZero({"message_type", "period", "processing_region", "timestamp_format"})
    @@ Always(DOMAIN CloudFilesSchema)

CloudFilesState ==
       OrUnset({"gzip_level"})
    @@ Plain({"bucket_name", "access_key", "user"})
    @@ OrDefault(DOMAIN CloudFilesSchema)

CloudFilesSame == DOMAIN CloudFilesSchema

CloudFilesBlock == Block(CloudFilesSame, {"gzip_level"}, {})

CloudFiles ==
    Endpoint(CloudFilesSchema, CloudFilesCreate, CloudFilesUpdate,
             CloudFilesState, CloudFilesBlock)

\* loggingdatadog
DatadogSchema == Required({"token"}) @@ Filled({"processing_region", "region"})

DatadogCreate == Always({"token"}) @@ NonZero(DOMAIN DatadogSchema)

DatadogUpdate == Always({"token"}) @@ NonZero(DOMAIN DatadogSchema)

DatadogState == Plain({"token"}) @@ OrDefault(DOMAIN DatadogSchema)

DatadogSame == DOMAIN DatadogSchema

DatadogBlock == Block(DatadogSame, {}, {})

Datadog ==
    Endpoint(DatadogSchema, DatadogCreate, DatadogUpdate, DatadogState, DatadogBlock)

\* loggingdigitalocean
DigitalOceanSchema ==
       Required({"bucket_name", "access_key", "secret_key"})
    @@ ZeroDefault({"compression_codec", "path", "public_key"})
    @@ Filled({"domain", "message_type", "processing_region", "timestamp_format"})
    @@ FilledOrZero({"period"})
    @@ Sentinel({"gzip_level"})

DigitalOceanCreate ==
       Explicit({"gzip_level"})
    @@ Always({"bucket_name", "access_key", "secret_key", "path"})
    @@ NonZero(DOMAIN DigitalOceanSchema)

DigitalOceanUpdate ==
       Explicit({"gzip_level"})
    @@ NonZero({"domain", "message_type", "period", "processing_region",
                 "timestamp_format"})
    @@ Always(DOMAIN DigitalOceanSchema)

DigitalOceanState ==
       OrUnset({"gzip_level"})
    @@ Plain({"bucket_name", "access_key", "secret_key"})
    @@ OrDefault(DOMAIN DigitalOceanSchema)

DigitalOceanSame == DOMAIN DigitalOceanSchema

DigitalOceanBlock == Block(DigitalOceanSame, {"gzip_level"}, {})

DigitalOcean ==
    Endpoint(DigitalOceanSchema, DigitalOceanCreate, DigitalOceanUpdate,
             DigitalOceanState, DigitalOceanBlock)

\* loggingelasticsearch
ElasticsearchSchema ==
       Required({"index"})
    @@ RequiredFilled({"url"})
    @@ ZeroDefault({"user", "password", "ca_cert", "client_cert",
                     "client_key", "hostname", "pipeline", "request_max_bytes",
                     "request_max_entries"})
    @@ Filled({"processing_region"})

ElasticsearchCreate == Always({"index", "url"}) @@ NonZero(DOMAIN ElasticsearchSchema)

ElasticsearchUpdate ==
       NonZero({"processing_region"})
    @@ Always(DOMAIN ElasticsearchSchema)

ElasticsearchState == Plain({"index", "url"}) @@ OrDefault(DOMAIN ElasticsearchSchema)

ElasticsearchSame == DOMAIN ElasticsearchSchema

ElasticsearchBlock == Block(ElasticsearchSame, {}, {})

Elasticsearch ==
    Endpoint(ElasticsearchSchema, ElasticsearchCreate, ElasticsearchUpdate,
             ElasticsearchState, ElasticsearchBlock)

\* loggingftp
FTPSchema ==
       Required({"address", "user", "password", "path"})
    @@ ZeroDefault({"public_key", "compression_codec"})
    @@ Filled({"message_type", "timestamp_format", "processing_region"})
    @@ FilledOrZero({"port", "period"})
    @@ Sentinel({"gzip_level"})

FTPCreate ==
       Explicit({"gzip_level"})
    @@ Always({"address", "user", "password", "path"})
    @@ NonZero(DOMAIN FTPSchema)

FTPUpdate ==
       Explicit({"gzip_level"})
    @@ NonZero({"port", "period", "message_type", "timestamp_format",
                 "processing_region"})
    @@ Always(DOMAIN FTPSchema)

FTPState ==
       OrUnset({"gzip_level"})
    @@ Plain({"address", "user", "password", "path"})
    @@ OrDefault(DOMAIN FTPSchema)

FTPSame == DOMAIN FTPSchema

FTPBlock == Block(FTPSame, {"gzip_level"}, {})

FTP == Endpoint(FTPSchema, FTPCreate, FTPUpdate, FTPState, FTPBlock)

\* logginggcs
GCSSchema ==
       Required({"bucket_name"})
    @@ ZeroDefault({"account_name", "email", "secret_key",
                     "project_id", "compression_codec", "path", "public_key"})
    @@ Filled({"message_type", "processing_region", "timestamp_format"})
    @@ FilledOrZero({"period"})
    @@ Sentinel({"gzip_level"})

GCSCreate ==
       Explicit({"gzip_level"})
    @@ Always({"bucket_name", "path"})
    @@ NonZero(DOMAIN GCSSchema)

GCSUpdate ==
       Explicit({"gzip_level"})
    @@ NonZero({"account_name", "message_type", "period",
                 "processing_region", "timestamp_format"})
    @@ Always(DOMAIN GCSSchema)

GCSState ==
       OrUnset({"gzip_level"})
    @@ Plain({"bucket_name"})
    @@ OrDefault(DOMAIN GCSSchema)

GCSSame == DOMAIN GCSSchema

GCSBlock == Block(GCSSame, {"gzip_level"}, {"account_name"})

GCS == Endpoint(GCSSchema, GCSCreate, GCSUpdate, GCSState, GCSBlock)

\* logginggooglepubsub
PubSubSchema ==
       Required({"project_id", "topic"})
    @@ ZeroDefault({"account_name", "email", "secret_key"})
    @@ Filled({"processing_region"})

PubSubCreate == Always({"project_id", "topic"}) @@ NonZero(DOMAIN PubSubSchema)

PubSubUpdate ==
       NonZero({"account_name", "processing_region"})
    @@ Always(DOMAIN PubSubSchema)

PubSubState == Plain({"project_id", "topic"}) @@ OrDefault(DOMAIN PubSubSchema)

PubSubSame == DOMAIN PubSubSchema

PubSubBlock == Block(PubSubSame, {}, {"account_name"})

PubSub == Endpoint(PubSubSchema, PubSubCreate, PubSubUpdate, PubSubState, PubSubBlock)

\* logginggrafanacloudlogs
GrafanaCloudLogsSchema ==
       Required({"url", "user", "index", "token"})
    @@ Filled({"processing_region"})

GrafanaCloudLogsCreate ==
       NonZero({"processing_region"})
    @@ Always(DOMAIN GrafanaCloudLogsSchema)

GrafanaCloudLogsUpdate ==
       NonZero({"processing_region"})
    @@ Always(DOMAIN GrafanaCloudLogsSchema)

GrafanaCloudLogsState ==
       Plain({"url", "user", "index", "token"})
    @@ OrDefault(DOMAIN GrafanaCloudLogsSchema)

GrafanaCloudLogsSame == DOMAIN GrafanaCloudLogsSchema

GrafanaCloudLogsBlock == Block(GrafanaCloudLogsSame, {}, {})

GrafanaCloudLogs ==
    Endpoint(GrafanaCloudLogsSchema, GrafanaCloudLogsCreate, GrafanaCloudLogsUpdate,
             GrafanaCloudLogsState, GrafanaCloudLogsBlock)

\* loggingheroku
HerokuSchema == Required({"url", "token"}) @@ Filled({"processing_region"})

HerokuCreate == NonZero({"processing_region"}) @@ Always(DOMAIN HerokuSchema)

HerokuUpdate == NonZero({"processing_region"}) @@ Always(DOMAIN HerokuSchema)

HerokuState == Plain({"url", "token"}) @@ OrDefault(DOMAIN HerokuSchema)

HerokuSame == DOMAIN HerokuSchema

HerokuBlock == Block(HerokuSame, {}, {})

Heroku == Endpoint(HerokuSchema, HerokuCreate, HerokuUpdate, HerokuState, HerokuBlock)

\* logginghoneycomb
HoneycombSchema == Required({"dataset", "token"}) @@ Filled({"processing_region"})

HoneycombCreate == NonZero({"processing_region"}) @@ Always(DOMAIN HoneycombSchema)

HoneycombUpdate == NonZero({"processing_region"}) @@ Always(DOMAIN HoneycombSchema)

HoneycombState == Plain({"dataset", "token"}) @@ OrDefault(DOMAIN HoneycombSchema)

HoneycombSame == DOMAIN HoneycombSchema

HoneycombBlock == Block(HoneycombSame, {}, {})

Honeycomb ==
    Endpoint(HoneycombSchema, HoneycombCreate, HoneycombUpdate,
             HoneycombState, HoneycombBlock)

\* logginghttps
HTTPSSchema ==
       RequiredFilled({"url"})
    @@ ZeroDefault({"compression_codec", "content_type",
                     "header_name", "header_value", "request_max_bytes",
                     "request_max_entries", "ca_cert", "client_cert", "client_key",
                     "hostname"})
    @@ Filled({"json_format", "message_type", "method", "processing_region"})
    @@ FilledOrZero({"period"})
    @@ Sentinel({"gzip_level"})

HTTPSCreate ==
       Explicit({"gzip_level"})
    @@ Always({"url"})
    @@ NonZero(DOMAIN HTTPSSchema)

HTTPSUpdate ==
       Explicit({"gzip_level"})
    @@ NonZero({"json_format", "message_type", "method", "period",
                 "processing_region"})
    @@ Always(DOMAIN HTTPSSchema)

HTTPSState == OrUnset({"gzip_level"}) @@ Plain({"url"}) @@ OrDefault(DOMAIN HTTPSSchema)

HTTPSSame == DOMAIN HTTPSSchema

HTTPSBlock == Block(HTTPSSame, {"gzip_level"}, {})

HTTPS == Endpoint(HTTPSSchema, HTTPSCreate, HTTPSUpdate, HTTPSState, HTTPSBlock)

\* loggingkafka
KafkaSchema ==
       Required({"brokers", "topic"})
    @@ ZeroDefault({"compression_codec", "request_max_bytes",
                     "parse_log_keyvals", "auth_method", "user", "password",
                     "ca_cert", "client_cert", "client_key", "hostname", "use_tls"})
    @@ Filled({"required_acks", "processing_region"})

KafkaCreate ==
       Always({"brokers", "topic", "parse_log_keyvals", "use_tls"})
    @@ NonZero(DOMAIN KafkaSchema)

KafkaUpdate ==
       NonZero({"required_acks", "processing_region"})
    @@ Always(DOMAIN KafkaSchema)

KafkaState == Plain({"brokers", "topic"}) @@ OrDefault(DOMAIN KafkaSchema)

KafkaSame == DOMAIN KafkaSchema

KafkaBlock == Block(KafkaSame, {}, {})

Kafka == Endpoint(KafkaSchema, KafkaCreate, KafkaUpdate, KafkaState, KafkaBlock)

\* loggingkinesis
KinesisSchema ==
       Required({"topic"})
    @@ ZeroDefault({"access_key", "iam_role", "secret_key"})
    @@ Filled({"processing_region"})
    @@ FilledOrZero({"region"})

KinesisCreate == Always({"topic"}) @@ NonZero(DOMAIN KinesisSchema)

KinesisUpdate ==
       NonZero({"processing_region", "region"})
    @@ Always(DOMAIN KinesisSchema)

KinesisState == Plain({"topic"}) @@ OrDefault(DOMAIN KinesisSchema)

KinesisSame == DOMAIN KinesisSchema

KinesisBlock == Block(KinesisSame, {}, {})

Kinesis ==
    Endpoint(KinesisSchema, KinesisCreate, KinesisUpdate, KinesisState, KinesisBlock)

\* loggingloggly
LogglySchema == Required({"token"}) @@ Filled({"processing_region"})

LogglyCreate == Always({"token"}) @@ NonZero(DOMAIN LogglySchema)

LogglyUpdate == Always({"token"}) @@ NonZero(DOMAIN LogglySchema)

LogglyState == Plain({"token"}) @@ OrDefault(DOMAIN LogglySchema)

LogglySame == DOMAIN LogglySchema

LogglyBlock == Block(LogglySame, {}, {})

Loggly == Endpoint(LogglySchema, LogglyCreate, LogglyUpdate, LogglyState, LogglyBlock)

\* logginglogshuttle
LogShuttleSchema == Required({"url", "token"}) @@ Filled({"processing_region"})

LogShuttleCreate == NonZero({"processing_region"}) @@ Always(DOMAIN LogShuttleSchema)

LogShuttleUpdate == NonZero({"processing_region"}) @@ Always(DOMAIN LogShuttleSchema)

LogShuttleState == Plain({"url", "token"}) @@ OrDefault(DOMAIN LogShuttleSchema)

LogShuttleSame == DOMAIN LogShuttleSchema

LogShuttleBlock == Block(LogShuttleSame, {}, {})

LogShuttle ==
    Endpoint(LogShuttleSchema, LogShuttleCreate, LogShuttleUpdate,
             LogShuttleState, LogShuttleBlock)

\* loggingnewrelic
NewRelicSchema == Required({"token"}) @@ Filled({"processing_region", "region"})

NewRelicCreate == Always({"token"}) @@ NonZero(DOMAIN NewRelicSchema)

NewRelicUpdate == Always({"token"}) @@ NonZero(DOMAIN NewRelicSchema)

NewRelicState == Plain({"token"}) @@ OrDefault(DOMAIN NewRelicSchema)

NewRelicSame == DOMAIN NewRelicSchema

NewRelicBlock == Block(NewRelicSame, {}, {})

NewRelic ==
    Endpoint(NewRelicSchema, NewRelicCreate, NewRelicUpdate,
             NewRelicState, NewRelicBlock)

\* loggingnewrelicotlp
NewRelicOTLPSchema ==
       Required({"token"})
    @@ ZeroDefault({"url"})
    @@ Filled({"processing_region", "region"})

NewRelicOTLPCreate == Always({"token"}) @@ NonZero(DOMAIN NewRelicOTLPSchema)

NewRelicOTLPUpdate == Always({"token", "url"}) @@ NonZero(DOMAIN NewRelicOTLPSchema)

NewRelicOTLPState == Plain({"token"}) @@ OrDefault(DOMAIN NewRelicOTLPSchema)

NewRelicOTLPSame == DOMAIN NewRelicOTLPSchema

NewRelicOTLPBlock == Block(NewRelicOTLPSame, {}, {})

NewRelicOTLP ==
    Endpoint(NewRelicOTLPSchema, NewRelicOTLPCreate, NewRelicOTLPUpdate,
             NewRelicOTLPState, NewRelicOTLPBlock)

\* loggingopenstack
OpenStackSchema ==
       Required({"bucket_name", "url", "access_key", "user"})
    @@ ZeroDefault({"compression_codec", "path", "public_key"})
    @@ Filled({"message_type", "processing_region", "timestamp_format"})
    @@ FilledOrZero({"period"})
    @@ Sentinel({"gzip_level"})

OpenStackCreate ==
       Explicit({"gzip_level"})
    @@ Always({"bucket_name", "url", "access_key", "user", "path"})
    @@ NonZero(DOMAIN OpenStackSchema)

OpenStackUpdate ==
       Explicit({"gzip_level"})
    @@ NonZero({"message_type", "period", "processing_region", "timestamp_format"})
    @@ Always(DOMAIN OpenStackSchema)

OpenStackState ==
       OrUnset({"gzip_level"})
    @@ Plain({"bucket_name", "url", "access_key", "user"})
    @@ OrDefault(DOMAIN OpenStackSchema)

OpenStackSame == DOMAIN OpenStackSchema

OpenStackBlock == Block(OpenStackSame, {"gzip_level"}, {})

OpenStack ==
    Endpoint(OpenStackSchema, OpenStackCreate, OpenStackUpdate,
             OpenStackState, OpenStackBlock)

\* loggingpapertrail
PapertrailSchema ==
       Required({"address"})
    @@ RequiredFilled({"port"})
    @@ Filled({"processing_region"})

PapertrailCreate == NonZero({"processing_region"}) @@ Always(DOMAIN PapertrailSchema)

PapertrailUpdate == NonZero({"processing_region"}) @@ Always(DOMAIN PapertrailSchema)

PapertrailState ==
       OrNull({"port"})
    @@ Plain({"address"})
    @@ OrDefault(DOMAIN PapertrailSchema)

PapertrailSame == DOMAIN PapertrailSchema

PapertrailBlock == Block(PapertrailSame, {}, {})

Papertrail ==
    Endpoint(PapertrailSchema, PapertrailCreate, PapertrailUpdate,
             PapertrailState, PapertrailBlock)

\* loggings3
S3Schema ==
       Required({"bucket_name"})
    @@ ZeroDefault({"acl", "access_key", "iam_role", "secret_key",
                     "compression_codec", "file_max_bytes", "path", "public_key",
                     "redundancy", "server_side_encryption",
                     "server_side_encryption_kms_key_id"})
    @@ Filled({"domain", "message_type", "processing_region", "timestamp_format"})
    @@ FilledOrZero({"period"})
    @@ Sentinel({"gzip_level"})

S3Create ==
       Explicit({"gzip_level"})
    @@ Always({"bucket_name", "path"})
    @@ NonZero(DOMAIN S3Schema)

S3Update ==
       Explicit({"gzip_level"})
    @@ NonZero({"domain", "message_type", "period", "processing_region",
                 "server_side_encryption", "timestamp_format"})
    @@ Always(DOMAIN S3Schema)

S3State ==
       OrUnset({"gzip_level"})
    @@ Plain({"bucket_name"})
    @@ OrDefault(DOMAIN S3Schema)

S3Same == DOMAIN S3Schema

S3Block == Block(S3Same, {"gzip_level"}, {})

S3 == Endpoint(S3Schema, S3Create, S3Update, S3State, S3Block)

\* loggingscalyr
ScalyrSchema ==
       Required({"token"})
    @@ Filled({"project_id", "region", "processing_region"})

ScalyrCreate == Always({"token"}) @@ NonZero(DOMAIN ScalyrSchema)

ScalyrUpdate == Always({"token"}) @@ NonZero(DOMAIN ScalyrSchema)

ScalyrState == Plain({"token"}) @@ OrDefault(DOMAIN ScalyrSchema)

ScalyrSame == DOMAIN ScalyrSchema

ScalyrBlock == Block(ScalyrSame, {}, {})

Scalyr == Endpoint(ScalyrSchema, ScalyrCreate, ScalyrUpdate, ScalyrState, ScalyrBlock)

\* loggingsftp
SFTPSchema ==
       Required({"address", "user", "path", "ssh_known_hosts"})
    @@ Optional({"password", "secret_key"})
    @@ ZeroDefault({"public_key", "compression_codec"})
    @@ Filled({"message_type", "timestamp_format", "processing_region"})
    @@ FilledOrZero({"port", "period"})
    @@ Sentinel({"gzip_level"})

SFTPCreate ==
       Explicit({"gzip_level"})
    @@ Always({"address", "user", "path", "ssh_known_hosts"})
    @@ NonZero(DOMAIN SFTPSchema)

SFTPUpdate ==
       Explicit({"gzip_level"})
    @@ Always({"address", "user", "path", "ssh_known_hosts", "public_key",
                "compression_codec"})
    @@ NonZero(DOMAIN SFTPSchema)

SFTPState ==
       OrUnset({"gzip_level"})
    @@ FilledOrNull({"password", "secret_key"})
    @@ Plain({"address", "user", "path", "ssh_known_hosts"})
    @@ OrDefault(DOMAIN SFTPSchema)

SFTPSame == DOMAIN SFTPSchema

SFTPBlock == Block(SFTPSame, {"gzip_level"}, {})

SFTP == Endpoint(SFTPSchema, SFTPCreate, SFTPUpdate, SFTPState, SFTPBlock)

\* loggingsplunk
SplunkSchema ==
       Required({"url"})
    @@ ZeroDefault({"token", "ca_cert", "client_cert", "client_key",
                     "hostname", "use_tls", "request_max_bytes",
                     "request_max_entries"})
    @@ Filled({"processing_region"})

SplunkCreate == Always({"url", "token", "use_tls"}) @@ NonZero(DOMAIN SplunkSchema)

SplunkUpdate == NonZero({"processing_region"}) @@ Always(DOMAIN SplunkSchema)

SplunkState == Plain({"url"}) @@ OrDefault(DOMAIN SplunkSchema)

SplunkSame == DOMAIN SplunkSchema

SplunkBlock == Block(SplunkSame, {}, {})

Splunk == Endpoint(SplunkSchema, SplunkCreate, SplunkUpdate, SplunkState, SplunkBlock)

\* loggingsumologic
SumoLogicSchema ==
       RequiredFilled({"url"})
    @@ Filled({"message_type", "processing_region"})

SumoLogicCreate == Always({"url"}) @@ NonZero(DOMAIN SumoLogicSchema)

SumoLogicUpdate == Always({"url"}) @@ NonZero(DOMAIN SumoLogicSchema)

SumoLogicState == Plain({"url"}) @@ OrDefault(DOMAIN SumoLogicSchema)

SumoLogicSame == DOMAIN SumoLogicSchema

SumoLogicBlock == Block(SumoLogicSame, {}, {})

SumoLogic ==
    Endpoint(SumoLogicSchema, SumoLogicCreate, SumoLogicUpdate,
             SumoLogicState, SumoLogicBlock)

\* loggingsyslog
SyslogSchema ==
       Required({"address"})
    @@ ZeroDefault({"token", "ca_cert", "client_cert", "client_key",
                     "hostname", "use_tls"})
    @@ Filled({"message_type", "processing_region"})
    @@ FilledOrZero({"port"})

SyslogCreate == Always({"address", "use_tls"}) @@ NonZero(DOMAIN SyslogSchema)

SyslogUpdate ==
       NonZero({"port", "message_type", "processing_region"})
    @@ Always(DOMAIN SyslogSchema)

SyslogState == Plain({"address"}) @@ OrDefault(DOMAIN SyslogSchema)

SyslogSame == DOMAIN SyslogSchema

SyslogBlock == Block(SyslogSame, {}, {})

Syslog == Endpoint(SyslogSchema, SyslogCreate, SyslogUpdate, SyslogState, SyslogBlock)

---------------------------------------------------------------------------
LogKinds ==
    [bigquery |-> BigQuery, blobstorage |-> BlobStorage, cloudfiles |-> CloudFiles,
     datadog |-> Datadog, digitalocean |-> DigitalOcean, elasticsearch |->
     Elasticsearch, ftp |-> FTP, gcs |-> GCS, googlepubsub |-> PubSub,
     grafanacloudlogs |-> GrafanaCloudLogs, heroku |-> Heroku, honeycomb |->
     Honeycomb, https |-> HTTPS, kafka |-> Kafka, kinesis |-> Kinesis, loggly |->
     Loggly, logshuttle |-> LogShuttle, newrelic |-> NewRelic, newrelicotlp |->
     NewRelicOTLP, openstack |-> OpenStack, papertrail |-> Papertrail, s3 |-> S3,
     scalyr |-> Scalyr, sftp |-> SFTP, splunk |-> Splunk, sumologic |-> SumoLogic,
     syslog |-> Syslog]
=============================================================================
