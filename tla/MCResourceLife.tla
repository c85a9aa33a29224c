--------------------------- MODULE MCResourceLife ---------------------------
EXTENDS ResourceLife, LogEndpoints, ServiceObjects, AccountObjects, WafObjects

\* Attributes that keep a value nobody wants any more.
Sticky ==
         {"ftp", "sftp", "syslog"} \X {"port"}
    \cup {"blobstorage", "cloudfiles", "digitalocean", "ftp", "gcs", "https", "openstack",
          "s3", "sftp"} \X {"period"}
    \cup {"sftp"} \X {"password", "secret_key"}
    \cup {<<"kinesis", "region">>, <<"s3", "server_side_encryption">>}
    \cup {"backend"} \X {"comment", "max_lifetime", "max_tls_version", "max_use",
          "min_tls_version", "override_host", "share_key", "ssl_ca_cert",
          "ssl_cert_hostname", "ssl_ciphers", "ssl_sni_hostname"}
    \cup {<<"ratelimiter", "logger_type">>,
          <<"domain", "comment">>, <<"domainmanagement", "description">>}

MCKinds == LogKinds @@ ServiceKinds @@ AccountKinds @@ WafKinds

\* As blocks: nothing recreates a healthcheck whose headers are cleared, and the content
\* "" of a dynamic snippet equals the one that is not read.
StickyBlock == {<<"healthcheck", "headers">>, <<"dynamicsnippet", "content">>}

UnitsFor(kind, name, places) == {UnitOf(kind, name, p) : p \in places}

UnitsOfKind(k, kind) ==
    UNION {UnitsFor(kind, a,
                    CASE <<k, a>> \in Sticky -> {}
                      [] <<k, a>> \in StickyBlock -> kind.places \ {"block"}
                      [] OTHER -> kind.places) : a \in DOMAIN kind.schema}

MCUnits == UNION {UnitsOfKind(k, MCKinds[k]) : k \in DOMAIN MCKinds}

MCLossy ==
    MCUnits \cap UNION {UnitsOfKind(k, MCKinds[k]) :
                        k \in {"director", "integration", "tlsmutualauthentication"}}
=============================================================================
