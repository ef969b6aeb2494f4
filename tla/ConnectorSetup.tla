--------------------------- MODULE ConnectorSetup ---------------------------
(***************************************************************************)
(* How a PostgreSQL, MySQL or SQL Server connector comes to a connection:  *)
(* the configuration and its validation, the transport and the credential, *)
(* connect() with its server-side prerequisites, the heartbeat, close()    *)
(* and Drop, while the server restarts, fails over, rotates credentials,   *)
(* changes its settings and loses a replication slot.                      *)
(*                                                                         *)
(* A session belongs to the epoch of the server in which it was opened and *)
(* dies with it.                                                           *)
(***************************************************************************)
EXTENDS Integers, Sequences, FiniteSetsExt

CONSTANTS
    Setups,                        \* the connectors, configurations and servers explored
    Callers,                       \* the tasks that share a connection
    MAX_CONN_TIMEOUT_SECS, MAX_STREAM_POLL_INTERVAL_MS, MAX_MAX_EVENTS_PER_POLL, MAX_PREREQ_POOL_SIZE,
    MaxConnects, MaxChanges, MaxWrites \* bounds: connect calls, server-side changes, log entries

VARIABLES
    setup,     \* [connector, config, server, changes, overlap]
    server,    \* what the server is and holds
    state,     \* ConnectionState
    calls,     \* the suspended connect of each caller, or Idle
    returned,  \* the last result of each caller
    tasks,     \* heartbeats that run: [id, pool, session]
    stream,    \* whether a change stream is open
    durable,   \* the checkpoint: a log position, or None
    denied,    \* a connection was refused for a credential that has expired
    connects, changes

vars == <<setup, server, state, calls, returned, tasks, stream, durable, denied, connects, changes>>

config == setup.config
connector == setup.connector

(***************************************************************************)
(* The configuration as a caller builds it: transport, secrets, the        *)
(* defaults of the three connectors and the builders.  A credential is a   *)
(* version number, 0 for a blank one; a name is only blank or not.         *)
(***************************************************************************)
None == -1

(* TransportConfig.  A CA path is absent, blank, names no file, a file     *)
(* without certificates, or a bundle.                                      *)
Tls(ca, identity, invalid_certificates, invalid_hostnames) ==
    [mode |-> "Tls", ca_cert_path |-> ca, client_cert_path |-> identity, client_key_path |-> identity,
     allow_invalid_certificates |-> invalid_certificates, allow_invalid_hostnames |-> invalid_hostnames]

tls == Tls("absent", FALSE, FALSE, FALSE)
tls_with_ca_cert_path(ca) == Tls(ca, FALSE, FALSE, FALSE)
mtls(ca) == Tls(ca, TRUE, FALSE, FALSE)
tls_insecure_skip_verify == Tls("absent", FALSE, TRUE, TRUE)
plaintext == [tls EXCEPT !.mode = "Plaintext"]
rustls_config == [tls EXCEPT !.mode = "RustlsConfig"]

is_tls(transport) == transport.mode \in {"Tls", "RustlsConfig"}
is_mtls(transport) == transport.mode = "Tls" /\ transport.client_cert_path /\ transport.client_key_path
allow_invalid_certificates(transport) == transport.mode = "Tls" /\ transport.allow_invalid_certificates
allow_invalid_hostnames(transport) == transport.mode = "Tls" /\ transport.allow_invalid_hostnames

(* SecretString: the value itself, or a provider or callback that is asked *)
(* again each time and may fail.                                           *)
Inline(value) == [form |-> "Inline", value |-> value, fails |-> FALSE]
from_provider == [form |-> "Provider", value |-> 0, fails |-> FALSE]
from_callback == [form |-> "Callback", value |-> 0, fails |-> FALSE]
is_deferred(secret) == secret.form \in {"Provider", "Callback"}
expose_secret(secret) == IF is_deferred(secret) THEN None ELSE secret.value

-----------------------------------------------------------------------------
(* The configurations before a caller fills them in.                       *)
PostgresDefault ==
    [blank |-> {"user", "database", "replication_slot_name", "publication_name"}, port |-> 5432,
     password |-> Inline(0), auth_mode |-> "Password", transport |-> tls, conn_timeout_secs |-> 1,
     stream_poll_interval_ms |-> 1, max_events_per_poll |-> 1,
     create_replication_slot_if_missing |-> FALSE, failover_slot |-> FALSE,
     wal_transport |-> "StreamingReplication"]
MysqlDefault ==
    [blank |-> {"user", "database"}, port |-> 3306, password |-> Inline(0), auth_mode |-> "Password",
     transport |-> tls, conn_timeout_secs |-> 1, stream_poll_interval_ms |-> 1, max_events_per_poll |-> 1,
     server_id |-> 0, gtid_mode_enabled |-> FALSE, binlog_format_check |-> TRUE]
SqlServerDefault ==
    [blank |-> {"user", "database"}, port |-> 1433, password |-> Inline(0), auth_mode |-> "Password",
     transport |-> tls, conn_timeout_secs |-> 1, stream_poll_interval_ms |-> 1, max_events_per_poll |-> 1,
     cdc_enabled |-> TRUE, safe_cdc_schema |-> TRUE, prereq_pool_size |-> 1,
     capture_truncate_events |-> FALSE]

with_aws_iam_auth(c) == [c EXCEPT !.auth_mode = "AwsIamToken"]
with_plaintext_transport(c) == [c EXCEPT !.transport = plaintext]

-----------------------------------------------------------------------------
(* A deferred secret is asked for the credential of the moment.            *)
resolve(secret) ==
    IF ~is_deferred(secret) THEN secret.value ELSE IF secret.fails THEN None ELSE server.credential

(* The validation of the configurations.                                   *)
HasBlankPassword(c) == expose_secret(c.password) = 0
LimitsHold(c) ==
    /\ c.conn_timeout_secs \in 1..MAX_CONN_TIMEOUT_SECS
    /\ c.stream_poll_interval_ms \in 1..MAX_STREAM_POLL_INTERVAL_MS
    /\ c.max_events_per_poll \in 1..MAX_MAX_EVENTS_PER_POLL
CaPathExists(transport) == transport.mode = "Tls" => transport.ca_cert_path # "no_such_file"
IdentityIsWhole(transport) ==
    transport.mode = "Tls" => (transport.client_cert_path <=> transport.client_key_path)

validate_postgres(c) ==
    /\ c.blank = {} /\ c.port > 0 /\ ~HasBlankPassword(c)
    /\ c.auth_mode = "AwsIamToken" => is_tls(c.transport)
    /\ LimitsHold(c) /\ CaPathExists(c.transport) /\ IdentityIsWhole(c.transport)
validate_mysql(c) ==
    /\ c.blank = {} /\ c.port > 0 /\ ~HasBlankPassword(c)
    /\ c.auth_mode = "AwsIamToken" => is_tls(c.transport)
    /\ c.server_id > 0
    /\ LimitsHold(c) /\ CaPathExists(c.transport) /\ IdentityIsWhole(c.transport)
validate_sqlserver(c) ==
    /\ c.blank = {} /\ c.port > 0 /\ ~HasBlankPassword(c)
    /\ LimitsHold(c) /\ c.prereq_pool_size \in 1..MAX_PREREQ_POOL_SIZE
    /\ CaPathExists(c.transport)
validate(c) ==
    CASE connector = "postgres"  -> validate_postgres(c)
      [] connector = "mysql"     -> validate_mysql(c)
      [] connector = "sqlserver" -> validate_sqlserver(c)

-----------------------------------------------------------------------------
(* What a driver is asked for: whether the channel is encrypted, which     *)
(* roots the server's chain is checked against ("none" if it is not),      *)
(* whether its name is checked, and whether the client has an identity.    *)
Refused == [ok |-> FALSE]
Asked(encrypted, roots, names, identity) ==
    [ok |-> TRUE, encrypted |-> encrypted, roots |-> roots, names |-> names, identity |-> identity]

build_tls_root_store(ca) == IF ca = "absent" THEN "native" ELSE IF ca = "bundle" THEN "bundle" ELSE "unreadable"
build_tls_client_config(transport) ==
    LET roots == build_tls_root_store(transport.ca_cert_path)
    IN  IF roots = "unreadable" \/ ~IdentityIsWhole(transport) THEN Refused
        ELSE Asked(TRUE, roots, TRUE, is_mtls(transport))

(* build_connect_config sets SslMode::Require for TLS.                     *)
PostgresChannel(c) ==
    CASE c.transport.mode = "Plaintext"    -> Asked(FALSE, "none", FALSE, FALSE)
      [] c.transport.mode = "RustlsConfig" -> Asked(TRUE, "injected", TRUE, FALSE)
      [] OTHER ->
            IF c.transport.allow_invalid_certificates \/ c.transport.allow_invalid_hostnames THEN Refused
            ELSE build_tls_client_config(c.transport)

build_ssl_opts(transport) ==
    IF transport.ca_cert_path \in {"blank", "no_such_file"} THEN Refused
    ELSE Asked(TRUE,
               IF allow_invalid_certificates(transport) THEN "none"
               ELSE IF transport.ca_cert_path = "absent" THEN "native" ELSE transport.ca_cert_path,
               ~allow_invalid_hostnames(transport), is_mtls(transport))
build_pool_opts(c) ==
    CASE ~is_tls(c.transport)              -> Asked(FALSE, "none", FALSE, FALSE)
      [] c.transport.mode = "RustlsConfig" -> Refused
      [] OTHER                             -> build_ssl_opts(c.transport)

(* trust_cert() drops the name check together with the chain check, so a   *)
(* relaxation of the name check alone is refused.                          *)
to_tiberius_config(c) ==
    LET t == c.transport
    IN  CASE ~is_tls(t)                -> Asked(FALSE, "none", FALSE, FALSE)
          [] t.mode = "RustlsConfig"   -> Refused
          [] allow_invalid_hostnames(t) /\ ~allow_invalid_certificates(t) -> Refused
          [] allow_invalid_certificates(t) -> Asked(TRUE, "none", FALSE, FALSE)
          [] t.ca_cert_path \in {"absent", "blank"} -> Asked(TRUE, "native", TRUE, FALSE)
          [] OTHER -> Asked(TRUE, t.ca_cert_path, TRUE, FALSE)

Channel ==
    CASE connector = "postgres"  -> PostgresChannel(config)
      [] connector = "mysql"     -> build_pool_opts(config)
      [] connector = "sqlserver" -> to_tiberius_config(config)

(* The server lets a client in when it can be reached, speaks what was     *)
(* asked for, passes the client's checks and knows the credential.         *)
Accepts(asked, credential) ==
    /\ asked.ok /\ credential # None /\ server.reachable
    /\ asked.encrypted => server.encrypts
    /\ asked.roots # "none" => asked.roots \in server.trusted_by
    /\ asked.names => server.name_matches
    /\ credential = server.credential
Expired(credential) == server.reachable /\ credential # None /\ credential < server.credential

Session == [epoch |-> server.epoch, encrypted |-> Channel.encrypted, roots |-> Channel.roots,
            names |-> Channel.names, identity |-> Channel.identity]
Alive(session) == server.reachable /\ session.epoch = server.epoch

(* MysqlConnections: a pool authenticates all its connections with the     *)
(* credential it was built with, per-connection mode resolves the secret   *)
(* for each.  The other two drivers keep no pool and resolve for each.  Of *)
(* a pool's connections the first is followed; another one is opened anew. *)
pooled(credential) == [mode |-> "pooled", credential |-> credential]
per_connection == [mode |-> "per-connection", credential |-> None]
for_config(c, credential) == IF c.auth_mode = "AwsIamToken" THEN per_connection ELSE pooled(credential)
refreshes_credentials(pool) == pool.mode = "per-connection"
opts_for_next_connection(pool) ==
    IF refreshes_credentials(pool) THEN resolve(config.password) ELSE pool.credential
get_conn(pool, session) ==
    \/ ~refreshes_credentials(pool) /\ Alive(session)
    \/ Accepts(Channel, opts_for_next_connection(pool))
connect_client == Accepts(Channel, resolve(config.password))

(* Whether a query of the connection gets through.                         *)
Queries(pool, session) == IF connector = "mysql" THEN get_conn(pool, session) ELSE Alive(session)
Reconnects(pool, session) == connector = "mysql" /\ (refreshes_credentials(pool) \/ ~Alive(session))

-----------------------------------------------------------------------------
(* Server-side prerequisites, in the order they are read.                  *)
PostgresPrerequisites == <<"slot", "publication", "privilege">>
MysqlPrerequisites ==
    (IF config.gtid_mode_enabled THEN <<"gtid_mode">> ELSE <<>>)
        \o (IF config.binlog_format_check THEN <<"binlog_format">> ELSE <<>>)
        \o <<"privilege", "log_bin", "row_metadata", "row_image", "row_value_options", "position">>
SqlServerPrerequisites == <<"cdc", "role", "version">>
Prerequisites ==
    CASE connector = "postgres"  -> PostgresPrerequisites
      [] connector = "mysql"     -> MysqlPrerequisites
      [] connector = "sqlserver" -> SqlServerPrerequisites

(* A variable the server does not define is not a misconfiguration.        *)
query_optional_global_var(p) == p \in server.undefined \/ p \notin server.lacks
Met(p) ==
    IF p \in {"row_metadata", "row_image", "row_value_options"} THEN query_optional_global_var(p)
    ELSE p \notin server.lacks

(* The SQL Server probe reads all three values before it judges them.      *)
validate_prereq_snapshot(unmet) ==
    /\ ~(config.cdc_enabled /\ "cdc" \in unmet)
    /\ "role" \notin unmet
    /\ "version" \notin unmet

-----------------------------------------------------------------------------
Idle == [step |-> "idle"]
Closed == [kind |-> "closed", heartbeat |-> None]
Gone == [kind |-> "gone", heartbeat |-> None]
is_connected == state.kind = "established"
InCall(c) == calls[c].step # "idle"

Init ==
    /\ setup \in Setups
    /\ server = setup.server
    /\ state = Closed
    /\ calls = [c \in Callers |-> Idle]
    /\ returned = [c \in Callers |-> "nothing"]
    /\ tasks = {}
    /\ stream = FALSE
    /\ durable = None
    /\ denied = FALSE
    /\ connects = 0
    /\ changes = 0

Returns(c, result) ==
    /\ calls' = [calls EXCEPT ![c] = Idle]
    /\ returned' = [returned EXCEPT ![c] = result]
Goes(c, call) ==
    /\ calls' = [calls EXCEPT ![c] = call]
    /\ UNCHANGED returned

(* What connect decides before its first await on the network.             *)
PostgresPrelude ==
    IF ~validate_postgres(config) THEN "ConfigError"
    ELSE IF is_connected THEN "StateError"
    ELSE IF ~PostgresChannel(config).ok THEN "ConfigError" ELSE "opens"
MysqlPrelude ==
    IF ~validate_mysql(config) THEN "ConfigError"
    ELSE IF is_connected THEN "StateError"
    ELSE IF resolve(config.password) = None \/ ~build_pool_opts(config).ok THEN "ConfigError" ELSE "opens"
SqlServerPrelude ==
    IF ~validate_sqlserver(config) THEN "ConfigError"
    ELSE IF is_connected THEN "StateError" ELSE "opens"
Prelude ==
    CASE connector = "postgres"  -> PostgresPrelude
      [] connector = "mysql"     -> MysqlPrelude
      [] connector = "sqlserver" -> SqlServerPrelude

connect(c) ==
    /\ ~InCall(c) /\ state.kind # "gone" /\ connects < MaxConnects
    /\ setup.overlap \/ \A other \in Callers : ~InCall(other)
    /\ connects' = connects + 1
    /\ IF Prelude = "opens"
       THEN Goes(c, [step |-> "opening", id |-> connects + 1,
                     pool |-> IF connector = "mysql" THEN for_config(config, resolve(config.password))
                              ELSE per_connection])
       ELSE Returns(c, Prelude)
    /\ UNCHANGED <<setup, server, state, tasks, stream, durable, denied, changes>>

(* SQL Server dials before it looks at its configuration; MySQL wraps      *)
(* whatever get_conn returned.                                             *)
OpenError(credential) ==
    IF connector = "mysql" \/ (connector = "sqlserver" /\ ~server.reachable) THEN "SourceError"
    ELSE IF ~Channel.ok \/ credential = None THEN "ConfigError" ELSE "SourceError"

(* The connection is opened, under conn_timeout_secs.                      *)
Opens(c) ==
    LET call       == calls[c]
        credential == opts_for_next_connection(call.pool)
    IN  /\ call.step = "opening"
        /\ IF Accepts(Channel, credential)
           THEN Goes(c, [step |-> "probing", id |-> call.id, pool |-> call.pool, session |-> Session,
                         left |-> Prerequisites, unmet |-> {}])
           ELSE Returns(c, OpenError(credential))
        /\ denied' = (denied \/ Expired(credential))
        /\ UNCHANGED <<setup, server, state, tasks, stream, durable, connects, changes>>

(* One prerequisite is read.  An unmet one ends the call; SQL Server only  *)
(* notes it.  A missing replication slot is created if that was allowed.   *)
Probes(c) ==
    LET call == calls[c]
        p    == Head(call.left)
        next == [call EXCEPT !.left = Tail(@), !.unmet = IF Met(p) THEN @ ELSE @ \cup {p}]
    IN  /\ call.step = "probing" /\ call.left # <<>>
        /\ IF ~Queries(call.pool, call.session) THEN Returns(c, "SourceError")
           ELSE IF p = "slot"
           THEN IF server.slot # None THEN Goes(c, next)
                ELSE IF ~config.create_replication_slot_if_missing THEN Returns(c, "Unrecoverable")
                ELSE Goes(c, [call EXCEPT !.step = "creating"])
           ELSE IF Met(p) \/ connector = "sqlserver" THEN Goes(c, next) ELSE Returns(c, "SourceError")
        /\ denied' = (denied \/ (/\ Reconnects(call.pool, call.session)
                                 /\ Expired(opts_for_next_connection(call.pool))))
        /\ UNCHANGED <<setup, server, state, tasks, stream, durable, connects, changes>>

(* A slot is created at the current end of the log; one that failover is   *)
(* to preserve needs PostgreSQL 17.                                        *)
create_replication_slot(c) ==
    LET call == calls[c]
    IN  /\ call.step = "creating"
        /\ IF /\ Alive(call.session) /\ server.slot = None
              /\ config.failover_slot => server.has_failover_slots
           THEN /\ server' = [server EXCEPT !.slot = server.written, !.synced_slot = config.failover_slot]
                /\ Goes(c, [call EXCEPT !.step = "probing", !.left = Tail(@)])
           ELSE Returns(c, "SourceError") /\ UNCHANGED server
        /\ UNCHANGED <<setup, state, tasks, stream, durable, denied, connects, changes>>

(* The heartbeat starts and the connection is stored, over what is there.  *)
Stores(c) ==
    LET call == calls[c]
    IN  /\ call.step = "probing" /\ call.left = <<>>
        /\ IF connector = "sqlserver" /\ ~validate_prereq_snapshot(call.unmet)
           THEN Returns(c, "SourceError") /\ UNCHANGED <<state, tasks>>
           ELSE /\ tasks' = tasks \cup {[id |-> call.id, pool |-> call.pool, session |-> call.session]}
                /\ state' = [kind |-> "established", heartbeat |-> call.id, pool |-> call.pool,
                             session |-> call.session]
                /\ Returns(c, "Ok")
        /\ UNCHANGED <<setup, server, stream, durable, denied, connects, changes>>

(* Ending the connection aborts its tasks: SqlPeek reads the log over it,  *)
(* the other streams have connections of their own.                        *)
Aborted == {t \in tasks : t.id = state.heartbeat}
StreamSurvives == stream /\ ~(connector = "postgres" /\ config.wal_transport = "SqlPeek")
close(c) ==
    /\ ~InCall(c) /\ is_connected
    /\ tasks' = tasks \ Aborted
    /\ state' = Closed
    /\ stream' = StreamSurvives
    /\ returned' = [returned EXCEPT ![c] = "Ok"]
    /\ UNCHANGED <<setup, server, calls, durable, denied, connects, changes>>
Drop ==
    /\ state.kind # "gone" /\ \A c \in Callers : ~InCall(c)
    /\ tasks' = tasks \ Aborted
    /\ state' = Gone
    /\ stream' = StreamSurvives
    /\ UNCHANGED <<setup, server, calls, returned, durable, denied, connects, changes>>

(* A heartbeat that fails ends; the connection goes on calling itself      *)
(* connected.                                                              *)
HeartbeatPasses(t) ==
    CASE connector = "postgres"  -> Alive(t.session)
      [] connector = "mysql"     -> get_conn(t.pool, t.session)
      [] connector = "sqlserver" -> connect_client
HeartbeatFails(t) ==
    /\ ~HeartbeatPasses(t)
    /\ tasks' = tasks \ {t}
    /\ denied' = (denied \/ (/\ connector = "sqlserver" \/ Reconnects(t.pool, t.session)
                             /\ Expired(opts_for_next_connection(t.pool))))
    /\ UNCHANGED <<setup, server, state, calls, returned, stream, durable, connects, changes>>

-----------------------------------------------------------------------------
(* Streams.  SqlPeek reads from the slot, so a slot behind the checkpoint  *)
(* is advanced to it; START_REPLICATION is given the checkpoint.           *)
reconcile_with_ops == IF durable # None /\ durable > server.slot THEN durable ELSE server.slot
start_postgres_stream ==
    /\ Alive(state.session)
    /\ config.wal_transport = "StreamingReplication" => connect_client /\ server.slot # None
    /\ durable # None => server.slot # None
    /\ server' = IF config.wal_transport = "SqlPeek" THEN [server EXCEPT !.slot = reconcile_with_ops] ELSE server
    /\ stream' = TRUE
start_mysql_stream ==
    /\ get_conn(state.pool, state.session) /\ connect_client
    /\ stream' = TRUE /\ UNCHANGED server

(* The shadow table and the trigger are made one after the other, each     *)
(* only if it is not there; either statement may fail.                     *)
ensure_truncate_capture_setup ==
    /\ config.safe_cdc_schema
    /\ \/ server' = [server EXCEPT !.truncate_table = TRUE, !.truncate_trigger = TRUE] /\ stream' = TRUE
       \/ server' = [server EXCEPT !.truncate_table = TRUE] /\ UNCHANGED stream
start_sqlserver_stream ==
    /\ connect_client
    /\ IF config.capture_truncate_events THEN ensure_truncate_capture_setup
       ELSE stream' = TRUE /\ UNCHANGED server

start_stream ==
    /\ is_connected /\ ~stream /\ \A c \in Callers : ~InCall(c)
    /\ CASE connector = "postgres"  -> start_postgres_stream
         [] connector = "mysql"     -> start_mysql_stream
         [] connector = "sqlserver" -> start_sqlserver_stream
    /\ UNCHANGED <<setup, state, calls, returned, tasks, durable, denied, connects, changes>>

StreamEnds ==
    /\ stream /\ stream' = FALSE
    /\ UNCHANGED <<setup, server, state, calls, returned, tasks, durable, denied, connects, changes>>

(* The consumer's checkpoint moves to a position the stream delivered; the *)
(* slot follows unless the confirmation fails.                             *)
Acknowledge ==
    /\ stream /\ connector = "postgres" /\ server.slot # None
    /\ \E p \in (Max({server.slot, durable}) + 1)..server.written :
          /\ durable' = p
          /\ server' \in {server, [server EXCEPT !.slot = p]}
    /\ UNCHANGED <<setup, state, calls, returned, tasks, stream, denied, connects, changes>>

-----------------------------------------------------------------------------
(* The server.  Log positions count the entries a subscriber waits for; an *)
(* idle advance passes only others (PostgresStream).                       *)
Writes ==
    /\ connector = "postgres" /\ server.written < MaxWrites
    /\ server' = [server EXCEPT !.written = @ + 1]
    /\ UNCHANGED <<setup, state, calls, returned, tasks, stream, durable, denied, connects, changes>>

Changed(what, after) ==
    /\ what \in setup.changes /\ changes < MaxChanges
    /\ changes' = changes + 1
    /\ server' = after
    /\ UNCHANGED <<setup, state, calls, returned, tasks, durable, denied, connects>>

CredentialRotates == Changed("rotate", [server EXCEPT !.credential = @ + 1]) /\ UNCHANGED stream
OperatorRepairs == Changed("repair", [server EXCEPT !.lacks = {}]) /\ UNCHANGED stream
GoesDown == server.reachable /\ Changed("outage", [server EXCEPT !.reachable = FALSE, !.epoch = @ + 1])
            /\ stream' = FALSE
SlotIsDropped == ~stream /\ Changed("drop_slot", [server EXCEPT !.slot = None]) /\ UNCHANGED stream
FailsOver ==
    /\ Changed("failover", [server EXCEPT !.epoch = @ + 1, !.slot = IF server.synced_slot THEN @ ELSE None])
    /\ stream' = FALSE
ComesUp ==
    /\ ~server.reachable /\ server' = [server EXCEPT !.reachable = TRUE]
    /\ UNCHANGED <<setup, state, calls, returned, tasks, stream, durable, denied, connects, changes>>

Proceeds == \E c \in Callers : Opens(c) \/ Probes(c) \/ create_replication_slot(c) \/ Stores(c)
Next ==
    \/ Proceeds
    \/ \E c \in Callers : connect(c) \/ close(c)
    \/ Drop
    \/ \E t \in tasks : HeartbeatFails(t)
    \/ start_stream \/ StreamEnds \/ Acknowledge \/ Writes
    \/ CredentialRotates \/ OperatorRepairs \/ GoesDown \/ SlotIsDropped \/ FailsOver \/ ComesUp

Spec == Init /\ [][Next]_vars /\ WF_vars(Proceeds)
-----------------------------------------------------------------------------
(* An established connection has the protection its transport names:       *)
(* encrypted if and only if it is a TLS transport, the chain checked       *)
(* against the roots the configuration gives and the name checked, each    *)
(* unless the configuration waives it, and a client identity presented     *)
(* where the driver has one to present.                                    *)
ConnectedAsConfigured ==
    is_connected =>
        LET t == config.transport
            s == state.session
        IN  /\ s.encrypted <=> is_tls(t)
            /\ t.mode = "RustlsConfig" => s.roots = "injected"
            /\ t.mode = "Tls" /\ ~t.allow_invalid_certificates =>
                  s.roots = IF t.ca_cert_path = "bundle" THEN "bundle" ELSE "native"
            /\ t.mode = "Tls" /\ ~t.allow_invalid_certificates /\ ~t.allow_invalid_hostnames => s.names
            /\ connector # "sqlserver" /\ is_mtls(t) => s.identity

(* A connection is established only against a server that is set up for    *)
(* change capture as the configuration asks; a variable an older server    *)
(* does not have is not held against it.                                   *)
Required ==
    CASE connector = "postgres"  -> {"publication", "privilege"}
      [] connector = "mysql"     ->
            {"privilege", "log_bin", "row_metadata", "row_image", "row_value_options", "position"}
                \cup {p \in {"gtid_mode"} : config.gtid_mode_enabled}
                \cup {p \in {"binlog_format"} : config.binlog_format_check}
      [] connector = "sqlserver" -> {"role", "version"} \cup {p \in {"cdc"} : config.cdc_enabled}
PrerequisitesHold == is_connected => Required \cap server.lacks \subseteq server.undefined

(* A connector that authenticates with short-lived tokens from a provider  *)
(* is never refused for an expired one, however long ago it connected.     *)
CredentialIsFresh == config.auth_mode = "AwsIamToken" /\ is_deferred(config.password) => ~denied

(* A SQL Server stream that was asked for truncations runs only where both *)
(* the shadow table and its trigger exist, also after an attempt that made *)
(* only one of them.                                                       *)
TruncatesCaptured ==
    (connector = "sqlserver" /\ stream /\ config.capture_truncate_events) =>
        server.truncate_table /\ server.truncate_trigger

(* A PostgreSQL stream never runs from a slot that is past the checkpoint: *)
(* a slot that was lost is reported, not replaced by one that begins later.*)
GapIsAnnounced == (stream /\ durable # None) => server.slot <= durable

(* No connect is under way, and a connection that was closed or dropped    *)
(* left no heartbeat behind.                                               *)
Settled == (\A c \in Callers : ~InCall(c)) /\ (~is_connected => tasks = {})

-----------------------------------------------------------------------------
(* What the documentation of connect says and the code does not keep; no   *)
(* run checks it: connecting a connected source succeeds.                  *)
ConnectIsIdempotent == \A c \in Callers : returned[c] # "StateError"
=============================================================================
