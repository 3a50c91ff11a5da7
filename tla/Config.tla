------------------------------- MODULE Config -------------------------------
(***************************************************************************)
(* The configuration (crates/infrastructure/src/config.rs).                *)
(*                                                                         *)
(* The environment is a function from the names of the variables that are  *)
(* set.  A value is the number its text stands for, or NotANumber, also if *)
(* the field has fewer than 64 bits and the number more; an address is its *)
(* port.  Numbers have Width bits: 64 in the code, fewer here, but enough  *)
(* for the defaults of the fields that are looked at.  Of all other fields *)
(* only matters whether they can be parsed.                                *)
(***************************************************************************)
EXTENDS Integers

CONSTANT Width

NotANumber == -1
NoValue == -2
TLSv1_3 == 13

\* tokio::sync::Semaphore::MAX_PERMITS
MAX_PERMITS == 2^(Width - 3) - 1

env_str(env, name, default) == IF name \in DOMAIN env THEN env[name] ELSE default

\* A blank value counts as none.
env_opt_str(env, name) == env_str(env, name, NoValue)

\* Whether the text of name, if it is set, can be parsed as a number.
env_parse(env, name) == env_str(env, name, 0) \in 0..2^Width - 1

env_bool(env, name) == env_str(env, name, 0) \in {0, 1}

Parsed(env, names) == \A name \in names : env_parse(env, name)

network_from_lookup(env) ==
    [parsed |-> /\ Parsed(env, {"SERVER_HEARTBEAT_INTERVAL_SECS", "SERVER_HEARTBEAT_TIMEOUT_SECS",
                                "SERVER_CHANNEL_PER_CONN_SIZE", "SERVER_CHANNEL_PER_ROOM_SIZE",
                                "SERVER_MAX_CONNECTIONS", "SERVER_CONNECTION_BACKLOG",
                                "SERVER_ACCEPT_CONCURRENCY", "SERVER_TCP_READ_BUFFER_SIZE",
                                "SERVER_TCP_WRITE_BUFFER_SIZE", "SERVER_MAX_FRAME_SIZE",
                                "SERVER_UNAUTH_TIMEOUT_SECS", "SERVER_UNAUTH_MAX_PER_IP",
                                "SERVER_TCP_KEEPALIVE_SECS", "SERVER_WRITE_DRAIN_TIMEOUT_MS"})
                /\ env_bool(env, "SERVER_TCP_NODELAY"),
     tcp_bind_addr |-> env_str(env, "SERVER_TCP_BIND_ADDR", 8080),
     http_bind_addr |-> env_str(env, "SERVER_HTTP_BIND_ADDR", 8081),
     http_redirect_addr |-> env_opt_str(env, "SERVER_HTTP_REDIRECT_ADDR"),
     heartbeat_interval |-> env_str(env, "SERVER_HEARTBEAT_INTERVAL_SECS", 20),
     heartbeat_timeout |-> env_str(env, "SERVER_HEARTBEAT_TIMEOUT_SECS", 60),
     channel_per_conn |-> env_str(env, "SERVER_CHANNEL_PER_CONN_SIZE", 256),
     channel_per_room |-> env_str(env, "SERVER_CHANNEL_PER_ROOM_SIZE", 512)]

rate_limit_from_lookup(env) ==
    [parsed |-> /\ Parsed(env, {"SERVER_RATE_LIMIT_PER_CONN", "SERVER_RATE_LIMIT_BURST"})
                /\ env_bool(env, "SERVER_RATE_LIMIT_ENABLED")]

tls_from_lookup(env) == [parsed |-> env_str(env, "TLS_MIN_VERSION", TLSv1_3) = TLSv1_3]

database_from_lookup(env) ==
    [parsed |-> Parsed(env, {"DATABASE_MAX_CONNECTIONS", "DATABASE_MIN_CONNECTIONS",
                             "DATABASE_CONNECT_TIMEOUT_SECS", "DATABASE_IDLE_TIMEOUT_SECS"}),
     max_connections |-> env_str(env, "DATABASE_MAX_CONNECTIONS", 30)]

redis_from_lookup(env) ==
    [parsed |-> Parsed(env, {"REDIS_POOL_MAX_SIZE", "REDIS_DEFAULT_TTL_SECS",
                             "REDIS_CONNECT_TIMEOUT_SECS"})]

log_from_lookup(env) ==
    [parsed |-> Parsed(env, {"METRICS_PORT"}) /\ env_bool(env, "OTEL_ENABLED"),
     metrics_port |-> env_str(env, "METRICS_PORT", 9090)]

app_from_lookup(env) ==
    [parsed |-> Parsed(env, {"APP_SESSION_TOKEN_TTL_SECS", "APP_PASSWORD_ITERATIONS",
                             "APP_PASSWORD_MEMORY_KB", "APP_PASSWORD_PARALLELISM",
                             "APP_PASSWORD_MAX_CONCURRENCY", "APP_MAX_PLAYERS_PER_ROOM",
                             "APP_SHUTDOWN_TIMEOUT_SECS"}),
     password_iterations |-> env_str(env, "APP_PASSWORD_ITERATIONS", 3),
     password_memory_kb |-> env_str(env, "APP_PASSWORD_MEMORY_KB", 19456),
     password_parallelism |-> env_str(env, "APP_PASSWORD_PARALLELISM", 4),
     password_max_concurrency |-> env_str(env, "APP_PASSWORD_MAX_CONCURRENCY", 2)]

from_lookup(env) ==
    [network |-> network_from_lookup(env), rate_limit |-> rate_limit_from_lookup(env),
     tls |-> tls_from_lookup(env), database |-> database_from_lookup(env),
     redis |-> redis_from_lookup(env), log |-> log_from_lookup(env),
     app |-> app_from_lookup(env)]

parsed(config) == \A group \in DOMAIN config : config[group].parsed

\* Mutant of validate: the queue of the rooms is not looked at.
validateConnOnly(config) ==
    /\ config.network.heartbeat_timeout >= (2 * config.network.heartbeat_interval) % 2^Width
    /\ config.network.channel_per_conn > 0
    /\ config.app.password_max_concurrency \in 1..MAX_PERMITS

\* A release build: the product wraps.
validate(config) ==
    /\ config.network.heartbeat_timeout >= (2 * config.network.heartbeat_interval) % 2^Width
    /\ config.network.channel_per_conn > 0
    /\ config.app.password_max_concurrency \in 1..MAX_PERMITS
    /\ config.network.channel_per_room > 0
=============================================================================
