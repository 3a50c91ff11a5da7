----------------------------- MODULE Lifecycle -----------------------------
(***************************************************************************)
(* The life of the server process: run and its steps                       *)
(* (crates/server-bin/src/bootstrap.rs), the migrations, the listeners and *)
(* the shutdown.  Several processes share a host, so its ports, and a      *)
(* database, which outlives them.  Every step that asks the outside may    *)
(* fail, and a process may be killed at any time.                          *)
(*                                                                         *)
(* External, as the code uses them: PostgreSQL and sea-orm-migration.  A   *)
(* migration and its record are one transaction or part of one, so what a  *)
(* process has not committed when it dies is gone; a CREATE TABLE whose    *)
(* name another transaction has created waits for the end of that.         *)
(***************************************************************************)
EXTENDS Config, Sequences, SequencesExt

CONSTANTS Servers,      \* processes, each of which may be started again
          Envs,         \* environments they are started with
          Ephemeral,    \* ports the kernel chooses from for port 0
          MaxStarts, MaxRequests  \* bounds

VARIABLES
    pc,         \* where run is; "down" without a process
    config,     \* from_lookup of the environment, <<>> without a process
    listening,  \* the port of each listener, 0 if it has none
    named,      \* the HTTPS port that the redirect tells
    applied,    \* migrations that are committed
    plan,       \* migrations a process has still to run
    mine,       \* those it ran and has not committed
    overtaken,  \* auxiliary: another process committed since the plan was made
    failed,     \* auxiliary: how a migration failed that ended the process, or "none"
    connected,  \* whether TCP connections are registered
    querying,   \* HTTP requests that hold a connection of the pool
    starts

bootVars == <<config, listening, named, failed, starts>>
dbVars == <<applied, plan, mine, overtaken>>
loadVars == <<connected, querying>>
lifeVars == <<pc, bootVars, dbVars, loadVars>>

-----------------------------------------------------------------------------
(***************************************************************************)
(* The process.                                                            *)
(***************************************************************************)
Listener == {"tcp", "https", "redirect"}
Silent == [l \in Listener |-> 0]
Unused(port) == \A s \in Servers, l \in Listener : listening[s][l] # port

At(s, step) == pc' = [pc EXCEPT ![s] = step]
Listens(s, l, port) == listening' = [listening EXCEPT ![s][l] = port]

\* The process ends: with run's error, by a kill, or after Ok.  Whatever it
\* still did ends with it.
Exit(s, why) ==
    /\ At(s, "down")
    /\ listening' = [listening EXCEPT ![s] = Silent]
    /\ failed' = [failed EXCEPT ![s] = why]
    /\ connected' = [connected EXCEPT ![s] = FALSE]
    /\ querying' = [querying EXCEPT ![s] = 0]
    /\ mine' = [mine EXCEPT ![s] = {}]
    /\ plan' = [plan EXCEPT ![s] = <<>>]
    /\ config' = [config EXCEPT ![s] = <<>>]
    /\ named' = [named EXCEPT ![s] = 0]
    /\ UNCHANGED <<applied, overtaken, starts>>

load_config(env) == parsed(from_lookup(env)) /\ validate(from_lookup(env))

\* main: run, up to its first await.
Start(s, env) ==
    /\ pc[s] = "down"
    /\ starts < MaxStarts
    /\ starts' = starts + 1
    /\ failed' = [failed EXCEPT ![s] = "none"]
    /\ IF load_config(env)
       THEN At(s, "connect") /\ config' = [config EXCEPT ![s] = from_lookup(env)]
       ELSE UNCHANGED <<pc, config>>
    /\ UNCHANGED <<listening, named, dbVars, loadVars>>

Killed(s) == pc[s] # "down" /\ Exit(s, "none")

\* A step that works out, or not: then run returns its error.
Step(s, here, outcomes, next) ==
    /\ pc[s] = here
    /\ \E ok \in outcomes :
          IF ok THEN At(s, next) /\ UNCHANGED <<bootVars, dbVars, loadVars>>
          ELSE Exit(s, "none")

-----------------------------------------------------------------------------
(***************************************************************************)
(* run_migrations.                                                         *)
(***************************************************************************)

migrations == <<"accounts", "players", "audit_logs">>

References == [accounts |-> {}, players |-> {"accounts"}, audit_logs |-> {"players"}]

\* With a connection: what is not recorded is to be run.  Without one, or if
\* another process creates the table of records just then, run returns.
connect_database(s) ==
    /\ pc[s] = "connect"
    /\ \/ /\ At(s, "migrate")
          /\ plan' = [plan EXCEPT ![s] = SelectSeq(migrations, LAMBDA m : m \notin applied)]
          /\ overtaken' = [overtaken EXCEPT ![s] = FALSE]
          /\ UNCHANGED <<applied, mine, bootVars, loadVars>>
       \/ Exit(s, "none")

up(s) ==
    LET m == Head(plan[s])
    IN  /\ pc[s] = "migrate"
        /\ plan[s] # <<>>
        /\ \A t \in Servers \ {s} : m \notin mine[t]
        /\ IF m \in applied THEN Exit(s, "exists")
           ELSE IF ~(References[m] \subseteq applied \cup mine[s]) THEN Exit(s, "reference")
           ELSE /\ mine' = [mine EXCEPT ![s] = @ \cup {m}]
                /\ plan' = [plan EXCEPT ![s] = Tail(@)]
                /\ UNCHANGED <<pc, bootVars, loadVars, applied, overtaken>>

\* Mutant of Commit: not as one transaction, nor in order.
CommitEach(s) ==
    /\ \E m \in mine[s] : /\ applied' = applied \cup {m}
                           /\ mine' = [mine EXCEPT ![s] = @ \ {m}]
    /\ overtaken' = [t \in Servers |-> overtaken[t] \/ (t # s /\ pc[t] = "migrate")]
    /\ UNCHANGED <<pc, bootVars, loadVars, plan>>

Commit(s) ==
    /\ mine[s] # {}
    /\ applied' = applied \cup mine[s]
    /\ mine' = [mine EXCEPT ![s] = {}]
    /\ overtaken' = [t \in Servers |-> overtaken[t] \/ (t # s /\ pc[t] = "migrate")]
    /\ UNCHANGED <<pc, bootVars, loadVars, plan>>

run_migrations(s) ==
    \/ up(s) \/ Commit(s)
    \/ plan[s] = <<>> /\ mine[s] = {} /\ Step(s, "migrate", BOOLEAN, "services")

-----------------------------------------------------------------------------
\* Argon2PasswordHasher::new, with argon2::Params::new.
hasher(app) ==
    /\ app.password_max_concurrency \in 1..MAX_PERMITS
    /\ app.password_parallelism > 0 /\ app.password_iterations > 0
    /\ app.password_memory_kb >= 8 * app.password_parallelism

\* Redis answers or not; the hasher is made or not; nothing else can fail.
build_services(s) == {hasher(config[s].app) /\ connected_to_redis : connected_to_redis \in BOOLEAN}

\* Files that are not there, are not PEM, or do not belong together.
build_tls_config == BOOLEAN

\* Steps that touch nothing others see.
Prepare(s) ==
    Step(s, "services", {built /\ tls : built \in build_services(s), tls \in build_tls_config},
         "tcp")

\* An address that cannot be parsed or is in use is an error.
bind(s, l, addr, next) ==
    \/ /\ addr # NotANumber
       /\ \E port \in IF addr = 0 THEN Ephemeral ELSE {addr} :
             Unused(port) /\ Listens(s, l, port)
       /\ At(s, next)
       /\ UNCHANGED <<config, named, failed, starts, dbVars, loadVars>>
    \/ (addr = NotANumber \/ (addr # 0 /\ ~Unused(addr))) /\ Exit(s, "none")

start_tcp_gateway(s) ==
    pc[s] = "tcp" /\ bind(s, "tcp", config[s].network.tcp_bind_addr, "https")

serve_https(s) ==
    pc[s] = "https" /\ bind(s, "https", config[s].network.http_bind_addr, "redirect")

\* The port that serve_https returned.
RedirectPort(s) == listening[s]["https"]

\* Without an address there is no redirect.
serve_redirect(s) ==
    LET addr == config[s].network.http_redirect_addr
    IN  /\ pc[s] = "redirect"
        /\ \/ addr = NoValue /\ At(s, "serving") /\ UNCHANGED <<bootVars, dbVars, loadVars>>
           \/ /\ addr \notin {NoValue, NotANumber} /\ Unused(addr)
              /\ Listens(s, "redirect", addr)
              /\ named' = [named EXCEPT ![s] = RedirectPort(s)]
              /\ At(s, "serving")
              /\ UNCHANGED <<config, failed, starts, dbVars, loadVars>>
           \/ /\ addr # NoValue
              /\ addr = NotANumber \/ ~Unused(addr)
              /\ Exit(s, "none")

-----------------------------------------------------------------------------
(***************************************************************************)
(* Service and shutdown.                                                   *)
(***************************************************************************)
Loaded(s, c, q) ==
    /\ connected' = [connected EXCEPT ![s] = c]
    /\ querying' = [querying EXCEPT ![s] = q]
    /\ UNCHANGED <<pc, bootVars, dbVars>>

Connect(s) == listening[s]["tcp"] # 0 /\ ~connected[s] /\ Loaded(s, TRUE, querying[s])
LastDisconnects(s) == connected[s] /\ Loaded(s, FALSE, querying[s])

\* A request, maybe one that came before the HTTPS task saw the signal, takes a
\* connection; a closed pool has none, and the request fails.
Query(s) ==
    /\ pc[s] \in {"redirect", "serving", "draining"}
    /\ querying[s] < config[s].database.max_connections
    /\ querying[s] < MaxRequests
    /\ Loaded(s, connected[s], querying[s] + 1)

Queried(s) == querying[s] > 0 /\ Loaded(s, connected[s], querying[s] - 1)

wait_for_signal(s) ==
    pc[s] = "serving" /\ At(s, "draining") /\ UNCHANGED <<bootVars, dbVars, loadVars>>

Stopping(s) == pc[s] \in {"draining", "dbclose"}

\* Each listener has a task that sees the signal.
StopsListening(s, l) ==
    /\ Stopping(s)
    /\ listening[s][l] # 0
    /\ Listens(s, l, 0)
    /\ UNCHANGED <<pc, config, named, failed, starts, dbVars, loadVars>>

\* Mutant of wait_until_drained: no deadline.
wait_until_drainedForever(s) ==
    /\ pc[s] = "draining" /\ ~connected[s]
    /\ At(s, "dbclose") /\ UNCHANGED <<bootVars, dbVars, loadVars>>

\* close_all has returned (RoomService: CallsReturn), and no connection is left or
\* the deadline has passed.
wait_until_drained(s) ==
    /\ pc[s] = "draining"
    /\ At(s, "dbclose") /\ UNCHANGED <<bootVars, dbVars, loadVars>>

\* The pool waits for the connections that are in use; this has no deadline.
\* Then run returns Ok, and the runtime is dropped with all tasks: also the ones
\* that answer the requests of these connections.
db_close(s) == pc[s] = "dbclose" /\ querying[s] = 0 /\ Exit(s, "none")

-----------------------------------------------------------------------------
LifecycleIdle ==
    /\ pc = [s \in Servers |-> "down"]
    /\ config = [s \in Servers |-> <<>>]
    /\ listening = [s \in Servers |-> Silent]
    /\ named = [s \in Servers |-> 0]
    /\ applied = {}
    /\ plan = [s \in Servers |-> <<>>]
    /\ mine = [s \in Servers |-> {}]
    /\ overtaken = [s \in Servers |-> FALSE]
    /\ failed = [s \in Servers |-> "none"]
    /\ connected = [s \in Servers |-> FALSE]
    /\ querying = [s \in Servers |-> 0]

LifecycleInit == LifecycleIdle /\ starts = 0

\* run up to shutdown::wait_for_signal.
boot(s) ==
    \/ connect_database(s) \/ run_migrations(s) \/ Prepare(s)
    \/ start_tcp_gateway(s) \/ serve_https(s) \/ serve_redirect(s)

graceful_teardown(s) == wait_until_drained(s) \/ db_close(s)

LifecycleNext ==
    \E s \in Servers :
        \/ \E env \in Envs : Start(s, env)
        \/ Killed(s) \/ boot(s)
        \/ Connect(s) \/ LastDisconnects(s) \/ Query(s) \/ Queried(s)
        \/ wait_for_signal(s) \/ graceful_teardown(s)
        \/ \E l \in Listener : StopsListening(s, l)

\* A step of run ends, one way or the other: connections have timeouts.  The
\* database answers a query.  Nobody has to start, request or stop anything.
LifecycleFairness ==
    \A s \in Servers :
        WF_lifeVars(boot(s) \/ graceful_teardown(s)) /\ WF_lifeVars(Queried(s))

LifecycleSpec == LifecycleInit /\ [][LifecycleNext]_lifeVars /\ LifecycleFairness

-----------------------------------------------------------------------------
(***************************************************************************)
(* Properties.                                                             *)
(***************************************************************************)
\* migration/src: however processes race and die, the schema is what some run of
\* the first migrations leaves.  It keeps no server from starting: migrations fail
\* only for a process that another one has overtaken, or that lost the database.
SchemaWhole ==
    /\ \E n \in 0..Len(migrations) : applied = Range(SubSeq(migrations, 1, n))
    /\ \A s \in Servers : failed[s] # "reference" /\ (failed[s] = "exists" => overtaken[s])

\* bootstrap.rs, config.rs: a client is accepted only by a process that has the
\* whole schema and a configuration with which no queue or semaphore panics
\* when it is made and a client may lose a heartbeat.  (From an interval of
\* half the range of u64 on, the check of the timeout wraps.)  And a client is
\* redirected to where the same process serves HTTPS, also when the kernel chose
\* the port (src/README.md:333).
ServesReady ==
    \A s \in Servers :
        /\ listening[s]["tcp"] # 0 \/ listening[s]["https"] # 0 =>
              /\ applied = Range(migrations)
              /\ config[s].network.channel_per_conn > 0
              /\ config[s].network.channel_per_room > 0
              /\ config[s].app.password_max_concurrency \in 1..MAX_PERMITS
              /\ config[s].network.heartbeat_interval < 2^(Width - 1) =>
                    config[s].network.heartbeat_timeout >= 2 * config[s].network.heartbeat_interval
        /\ listening[s]["redirect"] # 0 /\ ~Stopping(s) => named[s] = listening[s]["https"]

\* A start and a stop come to an end: processes that migrate one database never
\* wait for each other for ever, also if one dies in between, and a signal ends
\* the process, whatever TCP clients do, once the queries that run are answered.
Settles ==
    \A s \in Servers : []<>(pc[s] \in {"down", "serving"})
=============================================================================
