----------------------------- MODULE Admission -----------------------------
(***************************************************************************)
(* How a TCP connection gets in and what it occupies until it is out:      *)
(* accept_loop_with (crates/net-kit/src/listener.rs), the connection       *)
(* handler of TcpGateway::run (crates/gateway/src/tcp/server.rs) and the   *)
(* AuthGate (auth_gate.rs).                                                *)
(*                                                                         *)
(* A connection may hold three things, each given back when the value that *)
(* stands for it is dropped: a place among max_connections, one of the     *)
(* unauthenticated places of its IP, and a handshake slot.  The future of  *)
(* a handler may be dropped at any await, by a panic or by abort_all, and  *)
(* everything it owns is dropped with it.                                  *)
(***************************************************************************)
EXTENDS Integers, FiniteSets, TLC

CONSTANTS Clients,             \* who connects, again and again
          IPs, IpOf,           \* and from where
          Workers, None,       \* the accept workers, and no worker
          max_connections, max_per_ip, accept_concurrency

ASSUME AdmissionAssumptions ==
    /\ IpOf \in [Clients -> IPs]
    /\ max_connections \in Nat
    /\ max_per_ip \in Nat
    /\ accept_concurrency \in Nat \ {0}
    /\ None \notin Workers

VARIABLES
    worker,  \* where each accept worker is
    phase,   \* where the connection of each client is, "away" when it has none
    owner,   \* the worker whose JoinSet has its task, if there is one
    holds,   \* what its task owns: a subset of {"place", "auth", "slot"}
    free,    \* permits left in the accept semaphore
    slots,   \* permits left in the handshake semaphore
    counts,  \* AuthGate.counts: a map with an entry for some IPs
    stop     \* the shutdown signal

admissionVars == <<worker, phase, owner, holds, free, slots, counts, stop>>

-----------------------------------------------------------------------------
(***************************************************************************)
(* AuthGate.                                                               *)
(***************************************************************************)
unauth_count(ip) == IF ip \in DOMAIN counts THEN counts[ip] ELSE 0

\* entry(ip).or_insert(0), which stays there if the limit is reached.
entry(ip) == (ip :> unauth_count(ip)) @@ counts

acquire(ip) == (ip :> unauth_count(ip) + 1) @@ counts

\* Mutant of release: an IP without connections keeps an entry.
releaseKeeps(ip) == [counts EXCEPT ![ip] = @ - 1]

\* The entry goes with the last connection; without an entry nothing happens.
release(ip) ==
    IF unauth_count(ip) > 1 THEN [counts EXCEPT ![ip] = @ - 1]
    ELSE [i \in DOMAIN counts \ {ip} |-> counts[i]]

-----------------------------------------------------------------------------
(***************************************************************************)
(* The connection handler.                                                 *)
(***************************************************************************)
Enter(c, p) == phase' = [phase EXCEPT ![c] = p]

\* c drops some of what it holds.
Drop(c, things) ==
    LET dropped == things \cap holds[c]
    IN  /\ holds' = [holds EXCEPT ![c] = @ \ things]
        /\ free' = IF "place" \in dropped THEN free + 1 ELSE free
        /\ slots' = IF "slot" \in dropped THEN slots + 1 ELSE slots
        /\ counts' = IF "auth" \in dropped THEN release(IpOf[c]) ELSE counts

\* The task ends, whichever way: everything is dropped.
Over(c) ==
    /\ Enter(c, "away")
    /\ owner' = [owner EXCEPT ![c] = None]
    /\ Drop(c, {"place", "auth", "slot"})
    /\ UNCHANGED <<worker, stop>>

\* Admission::acquire, before any byte is read.
Admit(c) ==
    /\ phase[c] = "spawned"
    /\ unauth_count(IpOf[c]) < max_per_ip
    /\ counts' = acquire(IpOf[c])
    /\ holds' = [holds EXCEPT ![c] = @ \cup {"auth"}]
    /\ Enter(c, "admitted")
    /\ UNCHANGED <<worker, owner, free, slots, stop>>

Refuse(c) ==
    /\ phase[c] = "spawned"
    /\ unauth_count(IpOf[c]) >= max_per_ip
    /\ counts' = entry(IpOf[c])
    /\ holds' = [holds EXCEPT ![c] = {}]
    /\ free' = free + 1
    /\ Enter(c, "away")
    /\ owner' = [owner EXCEPT ![c] = None]
    /\ UNCHANGED <<worker, slots, stop>>

TakeSlot(c) ==
    /\ phase[c] = "admitted"
    /\ slots > 0
    /\ slots' = slots - 1
    /\ holds' = [holds EXCEPT ![c] = @ \cup {"slot"}]
    /\ Enter(c, "handshake")
    /\ UNCHANGED <<worker, owner, free, counts, stop>>

NoSlot(c) == phase[c] = "admitted" /\ slots = 0 /\ Over(c)

\* The handshake fails or takes too long, or the server stops.
HandshakeFails(c) == phase[c] = "handshake" /\ Over(c)

\* The select picks any arm that is ready: the handshake may win over stop.
HandshakeDone(c) ==
    /\ phase[c] = "handshake"
    /\ Enter(c, "unbound")
    /\ Drop(c, {"slot"})
    /\ UNCHANGED <<worker, owner, stop>>

\* Mutant of Bind: the place is given back, but stays with the connection.
BindTwice(c) ==
    /\ phase[c] = "unbound"
    /\ Enter(c, "bound")
    /\ counts' = release(IpOf[c])
    /\ UNCHANGED <<worker, owner, holds, free, slots, stop>>

\* A Bind succeeded: run_read_loop drops the AuthPermit.
Bind(c) ==
    /\ phase[c] = "unbound"
    /\ Enter(c, "bound")
    /\ Drop(c, {"auth"})
    /\ UNCHANGED <<worker, owner, stop>>

\* run_read_loop returns: the peer, a deadline, an error or stop.
LoopReturns(c) ==
    /\ phase[c] \in {"unbound", "bound"}
    /\ Enter(c, "cleanup")
    /\ UNCHANGED <<worker, owner, holds, free, slots, counts, stop>>

\* The room is left, then the Admission is dropped.
CleanedUp(c) ==
    /\ phase[c] = "cleanup"
    /\ Enter(c, "draining")
    /\ Drop(c, {"auth"})
    /\ UNCHANGED <<worker, owner, stop>>

\* The writer ended or was aborted.
Ends(c) == phase[c] = "draining" /\ Over(c)

Panic(c) == phase[c] # "away" /\ Over(c)

-----------------------------------------------------------------------------
(***************************************************************************)
(* The accept workers.                                                     *)
(***************************************************************************)
WorkerAt(w, p) == worker' = [worker EXCEPT ![w] = p]

\* The head of the loop looks at stop.
LoopHead(w) ==
    /\ worker[w] = "head"
    /\ WorkerAt(w, IF stop THEN "draining" ELSE "accepting")
    /\ UNCHANGED <<phase, owner, holds, free, slots, counts, stop>>

\* A connection comes in: its place is taken before its task is spawned.
Accept(w, c) ==
    /\ worker[w] = "accepting"
    /\ phase[c] = "away"
    /\ free > 0
    /\ WorkerAt(w, "head")
    /\ Enter(c, "spawned")
    /\ owner' = [owner EXCEPT ![c] = w]
    /\ holds' = [holds EXCEPT ![c] = {"place"}]
    /\ free' = free - 1
    /\ UNCHANGED <<slots, counts, stop>>

\* Without a place left the connection is dropped; a failed accept is retried.
AcceptNone(w) ==
    /\ worker[w] = "accepting"
    /\ WorkerAt(w, "head")
    /\ UNCHANGED <<phase, owner, holds, free, slots, counts, stop>>

\* shutdown.changed() fires; the select may have taken one accept more.
SeeStop(w) ==
    /\ worker[w] = "accepting"
    /\ stop
    /\ WorkerAt(w, "draining")
    /\ UNCHANGED <<phase, owner, holds, free, slots, counts, stop>>

Tasks(w) == {c \in Clients : owner[c] = w}

Joined(w) ==
    /\ worker[w] \in {"draining", "aborting"}
    /\ Tasks(w) = {}
    /\ WorkerAt(w, "done")
    /\ UNCHANGED <<phase, owner, holds, free, slots, counts, stop>>

\* Mutant of TimesOut: there is no deadline.
TimesOutNever(w) == w \notin Workers

\* shutdown_timeout passes: abort_all.
TimesOut(w) ==
    /\ worker[w] = "draining"
    /\ WorkerAt(w, "aborting")
    /\ UNCHANGED <<phase, owner, holds, free, slots, counts, stop>>

\* An aborted task is dropped at its next await.
Abort(c) ==
    /\ \E w \in Workers : owner[c] = w /\ worker[w] = "aborting"
    /\ Over(c)

Stop ==
    /\ ~stop
    /\ stop' = TRUE
    /\ UNCHANGED <<worker, phase, owner, holds, free, slots, counts>>

-----------------------------------------------------------------------------
AdmissionIdle ==
    /\ phase = [c \in Clients |-> "away"]
    /\ owner = [c \in Clients |-> None]
    /\ holds = [c \in Clients |-> {}]
    /\ free = max_connections
    /\ slots = accept_concurrency
    /\ counts = [i \in {} |-> 0]

AdmissionInit == AdmissionIdle /\ worker = [w \in Workers |-> "head"] /\ stop = FALSE

Handler(c) ==
    \/ Admit(c) \/ Refuse(c) \/ TakeSlot(c) \/ NoSlot(c)
    \/ HandshakeFails(c) \/ HandshakeDone(c) \/ Bind(c) \/ LoopReturns(c)
    \/ CleanedUp(c) \/ Ends(c) \/ Panic(c) \/ Abort(c)

Worker(w) ==
    \/ LoopHead(w) \/ AcceptNone(w) \/ SeeStop(w) \/ Joined(w) \/ TimesOut(w)
    \/ \E c \in Clients : Accept(w, c)

AdmissionNext ==
    \/ \E c \in Clients : Handler(c)
    \/ \E w \in Workers : Worker(w)
    \/ Stop

AdmissionSpec == AdmissionInit /\ [][AdmissionNext]_admissionVars

\* Workers are scheduled, deadlines pass and aborted tasks are dropped.  No
\* handler has to get anywhere by itself, nobody has to connect or to stop.
AdmissionFairness ==
    /\ \A w \in Workers :
          WF_admissionVars(LoopHead(w) \/ SeeStop(w) \/ Joined(w) \/ TimesOut(w))
    /\ WF_admissionVars(\E c \in Clients : Abort(c))

FairAdmissionSpec == AdmissionSpec /\ AdmissionFairness

-----------------------------------------------------------------------------
(***************************************************************************)
(* Properties.                                                             *)
(***************************************************************************)

In(phases) == {c \in Clients : phase[c] \in phases}

\* The configured limits hold for the connections as they are, not just for
\* the counters: tasks, handshakes, and connections of one IP that are not
\* bound yet, in whatever order places are taken, handed on and given back.
Limits ==
    /\ Cardinality(Clients \ In({"away"})) <= max_connections
    /\ Cardinality(In({"handshake"})) <= accept_concurrency
    /\ \A ip \in IPs :
          Cardinality({c \in In({"admitted", "handshake", "unbound"}) : IpOf[c] = ip})
             <= max_per_ip

\* Nothing leaks: a worker that is done has no task left, when no connection is
\* left, whether refused, failed, timed out, ended, panicked or aborted, all
\* places are free and the AuthGate's map is empty, and a handshake slot never
\* outlives its handshake.  A limit of 0 per IP is excepted: then the map keeps
\* an entry of every IP it refused.
GivenBack ==
    /\ \A w \in Workers : worker[w] = "done" => Tasks(w) = {}
    /\ In({"handshake"}) = {} => slots = accept_concurrency
    /\ phase = [c \in Clients |-> "away"] =>
          free = max_connections /\ (max_per_ip > 0 => DOMAIN counts = {})

\* The accept loop ends after a stop signal, though no handler need end by
\* itself, and though a worker may accept once more.
StopEnds == []<>(stop => \A w \in Workers : worker[w] = "done")
=============================================================================
