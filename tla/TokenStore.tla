----------------------------- MODULE TokenStore -----------------------------
(***************************************************************************)
(* The two implementations of SessionTokenStore: InMemoryTokenStore and    *)
(* RedisTokenStore (crates/infrastructure/src/cache).  Both keep a map     *)
(* from token to player with an end of validity, and an index from player  *)
(* to tokens by which create and revoke_player find the old token.         *)
(*                                                                         *)
(* A call is sent and takes effect in a later step, in the critical        *)
(* section or as a script on the server.  Whether its caller still waits   *)
(* makes no difference; a command may also get lost on its way.            *)
(***************************************************************************)
EXTENDS Naturals

CONSTANTS PlayerIds, TokenStrings,
          Callers,     \* requests that use the store at the same time
          Ttls,        \* the times to live that callers ask for
          MaxTtl,      \* what checked_add, or half of an i64, can hold
          MaxNow,      \* bound: the clock stops here
          Nobody

ASSUME StoreAssumptions ==
    /\ Ttls \subseteq Nat
    /\ MaxTtl \in Nat
    /\ MaxNow \in Nat
    /\ Nobody \notin PlayerIds

VARIABLES
    backend,  \* "memory" or "redis": connect_token_store takes the second
    now,      \* the clock
    tokens,   \* the entry of a token; its player is Nobody if there is none
    index,    \* the tokens of a player, and when Redis drops that set
    issued,   \* the tokens random_token has returned
    call      \* what each caller has sent

storeVars == <<backend, now, tokens, index, issued, call>>

NoEntry == [player |-> Nobody, until |-> 0]
NoIndex == [tokens |-> {}, until |-> 0]
Call == [op : {"create"}, player : PlayerIds, token : TokenStrings, sent : Nat, ttl : Nat]
           \cup [op : {"revoke"}, player : PlayerIds] \cup [op : {"none"}]

-----------------------------------------------------------------------------
\* Redis drops a key after its deadline; memory asks for expires_at > now.
Live(entry) == IF backend = "redis" THEN entry.until >= now ELSE entry.until > now

\* The owner of a token that is there and in time.
resolve(t) == {p \in PlayerIds : tokens[t].player = p /\ Live(tokens[t])}

\* The tokens the index still knows: SMEMBERS, or by_player.remove.
Indexed(p) == IF backend = "memory" \/ Live(index[p]) THEN index[p].tokens ELSE {}

\* tokens without those of p that the index knows.
Purged(p) == [t \in TokenStrings |-> IF t \in Indexed(p) THEN NoEntry ELSE tokens[t]]

\* random_token comes first, and in memory the clock is read before the lock.
\* A time to live that cannot be represented is refused with Validation.
CallCreate(c, p, ttl) ==
    /\ call[c].op = "none"
    /\ ttl <= MaxTtl
    /\ \E t \in TokenStrings \ issued :
          /\ issued' = issued \cup {t}
          /\ call' = [call EXCEPT ![c] = [op |-> "create", player |-> p, token |-> t,
                                          sent |-> now, ttl |-> ttl]]
    /\ UNCHANGED <<backend, now, tokens, index>>

CallRevoke(c, p) ==
    /\ call[c].op = "none"
    /\ call' = [call EXCEPT ![c] = [op |-> "revoke", player |-> p]]
    /\ UNCHANGED <<backend, now, tokens, index, issued>>

\* Redis counts from when the script runs, and at least 1 ms.
Deadline(k) ==
    IF backend = "memory" THEN k.sent + k.ttl
    ELSE now + (IF k.ttl = 0 THEN 1 ELSE k.ttl)

\* Mutant of Stored: the old token is left to its deadline.
StoredBeside(k) ==
    /\ tokens' = [tokens EXCEPT ![k.token] = [player |-> k.player, until |-> Deadline(k)]]
    /\ index' = [index EXCEPT ![k.player] = [tokens |-> {k.token}, until |-> Deadline(k)]]

\* The old tokens go, the new one is indexed and stored with one deadline: the
\* critical section of memory, the script of Redis.
Stored(k) ==
    /\ tokens' = [Purged(k.player) EXCEPT
                     ![k.token] = [player |-> k.player, until |-> Deadline(k)]]
    /\ index' = [index EXCEPT ![k.player] = [tokens |-> {k.token}, until |-> Deadline(k)]]

Revoked(k) ==
    /\ tokens' = Purged(k.player)
    /\ index' = [index EXCEPT ![k.player] = NoIndex]

Execute(c) ==
    /\ \/ call[c].op = "create" /\ Stored(call[c])
       \/ call[c].op = "revoke" /\ Revoked(call[c])
    /\ call' = [call EXCEPT ![c] = [op |-> "none"]]
    /\ UNCHANGED <<backend, now, issued>>

\* The request was dropped or the connection broke before the command ran.
Lost(c) ==
    /\ call[c].op # "none"
    /\ call' = [call EXCEPT ![c] = [op |-> "none"]]
    /\ UNCHANGED <<backend, now, tokens, index, issued>>

\* live_tokens forgets what is over; the index keeps the names.
live_tokens ==
    /\ backend = "memory"
    /\ tokens' = [t \in TokenStrings |-> IF Live(tokens[t]) THEN tokens[t] ELSE NoEntry]
    /\ UNCHANGED <<backend, now, index, issued, call>>

Tick ==
    /\ now < MaxNow
    /\ now' = now + 1
    /\ UNCHANGED <<backend, tokens, index, issued, call>>

-----------------------------------------------------------------------------
StoreInit ==
    /\ backend \in {"memory", "redis"}
    /\ now = 0
    /\ tokens = [t \in TokenStrings |-> NoEntry]
    /\ index = [p \in PlayerIds |-> NoIndex]
    /\ issued = {}
    /\ call = [c \in Callers |-> [op |-> "none"]]

StoreNext ==
    \/ \E c \in Callers, p \in PlayerIds :
          CallRevoke(c, p) \/ \E ttl \in Ttls : CallCreate(c, p, ttl)
    \/ \E c \in Callers : Execute(c) \/ Lost(c)
    \/ live_tokens
    \/ Tick

StoreSpec == StoreInit /\ [][StoreNext]_storeVars

-----------------------------------------------------------------------------
(***************************************************************************)
(* Properties.                                                             *)
(***************************************************************************)
StoreTypeOK ==
    /\ backend \in {"memory", "redis"}
    /\ now \in Nat
    /\ tokens \in [TokenStrings -> [player : PlayerIds \cup {Nobody}, until : Nat]]
    /\ index \in [PlayerIds -> [tokens : SUBSET TokenStrings, until : Nat]]
    /\ issued \in SUBSET TokenStrings
    /\ call \in [Callers -> Call]

\* The tokens of calls under way: drawn, and not stored anywhere yet.
Pending == {call[c].token : c \in {d \in Callers : call[d].op = "create"}}

Sessions == INSTANCE SessionTokens WITH
    Players <- PlayerIds, Tokens <- TokenStrings,
    session <- [p \in PlayerIds |-> {t \in TokenStrings : p \in resolve(t)}],
    spent <- issued \ Pending

\* Both stores keep the promise of SessionTokenStore: whatever calls overlap,
\* are dropped or get lost, and however deadlines fall between them, a player
\* has one valid token at most, and one that ended stays invalid.
StoreImplementsSessions == Sessions!SessionSpec

\* The index knows every valid token, until it ends: the deadline of the index
\* in Redis never passes before that of the token, and an index of the memory
\* store is never replaced without its tokens.  Otherwise the next create would
\* leave a second session alive.
IndexCovers == \A t \in TokenStrings : \A p \in resolve(t) : Indexed(p) = {t}
=============================================================================
