-------------------------- MODULE TokenStoreProofs --------------------------
(***************************************************************************)
(* Both token stores implement SessionTokens, for any players, tokens,     *)
(* callers and times to live.                                              *)
(***************************************************************************)
EXTENDS TokenStore, TLAPS

\* Tokens under way are drawn, and drawn once.
DrawnOnce ==
    /\ Pending \subseteq issued
    /\ \A c, d \in Callers :
          call[c].op = "create" /\ call[d].op = "create" /\ call[c].token = call[d].token
             => c = d

\* What is stored or indexed is no longer under way.
StoredIsSpent ==
    /\ \A t \in TokenStrings : tokens[t].player # Nobody => t \in issued \ Pending
    /\ \A p \in PlayerIds : index[p].tokens \subseteq issued \ Pending

\* The index has no token of another player.
OwnTokens ==
    \A p \in PlayerIds : \A t \in index[p].tokens : tokens[t].player \in {p, Nobody}

\* A token that the index does not know, or with another deadline, is over.
Covered ==
    \A t \in TokenStrings, p \in PlayerIds :
        tokens[t].player = p /\ Live(tokens[t]) =>
            index[p].tokens = {t} /\ index[p].until = tokens[t].until

StoreInv == StoreTypeOK /\ DrawnOnce /\ StoredIsSpent /\ OwnTokens /\ Covered

-----------------------------------------------------------------------------
\* TokenStore.tla, Pending: which tokens are under way after a call changed.
LEMMA PendingDef ==
    \A t : t \in Pending <=> \E c \in Callers : call[c].op = "create" /\ call[c].token = t
  BY DEF Pending

LEMMA PendingDefNext ==
    \A t : t \in Pending' <=> \E c \in Callers : call'[c].op = "create" /\ call'[c].token = t
  BY DEF Pending

\* Which fields a call has.
LEMMA CallFields ==
    ASSUME StoreTypeOK, NEW c \in Callers
    PROVE  /\ call[c].op \in {"create", "revoke", "none"}
           /\ call[c].op = "create" =>
                 /\ call[c].player \in PlayerIds /\ call[c].token \in TokenStrings
                 /\ call[c].sent \in Nat /\ call[c].ttl \in Nat
           /\ call[c].op = "revoke" => call[c].player \in PlayerIds
  BY DEF StoreTypeOK, Call

\* An entry of the right type.
LEMMA DeadlineNat ==
    ASSUME StoreTypeOK, NEW k, k.sent \in Nat, k.ttl \in Nat
    PROVE  Deadline(k) \in Nat
  BY DEF Deadline, StoreTypeOK

-----------------------------------------------------------------------------
\* The fields and the initial values satisfy the invariant.
LEMMA StoreInvInit == StoreInit => StoreInv
<1> SUFFICES ASSUME StoreInit PROVE StoreInv
  OBVIOUS
<1>1. StoreTypeOK
  BY StoreAssumptions DEF StoreInit, StoreTypeOK, NoEntry, NoIndex, Call
<1>2. Pending = {}
  BY PendingDef DEF StoreInit
<1>3. DrawnOnce
  BY <1>2 DEF DrawnOnce, StoreInit
<1>4. StoredIsSpent /\ OwnTokens
  BY DEF StoredIsSpent, OwnTokens, StoreInit, NoEntry, NoIndex
<1>5. Covered
  BY StoreAssumptions DEF Covered, StoreInit, NoEntry
<1> QED
  BY <1>1, <1>3, <1>4, <1>5 DEF StoreInv

\* A call that is sent or lost touches no session.
LEMMA CallCreateKeeps ==
    ASSUME StoreInv, NEW c \in Callers, NEW p \in PlayerIds, NEW ttl \in Ttls,
           CallCreate(c, p, ttl)
    PROVE  StoreInv' /\ issued' \ Pending' = issued \ Pending
<1> PICK t \in TokenStrings \ issued :
          /\ issued' = issued \cup {t}
          /\ call' = [call EXCEPT ![c] = [op |-> "create", player |-> p, token |-> t,
                                          sent |-> now, ttl |-> ttl]]
  BY Zenon DEF CallCreate
<1> UNCHANGED <<backend, now, tokens, index>> /\ call[c].op = "none"
  BY DEF CallCreate
<1> StoreTypeOK
  BY DEF StoreInv
<1>1. StoreTypeOK'
  BY StoreAssumptions DEF StoreTypeOK, Call
<1>2. Pending' = Pending \cup {t}
  <2>1. \A u : u \in Pending' <=> u = t \/ u \in Pending
    BY PendingDef, PendingDefNext DEF StoreTypeOK
  <2> QED
    BY <2>1
<1>3. DrawnOnce'
  BY <1>2, PendingDef DEF StoreInv, DrawnOnce, StoreTypeOK
<1>4. issued' \ Pending' = issued \ Pending
  BY <1>2, PendingDef DEF StoreInv, DrawnOnce
<1>5. StoredIsSpent' /\ OwnTokens'
  BY <1>4 DEF StoreInv, StoredIsSpent, OwnTokens
<1>6. Covered'
  BY DEF StoreInv, Covered, Live
<1> QED
  BY <1>1, <1>3, <1>4, <1>5, <1>6 DEF StoreInv

\* The same for revoke_player.
LEMMA CallRevokeKeeps ==
    ASSUME StoreInv, NEW c \in Callers, NEW p \in PlayerIds, CallRevoke(c, p)
    PROVE  StoreInv' /\ issued' \ Pending' = issued \ Pending
<1> /\ call[c].op = "none"
    /\ call' = [call EXCEPT ![c] = [op |-> "revoke", player |-> p]]
    /\ UNCHANGED <<backend, now, tokens, index, issued>>
  BY DEF CallRevoke
<1> StoreTypeOK
  BY DEF StoreInv
<1>1. StoreTypeOK'
  BY DEF StoreTypeOK, Call
<1>2. Pending' = Pending
  <2>1. \A u : u \in Pending' <=> u \in Pending
    BY PendingDef, PendingDefNext DEF StoreTypeOK
  <2> QED
    BY <2>1, Zenon
<1>3. DrawnOnce'
  BY <1>2 DEF StoreInv, DrawnOnce, StoreTypeOK
<1>4. StoredIsSpent' /\ OwnTokens'
  BY <1>2 DEF StoreInv, StoredIsSpent, OwnTokens
<1>5. Covered'
  BY DEF StoreInv, Covered, Live
<1> QED
  BY <1>1, <1>2, <1>3, <1>4, <1>5 DEF StoreInv

\* A caller's slot is free again: if it was a create, its token is spent.
LEMMA CallEnds ==
    ASSUME StoreInv, NEW c \in Callers, call' = [call EXCEPT ![c] = [op |-> "none"]],
           issued' = issued
    PROVE  /\ call' \in [Callers -> Call]
           /\ DrawnOnce'
           /\ issued \ Pending \subseteq issued' \ Pending'
           /\ call[c].op = "create" =>
                 /\ call[c].token \in issued \cap Pending
                 /\ issued' \ Pending' = (issued \ Pending) \cup {call[c].token}
           /\ call[c].op # "create" => issued' \ Pending' = issued \ Pending
<1> StoreTypeOK /\ DrawnOnce
  BY DEF StoreInv
<1>1. call' \in [Callers -> Call]
  BY DEF StoreTypeOK, Call
<1>2. \A d \in Callers : call'[d] = IF d = c THEN [op |-> "none"] ELSE call[d]
  BY DEF StoreTypeOK
<1>3. \A u : u \in Pending' <=> \E d \in Callers \ {c} : call[d].op = "create" /\ call[d].token = u
  BY <1>2, PendingDefNext
<1>4. \A u : u \in Pending' => u \in Pending
  BY <1>3, PendingDef
<1>5. DrawnOnce'
  BY <1>2, <1>4 DEF DrawnOnce
<1>6. ASSUME call[c].op = "create"
      PROVE  call[c].token \in Pending /\ \A u : u \in Pending' <=> u \in Pending /\ u # call[c].token
  BY <1>3, <1>6, PendingDef DEF DrawnOnce
<1>7. ASSUME call[c].op # "create"
      PROVE  \A u : u \in Pending' <=> u \in Pending
  BY <1>3, <1>7, PendingDef
<1> QED
  BY <1>1, <1>4, <1>5, <1>6, <1>7 DEF DrawnOnce

\* A call that is lost leaves the store as it is.
LEMMA LostKeeps ==
    ASSUME StoreInv, NEW c \in Callers, Lost(c)
    PROVE  StoreInv'
<1> /\ call' = [call EXCEPT ![c] = [op |-> "none"]]
    /\ UNCHANGED <<backend, now, tokens, index, issued>>
  BY DEF Lost
<1>1. StoreTypeOK'
  BY CallEnds, Zenon DEF StoreInv, StoreTypeOK
<1>2. DrawnOnce'
  BY CallEnds, Zenon
<1>3. StoredIsSpent' /\ OwnTokens'
  BY CallEnds, Zenon DEF StoreInv, StoredIsSpent, OwnTokens
<1>4. Covered'
  BY DEF StoreInv, Covered, Live
<1> QED
  BY <1>1, <1>2, <1>3, <1>4 DEF StoreInv

\* What Purged leaves.
LEMMA PurgedEntry ==
    ASSUME StoreInv, NEW p \in PlayerIds, NEW t \in TokenStrings
    PROVE  /\ Purged(p)[t] = NoEntry \/ Purged(p)[t] = tokens[t]
           /\ tokens[t].player \notin {p, Nobody} => Purged(p)[t] = tokens[t]
           /\ tokens[t].player = p /\ Live(tokens[t]) => Purged(p)[t] = NoEntry
<1>1. tokens[t].player \notin {p, Nobody} => t \notin Indexed(p)
  BY DEF StoreInv, OwnTokens, Indexed
<1>2. ASSUME tokens[t].player = p, Live(tokens[t]) PROVE t \in Indexed(p)
  <2>1. index[p].tokens = {t} /\ index[p].until = tokens[t].until
    BY <1>2 DEF StoreInv, Covered
  <2>2. Live(index[p])
    BY <1>2, <2>1 DEF Live
  <2> QED
    BY <2>1, <2>2 DEF Indexed
<1> QED
  BY <1>1, <1>2 DEF Purged

\* create: the critical section, or the script.
LEMMA StoredKeeps ==
    ASSUME StoreInv, NEW c \in Callers, call[c].op = "create", Stored(call[c]),
           call' = [call EXCEPT ![c] = [op |-> "none"]], UNCHANGED <<backend, now, issued>>
    PROVE  StoreInv'
<1> DEFINE k == call[c]
           e == [player |-> k.player, until |-> Deadline(k)]
<1> /\ StoreTypeOK
    /\ k.player \in PlayerIds /\ k.token \in TokenStrings /\ e.until \in Nat
  BY CallFields, DeadlineNat DEF StoreInv
<1>1. \A t \in TokenStrings : tokens'[t] = IF t = k.token THEN e ELSE Purged(k.player)[t]
  BY DEF Stored, Purged
<1>2. \A p \in PlayerIds : index'[p] = IF p = k.player THEN [tokens |-> {k.token}, until |-> Deadline(k)]
                                      ELSE index[p]
  BY DEF Stored, StoreTypeOK
<1>3. k.token \in Pending /\ k.token \in issued' \ Pending' /\ issued \ Pending \subseteq issued' \ Pending'
  BY CallEnds, Zenon
<1>4. StoreTypeOK'
  <2>1. tokens' \in [TokenStrings -> [player : PlayerIds \cup {Nobody}, until : Nat]]
    <3>1. NoEntry \in [player : PlayerIds \cup {Nobody}, until : Nat]
      BY DEF NoEntry
    <3>2. \A t \in TokenStrings : tokens'[t] \in [player : PlayerIds \cup {Nobody}, until : Nat]
      BY <1>1, <3>1, PurgedEntry DEF StoreTypeOK
    <3>3. tokens' = [t \in TokenStrings |-> tokens'[t]]
      BY Zenon DEF Stored, Purged
    <3> QED
      BY <3>2, <3>3
  <2>2. index' \in [PlayerIds -> [tokens : SUBSET TokenStrings, until : Nat]]
    BY DEF Stored, StoreTypeOK
  <2> QED
    BY <2>1, <2>2, CallEnds, Zenon DEF StoreTypeOK
<1>5. DrawnOnce'
  BY CallEnds, Zenon
<1>6. StoredIsSpent'
  <2>1. \A t \in TokenStrings : tokens'[t].player # Nobody => t \in issued' \ Pending'
    BY <1>1, <1>3, PurgedEntry DEF StoreInv, StoredIsSpent, NoEntry
  <2>2. \A p \in PlayerIds : index'[p].tokens \subseteq issued' \ Pending'
    BY <1>2, <1>3 DEF StoreInv, StoredIsSpent
  <2> QED
    BY <2>1, <2>2 DEF StoredIsSpent
<1>7. OwnTokens'
  <2> SUFFICES ASSUME NEW p \in PlayerIds, NEW t \in index'[p].tokens
               PROVE  tokens'[t].player \in {p, Nobody}
    BY DEF OwnTokens
  <2>1. CASE p = k.player
    BY <2>1, <1>1, <1>2
  <2>2. CASE p # k.player
    <3>1. t \in index[p].tokens /\ t # k.token /\ t \in TokenStrings
      BY <2>2, <1>2, <1>3 DEF StoreInv, StoredIsSpent, StoreTypeOK
    <3> QED
      BY <3>1, <1>1, PurgedEntry DEF StoreInv, OwnTokens, NoEntry
  <2> QED
    BY <2>1, <2>2
<1>8. Covered'
  <2> SUFFICES ASSUME NEW t \in TokenStrings, NEW p \in PlayerIds,
                      tokens'[t].player = p, Live(tokens'[t])
               PROVE  index'[p].tokens = {t} /\ index'[p].until = tokens'[t].until
    BY DEF Covered, Live
  <2>1. CASE t = k.token
    BY <2>1, <1>1, <1>2
  <2>2. CASE t # k.token
    <3>1. tokens'[t] = tokens[t]
      BY <2>2, <1>1, PurgedEntry, StoreAssumptions DEF NoEntry
    <3>2. p # k.player
      BY <3>1, <2>2, <1>1, PurgedEntry, StoreAssumptions DEF NoEntry
    <3> QED
      BY <3>1, <3>2, <1>2 DEF StoreInv, Covered
  <2> QED
    BY <2>1, <2>2
<1> QED
  BY <1>4, <1>5, <1>6, <1>7, <1>8 DEF StoreInv

\* revoke_player.
LEMMA RevokedKeeps ==
    ASSUME StoreInv, NEW c \in Callers, call[c].op = "revoke", Revoked(call[c]),
           call' = [call EXCEPT ![c] = [op |-> "none"]], UNCHANGED <<backend, now, issued>>
    PROVE  StoreInv'
<1> DEFINE q == call[c].player
<1> StoreTypeOK /\ q \in PlayerIds
  BY CallFields DEF StoreInv
<1>1. tokens' = Purged(q)
  BY DEF Revoked
<1>2. \A p \in PlayerIds : index'[p] = IF p = q THEN NoIndex ELSE index[p]
  BY DEF Revoked, StoreTypeOK
<1>3. issued' \ Pending' = issued \ Pending
  BY CallEnds, Zenon
<1>4. StoreTypeOK'
  <2>1. NoEntry \in [player : PlayerIds \cup {Nobody}, until : Nat]
    BY DEF NoEntry
  <2>2. tokens' \in [TokenStrings -> [player : PlayerIds \cup {Nobody}, until : Nat]]
    BY <1>1, <2>1 DEF Purged, StoreTypeOK
  <2>3. index' \in [PlayerIds -> [tokens : SUBSET TokenStrings, until : Nat]]
    BY DEF Revoked, StoreTypeOK, NoIndex
  <2> QED
    BY <2>2, <2>3, CallEnds, Zenon DEF StoreTypeOK
<1>5. DrawnOnce'
  BY CallEnds, Zenon
<1>6. StoredIsSpent'
  BY <1>1, <1>2, <1>3, PurgedEntry DEF StoreInv, StoredIsSpent, NoEntry, NoIndex
<1>7. OwnTokens'
  BY <1>1, <1>2, PurgedEntry DEF StoreInv, OwnTokens, NoEntry, NoIndex, StoreTypeOK
<1>8. Covered'
  <2> SUFFICES ASSUME NEW t \in TokenStrings, NEW p \in PlayerIds,
                      tokens'[t].player = p, Live(tokens'[t])
               PROVE  index'[p].tokens = {t} /\ index'[p].until = tokens'[t].until
    BY DEF Covered, Live
  <2>1. tokens'[t] = tokens[t] /\ p # q
    BY <1>1, PurgedEntry, StoreAssumptions DEF NoEntry
  <2> QED
    BY <2>1, <1>2 DEF StoreInv, Covered
<1> QED
  BY <1>4, <1>5, <1>6, <1>7, <1>8 DEF StoreInv

\* live_tokens and the clock: entries go, or nothing does, and what is over
\* stays over.
LEMMA TimeKeeps ==
    ASSUME StoreInv, live_tokens \/ Tick
    PROVE  /\ StoreInv' /\ issued' \ Pending' = issued \ Pending
           /\ \A t \in TokenStrings :
                 /\ tokens'[t] = tokens[t] \/ (tokens'[t] = NoEntry /\ ~Live(tokens[t]))
                 /\ Live(tokens[t])' /\ tokens'[t] = tokens[t] => Live(tokens[t])
<1> StoreTypeOK
  BY DEF StoreInv
<1>1. UNCHANGED <<backend, index, issued, call>> /\ now' \in Nat /\ now' >= now
  BY DEF live_tokens, Tick, StoreTypeOK
<1>2. /\ tokens' \in [TokenStrings -> [player : PlayerIds \cup {Nobody}, until : Nat]]
      /\ \A t \in TokenStrings :
            tokens'[t] = tokens[t] \/ (tokens'[t] = NoEntry /\ ~Live(tokens[t]))
  BY DEF live_tokens, Tick, StoreTypeOK, NoEntry
<1>3. \A t \in TokenStrings : Live(tokens[t])' /\ tokens'[t] = tokens[t] => Live(tokens[t])
  BY <1>1, <1>2 DEF Live, StoreTypeOK
<1>4. StoreTypeOK'
  BY <1>1, <1>2 DEF StoreTypeOK
<1>5. Pending' = Pending
  BY <1>1 DEF Pending
<1>6. DrawnOnce'
  BY <1>1, <1>5 DEF StoreInv, DrawnOnce
<1>7. StoredIsSpent' /\ OwnTokens'
  BY <1>1, <1>2, <1>5 DEF StoreInv, StoredIsSpent, OwnTokens, NoEntry, StoreTypeOK
<1>8. Covered'
  BY <1>1, <1>2, <1>3, StoreAssumptions DEF StoreInv, Covered, NoEntry
<1> QED
  BY <1>1, <1>2, <1>3, <1>4, <1>5, <1>6, <1>7, <1>8 DEF StoreInv

\* Every step keeps the invariant.
LEMMA StoreInvNext == StoreInv /\ [StoreNext]_storeVars => StoreInv'
<1> SUFFICES ASSUME StoreInv, [StoreNext]_storeVars PROVE StoreInv'
  OBVIOUS
<1>1. ASSUME NEW c \in Callers, Execute(c) PROVE StoreInv'
  BY <1>1, StoredKeeps, RevokedKeeps, Zenon DEF Execute
<1>2. CASE UNCHANGED storeVars
  <2> UNCHANGED <<backend, now, tokens, index, issued, call>>
    BY <1>2 DEF storeVars
  <2>1. StoreTypeOK'
    BY DEF StoreInv, StoreTypeOK
  <2>2. Pending' = Pending
    BY DEF Pending
  <2>3. DrawnOnce' /\ StoredIsSpent' /\ OwnTokens'
    BY <2>2 DEF StoreInv, DrawnOnce, StoredIsSpent, OwnTokens
  <2>4. Covered'
    BY DEF StoreInv, Covered, Live
  <2> QED
    BY <2>1, <2>3, <2>4 DEF StoreInv
<1> QED
  BY <1>1, <1>2, CallCreateKeeps, CallRevokeKeeps, LostKeeps, TimeKeeps DEF StoreNext

\* The index knows every valid token (memory_token_store.rs, redis_token_store.rs).
LEMMA CoversTokens == StoreInv => IndexCovers
<1> SUFFICES ASSUME StoreInv, NEW t \in TokenStrings, NEW p \in PlayerIds, p \in resolve(t)
             PROVE  Indexed(p) = {t}
  BY DEF IndexCovers, resolve
<1>1. index[p].tokens = {t} /\ index[p].until = tokens[t].until /\ Live(tokens[t])
  BY DEF StoreInv, Covered, resolve
<1> QED
  BY <1>1 DEF Indexed, Live

\* For any players, tokens, callers and times to live, and in both stores: the
\* state has its type, and the index that create and revoke_player go by knows
\* every valid token.
THEOREM StoreCorrect == StoreSpec => [](StoreTypeOK /\ IndexCovers)
<1>1. StoreSpec => []StoreInv
  BY StoreInvInit, StoreInvNext, PTL DEF StoreSpec
<1>2. StoreInv => StoreTypeOK /\ IndexCovers
  BY CoversTokens DEF StoreInv
<1> QED
  BY <1>1, <1>2, PTL

-----------------------------------------------------------------------------
(***************************************************************************)
(* Refinement.                                                             *)
(***************************************************************************)

\* The sessions of a player, as SessionTokens sees them.
SessionOf(p) == {t \in TokenStrings : p \in resolve(t)}

\* resolve: who has which session.
LEMMA SessionMember ==
    ASSUME NEW p \in PlayerIds, NEW t \in TokenStrings
    PROVE  t \in SessionOf(p) <=> tokens[t].player = p /\ Live(tokens[t])
  BY DEF SessionOf, resolve

\* A player has one session at most.
LEMMA OneSession ==
    ASSUME StoreInv, NEW p \in PlayerIds, NEW t \in SessionOf(p)
    PROVE  SessionOf(p) = {t}
  BY SessionMember DEF StoreInv, Covered, SessionOf

\* A create that takes effect ends the player's session and may begin a new one;
\* it leaves those of others.
LEMMA StoredCreates ==
    ASSUME StoreInv, NEW c \in Callers, call[c].op = "create", Stored(call[c]),
           call' = [call EXCEPT ![c] = [op |-> "none"]], UNCHANGED <<backend, now, issued>>
    PROVE  \A p \in PlayerIds :
              IF p = call[c].player THEN SessionOf(p)' \in {{}, {call[c].token}}
              ELSE SessionOf(p)' = SessionOf(p)
<1> DEFINE k == call[c]
           e == [player |-> k.player, until |-> Deadline(k)]
<1> /\ StoreTypeOK /\ StoreInv'
    /\ k.player \in PlayerIds /\ k.token \in TokenStrings
  BY CallFields, StoredKeeps, Zenon DEF StoreInv
<1>1. \A t \in TokenStrings : tokens'[t] = IF t = k.token THEN e ELSE Purged(k.player)[t]
  BY DEF Stored, Purged
<1>2. tokens[k.token].player = Nobody
  <2>1. k.token \in Pending
    BY CallEnds, Zenon
  <2> QED
    BY <2>1 DEF StoreInv, StoredIsSpent
<1>3. \A t \in TokenStrings : Live(tokens[t])' <=> Live(tokens'[t])
  BY DEF Live
<1>4. ASSUME NEW t \in TokenStrings, tokens'[t].player = k.player, Live(tokens'[t])
      PROVE  t = k.token
  BY <1>1, <1>4, PurgedEntry, StoreAssumptions DEF NoEntry
<1>5. ASSUME NEW p \in PlayerIds \ {k.player}, NEW t \in TokenStrings
      PROVE  tokens'[t].player = p /\ Live(tokens'[t]) <=> tokens[t].player = p /\ Live(tokens[t])
  BY <1>1, <1>2, PurgedEntry, StoreAssumptions DEF NoEntry
<1>6. \A p \in PlayerIds, t \in TokenStrings :
         t \in SessionOf(p)' <=> tokens'[t].player = p /\ Live(tokens'[t])
  BY <1>3 DEF SessionOf, resolve
<1>7. ASSUME NEW p \in PlayerIds, p = k.player PROVE SessionOf(p)' \subseteq {k.token}
  BY <1>4, <1>6, <1>7 DEF SessionOf
<1>8. ASSUME NEW p \in PlayerIds \ {k.player} PROVE SessionOf(p)' = SessionOf(p)
  BY <1>5, <1>6, SessionMember DEF SessionOf
<1> QED
  BY <1>7, <1>8

\* revoke_player ends the player's session and no other.
LEMMA RevokedEnds ==
    ASSUME StoreInv, NEW c \in Callers, call[c].op = "revoke", Revoked(call[c]),
           UNCHANGED <<backend, now>>
    PROVE  \A p \in PlayerIds :
              SessionOf(p)' = IF p = call[c].player THEN {} ELSE SessionOf(p)
<1> DEFINE q == call[c].player
<1> StoreTypeOK /\ q \in PlayerIds
  BY CallFields DEF StoreInv
<1>1. tokens' = Purged(q)
  BY DEF Revoked
<1>2. \A p \in PlayerIds, t \in TokenStrings :
         t \in SessionOf(p)' <=> tokens'[t].player = p /\ Live(tokens'[t])
  BY DEF SessionOf, resolve, Live
<1>3. ASSUME NEW t \in TokenStrings PROVE ~(tokens'[t].player = q /\ Live(tokens'[t]))
  BY <1>1, PurgedEntry, StoreAssumptions DEF NoEntry
<1>4. ASSUME NEW p \in PlayerIds \ {q}, NEW t \in TokenStrings
      PROVE  tokens'[t].player = p /\ Live(tokens'[t]) <=> tokens[t].player = p /\ Live(tokens[t])
  BY <1>1, PurgedEntry, StoreAssumptions DEF NoEntry
<1>5. ASSUME NEW p \in PlayerIds, p = q PROVE SessionOf(p)' = {}
  BY <1>2, <1>3, <1>5 DEF SessionOf
<1>6. ASSUME NEW p \in PlayerIds \ {q} PROVE SessionOf(p)' = SessionOf(p)
  BY <1>2, <1>4, SessionMember DEF SessionOf
<1> QED
  BY <1>5, <1>6

\* Time only ends sessions.
LEMMA TimeEnds ==
    ASSUME StoreInv, live_tokens \/ Tick, NEW p \in PlayerIds
    PROVE  SessionOf(p)' \in {{}, SessionOf(p)}
<1>1. SessionOf(p)' \subseteq SessionOf(p)
  <2> SUFFICES ASSUME NEW t \in TokenStrings, tokens'[t].player = p, Live(tokens[t])'
               PROVE  t \in SessionOf(p)
    BY DEF SessionOf, resolve
  <2> QED
    BY TimeKeeps, SessionMember, StoreAssumptions DEF NoEntry
<1> QED
  BY <1>1, OneSession

\* Each step of a store is a step of SessionTokens or leaves its variables alone.
LEMMA StepSimulated ==
    ASSUME StoreInv, [StoreNext]_storeVars
    PROVE  [Sessions!SessionNext]_(Sessions!sessionVars)
<1> DEFINE session == [p \in PlayerIds |-> SessionOf(p)]
           spent == issued \ Pending
<1>a. /\ Sessions!sessionVars = <<session, spent>>
      /\ Sessions!sessionVars' = <<session', spent'>>
  BY DEF Sessions!sessionVars, SessionOf
<1>b. \A p \in PlayerIds : session[p] = SessionOf(p) /\ session'[p] = SessionOf(p)'
  OBVIOUS
<1>1. ASSUME UNCHANGED <<backend, now, tokens>>, spent' = spent
      PROVE  UNCHANGED Sessions!sessionVars
  <2>1. \A p \in PlayerIds : SessionOf(p)' = SessionOf(p)
    BY <1>1 DEF SessionOf, resolve, Live
  <2> QED
    BY <1>a, <1>1, <2>1
<1>2. ASSUME NEW c \in Callers, NEW p \in PlayerIds,
             CallRevoke(c, p) \/ \E ttl \in Ttls : CallCreate(c, p, ttl)
      PROVE  UNCHANGED Sessions!sessionVars
  BY <1>1, <1>2, CallCreateKeeps, CallRevokeKeeps DEF CallCreate, CallRevoke
<1>3. ASSUME NEW c \in Callers, call[c].op = "create", Stored(call[c]), Execute(c)
      PROVE  Sessions!SessionNext
  <2> DEFINE k == call[c]
  <2>1. /\ call' = [call EXCEPT ![c] = [op |-> "none"]] /\ UNCHANGED <<backend, now, issued>>
        /\ k.player \in PlayerIds /\ k.token \in TokenStrings
    BY <1>3, CallFields DEF Execute, StoreInv
  <2>2. k.token \in TokenStrings \ spent /\ spent' = spent \cup {k.token}
    BY <1>3, <2>1, CallEnds, Zenon
  <2>3. \/ session' = [session EXCEPT ![k.player] = {k.token}]
        \/ session' = [session EXCEPT ![k.player] = {}]
    <3>1. \A p \in PlayerIds : IF p = k.player THEN SessionOf(p)' \in {{}, {k.token}}
                              ELSE SessionOf(p)' = SessionOf(p)
      BY <1>3, <2>1, StoredCreates, Zenon
    <3> QED
      BY <2>1, <3>1, Zenon
  <2>4. \A p \in PlayerIds, t \in TokenStrings :
           p = k.player /\ t = k.token => Sessions!create(p, t)
    BY <2>2, <2>3 DEF Sessions!create, Sessions!Spend, SessionOf
  <2> QED
    BY <2>1, <2>4 DEF Sessions!SessionNext
<1>4. ASSUME NEW c \in Callers, call[c].op = "revoke", Revoked(call[c]), Execute(c)
      PROVE  Sessions!SessionNext
  <2>1. /\ call' = [call EXCEPT ![c] = [op |-> "none"]] /\ UNCHANGED <<backend, now, issued>>
        /\ call[c].player \in PlayerIds
    BY <1>4, CallFields DEF Execute, StoreInv
  <2>2. spent' = spent
    BY <1>4, <2>1, CallEnds, Zenon
  <2>3. session' = [p \in PlayerIds |-> IF p \in {call[c].player} THEN {} ELSE session[p]]
    BY <1>4, <2>1, RevokedEnds
  <2>4. Sessions!EndSessions({call[c].player})
    BY <2>2, <2>3 DEF Sessions!EndSessions, SessionOf
  <2> QED
    BY <2>1, <2>4 DEF Sessions!SessionNext
<1>5. ASSUME NEW c \in Callers, Lost(c)
      PROVE  Sessions!SessionNext \/ UNCHANGED Sessions!sessionVars
  <2>1. /\ call' = [call EXCEPT ![c] = [op |-> "none"]]
        /\ UNCHANGED <<backend, now, tokens, index, issued>>
    BY <1>5 DEF Lost
  <2>2. CASE call[c].op = "create"
    <3>1. /\ call[c].token \in TokenStrings \ spent
          /\ spent' = spent \cup {call[c].token}
      BY <2>1, <2>2, CallEnds, CallFields, Zenon DEF StoreInv
    <3>2. session' = session
      BY <2>1 DEF SessionOf, resolve, Live
    <3>3. Sessions!CreateLost(call[c].token)
      BY <3>1, <3>2 DEF Sessions!CreateLost, Sessions!Spend, SessionOf
    <3> QED
      BY <3>1, <3>3 DEF Sessions!SessionNext
  <2>3. CASE call[c].op # "create"
    BY <1>1, <2>1, <2>3, CallEnds, Zenon
  <2> QED
    BY <2>2, <2>3
<1>6. ASSUME live_tokens \/ Tick PROVE Sessions!SessionNext
  <2> DEFINE ps == {p \in PlayerIds : SessionOf(p)' = {}}
  <2>1. spent' = spent
    BY <1>6, TimeKeeps
  <2>2. session' = [p \in PlayerIds |-> IF p \in ps THEN {} ELSE session[p]]
    BY <1>6, TimeEnds
  <2>3. Sessions!EndSessions(ps)
    BY <2>1, <2>2 DEF Sessions!EndSessions, SessionOf
  <2> QED
    BY <2>3 DEF Sessions!SessionNext
<1>7. CASE UNCHANGED storeVars
  <2>1. spent' = spent /\ UNCHANGED <<backend, now, tokens>>
    BY <1>7 DEF storeVars, Pending
  <2> QED
    BY <1>1, <2>1
<1> QED
  BY <1>2, <1>3, <1>4, <1>5, <1>6, <1>7 DEF StoreNext, Execute

\* For any players, tokens, callers and times to live, InMemoryTokenStore and
\* RedisTokenStore keep the promise of SessionTokenStore (ports.rs): a player has
\* one valid token at most, a new one replaces the old one in one step, and a
\* token that ended stays invalid.
THEOREM StoreRefines == StoreSpec => StoreImplementsSessions
<1>1. StoreInit => Sessions!SessionInit
  <2> SUFFICES ASSUME StoreInit PROVE Sessions!SessionInit
    OBVIOUS
  <2>1. issued \ Pending = {}
    BY DEF StoreInit
  <2>2. \A p \in PlayerIds, t \in TokenStrings : p \notin resolve(t)
    BY StoreAssumptions DEF StoreInit, resolve, NoEntry
  <2> QED
    BY <2>1, <2>2 DEF Sessions!SessionInit
<1>2. StoreSpec => []StoreInv
  BY StoreInvInit, StoreInvNext, PTL DEF StoreSpec
<1> QED
  BY <1>1, <1>2, StepSimulated, PTL DEF StoreSpec, StoreImplementsSessions, Sessions!SessionSpec
=============================================================================
