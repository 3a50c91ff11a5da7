---------------------------- MODULE SessionTokens ----------------------------
(***************************************************************************)
(* What SessionTokenStore promises (crates/application/src/ports.rs): a    *)
(* player has at most one valid token.  A new one replaces the old one in  *)
(* one step, a token that ended never becomes valid again, and no token    *)
(* changes its owner.                                                      *)
(***************************************************************************)
EXTENDS Naturals

CONSTANTS Players, Tokens

VARIABLES
    session,  \* the tokens of a player that resolve: none or one
    spent     \* the tokens whose create has taken effect or has failed

sessionVars == <<session, spent>>

SessionInit ==
    /\ session = [p \in Players |-> {}]
    /\ spent = {}

Spend(t) ==
    /\ t \in Tokens \ spent
    /\ spent' = spent \cup {t}

\* create takes effect; random_token never returns the same token twice.  With
\* a short time to live the new token may be over before anyone can use it.
create(p, t) ==
    /\ Spend(t)
    /\ \/ session' = [session EXCEPT ![p] = {t}]
       \/ session' = [session EXCEPT ![p] = {}]

\* create failed before it had an effect.
CreateLost(t) == Spend(t) /\ UNCHANGED session

\* Sessions end: revoke_player, or their time is over.
EndSessions(ps) ==
    /\ session' = [p \in Players |-> IF p \in ps THEN {} ELSE session[p]]
    /\ UNCHANGED spent

\* resolve: whose valid token t is.
Owners(t) == {p \in Players : t \in session[p]}

SessionNext ==
    \/ \E p \in Players, t \in Tokens : create(p, t)
    \/ \E t \in Tokens : CreateLost(t)
    \/ \E ps \in SUBSET Players : EndSessions(ps)

SessionSpec == SessionInit /\ [][SessionNext]_sessionVars
=============================================================================
