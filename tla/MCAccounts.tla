----------------------------- MODULE MCAccounts -----------------------------
(***************************************************************************)
(* Small instances of Accounts and of TokenStore.  The requests of the     *)
(* first see of the second only what SessionTokens says, so the two are    *)
(* explored side by side: a behaviour belongs to one of them.              *)
(***************************************************************************)
EXTENDS Accounts, TokenStore

CONSTANTS seed, bob

VARIABLE part   \* "accounts" or "tokens"

mcVars == <<accountVars, storeVars, part>>

Text(n, v) == [len |-> n, allowed |-> TRUE, value |-> v]

\* One good registration and one whose password is too short.
MCRegisterInputs ==
    {[name |-> Text(3, bob), nick |-> Text(32, bob), password |-> Text(n, bob)] : n \in {7, 8}}

\* The seeded player with the right and a wrong password, the one that may be
\* registered, and a name that is too long.
MCLoginInputs ==
    {[name |-> Text(32, seed), password |-> Text(8, v)] : v \in {seed, bob}}
      \cup {[name |-> Text(3, bob), password |-> Text(8, bob)],
            [name |-> Text(33, seed), password |-> Text(8, seed)]}

MCInit ==
    /\ AccountsInit
    /\ StoreInit
    /\ part \in {"accounts", "tokens"}
    /\ part = "accounts" => backend = "memory"
    /\ part = "tokens" => store = "memory"

MCNext ==
    \/ part = "accounts" /\ AccountsNext /\ UNCHANGED <<storeVars, part>>
    \/ part = "tokens" /\ StoreNext /\ UNCHANGED <<accountVars, part>>

MCSpec ==
    /\ MCInit
    /\ [][MCNext]_mcVars
    /\ \A q \in Requests : WF_accountVars(Proceed(q))
=============================================================================
