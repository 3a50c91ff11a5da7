------------------------------ MODULE MCServer ------------------------------
(***************************************************************************)
(* Two server processes with a host and a database in common; or, inside   *)
(* one process that is up, two accept workers and four clients, three of   *)
(* them behind one IP.  Each model is at work while the other is over.     *)
(***************************************************************************)
EXTENDS Lifecycle, Admission

CONSTANTS c1, c2, c3, c4, i1, i2

MCIpOf == [c \in Clients |-> IF c = c4 THEN i2 ELSE i1]

\* As it is; with a redirect to a port that the kernel chooses; and with values
\* that are refused when they are parsed, by validate or later, or, from half the
\* range on, not at all.
MCEnvs ==
    {<<>>,
     ("SERVER_HTTP_BIND_ADDR" :> 0) @@ ("SERVER_HTTP_REDIRECT_ADDR" :> 80),
     "SERVER_HEARTBEAT_INTERVAL_SECS" :> 31,
     "SERVER_HEARTBEAT_INTERVAL_SECS" :> 2^(Width - 1),
     "SERVER_CHANNEL_PER_ROOM_SIZE" :> 0,
     "APP_PASSWORD_MEMORY_KB" :> 31,
     "REDIS_POOL_MAX_SIZE" :> NotANumber}

ServerInit ==
    \/ LifecycleInit /\ AdmissionIdle /\ worker = [w \in Workers |-> "done"] /\ stop = TRUE
    \/ LifecycleIdle /\ starts = MaxStarts /\ AdmissionInit

ServerNext ==
    \/ LifecycleNext /\ UNCHANGED admissionVars
    \/ AdmissionNext /\ UNCHANGED lifeVars

ServerSpec ==
    /\ ServerInit
    /\ [][ServerNext]_<<lifeVars, admissionVars>>
    /\ LifecycleFairness /\ AdmissionFairness
=============================================================================
