------------------------------ MODULE Accounts ------------------------------
(***************************************************************************)
(* Registration, login, experience and the use of session tokens: the use  *)
(* cases of crates/application with the database, the password workers and *)
(* the token store below them, and the HTTP handlers and the TCP Bind that *)
(* call them.                                                              *)
(*                                                                         *)
(* A request goes from await to await.  At each it may be dropped: then    *)
(* nobody waits any more, but a command that is on its way, or a password  *)
(* computation, still ends in its own time.  A command may fail, and its   *)
(* reply may be lost after it took effect.  The token store is the one     *)
(* that SessionTokens promises.                                            *)
(***************************************************************************)
EXTENDS Domain, SessionTokens, FiniteSets, FiniteSetsExt

CONSTANTS Requests,        \* each is one request; its name is also the id of the
                           \* account, player or token it makes
          RegisterInputs, LoginInputs, Amounts,
          MaxPermits,      \* APP_PASSWORD_MAX_CONCURRENCY
          MaxModerations   \* bound: how often operators change a status

ASSUME AccountsAssumptions ==
    /\ Requests \subseteq Players
    /\ Requests \subseteq Tokens
    /\ MaxPermits \in Nat \ {0}

VARIABLES
    store,     \* "sea" or "memory": the repositories in use
    accounts,  \* committed rows, or None
    players,   \* committed rows, or None
    permits,   \* free permits of the password semaphore
    request,   \* what each request asks for and where it is
    clock,     \* orders the times that logins take
    granted,   \* auxiliary: the requests whose experience was committed
    moderations

\* What only commands to the database change, and what they leave alone.
dbVars == <<accounts, players, granted>>
envVars == <<store, moderations>>
accountVars == <<dbVars, envVars, permits, request, clock, sessionVars>>

OnlyRequest == UNCHANGED <<dbVars, envVars, permits, clock, sessionVars>>

Seeds == Players \ Requests

-----------------------------------------------------------------------------
(***************************************************************************)
(* How a request moves.                                                    *)
(***************************************************************************)
Becomes(q, r) == request' = [request EXCEPT ![q] = r]
At(q, pc) == request[q].pc = pc
Going(q, pc) == [request[q] EXCEPT !.pc = pc]
Answering(q, a) ==
    [request[q] EXCEPT !.pc = "over", !.row = None, !.at = 0, !.moderated = {},
                       !.answer = IF request[q].waiting THEN a ELSE "none"]

\* Mutant of Returns: what was dropped is never cleaned up.
ReturnsToWaiting(q, r) == request[q].waiting /\ Becomes(q, r)

\* A command has run; its result arrives, or is lost on the way, or nobody
\* waits for it and a transaction it belongs to is rolled back.
Returns(q, r) ==
    IF request[q].waiting
    THEN Becomes(q, r) \/ (store = "sea" /\ Becomes(q, Answering(q, "Storage")))
    ELSE Becomes(q, Answering(q, "none"))

\* The commands to the database or to Redis.
Remote == {"looking", "insert_account", "insert_player", "commit_registration",
           "load_player", "record_login", "create_token", "lock_row", "update_row",
           "commit_gain", "resolve", "find_player", "validating"}

\* It never ran.  A connection whose session cannot be checked is closed.
CommandFails(q) ==
    /\ store = "sea"
    /\ request[q].pc \in Remote
    /\ Becomes(q, Answering(q, IF At(q, "validating") THEN "Unauthorized" ELSE "Storage"))
    /\ OnlyRequest

\* The client goes away, or the server stops: the future is dropped.  Calls of
\* the memory repositories never wait, so there only the password does.
Drop(q) ==
    /\ request[q].waiting
    /\ IF store = "memory" THEN At(q, "computing") ELSE request[q].pc \notin {"new", "over"}
    /\ Becomes(q, [request[q] EXCEPT !.waiting = FALSE])
    /\ OnlyRequest

\* Between two commands there is nothing that goes on by itself.
DroppedIdle(q) ==
    /\ ~request[q].waiting
    /\ request[q].pc \in {"hashing", "auditing", "publish", "bound", "dispatch"}
    /\ Becomes(q, Answering(q, "none"))
    /\ OnlyRequest

Start(q, kind, input, pc) ==
    /\ At(q, "new")
    /\ Becomes(q, [request[q] EXCEPT !.kind = kind, !.input = input, !.pc = pc])
    /\ OnlyRequest

Refuse(q, kind, input) ==
    /\ At(q, "new")
    /\ Becomes(q, [request[q] EXCEPT !.kind = kind, !.input = input, !.pc = "over",
                                     !.answer = AppErrorOf["InvalidValue"]])
    /\ OnlyRequest

-----------------------------------------------------------------------------
(***************************************************************************)
(* RegisterUseCase and LoginUseCase up to the password.                    *)
(***************************************************************************)
StartRegister(q, input) ==
    IF Username_valid(input.name) /\ Nickname_valid(input.nick)
          /\ PlainPassword_valid(input.password)
    THEN Start(q, "register", input, "looking")
    ELSE Refuse(q, "register", input)

StartLogin(q, input) ==
    IF Username_valid(input.name) THEN Start(q, "login", input, "looking")
    ELSE Refuse(q, "login", input)

\* The repositories, as rows become aggregates.
find_by_username(name) ==
    {p \in Players : accounts[p] # None /\ accounts[p].username = name}
find_by_id(p) == IF players[p] = None THEN None ELSE player_to_domain(players[p])

\* RegisterUseCase::execute up to the hash.
RegisterLooks(q) ==
    /\ At(q, "looking")
    /\ request[q].kind = "register"
    /\ Returns(q, IF find_by_username(request[q].input.name.value) = {}
                  THEN Going(q, "hashing") ELSE Answering(q, "Conflict"))
    /\ OnlyRequest

\* Mutant of LoginLooks: the status is not asked.
LoginLooksUnchecked(q) ==
    /\ At(q, "looking")
    /\ request[q].kind = "login"
    /\ \E p \in find_by_username(request[q].input.name.value) :
          Returns(q, [Going(q, "hashing") EXCEPT !.player = p])
    /\ OnlyRequest

\* load_account and ensure_login_allowed.  A stranger is told what a wrong
\* password is told.
LoginLooks(q) ==
    /\ At(q, "looking")
    /\ request[q].kind = "login"
    /\ LET found == find_by_username(request[q].input.name.value)
           p == CHOOSE p \in found : TRUE
       IN  Returns(q, IF found = {} THEN Answering(q, "Unauthorized")
                      ELSE IF allows_login(account_to_domain(accounts[p]).status, clock)
                      THEN [Going(q, "hashing") EXCEPT !.player = p]
                      ELSE Answering(q, "Forbidden"))
    /\ OnlyRequest

\* Argon2PasswordHasher::run: a permit now, or Busy.
Acquire(q) ==
    /\ At(q, "hashing")
    /\ request[q].waiting
    /\ IF permits > 0
       THEN permits' = permits - 1 /\ Becomes(q, Going(q, "computing"))
       ELSE permits' = permits /\ Becomes(q, Answering(q, "Busy"))
    /\ UNCHANGED <<dbVars, envVars, clock, sessionVars>>

\* Mutant of Compute: the permit comes back only with the answer.
ComputeForWaiting(q) ==
    /\ At(q, "computing")
    /\ permits' = IF request[q].waiting THEN permits + 1 ELSE permits
    /\ Becomes(q, Answering(q, "Internal"))
    /\ UNCHANGED <<dbVars, envVars, clock, sessionVars>>

\* The blocking computation ends and its permit with it, whoever still waits.
\* It may also fail, or panic.
Compute(q) ==
    /\ At(q, "computing")
    /\ permits' = permits + 1
    /\ \/ Becomes(q, Answering(q, "Internal"))
       \/ /\ request[q].waiting
          /\ Becomes(q,
                IF request[q].kind = "register"
                THEN Going(q, IF store = "sea" THEN "insert_account" ELSE "insert_both")
                ELSE IF accounts[request[q].player].password = request[q].input.password.value
                THEN Going(q, "load_player")
                ELSE Answering(q, "Unauthorized"))
    /\ UNCHANGED <<dbVars, envVars, clock, sessionVars>>

-----------------------------------------------------------------------------
(***************************************************************************)
(* RegistrationStore::register and the end of the registration.            *)
(***************************************************************************)

\* Mutant of InsertAccount: the check of execute is all there is.
InsertAccountBlindly(q) ==
    /\ At(q, "insert_account")
    /\ Returns(q, Going(q, "insert_player"))
    /\ OnlyRequest

\* The unique index makes an insert wait for a transaction that has inserted
\* the same name and is not over.
InsertAccount(q) ==
    LET name == request[q].input.name.value
    IN  /\ At(q, "insert_account")
        /\ \A r \in Requests \ {q} :
              request[r].pc \in {"insert_player", "commit_registration"} =>
                 request[r].input.name.value # name
        /\ Returns(q, IF find_by_username(name) = {} THEN Going(q, "insert_player")
                      ELSE Answering(q, AppErrorOf["Conflict"]))
        /\ OnlyRequest

InsertPlayer(q) ==
    /\ At(q, "insert_player")
    /\ Returns(q, Going(q, "commit_registration"))
    /\ OnlyRequest

Register(q) ==
    LET input == request[q].input
    IN  /\ accounts' = [accounts EXCEPT ![q] =
               account_to_active(NewAccount(input.name.value, input.password.value))]
        /\ players' = [players EXCEPT ![q] = player_to_active(NewPlayer)]

\* The commit shows both rows at once.
CommitRegistration(q) ==
    /\ At(q, "commit_registration")
    /\ Register(q)
    /\ Returns(q, Going(q, "auditing"))
    /\ UNCHANGED <<granted, envVars, permits, clock, sessionVars>>

\* The memory store checks and inserts under its two locks.
RegisterInMemory(q) ==
    /\ At(q, "insert_both")
    /\ IF find_by_username(request[q].input.name.value) # {}
       THEN Becomes(q, Answering(q, "Conflict")) /\ UNCHANGED <<accounts, players>>
       ELSE Becomes(q, Going(q, "auditing")) /\ Register(q)
    /\ UNCHANGED <<granted, envVars, permits, clock, sessionVars>>

\* A failure of the audit is only logged.
audit_success(q) ==
    /\ At(q, "auditing")
    /\ request[q].kind = "register" /\ request[q].waiting
    /\ Becomes(q, Answering(q, "Created"))
    /\ OnlyRequest

audit_login(q) ==
    /\ At(q, "auditing")
    /\ request[q].kind = "login" /\ request[q].waiting
    /\ Becomes(q, Answering(q, "Ok"))
    /\ OnlyRequest

-----------------------------------------------------------------------------
(***************************************************************************)
(* The end of the login.                                                   *)
(***************************************************************************)

\* find_by_account; then the time of the login is taken.
LoadPlayer(q) ==
    LET p == request[q].player
    IN  /\ At(q, "load_player")
        /\ clock' = clock + 1
        /\ Returns(q, IF find_by_id(p) = None THEN Answering(q, "Internal")
                      ELSE [Going(q, "record_login") EXCEPT !.at = clock])
        /\ UNCHANGED <<dbVars, envVars, permits, sessionVars>>

\* The row lock that SELECT ... FOR UPDATE holds until the end of gain_exp.
Locked(p) ==
    \E r \in Requests : request[r].pc \in {"update_row", "commit_gain"}
                           /\ request[r].player = p

\* Mutant of record_login: the row is written back as load_player read it.
record_loginWholeRow(q) ==
    LET p == request[q].player
    IN  /\ At(q, "record_login")
        /\ players' = [players EXCEPT ![p] = [NewPlayer EXCEPT !.last_login_at = request[q].at]]
        /\ Returns(q, Going(q, "create_token"))
        /\ UNCHANGED <<accounts, granted, envVars, permits, clock, sessionVars>>

\* One UPDATE of one column.
record_login(q) ==
    LET p == request[q].player
    IN  /\ At(q, "record_login")
        /\ ~Locked(p)
        /\ players' = [players EXCEPT ![p].last_login_at = request[q].at]
        /\ Returns(q, Going(q, "create_token"))
        /\ UNCHANGED <<accounts, granted, envVars, permits, clock, sessionVars>>

CreateToken(q) ==
    /\ At(q, "create_token")
    /\ create(request[q].player, q)
    /\ Returns(q, Going(q, "auditing"))
    /\ UNCHANGED <<dbVars, envVars, permits, clock>>
-----------------------------------------------------------------------------
(***************************************************************************)
(* GainExpUseCase.                                                         *)
(***************************************************************************)
StartGain(q, p, amount) ==
    LET input == [player |-> p, amount |-> amount]
    IN  IF amount = 0 THEN Refuse(q, "gain", input)
        ELSE Start(q, "gain", input, IF store = "sea" THEN "lock_row" ELSE "gain")

\* begin and SELECT ... FOR UPDATE; the new values are computed from the row.
LockRow(q) ==
    LET p == request[q].input.player
        grown == gain_exp(find_by_id(p), request[q].input.amount)
    IN  /\ At(q, "lock_row")
        /\ ~Locked(p)
        /\ Returns(q, IF find_by_id(p) = None THEN Answering(q, "NotFound")
                      ELSE IF ~Storable(grown) THEN Answering(q, AppErrorOf["Storage"])
                      ELSE [Going(q, "update_row") EXCEPT !.player = p, !.row = grown])
        /\ OnlyRequest

UpdateRow(q) ==
    /\ At(q, "update_row")
    /\ Returns(q, Going(q, "commit_gain"))
    /\ OnlyRequest

\* Of the row, level and exp are written and no other column; a level-up has an
\* event to publish.
Grow(q, p, grown) ==
    /\ players' = [players EXCEPT ![p].level = grown.level, ![p].exp = grown.exp]
    /\ granted' = granted \cup {q}
    /\ Returns(q, IF grown.level # players[p].level THEN Going(q, "publish")
                  ELSE Answering(q, "Ok"))

CommitGain(q) ==
    /\ At(q, "commit_gain")
    /\ Grow(q, request[q].player, request[q].row)
    /\ UNCHANGED <<accounts, envVars, permits, clock, sessionVars>>

\* The memory repository does all of gain_exp under its lock.
GainInMemory(q) ==
    LET p == request[q].input.player
    IN  /\ At(q, "gain")
        /\ IF players[p] = None
           THEN Becomes(q, Answering(q, "NotFound")) /\ UNCHANGED <<players, granted>>
           ELSE Grow(q, p, gain_exp(players[p], request[q].input.amount))
        /\ UNCHANGED <<accounts, envVars, permits, clock, sessionVars>>

\* Mutant of Publish: a lost event is reported as a conflict.
PublishConflict(q) ==
    /\ At(q, "publish")
    /\ request[q].waiting
    /\ Becomes(q, Answering(q, "Conflict"))
    /\ OnlyRequest

\* PlayerLeveledUp: the experience is stored, whatever happens to the event.
Publish(q) ==
    /\ At(q, "publish")
    /\ request[q].waiting
    /\ \E a \in {"Ok", "PostCommit"} : Becomes(q, Answering(q, a))
    /\ OnlyRequest

-----------------------------------------------------------------------------
(***************************************************************************)
(* The use of a token: GET /me, and a TCP connection that binds and then   *)
(* sends a frame.  was notes whose token it was when the request came in;  *)
(* the request's own name stands for a token that no login returned.       *)
(***************************************************************************)
StartUse(q, kind, t) ==
    /\ At(q, "new")
    /\ Becomes(q, [request[q] EXCEPT !.kind = kind, !.input = [token |-> t],
                                     !.pc = "resolve", !.was = Owners(t)])
    /\ OnlyRequest

Resolved(q) ==
    LET owner == Owners(request[q].input.token)
    IN  /\ At(q, "resolve")
        /\ Returns(q, IF owner = {} THEN Answering(q, "Unauthorized")
                      ELSE [Going(q, "find_player") EXCEPT !.player = CHOOSE p \in owner : TRUE])
        /\ OnlyRequest

\* The extractor of /me asks the store, a missing header apart.
AuthUser(q) == request[q].kind = "me" /\ Resolved(q)

GetPlayerProfile(q) ==
    /\ At(q, "find_player")
    /\ request[q].kind = "me"
    /\ Returns(q, Answering(q, IF find_by_id(request[q].player) = None THEN "NotFound" ELSE "Ok"))
    /\ OnlyRequest

\* handle_bind: the token, then its player; set_authed keeps both.
handle_bind(q) ==
    /\ request[q].kind = "conn"
    /\ \/ Resolved(q)
       \/ /\ At(q, "find_player")
          /\ Returns(q, IF find_by_id(request[q].player) = None THEN Answering(q, "Internal")
                        ELSE Going(q, "bound"))
          /\ OnlyRequest

\* A frame was read.
Frame(q) ==
    /\ At(q, "bound")
    /\ request[q].waiting
    /\ Becomes(q, [Going(q, "validating") EXCEPT !.was = Owners(request[q].input.token)])
    /\ OnlyRequest

\* Mutant of validate_session: any token of the connection will do.
validate_sessionOnce(q) ==
    /\ At(q, "validating")
    /\ Returns(q, Going(q, "dispatch"))
    /\ OnlyRequest

validate_session(q) ==
    /\ At(q, "validating")
    /\ Returns(q, IF Owners(request[q].input.token) = {request[q].player}
                  THEN Going(q, "dispatch") ELSE Answering(q, "Unauthorized"))
    /\ OnlyRequest

\* admit_frame goes on to the router.
Dispatch(q) ==
    /\ At(q, "dispatch")
    /\ request[q].waiting
    /\ Becomes(q, Answering(q, "Ok"))
    /\ OnlyRequest

-----------------------------------------------------------------------------
\* AccountRepository::save of an account that exists: all columns are written.
save(p, account) == accounts' = [accounts EXCEPT ![p] = account_to_active(account)]

\* suspend, ban or activate, then save.  moderated, an auxiliary field, notes
\* the accounts that changed while a login was under way.
Moderate(p, status) ==
    /\ moderations < MaxModerations
    /\ accounts[p] # None
    /\ moderations' = moderations + 1
    /\ save(p, [account_to_domain(accounts[p]) EXCEPT !.status = status])
    /\ request' = [q \in Requests |->
                      IF request[q].kind = "login" /\ ~At(q, "over")
                      THEN [request[q] EXCEPT !.moderated = @ \cup {p}] ELSE request[q]]
    /\ UNCHANGED <<players, granted, store, permits, clock, sessionVars>>

\* A session runs out or is revoked.
SessionEnds(p) ==
    /\ session[p] # {}
    /\ EndSessions({p})
    /\ UNCHANGED <<dbVars, envVars, permits, request, clock>>

-----------------------------------------------------------------------------
NewRequest == [kind |-> "none", input |-> None, pc |-> "new", waiting |-> TRUE,
               answer |-> "none", player |-> None, row |-> None, at |-> 0, was |-> {},
               moderated |-> {}]

\* The seeded players registered earlier, each named after itself.
AccountsInit ==
    /\ store \in {"sea", "memory"}
    /\ accounts = [p \in Players |-> IF p \in Seeds THEN account_to_active(NewAccount(p, p))
                                    ELSE None]
    /\ players = [p \in Players |-> IF p \in Seeds THEN NewPlayer ELSE None]
    /\ permits = MaxPermits
    /\ request = [q \in Requests |-> NewRequest]
    /\ clock = 0
    /\ granted = {}
    /\ moderations = 0
    /\ SessionInit

Arrive(q) ==
    \/ \E input \in RegisterInputs : StartRegister(q, input)
    \/ \E input \in LoginInputs : StartLogin(q, input)
    \/ \E p \in Players, amount \in Amounts : StartGain(q, p, amount)
    \/ \E kind \in {"me", "conn"}, t \in spent \cup {q} : StartUse(q, kind, t)

\* What goes on by itself once a request has come in.
Proceed(q) ==
    \/ DroppedIdle(q) \/ RegisterLooks(q) \/ LoginLooks(q) \/ Acquire(q) \/ Compute(q)
    \/ InsertAccount(q) \/ InsertPlayer(q) \/ CommitRegistration(q)
    \/ RegisterInMemory(q) \/ audit_success(q) \/ audit_login(q)
    \/ LoadPlayer(q) \/ record_login(q) \/ CreateToken(q)
    \/ LockRow(q) \/ UpdateRow(q) \/ CommitGain(q) \/ GainInMemory(q) \/ Publish(q)
    \/ AuthUser(q) \/ GetPlayerProfile(q) \/ handle_bind(q) \/ validate_session(q)
    \/ Dispatch(q)

AccountsNext ==
    \/ \E q \in Requests : Arrive(q) \/ Proceed(q) \/ Frame(q) \/ Drop(q) \/ CommandFails(q)
    \/ \E p \in Players : SessionEnds(p)
    \/ \E p \in Players, status \in {Active, Suspended, Banned(None), Banned(1)} :
          Moderate(p, status)

AccountsSpec == AccountsInit /\ [][AccountsNext]_accountVars

\* Requests are scheduled, and the database and the workers answer.  Nobody has
\* to send a request or a frame.
FairAccountsSpec ==
    /\ AccountsSpec
    /\ \A q \in Requests : WF_accountVars(Proceed(q))

-----------------------------------------------------------------------------
(***************************************************************************)
(* Properties.                                                             *)
(***************************************************************************)

\* ports.rs: registration leaves no part of itself behind.  At every moment an
\* account has its player and a player its account, and no two accounts share
\* a name, whatever requests fail, are dropped or race for the name.
WholeRegistrations ==
    /\ \A p \in Players : accounts[p] = None <=> players[p] = None
    /\ \A p, r \in Players :
          accounts[p] # None /\ accounts[r] # None /\ accounts[p].username = accounts[r].username
             => p = r

\* password.rs: capacity is not given back while a computation runs, and comes
\* back when it ends, also for a request that was dropped long ago.
PermitsExact ==
    permits + Cardinality({q \in Requests : request[q].pc = "computing"}) = MaxPermits

\* What a client may conclude from its answer.  After a client error or Busy
\* nothing was stored and a retry is safe; after Created, Ok or PostCommit all
\* of it was; a Conflict means that somebody else has the name.  Only 500
\* without PostCommit leaves it open.
TookEffect(q) == accounts[q] # None \/ q \in spent \/ q \in granted

AnswersTrue ==
    \A q \in Requests : LET a == request[q].answer IN
        /\ a # "none" /\ StatusCode[a] \in {400, 401, 403, 404, 409, 503} => ~TookEffect(q)
        /\ a \in {"Created", "PostCommit"} => TookEffect(q)
        /\ a = "Ok" /\ request[q].kind \in {"login", "gain"} => TookEffect(q)
        /\ a = "Conflict" => find_by_username(request[q].input.name.value) \ {q} # {}

\* What a level and its experience are worth.
Worth(row) ==
    row.exp + MapThenSumSet(LAMBDA l : exp_to_next(l), 1..(row.level - 1))

\* No experience is lost, granted twice or made up, by concurrent grants, by
\* logins that write the same row, or by widths: what a player has is the sum
\* of what was committed.  Only the memory repository, which stores a u64, lets
\* it saturate.
ExpExact ==
    \A p \in Players : players[p] # None =>
        LET sum == MapThenSumSet(LAMBDA q : request[q].input.amount,
                                 {q \in granted : request[q].input.player = p})
        IN  Worth(players[p]) = sum \/ (store = "memory" /\ sum > U64_MAX)

\* A session begins only with a login that had the name and the password of its
\* owner, on an account that may log in; a status that changes while the
\* password is computed is not seen.
SessionsEarned ==
    [][\A p \in Players : \A q \in session'[p] \ session[p] :
          /\ request[q].kind = "login"
          /\ request[q].input.name.value = accounts[p].username
          /\ request[q].input.password.value = accounts[p].password
          /\ \/ p \in request[q].moderated
             \/ allows_login(account_to_domain(accounts[p]).status, clock)]_accountVars

\* README.md:316: whoever is served with a token had it as a valid session when
\* the request, or the frame, came in.  A session replaced or ended before is
\* never served, though the check and the service are separate steps.
ServedInSession ==
    \A q \in Requests : request[q].kind \in {"me", "conn"} /\ request[q].answer = "Ok"
        => request[q].was = {request[q].player}

\* Every request whose client waits is answered: rows, names and permits that
\* it waits for, or that others hold, come free, also when they are dropped.
AllAnswered ==
    \A q \in Requests : request[q].pc \notin {"new", "bound"} ~> request[q].pc \in {"bound", "over"}
=============================================================================
