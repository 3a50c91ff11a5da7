------------------------------- MODULE Domain -------------------------------
(***************************************************************************)
(* The pure parts of accounts and players: validated values, the account's *)
(* status, experience and levels (crates/domain), the conversions to and   *)
(* from database rows (persistence/converters.rs), and how errors become   *)
(* answers (application/src/error.rs, http/error.rs).                      *)
(*                                                                         *)
(* A text is what its checks look at: its length once trimmed, whether all *)
(* its characters are allowed, and its value after normalisation.          *)
(***************************************************************************)
EXTENDS Naturals, TLC

CONSTANTS MAX_LEVEL, EXP_PER_LEVEL,
          U64_MAX, I64_MAX, I32_MAX,  \* the widths that limit experience and level
          None

ASSUME DomainAssumptions ==
    /\ MAX_LEVEL \in Nat \ {0}
    /\ EXP_PER_LEVEL \in Nat \ {0}
    /\ I64_MAX \in Nat /\ U64_MAX \in Nat /\ I32_MAX \in Nat
    /\ MAX_LEVEL <= I32_MAX
    \* What all levels cost leaves a saturated u64 above the largest i64.
    /\ I64_MAX + EXP_PER_LEVEL * MAX_LEVEL * MAX_LEVEL < U64_MAX

\* try_new of Username, Nickname and PlainPassword.  A user name is kept in
\* lower case; control characters and odd lengths are refused.
Username_valid(text) == text.len \in 3..32 /\ text.allowed
Nickname_valid(text) == text.len \in 1..32 /\ text.allowed
PlainPassword_valid(text) == text.len \in 8..128 /\ text.allowed

-----------------------------------------------------------------------------
\* AccountStatus: a ban may have an end, otherwise it is for good.
Active == [kind |-> "Active", until |-> None]
Suspended == [kind |-> "Suspended", until |-> None]
Banned(until) == [kind |-> "Banned", until |-> until]

allows_login(status, now) ==
    CASE status.kind = "Active" -> TRUE
      [] status.kind = "Suspended" -> FALSE
      [] status.kind = "Banned" -> status.until # None /\ now >= status.until

\* The columns status and banned_until; no other code is ever stored.
code == [Active |-> 0, Suspended |-> 1, Banned |-> 2]
status_to_parts(status) == [status |-> code[status.kind], banned_until |-> status.until]
status_from_code(n) ==
    CASE n = 0 -> Active
      [] n = 1 -> Suspended
      [] n = 2 -> Banned(None)

account_to_domain(row) ==
    LET status == status_from_code(row.status)
    IN  [username |-> row.username, password |-> row.password,
         status |-> IF status.kind = "Banned" THEN Banned(row.banned_until) ELSE status]

account_to_active(account) ==
    [username |-> account.username, password |-> account.password]
        @@ status_to_parts(account.status)

\* Account::register.
NewAccount(username, password) ==
    [username |-> username, password |-> password, status |-> Active]

-----------------------------------------------------------------------------
Least(a, b) == IF a < b THEN a ELSE b

\* Player::create.
NewPlayer == [level |-> 1, exp |-> 0, last_login_at |-> None]

\* The columns are i32 and i64: writing clamps from above, reading from below.
player_to_active(player) ==
    [player EXCEPT !.level = Least(@, I32_MAX), !.exp = Least(@, I64_MAX)]

player_to_domain(row) ==
    [row EXCEPT !.level = IF @ < 0 THEN 0 ELSE @, !.exp = IF @ < 0 THEN 0 ELSE @]

exp_to_next(level) == Least(EXP_PER_LEVEL * level, U64_MAX)

\* The loop of gain_exp: levels are paid for from the bottom.
Settle[level \in Nat, exp \in Nat] ==
    IF level < MAX_LEVEL /\ exp >= exp_to_next(level)
    THEN Settle[level + 1, exp - exp_to_next(level)]
    ELSE [level |-> level, exp |-> exp]

\* Mutant of gain_exp: the addition wraps around.
gain_expWrapping(player, amount) ==
    LET end == Settle[player.level, (player.exp + amount) % (U64_MAX + 1)]
    IN  [player EXCEPT !.level = end.level, !.exp = end.exp]

gain_exp(player, amount) ==
    LET end == Settle[player.level, Least(player.exp + amount, U64_MAX)]
    IN  [player EXCEPT !.level = end.level, !.exp = end.exp]

\* SeaPlayerRepository::gain_exp stores with try_from: too large is an error.
Storable(player) == player.level <= I32_MAX /\ player.exp <= I64_MAX

-----------------------------------------------------------------------------
\* From<DomainError> and From<RepoError> for AppError.
AppErrorOf == [InvalidValue |-> "Validation", RoomFull |-> "Conflict",
               RoomClosed |-> "Conflict", NotMember |-> "Validation",
               IllegalTransition |-> "Internal", Conflict |-> "Conflict",
               Storage |-> "Storage"]

\* From<AppError> for ApiError; a success of register is CREATED.
StatusCode == [Created |-> 201, Ok |-> 200, Validation |-> 400, Unauthorized |-> 401,
               Forbidden |-> 403, NotFound |-> 404, Conflict |-> 409, Busy |-> 503,
               RateLimited |-> 429, PostCommit |-> 500, Storage |-> 500,
               Internal |-> 500]
=============================================================================
