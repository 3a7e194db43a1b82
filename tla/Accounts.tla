------------------------------ MODULE Accounts ------------------------------
(***************************************************************************)
(* Accounts of the web backend: the `users', `invites', `sessions' and     *)
(* `recovery_tokens' tables (db.rs), the authentication handlers           *)
(* (http/auth_api.rs, http/session.rs), account deletion                   *)
(* (http/account.rs), the operator's handlers (http/operator.rs), and the  *)
(* command line, which is another process on the same database (cli.rs).   *)
(*                                                                         *)
(* Every method of Db is one atomic step.  A handler that calls several is *)
(* a sequence of steps, and everything it read before may be stale at the  *)
(* next one; an error of a call ends the request, or is dropped where the  *)
(* code drops it.                                                          *)
(*                                                                         *)
(* A password is the number of times it was written: every write stores a  *)
(* hash with a fresh salt, and a request that presents a wrong password    *)
(* changes nothing, so only right ones are steps.  A session that was      *)
(* revoked or expired is not kept, since no code revives it, and neither   *)
(* is a recovery token that is a day old: it is then neither live nor      *)
(* recent.  Ids are random: a model id is used again only when no request  *)
(* names it.                                                               *)
(***************************************************************************)
EXTENDS Naturals, FiniteSets

CONSTANTS
    User,           \* user ids
    Email,          \* normalized addresses
    Invite,         \* invite ids
    Token,          \* session tokens
    Recovery,       \* recovery tokens
    Handler,        \* HTTP connection threads
    Command,        \* command-line processes
    None,           \* SQL NULL, or no row
    MaxActive,      \* MAX_ACTIVE_USERS
    RecoveryLimit,  \* recovery tokens per account and day
    OperatorEmail,  \* AIF_OPERATOR_EMAIL, or None
    MaxWrites       \* bound: password writes per account explored

VARIABLES
    users,          \* users[u]: the row of table users, or None
    invites,        \* invites[i]: the row of table invites, or None
    sessions,       \* sessions[s]: a live session, or None
    recoveries,     \* recoveries[r]: a recovery token, or None
    request,        \* request[p]: what a thread or a command is doing, or None
    cut             \* cut[u]: password in force when all sessions of u were
                    \* last revoked for a new password (history variable)

vars == <<users, invites, sessions, recoveries, request, cut>>

Process == Handler \cup Command

-----------------------------------------------------------------------------
(* Rows and requests *)

Role == {"user", "operator"}

(* `invite' is a history variable: the invite the account was made from. *)
UserRow ==
    [email  : Email,
     role   : Role,
     status : {"active", "deleted"},
     pass   : Nat,
     invite : Invite]

(* `boot' is a history variable: minted by maybe_bootstrap. *)
InviteRow ==
    [email   : Email,
     role    : Role,
     used    : BOOLEAN,                \* used_at IS NOT NULL
     revoked : BOOLEAN,                \* revoked_at IS NOT NULL
     expired : BOOLEAN,                \* expires_at < now
     boot    : BOOLEAN]

(* `pass' is a history variable: the password that was verified. *)
SessionRow == [user : User, pass : Nat]

(* `relayed' and `uses' are history variables: the link was shown to the   *)
(* operator, and how many passwords were set with it.                      *)
RecoveryRow == [user : User, used : BOOLEAN, relayed : BOOLEAN, uses : Nat]

Stage ==
    {"create", "mark", "open",              \* accept-invite, login
     "count", "mint", "consume",            \* recovery
     "auth", "authed",                      \* a session cookie
     "set", "revoke", "delete"}

Target == User \cup Invite \cup Token \cup Recovery \cup {None}

Request ==
    [pc : Stage, user : User \cup {None}, pass : Nat, target : Target]

ASSUME AccountsAssumption ==
    /\ IsFiniteSet(User) /\ IsFiniteSet(Token) /\ IsFiniteSet(Recovery)
    /\ IsFiniteSet(Handler) /\ IsFiniteSet(Command)
    /\ Handler # {} /\ Handler \cap Command = {}
    /\ MaxActive \in Nat
    /\ RecoveryLimit \in Nat \ {0}
    /\ OperatorEmail \in Email \cup {None}
    /\ MaxWrites \in Nat

(* NULL is not a value of any column, nor a row. *)
ASSUME NoneAssumption ==
    /\ None \notin User \cup Email \cup Invite \cup Token \cup Recovery
    /\ None \notin UserRow /\ None \notin InviteRow
    /\ None \notin SessionRow /\ None \notin RecoveryRow
    /\ None \notin Request

TypeOK ==
    /\ users \in [User -> UserRow \cup {None}]
    /\ invites \in [Invite -> InviteRow \cup {None}]
    /\ sessions \in [Token -> SessionRow \cup {None}]
    /\ recoveries \in [Recovery -> RecoveryRow \cup {None}]
    /\ request \in [Process -> Request \cup {None}]
    /\ cut \in [User -> Nat]

Init ==
    /\ users = [u \in User |-> None]
    /\ invites = [i \in Invite |-> None]
    /\ sessions = [s \in Token |-> None]
    /\ recoveries = [r \in Recovery |-> None]
    /\ request = [p \in Process |-> None]
    /\ cut = [u \in User |-> 0]

-----------------------------------------------------------------------------
(* Queries *)

Account == {u \in User : users[u] # None}
IsActive(u) == users[u] # None /\ users[u].status = "active"
ActiveUser == {u \in User : IsActive(u)}

SessionsOf(u) == {s \in Token : sessions[s] # None /\ sessions[s].user = u}
RecoveriesOf(u) == {r \in Recovery : recoveries[r] # None /\ recoveries[r].user = u}

(* Broken variant: a deleted account frees its address. *)
TakenByActive(e) == \E u \in ActiveUser : users[u].email = e

Taken(e) == \E u \in Account : users[u].email = e       \* email UNIQUE

Usable(i) ==
    /\ invites[i] # None
    /\ ~ invites[i].revoked /\ ~ invites[i].used /\ ~ invites[i].expired

LiveRecovery(r) == recoveries[r] # None /\ ~ recoveries[r].used

At(p, pc) == request[p] # None /\ request[p].pc = pc

(* No request names the id x: it may be given to a new row. *)
Unnamed(x) == \A p \in Process : request[p] # None => request[p].target # x

(* Control of a request *)

Begin(p, pc, u, pass, x) ==
    /\ request[p] = None
    /\ request' = [request EXCEPT ![p] =
           [pc |-> pc, user |-> u, pass |-> pass, target |-> x]]

Goto(p, pc) == request' = [request EXCEPT ![p].pc = pc]
Finish(p) == request' = [request EXCEPT ![p] = None]

(* Writes *)

(* Broken variant: the sessions stay. *)
RevokeNoSessions(u) == UNCHANGED sessions

RevokeSessions(u) ==
    sessions' = [s \in Token |-> IF s \in SessionsOf(u) THEN None ELSE sessions[s]]

NewInvite(i, e, role, boot) ==
    /\ invites[i] = None /\ Unnamed(i)
    /\ invites' = [invites EXCEPT ![i] =
           [email |-> e, role |-> role, used |-> FALSE, revoked |-> FALSE,
            expired |-> FALSE, boot |-> boot]]

UsedOnce(token) ==
    [user |-> token.user, used |-> TRUE, relayed |-> token.relayed,
     uses |-> token.uses + 1]

Revoke(i) ==
    /\ invites[i] # None
    /\ ~ invites[i].revoked /\ ~ invites[i].used
    /\ invites' = [invites EXCEPT ![i].revoked = TRUE]

-----------------------------------------------------------------------------
(* Login and the session it opens *)

(* handle_login: the row of an active account is read and its hash         *)
(* verified; the session is a later call.                                  *)
Login(h, u) ==
    /\ IsActive(u)
    /\ Begin(h, "open", u, users[u].pass, None)
    /\ UNCHANGED <<users, invites, sessions, recoveries, cut>>

(* start_session: nothing asks whether the account is still active, or     *)
(* whether its password is still the one that was verified.                *)
OpenSession(h) ==
    /\ At(h, "open")
    /\ \E s \in Token :
        /\ sessions[s] = None /\ Unnamed(s)
        /\ sessions' = [sessions EXCEPT ![s] =
               [user |-> request[h].user, pass |-> request[h].pass]]
    /\ Finish(h)
    /\ UNCHANGED <<users, invites, recoveries, cut>>

-----------------------------------------------------------------------------
(* Accepting an invite *)

(* invite_by_token_hash and invite_usable. *)
AcceptLookup(h, i) ==
    /\ Usable(i)
    /\ Begin(h, "create", None, 0, i)
    /\ UNCHANGED <<users, invites, sessions, recoveries, cut>>

(* Db::create_user: one transaction counts the active accounts and inserts *)
(* the row; a deleted account keeps its row, and its address.              *)
(* Broken variant: the cap is not looked at. *)
CanCreateAnyway(e) == ~ Taken(e)

CanCreate(e) == Cardinality(ActiveUser) < MaxActive /\ ~ Taken(e)

CreateUser(h) ==
    /\ At(h, "create")
    /\ LET i == request[h].target IN
       /\ CanCreate(invites[i].email)
       /\ \E u \in User :
           /\ users[u] = None
           /\ users' = [users EXCEPT ![u] =
                  [email |-> invites[i].email, role |-> invites[i].role,
                   status |-> "active", pass |-> 0, invite |-> i]]
           /\ request' = [request EXCEPT ![h] =
                  [pc |-> "mark", user |-> u, pass |-> 0, target |-> i]]
    /\ UNCHANGED <<invites, sessions, recoveries, cut>>

(* The same transaction rolled back: user_limit or email_taken. *)
RefuseUser(h) ==
    /\ At(h, "create")
    /\ ~ CanCreate(invites[request[h].target].email)
    /\ Finish(h)
    /\ UNCHANGED <<users, invites, sessions, recoveries, cut>>

(* Db::mark_invite_used, whatever became of the invite meanwhile. *)
MarkInviteUsed(h) ==
    /\ At(h, "mark")
    /\ invites' = [invites EXCEPT ![request[h].target].used = TRUE]
    /\ Goto(h, "open")
    /\ UNCHANGED <<users, sessions, recoveries, cut>>

-----------------------------------------------------------------------------
(* Recovery: by handle_recovery_request, and by `--create-recovery', which *)
(* makes the same calls and prints the link                                *)

RecoveryLookup(p, u) ==
    /\ IsActive(u)
    /\ Begin(p, "count", u, 0, None)
    /\ UNCHANGED <<users, invites, sessions, recoveries, cut>>

(* Broken variant: one token more than the limit. *)
CountRecoveriesOneMore(p) ==
    /\ At(p, "count")
    /\ IF Cardinality(RecoveriesOf(request[p].user)) <= RecoveryLimit
       THEN Goto(p, "mint")
       ELSE Finish(p)
    /\ UNCHANGED <<users, invites, sessions, recoveries, cut>>

(* Db::recent_recovery_count, used tokens included. *)
CountRecoveries(p) ==
    /\ At(p, "count")
    /\ IF Cardinality(RecoveriesOf(request[p].user)) < RecoveryLimit
       THEN Goto(p, "mint")
       ELSE Finish(p)
    /\ UNCHANGED <<users, invites, sessions, recoveries, cut>>

(* Db::create_recovery.  A handler drops the raw token, so only a command  *)
(* leaves a link that somebody holds.                                      *)
MintRecovery(p) ==
    /\ At(p, "mint")
    /\ \E r \in Recovery :
        /\ recoveries[r] = None /\ Unnamed(r)
        /\ recoveries' = [recoveries EXCEPT ![r] =
               [user |-> request[p].user, used |-> FALSE,
                relayed |-> p \in Command, uses |-> 0]]
    /\ Finish(p)
    /\ UNCHANGED <<users, invites, sessions, cut>>

(* Broken variant: only the age of the token is looked at. *)
CompleteLookupUsed(h, r) ==
    /\ recoveries[r] # None /\ recoveries[r].relayed
    /\ Begin(h, "consume", recoveries[r].user, 0, r)
    /\ UNCHANGED <<users, invites, sessions, recoveries, cut>>

(* handle_recovery_complete: live_recovery, by someone who has the link. *)
CompleteLookup(h, r) ==
    /\ LiveRecovery(r) /\ recoveries[r].relayed
    /\ Begin(h, "consume", recoveries[r].user, 0, r)
    /\ UNCHANGED <<users, invites, sessions, recoveries, cut>>

(* Db::consume_recovery: one transaction, whose first UPDATE may match no  *)
(* row: used meanwhile, or deleted with the account.                       *)
ConsumeRecovery(h) ==
    /\ At(h, "consume")
    /\ LET r == request[h].target
           u == request[h].user IN
       /\ users[u].pass < MaxWrites
       /\ recoveries' = IF recoveries[r] = None THEN recoveries
                        ELSE [recoveries EXCEPT ![r] = UsedOnce(@)]
       /\ users' = [users EXCEPT ![u].pass = @ + 1]
       /\ RevokeSessions(u)
       /\ cut' = [cut EXCEPT ![u] = users[u].pass + 1]
    /\ Finish(h)
    /\ UNCHANGED invites

-----------------------------------------------------------------------------
(* Requests with a session cookie *)

(* authenticate: Db::check_session, then Db::user_by_id. *)
CheckSession(h, s) ==
    /\ sessions[s] # None
    /\ IsActive(sessions[s].user)
    /\ Begin(h, "auth", sessions[s].user, 0, s)
    /\ UNCHANGED <<users, invites, sessions, recoveries, cut>>

LoadUser(h) ==
    /\ At(h, "auth")
    /\ IF IsActive(request[h].user) THEN Goto(h, "authed") ELSE Finish(h)
    /\ UNCHANGED <<users, invites, sessions, recoveries, cut>>

(* handle_me, the reads, and handle_update_profile: nothing kept here. *)
Answer(h) ==
    /\ At(h, "authed")
    /\ Finish(h)
    /\ UNCHANGED <<users, invites, sessions, recoveries, cut>>

Logout(h) ==
    /\ At(h, "authed")
    /\ sessions' = [sessions EXCEPT ![request[h].target] = None]
    /\ Finish(h)
    /\ UNCHANGED <<users, invites, recoveries, cut>>

(* handle_change_password: the current password is verified, then          *)
(* Db::set_password and Db::revoke_all_sessions are calls of their own.    *)
VerifyCurrent(h) ==
    /\ At(h, "authed")
    /\ users[request[h].user].pass < MaxWrites
    /\ Goto(h, "set")
    /\ UNCHANGED <<users, invites, sessions, recoveries, cut>>

SetPassword(h) ==
    /\ At(h, "set")
    /\ users[request[h].user].pass < MaxWrites
    /\ users' = [users EXCEPT ![request[h].user].pass = @ + 1]
    /\ Goto(h, "revoke")
    /\ UNCHANGED <<invites, sessions, recoveries, cut>>

RevokeAll(h) ==
    /\ At(h, "revoke")
    /\ LET u == request[h].user IN
       /\ RevokeSessions(u)
       /\ cut' = [cut EXCEPT ![u] = users[u].pass]
    /\ Finish(h)
    /\ UNCHANGED <<users, invites, recoveries>>

-----------------------------------------------------------------------------
(* Deleting an account *)

(* account.rs handle_delete, after the password was verified. *)
DeleteSelf(h) ==
    /\ At(h, "authed")
    /\ request' = [request EXCEPT ![h].pc = "delete", ![h].target = request[h].user]
    /\ UNCHANGED <<users, invites, sessions, recoveries, cut>>

(* Db::delete_account, one transaction. *)
DeleteAccount(p) ==
    /\ At(p, "delete")
    /\ LET u == request[p].target IN
       /\ users' = [users EXCEPT ![u].status = "deleted"]
       /\ RevokeSessions(u)
       /\ recoveries' = [r \in Recovery |->
              IF r \in RecoveriesOf(u) THEN None ELSE recoveries[r]]
    /\ Finish(p)
    /\ UNCHANGED <<invites, cut>>

-----------------------------------------------------------------------------
(* The operator, in the browser: the role is the one authenticate loaded *)

AuthedOperator(h) == At(h, "authed") /\ users[request[h].user].role = "operator"

OperatorInvite(h, i, e, role) ==
    /\ AuthedOperator(h)
    /\ NewInvite(i, e, role, FALSE)
    /\ Finish(h)
    /\ UNCHANGED <<users, sessions, recoveries, cut>>

OperatorRevoke(h, i) ==
    /\ AuthedOperator(h)
    /\ Revoke(i)
    /\ Finish(h)
    /\ UNCHANGED <<users, sessions, recoveries, cut>>

(* handle_delete_user: any account but its own, even a deleted one. *)
OperatorDelete(h, u) ==
    /\ AuthedOperator(h)
    /\ u \in Account /\ u # request[h].user
    /\ request' = [request EXCEPT ![h].pc = "delete", ![h].target = u]
    /\ UNCHANGED <<users, invites, sessions, recoveries, cut>>

-----------------------------------------------------------------------------
(* The command line (run_admin) *)

CliInvite(c, i, e, role) ==
    /\ request[c] = None
    /\ NewInvite(i, e, role, FALSE)
    /\ UNCHANGED <<users, sessions, recoveries, request, cut>>

CliRevoke(c, i) ==
    /\ request[c] = None
    /\ Revoke(i)
    /\ UNCHANGED <<users, sessions, recoveries, request, cut>>

CliDelete(c, u) ==
    /\ u \in Account
    /\ Begin(c, "delete", None, 0, u)
    /\ UNCHANGED <<users, invites, sessions, recoveries, cut>>

-----------------------------------------------------------------------------
(* Time, failures and restarts *)

ExpireInvite(i) ==
    /\ invites[i] # None /\ ~ invites[i].expired
    /\ invites' = [invites EXCEPT ![i].expired = TRUE]
    /\ UNCHANGED <<users, sessions, recoveries, request, cut>>

ExpireSession(s) ==
    /\ sessions[s] # None
    /\ sessions' = [sessions EXCEPT ![s] = None]
    /\ UNCHANGED <<users, invites, recoveries, request, cut>>

(* A day has passed: the token has expired and is no longer recent. *)
AgeRecovery(r) ==
    /\ recoveries[r] # None
    /\ recoveries' = [recoveries EXCEPT ![r] = None]
    /\ UNCHANGED <<users, invites, sessions, request, cut>>

(* The next call of a request fails: the request ends, but the errors of   *)
(* mark_invite_used and set_password are dropped.                          *)
Fail(p) ==
    /\ request[p] # None
    /\ CASE At(p, "mark") -> Goto(p, "open")
         [] At(p, "set")  -> Goto(p, "revoke")
         [] OTHER         -> Finish(p)
    /\ UNCHANGED <<users, invites, sessions, recoveries, cut>>

(* maybe_bootstrap: an operator invite when no account is active; an      *)
(* error is reported and the server starts anyway.                         *)
Bootstrap ==
    \/ UNCHANGED invites
    \/ /\ OperatorEmail # None /\ ActiveUser = {}
       /\ \E i \in Invite : NewInvite(i, OperatorEmail, "operator", TRUE)

(* The server process stops anywhere and boots; commands go on. *)
Restart ==
    /\ Bootstrap
    /\ request' = [p \in Process |-> IF p \in Handler THEN None ELSE request[p]]
    /\ UNCHANGED <<users, sessions, recoveries, cut>>

-----------------------------------------------------------------------------

LoginStep(h) == OpenSession(h) \/ \E u \in User : Login(h, u)

AcceptStep(h) ==
    \/ \E i \in Invite : AcceptLookup(h, i)
    \/ CreateUser(h) \/ RefuseUser(h) \/ MarkInviteUsed(h)

RecoveryStep(p) ==
    \/ \E u \in User : RecoveryLookup(p, u)
    \/ CountRecoveries(p) \/ MintRecovery(p)

CompleteStep(h) ==
    \/ \E r \in Recovery : CompleteLookup(h, r)
    \/ ConsumeRecovery(h)

SessionStep(h) ==
    \/ \E s \in Token : CheckSession(h, s)
    \/ LoadUser(h) \/ Answer(h) \/ Logout(h)
    \/ VerifyCurrent(h) \/ SetPassword(h) \/ RevokeAll(h)
    \/ DeleteSelf(h)

OperatorStep(h) ==
    \/ \E i \in Invite, e \in Email, role \in Role : OperatorInvite(h, i, e, role)
    \/ \E i \in Invite : OperatorRevoke(h, i)
    \/ \E u \in User : OperatorDelete(h, u)

CommandStep(c) ==
    \/ \E i \in Invite, e \in Email, role \in Role : CliInvite(c, i, e, role)
    \/ \E i \in Invite : CliRevoke(c, i)
    \/ \E u \in User : CliDelete(c, u)

Environment ==
    \/ \E i \in Invite : ExpireInvite(i)
    \/ \E s \in Token : ExpireSession(s)
    \/ \E r \in Recovery : AgeRecovery(r)
    \/ Restart

Next ==
    \/ \E h \in Handler :
        \/ LoginStep(h) \/ AcceptStep(h) \/ CompleteStep(h)
        \/ SessionStep(h) \/ OperatorStep(h)
    \/ \E c \in Command : CommandStep(c)
    \/ \E p \in Process : RecoveryStep(p) \/ DeleteAccount(p) \/ Fail(p)
    \/ Environment

Spec == Init /\ [][Next]_vars

-----------------------------------------------------------------------------
(* What holds whatever is interleaved *)

(* However many invites are accepted at the same moment, the transaction   *)
(* of create_user keeps the service at MAX_ACTIVE_USERS active accounts.   *)
ActiveCapped == Cardinality(ActiveUser) <= MaxActive

(* An invite yields one account in its whole life: also when it is         *)
(* accepted twice at once, when mark_invite_used fails or never runs, and  *)
(* after the account made from it was deleted.                             *)
InviteOneAccount ==
    \A u, v \in Account : users[u].invite = users[v].invite => u = v

(* Once all sessions of an account were revoked for a new password         *)
(* (change-password or recovery), at most one session per other thread can *)
(* still be alive under an older password: those whose login had verified  *)
(* it before and inserted its session after.                               *)
StaleSessions(u) == {s \in SessionsOf(u) : sessions[s].pass < cut[u]}

StaleSessionsBounded ==
    \A u \in User : Cardinality(StaleSessions(u)) <= Cardinality(Handler) - 1

(* Counting the recent tokens and inserting another are separate calls, in *)
(* as many threads and commands as there are: the daily limit is exceeded, *)
(* by the tokens and those about to be added, by at most one for each of   *)
(* them but one.                                                           *)
Minting(u) == {p \in Process : At(p, "mint") /\ request[p].user = u}

RecoveriesBounded ==
    \A u \in User :
        Cardinality(RecoveriesOf(u)) + Cardinality(Minting(u))
            <= RecoveryLimit - 1 + Cardinality(Process)

(* A recovery link is looked up and consumed in separate calls, and the    *)
(* second does not see that the token was used meanwhile: it sets a        *)
(* password, or is about to, once for each thread that had found it unused *)
(* before the first of them consumed it, and for none that comes later.    *)
Completing(r) == {h \in Handler : At(h, "consume") /\ request[h].target = r}

RecoveryUsesBounded ==
    \A r \in Recovery :
        recoveries[r] # None =>
            recoveries[r].uses + Cardinality(Completing(r)) <= Cardinality(Handler)

-----------------------------------------------------------------------------
(* What the repository says, and the code does not keep *)

(* db.rs: "mark deleted and revoke all its sessions in one transaction so  *)
(* no active session survives deletion".                                   *)
NoSessionSurvivesDeletion ==
    \A u \in Account : users[u].status = "deleted" => SessionsOf(u) = {}

(* auth_api.rs, of change-password: "requires the current password, then   *)
(* revokes all sessions (fresh login)".  Once they were revoked, no        *)
(* session opened with an older password is alive.                         *)
NewPasswordEndsSessions == \A u \in User : StaleSessions(u) = {}

(* auth_api.rs, of a recovery token: "Single-use: reuse fails safely". *)
RecoverySingleUse ==
    \A r \in Recovery : recoveries[r] # None => recoveries[r].uses <= 1

(* auth_api.rs: "at most 3 live requests per 24 h per account". *)
RecoveriesLimited ==
    \A u \in User : Cardinality(RecoveriesOf(u)) <= RecoveryLimit

(* docs/recovery.md: "Exercise expiry [...], reuse, and revocation; each   *)
(* must fail with its documented code".  An invite whose revocation was    *)
(* confirmed is not redeemed.                                              *)
RevokedNotRedeemed ==
    \A i \in Invite : invites[i] # None => ~ (invites[i].revoked /\ invites[i].used)

(* docs/recovery.md: the user opens "Recover access", then the operator    *)
(* mints a recovery link.  When the limit refuses the operator, a link     *)
(* somebody holds exists.                                                  *)
RefusedOnlyWithLink ==
    \A u \in ActiveUser :
        Cardinality(RecoveriesOf(u)) >= RecoveryLimit
            => \E r \in RecoveriesOf(u) : recoveries[r].relayed

(* cli.rs, of the bootstrap invite: it is minted "when the database has no *)
(* accounts".  While no account is active, a usable one can be accepted.   *)
BootstrapRedeemable ==
    ActiveUser = {} =>
        \A i \in Invite :
            Usable(i) /\ invites[i].boot => ~ Taken(invites[i].email)
=============================================================================
