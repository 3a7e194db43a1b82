--------------------------- MODULE AccountsProofs ---------------------------
(***************************************************************************)
(* The invariants of Accounts, for any numbers of accounts, invites,       *)
(* tokens, connection threads and commands.                                *)
(*                                                                         *)
(* The argument: rows of `users' and `invites' are never removed and never *)
(* change their address or their invite, so one account per address is one *)
(* account per invite; the sessions opened under an older password, and    *)
(* the logins that may still open one, are together fewer than the         *)
(* threads, because the thread that revokes is not a login; the recent     *)
(* recovery tokens, and the requests past the count, are bounded likewise. *)
(***************************************************************************)
EXTENDS Accounts, FiniteSetTheorems, TLAPS

-----------------------------------------------------------------------------
(* The inductive invariant *)

(* An account carries the address of the invite it was made from. *)
MadeFromInvite ==
    \A u \in Account :
        /\ invites[users[u].invite] # None
        /\ users[u].email = invites[users[u].invite].email

OneAccountPerEmail ==
    \A u, v \in Account : users[u].email = users[v].email => u = v

(* What a request holds refers to rows that exist. *)
Refers(p) ==
    /\ request[p].pc \in {"create", "mark"} =>
           /\ request[p].target \in Invite
           /\ invites[request[p].target] # None
    /\ request[p].pc \notin {"create", "delete"} => request[p].user \in Account
    /\ request[p].pc = "delete" => request[p].target \in Account

RequestsRefer == \A p \in Process : request[p] # None => Refers(p)

RecoveriesRefer ==
    \A r \in Recovery : recoveries[r] # None => recoveries[r].user \in Account

(* No revocation is ahead of the password in force. *)
CutInPast ==
    \A u \in User : cut[u] <= (IF users[u] = None THEN 0 ELSE users[u].pass)

References ==
    /\ TypeOK
    /\ MadeFromInvite /\ OneAccountPerEmail
    /\ RequestsRefer /\ RecoveriesRefer /\ CutInPast

(* Logins and acceptances that may still open a session for u under an     *)
(* older password.                                                         *)
StaleLogins(u) ==
    {h \in Handler : /\ request[h] # None
                     /\ request[h].pc \in {"mark", "open"}
                     /\ request[h].user = u
                     /\ request[h].pass < cut[u]}

StaleCounted ==
    \A u \in User :
        Cardinality(StaleSessions(u)) + Cardinality(StaleLogins(u))
            <= Cardinality(Handler) - 1

-----------------------------------------------------------------------------
(* The control of a request *)

LEMMA BeginEffect ==
    ASSUME TypeOK, NEW p \in Process, NEW pc \in Stage,
           NEW u \in User \cup {None}, NEW pass \in Nat, NEW x \in Target,
           Begin(p, pc, u, pass, x)
    PROVE  /\ request' \in [Process -> Request \cup {None}]
           /\ request[p] = None
           /\ request'[p] = [pc |-> pc, user |-> u, pass |-> pass, target |-> x]
           /\ request'[p] # None
           /\ \A q \in Process : q # p => request'[q] = request[q]
  <1> DEFINE new == [pc |-> pc, user |-> u, pass |-> pass, target |-> x]
  <1>1. new \in Request
    BY DEF Request
  <1>2. new # None
    BY <1>1, NoneAssumption
  <1>3. request' = [request EXCEPT ![p] = new] /\ request[p] = None
    BY DEF Begin
  <1> HIDE DEF new
  <1>4. /\ request' \in [Process -> Request \cup {None}]
        /\ request'[p] = new
        /\ \A q \in Process : q # p => request'[q] = request[q]
    BY <1>1, <1>3 DEF TypeOK
  <1> QED
    BY <1>2, <1>3, <1>4 DEF new

LEMMA GotoEffect ==
    ASSUME TypeOK, NEW p \in Process, NEW pc \in Stage,
           request[p] # None, Goto(p, pc)
    PROVE  /\ request' \in [Process -> Request \cup {None}]
           /\ request'[p] # None
           /\ request'[p].pc = pc
           /\ request'[p].user = request[p].user
           /\ request'[p].pass = request[p].pass
           /\ request'[p].target = request[p].target
           /\ \A q \in Process : q # p => request'[q] = request[q]
  <1>1. request[p] \in Request
    BY DEF TypeOK
  <1> DEFINE new == [request[p] EXCEPT !.pc = pc]
  <1>2. /\ new \in Request
        /\ new.pc = pc /\ new.user = request[p].user
        /\ new.pass = request[p].pass /\ new.target = request[p].target
    BY <1>1 DEF Request
  <1>3. request' = [request EXCEPT ![p] = new]
    BY DEF Goto
  <1> HIDE DEF new
  <1>4. /\ request' \in [Process -> Request \cup {None}]
        /\ request'[p] = new
        /\ \A q \in Process : q # p => request'[q] = request[q]
    BY <1>2, <1>3 DEF TypeOK
  <1> QED
    BY <1>2, <1>4, NoneAssumption

LEMMA FinishEffect ==
    ASSUME TypeOK, NEW p \in Process, Finish(p)
    PROVE  /\ request' \in [Process -> Request \cup {None}]
           /\ request'[p] = None
           /\ \A q \in Process : q # p => request'[q] = request[q]
  BY DEF TypeOK, Finish

(* What a request that is under way holds. *)
LEMMA RequestFields ==
    ASSUME TypeOK, NEW p \in Process, request[p] # None
    PROVE  /\ request[p].pc \in Stage
           /\ request[p].user \in User \cup {None}
           /\ request[p].pass \in Nat
           /\ request[p].target \in Target
  <1>1. request[p] \in Request
    BY DEF TypeOK
  <1> QED
    BY <1>1 DEF Request

-----------------------------------------------------------------------------
(* The writes to the tables *)

UsersType      == users \in [User -> UserRow \cup {None}]
InvitesType    == invites \in [Invite -> InviteRow \cup {None}]
SessionsType   == sessions \in [Token -> SessionRow \cup {None}]
RecoveriesType == recoveries \in [Recovery -> RecoveryRow \cup {None}]

(* Accounts and invites are never removed, and keep what identifies them. *)
KeepsUsers ==
    \A u \in Account :
        /\ users'[u] # None
        /\ users'[u].email = users[u].email
        /\ users'[u].invite = users[u].invite
        /\ users'[u].pass >= users[u].pass
        /\ users'[u].status = "active" => users[u].status = "active"

KeepsInvites ==
    \A i \in Invite : invites[i] # None =>
        invites'[i] # None /\ invites'[i].email = invites[i].email

SameAccounts == UsersType' /\ KeepsUsers /\ Account' = Account

LEMMA UserFields ==
    ASSUME TypeOK, NEW u \in Account
    PROVE  /\ users[u] \in UserRow
           /\ users[u].email \in Email /\ users[u].invite \in Invite
           /\ users[u].pass \in Nat
  <1>1. users[u] \in UserRow
    BY DEF TypeOK, Account
  <1> QED
    BY <1>1 DEF UserRow

LEMMA NoUserWrite ==
    ASSUME TypeOK, users' = users
    PROVE  SameAccounts
  <1>1. UsersType' /\ Account' = Account
    BY DEF TypeOK, UsersType, Account
  <1>2. KeepsUsers
    BY UserFields DEF KeepsUsers, Account
  <1> QED
    BY <1>1, <1>2 DEF SameAccounts

LEMMA PassWrite ==
    ASSUME TypeOK, NEW w \in Account,
           users' = [users EXCEPT ![w].pass = @ + 1]
    PROVE  /\ SameAccounts
           /\ users'[w].pass = users[w].pass + 1
  <1> DEFINE new == [users[w] EXCEPT !.pass = @ + 1]
  <1>1. /\ new \in UserRow
        /\ new.email = users[w].email /\ new.invite = users[w].invite
        /\ new.pass = users[w].pass + 1 /\ new.pass >= users[w].pass
        /\ new.status = users[w].status
    BY UserFields DEF UserRow
  <1>2. users' = [users EXCEPT ![w] = new]
    OBVIOUS
  <1> HIDE DEF new
  <1>3. w \in User
    BY DEF Account
  <1>4. UsersType' /\ users'[w] = new /\ \A u \in User : u # w => users'[u] = users[u]
    BY <1>1, <1>2, <1>3 DEF TypeOK, UsersType
  <1>5. new # None
    BY <1>1, NoneAssumption
  <1>6. Account' = Account
    BY <1>3, <1>4, <1>5 DEF Account
  <1>7. KeepsUsers
    BY <1>1, <1>4, <1>5, UserFields DEF KeepsUsers, Account
  <1> QED
    BY <1>1, <1>4, <1>6, <1>7 DEF SameAccounts

LEMMA DeleteWrite ==
    ASSUME TypeOK, NEW w \in Account,
           users' = [users EXCEPT ![w].status = "deleted"]
    PROVE  SameAccounts
  <1> DEFINE new == [users[w] EXCEPT !.status = "deleted"]
  <1>1. /\ new \in UserRow
        /\ new.email = users[w].email /\ new.invite = users[w].invite
        /\ new.pass = users[w].pass /\ new.pass >= users[w].pass
        /\ new.status # "active"
    BY UserFields DEF UserRow
  <1>2. users' = [users EXCEPT ![w] = new]
    OBVIOUS
  <1> HIDE DEF new
  <1>3. w \in User
    BY DEF Account
  <1>4. UsersType' /\ users'[w] = new /\ \A u \in User : u # w => users'[u] = users[u]
    BY <1>1, <1>2, <1>3 DEF TypeOK, UsersType
  <1>5. new # None
    BY <1>1, NoneAssumption
  <1>6. Account' = Account
    BY <1>3, <1>4, <1>5 DEF Account
  <1>7. KeepsUsers
    BY <1>1, <1>4, <1>5, UserFields DEF KeepsUsers, Account
  <1> QED
    BY <1>6, <1>4, <1>7 DEF SameAccounts

LEMMA InviteFields ==
    ASSUME TypeOK, NEW i \in Invite, invites[i] # None
    PROVE  /\ invites[i] \in InviteRow
           /\ invites[i].email \in Email /\ invites[i].role \in Role
  <1>1. invites[i] \in InviteRow
    BY DEF TypeOK
  <1> QED
    BY <1>1 DEF InviteRow

(* A row put in the place of an invite that is free or has its address. *)
LEMMA InviteWrite ==
    ASSUME TypeOK, NEW i \in Invite, NEW new \in InviteRow,
           invites[i] # None => new.email = invites[i].email,
           invites' = [invites EXCEPT ![i] = new]
    PROVE  InvitesType' /\ KeepsInvites
  <1>1. /\ InvitesType' /\ invites'[i] = new
        /\ \A j \in Invite : j # i => invites'[j] = invites[j]
    BY DEF TypeOK, InvitesType
  <1>2. new # None
    BY NoneAssumption
  <1> QED
    BY <1>1, <1>2 DEF KeepsInvites

LEMMA NoInviteWrite ==
    ASSUME TypeOK, invites' = invites
    PROVE  InvitesType' /\ KeepsInvites
  BY DEF TypeOK, InvitesType, KeepsInvites

LEMMA NewInviteWrite ==
    ASSUME TypeOK, NEW i \in Invite, NEW e \in Email, NEW role \in Role,
           NEW boot \in BOOLEAN, NewInvite(i, e, role, boot)
    PROVE  InvitesType' /\ KeepsInvites
  <1> DEFINE new == [email |-> e, role |-> role, used |-> FALSE,
                     revoked |-> FALSE, expired |-> FALSE, boot |-> boot]
  <1>1. new \in InviteRow
    BY DEF InviteRow
  <1>2. invites[i] = None /\ invites' = [invites EXCEPT ![i] = new]
    BY DEF NewInvite
  <1> HIDE DEF new
  <1> QED
    BY <1>1, <1>2, InviteWrite

LEMMA InviteFlagWrite ==
    ASSUME TypeOK, NEW i \in Invite, invites[i] # None,
           \/ invites' = [invites EXCEPT ![i].used = TRUE]
           \/ invites' = [invites EXCEPT ![i].revoked = TRUE]
           \/ invites' = [invites EXCEPT ![i].expired = TRUE]
    PROVE  InvitesType' /\ KeepsInvites
  <1>1. CASE invites' = [invites EXCEPT ![i].used = TRUE]
    <2> DEFINE new == [invites[i] EXCEPT !.used = TRUE]
    <2>1. new \in InviteRow /\ new.email = invites[i].email
      BY InviteFields DEF InviteRow
    <2>2. invites' = [invites EXCEPT ![i] = new]
      BY <1>1
    <2> HIDE DEF new
    <2> QED
      BY <2>1, <2>2, InviteWrite
  <1>2. CASE invites' = [invites EXCEPT ![i].revoked = TRUE]
    <2> DEFINE new == [invites[i] EXCEPT !.revoked = TRUE]
    <2>1. new \in InviteRow /\ new.email = invites[i].email
      BY InviteFields DEF InviteRow
    <2>2. invites' = [invites EXCEPT ![i] = new]
      BY <1>2
    <2> HIDE DEF new
    <2> QED
      BY <2>1, <2>2, InviteWrite
  <1>3. CASE invites' = [invites EXCEPT ![i].expired = TRUE]
    <2> DEFINE new == [invites[i] EXCEPT !.expired = TRUE]
    <2>1. new \in InviteRow /\ new.email = invites[i].email
      BY InviteFields DEF InviteRow
    <2>2. invites' = [invites EXCEPT ![i] = new]
      BY <1>3
    <2> HIDE DEF new
    <2> QED
      BY <2>1, <2>2, InviteWrite
  <1> QED
    BY <1>1, <1>2, <1>3

(* Sessions are only removed, but for the one that a login inserts. *)
SessionsShrink ==
    /\ SessionsType'
    /\ \A s \in Token : sessions'[s] # None => sessions'[s] = sessions[s]

LEMMA NoSessionWrite ==
    ASSUME TypeOK, sessions' = sessions
    PROVE  SessionsShrink
  BY DEF TypeOK, SessionsType, SessionsShrink

LEMMA SessionRemoved ==
    ASSUME TypeOK, NEW s, sessions' = [sessions EXCEPT ![s] = None]
    PROVE  SessionsShrink
  <1>1. SessionsType'
    BY DEF TypeOK, SessionsType
  <1>2. \A t \in Token : sessions'[t] = sessions[t] \/ sessions'[t] = None
    BY DEF TypeOK
  <1> QED
    BY <1>1, <1>2 DEF SessionsShrink

LEMMA SessionsRevoked ==
    ASSUME TypeOK, NEW u \in User, RevokeSessions(u)
    PROVE  SessionsShrink /\ SessionsOf(u)' = {}
  <1>1. \A s \in Token : sessions'[s] = IF s \in SessionsOf(u) THEN None ELSE sessions[s]
    BY DEF RevokeSessions
  <1>2. SessionsType'
    BY DEF RevokeSessions, TypeOK, SessionsType
  <1> QED
    BY <1>1, <1>2 DEF SessionsShrink, SessionsOf

(* Recovery tokens are only removed or used, but for the one minted. *)
RecoveriesShrink ==
    /\ RecoveriesType'
    /\ \A r \in Recovery : recoveries'[r] # None =>
           recoveries[r] # None /\ recoveries'[r].user = recoveries[r].user

LEMMA NoRecoveryWrite ==
    ASSUME TypeOK, recoveries' = recoveries
    PROVE  RecoveriesShrink
  BY DEF TypeOK, RecoveriesType, RecoveriesShrink

LEMMA RecoveriesRemoved ==
    ASSUME TypeOK, RecoveriesType',
           \A r \in Recovery : recoveries'[r] \in {None, recoveries[r]}
    PROVE  RecoveriesShrink
  BY DEF RecoveriesShrink

LEMMA RecoveryUsed ==
    ASSUME TypeOK, NEW r \in Recovery, recoveries[r] # None,
           recoveries' = [recoveries EXCEPT ![r] = UsedOnce(@)]
    PROVE  RecoveriesShrink
  <1>1. recoveries[r] \in RecoveryRow
    BY DEF TypeOK
  <1> DEFINE new == UsedOnce(recoveries[r])
  <1>2. new \in RecoveryRow /\ new.user = recoveries[r].user
    BY <1>1 DEF RecoveryRow, UsedOnce
  <1>3. recoveries' = [recoveries EXCEPT ![r] = new]
    OBVIOUS
  <1> HIDE DEF new
  <1>4. /\ RecoveriesType' /\ recoveries'[r] = new
        /\ \A q \in Recovery : q # r => recoveries'[q] = recoveries[q]
    BY <1>2, <1>3 DEF TypeOK, RecoveriesType
  <1> QED
    BY <1>2, <1>4 DEF RecoveriesShrink

-----------------------------------------------------------------------------
(* Putting a step together *)

Stays ==
    /\ SameAccounts
    /\ InvitesType' /\ KeepsInvites
    /\ SessionsType'
    /\ RecoveriesShrink

LEMMA ReferencesKept ==
    ASSUME References, Stays,
           request' \in [Process -> Request \cup {None}],
           cut' \in [User -> Nat], CutInPast',
           \A p \in Process : request'[p] # None =>
               request'[p] = request[p] \/ Refers(p)'
    PROVE  References'
  <1> USE DEF References
  <1>1. TypeOK'
    BY DEF Stays, SameAccounts, RecoveriesShrink, TypeOK, UsersType, InvitesType,
           SessionsType, RecoveriesType
  <1>2. Account' = Account /\ KeepsUsers /\ KeepsInvites
    BY DEF Stays, SameAccounts
  <1>3. MadeFromInvite'
    <2> SUFFICES ASSUME NEW u \in Account
                 PROVE  /\ invites'[users'[u].invite] # None
                        /\ users'[u].email = invites'[users'[u].invite].email
      BY <1>2 DEF MadeFromInvite
    <2>1. users'[u].invite = users[u].invite /\ users'[u].email = users[u].email
      BY <1>2 DEF KeepsUsers
    <2>2. users[u].invite \in Invite
      BY UserFields
    <2> QED
      BY <1>2, <2>1, <2>2 DEF MadeFromInvite, KeepsInvites
  <1>4. OneAccountPerEmail'
    BY <1>2 DEF OneAccountPerEmail, KeepsUsers
  <1>5. RequestsRefer'
    <2> SUFFICES ASSUME NEW p \in Process, request'[p] # None, request'[p] = request[p]
                 PROVE  Refers(p)'
      BY DEF RequestsRefer
    <2>1. Refers(p)
      BY DEF RequestsRefer
    <2> QED
      BY <1>2, <2>1 DEF Refers, KeepsInvites
  <1>6. RecoveriesRefer'
    BY <1>2 DEF RecoveriesRefer, Stays, RecoveriesShrink
  <1> QED
    BY <1>1, <1>3, <1>4, <1>5, <1>6

LEMMA CutKept ==
    ASSUME References, SameAccounts, cut' = cut
    PROVE  cut' \in [User -> Nat] /\ CutInPast'
  <1>1. cut' \in [User -> Nat]
    BY DEF References, TypeOK
  <1>2. ASSUME NEW u \in User
        PROVE  cut'[u] <= (IF users'[u] = None THEN 0 ELSE users'[u].pass)
    <2>1. cut[u] <= (IF users[u] = None THEN 0 ELSE users[u].pass)
      BY DEF References, CutInPast
    <2>2. cut[u] \in Nat
      BY DEF References, TypeOK
    <2>3. CASE users[u] = None
      BY <2>1, <2>3 DEF SameAccounts, Account
    <2>4. CASE users[u] # None
      <3>1. u \in Account
        BY <2>4 DEF Account
      <3>2. users'[u] # None /\ users'[u].pass >= users[u].pass
        BY <3>1 DEF SameAccounts, KeepsUsers
      <3>3. users[u].pass \in Nat
        BY <3>1, UserFields DEF References
      <3>4. users'[u].pass \in Nat
        <4>1. users'[u] \in UserRow
          BY <3>2 DEF SameAccounts, UsersType
        <4> QED
          BY <4>1 DEF UserRow
      <3> QED
        BY <2>1, <2>2, <2>4, <3>2, <3>3, <3>4
    <2> QED
      BY <2>3, <2>4
  <1> QED
    BY <1>1, <1>2 DEF CutInPast

(* The steps that only move a request on. *)
LEMMA ControlStep ==
    ASSUME References, NEW p \in Process,
           UNCHANGED <<users, invites, sessions, recoveries, cut>>,
           request' \in [Process -> Request \cup {None}],
           \A q \in Process : q # p => request'[q] = request[q],
           request'[p] # None => Refers(p)'
    PROVE  References'
  <1>1. Stays
    BY NoUserWrite, NoInviteWrite, NoSessionWrite, NoRecoveryWrite
       DEF References, Stays, SessionsShrink
  <1>2. cut' \in [User -> Nat] /\ CutInPast'
    BY <1>1, CutKept DEF Stays
  <1> QED
    BY <1>1, <1>2, ReferencesKept

(* The steps that write a table and end the request. *)
LEMMA LastStep ==
    ASSUME References, NEW p \in Process, Stays, Finish(p),
           cut' \in [User -> Nat], CutInPast'
    PROVE  References'
  <1>1. /\ request' \in [Process -> Request \cup {None}]
        /\ \A q \in Process : request'[q] # None => request'[q] = request[q]
    BY FinishEffect DEF References
  <1> QED
    BY <1>1, ReferencesKept

LEMMA ActiveIsAccount ==
    ASSUME NEW u \in User, IsActive(u)
    PROVE  u \in Account
  BY DEF IsActive, Account

LEMMA BeginStep ==
    ASSUME References, NEW p \in Process, NEW pc \in Stage,
           NEW u \in User \cup {None}, NEW pass \in Nat, NEW x \in Target,
           Begin(p, pc, u, pass, x),
           UNCHANGED <<users, invites, sessions, recoveries, cut>>,
           pc # "mark",
           pc = "create" => x \in Invite /\ invites[x] # None,
           pc \notin {"create", "delete"} => u \in Account,
           pc = "delete" => x \in Account
    PROVE  References'
  <1>1. /\ request' \in [Process -> Request \cup {None}]
        /\ request'[p] = [pc |-> pc, user |-> u, pass |-> pass, target |-> x]
        /\ \A q \in Process : q # p => request'[q] = request[q]
    BY BeginEffect DEF References
  <1>2. Account' = Account
    BY DEF Account
  <1>3. Refers(p)'
    BY <1>1, <1>2 DEF Refers
  <1> QED
    BY <1>1, <1>3, ControlStep

LEMMA GotoStep ==
    ASSUME References, NEW p \in Process, NEW pc \in Stage,
           request[p] # None, Goto(p, pc),
           UNCHANGED <<users, invites, sessions, recoveries, cut>>,
           request[p].pc \notin {"create", "delete"},
           pc \notin {"create", "mark", "delete"}
    PROVE  References'
  <1>1. /\ request' \in [Process -> Request \cup {None}]
        /\ request'[p].pc = pc /\ request'[p].user = request[p].user
        /\ \A q \in Process : q # p => request'[q] = request[q]
    BY GotoEffect DEF References
  <1>2. request[p].user \in Account
    BY DEF References, RequestsRefer, Refers
  <1>3. Account' = Account
    BY DEF Account
  <1>4. Refers(p)'
    BY <1>1, <1>2, <1>3 DEF Refers
  <1> QED
    BY <1>1, <1>4, ControlStep

LEMMA FinishStep ==
    ASSUME References, NEW p \in Process, Finish(p),
           UNCHANGED <<users, invites, sessions, recoveries, cut>>
    PROVE  References'
  <1>1. /\ request' \in [Process -> Request \cup {None}]
        /\ request'[p] = None
        /\ \A q \in Process : q # p => request'[q] = request[q]
    BY FinishEffect DEF References
  <1> QED
    BY <1>1, ControlStep

LEMMA LoginRefers ==
    ASSUME References, NEW h \in Handler, LoginStep(h)
    PROVE  References'
  <1> USE DEF Process
  <1>0. TypeOK
    BY DEF References
  <1>1. ASSUME NEW u \in User, Login(h, u)
        PROVE  References'
    <2>1. u \in Account
      BY <1>1, ActiveIsAccount DEF Login
    <2>2. users[u].pass \in Nat
      BY <1>0, <2>1, UserFields
    <2>3. "open" \in Stage /\ None \in Target /\ u \in User \cup {None}
      BY DEF Stage, Target
    <2> QED
      BY <1>1, <2>1, <2>2, <2>3, BeginStep DEF Login
  <1>2. CASE OpenSession(h)
    <2>1. PICK s \in Token : sessions' = [sessions EXCEPT ![s] =
               [user |-> request[h].user, pass |-> request[h].pass]]
      BY <1>2 DEF OpenSession
    <2>2. request[h] # None /\ request[h].pc = "open"
      BY <1>2 DEF OpenSession, At
    <2>3. request[h].user \in Account /\ request[h].pass \in Nat
      BY <1>0, <2>2, RequestFields DEF References, RequestsRefer, Refers
    <2>4. SessionsType'
      BY <1>0, <2>1, <2>3 DEF TypeOK, SessionsType, SessionRow, Account
    <2>5. Stays
      BY <1>0, <1>2, <2>4, NoUserWrite, NoInviteWrite, NoRecoveryWrite
         DEF Stays, OpenSession
    <2>6. cut' \in [User -> Nat] /\ CutInPast'
      BY <1>2, <2>5, CutKept DEF Stays, OpenSession
    <2> QED
      BY <1>2, <2>5, <2>6, LastStep DEF OpenSession
  <1> QED
    BY <1>1, <1>2 DEF LoginStep

(* A step that writes no table of accounts: what remains to be shown. *)
LEMMA OnlyInvites ==
    ASSUME References, InvitesType', KeepsInvites,
           UNCHANGED <<users, sessions, recoveries, cut>>
    PROVE  Stays /\ cut' \in [User -> Nat] /\ CutInPast'
  <1>1. Stays
    BY NoUserWrite, NoSessionWrite, NoRecoveryWrite
       DEF References, Stays, SessionsShrink
  <1> QED
    BY <1>1, CutKept DEF Stays

LEMMA CreateRefers ==
    ASSUME References, NEW h \in Handler, CreateUser(h)
    PROVE  References'
  <1> USE DEF Process
  <1>0. TypeOK /\ NoneAssumption
    BY NoneAssumption DEF References
  <1> DEFINE i == request[h].target
  <1>1. request[h] # None /\ request[h].pc = "create"
    BY DEF CreateUser, At
  <1>2. i \in Invite /\ invites[i] # None
    BY <1>1 DEF References, RequestsRefer, Refers
  <1>3. invites[i].email \in Email /\ invites[i].role \in Role
    BY <1>0, <1>2, InviteFields
  <1> DEFINE row == [email |-> invites[i].email, role |-> invites[i].role,
                     status |-> "active", pass |-> 0, invite |-> i]
  <1>4. row \in UserRow /\ row.email = invites[i].email /\ row.invite = i /\ row.pass = 0
    BY <1>2, <1>3 DEF UserRow
  <1>5. PICK w \in User :
            /\ users[w] = None /\ users' = [users EXCEPT ![w] = row]
            /\ request' = [request EXCEPT ![h] =
                   [pc |-> "mark", user |-> w, pass |-> 0, target |-> i]]
    BY DEF CreateUser
  <1>6. ~ Taken(invites[i].email)
    BY DEF CreateUser, CanCreate
  <1>7. UNCHANGED <<invites, sessions, recoveries, cut>>
    BY DEF CreateUser
  <1> DEFINE new == [pc |-> "mark", user |-> w, pass |-> 0, target |-> i]
  <1>8. new \in Request /\ new.pc = "mark" /\ new.user = w /\ new.target = i
    BY <1>2 DEF Request, Stage, Target
  <1>9. row # None /\ new # None
    BY <1>0, <1>4, <1>8
  <1>10. request' = [request EXCEPT ![h] = new]
    BY <1>5
  <1> HIDE DEF row, new
  <1>11. /\ UsersType' /\ users'[w] = row
         /\ \A u \in User : u # w => users'[u] = users[u]
    BY <1>0, <1>4, <1>5 DEF TypeOK, UsersType
  <1>12. /\ request' \in [Process -> Request \cup {None}] /\ request'[h] = new
         /\ \A q \in Process : q # h => request'[q] = request[q]
    BY <1>0, <1>8, <1>10 DEF TypeOK
  <1>13. Account' = Account \cup {w} /\ w \notin Account
    BY <1>5, <1>9, <1>11 DEF Account
  <1> HIDE DEF i
  <1>14. TypeOK'
    BY <1>0, <1>7, <1>11, <1>12 DEF TypeOK, UsersType
  <1>15. \A u \in Account : users'[u] = users[u]
    BY <1>11, <1>13 DEF Account
  <1>16. MadeFromInvite'
    BY <1>2, <1>4, <1>7, <1>11, <1>13, <1>15 DEF References, MadeFromInvite
  <1>17. OneAccountPerEmail'
    <2>1. \A u \in Account : users[u].email # row.email
      BY <1>4, <1>6 DEF Taken
    <2> QED
      BY <1>11, <1>13, <1>15, <2>1 DEF References, OneAccountPerEmail
  <1>18. RequestsRefer'
    <2> SUFFICES ASSUME NEW p \in Process, request'[p] # None
                 PROVE  Refers(p)'
      BY DEF RequestsRefer
    <2>1. CASE p = h
      BY <1>2, <1>7, <1>8, <1>12, <1>13, <2>1 DEF Refers
    <2>2. CASE p # h
      <3>1. request'[p] = request[p] /\ Refers(p)
        BY <1>12, <2>2 DEF References, RequestsRefer
      <3> QED
        BY <1>7, <1>13, <3>1 DEF Refers
    <2> QED
      BY <2>1, <2>2
  <1>19. RecoveriesRefer'
    BY <1>7, <1>13 DEF References, RecoveriesRefer
  <1>20. CutInPast'
    <2>1. cut[w] <= 0 /\ users'[w].pass = 0
      BY <1>4, <1>5, <1>11 DEF References, CutInPast
    <2> QED
      BY <1>7, <1>9, <1>11, <2>1 DEF References, CutInPast
  <1> QED
    BY <1>14, <1>16, <1>17, <1>18, <1>19, <1>20 DEF References

LEMMA AcceptRefers ==
    ASSUME References, NEW h \in Handler, AcceptStep(h)
    PROVE  References'
  <1> USE DEF Process
  <1>0. TypeOK
    BY DEF References
  <1>1. ASSUME NEW i \in Invite, AcceptLookup(h, i)
        PROVE  References'
    <2>1. invites[i] # None
      BY <1>1 DEF AcceptLookup, Usable
    <2>2. "create" \in Stage /\ i \in Target /\ None \in User \cup {None} /\ 0 \in Nat
      BY DEF Stage, Target
    <2> QED
      BY <1>1, <2>1, <2>2, BeginStep DEF AcceptLookup
  <1>2. CASE CreateUser(h)
    BY <1>2, CreateRefers
  <1>3. CASE RefuseUser(h)
    BY <1>3, FinishStep DEF RefuseUser
  <1>4. CASE MarkInviteUsed(h)
    <2>1. request[h] # None /\ request[h].pc = "mark"
      BY <1>4 DEF MarkInviteUsed, At
    <2>2. /\ request[h].target \in Invite /\ invites[request[h].target] # None
          /\ request[h].user \in Account
      BY <2>1 DEF References, RequestsRefer, Refers
    <2>3. InvitesType' /\ KeepsInvites
      BY <1>0, <1>4, <2>2, InviteFlagWrite DEF MarkInviteUsed
    <2>4. Stays /\ cut' \in [User -> Nat] /\ CutInPast'
      BY <1>4, <2>3, OnlyInvites DEF MarkInviteUsed
    <2>5. /\ request' \in [Process -> Request \cup {None}]
          /\ request'[h].pc = "open" /\ request'[h].user = request[h].user
          /\ \A q \in Process : q # h => request'[q] = request[q]
      BY <1>0, <1>4, <2>1, GotoEffect DEF MarkInviteUsed, Stage
    <2>6. Refers(h)'
      BY <2>2, <2>4, <2>5 DEF Refers, Stays, SameAccounts
    <2> QED
      BY <2>4, <2>5, <2>6, ReferencesKept
  <1> QED
    BY <1>1, <1>2, <1>3, <1>4 DEF AcceptStep

LEMMA RecoveryRefers ==
    ASSUME References, NEW p \in Process, RecoveryStep(p)
    PROVE  References'
  <1>0. TypeOK
    BY DEF References
  <1>1. ASSUME NEW u \in User, RecoveryLookup(p, u)
        PROVE  References'
    <2>1. u \in Account
      BY <1>1, ActiveIsAccount DEF RecoveryLookup
    <2>2. "count" \in Stage /\ None \in Target /\ u \in User \cup {None} /\ 0 \in Nat
      BY DEF Stage, Target
    <2> QED
      BY <1>1, <2>1, <2>2, BeginStep DEF RecoveryLookup
  <1>2. CASE CountRecoveries(p)
    <2>1. request[p] # None /\ request[p].pc = "count" /\ "mint" \in Stage
      BY <1>2 DEF CountRecoveries, At, Stage
    <2>2. CASE Goto(p, "mint")
      BY <1>2, <2>1, <2>2, GotoStep DEF CountRecoveries
    <2>3. CASE Finish(p)
      BY <1>2, <2>3, FinishStep DEF CountRecoveries
    <2> QED
      BY <1>2, <2>2, <2>3 DEF CountRecoveries
  <1>3. CASE MintRecovery(p)
    <2>1. request[p] # None /\ request[p].pc = "mint"
      BY <1>3 DEF MintRecovery, At
    <2>2. request[p].user \in Account /\ request[p].user \in User
      BY <2>1 DEF References, RequestsRefer, Refers, Account
    <2> DEFINE row == [user |-> request[p].user, used |-> FALSE,
                       relayed |-> p \in Command, uses |-> 0]
    <2>3. PICK r \in Recovery : recoveries' = [recoveries EXCEPT ![r] = row]
      BY <1>3 DEF MintRecovery
    <2>4. (p \in Command) \in BOOLEAN
      OBVIOUS
    <2>5. row \in RecoveryRow
      <3> DEFINE b == p \in Command
      <3>1. b \in BOOLEAN
        BY <2>4
      <3> HIDE DEF b
      <3>2. [user |-> request[p].user, used |-> FALSE, relayed |-> b, uses |-> 0]
                \in RecoveryRow
        BY <2>2, <3>1 DEF RecoveryRow
      <3> QED
        BY <3>2 DEF b
    <2>6. row.user = request[p].user
      OBVIOUS
    <2> HIDE DEF row
    <2>7. /\ RecoveriesType' /\ recoveries'[r] = row
          /\ \A q \in Recovery : q # r => recoveries'[q] = recoveries[q]
      BY <1>0, <2>3, <2>5 DEF TypeOK, RecoveriesType
    <2>8. /\ request' \in [Process -> Request \cup {None}]
          /\ \A q \in Process : request'[q] # None => request'[q] = request[q]
      BY <1>0, <1>3, FinishEffect DEF MintRecovery
    <2>9. UNCHANGED <<users, invites, sessions, cut>>
      BY <1>3 DEF MintRecovery
    <2>10. Account' = Account
      BY <2>9 DEF Account
    <2>11. TypeOK'
      BY <1>0, <2>7, <2>8, <2>9 DEF TypeOK, RecoveriesType
    <2>12. RecoveriesRefer'
      BY <2>2, <2>6, <2>7, <2>10 DEF References, RecoveriesRefer
    <2>13. RequestsRefer'
      BY <2>8, <2>9, <2>10 DEF References, RequestsRefer, Refers
    <2>14. MadeFromInvite' /\ OneAccountPerEmail' /\ CutInPast'
      BY <2>9, <2>10 DEF References, MadeFromInvite, OneAccountPerEmail, CutInPast
    <2> QED
      BY <2>11, <2>12, <2>13, <2>14 DEF References
  <1> QED
    BY <1>1, <1>2, <1>3 DEF RecoveryStep

LEMMA CompleteRefers ==
    ASSUME References, NEW h \in Handler, CompleteStep(h)
    PROVE  References'
  <1> USE DEF Process
  <1>0. TypeOK
    BY DEF References
  <1>1. ASSUME NEW r \in Recovery, CompleteLookup(h, r)
        PROVE  References'
    <2>1. recoveries[r].user \in Account
      BY <1>1 DEF CompleteLookup, LiveRecovery, References, RecoveriesRefer
    <2>2. "consume" \in Stage /\ r \in Target /\ 0 \in Nat
          /\ recoveries[r].user \in User \cup {None}
      BY <2>1 DEF Stage, Target, Account
    <2> QED
      BY <1>1, <2>1, <2>2, BeginStep DEF CompleteLookup
  <1>2. CASE ConsumeRecovery(h)
    <2> DEFINE r == request[h].target
               u == request[h].user
    <2>1. request[h] # None /\ request[h].pc = "consume"
      BY <1>2 DEF ConsumeRecovery, At
    <2>2. u \in Account /\ u \in User
      BY <2>1 DEF References, RequestsRefer, Refers, Account
    <2>3. /\ users' = [users EXCEPT ![u].pass = @ + 1]
          /\ RevokeSessions(u)
          /\ cut' = [cut EXCEPT ![u] = users[u].pass + 1]
          /\ Finish(h) /\ invites' = invites
          /\ recoveries' = IF recoveries[r] = None THEN recoveries
                           ELSE [recoveries EXCEPT ![r] = UsedOnce(@)]
      BY <1>2 DEF ConsumeRecovery
    <2> HIDE DEF r, u
    <2>4. SameAccounts /\ users'[u].pass = users[u].pass + 1
      BY <1>0, <2>2, <2>3, PassWrite
    <2>5. RecoveriesShrink
      <3>1. CASE recoveries' = recoveries
        BY <1>0, <3>1, NoRecoveryWrite
      <3>2. CASE recoveries[r] # None /\ r \in Recovery
        BY <1>0, <2>3, <3>2, RecoveryUsed
      <3>3. CASE r \notin Recovery
        <4>1. [recoveries EXCEPT ![r] = UsedOnce(@)] = recoveries
          BY <1>0, <3>3 DEF TypeOK
        <4> QED
          BY <2>3, <3>1, <4>1
      <3> QED
        BY <2>3, <3>1, <3>2, <3>3
    <2>6. Stays
      BY <1>0, <2>2, <2>3, <2>4, <2>5, NoInviteWrite, SessionsRevoked
         DEF Stays, SessionsShrink
    <2>7. users[u].pass \in Nat
      BY <1>0, <2>2, UserFields
    <2>8. cut' \in [User -> Nat] /\ CutInPast'
      <3>1. cut' \in [User -> Nat]
        BY <1>0, <2>2, <2>3, <2>7 DEF TypeOK
      <3>2. ASSUME NEW v \in User
            PROVE  cut'[v] <= (IF users'[v] = None THEN 0 ELSE users'[v].pass)
        <4>1. CASE v = u
          <5>1. users'[u] # None
            BY <2>2, <2>4 DEF SameAccounts, Account
          <5>2. cut'[u] = users[u].pass + 1
            BY <1>0, <2>2, <2>3 DEF TypeOK
          <5> QED
            BY <2>4, <2>7, <4>1, <5>1, <5>2
        <4>2. CASE v # u
          <5>1. cut'[v] = cut[v] /\ users'[v] = users[v]
            BY <1>0, <2>3, <4>2 DEF TypeOK
          <5> QED
            BY <5>1 DEF References, CutInPast
        <4> QED
          BY <4>1, <4>2
      <3> QED
        BY <3>1, <3>2 DEF CutInPast
    <2> QED
      BY <2>3, <2>6, <2>8, LastStep
  <1> QED
    BY <1>1, <1>2 DEF CompleteStep

(* A request past authenticate names an account. *)
LEMMA NamesAccount ==
    ASSUME References, NEW p \in Process, request[p] # None,
           request[p].pc \notin {"create", "delete"}
    PROVE  request[p].user \in Account /\ request[p].user \in User
  BY DEF References, RequestsRefer, Refers, Account

(* Going on to Db::delete_account. *)
LEMMA GoDelete ==
    ASSUME References, NEW p \in Process, request[p] # None, NEW u \in Account,
           request' = [request EXCEPT ![p].pc = "delete", ![p].target = u],
           UNCHANGED <<users, invites, sessions, recoveries, cut>>
    PROVE  References'
  <1>1. request[p] \in Request /\ u \in Target
    BY DEF References, TypeOK, Account, Target
  <1> DEFINE new == [request[p] EXCEPT !.pc = "delete", !.target = u]
  <1>2. new \in Request /\ new.pc = "delete" /\ new.target = u
    BY <1>1 DEF Request, Stage
  <1>3. request' = [request EXCEPT ![p] = new]
    OBVIOUS
  <1> HIDE DEF new
  <1>4. /\ request' \in [Process -> Request \cup {None}]
        /\ request'[p] = new
        /\ \A q \in Process : q # p => request'[q] = request[q]
    BY <1>2, <1>3 DEF References, TypeOK
  <1>5. Account' = Account
    BY DEF Account
  <1>6. Refers(p)'
    BY <1>2, <1>4, <1>5 DEF Refers
  <1> QED
    BY <1>4, <1>6, ControlStep

LEMMA SessionRefers ==
    ASSUME References, NEW h \in Handler, SessionStep(h)
    PROVE  References'
  <1> USE DEF Process
  <1>0. TypeOK
    BY DEF References
  <1>1. ASSUME NEW s \in Token, CheckSession(h, s)
        PROVE  References'
    <2>1. sessions[s].user \in User
      BY <1>0, <1>1 DEF CheckSession, TypeOK, SessionRow
    <2>2. sessions[s].user \in Account
      BY <1>1, <2>1, ActiveIsAccount DEF CheckSession
    <2>3. "auth" \in Stage /\ s \in Target /\ 0 \in Nat
          /\ sessions[s].user \in User \cup {None}
      BY <2>1 DEF Stage, Target
    <2> QED
      BY <1>1, <2>2, <2>3, BeginStep DEF CheckSession
  <1>2. CASE LoadUser(h)
    <2>1. request[h] # None /\ request[h].pc = "auth" /\ "authed" \in Stage
      BY <1>2 DEF LoadUser, At, Stage
    <2>2. CASE Goto(h, "authed")
      BY <1>2, <2>1, <2>2, GotoStep DEF LoadUser
    <2>3. CASE Finish(h)
      BY <1>2, <2>3, FinishStep DEF LoadUser
    <2> QED
      BY <1>2, <2>2, <2>3 DEF LoadUser
  <1>3. CASE Answer(h)
    BY <1>3, FinishStep DEF Answer
  <1>4. CASE Logout(h)
    <2>1. SessionsShrink
      BY <1>0, <1>4, SessionRemoved DEF Logout
    <2>2. Stays
      BY <1>0, <1>4, <2>1, NoUserWrite, NoInviteWrite, NoRecoveryWrite
         DEF Stays, SessionsShrink, Logout
    <2>3. cut' \in [User -> Nat] /\ CutInPast'
      BY <1>4, <2>2, CutKept DEF Stays, Logout
    <2> QED
      BY <1>4, <2>2, <2>3, LastStep DEF Logout
  <1>5. CASE VerifyCurrent(h)
    <2>1. request[h] # None /\ request[h].pc = "authed" /\ "set" \in Stage
      BY <1>5 DEF VerifyCurrent, At, Stage
    <2> QED
      BY <1>5, <2>1, GotoStep DEF VerifyCurrent
  <1>6. CASE SetPassword(h)
    <2>1. request[h] # None /\ request[h].pc = "set" /\ "revoke" \in Stage
      BY <1>6 DEF SetPassword, At, Stage
    <2>2. request[h].user \in Account /\ request[h].user \in User
      BY <2>1, NamesAccount
    <2>3. SameAccounts
      BY <1>0, <1>6, <2>2, PassWrite DEF SetPassword
    <2>4. Stays
      BY <1>0, <1>6, <2>3, NoInviteWrite, NoSessionWrite, NoRecoveryWrite
         DEF Stays, SessionsShrink, SetPassword
    <2>5. cut' \in [User -> Nat] /\ CutInPast'
      BY <1>6, <2>3, CutKept DEF SetPassword
    <2>6. /\ request' \in [Process -> Request \cup {None}]
          /\ request'[h].pc = "revoke" /\ request'[h].user = request[h].user
          /\ \A q \in Process : q # h => request'[q] = request[q]
      BY <1>0, <1>6, <2>1, GotoEffect DEF SetPassword
    <2>7. Refers(h)'
      BY <2>2, <2>3, <2>6 DEF Refers, SameAccounts
    <2> QED
      BY <2>4, <2>5, <2>6, <2>7, ReferencesKept
  <1>7. CASE RevokeAll(h)
    <2> DEFINE u == request[h].user
    <2>1. request[h] # None /\ request[h].pc = "revoke"
      BY <1>7 DEF RevokeAll, At
    <2>2. u \in Account /\ u \in User
      BY <2>1, NamesAccount
    <2>3. /\ RevokeSessions(u) /\ cut' = [cut EXCEPT ![u] = users[u].pass]
          /\ Finish(h) /\ UNCHANGED <<users, invites, recoveries>>
      BY <1>7 DEF RevokeAll
    <2> HIDE DEF u
    <2>4. Stays
      BY <1>0, <2>2, <2>3, NoUserWrite, NoInviteWrite, NoRecoveryWrite, SessionsRevoked
         DEF Stays, SessionsShrink
    <2>5. users[u].pass \in Nat /\ users[u] # None
      BY <1>0, <2>2, UserFields DEF Account
    <2>6. cut' \in [User -> Nat]
      BY <1>0, <2>2, <2>3, <2>5 DEF TypeOK
    <2>7. \A v \in User : cut'[v] = IF v = u THEN users[u].pass ELSE cut[v]
      BY <1>0, <2>3 DEF TypeOK
    <2>8. CutInPast'
      BY <2>3, <2>5, <2>7 DEF References, CutInPast
    <2> QED
      BY <2>3, <2>4, <2>6, <2>8, LastStep
  <1>8. CASE DeleteSelf(h)
    <2>1. request[h] # None /\ request[h].pc = "authed"
      BY <1>8 DEF DeleteSelf, At
    <2>2. request[h].user \in Account
      BY <2>1, NamesAccount
    <2> QED
      BY <1>8, <2>1, <2>2, GoDelete DEF DeleteSelf
  <1> QED
    BY <1>1, <1>2, <1>3, <1>4, <1>5, <1>6, <1>7, <1>8 DEF SessionStep

LEMMA DeleteRefers ==
    ASSUME References, NEW p \in Process, DeleteAccount(p)
    PROVE  References'
  <1> DEFINE u == request[p].target
  <1>0. TypeOK
    BY DEF References
  <1>1. u \in Account /\ u \in User
    BY DEF DeleteAccount, At, References, RequestsRefer, Refers, Account
  <1>2. /\ users' = [users EXCEPT ![u].status = "deleted"]
        /\ RevokeSessions(u)
        /\ recoveries' = [r \in Recovery |->
               IF r \in RecoveriesOf(u) THEN None ELSE recoveries[r]]
        /\ Finish(p) /\ UNCHANGED <<invites, cut>>
    BY DEF DeleteAccount
  <1> HIDE DEF u
  <1>3. RecoveriesType' /\ \A r \in Recovery : recoveries'[r] \in {None, recoveries[r]}
    BY <1>0, <1>2 DEF TypeOK, RecoveriesType
  <1>4. SameAccounts
    BY <1>0, <1>1, <1>2, DeleteWrite
  <1>5. Stays
    BY <1>0, <1>1, <1>2, <1>3, <1>4, NoInviteWrite, RecoveriesRemoved, SessionsRevoked
       DEF Stays, SessionsShrink
  <1>6. cut' \in [User -> Nat] /\ CutInPast'
    BY <1>2, <1>4, CutKept
  <1> QED
    BY <1>2, <1>5, <1>6, LastStep

LEMMA RevokeWrite ==
    ASSUME TypeOK, NEW i \in Invite, Revoke(i)
    PROVE  InvitesType' /\ KeepsInvites
  BY InviteFlagWrite DEF Revoke

LEMMA OperatorRefers ==
    ASSUME References, NEW h \in Handler, OperatorStep(h)
    PROVE  References'
  <1> USE DEF Process
  <1>0. TypeOK
    BY DEF References
  <1>1. ASSUME NEW i \in Invite, NEW e \in Email, NEW role \in Role,
               OperatorInvite(h, i, e, role)
        PROVE  References'
    <2>1. InvitesType' /\ KeepsInvites
      BY <1>0, <1>1, NewInviteWrite DEF OperatorInvite
    <2> QED
      BY <1>1, <2>1, OnlyInvites, LastStep DEF OperatorInvite
  <1>2. ASSUME NEW i \in Invite, OperatorRevoke(h, i)
        PROVE  References'
    <2>1. InvitesType' /\ KeepsInvites
      BY <1>0, <1>2, RevokeWrite DEF OperatorRevoke
    <2> QED
      BY <1>2, <2>1, OnlyInvites, LastStep DEF OperatorRevoke
  <1>3. ASSUME NEW u \in User, OperatorDelete(h, u)
        PROVE  References'
    <2>1. request[h] # None /\ u \in Account
      BY <1>3 DEF OperatorDelete, AuthedOperator, At
    <2> QED
      BY <1>3, <2>1, GoDelete DEF OperatorDelete
  <1> QED
    BY <1>1, <1>2, <1>3 DEF OperatorStep

(* A step that writes invites, or nothing, and may end requests. *)
LEMMA QuietStep ==
    ASSUME References, Stays, cut' = cut,
           request' \in [Process -> Request \cup {None}],
           \A p \in Process : request'[p] # None => request'[p] = request[p]
    PROVE  References'
  BY CutKept, ReferencesKept DEF Stays

LEMMA CommandRefers ==
    ASSUME References, NEW c \in Command, CommandStep(c)
    PROVE  References'
  <1> USE DEF Process
  <1>0. TypeOK
    BY DEF References
  <1>1. ASSUME NEW i \in Invite, NEW e \in Email, NEW role \in Role,
               CliInvite(c, i, e, role)
        PROVE  References'
    <2>1. InvitesType' /\ KeepsInvites
      BY <1>0, <1>1, NewInviteWrite DEF CliInvite
    <2>2. request' \in [Process -> Request \cup {None}]
      BY <1>0, <1>1 DEF CliInvite, TypeOK
    <2> QED
      BY <1>1, <2>1, <2>2, OnlyInvites, QuietStep DEF CliInvite
  <1>2. ASSUME NEW i \in Invite, CliRevoke(c, i)
        PROVE  References'
    <2>1. InvitesType' /\ KeepsInvites
      BY <1>0, <1>2, RevokeWrite DEF CliRevoke
    <2>2. request' \in [Process -> Request \cup {None}]
      BY <1>0, <1>2 DEF CliRevoke, TypeOK
    <2> QED
      BY <1>2, <2>1, <2>2, OnlyInvites, QuietStep DEF CliRevoke
  <1>3. ASSUME NEW u \in User, CliDelete(c, u)
        PROVE  References'
    <2>1. "delete" \in Stage /\ u \in Target /\ None \in User \cup {None} /\ 0 \in Nat
      BY DEF Stage, Target
    <2> QED
      BY <1>3, <2>1, BeginStep DEF CliDelete
  <1> QED
    BY <1>1, <1>2, <1>3 DEF CommandStep

LEMMA FailRefers ==
    ASSUME References, NEW p \in Process, Fail(p)
    PROVE  References'
  <1>1. UNCHANGED <<users, invites, sessions, recoveries, cut>> /\ request[p] # None
    BY DEF Fail
  <1>2. CASE At(p, "mark")
    <2>1. Goto(p, "open") /\ request[p].pc = "mark" /\ "open" \in Stage
      BY <1>2 DEF Fail, At, Stage
    <2> QED
      BY <1>1, <2>1, GotoStep
  <1>3. CASE At(p, "set")
    <2>1. Goto(p, "revoke") /\ request[p].pc = "set" /\ "revoke" \in Stage
      BY <1>3 DEF Fail, At, Stage
    <2> QED
      BY <1>1, <2>1, GotoStep
  <1>4. CASE ~ At(p, "mark") /\ ~ At(p, "set")
    <2>1. Finish(p)
      BY <1>4 DEF Fail
    <2> QED
      BY <1>1, <2>1, FinishStep
  <1> QED
    BY <1>2, <1>3, <1>4

LEMMA EnvironmentRefers ==
    ASSUME References, Environment
    PROVE  References'
  <1>0. TypeOK
    BY DEF References
  <1>1. ASSUME NEW i \in Invite, ExpireInvite(i)
        PROVE  References'
    <2>1. InvitesType' /\ KeepsInvites
      BY <1>0, <1>1, InviteFlagWrite DEF ExpireInvite
    <2>2. request' \in [Process -> Request \cup {None}]
      BY <1>0, <1>1 DEF ExpireInvite, TypeOK
    <2> QED
      BY <1>1, <2>1, <2>2, OnlyInvites, QuietStep DEF ExpireInvite
  <1>2. ASSUME NEW s \in Token, ExpireSession(s)
        PROVE  References'
    <2>1. SessionsShrink
      BY <1>0, <1>2, SessionRemoved DEF ExpireSession
    <2>2. Stays
      BY <1>0, <1>2, <2>1, NoUserWrite, NoInviteWrite, NoRecoveryWrite
         DEF Stays, SessionsShrink, ExpireSession
    <2>3. request' \in [Process -> Request \cup {None}]
      BY <1>0, <1>2 DEF ExpireSession, TypeOK
    <2> QED
      BY <1>2, <2>2, <2>3, QuietStep DEF ExpireSession
  <1>3. ASSUME NEW r \in Recovery, AgeRecovery(r)
        PROVE  References'
    <2>1. RecoveriesType' /\ \A q \in Recovery : recoveries'[q] \in {None, recoveries[q]}
      BY <1>0, <1>3 DEF AgeRecovery, TypeOK, RecoveriesType
    <2>2. Stays
      BY <1>0, <1>3, <2>1, NoUserWrite, NoInviteWrite, NoSessionWrite, RecoveriesRemoved
         DEF Stays, SessionsShrink, AgeRecovery
    <2>3. request' \in [Process -> Request \cup {None}]
      BY <1>0, <1>3 DEF AgeRecovery, TypeOK
    <2> QED
      BY <1>3, <2>2, <2>3, QuietStep DEF AgeRecovery
  <1>4. CASE Restart
    <2>1. InvitesType' /\ KeepsInvites
      <3>1. CASE invites' = invites
        BY <1>0, <3>1, NoInviteWrite
      <3>2. CASE invites' # invites
        <4>1. PICK i \in Invite : NewInvite(i, OperatorEmail, "operator", TRUE)
          BY <1>4, <3>2 DEF Restart, Bootstrap
        <4>2. OperatorEmail \in Email /\ "operator" \in Role /\ TRUE \in BOOLEAN
          BY <1>4, <3>2, AccountsAssumption DEF Restart, Bootstrap, Role
        <4> QED
          BY <1>0, <4>1, <4>2, NewInviteWrite
      <3> QED
        BY <3>1, <3>2
    <2>2. /\ request' \in [Process -> Request \cup {None}]
          /\ \A p \in Process : request'[p] # None => request'[p] = request[p]
      BY <1>0, <1>4 DEF Restart, TypeOK
    <2> QED
      BY <1>4, <2>1, <2>2, OnlyInvites, QuietStep DEF Restart
  <1> QED
    BY <1>1, <1>2, <1>3, <1>4 DEF Environment

LEMMA NextRefers ==
    ASSUME References, Next
    PROVE  References'
  BY LoginRefers, AcceptRefers, CompleteRefers, SessionRefers, OperatorRefers,
     CommandRefers, RecoveryRefers, DeleteRefers, FailRefers, EnvironmentRefers
     DEF Next

LEMMA InitRefers == Init => References
  <1> SUFFICES ASSUME Init
               PROVE  References
    OBVIOUS
  <1>1. TypeOK
    BY DEF Init, TypeOK
  <1>2. Account = {}
    BY DEF Init, Account
  <1>3. /\ MadeFromInvite /\ OneAccountPerEmail /\ RequestsRefer /\ RecoveriesRefer
        /\ CutInPast
    BY <1>2 DEF Init, MadeFromInvite, OneAccountPerEmail, RequestsRefer,
       RecoveriesRefer, CutInPast
  <1> QED
    BY <1>1, <1>3 DEF References

LEMMA StutterRefers ==
    ASSUME References, UNCHANGED vars
    PROVE  References'
  <1> USE DEF vars
  <1>1. Account' = Account
    BY DEF Account
  <1>2. TypeOK'
    BY DEF References, TypeOK
  <1>3. MadeFromInvite' /\ OneAccountPerEmail' /\ CutInPast'
    BY <1>1 DEF References, MadeFromInvite, OneAccountPerEmail, CutInPast
  <1>4. RequestsRefer' /\ RecoveriesRefer'
    BY <1>1 DEF References, RequestsRefer, Refers, RecoveriesRefer
  <1> QED
    BY <1>2, <1>3, <1>4 DEF References

LEMMA AlwaysRefers == Spec => []References
  <1>1. References /\ [Next]_vars => References'
    BY NextRefers, StutterRefers
  <1> QED
    BY <1>1, InitRefers, PTL DEF Spec

(* Type correctness of every state: rows, requests and their fields. *)
THEOREM TypeCorrect == Spec => []TypeOK
  <1>1. References => TypeOK
    BY DEF References
  <1> QED
    BY <1>1, AlwaysRefers, PTL

(* create_user's UNIQUE address makes the invite single-use, whether or    *)
(* not mark_invite_used ever runs.                                         *)
THEOREM InviteSingleUse == Spec => []InviteOneAccount
  <1>1. References => InviteOneAccount
    BY DEF References, MadeFromInvite, OneAccountPerEmail, InviteOneAccount
  <1> QED
    BY <1>1, AlwaysRefers, PTL

-----------------------------------------------------------------------------
(* The cap on active accounts *)

LEMMA UsersEffect ==
    ASSUME References, Next
    PROVE  SameAccounts \/ \E h \in Handler : CreateUser(h)
  <1>0. TypeOK
    BY DEF References
  <1>1. ASSUME NEW h \in Handler, CompleteStep(h)
        PROVE  SameAccounts
    <2>1. ASSUME NEW r \in Recovery, CompleteLookup(h, r)
          PROVE  SameAccounts
      BY <1>0, <2>1, NoUserWrite DEF CompleteLookup
    <2>2. CASE ConsumeRecovery(h)
      <3>1. request[h].user \in Account
        BY <2>2, NamesAccount DEF ConsumeRecovery, At, Process
      <3> QED
        BY <1>0, <2>2, <3>1, PassWrite DEF ConsumeRecovery
    <2> QED
      BY <1>1, <2>1, <2>2 DEF CompleteStep
  <1>2. ASSUME NEW h \in Handler, SessionStep(h)
        PROVE  SameAccounts
    <2>1. CASE SetPassword(h)
      <3>1. request[h].user \in Account
        BY <2>1, NamesAccount DEF SetPassword, At, Process
      <3> QED
        BY <1>0, <2>1, <3>1, PassWrite DEF SetPassword
    <2>2. CASE ~ SetPassword(h)
      <3>1. users' = users
        BY <1>2, <2>2 DEF SessionStep, CheckSession, LoadUser, Answer, Logout,
           VerifyCurrent, RevokeAll, DeleteSelf
      <3> QED
        BY <1>0, <3>1, NoUserWrite
    <2> QED
      BY <2>1, <2>2
  <1>3. ASSUME NEW p \in Process, DeleteAccount(p)
        PROVE  SameAccounts
    <2>1. request[p].target \in Account
      BY <1>3 DEF DeleteAccount, At, References, RequestsRefer, Refers
    <2> QED
      BY <1>0, <1>3, <2>1, DeleteWrite DEF DeleteAccount
  <1>4. ASSUME NEW h \in Handler, LoginStep(h) \/ OperatorStep(h)
        PROVE  users' = users
    BY <1>4 DEF LoginStep, OperatorStep, Login, OpenSession,
       OperatorInvite, OperatorRevoke, OperatorDelete
  <1>5. ASSUME NEW h \in Handler, AcceptStep(h)
        PROVE  users' = users \/ CreateUser(h)
    BY <1>5 DEF AcceptStep, AcceptLookup, RefuseUser, MarkInviteUsed
  <1>6. ASSUME NEW p \in Process, RecoveryStep(p) \/ Fail(p)
        PROVE  users' = users
    BY <1>6 DEF RecoveryStep, RecoveryLookup, CountRecoveries, MintRecovery, Fail
  <1>7. ASSUME NEW c \in Command, CommandStep(c)
        PROVE  users' = users
    BY <1>7 DEF CommandStep, CliInvite, CliRevoke, CliDelete
  <1>8. ASSUME Environment
        PROVE  users' = users
    BY <1>8 DEF Environment, ExpireInvite, ExpireSession, AgeRecovery, Restart
  <1> QED
    BY <1>0, <1>1, <1>2, <1>3, <1>4, <1>5, <1>6, <1>7, <1>8, NoUserWrite DEF Next

LEMMA CapKept ==
    ASSUME References, ActiveCapped, Next
    PROVE  ActiveCapped'
  <1>0. IsFiniteSet(ActiveUser) /\ MaxActive \in Nat
    BY AccountsAssumption, FS_Subset DEF ActiveUser
  <1>1. CASE SameAccounts
    <2>1. ActiveUser' \subseteq ActiveUser
      BY <1>1 DEF ActiveUser, IsActive, SameAccounts, KeepsUsers, Account
    <2>2. Cardinality(ActiveUser') <= Cardinality(ActiveUser)
      BY <1>0, <2>1, FS_Subset
    <2>3. Cardinality(ActiveUser) \in Nat /\ Cardinality(ActiveUser') \in Nat
      BY <1>0, <2>1, FS_Subset, FS_CardinalityType
    <2> QED
      BY <1>0, <2>2, <2>3 DEF ActiveCapped
  <1>2. ASSUME NEW h \in Handler, CreateUser(h)
        PROVE  ActiveCapped'
    <2>1. Cardinality(ActiveUser) < MaxActive
      BY <1>2 DEF CreateUser, CanCreate
    <2>2. PICK w \in User : \A u \in User : u # w => users'[u] = users[u]
      BY <1>2 DEF CreateUser, References, TypeOK
    <2>3. ActiveUser' \subseteq ActiveUser \cup {w}
      BY <2>2 DEF ActiveUser, IsActive
    <2>4. /\ IsFiniteSet(ActiveUser \cup {w})
          /\ Cardinality(ActiveUser \cup {w}) <= Cardinality(ActiveUser) + 1
      <3>1. Cardinality(ActiveUser) \in Nat
        BY <1>0, FS_CardinalityType
      <3>2. CASE w \in ActiveUser
        BY <1>0, <3>1, <3>2, FS_AddElement
      <3>3. CASE w \notin ActiveUser
        BY <1>0, <3>1, <3>3, FS_AddElement
      <3> QED
        BY <3>2, <3>3
    <2>5. Cardinality(ActiveUser') <= Cardinality(ActiveUser \cup {w})
      BY <2>3, <2>4, FS_Subset
    <2>6. /\ Cardinality(ActiveUser) \in Nat /\ Cardinality(ActiveUser') \in Nat
          /\ Cardinality(ActiveUser \cup {w}) \in Nat
      BY <1>0, <2>3, <2>4, FS_Subset, FS_CardinalityType
    <2> QED
      BY <1>0, <2>1, <2>4, <2>5, <2>6 DEF ActiveCapped
  <1> QED
    BY <1>1, <1>2, UsersEffect

(* Any number of acceptances at once leave at most MAX_ACTIVE_USERS active *)
(* accounts.                                                               *)
THEOREM CapHolds == Spec => []ActiveCapped
  <1>1. Init => ActiveCapped
    <2> SUFFICES ASSUME Init
                 PROVE  ActiveCapped
      OBVIOUS
    <2>1. ActiveUser = {}
      BY DEF Init, ActiveUser, IsActive
    <2> QED
      BY <2>1, FS_EmptySet, AccountsAssumption DEF ActiveCapped
  <1>2. References /\ ActiveCapped /\ [Next]_vars => ActiveCapped'
    <2>1. ASSUME ActiveCapped, UNCHANGED vars
          PROVE  ActiveCapped'
      BY <2>1 DEF vars, ActiveCapped, ActiveUser, IsActive
    <2> QED
      BY <2>1, CapKept
  <1> QED
    BY <1>1, <1>2, AlwaysRefers, PTL DEF Spec

-----------------------------------------------------------------------------
(* What a step does to the logins under way, and to the mints under way *)

(* A verified password that a handler did not hold before is a current one. *)
LoginsCalm ==
    \A h \in Handler :
        request'[h] # None /\ request'[h].pc \in {"mark", "open"} =>
            \/ /\ request[h] # None /\ request[h].pc \in {"mark", "open"}
               /\ request'[h].user = request[h].user
               /\ request'[h].pass = request[h].pass
            \/ ~ (request'[h].pass < cut[request'[h].user])

MintsCalm ==
    \A p \in Process :
        request'[p] # None /\ request'[p].pc = "mint" => request'[p] = request[p]

LEMMA BeginCalm ==
    ASSUME TypeOK, NEW p \in Process, NEW pc \in Stage, NEW u \in User \cup {None},
           NEW pass \in Nat, NEW x \in Target, Begin(p, pc, u, pass, x)
    PROVE  /\ pc \notin {"mark", "open"} \/ ~ (pass < cut[u]) => LoginsCalm
           /\ pc # "mint" => MintsCalm
  <1>1. /\ request'[p] = [pc |-> pc, user |-> u, pass |-> pass, target |-> x]
        /\ \A q \in Process : q # p => request'[q] = request[q]
    BY BeginEffect
  <1>2. request'[p].pc = pc /\ request'[p].user = u /\ request'[p].pass = pass
    BY <1>1
  <1> QED
    BY <1>1, <1>2 DEF LoginsCalm, MintsCalm, Process

LEMMA GotoCalm ==
    ASSUME TypeOK, NEW p \in Process, NEW pc \in Stage, request[p] # None, Goto(p, pc)
    PROVE  /\ pc \notin {"mark", "open"} \/ request[p].pc \in {"mark", "open"}
                  => LoginsCalm
           /\ pc # "mint" => MintsCalm
  <1>1. /\ request'[p].pc = pc
        /\ request'[p].user = request[p].user
        /\ request'[p].pass = request[p].pass
        /\ \A q \in Process : q # p => request'[q] = request[q]
    BY GotoEffect
  <1> QED
    BY <1>1 DEF LoginsCalm, MintsCalm, Process

LEMMA EndingCalm ==
    ASSUME \A q \in Process : request'[q] # None => request'[q] = request[q]
    PROVE  LoginsCalm /\ MintsCalm
  BY DEF LoginsCalm, MintsCalm, Process

LEMMA FinishCalm ==
    ASSUME TypeOK, NEW p \in Process, Finish(p)
    PROVE  LoginsCalm /\ MintsCalm
  BY FinishEffect, EndingCalm

(* Steps that open no session and revoke none for a new password. *)
CalmSessions == SessionsShrink /\ cut' = cut /\ LoginsCalm

(* Steps that neither count the recent recovery tokens nor add one. *)
CalmRecoveries == RecoveriesShrink /\ MintsCalm

Calm == CalmSessions /\ CalmRecoveries

LEMMA ControlCalm ==
    ASSUME TypeOK, UNCHANGED <<sessions, recoveries, cut>>, LoginsCalm, MintsCalm
    PROVE  Calm
  BY NoSessionWrite, NoRecoveryWrite DEF Calm, CalmSessions, CalmRecoveries

LEMMA LoginEffect ==
    ASSUME References, NEW h \in Handler, LoginStep(h)
    PROVE  \/ Calm
           \/ OpenSession(h) /\ CalmRecoveries
  <1>0. TypeOK /\ h \in Process
    BY DEF References, Process
  <1>1. ASSUME NEW u \in User, Login(h, u)
        PROVE  Calm
    <2>1. users[u] # None /\ u \in Account
      BY <1>1 DEF Login, IsActive, Account
    <2>2. users[u].pass \in Nat
      BY <1>0, <2>1, UserFields
    <2>3. cut[u] <= users[u].pass /\ cut[u] \in Nat
      BY <1>0, <2>1 DEF References, CutInPast, TypeOK
    <2>4. ~ (users[u].pass < cut[u])
      BY <2>2, <2>3
    <2>5. "open" \in Stage /\ None \in Target /\ u \in User \cup {None}
      BY DEF Stage, Target
    <2>6. Begin(h, "open", u, users[u].pass, None)
      BY <1>1 DEF Login
    <2>7. LoginsCalm /\ MintsCalm
      BY <1>0, <2>2, <2>4, <2>5, <2>6, BeginCalm
    <2> QED
      BY <1>0, <1>1, <2>7, ControlCalm DEF Login
  <1>2. CASE OpenSession(h)
    <2>1. LoginsCalm /\ MintsCalm
      BY <1>0, <1>2, FinishCalm DEF OpenSession
    <2> QED
      BY <1>0, <1>2, <2>1, NoRecoveryWrite DEF CalmRecoveries, OpenSession
  <1> QED
    BY <1>1, <1>2 DEF LoginStep

LEMMA AcceptEffect ==
    ASSUME References, NEW h \in Handler, AcceptStep(h)
    PROVE  Calm
  <1>0. TypeOK /\ h \in Process
    BY DEF References, Process
  <1>1. ASSUME NEW i \in Invite, AcceptLookup(h, i)
        PROVE  Calm
    <2>1. "create" \in Stage /\ i \in Target /\ None \in User \cup {None} /\ 0 \in Nat
      BY DEF Stage, Target
    <2>2. LoginsCalm /\ MintsCalm
      BY <1>0, <1>1, <2>1, BeginCalm DEF AcceptLookup
    <2> QED
      BY <1>0, <1>1, <2>2, ControlCalm DEF AcceptLookup
  <1>2. CASE CreateUser(h)
    <2> DEFINE i == request[h].target
    <2>1. PICK w \in User :
              /\ users[w] = None
              /\ request' = [request EXCEPT ![h] =
                     [pc |-> "mark", user |-> w, pass |-> 0, target |-> i]]
      BY <1>2 DEF CreateUser
    <2> DEFINE new == [pc |-> "mark", user |-> w, pass |-> 0, target |-> i]
    <2>2. new.pc = "mark" /\ new.user = w /\ new.pass = 0
      OBVIOUS
    <2>3. request' = [request EXCEPT ![h] = new]
      BY <2>1
    <2> HIDE DEF new
    <2>4. request'[h] = new /\ \A q \in Process : q # h => request'[q] = request[q]
      BY <1>0, <2>3 DEF TypeOK
    <2>5. cut[w] <= 0 /\ cut[w] \in Nat
      BY <2>1 DEF References, CutInPast, TypeOK
    <2>6. ~ (0 < cut[w])
      BY <2>5
    <2>7. LoginsCalm
      BY <2>2, <2>4, <2>6 DEF LoginsCalm, Process
    <2>8. MintsCalm
      BY <2>2, <2>4 DEF MintsCalm
    <2> QED
      BY <1>0, <1>2, <2>7, <2>8, ControlCalm DEF CreateUser
  <1>3. CASE RefuseUser(h)
    BY <1>0, <1>3, FinishCalm, ControlCalm DEF RefuseUser
  <1>4. CASE MarkInviteUsed(h)
    <2>1. request[h] # None /\ request[h].pc = "mark" /\ "open" \in Stage
      BY <1>4 DEF MarkInviteUsed, At, Stage
    <2>2. LoginsCalm /\ MintsCalm
      BY <1>0, <1>4, <2>1, GotoCalm DEF MarkInviteUsed
    <2> QED
      BY <1>0, <1>4, <2>2, ControlCalm DEF MarkInviteUsed
  <1> QED
    BY <1>1, <1>2, <1>3, <1>4 DEF AcceptStep

LEMMA RecoveryEffect ==
    ASSUME References, NEW p \in Process, RecoveryStep(p)
    PROVE  /\ CalmSessions
           /\ CalmRecoveries \/ CountRecoveries(p) \/ MintRecovery(p)
  <1>0. TypeOK
    BY DEF References
  <1>1. ASSUME NEW u \in User, RecoveryLookup(p, u)
        PROVE  Calm
    <2>1. "count" \in Stage /\ None \in Target /\ u \in User \cup {None} /\ 0 \in Nat
      BY DEF Stage, Target
    <2>2. LoginsCalm /\ MintsCalm
      BY <1>0, <1>1, <2>1, BeginCalm DEF RecoveryLookup
    <2> QED
      BY <1>0, <1>1, <2>2, ControlCalm DEF RecoveryLookup
  <1>2. CASE CountRecoveries(p)
    <2>1. request[p] # None /\ "mint" \in Stage
      BY <1>2 DEF CountRecoveries, At, Stage
    <2>2. LoginsCalm
      BY <1>0, <1>2, <2>1, GotoCalm, FinishCalm DEF CountRecoveries
    <2> QED
      BY <1>0, <1>2, <2>2, NoSessionWrite DEF CalmSessions, CountRecoveries
  <1>3. CASE MintRecovery(p)
    <2>1. LoginsCalm
      BY <1>0, <1>3, FinishCalm DEF MintRecovery
    <2> QED
      BY <1>0, <1>3, <2>1, NoSessionWrite DEF CalmSessions, MintRecovery
  <1> QED
    BY <1>1, <1>2, <1>3 DEF RecoveryStep, Calm

LEMMA CompleteEffect ==
    ASSUME References, NEW h \in Handler, CompleteStep(h)
    PROVE  /\ CalmRecoveries
           /\ CalmSessions \/ ConsumeRecovery(h)
  <1>0. TypeOK /\ h \in Process
    BY DEF References, Process
  <1>1. ASSUME NEW r \in Recovery, CompleteLookup(h, r)
        PROVE  Calm
    <2>1. recoveries[r].user \in User
      BY <1>0, <1>1 DEF CompleteLookup, LiveRecovery, TypeOK, RecoveryRow
    <2>2. /\ "consume" \in Stage /\ r \in Target /\ 0 \in Nat
          /\ recoveries[r].user \in User \cup {None}
      BY <2>1 DEF Stage, Target
    <2>3. LoginsCalm /\ MintsCalm
      BY <1>0, <1>1, <2>2, BeginCalm DEF CompleteLookup
    <2> QED
      BY <1>0, <1>1, <2>3, ControlCalm DEF CompleteLookup
  <1>2. CASE ConsumeRecovery(h)
    <2> DEFINE r == request[h].target
    <2>1. MintsCalm
      BY <1>0, <1>2, FinishCalm DEF ConsumeRecovery
    <2>2. recoveries' = IF recoveries[r] = None THEN recoveries
                        ELSE [recoveries EXCEPT ![r] = UsedOnce(@)]
      BY <1>2 DEF ConsumeRecovery
    <2> HIDE DEF r
    <2>3. CASE recoveries[r] = None \/ r \notin Recovery
      <3>1. recoveries' = recoveries
        BY <1>0, <2>2, <2>3 DEF TypeOK
      <3> QED
        BY <1>0, <1>2, <2>1, <3>1, NoRecoveryWrite DEF CalmRecoveries
    <2>4. CASE recoveries[r] # None /\ r \in Recovery
      <3>1. RecoveriesShrink
        BY <1>0, <2>2, <2>4, RecoveryUsed
      <3> QED
        BY <1>2, <2>1, <3>1 DEF CalmRecoveries
    <2> QED
      BY <2>3, <2>4
  <1> QED
    BY <1>1, <1>2 DEF CompleteStep, Calm

LEMMA DeleteCalm ==
    ASSUME TypeOK, NEW p \in Process, request[p] # None, NEW u \in User,
           request' = [request EXCEPT ![p].pc = "delete", ![p].target = u]
    PROVE  LoginsCalm /\ MintsCalm
  <1>1. request[p] \in Request
    BY DEF TypeOK
  <1> DEFINE new == [request[p] EXCEPT !.pc = "delete", !.target = u]
  <1>2. new.pc = "delete"
    BY <1>1 DEF Request
  <1>3. request' = [request EXCEPT ![p] = new]
    OBVIOUS
  <1> HIDE DEF new
  <1>4. /\ request'[p] = new
        /\ \A q \in Process : q # p => request'[q] = request[q]
    BY <1>3 DEF TypeOK
  <1> QED
    BY <1>2, <1>4 DEF LoginsCalm, MintsCalm, Process

LEMMA SessionEffect ==
    ASSUME References, NEW h \in Handler, SessionStep(h)
    PROVE  /\ CalmRecoveries
           /\ CalmSessions \/ RevokeAll(h)
  <1>0. TypeOK /\ h \in Process
    BY DEF References, Process
  <1>1. ASSUME NEW s \in Token, CheckSession(h, s)
        PROVE  Calm
    <2>1. sessions[s].user \in User
      BY <1>0, <1>1 DEF CheckSession, TypeOK, SessionRow
    <2>2. /\ "auth" \in Stage /\ s \in Target /\ 0 \in Nat
          /\ sessions[s].user \in User \cup {None}
      BY <2>1 DEF Stage, Target
    <2>3. LoginsCalm /\ MintsCalm
      BY <1>0, <1>1, <2>2, BeginCalm DEF CheckSession
    <2> QED
      BY <1>0, <1>1, <2>3, ControlCalm DEF CheckSession
  <1>2. ASSUME LoadUser(h)
        PROVE  Calm
    <2>1. request[h] # None /\ "authed" \in Stage
      BY <1>2 DEF LoadUser, At, Stage
    <2>2. LoginsCalm /\ MintsCalm
      BY <1>0, <1>2, <2>1, GotoCalm, FinishCalm DEF LoadUser
    <2> QED
      BY <1>0, <1>2, <2>2, ControlCalm DEF LoadUser
  <1>3. ASSUME Answer(h)
        PROVE  Calm
    BY <1>0, <1>3, FinishCalm, ControlCalm DEF Answer
  <1>4. ASSUME Logout(h)
        PROVE  Calm
    <2>1. LoginsCalm /\ MintsCalm
      BY <1>0, <1>4, FinishCalm DEF Logout
    <2>2. SessionsShrink
      BY <1>0, <1>4, SessionRemoved DEF Logout
    <2> QED
      BY <1>0, <1>4, <2>1, <2>2, NoRecoveryWrite
         DEF Calm, CalmSessions, CalmRecoveries, Logout
  <1>5. ASSUME VerifyCurrent(h)
        PROVE  Calm
    <2>1. request[h] # None /\ "set" \in Stage
      BY <1>5 DEF VerifyCurrent, At, Stage
    <2>2. LoginsCalm /\ MintsCalm
      BY <1>0, <1>5, <2>1, GotoCalm DEF VerifyCurrent
    <2> QED
      BY <1>0, <1>5, <2>2, ControlCalm DEF VerifyCurrent
  <1>6. ASSUME SetPassword(h)
        PROVE  Calm
    <2>1. request[h] # None /\ "revoke" \in Stage
      BY <1>6 DEF SetPassword, At, Stage
    <2>2. LoginsCalm /\ MintsCalm
      BY <1>0, <1>6, <2>1, GotoCalm DEF SetPassword
    <2> QED
      BY <1>0, <1>6, <2>2, ControlCalm DEF SetPassword
  <1>7. CASE RevokeAll(h)
    <2>1. MintsCalm
      BY <1>0, <1>7, FinishCalm DEF RevokeAll
    <2> QED
      BY <1>0, <1>7, <2>1, NoRecoveryWrite DEF CalmRecoveries, RevokeAll
  <1>8. ASSUME DeleteSelf(h)
        PROVE  Calm
    <2>1. request[h] # None /\ request[h].pc = "authed"
      BY <1>8 DEF DeleteSelf, At
    <2>2. request[h].user \in User
      BY <1>0, <2>1, NamesAccount
    <2>3. LoginsCalm /\ MintsCalm
      BY <1>0, <1>8, <2>1, <2>2, DeleteCalm DEF DeleteSelf
    <2> QED
      BY <1>0, <1>8, <2>3, ControlCalm DEF DeleteSelf
  <1> QED
    BY <1>1, <1>2, <1>3, <1>4, <1>5, <1>6, <1>7, <1>8 DEF SessionStep, Calm

LEMMA OperatorEffect ==
    ASSUME References, NEW h \in Handler, OperatorStep(h)
    PROVE  Calm
  <1>0. TypeOK /\ h \in Process
    BY DEF References, Process
  <1>1. ASSUME NEW i \in Invite, NEW e \in Email, NEW role \in Role,
               OperatorInvite(h, i, e, role)
        PROVE  Calm
    BY <1>0, <1>1, FinishCalm, ControlCalm DEF OperatorInvite
  <1>2. ASSUME NEW i \in Invite, OperatorRevoke(h, i)
        PROVE  Calm
    BY <1>0, <1>2, FinishCalm, ControlCalm DEF OperatorRevoke
  <1>3. ASSUME NEW u \in User, OperatorDelete(h, u)
        PROVE  Calm
    <2>1. request[h] # None
      BY <1>3 DEF OperatorDelete, AuthedOperator, At
    <2>2. LoginsCalm /\ MintsCalm
      BY <1>0, <1>3, <2>1, DeleteCalm DEF OperatorDelete
    <2> QED
      BY <1>0, <1>3, <2>2, ControlCalm DEF OperatorDelete
  <1> QED
    BY <1>1, <1>2, <1>3 DEF OperatorStep

LEMMA CommandEffect ==
    ASSUME References, NEW c \in Command, CommandStep(c)
    PROVE  Calm
  <1>0. TypeOK /\ c \in Process
    BY DEF References, Process
  <1>1. ASSUME NEW i \in Invite, NEW e \in Email, NEW role \in Role,
               CliInvite(c, i, e, role)
        PROVE  Calm
    BY <1>0, <1>1, EndingCalm, ControlCalm DEF CliInvite
  <1>2. ASSUME NEW i \in Invite, CliRevoke(c, i)
        PROVE  Calm
    BY <1>0, <1>2, EndingCalm, ControlCalm DEF CliRevoke
  <1>3. ASSUME NEW u \in User, CliDelete(c, u)
        PROVE  Calm
    <2>1. "delete" \in Stage /\ u \in Target /\ None \in User \cup {None} /\ 0 \in Nat
      BY DEF Stage, Target
    <2>2. LoginsCalm /\ MintsCalm
      BY <1>0, <1>3, <2>1, BeginCalm DEF CliDelete
    <2> QED
      BY <1>0, <1>3, <2>2, ControlCalm DEF CliDelete
  <1> QED
    BY <1>1, <1>2, <1>3 DEF CommandStep

LEMMA DeleteEffect ==
    ASSUME References, NEW p \in Process, DeleteAccount(p)
    PROVE  Calm
  <1> DEFINE u == request[p].target
  <1>0. TypeOK
    BY DEF References
  <1>1. u \in User
    BY DEF DeleteAccount, At, References, RequestsRefer, Refers, Account
  <1>2. /\ RevokeSessions(u)
        /\ recoveries' = [r \in Recovery |->
               IF r \in RecoveriesOf(u) THEN None ELSE recoveries[r]]
        /\ Finish(p) /\ UNCHANGED <<invites, cut>>
    BY DEF DeleteAccount
  <1> HIDE DEF u
  <1>3. RecoveriesType' /\ \A r \in Recovery : recoveries'[r] \in {None, recoveries[r]}
    BY <1>0, <1>2 DEF TypeOK, RecoveriesType
  <1>4. SessionsShrink
    BY <1>0, <1>1, <1>2, SessionsRevoked
  <1>5. RecoveriesShrink
    BY <1>0, <1>3, RecoveriesRemoved
  <1>6. LoginsCalm /\ MintsCalm
    BY <1>0, <1>2, FinishCalm
  <1> QED
    BY <1>2, <1>4, <1>5, <1>6 DEF Calm, CalmSessions, CalmRecoveries

LEMMA FailEffect ==
    ASSUME References, NEW p \in Process, Fail(p)
    PROVE  Calm
  <1>0. TypeOK /\ request[p] # None
    BY DEF References, Fail
  <1>1. "open" \in Stage /\ "revoke" \in Stage
    BY DEF Stage
  <1>2. \/ Goto(p, "open") /\ request[p].pc = "mark"
        \/ Goto(p, "revoke")
        \/ Finish(p)
    BY DEF Fail, At
  <1>3. LoginsCalm /\ MintsCalm
    BY <1>0, <1>1, <1>2, GotoCalm, FinishCalm
  <1> QED
    BY <1>0, <1>3, ControlCalm DEF Fail

LEMMA EnvironmentEffect ==
    ASSUME References, Environment
    PROVE  Calm
  <1>0. TypeOK
    BY DEF References
  <1>1. \A q \in Process : request'[q] # None => request'[q] = request[q]
    BY <1>0 DEF Environment, ExpireInvite, ExpireSession, AgeRecovery, Restart, TypeOK
  <1>2. LoginsCalm /\ MintsCalm
    BY <1>1, EndingCalm
  <1>3. ASSUME NEW i \in Invite, ExpireInvite(i)
        PROVE  Calm
    BY <1>0, <1>2, <1>3, ControlCalm DEF ExpireInvite
  <1>4. ASSUME NEW s \in Token, ExpireSession(s)
        PROVE  Calm
    <2>1. SessionsShrink
      BY <1>0, <1>4, SessionRemoved DEF ExpireSession
    <2> QED
      BY <1>0, <1>2, <1>4, <2>1, NoRecoveryWrite
         DEF Calm, CalmSessions, CalmRecoveries, ExpireSession
  <1>5. ASSUME NEW r \in Recovery, AgeRecovery(r)
        PROVE  Calm
    <2>1. RecoveriesType' /\ \A q \in Recovery : recoveries'[q] \in {None, recoveries[q]}
      BY <1>0, <1>5 DEF AgeRecovery, TypeOK, RecoveriesType
    <2>2. RecoveriesShrink
      BY <1>0, <2>1, RecoveriesRemoved
    <2> QED
      BY <1>0, <1>2, <1>5, <2>2, NoSessionWrite
         DEF Calm, CalmSessions, CalmRecoveries, AgeRecovery
  <1>6. CASE Restart
    BY <1>0, <1>2, <1>6, ControlCalm DEF Restart
  <1> QED
    BY <1>3, <1>4, <1>5, <1>6 DEF Environment

(* What any step does to the sessions opened under older passwords. *)
LEMMA NextSessions ==
    ASSUME References, Next
    PROVE  \/ CalmSessions
           \/ \E h \in Handler : OpenSession(h) \/ ConsumeRecovery(h) \/ RevokeAll(h)
  BY LoginEffect, AcceptEffect, CompleteEffect, SessionEffect, OperatorEffect,
     CommandEffect, RecoveryEffect, DeleteEffect, FailEffect, EnvironmentEffect
     DEF Next, Calm

(* What any step does to the recovery tokens. *)
LEMMA NextRecoveries ==
    ASSUME References, Next
    PROVE  \/ CalmRecoveries
           \/ \E p \in Process : CountRecoveries(p) \/ MintRecovery(p)
  BY LoginEffect, AcceptEffect, CompleteEffect, SessionEffect, OperatorEffect,
     CommandEffect, RecoveryEffect, DeleteEffect, FailEffect, EnvironmentEffect
     DEF Next, Calm

-----------------------------------------------------------------------------
(* Counting *)

LEMMA SumShrinks ==
    ASSUME NEW S, IsFiniteSet(S), NEW T, IsFiniteSet(T),
           NEW A \in SUBSET S, NEW B \in SUBSET T,
           NEW n \in Int, Cardinality(S) + Cardinality(T) <= n
    PROVE  Cardinality(A) + Cardinality(B) <= n
  <1>1. /\ IsFiniteSet(A) /\ Cardinality(A) <= Cardinality(S)
        /\ IsFiniteSet(B) /\ Cardinality(B) <= Cardinality(T)
    BY FS_Subset
  <1>2. /\ Cardinality(A) \in Nat /\ Cardinality(S) \in Nat
        /\ Cardinality(B) \in Nat /\ Cardinality(T) \in Nat
    BY <1>1, FS_CardinalityType
  <1> QED
    BY <1>1, <1>2

(* One element leaves the second set as one enters the first. *)
LEMMA SumMoves ==
    ASSUME NEW S, IsFiniteSet(S), NEW T, IsFiniteSet(T), NEW s, NEW t \in T,
           NEW A \in SUBSET (S \cup {s}), NEW B \in SUBSET (T \ {t}),
           NEW n \in Int, Cardinality(S) + Cardinality(T) <= n
    PROVE  Cardinality(A) + Cardinality(B) <= n
  <1>1. Cardinality(S) \in Nat /\ Cardinality(T) \in Nat
    BY FS_CardinalityType
  <1>2. /\ IsFiniteSet(S \cup {s})
        /\ Cardinality(S \cup {s}) = IF s \in S THEN Cardinality(S) ELSE Cardinality(S) + 1
    BY FS_AddElement
  <1>3. IsFiniteSet(T \ {t}) /\ Cardinality(T \ {t}) = Cardinality(T) - 1
    BY FS_RemoveElement
  <1>4. Cardinality(S \cup {s}) + Cardinality(T \ {t}) <= n
    BY <1>1, <1>2, <1>3
  <1> QED
    BY <1>2, <1>3, <1>4, SumShrinks

LEMMA FiniteSets ==
    ASSUME NEW u
    PROVE  /\ IsFiniteSet(StaleSessions(u)) /\ IsFiniteSet(StaleLogins(u))
           /\ IsFiniteSet(RecoveriesOf(u)) /\ IsFiniteSet(Minting(u))
           /\ IsFiniteSet(Process)
           /\ Cardinality(Handler) \in Nat \ {0} /\ Cardinality(Process) \in Nat
  <1>1. /\ StaleSessions(u) \subseteq Token /\ StaleLogins(u) \subseteq Handler
        /\ RecoveriesOf(u) \subseteq Recovery /\ Minting(u) \subseteq Process
    BY DEF StaleSessions, SessionsOf, StaleLogins, RecoveriesOf, Minting
  <1>2. IsFiniteSet(Process)
    BY AccountsAssumption, FS_Union DEF Process
  <1>3. Cardinality(Handler) \in Nat /\ Cardinality(Handler) # 0
    BY AccountsAssumption, FS_CardinalityType, FS_EmptySet
  <1>4. Cardinality(Process) \in Nat
    BY <1>2, FS_CardinalityType
  <1> QED
    BY <1>1, <1>2, <1>3, <1>4, AccountsAssumption, FS_Subset

LEMMA StaleCalm ==
    ASSUME References, StaleCounted, CalmSessions
    PROVE  StaleCounted'
  <1> SUFFICES ASSUME NEW u \in User
               PROVE  Cardinality(StaleSessions(u)') + Cardinality(StaleLogins(u)')
                          <= Cardinality(Handler) - 1
    BY DEF StaleCounted
  <1>1. StaleSessions(u)' \subseteq StaleSessions(u)
    BY DEF CalmSessions, SessionsShrink, StaleSessions, SessionsOf
  <1>2. StaleLogins(u)' \subseteq StaleLogins(u)
    BY DEF CalmSessions, LoginsCalm, StaleLogins
  <1>3. Cardinality(Handler) - 1 \in Int
    BY FiniteSets
  <1>4. Cardinality(StaleSessions(u)) + Cardinality(StaleLogins(u)) <= Cardinality(Handler) - 1
    BY DEF StaleCounted
  <1> QED
    BY <1>1, <1>2, <1>3, <1>4, FiniteSets, SumShrinks

(* The session takes the place of the login. *)
LEMMA StaleOpen ==
    ASSUME References, StaleCounted, NEW h \in Handler, OpenSession(h)
    PROVE  StaleCounted'
  <1>0. TypeOK /\ h \in Process
    BY DEF References, Process
  <1> DEFINE new == [user |-> request[h].user, pass |-> request[h].pass]
  <1>1. PICK s \in Token : sessions' = [sessions EXCEPT ![s] = new]
    BY DEF OpenSession
  <1>2. new.user = request[h].user /\ new.pass = request[h].pass
    OBVIOUS
  <1> HIDE DEF new
  <1>3. /\ sessions'[s] = new
        /\ \A t \in Token : t # s => sessions'[t] = sessions[t]
    BY <1>0, <1>1 DEF TypeOK
  <1>4. /\ request'[h] = None /\ cut' = cut
        /\ \A q \in Process : q # h => request'[q] = request[q]
    BY <1>0, FinishEffect DEF OpenSession
  <1>5. request[h] # None /\ request[h].pc = "open"
    BY DEF OpenSession, At
  <1> SUFFICES ASSUME NEW u \in User
               PROVE  Cardinality(StaleSessions(u)') + Cardinality(StaleLogins(u)')
                          <= Cardinality(Handler) - 1
    BY DEF StaleCounted
  <1>6. StaleLogins(u)' \subseteq StaleLogins(u) \ {h}
    BY <1>4 DEF StaleLogins, Process
  <1>7. StaleSessions(u)' \subseteq StaleSessions(u) \cup {s}
    BY <1>3, <1>4 DEF StaleSessions, SessionsOf
  <1>8. Cardinality(Handler) - 1 \in Int
    BY FiniteSets
  <1>9. Cardinality(StaleSessions(u)) + Cardinality(StaleLogins(u)) <= Cardinality(Handler) - 1
    BY DEF StaleCounted
  <1>10. CASE h \in StaleLogins(u)
    <2>1. IsFiniteSet(StaleSessions(u)) /\ IsFiniteSet(StaleLogins(u))
      BY FiniteSets
    <2> DEFINE n == Cardinality(Handler) - 1
    <2>2. n \in Int /\ Cardinality(StaleSessions(u)) + Cardinality(StaleLogins(u)) <= n
      BY <1>8, <1>9
    <2> HIDE DEF n
    <2>3. Cardinality(StaleSessions(u)') + Cardinality(StaleLogins(u)') <= n
      BY <1>6, <1>7, <1>10, <2>1, <2>2, SumMoves
    <2> QED
      BY <2>3 DEF n
  <1>11. CASE h \notin StaleLogins(u)
    <2>1. s \notin StaleSessions(u)'
      BY <1>2, <1>3, <1>4, <1>5, <1>11 DEF StaleLogins, StaleSessions, SessionsOf
    <2>2. StaleSessions(u)' \subseteq StaleSessions(u) /\ StaleLogins(u)' \subseteq StaleLogins(u)
      <3>1. \A t \in StaleSessions(u)' : t \in StaleSessions(u)
        BY <1>7, <2>1
      <3> QED
        BY <1>6, <3>1
    <2> QED
      BY <1>8, <1>9, <2>2, FiniteSets, SumShrinks
  <1> QED
    BY <1>10, <1>11

(* The thread that revokes is not a login. *)
LEMMA StaleRevoke ==
    ASSUME References, StaleCounted, NEW h \in Handler, NEW u \in User,
           RevokeSessions(u), Finish(h),
           \A v \in User : v # u => cut'[v] = cut[v]
    PROVE  StaleCounted'
  <1>0. TypeOK /\ h \in Process
    BY DEF References, Process
  <1>1. SessionsShrink /\ SessionsOf(u)' = {}
    BY <1>0, SessionsRevoked
  <1>2. /\ request'[h] = None
        /\ \A q \in Process : q # h => request'[q] = request[q]
    BY <1>0, FinishEffect
  <1> SUFFICES ASSUME NEW v \in User
               PROVE  Cardinality(StaleSessions(v)') + Cardinality(StaleLogins(v)')
                          <= Cardinality(Handler) - 1
    BY DEF StaleCounted
  <1>3. CASE v = u
    <2>1. StaleSessions(v)' = {}
      BY <1>1, <1>3 DEF StaleSessions
    <2>2. StaleLogins(v)' \subseteq Handler \ {h}
      BY <1>2 DEF StaleLogins
    <2>3. IsFiniteSet(Handler \ {h}) /\ Cardinality(Handler \ {h}) = Cardinality(Handler) - 1
      BY AccountsAssumption, FS_RemoveElement
    <2>4. IsFiniteSet(StaleLogins(v)') /\ Cardinality(StaleLogins(v)') <= Cardinality(Handler) - 1
      BY <2>2, <2>3, FS_Subset
    <2>5. Cardinality(StaleSessions(v)') = 0
      BY <2>1, FS_EmptySet
    <2>6. Cardinality(StaleLogins(v)') \in Nat /\ Cardinality(Handler) \in Nat
      BY <2>4, FS_CardinalityType, FiniteSets
    <2> QED
      BY <2>4, <2>5, <2>6
  <1>4. CASE v # u
    <2>1. StaleSessions(v)' \subseteq StaleSessions(v)
      BY <1>1, <1>4 DEF SessionsShrink, StaleSessions, SessionsOf
    <2>2. StaleLogins(v)' \subseteq StaleLogins(v)
      BY <1>2, <1>4 DEF StaleLogins, Process
    <2>3. Cardinality(Handler) - 1 \in Int
      BY FiniteSets
    <2>4. Cardinality(StaleSessions(v)) + Cardinality(StaleLogins(v)) <= Cardinality(Handler) - 1
      BY DEF StaleCounted
    <2> QED
      BY <2>1, <2>2, <2>3, <2>4, FiniteSets, SumShrinks
  <1> QED
    BY <1>3, <1>4

LEMMA StaleKept ==
    ASSUME References, StaleCounted, Next
    PROVE  StaleCounted'
  <1>0. TypeOK
    BY DEF References
  <1>1. ASSUME NEW h \in Handler, ConsumeRecovery(h)
        PROVE  StaleCounted'
    <2> DEFINE u == request[h].user
    <2>1. u \in User
      BY <1>1, NamesAccount DEF ConsumeRecovery, At, Process
    <2>2. /\ RevokeSessions(u) /\ Finish(h)
          /\ cut' = [cut EXCEPT ![u] = users[u].pass + 1]
      BY <1>1 DEF ConsumeRecovery
    <2> HIDE DEF u
    <2>3. \A v \in User : v # u => cut'[v] = cut[v]
      BY <1>0, <2>2 DEF TypeOK
    <2> QED
      BY <2>1, <2>2, <2>3, StaleRevoke
  <1>2. ASSUME NEW h \in Handler, RevokeAll(h)
        PROVE  StaleCounted'
    <2> DEFINE u == request[h].user
    <2>1. u \in User
      BY <1>2, NamesAccount DEF RevokeAll, At, Process
    <2>2. /\ RevokeSessions(u) /\ Finish(h)
          /\ cut' = [cut EXCEPT ![u] = users[u].pass]
      BY <1>2 DEF RevokeAll
    <2> HIDE DEF u
    <2>3. \A v \in User : v # u => cut'[v] = cut[v]
      BY <1>0, <2>2 DEF TypeOK
    <2> QED
      BY <2>1, <2>2, <2>3, StaleRevoke
  <1> QED
    BY <1>1, <1>2, StaleCalm, StaleOpen, NextSessions

(* The invariant that bounds the sessions opened under an older password   *)
(* counts the logins that may still open one.                              *)
LEMMA AlwaysCounted == Spec => []StaleCounted
  <1>1. Init => StaleCounted
    <2> SUFFICES ASSUME Init, NEW u \in User
                 PROVE  Cardinality(StaleSessions(u)) + Cardinality(StaleLogins(u))
                            <= Cardinality(Handler) - 1
      BY DEF StaleCounted
    <2>1. StaleSessions(u) = {} /\ StaleLogins(u) = {}
      BY DEF Init, StaleSessions, SessionsOf, StaleLogins, Process
    <2>2. Cardinality(Handler) \in Nat \ {0}
      BY FiniteSets
    <2> QED
      BY <2>1, <2>2, FS_EmptySet
  <1>2. References /\ StaleCounted /\ [Next]_vars => StaleCounted'
    <2>1. ASSUME StaleCounted, UNCHANGED vars
          PROVE  StaleCounted'
      BY <2>1 DEF vars, StaleCounted, StaleSessions, SessionsOf, StaleLogins
    <2> QED
      BY <2>1, StaleKept
  <1> QED
    BY <1>1, <1>2, AlwaysRefers, PTL DEF Spec

(* After a password change or a recovery revoked every session, at most    *)
(* one session for each other connection thread is alive under an older    *)
(* password.                                                               *)
THEOREM StaleSessionsHold == Spec => []StaleSessionsBounded
  <1>1. StaleCounted => StaleSessionsBounded
    <2> SUFFICES ASSUME StaleCounted, NEW u \in User
                 PROVE  Cardinality(StaleSessions(u)) <= Cardinality(Handler) - 1
      BY DEF StaleSessionsBounded
    <2>1. Cardinality(StaleSessions(u)) + Cardinality(StaleLogins(u))
              <= Cardinality(Handler) - 1
      BY DEF StaleCounted
    <2>2. /\ Cardinality(StaleSessions(u)) \in Nat /\ Cardinality(StaleLogins(u)) \in Nat
          /\ Cardinality(Handler) \in Nat
      BY FiniteSets, FS_CardinalityType
    <2> QED
      BY <2>1, <2>2
  <1> QED
    BY <1>1, AlwaysCounted, PTL

-----------------------------------------------------------------------------
(* Recovery tokens *)

LEMMA LimitInt == RecoveryLimit - 1 + Cardinality(Process) \in Int
  BY FiniteSets, AccountsAssumption

LEMMA MintCalm ==
    ASSUME RecoveriesBounded, CalmRecoveries
    PROVE  RecoveriesBounded'
  <1> SUFFICES ASSUME NEW u \in User
               PROVE  Cardinality(RecoveriesOf(u)') + Cardinality(Minting(u)')
                          <= RecoveryLimit - 1 + Cardinality(Process)
    BY DEF RecoveriesBounded
  <1>1. RecoveriesOf(u)' \subseteq RecoveriesOf(u)
    BY DEF CalmRecoveries, RecoveriesShrink, RecoveriesOf
  <1>2. Minting(u)' \subseteq Minting(u)
    BY DEF CalmRecoveries, MintsCalm, Minting, At
  <1>3. Cardinality(RecoveriesOf(u)) + Cardinality(Minting(u))
            <= RecoveryLimit - 1 + Cardinality(Process)
    BY DEF RecoveriesBounded
  <1> QED
    BY <1>1, <1>2, <1>3, LimitInt, FiniteSets, SumShrinks

(* Whoever passes the count found fewer tokens than the limit. *)
LEMMA MintCounted ==
    ASSUME References, RecoveriesBounded, NEW p \in Process, CountRecoveries(p)
    PROVE  RecoveriesBounded'
  <1>0. TypeOK
    BY DEF References
  <1>1. CASE Finish(p)
    BY <1>0, <1>1, FinishCalm, NoRecoveryWrite, MintCalm
       DEF CalmRecoveries, CountRecoveries
  <1>2. CASE ~ Finish(p)
    <2>1. /\ request[p] # None /\ Goto(p, "mint") /\ "mint" \in Stage
          /\ Cardinality(RecoveriesOf(request[p].user)) < RecoveryLimit
      BY <1>2 DEF CountRecoveries, At, Stage
    <2>2. /\ request'[p].user = request[p].user
          /\ \A q \in Process : q # p => request'[q] = request[q]
      BY <1>0, <2>1, GotoEffect
    <2> SUFFICES ASSUME NEW u \in User
                 PROVE  Cardinality(RecoveriesOf(u)') + Cardinality(Minting(u)')
                            <= RecoveryLimit - 1 + Cardinality(Process)
      BY DEF RecoveriesBounded
    <2>3. RecoveriesOf(u)' = RecoveriesOf(u)
      BY DEF CountRecoveries, RecoveriesOf
    <2>4. CASE u = request[p].user
      <3>1. IsFiniteSet(Process) /\ Minting(u)' \subseteq Process
        BY FiniteSets DEF Minting
      <3>2. Cardinality(Minting(u)') <= Cardinality(Process) /\ IsFiniteSet(Minting(u)')
        BY <3>1, FS_Subset
      <3>3. /\ Cardinality(Minting(u)') \in Nat /\ Cardinality(RecoveriesOf(u)) \in Nat
            /\ Cardinality(Process) \in Nat
        BY <3>2, FiniteSets, FS_CardinalityType
      <3>4. Cardinality(RecoveriesOf(u)') \in Nat /\ Cardinality(RecoveriesOf(u)') < RecoveryLimit
        BY <2>1, <2>3, <2>4, <3>3
      <3> QED
        BY <3>2, <3>3, <3>4, AccountsAssumption
    <2>5. CASE u # request[p].user
      <3>1. Minting(u)' \subseteq Minting(u)
        BY <2>2, <2>5 DEF Minting, At
      <3>2. Cardinality(RecoveriesOf(u)) + Cardinality(Minting(u))
                <= RecoveryLimit - 1 + Cardinality(Process)
        BY DEF RecoveriesBounded
      <3>3. RecoveriesOf(u)' \subseteq RecoveriesOf(u)
        BY <2>3
      <3> QED
        BY <3>1, <3>2, <3>3, LimitInt, FiniteSets, SumShrinks
    <2> QED
      BY <2>4, <2>5
  <1> QED
    BY <1>1, <1>2

(* The token takes the place of the request that mints it. *)
LEMMA MintAdds ==
    ASSUME References, RecoveriesBounded, NEW p \in Process, MintRecovery(p)
    PROVE  RecoveriesBounded'
  <1>0. TypeOK
    BY DEF References
  <1> DEFINE new == [user |-> request[p].user, used |-> FALSE,
                     relayed |-> p \in Command, uses |-> 0]
  <1>1. PICK r \in Recovery : recoveries' = [recoveries EXCEPT ![r] = new]
    BY DEF MintRecovery
  <1>2. new.user = request[p].user
    OBVIOUS
  <1> HIDE DEF new
  <1>3. /\ recoveries'[r] = new
        /\ \A q \in Recovery : q # r => recoveries'[q] = recoveries[q]
    BY <1>0, <1>1 DEF TypeOK
  <1>4. /\ request'[p] = None
        /\ \A q \in Process : q # p => request'[q] = request[q]
    BY <1>0, FinishEffect DEF MintRecovery
  <1>5. At(p, "mint")
    BY DEF MintRecovery
  <1> SUFFICES ASSUME NEW u \in User
               PROVE  Cardinality(RecoveriesOf(u)') + Cardinality(Minting(u)')
                          <= RecoveryLimit - 1 + Cardinality(Process)
    BY DEF RecoveriesBounded
  <1>6. Minting(u)' \subseteq Minting(u) \ {p}
    BY <1>4 DEF Minting, At
  <1>7. RecoveriesOf(u)' \subseteq RecoveriesOf(u) \cup {r}
    BY <1>3 DEF RecoveriesOf
  <1>8. Cardinality(RecoveriesOf(u)) + Cardinality(Minting(u))
            <= RecoveryLimit - 1 + Cardinality(Process)
    BY DEF RecoveriesBounded
  <1>9. CASE p \in Minting(u)
    <2>1. IsFiniteSet(RecoveriesOf(u)) /\ IsFiniteSet(Minting(u))
      BY FiniteSets
    <2>2. /\ RecoveriesOf(u)' \in SUBSET (RecoveriesOf(u) \cup {r})
          /\ Minting(u)' \in SUBSET (Minting(u) \ {p})
      BY <1>6, <1>7
    <2> DEFINE bound == RecoveryLimit - 1 + Cardinality(Process)
    <2>3. bound \in Int /\ Cardinality(RecoveriesOf(u)) + Cardinality(Minting(u)) <= bound
      BY <1>8, LimitInt
    <2> HIDE DEF bound
    <2>4. Cardinality(RecoveriesOf(u)') + Cardinality(Minting(u)') <= bound
      BY <1>9, <2>1, <2>2, <2>3, SumMoves
    <2> QED
      BY <2>4 DEF bound
  <1>10. CASE p \notin Minting(u)
    <2>1. r \notin RecoveriesOf(u)'
      BY <1>2, <1>3, <1>5, <1>10 DEF Minting, RecoveriesOf
    <2>2. \A t \in RecoveriesOf(u)' : t \in RecoveriesOf(u)
      BY <1>7, <2>1
    <2>3. RecoveriesOf(u)' \subseteq RecoveriesOf(u) /\ Minting(u)' \subseteq Minting(u)
      BY <1>6, <2>2
    <2> QED
      BY <1>8, <2>3, LimitInt, FiniteSets, SumShrinks
  <1> QED
    BY <1>9, <1>10

(* The daily limit of recovery tokens is exceeded by at most one for each  *)
(* thread and command but one, whatever they all do at the same moment.    *)
THEOREM RecoveriesHold == Spec => []RecoveriesBounded
  <1>1. Init => RecoveriesBounded
    <2> SUFFICES ASSUME Init, NEW u \in User
                 PROVE  Cardinality(RecoveriesOf(u)) + Cardinality(Minting(u))
                            <= RecoveryLimit - 1 + Cardinality(Process)
      BY DEF RecoveriesBounded
    <2>1. RecoveriesOf(u) = {} /\ Minting(u) = {}
      BY DEF Init, RecoveriesOf, Minting, At
    <2>2. Cardinality(Process) \in Nat /\ RecoveryLimit \in Nat \ {0}
      BY FiniteSets, AccountsAssumption
    <2> QED
      BY <2>1, <2>2, FS_EmptySet
  <1>2. References /\ RecoveriesBounded /\ [Next]_vars => RecoveriesBounded'
    <2>1. ASSUME RecoveriesBounded, UNCHANGED vars
          PROVE  RecoveriesBounded'
      BY <2>1 DEF vars, RecoveriesBounded, RecoveriesOf, Minting, At
    <2> QED
      BY <2>1, MintCalm, MintCounted, MintAdds, NextRecoveries
  <1> QED
    BY <1>1, <1>2, AlwaysRefers, PTL DEF Spec

-----------------------------------------------------------------------------
(* Uses of a recovery link *)

(* Steps that use no token and send no request to use one. *)
RowsKept == \A r \in Recovery : recoveries'[r] \in {None, recoveries[r]}

CompletesKept ==
    \A p \in Process :
        request'[p] # None /\ request'[p].pc = "consume" => request'[p] = request[p]

LEMMA OtherStage ==
    ASSUME TypeOK, NEW p \in Process, NEW new, new.pc # "consume",
           request' = [request EXCEPT ![p] = new]
    PROVE  CompletesKept
  <1>1. request'[p] = new /\ \A q \in Process : q # p => request'[q] = request[q]
    BY DEF TypeOK
  <1> QED
    BY <1>1 DEF CompletesKept

LEMMA BeginOther ==
    ASSUME TypeOK, NEW p \in Process, NEW pc, pc # "consume", NEW u, NEW pass, NEW x,
           Begin(p, pc, u, pass, x)
    PROVE  CompletesKept
  <1> DEFINE new == [pc |-> pc, user |-> u, pass |-> pass, target |-> x]
  <1>1. new.pc # "consume" /\ request' = [request EXCEPT ![p] = new]
    BY DEF Begin
  <1> HIDE DEF new
  <1> QED
    BY <1>1, OtherStage

LEMMA GotoOther ==
    ASSUME TypeOK, NEW p \in Process, NEW pc, pc # "consume", request[p] # None,
           Goto(p, pc)
    PROVE  CompletesKept
  <1> DEFINE new == [request[p] EXCEPT !.pc = pc]
  <1>1. request[p] \in Request
    BY DEF TypeOK
  <1>2. new.pc # "consume" /\ request' = [request EXCEPT ![p] = new]
    BY <1>1 DEF Goto, Request
  <1> HIDE DEF new
  <1> QED
    BY <1>2, OtherStage

LEMMA DeleteOther ==
    ASSUME TypeOK, NEW p \in Process, request[p] # None, NEW u,
           request' = [request EXCEPT ![p].pc = "delete", ![p].target = u]
    PROVE  CompletesKept
  <1> DEFINE new == [request[p] EXCEPT !.pc = "delete", !.target = u]
  <1>1. request[p] \in Request
    BY DEF TypeOK
  <1>2. new.pc # "consume" /\ request' = [request EXCEPT ![p] = new]
    BY <1>1 DEF Request
  <1> HIDE DEF new
  <1> QED
    BY <1>2, OtherStage

LEMMA EndingOther ==
    ASSUME \A q \in Process : request'[q] # None => request'[q] = request[q]
    PROVE  CompletesKept
  BY DEF CompletesKept

LEMMA FinishOther ==
    ASSUME TypeOK, NEW p \in Process, Finish(p)
    PROVE  CompletesKept
  BY FinishEffect, EndingOther

LEMMA CreateOther ==
    ASSUME TypeOK, NEW h \in Process, CreateUser(h)
    PROVE  CompletesKept
  <1>1. PICK w \in User :
            request' = [request EXCEPT ![h] =
                [pc |-> "mark", user |-> w, pass |-> 0, target |-> request[h].target]]
    BY DEF CreateUser
  <1> DEFINE new == [pc |-> "mark", user |-> w, pass |-> 0, target |-> request[h].target]
  <1>2. new.pc # "consume" /\ request' = [request EXCEPT ![h] = new]
    BY <1>1
  <1> HIDE DEF new
  <1> QED
    BY <1>2, OtherStage

LEMMA HandlerOther ==
    ASSUME TypeOK, NEW h \in Handler,
           LoginStep(h) \/ AcceptStep(h) \/ SessionStep(h) \/ OperatorStep(h)
    PROVE  CompletesKept /\ recoveries' = recoveries
  <1>0. h \in Process
    BY DEF Process
  <1>1. CASE LoginStep(h)
    BY <1>0, <1>1, BeginOther, FinishOther DEF LoginStep, Login, OpenSession
  <1>2. CASE AcceptStep(h)
    BY <1>0, <1>2, BeginOther, CreateOther, GotoOther, FinishOther
       DEF AcceptStep, AcceptLookup, CreateUser, RefuseUser, MarkInviteUsed, At
  <1>3. CASE SessionStep(h)
    BY <1>0, <1>3, BeginOther, GotoOther, FinishOther, DeleteOther
       DEF SessionStep, CheckSession, LoadUser, Answer, Logout, VerifyCurrent,
           SetPassword, RevokeAll, DeleteSelf, At
  <1>4. CASE OperatorStep(h)
    BY <1>0, <1>4, FinishOther, DeleteOther
       DEF OperatorStep, OperatorInvite, OperatorRevoke, OperatorDelete,
           AuthedOperator, At
  <1> QED
    BY <1>1, <1>2, <1>3, <1>4

LEMMA OtherKept ==
    ASSUME TypeOK,
           \/ \E c \in Command : CommandStep(c)
           \/ \E p \in Process :
                 \/ \E u \in User : RecoveryLookup(p, u)
                 \/ CountRecoveries(p) \/ DeleteAccount(p) \/ Fail(p)
           \/ Environment
    PROVE  CompletesKept /\ RowsKept
  <1>1. ASSUME NEW c \in Command, CommandStep(c)
        PROVE  CompletesKept /\ RowsKept
    <2>1. c \in Process
      BY DEF Process
    <2>2. CompletesKept
      BY <1>1, <2>1, BeginOther, EndingOther
         DEF CommandStep, CliInvite, CliRevoke, CliDelete
    <2> QED
      BY <1>1, <2>2 DEF CommandStep, CliInvite, CliRevoke, CliDelete, RowsKept
  <1>2. ASSUME NEW p \in Process, NEW u \in User, RecoveryLookup(p, u)
        PROVE  CompletesKept /\ RowsKept
    BY <1>2, BeginOther DEF RecoveryLookup, RowsKept
  <1>3. ASSUME NEW p \in Process, CountRecoveries(p)
        PROVE  CompletesKept /\ RowsKept
    BY <1>3, GotoOther, FinishOther DEF CountRecoveries, At, RowsKept
  <1>4. ASSUME NEW p \in Process, DeleteAccount(p)
        PROVE  CompletesKept /\ RowsKept
    BY <1>4, FinishOther DEF DeleteAccount, RowsKept
  <1>5. ASSUME NEW p \in Process, Fail(p)
        PROVE  CompletesKept /\ RowsKept
    BY <1>5, GotoOther, FinishOther DEF Fail, RowsKept
  <1>6. CASE Environment
    <2>1. \A q \in Process : request'[q] # None => request'[q] = request[q]
      BY <1>6 DEF Environment, ExpireInvite, ExpireSession, AgeRecovery, Restart, TypeOK
    <2>2. RowsKept
      BY <1>6 DEF Environment, ExpireInvite, ExpireSession, AgeRecovery, Restart,
                  TypeOK, RowsKept
    <2> QED
      BY <2>1, <2>2, EndingOther
  <1> QED
    BY <1>1, <1>2, <1>3, <1>4, <1>5, <1>6

(* What any step does to the uses of the tokens. *)
LEMMA NextUses ==
    ASSUME TypeOK, Next
    PROVE  \/ CompletesKept /\ RowsKept
           \/ \E h \in Handler :
                 (\E r \in Recovery : CompleteLookup(h, r)) \/ ConsumeRecovery(h)
           \/ \E p \in Process : MintRecovery(p)
  BY HandlerOther, OtherKept DEF Next, CompleteStep, RecoveryStep, RowsKept

(* A token that is not marked used has not been used. *)
UsesCounted ==
    /\ RecoveryUsesBounded
    /\ \A r \in Recovery :
          recoveries[r] # None /\ ~ recoveries[r].used => recoveries[r].uses = 0

LEMMA CompletingSize ==
    ASSUME NEW S \in SUBSET Handler, NEW T \in SUBSET S
    PROVE  /\ Cardinality(S) \in Nat /\ Cardinality(T) \in Nat
           /\ Cardinality(T) <= Cardinality(S)
           /\ Cardinality(S) <= Cardinality(Handler) /\ Cardinality(Handler) \in Nat
  <1>1. IsFiniteSet(Handler) /\ IsFiniteSet(S) /\ IsFiniteSet(T)
    BY AccountsAssumption, FS_Subset
  <1> QED
    BY <1>1, FS_Subset, FS_CardinalityType

LEMMA TokenUses ==
    ASSUME TypeOK, NEW r \in Recovery, recoveries[r] # None
    PROVE  recoveries[r].uses \in Nat
  BY DEF TypeOK, RecoveryRow

(* A row that is kept, with no request more on its way to it. *)
LEMMA KeptRow ==
    ASSUME TypeOK, UsesCounted, NEW r \in Recovery, recoveries'[r] = recoveries[r],
           Completing(r)' \subseteq Completing(r), recoveries[r] # None
    PROVE  recoveries'[r].uses + Cardinality(Completing(r)') <= Cardinality(Handler)
  <1>1. /\ Cardinality(Completing(r)) \in Nat /\ Cardinality(Completing(r)') \in Nat
        /\ Cardinality(Completing(r)') <= Cardinality(Completing(r))
        /\ Cardinality(Handler) \in Nat
    BY CompletingSize DEF Completing
  <1>2. recoveries[r].uses + Cardinality(Completing(r)) <= Cardinality(Handler)
    BY DEF UsesCounted, RecoveryUsesBounded
  <1> QED
    BY <1>1, <1>2, TokenUses

LEMMA UsesKept ==
    ASSUME TypeOK, UsesCounted, CompletesKept, RowsKept
    PROVE  UsesCounted'
  <1>1. \A r \in Recovery : Completing(r)' \subseteq Completing(r)
    BY DEF CompletesKept, Completing, At, Process
  <1>2. \A r \in Recovery : recoveries'[r] # None => recoveries'[r] = recoveries[r]
    BY DEF RowsKept
  <1>3. RecoveryUsesBounded'
    BY <1>1, <1>2, KeptRow DEF RecoveryUsesBounded
  <1> QED
    BY <1>2, <1>3 DEF UsesCounted

(* The token is unused: there is room for every thread. *)
LEMMA UsesLookup ==
    ASSUME TypeOK, UsesCounted, NEW h \in Handler, NEW r \in Recovery,
           CompleteLookup(h, r)
    PROVE  UsesCounted'
  <1> DEFINE new == [pc |-> "consume", user |-> recoveries[r].user, pass |-> 0,
                     target |-> r]
  <1>1. /\ recoveries' = recoveries /\ request' = [request EXCEPT ![h] = new]
        /\ recoveries[r] # None /\ ~ recoveries[r].used
    BY DEF CompleteLookup, LiveRecovery, Begin
  <1>2. new.target = r
    OBVIOUS
  <1> HIDE DEF new
  <1>3. request'[h] = new /\ \A p \in Process : p # h => request'[p] = request[p]
    BY <1>1 DEF TypeOK, Process
  <1>4. recoveries[r].uses + Cardinality(Completing(r)') <= Cardinality(Handler)
    <2>1. recoveries[r].uses = 0
      BY <1>1 DEF UsesCounted
    <2>2. Cardinality(Completing(r)') \in Nat
          /\ Cardinality(Completing(r)') <= Cardinality(Handler)
      BY CompletingSize DEF Completing
    <2> QED
      BY <2>1, <2>2
  <1>5. \A q \in Recovery : q # r => Completing(q)' \subseteq Completing(q)
    BY <1>2, <1>3 DEF Completing, At, Process
  <1>6. RecoveryUsesBounded'
    BY <1>1, <1>4, <1>5, KeptRow DEF RecoveryUsesBounded
  <1> QED
    BY <1>1, <1>6 DEF UsesCounted

(* The use takes the place of the request that was about to make it. *)
LEMMA UsesConsume ==
    ASSUME TypeOK, UsesCounted, NEW h \in Handler, ConsumeRecovery(h)
    PROVE  UsesCounted'
  <1>0. PICK r : r = request[h].target
    OBVIOUS
  <1>1. /\ recoveries' = IF recoveries[r] = None THEN recoveries
                         ELSE [recoveries EXCEPT ![r] = UsedOnce(@)]
        /\ Finish(h) /\ At(h, "consume") /\ h \in Process
    BY <1>0 DEF ConsumeRecovery, Process
  <1>2. request'[h] = None /\ \A p \in Process : p # h => request'[p] = request[p]
    BY <1>1, FinishEffect
  <1>3. \A q \in Recovery : Completing(q)' \subseteq Completing(q)
    BY <1>2 DEF Completing, At, Process
  <1>4. CASE recoveries[r] = None \/ r \notin Recovery
    <2>1. recoveries' = recoveries
      BY <1>1, <1>4 DEF TypeOK
    <2> QED
      BY <2>1, <1>3, KeptRow DEF UsesCounted, RecoveryUsesBounded
  <1>5. CASE recoveries[r] # None /\ r \in Recovery
    <2> DEFINE new == UsedOnce(recoveries[r])
    <2>1. new.used = TRUE /\ new.uses = recoveries[r].uses + 1
      BY DEF UsedOnce
    <2>2. recoveries' = [recoveries EXCEPT ![r] = new]
      BY <1>1, <1>5
    <2> HIDE DEF new
    <2>3. recoveries'[r] = new /\ \A q \in Recovery : q # r => recoveries'[q] = recoveries[q]
      BY <1>5, <2>2 DEF TypeOK
    <2>4. new.uses + Cardinality(Completing(r)') <= Cardinality(Handler)
      <3>1. h \in Completing(r) /\ Completing(r)' \subseteq Completing(r) \ {h}
        <4>1. h \in Completing(r)
          BY <1>0, <1>1 DEF Completing
        <4>2. h \notin Completing(r)'
          BY <1>2 DEF Completing, At
        <4> QED
          BY <1>3, <1>5, <4>1, <4>2
      <3>2. IsFiniteSet(Completing(r))
        BY AccountsAssumption, FS_Subset DEF Completing
      <3>3. Cardinality(Completing(r) \ {h}) = Cardinality(Completing(r)) - 1
        BY <3>1, <3>2, FS_RemoveElement
      <3>4. /\ Cardinality(Completing(r)) \in Nat /\ Cardinality(Completing(r)') \in Nat
            /\ Cardinality(Completing(r)') <= Cardinality(Completing(r) \ {h})
            /\ Cardinality(Handler) \in Nat
        <4>1. Completing(r) \ {h} \in SUBSET Handler /\ Completing(r) \in SUBSET Handler
          BY DEF Completing
        <4> QED
          BY <3>1, <4>1, CompletingSize
      <3>5. recoveries[r].uses + Cardinality(Completing(r)) <= Cardinality(Handler)
        BY <1>5 DEF UsesCounted, RecoveryUsesBounded
      <3>6. recoveries[r].uses \in Nat
        BY <1>5, TokenUses
      <3> QED
        BY <2>1, <3>3, <3>4, <3>5, <3>6
    <2>5. RecoveryUsesBounded'
      BY <1>3, <2>3, <2>4, KeptRow DEF RecoveryUsesBounded
    <2> QED
      BY <2>1, <2>3, <2>5 DEF UsesCounted
  <1> QED
    BY <1>4, <1>5

(* A new token has not been used. *)
LEMMA UsesMint ==
    ASSUME TypeOK, UsesCounted, NEW p \in Process, MintRecovery(p)
    PROVE  UsesCounted'
  <1> DEFINE new == [user |-> request[p].user, used |-> FALSE,
                     relayed |-> p \in Command, uses |-> 0]
  <1>1. PICK r \in Recovery : recoveries' = [recoveries EXCEPT ![r] = new]
    BY DEF MintRecovery
  <1>2. new.uses = 0
    OBVIOUS
  <1> HIDE DEF new
  <1>3. recoveries'[r] = new /\ \A q \in Recovery : q # r => recoveries'[q] = recoveries[q]
    BY <1>1 DEF TypeOK
  <1>4. request'[p] = None /\ \A q \in Process : q # p => request'[q] = request[q]
    BY FinishEffect DEF MintRecovery
  <1>5. \A q \in Recovery : Completing(q)' \subseteq Completing(q)
    BY <1>4 DEF Completing, At, Process
  <1>6. new.uses + Cardinality(Completing(r)') <= Cardinality(Handler)
    <2>1. Cardinality(Completing(r)') \in Nat
          /\ Cardinality(Completing(r)') <= Cardinality(Handler)
      BY CompletingSize DEF Completing
    <2> QED
      BY <1>2, <2>1
  <1>7. RecoveryUsesBounded'
    BY <1>3, <1>5, <1>6, KeptRow DEF RecoveryUsesBounded
  <1> QED
    BY <1>2, <1>3, <1>7 DEF UsesCounted

(* A recovery link sets a password at most once for each thread, though    *)
(* consume_recovery does not see whether the token was used meanwhile.     *)
THEOREM UsesHold == Spec => []RecoveryUsesBounded
  <1>1. Init => UsesCounted
    BY DEF Init, UsesCounted, RecoveryUsesBounded
  <1>2. TypeOK /\ UsesCounted /\ [Next]_vars => UsesCounted'
    <2>1. ASSUME UsesCounted, UNCHANGED vars
          PROVE  UsesCounted'
      BY <2>1 DEF vars, UsesCounted, RecoveryUsesBounded, Completing, At
    <2> QED
      BY <2>1, NextUses, UsesKept, UsesLookup, UsesConsume, UsesMint
  <1>3. UsesCounted => RecoveryUsesBounded
    BY DEF UsesCounted
  <1> QED
    BY <1>1, <1>2, <1>3, TypeCorrect, PTL DEF Spec
=============================================================================
