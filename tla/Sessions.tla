------------------------------ MODULE Sessions ------------------------------
(***************************************************************************)
(* Accounts and sessions: AuthService, UsersService and the tables users,  *)
(* refresh_tokens and password_reset_tokens.                               *)
(*                                                                         *)
(* No method opens a transaction: every statement commits by itself, and   *)
(* the calls interleave between any two of them.  A call that loses its    *)
(* process or its connection just ends where it is (Crash).  Tokens are    *)
(* the rows of refresh_tokens; the signatures around them are left out, and *)
(* so are passwords: every log-in brings the right one.                    *)
(***************************************************************************)
EXTENDS Integers, FiniteSets

CONSTANTS
    Null,    \* no value (SQL null)
    Users,   \* ids of rows of users
    Emails,  \* e-mail addresses; an identity at Firebase is named by its own
    Jtis,    \* the jti of refresh tokens
    Codes,   \* the codes of password_reset_tokens
    Calls    \* requests in progress at the same time

ASSUME SessionsAssumption == Null \notin Users \cup Emails \cup Jtis \cup Codes

VARIABLES
    account,    \* users
    token,      \* refresh_tokens
    code,       \* password_reset_tokens
    call        \* what each call is in the middle of

vars == <<account, token, code, call>>

-----------------------------------------------------------------------------
(* Rows, and what is asked of them *)

Opt(S) == S \cup {Null}

Account == [email : Emails, uid : Opt(Emails), active : BOOLEAN]

\* parent, handed, barred and survivor are history: the token this one
\* replaces, whether the client got it, whether its user was inactive when its
\* call began, and whether it was live when a password reset of its user ended.
TokenStates == {"live", "expired", "rotated", "closed"}
Token == [user : Users, state : TokenStates, parent : Opt(Jtis),
          handed : BOOLEAN, barred : BOOLEAN, survivor : BOOLEAN]

Code == [user : Users, state : {"open", "spent"}]

ASSUME NullIsNoRow == Null \notin Account \cup Token \cup Code

Steps == {"idle", "insert", "byEmail", "link", "token", "store",
          "rotate", "password", "used", "closeAll", "email"}
Call == [at : Steps, user : Opt(Users), email : Opt(Emails), uid : Opt(Emails),
         jti : Opt(Jtis), new : Opt(Jtis), code : Opt(Codes),
         barred : SUBSET Users]

Registered == {u \in Users : account[u] # Null}
WithEmail(e) == {u \in Registered : account[u].email = e}
WithUid(e) == {u \in Registered : account[u].uid = e}
Inactive == {u \in Registered : ~account[u].active}
Live(j) == token[j] # Null /\ token[j].state = "live"
Unrevoked(j) == token[j] # Null /\ token[j].state \in {"live", "expired"}

NoCall == [at |-> "idle", user |-> Null, email |-> Null, uid |-> Null,
           jti |-> Null, new |-> Null, code |-> Null,
           barred |-> {}]

Idle(c) == call[c].at = "idle"
At(c, step) == call[c].at = step
Goto(c, step) == call' = [call EXCEPT ![c].at = step]
Return(c) == call' = [call EXCEPT ![c] = NoCall]

\* barred: of the accounts a call may end up with, those inactive by now.
Begin(c, r) ==
    call' = [call EXCEPT ![c] = [r EXCEPT !.barred =
               IF r.user = Null THEN Inactive ELSE Inactive \cap {r.user}]]

\* Mutation: the account that was found is not passed on.
GrantNobody(c, u) ==
    call' = [call EXCEPT ![c] = [NoCall EXCEPT !.at = "store"]]

\* The call is about to store a token for u.
Grant(c, u) ==
    call' = [call EXCEPT ![c] = [NoCall EXCEPT !.at = "store", !.user = u,
                                 !.barred = call[c].barred \cap {u}]]

Init ==
    /\ account = [u \in Users |-> Null]
    /\ token = [j \in Jtis |-> Null]
    /\ code = [k \in Codes |-> Null]
    /\ call = [c \in Calls |-> NoCall]

-----------------------------------------------------------------------------
(* Accounts *)

\* A unique index of users refuses the e-mail or the Firebase uid.
Refused(email, uid) == WithEmail(email) # {} \/ (uid # Null /\ WithUid(uid) # {})

\* Mutation: the unique indexes are left to the look-ups before them.
CreateUserUnchecked(c, e, uid) ==
    \E u \in Users \ Registered :
       /\ account' = [account EXCEPT ![u] =
             [email |-> e, uid |-> uid, active |-> TRUE]]
       /\ Grant(c, u)

\* createUser; a refused row ends the call with an error.
CreateUser(c, e, uid) ==
    IF Refused(e, uid)
    THEN Return(c) /\ UNCHANGED account
    ELSE \E u \in Users \ Registered :
           /\ account' = [account EXCEPT ![u] =
                 [email |-> e, uid |-> uid, active |-> TRUE]]
           /\ Grant(c, u)

\* register: the look-up.  The identity is the client's own or the one that
\* Firebase makes or finds for a password, which changes nothing of ours.
Register(c, e, uid) ==
    /\ Idle(c)
    /\ WithEmail(e) = {}
    /\ Begin(c, [NoCall EXCEPT !.at = "insert", !.email = e, !.uid = uid])
    /\ UNCHANGED <<account, token, code>>

InsertUser(c) ==
    /\ At(c, "insert")
    /\ CreateUser(c, call[c].email, call[c].uid)
    /\ UNCHANGED <<token, code>>

\* loginWithGoogle: the look-up by uid.  Nothing it may add to a known
\* account's avatar or name is modelled.
LoginWithGoogle(c, e) ==
    /\ Idle(c)
    /\ WithUid(e) \subseteq Registered \ Inactive
    /\ IF WithUid(e) = {}
       THEN Begin(c, [NoCall EXCEPT !.at = "byEmail", !.email = e, !.uid = e])
       ELSE \E u \in WithUid(e) : Begin(c, [NoCall EXCEPT !.at = "store", !.user = u])
    /\ UNCHANGED <<account, token, code>>

\* ... by e-mail, to link the account it finds or to create one.
FindByEmail(c) ==
    /\ At(c, "byEmail")
    /\ WithEmail(call[c].email) \cap Inactive = {}
    /\ IF WithEmail(call[c].email) = {}
       THEN Goto(c, "insert")
       ELSE \E u \in WithEmail(call[c].email) :
              call' = [call EXCEPT ![c].at = "link", ![c].user = u, ![c].email = Null,
                                   ![c].barred = @ \cap {u}]
    /\ UNCHANGED <<account, token, code>>

\* updateGoogleInfo
Link(c) ==
    LET u == call[c].user IN
    /\ At(c, "link")
    /\ IF WithUid(call[c].uid) \subseteq {u}
       THEN /\ account' = [account EXCEPT ![u].uid = call[c].uid]
            /\ Grant(c, u)
       ELSE Return(c) /\ UNCHANGED account
    /\ UNCHANGED <<token, code>>

\* UsersController.updateProfile: assertEmailAvailable, then the update.
\* The access token's guard lets active accounts in.
UpdateProfile(c, u, e) ==
    /\ Idle(c)
    /\ u \in Registered \ Inactive
    /\ WithEmail(e) \subseteq {u}
    /\ Begin(c, [NoCall EXCEPT !.at = "email", !.user = u, !.email = e])
    /\ UNCHANGED <<account, token, code>>

SetEmail(c) ==
    LET u == call[c].user IN
    /\ At(c, "email")
    /\ account' = IF WithEmail(call[c].email) \subseteq {u}
                  THEN [account EXCEPT ![u].email = call[c].email]
                  ELSE account
    /\ Return(c)
    /\ UNCHANGED <<token, code>>

\* AdminService.deactivateUser; nothing makes an account active again.
DeactivateUser(u) ==
    /\ u \in Registered \ Inactive
    /\ account' = [account EXCEPT ![u].active = FALSE]
    /\ UNCHANGED <<token, code, call>>

-----------------------------------------------------------------------------
(* Sessions *)

\* login
Login(c, u) ==
    /\ Idle(c)
    /\ u \in Registered \ Inactive
    /\ Begin(c, [NoCall EXCEPT !.at = "store", !.user = u])
    /\ UNCHANGED <<account, token, code>>

\* Mutation: an inactive account is only kept from logging in.
CanRefreshInactive(u) == u \in Registered

\* refresh: the user the token names must be active ...
CanRefresh(u) == u \in Registered \ Inactive

Refresh(c, j) ==
    /\ Idle(c)
    /\ token[j] # Null /\ token[j].state # "expired" /\ token[j].handed
    /\ CanRefresh(token[j].user)
    /\ Begin(c, [NoCall EXCEPT !.at = "token", !.user = token[j].user, !.jti = j])
    /\ UNCHANGED <<account, token, code>>

\* Mutation: the presented token is revoked before the new one is stored.
FindTokenRevoking(c) ==
    /\ At(c, "token")
    /\ IF Live(call[c].jti)
       THEN Goto(c, "store") /\ token' = [token EXCEPT ![call[c].jti].state = "rotated"]
       ELSE Return(c) /\ UNCHANGED token
    /\ UNCHANGED <<account, code>>

\* ... and the token, read after it, neither revoked nor expired.
FindToken(c) ==
    /\ At(c, "token")
    /\ IF Live(call[c].jti) THEN Goto(c, "store") ELSE Return(c)
    /\ UNCHANGED <<account, token, code>>

\* issueAuthResult: storeRefreshToken.  The client gets the token when the
\* call is over, at once unless another token is still to be revoked.
StoreRefreshToken(c) ==
    LET r == call[c] IN
    /\ At(c, "store")
    /\ \E j \in Jtis :
         /\ token[j] = Null
         /\ token' = [token EXCEPT ![j] =
               [user |-> r.user, state |-> "live", parent |-> r.jti,
                handed |-> r.jti = Null, barred |-> r.user \in r.barred,
                survivor |-> FALSE]]
         /\ IF r.jti = Null
            THEN Return(c)
            ELSE call' = [call EXCEPT ![c].at = "rotate", ![c].new = j]
    /\ UNCHANGED <<account, code>>

\* revokeRefreshTokenByJti, of any token that is not revoked.
Revoked(old) == [token EXCEPT ![old].state =
                   IF Unrevoked(old) THEN "rotated" ELSE token[old].state]

Rotate(c) ==
    /\ At(c, "rotate")
    /\ token' = [Revoked(call[c].jti) EXCEPT ![call[c].new].handed = TRUE]
    /\ Return(c)
    /\ UNCHANGED <<account, code>>

\* revokeAllUserRefreshTokens
AllRevoked(u) ==
    [j \in Jtis |-> IF Unrevoked(j) /\ token[j].user = u
                    THEN [token[j] EXCEPT !.state = "closed"]
                    ELSE token[j]]

\* logout, of all devices or of one; the access token's guard comes first.
LogoutAll(u) ==
    /\ u \in Registered \ Inactive
    /\ \E j \in Jtis : token[j] # Null /\ token[j].user = u /\ token[j].handed
    /\ token' = AllRevoked(u)
    /\ UNCHANGED <<account, code, call>>

Logout(j) ==
    /\ Live(j) /\ token[j].handed
    /\ token[j].user \notin Inactive
    /\ token' = [token EXCEPT ![j].state = "closed"]
    /\ UNCHANGED <<account, code, call>>

Expire(j) ==
    /\ Live(j)
    /\ token' = [token EXCEPT ![j].state = "expired"]
    /\ UNCHANGED <<account, code, call>>

-----------------------------------------------------------------------------
(* Forgotten passwords *)

\* requestPasswordReset: a drawn code that is taken is refused by its index.
RequestPasswordReset(u, k) ==
    /\ u \in Registered
    /\ code[k] = Null
    /\ code' = [code EXCEPT ![k] = [user |-> u, state |-> "open"]]
    /\ UNCHANGED <<account, token, call>>

ResetPassword(c, k) ==
    /\ Idle(c)
    /\ code[k] # Null /\ code[k].state = "open"
    /\ Begin(c, [NoCall EXCEPT !.at = "password", !.user = code[k].user, !.code = k])
    /\ UNCHANGED <<account, token, code>>

\* updatePassword, of which only its place in the order is modelled.
UpdatePassword(c) ==
    /\ At(c, "password")
    /\ Goto(c, "used")
    /\ UNCHANGED <<account, token, code>>

MarkUsed(c) ==
    /\ At(c, "used")
    /\ code' = [code EXCEPT ![call[c].code].state = "spent"]
    /\ Goto(c, "closeAll")
    /\ UNCHANGED <<account, token>>

\* The rows of t when a reset of u has ended.
Ended(t, u) ==
    [j \in Jtis |-> IF t[j] # Null /\ t[j].user = u /\ t[j].state = "live"
                    THEN [t[j] EXCEPT !.survivor = TRUE]
                    ELSE t[j]]

\* Mutation: the reset does not wait for its last statement, which is lost.
CloseAllUnawaited(c) ==
    /\ At(c, "closeAll")
    /\ token' = Ended(token, call[c].user)
    /\ Return(c)
    /\ UNCHANGED <<account, code>>

CloseAll(c) ==
    LET u == call[c].user IN
    /\ At(c, "closeAll")
    /\ token' = Ended(AllRevoked(u), u)
    /\ Return(c)
    /\ UNCHANGED <<account, code>>

ExpireCode(k) ==
    /\ code[k] # Null /\ code[k].state = "open"
    /\ code' = [code EXCEPT ![k].state = "spent"]
    /\ UNCHANGED <<account, token, call>>

Crash(c) ==
    /\ ~Idle(c)
    /\ Return(c)
    /\ UNCHANGED <<account, token, code>>

-----------------------------------------------------------------------------

Step(c) ==
    \/ \E e \in Emails : \E uid \in {e, Null} : Register(c, e, uid)
    \/ InsertUser(c)
    \/ \E e \in Emails : LoginWithGoogle(c, e)
    \/ FindByEmail(c) \/ Link(c)
    \/ \E u \in Users : \E e \in Emails : UpdateProfile(c, u, e)
    \/ SetEmail(c)
    \/ \E u \in Users : Login(c, u)
    \/ \E j \in Jtis : Refresh(c, j)
    \/ FindToken(c) \/ StoreRefreshToken(c) \/ Rotate(c)
    \/ \E k \in Codes : ResetPassword(c, k)
    \/ UpdatePassword(c) \/ MarkUsed(c) \/ CloseAll(c)
    \/ Crash(c)

Next ==
    \/ \E c \in Calls : Step(c)
    \/ \E u \in Users : DeactivateUser(u) \/ LogoutAll(u)
    \/ \E j \in Jtis : Logout(j) \/ Expire(j)
    \/ \E u \in Users : \E k \in Codes : RequestPasswordReset(u, k)
    \/ \E k \in Codes : ExpireCode(k)

Spec == Init /\ [][Next]_vars

-----------------------------------------------------------------------------
(* Properties *)

\* The tables and the calls hold rows and requests of their kinds.
TypeOK ==
    /\ account \in [Users -> Opt(Account)]
    /\ token \in [Jtis -> Opt(Token)]
    /\ code \in [Codes -> Opt(Code)]
    /\ call \in [Calls -> Call]

\* No two accounts have one e-mail address or one identity, though every
\* registration, Google log-in and change of address looks for another account
\* in one statement and writes in a later one (createUser, updateGoogleInfo,
\* updateProfile).
OneAccountPerPerson ==
    \A u, v \in Registered :
       (account[u].email = account[v].email
          \/ (account[u].uid # Null /\ account[u].uid = account[v].uid)) => u = v

\* A refresh that is cut short does not end the session: a token is only
\* revoked for another one of the same user that is stored by then
\* (issueAuthResult stores first).
RotatedHasSuccessor ==
    \A j \in Jtis :
       token[j] # Null /\ token[j].state = "rotated"
          => \E k \in Jtis : /\ token[k] # Null /\ token[k].parent = j
                             /\ token[k].user = token[j].user

\* A password reset that returned left none of the user's sessions usable, the
\* ones opened while it ran included: only a call that stores its token later
\* can still open one (resetPassword revokes last).
ResetEndsSessions == \A j \in Jtis : token[j] # Null => ~token[j].survivor

\* A call that begins after an account was deactivated stores no token for it,
\* on any of the ways to a session: register, login, Google, refresh.
NoSessionAfterDeactivation ==
    \A j \in Jtis : token[j] # Null => ~token[j].barred

=============================================================================
