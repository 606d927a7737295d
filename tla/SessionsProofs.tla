--------------------------- MODULE SessionsProofs ---------------------------
(***************************************************************************)
(* Sessions keeps its promises for any number of users, tokens, codes and  *)
(* requests.  A request carries what it has read; the invariant says how   *)
(* much of that is still true when it writes: rows are never deleted, a    *)
(* token never changes hands, and nobody who is inactive becomes active.   *)
(***************************************************************************)
EXTENDS Sessions, TLAPS

\* What a request has found out, and no other request can undo.
Fits(r) ==
    /\ r.at \in {"link", "token", "store", "rotate", "email"} => r.user \in Registered
    /\ r.at \in {"insert", "byEmail", "email"} => r.email \in Emails
    /\ r.at \in {"token", "rotate"} => r.jti # Null
    /\ r.at \in {"insert", "byEmail", "link"} => r.jti = Null
    /\ r.jti # Null => /\ r.jti \in Jtis /\ token[r.jti] # Null
                       /\ token[r.jti].user = r.user
    /\ r.at = "rotate" => /\ r.new \in Jtis /\ token[r.new] # Null
                          /\ token[r.new].parent = r.jti /\ token[r.new].user = r.user
    /\ r.at \in {"password", "used"} => r.code \in Codes /\ code[r.code] # Null
    /\ r.barred \subseteq Inactive
    /\ r.at \in {"link", "token", "store"} => r.user \notin r.barred

CallsFit == \A c \in Calls : Fits(call[c])

Typed == TypeOK /\ CallsFit

\* What every step keeps of the rows.
Grows ==
    /\ Registered \subseteq Registered'
    /\ Inactive \subseteq Inactive'
    /\ \A j \in Jtis : token[j] # Null =>
          /\ token'[j] # Null /\ token'[j].user = token[j].user
          /\ token'[j].parent = token[j].parent
    /\ \A k \in Codes : code[k] # Null => code'[k] # Null

\* Only c moved.
Others(c) == \A d \in Calls \ {c} : call'[d] = call[d]

-----------------------------------------------------------------------------
(* Rows *)

LEMMA RowsTyped ==
    ASSUME TypeOK
    PROVE  /\ \A u \in Registered : account[u] \in Account
           /\ \A j \in Jtis : token[j] # Null => token[j] \in Token
           /\ \A k \in Codes : code[k] # Null => code[k] \in Code
           /\ Registered \subseteq Users
BY DEF TypeOK, Opt, Registered

LEMMA CallFields ==
    ASSUME NEW r \in Call
    PROVE  /\ r.at \in Steps /\ r.user \in Opt(Users) /\ r.email \in Opt(Emails)
           /\ r.uid \in Opt(Emails) /\ r.jti \in Opt(Jtis) /\ r.new \in Opt(Jtis)
           /\ r.code \in Opt(Codes) /\ r.barred \subseteq Users
BY DEF Call

LEMMA NoCallTyped ==
    /\ NoCall \in Call
    /\ NoCall.at = "idle" /\ NoCall.user = Null /\ NoCall.email = Null /\ NoCall.uid = Null
    /\ NoCall.jti = Null /\ NoCall.new = Null /\ NoCall.code = Null /\ NoCall.barred = {}
BY DEF NoCall, Call, Steps, Opt

LEMMA RequestTyped ==
    ASSUME TypeOK, NEW c \in Calls
    PROVE  call[c] \in Call
BY DEF TypeOK

LEMMA NoCallFits == Fits(NoCall)
BY NoCallTyped DEF Fits

(* Who stays where he is still fits.                                       *)
LEMMA Stay ==
    ASSUME TypeOK, CallsFit, Grows, NEW d \in Calls, call'[d] = call[d]
    PROVE  Fits(call[d])'
<1> DEFINE r == call[d]
<1>1. Fits(r) /\ r \in Call
  BY RequestTyped DEF CallsFit
<1>2. call'[d] = r
  OBVIOUS
<1> HIDE DEF r
<1>3. r.barred \subseteq Inactive'
  BY <1>1 DEF Fits, Grows
<1> QED
  BY <1>1, <1>2, <1>3, CallFields DEF Fits, Grows, Opt

(* A request that moves, and that fits, leaves every request fitting.      *)
LEMMA Moved ==
    ASSUME TypeOK, CallsFit, Grows, NEW c \in Calls, NEW r \in Call,
           call' = [call EXCEPT ![c] = r], Fits(r)'
    PROVE  call' \in [Calls -> Call] /\ CallsFit'
<1>1. call'[c] = r /\ \A d \in Calls \ {c} : call'[d] = call[d]
  BY DEF TypeOK
<1>2. Fits(call[c])'
  BY <1>1 DEF Fits
<1>3. \A d \in Calls \ {c} : Fits(call[d])'
  BY <1>1, Stay
<1> QED
  BY <1>2, <1>3 DEF CallsFit, TypeOK

(* A request keeps its type when one of its fields changes within its own, *)
(* and the other fields their values.                                      *)
LEMMA CallTyped ==
    \A r \in Call :
        /\ \A v \in Steps : [r EXCEPT !.at = v] \in Call
        /\ \A v \in Opt(Users) : [r EXCEPT !.user = v] \in Call
        /\ \A v \in Opt(Emails) : [r EXCEPT !.email = v] \in Call /\ [r EXCEPT !.uid = v] \in Call
        /\ \A v \in Opt(Jtis) : [r EXCEPT !.jti = v] \in Call /\ [r EXCEPT !.new = v] \in Call
        /\ \A v \in Opt(Codes) : [r EXCEPT !.code = v] \in Call
        /\ \A v \in SUBSET Users : [r EXCEPT !.barred = v] \in Call
BY DEF Call

LEMMA BarredSet ==
    \A r \in Call : \A v :
       LET n == [r EXCEPT !.barred = v] IN
       /\ n.barred = v /\ n.at = r.at /\ n.user = r.user /\ n.email = r.email
       /\ n.jti = r.jti /\ n.new = r.new /\ n.code = r.code
BY DEF Call

LEMMA StepSet ==
    \A r \in Call : \A v :
       LET n == [r EXCEPT !.at = v] IN
       /\ n.at = v /\ n.barred = r.barred /\ n.user = r.user /\ n.email = r.email
       /\ n.uid = r.uid /\ n.jti = r.jti /\ n.new = r.new /\ n.code = r.code
BY DEF Call

LEMMA SameRows ==
    ASSUME UNCHANGED <<account, token, code>>
    PROVE  Grows
BY DEF Grows, Registered, Inactive

(* A request that begins has read what it carries.                         *)
Begins(c) ==
    \/ \E e \in Emails : \E uid \in {e, Null} : Register(c, e, uid)
    \/ \E e \in Emails : LoginWithGoogle(c, e)
    \/ \E u \in Users : \E e \in Emails : UpdateProfile(c, u, e)
    \/ \E u \in Users : Login(c, u)
    \/ \E j \in Jtis : Refresh(c, j)
    \/ \E k \in Codes : ResetPassword(c, k)

LEMMA Begun ==
    ASSUME Typed, NEW c \in Calls, NEW r \in Call, Begin(c, r),
           UNCHANGED <<account, token, code>>,
           r.at \in {"link", "token", "store"} => r.user \notin Inactive,
           Fits(r)
    PROVE  Typed'
<1> DEFINE bar == IF r.user = Null THEN Inactive ELSE Inactive \cap {r.user}
           n == [r EXCEPT !.barred = bar]
<1>1. call' = [call EXCEPT ![c] = n]
  BY DEF Begin
<1>2. bar \in SUBSET Users /\ bar \subseteq Inactive
  BY RowsTyped DEF Inactive, Typed
<1> HIDE DEF bar
<1>3. n \in Call
  BY <1>2, CallTyped
<1>4. /\ n.barred = bar /\ n.at = r.at /\ n.user = r.user /\ n.email = r.email
      /\ n.jti = r.jti /\ n.new = r.new /\ n.code = r.code
  BY BarredSet
<1>5. Fits(n)
  <2> HIDE DEF n
  <2> QED
    BY <1>2, <1>4 DEF Fits
<1>6. PICK m \in Call : call' = [call EXCEPT ![c] = m] /\ Fits(m)
  BY <1>1, <1>3, <1>5
<1>7. Fits(m)'
  BY <1>6 DEF Fits, Registered, Inactive
<1> QED
  BY <1>6, <1>7, SameRows, Moved DEF Typed, TypeOK

LEMMA BeginsFits ==
    ASSUME Typed, NEW c \in Calls, Begins(c)
    PROVE  Typed' /\ UNCHANGED <<account, token, code>>
<1>1. UNCHANGED <<account, token, code>>
  BY DEF Begins, Register, LoginWithGoogle, UpdateProfile, Login, Refresh, ResetPassword
<1>2. /\ Null \notin Registered /\ Registered \subseteq Users
      /\ \A j \in Jtis : token[j] # Null => token[j].user \in Users
      /\ \A k \in Codes : code[k] # Null => code[k].user \in Users
  BY SessionsAssumption, RowsTyped DEF Typed, Token, Code
<1>3. NoCall \in Call
  BY NoCallTyped
<1>4. ASSUME NEW e \in Emails, NEW i \in Opt(Emails), NEW a \in {"insert", "byEmail"},
             Begin(c, [NoCall EXCEPT !.at = a, !.email = e, !.uid = i])
      PROVE  Typed'
  <2> DEFINE r == [NoCall EXCEPT !.at = a, !.email = e, !.uid = i]
  <2>1. r \in Call
    BY <1>3, CallTyped DEF Steps, Opt
  <2>2. r.at = a /\ r.user = Null /\ r.email = e /\ r.jti = Null /\ r.barred = {}
    BY DEF NoCall
  <2>3. Begin(c, r)
    BY <1>4
  <2> HIDE DEF r
  <2> QED
    BY <1>1, <2>1, <2>2, <2>3, Begun DEF Fits
<1>5. ASSUME NEW u \in Registered \ Inactive, Begin(c, [NoCall EXCEPT !.at = "store", !.user = u])
      PROVE  Typed'
  <2> DEFINE r == [NoCall EXCEPT !.at = "store", !.user = u]
  <2>1. r \in Call
    BY <1>2, <1>3, CallTyped DEF Steps, Opt
  <2>2. r.at = "store" /\ r.user = u /\ r.jti = Null /\ r.barred = {}
    BY DEF NoCall
  <2>3. Begin(c, r)
    BY <1>5
  <2> HIDE DEF r
  <2> QED
    BY <1>1, <2>1, <2>2, <2>3, Begun DEF Fits
<1>6. ASSUME NEW u \in Users, NEW e \in Emails, UpdateProfile(c, u, e) PROVE Typed'
  <2> DEFINE r == [NoCall EXCEPT !.at = "email", !.user = u, !.email = e]
  <2>1. r \in Call
    BY <1>3, CallTyped DEF Steps, Opt
  <2>2. r.at = "email" /\ r.user = u /\ r.email = e /\ r.jti = Null /\ r.barred = {}
    BY DEF NoCall
  <2>3. Begin(c, r) /\ u \in Registered \ Inactive
    BY <1>6 DEF UpdateProfile
  <2> HIDE DEF r
  <2> QED
    BY <1>1, <2>1, <2>2, <2>3, Begun DEF Fits
<1>7. ASSUME NEW j \in Jtis, Refresh(c, j) PROVE Typed'
  <2> DEFINE u == token[j].user
             r == [NoCall EXCEPT !.at = "token", !.user = u, !.jti = j]
  <2>1. /\ u \in Users /\ u \in Registered \ Inactive /\ Begin(c, r)
        /\ token[j] # Null /\ token[j].user = u
    BY <1>2, <1>7 DEF Refresh, CanRefresh
  <2>2. r \in Call
    BY <1>3, <2>1, CallTyped DEF Steps, Opt
  <2>3. r.at = "token" /\ r.user = u /\ r.jti = j /\ r.barred = {}
    BY DEF NoCall
  <2> HIDE DEF r, u
  <2>4. Fits(r) /\ r.user \notin Inactive
    BY <2>1, <2>3, SessionsAssumption DEF Fits
  <2> QED
    BY <1>1, <2>1, <2>2, <2>4, Begun
<1>8. ASSUME NEW k \in Codes, ResetPassword(c, k) PROVE Typed'
  <2> DEFINE u == code[k].user
             r == [NoCall EXCEPT !.at = "password", !.user = u, !.code = k]
  <2>1. u \in Users /\ code[k] # Null /\ Begin(c, r)
    BY <1>2, <1>8 DEF ResetPassword
  <2>2. r \in Call
    BY <1>3, <2>1, CallTyped DEF Steps, Opt
  <2>3. r.at = "password" /\ r.jti = Null /\ r.code = k /\ r.barred = {}
    BY DEF NoCall
  <2> HIDE DEF r
  <2> QED
    BY <1>1, <2>1, <2>2, <2>3, Begun DEF Fits
<1> QED
  BY <1>4, <1>5, <1>6, <1>7, <1>8, <1>1 DEF Begins, Register, LoginWithGoogle, Login, Opt

(* A request that ends.                                                    *)
LEMMA Returned ==
    ASSUME Typed, Grows, NEW c \in Calls, Return(c)
    PROVE  call' \in [Calls -> Call] /\ CallsFit'
<1>1. PICK r \in Call : r = NoCall
  BY NoCallTyped
<1>2. Fits(r)'
  BY <1>1, NoCallTyped DEF Fits
<1> QED
  BY <1>1, <1>2, Moved DEF Return, Typed

(* A request that has found the account it stores a token for.             *)
LEMMA Granted ==
    ASSUME Typed, Grows, NEW c \in Calls, NEW u \in Users, Grant(c, u),
           u \in Registered', u \notin call[c].barred
    PROVE  call' \in [Calls -> Call] /\ CallsFit'
<1> DEFINE b == call[c].barred
           n == [NoCall EXCEPT !.at = "store", !.user = u, !.barred = b \cap {u}]
<1>1. b \cap {u} = {} /\ b \cap {u} \in SUBSET Users
  OBVIOUS
<1>2. n \in Call
  BY <1>1, NoCallTyped, CallTyped DEF Steps, Opt
<1>3. n.at = "store" /\ n.user = u /\ n.jti = Null /\ n.barred = {}
  BY <1>1 DEF NoCall
<1>4. PICK r \in Call : /\ call' = [call EXCEPT ![c] = r]
                        /\ r.at = "store" /\ r.user = u /\ r.jti = Null /\ r.barred = {}
  BY <1>2, <1>3 DEF Grant
<1>5. Fits(r)'
  BY <1>4 DEF Fits
<1> QED
  BY <1>4, <1>5, Moved DEF Typed

(* Nobody moves.                                                           *)
LEMMA NobodyMoves ==
    ASSUME Typed, Grows, UNCHANGED call
    PROVE  call' \in [Calls -> Call] /\ CallsFit'
BY Stay DEF Typed, TypeOK, CallsFit

-----------------------------------------------------------------------------
(* Accounts *)

(* A step that writes one account: nobody else's, and nobody active again. *)
LEMMA AccountWritten ==
    ASSUME TypeOK, NEW u \in Users, NEW row \in Account,
           account' = [account EXCEPT ![u] = row], UNCHANGED <<token, code>>,
           u \in Inactive => ~row.active
    PROVE  /\ Grows /\ account' \in [Users -> Opt(Account)] /\ u \in Registered'
           /\ account'[u] = row /\ \A v \in Users \ {u} : account'[v] = account[v]
<1>1. account'[u] = row /\ \A v \in Users \ {u} : account'[v] = account[v]
  BY DEF TypeOK
<1>2. row # Null
  BY NullIsNoRow
<1> QED
  BY <1>1, <1>2 DEF Grows, Registered, Inactive, TypeOK, Opt

LEMMA AccountFields ==
    \A r \in Account :
       /\ \A v \in Emails : /\ [r EXCEPT !.email = v] \in Account
                            /\ [r EXCEPT !.email = v].email = v
                            /\ [r EXCEPT !.email = v].uid = r.uid
                            /\ [r EXCEPT !.email = v].active = r.active
       /\ \A v \in Opt(Emails) : /\ [r EXCEPT !.uid = v] \in Account
                                 /\ [r EXCEPT !.uid = v].uid = v
                                 /\ [r EXCEPT !.uid = v].email = r.email
                                 /\ [r EXCEPT !.uid = v].active = r.active
       /\ [r EXCEPT !.active = FALSE] \in Account
       /\ [r EXCEPT !.active = FALSE].email = r.email
       /\ [r EXCEPT !.active = FALSE].uid = r.uid
       /\ [r EXCEPT !.active = FALSE].active = FALSE
BY DEF Account

(* InsertUser, Link, SetEmail and DeactivateUser write a row or none.      *)
LEMMA InsertUserWrites ==
    ASSUME Typed, NEW c \in Calls, InsertUser(c)
    PROVE  \/ UNCHANGED account /\ Return(c)
           \/ \E u \in Users \ Registered, row \in Account :
                 /\ account' = [account EXCEPT ![u] = row]
                 /\ ~Refused(row.email, row.uid) /\ Grant(c, u)
<1>1. call[c].email \in Emails /\ call[c].uid \in Opt(Emails)
  BY RequestTyped, CallFields DEF Typed, CallsFit, Fits, InsertUser, At
<1>2. ASSUME NEW e \in Emails, NEW i \in Opt(Emails)
      PROVE  LET row == [email |-> e, uid |-> i, active |-> TRUE]
             IN  row \in Account /\ row.email = e /\ row.uid = i
  BY DEF Account
<1> QED
  BY <1>1, <1>2 DEF InsertUser, CreateUser

LEMMA LinkWrites ==
    ASSUME Typed, NEW c \in Calls, Link(c)
    PROVE  \/ UNCHANGED account /\ Return(c)
           \/ \E u \in Registered, row \in Account :
                 /\ account' = [account EXCEPT ![u] = row] /\ Grant(c, u)
                 /\ u \notin call[c].barred /\ row.active = account[u].active
                 /\ row.email = account[u].email /\ WithUid(row.uid) \subseteq {u}
<1> DEFINE u == call[c].user
<1>1. u \in Registered /\ u \notin call[c].barred /\ call[c].uid \in Opt(Emails)
  BY RequestTyped, CallFields DEF Typed, CallsFit, Fits, Link, At
<1>2. account[u] \in Account
  BY <1>1, RowsTyped DEF Typed
<1>3. CASE account' = [account EXCEPT ![u].uid = call[c].uid] /\ Grant(c, u)
                /\ WithUid(call[c].uid) \subseteq {u}
  <2> DEFINE row == [account[u] EXCEPT !.uid = call[c].uid]
  <2>1. account' = [account EXCEPT ![u] = row]
    BY <1>3
  <2>2. /\ row \in Account /\ row.uid = call[c].uid /\ row.email = account[u].email
        /\ row.active = account[u].active
    BY <1>1, <1>2, AccountFields
  <2> HIDE DEF row
  <2> QED
    BY <1>1, <1>3, <2>1, <2>2
<1> QED
  BY <1>3 DEF Link

LEMMA SetEmailWrites ==
    ASSUME Typed, NEW c \in Calls, SetEmail(c)
    PROVE  \/ UNCHANGED account
           \/ \E u \in Registered, row \in Account :
                 /\ account' = [account EXCEPT ![u] = row]
                 /\ row.active = account[u].active
                 /\ row.uid = account[u].uid /\ WithEmail(row.email) \subseteq {u}
<1> DEFINE u == call[c].user
<1>1. u \in Registered /\ call[c].email \in Emails
  BY DEF Typed, CallsFit, Fits, SetEmail, At
<1>2. account[u] \in Account
  BY <1>1, RowsTyped DEF Typed
<1>3. CASE account' = [account EXCEPT ![u].email = call[c].email]
                /\ WithEmail(call[c].email) \subseteq {u}
  <2> DEFINE row == [account[u] EXCEPT !.email = call[c].email]
  <2>1. account' = [account EXCEPT ![u] = row]
    BY <1>3
  <2>2. /\ row \in Account /\ row.email = call[c].email /\ row.uid = account[u].uid
        /\ row.active = account[u].active
    BY <1>1, <1>2, AccountFields
  <2> HIDE DEF row
  <2> QED
    BY <1>1, <1>3, <2>1, <2>2
<1> QED
  BY <1>3 DEF SetEmail

LEMMA DeactivateUserWrites ==
    ASSUME Typed, NEW u \in Users, DeactivateUser(u)
    PROVE  \E row \in Account :
              /\ account' = [account EXCEPT ![u] = row] /\ ~row.active /\ u \in Registered
              /\ row.email = account[u].email /\ row.uid = account[u].uid
<1> DEFINE row == [account[u] EXCEPT !.active = FALSE]
<1>1. account[u] \in Account /\ u \in Registered
  BY RowsTyped DEF Typed, DeactivateUser
<1>2. account' = [account EXCEPT ![u] = row]
  BY DEF DeactivateUser
<1>3. row \in Account /\ row.email = account[u].email /\ row.uid = account[u].uid /\ ~row.active
  BY <1>1, AccountFields
<1> HIDE DEF row
<1> QED
  BY <1>1, <1>2, <1>3

(* The steps that write accounts.                                          *)
AccountStep ==
    \/ \E c \in Calls : InsertUser(c) \/ Link(c) \/ SetEmail(c)
    \/ \E u \in Users : DeactivateUser(u)

LEMMA AccountStepTyped ==
    ASSUME Typed, AccountStep
    PROVE  Typed'
<1>1. UNCHANGED <<token, code>>
  BY DEF AccountStep, InsertUser, Link, SetEmail, DeactivateUser
<1>2. TypeOK /\ Registered \subseteq Users
  BY RowsTyped DEF Typed
<1>3. ASSUME account' \in [Users -> Opt(Account)], call' \in [Calls -> Call], CallsFit'
      PROVE  Typed'
  BY <1>1, <1>2, <1>3 DEF Typed, TypeOK
<1>4. ASSUME UNCHANGED account, NEW c \in Calls, Return(c) PROVE Typed'
  BY <1>1, <1>2, <1>3, <1>4, SameRows, Returned DEF TypeOK
<1>5. ASSUME NEW c \in Calls, InsertUser(c) PROVE Typed'
  <2>1. ASSUME NEW u \in Users \ Registered, NEW row \in Account,
               account' = [account EXCEPT ![u] = row], Grant(c, u)
        PROVE  Typed'
    <3>1. u \notin call[c].barred /\ u \notin Inactive
      BY <1>2, <2>1 DEF Typed, CallsFit, Fits, Inactive
    <3> QED
      BY <1>1, <1>2, <1>3, <2>1, <3>1, AccountWritten, Granted
  <2> QED
    BY <1>4, <1>5, <2>1, InsertUserWrites
<1>6. ASSUME NEW c \in Calls, Link(c) PROVE Typed'
  <2>1. ASSUME NEW u \in Registered, NEW row \in Account,
               account' = [account EXCEPT ![u] = row], Grant(c, u),
               u \notin call[c].barred, row.active = account[u].active
        PROVE  Typed'
    BY <1>1, <1>2, <1>3, <2>1, AccountWritten, Granted DEF Inactive
  <2> QED
    BY <1>4, <1>6, <2>1, LinkWrites
<1>7. ASSUME NEW c \in Calls, SetEmail(c) PROVE Typed'
  <2>1. Return(c)
    BY <1>7 DEF SetEmail
  <2>2. ASSUME NEW u \in Registered, NEW row \in Account,
               account' = [account EXCEPT ![u] = row], row.active = account[u].active
        PROVE  Typed'
    BY <1>1, <1>2, <1>3, <2>1, <2>2, AccountWritten, Returned DEF Inactive
  <2> QED
    BY <1>4, <1>7, <2>1, <2>2, SetEmailWrites
<1>8. ASSUME NEW u \in Users, DeactivateUser(u) PROVE Typed'
  <2>1. UNCHANGED call
    BY <1>8 DEF DeactivateUser
  <2> QED
    BY <1>1, <1>2, <1>3, <1>8, <2>1, AccountWritten, NobodyMoves, DeactivateUserWrites
<1> QED
  BY <1>5, <1>6, <1>7, <1>8 DEF AccountStep

-----------------------------------------------------------------------------
(* Tokens and codes *)

LEMMA TokenFields ==
    \A t \in Token :
       /\ \A v \in TokenStates :
             LET n == [t EXCEPT !.state = v] IN
             /\ n \in Token /\ n.state = v /\ n.user = t.user /\ n.parent = t.parent
             /\ n.barred = t.barred /\ n.survivor = t.survivor
       /\ LET n == [t EXCEPT !.handed = TRUE] IN
             /\ n \in Token /\ n.state = t.state /\ n.user = t.user /\ n.parent = t.parent
             /\ n.barred = t.barred /\ n.survivor = t.survivor
       /\ LET n == [t EXCEPT !.survivor = TRUE] IN
             /\ n \in Token /\ n.state = t.state /\ n.user = t.user /\ n.parent = t.parent
             /\ n.barred = t.barred
BY DEF Token

(* What may become of a token that is there: its session ends, or the      *)
(* client gets it.                                                         *)
Same(t, n) ==
    /\ n \in Token /\ n.user = t.user /\ n.parent = t.parent
    /\ n.barred = t.barred /\ n.survivor = t.survivor

LEMMA TokensWritten ==
    ASSUME TypeOK, UNCHANGED <<account, code>>, token' \in [Jtis -> Opt(Token)],
           \A j \in Jtis : token[j] # Null => Same(token[j], token'[j])
    PROVE  Grows
BY NullIsNoRow DEF Grows, Registered, Inactive, Same

(* Sessions that end, and in no other way than by a new token.             *)
Ends ==
    /\ token' \in [Jtis -> Opt(Token)]
    /\ \A j \in Jtis :
          IF token[j] = Null THEN token'[j] = Null
          ELSE /\ Same(token[j], token'[j])
               /\ token'[j].state = "rotated" => token[j].state = "rotated"

Closes ==
    \/ \E c \in Calls : CloseAll(c)
    \/ \E u \in Users : LogoutAll(u)
    \/ \E j \in Jtis : Logout(j) \/ Expire(j)

LEMMA OneEnds ==
    ASSUME Typed, NEW j \in Jtis, token[j] # Null, NEW s \in {"closed", "expired"},
           token' = [token EXCEPT ![j].state = s]
    PROVE  Ends
<1>1. \A i \in Jtis : token[i] # Null => token[i] \in Token
  BY RowsTyped DEF Typed
<1> DEFINE row == [token[j] EXCEPT !.state = s]
<1>2. token' = [token EXCEPT ![j] = row]
  OBVIOUS
<1>3. Same(token[j], row) /\ row.state = s
  <2>1. token[j] \in Token /\ s \in TokenStates
    BY <1>1 DEF TokenStates
  <2> QED
    BY <2>1, TokenFields DEF Same
<1> HIDE DEF row
<1>4. token \in [Jtis -> Opt(Token)]
  BY DEF Typed, TypeOK
<1>5. \A i \in Jtis \ {j} : token'[i] = token[i]
  BY <1>2, <1>4
<1> QED
  BY <1>1, <1>2, <1>3, <1>4, <1>5 DEF Ends, Same, Opt

LEMMA AllEnd ==
    ASSUME Typed, NEW u, NEW t, t = AllRevoked(u)
    PROVE  /\ t \in [Jtis -> Opt(Token)]
           /\ \A j \in Jtis :
                 IF token[j] = Null THEN t[j] = Null
                 ELSE /\ Same(token[j], t[j])
                      /\ t[j].state = "rotated" => token[j].state = "rotated"
                      /\ token[j].user = u => t[j].state # "live"
<1>1. \A j \in Jtis : token[j] # Null => token[j] \in Token
  BY RowsTyped DEF Typed
<1>2. ASSUME NEW j \in Jtis
      PROVE  /\ t[j] \in Opt(Token)
             /\ IF token[j] = Null THEN t[j] = Null
                ELSE /\ Same(token[j], t[j])
                     /\ t[j].state = "rotated" => token[j].state = "rotated"
                     /\ token[j].user = u => t[j].state # "live"
  <2>1. t[j] = IF Unrevoked(j) /\ token[j].user = u THEN [token[j] EXCEPT !.state = "closed"]
                                                    ELSE token[j]
    BY DEF AllRevoked
  <2>2. CASE Unrevoked(j) /\ token[j].user = u
    <3>1. /\ [token[j] EXCEPT !.state = "closed"].state = "closed"
          /\ Same(token[j], [token[j] EXCEPT !.state = "closed"]) /\ token[j] # Null
      BY <1>1, <2>2, TokenFields DEF TokenStates, Same, Unrevoked
    <3> QED
      BY <2>1, <2>2, <3>1 DEF Opt, Same
  <2>3. CASE ~(Unrevoked(j) /\ token[j].user = u)
    BY <1>1, <2>1, <2>3 DEF Same, Opt, Unrevoked, Token
  <2> QED
    BY <2>2, <2>3
<1> QED
  BY <1>2 DEF AllRevoked

LEMMA ClosesEnds ==
    ASSUME Typed, Closes
    PROVE  Ends
<1>1. ASSUME NEW u \in Users, LogoutAll(u) PROVE Ends
  BY <1>1, AllEnd DEF LogoutAll, Ends
<1>2. ASSUME NEW j \in Jtis, Logout(j) \/ Expire(j) PROVE Ends
  BY <1>2, OneEnds DEF Logout, Expire, Live
<1>3. ASSUME NEW c \in Calls, CloseAll(c) PROVE Ends
  <2> DEFINE u == call[c].user
  <2>1. PICK t : t = AllRevoked(u)
    OBVIOUS
  <2>2. \A j \in Jtis : t[j] # Null /\ t[j].user = u => t[j].state # "live"
    BY <2>1, AllEnd DEF Same
  <2>3. token' = [j \in Jtis |-> t[j]]
    BY <1>3, <2>1, <2>2 DEF CloseAll, Ended
  <2> QED
    BY <2>1, <2>3, AllEnd DEF Ends
<1> QED
  BY <1>1, <1>2, <1>3 DEF Closes

LEMMA ClosesTyped ==
    ASSUME Typed, Closes
    PROVE  Typed'
<1>1. UNCHANGED <<account, code>>
  BY DEF Closes, CloseAll, LogoutAll, Logout, Expire
<1>2. Grows
  BY <1>1, ClosesEnds, TokensWritten DEF Ends, Typed
<1>3. UNCHANGED call \/ \E c \in Calls : Return(c)
  BY DEF Closes, CloseAll, LogoutAll, Logout, Expire
<1> QED
  BY <1>1, <1>2, <1>3, ClosesEnds, NobodyMoves, Returned DEF Typed, TypeOK, Ends

(* The new token of a session.                                             *)
LEMMA Stored ==
    ASSUME Typed, NEW c \in Calls, StoreRefreshToken(c)
    PROVE  /\ Typed'
           /\ \E j \in Jtis, row \in Token :
                 /\ token[j] = Null /\ token' = [token EXCEPT ![j] = row]
                 /\ row.state = "live" /\ ~row.barred /\ ~row.survivor
<1> DEFINE r == call[c]
<1>1. /\ r \in Call /\ r.user \in Registered /\ r.user \notin r.barred
      /\ r.user \in Users /\ r.jti \in Opt(Jtis)
      /\ r.jti # Null => /\ r.jti \in Jtis /\ token[r.jti] # Null
                         /\ token[r.jti].user = r.user
      /\ r.barred \subseteq Inactive
  BY RequestTyped, CallFields, RowsTyped DEF Typed, CallsFit, Fits, StoreRefreshToken, At
<1>2. PICK row : \E j \in Jtis :
         /\ row = [user |-> r.user, state |-> "live", parent |-> r.jti,
                   handed |-> r.jti = Null, barred |-> r.user \in r.barred, survivor |-> FALSE]
         /\ token[j] = Null /\ token' = [token EXCEPT ![j] = row]
         /\ IF r.jti = Null THEN Return(c)
            ELSE call' = [call EXCEPT ![c].at = "rotate", ![c].new = j]
  BY DEF StoreRefreshToken
<1>j. PICK j \in Jtis :
         /\ row = [user |-> r.user, state |-> "live", parent |-> r.jti,
                   handed |-> r.jti = Null, barred |-> r.user \in r.barred, survivor |-> FALSE]
         /\ token[j] = Null /\ token' = [token EXCEPT ![j] = row]
         /\ IF r.jti = Null THEN Return(c)
            ELSE call' = [call EXCEPT ![c].at = "rotate", ![c].new = j]
  BY <1>2
<1>3. /\ row \in Token /\ row.state = "live" /\ ~row.barred /\ ~row.survivor
      /\ row.user = r.user /\ row.parent = r.jti
  <2>1. /\ row.user = r.user /\ row.state = "live" /\ row.parent = r.jti
        /\ row.handed = (r.jti = Null) /\ row.barred = (r.user \in r.barred)
        /\ row.survivor = FALSE
        /\ DOMAIN row = {"user", "state", "parent", "handed", "barred", "survivor"}
    BY <1>j, Zenon
  <2>2. ~row.barred
    BY <1>1, <2>1
  <2>3. row.handed \in BOOLEAN /\ row.barred \in BOOLEAN
    BY <2>1
  <2>4. row.user \in Users /\ row.state \in TokenStates /\ row.parent \in Opt(Jtis)
    BY <1>1, <2>1 DEF TokenStates
  <2>5. row = [user |-> row.user, state |-> row.state, parent |-> row.parent,
               handed |-> row.handed, barred |-> row.barred, survivor |-> row.survivor]
    BY <1>j, <2>1, Zenon
  <2>6. row \in Token
    BY <2>1, <2>3, <2>4, <2>5 DEF Token
  <2> QED
    BY <2>1, <2>2, <2>6
<1>4. UNCHANGED <<account, code>>
  BY DEF StoreRefreshToken
<1>5. /\ token' \in [Jtis -> Opt(Token)] /\ token'[j] = row
      /\ \A i \in Jtis \ {j} : token'[i] = token[i]
  BY <1>j, <1>3 DEF Typed, TypeOK, Opt
<1>6. Grows
  BY <1>j, <1>4, <1>5 DEF Grows, Registered, Inactive
<1>7. call' \in [Calls -> Call] /\ CallsFit'
  <2>1. CASE r.jti = Null
    BY <1>j, <1>6, <2>1, Returned
  <2>2. CASE r.jti # Null
    <3> DEFINE n == [[r EXCEPT !.at = "rotate"] EXCEPT !.new = j]
    <3>1. [r EXCEPT !.at = "rotate"] \in Call /\ n \in Call
      BY <1>1, CallTyped DEF Steps, Opt
    <3>2. /\ n.at = "rotate" /\ n.user = r.user /\ n.jti = r.jti /\ n.new = j
          /\ n.barred = r.barred
      BY <1>1 DEF Call
    <3>3. call' = [call EXCEPT ![c] = n]
      BY <1>j, <2>2
    <3>4. PICK m \in Call :
             /\ call' = [call EXCEPT ![c] = m] /\ m.at = "rotate" /\ m.user = r.user
             /\ m.jti = r.jti /\ m.new = j /\ m.barred = r.barred
      BY <3>1, <3>2, <3>3
    <3>5. Null \notin Token
      BY NullIsNoRow
    <3>6. Fits(m)'
      BY <1>1, <1>j, <1>3, <1>4, <1>5, <2>2, <3>4, <3>5 DEF Fits, Registered, Inactive
    <3> QED
      BY <1>6, <3>4, <3>6, Moved DEF Typed
  <2> QED
    BY <2>1, <2>2
<1> QED
  BY <1>j, <1>3, <1>4, <1>5, <1>7 DEF Typed, TypeOK

(* The token a refresh replaces is revoked, unless it was revoked before.  *)
LEMMA Rotated ==
    ASSUME Typed, NEW c \in Calls, Rotate(c)
    PROVE  /\ Typed'
           /\ \A j \in Jtis :
                 IF token[j] = Null THEN token'[j] = Null
                 ELSE /\ Same(token[j], token'[j])
                      /\ token'[j].state = "rotated" =>
                             token[j].state = "rotated" \/ j = call[c].jti
<1> DEFINE old == call[c].jti
           new == call[c].new
<1>1. /\ old \in Jtis /\ token[old] # Null /\ new \in Jtis /\ token[new] # Null
      /\ \A j \in Jtis : token[j] # Null => token[j] \in Token
      /\ token \in [Jtis -> Opt(Token)]
  BY RowsTyped DEF Typed, CallsFit, Fits, Rotate, At, TypeOK
<1>2. PICK t : t = Revoked(old)
  OBVIOUS
<1>3. /\ t \in [Jtis -> Opt(Token)]
      /\ \A j \in Jtis :
            IF token[j] = Null THEN t[j] = Null
            ELSE /\ Same(token[j], t[j])
                 /\ t[j].state = "rotated" => token[j].state = "rotated" \/ j = old
  <2> DEFINE s == IF Unrevoked(old) THEN "rotated" ELSE token[old].state
             row == [token[old] EXCEPT !.state = s]
  <2>1. token[old] \in Token /\ s \in TokenStates
    BY <1>1 DEF TokenStates, Token
  <2>2. t = [token EXCEPT ![old] = row]
    BY <1>2 DEF Revoked
  <2>3. Same(token[old], row)
    BY <2>1, TokenFields DEF Same
  <2> HIDE DEF row
  <2>4. /\ t[old] = row /\ \A j \in Jtis \ {old} : t[j] = token[j]
        /\ t \in [Jtis -> Opt(Token)]
    BY <1>1, <2>2, <2>3 DEF Same, Opt
  <2> QED
    BY <1>1, <2>3, <2>4 DEF Same
<1>4. /\ token' \in [Jtis -> Opt(Token)]
      /\ \A j \in Jtis :
            IF token[j] = Null THEN token'[j] = Null
            ELSE /\ Same(token[j], token'[j])
                 /\ token'[j].state = "rotated" => token[j].state = "rotated" \/ j = old
  <2> DEFINE row == [t[new] EXCEPT !.handed = TRUE]
  <2>1. token' = [t EXCEPT ![new] = row]
    BY <1>2 DEF Rotate
  <2>2. t[new] \in Token
    BY <1>1, <1>3 DEF Same
  <2>3. Same(t[new], row) /\ row.state = t[new].state
    BY <2>2, TokenFields DEF Same
  <2> HIDE DEF row
  <2>4. /\ token'[new] = row /\ \A j \in Jtis \ {new} : token'[j] = t[j]
        /\ token' \in [Jtis -> Opt(Token)]
    BY <1>1, <1>3, <2>1, <2>3 DEF Same, Opt
  <2> QED
    BY <1>1, <1>3, <2>3, <2>4 DEF Same
<1>5. UNCHANGED <<account, code>> /\ Return(c)
  BY DEF Rotate
<1>6. Grows
  BY <1>4, <1>5, TokensWritten DEF Typed
<1> QED
  BY <1>4, <1>5, <1>6, Returned DEF Typed, TypeOK

(* The steps that write no row, or a code.                                 *)
CodeStep ==
    \/ \E c \in Calls : UpdatePassword(c) \/ MarkUsed(c)
    \/ \E u \in Users : \E k \in Codes : RequestPasswordReset(u, k)
    \/ \E k \in Codes : ExpireCode(k)

LEMMA FindsTyped ==
    ASSUME Typed, NEW c \in Calls, FindToken(c) \/ FindByEmail(c) \/ Crash(c)
    PROVE  Typed' /\ UNCHANGED <<account, token, code>>
<1>1. UNCHANGED <<account, token, code>>
  BY DEF FindToken, FindByEmail, Crash
<1>2. call[c] \in Call /\ Fits(call[c]) /\ Registered \subseteq Users
  BY RequestTyped, RowsTyped DEF Typed, CallsFit
<1>3. ASSUME NEW n \in Call, call' = [call EXCEPT ![c] = n], Fits(n) PROVE Typed'
  <2>1. Fits(n)'
    BY <1>1, <1>3 DEF Fits, Registered, Inactive
  <2> QED
    BY <1>1, <1>3, <2>1, SameRows, Moved DEF Typed, TypeOK
<1>4. CASE Return(c)
  BY <1>1, <1>4, SameRows, Returned DEF Typed, TypeOK
<1>5. CASE FindToken(c) /\ Goto(c, "store")
  <2> DEFINE n == [call[c] EXCEPT !.at = "store"]
  <2>1. n \in Call /\ call' = [call EXCEPT ![c] = n]
    BY <1>2, <1>5, CallTyped DEF Steps, Goto
  <2>2. /\ n.at = "store" /\ n.barred = call[c].barred /\ n.user = call[c].user
        /\ n.jti = call[c].jti
    BY <1>2, StepSet
  <2> HIDE DEF n
  <2>3. Fits(n)
    BY <1>2, <1>5, <2>2 DEF Fits, FindToken, At
  <2> QED
    BY <1>1, <1>3, <2>1, <2>3
<1>6. CASE FindByEmail(c) /\ Goto(c, "insert")
  <2> DEFINE n == [call[c] EXCEPT !.at = "insert"]
  <2>1. n \in Call /\ call' = [call EXCEPT ![c] = n]
    BY <1>2, <1>6, CallTyped DEF Steps, Goto
  <2>2. /\ n.at = "insert" /\ n.barred = call[c].barred /\ n.user = call[c].user
        /\ n.jti = call[c].jti /\ n.email = call[c].email
    BY <1>2, StepSet
  <2> HIDE DEF n
  <2>3. Fits(n)
    BY <1>2, <1>6, <2>2 DEF Fits, FindByEmail, At
  <2> QED
    BY <1>1, <1>3, <2>1, <2>3
<1>7. ASSUME FindByEmail(c), NEW u \in Registered \ Inactive,
             call' = [call EXCEPT ![c].at = "link", ![c].user = u, ![c].email = Null,
                                  ![c].barred = @ \cap {u}]
      PROVE  Typed'
  <2> DEFINE n == [call[c] EXCEPT !.at = "link", !.user = u, !.email = Null,
                                  !.barred = @ \cap {u}]
  <2>1. call' = [call EXCEPT ![c] = n]
    BY <1>7
  <2>2. call[c].barred \cap {u} = {}
    BY <1>2 DEF Fits
  <2>3. n \in Call
    BY <1>2, <2>2, CallTyped DEF Steps, Opt
  <2>4. n.at = "link" /\ n.user = u /\ n.jti = call[c].jti /\ n.barred = {}
    BY <1>2, <2>2 DEF Call
  <2> HIDE DEF n
  <2>5. Fits(n)
    BY <1>2, <1>7, <2>4 DEF Fits, FindByEmail, At
  <2> QED
    BY <1>3, <2>1, <2>3, <2>5
<1> QED
  BY <1>1, <1>4, <1>5, <1>6, <1>7 DEF FindToken, FindByEmail, Crash, WithEmail

LEMMA CodeStepTyped ==
    ASSUME Typed, CodeStep
    PROVE  Typed' /\ UNCHANGED <<account, token>>
<1>1. UNCHANGED <<account, token>>
  BY DEF CodeStep, UpdatePassword, MarkUsed, RequestPasswordReset, ExpireCode
<1>2. /\ \A k \in Codes : code[k] # Null => code[k] \in Code
      /\ code \in [Codes -> Opt(Code)] /\ Null \notin Code
  BY RowsTyped, NullIsNoRow DEF Typed, TypeOK
<1>3. ASSUME NEW k \in Codes, NEW row \in Code, code' = [code EXCEPT ![k] = row]
      PROVE  Grows /\ code' \in [Codes -> Opt(Code)]
  BY <1>1, <1>2, <1>3 DEF Grows, Registered, Inactive, Opt
<1>4. ASSUME NEW k \in Codes, code[k] # Null, code' = [code EXCEPT ![k].state = "spent"]
      PROVE  Grows /\ code' \in [Codes -> Opt(Code)]
  <2> DEFINE row == [code[k] EXCEPT !.state = "spent"]
  <2>1. row \in Code
    BY <1>2, <1>4 DEF Code
  <2>2. code' = [code EXCEPT ![k] = row]
    BY <1>4
  <2> HIDE DEF row
  <2> QED
    BY <1>3, <2>1, <2>2
<1>5. ASSUME Grows, code' \in [Codes -> Opt(Code)], call' \in [Calls -> Call], CallsFit'
      PROVE  Typed'
  BY <1>1, <1>5 DEF Typed, TypeOK
<1>6. ASSUME NEW c \in Calls, NEW s \in {"used", "closeAll"}, Goto(c, s), Grows,
             s = "used" => call[c].at = "password" /\ UNCHANGED code
      PROVE  call' \in [Calls -> Call] /\ CallsFit'
  <2> DEFINE n == [call[c] EXCEPT !.at = s]
  <2>1. call[c] \in Call /\ Fits(call[c])
    BY RequestTyped DEF Typed, CallsFit
  <2>2. n \in Call /\ call' = [call EXCEPT ![c] = n]
    BY <1>6, <2>1, CallTyped DEF Steps, Goto
  <2>3. /\ n.at = s /\ n.barred = call[c].barred /\ n.user = call[c].user
        /\ n.jti = call[c].jti /\ n.code = call[c].code
    BY <2>1, StepSet
  <2>4. PICK m \in Call :
           /\ call' = [call EXCEPT ![c] = m]
           /\ m.at = s /\ m.barred = call[c].barred /\ m.user = call[c].user
           /\ m.jti = call[c].jti /\ m.code = call[c].code
    BY <2>2, <2>3
  <2>5. m.barred \subseteq Inactive'
    BY <1>6, <2>1, <2>4 DEF Fits, Grows
  <2>6. Fits(m)'
    BY <1>1, <1>6, <2>1, <2>4, <2>5 DEF Fits
  <2> QED
    BY <1>6, <2>4, <2>6, Moved DEF Typed
<1>7. ASSUME NEW c \in Calls, UpdatePassword(c) PROVE Typed'
  <2>1. UNCHANGED code /\ Goto(c, "used") /\ call[c].at = "password"
    BY <1>7 DEF UpdatePassword, At
  <2> QED
    BY <1>1, <1>2, <1>5, <1>6, <2>1, SameRows
<1>8. ASSUME NEW c \in Calls, MarkUsed(c) PROVE Typed'
  <2>1. call[c].code \in Codes /\ code[call[c].code] # Null
    BY <1>8 DEF Typed, CallsFit, Fits, MarkUsed, At
  <2> QED
    BY <1>4, <1>5, <1>6, <1>8, <2>1 DEF MarkUsed
<1>9. ASSUME NEW u \in Users, NEW k \in Codes, RequestPasswordReset(u, k) PROVE Typed'
  <2>1. [user |-> u, state |-> "open"] \in Code
    BY DEF Code
  <2> QED
    BY <1>3, <1>5, <1>9, <2>1, NobodyMoves DEF RequestPasswordReset
<1>10. ASSUME NEW k \in Codes, ExpireCode(k) PROVE Typed'
  BY <1>4, <1>5, <1>10, NobodyMoves DEF ExpireCode
<1> QED
  BY <1>1, <1>7, <1>8, <1>9, <1>10 DEF CodeStep

-----------------------------------------------------------------------------
(* The invariant *)

TokenStep ==
    Closes \/ \E c \in Calls : StoreRefreshToken(c) \/ Rotate(c)

QuietStep ==
    \E c \in Calls : Begins(c) \/ FindToken(c) \/ FindByEmail(c) \/ Crash(c)

LEMMA StepKinds == Next => AccountStep \/ TokenStep \/ CodeStep \/ QuietStep
BY DEF Next, Step, AccountStep, TokenStep, CodeStep, QuietStep, Closes, Begins

LEMMA TypedInit == Init => Typed
<1> SUFFICES ASSUME Init PROVE Typed
  OBVIOUS
<1>1. TypeOK
  BY NoCallTyped DEF Init, TypeOK, Opt
<1>2. \A c \in Calls : call[c] = NoCall
  BY DEF Init
<1> QED
  BY <1>1, <1>2, NoCallTyped DEF Typed, CallsFit, Fits

LEMMA TypedNext == Typed /\ [Next]_vars => Typed'
<1> SUFFICES ASSUME Typed, [Next]_vars PROVE Typed'
  OBVIOUS
<1>1. CASE UNCHANGED vars
  BY <1>1, SameRows, NobodyMoves DEF vars, Typed, TypeOK
<1>2. CASE TokenStep
  BY <1>2, ClosesTyped, Stored, Rotated DEF TokenStep
<1>3. CASE QuietStep
  BY <1>3, BeginsFits, FindsTyped DEF QuietStep
<1> QED
  BY <1>1, <1>2, <1>3, StepKinds, AccountStepTyped, CodeStepTyped

(* Every row, code and request keeps its type.                             *)
THEOREM TypeCorrect == Spec => []TypeOK
<1>1. Typed => TypeOK
  BY DEF Typed
<1> QED
  BY <1>1, TypedInit, TypedNext, PTL DEF Spec

-----------------------------------------------------------------------------
(* Accounts are people *)

LEMMA UniqueKept ==
    ASSUME TypeOK, OneAccountPerPerson, NEW u \in Users, NEW row \in Account,
           account' = [account EXCEPT ![u] = row], UNCHANGED <<token, code>>,
           u \in Inactive => ~row.active,
           WithEmail(row.email) \subseteq {u},
           row.uid = Null \/ WithUid(row.uid) \subseteq {u}
    PROVE  OneAccountPerPerson'
<1>1. account'[u] = row /\ \A v \in Users \ {u} : account'[v] = account[v]
  BY AccountWritten
<1>2. Registered' \subseteq Registered \cup {u} /\ Registered' \subseteq Users
  BY <1>1 DEF Registered
<1> SUFFICES ASSUME NEW v \in Registered', NEW w \in Registered',
                    \/ account'[v].email = account'[w].email
                    \/ account'[v].uid # Null /\ account'[v].uid = account'[w].uid
             PROVE  v = w
  BY DEF OneAccountPerPerson
<1>3. ASSUME NEW x \in Registered' \ {u},
             \/ account'[x].email = row.email
             \/ row.uid # Null /\ account'[x].uid = row.uid
      PROVE  FALSE
  BY <1>1, <1>2, <1>3 DEF WithEmail, WithUid
<1>4. CASE v = u \/ w = u
  BY <1>1, <1>3, <1>4
<1>5. CASE v # u /\ w # u
  BY <1>1, <1>2, <1>5 DEF OneAccountPerPerson
<1> QED
  BY <1>4, <1>5

LEMMA UniqueNext == Typed /\ OneAccountPerPerson /\ [Next]_vars => OneAccountPerPerson'
<1> SUFFICES ASSUME Typed, OneAccountPerPerson, [Next]_vars PROVE OneAccountPerPerson'
  OBVIOUS
<1>1. TypeOK /\ Registered \subseteq Users
  BY RowsTyped DEF Typed
<1>2. \A u \in Registered :
         /\ WithEmail(account[u].email) \subseteq {u}
         /\ account[u].uid = Null \/ WithUid(account[u].uid) \subseteq {u}
  BY DEF OneAccountPerPerson, WithEmail, WithUid
<1>3. CASE UNCHANGED account
  BY <1>3 DEF OneAccountPerPerson, Registered
<1>4. CASE AccountStep
  <2>1. UNCHANGED <<token, code>>
    BY <1>4 DEF AccountStep, InsertUser, Link, SetEmail, DeactivateUser
  <2>2. ASSUME NEW c \in Calls, InsertUser(c) PROVE OneAccountPerPerson'
    <3>1. ASSUME NEW u \in Users \ Registered, NEW row \in Account,
                 account' = [account EXCEPT ![u] = row], ~Refused(row.email, row.uid)
          PROVE  OneAccountPerPerson'
      <4>1. WithEmail(row.email) = {} /\ (row.uid = Null \/ WithUid(row.uid) = {})
        BY <3>1 DEF Refused
      <4>2. u \notin Inactive
        BY <3>1 DEF Inactive
      <4> QED
        BY <1>1, <2>1, <3>1, <4>1, <4>2, UniqueKept
    <3> QED
      BY <1>3, <2>2, <3>1, InsertUserWrites
  <2>3. ASSUME NEW c \in Calls, Link(c) PROVE OneAccountPerPerson'
    <3>1. ASSUME NEW u \in Registered, NEW row \in Account,
                 account' = [account EXCEPT ![u] = row], row.active = account[u].active,
                 row.email = account[u].email, WithUid(row.uid) \subseteq {u}
          PROVE  OneAccountPerPerson'
      BY <1>1, <1>2, <2>1, <3>1, UniqueKept DEF Inactive
    <3> QED
      BY <1>3, <2>3, <3>1, LinkWrites
  <2>4. ASSUME NEW c \in Calls, SetEmail(c) PROVE OneAccountPerPerson'
    <3>1. ASSUME NEW u \in Registered, NEW row \in Account,
                 account' = [account EXCEPT ![u] = row], row.active = account[u].active,
                 row.uid = account[u].uid, WithEmail(row.email) \subseteq {u}
          PROVE  OneAccountPerPerson'
      BY <1>1, <1>2, <2>1, <3>1, UniqueKept DEF Inactive
    <3> QED
      BY <1>3, <2>4, <3>1, SetEmailWrites
  <2>5. ASSUME NEW u \in Users, DeactivateUser(u) PROVE OneAccountPerPerson'
    BY <1>1, <1>2, <2>1, <2>5, UniqueKept, DeactivateUserWrites
  <2> QED
    BY <1>4, <2>2, <2>3, <2>4, <2>5 DEF AccountStep
<1>5. TokenStep \/ CodeStep \/ QuietStep => UNCHANGED account
  BY BeginsFits, FindsTyped, CodeStepTyped
     DEF TokenStep, QuietStep, Closes, CloseAll, LogoutAll, Logout, Expire,
         StoreRefreshToken, Rotate
<1> QED
  BY <1>3, <1>4, <1>5, StepKinds DEF vars

(* However many registrations, Google log-ins and changes of address run   *)
(* at once, no two accounts share an e-mail address or an identity: the    *)
(* look-ups alone do not ensure it, the unique indexes do.                 *)
THEOREM AccountsTheorem == Spec => []OneAccountPerPerson
<1>1. Init => Typed /\ OneAccountPerPerson
  BY TypedInit DEF Init, OneAccountPerPerson, Registered
<1> QED
  BY <1>1, TypedNext, UniqueNext, PTL DEF Spec

-----------------------------------------------------------------------------
(* Sessions *)

(* No step takes a token away, or marks it anew as barred or surviving.    *)
LEMMA TokensStay ==
    ASSUME Typed, Next
    PROVE  \A j \in Jtis : token[j] # Null =>
              Same(token[j], token'[j]) /\ token'[j] # Null
<1>1. \A j \in Jtis : token[j] # Null => Same(token[j], token[j])
  BY RowsTyped DEF Same, Typed
<1>2. ASSUME NEW c \in Calls, StoreRefreshToken(c)
      PROVE  \A j \in Jtis : token[j] # Null => Same(token[j], token'[j])
  BY <1>1, <1>2, Stored DEF Typed, TypeOK
<1>3. CASE UNCHANGED token
  BY <1>1, <1>3
<1>4. CASE TokenStep
  BY <1>2, <1>4, NullIsNoRow, ClosesEnds, Rotated DEF TokenStep, Ends, Same
<1>5. AccountStep \/ CodeStep \/ QuietStep => UNCHANGED token
  BY BeginsFits, FindsTyped, CodeStepTyped
     DEF AccountStep, InsertUser, Link, SetEmail, DeactivateUser, QuietStep
<1> QED
  BY <1>3, <1>4, <1>5, StepKinds

Promises == RotatedHasSuccessor /\ ResetEndsSessions /\ NoSessionAfterDeactivation

(* What holds of the tokens there were holds of them still; new are only   *)
(* the token that is stored and the one that a refresh revokes.            *)
LEMMA PromisesNext == Typed /\ Promises /\ [Next]_vars => Promises'
<1> SUFFICES ASSUME Typed, Promises, [Next]_vars PROVE Promises'
  OBVIOUS
<1>1. CASE UNCHANGED token
  BY <1>1 DEF Promises, RotatedHasSuccessor, ResetEndsSessions, NoSessionAfterDeactivation
<1>2. ASSUME Next,
             \A j \in Jtis : token[j] = Null /\ token'[j] # Null =>
                ~token'[j].survivor /\ ~token'[j].barred
      PROVE  ResetEndsSessions' /\ NoSessionAfterDeactivation'
  BY <1>2, TokensStay DEF Promises, ResetEndsSessions, NoSessionAfterDeactivation, Same
<1>3. ASSUME Next,
             \A j \in Jtis : token'[j] # Null /\ token'[j].state = "rotated" =>
                /\ token[j] # Null
                /\ \/ token[j].state = "rotated"
                   \/ \E k \in Jtis : /\ token[k] # Null /\ token[k].parent = j
                                      /\ token[k].user = token[j].user
      PROVE  RotatedHasSuccessor'
  <2> SUFFICES ASSUME NEW j \in Jtis, token'[j] # Null, token'[j].state = "rotated"
               PROVE  \E k \in Jtis : /\ token'[k] # Null /\ token'[k].parent = j
                                      /\ token'[k].user = token'[j].user
    BY DEF RotatedHasSuccessor
  <2>1. token[j] # Null
    BY <1>3
  <2>2. PICK k \in Jtis : /\ token[k] # Null /\ token[k].parent = j
                          /\ token[k].user = token[j].user
    BY <1>3 DEF Promises, RotatedHasSuccessor
  <2> QED
    BY <1>3, <2>1, <2>2, TokensStay DEF Same
<1>4. ASSUME Next, Closes PROVE Promises'
  <2>1. Ends
    BY <1>4, ClosesEnds
  <2> QED
    BY <1>2, <1>3, <1>4, <2>1 DEF Ends, Promises
<1>5. ASSUME Next, NEW c \in Calls, StoreRefreshToken(c) PROVE Promises'
  <2>1. PICK j \in Jtis, row \in Token :
           /\ token[j] = Null /\ token' = [token EXCEPT ![j] = row]
           /\ row.state = "live" /\ ~row.barred /\ ~row.survivor
    BY <1>5, Stored
  <2>2. token'[j] = row /\ \A i \in Jtis \ {j} : token'[i] = token[i]
    BY <2>1 DEF Typed, TypeOK
  <2> QED
    BY <1>2, <1>3, <1>5, <2>1, <2>2 DEF Promises
<1>6. ASSUME Next, NEW c \in Calls, Rotate(c) PROVE Promises'
  <2>1. /\ call[c].jti # Null /\ call[c].new \in Jtis /\ token[call[c].new] # Null
        /\ token[call[c].new].parent = call[c].jti
        /\ token[call[c].new].user = token[call[c].jti].user
    BY <1>6 DEF Typed, CallsFit, Fits, Rotate, At
  <2> QED
    BY <1>2, <1>3, <1>6, <2>1, Rotated DEF Promises
<1>7. AccountStep \/ CodeStep \/ QuietStep => UNCHANGED token
  BY BeginsFits, FindsTyped, CodeStepTyped
     DEF AccountStep, InsertUser, Link, SetEmail, DeactivateUser, QuietStep
<1> QED
  BY <1>1, <1>4, <1>5, <1>6, <1>7, StepKinds DEF TokenStep, vars

LEMMA PromisesInductive == Spec => []Promises
<1>1. Init => Promises
  BY DEF Init, Promises, RotatedHasSuccessor, ResetEndsSessions, NoSessionAfterDeactivation
<1> QED
  BY <1>1, TypedInit, TypedNext, PromisesNext, PTL DEF Spec

(* A refresh that is cut short anywhere does not end the session: a token  *)
(* is only revoked for one of the same user that is stored already.        *)
THEOREM RotationTheorem == Spec => []RotatedHasSuccessor
BY PromisesInductive, PTL DEF Promises

(* A password reset that returned left none of the sessions that its user  *)
(* had usable, whatever log-ins and refreshes ran beside it.               *)
THEOREM ResetTheorem == Spec => []ResetEndsSessions
BY PromisesInductive, PTL DEF Promises

(* No request that begins after an account was deactivated stores a token  *)
(* for it, though most check the account statements before they store.     *)
THEOREM DeactivationTheorem == Spec => []NoSessionAfterDeactivation
BY PromisesInductive, PTL DEF Promises
=============================================================================
