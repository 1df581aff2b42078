------------------------------- MODULE Sessions --------------------------------
(***************************************************************************)
(* Signing in: with Google, with a password, with a MetaMask signature.    *)
(* Every way ends in one row of user_token per user; the guard of every    *)
(* other route accepts the token in that row and no other, so a sign-in on *)
(* one page ends the session of the user's other pages.                    *)
(*                                                                         *)
(* A handler makes two to four statements with an await between them and   *)
(* no transaction: it may stop after any of them, with a user and no       *)
(* token, or with a new nonce and no token.                                *)
(*                                                                         *)
(* A page stands for a browser with at most one request in flight.  The    *)
(* emails, addresses and signatures of a login are its owner's; a wrong    *)
(* password or an invalid Google token only rejects, as RequestFail does.  *)
(***************************************************************************)
EXTENDS Naturals, FiniteSets

CONSTANTS
  GoogleLogins,    \* emails used with login-with-google
  PasswordLogins,  \* emails used with signup and signin
  Addresses,       \* wallet addresses, as the pages write them: to the code an
                   \* address in other letter case is another login
  Pages,
  Tokens,          \* access tokens; no two in use are equal (two that one user
                   \* gets in one second are, and then it is one session)
  Nonces,          \* nanoids of sign-in messages
  None

Logins == GoogleLogins \cup PasswordLogins \cup Addresses

VARIABLES
  user,    \* [Logins -> the row of the login, or None]
  stored,  \* [Logins -> access_token in user_token, or None]
  cached,  \* [Addresses -> nonce in the cache, or None]
  page     \* what each page does

vars == <<user, stored, cached, page>>

User == [password: BOOLEAN, nonce: Nonces \cup {None}]

Out == [step |-> "out"]
CreateSteps == {"signup_create", "google_create", "wallet_create"}
PlainSteps == CreateSteps \cup
  {"google_find", "signin_find", "message_find", "message_set", "rotate"}
PlainPage == [step: PlainSteps, login: Logins]
TokenPage == [step: {"first_token", "store_token", "in"}, login: Logins, token: Tokens]
AskingPage == [step: {"asking"}, login: Logins, token: Tokens,
               current: BOOLEAN]  \* was it the stored token when it was sent?
SignedPage == [step: {"signed"}, login: Addresses, nonce: Nonces]
VerifyPage == [step: {"verify"}, login: Addresses, nonce: Nonces,
               known: BOOLEAN, expected: Nonces \cup {None}]

\* The pages that have a token they got in an answer.
Inside == {q \in Pages : page[q].step \in {"in", "asking"}}

InFlight == {q \in Pages \ Inside : page[q].step \notin {"out", "signed"}}

ASSUME SessionsAssumption ==
  /\ None \notin Tokens \cup Nonces \cup User
  /\ Addresses \cap (GoogleLogins \cup PasswordLogins) = {}

\* Tokens and nonces do not run out: there are more than can be in use at once.
ASSUME SupplyAssumption ==
  /\ IsFiniteSet(Logins) /\ IsFiniteSet(Pages)
  /\ IsFiniteSet(Tokens) => Cardinality(Tokens) > Cardinality(Logins) + Cardinality(Pages)
  /\ IsFiniteSet(Nonces) =>
       Cardinality(Nonces) > 2 * (Cardinality(Addresses) + Cardinality(Pages))

Init ==
  /\ user = [l \in Logins |-> None]
  /\ stored = [l \in Logins |-> None]
  /\ cached = [a \in Addresses |-> None]
  /\ page = [q \in Pages |-> Out]

\* jwtService.sign: any token nobody has; which one makes no difference.
NewToken ==
  CHOOSE t \in Tokens :
    /\ \A l \in Logins : stored[l] # t
    /\ \A q \in Pages : page[q] \in TokenPage \cup AskingPage => page[q].token # t

\* nanoid()
NewNonce ==
  CHOOSE n \in Nonces :
    /\ \A a \in Addresses : cached[a] # n /\ (user[a] # None => user[a].nonce # n)
    /\ \A q \in Pages :
         /\ page[q] \in SignedPage \cup VerifyPage => page[q].nonce # n
         /\ page[q] \in VerifyPage => page[q].expected # n

At(q, step) == page[q].step = step

Goto(q, state) == page' = [page EXCEPT ![q] = state]

Await(q, step, l) == Goto(q, [step |-> step, login |-> l])

AwaitToken(q, step, l) == Goto(q, [step |-> step, login |-> l, token |-> NewToken])

Start(q, step, l) ==
  /\ page[q] = Out
  /\ Await(q, step, l)
  /\ UNCHANGED <<user, stored, cached>>

\* The row, or None: email and username are the login, the same for both here.
findUserByEmailOrUsername(l) == user[l]

findUserByWalletAddress(a) == user[a]

--------------------------------------------------------------------------------
(* POST auth/login-with-google, auth/signup, auth/signin *)

LoginWithGoogle(q, l) == Start(q, "google_find", l)

SignUp(q, l) == Start(q, "signup_create", l)

SignIn(q, l) == Start(q, "signin_find", l)

\* Mutant of GoogleFind: 'if (!user)' is missing.
GoogleFindAssumed(q) ==
  /\ At(q, "google_find")
  /\ AwaitToken(q, "store_token", page[q].login)
  /\ UNCHANGED <<user, stored, cached>>

GoogleFind(q) ==
  /\ At(q, "google_find")
  /\ LET l == page[q].login
     IN IF findUserByEmailOrUsername(l) = None
        THEN Await(q, "google_create", l)
        ELSE AwaitToken(q, "store_token", l)
  /\ UNCHANGED <<user, stored, cached>>

\* Not there, or made by Google and without a password: the sign-in rejects.
SignInFind(q) ==
  /\ At(q, "signin_find")
  /\ LET l == page[q].login
         row == findUserByEmailOrUsername(l)
     IN IF row # None /\ row.password THEN AwaitToken(q, "store_token", l)
                                      ELSE Goto(q, Out)
  /\ UNCHANGED <<user, stored, cached>>

\* A row for the login, whose unique columns must be free.
Insert(q, row) ==
  /\ user[page[q].login] = None
  /\ user' = [user EXCEPT ![page[q].login] = row]
  /\ UNCHANGED <<stored, cached>>

CreateCustomer(q) ==
  At(q, "signup_create") /\ Insert(q, [password |-> TRUE, nonce |-> None])

CreateUserDefault(q) ==
  At(q, "google_create") /\ Insert(q, [password |-> FALSE, nonce |-> None])

\* Its nonce is a new one: the one that was signed is used up.
CreateUerByWalletAddress(q) ==
  At(q, "wallet_create") /\ Insert(q, [password |-> FALSE, nonce |-> NewNonce])

InsertUser(q) ==
  CreateCustomer(q) \/ CreateUserDefault(q) \/ CreateUerByWalletAddress(q)

CreateUser(q) == InsertUser(q) /\ AwaitToken(q, "first_token", page[q].login)

\* createUserTokenByUserId
InsertToken(q) ==
  /\ At(q, "first_token")
  /\ stored[page[q].login] = None
  /\ stored' = [stored EXCEPT ![page[q].login] = page[q].token]
  /\ UNCHANGED <<user, cached>>

EnterWithToken(q) ==
  Goto(q, [step |-> "in", login |-> page[q].login, token |-> page[q].token])

FirstToken(q) == InsertToken(q) /\ EnterWithToken(q)

\* A unique column is taken: the insert rejects, the request gets no token.
InsertRefused(q) ==
  /\ \/ page[q].step \in CreateSteps /\ user[page[q].login] # None
     \/ At(q, "first_token") /\ stored[page[q].login] # None
  /\ Goto(q, Out)
  /\ UNCHANGED <<user, stored, cached>>

\* Mutant of UpsertToken: an update, which wants the row there.
UpdateToken(q) ==
  /\ At(q, "store_token")
  /\ stored[page[q].login] # None
  /\ stored' = [stored EXCEPT ![page[q].login] = page[q].token]
  /\ UNCHANGED <<user, cached>>

\* updateUserTokenByUserId
UpsertToken(q) ==
  /\ At(q, "store_token")
  /\ stored' = [stored EXCEPT ![page[q].login] = page[q].token]
  /\ UNCHANGED <<user, cached>>

StoreToken(q) == UpsertToken(q) /\ EnterWithToken(q)

--------------------------------------------------------------------------------
(* GET auth/metmask/signin-message, POST auth/metmask/signin *)

GetMessage(q, a) == Start(q, "message_find", a)

\* The user's nonce goes into the message; the wallet signs it.
MessageFind(q) ==
  /\ At(q, "message_find")
  /\ LET a == page[q].login
         row == findUserByWalletAddress(a)
     IN IF row = None
        THEN Await(q, "message_set", a)
        ELSE Goto(q, [step |-> "signed", login |-> a, nonce |-> row.nonce])
  /\ UNCHANGED <<user, stored, cached>>

\* No user: the nonce waits in the cache, where it replaces an earlier one.
MessageSet(q) ==
  /\ At(q, "message_set")
  /\ LET a == page[q].login
     IN /\ cached' = [cached EXCEPT ![a] = NewNonce]
        /\ Goto(q, [step |-> "signed", login |-> a, nonce |-> NewNonce])
  /\ UNCHANGED <<user, stored>>

\* The first await of signinWithMetamask: findUserByWalletAddress.
SigninWithMetamask(q) ==
  /\ At(q, "signed")
  /\ LET a == page[q].login
         row == findUserByWalletAddress(a)
     IN Goto(q, [step |-> "verify", login |-> a, nonce |-> page[q].nonce,
                 known |-> row # None,
                 expected |-> IF row = None THEN None ELSE row.nonce])
  /\ UNCHANGED <<user, stored, cached>>

\* The message is rebuilt with the nonce of the user, or the cached one.
Verify(q) ==
  /\ At(q, "verify")
  /\ LET p == page[q]
         nonce == IF p.known THEN p.expected ELSE cached[p.login]
     IN IF nonce # p.nonce THEN Goto(q, Out)  \* 'Signature Invaid'
        ELSE Await(q, IF p.known THEN "rotate" ELSE "wallet_create", p.login)
  /\ UNCHANGED <<user, stored, cached>>

\* updateAuthMetamaskNonce
RotateNonce(q) ==
  /\ At(q, "rotate")
  /\ user' = [user EXCEPT ![page[q].login].nonce = NewNonce]
  /\ UNCHANGED <<stored, cached>>

Rotate(q) == RotateNonce(q) /\ AwaitToken(q, "store_token", page[q].login)

--------------------------------------------------------------------------------
(* The other routes, and failures *)

\* A request with the token of the page p in its header.
Asking(p) == [step |-> "asking", login |-> p.login, token |-> p.token,
              current |-> stored[p.login] = p.token]

\* getUserDetail, for one.
Request(q) ==
  /\ At(q, "in")
  /\ Goto(q, Asking(page[q]))
  /\ UNCHANGED <<user, stored, cached>>

\* Mutant of TokenStored: any row of user_token will do.
TokenKnown(p) == stored[p.login] # None

\* validateUser: the token of the request is the one in the row.
TokenStored(p) == stored[p.login] = p.token

\* JwtAuthGuard lets the request pass, or answers 401 and ends the session.
\* What RolesGuard or the handler answers then does not touch the session.
Guard(q) ==
  /\ At(q, "asking")
  /\ IF TokenStored(page[q]) THEN EnterWithToken(q) ELSE Goto(q, Out)
  /\ UNCHANGED <<user, stored, cached>>

\* The token is over (expiresIn), or its owner signs out.
Leave(q) ==
  /\ At(q, "in")
  /\ Goto(q, Out)
  /\ UNCHANGED <<user, stored, cached>>

\* An await rejects, or the page is closed with a signed message; a page
\* that has its token asks again with it.
RequestFail(q) ==
  /\ page[q].step \notin {"out", "in"}
  /\ Goto(q, IF q \in Inside THEN Asking(page[q]) ELSE Out)
  /\ UNCHANGED <<user, stored, cached>>

\* A statement is carried out and its answer does not arrive.
StatementLost(q) ==
  /\ InsertUser(q) \/ InsertToken(q) \/ UpsertToken(q) \/ RotateNonce(q)
  /\ Goto(q, Out)

\* The cache is full and drops the nonce, or a look-up of news under the
\* address, for which the cache has no other key, puts null in its place.
Evict(a) ==
  /\ cached[a] # None
  /\ cached' = [cached EXCEPT ![a] = None]
  /\ UNCHANGED <<user, stored, page>>

Restart ==
  /\ cached' = [a \in Addresses |-> None]
  /\ page' = [q \in Pages |-> IF q \in InFlight THEN Out
                              ELSE IF At(q, "asking") THEN Asking(page[q])
                              ELSE page[q]]
  /\ UNCHANGED <<user, stored>>

--------------------------------------------------------------------------------
Handle(q) ==
  \/ GoogleFind(q) \/ SignInFind(q)
  \/ CreateUser(q) \/ FirstToken(q) \/ InsertRefused(q) \/ StoreToken(q)
  \/ MessageFind(q) \/ MessageSet(q)
  \/ SigninWithMetamask(q) \/ Verify(q) \/ Rotate(q)
  \/ Guard(q)

Begin(q, l) ==
  \/ l \in GoogleLogins /\ LoginWithGoogle(q, l)
  \/ l \in PasswordLogins /\ (SignUp(q, l) \/ SignIn(q, l))
  \/ l \in Addresses /\ GetMessage(q, l)

Failure ==
  \/ \E q \in Pages : RequestFail(q) \/ StatementLost(q)
  \/ \E a \in Addresses : Evict(a)
  \/ Restart

Working ==
  \/ \E q \in Pages, l \in Logins : Begin(q, l)
  \/ \E q \in Pages : Handle(q) \/ Request(q) \/ Leave(q)

Next == Working \/ Failure

Spec == Init /\ [][Next]_vars

\* The pages on their way into an address, from the message to the token.
Entering(a) == {q \in Pages \ Inside : page[q] # Out /\ page[q].login = a}

(***************************************************************************)
(* A wallet signs in on one page at a time.  On two pages that answer each *)
(* other's messages a new wallet might never get in: each message replaces *)
(* the nonce of the one before.                                            *)
(***************************************************************************)
OneEntry == \A a \in Addresses : Cardinality(Entering(a)) <= 1

SerialNext == Next /\ OneEntry'

SerialSpec == Init /\ [][SerialNext]_vars

(***************************************************************************)
(* An await ends, a page with a session uses it, the owners of logins keep *)
(* trying in every way they have, and there is a last failure.             *)
(***************************************************************************)
FairSpec ==
  /\ SerialSpec
  /\ \A q \in Pages : WF_vars(Handle(q)) /\ WF_vars(Request(q))
  /\ \A l \in GoogleLogins : SF_vars(\E q \in Pages : LoginWithGoogle(q, l))
  /\ \A l \in PasswordLogins :
       /\ SF_vars(\E q \in Pages : SignUp(q, l))
       /\ SF_vars(\E q \in Pages : SignIn(q, l))
  /\ \A a \in Addresses : SF_vars(\E q \in Pages : GetMessage(q, a) /\ OneEntry')
  /\ <>[][Working]_vars

--------------------------------------------------------------------------------
(* Properties *)

(***************************************************************************)
(* Every variable stays in its type; a handler that updates a user, or     *)
(* stores or uses a token of one, does so for a user that is there.        *)
(***************************************************************************)
TypeOK ==
  /\ user \in [Logins -> User \cup {None}]
  /\ stored \in [Logins -> Tokens \cup {None}]
  /\ cached \in [Addresses -> Nonces \cup {None}]
  /\ page \in [Pages -> PlainPage \cup TokenPage \cup AskingPage \cup SignedPage
                        \cup VerifyPage \cup {Out}]
  /\ \A q \in Pages :
       page[q] \in TokenPage \cup AskingPage \/ At(q, "rotate")
         => user[page[q].login] # None

SignedIn(l) ==
  \E q \in Inside : page[q].login = l /\ page[q].token = stored[l]

(***************************************************************************)
(* A sign-in ends the sessions before it: a request that is sent with a    *)
(* token another one has replaced is never served, whichever requests,     *)
(* sign-ins and failures come between its sending and the guard's answer.  *)
(***************************************************************************)
ReplacedTokenRefused ==
  [][\A q \in Pages : At(q, "asking") /\ page'[q].step = "in"
       => page[q].current]_vars

(***************************************************************************)
(* Nobody is locked out: whatever a failed request leaves behind, a user   *)
(* without a token, a token nobody got, a nonce replaced or forgotten, an  *)
(* owner who tries again is signed in again.                               *)
(***************************************************************************)
NeverLockedOut == \A l \in Logins : []<>SignedIn(l)
================================================================================
