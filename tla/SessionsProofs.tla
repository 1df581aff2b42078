---------------------------- MODULE SessionsProofs -----------------------------
(***************************************************************************)
(* Proofs about signing in, for any logins, any number of pages, and any   *)
(* tokens and nonces that do not run out.                                  *)
(***************************************************************************)
EXTENDS Sessions, FiniteSetTheorems, FunctionTheorems, TLAPS

--------------------------------------------------------------------------------
(* New tokens and nonces *)

\* A function takes no more values than its domain has elements.
LEMMA ValuesSize ==
  ASSUME NEW S, IsFiniteSet(S), NEW f
  PROVE  /\ IsFiniteSet({f[x] : x \in S}) /\ Cardinality({f[x] : x \in S}) \in Nat
         /\ Cardinality({f[x] : x \in S}) <= Cardinality(S)
<1> DEFINE T == {f[x] : x \in S}
           g == [x \in S |-> f[x]]
<1>1. g \in [S -> T] /\ \A t \in T : \E x \in S : g[x] = t
  OBVIOUS
<1> HIDE DEF T, g
<1>2. g \in Surjection(S, T)
  BY <1>1, Fun_IsSurj
<1>3. IsFiniteSet(T) /\ Cardinality(T) <= Cardinality(S)
  BY <1>2, FS_Surjection
<1> QED
  BY <1>3, FS_CardinalityType DEF T

LEMMA UnionSize ==
  ASSUME NEW S, IsFiniteSet(S), NEW T, IsFiniteSet(T)
  PROVE  /\ IsFiniteSet(S \cup T) /\ Cardinality(S \cup T) \in Nat
         /\ Cardinality(S \cup T) <= Cardinality(S) + Cardinality(T)
<1>1. /\ IsFiniteSet(S \cup T)
      /\ Cardinality(S \cup T) = Cardinality(S) + Cardinality(T) - Cardinality(S \cap T)
  BY FS_Union
<1>2. IsFiniteSet(S \cap T)
  BY FS_Subset
<1>3. /\ Cardinality(S) \in Nat /\ Cardinality(T) \in Nat
      /\ Cardinality(S \cap T) \in Nat /\ Cardinality(S \cup T) \in Nat
  BY <1>1, <1>2, FS_CardinalityType
<1> QED
  BY <1>1, <1>3

\* A supply that is larger than what is in use has something to give.
LEMMA SupplyLasts ==
  ASSUME NEW supply, NEW used, IsFiniteSet(used),
         IsFiniteSet(supply) => Cardinality(supply) > Cardinality(used)
  PROVE  \E x \in supply : x \notin used
<1> SUFFICES ASSUME supply \subseteq used PROVE FALSE
  OBVIOUS
<1>1. IsFiniteSet(supply) /\ Cardinality(supply) <= Cardinality(used)
  BY FS_Subset
<1>2. Cardinality(supply) \in Nat /\ Cardinality(used) \in Nat
  BY <1>1, FS_CardinalityType
<1> QED
  BY <1>1, <1>2

LEMMA FiniteConstants ==
  /\ IsFiniteSet(Logins) /\ IsFiniteSet(Pages) /\ IsFiniteSet(Addresses)
  /\ Cardinality(Logins) \in Nat /\ Cardinality(Pages) \in Nat
  /\ Cardinality(Addresses) \in Nat
<1>1. IsFiniteSet(Logins) /\ IsFiniteSet(Pages)
  BY SupplyAssumption
<1>2. Addresses \in SUBSET Logins
  BY DEF Logins
<1>3. IsFiniteSet(Addresses)
  BY <1>1, <1>2, FS_Subset
<1> QED
  BY <1>1, <1>3, FS_CardinalityType

(***************************************************************************)
(* jwtService.sign gives a token that no row and no page has.              *)
(***************************************************************************)
LEMMA NewTokenIsNew ==
  /\ NewToken \in Tokens
  /\ \A l \in Logins : stored[l] # NewToken
  /\ \A q \in Pages : page[q] \in TokenPage \cup AskingPage => page[q].token # NewToken
<1> DEFINE tokenOf == [q \in Pages |-> page[q].token]
           inRows == {stored[l] : l \in Logins}
           inPages == {tokenOf[q] : q \in Pages}
<1>1. /\ IsFiniteSet(inRows) /\ Cardinality(inRows) \in Nat
      /\ Cardinality(inRows) <= Cardinality(Logins)
  BY FiniteConstants, ValuesSize
<1>2. /\ IsFiniteSet(inPages) /\ Cardinality(inPages) \in Nat
      /\ Cardinality(inPages) <= Cardinality(Pages)
  <2> HIDE DEF tokenOf
  <2> QED
    BY FiniteConstants, ValuesSize
<1>3. \A l \in Logins : stored[l] \in inRows
  OBVIOUS
<1>4. \A q \in Pages : page[q].token \in inPages
  OBVIOUS
<1> HIDE DEF tokenOf, inRows, inPages
<1>5. /\ IsFiniteSet(inRows \cup inPages) /\ Cardinality(inRows \cup inPages) \in Nat
      /\ Cardinality(inRows \cup inPages) <= Cardinality(inRows) + Cardinality(inPages)
  BY <1>1, <1>2, UnionSize
<1>6. IsFiniteSet(Tokens) => Cardinality(Tokens) > Cardinality(inRows \cup inPages)
  <2> SUFFICES ASSUME IsFiniteSet(Tokens)
               PROVE  Cardinality(Tokens) > Cardinality(inRows \cup inPages)
    OBVIOUS
  <2>1. /\ Cardinality(Tokens) \in Nat
        /\ Cardinality(Tokens) > Cardinality(Logins) + Cardinality(Pages)
    BY SupplyAssumption, FS_CardinalityType
  <2> QED
    BY <2>1, <1>1, <1>2, <1>5, FiniteConstants
<1>7. \E t \in Tokens : t \notin inRows \cup inPages
  BY <1>5, <1>6, SupplyLasts
<1>8. \E t \in Tokens :
        /\ \A l \in Logins : stored[l] # t
        /\ \A q \in Pages : page[q] \in TokenPage \cup AskingPage => page[q].token # t
  BY <1>3, <1>4, <1>7
<1> QED
  BY <1>8, Zenon DEF NewToken

(***************************************************************************)
(* nanoid gives a nonce; that it is new matters to the signature only.     *)
(***************************************************************************)
LEMMA NewNonceType == NewNonce \in Nonces
<1> DEFINE rowNonce == [a \in Addresses |-> user[a].nonce]
           pageNonce == [q \in Pages |-> page[q].nonce]
           pageExpected == [q \in Pages |-> page[q].expected]
           inCache == {cached[a] : a \in Addresses}
           inRows == {rowNonce[a] : a \in Addresses}
           inPages == {pageNonce[q] : q \in Pages}
           inChecks == {pageExpected[q] : q \in Pages}
           used == (inCache \cup inRows) \cup (inPages \cup inChecks)
<1>1. /\ IsFiniteSet(inCache) /\ Cardinality(inCache) \in Nat
      /\ Cardinality(inCache) <= Cardinality(Addresses)
  BY FiniteConstants, ValuesSize
<1>2. /\ IsFiniteSet(inRows) /\ Cardinality(inRows) \in Nat
      /\ Cardinality(inRows) <= Cardinality(Addresses)
  <2> HIDE DEF rowNonce
  <2> QED
    BY FiniteConstants, ValuesSize
<1>3. /\ IsFiniteSet(inPages) /\ Cardinality(inPages) \in Nat
      /\ Cardinality(inPages) <= Cardinality(Pages)
  <2> HIDE DEF pageNonce
  <2> QED
    BY FiniteConstants, ValuesSize
<1>4. /\ IsFiniteSet(inChecks) /\ Cardinality(inChecks) \in Nat
      /\ Cardinality(inChecks) <= Cardinality(Pages)
  <2> HIDE DEF pageExpected
  <2> QED
    BY FiniteConstants, ValuesSize
<1>5. \A a \in Addresses : cached[a] \in used /\ user[a].nonce \in used
  OBVIOUS
<1>6. \A q \in Pages : page[q].nonce \in used /\ page[q].expected \in used
  OBVIOUS
<1>7. /\ IsFiniteSet(used) /\ Cardinality(used) \in Nat
      /\ Cardinality(used) <= 2 * (Cardinality(Addresses) + Cardinality(Pages))
  <2> HIDE DEF inCache, inRows, inPages, inChecks
  <2>1. /\ IsFiniteSet(inCache \cup inRows) /\ Cardinality(inCache \cup inRows) \in Nat
        /\ Cardinality(inCache \cup inRows) <= Cardinality(inCache) + Cardinality(inRows)
    BY <1>1, <1>2, UnionSize
  <2>2. /\ IsFiniteSet(inPages \cup inChecks) /\ Cardinality(inPages \cup inChecks) \in Nat
        /\ Cardinality(inPages \cup inChecks) <= Cardinality(inPages) + Cardinality(inChecks)
    BY <1>3, <1>4, UnionSize
  <2>3. /\ IsFiniteSet(used) /\ Cardinality(used) \in Nat
        /\ Cardinality(used) <= Cardinality(inCache \cup inRows) + Cardinality(inPages \cup inChecks)
    BY <2>1, <2>2, UnionSize
  <2> HIDE DEF used
  <2> QED
    BY <1>1, <1>2, <1>3, <1>4, <2>1, <2>2, <2>3, FiniteConstants
<1> HIDE DEF used
<1>8. IsFiniteSet(Nonces) => Cardinality(Nonces) > Cardinality(used)
  <2> SUFFICES ASSUME IsFiniteSet(Nonces) PROVE Cardinality(Nonces) > Cardinality(used)
    OBVIOUS
  <2>1. /\ Cardinality(Nonces) \in Nat
        /\ Cardinality(Nonces) > 2 * (Cardinality(Addresses) + Cardinality(Pages))
    BY SupplyAssumption, FS_CardinalityType
  <2> QED
    BY <2>1, <1>7, FiniteConstants
<1>9. \E n \in Nonces : n \notin used
  BY <1>7, <1>8, SupplyLasts
<1>10. \E n \in Nonces :
         /\ \A a \in Addresses : cached[a] # n /\ (user[a] # None => user[a].nonce # n)
         /\ \A q \in Pages :
              /\ page[q] \in SignedPage \cup VerifyPage => page[q].nonce # n
              /\ page[q] \in VerifyPage => page[q].expected # n
  BY <1>5, <1>6, <1>9
<1> QED
  BY <1>10, Zenon DEF NewNonce

--------------------------------------------------------------------------------
(* Types *)

PageType ==
  PlainPage \cup TokenPage \cup AskingPage \cup SignedPage \cup VerifyPage \cup {Out}

TokenSteps == {"first_token", "store_token", "in"}

\* The steps of emails, and those of wallets.
MailSteps == {"signup_create", "google_find", "google_create", "signin_find"}
WalletSteps == {"message_find", "message_set", "wallet_create", "rotate"}

\* A user with a wallet always has a nonce to sign.
RowsFit ==
  /\ user \in [Logins -> User \cup {None}]
  /\ \A a \in Addresses : user[a] # None => user[a].nonce \in Nonces

(***************************************************************************)
(* A page state p fits the rows of the users: an email takes no step of a  *)
(* wallet, and what was found or made for a login is still there.          *)
(***************************************************************************)
Fits(p, rows) ==
  /\ p \in PageType
  /\ p.step \in MailSteps => p.login \notin Addresses
  /\ p.step \in WalletSteps => p.login \in Addresses
  /\ p \in TokenPage \cup AskingPage \/ p.step = "rotate" => rows[p.login] # None
  /\ p.step = "verify" /\ p.known => rows[p.login] # None

PagesFit == page \in [Pages -> PageType] /\ \A q \in Pages : Fits(page[q], user)

(***************************************************************************)
(* Strengthens TypeOK: that a rotated user has a nonce and a signed one is *)
(* a wallet rests on which login takes which steps, and on the user found  *)
(* by signinWithMetamask being there when its nonce is rotated.            *)
(***************************************************************************)
SessionInv ==
  /\ RowsFit
  /\ stored \in [Logins -> Tokens \cup {None}]
  /\ cached \in [Addresses -> Nonces \cup {None}]
  /\ PagesFit

\* A page whose step is known is of the kind that has this step.
LEMMA PageStepType ==
  ASSUME NEW p \in PageType
  PROVE  /\ p.step \in PlainSteps => p \in PlainPage
         /\ p.step \in TokenSteps => p \in TokenPage
         /\ p.step = "asking" => p \in AskingPage
         /\ p.step = "signed" => p \in SignedPage
         /\ p.step = "verify" => p \in VerifyPage
         /\ p \in TokenPage \cup AskingPage => p.step \in TokenSteps \cup {"asking"}
<1>1. ASSUME p \in PlainPage PROVE p.step \in PlainSteps
  BY <1>1 DEF PlainPage
<1>2. ASSUME p \in TokenPage PROVE p.step \in TokenSteps
  BY <1>2 DEF TokenPage, TokenSteps
<1>3. ASSUME p \in AskingPage PROVE p.step = "asking"
  BY <1>3 DEF AskingPage
<1>4. ASSUME p \in SignedPage PROVE p.step = "signed"
  BY <1>4 DEF SignedPage
<1>5. ASSUME p \in VerifyPage PROVE p.step = "verify"
  BY <1>5 DEF VerifyPage
<1>6. ASSUME p = Out PROVE p.step = "out"
  BY <1>6 DEF Out
<1>7. /\ PlainSteps \cap (TokenSteps \cup {"asking", "signed", "verify", "out"}) = {}
      /\ TokenSteps \cap {"asking", "signed", "verify", "out"} = {}
  BY DEF PlainSteps, CreateSteps, TokenSteps
<1> QED
  BY <1>1, <1>2, <1>3, <1>4, <1>5, <1>6, <1>7 DEF PageType

\* What the pages carry.
LEMMA PageFields ==
  /\ \A p \in PlainPage : p.login \in Logins
  /\ \A p \in TokenPage \cup AskingPage : p.login \in Logins /\ p.token \in Tokens
  /\ \A p \in AskingPage : p.current \in BOOLEAN
  /\ \A p \in SignedPage \cup VerifyPage :
       p.login \in Addresses /\ p.login \in Logins /\ p.nonce \in Nonces
  /\ \A p \in VerifyPage : p.known \in BOOLEAN /\ p.expected \in Nonces \cup {None}
  BY DEF PlainPage, TokenPage, AskingPage, SignedPage, VerifyPage, Logins

LEMMA AddressIsLogin ==
  /\ Addresses \subseteq Logins
  /\ \A l \in Logins : l \notin Addresses <=> l \in GoogleLogins \cup PasswordLogins
  BY SessionsAssumption DEF Logins

\* Rows that are there stay there.
UsersStay == \A l \in Logins : user[l] # None => user'[l] # None

\* Moving one page to a state that fits.
LEMMA GotoFits ==
  ASSUME PagesFit, UsersStay, NEW q \in Pages, NEW r, Goto(q, r), Fits(r, user')
  PROVE  PagesFit'
<1>1. \A p \in Pages : page'[p] = IF p = q THEN r ELSE page[p]
  BY DEF PagesFit, Goto
<1>2. page' \in [Pages -> PageType]
  BY DEF PagesFit, Goto, Fits
<1>3. ASSUME NEW p \in Pages PROVE Fits(page[p], user')
  <2>1. Fits(page[p], user)
    BY DEF PagesFit
  <2>2. page[p] \in TokenPage \cup AskingPage => page[p].login \in Logins
    BY PageFields
  <2>3. page[p].step = "rotate" => page[p].login \in Logins
    BY <2>1, PageStepType, PageFields DEF Fits, PlainSteps
  <2>4. page[p].step = "verify" => page[p].login \in Logins
    BY <2>1, PageStepType, PageFields DEF Fits
  <2> QED
    BY <2>1, <2>2, <2>3, <2>4 DEF Fits, UsersStay
<1>4. ASSUME NEW p \in Pages PROVE Fits(page'[p], user')
  BY <1>1, <1>3
<1> QED
  BY <1>2, <1>4 DEF PagesFit

LEMMA OutFits == \A rows : Fits(Out, rows)
<1>1. Out \in PageType /\ Out.step = "out"
  BY DEF PageType, Out
<1>2. Out \notin TokenPage \cup AskingPage
  BY <1>1, PageStepType DEF TokenSteps
<1> QED
  BY <1>1, <1>2 DEF Fits, MailSteps, WalletSteps

\* A page that waits for a statement fits when its login takes this step.
LEMMA PlainFits ==
  ASSUME NEW step \in PlainSteps, NEW l \in Logins, NEW rows,
         step \in MailSteps => l \notin Addresses,
         step \in WalletSteps => l \in Addresses,
         step = "rotate" => rows[l] # None
  PROVE  Fits([step |-> step, login |-> l], rows)
<1> DEFINE p == [step |-> step, login |-> l]
<1>1. p \in PlainPage /\ p \in PageType /\ p.step = step /\ p.login = l
  BY DEF PlainPage, PageType
<1> HIDE DEF p
<1>2. p \notin TokenPage \cup AskingPage /\ p.step # "verify"
  BY <1>1, PageStepType DEF TokenSteps, PlainSteps, CreateSteps
<1> QED
  BY <1>1, <1>2 DEF Fits, p

\* A page with a token fits when its user is there.
LEMMA TokenFits ==
  ASSUME NEW step \in TokenSteps, NEW l \in Logins, NEW t \in Tokens, NEW rows,
         rows[l] # None
  PROVE  Fits([step |-> step, login |-> l, token |-> t], rows)
<1> DEFINE p == [step |-> step, login |-> l, token |-> t]
<1>1. p \in TokenPage /\ p \in PageType /\ p.step = step /\ p.login = l
  BY DEF TokenPage, PageType, TokenSteps
<1> HIDE DEF p
<1> QED
  BY <1>1 DEF Fits, p, TokenSteps, MailSteps, WalletSteps

LEMMA AskingFits ==
  ASSUME NEW p \in TokenPage \cup AskingPage, NEW rows, rows[p.login] # None
  PROVE  /\ Asking(p) \in AskingPage
         /\ Fits(Asking(p), rows)
<1>1. Asking(p) \in AskingPage /\ Asking(p).login = p.login
  BY PageFields DEF Asking, AskingPage
<1>2. Asking(p) \in PageType /\ Asking(p).step = "asking"
  BY <1>1 DEF PageType, AskingPage
<1> HIDE DEF Asking
<1> QED
  BY <1>1, <1>2 DEF Fits, MailSteps, WalletSteps

LEMMA SignedFits ==
  ASSUME NEW a \in Addresses, NEW n \in Nonces, NEW rows
  PROVE  Fits([step |-> "signed", login |-> a, nonce |-> n], rows)
<1> DEFINE p == [step |-> "signed", login |-> a, nonce |-> n]
<1>1. p \in SignedPage /\ p \in PageType /\ p.step = "signed"
  BY DEF SignedPage, PageType
<1> HIDE DEF p
<1>2. p \notin TokenPage \cup AskingPage
  BY <1>1, PageStepType DEF TokenSteps
<1> QED
  BY <1>1, <1>2 DEF Fits, p, MailSteps, WalletSteps

LEMMA VerifyFits ==
  ASSUME NEW a \in Addresses, NEW n \in Nonces, NEW b \in BOOLEAN,
         NEW e \in Nonces \cup {None}, NEW rows, b => rows[a] # None
  PROVE  Fits([step |-> "verify", login |-> a, nonce |-> n, known |-> b, expected |-> e], rows)
<1> DEFINE p == [step |-> "verify", login |-> a, nonce |-> n, known |-> b, expected |-> e]
<1>1. /\ p \in VerifyPage /\ p \in PageType
      /\ p.step = "verify" /\ p.login = a /\ p.known = b
  BY DEF VerifyPage, PageType
<1> HIDE DEF p
<1>2. p \notin TokenPage \cup AskingPage
  BY <1>1, PageStepType DEF TokenSteps
<1> QED
  BY <1>1, <1>2 DEF Fits, p, MailSteps, WalletSteps

\* A step that only moves one page.
LEMMA MoveFits ==
  ASSUME SessionInv, NEW q \in Pages, NEW r, Goto(q, r), Fits(r, user),
         UNCHANGED <<user, stored, cached>>
  PROVE  SessionInv'
<1>1. UsersStay /\ Fits(r, user')
  BY DEF UsersStay
<1>2. PagesFit'
  BY <1>1, GotoFits DEF SessionInv
<1> QED
  BY <1>2 DEF SessionInv, RowsFit

\* What the inserts and the update of a nonce do to the rows.
LEMMA InsertRowsFit ==
  ASSUME SessionInv, NEW q \in Pages, InsertUser(q)
  PROVE  /\ RowsFit' /\ UsersStay /\ UNCHANGED <<stored, cached>>
         /\ page[q].login \in Logins /\ user'[page[q].login] # None
<1> DEFINE l == page[q].login
<1>1. Fits(page[q], user)
  BY DEF SessionInv, PagesFit
<1>2. l \in Logins
  BY <1>1, PageStepType, PageFields
  DEF InsertUser, CreateCustomer, CreateUserDefault, CreateUerByWalletAddress, At,
      Fits, PlainSteps, CreateSteps
<1>3. PICK row : /\ Insert(q, row)
                 /\ row \in User
                 /\ l \in Addresses => row.nonce \in Nonces
  <2>1. CASE CreateCustomer(q)
    <3>1. [password |-> TRUE, nonce |-> None] \in User
      BY DEF User
    <3>2. l \notin Addresses
      BY <1>1, <2>1 DEF CreateCustomer, At, Fits, MailSteps
    <3> QED
      BY <2>1, <3>1, <3>2 DEF CreateCustomer
  <2>2. CASE CreateUserDefault(q)
    <3>1. [password |-> FALSE, nonce |-> None] \in User
      BY DEF User
    <3>2. l \notin Addresses
      BY <1>1, <2>2 DEF CreateUserDefault, At, Fits, MailSteps
    <3> QED
      BY <2>2, <3>1, <3>2 DEF CreateUserDefault
  <2>3. CASE CreateUerByWalletAddress(q)
    <3>1. [password |-> FALSE, nonce |-> NewNonce] \in User
      BY NewNonceType DEF User
    <3> QED
      BY <2>3, <3>1, NewNonceType DEF CreateUerByWalletAddress
  <2> QED
    BY <2>1, <2>2, <2>3 DEF InsertUser
<1>4. user' = [user EXCEPT ![l] = row] /\ row # None
  BY <1>3, SessionsAssumption DEF Insert
<1>5. user' \in [Logins -> User \cup {None}]
      /\ \A k \in Logins : user'[k] = IF k = l THEN row ELSE user[k]
  BY <1>2, <1>3, <1>4 DEF SessionInv, RowsFit
<1>6. UNCHANGED <<stored, cached>>
  BY <1>3 DEF Insert
<1>7. RowsFit'
  BY <1>3, <1>5, AddressIsLogin DEF SessionInv, RowsFit
<1>8. UsersStay /\ user'[l] # None
  BY <1>2, <1>4, <1>5 DEF UsersStay
<1> QED
  BY <1>2, <1>6, <1>7, <1>8

LEMMA RotateRowsFit ==
  ASSUME SessionInv, NEW q \in Pages, RotateNonce(q)
  PROVE  /\ RowsFit' /\ UsersStay /\ UNCHANGED <<stored, cached>>
         /\ page[q].login \in Logins /\ user'[page[q].login] # None
<1> DEFINE l == page[q].login
<1>1. Fits(page[q], user) /\ page[q].step = "rotate"
  BY DEF SessionInv, PagesFit, RotateNonce, At
<1>2. l \in Logins /\ user[l] \in User
  BY <1>1, PageStepType, PageFields DEF Fits, PlainSteps, SessionInv, RowsFit
<1>3. [user[l] EXCEPT !.nonce = NewNonce] \in User
      /\ [user[l] EXCEPT !.nonce = NewNonce].nonce = NewNonce
  BY <1>2, NewNonceType DEF User
<1>4. user' = [user EXCEPT ![l] = [@ EXCEPT !.nonce = NewNonce]]
  BY DEF RotateNonce
<1>5. /\ user' \in [Logins -> User \cup {None}]
      /\ \A k \in Logins :
           user'[k] = IF k = l THEN [user[l] EXCEPT !.nonce = NewNonce] ELSE user[k]
  BY <1>2, <1>3, <1>4 DEF SessionInv, RowsFit
<1>6. RowsFit'
  BY <1>3, <1>5, NewNonceType, AddressIsLogin DEF SessionInv, RowsFit
<1>7. UsersStay /\ user'[l] # None
  BY <1>2, <1>3, <1>5, SessionsAssumption DEF UsersStay
<1> QED
  BY <1>2, <1>6, <1>7 DEF RotateNonce

\* What the two statements on user_token do.
LEMMA TokenStatement ==
  ASSUME SessionInv, NEW q \in Pages, InsertToken(q) \/ UpsertToken(q)
  PROVE  /\ page[q] \in TokenPage /\ page[q].step # "in"
         /\ page[q].login \in Logins /\ page[q].token \in Tokens
         /\ user[page[q].login] # None
         /\ stored' = [stored EXCEPT ![page[q].login] = page[q].token]
         /\ stored' \in [Logins -> Tokens \cup {None}]
         /\ UNCHANGED <<user, cached>>
<1>1. Fits(page[q], user) /\ page[q].step \in {"first_token", "store_token"}
  BY DEF SessionInv, PagesFit, InsertToken, UpsertToken, At
<1>2. page[q] \in TokenPage /\ page[q].step # "in" /\ user[page[q].login] # None
  BY <1>1, PageStepType DEF Fits, TokenSteps
<1>3. page[q].login \in Logins /\ page[q].token \in Tokens
  BY <1>2, PageFields
<1>4. /\ stored' = [stored EXCEPT ![page[q].login] = page[q].token]
      /\ UNCHANGED <<user, cached>>
  BY DEF InsertToken, UpsertToken
<1> QED
  BY <1>2, <1>3, <1>4 DEF SessionInv

LEMMA SessionStep == SessionInv /\ [Next]_vars => SessionInv'
<1> SUFFICES ASSUME SessionInv, [Next]_vars PROVE SessionInv'
  OBVIOUS
<1>0. /\ PagesFit /\ RowsFit
      /\ \A q \in Pages : Fits(page[q], user) /\ page[q] \in PageType
  BY DEF SessionInv, PagesFit
<1>1. ASSUME NEW q \in Pages, NEW l \in Logins, Begin(q, l) PROVE SessionInv'
  <2>1. PICK step \in {"google_find", "signup_create", "signin_find", "message_find"} :
          /\ Start(q, step, l)
          /\ step # "message_find" <=> l \notin Addresses
    BY <1>1, AddressIsLogin DEF Begin, LoginWithGoogle, SignUp, SignIn, GetMessage
  <2>2. Fits([step |-> step, login |-> l], user)
    <3>1. step \in PlainSteps
      BY DEF PlainSteps, CreateSteps
    <3>2. step \in MailSteps => l \notin Addresses
      BY <2>1 DEF MailSteps
    <3>3. step \in WalletSteps => l \in Addresses
      BY <2>1 DEF WalletSteps
    <3> QED
      BY <3>1, <3>2, <3>3, PlainFits
  <2> QED
    BY <2>1, <2>2, MoveFits DEF Start, Await
<1>2. ASSUME NEW q \in Pages, GoogleFind(q) PROVE SessionInv'
  <2> DEFINE l == page[q].login
  <2>1. l \in Logins /\ l \notin Addresses
    BY <1>0, <1>2, PageStepType, PageFields DEF GoogleFind, At, Fits, PlainSteps, MailSteps
  <2>2. CASE user[l] = None
    <3>1. Fits([step |-> "google_create", login |-> l], user)
      BY <2>1, PlainFits DEF PlainSteps, CreateSteps, WalletSteps
    <3> QED
      BY <1>2, <2>2, <3>1, MoveFits DEF GoogleFind, findUserByEmailOrUsername, Await
  <2>3. CASE user[l] # None
    <3>1. Fits([step |-> "store_token", login |-> l, token |-> NewToken], user)
      BY <2>1, <2>3, TokenFits, NewTokenIsNew DEF TokenSteps
    <3> QED
      BY <1>2, <2>3, <3>1, MoveFits DEF GoogleFind, findUserByEmailOrUsername, AwaitToken
  <2> QED
    BY <2>2, <2>3
<1>3. ASSUME NEW q \in Pages, SignInFind(q) PROVE SessionInv'
  <2> DEFINE l == page[q].login
  <2>1. l \in Logins
    BY <1>0, <1>3, PageStepType, PageFields DEF SignInFind, At, PlainSteps
  <2>2. CASE user[l] # None /\ user[l].password
    <3>1. Fits([step |-> "store_token", login |-> l, token |-> NewToken], user)
      BY <2>1, <2>2, TokenFits, NewTokenIsNew DEF TokenSteps
    <3> QED
      BY <1>3, <2>2, <3>1, MoveFits DEF SignInFind, findUserByEmailOrUsername, AwaitToken
  <2>3. CASE ~(user[l] # None /\ user[l].password)
    BY <1>3, <2>3, MoveFits, OutFits DEF SignInFind, findUserByEmailOrUsername
  <2> QED
    BY <2>2, <2>3
<1>4. ASSUME NEW q \in Pages, CreateUser(q) PROVE SessionInv'
  <2>1. InsertUser(q) /\ Goto(q, [step |-> "first_token", login |-> page[q].login, token |-> NewToken])
    BY <1>4 DEF CreateUser, AwaitToken
  <2>2. /\ RowsFit' /\ UsersStay /\ UNCHANGED <<stored, cached>>
        /\ page[q].login \in Logins /\ user'[page[q].login] # None
    BY <2>1, InsertRowsFit
  <2>3. Fits([step |-> "first_token", login |-> page[q].login, token |-> NewToken], user')
    BY <2>2, TokenFits, NewTokenIsNew DEF TokenSteps
  <2>4. PagesFit'
    BY <1>0, <2>1, <2>2, <2>3, GotoFits
  <2> QED
    BY <2>2, <2>4 DEF SessionInv
<1>5. ASSUME NEW q \in Pages, FirstToken(q) \/ StoreToken(q) PROVE SessionInv'
  <2>1. /\ InsertToken(q) \/ UpsertToken(q)
        /\ Goto(q, [step |-> "in", login |-> page[q].login, token |-> page[q].token])
    BY <1>5 DEF FirstToken, StoreToken, EnterWithToken
  <2>2. /\ stored' \in [Logins -> Tokens \cup {None}] /\ UNCHANGED <<user, cached>>
        /\ UsersStay
        /\ Fits([step |-> "in", login |-> page[q].login, token |-> page[q].token], user')
    BY <2>1, TokenStatement, TokenFits DEF TokenSteps, UsersStay
  <2>3. PagesFit'
    BY <1>0, <2>1, <2>2, GotoFits
  <2> QED
    BY <2>2, <2>3 DEF SessionInv, RowsFit
<1>6. ASSUME NEW q \in Pages, InsertRefused(q) PROVE SessionInv'
  BY <1>6, MoveFits, OutFits DEF InsertRefused
<1>7. ASSUME NEW q \in Pages, MessageFind(q) PROVE SessionInv'
  <2> DEFINE a == page[q].login
  <2>1. a \in Addresses /\ a \in Logins
    BY <1>0, <1>7, AddressIsLogin DEF MessageFind, At, Fits, WalletSteps
  <2>2. CASE user[a] = None
    <3>1. Fits([step |-> "message_set", login |-> a], user)
      BY <2>1, PlainFits DEF PlainSteps, MailSteps
    <3> QED
      BY <1>7, <2>2, <3>1, MoveFits DEF MessageFind, findUserByWalletAddress, Await
  <2>3. CASE user[a] # None
    <3>1. user[a].nonce \in Nonces
      BY <1>0, <2>1, <2>3 DEF RowsFit
    <3>2. Fits([step |-> "signed", login |-> a, nonce |-> user[a].nonce], user)
      BY <2>1, <3>1, SignedFits
    <3> QED
      BY <1>7, <2>3, <3>2, MoveFits DEF MessageFind, findUserByWalletAddress
  <2> QED
    BY <2>2, <2>3
<1>8. ASSUME NEW q \in Pages, MessageSet(q) PROVE SessionInv'
  <2> DEFINE a == page[q].login
             r == [step |-> "signed", login |-> a, nonce |-> NewNonce]
  <2>1. a \in Addresses
    BY <1>0, <1>8 DEF MessageSet, At, Fits, WalletSteps
  <2>2. Goto(q, r) /\ Fits(r, user') /\ UsersStay
    BY <1>8, <2>1, SignedFits, NewNonceType DEF MessageSet, UsersStay
  <2>3. PagesFit'
    BY <1>0, <2>2, GotoFits
  <2>4. cached' \in [Addresses -> Nonces \cup {None}]
    BY <1>8, <2>1, NewNonceType DEF MessageSet, SessionInv
  <2> QED
    BY <1>8, <2>3, <2>4 DEF MessageSet, SessionInv, RowsFit
<1>9. ASSUME NEW q \in Pages, SigninWithMetamask(q) PROVE SessionInv'
  <2> DEFINE a == page[q].login
             e == IF user[a] = None THEN None ELSE user[a].nonce
             r == [step |-> "verify", login |-> a, nonce |-> page[q].nonce,
                   known |-> user[a] # None, expected |-> e]
  <2>1. a \in Addresses /\ page[q].nonce \in Nonces
    BY <1>0, <1>9, PageStepType, PageFields DEF SigninWithMetamask, At
  <2>2. e \in Nonces \cup {None}
    BY <1>0, <2>1 DEF RowsFit
  <2>3. Fits(r, user)
    <3> HIDE DEF e
    <3> QED
      BY <2>1, <2>2, VerifyFits
  <2>4. Goto(q, r) /\ UNCHANGED <<user, stored, cached>>
    BY <1>9, Zenon DEF SigninWithMetamask, findUserByWalletAddress
  <2> QED
    BY <2>3, <2>4, MoveFits
<1>10. ASSUME NEW q \in Pages, Verify(q) PROVE SessionInv'
  <2> DEFINE a == page[q].login
  <2>1. page[q] \in VerifyPage
    BY <1>0, <1>10, PageStepType DEF Verify, At
  <2>2. a \in Addresses /\ a \in Logins /\ page[q].known \in BOOLEAN
    BY <2>1, PageFields
  <2>3. page[q].known => user[a] # None
    BY <1>0, <1>10 DEF Verify, At, Fits
  <2>4. page[q].known => Fits([step |-> "rotate", login |-> a], user)
    BY <2>2, <2>3, PlainFits DEF PlainSteps, MailSteps
  <2>5. Fits([step |-> "wallet_create", login |-> a], user)
    BY <2>2, PlainFits DEF PlainSteps, CreateSteps, MailSteps
  <2>6. /\ \/ Goto(q, Out)
           \/ page[q].known /\ Goto(q, [step |-> "rotate", login |-> a])
           \/ Goto(q, [step |-> "wallet_create", login |-> a])
        /\ UNCHANGED <<user, stored, cached>>
    BY <1>10, <2>2 DEF Verify, Await
  <2> QED
    BY <2>4, <2>5, <2>6, OutFits, MoveFits
<1>11. ASSUME NEW q \in Pages, Rotate(q) PROVE SessionInv'
  <2>1. RotateNonce(q) /\ Goto(q, [step |-> "store_token", login |-> page[q].login, token |-> NewToken])
    BY <1>11 DEF Rotate, AwaitToken
  <2>2. /\ RowsFit' /\ UsersStay /\ UNCHANGED <<stored, cached>>
        /\ page[q].login \in Logins /\ user'[page[q].login] # None
    BY <2>1, RotateRowsFit
  <2>3. Fits([step |-> "store_token", login |-> page[q].login, token |-> NewToken], user')
    BY <2>2, TokenFits, NewTokenIsNew DEF TokenSteps
  <2>4. PagesFit'
    BY <1>0, <2>1, <2>2, <2>3, GotoFits
  <2> QED
    BY <2>2, <2>4 DEF SessionInv
<1>12. ASSUME NEW q \in Pages, Guard(q) PROVE SessionInv'
  <2>1. page[q] \in AskingPage /\ user[page[q].login] # None
    BY <1>0, <1>12, PageStepType DEF Guard, At, Fits
  <2>2. Fits([step |-> "in", login |-> page[q].login, token |-> page[q].token], user)
    BY <2>1, PageFields, TokenFits DEF TokenSteps
  <2> QED
    BY <1>12, <2>2, OutFits, MoveFits DEF Guard, EnterWithToken
<1>13. ASSUME NEW q \in Pages, Request(q) PROVE SessionInv'
  <2>1. page[q] \in TokenPage /\ user[page[q].login] # None
    BY <1>0, <1>13, PageStepType DEF Request, At, Fits, TokenSteps
  <2> QED
    BY <1>13, <2>1, AskingFits, MoveFits DEF Request
<1>14. ASSUME NEW q \in Pages, Leave(q) PROVE SessionInv'
  BY <1>14, OutFits, MoveFits DEF Leave
<1>15. ASSUME NEW q \in Pages, RequestFail(q) PROVE SessionInv'
  <2>1. CASE q \in Inside
    <3>1. page[q].step \in {"in", "asking"}
      BY <2>1 DEF Inside
    <3>2. page[q] \in TokenPage \cup AskingPage /\ user[page[q].login] # None
      BY <1>0, <3>1, PageStepType DEF Fits, TokenSteps
    <3> QED
      BY <1>15, <2>1, <3>2, AskingFits, MoveFits DEF RequestFail
  <2>2. CASE q \notin Inside
    BY <1>15, <2>2, OutFits, MoveFits DEF RequestFail
  <2> QED
    BY <2>1, <2>2
<1>16. ASSUME NEW q \in Pages, StatementLost(q) PROVE SessionInv'
  <2>1. Goto(q, Out) /\ Fits(Out, user')
    BY <1>16, OutFits DEF StatementLost
  <2>2. CASE InsertUser(q)
    BY <1>0, <2>1, <2>2, InsertRowsFit, GotoFits DEF SessionInv
  <2>3. CASE RotateNonce(q)
    BY <1>0, <2>1, <2>3, RotateRowsFit, GotoFits DEF SessionInv
  <2>4. CASE InsertToken(q) \/ UpsertToken(q)
    <3>1. stored' \in [Logins -> Tokens \cup {None}] /\ UNCHANGED <<user, cached>> /\ UsersStay
      BY <2>4, TokenStatement DEF UsersStay
    <3>2. PagesFit'
      BY <1>0, <2>1, <3>1, GotoFits
    <3> QED
      BY <3>1, <3>2 DEF SessionInv, RowsFit
  <2> QED
    BY <1>16, <2>2, <2>3, <2>4 DEF StatementLost
<1>17. ASSUME NEW a \in Addresses, Evict(a) PROVE SessionInv'
  BY <1>17 DEF Evict, SessionInv, RowsFit, PagesFit
<1>18. ASSUME Restart PROVE SessionInv'
  <2>1. UNCHANGED <<user, stored>> /\ cached' \in [Addresses -> Nonces \cup {None}]
    BY <1>18 DEF Restart
  <2>2. ASSUME NEW q \in Pages PROVE Fits(page'[q], user)
    <3>1. CASE q \in InFlight
      BY <1>18, <3>1, OutFits DEF Restart
    <3>2. CASE q \notin InFlight /\ page[q].step = "asking"
      <4>1. page[q] \in AskingPage /\ user[page[q].login] # None
        BY <1>0, <3>2, PageStepType DEF Fits
      <4> QED
        BY <1>18, <3>2, <4>1, AskingFits DEF Restart, At
    <3>3. CASE q \notin InFlight /\ page[q].step # "asking"
      BY <1>0, <1>18, <3>3 DEF Restart, At
    <3> QED
      BY <3>1, <3>2, <3>3
  <2>3. page' \in [Pages -> PageType]
    BY <1>18, <2>2 DEF Restart, Fits
  <2> QED
    BY <2>1, <2>2, <2>3 DEF SessionInv, PagesFit, RowsFit
<1>19. CASE UNCHANGED vars
  BY <1>19 DEF vars, SessionInv, PagesFit, RowsFit
<1> QED
  BY <1>1, <1>2, <1>3, <1>4, <1>5, <1>6, <1>7, <1>8, <1>9, <1>10, <1>11, <1>12,
     <1>13, <1>14, <1>15, <1>16, <1>17, <1>18, <1>19
  DEF Next, Working, Failure, Handle

LEMMA SessionInit == Init => SessionInv
<1> SUFFICES ASSUME Init PROVE SessionInv
  OBVIOUS
<1>1. RowsFit
  BY AddressIsLogin DEF Init, RowsFit
<1>2. page \in [Pages -> PageType] /\ \A q \in Pages : page[q] = Out
  BY DEF Init, PageType
<1>3. PagesFit
  BY <1>2, OutFits DEF PagesFit
<1> QED
  BY <1>1, <1>3 DEF Init, SessionInv

LEMMA SessionInvariant == Spec => []SessionInv
  BY SessionInit, SessionStep, PTL DEF Spec

(***************************************************************************)
(* Every variable stays in its type; a handler that updates a user, or     *)
(* stores or uses a token of one, does so for a user that is there.        *)
(***************************************************************************)
THEOREM TypeCorrect == Spec => []TypeOK
<1>1. SessionInv => TypeOK
  BY DEF SessionInv, RowsFit, PagesFit, PageType, Fits, TypeOK, At
<1> QED
  BY <1>1, SessionInvariant, PTL

--------------------------------------------------------------------------------
(* Replaced tokens *)

HasToken(p) == p \in TokenPage \cup AskingPage

\* No two pages, with a session or on their way to one, have one token.
TokensApart ==
  \A p, q \in Pages :
    p # q /\ HasToken(page[p]) /\ HasToken(page[q]) => page[p].token # page[q].token

\* A token that was not the stored one when a request was sent does not
\* become it while the request is under way.
StaleStays ==
  \A q \in Pages :
    At(q, "asking") /\ ~page[q].current => page[q].token # stored[page[q].login]

(***************************************************************************)
(* Inductive because a token that replaces another is new: no page that    *)
(* waits for the guard has it, so none is let in by it.                    *)
(***************************************************************************)
TokensInv == SessionInv /\ TokensApart /\ StaleStays

\* What a step does to one page.
Plain(q) == ~HasToken(page'[q])
OnlyMoves(q) == \A p \in Pages : p # q => page'[p] = page[p]
Issued(q) ==
  /\ page'[q] \in TokenPage /\ page'[q].step # "in" /\ page'[q].token = NewToken
  /\ OnlyMoves(q) /\ stored' = stored
Entered(q) ==
  /\ page[q] \in TokenPage /\ page[q].step # "in"
  /\ page'[q] = [step |-> "in", login |-> page[q].login, token |-> page[q].token]
  /\ OnlyMoves(q)
Asked(q) == HasToken(page[q]) /\ page'[q] = Asking(page[q]) /\ stored' = stored
Served(q) ==
  /\ page[q] \in AskingPage /\ TokenStored(page[q])
  /\ page'[q] = [step |-> "in", login |-> page[q].login, token |-> page[q].token]
  /\ stored' = stored

LEMMA GotoMoves ==
  ASSUME SessionInv, NEW q \in Pages, NEW r, Goto(q, r)
  PROVE  page'[q] = r /\ OnlyMoves(q)
  BY DEF SessionInv, PagesFit, Goto, OnlyMoves

\* A stored token changes to that of a page on its way in, which ends there.
LEMMA StoredMoves ==
  ASSUME SessionInv, [Next]_vars
  PROVE  \/ stored' = stored
         \/ \E p \in Pages :
              /\ page[p] \in TokenPage /\ page[p].step # "in"
              /\ stored' = [stored EXCEPT ![page[p].login] = page[p].token]
              /\ Entered(p) \/ (page'[p] = Out /\ OnlyMoves(p))
<1>1. ASSUME NEW q \in Pages, FirstToken(q) \/ StoreToken(q)
      PROVE  /\ page[q] \in TokenPage /\ page[q].step # "in"
             /\ stored' = [stored EXCEPT ![page[q].login] = page[q].token]
             /\ Entered(q)
  BY <1>1, TokenStatement, GotoMoves DEF FirstToken, StoreToken, EnterWithToken, Entered
<1>2. ASSUME NEW q \in Pages, StatementLost(q), InsertToken(q) \/ UpsertToken(q)
      PROVE  /\ page[q] \in TokenPage /\ page[q].step # "in"
             /\ stored' = [stored EXCEPT ![page[q].login] = page[q].token]
             /\ page'[q] = Out /\ OnlyMoves(q)
  BY <1>2, TokenStatement, GotoMoves DEF StatementLost
<1>3. ASSUME NEW q \in Pages, InsertUser(q) \/ RotateNonce(q)
      PROVE  stored' = stored
  BY <1>3, InsertRowsFit, RotateRowsFit
<1>4. ASSUME NEW q \in Pages, NEW l \in Logins, Begin(q, l) PROVE stored' = stored
  BY <1>4 DEF Begin, LoginWithGoogle, SignUp, SignIn, GetMessage, Start
<1>5. ASSUME NEW q \in Pages,
             \/ GoogleFind(q) \/ SignInFind(q) \/ InsertRefused(q) \/ MessageFind(q)
             \/ MessageSet(q) \/ SigninWithMetamask(q) \/ Verify(q) \/ Guard(q)
             \/ Request(q) \/ Leave(q) \/ RequestFail(q)
      PROVE  stored' = stored
  BY <1>5
  DEF GoogleFind, SignInFind, InsertRefused, MessageFind, MessageSet, SigninWithMetamask,
      Verify, Guard, Request, Leave, RequestFail
<1> QED
  BY <1>1, <1>2, <1>3, <1>4, <1>5
  DEF Next, Working, Failure, Handle, CreateUser, Rotate, StatementLost, Evict, Restart, vars

LEMMA TokenStepOf ==
  ASSUME NEW p, HasToken(p)
  PROVE  p.step \in {"first_token", "store_token", "in", "asking"}
  BY DEF HasToken, TokenPage, AskingPage

LEMMA PageMoves ==
  ASSUME SessionInv, [Next]_vars, NEW q \in Pages
  PROVE  page'[q] = page[q] \/ Plain(q) \/ Issued(q) \/ Entered(q) \/ Asked(q) \/ Served(q)
<1> DEFINE Moves == Plain(q) \/ Issued(q) \/ Entered(q) \/ Asked(q) \/ Served(q)
<1>0. Fits(page[q], user) /\ page[q] \in PageType
  BY DEF SessionInv, PagesFit
<1>1. ASSUME NEW r, Goto(q, r), r.step \notin {"first_token", "store_token", "in", "asking"}
      PROVE  Plain(q)
  BY <1>1, GotoMoves, TokenStepOf DEF Plain
<1>2. ASSUME Goto(q, Out) PROVE Plain(q)
  BY <1>1, <1>2 DEF Out
<1>3. ASSUME NEW step \in {"first_token", "store_token"}, NEW l \in Logins,
             AwaitToken(q, step, l), stored' = stored
      PROVE  Issued(q)
  <2> DEFINE r == [step |-> step, login |-> l, token |-> NewToken]
  <2>1. r \in TokenPage /\ r.step # "in" /\ r.token = NewToken
    BY NewTokenIsNew DEF TokenPage
  <2>2. Goto(q, r)
    BY <1>3 DEF AwaitToken
  <2> HIDE DEF r
  <2> QED
    BY <1>3, <2>1, <2>2, GotoMoves DEF Issued
<1>4. ASSUME NEW step, NEW l, Await(q, step, l),
             step \notin {"first_token", "store_token", "in", "asking"}
      PROVE  Plain(q)
  BY <1>1, <1>4 DEF Await
<1>5. page[q] \in PlainPage => page[q].login \in Logins
  BY PageFields
<1>6. ASSUME NEW l \in Logins, Begin(q, l) PROVE Plain(q)
  BY <1>4, <1>6 DEF Begin, LoginWithGoogle, SignUp, SignIn, GetMessage, Start
<1>7. ASSUME GoogleFind(q) PROVE Plain(q) \/ Issued(q)
  <2>1. page[q].login \in Logins
    BY <1>0, <1>5, <1>7, PageStepType DEF GoogleFind, At, PlainSteps
  <2> QED
    BY <1>3, <1>4, <1>7, <2>1 DEF GoogleFind
<1>8. ASSUME SignInFind(q) PROVE Plain(q) \/ Issued(q)
  <2>1. page[q].login \in Logins
    BY <1>0, <1>5, <1>8, PageStepType DEF SignInFind, At, PlainSteps
  <2> QED
    BY <1>2, <1>3, <1>8, <2>1 DEF SignInFind
<1>9. ASSUME CreateUser(q) PROVE Issued(q)
  <2>1. page[q].login \in Logins /\ stored' = stored
    BY <1>9, InsertRowsFit DEF CreateUser
  <2> QED
    BY <1>3, <1>9, <2>1 DEF CreateUser
<1>10. ASSUME Rotate(q) PROVE Issued(q)
  <2>1. page[q].login \in Logins /\ stored' = stored
    BY <1>10, RotateRowsFit DEF Rotate
  <2> QED
    BY <1>3, <1>10, <2>1 DEF Rotate
<1>11. ASSUME FirstToken(q) \/ StoreToken(q) PROVE Entered(q)
  BY <1>11, TokenStatement, GotoMoves DEF FirstToken, StoreToken, EnterWithToken, Entered
<1>12. ASSUME InsertRefused(q) \/ Leave(q) \/ StatementLost(q) PROVE Plain(q)
  BY <1>2, <1>12 DEF InsertRefused, Leave, StatementLost
<1>13. ASSUME MessageFind(q) \/ MessageSet(q) PROVE Plain(q)
  <2>1. \/ Await(q, "message_set", page[q].login)
        \/ \E n : Goto(q, [step |-> "signed", login |-> page[q].login, nonce |-> n])
    BY <1>13 DEF MessageFind, MessageSet
  <2> QED
    BY <1>1, <1>4, <2>1
<1>14. ASSUME SigninWithMetamask(q) PROVE Plain(q)
  <2>1. \E n, b, e :
          Goto(q, [step |-> "verify", login |-> page[q].login, nonce |-> n,
                   known |-> b, expected |-> e])
    BY <1>14, Zenon DEF SigninWithMetamask
  <2> QED
    BY <1>1, <2>1
<1>15. ASSUME Verify(q) PROVE Plain(q)
  <2>1. \/ Goto(q, Out)
        \/ \E step \in {"rotate", "wallet_create"} : Await(q, step, page[q].login)
    BY <1>15 DEF Verify
  <2> QED
    BY <1>2, <1>4, <2>1
<1>16. ASSUME Guard(q) PROVE Plain(q) \/ Served(q)
  <2>1. page[q] \in AskingPage
    BY <1>0, <1>16, PageStepType DEF Guard, At
  <2> QED
    BY <1>2, <1>16, <2>1, GotoMoves DEF Guard, EnterWithToken, Served
<1>17. ASSUME Request(q) PROVE Asked(q)
  <2>1. HasToken(page[q])
    BY <1>0, <1>17, PageStepType DEF Request, At, TokenSteps, HasToken
  <2> QED
    BY <1>17, <2>1, GotoMoves DEF Request, Asked
<1>18. ASSUME RequestFail(q) PROVE Plain(q) \/ Asked(q)
  <2>1. q \in Inside => HasToken(page[q])
    BY <1>0, PageStepType DEF Inside, TokenSteps, HasToken
  <2> QED
    BY <1>2, <1>18, <2>1, GotoMoves DEF RequestFail, Asked
<1>19. ASSUME Restart PROVE page'[q] = page[q] \/ Plain(q) \/ Asked(q)
  <2>1. At(q, "asking") => HasToken(page[q])
    BY <1>0, PageStepType DEF At, HasToken
  <2>2. ~HasToken(Out)
    BY TokenStepOf DEF Out
  <2> QED
    BY <1>19, <2>1, <2>2 DEF Restart, Asked, Plain
<1>20. ASSUME NEW p \in Pages, p # q,
              \/ \E l \in Logins : Begin(p, l)
              \/ Handle(p) \/ Request(p) \/ Leave(p) \/ RequestFail(p) \/ StatementLost(p)
       PROVE  page'[q] = page[q]
  <2>1. \E r : Goto(p, r)
    BY <1>20, Zenon
    DEF Begin, LoginWithGoogle, SignUp, SignIn, GetMessage, Start, Await, AwaitToken, Handle,
        GoogleFind, SignInFind, CreateUser, FirstToken, StoreToken, EnterWithToken,
        InsertRefused, MessageFind, MessageSet, SigninWithMetamask, Verify, Rotate, Guard,
        Request, Leave, RequestFail, StatementLost
  <2> QED
    BY <1>20, <2>1, GotoMoves DEF OnlyMoves
<1>21. CASE page' = page
  BY <1>21
<1> QED
  BY <1>6, <1>7, <1>8, <1>9, <1>10, <1>11, <1>12, <1>13, <1>14, <1>15, <1>16, <1>17,
     <1>18, <1>19, <1>20, <1>21
  DEF Next, Working, Failure, Handle, Evict, vars

LEMMA AskingFields ==
  ASSUME NEW p
  PROVE  /\ Asking(p).step = "asking" /\ Asking(p).login = p.login
         /\ Asking(p).token = p.token
         /\ Asking(p).current = (stored[p.login] = p.token)
  BY DEF Asking

\* A page keeps its token, or its token is new and no other page moves.
LEMMA TokenMoves ==
  ASSUME SessionInv, [Next]_vars, NEW q \in Pages, HasToken(page'[q])
  PROVE  \/ HasToken(page[q]) /\ page'[q].token = page[q].token
         \/ page'[q].token = NewToken /\ OnlyMoves(q)
<1>1. CASE page'[q] = page[q]
  BY <1>1 DEF HasToken
<1>2. CASE Plain(q)
  BY <1>2 DEF Plain
<1>3. CASE Issued(q)
  BY <1>3 DEF Issued
<1>4. CASE Entered(q) \/ Served(q)
  BY <1>4 DEF Entered, Served, HasToken
<1>5. CASE Asked(q)
  BY <1>5, AskingFields DEF Asked
<1> QED
  BY <1>1, <1>2, <1>3, <1>4, <1>5, PageMoves

LEMMA ApartStep ==
  ASSUME SessionInv, TokensApart, [Next]_vars
  PROVE  TokensApart'
<1> SUFFICES ASSUME NEW p \in Pages, NEW q \in Pages, p # q,
                    HasToken(page'[p]), HasToken(page'[q])
             PROVE  page'[p].token # page'[q].token
  BY DEF TokensApart, HasToken
<1>1. \A o \in Pages : HasToken(page[o]) => page[o].token # NewToken
  BY NewTokenIsNew DEF HasToken
<1>2. CASE OnlyMoves(p) /\ page'[p].token = NewToken
  BY <1>1, <1>2 DEF OnlyMoves
<1>3. CASE OnlyMoves(q) /\ page'[q].token = NewToken
  BY <1>1, <1>3 DEF OnlyMoves
<1>4. CASE /\ HasToken(page[p]) /\ page'[p].token = page[p].token
           /\ HasToken(page[q]) /\ page'[q].token = page[q].token
  BY <1>4 DEF TokensApart
<1> QED
  BY <1>2, <1>3, <1>4, TokenMoves

LEMMA StaleStep ==
  ASSUME SessionInv, TokensApart, StaleStays, [Next]_vars
  PROVE  StaleStays'
<1> SUFFICES ASSUME NEW q \in Pages, page'[q].step = "asking", ~page'[q].current
             PROVE  page'[q].token # stored'[page'[q].login]
  BY DEF StaleStays, At
<1>0. page[q] \in PageType /\ page'[q] \in PageType
  BY SessionStep DEF SessionInv, PagesFit, Fits
<1>1. page'[q] \in AskingPage
  BY <1>0, PageStepType
<1>2. CASE Asked(q)
  <2>1. /\ page'[q].login = page[q].login /\ page'[q].token = page[q].token
        /\ page'[q].current = (stored[page[q].login] = page[q].token)
    BY <1>2, AskingFields DEF Asked
  <2>2. stored' = stored
    BY <1>2 DEF Asked
  <2>3. ~(stored[page[q].login] = page[q].token)
    BY <2>1, Zenon
  <2> QED
    BY <2>1, <2>2, <2>3
<1>3. CASE page'[q] = page[q]
  <2>1. page[q].token # stored[page[q].login]
    BY <1>3 DEF StaleStays, At
  <2>2. ASSUME NEW p \in Pages, page[p] \in TokenPage,
               stored' = [stored EXCEPT ![page[p].login] = page[p].token],
               Entered(p) \/ page'[p] = Out
        PROVE  page'[q].token # stored'[page'[q].login]
    <3>1. p # q
      BY <1>3, <2>2 DEF Entered, Out
    <3>2. page[p].token # page[q].token
      BY <1>1, <1>3, <2>2, <3>1 DEF TokensApart, HasToken
    <3>3. page[q].login \in Logins
      BY <1>1, <1>3, PageFields
    <3> QED
      BY <1>3, <2>1, <2>2, <3>2, <3>3 DEF SessionInv
  <2> QED
    BY <1>3, <2>1, <2>2, StoredMoves
<1>4. CASE Plain(q)
  BY <1>1, <1>4 DEF Plain, HasToken
<1>5. CASE Issued(q)
  BY <1>1, <1>5, TokenStepOf DEF Issued, TokenPage
<1>6. CASE Entered(q) \/ Served(q)
  BY <1>6 DEF Entered, Served
<1> QED
  BY <1>2, <1>3, <1>4, <1>5, <1>6, PageMoves

LEMMA TokensInvariant == Spec => []TokensInv
<1>1. Init => TokensInv
  <2>1. Init => TokensApart /\ StaleStays
    BY TokenStepOf DEF Init, Out, TokensApart, StaleStays, At
  <2> QED
    BY <2>1, SessionInit DEF TokensInv
<1>2. TokensInv /\ [Next]_vars => TokensInv'
  BY SessionStep, ApartStep, StaleStep DEF TokensInv
<1> QED
  BY <1>1, <1>2, PTL DEF Spec

\* The guard lets in only who has the stored token.
LEMMA ServedIsCurrent ==
  ASSUME TokensInv, [Next]_vars, NEW q \in Pages, page[q].step = "asking",
         page'[q].step = "in"
  PROVE  page[q].current
<1>0. SessionInv /\ StaleStays /\ page[q] \in AskingPage
  BY PageStepType DEF TokensInv, SessionInv, PagesFit
<1>1. Served(q)
  <2>1. page'[q] # page[q]
    OBVIOUS
  <2>2. page'[q] \in PageType
    BY <1>0, SessionStep DEF SessionInv, PagesFit
  <2>3. HasToken(page'[q])
    BY <2>2, PageStepType DEF HasToken, TokenSteps
  <2>4. page[q] \notin TokenPage
    BY <1>0 DEF TokenPage
  <2>5. ~Plain(q) /\ ~Issued(q) /\ ~Entered(q)
    BY <2>3, <2>4 DEF Plain, Issued, Entered
  <2>6. ~Asked(q)
    BY AskingFields DEF Asked
  <2> QED
    BY <1>0, <2>1, <2>5, <2>6, PageMoves
<1>2. stored[page[q].login] = page[q].token
  BY <1>1 DEF Served, TokenStored
<1>3. page[q].current \in BOOLEAN
  BY <1>0, PageFields
<1> QED
  BY <1>0, <1>2, <1>3 DEF StaleStays, At

(***************************************************************************)
(* A sign-in ends the sessions before it: a request that is sent with a    *)
(* token another one has replaced is never served, on any number of pages  *)
(* and logins, whatever comes between its sending and the guard's answer.  *)
(***************************************************************************)
THEOREM ReplacedIsRefused == Spec => ReplacedTokenRefused
<1>1. TokensInv /\ [Next]_vars =>
        [\A q \in Pages : At(q, "asking") /\ page'[q].step = "in" => page[q].current]_vars
  BY ServedIsCurrent DEF At
<1> QED
  BY <1>1, TokensInvariant, PTL DEF Spec, ReplacedTokenRefused
================================================================================
