---------------------------- MODULE AccountsProofs ----------------------------
(***************************************************************************)
(* Theorems about Accounts, for any number of requests, names, passwords   *)
(* and accounts, and any size of the pool.                                 *)
(*                                                                         *)
(* A row of users is never changed once it is inserted and its id is never *)
(* used again, so what a request or a token has learned of an id stays     *)
(* true, whatever is deleted and registered meanwhile.                     *)
(***************************************************************************)
EXTENDS Accounts, FiniteSetTheorems, TLAPS

User == [name : Names, secret : Passwords \cup {Placeholder}]
Allowed == Done \cup Asking \cup Verifying \cup Storing \cup Presenting \cup Known

\* What a request has learned of the rows acc.
Proven(acc, q) ==
    /\ q.at = "me" => acc[q.token.uid].secret = q.token.proof
    /\ q.at = "known" => acc[q.user].secret = q.token.proof
    /\ q.at \in {"refresh", "201"} => acc[q.user] = [name |-> q.name, secret |-> q.password]

TokensProven == \A t \in tokens : account[t.uid].secret = t.proof

IInv ==
    /\ TypeOK
    /\ OneUserPerName
    /\ TokensProven
    /\ \A r \in Slots : Proven(account, request[r])

\* No row changes and no id is lost.
RowsStay == \A i \in Ids : i \in Ids' /\ account'[i] = account[i]

-----------------------------------------------------------------------------
(* Rows that stay                                                          *)

LEMMA TypesAt ==
    ASSUME TypeOK
    PROVE  /\ \A r \in Slots : request[r] \in Allowed
           /\ \A i \in Ids : account[i] \in User
           /\ Len(account) \in Nat
<1>1. account \in Seq(User)
  BY DEF TypeOK, User
<1>2. \A r \in Slots : request[r] \in Allowed
  BY DEF TypeOK, Allowed
<1>. QED
  BY <1>1, <1>2 DEF Ids

\* What is learned of rows that stay remains learned.
LEMMA StaysProven ==
    ASSUME RowsStay, NEW q \in Allowed, Proven(account, q)
    PROVE  q \in Allowed' /\ Proven(account', q)
<1>. USE DEF RowsStay
<1>1. q \in Allowed'
  BY DEF Allowed, Done, Asking, Verifying, Storing, Presenting, Known, Token
<1>2. q.at = "me" => account'[q.token.uid].secret = q.token.proof
  <2>1. q.at = "me" => q.token.uid \in Ids
    BY DEF Allowed, Done, Asking, Verifying, Storing, Presenting, Known, Token
  <2>. QED
    BY <2>1 DEF Proven
<1>3. /\ q.at = "known" => account'[q.user].secret = q.token.proof
      /\ q.at \in {"refresh", "201"} => account'[q.user] = [name |-> q.name, secret |-> q.password]
  <2>1. q.at \in {"known", "refresh", "201"} => q.user \in Ids
    BY DEF Allowed, Done, Asking, Verifying, Storing, Presenting, Known
  <2>. QED
    BY <2>1 DEF Proven
<1>. QED
  BY <1>1, <1>2, <1>3 DEF Proven

LEMMA InitInv == Init => IInv
<1>. SUFFICES ASSUME Init PROVE IInv
  OBVIOUS
<1>1. \A r \in Slots : request[r] = [at |-> "idle"]
  BY DEF Init, Idle
<1>2. TypeOK
  BY AccountsAssumption DEF Init, Idle, TypeOK, Done, NotRun, Ids
<1>3. OneUserPerName /\ TokensProven
  BY DEF Init, OneUserPerName, TokensProven
<1>. QED
  BY <1>1, <1>2, <1>3 DEF IInv, Proven

\* One request is changed to what is proven, over rows that stay.
LEMMA RequestInv ==
    ASSUME IInv, RowsStay, account' \in Seq(User), present' \subseteq Ids', OneUserPerName',
           seeder' \in NotRun..HowMany, tokens' \subseteq Token', TokensProven',
           NEW r \in Slots, NEW q, q \in Allowed', Proven(account', q),
           request' = [request EXCEPT ![r] = q]
    PROVE  IInv'
<1>1. \A p \in Slots : request'[p] = IF p = r THEN q ELSE request[p]
  BY DEF IInv, TypeOK
<1>2. \A p \in Slots : request'[p] \in Allowed' /\ Proven(account', request'[p])
  <2>. SUFFICES ASSUME NEW p \in Slots, p # r
                PROVE  request[p] \in Allowed' /\ Proven(account', request[p])
    BY <1>1
  <2>1. request[p] \in Allowed /\ Proven(account, request[p])
    BY TypesAt DEF IInv
  <2>. QED
    BY <2>1, StaysProven
<1>3. request' \in [Slots -> Allowed']
  BY <1>2 DEF IInv, TypeOK
<1>4. TypeOK'
  BY <1>3 DEF TypeOK, Allowed, User
<1>. QED
  BY <1>2, <1>4 DEF IInv

LEMMA SameRows ==
    ASSUME IInv, UNCHANGED <<account, present, seeder>>
    PROVE  /\ RowsStay /\ account' \in Seq(User) /\ present' \subseteq Ids' /\ OneUserPerName'
           /\ seeder' \in NotRun..HowMany
           /\ Allowed' = Allowed /\ Token' = Token
BY DEF IInv, TypeOK, RowsStay, User, Ids, OneUserPerName, Allowed, Asking, Verifying, Storing,
       Presenting, Known, Token

\* A step that only moves one request.
LEMMA MoveInv ==
    ASSUME IInv, UNCHANGED <<account, present, tokens, seeder>>,
           NEW r \in Slots, NEW q \in Allowed, Proven(account, q),
           request' = [request EXCEPT ![r] = q]
    PROVE  IInv'
<1>1. tokens' \subseteq Token' /\ TokensProven'
  BY SameRows DEF IInv, TypeOK, TokensProven
<1>2. q \in Allowed' /\ Proven(account', q)
  BY SameRows
<1>. QED
  BY <1>1, <1>2, SameRows, RequestInv

\* An answer that names nobody.
LEMMA StatusInv ==
    ASSUME IInv, UNCHANGED <<account, present, tokens, seeder>>, NEW r \in Slots,
           NEW s \in {"idle", "200", "401", "409", "500", "integrity_error"}, Status(r, s)
    PROVE  IInv'
<1>. DEFINE q == [at |-> s]
<1>1. q \in Allowed /\ Proven(account, q)
  BY DEF Allowed, Done, Proven
<1>2. request' = [request EXCEPT ![r] = q]
  BY DEF Status
<1>. QED
  BY <1>1, <1>2, MoveInv

-----------------------------------------------------------------------------
(* Steps that only move a request                                          *)

\* The kinds of requests, told by the point they are at.
LEMMA KindAt ==
    ASSUME TypeOK, NEW r \in Slots
    PROVE  /\ request[r].at \in {"lookup", "hash", "insert"} => request[r] \in Asking
           /\ request[r].at = "verify" => request[r] \in Verifying
           /\ request[r].at \in {"refresh", "201"} => request[r] \in Storing
           /\ request[r].at = "me" => request[r] \in Presenting
BY TypesAt DEF Allowed, Done, Asking, Verifying, Storing, Presenting, Known

LEMMA SendInv ==
    ASSUME IInv, NEW r \in Slots, SendCredentials(r) \/ SendToken(r) PROVE IInv'
<1>1. CASE SendCredentials(r)
  <2>1. PICK kind \in {"register", "login"}, n \in Names, p \in Passwords :
          request' = [request EXCEPT ![r] =
              [at |-> "lookup", kind |-> kind, name |-> n, password |-> p]]
    BY <1>1 DEF SendCredentials
  <2>. DEFINE q == [at |-> "lookup", kind |-> kind, name |-> n, password |-> p]
  <2>2. q \in Allowed /\ Proven(account, q)
    BY DEF Allowed, Asking, Proven
  <2>3. request' = [request EXCEPT ![r] = q]
    BY <2>1
  <2>. QED
    BY <1>1, <2>2, <2>3, MoveInv DEF SendCredentials
<1>2. CASE SendToken(r)
  <2>1. PICK t \in tokens : request' = [request EXCEPT ![r] = [at |-> "me", token |-> t]]
    BY <1>2 DEF SendToken
  <2>. DEFINE q == [at |-> "me", token |-> t]
  <2>2. t \in Token /\ account[t.uid].secret = t.proof
    BY DEF IInv, TypeOK, TokensProven
  <2>3. q \in Allowed /\ Proven(account, q)
    BY <2>2 DEF Allowed, Presenting, Proven
  <2>4. request' = [request EXCEPT ![r] = q]
    BY <2>1
  <2>. QED
    BY <1>2, <2>3, <2>4, MoveInv DEF SendToken
<1>. QED
  BY <1>1, <1>2

LEMMA LookUpInv ==
    ASSUME IInv, NEW r \in Slots, LookUp(r) PROVE IInv'
<1>1. /\ request[r] \in Asking
      /\ UNCHANGED <<account, present, tokens, seeder>>
  BY KindAt DEF IInv, LookUp
<1>2. CASE Status(r, "409")
  BY <1>1, <1>2, StatusInv
<1>3. CASE request' = [request EXCEPT ![r].at = "hash"]
  <2>. DEFINE q == [request[r] EXCEPT !.at = "hash"]
  <2>1. q \in Allowed /\ Proven(account, q)
    BY <1>1 DEF Allowed, Asking, Proven
  <2>2. request' = [request EXCEPT ![r] = q]
    BY <1>3
  <2>. QED
    BY <1>1, <2>1, <2>2, MoveInv
<1>4. CASE request' = [request EXCEPT ![r] =
             [at |-> "verify", name |-> @.name, password |-> @.password,
              user |-> Named(request[r].name)]]
  <2>. DEFINE q == [at |-> "verify", name |-> request[r].name, password |-> request[r].password,
                    user |-> Named(request[r].name)]
  <2>1. Named(request[r].name) \subseteq Ids
    BY DEF Named, IInv, TypeOK
  <2>2. q \in Allowed /\ Proven(account, q)
    BY <1>1, <2>1 DEF Allowed, Asking, Verifying, Proven
  <2>3. request' = [request EXCEPT ![r] = q]
    BY <1>4
  <2>. QED
    BY <1>1, <2>2, <2>3, MoveInv
<1>. QED
  BY <1>2, <1>3, <1>4 DEF LookUp, Refuse, StatusOf

LEMMA HashInv ==
    ASSUME IInv, NEW r \in Slots, Hash(r) PROVE IInv'
<1>1. /\ request[r] \in Asking
      /\ UNCHANGED <<account, present, tokens, seeder>>
  BY KindAt DEF IInv, Hash
<1>. DEFINE q == [request[r] EXCEPT !.at = "insert"]
<1>2. q \in Allowed /\ Proven(account, q)
  BY <1>1 DEF Allowed, Asking, Proven
<1>3. request' = [request EXCEPT ![r] = q]
  BY DEF Hash
<1>. QED
  BY <1>1, <1>2, <1>3, MoveInv

\* The row read back is the row inserted.
LEMMA RefreshInv ==
    ASSUME IInv, NEW r \in Slots, Refresh(r) PROVE IInv'
<1>1. CASE Created(r, request[r].user) /\ request[r].at = "refresh"
  <2>. DEFINE q == [at |-> "201", name |-> request[r].name, password |-> request[r].password,
                    user |-> request[r].user]
  <2>1. request[r] \in Storing
    BY <1>1, KindAt DEF IInv
  <2>2. account[request[r].user] = [name |-> request[r].name, secret |-> request[r].password]
    BY <1>1 DEF IInv, Proven
  <2>3. q \in Allowed
    BY <2>1 DEF Allowed, Storing
  <2>4. Proven(account, q)
    BY <2>2 DEF Proven
  <2>5. request' = [request EXCEPT ![r] = q]
    BY <1>1 DEF Created
  <2>. QED
    BY <1>1, <2>3, <2>4, <2>5, MoveInv DEF Created
<1>2. CASE Status(r, "500") /\ UNCHANGED <<account, present, tokens, seeder>>
  BY <1>2, StatusInv
<1>. QED
  BY <1>1, <1>2 DEF Refresh

\* The stored record and the claims are both the token's user.
LEMMA KnownInv ==
    ASSUME IInv, NEW r \in Slots, Me(r) \/ Principal(r) PROVE IInv'
<1>1. /\ request[r] \in Presenting
      /\ account[request[r].token.uid].secret = request[r].token.proof
      /\ UNCHANGED <<account, present, tokens, seeder>>
  BY KindAt DEF IInv, Me, Principal, Proven
<1>2. CASE Status(r, "401")
  BY <1>1, <1>2, StatusInv
<1>3. CASE request' = [request EXCEPT ![r] =
             [at |-> "known", user |-> request[r].token.uid, token |-> @.token]]
  <2>. DEFINE q == [at |-> "known", user |-> request[r].token.uid, token |-> request[r].token]
  <2>1. q \in Allowed /\ Proven(account, q)
    BY <1>1 DEF Allowed, Presenting, Known, Token, Proven
  <2>2. request' = [request EXCEPT ![r] = q]
    BY <1>3
  <2>. QED
    BY <1>1, <2>1, <2>2, MoveInv
<1>. QED
  BY <1>2, <1>3 DEF Me, Principal, UserOf, Refuse, StatusOf

-----------------------------------------------------------------------------
(* Steps that change the table or the tokens                               *)

\* A login proves the password of the row it found.
LEMMA VerifyInv ==
    ASSUME IInv, NEW r \in Slots, Verify(r) PROVE IInv'
<1>1. request[r] \in Verifying /\ UNCHANGED <<account, present, seeder>>
  BY KindAt DEF IInv, Verify
<1>2. CASE Status(r, "401") /\ UNCHANGED tokens
  BY <1>1, <1>2, StatusInv
<1>3. ASSUME NEW i \in request[r].user,
             account[i].secret = request[r].password,
             tokens' = tokens \cup {[uid |-> i, proof |-> request[r].password]},
             Status(r, "200")
      PROVE  IInv'
  <2>. DEFINE q == [at |-> "200"]
  <2>1. i \in Ids /\ request[r].password \in Passwords
    BY <1>1 DEF Verifying
  <2>2. tokens' \subseteq Token' /\ TokensProven'
    <3>. DEFINE t == [uid |-> i, proof |-> request[r].password]
    <3>1. t \in Token /\ Token' = Token
      BY <1>1, <2>1, SameRows DEF Token
    <3>2. tokens \subseteq Token /\ tokens' = tokens \cup {t}
      BY <1>3 DEF IInv, TypeOK
    <3>3. account[t.uid].secret = t.proof /\ account' = account
      BY <1>1, <1>3
    <3>4. \A u \in tokens : account[u.uid].secret = u.proof
      BY DEF IInv, TokensProven
    <3>5. ASSUME NEW u \in tokens' PROVE account'[u.uid].secret = u.proof
      <4>1. CASE u \in tokens
        BY <4>1, <3>3, <3>4
      <4>2. CASE u = t
        BY <4>2, <3>3
      <4>. QED
        BY <3>2, <4>1, <4>2
    <3>6. TokensProven'
      BY <3>5 DEF TokensProven
    <3>. QED
      BY <3>1, <3>2, <3>6
  <2>3. q \in Allowed' /\ Proven(account', q)
    BY DEF Allowed, Done, Proven
  <2>4. request' = [request EXCEPT ![r] = q]
    BY <1>3 DEF Status
  <2>. QED
    BY <1>1, <2>2, <2>3, <2>4, SameRows, RequestInv
<1>. QED
  BY <1>2, <1>3 DEF Verify, Refuse, StatusOf

\* The unique index lets a row in only under a name that nobody has.
LEMMA InsertRow ==
    ASSUME IInv, NEW n \in Names, NEW secret \in Passwords \cup {Placeholder},
           InsertUser(n, secret)
    PROVE  /\ RowsStay /\ account' \in Seq(User) /\ present' \subseteq Ids' /\ OneUserPerName'
           /\ Len(account) + 1 \in Ids'
           /\ account'[Len(account) + 1] = [name |-> n, secret |-> secret]
           /\ Token \subseteq Token'
<1>. DEFINE row == [name |-> n, secret |-> secret]
            new == Len(account) + 1
<1>1. account \in Seq(User) /\ present \subseteq Ids /\ Len(account) \in Nat
  BY TypesAt DEF IInv, TypeOK, User
<1>2. /\ account' = Append(account, row) /\ present' = present \cup {new}
      /\ \A i \in present : account[i].name # n
  BY DEF InsertUser, Violates, Named
<1>3. row \in User
  BY DEF User
<1>4. /\ account' \in Seq(User) /\ Len(account') = new
      /\ account'[new] = row
      /\ \A i \in 1..Len(account) : account'[i] = account[i]
  BY <1>1, <1>2, <1>3
<1>5. RowsStay /\ new \in Ids'
  BY <1>1, <1>4 DEF RowsStay, Ids
<1>6. present' \subseteq Ids'
  BY <1>1, <1>2, <1>5 DEF RowsStay
<1>7. OneUserPerName'
  <2>1. new \notin Ids
    BY <1>1 DEF Ids
  <2>2. \A i \in present : i # new /\ account'[i] = account[i]
    BY <1>1, <1>5, <2>1 DEF RowsStay
  <2>3. SUFFICES ASSUME NEW i \in present', NEW j \in present',
                        account'[i].name = account'[j].name
                 PROVE  i = j
    BY DEF OneUserPerName
  <2>4. account'[new].name = n
    BY <1>4
  <2>5. CASE i \in present /\ j \in present
    BY <2>2, <2>3, <2>5 DEF IInv, OneUserPerName
  <2>6. CASE i = new /\ j \in present
    BY <1>2, <2>2, <2>3, <2>4, <2>6
  <2>7. CASE j = new /\ i \in present
    BY <1>2, <2>2, <2>3, <2>4, <2>7
  <2>. QED
    BY <1>2, <2>5, <2>6, <2>7
<1>8. Token \subseteq Token'
  BY <1>5 DEF Token, RowsStay
<1>. QED
  BY <1>4, <1>5, <1>6, <1>7, <1>8

\* Rows stay, so what was proven for a token remains so.
LEMMA TokensStay ==
    ASSUME IInv, RowsStay, Token \subseteq Token', tokens' \subseteq tokens
    PROVE  tokens' \subseteq Token' /\ TokensProven'
BY DEF IInv, TypeOK, TokensProven, Token, RowsStay

LEMMA CreateInv ==
    ASSUME IInv, NEW r \in Slots, Create(r) PROVE IInv'
<1>1. /\ request[r] \in Asking
      /\ request[r].name \in Names /\ request[r].password \in Passwords
      /\ InsertUser(request[r].name, request[r].password)
      /\ UNCHANGED <<tokens, seeder>>
  BY KindAt DEF IInv, Create, Asking
<1>2. /\ RowsStay /\ account' \in Seq(User) /\ present' \subseteq Ids' /\ OneUserPerName'
      /\ Len(account) + 1 \in Ids'
      /\ account'[Len(account) + 1] = [name |-> request[r].name, secret |-> request[r].password]
      /\ tokens' \subseteq Token' /\ TokensProven'
  BY <1>1, InsertRow, TokensStay
<1>3. seeder' \in NotRun..HowMany
  BY <1>1 DEF IInv, TypeOK
<1>4. CASE Status(r, "500")
  <2>. DEFINE q == [at |-> "500"]
  <2>1. q \in Allowed' /\ Proven(account', q)
    BY DEF Allowed, Done, Proven
  <2>2. request' = [request EXCEPT ![r] = q]
    BY <1>4 DEF Status
  <2>. QED
    BY <1>2, <1>3, <2>1, <2>2, RequestInv
<1>5. CASE request' = [request EXCEPT ![r] =
             [at |-> "refresh", user |-> Len(account) + 1, name |-> @.name, password |-> @.password]]
  <2>1. PICK q : q = [at |-> "refresh", user |-> Len(account) + 1,
                      name |-> request[r].name, password |-> request[r].password]
    OBVIOUS
  <2>2. q \in Allowed'
    BY <1>1, <1>2, <2>1 DEF Allowed, Storing
  <2>3. Proven(account', q)
    BY <1>2, <2>1 DEF Proven
  <2>4. request' = [request EXCEPT ![r] = q]
    BY <1>5, <2>1
  <2>. QED
    BY <1>2, <1>3, <2>2, <2>3, <2>4, RequestInv
<1>. QED
  BY <1>4, <1>5 DEF Create

\* Steps of others: requests are as they were, over rows that stay.
LEMMA OthersInv ==
    ASSUME IInv, RowsStay, account' \in Seq(User), present' \subseteq Ids', OneUserPerName',
           seeder' \in NotRun..HowMany, tokens' \subseteq Token', TokensProven', UNCHANGED request
    PROVE  IInv'
<1>1. \A p \in Slots : request'[p] \in Allowed' /\ Proven(account', request'[p])
  BY TypesAt, StaysProven DEF IInv
<1>2. request' \in [Slots -> Allowed']
  BY <1>1 DEF IInv, TypeOK
<1>3. TypeOK'
  BY <1>2 DEF TypeOK, Allowed, User
<1>. QED
  BY <1>1, <1>3 DEF IInv

LEMMA DeleteInv ==
    ASSUME IInv, DeleteUser \/ ExpireToken PROVE IInv'
<1>1. /\ UNCHANGED <<account, seeder, request>>
      /\ present' \subseteq present /\ tokens' \subseteq tokens
  BY DEF DeleteUser, ExpireToken
<1>2. RowsStay /\ Token' = Token /\ account' \in Seq(User) /\ present' \subseteq Ids'
  BY <1>1 DEF IInv, TypeOK, RowsStay, Token, Ids, User
<1>3. OneUserPerName'
  BY <1>1 DEF IInv, OneUserPerName
<1>4. seeder' \in NotRun..HowMany
  BY <1>1 DEF IInv, TypeOK
<1>. QED
  BY <1>1, <1>2, <1>3, <1>4, TokensStay, OthersInv

LEMMA SeedInv ==
    ASSUME IInv, SeedBegin \/ SeedInsert PROVE IInv'
<1>. USE AccountsAssumption DEF NotRun
<1>1. CASE SeedBegin
  <2>1. UNCHANGED <<account, present, tokens, request>>
    BY <1>1 DEF SeedBegin
  <2>2. IsFiniteSet(present)
    <3>1. IsFiniteSet(Ids)
      BY TypesAt, FS_Interval DEF IInv, Ids
    <3>. QED
      BY <3>1, FS_Subset DEF IInv, TypeOK
  <2>3. seeder' \in NotRun..HowMany
    BY <1>1, <2>2, FS_CardinalityType DEF SeedBegin, UsersFound
  <2>4. RowsStay /\ Token' = Token /\ account' \in Seq(User) /\ present' \subseteq Ids'
    BY <2>1 DEF IInv, TypeOK, RowsStay, Token, Ids, User
  <2>5. OneUserPerName'
    BY <2>1 DEF IInv, OneUserPerName
  <2>. QED
    BY <2>1, <2>3, <2>4, <2>5, TokensStay, OthersInv
<1>2. CASE SeedInsert /\ InsertUser(SeedName[seeder], Placeholder)
  <2>1. seeder \in 0..(HowMany - 1) /\ UNCHANGED <<tokens, request>>
    BY <1>2 DEF SeedInsert
  <2>2. SeedName[seeder] \in Names
    BY <2>1
  <2>3. seeder' \in NotRun..HowMany
    BY <1>2, <2>1 DEF SeedInsert
  <2>. QED
    BY <1>2, <2>1, <2>2, <2>3, InsertRow, TokensStay, OthersInv
<1>3. CASE SeedInsert /\ UNCHANGED <<account, present>>
  <2>1. UNCHANGED <<tokens, request>> /\ seeder' \in NotRun..HowMany
    BY <1>3 DEF SeedInsert
  <2>2. RowsStay /\ Token' = Token /\ account' \in Seq(User) /\ present' \subseteq Ids'
    BY <1>3 DEF IInv, TypeOK, RowsStay, Token, Ids, User
  <2>3. OneUserPerName'
    BY <1>3 DEF IInv, OneUserPerName
  <2>. QED
    BY <2>1, <2>2, <2>3, TokensStay, OthersInv
<1>. QED
  BY <1>1, <1>2, <1>3 DEF SeedInsert

-----------------------------------------------------------------------------
(* Theorems                                                                *)

\* Every step of a request, the operator and the seed script keeps names unique
\* and what was proven true.
THEOREM Inductive == IInv /\ [Next]_vars => IInv'
<1>. SUFFICES ASSUME IInv, [Next]_vars PROVE IInv'
  OBVIOUS
<1>1. ASSUME NEW r \in Slots, SendCredentials(r) \/ SendToken(r) PROVE IInv'
  BY <1>1, SendInv
<1>2. ASSUME NEW r \in Slots, Unauthorized(r) \/ Fail(r) \/ Leave(r) \/ CreateRefused(r) PROVE IInv'
  <2>1. CASE Unauthorized(r)
    BY <2>1, StatusInv DEF Unauthorized, Refuse, StatusOf
  <2>2. CASE Fail(r) \/ Leave(r) \/ CreateRefused(r)
    BY <2>2, StatusInv DEF Fail, Leave, CreateRefused
  <2>. QED
    BY <1>2, <2>1, <2>2
<1>3. ASSUME NEW r \in Slots, Answer(r) PROVE IInv'
  BY <1>2, <1>3, LookUpInv, HashInv, VerifyInv, CreateInv, RefreshInv, KnownInv DEF Answer
<1>4. ASSUME DeleteUser \/ ExpireToken \/ SeedBegin \/ SeedInsert PROVE IInv'
  BY <1>4, DeleteInv, SeedInv
<1>5. CASE UNCHANGED vars
  <2>1. IInv /\ UNCHANGED <<account, present, tokens, request, seeder>>
    BY <1>5 DEF vars
  <2>2. tokens' \subseteq Token' /\ TokensProven'
    BY <2>1, SameRows DEF IInv, TypeOK, TokensProven
  <2>. QED
    BY <2>1, <2>2, SameRows, OthersInv
<1>. QED
  BY <1>1, <1>2, <1>3, <1>4, <1>5 DEF Next

LEMMA Invariant == Spec => []IInv
BY InitInv, Inductive, PTL DEF Spec

\* The variables keep their types, the seed script's index among them.
THEOREM TypeCorrect == Spec => []TypeOK
<1>1. IInv => TypeOK
  BY DEF IInv
<1>. QED
  BY <1>1, Invariant, PTL

\* No two users have one name, however many registrations and seed scripts have
\* looked for it before they insert.
THEOREM OneUserPerNameHolds == Spec => []OneUserPerName
<1>1. IInv => OneUserPerName
  BY DEF IInv
<1>. QED
  BY <1>1, Invariant, PTL

\* Whoever is taken for a user has proven that user's password.
THEOREM IdentityIsProvenHolds == Spec => []IdentityIsProven
<1>1. IInv => IdentityIsProven
  BY DEF IInv, IdentityIsProven, TokensProven, Proven
<1>. QED
  BY <1>1, Invariant, PTL

\* A 201 names the account that its request created.
THEOREM CreatedIsYoursHolds == Spec => []CreatedIsYours
<1>1. IInv => CreatedIsYours
  BY DEF IInv, CreatedIsYours, Proven
<1>. QED
  BY <1>1, Invariant, PTL
=============================================================================
