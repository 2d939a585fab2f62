------------------------------- MODULE Accounts -------------------------------
(***************************************************************************)
(* Accounts and tokens: registration and login of                          *)
(* src/app/services/auth_service.py, the two ways a token is read in       *)
(* src/app/core/dependencies.py, and ensure_users of                       *)
(* src/scripts/seed_predictions.py, over the users table and the           *)
(* connection pool they share.                                             *)
(*                                                                         *)
(* A request takes a connection at its first statement and keeps it, idle  *)
(* while a thread hashes, until it commits or ends; after a commit it      *)
(* takes one anew.  Between any two of its steps other requests, the       *)
(* script and an operator who deletes users may change the table.          *)
(***************************************************************************)
EXTENDS Integers, FiniteSets, Sequences

CONSTANTS
    Slots,        \* requests at a time; a slot is used again after its answer
    Names,
    Passwords,
    SeedName,     \* the names of ensure_users, from index 0 on
    HowMany,      \* its argument
    PoolSize,     \* DB_POOL_SIZE + DB_MAX_OVERFLOW
    MaxAccounts,  \* bound: accounts ever created
    Placeholder   \* the hash of the script's users, that of no password

ASSUME AccountsAssumption ==
    /\ HowMany \in Nat /\ MaxAccounts \in Nat
    /\ PoolSize \in Nat \ {0}
    /\ SeedName \in [0..(HowMany - 1) -> Names]
    /\ Placeholder \notin Passwords

VARIABLES
    account,   \* every row of users ever inserted, under its id
    present,   \* the ids that are in the table now
    tokens,    \* tokens that have not expired, with the password proven for them
    request,   \* of each slot: its request
    seeder     \* ensure_users: its next index, NotRun before, HowMany after

vars == <<account, present, tokens, request, seeder>>

Ids == 1..Len(account)
Named(n) == {i \in present : account[i].name = n}
Busy(r) == request[r].at \in {"lookup", "hash", "verify", "insert", "refresh", "me"}

\* Mutation of HoldsConnection: the refresh runs on a second connection.
HoldsThroughRefresh(r) == request[r].at \in {"hash", "verify", "insert", "refresh"}
\* The connection is checked out between the first statement and a commit.
HoldsConnection(r) == request[r].at \in {"hash", "verify", "insert"}
Free == Cardinality({r \in Slots : HoldsConnection(r)}) < PoolSize

\* The bound: every registration under way will find room.
Room ==
    Len(account) + Cardinality({r \in Slots : request[r].at \in {"lookup", "hash", "insert"}})
        < MaxAccounts

NotRun == -1
Idle == [at |-> "idle"]
Status(r, s) == request' = [request EXCEPT ![r] = [at |-> s]]

\* The errors these requests are refused with, as app_error_handler shows them.
StatusOf == [InvalidCredentialsError |-> "401", InvalidTokenError |-> "401",
             InvalidApiKeyError |-> "401", UserAlreadyExistsError |-> "409"]
Refuse(r, error) == Status(r, StatusOf[error])

Init ==
    /\ account = <<>> /\ present = {} /\ tokens = {}
    /\ request = [r \in Slots |-> Idle]
    /\ seeder = NotRun

-----------------------------------------------------------------------------
(* Requests                                                                *)

\* POST /register and POST /login.
SendCredentials(r) ==
    /\ request[r].at = "idle"
    /\ \E kind \in {"register", "login"}, n \in Names, p \in Passwords :
           /\ kind = "register" => Room
           /\ request' = [request EXCEPT ![r] =
                  [at |-> "lookup", kind |-> kind, name |-> n, password |-> p]]
    /\ UNCHANGED <<account, present, tokens, seeder>>

\* No API key where registration is closed, or a token that is none or expired.
Unauthorized(r) ==
    /\ request[r].at = "idle"
    /\ \E error \in {"InvalidApiKeyError", "InvalidTokenError"} : Refuse(r, error)
    /\ UNCHANGED <<account, present, tokens, seeder>>

\* A token that decodes: get_current_user looks its user up, and
\* get_current_principal takes the claims as they are.
SendToken(r) ==
    /\ request[r].at = "idle"
    /\ \E t \in tokens : request' = [request EXCEPT ![r] =
           [at |-> "me", token |-> t]]
    /\ UNCHANGED <<account, present, tokens, seeder>>

\* get_by_username, which finds at most one.
LookUp(r) ==
    /\ request[r].at = "lookup"
    /\ Free
    /\ LET found == Named(request[r].name)
       IN \/ /\ request[r].kind = "register"
             /\ IF found = {} THEN request' = [request EXCEPT ![r].at = "hash"]
                              ELSE Refuse(r, "UserAlreadyExistsError")
          \/ /\ request[r].kind = "login"
             /\ request' = [request EXCEPT ![r] =
                    [at |-> "verify", name |-> @.name, password |-> @.password, user |-> found]]
    /\ UNCHANGED <<account, present, tokens, seeder>>

\* The password is hashed in a thread.
Hash(r) ==
    /\ request[r].at = "hash"
    /\ request' = [request EXCEPT ![r].at = "insert"]
    /\ UNCHANGED <<account, present, tokens, seeder>>

\* Mutation of Violates: the column username is not unique.
NotUnique(n) == FALSE
\* The unique index of users.username refuses the row.
Violates(n) == Named(n) # {}

InsertUser(n, secret) ==
    /\ ~Violates(n)
    /\ account' = Append(account, [name |-> n, secret |-> secret])
    /\ present' = present \cup {Len(account) + 1}

\* create: INSERT and COMMIT; the connection goes back to the pool.  If the
\* connection breaks around the COMMIT the row may be there all the same.
Create(r) ==
    /\ request[r].at = "insert"
    /\ InsertUser(request[r].name, request[r].password)
    /\ \/ request' = [request EXCEPT ![r] = [at |-> "refresh", user |-> Len(account) + 1,
                                             name |-> @.name, password |-> @.password]]
       \/ Status(r, "500")
    /\ UNCHANGED <<tokens, seeder>>

\* An IntegrityError is no AppError: the handler of Exception answers.
CreateRefused(r) ==
    /\ request[r].at = "insert"
    /\ Violates(request[r].name)
    /\ Status(r, "integrity_error")
    /\ UNCHANGED <<account, present, tokens, seeder>>

Created(r, i) ==
    /\ request' = [request EXCEPT ![r] =
           [at |-> "201", name |-> @.name, password |-> @.password, user |-> i]]
    /\ UNCHANGED <<account, present, tokens, seeder>>

\* Mutation of Refresh: the user is looked up by name again.
RefreshByName(r) ==
    /\ request[r].at = "refresh"
    /\ Free
    /\ \/ \E i \in Named(request[r].name) : Created(r, i)
       \/ /\ Named(request[r].name) = {} /\ Status(r, "500")
          /\ UNCHANGED <<account, present, tokens, seeder>>
\* refresh: the new row is read back; that it is gone is an error.
Refresh(r) ==
    /\ request[r].at = "refresh"
    /\ Free
    /\ \/ request[r].user \in present /\ Created(r, request[r].user)
       \/ /\ request[r].user \notin present /\ Status(r, "500")
          /\ UNCHANGED <<account, present, tokens, seeder>>

\* verify_password in a thread, or a dummy hash if there is no such user.
Verify(r) ==
    /\ request[r].at = "verify"
    /\ \/ \E i \in request[r].user :
              /\ account[i].secret = request[r].password
              /\ tokens' = tokens \cup {[uid |-> i, proof |-> request[r].password]}
              /\ Status(r, "200")
       \/ /\ \A i \in request[r].user : account[i].secret # request[r].password
          /\ Refuse(r, "InvalidCredentialsError")
          /\ UNCHANGED tokens
    /\ UNCHANGED <<account, present, seeder>>

\* Mutation of UserOf: the user is looked up by the name in the token.
UserByName(t) == Named(account[t.uid].name)
\* get_by_id of the token's uid.
UserOf(t) == {t.uid} \cap present

\* GET /me: the stored record, or 401.
Me(r) ==
    /\ request[r].at = "me"
    /\ Free
    /\ \/ \E i \in UserOf(request[r].token) :
              request' = [request EXCEPT ![r] = [at |-> "known", user |-> i, token |-> @.token]]
       \/ UserOf(request[r].token) = {} /\ Refuse(r, "InvalidTokenError")
    /\ UNCHANGED <<account, present, tokens, seeder>>

\* Endpoints that take a Principal ask no database.
Principal(r) ==
    /\ request[r].at = "me"
    /\ request' = [request EXCEPT ![r] = [at |-> "known", user |-> @.token.uid, token |-> @.token]]
    /\ UNCHANGED <<account, present, tokens, seeder>>

\* A statement fails, or no connection comes free in time.
Fail(r) ==
    /\ request[r].at \in {"lookup", "insert", "refresh", "me"}
    /\ Status(r, "500")
    /\ UNCHANGED <<account, present, tokens, seeder>>

Leave(r) ==
    /\ request[r].at # "idle" /\ ~Busy(r)
    /\ Status(r, "idle")
    /\ UNCHANGED <<account, present, tokens, seeder>>

-----------------------------------------------------------------------------
(* Others                                                                  *)

\* The row goes; ids come from a sequence and are not used again.
DeleteUser ==
    /\ \E i \in present : present' = present \ {i}
    /\ UNCHANGED <<account, tokens, request, seeder>>

ExpireToken ==
    /\ \E t \in tokens : tokens' = tokens \ {t}
    /\ UNCHANGED <<account, present, request, seeder>>

\* Mutation of UsersFound: the SELECT has no LIMIT.
AllUsers == Cardinality(present)
\* The users ensure_users finds, up to how_many.
UsersFound == IF Cardinality(present) < HowMany THEN Cardinality(present) ELSE HowMany

SeedBegin ==
    /\ seeder = NotRun
    /\ seeder' = UsersFound
    /\ UNCHANGED <<account, present, tokens, request>>

\* One INSERT, committed on its own; a name that is taken ends the script.
SeedInsert ==
    /\ seeder \in 0..(HowMany - 1)
    /\ \/ /\ Room
          /\ InsertUser(SeedName[seeder], Placeholder)
          /\ seeder' = seeder + 1
       \/ /\ Violates(SeedName[seeder])
          /\ seeder' = HowMany
          /\ UNCHANGED <<account, present>>
    /\ UNCHANGED <<tokens, request>>

-----------------------------------------------------------------------------

Answer(r) ==
    \/ LookUp(r) \/ Hash(r) \/ Verify(r) \/ Create(r) \/ CreateRefused(r) \/ Refresh(r)
    \/ Me(r) \/ Principal(r)

Next ==
    \/ \E r \in Slots :
           \/ SendCredentials(r) \/ SendToken(r) \/ Unauthorized(r)
           \/ Answer(r) \/ Fail(r) \/ Leave(r)
    \/ DeleteUser \/ ExpireToken
    \/ SeedBegin \/ SeedInsert

\* The pool hands connections out in the order they are asked for, threads
\* end, and a statement is executed.  Failing in time is not relied upon.
Spec == Init /\ [][Next]_vars /\ \A r \in Slots : SF_vars(Answer(r))

-----------------------------------------------------------------------------
(* Properties                                                              *)

Token == [uid : Ids, proof : Passwords]

Done == [at : {"idle", "200", "401", "409", "500", "integrity_error"}]
Asking == [at : {"lookup", "hash", "insert"}, kind : {"register", "login"},
           name : Names, password : Passwords]
Verifying == [at : {"verify"}, name : Names, password : Passwords, user : SUBSET Ids]
Storing == [at : {"refresh", "201"}, name : Names, password : Passwords, user : Ids]
Presenting == [at : {"me"}, token : Token]
Known == [at : {"known"}, token : Token, user : Ids]

\* The variables keep their types.
TypeOK ==
    /\ account \in Seq([name : Names, secret : Passwords \cup {Placeholder}])
    /\ present \subseteq Ids
    /\ tokens \subseteq Token
    /\ request \in [Slots -> Done \cup Asking \cup Verifying \cup Storing \cup Presenting \cup Known]
    /\ seeder \in NotRun..HowMany

\* A name is one user's, although a registration looks for it, hashes, and only
\* then inserts, and the seed script inserts under names anybody may register.
OneUserPerName == \A i, j \in present : account[i].name = account[j].name => i = j

\* Whoever is taken for a user has proven that user's password, if the user was
\* deleted meanwhile and the name given to somebody else too; and nobody is
\* taken for a user of the seed script (seed_predictions.py:98-99).
IdentityIsProven ==
    /\ \A t \in tokens : account[t.uid].secret = t.proof
    /\ \A r \in Slots : request[r].at = "known" =>
           account[request[r].user].secret = request[r].token.proof

\* The account a 201 names is the one this request created: its name and its
\* password, whoever deleted and registered users before the answer.
CreatedIsYours ==
    \A r \in Slots : request[r].at = "201" =>
        account[request[r].user] = [name |-> request[r].name, secret |-> request[r].password]

\* Every request is answered even if no wait is ever cut short: no request
\* holds a connection while it waits for another.
EveryoneAnswered == \A r \in Slots : Busy(r) ~> ~Busy(r)
=============================================================================
