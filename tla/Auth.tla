-------------------------------- MODULE Auth --------------------------------
(***************************************************************************)
(* The four endpoints of /auth: registration (service/auth.go Register and *)
(* user_repo.go CreateWithWallet, statement by statement) beside the       *)
(* sessions of Sessions, served by the same handlers.                      *)
(*                                                                         *)
(* An address is [name, spelling]; the names, which are Users, stand for   *)
(* what is left of an address once it is in lower case and trimmed.        *)
(***************************************************************************)
EXTENDS Sessions

CONSTANT Spellings   \* how a client may write an address: "plain", "upper", "padded", "bad"

ASSUME AuthAssumption == Spellings \subseteq {"plain", "upper", "padded", "bad"}

VARIABLES
  users,         \* committed rows of users
  wallets,       \* committed USER_WALLET rows of accounts
  joining,       \* by handler: the registration it serves
  told           \* what clients of /auth/register were answered

authVars == <<users, wallets, joining, told>>
allVars  == <<vars, authVars>>

Addresses == [name : Users, spelling : Spellings]

NoJoin == [at |-> "idle", email |-> [name |-> NoUser, spelling |-> "plain"], id |-> 0]

\* A handler serves one request at a time.
Free(h) == work[h].at = "idle" /\ joining[h].at = "idle"

----------------------------------------------------------------------------
(* Addresses.                                                              *)

\* strings.TrimSpace(strings.ToLower(email)).
Normalize(a) == IF a.spelling = "bad" THEN a ELSE [a EXCEPT !.spelling = "plain"]

\* LOWER(email) in SQL: white space stays.
Lower(a) == IF a.spelling = "upper" THEN [a EXCEPT !.spelling = "plain"] ELSE a

\* mail.ParseAddress and ContainsAny " <>", of an address that is normalized already.
Malformed(a) == a.spelling \in {"bad", "padded"}

----------------------------------------------------------------------------
(* CreateWithWallet: one transaction.                                      *)

Tell(h, code) ==
  /\ told' = told \union {[email |-> Lower(Normalize(joining[h].email)), code |-> code,
                           id |-> IF code = "CREATED" THEN joining[h].id ELSE 0]}
  /\ joining' = [joining EXCEPT ![h] = NoJoin]

\* The rows of users that other transactions have inserted and not yet committed.
Inserted(h) == {g \in Handlers \ {h} : joining[g].at \in {"insert wallet", "commit"}}

\* An index on users that looks at committed rows only.
NobodyWaits(h) == FALSE

\* INSERT INTO users waits while another transaction holds the same key of
\* idx_users_email, which is on LOWER(email).
Waits(h) == \E g \in Inserted(h) : Lower(joining[g].email) = Lower(joining[h].email)

EmailTaken(h) == \E u \in users : Lower(u.email) = Lower(joining[h].email)

\* users.id: any that is not in use.
FreshIds(h) ==
  (1 .. Cardinality(users) + Cardinality(Handlers))
    \ ({u.id : u \in users} \union {joining[g].id : g \in Handlers \ {h}})

\* INSERT INTO users; ErrEmailTaken rolls the transaction back.
InsertUser(h) ==
  /\ joining[h].at = "insert user"
  /\ ~Waits(h)
  /\ IF EmailTaken(h)
     THEN Tell(h, "EMAIL_TAKEN")
     ELSE /\ joining' = [joining EXCEPT ![h].at = "insert wallet",
                                        ![h].id = CHOOSE i \in FreshIds(h) :
                                                    \A j \in FreshIds(h) : i <= j]
          /\ UNCHANGED told
  /\ UNCHANGED <<vars, users, wallets>>

\* INSERT INTO accounts: no other wallet can have the new user's id.
InsertWallet(h) ==
  /\ joining[h].at = "insert wallet"
  /\ joining' = [joining EXCEPT ![h].at = "commit"]
  /\ UNCHANGED <<vars, users, wallets, told>>

Committed(h) ==
  /\ users' = users \union {[id |-> joining[h].id, email |-> joining[h].email]}
  /\ wallets' = wallets \union {[user |-> joining[h].id]}

\* COMMIT; register answers with the user and the wallet.
CommitUser(h) ==
  /\ joining[h].at = "commit"
  /\ Committed(h)
  /\ Tell(h, "CREATED")
  /\ UNCHANGED vars

\* COMMIT is carried out and its answer is lost: the client is told of an internal
\* error, and a second attempt of its own finds the address taken.
CommitUserUnheard(h) ==
  /\ joining[h].at = "commit"
  /\ Fault
  /\ Committed(h)
  /\ Tell(h, "INTERNAL")
  /\ UNCHANGED <<tokens, known, work, loggedOut, ended>>

\* A statement fails, or the request's deadline passes: the deferred Rollback.
RegisterFails(h) ==
  /\ joining[h].at # "idle"
  /\ Fault
  /\ Tell(h, "INTERNAL")
  /\ UNCHANGED <<tokens, known, work, loggedOut, ended, users, wallets>>

----------------------------------------------------------------------------
(* The handlers.                                                           *)

\* Register up to the hash of the password; a request that is not valid is refused
\* before anything is stored.
Register(h, a) ==
  /\ Free(h)
  /\ ~Malformed(Normalize(a))
  /\ joining' = [joining EXCEPT ![h] = [at |-> "insert user", email |-> Normalize(a), id |-> 0]]
  /\ UNCHANGED <<vars, users, wallets, told>>

\* GetByEmail: of committed users, whatever the case.
Found(a) == {u \in users : Lower(u.email) = Lower(Normalize(a))}

\* login with the right password: an address that is not registered is refused, with
\* the same ErrInvalidCredentials as a wrong password.
LoginAs(h, a) ==
  /\ Free(h)
  /\ \E u \in Found(a) : Login(h, u.email.name)
  /\ UNCHANGED authVars

----------------------------------------------------------------------------

AuthInit == Init /\ users = {} /\ wallets = {} /\ told = {} /\ joining = [h \in Handlers |-> NoJoin]

AuthNext ==
  \/ \E h \in Handlers :
       \/ \E a \in Addresses : Register(h, a) \/ LoginAs(h, a)
       \/ InsertUser(h) \/ InsertWallet(h) \/ CommitUser(h)
       \/ CommitUserUnheard(h) \/ RegisterFails(h)
       \/ /\ \/ Free(h) /\ \E t \in Presented : Refresh(h, t) \/ Logout(h, t)
             \/ Proceed(h)
          /\ UNCHANGED authVars
  \/ (\E t \in Ids : Expire(t)) /\ UNCHANGED authVars

AuthSpec == AuthInit /\ [][AuthNext]_allVars

----------------------------------------------------------------------------
(* Properties.                                                             *)

(* However registrations of one address race, fail or lose their answer: each user
   has a wallet and each wallet a user, an address has at most one user, who was
   created has been stored under the id in the answer, and who was told that the
   address is taken can find it in the table (user_repo.go CreateWithWallet,
   errors.go translate, the index idx_users_email).                          *)
RegistrationIsAtomic ==
  /\ {w.user : w \in wallets} = {u.id : u \in users}
  /\ \A u, v \in users : (u.id = v.id \/ Lower(u.email) = Lower(v.email)) => u = v
  /\ \A r \in told :
       /\ r.code = "CREATED" => [id |-> r.id, email |-> r.email] \in users
       /\ r.code = "EMAIL_TAKEN" => \E u \in users : Lower(u.email) = r.email
=============================================================================
