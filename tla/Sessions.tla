------------------------------ MODULE Sessions ------------------------------
(***************************************************************************)
(* internal/service/auth.go and internal/repository/postgres/token_repo.go: *)
(* login, refresh and logout over the table refresh_tokens.  Each statement *)
(* is a transaction of its own, so requests interleave between them.       *)
(*                                                                         *)
(* A token stands for its SHA-256, which is what the table holds, and is   *)
(* known by the id of its row.  A session is the chain of tokens that one  *)
(* login starts and every refresh prolongs.                                *)
(***************************************************************************)
EXTENDS Integers, Sequences, FiniteSets

CONSTANTS
  Users,
  Handlers,      \* requests served at once
  MaxTokens,     \* bound on the rows of refresh_tokens
  MaxFaults      \* bound on failed statements and lost answers

ASSUME SessionsAssumption == MaxTokens \in Nat /\ MaxFaults \in Nat /\ IsFiniteSet(Handlers)

VARIABLES
  tokens,        \* refresh_tokens, in the order of the ids
  known,         \* the tokens that reached a client
  work,          \* by handler: where it is and the token presented
  loggedOut,     \* tokens a logout has revoked
  ended,         \* sessions, by their first token, that were ended for a reason
  faults

vars == <<tokens, known, work, loggedOut, ended, faults>>

NoToken == 0
NoUser  == "nobody"
Idle    == [at |-> "idle", user |-> NoUser, token |-> NoToken]

Ids == 1..Len(tokens)
SessionOf(t) == tokens[t].session
Live(t) == ~tokens[t].revoked

Fault == faults < MaxFaults /\ faults' = faults + 1

Goto(h, l, u, t) == work' = [work EXCEPT ![h] = [at |-> l, user |-> u, token |-> t]]

\* The request is answered.  No later step depends on the answer but through known.
Answer(h) == work' = [work EXCEPT ![h] = Idle]

\* The bound on the table, for those that are about to add a row.
Adding == {h \in Handlers : work[h].at \in {"revoke", "store"}}
Room == Len(tokens) + Cardinality(Adding) < MaxTokens

----------------------------------------------------------------------------
(* RefreshTokenRepo.                                                       *)

\* Revoke that does not ask whether the token is revoked already.
RevokesAnyRow(t) == TRUE

\* The row Revoke updates, if any: WHERE token_hash = $1 AND revoked_at IS NULL.
RevokesRow(t) == Live(t)

Revoked(ids) ==
  [t \in Ids |-> IF t \in ids THEN [tokens[t] EXCEPT !.revoked = TRUE] ELSE tokens[t]]

\* RevokeAllForUser without its user.
AllLive(u) == {t \in Ids : Live(t)}

\* RevokeAllForUser.
LiveOf(u) == {t \in Ids : tokens[t].user = u /\ Live(t)}

\* Store: parent and session are what the row descends from, kept for the properties.
NewRow(u, t) ==
  [user |-> u, revoked |-> FALSE, expired |-> FALSE, parent |-> t,
   session |-> IF t = NoToken THEN Len(tokens) + 1 ELSE SessionOf(t)]

Insert(u, t) == tokens' = Append(tokens, NewRow(u, t))

----------------------------------------------------------------------------
(* Auth.                                                                   *)

\* GetByEmail and Verify have succeeded; then issuePair.
Login(h, u) ==
  /\ work[h].at = "idle"
  /\ Room
  /\ Goto(h, "store", u, NoToken)
  /\ UNCHANGED <<tokens, known, loggedOut, ended, faults>>

\* RefreshToken.Usable, past the test of RevokedAt.
Usable(t) == ~tokens[t].expired

\* Find, and what Refresh makes of the row it has read; ErrInvalidToken for a token
\* that is unknown or expired.
Refresh(h, t) ==
  /\ work[h].at = "idle"
  /\ IF t \notin Ids THEN Answer(h)
     ELSE IF ~Live(t) THEN Goto(h, "revoke all", tokens[t].user, t)
     ELSE IF ~Usable(t) THEN Answer(h)
     ELSE Room /\ Goto(h, "revoke", tokens[t].user, t)
  /\ UNCHANGED <<tokens, known, loggedOut, ended, faults>>

\* A token that was revoked before is taken for stolen: every session of the user ends.
RevokeAll(h) ==
  /\ work[h].at = "revoke all"
  /\ tokens' = Revoked(LiveOf(work[h].user))
  /\ ended' = ended \union {SessionOf(t) : t \in {x \in Ids : tokens[x].user = work[h].user}}
  /\ Answer(h)
  /\ UNCHANGED <<known, loggedOut, faults>>

\* GetByID, then Revoke of the old token; ErrNotFound when it was revoked meanwhile.
Revoke(h) ==
  /\ work[h].at = "revoke"
  /\ LET t == work[h].token
     IN  IF RevokesRow(t)
         THEN /\ tokens' = Revoked({t})
              /\ Goto(h, "store", work[h].user, t)
         ELSE Answer(h) /\ UNCHANGED tokens
  /\ UNCHANGED <<known, loggedOut, ended, faults>>

\* issuePair: Store, and the pair goes to the client.
Store(h) ==
  /\ work[h].at = "store"
  /\ Insert(work[h].user, work[h].token)
  /\ known' = known \union {Len(tokens) + 1}
  /\ Answer(h)
  /\ UNCHANGED <<loggedOut, ended, faults>>

EndedBy(h) == IF work[h].token = NoToken THEN {} ELSE {SessionOf(work[h].token)}

\* Store is carried out, and the client gets no answer.
StoreUnheard(h) ==
  /\ work[h].at = "store"
  /\ Fault
  /\ Insert(work[h].user, work[h].token)
  /\ ended' = ended \union EndedBy(h)
  /\ Answer(h)
  /\ UNCHANGED <<known, loggedOut>>

\* The same of Revoke, which was to be followed by Store.
RevokeUnheard(h) ==
  /\ work[h].at = "revoke"
  /\ RevokesRow(work[h].token)
  /\ Fault
  /\ tokens' = Revoked({work[h].token})
  /\ ended' = ended \union EndedBy(h)
  /\ Answer(h)
  /\ UNCHANGED <<known, loggedOut>>

\* A statement fails: the database, or the request's deadline.  What was revoked
\* before stays revoked.
StatementFails(h) ==
  /\ work[h].at # "idle"
  /\ Fault
  /\ ended' = IF work[h].at = "store" THEN ended \union EndedBy(h) ELSE ended
  /\ Answer(h)
  /\ UNCHANGED <<tokens, known, loggedOut>>

\* One statement; a token that is unknown or revoked counts as logged out.
Logout(h, t) ==
  /\ work[h].at = "idle"
  /\ IF t \in Ids /\ RevokesRow(t)
     THEN /\ tokens' = Revoked({t})
          /\ loggedOut' = loggedOut \union {t}
          /\ ended' = ended \union {SessionOf(t)}
     ELSE UNCHANGED <<tokens, loggedOut, ended>>
  /\ Answer(h)
  /\ UNCHANGED <<known, faults>>

\* expires_at passes.
Expire(t) ==
  /\ ~tokens[t].expired
  /\ tokens' = [tokens EXCEPT ![t].expired = TRUE]
  /\ UNCHANGED <<known, work, loggedOut, ended, faults>>

----------------------------------------------------------------------------

Init ==
  /\ tokens = <<>> /\ known = {} /\ loggedOut = {} /\ ended = {} /\ faults = 0
  /\ work = [h \in Handlers |-> Idle]

\* What a request does once Login, Refresh or Logout has begun.
Proceed(h) ==
  \/ RevokeAll(h) \/ Revoke(h) \/ Store(h)
  \/ RevokeUnheard(h) \/ StoreUnheard(h) \/ StatementFails(h)

\* The refresh tokens a client can present: those it was given, and one nobody knows.
Presented == known \union {NoToken}

Next ==
  \/ \E h \in Handlers :
       \/ \E u \in Users : Login(h, u)
       \/ \E t \in Presented : Refresh(h, t) \/ Logout(h, t)
       \/ Proceed(h)
  \/ \E t \in Ids : Expire(t)

Spec == Init /\ [][Next]_vars

----------------------------------------------------------------------------
(* Properties.                                                             *)

(* A token is exchanged at most once, however many requests present it at once
   (service/auth.go Refresh, token_repo.go Revoke).                          *)
RotationIsLinear ==
  \A s, t \in Ids : (tokens[s].parent = tokens[t].parent /\ tokens[s].parent # NoToken) => s = t

Storing(s) == {h \in Handlers : work[h].at = "store" /\ work[h].token # NoToken
                                /\ SessionOf(work[h].token) = s}

(* A session goes on until something ends it: as long as nobody logs out, no revoked
   token is presented and no statement fails, it has exactly one live token, or one
   that a refresh is about to store (service/auth.go Refresh, Logout).       *)
SessionGoesOn ==
  \A s \in {SessionOf(t) : t \in Ids} \ ended :
    Cardinality({t \in Ids : SessionOf(t) = s /\ Live(t)}) + Cardinality(Storing(s)) = 1

(* A token that a logout has revoked is never exchanged, by a refresh that had already
   read it as usable neither (service/auth.go Logout, Refresh).              *)
LogoutIsFinal ==
  \A t \in loggedOut :
    /\ \A s \in Ids : tokens[s].parent # t
    /\ \A h \in Handlers : work[h].at = "store" => work[h].token # t
============================================================================
