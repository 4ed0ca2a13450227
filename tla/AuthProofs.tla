----------------------------- MODULE AuthProofs -----------------------------
(***************************************************************************)
(* Auth for any number of people, handlers, tokens and failures.  What the *)
(* refresh tokens need is in SessionsInv, what registration needs in       *)
(* JoiningInv; neither speaks of the other's variables.                    *)
(***************************************************************************)
EXTENDS Auth, CollectionProofs, SequenceTheorems, FunctionTheorems

Rows == [user : Users, revoked : BOOLEAN, expired : BOOLEAN, parent : Nat, session : Nat]

Works == [at : {"idle", "store", "revoke", "revoke all"},
          user : Users \union {NoUser}, token : Nat]

\* A handler that is about to store the successor of a token.
Replaces(h, t) == work[h].at = "store" /\ work[h].token = t /\ t # NoToken

TypesOK ==
  /\ tokens \in Seq(Rows)
  /\ work \in [Handlers -> Works]
  /\ \A h \in Handlers : work[h].at # "idle" => work[h].user \in Users

\* A row descends from an earlier one that is revoked, or starts a session.
TokensOK ==
  \A t \in Ids :
    /\ tokens[t].session \in 1..t
    /\ tokens[t].parent \in 0..(t - 1)
    /\ tokens[t].parent # NoToken => ~Live(tokens[t].parent)

\* A handler works on a row of the table.  One that is about to store a successor is
\* the only one that does, for a token that is revoked and has none.
WorkOK(h) ==
  /\ work[h].at \in {"revoke", "revoke all"} => work[h].token \in Ids
  /\ work[h].at = "store" => work[h].token \in Ids \union {NoToken}
  /\ \A t \in Ids : Replaces(h, t) =>
       /\ ~Live(t)
       /\ \A s \in Ids : tokens[s].parent # t
       /\ \A g \in Handlers : Replaces(g, t) => g = h

LoggedOutOK == \A t \in loggedOut : t \in Ids /\ ~Live(t)

LiveIn(s) == {t \in Ids : SessionOf(t) = s /\ Live(t)}

\* Exactly one live token, or exactly one that is about to be stored.
OneCarrier(s) ==
  \/ Storing(s) = {} /\ \E t \in Ids : LiveIn(s) = {t}
  \/ LiveIn(s) = {} /\ \E h \in Handlers : Storing(s) = {h}

CarriersOK == \A s \in {SessionOf(t) : t \in Ids} \ ended : OneCarrier(s)

SessionsInv ==
  /\ TypesOK /\ TokensOK /\ LoggedOutOK
  /\ \A h \in Handlers : WorkOK(h)
  /\ RotationIsLinear /\ LogoutIsFinal
  /\ CarriersOK

\* An address that is normalized: no case, no white space.
Plain == [name : Users, spelling : {"plain"}]

Joins == [at : {"idle", "insert user", "insert wallet", "commit"},
          email : [name : Users \union {NoUser}, spelling : {"plain"}], id : Nat]

\* Has inserted a row of users that is not committed.
InTransaction(h) == joining[h].at \in {"insert wallet", "commit"}

JoiningTypes ==
  /\ joining \in [Handlers -> Joins]
  /\ \A h \in Handlers : joining[h].at # "idle" => joining[h].email \in Plain
  /\ users \in SUBSET [id : Nat, email : Plain] /\ IsFiniteSet(users)

\* The id and the address of an inserted row are nobody else's, committed or not.
JoinOK(h) ==
  InTransaction(h) =>
    /\ \A u \in users : u.id # joining[h].id /\ u.email # joining[h].email
    /\ \A g \in Handlers \ {h} : InTransaction(g) =>
         joining[g].id # joining[h].id /\ joining[g].email # joining[h].email

JoiningInv ==
  /\ JoiningTypes /\ RegistrationIsAtomic
  /\ \A h \in Handlers : JoinOK(h)

----------------------------------------------------------------------------
(* Rows that change in place, and rows that are added.                     *)

(* The ids of the table start at one.                                      *)
LEMMA NoTokenIsNoId ==
  ASSUME TypesOK
  PROVE  NoToken \notin Ids /\ Ids \subseteq Nat /\ Len(tokens) \in Nat
<1>1. Len(tokens) \in Nat
  BY DEF TypesOK
<1> QED
  BY <1>1 DEF Ids, NoToken

\* Rows keep what they descend from, and what is revoked stays revoked.
SameRows ==
  /\ tokens' \in Seq(Rows) /\ Len(tokens') = Len(tokens)
  /\ \A t \in Ids :
       /\ tokens'[t].user = tokens[t].user /\ tokens'[t].parent = tokens[t].parent
       /\ tokens'[t].session = tokens[t].session
       /\ tokens[t].revoked => tokens'[t].revoked

(* Revoke and RevokeAllForUser change nothing of a row but that it is revoked.  *)
LEMMA RevokedRows ==
  ASSUME TypesOK, NEW S, tokens' = Revoked(S)
  PROVE  /\ SameRows
         /\ \A t \in Ids : tokens'[t].revoked = (tokens[t].revoked \/ t \in S)
<1>1. tokens \in Seq(Rows) /\ Len(tokens) \in Nat
  BY DEF TypesOK
<1>2. \A t \in Ids : tokens[t] \in Rows
  BY <1>1, ElementOfSeq DEF Ids
<1>3. \A t \in Ids : tokens'[t] = IF t \in S THEN [tokens[t] EXCEPT !.revoked = TRUE]
                                  ELSE tokens[t]
  BY DEF Revoked
<1>4. \A t \in Ids : tokens'[t] \in Rows
  BY <1>2, <1>3 DEF Rows
<1>5. DOMAIN tokens' = 1..Len(tokens) /\ tokens' = [t \in 1..Len(tokens) |-> tokens'[t]]
  BY DEF Revoked, Ids
<1>6. tokens' \in Seq(Rows) /\ Len(tokens') = Len(tokens)
  BY <1>1, <1>4, <1>5, IsASeq, LenProperties DEF Ids
<1> QED
  BY <1>2, <1>3, <1>6 DEF SameRows, Rows

(* The passing of expires_at changes nothing else of a row.                *)
LEMMA ExpiredRows ==
  ASSUME TypesOK, NEW x \in Ids, Expire(x)
  PROVE  SameRows /\ \A t \in Ids : tokens'[t].revoked = tokens[t].revoked
<1>1. tokens \in Seq(Rows) /\ Len(tokens) \in Nat
  BY DEF TypesOK
<1>2. \A t \in Ids : tokens[t] \in Rows
  BY <1>1, ElementOfSeq DEF Ids
<1>3. tokens' = [tokens EXCEPT ![x] = [tokens[x] EXCEPT !.expired = TRUE]]
  BY DEF Expire
<1>4. [tokens[x] EXCEPT !.expired = TRUE] \in Rows
  BY <1>2 DEF Rows
<1>5. tokens' \in Seq(Rows) /\ Len(tokens') = Len(tokens)
  BY <1>1, <1>3, <1>4, ExceptSeq DEF Ids
<1>6. \A t \in Ids : tokens'[t] = IF t = x THEN [tokens[x] EXCEPT !.expired = TRUE] ELSE tokens[t]
  BY <1>1, <1>3 DEF Ids
<1>7. \A t \in Ids :
        /\ tokens'[t].user = tokens[t].user /\ tokens'[t].parent = tokens[t].parent
        /\ tokens'[t].session = tokens[t].session /\ tokens'[t].revoked = tokens[t].revoked
  <2> TAKE t \in Ids
  <2>1. CASE t = x
    <3>1. tokens'[t] = [tokens[x] EXCEPT !.expired = TRUE] /\ tokens[x] \in Rows
      BY <2>1, <1>2, <1>6
    <3> QED
      BY <2>1, <3>1 DEF Rows
  <2>2. CASE t # x
    BY <2>2, <1>6
  <2> QED
    BY <2>1, <2>2
<1> QED
  BY <1>5, <1>7 DEF SameRows

(* So what a row descends from stays earlier and revoked.                  *)
LEMMA SameRowsKeepTokens ==
  ASSUME TypesOK, TokensOK, SameRows
  PROVE  TokensOK'
<1>1. Len(tokens) \in Nat /\ Ids' = Ids
  BY NoTokenIsNoId DEF SameRows, Ids
<1> SUFFICES ASSUME NEW t \in Ids
             PROVE  /\ tokens'[t].session \in 1..t /\ tokens'[t].parent \in 0..(t - 1)
                    /\ tokens'[t].parent # NoToken => ~Live(tokens[t].parent)'
  BY <1>1 DEF TokensOK
<1>2. /\ tokens[t].session \in 1..t /\ tokens[t].parent \in 0..(t - 1)
      /\ tokens[t].parent # NoToken => ~Live(tokens[t].parent)
  BY DEF TokensOK
<1>3. tokens[t].parent # NoToken => tokens[t].parent \in Ids
  BY <1>1, <1>2 DEF Ids, NoToken
<1>4. tokens'[t].parent # NoToken => ~Live(tokens[t].parent)'
  BY <1>2, <1>3 DEF Live, SameRows
<1> QED
  BY <1>2, <1>4 DEF SameRows

(* Store adds one live row, which descends from the token it replaces.     *)
LEMMA InsertedRow ==
  ASSUME TypesOK, TokensOK, NEW u \in Users, NEW x \in Ids \union {NoToken}, Insert(u, x)
  PROVE  /\ tokens' \in Seq(Rows) /\ Len(tokens') = Len(tokens) + 1
         /\ Len(tokens) \in Nat
         /\ \A t \in Ids : tokens'[t] = tokens[t]
         /\ LET n == Len(tokens) + 1
            IN  /\ tokens'[n].parent = x /\ ~tokens'[n].revoked
                /\ tokens'[n].session = IF x = NoToken THEN n ELSE tokens[x].session
<1>1. tokens \in Seq(Rows) /\ Len(tokens) \in Nat
  BY DEF TypesOK
<1>2. NewRow(u, x) \in Rows
  BY <1>1 DEF NewRow, Rows, SessionOf, TokensOK, Ids, NoToken
<1>3. tokens' = Append(tokens, NewRow(u, x))
  BY DEF Insert
<1> QED
  BY <1>1, <1>2, <1>3, AppendProperties DEF NewRow, Rows, SessionOf, Ids

----------------------------------------------------------------------------
(* The steps of a request, by what they do to the table.                   *)

(* A step that changes no row: the start of a request, a refusal, a statement that
   fails.  One that gives up a successor ends the session.                   *)
LEMMA QuietStep ==
  ASSUME SessionsInv, NEW h \in Handlers, NEW w \in Works,
         tokens' = tokens, loggedOut' = loggedOut, ended \subseteq ended',
         work' = [work EXCEPT ![h] = w],
         w.at # "idle" => w.user \in Users,
         w.at \in {"revoke", "revoke all"} => w.token \in Ids,
         w.at = "store" => w.token = NoToken,
         (work[h].at = "store" /\ work[h].token # NoToken)
            => SessionOf(work[h].token) \in ended'
  PROVE  SessionsInv'
<1>1. /\ TypesOK /\ TokensOK /\ LoggedOutOK /\ RotationIsLinear /\ LogoutIsFinal
      /\ CarriersOK /\ \A g \in Handlers : WorkOK(g)
  BY DEF SessionsInv
<1>2. \A g \in Handlers : work'[g] = IF g = h THEN w ELSE work[g]
  BY <1>1 DEF TypesOK
<1>3. Ids' = Ids /\ \A t \in Ids : Live(t)' = Live(t) /\ SessionOf(t)' = SessionOf(t)
  BY DEF Ids, Live, SessionOf
<1>4. \A g \in Handlers, t \in Ids : Replaces(g, t)' => g # h /\ Replaces(g, t)
  BY <1>2 DEF Replaces
<1>5. TypesOK'
  BY <1>1, <1>2 DEF TypesOK
<1>6. TokensOK' /\ LoggedOutOK' /\ RotationIsLinear'
  BY <1>1, <1>3 DEF TokensOK, LoggedOutOK, RotationIsLinear, Live, Ids
<1>7. ASSUME NEW g \in Handlers PROVE WorkOK(g)'
  <2>1. WorkOK(g)
    BY <1>1
  <2>2. \A t \in Ids : Replaces(g, t)' =>
          /\ ~Live(t)' /\ \A s \in Ids : tokens'[s].parent # t
          /\ \A k \in Handlers : Replaces(k, t)' => k = g
    BY <2>1, <1>3, <1>4 DEF WorkOK
  <2>3. /\ work'[g].at \in {"revoke", "revoke all"} => work'[g].token \in Ids
        /\ work'[g].at = "store" => work'[g].token \in Ids \union {NoToken}
    BY <2>1, <1>2 DEF WorkOK
  <2> QED
    BY <2>2, <2>3, <1>3 DEF WorkOK
<1>8. LogoutIsFinal'
  <2>1. \A t \in loggedOut : t \in Ids /\ t # NoToken
    BY <1>1, NoTokenIsNoId DEF LoggedOutOK
  <2> SUFFICES ASSUME NEW t \in loggedOut
               PROVE  /\ \A s \in Ids : tokens[s].parent # t
                      /\ \A g \in Handlers : work'[g].at = "store" => work'[g].token # t
    BY <1>3 DEF LogoutIsFinal
  <2>2. /\ \A s \in Ids : tokens[s].parent # t
        /\ \A g \in Handlers : work[g].at = "store" => work[g].token # t
    BY <1>1 DEF LogoutIsFinal
  <2> QED
    BY <2>1, <2>2, <1>2
<1>9. CarriersOK'
  <2> SUFFICES ASSUME NEW s \in {SessionOf(t) : t \in Ids} \ ended, s \notin ended'
               PROVE  OneCarrier(s)'
    BY <1>3 DEF CarriersOK
  <2>1. OneCarrier(s)
    BY <1>1 DEF CarriersOK
  <2>2. LiveIn(s)' = LiveIn(s)
    BY <1>3 DEF LiveIn
  <2>3. Storing(s)' = Storing(s)
    BY <1>2 DEF Storing, SessionOf
  <2> QED
    BY <2>1, <2>2, <2>3, <1>3 DEF OneCarrier
<1> QED
  BY <1>5, <1>6, <1>7, <1>8, <1>9 DEF SessionsInv

(* A step that revokes rows of sessions that are ended by it, and stores nothing:
   RevokeAllForUser, a logout, a Revoke without an answer.                   *)
LEMMA RevokingStep ==
  ASSUME SessionsInv, NEW h \in Handlers, NEW S, S \subseteq Ids,
         tokens' = Revoked(S), work' = [work EXCEPT ![h] = Idle],
         work[h].at # "store",
         ended \subseteq ended', \A t \in S : Live(t) => SessionOf(t) \in ended',
         \A t \in loggedOut' : t \in loggedOut \/ (t \in S /\ Live(t))
  PROVE  SessionsInv'
<1>1. /\ TypesOK /\ TokensOK /\ LoggedOutOK /\ RotationIsLinear /\ LogoutIsFinal
      /\ CarriersOK /\ \A g \in Handlers : WorkOK(g)
  BY DEF SessionsInv
<1>2. \A g \in Handlers : work'[g] = IF g = h THEN Idle ELSE work[g]
  BY <1>1 DEF TypesOK
<1>3. SameRows /\ \A t \in Ids : tokens'[t].revoked = (tokens[t].revoked \/ t \in S)
  BY <1>1, RevokedRows
<1>4. Ids' = Ids /\ \A t \in Ids : SessionOf(t)' = SessionOf(t) /\ tokens'[t].parent = tokens[t].parent
  BY <1>3 DEF SameRows, Ids, SessionOf
<1>5. \A t \in Ids : /\ ~Live(t) => ~Live(t)'
                     /\ t \in S => ~Live(t)'
                     /\ (Live(t) /\ t \notin S) => Live(t)'
  BY <1>3 DEF Live
<1>6. NoToken \notin Ids /\ Ids \subseteq Nat
  BY <1>1, NoTokenIsNoId
<1>7. \A g \in Handlers, t \in Ids : Replaces(g, t)' => Replaces(g, t)
  BY <1>2 DEF Replaces, Idle
<1>8. TypesOK'
  <2>1. Idle \in Works
    BY DEF Idle, Works, NoToken
  <2>2. work' \in [Handlers -> Works]
    BY <2>1, <1>1 DEF TypesOK
  <2>3. \A g \in Handlers : work'[g].at # "idle" => work'[g].user \in Users
    BY <1>1, <1>2 DEF TypesOK, Idle
  <2> QED
    BY <2>2, <2>3, <1>3 DEF TypesOK, SameRows
<1>9. TokensOK'
  BY <1>1, <1>3, SameRowsKeepTokens
<1>10. RotationIsLinear'
  BY <1>1, <1>4 DEF RotationIsLinear
<1>11. ASSUME NEW t \in loggedOut'
       PROVE  /\ t \in Ids /\ ~Live(t)'
              /\ \A s \in Ids : tokens[s].parent # t
              /\ \A g \in Handlers : work'[g].at = "store" => work'[g].token # t
  <2>1. CASE t \in loggedOut
    BY <2>1, <1>1, <1>2, <1>5 DEF LoggedOutOK, LogoutIsFinal, Idle
  <2>2. CASE t \in S /\ Live(t)
    <3>1. t \in Ids /\ t # NoToken /\ ~Live(t)'
      BY <2>2, <1>5, <1>6
    <3>2. \A s \in Ids : tokens[s].parent # t
      BY <2>2, <3>1, <1>1 DEF TokensOK
    <3>3. \A g \in Handlers : ~Replaces(g, t)
      BY <2>2, <3>1, <1>1 DEF WorkOK
    <3> QED
      BY <3>1, <3>2, <3>3, <1>2 DEF Replaces, Idle
  <2> QED
    BY <2>1, <2>2
<1>12. LoggedOutOK' /\ LogoutIsFinal'
  BY <1>11, <1>4 DEF LoggedOutOK, LogoutIsFinal
<1>13. ASSUME NEW g \in Handlers PROVE WorkOK(g)'
  <2>1. WorkOK(g)
    BY <1>1
  <2>2. \A t \in Ids : Replaces(g, t)' =>
          /\ ~Live(t)' /\ \A s \in Ids : tokens'[s].parent # t
          /\ \A k \in Handlers : Replaces(k, t)' => k = g
    BY <2>1, <1>4, <1>5, <1>7 DEF WorkOK
  <2>3. /\ work'[g].at \in {"revoke", "revoke all"} => work'[g].token \in Ids
        /\ work'[g].at = "store" => work'[g].token \in Ids \union {NoToken}
    <3>1. CASE g = h
      <4>1. work'[g] = Idle /\ Idle.at = "idle"
        BY <3>1, <1>2 DEF Idle
      <4> QED
        BY <4>1
    <3>2. CASE g # h
      BY <3>2, <2>1, <1>2 DEF WorkOK
    <3> QED
      BY <3>1, <3>2
  <2> QED
    BY <2>2, <2>3, <1>4 DEF WorkOK
<1>14. CarriersOK'
  <2> SUFFICES ASSUME NEW s \in {SessionOf(t) : t \in Ids} \ ended, s \notin ended'
               PROVE  OneCarrier(s)'
    BY <1>4 DEF CarriersOK
  <2>1. OneCarrier(s)
    BY <1>1 DEF CarriersOK
  <2>2. LiveIn(s)' = LiveIn(s)
    BY <1>4, <1>5 DEF LiveIn
  <2>3. \A g \in Handlers : (work[g].at = "store" /\ work[g].token # NoToken) => work[g].token \in Ids
    BY <1>1 DEF WorkOK
  <2>4. Storing(s)' = Storing(s)
    BY <2>3, <1>2, <1>4 DEF Storing, Idle
  <2> QED
    BY <2>1, <2>2, <2>4, <1>4 DEF OneCarrier
<1> QED
  BY <1>8, <1>9, <1>10, <1>12, <1>13, <1>14 DEF SessionsInv

(* Revoke of a token that is still live, by a refresh that goes on to store its
   successor: the session passes from the token to the handler.              *)
LEMMA RotatingStep ==
  ASSUME SessionsInv, NEW h \in Handlers, NEW x \in Ids, Live(x),
         work[h].at = "revoke",
         tokens' = Revoked({x}), loggedOut' = loggedOut, ended' = ended,
         Goto(h, "store", work[h].user, x)
  PROVE  SessionsInv'
<1>1. /\ TypesOK /\ TokensOK /\ LoggedOutOK /\ RotationIsLinear /\ LogoutIsFinal
      /\ CarriersOK /\ \A g \in Handlers : WorkOK(g)
  BY DEF SessionsInv
<1> DEFINE w == [at |-> "store", user |-> work[h].user, token |-> x]
<1>2. \A g \in Handlers : work'[g] = IF g = h THEN w ELSE work[g]
  BY <1>1 DEF TypesOK, Goto
<1>3. SameRows /\ \A t \in Ids : tokens'[t].revoked = (tokens[t].revoked \/ t \in {x})
  BY <1>1, RevokedRows
<1>4. Ids' = Ids /\ \A t \in Ids : SessionOf(t)' = SessionOf(t) /\ tokens'[t].parent = tokens[t].parent
  BY <1>3 DEF SameRows, Ids, SessionOf
<1>5. \A t \in Ids : /\ ~Live(t) => ~Live(t)'
                     /\ t = x => ~Live(t)'
                     /\ (Live(t) /\ t # x) => Live(t)'
  BY <1>3 DEF Live
<1>6. NoToken \notin Ids /\ Ids \subseteq Nat /\ x # NoToken
  BY <1>1, NoTokenIsNoId
<1>7. \A s \in Ids : tokens[s].parent # x
  BY <1>1, <1>6 DEF TokensOK
<1>8. \A g \in Handlers : ~Replaces(g, x)
  BY <1>1 DEF WorkOK
<1>9. w.at = "store" /\ w.token = x /\ w.user = work[h].user
  OBVIOUS
<1> HIDE DEF w
<1>10. \A g \in Handlers, t \in Ids :
         Replaces(g, t)' => (g = h /\ t = x) \/ (g # h /\ t # x /\ Replaces(g, t))
  BY <1>2, <1>8, <1>9 DEF Replaces
<1>11. TypesOK'
  <2>1. work[h].user \in Users /\ x \in Nat
    BY <1>1, <1>6 DEF TypesOK
  <2>2. w \in Works
    BY <2>1 DEF w, Works
  <2>3. work' \in [Handlers -> Works]
    BY <2>2, <1>1 DEF TypesOK, Goto, w
  <2>4. \A g \in Handlers : work'[g].at # "idle" => work'[g].user \in Users
    BY <2>1, <1>1, <1>2, <1>9 DEF TypesOK
  <2> QED
    BY <2>3, <2>4, <1>3 DEF TypesOK, SameRows
<1>12. TokensOK'
  BY <1>1, <1>3, SameRowsKeepTokens
<1>13. RotationIsLinear'
  BY <1>1, <1>4 DEF RotationIsLinear
<1>14. LoggedOutOK' /\ LogoutIsFinal'
  <2>1. \A t \in loggedOut : t \in Ids /\ t # x /\ ~Live(t)'
    BY <1>1, <1>5 DEF LoggedOutOK
  <2>2. ASSUME NEW t \in loggedOut, NEW g \in Handlers, work'[g].at = "store"
        PROVE  work'[g].token # t
    BY <2>1, <2>2, <1>1, <1>2, <1>9 DEF LogoutIsFinal
  <2> QED
    BY <2>1, <2>2, <1>1, <1>4 DEF LoggedOutOK, LogoutIsFinal
<1>15. ASSUME NEW g \in Handlers PROVE WorkOK(g)'
  <2>1. WorkOK(g)
    BY <1>1
  <2>2. ASSUME NEW t \in Ids, Replaces(g, t)'
        PROVE  /\ ~Live(t)' /\ \A s \in Ids : tokens'[s].parent # t
               /\ \A k \in Handlers : Replaces(k, t)' => k = g
    <3>1. CASE g = h /\ t = x
      BY <3>1, <1>4, <1>5, <1>7, <1>10
    <3>2. CASE g # h /\ t # x /\ Replaces(g, t)
      BY <3>2, <2>1, <1>4, <1>5, <1>10 DEF WorkOK
    <3> QED
      BY <2>2, <3>1, <3>2, <1>10
  <2>3. /\ work'[g].at \in {"revoke", "revoke all"} => work'[g].token \in Ids
        /\ work'[g].at = "store" => work'[g].token \in Ids \union {NoToken}
    BY <2>1, <1>2, <1>9 DEF WorkOK
  <2> QED
    BY <2>2, <2>3, <1>4 DEF WorkOK
<1>16. CarriersOK'
  <2> SUFFICES ASSUME NEW s \in {SessionOf(t) : t \in Ids} \ ended
               PROVE  OneCarrier(s)'
    BY <1>4 DEF CarriersOK
  <2>1. OneCarrier(s)
    BY <1>1 DEF CarriersOK
  <2>2. \A g \in Handlers : (work[g].at = "store" /\ work[g].token # NoToken) => work[g].token \in Ids
    BY <1>1 DEF WorkOK
  <2>3. CASE s = SessionOf(x)
    <3>1. LiveIn(s) = {x} /\ Storing(s) = {}
      BY <2>1, <2>3 DEF OneCarrier, LiveIn
    <3>2. LiveIn(s)' = {}
      BY <3>1, <1>4, <1>5 DEF LiveIn
    <3>3. Storing(s)' = {h}
      BY <3>1, <2>2, <2>3, <1>2, <1>4, <1>6, <1>9 DEF Storing
    <3> QED
      BY <3>2, <3>3 DEF OneCarrier
  <2>4. CASE s # SessionOf(x)
    <3>1. LiveIn(s)' = LiveIn(s)
      BY <2>4, <1>4, <1>5 DEF LiveIn
    <3>2. Storing(s)' = Storing(s)
      BY <2>2, <2>4, <1>2, <1>4, <1>9 DEF Storing
    <3> QED
      BY <2>1, <3>1, <3>2, <1>4 DEF OneCarrier
  <2> QED
    BY <2>3, <2>4
<1> QED
  BY <1>11, <1>12, <1>13, <1>14, <1>15, <1>16 DEF SessionsInv

(* Store: the session of the token that is replaced passes to the new row, a login
   starts one of its own.                                                    *)
LEMMA InsertingStep ==
  ASSUME SessionsInv, NEW h \in Handlers, work[h].at = "store",
         Insert(work[h].user, work[h].token), work' = [work EXCEPT ![h] = Idle],
         loggedOut' = loggedOut, ended \subseteq ended'
  PROVE  SessionsInv'
<1>0. PICK n, x : n = Len(tokens) + 1 /\ x = work[h].token
  OBVIOUS
<1>1. /\ TypesOK /\ TokensOK /\ LoggedOutOK /\ RotationIsLinear /\ LogoutIsFinal
      /\ CarriersOK /\ \A g \in Handlers : WorkOK(g)
  BY DEF SessionsInv
<1>2. \A g \in Handlers : work'[g] = IF g = h THEN Idle ELSE work[g]
  BY <1>1 DEF TypesOK
<1>3. x \in Ids \union {NoToken} /\ work[h].user \in Users
  BY <1>0, <1>1 DEF WorkOK, TypesOK
<1>4. /\ tokens' \in Seq(Rows) /\ Len(tokens') = n /\ Len(tokens) \in Nat
      /\ \A t \in Ids : tokens'[t] = tokens[t]
      /\ tokens'[n].parent = x /\ ~tokens'[n].revoked
      /\ tokens'[n].session = IF x = NoToken THEN n ELSE tokens[x].session
  BY <1>0, <1>1, <1>3, InsertedRow
<1>5. NoToken \notin Ids /\ Ids \subseteq Nat /\ n \notin Ids /\ Ids' = Ids \union {n}
  BY <1>0, <1>1, <1>4, NoTokenIsNoId DEF Ids
<1>6. /\ \A t \in Ids : Live(t)' = Live(t) /\ SessionOf(t)' = SessionOf(t)
      /\ tokens'[n].session = SessionOf(n)'
  BY <1>4 DEF Live, SessionOf
<1>7. \A t \in Ids : SessionOf(t) \in Ids
  BY <1>1, <1>4 DEF TokensOK, SessionOf, Ids
<1>8. Idle.at = "idle" /\ Idle \in Works
  BY DEF Idle, Works, NoToken
<1>9. \A g \in Handlers : work'[g].at # "idle" => g # h /\ work'[g] = work[g]
  BY <1>2, <1>8
<1>10. x # NoToken => /\ x \in Ids /\ ~Live(x) /\ \A s \in Ids : tokens[s].parent # x
                      /\ \A g \in Handlers : Replaces(g, x) => g = h
  BY <1>0, <1>1, <1>3 DEF WorkOK, Replaces
<1>11. \A g \in Handlers : (work[g].at = "store" /\ work[g].token # NoToken) => work[g].token \in Ids
  BY <1>1 DEF WorkOK
<1>12. TypesOK'
  <2>1. work' \in [Handlers -> Works]
    BY <1>1, <1>8 DEF TypesOK
  <2> QED
    BY <2>1, <1>1, <1>4, <1>9 DEF TypesOK
<1>13. TokensOK'
  <2>1. \A t \in Ids : tokens[t].parent # NoToken => tokens[t].parent \in Ids
    BY <1>1, <1>4 DEF TokensOK, Ids, NoToken
  <2>2. ASSUME NEW t \in Ids
        PROVE  /\ tokens'[t].session \in 1..t /\ tokens'[t].parent \in 0..(t - 1)
               /\ tokens'[t].parent # NoToken => ~Live(tokens[t].parent)'
    BY <2>1, <1>1, <1>4 DEF TokensOK, Live
  <2>3. /\ tokens'[n].session \in 1..n /\ tokens'[n].parent \in 0..(n - 1)
        /\ tokens'[n].parent # NoToken => ~Live(tokens[n].parent)'
    <3>1. tokens'[n].session \in 1..n
      BY <1>0, <1>3, <1>4, <1>7 DEF SessionOf, Ids
    <3>2. x \in 0..(n - 1)
      BY <1>0, <1>3, <1>4 DEF Ids, NoToken
    <3>3. x # NoToken => tokens'[x].revoked
      BY <1>4, <1>10 DEF Live
    <3> QED
      BY <3>1, <3>2, <3>3, <1>4 DEF Live
  <2> QED
    BY <2>2, <2>3, <1>5 DEF TokensOK
<1>14. RotationIsLinear'
  <2> SUFFICES ASSUME NEW s \in Ids \union {n}, NEW t \in Ids \union {n},
                      tokens'[s].parent = tokens'[t].parent, tokens'[s].parent # NoToken
               PROVE  s = t
    BY <1>5 DEF RotationIsLinear
  <2>1. CASE s \in Ids /\ t \in Ids
    BY <2>1, <1>1, <1>4 DEF RotationIsLinear
  <2>2. CASE s = n /\ t \in Ids
    BY <2>2, <1>4, <1>10
  <2>3. CASE t = n /\ s \in Ids
    BY <2>3, <1>4, <1>10
  <2> QED
    BY <2>1, <2>2, <2>3
<1>15. LoggedOutOK' /\ LogoutIsFinal'
  <2> SUFFICES ASSUME NEW t \in loggedOut
               PROVE  /\ t \in Ids' /\ ~Live(t)' /\ \A s \in Ids' : tokens'[s].parent # t
                      /\ \A g \in Handlers : work'[g].at = "store" => work'[g].token # t
    BY DEF LoggedOutOK, LogoutIsFinal
  <2>1. /\ t \in Ids /\ ~Live(t) /\ \A s \in Ids : tokens[s].parent # t
        /\ \A g \in Handlers : work[g].at = "store" => work[g].token # t
    BY <1>1 DEF LoggedOutOK, LogoutIsFinal
  <2>2. x # t
    BY <2>1, <1>0
  <2> QED
    BY <2>1, <2>2, <1>4, <1>5, <1>6, <1>9
<1>16. ASSUME NEW g \in Handlers PROVE WorkOK(g)'
  <2>1. WorkOK(g)
    BY <1>1
  <2>2. ASSUME NEW t \in Ids', Replaces(g, t)'
        PROVE  /\ ~Live(t)' /\ \A s \in Ids' : tokens'[s].parent # t
               /\ \A k \in Handlers : Replaces(k, t)' => k = g
    <3>1. g # h /\ Replaces(g, t) /\ t \in Ids /\ t # NoToken
      BY <2>2, <1>9, <1>11 DEF Replaces
    <3>2. t # x
      BY <3>1, <1>10
    <3>3. /\ ~Live(t) /\ \A s \in Ids : tokens[s].parent # t
          /\ \A k \in Handlers : Replaces(k, t) => k = g
      BY <2>1, <3>1 DEF WorkOK
    <3>4. \A k \in Handlers : Replaces(k, t)' => Replaces(k, t)
      BY <1>9 DEF Replaces
    <3> QED
      BY <3>1, <3>2, <3>3, <3>4, <1>4, <1>5, <1>6
  <2>3. /\ work'[g].at \in {"revoke", "revoke all"} => work'[g].token \in Ids'
        /\ work'[g].at = "store" => work'[g].token \in Ids' \union {NoToken}
    <3>1. /\ work[g].at \in {"revoke", "revoke all"} => work[g].token \in Ids
          /\ work[g].at = "store" => work[g].token \in Ids \union {NoToken}
      BY <2>1 DEF WorkOK
    <3>2. CASE work'[g].at = "idle"
      BY <3>2
    <3>3. CASE work'[g] = work[g]
      <4>1. Ids \subseteq Ids'
        BY <1>5
      <4> QED
        BY <3>1, <3>3, <4>1
    <3> QED
      BY <3>2, <3>3, <1>9
  <2> QED
    BY <2>2, <2>3 DEF WorkOK
<1>17. CarriersOK'
  <2> SUFFICES ASSUME NEW s \in {SessionOf(t)' : t \in Ids'} \ ended'
               PROVE  OneCarrier(s)'
    BY DEF CarriersOK
  <2>1. \A g \in Storing(s)' : g # h /\ work'[g] = work[g] /\ work[g].token \in Ids
    BY <1>9, <1>11 DEF Storing
  <2>2. Storing(s)' = Storing(s) \ {h}
    BY <2>1, <1>2, <1>6, <1>11 DEF Storing
  <2>3. LiveIn(s)' = LiveIn(s) \union (IF SessionOf(n)' = s THEN {n} ELSE {})
    BY <1>4, <1>5, <1>6 DEF LiveIn, Live
  <2>4. CASE s = n
    <3>1. x = NoToken
      BY <2>4, <1>3, <1>4, <1>5, <1>6, <1>7 DEF SessionOf
    <3>2. SessionOf(n)' = s
      BY <2>4, <3>1, <1>4, <1>6
    <3>3. LiveIn(s) = {} /\ Storing(s) = {}
      BY <2>4, <1>5, <1>7, <1>11 DEF LiveIn, Storing
    <3> QED
      BY <3>2, <3>3, <2>2, <2>3, <1>5 DEF OneCarrier
  <2>5. CASE s # n
    <3>1. s \in {SessionOf(t) : t \in Ids} \ ended
      BY <2>5, <1>3, <1>4, <1>5, <1>6 DEF SessionOf
    <3>2. OneCarrier(s)
      BY <3>1, <1>1 DEF CarriersOK
    <3>3. CASE x # NoToken /\ SessionOf(x) = s
      <4>1. h \in Storing(s) /\ SessionOf(n)' = s
        BY <3>3, <1>0, <1>4, <1>6 DEF Storing, SessionOf
      <4>2. LiveIn(s) = {} /\ Storing(s) = {h}
        BY <4>1, <3>2 DEF OneCarrier
      <4> QED
        BY <4>1, <4>2, <2>2, <2>3, <1>5 DEF OneCarrier
    <3>4. CASE ~(x # NoToken /\ SessionOf(x) = s)
      <4>1. h \notin Storing(s) /\ SessionOf(n)' # s
        BY <3>4, <2>5, <1>0, <1>4, <1>6 DEF Storing, SessionOf
      <4>2. LiveIn(s)' = LiveIn(s) /\ Storing(s)' = Storing(s)
        BY <4>1, <2>2, <2>3
      <4> QED
        BY <4>2, <3>2, <1>5 DEF OneCarrier
    <3> QED
      BY <3>3, <3>4
  <2> QED
    BY <2>4, <2>5
<1> QED
  BY <1>12, <1>13, <1>14, <1>15, <1>16, <1>17 DEF SessionsInv

(* The passing of expires_at takes no session from anybody.                *)
LEMMA ExpiringStep ==
  ASSUME SessionsInv, NEW x \in Ids, Expire(x)
  PROVE  SessionsInv'
<1>1. /\ TypesOK /\ TokensOK /\ LoggedOutOK /\ RotationIsLinear /\ LogoutIsFinal
      /\ CarriersOK /\ \A g \in Handlers : WorkOK(g)
  BY DEF SessionsInv
<1>2. SameRows /\ \A t \in Ids : tokens'[t].revoked = tokens[t].revoked
  BY <1>1, ExpiredRows
<1>3. work' = work /\ loggedOut' = loggedOut /\ ended' = ended
  BY DEF Expire
<1>4. Ids' = Ids /\ \A t \in Ids : /\ SessionOf(t)' = SessionOf(t) /\ Live(t)' = Live(t)
                                   /\ tokens'[t].parent = tokens[t].parent
  BY <1>2 DEF SameRows, Ids, SessionOf, Live
<1>5. TypesOK' /\ TokensOK'
  BY <1>1, <1>2, <1>3, SameRowsKeepTokens DEF TypesOK, SameRows
<1>6. RotationIsLinear' /\ LogoutIsFinal' /\ LoggedOutOK'
  BY <1>1, <1>3, <1>4 DEF RotationIsLinear, LogoutIsFinal, LoggedOutOK
<1>7. ASSUME NEW g \in Handlers PROVE WorkOK(g)'
  <2>1. WorkOK(g) /\ \A h, t : Replaces(h, t)' <=> Replaces(h, t)
    BY <1>1, <1>3 DEF Replaces
  <2> QED
    BY <1>3, <1>4, <2>1 DEF WorkOK
<1>8. CarriersOK'
  <2>1. \A g \in Handlers : (work[g].at = "store" /\ work[g].token # NoToken) => work[g].token \in Ids
    BY <1>1 DEF WorkOK
  <2> SUFFICES ASSUME NEW s \in {SessionOf(t) : t \in Ids} \ ended
               PROVE  OneCarrier(s)'
    BY <1>3, <1>4 DEF CarriersOK
  <2>2. LiveIn(s)' = LiveIn(s) /\ Storing(s)' = Storing(s)
    BY <2>1, <1>3, <1>4 DEF LiveIn, Storing
  <2> QED
    BY <2>2, <1>1, <1>4 DEF OneCarrier, CarriersOK
<1> QED
  BY <1>5, <1>6, <1>7, <1>8 DEF SessionsInv

(* What a request does once it has begun.                                  *)
LEMMA ProceedingStep ==
  ASSUME SessionsInv, NEW h \in Handlers, Proceed(h)
  PROVE  SessionsInv'
<1>1. TypesOK /\ WorkOK(h)
  BY DEF SessionsInv
<1>2. Idle \in Works /\ Idle.at = "idle"
  BY DEF Idle, Works, NoToken
<1>3. CASE RevokeAll(h)
  <2>1. /\ work[h].at = "revoke all" /\ tokens' = Revoked(LiveOf(work[h].user))
        /\ ended' = ended \union {SessionOf(t) : t \in {y \in Ids : tokens[y].user = work[h].user}}
        /\ work' = [work EXCEPT ![h] = Idle] /\ loggedOut' = loggedOut
    BY <1>3 DEF RevokeAll, Answer
  <2>2. LiveOf(work[h].user) \subseteq Ids
    BY DEF LiveOf
  <2>3. \A t \in LiveOf(work[h].user) : Live(t) => SessionOf(t) \in ended'
    BY <2>1 DEF LiveOf
  <2>4. work[h].at # "store" /\ ended \subseteq ended'
    BY <2>1
  <2> QED
    BY <2>1, <2>2, <2>3, <2>4, RevokingStep
<1>4. CASE Revoke(h)
  <2>1. work[h].token \in Ids /\ work[h].at = "revoke" /\ loggedOut' = loggedOut /\ ended' = ended
    BY <1>1, <1>4 DEF WorkOK, Revoke
  <2>2. CASE Live(work[h].token)
    <3>1. tokens' = Revoked({work[h].token}) /\ Goto(h, "store", work[h].user, work[h].token)
      BY <2>2, <1>4 DEF Revoke, RevokesRow
    <3> QED
      BY <3>1, <2>1, <2>2, RotatingStep
  <2>3. CASE ~Live(work[h].token)
    <3>1. tokens' = tokens /\ work' = [work EXCEPT ![h] = Idle]
      BY <2>3, <1>4 DEF Revoke, RevokesRow, Answer
    <3> QED
      BY <3>1, <2>1, <1>2, QuietStep
  <2> QED
    BY <2>2, <2>3
<1>5. CASE Store(h) \/ StoreUnheard(h)
  BY <1>5, InsertingStep DEF Store, StoreUnheard, Answer
<1>6. CASE RevokeUnheard(h)
  <2>1. /\ work[h].at = "revoke" /\ tokens' = Revoked({work[h].token})
        /\ work' = [work EXCEPT ![h] = Idle] /\ loggedOut' = loggedOut
        /\ ended' = ended \union EndedBy(h)
    BY <1>6 DEF RevokeUnheard, Answer
  <2>2. work[h].token \in Ids /\ work[h].token # NoToken
    BY <2>1, <1>1, NoTokenIsNoId DEF WorkOK
  <2>3. SessionOf(work[h].token) \in ended' /\ ended \subseteq ended'
    BY <2>1, <2>2 DEF EndedBy
  <2>4. PICK S : S = {work[h].token}
    OBVIOUS
  <2>5. /\ S \subseteq Ids /\ tokens' = Revoked(S) /\ work[h].at # "store"
        /\ \A t \in S : Live(t) => SessionOf(t) \in ended'
        /\ \A t \in loggedOut' : t \in loggedOut \/ (t \in S /\ Live(t))
    BY <2>1, <2>2, <2>3, <2>4
  <2> QED
    BY <2>1, <2>3, <2>5, RevokingStep
<1>7. CASE StatementFails(h)
  <2>1. /\ tokens' = tokens /\ loggedOut' = loggedOut /\ work' = [work EXCEPT ![h] = Idle]
        /\ ended' = IF work[h].at = "store" THEN ended \union EndedBy(h) ELSE ended
    BY <1>7 DEF StatementFails, Answer
  <2>2. ended \subseteq ended'
    BY <2>1
  <2>3. (work[h].at = "store" /\ work[h].token # NoToken) => SessionOf(work[h].token) \in ended'
    BY <2>1 DEF EndedBy
  <2> QED
    BY <2>1, <2>2, <2>3, <1>2, QuietStep
<1> QED
  BY <1>3, <1>4, <1>5, <1>6, <1>7 DEF Proceed

(* The first statement of a login, a refresh or a logout.                  *)
LEMMA BeginningStep ==
  ASSUME SessionsInv, NEW h \in Handlers,
         \/ \E u \in Users : Login(h, u)
         \/ \E t \in Presented : Refresh(h, t) \/ Logout(h, t)
  PROVE  SessionsInv'
<1>1. TypesOK /\ WorkOK(h)
  BY DEF SessionsInv
<1>2. Idle \in Works /\ Idle.at = "idle"
  BY DEF Idle, Works, NoToken
<1>3. ASSUME NEW u \in Users, Login(h, u) PROVE SessionsInv'
  <2> DEFINE w == [at |-> "store", user |-> u, token |-> NoToken]
  <2>1. w \in Works /\ w.at = "store" /\ w.user = u /\ w.token = NoToken
    BY DEF Works, NoToken
  <2>2. /\ work[h].at = "idle" /\ work' = [work EXCEPT ![h] = w]
        /\ tokens' = tokens /\ loggedOut' = loggedOut /\ ended' = ended
    BY <1>3 DEF Login, Goto
  <2> HIDE DEF w
  <2> QED
    BY <2>1, <2>2, QuietStep
<1>4. ASSUME NEW t, Refresh(h, t) PROVE SessionsInv'
  <2>1. work[h].at = "idle" /\ tokens' = tokens /\ loggedOut' = loggedOut /\ ended' = ended
    BY <1>4 DEF Refresh
  <2>2. CASE work' = [work EXCEPT ![h] = Idle]
    BY <2>1, <2>2, <1>2, QuietStep
  <2>3. ASSUME NEW l \in {"revoke", "revoke all"}, t \in Ids, Goto(h, l, tokens[t].user, t)
        PROVE  SessionsInv'
    <3> DEFINE w == [at |-> l, user |-> tokens[t].user, token |-> t]
    <3>1. tokens[t] \in Rows /\ t \in Nat
      BY <2>3, <1>1, ElementOfSeq, NoTokenIsNoId DEF TypesOK, Ids
    <3>2. w \in Works /\ w.at = l /\ w.user \in Users /\ w.token = t
      BY <3>1 DEF Works, Rows
    <3>3. work' = [work EXCEPT ![h] = w]
      BY <2>3 DEF Goto
    <3> HIDE DEF w
    <3> QED
      BY <3>2, <3>3, <2>1, <2>3, QuietStep
  <2> QED
    BY <2>2, <2>3, <1>4 DEF Refresh, Answer
<1>5. ASSUME NEW t, Logout(h, t) PROVE SessionsInv'
  <2>1. work[h].at = "idle" /\ work' = [work EXCEPT ![h] = Idle]
    BY <1>5 DEF Logout, Answer
  <2>2. CASE t \in Ids /\ RevokesRow(t)
    <3>1. /\ tokens' = Revoked({t}) /\ loggedOut' = loggedOut \union {t}
          /\ ended' = ended \union {SessionOf(t)}
      BY <2>2, <1>5 DEF Logout
    <3>2. /\ {t} \subseteq Ids /\ ended \subseteq ended'
          /\ \A y \in {t} : Live(y) => SessionOf(y) \in ended'
          /\ \A y \in loggedOut' : y \in loggedOut \/ (y \in {t} /\ Live(y))
      BY <2>2, <3>1 DEF RevokesRow
    <3> QED
      BY <2>1, <3>1, <3>2, RevokingStep
  <2>3. CASE ~(t \in Ids /\ RevokesRow(t))
    <3>1. tokens' = tokens /\ loggedOut' = loggedOut /\ ended' = ended
      BY <2>3, <1>5 DEF Logout
    <3> QED
      BY <3>1, <2>1, <1>2, QuietStep
  <2> QED
    BY <2>2, <2>3
<1> QED
  BY <1>3, <1>4, <1>5

----------------------------------------------------------------------------
(* Registration.                                                           *)

(* LOWER(email) makes no difference to an address that Register has normalized, and
   what Register lets through is normalized.                                 *)
LEMMA PlainAddresses ==
  /\ \A a \in Plain : Lower(a) = a /\ Normalize(a) = a
  /\ \A a \in Addresses : ~Malformed(Normalize(a)) => Normalize(a) \in Plain
<1>1. ASSUME NEW a \in Plain PROVE Lower(a) = a /\ Normalize(a) = a
  <2>1. a = [name |-> a.name, spelling |-> "plain"] /\ a.spelling = "plain"
    BY DEF Plain
  <2>2. [a EXCEPT !.spelling = "plain"] = a
    BY <2>1
  <2> QED
    BY <2>1, <2>2 DEF Lower, Normalize
<1>2. ASSUME NEW a \in Addresses, ~Malformed(Normalize(a)) PROVE Normalize(a) \in Plain
  <2>1. a.spelling # "bad"
    BY <1>2 DEF Malformed, Normalize
  <2>2. Normalize(a) = [a EXCEPT !.spelling = "plain"] /\ a.name \in Users
    BY <2>1 DEF Normalize, Addresses
  <2> QED
    BY <2>2 DEF Plain, Addresses
<1> QED
  BY <1>1, <1>2

(* There is always a number that users.id can take: at most one is in use by each
   user and by each other request.                                           *)
LEMMA FreshIdsExist ==
  ASSUME JoiningTypes, NEW h \in Handlers
  PROVE  FreshIds(h) # {} /\ FreshIds(h) \in SUBSET Nat
<1> DEFINE I == {u.id : u \in users}
           J == {joining[g].id : g \in Handlers \ {h}}
           n == Cardinality(users) + Cardinality(Handlers)
<1>1. IsFiniteSet(users) /\ IsFiniteSet(Handlers)
  BY SessionsAssumption DEF JoiningTypes
<1>2. Cardinality(users) \in Nat /\ Cardinality(Handlers) \in Nat
  BY <1>1, FS_CardinalityType
<1>3. IsFiniteSet(Handlers \ {h}) /\ Cardinality(Handlers \ {h}) = Cardinality(Handlers) - 1
  BY <1>1, FS_RemoveElement
<1>4. IsFiniteSet(I) /\ Cardinality(I) <= Cardinality(users)
  <2>1. [u \in users |-> u.id] \in Surjection(users, I)
    BY Fun_IsSurj
  <2> QED
    BY <2>1, <1>1, FS_Surjection
<1>5. IsFiniteSet(J) /\ Cardinality(J) <= Cardinality(Handlers) - 1
  <2>1. [g \in Handlers \ {h} |-> joining[g].id] \in Surjection(Handlers \ {h}, J)
    BY Fun_IsSurj
  <2> QED
    BY <2>1, <1>3, FS_Surjection
<1>6. FreshIds(h) = (1..n) \ (I \union J)
  BY DEF FreshIds
<1> HIDE DEF I, J, n
<1>7. n \in Nat /\ n = Cardinality(users) + Cardinality(Handlers)
  BY <1>2 DEF n
<1>8. /\ IsFiniteSet(I \union J)
      /\ Cardinality(I \union J) <= Cardinality(I) + Cardinality(J)
      /\ Cardinality(I) \in Nat /\ Cardinality(J) \in Nat /\ Cardinality(I \union J) \in Nat
  <2>1. IsFiniteSet(I \union J)
        /\ Cardinality(I \union J) = Cardinality(I) + Cardinality(J) - Cardinality(I \cap J)
    BY <1>4, <1>5, FS_Union
  <2>2. IsFiniteSet(I \cap J)
    BY <1>4, FS_Intersection
  <2> QED
    BY <2>1, <2>2, <1>4, <1>5, FS_CardinalityType
<1>9. Cardinality(1..n) = n
  BY <1>7, FS_Interval
<1>10. ~(1..n \subseteq I \union J)
  <2> SUFFICES ASSUME 1..n \in SUBSET (I \union J) PROVE FALSE
    OBVIOUS
  <2>1. Cardinality(1..n) <= Cardinality(I \union J)
    BY <1>8, FS_Subset
  <2> QED
    BY <2>1, <1>2, <1>4, <1>5, <1>7, <1>8, <1>9
<1> QED
  BY <1>6, <1>7, <1>10

(* A registration that begins, is refused or fails: no row is stored, and nobody is
   told that it was.                                                         *)
LEMMA RefusedOrBegun ==
  ASSUME JoiningInv, NEW h \in Handlers, NEW j \in Joins,
         joining' = [joining EXCEPT ![h] = j],
         j.at \in {"idle", "insert user"}, j.at # "idle" => j.email \in Plain,
         UNCHANGED <<users, wallets>>,
         \A r \in told' : \/ r \in told \/ r.code = "INTERNAL"
                          \/ r.code = "EMAIL_TAKEN" /\ \E u \in users : Lower(u.email) = r.email
  PROVE  JoiningInv'
<1>1. JoiningTypes /\ RegistrationIsAtomic /\ \A g \in Handlers : JoinOK(g)
  BY DEF JoiningInv
<1>2. \A g \in Handlers : joining'[g] = IF g = h THEN j ELSE joining[g]
  BY <1>1 DEF JoiningTypes
<1>3. JoiningTypes'
  BY <1>1, <1>2 DEF JoiningTypes
<1>4. RegistrationIsAtomic'
  BY <1>1 DEF RegistrationIsAtomic, Lower
<1>5. \A g \in Handlers : InTransaction(g)' => g # h /\ InTransaction(g) /\ joining'[g] = joining[g]
  BY <1>2 DEF InTransaction
<1>6. ASSUME NEW g \in Handlers, InTransaction(g)' PROVE JoinOK(g)'
  <2>1. JoinOK(g) /\ InTransaction(g) /\ joining'[g] = joining[g] /\ users' = users
    BY <1>1, <1>5, <1>6
  <2>2. /\ \A u \in users : u.id # joining[g].id /\ u.email # joining[g].email
        /\ \A k \in Handlers \ {g} : InTransaction(k) =>
             joining[k].id # joining[g].id /\ joining[k].email # joining[g].email
    BY <2>1 DEF JoinOK
  <2>3. \A k \in Handlers \ {g} : InTransaction(k)' =>
             joining'[k].id # joining'[g].id /\ joining'[k].email # joining'[g].email
    BY <2>1, <2>2, <1>5
  <2> QED
    BY <2>1, <2>2, <2>3 DEF JoinOK
<1> QED
  BY <1>3, <1>4, <1>6 DEF JoiningInv, JoinOK

(* INSERT INTO users of an address that nobody has.                        *)
LEMMA UserInserted ==
  ASSUME JoiningInv, NEW h \in Handlers, InsertUser(h), ~EmailTaken(h)
  PROVE  JoiningInv'
<1>1. JoiningTypes /\ RegistrationIsAtomic /\ \A g \in Handlers : JoinOK(g)
  BY DEF JoiningInv
<1>2. PICK i : i = CHOOSE k \in FreshIds(h) : \A l \in FreshIds(h) : k <= l
  OBVIOUS
<1>3. /\ joining[h].at = "insert user" /\ ~Waits(h)
      /\ joining' = [joining EXCEPT ![h] = [joining[h] EXCEPT !.at = "insert wallet", !.id = i]]
      /\ UNCHANGED <<users, wallets, told>>
  BY <1>2 DEF InsertUser
<1>4. i \in FreshIds(h) /\ i \in Nat
  <2>1. \E k \in FreshIds(h) : \A l \in FreshIds(h) : k <= l
    BY <1>1, FreshIdsExist, LeastOfNats
  <2> QED
    BY <2>1, <1>1, <1>2, FreshIdsExist
<1>5. joining[h] \in Joins /\ joining[h].email \in Plain
  BY <1>1, <1>3 DEF JoiningTypes
<1>6. PICK j : j = [joining[h] EXCEPT !.at = "insert wallet", !.id = i]
  OBVIOUS
<1>7. /\ j \in Joins /\ j.at = "insert wallet" /\ j.id = i /\ j.email = joining[h].email
      /\ j.email \in Plain
  BY <1>4, <1>5, <1>6 DEF Joins
<1>8. \A g \in Handlers : joining'[g] = IF g = h THEN j ELSE joining[g]
  BY <1>1, <1>3, <1>6 DEF JoiningTypes
<1>9. JoiningTypes'
  <2>1. joining' \in [Handlers -> Joins]
    BY <1>1, <1>3, <1>6, <1>7 DEF JoiningTypes
  <2> QED
    BY <2>1, <1>1, <1>3, <1>7, <1>8 DEF JoiningTypes
<1>10. RegistrationIsAtomic'
  BY <1>1, <1>3 DEF RegistrationIsAtomic, Lower
<1>11. \A u \in users : u.id # i /\ u.email # j.email
  <2>1. \A u \in users : u.id # i
    BY <1>4 DEF FreshIds
  <2>2. \A u \in users : u.email \in Plain
    BY <1>1 DEF JoiningTypes
  <2> QED
    BY <2>1, <2>2, <1>5, <1>7, PlainAddresses DEF EmailTaken
<1>12. \A g \in Handlers \ {h} : InTransaction(g) => joining[g].id # i /\ joining[g].email # j.email
  <2> SUFFICES ASSUME NEW g \in Handlers \ {h}, InTransaction(g)
               PROVE  joining[g].id # i /\ joining[g].email # j.email
    OBVIOUS
  <2>1. joining[g].id # i
    BY <1>4 DEF FreshIds
  <2>2. joining[g].email \in Plain
    BY <1>1 DEF JoiningTypes, InTransaction
  <2>3. Lower(joining[g].email) # Lower(joining[h].email)
    BY <1>3 DEF Waits, Inserted, InTransaction
  <2> QED
    BY <2>1, <2>2, <2>3, <1>5, <1>7, PlainAddresses
<1>13. \A g \in Handlers \ {h} : joining'[g] = joining[g] /\ InTransaction(g)' = InTransaction(g)
  BY <1>8 DEF InTransaction
<1>14. ASSUME NEW g \in Handlers PROVE JoinOK(g)'
  <2>1. CASE g = h
    BY <2>1, <1>3, <1>7, <1>8, <1>11, <1>12, <1>13 DEF JoinOK
  <2>2. CASE g # h
    <3> SUFFICES ASSUME InTransaction(g)' PROVE JoinOK(g)'
      BY DEF JoinOK
    <3>1. InTransaction(g) /\ JoinOK(g)
      BY <2>2, <1>1, <1>13
    <3>2. joining[g].id # i /\ joining[g].email # j.email
      BY <2>2, <3>1, <1>12
    <3> QED
      BY <2>2, <3>1, <3>2, <1>3, <1>7, <1>8, <1>13 DEF JoinOK
  <2> QED
    BY <2>1, <2>2
<1> QED
  BY <1>9, <1>10, <1>14 DEF JoiningInv

(* COMMIT: the user and its wallet become visible together.                *)
LEMMA UserCommitted ==
  ASSUME JoiningInv, NEW h \in Handlers, NEW c \in {"CREATED", "INTERNAL"},
         joining[h].at = "commit", Committed(h), Tell(h, c)
  PROVE  JoiningInv'
<1>1. JoiningTypes /\ RegistrationIsAtomic /\ \A g \in Handlers : JoinOK(g)
  BY DEF JoiningInv
<1>2. joining[h] \in Joins /\ joining[h].email \in Plain /\ InTransaction(h)
  BY <1>1 DEF JoiningTypes, InTransaction
<1>3. PICK v : v = [id |-> joining[h].id, email |-> joining[h].email]
  OBVIOUS
<1>4. /\ v \in [id : Nat, email : Plain] /\ v.id = joining[h].id /\ v.email = joining[h].email
      /\ users' = users \union {v} /\ wallets' = wallets \union {[user |-> v.id]}
  BY <1>2, <1>3 DEF Committed, Joins
<1>5. PICK r : r = [email |-> v.email, code |-> c, id |-> IF c = "CREATED" THEN v.id ELSE 0]
  OBVIOUS
<1>6. told' = told \union {r} /\ joining' = [joining EXCEPT ![h] = NoJoin]
  BY <1>2, <1>4, <1>5, PlainAddresses DEF Tell
<1>7. r.code = c /\ r.email = v.email /\ (c = "CREATED" => r.id = v.id)
  BY <1>5
<1>8. NoJoin \in Joins /\ NoJoin.at = "idle"
  BY DEF NoJoin, Joins
<1>9. \A g \in Handlers : joining'[g] = IF g = h THEN NoJoin ELSE joining[g]
  BY <1>1, <1>6 DEF JoiningTypes
<1>10. \A u \in users : u.id # v.id /\ u.email # v.email
  BY <1>1, <1>2, <1>4 DEF JoinOK
<1>11. JoiningTypes'
  <2>1. IsFiniteSet(users') /\ users' \in SUBSET [id : Nat, email : Plain]
    BY <1>1, <1>4, FS_AddElement DEF JoiningTypes
  <2>2. joining' \in [Handlers -> Joins]
    BY <1>1, <1>6, <1>8 DEF JoiningTypes
  <2> QED
    BY <2>1, <2>2, <1>1, <1>8, <1>9 DEF JoiningTypes
<1>12. RegistrationIsAtomic'
  <2>1. {w.user : w \in wallets'} = {u.id : u \in users'}
    <3>1. {w.user : w \in wallets} = {u.id : u \in users}
      BY <1>1 DEF RegistrationIsAtomic
    <3>2. [user |-> v.id].user = v.id
      OBVIOUS
    <3>3. {w.user : w \in wallets'} = {w.user : w \in wallets} \union {v.id}
      BY <3>2, <1>4
    <3>4. {u.id : u \in users'} = {u.id : u \in users} \union {v.id}
      BY <1>4
    <3> QED
      BY <3>1, <3>3, <3>4
  <2>2. \A u, y \in users' : (u.id = y.id \/ Lower(u.email) = Lower(y.email)) => u = y
    <3>1. \A u \in users' : Lower(u.email) = u.email
      BY <1>1, <1>4, PlainAddresses DEF JoiningTypes
    <3>2. \A u, y \in users : (u.id = y.id \/ u.email = y.email) => u = y
      BY <3>1, <1>1, <1>4 DEF RegistrationIsAtomic
    <3> QED
      BY <3>1, <3>2, <1>4, <1>10
  <2>3. ASSUME NEW m \in told'
        PROVE  /\ m.code = "CREATED" => [id |-> m.id, email |-> m.email] \in users'
               /\ m.code = "EMAIL_TAKEN" => \E u \in users' : Lower(u.email) = m.email
    <3>1. CASE m \in told
      BY <3>1, <1>1, <1>4 DEF RegistrationIsAtomic
    <3>2. CASE m = r
      BY <3>2, <1>3, <1>4, <1>7
    <3> QED
      BY <3>1, <3>2, <1>6
  <2> QED
    BY <2>1, <2>2, <2>3 DEF RegistrationIsAtomic, Lower
<1>13. \A g \in Handlers : InTransaction(g)' => g # h /\ InTransaction(g) /\ joining'[g] = joining[g]
  BY <1>8, <1>9 DEF InTransaction
<1>14. ASSUME NEW g \in Handlers, InTransaction(g)' PROVE JoinOK(g)'
  <2>1. g # h /\ JoinOK(g) /\ InTransaction(g) /\ joining'[g] = joining[g]
    BY <1>1, <1>13, <1>14
  <2>2. v.id # joining[g].id /\ v.email # joining[g].email
    BY <2>1, <1>2, <1>4 DEF JoinOK
  <2>3. \A u \in users' : u.id # joining[g].id /\ u.email # joining[g].email
    BY <2>1, <2>2, <1>4 DEF JoinOK
  <2>4. \A k \in Handlers \ {g} : InTransaction(k)' =>
             joining'[k].id # joining'[g].id /\ joining'[k].email # joining'[g].email
    BY <2>1, <1>13 DEF JoinOK
  <2> QED
    BY <2>1, <2>3, <2>4 DEF JoinOK
<1> QED
  BY <1>11, <1>12, <1>14 DEF JoiningInv, JoinOK

(* INSERT INTO accounts, inside the transaction.                           *)
LEMMA WalletInserted ==
  ASSUME JoiningInv, NEW h \in Handlers, InsertWallet(h)
  PROVE  JoiningInv'
<1>1. JoiningTypes /\ RegistrationIsAtomic /\ \A g \in Handlers : JoinOK(g)
  BY DEF JoiningInv
<1>2. PICK j : j = [joining[h] EXCEPT !.at = "commit"]
  OBVIOUS
<1>3. /\ joining[h].at = "insert wallet" /\ joining' = [joining EXCEPT ![h] = j]
      /\ UNCHANGED <<users, wallets, told>>
  BY <1>2 DEF InsertWallet
<1>4. joining[h] \in Joins /\ joining[h].email \in Plain
  BY <1>1, <1>3 DEF JoiningTypes
<1>5. /\ j \in Joins /\ j.at = "commit" /\ j.id = joining[h].id /\ j.email = joining[h].email
  BY <1>2, <1>4 DEF Joins
<1>6. \A g \in Handlers : joining'[g] = IF g = h THEN j ELSE joining[g]
  BY <1>1, <1>3 DEF JoiningTypes
<1>7. JoiningTypes'
  <2>1. joining' \in [Handlers -> Joins]
    BY <1>1, <1>3, <1>5 DEF JoiningTypes
  <2> QED
    BY <2>1, <1>1, <1>3, <1>4, <1>5, <1>6 DEF JoiningTypes
<1>8. RegistrationIsAtomic'
  BY <1>1, <1>3 DEF RegistrationIsAtomic, Lower
<1>9. \A g \in Handlers : /\ joining'[g].id = joining[g].id /\ joining'[g].email = joining[g].email
                          /\ InTransaction(g)' => InTransaction(g)
  BY <1>3, <1>5, <1>6 DEF InTransaction
<1>10. ASSUME NEW g \in Handlers, InTransaction(g)' PROVE JoinOK(g)'
  <2>1. /\ \A u \in users : u.id # joining[g].id /\ u.email # joining[g].email
        /\ \A k \in Handlers \ {g} : InTransaction(k) =>
             joining[k].id # joining[g].id /\ joining[k].email # joining[g].email
    BY <1>1, <1>9, <1>10 DEF JoinOK
  <2>2. /\ \A u \in users' : u.id # joining'[g].id /\ u.email # joining'[g].email
        /\ \A k \in Handlers \ {g} : InTransaction(k)' =>
             joining'[k].id # joining'[g].id /\ joining'[k].email # joining'[g].email
    BY <2>1, <1>3, <1>9
  <2> QED
    BY <2>2 DEF JoinOK
<1> QED
  BY <1>7, <1>8, <1>10 DEF JoiningInv, JoinOK

----------------------------------------------------------------------------
(* The endpoints together.                                                 *)

AuthInv == SessionsInv /\ JoiningInv

(* Before the first request.                                               *)
LEMMA AuthStarts ==
  ASSUME AuthInit
  PROVE  AuthInv
<1>1. /\ tokens = <<>> /\ loggedOut = {} /\ work = [h \in Handlers |-> Idle]
      /\ users = {} /\ wallets = {} /\ told = {} /\ joining = [h \in Handlers |-> NoJoin]
  BY DEF AuthInit, Init
<1>2. Ids = {}
  BY <1>1 DEF Ids
<1>3. Idle \in Works /\ Idle.at = "idle" /\ NoJoin \in Joins /\ NoJoin.at = "idle"
  BY DEF Idle, Works, NoToken, NoJoin, Joins
<1>4. \A h \in Handlers : work[h].at = "idle" /\ joining[h].at = "idle"
  BY <1>1, <1>3
<1>5. TypesOK
  BY <1>1, <1>3, <1>4 DEF TypesOK
<1>6. TokensOK /\ LoggedOutOK /\ RotationIsLinear /\ LogoutIsFinal /\ CarriersOK
  BY <1>1, <1>2 DEF TokensOK, LoggedOutOK, RotationIsLinear, LogoutIsFinal, CarriersOK
<1>7. ASSUME NEW h \in Handlers PROVE WorkOK(h) /\ JoinOK(h)
  BY <1>2, <1>4 DEF WorkOK, JoinOK, InTransaction
<1>8. JoiningTypes
  BY <1>1, <1>3, <1>4, FS_EmptySet DEF JoiningTypes
<1>9. RegistrationIsAtomic
  BY <1>1 DEF RegistrationIsAtomic
<1> QED
  BY <1>5, <1>6, <1>7, <1>8, <1>9 DEF AuthInv, SessionsInv, JoiningInv

(* A step of registration leaves the sessions alone, a step of a session the users. *)
LEMMA UntouchedParts ==
  /\ (SessionsInv /\ UNCHANGED <<tokens, work, loggedOut, ended>>) => SessionsInv'
  /\ (JoiningInv /\ UNCHANGED authVars) => JoiningInv'
<1>1. ASSUME SessionsInv, UNCHANGED <<tokens, work, loggedOut, ended>> PROVE SessionsInv'
  <2>1. tokens' = tokens /\ work' = work /\ loggedOut' = loggedOut /\ ended' = ended
    BY <1>1
  <2>2. /\ TypesOK' /\ TokensOK' /\ LoggedOutOK' /\ RotationIsLinear' /\ LogoutIsFinal'
    BY <1>1, <2>1 DEF SessionsInv, TypesOK, TokensOK, LoggedOutOK, RotationIsLinear,
                      LogoutIsFinal, Live, Ids
  <2>3. ASSUME NEW h \in Handlers PROVE WorkOK(h)'
    <3>1. WorkOK(h)
      BY <1>1 DEF SessionsInv
    <3> QED
      BY <2>1, <3>1 DEF WorkOK, Replaces, Live, Ids
  <2>4. \A s : LiveIn(s)' = LiveIn(s) /\ Storing(s)' = Storing(s)
    BY <2>1 DEF LiveIn, Storing, Live, SessionOf, Ids
  <2>5. \A s : OneCarrier(s)' = OneCarrier(s)
    BY <2>1, <2>4 DEF OneCarrier, Ids
  <2>6. CarriersOK'
    BY <1>1, <2>1, <2>5 DEF SessionsInv, CarriersOK, SessionOf, Ids
  <2> QED
    BY <2>2, <2>3, <2>6 DEF SessionsInv
<1>2. ASSUME JoiningInv, UNCHANGED authVars PROVE JoiningInv'
  <2>1. users' = users /\ wallets' = wallets /\ joining' = joining /\ told' = told
    BY <1>2 DEF authVars
  <2>2. JoiningTypes' /\ RegistrationIsAtomic'
    BY <1>2, <2>1 DEF JoiningInv, JoiningTypes, RegistrationIsAtomic, Lower
  <2>3. \A h \in Handlers : JoinOK(h)'
    BY <1>2, <2>1 DEF JoiningInv, JoinOK, InTransaction
  <2> QED
    BY <2>2, <2>3 DEF JoiningInv
<1> QED
  BY <1>1, <1>2

(* Every step of a registration.                                           *)
LEMMA RegistrationStep ==
  ASSUME AuthInv, NEW h \in Handlers,
         \/ \E a \in Addresses : Register(h, a)
         \/ InsertUser(h) \/ InsertWallet(h) \/ CommitUser(h)
         \/ CommitUserUnheard(h) \/ RegisterFails(h)
  PROVE  AuthInv'
<1>1. SessionsInv /\ JoiningInv /\ JoiningTypes
  BY DEF AuthInv, JoiningInv
<1>2. UNCHANGED <<tokens, work, loggedOut, ended>>
  BY DEF Register, InsertUser, InsertWallet, CommitUser, CommitUserUnheard, RegisterFails, vars
<1>3. SessionsInv'
  BY <1>1, <1>2, UntouchedParts
<1> SUFFICES JoiningInv'
  BY <1>3 DEF AuthInv
<1>4. NoJoin \in Joins /\ NoJoin.at = "idle"
  BY DEF NoJoin, Joins
<1>5. ASSUME NEW a \in Addresses, Register(h, a) PROVE JoiningInv'
  <2>1. Normalize(a) \in Plain
    BY <1>5, PlainAddresses DEF Register
  <2>2. PICK j : j = [at |-> "insert user", email |-> Normalize(a), id |-> 0]
    OBVIOUS
  <2>3. j \in Joins /\ j.at = "insert user" /\ j.email \in Plain
    BY <2>1, <2>2 DEF Joins, Plain
  <2>4. joining' = [joining EXCEPT ![h] = j] /\ UNCHANGED <<users, wallets, told>>
    BY <2>2, <1>5 DEF Register
  <2> QED
    BY <2>3, <2>4, <1>1, RefusedOrBegun
<1>6. ASSUME NEW c \in {"EMAIL_TAKEN", "INTERNAL"}, Tell(h, c), joining[h].at # "idle",
             UNCHANGED <<users, wallets>>, c = "EMAIL_TAKEN" => EmailTaken(h)
      PROVE  JoiningInv'
  <2>1. joining[h].email \in Plain
    BY <1>1, <1>6 DEF JoiningTypes
  <2>2. PICK r : r = [email |-> joining[h].email, code |-> c,
                      id |-> IF c = "CREATED" THEN joining[h].id ELSE 0]
    OBVIOUS
  <2>3. told' = told \union {r} /\ joining' = [joining EXCEPT ![h] = NoJoin]
    BY <2>1, <2>2, <1>6, PlainAddresses DEF Tell
  <2>4. r.code = c /\ r.email = joining[h].email
    BY <2>2
  <2>5. c = "EMAIL_TAKEN" => \E u \in users : Lower(u.email) = r.email
    BY <2>1, <2>4, <1>6, PlainAddresses DEF EmailTaken
  <2> QED
    BY <2>3, <2>4, <2>5, <1>1, <1>4, <1>6, RefusedOrBegun
<1>7. CASE InsertUser(h)
  <2>1. CASE EmailTaken(h)
    BY <2>1, <1>6, <1>7 DEF InsertUser
  <2> QED
    BY <2>1, <1>1, <1>7, UserInserted
<1>8. CASE InsertWallet(h)
  BY <1>1, <1>8, WalletInserted
<1>9. CASE CommitUser(h) \/ CommitUserUnheard(h)
  BY <1>1, <1>9, UserCommitted DEF CommitUser, CommitUserUnheard
<1>10. CASE RegisterFails(h)
  BY <1>6, <1>10 DEF RegisterFails
<1> QED
  BY <1>5, <1>7, <1>8, <1>9, <1>10

(* The inductive invariant, for every number of users, handlers and tokens.  *)
THEOREM AuthInvariance == AuthSpec => []AuthInv
<1>1. AuthInit => AuthInv
  BY AuthStarts
<1>2. AuthInv /\ [AuthNext]_allVars => AuthInv'
  <2> SUFFICES ASSUME AuthInv, [AuthNext]_allVars PROVE AuthInv'
    OBVIOUS
  <2>1. SessionsInv /\ JoiningInv /\ JoiningTypes
    BY DEF AuthInv, JoiningInv
  <2>2. CASE UNCHANGED allVars
    <3>1. UNCHANGED <<tokens, work, loggedOut, ended>> /\ UNCHANGED authVars
      BY <2>2 DEF allVars, vars
    <3> QED
      BY <3>1, <2>1, UntouchedParts DEF AuthInv
  <2>3. ASSUME NEW h \in Handlers, NEW a \in Addresses, LoginAs(h, a) PROVE AuthInv'
    <3>1. PICK u \in Found(a) : Login(h, u.email.name)
      BY <2>3 DEF LoginAs
    <3>2. u.email \in Plain
      BY <3>1, <2>1 DEF Found, JoiningTypes
    <3>3. u.email.name \in Users
      BY <3>2 DEF Plain
    <3>4. UNCHANGED authVars
      BY <2>3 DEF LoginAs
    <3> QED
      BY <3>1, <3>3, <3>4, <2>1, BeginningStep, UntouchedParts DEF AuthInv
  <2>4. ASSUME NEW h \in Handlers, NEW t \in Presented, Refresh(h, t) \/ Logout(h, t),
               UNCHANGED authVars
        PROVE  AuthInv'
    BY <2>1, <2>4, BeginningStep, UntouchedParts DEF AuthInv
  <2>5. ASSUME NEW h \in Handlers, Proceed(h), UNCHANGED authVars PROVE AuthInv'
    BY <2>1, <2>5, ProceedingStep, UntouchedParts DEF AuthInv
  <2>6. ASSUME NEW t \in Ids, Expire(t), UNCHANGED authVars PROVE AuthInv'
    BY <2>1, <2>6, ExpiringStep, UntouchedParts DEF AuthInv
  <2> QED
    BY <2>2, <2>3, <2>4, <2>5, <2>6, RegistrationStep DEF AuthNext
<1> QED
  BY <1>1, <1>2, PTL DEF AuthSpec

(* However many refreshes present one token at once, one of them exchanges it
   (service/auth.go Refresh, token_repo.go Revoke).                          *)
THEOREM RotationsAreLinear == AuthSpec => []RotationIsLinear
<1>1. AuthInv => RotationIsLinear
  BY DEF AuthInv, SessionsInv
<1> QED
  BY <1>1, AuthInvariance, PTL

(* No refresh, not even one that had read the token before, exchanges a token that a
   logout has revoked (service/auth.go Logout, Refresh).                     *)
THEOREM LogoutsAreFinal == AuthSpec => []LogoutIsFinal
<1>1. AuthInv => LogoutIsFinal
  BY DEF AuthInv, SessionsInv
<1> QED
  BY <1>1, AuthInvariance, PTL

(* A session that nothing has ended has one live token, or one that a refresh is about
   to store (service/auth.go Refresh, token_repo.go RevokeAllForUser).       *)
THEOREM SessionsGoOn == AuthSpec => []SessionGoesOn
<1>1. AuthInv => SessionGoesOn
  <2> SUFFICES ASSUME AuthInv, NEW s \in {SessionOf(t) : t \in Ids} \ ended
               PROVE  Cardinality(LiveIn(s)) + Cardinality(Storing(s)) = 1
    BY DEF SessionGoesOn, LiveIn
  <2>1. OneCarrier(s)
    BY DEF AuthInv, SessionsInv, CarriersOK
  <2>2. CASE Storing(s) = {} /\ \E t \in Ids : LiveIn(s) = {t}
    <3>1. Cardinality(Storing(s)) = 0 /\ Cardinality(LiveIn(s)) = 1
      BY <2>2, FS_EmptySet, FS_Singleton, Zenon
    <3> QED
      BY <3>1
  <2>3. CASE LiveIn(s) = {} /\ \E h \in Handlers : Storing(s) = {h}
    <3>1. Cardinality(Storing(s)) = 1 /\ Cardinality(LiveIn(s)) = 0
      BY <2>3, FS_EmptySet, FS_Singleton, Zenon
    <3> QED
      BY <3>1
  <2> QED
    BY <2>1, <2>2, <2>3 DEF OneCarrier
<1> QED
  BY <1>1, AuthInvariance, PTL

(* Registrations that race for one address, fail or lose their answer never leave a
   user without a wallet, two users with one address, or an answer that the table does
   not bear out (user_repo.go CreateWithWallet).                             *)
THEOREM RegistrationsAreAtomic == AuthSpec => []RegistrationIsAtomic
<1>1. AuthInv => RegistrationIsAtomic
  BY DEF AuthInv, JoiningInv
<1> QED
  BY <1>1, AuthInvariance, PTL
=============================================================================
