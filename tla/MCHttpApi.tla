----------------------------- MODULE MCHttpApi -----------------------------
(***************************************************************************)
(* Two users with wallets, an administrator without one and a stranger,    *)
(* who reuse keys for the same and for different requests, some of which   *)
(* cannot be read or stored.                                               *)
(***************************************************************************)
EXTENDS HttpApi

CONSTANT T2       \* a transaction id

Cash == 1
Ani  == 2
Budi == 3
Shards == {4, 5}

TypeOf == [a \in Accounts |-> IF a = Cash THEN "SYSTEM_CASH"
                              ELSE IF a \in Shards THEN "SYSTEM_FEE_REVENUE"
                              ELSE "USER_WALLET"]

UserAni == 1
UserBudi == 2
Admin == 3
Stranger == 7

Wallets == (UserAni :> Ani) @@ (UserBudi :> Budi)

Req(op, amount, target) ==
  [op |-> op, amount |-> amount, target |-> target, long |-> FALSE, body |-> "ok"]

Requests == [h \in {"topup", "transfer", "withdraw", "reverse 2", "reverse long",
                    "get 2", "wallet", "trial", "torn", "nul"} |->
  CASE h = "topup"        -> Req("topup", 3, Cash)
    [] h = "transfer"     -> Req("transfer", 1, Budi)
    [] h = "withdraw"     -> Req("withdraw", 1, Cash)
    [] h = "reverse 2"    -> Req("reverse", 0, T2)
    [] h = "reverse long" -> [Req("reverse", 0, T2) EXCEPT !.long = TRUE]
    [] h = "get 2"        -> Req("get", 0, T2)
    [] h = "wallet"       -> Req("wallet", 0, Cash)
    [] h = "trial"        -> Req("trial", 0, Cash)
    [] h = "torn"         -> [Req("topup", 1, Cash) EXCEPT !.body = "cut off"]
    [] h = "nul"          -> Req("topup", 1, Cash)]

RequestHashes == DOMAIN Requests

Pairs(sends) == UNION {{<<who, h>> : h \in sends[who]} : who \in DOMAIN sends}

Sent == Pairs(
  UserAni :> {"topup", "transfer", "torn", "nul"} @@
  UserBudi :> {"get 2", "withdraw", "wallet"} @@
  Admin :> {"reverse 2", "reverse long", "wallet"} @@
  Stranger :> {"trial"})

Topups == Pairs(UserAni :> {"topup"})

NoOrders == {}

Alike == Permutations(Sessions) \union Permutations(Keys)
============================================================================
