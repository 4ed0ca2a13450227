---------------------------- MODULE MCStatement ----------------------------
(***************************************************************************)
(* A wallet that is topped up and withdrawn from while its owner reads.    *)
(***************************************************************************)
EXTENDS Statement

Cash == 1
Ani  == 2

TypeOf == [a \in Accounts |-> IF a = Cash THEN "SYSTEM_CASH" ELSE "USER_WALLET"]

CashPosts == {<<NewTopup(Cash, Ani, 3), <<1, "k1">>, "h">>,
              <<NewTopup(Cash, Ani, 2), <<1, "k2">>, "h">>,
              <<NewWithdraw(Ani, Cash, 1), <<1, "k3">>, "h">>}

CashOrders == {p[1] : p \in CashPosts}

AskedLimits == {-1, 0, 9}
============================================================================
