---------------------------- MODULE MCApiServer -----------------------------
(***************************************************************************)
(* One process, started twice, with sound environments and with each kind  *)
(* of environment that some check of start-up refuses.                     *)
(***************************************************************************)
EXTENDS ApiServer

CONSTANTS r1, r2, r3

Sound == [env |-> "production", secret |-> 32, fee |-> 0, min |-> 1, max |-> 2, access |-> 1,
          refresh |-> 2, wait |-> 1, interval |-> 1, migrate |-> FALSE, redis |-> FALSE]

Environments ==
  {Sound, [Sound EXCEPT !.migrate = TRUE, !.redis = TRUE],
   [Sound EXCEPT !.env = "prod"], [Sound EXCEPT !.secret = 31],
   [Sound EXCEPT !.secret = 31, !.env = "development"], [Sound EXCEPT !.fee = -1],
   [Sound EXCEPT !.max = 1], [Sound EXCEPT !.refresh = 1], [Sound EXCEPT !.interval = 0]}
=============================================================================
