----------------------------- MODULE ApiServer ------------------------------
(***************************************************************************)
(* cmd/api: the life of one api process.  run refuses to start when a      *)
(* dependency is not there, Serve serves until SIGTERM, lets requests in   *)
(* progress finish for at most ShutdownWait, and the deferred closes run.  *)
(* A request is what it does to the process: it passes the limiter, holds  *)
(* a connection of the pool for a while and writes its answer.             *)
(***************************************************************************)
EXTENDS Integers, FiniteSets

CONSTANTS
  Configs,       \* environments the process may be started with
  Requests,
  Probes,        \* the requests that ask /readyz
  MaxConns,      \* pool.go maxConns
  SeedFile,      \* the migration that seeds the system accounts
  LastFile,      \* the last migration
  MaxStarts      \* bound on the starts of the process

ASSUME ApiAssumption ==
  /\ Configs \subseteq [env : STRING, secret : Nat, fee : Int, min : Int, max : Int,
                        access : Int, refresh : Int, wait : Int, interval : Int,
                        migrate : BOOLEAN, redis : BOOLEAN]
  /\ Probes \subseteq Requests
  /\ MaxConns \in Nat \ {0} /\ MaxStarts \in Nat
  /\ LastFile \in Nat /\ SeedFile \in 1 .. LastFile

VARIABLES
  phase,         \* where run is
  cfg,           \* what config.Load has read
  schema,        \* the migrations applied, and the dirty mark of schema_migrations
  pool,          \* "closed", "open", "closing"
  redis,         \* the limiters have an open Redis client
  held,          \* who holds a connection of the pool
  ready,         \* Readiness
  reqs,          \* by request: how far it is, or how it ended
  job,           \* the periodic check of the ledger
  signalled,     \* SIGTERM has cancelled ctx
  elapsed,       \* ShutdownWait is over
  broken,        \* srv.Serve has failed
  starts

vars == <<phase, cfg, schema, pool, redis, held, ready, reqs, job,
          signalled, elapsed, broken, starts>>

life   == <<cfg, signalled, elapsed, broken, starts>>
opened == <<pool, redis, held>>
served == <<ready, reqs, job>>

Job == "job"

NoConfig == [env |-> "", secret |-> 0, fee |-> 0, min |-> 0, max |-> 0, access |-> 0,
             refresh |-> 0, wait |-> 0, interval |-> 0, migrate |-> FALSE, redis |-> FALSE]

\* The requests a goroutine of the process is serving.
InProgress == {r \in Requests : reqs[r] \in {"accepted", "admitted", "holding", "writing"}}

Goto(p) == phase' = p
Becomes(r, s) == reqs' = [reqs EXCEPT ![r] = s]

----------------------------------------------------------------------------
(* Start-up.                                                               *)

\* Config.validate.
ConfigError(c) ==
  \/ c.env \notin {"development", "production", "test"}
  \/ c.env = "production" /\ c.secret < 32
  \/ c.fee < 0
  \/ c.min <= 0 \/ c.max <= c.min
  \/ c.access <= 0 \/ c.refresh <= c.access
  \/ c.wait <= 0 \/ c.interval <= 0

\* NewJWT, whatever the environment is called.
JWTError(c) == c.secret < 32 \/ c.access <= 0

\* NewLedger that trusts the migrations.
LedgerErrorOfConfig(c) == c.fee < 0 \/ c.min <= 0 \/ c.max < c.min

\* NewLedger: the system accounts must be there.
LedgerError(c) ==
  \/ c.fee < 0 \/ c.min <= 0 \/ c.max < c.min
  \/ schema.applied < SeedFile

\* run returns: closeLimiters, then pool.Close, of what was opened.
Fails == Goto("close limiters")

Load ==
  /\ phase = "down" /\ starts < MaxStarts
  /\ starts' = starts + 1
  /\ signalled' = FALSE /\ elapsed' = FALSE /\ broken' = FALSE
  /\ \E c \in Configs :
       IF ConfigError(c)
       THEN UNCHANGED <<phase, cfg>>
       ELSE cfg' = c /\ Goto(IF c.migrate THEN "migrate" ELSE "pool")
  /\ UNCHANGED <<schema, opened, served>>

\* m.Up takes the advisory lock and goes through the files; it is not told of the signal.
MigrateLock ==
  /\ phase = "migrate"
  /\ Goto("locked")
  /\ UNCHANGED <<schema, life, opened, served>>

\* Each file is marked dirty, applied, and marked clean.
MigrateMark ==
  /\ phase = "locked"
  /\ ~schema.dirty /\ schema.applied < LastFile
  /\ schema' = [schema EXCEPT !.dirty = TRUE]
  /\ Goto("apply")
  /\ UNCHANGED <<life, opened, served>>

MigrateApply ==
  /\ phase = "apply"
  /\ schema' = [schema EXCEPT !.applied = @ + 1]
  /\ Goto("applied")
  /\ UNCHANGED <<life, opened, served>>

MigrateClean ==
  /\ phase = "applied"
  /\ schema' = [schema EXCEPT !.dirty = FALSE]
  /\ Goto("locked")
  /\ UNCHANGED <<life, opened, served>>

\* Nothing left to do is no error.
MigrateDone ==
  /\ phase = "locked"
  /\ ~schema.dirty /\ schema.applied = LastFile
  /\ Goto("pool")
  /\ UNCHANGED <<schema, life, opened, served>>

\* A lock not had in time, a dirty schema, or a statement that fails.
MigrateFails ==
  /\ phase \in {"migrate", "locked", "apply", "applied"}
  /\ Fails
  /\ UNCHANGED <<schema, life, opened, served>>

\* NewPool and its Ping; with ctx cancelled it fails.
OpenPool ==
  /\ phase = "pool"
  /\ \/ ~signalled /\ pool' = "open" /\ Goto("limiters")
     \/ UNCHANGED pool /\ Fails
  /\ UNCHANGED <<schema, redis, held, life, served>>

\* newLimiters: in memory, or a Redis that answers Ping.
NewLimiters ==
  /\ phase = "limiters"
  /\ \/ ~cfg.redis /\ UNCHANGED redis /\ Goto("services")
     \/ cfg.redis /\ ~signalled /\ redis' = TRUE /\ Goto("services")
     \/ cfg.redis /\ UNCHANGED redis /\ Fails
  /\ UNCHANGED <<schema, pool, held, life, served>>

\* NewJWT, NewLedger, NewAuth: queries of NewLedger may fail, and do once ctx is cancelled.
NewServices ==
  /\ phase = "services"
  /\ \/ ~JWTError(cfg) /\ ~LedgerError(cfg) /\ ~signalled /\ Goto("listen")
     \/ Fails
  /\ UNCHANGED <<schema, life, opened, served>>

\* Listen, the goroutines, and Serve.
Listen ==
  /\ phase = "listen"
  /\ \/ Goto("serve") /\ ready' = TRUE /\ job' = "idle"
     \/ Fails /\ UNCHANGED <<ready, job>>
  /\ UNCHANGED <<schema, reqs, life, opened>>

----------------------------------------------------------------------------
(* Requests.                                                               *)

\* A connection: in the backlog of the listener until it is accepted.
Send(r) ==
  /\ reqs[r] = "new"
  /\ Becomes(r, IF phase = "serve" THEN "sent" ELSE "refused")
  /\ UNCHANGED <<phase, schema, ready, job, life, opened>>

\* srv.Serve starts a goroutine.
Accept(r) ==
  /\ phase = "serve" /\ reqs[r] = "sent"
  /\ Becomes(r, "accepted")
  /\ UNCHANGED <<phase, schema, life, opened, ready, job>>

\* /readyz of a process that is stopping answers at once.  For others, the middlewares
\* may refuse, and a limiter that cannot ask its Redis does.
Admit(r) ==
  /\ reqs[r] = "accepted"
  /\ \/ (IF r \in Probes THEN ready ELSE cfg.redis => redis) /\ Becomes(r, "admitted")
     \/ (r \in Probes => ~ready) /\ Becomes(r, "writing")
  /\ UNCHANGED <<phase, schema, life, opened, ready, job>>

CanAcquire == pool = "open" /\ Cardinality(held) < MaxConns

Acquire(r) ==
  /\ reqs[r] = "admitted" /\ CanAcquire
  /\ held' = held \union {r}
  /\ Becomes(r, "holding")
  /\ UNCHANGED <<phase, schema, pool, redis, ready, job, life>>

\* The deadline of the request (or of the probe) passes, or the pool is closed.
AcquireFails(r) ==
  /\ reqs[r] = "admitted"
  /\ Becomes(r, "writing")
  /\ UNCHANGED <<phase, schema, ready, job, life, opened>>

\* An error path without the deferred Rollback.
RollbackForgotten(r) == held

\* The deferred Rollback gives the connection back.
RolledBack(r) == held \ {r}

\* The transaction commits, or an error or the deadline ends it.
Finish(r) ==
  /\ reqs[r] = "holding"
  /\ \/ held' = held \ {r}
     \/ held' = RolledBack(r)
  /\ Becomes(r, "writing")
  /\ UNCHANGED <<phase, schema, pool, redis, ready, job, life>>

Answer(r) ==
  /\ reqs[r] = "writing"
  /\ Becomes(r, "answered")
  /\ UNCHANGED <<phase, schema, ready, job, life, opened>>

----------------------------------------------------------------------------
(* RunPeriodic, and the job that reads the drift and then the trial balance. *)

JobRests == job' = "idle" /\ held' = held \ {Job}

\* The ticker: each of the two queries takes a connection of its own.
JobQuery ==
  /\ job \in {"idle", "between"} /\ ~signalled /\ CanAcquire
  /\ job' = IF job = "idle" THEN "drift" ELSE "trial"
  /\ held' = held \union {Job}
  /\ UNCHANGED <<phase, schema, pool, redis, ready, reqs, life>>

JobAnswer ==
  /\ \/ job = "drift" /\ job' = "between" /\ held' = held \ {Job}
     \/ job = "trial" /\ JobRests
  /\ UNCHANGED <<phase, schema, pool, redis, ready, reqs, life>>

\* A query fails, or interval is over before the job is.
JobFails ==
  /\ job \in {"drift", "between", "trial"}
  /\ JobRests
  /\ UNCHANGED <<phase, schema, pool, redis, ready, reqs, life>>

\* ctx is cancelled, under a query too.
JobStops ==
  /\ job # "off" /\ signalled
  /\ job' = "off" /\ held' = held \ {Job}
  /\ UNCHANGED <<phase, schema, pool, redis, ready, reqs, life>>

----------------------------------------------------------------------------
(* Serve and what is deferred.                                             *)

\* NotifyContext: from the load of the configuration on.
Signal ==
  /\ phase # "down" /\ ~signalled
  /\ signalled' = TRUE
  /\ UNCHANGED <<phase, cfg, schema, elapsed, broken, starts, opened, served>>

\* The listener is closed: what waits in its backlog is reset.
BacklogReset == reqs' = [r \in Requests |-> IF reqs[r] = "sent" THEN "refused" ELSE reqs[r]]

\* srv.Serve fails for good, and Serve returns without Shutdown.
ServeFails ==
  /\ phase = "serve" /\ ready
  /\ broken' = TRUE
  /\ BacklogReset
  /\ Fails
  /\ UNCHANGED <<cfg, schema, ready, job, signalled, elapsed, starts, opened>>

\* onStop.
Stop ==
  /\ phase = "serve" /\ ready /\ signalled
  /\ ready' = FALSE
  /\ UNCHANGED <<phase, schema, reqs, job, life, opened>>

\* srv.Shutdown closes the listener first.
Shutdown ==
  /\ phase = "serve" /\ ~ready
  /\ BacklogReset
  /\ Goto("shutdown")
  /\ UNCHANGED <<schema, ready, job, life, opened>>

\* ShutdownWait passes.
Elapse ==
  /\ phase = "shutdown" /\ ~elapsed
  /\ elapsed' = TRUE
  /\ UNCHANGED <<phase, cfg, schema, signalled, broken, starts, opened, served>>

\* A shutdownCtx derived from ctx, which the signal has cancelled.
WaitOverOfCtx == signalled

\* shutdownCtx is done.
WaitOver == elapsed

\* Shutdown returns when no request is in progress, or with an error after its wait.
ShutdownReturns ==
  /\ phase = "shutdown"
  /\ InProgress = {} \/ WaitOver
  /\ Goto("close limiters")
  /\ UNCHANGED <<schema, life, opened, served>>

CloseLimiters ==
  /\ phase = "close limiters"
  /\ redis' = FALSE
  /\ Goto("close pool")
  /\ UNCHANGED <<schema, life, pool, held, served>>

\* pool.Close turns away who asks for a connection from now on.
ClosePool ==
  /\ phase = "close pool" /\ pool = "open"
  /\ pool' = "closing"
  /\ UNCHANGED <<phase, schema, life, redis, held, served>>

\* What the end of the process does to a request in progress.
Ends(r, cut, torn) ==
  IF reqs[r] = "sent" THEN "refused"
  ELSE IF r \notin InProgress THEN reqs[r]
  ELSE IF r \in held THEN torn ELSE cut

Gone(cut, torn) ==
  /\ Goto("down")
  /\ reqs' = [r \in Requests |-> Ends(r, cut, torn)]
  /\ pool' = "closed" /\ redis' = FALSE /\ held' = {} /\ job' = "off" /\ ready' = FALSE
  /\ cfg' = NoConfig
  /\ UNCHANGED <<schema, signalled, elapsed, broken, starts>>

\* pool.Close returns when every connection was given back; the process ends, and with
\* it the goroutines that Shutdown has given up.
Exit ==
  /\ phase = "close pool" /\ pool # "open"
  /\ held = {}
  /\ Gone("cut", "torn")

\* A crash, or a signal nobody can catch.
Kill == phase # "down" /\ Gone("killed", "killed")

----------------------------------------------------------------------------
(* External: a deployment step that migrates, while no process does.       *)

MigrateElsewhere ==
  /\ phase \notin {"locked", "apply", "applied"}
  /\ ~schema.dirty /\ schema.applied < LastFile
  /\ schema' = [schema EXCEPT !.applied = @ + 1]
  /\ UNCHANGED <<phase, life, opened, served>>

----------------------------------------------------------------------------

Init ==
  /\ phase = "down" /\ cfg = NoConfig
  /\ schema = [applied |-> 0, dirty |-> FALSE]
  /\ pool = "closed" /\ redis = FALSE /\ held = {} /\ ready = FALSE
  /\ reqs = [r \in Requests |-> "new"]
  /\ job = "off"
  /\ signalled = FALSE /\ elapsed = FALSE /\ broken = FALSE /\ starts = 0

StartUp ==
  \/ MigrateLock \/ MigrateMark \/ MigrateApply \/ MigrateClean \/ MigrateDone \/ MigrateFails
  \/ OpenPool \/ NewLimiters \/ NewServices \/ Listen

Closing == Stop \/ Shutdown \/ ShutdownReturns \/ CloseLimiters \/ ClosePool \/ Exit

Handle(r) == Accept(r) \/ Admit(r) \/ Acquire(r) \/ AcquireFails(r) \/ Finish(r) \/ Answer(r)

Next ==
  \/ Load \/ StartUp \/ Signal \/ Elapse \/ ServeFails \/ Closing
  \/ JobQuery \/ JobAnswer \/ JobFails \/ JobStops
  \/ MigrateElsewhere \/ Kill
  \/ \E r \in Requests : Send(r) \/ Handle(r)

\* Every step of start-up and of the end is a call that returns; a request in progress
\* has a deadline and its queries a context; timers fire.
Fairness ==
  /\ WF_vars(StartUp) /\ WF_vars(Closing) /\ WF_vars(Elapse) /\ WF_vars(JobStops)
  /\ \A r \in Requests : WF_vars(Handle(r))

Spec == Init /\ [][Next]_vars /\ Fairness

----------------------------------------------------------------------------
(* Properties.                                                             *)

(* Whoever is served is served by a process that was configured soundly (with a secret
   of 32 bytes in every environment) and found its system accounts, also when it was
   started while migrations were running elsewhere or after one that failed (main.go
   run, config.go validate, jwt.go NewJWT, service/ledger.go NewLedger).     *)
ServesOnlyChecked ==
  (phase \in {"serve", "shutdown"} \/ InProgress # {}) =>
    /\ cfg.secret >= 32
    /\ 0 <= cfg.fee /\ 0 < cfg.min /\ cfg.min < cfg.max
    /\ 0 < cfg.access /\ cfg.access < cfg.refresh
    /\ 0 < cfg.wait /\ 0 < cfg.interval
    /\ schema.applied >= SeedFile

(* A request in progress when the signal comes gets its answer, unless ShutdownWait is
   over or the server itself has failed, and even then its transaction is not torn
   (server.go Serve, the order of main.go's defers, pool.Close).             *)
InFlightIsFinished ==
  [][\A r \in InProgress :
       /\ reqs'[r] # "torn"
       /\ reqs'[r] = "cut" => elapsed \/ broken]_vars

(* After SIGTERM the process ends, whatever it was doing: starting, serving, waiting
   for requests, or closing a pool whose connections are in use (main.go run, server.go
   Serve and RunPeriodic).                                                   *)
StopsAfterSignal == signalled ~> phase = "down"
=============================================================================
