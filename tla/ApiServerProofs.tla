-------------------------- MODULE ApiServerProofs --------------------------
(***************************************************************************)
(* ApiServer for any number of requests and starts and any set of          *)
(* environments.                                                           *)
(***************************************************************************)
EXTENDS ApiServer, TLAPS

Phases == {"down", "migrate", "locked", "apply", "applied", "pool", "limiters", "services",
           "listen", "serve", "shutdown", "close limiters", "close pool"}

Stages == {"new", "sent", "refused", "accepted", "admitted", "holding", "writing", "answered",
           "cut", "torn", "killed"}

ProcessTypes ==
  /\ phase \in Phases
  /\ schema \in [applied : Nat, dirty : BOOLEAN]
  /\ reqs \in [Requests -> Stages]

\* What run has found out once it listens; migrations elsewhere only add to it.
Checked == cfg.secret >= 32 /\ schema.applied >= SeedFile

ConfiguredOK == phase # "down" => cfg \in Configs /\ ~ConfigError(cfg)
StartedOK == phase \in {"listen", "serve", "shutdown"} => Checked

\* A goroutine serves a request from the first accept on, and may outlive Serve.
ServingOK ==
  InProgress # {} =>
    phase \in {"serve", "shutdown", "close limiters", "close pool"} /\ Checked

\* but only if Serve had a reason to return before it.
GivenUpOK ==
  (InProgress # {} /\ phase \in {"close limiters", "close pool"}) => elapsed \/ broken

ProcessInv == ProcessTypes /\ ConfiguredOK /\ StartedOK /\ ServingOK /\ GivenUpOK

----------------------------------------------------------------------------

(* config.go validate and main.go run up to Listen: no request is in progress.  *)
LEMMA StartUpStep ==
  ASSUME ProcessInv, Load \/ StartUp
  PROVE  ProcessInv'
<1>1. ProcessTypes /\ ConfiguredOK /\ StartedOK /\ ServingOK
  BY DEF ProcessInv
<1>2. phase \in {"down", "migrate", "locked", "apply", "applied", "pool", "limiters", "services", "listen"}
      /\ reqs' = reqs
  BY DEF Load, StartUp, MigrateLock, MigrateMark, MigrateApply, MigrateClean, MigrateDone,
         MigrateFails, OpenPool, NewLimiters, NewServices, Listen, served
<1>3. InProgress = {} /\ InProgress' = {}
  BY <1>1, <1>2 DEF ServingOK, InProgress
<1>4. phase' \in Phases
  BY <1>1 DEF ProcessTypes, Phases, Goto, Fails, Load, StartUp, MigrateLock, MigrateMark,
     MigrateApply, MigrateClean, MigrateDone, MigrateFails, OpenPool, NewLimiters, NewServices, Listen
<1>5. schema' \in [applied : Nat, dirty : BOOLEAN]
  <2>1. CASE schema' = schema
    BY <2>1, <1>1 DEF ProcessTypes
  <2>2. CASE MigrateApply
    <3>1. schema' = [schema EXCEPT !.applied = schema.applied + 1]
      BY <2>2 DEF MigrateApply
    <3> QED
      BY <3>1, <1>1 DEF ProcessTypes
  <2>3. CASE MigrateMark \/ MigrateClean
    <3>1. schema' = [schema EXCEPT !.dirty = TRUE] \/ schema' = [schema EXCEPT !.dirty = FALSE]
      BY <2>3 DEF MigrateMark, MigrateClean
    <3> QED
      BY <3>1, <1>1 DEF ProcessTypes
  <2> QED
    BY <2>1, <2>2, <2>3 DEF Load, StartUp, MigrateLock, MigrateDone, MigrateFails, OpenPool,
       NewLimiters, NewServices, Listen
<1>6. ProcessTypes'
  BY <1>1, <1>2, <1>4, <1>5 DEF ProcessTypes
<1>7. ConfiguredOK'
  <2>1. CASE Load
    BY <2>1, <1>1 DEF Load, Goto, ConfiguredOK, ConfigError
  <2>2. CASE StartUp
    <3>1. cfg' = cfg /\ phase # "down"
      BY <2>2 DEF StartUp, MigrateLock, MigrateMark, MigrateApply, MigrateClean, MigrateDone,
                  MigrateFails, OpenPool, NewLimiters, NewServices, Listen, life
    <3> QED
      BY <3>1, <1>1 DEF ConfiguredOK, ConfigError
  <2> QED
    BY <2>1, <2>2
<1>8. StartedOK'
  <2>1. CASE NewServices
    <3>1. cfg \in Configs /\ cfg' = cfg /\ schema' = schema
      BY <2>1, <1>1 DEF NewServices, life, ConfiguredOK
    <3>2. phase' \in {"listen", "serve", "shutdown"} => ~JWTError(cfg) /\ ~LedgerError(cfg)
      BY <2>1 DEF NewServices, Goto, Fails
    <3>3. cfg.secret \in Nat /\ schema.applied \in Nat /\ SeedFile \in Nat
      BY <3>1, <1>1, ApiAssumption DEF ProcessTypes
    <3> QED
      BY <3>1, <3>2, <3>3 DEF JWTError, LedgerError, StartedOK, Checked
  <2>2. CASE Listen
    <3>1. phase = "listen" /\ cfg' = cfg /\ schema' = schema
      BY <2>2 DEF Listen, life
    <3> QED
      BY <3>1, <1>1 DEF StartedOK, Checked
  <2>3. CASE ~NewServices /\ ~Listen
    <3>1. phase' \notin {"listen", "serve", "shutdown"}
      BY <2>3, <1>2 DEF Load, StartUp, MigrateLock, MigrateMark, MigrateApply, MigrateClean, MigrateDone,
                  MigrateFails, OpenPool, NewLimiters, Goto, Fails
    <3> QED
      BY <3>1 DEF StartedOK
  <2> QED
    BY <2>1, <2>2, <2>3
<1> QED
  BY <1>3, <1>6, <1>7, <1>8 DEF ProcessInv, ServingOK, GivenUpOK

(* A step that changes neither run, its configuration nor the schema: of a request, of
   the periodic check, a signal or a timer.                                  *)
LEMMA ServingStep ==
  ASSUME ProcessInv, UNCHANGED <<phase, cfg, schema, broken>>, elapsed => elapsed',
         reqs' \in [Requests -> Stages],
         InProgress' # {} => InProgress # {} \/ phase = "serve"
  PROVE  ProcessInv'
<1>1. ProcessTypes /\ ConfiguredOK /\ StartedOK /\ ServingOK /\ GivenUpOK
  BY DEF ProcessInv
<1>2. ProcessTypes' /\ ConfiguredOK' /\ StartedOK'
  BY <1>1 DEF ProcessTypes, ConfiguredOK, StartedOK, Checked, ConfigError
<1>3. ServingOK' /\ GivenUpOK'
  BY <1>1 DEF ServingOK, GivenUpOK, StartedOK, Checked
<1> QED
  BY <1>2, <1>3 DEF ProcessInv

(* The steps of requests, and those that concern no request.               *)
LEMMA RequestStep ==
  ASSUME ProcessInv,
         \/ \E r \in Requests : Send(r) \/ Handle(r)
         \/ JobQuery \/ JobAnswer \/ JobFails \/ JobStops \/ Signal \/ Elapse \/ Stop \/ ClosePool
  PROVE  ProcessInv'
<1>1. ProcessTypes
  BY DEF ProcessInv
<1>2. ASSUME NEW r \in Requests, Send(r) \/ Handle(r) PROVE ProcessInv'
  <2>1. UNCHANGED <<phase, cfg, schema, broken, elapsed>>
    BY <1>2 DEF Send, Handle, Accept, Admit, Acquire, AcquireFails, Finish, Answer, life
  <2>2. PICK s \in Stages : /\ reqs' = [reqs EXCEPT ![r] = s]
                            /\ s \in {"sent", "refused"} \/ r \in InProgress \/ phase = "serve"
    BY <1>2 DEF Send, Handle, Accept, Admit, Acquire, AcquireFails, Finish, Answer, Becomes,
                Stages, InProgress
  <2>3. reqs' \in [Requests -> Stages]
    BY <2>2, <1>1 DEF ProcessTypes
  <2>4. InProgress' # {} => InProgress # {} \/ phase = "serve"
    BY <2>2, <1>1 DEF InProgress, ProcessTypes
  <2> QED
    BY <2>1, <2>3, <2>4, ServingStep
<1>3. ASSUME JobQuery \/ JobAnswer \/ JobFails \/ JobStops \/ Signal \/ Elapse \/ Stop \/ ClosePool
      PROVE  ProcessInv'
  <2>1. UNCHANGED <<phase, cfg, schema, broken>> /\ reqs' = reqs
    BY <1>3 DEF JobQuery, JobAnswer, JobFails, JobStops, Signal, Elapse, Stop, ClosePool, life, served
  <2>2. elapsed => elapsed'
    BY <1>3 DEF JobQuery, JobAnswer, JobFails, JobStops, Signal, Elapse, Stop, ClosePool, life
  <2> QED
    BY <2>1, <2>2, <1>1, ServingStep DEF ProcessTypes, InProgress
<1> QED
  BY <1>2, <1>3

(* server.go Serve from its end on, and what main.go defers.               *)
LEMMA ClosingStep ==
  ASSUME ProcessInv, ServeFails \/ Shutdown \/ ShutdownReturns \/ CloseLimiters
  PROVE  ProcessInv'
<1>1. ProcessTypes /\ ConfiguredOK /\ StartedOK /\ ServingOK /\ GivenUpOK
  BY DEF ProcessInv
<1>2. /\ UNCHANGED <<cfg, schema, elapsed>> /\ (broken => broken')
      /\ phase \in {"serve", "shutdown", "close limiters"}
      /\ phase' \in {"shutdown", "close limiters", "close pool"}
      /\ phase' = "shutdown" => phase = "serve"
  <2>1. CASE ServeFails
    BY <2>1 DEF ServeFails, Goto, Fails
  <2>2. CASE Shutdown \/ ShutdownReturns \/ CloseLimiters
    <3>1. UNCHANGED <<cfg, schema, elapsed, broken>>
      BY <2>2 DEF Shutdown, ShutdownReturns, CloseLimiters, life
    <3>2. /\ phase \in {"serve", "shutdown", "close limiters"}
          /\ phase' \in {"shutdown", "close limiters", "close pool"}
          /\ phase' = "shutdown" => phase = "serve"
      BY <2>2 DEF Shutdown, ShutdownReturns, CloseLimiters, Goto
    <3> QED
      BY <3>1, <3>2
  <2> QED
    BY <2>1, <2>2
<1>3. reqs' = [r \in Requests |-> IF reqs[r] = "sent" THEN "refused" ELSE reqs[r]] \/ reqs' = reqs
  BY DEF ServeFails, Shutdown, ShutdownReturns, CloseLimiters, BacklogReset, served
<1>4. reqs' \in [Requests -> Stages] /\ InProgress' = InProgress
  <2>1. reqs' \in [Requests -> Stages]
    BY <1>1, <1>3 DEF ProcessTypes, Stages
  <2>2. \A r \in Requests : reqs'[r] = reqs[r] \/ (reqs[r] = "sent" /\ reqs'[r] = "refused")
    BY <1>3
  <2> QED
    BY <2>1, <2>2 DEF InProgress
<1>5. ProcessTypes' /\ ConfiguredOK' /\ StartedOK' /\ ServingOK'
  BY <1>1, <1>2, <1>4 DEF ProcessTypes, Phases, ConfiguredOK, ConfigError, StartedOK, ServingOK, Checked
<1>6. GivenUpOK'
  <2>1. CASE ServeFails
    <3>1. broken' = TRUE
      BY <2>1 DEF ServeFails
    <3> QED
      BY <3>1 DEF GivenUpOK
  <2>2. CASE ShutdownReturns
    BY <2>2, <1>2, <1>4 DEF ShutdownReturns, WaitOver, GivenUpOK
  <2>3. CASE Shutdown
    BY <2>3 DEF Shutdown, Goto, GivenUpOK
  <2>4. CASE CloseLimiters
    BY <2>4, <1>1, <1>2, <1>4 DEF CloseLimiters, GivenUpOK
  <2> QED
    BY <2>1, <2>2, <2>3, <2>4
<1> QED
  BY <1>5, <1>6 DEF ProcessInv

(* The end of the process: nobody is served any more.                      *)
LEMMA EndingStep ==
  ASSUME ProcessInv, Exit \/ Kill
  PROVE  ProcessInv'
<1>1. ProcessTypes
  BY DEF ProcessInv
<1>2. PICK cut \in {"cut", "killed"}, torn \in {"torn", "killed"} : Gone(cut, torn)
  BY DEF Exit, Kill
<1>3. phase' = "down" /\ schema' = schema /\ reqs' = [r \in Requests |-> Ends(r, cut, torn)]
  BY <1>2 DEF Gone, Goto
<1>4. reqs' \in [Requests -> Stages] /\ InProgress' = {}
  BY <1>1, <1>3 DEF Ends, InProgress, ProcessTypes, Stages
<1> QED
  BY <1>1, <1>3, <1>4 DEF ProcessInv, ProcessTypes, Phases, ConfiguredOK, StartedOK, ServingOK, GivenUpOK

(* Migrations of others only add to the schema.                            *)
LEMMA MigratingStep ==
  ASSUME ProcessInv, MigrateElsewhere
  PROVE  ProcessInv'
<1>1. ProcessTypes /\ ConfiguredOK /\ StartedOK /\ ServingOK /\ GivenUpOK
  BY DEF ProcessInv
<1>2. UNCHANGED <<phase, cfg, elapsed, broken, reqs>> /\ schema' = [schema EXCEPT !.applied = schema.applied + 1]
  BY DEF MigrateElsewhere, life, served
<1>3. /\ schema' \in [applied : Nat, dirty : BOOLEAN] /\ schema'.applied = schema.applied + 1
      /\ schema.applied \in Nat /\ SeedFile \in Nat
  BY <1>1, <1>2, ApiAssumption DEF ProcessTypes
<1>4. Checked => Checked'
  BY <1>2, <1>3 DEF Checked
<1>5. InProgress' = InProgress
  BY <1>2 DEF InProgress
<1> QED
  BY <1>1, <1>2, <1>3, <1>4, <1>5 DEF ProcessInv, ProcessTypes, ConfiguredOK, ConfigError, StartedOK,
     ServingOK, GivenUpOK

----------------------------------------------------------------------------

(* The inductive invariant of the process.                                 *)
THEOREM ProcessInvariance == Spec => []ProcessInv
<1>1. Init => ProcessInv
  <2> SUFFICES ASSUME Init PROVE ProcessInv
    OBVIOUS
  <2>1. ProcessTypes /\ phase = "down"
    BY DEF Init, ProcessTypes, Phases, Stages
  <2>2. InProgress = {}
    BY DEF Init, InProgress
  <2> QED
    BY <2>1, <2>2 DEF ProcessInv, ConfiguredOK, StartedOK, ServingOK, GivenUpOK
<1>2. ProcessInv /\ [Next]_vars => ProcessInv'
  <2> SUFFICES ASSUME ProcessInv, [Next]_vars PROVE ProcessInv'
    OBVIOUS
  <2>1. CASE Next
    BY <2>1, StartUpStep, RequestStep, ClosingStep, EndingStep, MigratingStep DEF Next, Closing
  <2>2. CASE UNCHANGED vars
    <3>1. UNCHANGED <<phase, cfg, schema, broken>> /\ elapsed' = elapsed /\ reqs' = reqs
      BY <2>2 DEF vars
    <3> QED
      BY <3>1, ServingStep DEF ProcessInv, ProcessTypes, InProgress
  <2> QED
    BY <2>1, <2>2
<1> QED
  BY <1>1, <1>2, PTL DEF Spec

(* In every environment and however migrations race the start, whoever is served is
   served by a process that passed all the checks of run (main.go run, config.go
   validate, jwt.go NewJWT, service/ledger.go NewLedger).                    *)
THEOREM OnlyCheckedProcessesServe == Spec => []ServesOnlyChecked
<1>1. ProcessInv => ServesOnlyChecked
  <2> SUFFICES ASSUME ProcessInv, phase \in {"serve", "shutdown"} \/ InProgress # {}
               PROVE  /\ cfg.secret >= 32
                      /\ 0 <= cfg.fee /\ 0 < cfg.min /\ cfg.min < cfg.max
                      /\ 0 < cfg.access /\ cfg.access < cfg.refresh
                      /\ 0 < cfg.wait /\ 0 < cfg.interval
                      /\ schema.applied >= SeedFile
    BY DEF ServesOnlyChecked
  <2>1. Checked /\ phase # "down"
    BY DEF ProcessInv, ServingOK, StartedOK
  <2>2. cfg \in Configs /\ ~ConfigError(cfg)
    BY <2>1 DEF ProcessInv, ConfiguredOK
  <2>3. /\ cfg.fee \in Int /\ cfg.min \in Int /\ cfg.max \in Int /\ cfg.access \in Int
        /\ cfg.refresh \in Int /\ cfg.wait \in Int /\ cfg.interval \in Int
    BY <2>2, ApiAssumption
  <2> QED
    BY <2>1, <2>2, <2>3 DEF Checked, ConfigError
<1> QED
  BY <1>1, ProcessInvariance, PTL

(* No request in progress is cut off before ShutdownWait is over, unless the server has
   failed, and no transaction is torn even then (server.go Serve, pool.Close).  *)
THEOREM ShutdownIsGraceful == Spec => InFlightIsFinished
<1>1. ProcessInv /\ [Next]_vars =>
        [\A r \in InProgress :
           /\ reqs'[r] # "torn"
           /\ reqs'[r] = "cut" => elapsed \/ broken]_vars
  <2> SUFFICES ASSUME ProcessInv, Next, NEW r \in InProgress
               PROVE  /\ reqs'[r] # "torn"
                      /\ reqs'[r] = "cut" => elapsed \/ broken
    OBVIOUS
  <2>1. ProcessTypes /\ GivenUpOK /\ r \in Requests
    BY DEF ProcessInv, InProgress
  <2>2. reqs[r] \in {"accepted", "admitted", "holding", "writing"}
    BY DEF InProgress
  <2>3. CASE Exit
    <3>1. phase = "close pool" /\ held = {} /\ reqs'[r] = Ends(r, "cut", "torn")
      BY <2>1, <2>3 DEF Exit, Gone
    <3>2. reqs'[r] = "cut"
      BY <3>1, <2>2 DEF Ends
    <3> QED
      BY <3>1, <3>2, <2>1 DEF GivenUpOK
  <2>4. CASE Kill
    <3>1. reqs'[r] = Ends(r, "killed", "killed")
      BY <2>1, <2>4 DEF Kill, Gone
    <3> QED
      BY <3>1, <2>2 DEF Ends
  <2>5. ASSUME NEW q \in Requests, Send(q) \/ Handle(q)
        PROVE  reqs'[r] \notin {"cut", "torn"}
    <3>1. PICK s : reqs' = [reqs EXCEPT ![q] = s] /\ s \notin {"cut", "torn"}
      BY <2>5 DEF Send, Handle, Accept, Admit, Acquire, AcquireFails, Finish, Answer, Becomes
    <3> QED
      BY <3>1, <2>1, <2>2 DEF ProcessTypes
  <2>6. CASE Shutdown \/ ServeFails
    BY <2>1, <2>2, <2>6 DEF Shutdown, ServeFails, BacklogReset
  <2>7. CASE reqs' = reqs
    BY <2>2, <2>7
  <2>8. CASE Load \/ StartUp \/ Signal \/ Elapse \/ Stop \/ ShutdownReturns \/ CloseLimiters \/ ClosePool
             \/ JobQuery \/ JobAnswer \/ JobFails \/ JobStops \/ MigrateElsewhere
    <3>1. reqs' = reqs
      BY <2>8 DEF Load, StartUp, MigrateLock, MigrateMark, MigrateApply, MigrateClean, MigrateDone,
         MigrateFails, OpenPool, NewLimiters, NewServices, Listen, Signal, Elapse, Stop,
         ShutdownReturns, CloseLimiters, ClosePool, JobQuery, JobAnswer, JobFails, JobStops,
         MigrateElsewhere, served
    <3> QED
      BY <3>1, <2>7
  <2> QED
    BY <2>3, <2>4, <2>5, <2>6, <2>8 DEF Next, Closing
<1> QED
  BY <1>1, ProcessInvariance, PTL DEF Spec, InFlightIsFinished
=============================================================================
