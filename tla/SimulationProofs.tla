-------------------------- MODULE SimulationProofs --------------------------
(***************************************************************************)
(* Machine-checked theorems about Simulation, for a run with any finite    *)
(* number of requests.                                                     *)
(***************************************************************************)
EXTENDS Simulation, FiniteSetTheorems, TLAPS

\* sizes of sets of requests
LEMMA CardType ==
  ASSUME NEW S \in SUBSET Requests
  PROVE  IsFiniteSet(S) /\ Cardinality(S) \in Nat
  BY FS_Subset, FS_CardinalityType, SimulationAssumption

LEMMA CardGrows ==
  ASSUME NEW T \in SUBSET Requests, NEW S \in SUBSET T
  PROVE  Cardinality(S) <= Cardinality(T)
  BY FS_Subset, CardType

LEMMA CardDisjoint ==
  ASSUME NEW S \in SUBSET Requests, NEW T \in SUBSET Requests, S \cap T = {}
  PROVE  Cardinality(S \cup T) = Cardinality(S) + Cardinality(T)
<1>1. IsFiniteSet(S) /\ IsFiniteSet(T) /\ Cardinality(S) \in Nat /\ Cardinality(T) \in Nat
  BY CardType
<1>2. Cardinality({}) = 0
  BY FS_EmptySet
<1>3. Cardinality(S \cup T) = Cardinality(S) + Cardinality(T) - Cardinality(S \cap T)
  BY <1>1, FS_Union
<1>4. Cardinality(S \cap T) = 0
  BY <1>2
<1> QED BY <1>1, <1>3, <1>4

-----------------------------------------------------------------------------
(* The accounts of a run.                                                  *)

Running == {r \in Requests : handler[r] \notin {"none", "done"}}
Recorded == {r \in Requests : handler[r] \in {"recorded", "done"}}

\* what the generator and the handlers leave in the accumulator
Accounts ==
  /\ errors \cup latencies = Recorded
  /\ errors \cap latencies = {}
  /\ inflight = Running
  /\ generator = "closed" => genDone
  /\ \A r \in emitting : handler[r] = "none"

\* what the runner knows of it
Reading ==
  /\ runner # "receive" => generator = "closed"
  /\ ~graceOver /\ runner \notin {"receive", "wait"} => inflight = {}
  /\ runner \in {"submitted", "errors", "returned"} =>
       /\ result.samples <= Cardinality(latencies)
       /\ ~graceOver => result.samples = Cardinality(latencies)
  /\ runner \in {"errors", "returned"} => result.total = Cardinality(Submitted)
  /\ runner = "returned" =>
       /\ result.errors <= Cardinality(errors)
       /\ ~graceOver => result.errors = Cardinality(errors)

Inv == TypeOK /\ Accounts /\ Reading

LEMMA InvInit == Init => Inv
<1> SUFFICES ASSUME Init PROVE Inv
  OBVIOUS
<1>1. TypeOK
  <2>1. Cardinality({}) = 0
    BY FS_EmptySet
  <2>2. genDone \in BOOLEAN /\ runDone \in BOOLEAN /\ graceOver \in BOOLEAN
    BY Zenon DEF Init
  <2>3. /\ handler \in [Requests -> HandlerStates]
        /\ inChan \in [Requests -> {"empty", "result", "error"}]
    BY DEF Init, HandlerStates
  <2>4. result \in [samples : Nat, total : Nat, errors : Nat]
    BY DEF Init
  <2> QED BY <2>1, <2>2, <2>3, <2>4 DEF Init, TypeOK, RunnerStates
<1>2. Accounts
  BY DEF Init, Accounts, Recorded, Running
<1>3. Reading
  BY DEF Init, Reading
<1> QED BY <1>1, <1>2, <1>3 DEF Inv

\* contexts and the gateway touch none of it
LEMMA OutsideStep ==
  ASSUME Inv,
         \/ RunTimeout \/ GenTimeout \/ GatewayReturns
         \/ (\E r \in Requests : Expire(r) \/ Answer(r)) \/ UNCHANGED vars
  PROVE  Inv'
<1>1. /\ UNCHANGED <<generator, emitting, handler, inflight, errors, latencies,
                     runner, graceOver, result>>
      /\ genDone => genDone'
  BY DEF RunTimeout, GenTimeout, GatewayReturns, Expire, Answer, genVars, accVars, runVars, vars,
         ctxVars, Inv, TypeOK
<1>2. TypeOK'
  <2>1. CASE RunTimeout
    BY <2>1 DEF Inv, TypeOK, RunTimeout, genVars, gatewayVars, accVars, runVars
  <2>2. CASE GenTimeout
    BY <2>2 DEF Inv, TypeOK, GenTimeout, genVars, gatewayVars, accVars, runVars
  <2>3. CASE GatewayReturns
    BY <2>3 DEF Inv, TypeOK, GatewayReturns, genVars, ctxVars, accVars, runVars
  <2>4. ASSUME NEW r \in Requests, Expire(r) PROVE TypeOK'
    BY <2>4 DEF Inv, TypeOK, Expire, genVars, gatewayVars, accVars, runVars
  <2>5. ASSUME NEW r \in Requests, Answer(r) PROVE TypeOK'
    BY <2>5 DEF Inv, TypeOK, Answer, genVars, ctxVars, accVars, runVars
  <2>6. CASE UNCHANGED vars
    BY <2>6 DEF Inv, TypeOK, vars, genVars, ctxVars, gatewayVars, accVars, runVars
  <2> QED BY <2>1, <2>2, <2>3, <2>4, <2>5, <2>6
<1>3. Accounts'
  BY <1>1 DEF Inv, Accounts, Recorded, Running
<1>4. Reading'
  BY <1>1 DEF Inv, Reading, Submitted
<1> QED BY <1>2, <1>3, <1>4 DEF Inv

LEMMA GeneratorStepInv ==
  ASSUME Inv, (\E r \in Requests : Make(r)) \/ Generate
  PROVE  Inv'
<1> USE DEF GeneratorStep, ctxVars, gatewayVars, accVars
<1>1. ASSUME NEW r \in Requests, Make(r) PROVE Inv'
  <2>1. Cardinality({r}) = 1
    BY FS_Singleton
  <2>2. TypeOK'
    BY <1>1, <2>1 DEF Make, Inv, TypeOK
  <2> QED BY <1>1, <2>2 DEF Make, Inv, Accounts, Reading, Recorded, Running, Submitted
<1>2. ASSUME NEW from, Return(from) PROVE Inv'
  <2>1. Cardinality({}) = 0
    BY FS_EmptySet
  <2>2. TypeOK'
    BY <1>2, <2>1 DEF Return, Inv, TypeOK
  <2> QED BY <1>2, <2>2 DEF Return, Inv, Accounts, Reading, Recorded, Running, Submitted
<1>3. ASSUME NEW r \in Requests, Emit(r) PROVE Inv'
  <2>1. Cardinality({}) = 0
    BY FS_EmptySet
  <2>2. /\ runner = "receive" /\ runner' = "receive" /\ generator' = "select"
        /\ handler' = [handler EXCEPT ![r] = "started"] /\ inflight' = inflight \cup {r}
        /\ UNCHANGED <<ctxVars, inChan, gatewayVars, accVars, graceOver, result>>
        /\ emitting' = {}
    BY <1>3 DEF Emit
  <2>3. TypeOK'
    BY <2>1, <2>2 DEF Inv, TypeOK, HandlerStates
  <2>a. handler[r] = "none"
    BY <1>3 DEF Emit, Inv, Accounts
  <2>4. Recorded' = Recorded /\ Running' = Running \cup {r}
    BY <2>2, <2>a DEF Inv, TypeOK, Recorded, Running
  <2>5. Accounts'
    BY <2>2, <2>4 DEF Inv, Accounts
  <2>6. Reading'
    BY <2>2 DEF Reading
  <2> QED BY <2>3, <2>5, <2>6 DEF Inv
<1> QED BY <1>1, <1>2, <1>3 DEF Generate

LEMMA HandlerStepInv ==
  ASSUME Inv, NEW r \in Requests, HandleRequest(r)
  PROVE  Inv'
<1> USE DEF HandlerStep
<1>1. UNCHANGED <<ctxVars, genVars, gateway, runVars>>
  BY DEF HandleRequest, Submit, SubmitFails, Receive, GiveUp, RecordError, RecordLatency, Finish
<1>2. /\ handler \in [Requests -> HandlerStates] /\ inflight \in SUBSET Requests
      /\ errors \in SUBSET Requests /\ latencies \in SUBSET Requests
      /\ errors \cup latencies = Recorded /\ errors \cap latencies = {} /\ inflight = Running
      /\ \A q \in emitting : handler[q] = "none"
      /\ generator = "closed" => genDone
  BY DEF Inv, TypeOK, Accounts
<1>3. TypeOK'
  <2>1. /\ handler' \in [Requests -> HandlerStates]
        /\ inChan' \in [Requests -> {"empty", "result", "error"}]
        /\ held' \in SUBSET Requests /\ inflight' \in SUBSET Requests
        /\ errors' \in SUBSET Requests /\ latencies' \in SUBSET Requests
    <3> USE DEF Inv, TypeOK, HandlerStates
    <3>1. CASE Submit(r) \/ SubmitFails(r)
      BY <3>1 DEF Submit, SubmitFails, accVars
    <3>2. CASE Receive(r) \/ GiveUp(r)
      BY <3>2 DEF Receive, GiveUp, accVars
    <3>3. CASE RecordError(r) \/ RecordLatency(r)
      BY <3>3 DEF RecordError, RecordLatency
    <3>4. CASE Finish(r)
      BY <3>4 DEF Finish, accVars
    <3> QED BY <3>1, <3>2, <3>3, <3>4 DEF HandleRequest
  <2> QED BY <1>1, <2>1 DEF Inv, TypeOK, ctxVars, genVars, runVars
\* the handler moves among the states of one that runs, and records at most once
<1>4. PICK from \in HandlerStates, to \in HandlerStates : HandlerStep(r, from, to)
                 /\ from \notin {"none", "done"} /\ to # "none"
  BY DEF HandleRequest, Submit, SubmitFails, Receive, GiveUp, RecordError, RecordLatency, Finish,
         HandlerStates
<1>5. handler[r] = from /\ handler' = [handler EXCEPT ![r] = to]
  BY <1>4
<1>6. Submitted' = Submitted /\ r \in inflight
  BY <1>2, <1>4, <1>5 DEF Submitted, Running
<1>7. Accounts'
  <2>1. (\A q \in emitting : handler[q] = "none")'
    BY <1>1, <1>2, <1>4, <1>5 DEF genVars
  <2>2. (generator = "closed" => genDone)'
    BY <1>1, <1>2 DEF genVars, ctxVars
  <2>3. CASE Submit(r) \/ SubmitFails(r) \/ Receive(r) \/ GiveUp(r)
    <3>1. UNCHANGED <<errors, latencies, inflight>>
      BY <2>3 DEF Submit, SubmitFails, Receive, GiveUp, accVars
    <3>2. from \notin {"recorded", "done"} /\ to \notin {"recorded", "done"}
      BY <1>2, <1>5, <2>3 DEF Submit, SubmitFails, Receive, GiveUp
    <3>3. Recorded' = Recorded /\ Running' = Running
      BY <1>2, <1>4, <1>5, <3>2 DEF Recorded, Running
    <3> QED BY <1>2, <2>1, <2>2, <3>1, <3>3 DEF Accounts
  <2>4. CASE RecordError(r) \/ RecordLatency(r)
    <3>1. /\ from \in {"failing", "answered"} /\ to = "recorded" /\ inflight' = inflight
          /\ \/ errors' = errors \cup {r} /\ latencies' = latencies
             \/ latencies' = latencies \cup {r} /\ errors' = errors
      BY <1>2, <1>5, <2>4 DEF RecordError, RecordLatency
    <3>2. r \notin Recorded /\ Recorded' = Recorded \cup {r} /\ Running' = Running
      BY <1>2, <1>5, <3>1 DEF Recorded, Running
    <3> QED BY <1>2, <2>1, <2>2, <3>1, <3>2 DEF Accounts
  <2>5. CASE Finish(r)
    <3>1. from = "recorded" /\ to = "done" /\ UNCHANGED <<errors, latencies>>
          /\ inflight' = inflight \ {r}
      BY <1>2, <1>5, <2>5 DEF Finish, accVars
    <3>2. Recorded' = Recorded /\ Running' = Running \ {r}
      BY <1>2, <1>5, <3>1 DEF Recorded, Running
    <3> QED BY <1>2, <2>1, <2>2, <3>1, <3>2 DEF Accounts
  <2> QED BY <2>3, <2>4, <2>5 DEF HandleRequest
<1>8. errors \subseteq errors' /\ latencies \subseteq latencies'
  BY DEF HandleRequest, Submit, SubmitFails, Receive, GiveUp, RecordError, RecordLatency, Finish,
         accVars
\* a handler that runs means that the grace is over, once the runner goes on
<1>9. Reading'
  <2>1. runner \notin {"receive", "wait"} => graceOver
    BY <1>6 DEF Inv, Reading
  <2>2. /\ Cardinality(errors) \in Nat /\ Cardinality(latencies) \in Nat
        /\ Cardinality(errors') \in Nat /\ Cardinality(latencies') \in Nat
        /\ Cardinality(errors) <= Cardinality(errors')
        /\ Cardinality(latencies) <= Cardinality(latencies')
    BY <1>3, <1>8, CardType, CardGrows DEF Inv, TypeOK
  <2>3. result.samples \in Nat /\ result.errors \in Nat
    BY DEF Inv, TypeOK
  <2>4. UNCHANGED <<generator, runner, graceOver, result>>
    BY <1>1 DEF genVars, runVars
  <2> QED BY <1>6, <2>1, <2>2, <2>3, <2>4 DEF Inv, Reading
<1> QED BY <1>3, <1>7, <1>9 DEF Inv

LEMMA RunnerStepInv ==
  ASSUME Inv, Run \/ GraceOver
  PROVE  Inv'
<1> USE DEF RunnerStep
<1>1. UNCHANGED <<genVars, expired, handler, inChan, gatewayVars, inflight, accVars>>
  BY DEF Run, LoopEnds, WaitEnds, GraceOver, Cancel, GroupEnds, CopySamples, LoadSubmitted, LoadErrors
<1>2. genDone => genDone'
  BY DEF Run, LoopEnds, WaitEnds, GraceOver, Cancel, GroupEnds, CopySamples, LoadSubmitted, LoadErrors
<1>3. Accounts'
  BY <1>1, <1>2 DEF Inv, Accounts, Recorded, Running, genVars, accVars
<1>4. /\ Cardinality(errors) \in Nat /\ Cardinality(latencies) \in Nat
      /\ Cardinality(Submitted) \in Nat /\ Submitted' = Submitted
  <2>1. Submitted \in SUBSET Requests /\ Submitted' = Submitted
    BY <1>1 DEF Submitted
  <2> QED BY <2>1, CardType DEF Inv, TypeOK
<1>5. /\ result \in [samples : Nat, total : Nat, errors : Nat]
      /\ UNCHANGED <<generator, inflight, errors, latencies>>
  BY <1>1 DEF Inv, TypeOK, genVars, accVars
<1>6. ASSUME runner' \in RunnerStates, graceOver' \in BOOLEAN, genDone' \in BOOLEAN,
             runDone' \in BOOLEAN, result' \in [samples : Nat, total : Nat, errors : Nat]
      PROVE  TypeOK'
  BY <1>1, <1>6 DEF Inv, TypeOK, genVars, gatewayVars, accVars
<1>7. /\ graceOver \in BOOLEAN /\ genDone \in BOOLEAN /\ runDone \in BOOLEAN
      /\ TRUE \in BOOLEAN
  BY Zenon DEF Inv, TypeOK
<1>8. CASE LoopEnds \/ WaitEnds \/ GraceOver
  <2>1. /\ UNCHANGED <<genDone, runDone, result>> /\ runner' \in {"wait", "cancel"}
        /\ graceOver' = graceOver \/ graceOver' = TRUE
    BY <1>8 DEF LoopEnds, WaitEnds, GraceOver
  <2>2. TypeOK'
    BY <1>5, <1>6, <1>7, <2>1 DEF RunnerStates
  <2>3. Reading'
    BY <1>5, <1>8, <2>1 DEF LoopEnds, WaitEnds, GraceOver, Inv, Reading
  <2> QED BY <1>3, <2>2, <2>3 DEF Inv
<1>9. CASE Cancel \/ GroupEnds
  <2>1. /\ UNCHANGED <<graceOver, result>> /\ runner \in {"cancel", "group"}
        /\ runner' \in {"group", "samples"}
        /\ (UNCHANGED <<genDone, runDone>>) \/ (genDone' = TRUE /\ runDone' = TRUE)
    BY <1>9 DEF Cancel, GroupEnds
  <2>2. TypeOK'
    BY <1>5, <1>6, <1>7, <2>1 DEF RunnerStates
  <2>3. Reading'
    BY <1>5, <2>1 DEF Inv, Reading
  <2> QED BY <1>3, <2>2, <2>3 DEF Inv
<1>10. CASE CopySamples
  <2>1. /\ UNCHANGED <<genDone, runDone, graceOver>>
        /\ runner = "samples" /\ runner' = "submitted"
        /\ result' = [result EXCEPT !.samples = Cardinality(latencies)]
    BY <1>10 DEF CopySamples
  <2>2. result' \in [samples : Nat, total : Nat, errors : Nat]
        /\ result'.samples = Cardinality(latencies)
    BY <1>4, <1>5, <2>1
  <2>3. TypeOK'
    BY <1>6, <1>7, <2>1, <2>2 DEF RunnerStates
  <2>4. Reading'
    BY <1>4, <1>5, <2>1, <2>2 DEF Inv, Reading
  <2> QED BY <1>3, <2>3, <2>4 DEF Inv
<1>11. CASE LoadSubmitted
  <2>1. /\ UNCHANGED <<genDone, runDone, graceOver>>
        /\ runner = "submitted" /\ runner' = "errors"
        /\ result' = [result EXCEPT !.total = Cardinality(Submitted)]
    BY <1>11 DEF LoadSubmitted
  <2>2. result' \in [samples : Nat, total : Nat, errors : Nat]
        /\ result'.samples = result.samples /\ result'.total = Cardinality(Submitted)
    BY <1>4, <1>5, <2>1
  <2>3. TypeOK'
    BY <1>6, <1>7, <2>1, <2>2 DEF RunnerStates
  <2>4. Reading'
    BY <1>4, <1>5, <2>1, <2>2 DEF Inv, Reading
  <2> QED BY <1>3, <2>3, <2>4 DEF Inv
<1>12. CASE LoadErrors
  <2>1. /\ UNCHANGED <<genDone, runDone, graceOver>>
        /\ runner = "errors" /\ runner' = "returned"
        /\ result' = [result EXCEPT !.errors = Cardinality(errors)]
    BY <1>12 DEF LoadErrors
  <2>2. result' \in [samples : Nat, total : Nat, errors : Nat]
        /\ result'.samples = result.samples /\ result'.total = result.total
        /\ result'.errors = Cardinality(errors)
    BY <1>4, <1>5, <2>1
  <2>3. TypeOK'
    BY <1>6, <1>7, <2>1, <2>2 DEF RunnerStates
  <2>4. Reading'
    BY <1>4, <1>5, <2>1, <2>2 DEF Inv, Reading
  <2> QED BY <1>3, <2>3, <2>4 DEF Inv
<1> QED BY <1>8, <1>9, <1>10, <1>11, <1>12 DEF Run

LEMMA InvStep == Inv /\ [Next]_vars => Inv'
  BY OutsideStep, GeneratorStepInv, HandlerStepInv, RunnerStepInv DEF Next, Terminated

LEMMA Invariant == Spec => []Inv
  BY InvInit, InvStep, PTL DEF Spec

-----------------------------------------------------------------------------
(* What a run reports.                                                     *)

\* both sides of the accumulator, against the requests that were submitted
LEMMA Sides ==
  ASSUME Inv
  PROVE  /\ Cardinality(errors) \in Nat /\ Cardinality(latencies) \in Nat
         /\ Cardinality(Submitted) \in Nat
         /\ Cardinality(errors) + Cardinality(latencies) <= Cardinality(Submitted)
         /\ inflight = {} =>
              Cardinality(errors) + Cardinality(latencies) = Cardinality(Submitted)
<1>1. /\ errors \in SUBSET Requests /\ latencies \in SUBSET Requests
      /\ handler \in [Requests -> HandlerStates]
      /\ errors \cup latencies = Recorded /\ errors \cap latencies = {} /\ inflight = Running
  BY DEF Inv, TypeOK, Accounts
<1>2. Submitted \in SUBSET Requests /\ Recorded \in SUBSET Submitted
  BY DEF Submitted, Recorded
<1>3. inflight = {} => Recorded = Submitted
  BY <1>1 DEF Submitted, Recorded, Running
<1>4. Cardinality(Recorded) = Cardinality(errors) + Cardinality(latencies)
  BY <1>1, CardDisjoint
<1>5. Cardinality(Recorded) <= Cardinality(Submitted)
  BY <1>2, CardGrows
<1>6. /\ Cardinality(errors) \in Nat /\ Cardinality(latencies) \in Nat
      /\ Cardinality(Submitted) \in Nat
  BY <1>1, <1>2, CardType
<1> QED BY <1>3, <1>4, <1>5, <1>6

(* Once the handlers have all been waited for, errors and latency samples  *)
(* make up what was submitted (runner.go:138-156, 225-248), for any number *)
(* of requests and whatever the gateway did with them.                     *)
THEOREM ResultsAddUp == Spec => []ResultAddsUp
<1>1. Inv => ResultAddsUp
  <2> SUFFICES ASSUME Inv, runner = "returned", ~graceOver
               PROVE  result.total = result.errors + result.samples
    BY DEF ResultAddsUp
  <2>1. /\ result.samples = Cardinality(latencies) /\ result.errors = Cardinality(errors)
        /\ result.total = Cardinality(Submitted) /\ inflight = {}
    BY DEF Inv, Reading
  <2> QED BY <2>1, Sides
<1> QED BY <1>1, Invariant, PTL

(* A run that gave up on some handlers may leave requests out of both      *)
(* sides, but never counts one twice: the error rate is at most 1.         *)
THEOREM ResultsNeverOvercount == Spec => []NeverOvercounts
<1>1. Inv => NeverOvercounts
  <2> SUFFICES ASSUME Inv, runner = "returned"
               PROVE  result.errors + result.samples <= result.total
    BY DEF NeverOvercounts
  <2>1. /\ result.samples <= Cardinality(latencies) /\ result.errors <= Cardinality(errors)
        /\ result.total = Cardinality(Submitted)
    BY DEF Inv, Reading
  <2>2. result.samples \in Nat /\ result.errors \in Nat
    BY DEF Inv, TypeOK
  <2> QED BY <2>1, <2>2, Sides
<1> QED BY <1>1, Invariant, PTL

(* When the channel is closed every request in flight can be given up.     *)
THEOREM HandlersNeedNoGateway == Spec => []HandlersCanLeave
<1>1. Inv => HandlersCanLeave
  BY DEF Inv, Accounts, HandlersCanLeave, CtxDone
<1> QED BY <1>1, Invariant, PTL
=============================================================================
