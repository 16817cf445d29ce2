---------------------------- MODULE DelegationStore ----------------------------
(***************************************************************************)
(* The delegation store of agent-orchestration: the pure commit planner    *)
(* (store-adapter/plan.ts and the handlers it dispatches to) behind the    *)
(* owner fence of the store (store/memory.ts).                             *)
(*                                                                         *)
(* One action is one accepted command.  A command the planner refuses, or  *)
(* recognises as a duplicate, mutates nothing (plan.ts:99-105), so it is   *)
(* a stuttering step: the guard of an action is the conjunction of the     *)
(* early failures of its handler, and the revision fences only say that a  *)
(* command was built from the state it is applied to.                      *)
(*                                                                         *)
(* The environment is any sequence of commands a process holding the owner *)
(* token may send; owners come and go with increasing epochs and every     *)
(* record survives them (a durable store; the volatile one dies whole).    *)
(***************************************************************************)
EXTENDS Integers, FiniteSets

CONSTANTS
  Tasks, Runs,      \* identities a parent may admit
  Controls,         \* operation ids of configure, steer and request_resolution
  Requests,         \* provider request ids
  ExecutorSlots,    \* the reserved operations this executor uses
  NoTask, NoRequest,
  MaxEpoch,         \* bound on the number of owners (the code has none)
  maxActiveRuns, maxQueuedRuns, maxTasks, maxRuns, maxRunsPerTask,
  maxOrdinaryOperationsPerRun, maxOrdinaryOperations   \* shared/limits.ts

\* parseDelegationLimits: every limit is a positive integer.
ASSUME LimitsAssumption ==
  /\ MaxEpoch \in Nat
  /\ \A limit \in {maxActiveRuns, maxQueuedRuns, maxTasks, maxRuns, maxRunsPerTask,
                   maxOrdinaryOperationsPerRun, maxOrdinaryOperations} :
       limit \in Nat \ {0}

\* Identities are finite in number and distinct from the "absent" values.
ASSUME IdentityAssumption ==
  /\ IsFiniteSet(Runs) /\ IsFiniteSet(Tasks)
  /\ NoTask \notin Tasks
  /\ NoRequest \notin Requests
  /\ ExecutorSlots \subseteq {"interrupt", "session_close", "binding_cleanup"}

VARIABLES
  owner,      \* epoch of the current owner token, 0 when none
  epoch,      \* epoch of the latest owner
  task,       \* [Tasks -> task record]
  run,        \* [Runs -> run record]
  op,         \* [Runs -> [OpIds -> operation record]]: the operation ledger
  capacity    \* the store's own counters

vars == <<owner, epoch, task, run, op, capacity>>

Active == {"preparing", "running", "waiting"}
Phases == {"absent", "queued", "settled"} \cup Active
CriticalKinds == {"cancel", "interrupt", "session_close", "binding_cleanup"}
CleanupKinds == {"session_close", "binding_cleanup"}
OrdinaryKinds == {"admit", "prepare", "configure", "turn", "steer", "request_resolution"}
Kinds == CriticalKinds \cup OrdinaryKinds
\* One identity per run for the operations the code derives from the run id
\* (operationIdentity); the others take an id of their own.
FixedIds == CriticalKinds \cup {"admit", "prepare", "turn"}
OpIds == FixedIds \cup Controls

ASSUME ControlsAssumption == Controls \cap FixedIds = {}

Dispositions == {"intent", "completed", "rejected", "uncertain", "delegated",
                 "delivered", "interruption_requested"}
\* The two confirmations of a canceled outcome are outcomes of their own.
Outcomes == {"succeeded", "failed", "not_dispatched", "provider_terminal",
             "recovery_required"}

RunRecord ==
  [task : Tasks \cup {NoTask}, ordinal : Nat, ownerEpoch : 0..MaxEpoch,
   phase : Phases,
   dispatch : {"none", "intended", "delegated"},
   preparation : {"none", "intended", "completed", "uncertain"},
   cancelRequested : BOOLEAN,
   recovery : BOOLEAN,              \* a recoveryReason is recorded
   request : Requests \cup {NoRequest},
   requestState : {"none", "waiting", "resolution_intended", "resolved", "unavailable"},
   outcome : Outcomes \cup {"none"},
   operations : Nat]                \* ordinaryOperationCount

OpRecord ==
  [kind : Kinds \cup {"none"}, disposition : Dispositions, attempts : 0..2,
   ownerEpoch : 0..MaxEpoch, request : Requests \cup {NoRequest}]

BlankRun ==
  [task |-> NoTask, ordinal |-> 0, ownerEpoch |-> 0, phase |-> "absent",
   dispatch |-> "none", preparation |-> "none", cancelRequested |-> FALSE,
   recovery |-> FALSE, request |-> NoRequest, requestState |-> "none",
   outcome |-> "none", operations |-> 0]

BlankOp ==
  [kind |-> "none", disposition |-> "intent", attempts |-> 0, ownerEpoch |-> 0,
   request |-> NoRequest]

TypeOK ==
  /\ epoch \in 0..MaxEpoch
  /\ owner \in {0, epoch}
  /\ task \in [Tasks -> [state : {"absent", "active", "settled", "recovery_required", "retired"},
                         runCount : Nat]]
  /\ run \in [Runs -> RunRecord]
  /\ op \in [Runs -> [OpIds -> OpRecord]]
  /\ capacity \in [tasks : Nat, runs : Nat, queuedRuns : Int, activeRuns : Int,
                   ordinaryOperations : Int]

Init ==
  /\ owner = 0 /\ epoch = 0
  /\ task = [t \in Tasks |-> [state |-> "absent", runCount |-> 0]]
  /\ run = [r \in Runs |-> BlankRun]
  /\ op = [r \in Runs |-> [id \in OpIds |-> BlankOp]]
  /\ capacity = [tasks |-> 0, runs |-> 0, queuedRuns |-> 0, activeRuns |-> 0,
                 ordinaryOperations |-> 0]

--------------------------------------------------------------------------------
(* Owner fence *)

AcquireOwner ==
  /\ owner = 0 /\ epoch < MaxEpoch
  /\ epoch' = epoch + 1 /\ owner' = epoch'
  /\ UNCHANGED <<task, run, op, capacity>>

\* A release after quiescence, or the death of the owner of a durable store:
\* the next owner finds the records as they are.
ReleaseOwner ==
  /\ owner # 0
  /\ owner' = 0
  /\ UNCHANGED <<epoch, task, run, op, capacity>>

--------------------------------------------------------------------------------
(* The commit context *)

RunsOf(t) == {r \in Runs : run[r].task = t}

\* Mutant: the task state looks at outcomes only, not at recorded uncertainty.
DerivedFromOutcome(t, runs) ==
  LET mine == {r \in Runs : runs[r].task = t} IN
  IF task[t].state = "retired" THEN "retired"
  ELSE IF \E r \in mine : runs[r].outcome = "recovery_required" THEN "recovery_required"
  ELSE IF \E r \in mine : runs[r].phase # "settled" THEN "active" ELSE "settled"

\* deriveTask, over the runs as the commit leaves them.
DerivedState(t, runs) ==
  LET mine == {r \in Runs : runs[r].task = t} IN
  IF task[t].state = "retired" THEN "retired"
  ELSE IF \E r \in mine : runs[r].outcome = "recovery_required" \/ runs[r].recovery
    THEN "recovery_required"
  ELSE IF \E r \in mine : runs[r].phase # "settled" THEN "active" ELSE "settled"

One(condition) == IF condition THEN 1 ELSE 0

\* Mutant: a run that leaves the queue settled still takes an executor slot.
ActiveChangeOnExit(prior, next) ==
  One(prior = "queued" /\ next # "queued") - One(prior \in Active /\ next = "settled")

\* setRun: the slot counter follows the phase of the changed run.
ActiveChange(prior, next) ==
  One(prior = "queued" /\ next \in Active) - One(prior \in Active /\ next = "settled")

\* setRun and addOperation: the counters after one run record replaces another.
CapacityAfter(prior, next) ==
  [tasks |-> capacity.tasks, runs |-> capacity.runs,
   queuedRuns |-> capacity.queuedRuns - One(prior.phase = "queued" /\ next.phase # "queued"),
   activeRuns |-> capacity.activeRuns + ActiveChange(prior.phase, next.phase),
   ordinaryOperations |-> capacity.ordinaryOperations + (next.operations - prior.operations)]

\* planDelegationStoreCommit refuses to work on counters that disagree.
CapacityConsistent ==
  /\ capacity.queuedRuns >= 0 /\ capacity.activeRuns >= 0 /\ capacity.ordinaryOperations >= 0
  /\ capacity.tasks <= maxTasks /\ capacity.runs <= maxRuns
  /\ capacity.tasks <= capacity.runs
  /\ capacity.activeRuns <= maxActiveRuns /\ capacity.queuedRuns <= maxQueuedRuns
  /\ capacity.activeRuns + capacity.queuedRuns <= capacity.runs
  /\ capacity.ordinaryOperations <= maxOrdinaryOperations

\* The commit of a command about an admitted run: the run and its ledger are
\* replaced, the counters follow, and the task state is derived again.
Commit(r, next, ledger) ==
  /\ owner # 0 /\ CapacityConsistent
  /\ run' = [run EXCEPT ![r] = next]
  /\ op' = [op EXCEPT ![r] = ledger]
  /\ capacity' = CapacityAfter(run[r], next)
  /\ task' = [task EXCEPT ![next.task].state = DerivedState(next.task, run')]
  /\ UNCHANGED <<owner, epoch>>

Admitted(r) == run[r].phase # "absent"
Recorded(r, id) == op[r][id].kind # "none"

\* addOperation: an ordinary operation needs room in both ledgers.
HasOrdinaryRoom(r) ==
  /\ run[r].operations < maxOrdinaryOperationsPerRun
  /\ capacity.ordinaryOperations < maxOrdinaryOperations

NewOperation(kind, request) ==
  [kind |-> kind,
   disposition |-> IF kind \in {"admit", "cancel"} THEN "completed" ELSE "intent",
   attempts |-> 1, ownerEpoch |-> owner, request |-> request]

WithOperation(r, id, kind, request) == [op[r] EXCEPT ![id] = NewOperation(kind, request)]

\* settleRun: a recorded recovery reason overrides the requested outcome, and
\* a pending request dies with its executor.
Settled(rec, requested) ==
  [rec EXCEPT !.phase = "settled",
              !.outcome = IF rec.recovery THEN "recovery_required" ELSE requested,
              !.requestState = IF rec.request = NoRequest THEN @ ELSE "unavailable"]

\* No provider can have seen anything of this run.
NeverDispatched(rec) ==
  rec.phase = "queued" /\ rec.preparation = "none" /\ rec.dispatch = "none"

--------------------------------------------------------------------------------
(* admit *)

\* What every admission does once its checks have passed.
AdmitRun(t, r) ==
  /\ owner # 0 /\ CapacityConsistent
  /\ ~Admitted(r)
  /\ capacity.runs < maxRuns /\ capacity.queuedRuns < maxQueuedRuns
  /\ capacity.ordinaryOperations < maxOrdinaryOperations
  /\ run' = [run EXCEPT ![r] =
       [BlankRun EXCEPT !.task = t, !.ordinal = task[t].runCount + 1,
                        !.ownerEpoch = owner, !.phase = "queued", !.operations = 1]]
  /\ op' = [op EXCEPT ![r] = WithOperation(r, "admit", "admit", NoRequest)]
  /\ capacity' = [tasks |-> capacity.tasks + One(task[t].state = "absent"),
                   runs |-> capacity.runs + 1,
                   queuedRuns |-> capacity.queuedRuns + 1,
                   activeRuns |-> capacity.activeRuns,
                   ordinaryOperations |-> capacity.ordinaryOperations + 1]
  /\ task' = [task EXCEPT ![t] = [state |-> DerivedState(t, run'),
                                  runCount |-> @.runCount + 1]]
  /\ UNCHANGED <<owner, epoch>>

AdmitTask(t, r) ==
  /\ task[t].state = "absent"
  /\ capacity.tasks < maxTasks
  /\ AdmitRun(t, r)

\* The boundary a continuation may follow: a running turn that nobody canceled
\* or a settled one whose effects are known.
ContinuationBoundary(previous, mode) ==
  CASE mode = "next_turn" -> previous.phase = "running" /\ ~previous.cancelRequested
    [] mode = "follow_up" -> previous.phase = "settled" /\ previous.outcome # "recovery_required"

AdmitContinuation(t, r, mode) ==
  /\ task[t].state \notin {"absent", "retired", "recovery_required"}
  /\ \E previous \in RunsOf(t) :
       /\ run[previous].ordinal = task[t].runCount
       /\ ContinuationBoundary(run[previous], mode)
  /\ \A other \in RunsOf(t) : run[other].phase \notin {"queued", "waiting"}
  /\ task[t].runCount < maxRunsPerTask
  /\ AdmitRun(t, r)

--------------------------------------------------------------------------------
(* dispatch_intent *)

\* Mutant: a cancellation does not stop further provider inputs.
AdmitsInputAfterCancel(r) == task[run[r].task].state \notin {"retired", "recovery_required"}

\* Provider inputs stop at a cancellation and at a task whose truth is lost.
AdmitsInput(r) ==
  /\ task[run[r].task].state \notin {"retired", "recovery_required"}
  /\ ~run[r].cancelRequested

\* Mutant: the epoch of the executor is not compared.
AnyExecutor(r) == TRUE

\* The sender is the owner under which the run executes.
OwnExecutor(r) == run[r].ownerEpoch = owner

\* Mutant: only the store-wide slot count is consulted.
FreeSlot(r) == capacity.activeRuns < maxActiveRuns

FreeExecutor(r) ==
  /\ \A other \in RunsOf(run[r].task) : other # r => run[other].phase \notin Active
  /\ capacity.activeRuns < maxActiveRuns

DispatchPrepare(r) ==
  /\ run[r].phase = "queued" /\ run[r].dispatch = "none"
  /\ AdmitsInput(r) /\ FreeExecutor(r) /\ HasOrdinaryRoom(r)
  /\ Commit(r, [run[r] EXCEPT !.phase = "preparing", !.preparation = "intended",
                              !.ownerEpoch = owner, !.operations = @ + 1],
            WithOperation(r, "prepare", "prepare", NoRequest))

DispatchTurn(r) ==
  /\ run[r].phase = "preparing" /\ run[r].preparation = "completed"
  /\ run[r].dispatch = "none"
  /\ OwnExecutor(r) /\ AdmitsInput(r) /\ HasOrdinaryRoom(r)
  /\ Commit(r, [run[r] EXCEPT !.phase = "running", !.dispatch = "intended",
                              !.operations = @ + 1],
            WithOperation(r, "turn", "turn", NoRequest))

\* configure belongs to preparation, steer to the running turn.
DispatchControl(r, id, kind) ==
  /\ run[r].phase = (IF kind = "configure" THEN "preparing" ELSE "running")
  /\ ~Recorded(r, id)
  /\ OwnExecutor(r) /\ AdmitsInput(r) /\ HasOrdinaryRoom(r)
  /\ Commit(r, [run[r] EXCEPT !.operations = @ + 1],
            WithOperation(r, id, kind, NoRequest))

DispatchInterrupt(r) ==
  /\ run[r].phase \in Active /\ run[r].cancelRequested
  /\ OwnExecutor(r) /\ ~Recorded(r, "interrupt")
  /\ Commit(r, run[r], WithOperation(r, "interrupt", "interrupt", NoRequest))

DispatchCleanup(r, kind) ==
  /\ Admitted(r) /\ OwnExecutor(r) /\ ~Recorded(r, kind)
  /\ kind = "binding_cleanup" => Recorded(r, "session_close")
  /\ Commit(r, run[r], WithOperation(r, kind, kind, NoRequest))

\* The single retry of a cleanup reuses the slot of its first attempt.
RetryCleanup(r, kind) ==
  /\ Admitted(r) /\ OwnExecutor(r)
  /\ op[r][kind].attempts = 1 /\ op[r][kind].disposition \in {"rejected", "uncertain"}
  /\ Commit(r, run[r], [op[r] EXCEPT ![kind] = [@ EXCEPT !.attempts = 2,
                                         !.disposition = "intent", !.ownerEpoch = owner]])

--------------------------------------------------------------------------------
(* operation_receipt *)

ReceiptDispositions(kind) ==
  CASE kind \in {"prepare", "configure"} \cup CleanupKinds -> {"completed", "rejected", "uncertain"}
    [] kind = "turn" -> {"delegated", "rejected", "uncertain"}
    [] kind \in {"steer", "request_resolution"} -> {"delivered", "rejected", "uncertain"}
    [] kind = "interrupt" -> {"interruption_requested", "completed", "rejected", "uncertain"}
    [] OTHER -> {}

FinalReceipt(prior) ==
  \/ prior.disposition \in {"delivered", "rejected", "completed"}
  \/ prior.kind = "request_resolution" /\ prior.disposition = "uncertain"

\* Mutant: a late answer is applied as if the request were still live.
LateResolutionReceipt(rec, prior, disposition, requestState) ==
  IF rec.request # prior.request THEN rec
  ELSE [rec EXCEPT !.requestState = IF disposition = "delivered" THEN "resolved"
                                    ELSE IF requestState = "pending" THEN "waiting"
                                    ELSE "unavailable",
                   !.phase = IF @ = "settled" THEN @ ELSE "running"]

\* Mutant: the receipt puts the run back to work without looking at its phase.
RevivingReceipt(rec, prior, disposition, requestState) ==
  IF rec.request # prior.request THEN rec
  ELSE [rec EXCEPT !.requestState = IF disposition = "delivered" THEN "resolved"
                                    ELSE "unavailable",
                   !.phase = "running"]

\* Mutant: an answer whose delivery is unknown puts the request back on offer.
ReofferingReceipt(rec, prior, disposition, requestState) ==
  IF rec.request # prior.request \/ rec.requestState # "resolution_intended" THEN rec
  ELSE IF disposition = "delivered" THEN [rec EXCEPT !.requestState = "resolved"]
  ELSE [rec EXCEPT !.requestState = "waiting", !.phase = "waiting"]

\* The answer of a resolution moves the run only while its request is the one
\* the run still remembers.
ResolutionReceipt(rec, prior, disposition, requestState) ==
  LET state == CASE rec.requestState = "unavailable" -> "unavailable"
                 [] rec.requestState # "unavailable" /\ disposition = "delivered" -> "resolved"
                 [] OTHER -> IF requestState = "pending" THEN "waiting" ELSE "unavailable"
  IN  IF rec.request # prior.request THEN rec
      ELSE [rec EXCEPT !.requestState = state,
                       !.phase = IF @ = "settled" THEN @
                                 ELSE IF state = "waiting" THEN "waiting" ELSE "running"]

\* Mutant: the disposition is copied into the run.
CopiedPreparation(disposition) == disposition

\* A rejected preparation leaves no trace a definitive failure must respect.
PreparationReceipt(disposition) ==
  IF disposition = "rejected" THEN "none" ELSE disposition

\* What a receipt changes in its run; an uncertain control is never forgotten.
ReceiptRun(rec, prior, disposition, requestState) ==
  CASE prior.kind = "prepare" -> [rec EXCEPT !.preparation = PreparationReceipt(disposition)]
    [] prior.kind = "turn" ->
         [rec EXCEPT !.dispatch = IF disposition = "delegated" THEN "delegated" ELSE @]
    [] prior.kind \in {"steer", "configure"} ->
         [rec EXCEPT !.recovery = @ \/ disposition = "uncertain"]
    [] prior.kind = "request_resolution" ->
         [ResolutionReceipt(rec, prior, disposition, requestState) EXCEPT
            !.recovery = @ \/ disposition = "uncertain"]
    [] OTHER -> rec

\* Mutant: the two cleanup receipts are independent.
UnorderedCleanup(r, prior, disposition) == TRUE

\* Binding cleanup completes only over a completed session close.
CleanupConfirmable(r, prior, disposition) ==
  prior.kind = "binding_cleanup" /\ disposition = "completed"
    => op[r]["session_close"].disposition = "completed"

OperationReceipt(r, id, disposition, requestState) ==
  LET prior == op[r][id] IN
  /\ Recorded(r, id)
  /\ disposition \in ReceiptDispositions(prior.kind) /\ disposition # prior.disposition
  /\ (prior.kind = "request_resolution" /\ disposition = "rejected") <=> requestState # "none"
  /\ ~FinalReceipt(prior)
  /\ prior.ownerEpoch = owner
  /\ CleanupConfirmable(r, prior, disposition)
  /\ prior.kind = "request_resolution" /\ run[r].request = prior.request
       => run[r].requestState \in {"resolution_intended", "unavailable"}
  /\ Commit(r, ReceiptRun(run[r], prior, disposition, requestState),
            [op[r] EXCEPT ![id] = [prior EXCEPT !.disposition = disposition]])

--------------------------------------------------------------------------------
(* request_state *)

\* Provider request ids are unique within a session, so a request opens once.
FreshRequest(r, request) ==
  /\ run[r].request # request
  /\ \A id \in OpIds : op[r][id].request # request

RequestOpened(r, request) ==
  /\ run[r].phase = "running" /\ OwnExecutor(r)
  /\ FreshRequest(r, request)
  /\ Commit(r, [run[r] EXCEPT !.phase = "waiting", !.request = request,
                              !.requestState = "waiting"], op[r])

ResolutionIntended(r, id) ==
  /\ run[r].phase = "waiting" /\ run[r].requestState = "waiting"
  /\ OwnExecutor(r) /\ ~run[r].cancelRequested
  /\ ~Recorded(r, id) /\ HasOrdinaryRoom(r)
  /\ Commit(r, [run[r] EXCEPT !.phase = "running", !.requestState = "resolution_intended",
                              !.operations = @ + 1],
            WithOperation(r, id, "request_resolution", run[r].request))

RequestResolved(r) ==
  /\ run[r].request # NoRequest /\ run[r].requestState = "resolution_intended"
  /\ Commit(r, [run[r] EXCEPT !.requestState = "resolved"], op[r])

RequestUnavailable(r) ==
  /\ run[r].request # NoRequest
  /\ Commit(r, [run[r] EXCEPT !.requestState = "unavailable",
                              !.phase = IF @ = "waiting" THEN "running" ELSE @], op[r])

--------------------------------------------------------------------------------
(* cancel, settle, retire_recovery *)

CancelRun(r) ==
  LET canceled == [run[r] EXCEPT !.cancelRequested = TRUE] IN
  /\ Admitted(r) /\ ~Recorded(r, "cancel")
  /\ Commit(r, IF run[r].phase = "settled" THEN run[r]
               ELSE IF NeverDispatched(run[r]) THEN Settled(canceled, "not_dispatched")
               ELSE canceled,
            WithOperation(r, "cancel", "cancel", NoRequest))

\* Which outcome the present phase can be the end of, and who may say so.
MaySettle(r, requested) ==
  /\ requested \in {"succeeded", "provider_terminal"} => run[r].phase \in {"running", "waiting"}
  /\ requested = "failed"
       => ~(run[r].phase = "preparing" /\ run[r].preparation \in {"intended", "uncertain"})
  /\ requested = "not_dispatched" => NeverDispatched(run[r])
  /\ ~OwnExecutor(r) => requested = "recovery_required" \/ NeverDispatched(run[r])

Settle(r, requested) ==
  /\ Admitted(r) /\ run[r].outcome = "none"
  /\ MaySettle(r, requested)
  /\ Commit(r, Settled(run[r], requested), op[r])

RetireRecovery(t) ==
  /\ owner # 0 /\ CapacityConsistent
  /\ task[t].state = "recovery_required"
  /\ \A r \in RunsOf(t) : run[r].phase = "settled"
  /\ task' = [task EXCEPT ![t].state = "retired"]
  /\ UNCHANGED <<owner, epoch, run, op, capacity>>

--------------------------------------------------------------------------------

Admit == \E t \in Tasks, r \in Runs :
           \/ AdmitTask(t, r)
           \/ \E mode \in {"next_turn", "follow_up"} : AdmitContinuation(t, r, mode)

Dispatch(r) ==
  \/ DispatchPrepare(r)
  \/ DispatchTurn(r)
  \/ \E id \in Controls, kind \in {"configure", "steer"} : DispatchControl(r, id, kind)
  \/ "interrupt" \in ExecutorSlots /\ DispatchInterrupt(r)
  \/ \E kind \in CleanupKinds \cap ExecutorSlots :
       DispatchCleanup(r, kind) \/ RetryCleanup(r, kind)

Receipt(r) ==
  \E id \in OpIds, disposition \in Dispositions, state \in {"none", "pending", "unavailable"} :
    OperationReceipt(r, id, disposition, state)

Request(r) ==
  \/ \E request \in Requests : RequestOpened(r, request)
  \/ \E id \in Controls : ResolutionIntended(r, id)
  \/ RequestResolved(r)
  \/ RequestUnavailable(r)

Finish(r) == CancelRun(r) \/ \E requested \in Outcomes : Settle(r, requested)

Next ==
  \/ AcquireOwner
  \/ ReleaseOwner
  \/ Admit
  \/ \E r \in Runs : Dispatch(r) \/ Receipt(r) \/ Request(r) \/ Finish(r)
  \/ \E t \in Tasks : RetireRecovery(t)

Spec == Init /\ [][Next]_vars

--------------------------------------------------------------------------------
(* Properties *)

InPhase(phases) == {r \in Runs : run[r].phase \in phases}

\* plan.ts:85-95 fails every later command of the store with store_failed when
\* its counters disagree, and no command can repair them.  Through admission,
\* queue exits on the cancel path, settlement and late receipts, the counters are
\* exactly the census of the records and stay inside the configured limits.
CapacityExact ==
  /\ capacity.runs = Cardinality({r \in Runs : Admitted(r)})
  /\ capacity.queuedRuns = Cardinality(InPhase({"queued"}))
  /\ capacity.activeRuns = Cardinality(InPhase(Active))
  /\ capacity.tasks = Cardinality({t \in Tasks : task[t].state # "absent"})
  /\ CapacityConsistent

\* Two runs of one task never execute together (execution.ts:49), a task has at
\* most one queued run (admission.ts:46), and that run is its latest: a canceled
\* queued continuation followed by another one cannot overtake or reorder.
OneExecutorPerTask ==
  \A r, s \in Runs :
    r # s /\ run[r].task = run[s].task /\ run[r].task # NoTask =>
      /\ run[r].ordinal # run[s].ordinal
      /\ ~(run[r].phase \in Active /\ run[s].phase \in Active)
      /\ run[r].phase = "queued" => run[s].phase # "queued" /\ run[s].ordinal < run[r].ordinal

\* What an outcome tells the parent is backed by the ledger: provider truth needs
\* a dispatched turn, "never dispatched" needs a ledger without any provider input,
\* and a failure is never reported over a preparation nobody knows the end of.
OutcomeIsBacked ==
  \A r \in Runs :
    /\ run[r].outcome \in {"succeeded", "provider_terminal"} =>
         /\ op[r]["turn"].kind = "turn" /\ run[r].dispatch # "none"
         /\ op[r]["prepare"].disposition = "completed"
    /\ run[r].outcome = "not_dispatched" =>
         /\ \A id \in OpIds : op[r][id].kind \in {"none", "admit"} \cup CriticalKinds
         /\ run[r].dispatch = "none"
    /\ run[r].phase = "settled" <=> run[r].outcome # "none"

\* A control whose effect became unknown marks its task for good, whenever its
\* receipt arrives (before, during or after the settlement of the run): the task
\* is recovery_required or retired, so it can never admit or dispatch again.
UncertaintyIsSticky ==
  \A r \in Runs :
    (\/ run[r].outcome = "recovery_required"
     \/ \E id \in Controls : Recorded(r, id) /\ op[r][id].disposition = "uncertain")
    => task[run[r].task].state \in {"recovery_required", "retired"}

\* A run waits exactly while the request it remembers waits for an answer: no
\* lost answer leaves it waiting on nothing, no late receipt revives a request.
WaitingMatchesRequest ==
  \A r \in Runs :
    /\ run[r].phase = "waiting" <=> run[r].requestState = "waiting"
    /\ run[r].phase = "settled" /\ run[r].request # NoRequest
         => run[r].requestState = "unavailable"

\* At most one continuation of a request may have reached the provider: a second
\* intent is possible only after the first one was definitely rejected.
OneAnswerPerRequest ==
  \A r \in Runs : \A i, j \in Controls :
    i # j /\ op[r][i].request # NoRequest /\ op[r][i].request = op[r][j].request
      => op[r][i].disposition = "rejected" \/ op[r][j].disposition = "rejected"

\* Provider inputs of a run all come from one executor, the one the run names:
\* an owner that takes over never replays or adds to an old executor's intents.
SingleExecutorEpoch ==
  \A r \in Runs : \A id \in OpIds :
    op[r][id].kind \in {"prepare", "configure", "turn", "steer", "request_resolution", "interrupt"}
      => op[r][id].ownerEpoch = run[r].ownerEpoch

\* Binding cleanup is confirmed only over a confirmed session close, and the
\* confirmation of the close is never withdrawn by a retry.
CleanupOrder ==
  \A r \in Runs : op[r]["binding_cleanup"].disposition = "completed"
                     => op[r]["session_close"].disposition = "completed"

\* No commit reopens a settled run or rewrites its outcome, late receipts of the
\* ledger included.
SettlementIsFinal ==
  [][\A r \in Runs : run[r].phase = "settled" =>
       run'[r].phase = "settled" /\ run'[r].outcome = run[r].outcome]_vars

\* Once a cancellation is recorded no further provider input of the run is
\* intended, whoever owns the store by then.
NoInputAfterCancel ==
  [][\A r \in Runs : run[r].cancelRequested =>
       \A id \in OpIds : ~Recorded(r, id) =>
         op'[r][id].kind \in {"none"} \cup CriticalKinds]_vars

\* How far a run may have got: its turn is handed over while it runs or waits.
Stage(phase) ==
  CASE phase = "preparing" -> "started"
    [] phase \in {"running", "waiting"} -> "entered"
    [] OTHER -> phase

\* What a run record tells a parent.
Seen(rec) ==
  [task |-> rec.task, stage |-> Stage(rec.phase), canceled |-> rec.cancelRequested,
   doubt |-> rec.recovery, outcome |-> rec.outcome]

Delegation == INSTANCE RunContract
  WITH work <- [r \in Runs |-> Seen(run[r])],
       retired <- {t \in Tasks : task[t].state = "retired"}

\* The planner keeps what delegation promises of its runs: they start one after the
\* other, end once and truthfully, and a task whose truth is lost does nothing more,
\* whatever the order of commands, late receipts and owners.
RunPromise == Delegation!ContractSpec

================================================================================
