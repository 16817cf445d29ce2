------------------------- MODULE DelegationStoreProofs -------------------------
(***************************************************************************)
(* Machine-checked facts about DelegationStore, for every value of its     *)
(* constants.  Every command about an admitted run is a Commit of one run  *)
(* record and one ledger; the proofs show once what a Commit preserves     *)
(* when the run record moves legally (LegalStep), and then that every      *)
(* command moves it legally.  The second half shows in the same way that   *)
(* every command commits a record its operation ledger backs (LedgerTruth),*)
(* and that the counters are a census of the records.                      *)
(***************************************************************************)
EXTENDS DelegationStore, FiniteSetTheorems, TLAPS

\* The records of a task and of the counters, as TypeOK has them.
TaskRecord == [state : {"absent", "active", "settled", "recovery_required", "retired"},
               runCount : Nat]
\* The counters of the store.
CapacityRecord == [tasks : Nat, runs : Nat, queuedRuns : Int, activeRuns : Int,
                   ordinaryOperations : Int]

\* What is not admitted has left no trace.
Traces ==
  \A r \in Runs :
    /\ run[r].phase = "absent" <=> run[r].task = NoTask
    /\ run[r].phase = "absent" =>
         /\ run[r].request = NoRequest
         /\ \A id \in OpIds : op[r][id].kind = "none" /\ op[r][id].attempts = 0

\* A run is settled exactly when it has an outcome.
SettledHasOutcome == \A r \in Runs : run[r].phase = "settled" <=> run[r].outcome # "none"

\* Ordinals are dealt from the run count of the task, and a queued run holds the
\* latest one.
Ordinals ==
  /\ \A t \in Tasks : task[t].state = "absent" => task[t].runCount = 0
  /\ \A r \in Runs : run[r].task \in Tasks =>
       /\ run[r].ordinal \in 1..task[run[r].task].runCount
       /\ run[r].phase = "queued" => run[r].ordinal = task[run[r].task].runCount

\* Runs of one task differ in ordinal and never execute together.
Exclusive ==
  \A r, s \in Runs :
    r # s /\ run[r].task = run[s].task /\ run[r].task # NoTask =>
      /\ run[r].ordinal # run[s].ordinal
      /\ ~(run[r].phase \in Active /\ run[s].phase \in Active)

\* A run remembers a request only from its running turn on, and a resolution in
\* the ledger names the request it answers.
RequestTruth(rec) ==
  /\ rec.request = NoRequest <=> rec.requestState = "none"
  /\ rec.request # NoRequest => rec.phase \in {"running", "waiting", "settled"}
  /\ rec.phase = "waiting" <=> rec.requestState = "waiting"
  /\ rec.phase = "settled" => rec.requestState \in {"none", "unavailable"}

\* A resolution is recorded for a request.
ResolutionNamesRequest(ledger) ==
  \A id \in OpIds : ledger[id].kind = "request_resolution" => ledger[id].request # NoRequest

\* Both hold of every run.
RequestsTrue ==
  \A r \in Runs : RequestTruth(run[r]) /\ ResolutionNamesRequest(op[r])

\* The inductive invariant behind the safety theorems.
IInv == TypeOK /\ Traces /\ SettledHasOutcome /\ Ordinals /\ Exclusive /\ RequestsTrue

\* The moves of a run record that keep IInv.
LegalStep(r, next) ==
  /\ next \in RunRecord
  /\ run[r].phase # "absent" /\ next.phase # "absent"
  /\ next.task = run[r].task /\ next.ordinal = run[r].ordinal
  /\ next.phase = "settled" <=> next.outcome # "none"
  /\ run[r].phase = "settled" => next.outcome = run[r].outcome
  /\ next.phase = "queued" => run[r].phase = "queued"
  /\ next.phase \in Active => run[r].phase \in Active \/ FreeExecutor(r)
  /\ RequestTruth(next)

\* The fields a move leaves alone when it only updates bookkeeping.
Kept(rec, next) ==
  /\ next.task = rec.task /\ next.ordinal = rec.ordinal /\ next.outcome = rec.outcome
  /\ next.phase = rec.phase /\ next.request = rec.request
  /\ next.requestState = rec.requestState

--------------------------------------------------------------------------------

\* The type invariant in terms of the named record sets.
LEMMA TypeParts ==
  TypeOK <=> /\ epoch \in 0..MaxEpoch
             /\ owner \in {0, epoch}
             /\ task \in [Tasks -> TaskRecord]
             /\ run \in [Runs -> RunRecord]
             /\ op \in [Runs -> [OpIds -> OpRecord]]
             /\ capacity \in CapacityRecord
BY DEF TypeOK, TaskRecord, CapacityRecord

\* Counter changes are 0 or 1.
LEMMA OneType == ASSUME NEW condition PROVE One(condition) \in {0, 1}
BY DEF One

\* deriveTask never returns an admitted task to the absent state.
LEMMA DerivedType ==
  ASSUME NEW t, NEW runs
  PROVE  DerivedState(t, runs) \in {"active", "settled", "recovery_required", "retired"}
BY DEF DerivedState

\* A commit of a legal move preserves the inductive invariant.
LEMMA CommitLegal ==
  ASSUME IInv, NEW r \in Runs, NEW next, NEW ledger \in [OpIds -> OpRecord],
         ResolutionNamesRequest(ledger), LegalStep(r, next), Commit(r, next, ledger)
  PROVE  IInv'
<1> USE TypeParts
<1>0. /\ next \in RunRecord /\ next.task \in Tasks
      /\ run[r] \in RunRecord /\ next.task = run[r].task
  BY DEF LegalStep, IInv, Traces, TypeOK, RunRecord
<1>1. run' \in [Runs -> RunRecord] /\ op' \in [Runs -> [OpIds -> OpRecord]]
  BY <1>0 DEF Commit, IInv
<1>2. epoch' \in 0..MaxEpoch /\ owner' \in {0, epoch'}
  BY DEF Commit, IInv
<1>3. capacity' \in CapacityRecord
  <2>1. next.operations \in Nat /\ run[r].operations \in Nat
    BY <1>0 DEF RunRecord
  <2>2. ActiveChange(run[r].phase, next.phase) \in Int
    BY OneType DEF ActiveChange
  <2>3. One(run[r].phase = "queued" /\ next.phase # "queued") \in Int
    BY OneType
  <2> QED BY <2>1, <2>2, <2>3 DEF Commit, IInv, CapacityAfter, CapacityRecord
<1>4. /\ task' \in [Tasks -> TaskRecord]
      /\ \A t \in Tasks : task'[t].runCount = task[t].runCount
      /\ \A t \in Tasks : task'[t].state = "absent" => task[t].state = "absent"
  <2>1. DerivedState(next.task, run') \in {"active", "settled", "recovery_required", "retired"}
    BY DerivedType
  <2> QED BY <1>0, <2>1 DEF Commit, IInv, TaskRecord
<1>5. /\ run'[r] = next /\ op'[r] = ledger
      /\ \A s \in Runs : s # r => run'[s] = run[s] /\ op'[s] = op[s]
  BY DEF Commit, IInv
<1>6. TypeOK'
  BY <1>1, <1>2, <1>3, <1>4 DEF TypeOK, TaskRecord, CapacityRecord
<1>7. Traces'
  BY <1>0, <1>5, IdentityAssumption DEF IInv, Traces, LegalStep
<1>8. SettledHasOutcome'
  BY <1>5 DEF IInv, SettledHasOutcome, LegalStep
<1>9. Ordinals'
  <2>1. \A t \in Tasks : task'[t].state = "absent" => task'[t].runCount = 0
    BY <1>4 DEF IInv, Ordinals
  <2>2. ASSUME NEW s \in Runs, run'[s].task \in Tasks
        PROVE  /\ run[s].task = run'[s].task /\ run'[s].ordinal = run[s].ordinal
               /\ run'[s].phase = "queued" => run[s].phase = "queued"
    <3>1. CASE s = r
      BY <1>5, <3>1 DEF LegalStep
    <3>2. CASE s # r
      BY <1>5, <3>2
    <3> QED BY <3>1, <3>2
  <2>3. ASSUME NEW s \in Runs, run'[s].task \in Tasks
        PROVE  /\ run'[s].ordinal \in 1..task'[run'[s].task].runCount
               /\ run'[s].phase = "queued" => run'[s].ordinal = task'[run'[s].task].runCount
    <3>1. /\ run[s].ordinal \in 1..task[run[s].task].runCount
          /\ run[s].phase = "queued" => run[s].ordinal = task[run[s].task].runCount
      BY <2>2, <2>3 DEF IInv, Ordinals
    <3>2. task'[run'[s].task].runCount = task[run[s].task].runCount
      BY <1>4, <2>2, <2>3
    <3> QED BY <2>2, <2>3, <3>1, <3>2
  <2> QED BY <2>1, <2>3 DEF Ordinals
<1>10. Exclusive'
  <2>1. ASSUME NEW s \in Runs, s # r, run[s].task = next.task
        PROVE  next.ordinal # run[s].ordinal /\ ~(next.phase \in Active /\ run[s].phase \in Active)
    BY <1>0, <2>1, IdentityAssumption DEF IInv, Exclusive, LegalStep, FreeExecutor, RunsOf
  <2> QED BY <1>0, <1>5, <2>1 DEF IInv, Exclusive
<1>11. RequestsTrue'
  <2>1. RequestTruth(next)
    BY DEF LegalStep
  <2>2. ASSUME NEW s \in Runs PROVE RequestTruth(run'[s]) /\ ResolutionNamesRequest(op'[s])
    <3>1. CASE s = r
      BY <1>5, <2>1, <3>1
    <3>2. CASE s # r
      BY <1>5, <3>2 DEF IInv, RequestsTrue
    <3> QED BY <3>1, <3>2
  <2> QED BY <2>2 DEF RequestsTrue, RequestTruth, ResolutionNamesRequest
<1> QED BY <1>6, <1>7, <1>8, <1>9, <1>10, <1>11 DEF IInv

--------------------------------------------------------------------------------
(* Every command about an admitted run is a commit of a legal move. *)

\* Recording an operation keeps the ledger well formed.
LEMMA LedgerType ==
  ASSUME IInv, NEW r \in Runs, NEW id \in OpIds, NEW kind \in Kinds,
         NEW request \in Requests \cup {NoRequest},
         kind = "request_resolution" => request # NoRequest
  PROVE  /\ WithOperation(r, id, kind, request) \in [OpIds -> OpRecord]
         /\ ResolutionNamesRequest(WithOperation(r, id, kind, request))
<1>1. owner \in 0..MaxEpoch
  BY LimitsAssumption DEF IInv, TypeOK
<1>2. NewOperation(kind, request) \in OpRecord
  BY <1>1 DEF NewOperation, OpRecord, Dispositions
<1>3. NewOperation(kind, request).kind = kind /\ NewOperation(kind, request).request = request
  BY DEF NewOperation
<1>4. WithOperation(r, id, kind, request) \in [OpIds -> OpRecord]
  BY <1>2 DEF WithOperation, IInv, TypeOK
<1>5. ASSUME NEW j \in OpIds,
             WithOperation(r, id, kind, request)[j].kind = "request_resolution"
      PROVE  WithOperation(r, id, kind, request)[j].request # NoRequest
  <2>1. op[r] \in [OpIds -> OpRecord]
    BY DEF IInv, TypeOK
  <2>2. CASE j = id
    <3>1. WithOperation(r, id, kind, request)[j] = NewOperation(kind, request)
      BY <2>1, <2>2 DEF WithOperation
    <3> QED BY <1>3, <1>5, <3>1
  <2>3. CASE j # id
    <3>1. WithOperation(r, id, kind, request)[j] = op[r][j]
      BY <2>1, <2>3 DEF WithOperation
    <3> QED BY <1>5, <3>1 DEF IInv, RequestsTrue, ResolutionNamesRequest
  <2> QED BY <2>2, <2>3
<1> QED BY <1>4, <1>5 DEF ResolutionNamesRequest

\* Rewriting an entry without touching its kind and request does too.
LEMMA LedgerUpdate ==
  ASSUME IInv, NEW r \in Runs, NEW id \in OpIds, NEW entry \in OpRecord,
         entry.kind = op[r][id].kind, entry.request = op[r][id].request
  PROVE  /\ [op[r] EXCEPT ![id] = entry] \in [OpIds -> OpRecord]
         /\ ResolutionNamesRequest([op[r] EXCEPT ![id] = entry])
<1>1. op[r] \in [OpIds -> OpRecord] /\ ResolutionNamesRequest(op[r])
  BY DEF IInv, TypeOK, RequestsTrue
<1>2. ASSUME NEW j \in OpIds, [op[r] EXCEPT ![id] = entry][j].kind = "request_resolution"
      PROVE  [op[r] EXCEPT ![id] = entry][j].request # NoRequest
  <2>1. [op[r] EXCEPT ![id] = entry][j] = IF j = id THEN entry ELSE op[r][j]
    BY <1>1
  <2> QED BY <1>1, <1>2, <2>1 DEF ResolutionNamesRequest
<1> QED BY <1>1, <1>2 DEF ResolutionNamesRequest

\* The retry of a cleanup (execution.ts:29-39) keeps kind and request of its entry.
LEMMA RetryEntry ==
  ASSUME NEW prior \in OpRecord, NEW n \in 0..2, NEW e \in 0..MaxEpoch
  PROVE  LET entry == [prior EXCEPT !.attempts = n, !.disposition = "intent", !.ownerEpoch = e]
         IN  entry \in OpRecord /\ entry.kind = prior.kind /\ entry.request = prior.request
BY DEF OpRecord, Dispositions

\* A record that keeps identity, outcome and request and gives no phase back.
LEMMA LegalPhase ==
  ASSUME IInv, NEW r \in Runs, NEW next \in RunRecord,
         run[r].phase # "absent",
         next.task = run[r].task, next.ordinal = run[r].ordinal,
         next.outcome = run[r].outcome, RequestTruth(next),
         \/ next.phase = run[r].phase
         \/ run[r].phase \in Active /\ next.phase \in Active
         \/ run[r].phase = "queued" /\ next.phase = "preparing" /\ FreeExecutor(r)
  PROVE  LegalStep(r, next)
BY DEF LegalStep, IInv, SettledHasOutcome, Active

\* A record that only updates bookkeeping is a legal move.
LEMMA LegalKept ==
  ASSUME IInv, NEW r \in Runs, NEW next \in RunRecord, run[r].phase # "absent",
         Kept(run[r], next)
  PROVE  LegalStep(r, next)
<1>1. RequestTruth(next)
  BY DEF IInv, RequestsTrue, RequestTruth, Kept
<1> QED BY <1>1, LegalPhase DEF Kept

\* The fields receipts and cancellations rewrite are bookkeeping of this kind:
\* the preparation receipt,
LEMMA KeptPreparation ==
  ASSUME NEW rec \in RunRecord, NEW value \in {"none", "intended", "completed", "uncertain"}
  PROVE  [rec EXCEPT !.preparation = value] \in RunRecord /\ Kept(rec, [rec EXCEPT !.preparation = value])
BY DEF RunRecord, Kept

\* the delegation of the turn,
LEMMA KeptDispatch ==
  ASSUME NEW rec \in RunRecord, NEW value \in {"none", "intended", "delegated"}
  PROVE  [rec EXCEPT !.dispatch = value] \in RunRecord /\ Kept(rec, [rec EXCEPT !.dispatch = value])
BY DEF RunRecord, Kept

\* the recovery reason of an uncertain control,
LEMMA KeptRecovery ==
  ASSUME NEW rec \in RunRecord, NEW value \in BOOLEAN
  PROVE  [rec EXCEPT !.recovery = value] \in RunRecord /\ Kept(rec, [rec EXCEPT !.recovery = value])
BY DEF RunRecord, Kept

\* the ordinary operation count,
LEMMA KeptOperations ==
  ASSUME NEW rec \in RunRecord, NEW value \in Nat
  PROVE  [rec EXCEPT !.operations = value] \in RunRecord /\ Kept(rec, [rec EXCEPT !.operations = value])
BY DEF RunRecord, Kept

\* and the cancellation mark.
LEMMA KeptCancel ==
  ASSUME NEW rec \in RunRecord, NEW value \in BOOLEAN
  PROVE  [rec EXCEPT !.cancelRequested = value] \in RunRecord
         /\ Kept(rec, [rec EXCEPT !.cancelRequested = value])
BY DEF RunRecord, Kept

\* settleRun is a legal move of every run that is not settled yet.
LEMMA SettledLegal ==
  ASSUME IInv, NEW r \in Runs, NEW rec \in RunRecord, NEW requested \in Outcomes,
         run[r].phase \notin {"absent", "settled"}, Kept(run[r], rec)
  PROVE  LegalStep(r, Settled(rec, requested))
<1> DEFINE next == Settled(rec, requested)
           outcome == IF rec.recovery THEN "recovery_required" ELSE requested
           state == IF rec.request = NoRequest THEN rec.requestState ELSE "unavailable"
<1>1. outcome \in Outcomes /\ outcome # "none"
  BY DEF Outcomes
<1>2. state \in {"none", "waiting", "resolution_intended", "resolved", "unavailable"}
  BY DEF RunRecord
<1>3. next = [rec EXCEPT !.phase = "settled", !.outcome = outcome, !.requestState = state]
  BY DEF Settled
<1> HIDE DEF next, outcome, state
<1>4. next \in RunRecord
  BY <1>1, <1>2, <1>3 DEF RunRecord, Phases
<1>5. /\ next.phase = "settled" /\ next.outcome = outcome /\ next.task = rec.task
      /\ next.ordinal = rec.ordinal /\ next.request = rec.request
      /\ next.requestState = state
  BY <1>3 DEF RunRecord
<1>6. RequestTruth(next)
  BY <1>5 DEF state, Kept, RequestTruth, IInv, RequestsTrue
<1>7. LegalStep(r, next)
  BY <1>1, <1>4, <1>5, <1>6 DEF LegalStep, Active, Kept
<1> QED BY <1>7 DEF next

\* An owner token carries an epoch in range, or there is none.
LEMMA OwnerType == ASSUME IInv PROVE owner \in 0..MaxEpoch
BY LimitsAssumption DEF IInv, TypeOK

\* A step of run r is the commit of a legal move.
LegalCommit(r) ==
  \E next \in RunRecord, ledger \in [OpIds -> OpRecord] :
    ResolutionNamesRequest(ledger) /\ LegalStep(r, next) /\ Commit(r, next, ledger)

\* dispatchIntent commits legal moves only.
LEMMA DispatchLegal ==
  ASSUME IInv, NEW r \in Runs, Dispatch(r)
  PROVE  LegalCommit(r)
<1> DEFINE more == run[r].operations + 1
<1>0. /\ run[r] \in RunRecord /\ op[r] \in [OpIds -> OpRecord] /\ owner \in 0..MaxEpoch
      /\ RequestTruth(run[r]) /\ ResolutionNamesRequest(op[r])
  BY OwnerType DEF IInv, TypeOK, RequestsTrue
<1>1. more \in Nat
  BY <1>0 DEF RunRecord
<1>2. NoRequest \in Requests \cup {NoRequest}
  OBVIOUS
<1> HIDE DEF more
<1>3. CASE DispatchPrepare(r)
  <2> DEFINE next == [run[r] EXCEPT !.phase = "preparing", !.preparation = "intended",
                                    !.ownerEpoch = owner, !.operations = more]
             ledger == WithOperation(r, "prepare", "prepare", NoRequest)
  <2>1. next \in RunRecord
    BY <1>0, <1>1 DEF RunRecord, Phases, Active
  <2>2. /\ next.phase = "preparing" /\ next.task = run[r].task
        /\ next.ordinal = run[r].ordinal /\ next.outcome = run[r].outcome
        /\ next.request = run[r].request /\ next.requestState = run[r].requestState
    BY <1>0 DEF RunRecord
  <2>3. ledger \in [OpIds -> OpRecord] /\ ResolutionNamesRequest(ledger)
    BY <1>2, LedgerType DEF OpIds, FixedIds, Kinds, OrdinaryKinds
  <2>4. Commit(r, next, ledger)
    BY <1>3 DEF DispatchPrepare, more
  <2> HIDE DEF next, ledger
  <2>5. RequestTruth(next)
    BY <1>0, <1>3, <2>2 DEF RequestTruth, DispatchPrepare
  <2>6. LegalStep(r, next)
    BY <1>3, <2>1, <2>2, <2>5, LegalPhase DEF DispatchPrepare
  <2> QED BY <2>1, <2>3, <2>4, <2>6 DEF LegalCommit
<1>4. CASE DispatchTurn(r)
  <2> DEFINE next == [run[r] EXCEPT !.phase = "running", !.dispatch = "intended",
                                    !.operations = more]
             ledger == WithOperation(r, "turn", "turn", NoRequest)
  <2>1. next \in RunRecord
    BY <1>0, <1>1 DEF RunRecord, Phases, Active
  <2>2. /\ next.phase = "running" /\ next.task = run[r].task
        /\ next.ordinal = run[r].ordinal /\ next.outcome = run[r].outcome
        /\ next.request = run[r].request /\ next.requestState = run[r].requestState
    BY <1>0 DEF RunRecord
  <2>3. ledger \in [OpIds -> OpRecord] /\ ResolutionNamesRequest(ledger)
    BY <1>2, LedgerType DEF OpIds, FixedIds, Kinds, OrdinaryKinds
  <2>4. Commit(r, next, ledger)
    BY <1>4 DEF DispatchTurn, more
  <2> HIDE DEF next, ledger
  <2>5. RequestTruth(next)
    BY <1>0, <1>4, <2>2 DEF RequestTruth, DispatchTurn
  <2>6. LegalStep(r, next)
    BY <1>4, <2>1, <2>2, <2>5, LegalPhase DEF DispatchTurn, Active
  <2> QED BY <2>1, <2>3, <2>4, <2>6 DEF LegalCommit
<1>5. ASSUME NEW id \in Controls, NEW kind \in {"configure", "steer"}, DispatchControl(r, id, kind)
      PROVE  LegalCommit(r)
  <2> DEFINE next == [run[r] EXCEPT !.operations = more]
             ledger == WithOperation(r, id, kind, NoRequest)
  <2>1. next \in RunRecord /\ Kept(run[r], next)
    BY <1>0, <1>1, KeptOperations
  <2>2. run[r].phase # "absent"
    BY <1>5 DEF DispatchControl
  <2>3. ledger \in [OpIds -> OpRecord] /\ ResolutionNamesRequest(ledger)
    BY <1>2, LedgerType DEF OpIds, Kinds, OrdinaryKinds
  <2>4. Commit(r, next, ledger)
    BY <1>5 DEF DispatchControl, more
  <2> HIDE DEF next, ledger
  <2> QED BY <2>1, <2>2, <2>3, <2>4, LegalKept DEF LegalCommit
<1>6. ASSUME NEW ledger \in [OpIds -> OpRecord], ResolutionNamesRequest(ledger),
             Commit(r, run[r], ledger), run[r].phase # "absent"
      PROVE  LegalCommit(r)
  BY <1>0, <1>6, LegalKept DEF LegalCommit, Kept
<1>7. CASE DispatchInterrupt(r)
  <2> DEFINE ledger == WithOperation(r, "interrupt", "interrupt", NoRequest)
  <2>1. ledger \in [OpIds -> OpRecord] /\ ResolutionNamesRequest(ledger)
    BY <1>2, LedgerType DEF OpIds, FixedIds, Kinds, CriticalKinds
  <2>2. Commit(r, run[r], ledger) /\ run[r].phase # "absent"
    BY <1>7 DEF DispatchInterrupt, Active
  <2> HIDE DEF ledger
  <2> QED BY <1>6, <2>1, <2>2
<1>8. ASSUME NEW kind \in CleanupKinds, DispatchCleanup(r, kind)
      PROVE  LegalCommit(r)
  <2> DEFINE ledger == WithOperation(r, kind, kind, NoRequest)
  <2>1. ledger \in [OpIds -> OpRecord] /\ ResolutionNamesRequest(ledger)
    BY <1>2, LedgerType DEF OpIds, FixedIds, Kinds, CriticalKinds, CleanupKinds
  <2>2. Commit(r, run[r], ledger) /\ run[r].phase # "absent"
    BY <1>8 DEF DispatchCleanup, Admitted
  <2> HIDE DEF ledger
  <2> QED BY <1>6, <2>1, <2>2
<1>9. ASSUME NEW kind \in CleanupKinds, RetryCleanup(r, kind)
      PROVE  LegalCommit(r)
  <2> DEFINE entry == [op[r][kind] EXCEPT !.attempts = 2, !.disposition = "intent",
                                          !.ownerEpoch = owner]
             ledger == [op[r] EXCEPT ![kind] = entry]
  <2>1. kind \in OpIds
    BY DEF CleanupKinds, OpIds, FixedIds, CriticalKinds
  <2>2. entry \in OpRecord /\ entry.kind = op[r][kind].kind /\ entry.request = op[r][kind].request
    <3> DEFINE prior == op[r][kind]
               second == 2
               again == [prior EXCEPT !.attempts = second, !.disposition = "intent",
                                      !.ownerEpoch = owner]
    <3>1. prior \in OpRecord /\ second \in 0..2
      BY <1>0, <2>1
    <3>2. entry = again
      OBVIOUS
    <3> HIDE DEF prior, second, entry
    <3>3. again \in OpRecord /\ again.kind = prior.kind /\ again.request = prior.request
      BY <1>0, <3>1, RetryEntry
    <3> HIDE DEF again
    <3> QED BY <3>2, <3>3 DEF prior
  <2>3. Commit(r, run[r], ledger) /\ run[r].phase # "absent"
    BY <1>9 DEF RetryCleanup, Admitted
  <2>4. ledger \in [OpIds -> OpRecord] /\ ResolutionNamesRequest(ledger)
    <3> HIDE DEF entry
    <3> QED BY <2>1, <2>2, LedgerUpdate
  <2> HIDE DEF ledger
  <2> QED BY <1>6, <2>3, <2>4
<1> QED BY <1>3, <1>4, <1>5, <1>7, <1>8, <1>9 DEF Dispatch

\* operationReceipt commits legal moves only, however late the receipt.
LEMMA ReceiptLegal ==
  ASSUME IInv, NEW r \in Runs, Receipt(r)
  PROVE  LegalCommit(r)
<1>0. /\ run[r] \in RunRecord /\ op[r] \in [OpIds -> OpRecord]
      /\ RequestTruth(run[r]) /\ ResolutionNamesRequest(op[r])
  BY DEF IInv, TypeOK, RequestsTrue
<1>1. PICK id \in OpIds, disposition \in Dispositions, state \in {"none", "pending", "unavailable"} :
        OperationReceipt(r, id, disposition, state)
  BY DEF Receipt
<1> DEFINE prior == op[r][id]
           entry == [prior EXCEPT !.disposition = disposition]
           next == ReceiptRun(run[r], prior, disposition, state)
           lost == run[r].recovery \/ disposition = "uncertain"
<1>2. prior \in OpRecord /\ prior.kind # "none" /\ run[r].phase # "absent"
  BY <1>0, <1>1 DEF OperationReceipt, Recorded, IInv, Traces
<1>3. [op[r] EXCEPT ![id] = entry] \in [OpIds -> OpRecord]
      /\ ResolutionNamesRequest([op[r] EXCEPT ![id] = entry])
  <2>1. entry \in OpRecord /\ entry.kind = prior.kind /\ entry.request = prior.request
    <3> HIDE DEF prior
    <3> QED BY <1>2 DEF OpRecord
  <2> HIDE DEF entry
  <2> QED BY <2>1, LedgerUpdate
<1>4. next \in RunRecord /\ LegalStep(r, next)
  <2>1. CASE prior.kind = "prepare"
    <3>1. PreparationReceipt(disposition) \in {"none", "intended", "completed", "uncertain"}
      BY <1>1, <2>1 DEF OperationReceipt, ReceiptDispositions, PreparationReceipt, CleanupKinds
    <3>2. next = [run[r] EXCEPT !.preparation = PreparationReceipt(disposition)]
      BY <2>1 DEF ReceiptRun
    <3> HIDE DEF next
    <3> QED BY <1>0, <1>2, <3>1, <3>2, KeptPreparation, LegalKept
  <2>2. CASE prior.kind = "turn"
    <3> DEFINE sent == IF disposition = "delegated" THEN "delegated" ELSE run[r].dispatch
    <3>1. next = [run[r] EXCEPT !.dispatch = sent]
      BY <2>2 DEF ReceiptRun
    <3>2. sent \in {"none", "intended", "delegated"}
      BY <1>0 DEF RunRecord
    <3> HIDE DEF next, sent
    <3> QED BY <1>0, <1>2, <3>1, <3>2, KeptDispatch, LegalKept
  <2>3. lost \in BOOLEAN
    OBVIOUS
  <2>4. CASE prior.kind \in {"steer", "configure"}
    <3>1. next = [run[r] EXCEPT !.recovery = lost]
      BY <2>4 DEF ReceiptRun
    <3> HIDE DEF next, lost
    <3> QED BY <1>0, <1>2, <2>3, <3>1, KeptRecovery, LegalKept
  <2>5. CASE prior.kind = "request_resolution"
    <3> DEFINE moved == ResolutionReceipt(run[r], prior, disposition, state)
               answer == CASE run[r].requestState = "unavailable" -> "unavailable"
                           [] run[r].requestState # "unavailable" /\ disposition = "delivered" -> "resolved"
                           [] OTHER -> IF state = "pending" THEN "waiting" ELSE "unavailable"
               phase == IF run[r].phase = "settled" THEN run[r].phase
                        ELSE IF answer = "waiting" THEN "waiting" ELSE "running"
    <3>1. CASE run[r].request # prior.request
      <4>1. next = [run[r] EXCEPT !.recovery = lost]
        <5>1. moved = run[r]
          BY <3>1 DEF ResolutionReceipt
        <5>2. next = [moved EXCEPT !.recovery = moved.recovery \/ disposition = "uncertain"]
          BY <2>5 DEF ReceiptRun
        <5> HIDE DEF next, moved
        <5> QED BY <5>1, <5>2
      <4> HIDE DEF next, lost
      <4> QED BY <1>0, <1>2, <2>3, <4>1, KeptRecovery, LegalKept
    <3>2. CASE run[r].request = prior.request
      <4>1. moved = [run[r] EXCEPT !.requestState = answer, !.phase = phase]
        BY <3>2 DEF ResolutionReceipt
      <4>2. /\ run[r].request # NoRequest /\ run[r].phase \in {"running", "waiting", "settled"}
            /\ run[r].requestState \in {"resolution_intended", "unavailable"}
        BY <1>0, <1>1, <2>5, <3>2 DEF OperationReceipt, RequestTruth, ResolutionNamesRequest
      <4>3. /\ answer \in {"waiting", "resolved", "unavailable"}
            /\ phase \in {"running", "waiting", "settled"}
            /\ phase = "settled" <=> run[r].phase = "settled"
            /\ phase = "waiting" <=> answer = "waiting"
            /\ phase = "settled" => answer = "unavailable"
        BY <1>0, <4>2 DEF RequestTruth
      <4> HIDE DEF answer, phase
      <4>4. /\ moved \in RunRecord /\ moved.task = run[r].task /\ moved.ordinal = run[r].ordinal
            /\ moved.outcome = run[r].outcome /\ moved.phase = phase
            /\ moved.request = run[r].request /\ moved.requestState = answer
            /\ moved.recovery = run[r].recovery
        BY ZenonT(60), <1>0, <4>1, <4>3 DEF RunRecord, Phases, Active
      <4>5. next = [moved EXCEPT !.recovery = lost]
        <5>1. next = [moved EXCEPT !.recovery = moved.recovery \/ disposition = "uncertain"]
          BY <2>5 DEF ReceiptRun
        <5> HIDE DEF next, moved
        <5> QED BY <4>4, <5>1
      <4> HIDE DEF next, moved, lost
      <4>6. next \in RunRecord /\ Kept(moved, next)
        BY <2>3, <4>4, <4>5, KeptRecovery
      <4>7. RequestTruth(next)
        BY <4>2, <4>3, <4>4, <4>6 DEF Kept, RequestTruth
      <4>8. next.phase = run[r].phase \/ (run[r].phase \in Active /\ next.phase \in Active)
        <5>1. next.phase = phase
          BY <4>4, <4>6 DEF Kept
        <5>2. CASE run[r].phase = "settled"
          BY <4>3, <5>1, <5>2
        <5>3. CASE run[r].phase # "settled"
          BY <4>2, <4>3, <5>1, <5>3 DEF Active
        <5> QED BY <5>2, <5>3
      <4> QED BY <1>2, <4>4, <4>6, <4>7, <4>8, LegalPhase DEF Kept
    <3> QED BY <3>1, <3>2
  <2>6. CASE prior.kind \notin {"prepare", "turn", "steer", "configure", "request_resolution"}
    <3>1. next = run[r]
      BY <2>6 DEF ReceiptRun
    <3> HIDE DEF next
    <3> QED BY <1>0, <1>2, <3>1, LegalKept DEF Kept
  <2> QED BY <2>1, <2>2, <2>4, <2>5, <2>6
<1>5. Commit(r, next, [op[r] EXCEPT ![id] = entry])
  BY <1>1 DEF OperationReceipt
<1> HIDE DEF next, entry
<1> QED BY <1>3, <1>4, <1>5 DEF LegalCommit

\* requestState commits legal moves only.
LEMMA RequestLegal ==
  ASSUME IInv, NEW r \in Runs, Request(r)
  PROVE  LegalCommit(r)
<1> DEFINE more == run[r].operations + 1
<1>0. /\ run[r] \in RunRecord /\ op[r] \in [OpIds -> OpRecord]
      /\ RequestTruth(run[r]) /\ ResolutionNamesRequest(op[r])
      /\ run[r].phase = "absent" => run[r].request = NoRequest
  BY DEF IInv, TypeOK, RequestsTrue, Traces
<1>1. more \in Nat
  BY <1>0 DEF RunRecord
<1> HIDE DEF more
<1>2. ASSUME NEW request \in Requests, RequestOpened(r, request)
      PROVE  LegalCommit(r)
  <2> DEFINE next == [run[r] EXCEPT !.phase = "waiting", !.request = request,
                                    !.requestState = "waiting"]
  <2>1. next \in RunRecord
    BY <1>0 DEF RunRecord, Phases, Active
  <2>2. /\ next.phase = "waiting" /\ next.task = run[r].task
        /\ next.ordinal = run[r].ordinal /\ next.outcome = run[r].outcome
        /\ next.request = request /\ next.requestState = "waiting"
    BY <1>0 DEF RunRecord
  <2>3. Commit(r, next, op[r]) /\ run[r].phase = "running"
    BY <1>2 DEF RequestOpened
  <2> HIDE DEF next
  <2>4. RequestTruth(next)
    BY <2>2, IdentityAssumption DEF RequestTruth
  <2>5. LegalStep(r, next)
    BY <2>1, <2>2, <2>3, <2>4, LegalPhase DEF Active
  <2> QED BY <1>0, <2>1, <2>3, <2>5 DEF LegalCommit
<1>3. ASSUME NEW id \in Controls, ResolutionIntended(r, id)
      PROVE  LegalCommit(r)
  <2> DEFINE next == [run[r] EXCEPT !.phase = "running", !.requestState = "resolution_intended",
                                    !.operations = more]
             ledger == WithOperation(r, id, "request_resolution", run[r].request)
  <2>1. next \in RunRecord
    BY <1>0, <1>1 DEF RunRecord, Phases, Active
  <2>2. /\ next.phase = "running" /\ next.task = run[r].task
        /\ next.ordinal = run[r].ordinal /\ next.outcome = run[r].outcome
        /\ next.request = run[r].request /\ next.requestState = "resolution_intended"
    BY <1>0 DEF RunRecord
  <2>3. Commit(r, next, ledger) /\ run[r].phase = "waiting" /\ run[r].requestState = "waiting"
    BY <1>3 DEF ResolutionIntended, more
  <2>4. run[r].request # NoRequest /\ run[r].request \in Requests \cup {NoRequest}
    BY <1>0, <2>3 DEF RequestTruth, RunRecord
  <2>5. ledger \in [OpIds -> OpRecord] /\ ResolutionNamesRequest(ledger)
    BY <2>4, LedgerType DEF OpIds, Kinds, OrdinaryKinds
  <2> HIDE DEF next, ledger
  <2>6. RequestTruth(next)
    BY <2>2, <2>4 DEF RequestTruth
  <2>7. LegalStep(r, next)
    BY <2>1, <2>2, <2>3, <2>6, LegalPhase DEF Active
  <2> QED BY <2>1, <2>3, <2>5, <2>7 DEF LegalCommit
<1>4. CASE RequestResolved(r)
  <2> DEFINE next == [run[r] EXCEPT !.requestState = "resolved"]
  <2>1. next \in RunRecord
    BY <1>0 DEF RunRecord
  <2>2. /\ next.phase = run[r].phase /\ next.task = run[r].task
        /\ next.ordinal = run[r].ordinal /\ next.outcome = run[r].outcome
        /\ next.request = run[r].request /\ next.requestState = "resolved"
    BY <1>0 DEF RunRecord
  <2>3. /\ Commit(r, next, op[r]) /\ run[r].request # NoRequest
        /\ run[r].requestState = "resolution_intended"
    BY <1>4 DEF RequestResolved
  <2> HIDE DEF next
  <2>4. RequestTruth(next)
    BY <1>0, <2>2, <2>3 DEF RequestTruth
  <2>5. LegalStep(r, next)
    BY <1>0, <2>1, <2>2, <2>3, <2>4, LegalPhase
  <2> QED BY <1>0, <2>1, <2>3, <2>5 DEF LegalCommit
<1>5. CASE RequestUnavailable(r)
  <2> DEFINE phase == IF run[r].phase = "waiting" THEN "running" ELSE run[r].phase
             next == [run[r] EXCEPT !.requestState = "unavailable", !.phase = phase]
  <2>0. phase \in Phases
    BY <1>0 DEF RunRecord, Phases, Active
  <2>1. Commit(r, next, op[r]) /\ run[r].request # NoRequest
    BY <1>5 DEF RequestUnavailable
  <2>2. /\ next \in RunRecord
        /\ next.phase = phase /\ next.task = run[r].task
        /\ next.ordinal = run[r].ordinal /\ next.outcome = run[r].outcome
        /\ next.request = run[r].request /\ next.requestState = "unavailable"
    <3> HIDE DEF phase
    <3> QED BY <1>0, <2>0 DEF RunRecord
  <2> HIDE DEF next
  <2>3. RequestTruth(next)
    BY <1>0, <2>1, <2>2 DEF RequestTruth
  <2>4. next.phase = run[r].phase \/ (run[r].phase \in Active /\ next.phase \in Active)
    BY <2>2 DEF Active
  <2>5. LegalStep(r, next)
    BY <1>0, <2>1, <2>2, <2>3, <2>4, LegalPhase
  <2> QED BY <1>0, <2>1, <2>2, <2>5 DEF LegalCommit
<1> QED BY <1>2, <1>3, <1>4, <1>5 DEF Request

\* cancelRun and settle commit legal moves only.
LEMMA FinishLegal ==
  ASSUME IInv, NEW r \in Runs, Finish(r)
  PROVE  LegalCommit(r)
<1>0. /\ run[r] \in RunRecord /\ op[r] \in [OpIds -> OpRecord]
      /\ ResolutionNamesRequest(op[r])
  BY DEF IInv, TypeOK, RequestsTrue
<1>1. CASE CancelRun(r)
  <2> DEFINE canceled == [run[r] EXCEPT !.cancelRequested = TRUE]
             ledger == WithOperation(r, "cancel", "cancel", NoRequest)
             next == IF run[r].phase = "settled" THEN run[r]
                     ELSE IF NeverDispatched(run[r]) THEN Settled(canceled, "not_dispatched")
                     ELSE canceled
  <2>1. canceled \in RunRecord /\ Kept(run[r], canceled)
    BY <1>0, KeptCancel
  <2>2. ledger \in [OpIds -> OpRecord] /\ ResolutionNamesRequest(ledger)
    BY LedgerType DEF OpIds, FixedIds, Kinds, CriticalKinds
  <2>3. Commit(r, next, ledger) /\ run[r].phase # "absent"
    BY <1>1 DEF CancelRun, Admitted
  <2> HIDE DEF canceled, ledger
  <2>4. LegalStep(r, next)
    <3>1. CASE run[r].phase = "settled"
      BY <1>0, <3>1, LegalKept DEF Kept
    <3>2. CASE run[r].phase # "settled" /\ NeverDispatched(run[r])
      <4>1. "not_dispatched" \in Outcomes
        BY DEF Outcomes
      <4> QED BY <2>1, <2>3, <3>2, <4>1, SettledLegal
    <3>3. CASE run[r].phase # "settled" /\ ~NeverDispatched(run[r])
      BY <2>1, <2>3, <3>3, LegalKept
    <3> QED BY <3>1, <3>2, <3>3
  <2> HIDE DEF next
  <2> QED BY <2>2, <2>3, <2>4 DEF LegalCommit, LegalStep
<1>2. ASSUME NEW requested \in Outcomes, Settle(r, requested)
      PROVE  LegalCommit(r)
  <2>1. run[r].phase \notin {"absent", "settled"}
    BY <1>2 DEF Settle, Admitted, IInv, SettledHasOutcome
  <2>2. LegalStep(r, Settled(run[r], requested))
    BY <1>0, <2>1, SettledLegal DEF Kept
  <2> QED BY <1>0, <1>2, <2>2 DEF LegalCommit, LegalStep, Settle
<1> QED BY <1>1, <1>2 DEF Finish

--------------------------------------------------------------------------------
(* The steps that are no commit of an admitted run. *)

\* An admission deals the next ordinal of its task to a run without a trace, and
\* needs a task without a queued or waiting run.
LEMMA AdmitRunPreserves ==
  ASSUME IInv, NEW t \in Tasks, NEW r \in Runs, AdmitRun(t, r),
         \A other \in RunsOf(t) : run[other].phase # "queued"
  PROVE  IInv'
<1> USE TypeParts
<1> DEFINE ordinal == task[t].runCount + 1
           next == [BlankRun EXCEPT !.task = t, !.ordinal = ordinal,
                                    !.ownerEpoch = owner, !.phase = "queued", !.operations = 1]
           ledger == WithOperation(r, "admit", "admit", NoRequest)
           state == DerivedState(t, run')
<1>1. /\ run[r].phase = "absent" /\ run[r].task = NoTask
      /\ task \in [Tasks -> TaskRecord] /\ capacity \in CapacityRecord
      /\ run \in [Runs -> RunRecord] /\ op \in [Runs -> [OpIds -> OpRecord]]
  BY DEF AdmitRun, Admitted, IInv, Traces
<1>2. owner \in 0..MaxEpoch
  BY OwnerType
<1>3. ordinal \in Nat /\ ordinal >= 1
  BY <1>1 DEF TaskRecord
<1>4. ledger \in [OpIds -> OpRecord] /\ ResolutionNamesRequest(ledger)
  BY LedgerType DEF OpIds, FixedIds, Kinds, OrdinaryKinds
<1>5. state \in {"active", "settled", "recovery_required", "retired"}
  BY DerivedType
<1>6. /\ run' = [run EXCEPT ![r] = next] /\ op' = [op EXCEPT ![r] = ledger]
      /\ task' = [task EXCEPT ![t] = [state |-> state, runCount |-> ordinal]]
      /\ owner' = owner /\ epoch' = epoch
  BY <1>1 DEF AdmitRun
<1>7. /\ next \in RunRecord /\ next.task = t /\ next.ordinal = ordinal
      /\ next.phase = "queued" /\ next.outcome = "none" /\ next.request = NoRequest
      /\ next.requestState = "none"
  <2> HIDE DEF ordinal
  <2> QED BY <1>2, <1>3, LimitsAssumption DEF RunRecord, BlankRun, Phases
<1> HIDE DEF next, ledger, state
<1>8. capacity' \in CapacityRecord
  BY <1>1, OneType DEF AdmitRun, CapacityRecord
<1>9. /\ task' \in [Tasks -> TaskRecord]
      /\ task'[t].runCount = ordinal /\ task'[t].state # "absent"
      /\ \A u \in Tasks : u # t => task'[u] = task[u]
  BY <1>1, <1>3, <1>5, <1>6 DEF TaskRecord
<1>10. /\ run' \in [Runs -> RunRecord] /\ op' \in [Runs -> [OpIds -> OpRecord]]
       /\ run'[r] = next /\ op'[r] = ledger
       /\ \A s \in Runs : s # r => run'[s] = run[s] /\ op'[s] = op[s]
  BY <1>1, <1>4, <1>6, <1>7
<1>11. TypeOK'
  BY <1>6, <1>8, <1>9, <1>10 DEF IInv, TypeOK, TaskRecord, CapacityRecord
<1>12. Traces'
  BY <1>7, <1>10, IdentityAssumption DEF IInv, Traces
<1>13. SettledHasOutcome'
  BY <1>7, <1>10 DEF IInv, SettledHasOutcome
<1>14. ASSUME NEW s \in Runs, s # r, run[s].task = t
       PROVE  run[s].phase # "queued" /\ run[s].ordinal \in 1..task[t].runCount
  BY <1>14 DEF RunsOf, IInv, Ordinals
<1>15. Ordinals'
  <2>1. ASSUME NEW s \in Runs, run'[s].task \in Tasks
        PROVE  /\ run'[s].ordinal \in 1..task'[run'[s].task].runCount
               /\ run'[s].phase = "queued" => run'[s].ordinal = task'[run'[s].task].runCount
    <3>1. CASE s = r
      BY <1>3, <1>7, <1>9, <1>10, <3>1
    <3>2. CASE s # r /\ run[s].task = t
      <4>1. task[t].runCount \in Nat
        BY <1>1 DEF TaskRecord
      <4> QED BY <1>9, <1>10, <1>14, <3>2, <4>1
    <3>3. CASE s # r /\ run[s].task # t
      BY <1>9, <1>10, <2>1, <3>3 DEF IInv, Ordinals
    <3> QED BY <3>1, <3>2, <3>3
  <2>2. ASSUME NEW u \in Tasks, task'[u].state = "absent" PROVE task'[u].runCount = 0
    BY <1>9, <2>2 DEF IInv, Ordinals
  <2> QED BY <2>1, <2>2 DEF Ordinals
<1>16. Exclusive'
  <2>1. ASSUME NEW s \in Runs, s # r, run[s].task = t
        PROVE  run[s].ordinal # ordinal
    <3>1. task[t].runCount \in Nat
      BY <1>1 DEF TaskRecord
    <3> QED BY <1>14, <2>1, <3>1
  <2> HIDE DEF ordinal
  <2> QED BY <1>7, <1>10, <2>1 DEF IInv, Exclusive, Active
<1>17. RequestsTrue'
  <2>1. RequestTruth(next)
    BY <1>7 DEF RequestTruth
  <2>2. ASSUME NEW s \in Runs PROVE RequestTruth(run'[s]) /\ ResolutionNamesRequest(op'[s])
    <3>1. CASE s = r
      BY <1>4, <1>10, <2>1, <3>1
    <3>2. CASE s # r
      BY <1>10, <3>2 DEF IInv, RequestsTrue
    <3> QED BY <3>1, <3>2
  <2> QED BY <2>2 DEF RequestsTrue, RequestTruth, ResolutionNamesRequest
<1> QED BY <1>11, <1>12, <1>13, <1>15, <1>16, <1>17 DEF IInv

\* Every step that is not an admission leaves the run records alone or commits a
\* legal move of one of them.
LEMMA StepKinds ==
  ASSUME IInv, Next
  PROVE  \/ \E t \in Tasks, r \in Runs :
              /\ AdmitRun(t, r)
              /\ \A other \in RunsOf(t) : run[other].phase # "queued"
         \/ \E r \in Runs : LegalCommit(r)
         \/ AcquireOwner \/ ReleaseOwner
         \/ \E t \in Tasks : RetireRecovery(t)
<1>1. CASE Admit
  <2>1. ASSUME NEW t \in Tasks, NEW r \in Runs, AdmitTask(t, r)
        PROVE  AdmitRun(t, r) /\ \A other \in RunsOf(t) : run[other].phase # "queued"
    <3>1. ASSUME NEW other \in RunsOf(t) PROVE FALSE
      <4>1. task[t].runCount = 0 /\ other \in Runs /\ run[other].task = t
        BY <2>1 DEF AdmitTask, IInv, Ordinals, RunsOf
      <4> QED BY <4>1 DEF IInv, Ordinals
    <3> QED BY <2>1, <3>1 DEF AdmitTask
  <2>2. ASSUME NEW t \in Tasks, NEW r \in Runs, NEW mode, AdmitContinuation(t, r, mode)
        PROVE  AdmitRun(t, r) /\ \A other \in RunsOf(t) : run[other].phase # "queued"
    BY <2>2 DEF AdmitContinuation
  <2> QED BY <1>1, <2>1, <2>2 DEF Admit
<1>2. ASSUME NEW r \in Runs, Dispatch(r) \/ Receipt(r) \/ Request(r) \/ Finish(r)
      PROVE  LegalCommit(r)
  BY <1>2, DispatchLegal, ReceiptLegal, RequestLegal, FinishLegal
<1> QED BY <1>1, <1>2 DEF Next

\* Acquiring and releasing the store, and retiring a task, leave runs alone.
LEMMA OwnerPreserves ==
  ASSUME IInv,
         AcquireOwner \/ ReleaseOwner \/ (\E t \in Tasks : RetireRecovery(t))
  PROVE  IInv'
<1>1. run' = run /\ op' = op /\ capacity' = capacity
  BY DEF AcquireOwner, ReleaseOwner, RetireRecovery
<1>2. epoch' \in 0..MaxEpoch /\ owner' \in {0, epoch'}
  BY LimitsAssumption DEF IInv, TypeOK, AcquireOwner, ReleaseOwner, RetireRecovery
<1>3. /\ task' \in [Tasks -> TaskRecord]
      /\ \A u \in Tasks : /\ task'[u].runCount = task[u].runCount
                          /\ task'[u].state = "absent" => task[u].state = "absent"
  <2>1. task \in [Tasks -> TaskRecord]
    BY TypeParts DEF IInv
  <2>2. CASE task' = task
    BY <2>1, <2>2
  <2>3. ASSUME NEW t \in Tasks, RetireRecovery(t) PROVE <1>3!1 /\ <1>3!2
    BY <2>1, <2>3 DEF RetireRecovery, TaskRecord
  <2> QED BY <2>2, <2>3 DEF AcquireOwner, ReleaseOwner
<1>4. TypeOK'
  BY <1>1, <1>2, <1>3, TypeParts DEF IInv, TypeOK, TaskRecord, CapacityRecord
<1>5. Traces' /\ SettledHasOutcome' /\ Exclusive' /\ RequestsTrue'
  BY <1>1 DEF IInv, Traces, SettledHasOutcome, Exclusive, RequestsTrue, RequestTruth,
     ResolutionNamesRequest
<1>6. Ordinals'
  BY <1>1, <1>3 DEF IInv, Ordinals
<1> QED BY <1>4, <1>5, <1>6 DEF IInv

--------------------------------------------------------------------------------
(* The theorems *)

\* The empty store satisfies the inductive invariant.
LEMMA InitIInv == Init => IInv
<1> SUFFICES ASSUME Init PROVE IInv
  OBVIOUS
<1>1. BlankRun \in RunRecord
  BY LimitsAssumption DEF BlankRun, RunRecord, Phases
<1>2. BlankOp \in OpRecord
  BY LimitsAssumption DEF BlankOp, OpRecord, Dispositions
<1>3. TypeOK
  BY <1>1, <1>2, LimitsAssumption DEF Init, TypeOK
<1>4. \A r \in Runs : run[r] = BlankRun /\ \A id \in OpIds : op[r][id] = BlankOp
  BY DEF Init
<1>5. Traces /\ SettledHasOutcome /\ Exclusive /\ RequestsTrue
  BY <1>4 DEF Traces, SettledHasOutcome, Exclusive, RequestsTrue, RequestTruth,
     ResolutionNamesRequest, BlankRun, BlankOp
<1>6. Ordinals
  BY <1>4, IdentityAssumption DEF Init, Ordinals, BlankRun
<1> QED BY <1>3, <1>5, <1>6 DEF IInv

\* Every command, accepted or refused, of every owner preserves it.
LEMMA NextIInv == IInv /\ [Next]_vars => IInv'
<1> SUFFICES ASSUME IInv, [Next]_vars PROVE IInv'
  OBVIOUS
<1>1. CASE UNCHANGED vars
  BY <1>1 DEF vars, IInv, TypeOK, Traces, SettledHasOutcome, Ordinals, Exclusive,
     RequestsTrue, RequestTruth, ResolutionNamesRequest
<1>2. CASE Next
  <2>1. ASSUME NEW r \in Runs, LegalCommit(r) PROVE IInv'
    BY <2>1, CommitLegal DEF LegalCommit
  <2> QED BY <1>2, <2>1, StepKinds, AdmitRunPreserves, OwnerPreserves
<1> QED BY <1>1, <1>2

\* The inductive invariant holds of every reachable state of the store.
THEOREM StoreInvariant == Spec => []IInv
BY InitIInv, NextIInv, PTL DEF Spec

\* Every record the planner writes (plan.ts and its handlers) is well formed.
THEOREM TypeCorrect == Spec => []TypeOK
<1>1. IInv => TypeOK
  BY DEF IInv
<1> QED BY <1>1, StoreInvariant, PTL

\* Two runs of one task never execute together and its queued run is its latest,
\* whatever the number of tasks, runs, owners and limits (admission.ts:40-51,
\* execution.ts:47-51).
THEOREM OneExecutor == Spec => []OneExecutorPerTask
<1>1. IInv => OneExecutorPerTask
  <2> SUFFICES ASSUME IInv, NEW r \in Runs, NEW s \in Runs, r # s,
                      run[r].task = run[s].task, run[r].task # NoTask
               PROVE  /\ run[r].ordinal # run[s].ordinal
                      /\ ~(run[r].phase \in Active /\ run[s].phase \in Active)
                      /\ run[r].phase = "queued" =>
                           run[s].phase # "queued" /\ run[s].ordinal < run[r].ordinal
    BY DEF OneExecutorPerTask
  <2>1. run[r].task \in Tasks
    BY DEF IInv, TypeOK, RunRecord
  <2>2. /\ run[r].ordinal # run[s].ordinal
        /\ ~(run[r].phase \in Active /\ run[s].phase \in Active)
    BY DEF IInv, Exclusive
  <2>3. ASSUME run[r].phase = "queued"
        PROVE  run[s].phase # "queued" /\ run[s].ordinal < run[r].ordinal
    <3> DEFINE count == task[run[r].task].runCount
    <3>1. /\ run[s].ordinal \in 1..count /\ run[r].ordinal = count
          /\ run[s].phase = "queued" => run[s].ordinal = count
      BY <2>1, <2>3 DEF IInv, Ordinals
    <3>2. count \in Nat
      BY <2>1, TypeParts DEF IInv, TaskRecord
    <3> HIDE DEF count
    <3> QED BY <2>2, <3>1, <3>2
  <2> QED BY <2>2, <2>3
<1> QED BY <1>1, StoreInvariant, PTL

\* A run waits exactly while its request waits for an answer (requestState and the
\* resolution branch of operationReceipt, late receipts included).
THEOREM RequestWaits == Spec => []WaitingMatchesRequest
<1>1. IInv => WaitingMatchesRequest
  BY DEF IInv, RequestsTrue, RequestTruth, WaitingMatchesRequest
<1> QED BY <1>1, StoreInvariant, PTL

\* No command reopens a settled run or rewrites its outcome.
THEOREM SettlementFinal == Spec => SettlementIsFinal
<1>1. ASSUME IInv, [Next]_vars
      PROVE  [\A r \in Runs : run[r].phase = "settled" =>
                run'[r].phase = "settled" /\ run'[r].outcome = run[r].outcome]_vars
  <2>1. CASE UNCHANGED vars
    BY <2>1
  <2>2. CASE Next
    <3> SUFFICES ASSUME NEW r \in Runs, run[r].phase = "settled"
                 PROVE  run'[r].phase = "settled" /\ run'[r].outcome = run[r].outcome
      OBVIOUS
    <3>1. run \in [Runs -> RunRecord]
      BY <1>1 DEF IInv, TypeOK
    <3>2. ASSUME NEW s \in Runs, LegalCommit(s)
          PROVE  run'[r].phase = "settled" /\ run'[r].outcome = run[r].outcome
      <4>1. PICK next \in RunRecord, ledger \in [OpIds -> OpRecord] :
              LegalStep(s, next) /\ Commit(s, next, ledger)
        BY <3>2 DEF LegalCommit
      <4>2. CASE s = r
        <5>1. run'[r] = next
          BY <3>1, <4>1, <4>2 DEF Commit
        <5>2. run[r].outcome # "none"
          BY <1>1 DEF IInv, SettledHasOutcome
        <5> QED BY <4>1, <4>2, <5>1, <5>2 DEF LegalStep
      <4>3. CASE s # r
        BY <3>1, <4>1, <4>3 DEF Commit
      <4> QED BY <4>2, <4>3
    <3>3. ASSUME NEW t \in Tasks, NEW s \in Runs, AdmitRun(t, s)
          PROVE  run'[r].phase = "settled" /\ run'[r].outcome = run[r].outcome
      <4>1. s # r
        BY <3>3 DEF AdmitRun, Admitted
      <4> QED BY <3>1, <3>3, <4>1 DEF AdmitRun
    <3>4. CASE run' = run
      BY <3>4
    <3> QED BY <1>1, <2>2, <3>2, <3>3, <3>4, StepKinds DEF AcquireOwner, ReleaseOwner,
               RetireRecovery
  <2> QED BY <1>1, <2>1, <2>2
<1> QED BY <1>1, StoreInvariant, PTL DEF Spec, SettlementIsFinal

--------------------------------------------------------------------------------
(* What a ledger says of its run. *)

\* The operations a provider sees or that reach a live turn.
InputKinds == {"prepare", "configure", "turn", "steer", "request_resolution", "interrupt"}

\* An id the code derives from the run holds its own kind only; what is not
\* recorded is blank; only a resolution names a request.
LedgerForm(ledger) ==
  \A id \in OpIds :
    /\ ledger[id].kind \in {"none"} \cup
         (IF id \in Controls THEN {"configure", "steer", "request_resolution"} ELSE {id})
    /\ ledger[id].kind = "none" =>
         /\ ledger[id].disposition = "intent" /\ ledger[id].attempts = 0
         /\ ledger[id].request = NoRequest
    /\ ledger[id].request # NoRequest => ledger[id].kind = "request_resolution"

\* Inputs come from the executor the run names, and only once it has one.
InputsOwned(rec, ledger) ==
  \A id \in OpIds : ledger[id].kind \in InputKinds =>
    /\ ledger[id].ownerEpoch = rec.ownerEpoch
    /\ rec.phase \notin {"absent", "queued"} /\ rec.outcome # "not_dispatched"

\* The turn follows a completed preparation, and provider truth follows the turn.
TurnBacked(rec, ledger) ==
  /\ rec.preparation = "completed" => ledger["prepare"].disposition = "completed"
  /\ rec.phase \in {"running", "waiting"} \/ rec.outcome \in {"succeeded", "provider_terminal"} =>
       /\ ledger["turn"].kind = "turn" /\ rec.dispatch # "none"
       /\ ledger["prepare"].disposition = "completed"
  /\ rec.outcome = "not_dispatched" => rec.dispatch = "none"

\* All answers of a request but one are rejected, and all of them while it waits.
AnswersRejected(rec, ledger) ==
  /\ \A i, j \in Controls :
       i # j /\ ledger[i].request # NoRequest /\ ledger[i].request = ledger[j].request
         => ledger[i].disposition = "rejected" \/ ledger[j].disposition = "rejected"
  /\ rec.requestState = "waiting" =>
       \A id \in Controls : ledger[id].request = rec.request => ledger[id].disposition = "rejected"

\* A control whose effect is unknown has marked its run.
DoubtRecorded(rec, ledger) ==
  \A id \in Controls : ledger[id].disposition = "uncertain" => rec.recovery

\* Binding cleanup is confirmed over a confirmed close.
CloseFirst(ledger) ==
  ledger["binding_cleanup"].disposition = "completed"
    => ledger["session_close"].disposition = "completed"

\* A ledger backs a run record.
LedgerTruth(rec, ledger) ==
  /\ LedgerForm(ledger) /\ InputsOwned(rec, ledger) /\ TurnBacked(rec, ledger)
  /\ AnswersRejected(rec, ledger) /\ DoubtRecorded(rec, ledger) /\ CloseFirst(ledger)

\* A run nobody admitted is blank.
Untouched == \A r \in Runs : run[r].phase = "absent" => run[r] = BlankRun

\* deriveTask has seen every recorded doubt.
DoubtKnown ==
  \A r \in Runs : run[r].recovery \/ run[r].outcome = "recovery_required"
                    => task[run[r].task].state \in {"recovery_required", "retired"}

\* The inductive invariant behind the theorems about the ledger.
LedgerInv ==
  /\ \A r \in Runs : LedgerTruth(run[r], op[r])
  /\ Untouched
  /\ DoubtKnown

\* What recording a new operation under id makes of a ledger (addOperation).
Entered(ledger, new, id, kind, request) ==
  /\ new[id].kind = kind /\ new[id].request = request /\ new[id].attempts = 1
  /\ new[id].disposition = (IF kind \in {"admit", "cancel"} THEN "completed" ELSE "intent")
  /\ new[id].ownerEpoch = owner
  /\ \A j \in OpIds : j # id => new[j] = ledger[j]

\* What rewriting the entry under id makes of a ledger (replaceOperation).
Rewritten(ledger, new, id, disposition) ==
  /\ new[id].kind = ledger[id].kind /\ new[id].request = ledger[id].request
  /\ new[id].disposition = disposition
  /\ \A j \in OpIds : j # id => new[j] = ledger[j]

\* Moves of a run record that leave alone what the ledger is compared with.
SameFooting(rec, next) ==
  /\ next.phase = rec.phase /\ next.outcome = rec.outcome
  /\ next.preparation = rec.preparation /\ next.dispatch = rec.dispatch
  /\ next.ownerEpoch = rec.ownerEpoch /\ next.recovery = rec.recovery
  /\ next.request = rec.request /\ next.requestState = rec.requestState

\* What a receipt may change in its run.
ReceiptMove(rec, prior, disposition, next) ==
  /\ next.ownerEpoch = rec.ownerEpoch /\ next.outcome = rec.outcome
  /\ next.request = rec.request /\ next.operations = rec.operations
  /\ rec.recovery => next.recovery
  /\ disposition = "uncertain" /\ prior.kind \in {"configure", "steer", "request_resolution"}
       => next.recovery
  /\ \/ next.preparation = rec.preparation
     \/ prior.kind = "prepare" /\ (next.preparation = "completed" => disposition = "completed")
  /\ next.dispatch = rec.dispatch \/ (prior.kind = "turn" /\ next.dispatch = "delegated")
  /\ next.phase = rec.phase \/ {next.phase, rec.phase} \subseteq {"running", "waiting"}
  /\ next.requestState = "waiting" =>
       \/ rec.requestState = "waiting"
       \/ /\ disposition = "rejected" /\ prior.kind = "request_resolution"
          /\ prior.request = rec.request

--------------------------------------------------------------------------------

\* The identities of a run's own operations are never taken by a control.
LEMMA IdsApart ==
  ASSUME NEW id \in Controls
  PROVE  id \in OpIds /\ id \notin {"admit", "prepare", "turn", "cancel", "interrupt",
                                    "session_close", "binding_cleanup"}
BY ControlsAssumption DEF OpIds, FixedIds, CriticalKinds

\* The identities the code derives from the run.
LEMMA OwnIds ==
  /\ {"admit", "prepare", "turn", "cancel", "interrupt", "session_close", "binding_cleanup"}
       \subseteq OpIds
  /\ \A id \in OpIds : id \in Controls \/ id \in {"admit", "prepare", "turn", "cancel",
                          "interrupt", "session_close", "binding_cleanup"}
BY DEF OpIds, FixedIds, CriticalKinds

\* addOperation enters what it says.
LEMMA WithOperationEnters ==
  ASSUME IInv, NEW r \in Runs, NEW id \in OpIds, NEW kind, NEW request, NEW new,
         new = WithOperation(r, id, kind, request)
  PROVE  Entered(op[r], new, id, kind, request)
<1>1. op[r] \in [OpIds -> OpRecord]
  BY DEF IInv, TypeOK
<1>2. new[id] = NewOperation(kind, request) /\ \A j \in OpIds : j # id => new[j] = op[r][j]
  BY <1>1 DEF WithOperation
<1> QED BY <1>2 DEF Entered, NewOperation

\* A new operation under its own identity keeps the ledger well formed.
LEMMA EnteredForm ==
  ASSUME NEW ledger, NEW new, NEW id \in OpIds, NEW kind, NEW request,
         LedgerForm(ledger), Entered(ledger, new, id, kind, request),
         IF id \in Controls THEN kind \in {"configure", "steer", "request_resolution"}
                            ELSE kind = id,
         kind = "request_resolution" <=> request # NoRequest
  PROVE  LedgerForm(new)
<1>1. kind # "none"
  BY OwnIds
<1>2. ASSUME NEW j \in OpIds
      PROVE  /\ new[j].kind \in {"none"} \cup
                  (IF j \in Controls THEN {"configure", "steer", "request_resolution"} ELSE {j})
             /\ new[j].kind = "none" =>
                  /\ new[j].disposition = "intent" /\ new[j].attempts = 0
                  /\ new[j].request = NoRequest
             /\ new[j].request # NoRequest => new[j].kind = "request_resolution"
  <2>1. CASE j = id
    BY <1>1, <2>1 DEF Entered
  <2>2. CASE j # id
    BY <2>2 DEF Entered, LedgerForm
  <2> QED BY <2>1, <2>2
<1> QED BY <1>2 DEF LedgerForm

\* A close that is entered anew was not confirmed before.
LEMMA EnteredClose ==
  ASSUME NEW ledger, NEW new, NEW id \in OpIds, NEW kind, NEW request,
         CloseFirst(ledger), Entered(ledger, new, id, kind, request),
         IF id \in Controls THEN kind \in {"configure", "steer", "request_resolution"}
                            ELSE kind = id,
         id = "session_close" => ledger[id].disposition # "completed"
  PROVE  CloseFirst(new)
BY OwnIds, IdsApart DEF CloseFirst, Entered

\* A critical operation or a control, entered by the executor the run names.
LEMMA EnteredTruth ==
  ASSUME NEW rec, NEW next, NEW ledger, NEW new, NEW id \in OpIds, NEW kind,
         LedgerTruth(rec, ledger), Entered(ledger, new, id, kind, NoRequest),
         SameFooting(rec, next), RequestTruth(rec),
         IF id \in Controls THEN kind \in {"configure", "steer"} ELSE kind = id,
         id \notin {"prepare", "turn"}, ledger[id].kind = "none",
         kind \in InputKinds => /\ owner = rec.ownerEpoch
                                /\ rec.phase \notin {"absent", "queued", "settled"}
                                /\ rec.outcome = "none"
  PROVE  LedgerTruth(next, new)
<1> USE DEF LedgerTruth
<1>1. kind # "request_resolution" /\ (id \in Controls => kind \notin {"admit", "cancel"})
  BY OwnIds, IdsApart
<1>2. LedgerForm(new)
  BY <1>1, EnteredForm
<1>3. CloseFirst(new)
  <2>1. ledger[id].disposition = "intent"
    BY DEF LedgerForm
  <2> QED BY <2>1, EnteredClose
<1>4. InputsOwned(next, new)
  BY DEF InputsOwned, Entered, SameFooting
<1>5. TurnBacked(next, new)
  BY OwnIds DEF TurnBacked, Entered, SameFooting
<1>6. AnswersRejected(next, new)
  <2>1. \A j \in Controls : new[j].request # NoRequest => new[j] = ledger[j]
    BY IdsApart DEF Entered
  <2>2. ASSUME NEW i \in Controls, NEW j \in Controls, i # j, new[i].request # NoRequest,
               new[i].request = new[j].request
        PROVE  new[i].disposition = "rejected" \/ new[j].disposition = "rejected"
    BY <2>1, <2>2 DEF AnswersRejected
  <2>3. ASSUME next.requestState = "waiting", NEW j \in Controls,
               new[j].request = next.request
        PROVE  new[j].disposition = "rejected"
    BY <2>1, <2>3 DEF AnswersRejected, SameFooting, RequestTruth
  <2> QED BY <2>2, <2>3 DEF AnswersRejected
<1>7. DoubtRecorded(next, new)
  BY <1>1, IdsApart DEF DoubtRecorded, Entered, SameFooting
<1> QED BY <1>2, <1>3, <1>4, <1>5, <1>6, <1>7

\* settleRun tells the parent only what the ledger backs.
LEMMA SettledTruth ==
  ASSUME NEW rec \in RunRecord, NEW ledger, NEW requested \in Outcomes, NEW next,
         next = Settled(rec, requested), LedgerTruth(rec, ledger),
         rec.phase # "absent",
         requested \in {"succeeded", "provider_terminal"} => rec.phase \in {"running", "waiting"},
         requested = "not_dispatched" => NeverDispatched(rec)
  PROVE  LedgerTruth(next, ledger)
<1> DEFINE outcome == IF rec.recovery THEN "recovery_required" ELSE requested
           state == IF rec.request = NoRequest THEN rec.requestState ELSE "unavailable"
<1>1. next = [rec EXCEPT !.phase = "settled", !.outcome = outcome, !.requestState = state]
  BY DEF Settled
<1>2. outcome = requested \/ outcome = "recovery_required"
  OBVIOUS
<1>3. state = "waiting" => rec.requestState = "waiting"
  OBVIOUS
<1> HIDE DEF outcome, state
<1>4. /\ next.phase = "settled" /\ next.outcome = outcome /\ next.requestState = state
      /\ next.preparation = rec.preparation /\ next.dispatch = rec.dispatch
      /\ next.ownerEpoch = rec.ownerEpoch /\ next.recovery = rec.recovery
      /\ next.request = rec.request
  BY <1>1 DEF RunRecord
<1>5. InputsOwned(next, ledger)
  BY <1>2, <1>4 DEF LedgerTruth, InputsOwned, NeverDispatched
<1>6. TurnBacked(next, ledger)
  BY <1>2, <1>4 DEF LedgerTruth, TurnBacked, NeverDispatched
<1>7. AnswersRejected(next, ledger)
  BY <1>3, <1>4 DEF LedgerTruth, AnswersRejected
<1>8. DoubtRecorded(next, ledger)
  BY <1>4 DEF LedgerTruth, DoubtRecorded
<1> QED BY <1>5, <1>6, <1>7, <1>8 DEF LedgerTruth

\* A running turn that opens, loses or ends a request.
LEMMA RequestTruthKept ==
  ASSUME NEW rec, NEW next, NEW ledger, LedgerTruth(rec, ledger),
         next.outcome = rec.outcome, next.preparation = rec.preparation,
         next.dispatch = rec.dispatch, next.ownerEpoch = rec.ownerEpoch,
         next.recovery = rec.recovery,
         next.phase = rec.phase \/ {next.phase, rec.phase} \subseteq {"running", "waiting"},
         next.requestState = "waiting" =>
           \A id \in OpIds : ledger[id].request # next.request
  PROVE  LedgerTruth(next, ledger)
<1>1. InputsOwned(next, ledger)
  BY DEF LedgerTruth, InputsOwned
<1>2. TurnBacked(next, ledger)
  BY DEF LedgerTruth, TurnBacked
<1>3. AnswersRejected(next, ledger)
  BY IdsApart DEF LedgerTruth, AnswersRejected
<1>4. DoubtRecorded(next, ledger)
  BY DEF LedgerTruth, DoubtRecorded
<1> QED BY <1>1, <1>2, <1>3, <1>4 DEF LedgerTruth

\* A receipt is final once it is definite, so what the run has built on it stays
\* true, and an answer goes back on offer only when it was definitely rejected.
LEMMA ReceiptTruth ==
  ASSUME NEW rec, NEW next, NEW ledger, NEW new, NEW id \in OpIds, NEW disposition,
         LedgerTruth(rec, ledger), Rewritten(ledger, new, id, disposition),
         new[id].ownerEpoch = ledger[id].ownerEpoch, RequestTruth(rec),
         ledger[id].kind # "none", ~FinalReceipt(ledger[id]),
         ledger[id].kind = "request_resolution" => ledger[id].request # NoRequest,
         ledger[id].kind = "binding_cleanup" /\ disposition = "completed"
           => ledger["session_close"].disposition = "completed",
         ReceiptMove(rec, ledger[id], disposition, next)
  PROVE  LedgerTruth(next, new)
<1>0. /\ id \in Controls => ledger[id].kind \in {"configure", "steer", "request_resolution"}
      /\ id \notin Controls => ledger[id].kind = id
      /\ ledger[id].disposition \notin {"delivered", "rejected", "completed"}
  BY DEF LedgerTruth, LedgerForm, FinalReceipt
<1>1. LedgerForm(new)
  <2>1. ASSUME NEW j \in OpIds
        PROVE  /\ new[j].kind \in {"none"} \cup
                    (IF j \in Controls THEN {"configure", "steer", "request_resolution"} ELSE {j})
               /\ new[j].kind = "none" =>
                    /\ new[j].disposition = "intent" /\ new[j].attempts = 0
                    /\ new[j].request = NoRequest
               /\ new[j].request # NoRequest => new[j].kind = "request_resolution"
    <3>1. CASE j = id
      BY <3>1 DEF Rewritten, LedgerTruth, LedgerForm
    <3>2. CASE j # id
      BY <3>2 DEF Rewritten, LedgerTruth, LedgerForm
    <3> QED BY <3>1, <3>2
  <2> QED BY <2>1 DEF LedgerForm
<1>2. InputsOwned(next, new)
  BY DEF LedgerTruth, InputsOwned, Rewritten, ReceiptMove
<1>3. TurnBacked(next, new)
  <2>1. CASE id = "prepare"
    <3>1. ledger["prepare"].disposition # "completed"
      BY <1>0, <2>1
    <3>2. rec.preparation # "completed"
      BY <3>1 DEF LedgerTruth, TurnBacked
    <3>3. next.preparation = "completed" => disposition = "completed"
      BY <3>2 DEF ReceiptMove
    <3>4. /\ rec.phase \notin {"running", "waiting"}
          /\ rec.outcome \notin {"succeeded", "provider_terminal"}
      BY <3>1 DEF LedgerTruth, TurnBacked
    <3>5. next.phase \notin {"running", "waiting"} /\ next.dispatch = rec.dispatch
      BY <1>0, <2>1, <3>4, IdsApart DEF ReceiptMove
    <3> QED BY <2>1, <3>3, <3>4, <3>5 DEF LedgerTruth, TurnBacked, ReceiptMove, Rewritten
  <2>2. CASE id # "prepare"
    <3>1. new["prepare"] = ledger["prepare"] /\ new["turn"].kind = ledger["turn"].kind
      BY <2>2, OwnIds DEF Rewritten
    <3>2. next.preparation = rec.preparation
      BY <1>0, <2>2 DEF ReceiptMove
    <3>3. next.dispatch = rec.dispatch \/ (ledger["turn"].kind = "turn" /\ next.dispatch = "delegated")
      BY <1>0 DEF ReceiptMove
    <3>4. ledger["turn"].kind = "turn" => rec.outcome # "not_dispatched"
      BY OwnIds DEF LedgerTruth, InputsOwned, InputKinds
    <3> QED BY <3>1, <3>2, <3>3, <3>4 DEF LedgerTruth, TurnBacked, ReceiptMove
  <2> QED BY <2>1, <2>2
<1>4. AnswersRejected(next, new)
  <2>1. ASSUME NEW i \in Controls, NEW j \in Controls, i # j, new[i].request # NoRequest,
               new[i].request = new[j].request
        PROVE  new[i].disposition = "rejected" \/ new[j].disposition = "rejected"
    <3>1. ledger[i].disposition = "rejected" \/ ledger[j].disposition = "rejected"
      BY <2>1, IdsApart DEF LedgerTruth, AnswersRejected, Rewritten
    <3> QED BY <1>0, <2>1, <3>1, IdsApart DEF Rewritten
  <2>2. ASSUME next.requestState = "waiting", NEW j \in Controls, new[j].request = next.request
        PROVE  new[j].disposition = "rejected"
    <3>1. ledger[j].request = rec.request
      BY <2>2, IdsApart DEF Rewritten, ReceiptMove
    <3>2. CASE rec.requestState = "waiting"
      <4>1. ledger[j].disposition = "rejected"
        BY <3>1, <3>2 DEF LedgerTruth, AnswersRejected
      <4> QED BY <1>0, <4>1, IdsApart DEF Rewritten
    <3>3. CASE rec.requestState # "waiting"
      <4>1. /\ disposition = "rejected" /\ ledger[id].kind = "request_resolution"
            /\ ledger[id].request = rec.request
        BY <2>2, <3>3 DEF ReceiptMove
      <4>2. id \in Controls /\ rec.request # NoRequest
        BY <1>0, <4>1, OwnIds
      <4>3. CASE j = id
        BY <4>1, <4>3 DEF Rewritten
      <4>4. CASE j # id
        BY <1>0, <3>1, <4>1, <4>2, <4>4, IdsApart DEF LedgerTruth, AnswersRejected, Rewritten
      <4> QED BY <4>3, <4>4
    <3> QED BY <3>2, <3>3
  <2> QED BY <2>1, <2>2 DEF AnswersRejected
<1>5. DoubtRecorded(next, new)
  <2>1. ASSUME NEW j \in Controls, new[j].disposition = "uncertain" PROVE next.recovery
    <3>1. CASE j = id
      BY <1>0, <2>1, <3>1 DEF Rewritten, ReceiptMove
    <3>2. CASE j # id
      BY <2>1, <3>2, IdsApart DEF Rewritten, ReceiptMove, LedgerTruth, DoubtRecorded
    <3> QED BY <3>1, <3>2
  <2> QED BY <2>1 DEF DoubtRecorded
<1>6. CloseFirst(new)
  BY <1>0, OwnIds, IdsApart DEF LedgerTruth, CloseFirst, Rewritten
<1> QED BY <1>1, <1>2, <1>3, <1>4, <1>5, <1>6 DEF LedgerTruth

\* The retry of a cleanup reopens an attempt that was not confirmed.
LEMMA RetryTruth ==
  ASSUME NEW rec, NEW ledger, NEW new, NEW id \in CleanupKinds,
         LedgerTruth(rec, ledger), Rewritten(ledger, new, id, "intent"),
         new[id].attempts = 2, ledger[id].attempts = 1,
         ledger[id].disposition # "completed"
  PROVE  LedgerTruth(rec, new)
<1>0. /\ id \in OpIds /\ id \notin Controls /\ id \in {"session_close", "binding_cleanup"}
      /\ ledger[id].kind = id
  BY OwnIds, IdsApart DEF CleanupKinds, LedgerTruth, LedgerForm
<1>1. LedgerForm(new)
  <2>1. ASSUME NEW j \in OpIds
        PROVE  /\ new[j].kind \in {"none"} \cup
                    (IF j \in Controls THEN {"configure", "steer", "request_resolution"} ELSE {j})
               /\ new[j].kind = "none" =>
                    /\ new[j].disposition = "intent" /\ new[j].attempts = 0
                    /\ new[j].request = NoRequest
               /\ new[j].request # NoRequest => new[j].kind = "request_resolution"
    <3>1. CASE j = id
      BY <1>0, <3>1 DEF Rewritten, LedgerTruth, LedgerForm
    <3>2. CASE j # id
      BY <3>2 DEF Rewritten, LedgerTruth, LedgerForm
    <3> QED BY <3>1, <3>2
  <2> QED BY <2>1 DEF LedgerForm
<1>2. InputsOwned(rec, new)
  BY <1>0 DEF LedgerTruth, InputsOwned, InputKinds, Rewritten
<1>3. TurnBacked(rec, new)
  BY <1>0, OwnIds DEF LedgerTruth, TurnBacked, Rewritten
<1>4. \A j \in Controls : new[j] = ledger[j]
  BY <1>0, IdsApart DEF Rewritten
<1>5. AnswersRejected(rec, new) /\ DoubtRecorded(rec, new)
  BY <1>4 DEF LedgerTruth, AnswersRejected, DoubtRecorded
<1>6. CloseFirst(new)
  BY <1>0, OwnIds DEF LedgerTruth, CloseFirst, Rewritten
<1> QED BY <1>1, <1>2, <1>3, <1>5, <1>6 DEF LedgerTruth

\* Once canceled, a run enters critical operations only.
InputFence(r, ledger) ==
  run[r].cancelRequested =>
    \A id \in OpIds : op[r][id].kind = "none" => ledger[id].kind \in {"none"} \cup CriticalKinds

\* An ordinary operation is paid for in both ledgers.
OperationPaid(r, next) ==
  \/ next.operations = run[r].operations
  \/ next.operations = run[r].operations + 1 /\ HasOrdinaryRoom(r)

\* A step of run r commits a record its ledger backs.
TrueCommit(r) ==
  \E next, ledger :
    /\ Commit(r, next, ledger) /\ LedgerTruth(next, ledger)
    /\ InputFence(r, ledger) /\ OperationPaid(r, next)

\* Entering one operation respects the fence when the run is not canceled or the
\* operation is critical.
LEMMA EnteredFence ==
  ASSUME IInv, NEW r \in Runs, NEW new, NEW id \in OpIds, NEW kind, NEW request,
         Entered(op[r], new, id, kind, request),
         run[r].cancelRequested => kind \in CriticalKinds
  PROVE  InputFence(r, new)
BY DEF InputFence, Entered

\* dispatchIntent commits what the ledger backs.
LEMMA DispatchTrue ==
  ASSUME IInv, LedgerInv, NEW r \in Runs, Dispatch(r)
  PROVE  TrueCommit(r)
<1> DEFINE more == run[r].operations + 1
<1>0. /\ run[r] \in RunRecord /\ RequestTruth(run[r]) /\ LedgerTruth(run[r], op[r])
      /\ LedgerForm(op[r])
      /\ run[r].phase = "settled" <=> run[r].outcome # "none"
  BY DEF IInv, TypeOK, RequestsTrue, LedgerInv, LedgerTruth, SettledHasOutcome
<1> HIDE DEF more
<1>1. CASE DispatchPrepare(r)
  <2> DEFINE next == [run[r] EXCEPT !.phase = "preparing", !.preparation = "intended",
                                    !.ownerEpoch = owner, !.operations = more]
             ledger == WithOperation(r, "prepare", "prepare", NoRequest)
  <2>1. Commit(r, next, ledger) /\ ~run[r].cancelRequested /\ HasOrdinaryRoom(r)
        /\ run[r].phase = "queued" /\ run[r].dispatch = "none"
    BY <1>1 DEF DispatchPrepare, AdmitsInput, more
  <2>2. /\ next.phase = "preparing" /\ next.preparation = "intended" /\ next.ownerEpoch = owner
        /\ next.operations = more /\ next.dispatch = run[r].dispatch
        /\ next.outcome = run[r].outcome /\ next.recovery = run[r].recovery
        /\ next.request = run[r].request /\ next.requestState = run[r].requestState
    BY <1>0 DEF RunRecord
  <2>3. Entered(op[r], ledger, "prepare", "prepare", NoRequest)
    BY OwnIds, WithOperationEnters
  <2> HIDE DEF next, ledger
  <2>4. run[r].outcome = "none" /\ run[r].requestState = "none"
    BY <1>0, <2>1 DEF RequestTruth
  <2>5. \A id \in OpIds : op[r][id].kind \notin InputKinds
    BY <1>0, <2>1 DEF LedgerTruth, InputsOwned
  <2>6. LedgerForm(ledger) /\ CloseFirst(ledger)
    BY <1>0, <2>3, OwnIds, IdsApart, EnteredForm, EnteredClose DEF LedgerTruth
  <2>7. InputsOwned(next, ledger)
    BY <2>2, <2>3, <2>4, <2>5 DEF InputsOwned, Entered
  <2>8. TurnBacked(next, ledger)
    BY <2>2, <2>4 DEF TurnBacked
  <2>9. \A j \in Controls : ledger[j] = op[r][j]
    BY <2>3, IdsApart DEF Entered
  <2>10. AnswersRejected(next, ledger) /\ DoubtRecorded(next, ledger)
    BY <1>0, <2>2, <2>4, <2>9 DEF LedgerTruth, AnswersRejected, DoubtRecorded
  <2>11. LedgerTruth(next, ledger)
    BY <2>6, <2>7, <2>8, <2>10 DEF LedgerTruth
  <2>12. InputFence(r, ledger) /\ OperationPaid(r, next)
    BY <2>1, <2>2 DEF InputFence, OperationPaid, more
  <2> QED BY <2>1, <2>11, <2>12 DEF TrueCommit
<1>2. CASE DispatchTurn(r)
  <2> DEFINE next == [run[r] EXCEPT !.phase = "running", !.dispatch = "intended",
                                    !.operations = more]
             ledger == WithOperation(r, "turn", "turn", NoRequest)
  <2>1. Commit(r, next, ledger) /\ ~run[r].cancelRequested /\ HasOrdinaryRoom(r)
        /\ run[r].phase = "preparing" /\ run[r].preparation = "completed"
        /\ run[r].ownerEpoch = owner
    BY <1>2 DEF DispatchTurn, AdmitsInput, OwnExecutor, more
  <2>2. /\ next.phase = "running" /\ next.dispatch = "intended" /\ next.ownerEpoch = owner
        /\ next.operations = more /\ next.preparation = run[r].preparation
        /\ next.outcome = run[r].outcome /\ next.recovery = run[r].recovery
        /\ next.request = run[r].request /\ next.requestState = run[r].requestState
    BY <1>0, <2>1 DEF RunRecord
  <2>3. Entered(op[r], ledger, "turn", "turn", NoRequest)
    BY OwnIds, WithOperationEnters
  <2> HIDE DEF next, ledger
  <2>4. run[r].outcome = "none" /\ run[r].requestState = "none"
    BY <1>0, <2>1 DEF RequestTruth
  <2>6. LedgerForm(ledger) /\ CloseFirst(ledger)
    BY <1>0, <2>3, OwnIds, IdsApart, EnteredForm, EnteredClose DEF LedgerTruth
  <2>7. InputsOwned(next, ledger)
    BY <1>0, <2>1, <2>2, <2>3, <2>4 DEF LedgerTruth, InputsOwned, Entered
  <2>8. TurnBacked(next, ledger)
    BY <1>0, <2>1, <2>2, <2>3, <2>4, OwnIds DEF LedgerTruth, TurnBacked, Entered
  <2>9. \A j \in Controls : ledger[j] = op[r][j]
    BY <2>3, IdsApart DEF Entered
  <2>10. AnswersRejected(next, ledger) /\ DoubtRecorded(next, ledger)
    BY <1>0, <2>2, <2>4, <2>9 DEF LedgerTruth, AnswersRejected, DoubtRecorded
  <2>11. LedgerTruth(next, ledger)
    BY <2>6, <2>7, <2>8, <2>10 DEF LedgerTruth
  <2>12. InputFence(r, ledger) /\ OperationPaid(r, next)
    BY <2>1, <2>2 DEF InputFence, OperationPaid, more
  <2> QED BY <2>1, <2>11, <2>12 DEF TrueCommit
<1>3. ASSUME NEW id \in Controls, NEW kind \in {"configure", "steer"}, DispatchControl(r, id, kind)
      PROVE  TrueCommit(r)
  <2> DEFINE next == [run[r] EXCEPT !.operations = more]
             ledger == WithOperation(r, id, kind, NoRequest)
  <2>1. /\ Commit(r, next, ledger) /\ ~run[r].cancelRequested /\ HasOrdinaryRoom(r)
        /\ run[r].phase \in {"preparing", "running"} /\ op[r][id].kind = "none"
        /\ owner = run[r].ownerEpoch
    BY <1>3 DEF DispatchControl, AdmitsInput, OwnExecutor, Recorded, more
  <2>2. SameFooting(run[r], next) /\ next.operations = more
    BY <1>0 DEF RunRecord, SameFooting
  <2>3. Entered(op[r], ledger, id, kind, NoRequest)
    BY IdsApart, WithOperationEnters
  <2> HIDE DEF next, ledger
  <2>4. LedgerTruth(next, ledger)
    BY <1>0, <2>1, <2>2, <2>3, IdsApart, EnteredTruth
  <2>5. InputFence(r, ledger) /\ OperationPaid(r, next)
    BY <2>1, <2>2 DEF InputFence, OperationPaid, more
  <2> QED BY <2>1, <2>4, <2>5 DEF TrueCommit
<1>4. SameFooting(run[r], run[r]) /\ OperationPaid(r, run[r])
  BY DEF SameFooting, OperationPaid
<1>5. CASE DispatchInterrupt(r)
  <2> DEFINE ledger == WithOperation(r, "interrupt", "interrupt", NoRequest)
  <2>1. /\ Commit(r, run[r], ledger) /\ run[r].phase \in Active
        /\ op[r]["interrupt"].kind = "none" /\ owner = run[r].ownerEpoch
    BY <1>5 DEF DispatchInterrupt, OwnExecutor, Recorded
  <2>2. Entered(op[r], ledger, "interrupt", "interrupt", NoRequest)
    BY OwnIds, WithOperationEnters
  <2> HIDE DEF ledger
  <2>3. "interrupt" \in OpIds /\ "interrupt" \notin Controls /\ "interrupt" \in CriticalKinds
    BY OwnIds, IdsApart DEF CriticalKinds
  <2>4. LedgerTruth(run[r], ledger)
    BY <1>0, <1>4, <2>1, <2>2, <2>3, EnteredTruth DEF Active
  <2>5. InputFence(r, ledger)
    BY <2>2, <2>3, EnteredFence
  <2> QED BY <1>4, <2>1, <2>4, <2>5 DEF TrueCommit
<1>6. ASSUME NEW kind \in CleanupKinds, DispatchCleanup(r, kind)
      PROVE  TrueCommit(r)
  <2> DEFINE ledger == WithOperation(r, kind, kind, NoRequest)
  <2>0. /\ kind \in OpIds /\ kind \notin Controls /\ kind \in CriticalKinds
        /\ kind \notin InputKinds /\ kind \notin {"prepare", "turn"}
    BY OwnIds, IdsApart DEF CriticalKinds, CleanupKinds, InputKinds
  <2>1. Commit(r, run[r], ledger) /\ op[r][kind].kind = "none"
    BY <1>6 DEF DispatchCleanup, Recorded
  <2>2. Entered(op[r], ledger, kind, kind, NoRequest)
    BY <2>0, WithOperationEnters
  <2> HIDE DEF ledger
  <2>4. LedgerTruth(run[r], ledger)
    BY <1>0, <1>4, <2>0, <2>1, <2>2, EnteredTruth
  <2>5. InputFence(r, ledger)
    BY <2>0, <2>2, EnteredFence
  <2> QED BY <1>4, <2>1, <2>4, <2>5 DEF TrueCommit
<1>7. ASSUME NEW kind \in CleanupKinds, RetryCleanup(r, kind)
      PROVE  TrueCommit(r)
  <2> DEFINE ledger == [op[r] EXCEPT ![kind] = [@ EXCEPT !.attempts = 2,
                                         !.disposition = "intent", !.ownerEpoch = owner]]
  <2>0. kind \in OpIds /\ op[r] \in [OpIds -> OpRecord]
    BY OwnIds DEF CleanupKinds, IInv, TypeOK
  <2>1. /\ Commit(r, run[r], ledger) /\ op[r][kind].attempts = 1
        /\ op[r][kind].disposition # "completed"
    BY <1>7 DEF RetryCleanup
  <2>2. Rewritten(op[r], ledger, kind, "intent") /\ ledger[kind].attempts = 2
    <3> DEFINE prior == op[r][kind]
    <3>1. ledger[kind] = [prior EXCEPT !.attempts = 2, !.disposition = "intent",
                                       !.ownerEpoch = owner]
      BY <2>0
    <3>2. prior \in OpRecord
      BY <2>0
    <3>3. \A j \in OpIds : j # kind => ledger[j] = op[r][j]
      BY <2>0
    <3> HIDE DEF ledger
    <3>4. /\ ledger[kind].kind = prior.kind /\ ledger[kind].request = prior.request
          /\ ledger[kind].disposition = "intent" /\ ledger[kind].attempts = 2
      <4> HIDE DEF prior
      <4> QED BY <3>1, <3>2 DEF OpRecord
    <3> QED BY <3>3, <3>4 DEF Rewritten
  <2> HIDE DEF ledger
  <2>3. LedgerTruth(run[r], ledger)
    BY <1>0, <2>1, <2>2, RetryTruth
  <2>4. InputFence(r, ledger)
    BY <2>0, <2>2 DEF InputFence, Rewritten
  <2> QED BY <1>4, <2>1, <2>3, <2>4 DEF TrueCommit
<1> QED BY <1>1, <1>2, <1>3, <1>5, <1>6, <1>7 DEF Dispatch

\* What operationReceipt changes in its run, branch by branch.
LEMMA ReceiptMoves ==
  ASSUME NEW rec \in RunRecord, NEW prior, NEW disposition, NEW state, NEW next,
         next = ReceiptRun(rec, prior, disposition, state), RequestTruth(rec),
         prior.kind = "request_resolution" =>
           /\ prior.request # NoRequest
           /\ disposition = "rejected" <=> state # "none"
           /\ rec.request = prior.request
                => rec.requestState \in {"resolution_intended", "unavailable"},
         prior.kind # "request_resolution" => state = "none"
  PROVE  ReceiptMove(rec, prior, disposition, next)
<1> DEFINE lost == rec.recovery \/ disposition = "uncertain"
<1>0. lost \in BOOLEAN
  OBVIOUS
<1>1. CASE prior.kind = "prepare"
  <2> DEFINE value == PreparationReceipt(disposition)
  <2>1. next = [rec EXCEPT !.preparation = value]
    BY <1>1 DEF ReceiptRun
  <2>2. value = "completed" => disposition = "completed"
    BY DEF PreparationReceipt
  <2> HIDE DEF value
  <2>3. /\ next.preparation = value /\ next.operations = rec.operations
        /\ next.phase = rec.phase /\ next.outcome = rec.outcome
        /\ next.dispatch = rec.dispatch /\ next.ownerEpoch = rec.ownerEpoch
        /\ next.recovery = rec.recovery /\ next.request = rec.request
        /\ next.requestState = rec.requestState
    BY <2>1 DEF RunRecord
  <2> QED BY <1>1, <2>2, <2>3 DEF ReceiptMove
<1>2. CASE prior.kind = "turn"
  <2> DEFINE sent == IF disposition = "delegated" THEN "delegated" ELSE rec.dispatch
  <2>1. next = [rec EXCEPT !.dispatch = sent]
    BY <1>2 DEF ReceiptRun
  <2>2. sent = rec.dispatch \/ sent = "delegated"
    OBVIOUS
  <2> HIDE DEF sent
  <2>3. /\ next.dispatch = sent /\ next.operations = rec.operations
        /\ next.phase = rec.phase /\ next.outcome = rec.outcome
        /\ next.preparation = rec.preparation /\ next.ownerEpoch = rec.ownerEpoch
        /\ next.recovery = rec.recovery /\ next.request = rec.request
        /\ next.requestState = rec.requestState
    BY <2>1 DEF RunRecord
  <2> QED BY <1>2, <2>2, <2>3 DEF ReceiptMove
<1>3. CASE prior.kind \in {"steer", "configure"}
  <2>1. next = [rec EXCEPT !.recovery = lost]
    BY <1>3 DEF ReceiptRun
  <2>2. (rec.recovery => lost) /\ (disposition = "uncertain" => lost)
    OBVIOUS
  <2> HIDE DEF lost
  <2>3. /\ next.recovery = lost /\ next.operations = rec.operations
        /\ next.phase = rec.phase /\ next.outcome = rec.outcome
        /\ next.preparation = rec.preparation /\ next.ownerEpoch = rec.ownerEpoch
        /\ next.dispatch = rec.dispatch /\ next.request = rec.request
        /\ next.requestState = rec.requestState
    BY <1>0, <2>1 DEF RunRecord
  <2> QED BY <1>3, <2>2, <2>3 DEF ReceiptMove
<1>4. CASE prior.kind = "request_resolution"
  <2> DEFINE moved == ResolutionReceipt(rec, prior, disposition, state)
             answer == CASE rec.requestState = "unavailable" -> "unavailable"
                         [] rec.requestState # "unavailable" /\ disposition = "delivered" -> "resolved"
                         [] OTHER -> IF state = "pending" THEN "waiting" ELSE "unavailable"
             phase == IF rec.phase = "settled" THEN rec.phase
                      ELSE IF answer = "waiting" THEN "waiting" ELSE "running"
  <2>1. next = [moved EXCEPT !.recovery = moved.recovery \/ disposition = "uncertain"]
    BY <1>4 DEF ReceiptRun
  <2>2. /\ moved \in RunRecord /\ moved.recovery = rec.recovery
        /\ moved.operations = rec.operations /\ moved.outcome = rec.outcome
        /\ moved.preparation = rec.preparation /\ moved.ownerEpoch = rec.ownerEpoch
        /\ moved.dispatch = rec.dispatch /\ moved.request = rec.request
        /\ moved.phase = rec.phase \/ {moved.phase, rec.phase} \subseteq {"running", "waiting"}
        /\ moved.requestState = "waiting" =>
             rec.requestState = "waiting" \/ (disposition = "rejected" /\ prior.request = rec.request)
    <3>1. CASE rec.request # prior.request
      <4>1. moved = rec
        BY <3>1 DEF ResolutionReceipt
      <4> HIDE DEF moved
      <4> QED BY <4>1
    <3>2. CASE rec.request = prior.request
      <4>1. moved = [rec EXCEPT !.requestState = answer, !.phase = phase]
        BY <3>2 DEF ResolutionReceipt
      <4>2. rec.phase \in {"running", "waiting", "settled"}
        BY <1>4, <3>2 DEF RequestTruth
      <4>3. /\ answer \in {"waiting", "resolved", "unavailable"}
            /\ answer = "waiting" => disposition = "rejected"
            /\ phase = rec.phase \/ {phase, rec.phase} \subseteq {"running", "waiting"}
            /\ phase \in {"running", "waiting", "settled"}
        BY <1>4, <4>2
      <4> HIDE DEF moved, answer, phase
      <4>4. /\ moved \in RunRecord /\ moved.recovery = rec.recovery
            /\ moved.operations = rec.operations /\ moved.outcome = rec.outcome
            /\ moved.preparation = rec.preparation /\ moved.ownerEpoch = rec.ownerEpoch
            /\ moved.dispatch = rec.dispatch /\ moved.request = rec.request
            /\ moved.phase = phase /\ moved.requestState = answer
        BY <4>1, <4>3 DEF RunRecord, Phases, Active
      <4> QED BY <3>2, <4>3, <4>4
    <3> QED BY <3>1, <3>2
  <2>3. next = [moved EXCEPT !.recovery = lost]
    <3> HIDE DEF moved
    <3> QED BY <2>1, <2>2
  <2>4. (rec.recovery => lost) /\ (disposition = "uncertain" => lost)
    OBVIOUS
  <2> HIDE DEF moved, lost
  <2>5. /\ next.recovery = lost /\ next.operations = moved.operations
        /\ next.phase = moved.phase /\ next.outcome = moved.outcome
        /\ next.preparation = moved.preparation /\ next.ownerEpoch = moved.ownerEpoch
        /\ next.dispatch = moved.dispatch /\ next.request = moved.request
        /\ next.requestState = moved.requestState
    BY <1>0, <2>2, <2>3 DEF RunRecord
  <2> QED BY <1>4, <2>2, <2>4, <2>5 DEF ReceiptMove
<1>5. CASE prior.kind \notin {"prepare", "turn", "steer", "configure", "request_resolution"}
  <2>1. next = rec
    BY <1>5 DEF ReceiptRun
  <2> QED BY <1>5, <2>1 DEF ReceiptMove
<1> QED BY <1>1, <1>2, <1>3, <1>4, <1>5

\* operationReceipt commits what the ledger backs, however late the receipt.
LEMMA ReceiptTrue ==
  ASSUME IInv, LedgerInv, NEW r \in Runs, Receipt(r)
  PROVE  TrueCommit(r)
<1>0. /\ run[r] \in RunRecord /\ RequestTruth(run[r]) /\ LedgerTruth(run[r], op[r])
      /\ op[r] \in [OpIds -> OpRecord] /\ ResolutionNamesRequest(op[r])
  BY DEF IInv, TypeOK, RequestsTrue, LedgerInv
<1>1. PICK id \in OpIds, disposition \in Dispositions, state \in {"none", "pending", "unavailable"} :
        OperationReceipt(r, id, disposition, state)
  BY DEF Receipt
<1> DEFINE prior == op[r][id]
           entry == [prior EXCEPT !.disposition = disposition]
           next == ReceiptRun(run[r], prior, disposition, state)
           ledger == [op[r] EXCEPT ![id] = entry]
<1>2. Commit(r, next, ledger)
  BY <1>1 DEF OperationReceipt
<1>3. /\ prior.kind # "none" /\ ~FinalReceipt(prior)
      /\ prior.kind = "binding_cleanup" /\ disposition = "completed"
           => op[r]["session_close"].disposition = "completed"
      /\ (prior.kind = "request_resolution" /\ disposition = "rejected") <=> state # "none"
      /\ prior.kind = "request_resolution" /\ run[r].request = prior.request
           => run[r].requestState \in {"resolution_intended", "unavailable"}
  BY <1>1 DEF OperationReceipt, Recorded, CleanupConfirmable
<1>4. prior \in OpRecord /\ (prior.kind = "request_resolution" => prior.request # NoRequest)
  BY <1>0 DEF ResolutionNamesRequest
<1>5. ReceiptMove(run[r], prior, disposition, next)
  <2> HIDE DEF prior
  <2> QED BY <1>0, <1>3, <1>4, ReceiptMoves
<1>6. Rewritten(op[r], ledger, id, disposition) /\ ledger[id].ownerEpoch = prior.ownerEpoch
  <2>1. ledger[id] = entry /\ \A j \in OpIds : j # id => ledger[j] = op[r][j]
    BY <1>0
  <2>2. /\ entry.kind = prior.kind /\ entry.request = prior.request
        /\ entry.disposition = disposition /\ entry.ownerEpoch = prior.ownerEpoch
    <3> HIDE DEF prior
    <3> QED BY <1>4 DEF OpRecord
  <2> HIDE DEF ledger, entry
  <2> QED BY <2>1, <2>2 DEF Rewritten
<1> HIDE DEF next, ledger, entry
<1>7. LedgerTruth(next, ledger)
  BY <1>0, <1>3, <1>4, <1>5, <1>6, ReceiptTruth
<1>8. InputFence(r, ledger) /\ OperationPaid(r, next)
  BY <1>3, <1>5, <1>6 DEF InputFence, OperationPaid, ReceiptMove, Rewritten
<1> QED BY <1>2, <1>7, <1>8 DEF TrueCommit

\* requestState commits what the ledger backs.
LEMMA RequestTrue ==
  ASSUME IInv, LedgerInv, NEW r \in Runs, Request(r)
  PROVE  TrueCommit(r)
<1> DEFINE more == run[r].operations + 1
<1>0. /\ run[r] \in RunRecord /\ RequestTruth(run[r]) /\ LedgerTruth(run[r], op[r])
      /\ run[r].phase = "settled" <=> run[r].outcome # "none"
  BY DEF IInv, TypeOK, RequestsTrue, LedgerInv, SettledHasOutcome
<1> HIDE DEF more
<1>1. InputFence(r, op[r])
  BY DEF InputFence
<1>2. ASSUME NEW request \in Requests, RequestOpened(r, request)
      PROVE  TrueCommit(r)
  <2> DEFINE next == [run[r] EXCEPT !.phase = "waiting", !.request = request,
                                    !.requestState = "waiting"]
  <2>1. /\ Commit(r, next, op[r]) /\ run[r].phase = "running"
        /\ \A id \in OpIds : op[r][id].request # request
    BY <1>2 DEF RequestOpened, FreshRequest
  <2>2. /\ next.phase = "waiting" /\ next.outcome = run[r].outcome
        /\ next.preparation = run[r].preparation /\ next.dispatch = run[r].dispatch
        /\ next.ownerEpoch = run[r].ownerEpoch /\ next.recovery = run[r].recovery
        /\ next.request = request /\ next.operations = run[r].operations
    BY <1>0 DEF RunRecord
  <2> HIDE DEF next
  <2>3. LedgerTruth(next, op[r])
    BY <1>0, <2>1, <2>2, RequestTruthKept
  <2> QED BY <1>1, <2>1, <2>2, <2>3 DEF TrueCommit, OperationPaid
<1>3. ASSUME NEW id \in Controls, ResolutionIntended(r, id)
      PROVE  TrueCommit(r)
  <2> DEFINE next == [run[r] EXCEPT !.phase = "running", !.requestState = "resolution_intended",
                                    !.operations = more]
             ledger == WithOperation(r, id, "request_resolution", run[r].request)
  <2>1. /\ Commit(r, next, ledger) /\ run[r].phase = "waiting" /\ run[r].requestState = "waiting"
        /\ owner = run[r].ownerEpoch /\ ~run[r].cancelRequested /\ HasOrdinaryRoom(r)
        /\ op[r][id].kind = "none"
    BY <1>3 DEF ResolutionIntended, OwnExecutor, Recorded, more
  <2>2. /\ next.phase = "running" /\ next.outcome = run[r].outcome
        /\ next.preparation = run[r].preparation /\ next.dispatch = run[r].dispatch
        /\ next.ownerEpoch = run[r].ownerEpoch /\ next.recovery = run[r].recovery
        /\ next.requestState = "resolution_intended" /\ next.operations = more
    BY <1>0 DEF RunRecord
  <2>3. Entered(op[r], ledger, id, "request_resolution", run[r].request)
    BY IdsApart, WithOperationEnters
  <2>4. run[r].request # NoRequest /\ run[r].outcome = "none"
    BY <1>0, <2>1 DEF RequestTruth
  <2> HIDE DEF next, ledger
  <2>5. LedgerForm(ledger) /\ CloseFirst(ledger)
    BY <1>0, <2>3, <2>4, IdsApart, EnteredForm, EnteredClose DEF LedgerTruth
  <2>6. InputsOwned(next, ledger)
    BY <1>0, <2>1, <2>2, <2>3, <2>4 DEF LedgerTruth, InputsOwned, Entered
  <2>7. TurnBacked(next, ledger)
    BY <1>0, <2>1, <2>2, <2>3, OwnIds, IdsApart DEF LedgerTruth, TurnBacked, Entered
  <2>8. AnswersRejected(next, ledger)
    <3>1. ASSUME NEW i \in Controls, NEW j \in Controls, i # j, ledger[i].request # NoRequest,
                 ledger[i].request = ledger[j].request
          PROVE  ledger[i].disposition = "rejected" \/ ledger[j].disposition = "rejected"
      <4>1. \A k \in Controls : k # id => ledger[k] = op[r][k]
        BY <2>3, IdsApart DEF Entered
      <4>2. ledger[id].request = run[r].request
        BY <2>3 DEF Entered
      <4>3. CASE i = id \/ j = id
        BY <1>0, <2>1, <3>1, <4>1, <4>2, <4>3 DEF LedgerTruth, AnswersRejected
      <4>4. CASE i # id /\ j # id
        BY <1>0, <3>1, <4>1, <4>4 DEF LedgerTruth, AnswersRejected
      <4> QED BY <4>3, <4>4
    <3> QED BY <2>2, <3>1 DEF AnswersRejected
  <2>9. DoubtRecorded(next, ledger)
    BY <1>0, <2>2, <2>3, IdsApart DEF LedgerTruth, DoubtRecorded, Entered
  <2>10. LedgerTruth(next, ledger)
    BY <2>5, <2>6, <2>7, <2>8, <2>9 DEF LedgerTruth
  <2>11. InputFence(r, ledger) /\ OperationPaid(r, next)
    BY <2>1, <2>2 DEF InputFence, OperationPaid, more
  <2> QED BY <2>1, <2>10, <2>11 DEF TrueCommit
<1>4. CASE RequestResolved(r)
  <2> DEFINE next == [run[r] EXCEPT !.requestState = "resolved"]
  <2>1. Commit(r, next, op[r])
    BY <1>4 DEF RequestResolved
  <2>2. /\ next.phase = run[r].phase /\ next.outcome = run[r].outcome
        /\ next.preparation = run[r].preparation /\ next.dispatch = run[r].dispatch
        /\ next.ownerEpoch = run[r].ownerEpoch /\ next.recovery = run[r].recovery
        /\ next.requestState = "resolved" /\ next.operations = run[r].operations
    BY <1>0 DEF RunRecord
  <2> HIDE DEF next
  <2>3. LedgerTruth(next, op[r])
    BY <1>0, <2>2, RequestTruthKept
  <2> QED BY <1>1, <2>1, <2>2, <2>3 DEF TrueCommit, OperationPaid
<1>5. CASE RequestUnavailable(r)
  <2> DEFINE phase == IF run[r].phase = "waiting" THEN "running" ELSE run[r].phase
             next == [run[r] EXCEPT !.requestState = "unavailable", !.phase = phase]
  <2>1. Commit(r, next, op[r])
    BY <1>5 DEF RequestUnavailable
  <2>2. phase = run[r].phase \/ {phase, run[r].phase} \subseteq {"running", "waiting"}
    OBVIOUS
  <2> HIDE DEF phase
  <2>3. /\ next.phase = phase /\ next.outcome = run[r].outcome
        /\ next.preparation = run[r].preparation /\ next.dispatch = run[r].dispatch
        /\ next.ownerEpoch = run[r].ownerEpoch /\ next.recovery = run[r].recovery
        /\ next.requestState = "unavailable" /\ next.operations = run[r].operations
    BY <1>0 DEF RunRecord
  <2> HIDE DEF next
  <2>4. LedgerTruth(next, op[r])
    BY <1>0, <2>2, <2>3, RequestTruthKept
  <2> QED BY <1>1, <2>1, <2>3, <2>4 DEF TrueCommit, OperationPaid
<1> QED BY <1>2, <1>3, <1>4, <1>5 DEF Request

\* cancelRun and settle commit what the ledger backs.
LEMMA FinishTrue ==
  ASSUME IInv, LedgerInv, NEW r \in Runs, Finish(r)
  PROVE  TrueCommit(r)
<1>0. /\ run[r] \in RunRecord /\ RequestTruth(run[r]) /\ LedgerTruth(run[r], op[r])
  BY DEF IInv, TypeOK, RequestsTrue, LedgerInv
<1>1. CASE CancelRun(r)
  <2> DEFINE canceled == [run[r] EXCEPT !.cancelRequested = TRUE]
             ledger == WithOperation(r, "cancel", "cancel", NoRequest)
             settled == Settled(canceled, "not_dispatched")
             next == IF run[r].phase = "settled" THEN run[r]
                     ELSE IF NeverDispatched(run[r]) THEN settled ELSE canceled
  <2>0. /\ "cancel" \in OpIds /\ "cancel" \notin Controls /\ "cancel" \in CriticalKinds
        /\ "cancel" \notin InputKinds
    BY OwnIds, IdsApart DEF CriticalKinds, InputKinds
  <2>1. /\ Commit(r, next, ledger) /\ run[r].phase # "absent"
        /\ op[r]["cancel"].kind = "none"
    BY <1>1 DEF CancelRun, Admitted, Recorded
  <2>2. Entered(op[r], ledger, "cancel", "cancel", NoRequest)
    BY <2>0, WithOperationEnters
  <2>3. canceled \in RunRecord /\ SameFooting(run[r], canceled)
        /\ canceled.operations = run[r].operations
    BY <1>0 DEF RunRecord, SameFooting
  <2>4. SameFooting(run[r], run[r])
    BY DEF SameFooting
  <2>5. settled.operations = canceled.operations
    <3> HIDE DEF canceled
    <3> QED BY <2>3 DEF Settled, RunRecord
  <2> HIDE DEF canceled, ledger
  <2>6. LedgerTruth(run[r], ledger) /\ LedgerTruth(canceled, ledger)
    BY <1>0, <2>0, <2>1, <2>2, <2>3, <2>4, EnteredTruth
  <2>7. NeverDispatched(run[r]) => LedgerTruth(settled, ledger)
    <3>1. "not_dispatched" \in Outcomes
      BY DEF Outcomes
    <3>2. canceled.phase # "absent" /\ (NeverDispatched(run[r]) => NeverDispatched(canceled))
      BY <2>1, <2>3 DEF SameFooting, NeverDispatched
    <3> QED BY <2>3, <2>6, <3>1, <3>2, SettledTruth
  <2>8. LedgerTruth(next, ledger) /\ OperationPaid(r, next)
    <3> HIDE DEF settled
    <3> QED BY <2>3, <2>5, <2>6, <2>7 DEF OperationPaid
  <2>9. InputFence(r, ledger)
    BY <2>0, <2>2, EnteredFence
  <2> HIDE DEF next
  <2> QED BY <2>1, <2>8, <2>9 DEF TrueCommit
<1>2. ASSUME NEW requested \in Outcomes, Settle(r, requested)
      PROVE  TrueCommit(r)
  <2> DEFINE next == Settled(run[r], requested)
  <2>1. /\ Commit(r, next, op[r]) /\ run[r].phase # "absent"
        /\ requested \in {"succeeded", "provider_terminal"} => run[r].phase \in {"running", "waiting"}
        /\ requested = "not_dispatched" => NeverDispatched(run[r])
    BY <1>2 DEF Settle, Admitted, MaySettle
  <2>2. LedgerTruth(next, op[r])
    BY <1>0, <2>1, SettledTruth
  <2>3. next.operations = run[r].operations
    BY <1>0 DEF Settled, RunRecord
  <2> HIDE DEF next
  <2>4. InputFence(r, op[r]) /\ OperationPaid(r, next)
    BY <2>3 DEF InputFence, OperationPaid
  <2> QED BY <2>1, <2>2, <2>4 DEF TrueCommit
<1> QED BY <1>1, <1>2 DEF Finish

\* Every command about an admitted run commits what its ledger backs.
LEMMA CommandTrue ==
  ASSUME IInv, LedgerInv, NEW r \in Runs, Dispatch(r) \/ Receipt(r) \/ Request(r) \/ Finish(r)
  PROVE  TrueCommit(r) /\ LegalCommit(r)
BY DispatchTrue, ReceiptTrue, RequestTrue, FinishTrue,
   DispatchLegal, ReceiptLegal, RequestLegal, FinishLegal

--------------------------------------------------------------------------------

\* deriveTask reads every run of the task as the commit leaves it.
LEMMA DerivedKnows ==
  ASSUME NEW t, NEW runs, NEW r \in Runs, runs[r].task = t,
         runs[r].recovery \/ runs[r].outcome = "recovery_required"
  PROVE  DerivedState(t, runs) \in {"recovery_required", "retired"}
BY DEF DerivedState

\* A commit of what the ledger backs preserves the ledger invariant.
LEMMA CommitTrue ==
  ASSUME IInv, LedgerInv, NEW r \in Runs, TrueCommit(r), LegalCommit(r)
  PROVE  LedgerInv'
<1>1. PICK next, ledger : Commit(r, next, ledger) /\ LedgerTruth(next, ledger)
  BY DEF TrueCommit
<1>2. /\ run'[r] = next /\ op'[r] = ledger
      /\ \A s \in Runs : s # r => run'[s] = run[s] /\ op'[s] = op[s]
  BY <1>1 DEF Commit, IInv, TypeOK
<1>3. next \in RunRecord /\ next.phase # "absent" /\ next.task = run[r].task
      /\ next.task \in Tasks
  <2>1. PICK n \in RunRecord, l \in [OpIds -> OpRecord] : LegalStep(r, n) /\ Commit(r, n, l)
    BY DEF LegalCommit
  <2>2. n = next
    BY <1>1, <2>1 DEF Commit, IInv, TypeOK
  <2>3. run[r] \in RunRecord
    BY DEF IInv, TypeOK
  <2> QED BY <2>1, <2>2, <2>3 DEF LegalStep, IInv, Traces, RunRecord
<1>4. \A s \in Runs : LedgerTruth(run'[s], op'[s])
  BY <1>1, <1>2 DEF LedgerInv
<1>5. Untouched'
  BY <1>2, <1>3 DEF LedgerInv, Untouched
<1>6. DoubtKnown'
  <2> SUFFICES ASSUME NEW s \in Runs, run'[s].recovery \/ run'[s].outcome = "recovery_required"
               PROVE  task'[run'[s].task].state \in {"recovery_required", "retired"}
    BY DEF DoubtKnown
  <2> DEFINE t == next.task
             state == DerivedState(t, run')
  <2>1. task' = [task EXCEPT ![t].state = state] /\ task \in [Tasks -> TaskRecord]
    BY <1>1, TypeParts DEF Commit, IInv
  <2>2. task'[t].state = state /\ \A u \in Tasks : u # t => task'[u] = task[u]
    <3> HIDE DEF state, t
    <3>1. t \in Tasks
      BY <1>3 DEF t
    <3> QED BY <2>1, <3>1 DEF TaskRecord
  <2>3. CASE run'[s].task = t
    <3>1. state \in {"recovery_required", "retired"}
      BY <2>3, DerivedKnows
    <3> HIDE DEF state, t
    <3> QED BY <2>2, <2>3, <3>1
  <2>4. CASE run'[s].task # t
    <3>1. run'[s] = run[s]
      BY <1>2, <2>4
    <3>2. run[s].task \in Tasks
      <4>1. run[s].phase # "absent"
        BY <3>1 DEF LedgerInv, Untouched, BlankRun
      <4>2. run[s] \in RunRecord /\ run[s].task # NoTask
        BY <4>1 DEF IInv, TypeOK, Traces
      <4> QED BY <4>2 DEF RunRecord
    <3> HIDE DEF state, t
    <3> QED BY <2>2, <2>4, <3>1, <3>2 DEF LedgerInv, DoubtKnown
  <2> QED BY <2>3, <2>4
<1> QED BY <1>4, <1>5, <1>6 DEF LedgerInv, LedgerTruth, LedgerForm, InputsOwned, TurnBacked,
        AnswersRejected, DoubtRecorded, CloseFirst

\* The ledger an admission opens.
LEMMA AdmitTrue ==
  ASSUME IInv, LedgerInv, NEW t \in Tasks, NEW r \in Runs, AdmitRun(t, r)
  PROVE  LedgerInv'
<1> DEFINE ordinal == task[t].runCount + 1
           next == [BlankRun EXCEPT !.task = t, !.ordinal = ordinal,
                                    !.ownerEpoch = owner, !.phase = "queued", !.operations = 1]
           ledger == WithOperation(r, "admit", "admit", NoRequest)
           state == DerivedState(t, run')
<1>0. /\ run[r].phase = "absent" /\ run[r] = BlankRun
      /\ LedgerTruth(run[r], op[r]) /\ task \in [Tasks -> TaskRecord]
  BY TypeParts DEF AdmitRun, Admitted, LedgerInv, Untouched, IInv
<1>1. /\ run'[r] = next /\ op'[r] = ledger
      /\ \A s \in Runs : s # r => run'[s] = run[s] /\ op'[s] = op[s]
      /\ task' = [task EXCEPT ![t] = [state |-> state, runCount |-> ordinal]]
  BY <1>0 DEF AdmitRun, IInv, TypeOK
<1>2. Entered(op[r], ledger, "admit", "admit", NoRequest)
  BY OwnIds, WithOperationEnters
<1> HIDE DEF ordinal, ledger, state
<1>3. /\ next.task = t /\ next.phase = "queued" /\ next.outcome = "none"
      /\ next.preparation = "none" /\ next.dispatch = "none" /\ next.recovery = FALSE
      /\ next.request = NoRequest /\ next.requestState = "none"
  BY DEF BlankRun
<1> HIDE DEF next
<1>4. \A id \in OpIds : op[r][id].kind = "none"
  BY <1>0 DEF IInv, Traces
<1>5. LedgerTruth(next, ledger)
  <2>1. LedgerForm(ledger) /\ CloseFirst(ledger)
    BY <1>0, <1>2, OwnIds, IdsApart, EnteredForm, EnteredClose DEF LedgerTruth
  <2>2. InputsOwned(next, ledger)
    BY <1>2, <1>4 DEF InputsOwned, InputKinds, Entered
  <2>3. TurnBacked(next, ledger)
    BY <1>3 DEF TurnBacked
  <2>4. \A j \in Controls : ledger[j] = op[r][j] /\ op[r][j].request = NoRequest
                            /\ op[r][j].disposition = "intent"
    BY <1>0, <1>2, <1>4, IdsApart DEF Entered, LedgerTruth, LedgerForm
  <2>5. AnswersRejected(next, ledger) /\ DoubtRecorded(next, ledger)
    BY <1>3, <2>4 DEF AnswersRejected, DoubtRecorded
  <2> QED BY <2>1, <2>2, <2>3, <2>5 DEF LedgerTruth
<1>6. \A s \in Runs : LedgerTruth(run'[s], op'[s])
  BY <1>1, <1>5 DEF LedgerInv
<1>7. Untouched'
  BY <1>1, <1>3 DEF LedgerInv, Untouched
<1>8. DoubtKnown'
  <2> SUFFICES ASSUME NEW s \in Runs, run'[s].recovery \/ run'[s].outcome = "recovery_required"
               PROVE  task'[run'[s].task].state \in {"recovery_required", "retired"}
    BY DEF DoubtKnown
  <2>1. run'[s] = run[s]
    BY <1>1, <1>3
  <2>2. CASE run[s].task = t
    <3>1. state \in {"recovery_required", "retired"}
      BY <2>1, <2>2, DerivedKnows DEF state
    <3> QED BY <1>0, <1>1, <2>1, <2>2, <3>1
  <2>3. CASE run[s].task # t
    <3>1. run[s].phase # "absent"
      BY <2>1 DEF LedgerInv, Untouched, BlankRun
    <3>2. run[s] \in RunRecord /\ run[s].task # NoTask
      BY <3>1 DEF IInv, TypeOK, Traces
    <3>3. run[s].task \in Tasks
      BY <3>2 DEF RunRecord
    <3> QED BY <1>0, <1>1, <2>1, <2>3, <3>3 DEF LedgerInv, DoubtKnown
  <2> QED BY <2>2, <2>3
<1> QED BY <1>6, <1>7, <1>8 DEF LedgerInv, LedgerTruth, LedgerForm, InputsOwned, TurnBacked,
        AnswersRejected, DoubtRecorded, CloseFirst

\* Owners that come and go, and a retirement, leave runs and ledgers alone.
LEMMA OwnerTrue ==
  ASSUME IInv, LedgerInv, AcquireOwner \/ ReleaseOwner \/ (\E t \in Tasks : RetireRecovery(t))
  PROVE  LedgerInv'
<1>1. run' = run /\ op' = op
  BY DEF AcquireOwner, ReleaseOwner, RetireRecovery
<1>2. DoubtKnown'
  <2>1. CASE task' = task
    BY <1>1, <2>1 DEF LedgerInv, DoubtKnown
  <2>2. ASSUME NEW t \in Tasks, RetireRecovery(t) PROVE DoubtKnown'
    <3>1. task \in [Tasks -> TaskRecord]
      BY TypeParts DEF IInv
    <3>2. task'[t].state = "retired" /\ \A u : u # t => task'[u] = task[u]
      BY <2>2, <3>1 DEF RetireRecovery, TaskRecord
    <3> QED BY <1>1, <3>2 DEF LedgerInv, DoubtKnown
  <2> QED BY <2>1, <2>2 DEF AcquireOwner, ReleaseOwner
<1> QED BY <1>1, <1>2 DEF LedgerInv, Untouched, LedgerTruth, LedgerForm, InputsOwned, TurnBacked,
        AnswersRejected, DoubtRecorded, CloseFirst

\* The empty store.
LEMMA InitTrue == Init => LedgerInv
<1> SUFFICES ASSUME Init PROVE LedgerInv
  OBVIOUS
<1>1. \A r \in Runs : run[r] = BlankRun /\ \A id \in OpIds : op[r][id] = BlankOp
  BY DEF Init
<1>2. ASSUME NEW r \in Runs PROVE LedgerTruth(run[r], op[r])
  BY <1>1, OwnIds, IdsApart DEF LedgerTruth, LedgerForm, InputsOwned, InputKinds, TurnBacked,
     AnswersRejected, DoubtRecorded, CloseFirst, BlankRun, BlankOp
<1>3. Untouched
  BY <1>1 DEF Untouched
<1>4. DoubtKnown
  <2>1. BlankRun.recovery = FALSE /\ BlankRun.outcome = "none"
    BY DEF BlankRun
  <2> QED BY <1>1, <2>1 DEF DoubtKnown
<1> QED BY <1>2, <1>3, <1>4 DEF LedgerInv

\* Every command of every owner preserves the ledger invariant.
LEMMA NextTrue == IInv /\ LedgerInv /\ [Next]_vars => LedgerInv'
<1> SUFFICES ASSUME IInv, LedgerInv, [Next]_vars PROVE LedgerInv'
  OBVIOUS
<1>1. CASE UNCHANGED vars
  BY <1>1 DEF vars, LedgerInv, Untouched, DoubtKnown, LedgerTruth, LedgerForm, InputsOwned,
     TurnBacked, AnswersRejected, DoubtRecorded, CloseFirst
<1>2. CASE Admit
  BY <1>2, AdmitTrue DEF Admit, AdmitTask, AdmitContinuation
<1>3. ASSUME NEW r \in Runs, Dispatch(r) \/ Receipt(r) \/ Request(r) \/ Finish(r)
      PROVE  LedgerInv'
  BY <1>3, CommandTrue, CommitTrue
<1> QED BY <1>1, <1>2, <1>3, OwnerTrue DEF Next

\* Every ledger backs its run, in every reachable state of the store.
THEOREM LedgerInvariant == Spec => []LedgerInv
BY InitTrue, NextTrue, StoreInvariant, PTL DEF Spec

\* Provider truth needs a completed preparation and a recorded turn, "never
\* dispatched" a ledger without provider input (settle.ts, cancel.ts), for every
\* order of commands, late receipts included.
THEOREM BackedOutcomes == Spec => []OutcomeIsBacked
<1>1. IInv /\ LedgerInv => OutcomeIsBacked
  <2> SUFFICES ASSUME IInv, LedgerInv, NEW r \in Runs
               PROVE  /\ run[r].outcome \in {"succeeded", "provider_terminal"} =>
                           /\ op[r]["turn"].kind = "turn" /\ run[r].dispatch # "none"
                           /\ op[r]["prepare"].disposition = "completed"
                      /\ run[r].outcome = "not_dispatched" =>
                           /\ \A id \in OpIds : op[r][id].kind \in {"none", "admit"} \cup CriticalKinds
                           /\ run[r].dispatch = "none"
                      /\ run[r].phase = "settled" <=> run[r].outcome # "none"
    BY DEF OutcomeIsBacked
  <2>1. TurnBacked(run[r], op[r]) /\ InputsOwned(run[r], op[r])
    BY DEF LedgerInv, LedgerTruth
  <2>2. \A id \in OpIds : op[r][id].kind \in Kinds \cup {"none"}
    BY DEF IInv, TypeOK, OpRecord
  <2>3. run[r].outcome = "not_dispatched" =>
          \A id \in OpIds : op[r][id].kind \in {"none", "admit"} \cup CriticalKinds
    BY <2>1, <2>2 DEF InputsOwned, InputKinds, Kinds, OrdinaryKinds, CriticalKinds
  <2>4. run[r].phase = "settled" <=> run[r].outcome # "none"
    BY DEF IInv, SettledHasOutcome
  <2> QED BY <2>1, <2>3, <2>4 DEF TurnBacked
<1> QED BY <1>1, LedgerInvariant, StoreInvariant, PTL

\* A control whose effect became unknown (receipt.ts, the uncertain branch) keeps
\* its task out of service for good, whenever its receipt arrives.
THEOREM DoubtIsSticky == Spec => []UncertaintyIsSticky
<1>1. IInv /\ LedgerInv => UncertaintyIsSticky
  BY DEF LedgerInv, LedgerTruth, DoubtRecorded, DoubtKnown, UncertaintyIsSticky
<1> QED BY <1>1, LedgerInvariant, StoreInvariant, PTL

\* At most one answer of a request may have reached the provider.
THEOREM OneAnswer == Spec => []OneAnswerPerRequest
<1>1. LedgerInv => OneAnswerPerRequest
  BY DEF LedgerInv, LedgerTruth, AnswersRejected, OneAnswerPerRequest
<1> QED BY <1>1, LedgerInvariant, PTL

\* Every provider input of a run was recorded under the executor it names.
THEOREM OneExecutorEpoch == Spec => []SingleExecutorEpoch
<1>1. LedgerInv => SingleExecutorEpoch
  BY DEF LedgerInv, LedgerTruth, InputsOwned, InputKinds, SingleExecutorEpoch
<1> QED BY <1>1, LedgerInvariant, PTL

\* Binding cleanup is confirmed over a confirmed close, retries included.
THEOREM OrderedCleanup == Spec => []CleanupOrder
<1>1. LedgerInv => CleanupOrder
  BY DEF LedgerInv, LedgerTruth, CloseFirst, CleanupOrder
<1> QED BY <1>1, LedgerInvariant, PTL

\* No owner intends a further provider input of a canceled run.
THEOREM CancelStopsInput == Spec => NoInputAfterCancel
<1>1. ASSUME IInv, LedgerInv, [Next]_vars
      PROVE  [\A r \in Runs : run[r].cancelRequested =>
                \A id \in OpIds : ~Recorded(r, id) =>
                  op'[r][id].kind \in {"none"} \cup CriticalKinds]_vars
  <2>1. CASE UNCHANGED vars
    BY <2>1
  <2>2. CASE Next
    <3> SUFFICES ASSUME NEW r \in Runs, run[r].cancelRequested, NEW id \in OpIds,
                        op[r][id].kind = "none"
                 PROVE  op'[r][id].kind \in {"none"} \cup CriticalKinds
      BY DEF Recorded
    <3>1. op \in [Runs -> [OpIds -> OpRecord]]
      BY <1>1 DEF IInv, TypeOK
    <3>2. ASSUME NEW s \in Runs, TrueCommit(s)
          PROVE  op'[r][id].kind \in {"none"} \cup CriticalKinds
      <4>1. PICK next, ledger : Commit(s, next, ledger) /\ InputFence(s, ledger)
        BY <3>2 DEF TrueCommit
      <4>2. CASE s = r
        <5>1. op'[r] = ledger
          BY <3>1, <4>1, <4>2 DEF Commit
        <5> QED BY <4>1, <4>2, <5>1 DEF InputFence
      <4>3. CASE s # r
        <5>1. op'[r] = op[r]
          BY <3>1, <4>1, <4>3 DEF Commit
        <5> QED BY <5>1
      <4> QED BY <4>2, <4>3
    <3>3. ASSUME NEW t \in Tasks, NEW s \in Runs, AdmitRun(t, s)
          PROVE  op'[r][id].kind \in {"none"} \cup CriticalKinds
      <4>1. s # r
        <5>1. BlankRun.cancelRequested = FALSE
          BY DEF BlankRun
        <5> QED BY <1>1, <3>3, <5>1 DEF AdmitRun, Admitted, LedgerInv, Untouched
      <4>2. op'[r] = op[r]
        BY <3>1, <3>3, <4>1 DEF AdmitRun
      <4> QED BY <4>2
    <3>4. CASE op' = op
      BY <3>4
    <3>5. CASE Admit
      BY <3>3, <3>5 DEF Admit, AdmitTask, AdmitContinuation
    <3> QED BY <1>1, <2>2, <3>2, <3>4, <3>5, CommandTrue DEF Next, AcquireOwner, ReleaseOwner,
               RetireRecovery
  <2> QED BY <1>1, <2>1, <2>2
<1> QED BY <1>1, LedgerInvariant, StoreInvariant, PTL DEF Spec, NoInputAfterCancel

--------------------------------------------------------------------------------
(* The counters are a census of the records. *)

\* Two sets that agree everywhere but at one element.
LEMMA Census ==
  ASSUME NEW S, NEW T, NEW x, IsFiniteSet(S), \A y : y # x => (y \in S <=> y \in T)
  PROVE  /\ IsFiniteSet(T) /\ Cardinality(S) \in Nat /\ Cardinality(T) \in Nat
         /\ Cardinality(T) = Cardinality(S) + One(x \in T /\ x \notin S)
                                            - One(x \in S /\ x \notin T)
<1>0. Cardinality(S) \in Nat
  BY FS_CardinalityType
<1>1. CASE x \in S <=> x \in T
  <2>1. S = T
    BY <1>1
  <2> QED BY <1>0, <2>1 DEF One
<1>2. CASE x \notin S /\ x \in T
  <2>1. T = S \cup {x}
    BY <1>2
  <2> QED BY <1>0, <1>2, <2>1, FS_AddElement DEF One
<1>3. CASE x \in S /\ x \notin T
  <2>1. T = S \ {x}
    BY <1>3
  <2>2. IsFiniteSet(T) /\ Cardinality(T) = Cardinality(S) - 1
    BY <1>3, <2>1, FS_RemoveElement
  <2>3. Cardinality(T) \in Nat
    BY <2>2, FS_CardinalityType
  <2> QED BY <1>0, <1>3, <2>2, <2>3 DEF One
<1> QED BY <1>1, <1>2, <1>3

\* The sets that are counted are finite.
LEMMA CountedFinite ==
  /\ \A P : IsFiniteSet(InPhase(P))
  /\ IsFiniteSet({r \in Runs : Admitted(r)})
  /\ IsFiniteSet({t \in Tasks : task[t].state # "absent"})
BY IdentityAssumption, FS_Subset DEF InPhase

\* A commit keeps the counters exact and inside the limits.
LEMMA CommitExact ==
  ASSUME IInv, LedgerInv, CapacityExact, NEW r \in Runs, TrueCommit(r), LegalCommit(r)
  PROVE  CapacityExact'
<1>1. PICK next, ledger : Commit(r, next, ledger) /\ OperationPaid(r, next)
  BY DEF TrueCommit
<1>2. LegalStep(r, next) /\ next \in RunRecord
  <2>1. PICK n \in RunRecord, l \in [OpIds -> OpRecord] : LegalStep(r, n) /\ Commit(r, n, l)
    BY DEF LegalCommit
  <2>2. n = next
    BY <1>1, <2>1 DEF Commit, IInv, TypeOK
  <2> QED BY <2>1, <2>2
<1>3. run'[r] = next /\ \A s \in Runs : s # r => run'[s] = run[s]
  BY <1>1 DEF Commit, IInv, TypeOK
<1> DEFINE prior == run[r].phase
           after == next.phase
           ActiveNow == InPhase(Active)
           QueuedNow == InPhase({"queued"})
<1>4. /\ prior \in Phases \ {"absent"} /\ after \in Phases \ {"absent"}
      /\ after = "queued" => prior = "queued"
      /\ prior = "settled" => after = "settled"
      /\ prior \notin Active /\ after \in Active => capacity.activeRuns < maxActiveRuns
  BY <1>2 DEF LegalStep, RunRecord, IInv, TypeOK, SettledHasOutcome, FreeExecutor
<1>5. /\ capacity' = CapacityAfter(run[r], next) /\ capacity \in CapacityRecord
      /\ run[r].operations \in Nat /\ next.operations \in Nat
  BY <1>1, <1>2, TypeParts DEF Commit, IInv, TypeOK, RunRecord
<1>6. /\ capacity'.tasks = capacity.tasks /\ capacity'.runs = capacity.runs
      /\ capacity'.queuedRuns = capacity.queuedRuns - One(prior = "queued" /\ after # "queued")
      /\ capacity'.activeRuns = capacity.activeRuns + ActiveChange(prior, after)
      /\ capacity'.ordinaryOperations = capacity.ordinaryOperations
                                          + (next.operations - run[r].operations)
  BY <1>5 DEF CapacityAfter
<1>7. /\ r \in ActiveNow <=> prior \in Active
      /\ r \in ActiveNow' <=> after \in Active
      /\ r \in QueuedNow <=> prior = "queued"
      /\ r \in QueuedNow' <=> after = "queued"
      /\ \A y : y # r => (y \in ActiveNow <=> y \in ActiveNow')
                         /\ (y \in QueuedNow <=> y \in QueuedNow')
  BY <1>3 DEF InPhase
<1>8. IsFiniteSet(ActiveNow) /\ IsFiniteSet(QueuedNow)
  BY CountedFinite
<1> HIDE DEF ActiveNow, QueuedNow, prior, after
<1>9. /\ Cardinality(QueuedNow') \in Nat
      /\ Cardinality(QueuedNow') = Cardinality(QueuedNow)
                                     - One(prior = "queued" /\ after # "queued")
  <2>1. /\ Cardinality(QueuedNow') \in Nat /\ Cardinality(QueuedNow) \in Nat
        /\ Cardinality(QueuedNow') = Cardinality(QueuedNow)
             + One(r \in QueuedNow' /\ r \notin QueuedNow)
             - One(r \in QueuedNow /\ r \notin QueuedNow')
    BY <1>7, <1>8, Census
  <2> QED BY <1>4, <1>7, <2>1 DEF One
<1>10. /\ Cardinality(ActiveNow') \in Nat
       /\ Cardinality(ActiveNow') = Cardinality(ActiveNow) + ActiveChange(prior, after)
  <2>1. /\ Cardinality(ActiveNow') \in Nat /\ Cardinality(ActiveNow) \in Nat
        /\ Cardinality(ActiveNow') = Cardinality(ActiveNow)
             + One(r \in ActiveNow' /\ r \notin ActiveNow)
             - One(r \in ActiveNow /\ r \notin ActiveNow')
    BY <1>7, <1>8, Census
  <2> QED BY <1>4, <1>7, <2>1 DEF One, ActiveChange, Phases, Active
<1>11. {s \in Runs : Admitted(s)}' = {s \in Runs : Admitted(s)}
  BY <1>3, <1>4 DEF Admitted, prior, after
<1>12. {t \in Tasks : task[t].state # "absent"}' = {t \in Tasks : task[t].state # "absent"}
  <2> DEFINE t == next.task
             state == DerivedState(t, run')
  <2>1. run[r].task = t /\ t \in Tasks
    BY <1>2, <1>4 DEF LegalStep, IInv, Traces, RunRecord, prior
  <2>2. task[t].state # "absent" /\ task \in [Tasks -> TaskRecord]
    BY <2>1, TypeParts DEF IInv, Ordinals
  <2>3. task' = [task EXCEPT ![t].state = state] /\ state # "absent"
    BY <1>1, DerivedType DEF Commit
  <2> HIDE DEF t, state
  <2>4. \A u \in Tasks : task'[u].state # "absent" <=> task[u].state # "absent"
    BY <2>1, <2>2, <2>3 DEF TaskRecord
  <2> QED BY <2>4
<1>13. CapacityConsistent'
  <2>1. /\ capacity.queuedRuns = Cardinality(QueuedNow)
        /\ capacity.activeRuns = Cardinality(ActiveNow) /\ CapacityConsistent
    BY DEF CapacityExact, QueuedNow, ActiveNow
  <2>2. /\ capacity.tasks \in Nat /\ capacity.runs \in Nat /\ capacity.queuedRuns \in Int
        /\ capacity.activeRuns \in Int /\ capacity.ordinaryOperations \in Int
    BY <1>5 DEF CapacityRecord
  <2>3. /\ capacity'.queuedRuns >= 0 /\ capacity'.activeRuns >= 0
        /\ capacity'.queuedRuns <= capacity.queuedRuns
    BY <1>6, <1>9, <1>10, <2>1, <2>2 DEF One
  <2>4. /\ capacity'.activeRuns <= maxActiveRuns
        /\ capacity'.activeRuns + capacity'.queuedRuns <= capacity.runs
    BY <1>4, <1>6, <2>1, <2>2, LimitsAssumption DEF One, ActiveChange, CapacityConsistent, Active
  <2>5. /\ capacity'.ordinaryOperations >= 0
        /\ capacity'.ordinaryOperations <= maxOrdinaryOperations
    BY <1>1, <1>5, <1>6, <2>1, <2>2, LimitsAssumption
    DEF OperationPaid, HasOrdinaryRoom, CapacityConsistent
  <2>6. capacity'.queuedRuns <= maxQueuedRuns
    BY <1>6, <1>9, <2>1, <2>2, <2>3, LimitsAssumption DEF CapacityConsistent
  <2>7. /\ capacity'.tasks <= maxTasks /\ capacity'.runs <= maxRuns
        /\ capacity'.tasks <= capacity'.runs
        /\ capacity'.activeRuns + capacity'.queuedRuns <= capacity'.runs
    BY <1>6, <2>1, <2>4 DEF CapacityConsistent
  <2> QED BY <2>3, <2>4, <2>5, <2>6, <2>7 DEF CapacityConsistent
<1> QED BY <1>6, <1>9, <1>10, <1>11, <1>12, <1>13 DEF CapacityExact, QueuedNow, ActiveNow

\* An admission counts its run, and its task when it is the first.
LEMMA AdmitExact ==
  ASSUME IInv, LedgerInv, CapacityExact, NEW t \in Tasks, NEW r \in Runs, AdmitRun(t, r),
         task[t].state = "absent" => capacity.tasks < maxTasks
  PROVE  CapacityExact'
<1> DEFINE ActiveNow == InPhase(Active)
           QueuedNow == InPhase({"queued"})
           Known == {s \in Runs : Admitted(s)}
           Named == {u \in Tasks : task[u].state # "absent"}
           state == DerivedState(t, run')
<1>1. /\ run[r].phase = "absent" /\ run'[r].phase = "queued"
      /\ \A s \in Runs : s # r => run'[s] = run[s]
  BY DEF AdmitRun, Admitted, BlankRun, IInv, TypeOK
<1>2. task \in [Tasks -> TaskRecord] /\ capacity \in CapacityRecord
  BY TypeParts DEF IInv
<1>3. /\ task' = [task EXCEPT ![t] = [state |-> state, runCount |-> @.runCount + 1]]
      /\ state # "absent"
  BY DerivedType DEF AdmitRun
<1>4. task'[t].state = state /\ \A u \in Tasks : u # t => task'[u] = task[u]
  <2> HIDE DEF state
  <2> QED BY <1>2, <1>3
<1>5. /\ capacity'.tasks = capacity.tasks + One(task[t].state = "absent")
      /\ capacity'.runs = capacity.runs + 1
      /\ capacity'.queuedRuns = capacity.queuedRuns + 1
      /\ capacity'.activeRuns = capacity.activeRuns
      /\ capacity'.ordinaryOperations = capacity.ordinaryOperations + 1
  BY DEF AdmitRun
<1>6. /\ IsFiniteSet(QueuedNow) /\ IsFiniteSet(Known) /\ IsFiniteSet(Named)
  BY CountedFinite
<1>7. /\ r \notin QueuedNow /\ r \in QueuedNow' /\ r \notin Known /\ r \in Known'
      /\ \A y : y # r => (y \in QueuedNow <=> y \in QueuedNow') /\ (y \in Known <=> y \in Known')
      /\ ActiveNow' = ActiveNow
  BY <1>1 DEF InPhase, Admitted, Active
<1>8. /\ t \in Named <=> task[t].state # "absent"
      /\ t \in Named'
      /\ \A u : u # t => (u \in Named <=> u \in Named')
  <2> HIDE DEF state
  <2> QED BY <1>3, <1>4
<1> HIDE DEF QueuedNow, Known, Named
<1>9. /\ Cardinality(QueuedNow') = Cardinality(QueuedNow) + 1 /\ Cardinality(QueuedNow) \in Nat
      /\ Cardinality(Known') = Cardinality(Known) + 1
  <2>1. /\ Cardinality(QueuedNow') = Cardinality(QueuedNow)
             + One(r \in QueuedNow' /\ r \notin QueuedNow)
             - One(r \in QueuedNow /\ r \notin QueuedNow')
        /\ Cardinality(QueuedNow) \in Nat
    BY <1>6, <1>7, Census
  <2>2. /\ Cardinality(Known') = Cardinality(Known)
             + One(r \in Known' /\ r \notin Known) - One(r \in Known /\ r \notin Known')
        /\ Cardinality(Known) \in Nat
    BY <1>6, <1>7, Census
  <2> QED BY <1>7, <2>1, <2>2 DEF One
<1>10. Cardinality(Named') = Cardinality(Named) + One(task[t].state = "absent")
  <2>1. /\ Cardinality(Named') = Cardinality(Named)
             + One(t \in Named' /\ t \notin Named) - One(t \in Named /\ t \notin Named')
        /\ Cardinality(Named) \in Nat
    BY <1>6, <1>8, Census
  <2> QED BY <1>8, <2>1 DEF One
<1>11. CapacityConsistent'
  <2>1. /\ capacity.tasks \in Nat /\ capacity.runs \in Nat /\ capacity.queuedRuns \in Int
        /\ capacity.activeRuns \in Int /\ capacity.ordinaryOperations \in Int
    BY <1>2 DEF CapacityRecord
  <2>2. /\ CapacityConsistent /\ capacity.runs < maxRuns /\ capacity.queuedRuns < maxQueuedRuns
        /\ capacity.ordinaryOperations < maxOrdinaryOperations
    BY DEF AdmitRun
  <2> QED BY <1>5, <2>1, <2>2, LimitsAssumption DEF CapacityConsistent, One
<1> QED BY <1>5, <1>7, <1>9, <1>10, <1>11 DEF CapacityExact, QueuedNow, Known, Named

\* The empty store.
LEMMA InitExact == Init => CapacityExact
<1> SUFFICES ASSUME Init PROVE CapacityExact
  OBVIOUS
<1>1. /\ InPhase({"queued"}) = {} /\ InPhase(Active) = {}
      /\ {r \in Runs : Admitted(r)} = {} /\ {t \in Tasks : task[t].state # "absent"} = {}
  BY DEF Init, InPhase, Admitted, BlankRun, Active
<1>2. CapacityConsistent
  BY LimitsAssumption DEF Init, CapacityConsistent
<1> QED BY <1>1, <1>2, FS_EmptySet DEF Init, CapacityExact

\* The counters of the store are exactly the census of its records and stay inside
\* the configured limits, so planDelegationStoreCommit (plan.ts:85-95) never
\* refuses the store as corrupt, whatever the limits, the runs and the owners.
THEOREM ExactCapacity == Spec => []CapacityExact
<1>1. IInv /\ LedgerInv /\ CapacityExact /\ [Next]_vars => CapacityExact'
  <2> SUFFICES ASSUME IInv, LedgerInv, CapacityExact, [Next]_vars PROVE CapacityExact'
    OBVIOUS
  <2>1. CASE UNCHANGED vars
    BY <2>1 DEF vars, CapacityExact, CapacityConsistent, InPhase, Admitted
  <2>2. CASE Admit
    BY <2>2, AdmitExact DEF Admit, AdmitTask, AdmitContinuation
  <2>3. ASSUME NEW r \in Runs, Dispatch(r) \/ Receipt(r) \/ Request(r) \/ Finish(r)
        PROVE  CapacityExact'
    BY <2>3, CommandTrue, CommitExact
  <2>4. CASE AcquireOwner \/ ReleaseOwner
    BY <2>4 DEF AcquireOwner, ReleaseOwner, CapacityExact, CapacityConsistent, InPhase, Admitted
  <2>5. ASSUME NEW t \in Tasks, RetireRecovery(t) PROVE CapacityExact'
    <3>1. task \in [Tasks -> TaskRecord]
      BY TypeParts DEF IInv
    <3>2. \A u \in Tasks : task'[u].state # "absent" <=> task[u].state # "absent"
      BY <2>5, <3>1 DEF RetireRecovery, TaskRecord
    <3>3. {u \in Tasks : task[u].state # "absent"}' = {u \in Tasks : task[u].state # "absent"}
      BY <3>2
    <3>4. run' = run /\ capacity' = capacity
      BY <2>5 DEF RetireRecovery
    <3> QED BY <3>3, <3>4 DEF CapacityExact, CapacityConsistent, InPhase, Admitted
  <2> QED BY <2>1, <2>2, <2>3, <2>4, <2>5 DEF Next
<1> QED BY <1>1, InitExact, LedgerInvariant, StoreInvariant, PTL DEF Spec

--------------------------------------------------------------------------------
(* The store keeps what delegation promises of its runs. *)

\* A run that waits to start has left no trace with a provider.
QueuedFresh ==
  \A r \in Runs : run[r].phase = "queued" => NeverDispatched(run[r]) /\ ~run[r].recovery

\* A task is in recovery only over a run nobody knows the truth of.
DoubtReal ==
  \A t \in Tasks : task[t].state = "recovery_required" =>
    \E r \in Runs : /\ run[r].task = t
                    /\ run[r].recovery \/ run[r].outcome = "recovery_required"

\* What the refinement needs beside the invariants of records and ledgers.
PromiseInv == QueuedFresh /\ DoubtReal

\* What a command about an admitted run may make of what a parent sees of it.
PromisedMove(r, next) ==
  LET was == Seen(run[r])
      now == Seen(next)
  IN
  /\ next.phase = "queued" => next = run[r]
  /\ \/ now = was
     \/ /\ was.stage = "queued" /\ AdmitsInput(r) /\ FreeExecutor(r)
        /\ now = [was EXCEPT !.stage = "started"]
     \/ /\ was.stage = "started" /\ AdmitsInput(r)
        /\ now = [was EXCEPT !.stage = "entered"]
     \/ /\ was.stage = "queued"
        /\ now = Delegation!Ended([was EXCEPT !.canceled = TRUE], "not_dispatched")
     \/ /\ was.stage \in {"started", "entered"}
        /\ now = [was EXCEPT !.canceled = TRUE]
     \/ /\ was.stage \in {"started", "entered", "settled"}
        /\ now = [was EXCEPT !.doubt = TRUE]
     \/ \E outcome \in Outcomes :
          /\ was.stage \in {"queued", "started", "entered"}
          /\ outcome \in {"succeeded", "provider_terminal"} => was.stage = "entered"
          /\ outcome = "not_dispatched" => was.stage = "queued"
          /\ was.doubt => outcome = "recovery_required"
          /\ now = Delegation!Ended(was, outcome)

\* A step of run r commits such a move.
PromisedCommit(r) ==
  \E next, ledger : Commit(r, next, ledger) /\ PromisedMove(r, next)

\* What a parent sees, field by field.
LEMMA SeenFields ==
  ASSUME NEW rec
  PROVE  /\ Seen(rec).task = rec.task /\ Seen(rec).stage = Stage(rec.phase)
         /\ Seen(rec).canceled = rec.cancelRequested /\ Seen(rec).doubt = rec.recovery
         /\ Seen(rec).outcome = rec.outcome
BY DEF Seen

\* How the phases of a run appear.
LEMMA Stages ==
  ASSUME NEW phase \in Phases
  PROVE  /\ Stage(phase) = "absent" <=> phase = "absent"
         /\ Stage(phase) = "queued" <=> phase = "queued"
         /\ Stage(phase) = "settled" <=> phase = "settled"
         /\ Stage(phase) = "started" <=> phase = "preparing"
         /\ Stage(phase) = "entered" <=> phase \in {"running", "waiting"}
BY DEF Stage, Phases, Active

\* A move of bookkeeping shows nothing.
LEMMA UnseenMove ==
  ASSUME NEW r \in Runs, NEW next, next.task = run[r].task,
         \/ next.phase = run[r].phase
         \/ {next.phase, run[r].phase} \subseteq {"running", "waiting"},
         next.phase = "queued" => next = run[r],
         next.cancelRequested = run[r].cancelRequested, next.recovery = run[r].recovery,
         next.outcome = run[r].outcome
  PROVE  PromisedMove(r, next)
<1>1. Stage(next.phase) = Stage(run[r].phase)
  BY DEF Stage
<1>2. Seen(next) = Seen(run[r])
  BY <1>1 DEF Seen
<1> QED BY <1>2 DEF PromisedMove

\* A recorded recovery reason is all that shows of a lost truth,
LEMMA SeenDoubt ==
  ASSUME NEW rec, NEW next, NEW value, next.task = rec.task,
         Stage(next.phase) = Stage(rec.phase), next.cancelRequested = rec.cancelRequested,
         next.recovery = value, next.outcome = rec.outcome
  PROVE  Seen(next) = [Seen(rec) EXCEPT !.doubt = value]
BY DEF Seen

\* the mark is all that shows of a cancellation,
LEMMA SeenCanceled ==
  ASSUME NEW rec, NEW next, NEW value, next.task = rec.task,
         next.phase = rec.phase, next.cancelRequested = value,
         next.recovery = rec.recovery, next.outcome = rec.outcome
  PROVE  Seen(next) = [Seen(rec) EXCEPT !.canceled = value]
BY DEF Seen

\* and the outcome is what shows of an end.
LEMMA SeenEnd ==
  ASSUME NEW rec, NEW next, NEW outcome, next.task = rec.task,
         next.phase = "settled", next.cancelRequested = rec.cancelRequested,
         next.recovery = rec.recovery, next.outcome = outcome
  PROVE  Seen(next) = Delegation!Ended(Seen(rec), outcome)
<1> DEFINE seen == Seen(rec)
           ended == [seen EXCEPT !.stage = "settled"]
<1>1. Stage(next.phase) = "settled"
  BY DEF Stage
<1>2. ended = [task |-> rec.task, stage |-> "settled", canceled |-> rec.cancelRequested,
               doubt |-> rec.recovery, outcome |-> rec.outcome]
  BY DEF Seen
<1>3. [seen EXCEPT !.stage = "settled", !.outcome = outcome] = [ended EXCEPT !.outcome = outcome]
  BY Zenon DEF Seen
<1> HIDE DEF seen, ended
<1>4. [ended EXCEPT !.outcome = outcome] = Seen(next)
  BY <1>1, <1>2 DEF Seen
<1> QED BY <1>3, <1>4 DEF seen, Delegation!Ended

\* Marking a run as canceled.
LEMMA CancelMark ==
  ASSUME NEW rec \in RunRecord, NEW value
  PROVE  [rec EXCEPT !.cancelRequested = value].cancelRequested = value
BY DEF RunRecord

\* dispatchIntent shows a start, the hand-over of the turn, or nothing.
LEMMA DispatchPromised ==
  ASSUME IInv, NEW r \in Runs, Dispatch(r)
  PROVE  PromisedCommit(r)
<1> DEFINE more == run[r].operations + 1
<1>0. run[r] \in RunRecord
  BY DEF IInv, TypeOK
<1> HIDE DEF more
<1>1. CASE DispatchPrepare(r)
  <2> DEFINE next == [run[r] EXCEPT !.phase = "preparing", !.preparation = "intended",
                                    !.ownerEpoch = owner, !.operations = more]
             ledger == WithOperation(r, "prepare", "prepare", NoRequest)
  <2>1. Commit(r, next, ledger) /\ run[r].phase = "queued" /\ AdmitsInput(r) /\ FreeExecutor(r)
    BY <1>1 DEF DispatchPrepare, more
  <2>2. /\ next.phase = "preparing" /\ next.task = run[r].task /\ next.outcome = run[r].outcome
        /\ next.cancelRequested = run[r].cancelRequested /\ next.recovery = run[r].recovery
    BY <1>0 DEF RunRecord
  <2> HIDE DEF next, ledger
  <2>3. Seen(run[r]).stage = "queued" /\ Seen(next) = [Seen(run[r]) EXCEPT !.stage = "started"]
    BY <2>1, <2>2 DEF Seen, Stage
  <2>4. PromisedMove(r, next)
    BY <2>1, <2>2, <2>3 DEF PromisedMove
  <2> QED BY <2>1, <2>4 DEF PromisedCommit
<1>2. CASE DispatchTurn(r)
  <2> DEFINE next == [run[r] EXCEPT !.phase = "running", !.dispatch = "intended",
                                    !.operations = more]
             ledger == WithOperation(r, "turn", "turn", NoRequest)
  <2>1. Commit(r, next, ledger) /\ run[r].phase = "preparing" /\ AdmitsInput(r)
    BY <1>2 DEF DispatchTurn, more
  <2>2. /\ next.phase = "running" /\ next.task = run[r].task /\ next.outcome = run[r].outcome
        /\ next.cancelRequested = run[r].cancelRequested /\ next.recovery = run[r].recovery
    BY <1>0 DEF RunRecord
  <2> HIDE DEF next, ledger
  <2>3. Seen(run[r]).stage = "started" /\ Seen(next) = [Seen(run[r]) EXCEPT !.stage = "entered"]
    BY <2>1, <2>2 DEF Seen, Stage
  <2>4. PromisedMove(r, next)
    BY <2>1, <2>2, <2>3 DEF PromisedMove
  <2> QED BY <2>1, <2>4 DEF PromisedCommit
<1>3. ASSUME NEW id \in Controls, NEW kind \in {"configure", "steer"}, DispatchControl(r, id, kind)
      PROVE  PromisedCommit(r)
  <2> DEFINE next == [run[r] EXCEPT !.operations = more]
             ledger == WithOperation(r, id, kind, NoRequest)
  <2>1. Commit(r, next, ledger) /\ run[r].phase # "queued"
    BY <1>3 DEF DispatchControl, more
  <2>2. /\ next.phase = run[r].phase /\ next.task = run[r].task /\ next.outcome = run[r].outcome
        /\ next.cancelRequested = run[r].cancelRequested /\ next.recovery = run[r].recovery
    BY <1>0 DEF RunRecord
  <2> HIDE DEF next, ledger
  <2>3. PromisedMove(r, next)
    BY <2>1, <2>2, UnseenMove
  <2> QED BY <2>1, <2>3 DEF PromisedCommit
<1>4. PromisedMove(r, run[r])
  BY DEF PromisedMove
<1>5. ASSUME NEW ledger, Commit(r, run[r], ledger) PROVE PromisedCommit(r)
  BY <1>4, <1>5 DEF PromisedCommit
<1>6. CASE DispatchInterrupt(r)
  BY <1>5, <1>6 DEF DispatchInterrupt
<1>7. ASSUME NEW kind, DispatchCleanup(r, kind) \/ RetryCleanup(r, kind)
      PROVE  PromisedCommit(r)
  BY <1>5, <1>7 DEF DispatchCleanup, RetryCleanup
<1> QED BY <1>1, <1>2, <1>3, <1>6, <1>7 DEF Dispatch

\* What a receipt leaves alone in its run.
LEMMA ReceiptKeeps ==
  ASSUME NEW rec \in RunRecord, NEW prior, NEW disposition, NEW state, NEW next,
         next = ReceiptRun(rec, prior, disposition, state)
  PROVE  /\ next.task = rec.task /\ next.cancelRequested = rec.cancelRequested
         /\ prior.kind \notin {"configure", "steer", "request_resolution"}
              => next.recovery = rec.recovery
         /\ prior.kind \notin InputKinds => next = rec
<1> DEFINE lost == rec.recovery \/ disposition = "uncertain"
<1>1. CASE prior.kind = "prepare"
  <2> DEFINE value == PreparationReceipt(disposition)
  <2>1. next = [rec EXCEPT !.preparation = value]
    BY <1>1 DEF ReceiptRun
  <2> HIDE DEF value
  <2> QED BY <1>1, <2>1 DEF RunRecord, InputKinds
<1>2. CASE prior.kind = "turn"
  <2> DEFINE sent == IF disposition = "delegated" THEN "delegated" ELSE rec.dispatch
  <2>1. next = [rec EXCEPT !.dispatch = sent]
    BY <1>2 DEF ReceiptRun
  <2> HIDE DEF sent
  <2> QED BY <1>2, <2>1 DEF RunRecord, InputKinds
<1>3. CASE prior.kind \in {"steer", "configure"}
  <2>1. next = [rec EXCEPT !.recovery = lost]
    BY <1>3 DEF ReceiptRun
  <2> HIDE DEF lost
  <2> QED BY <1>3, <2>1 DEF RunRecord, InputKinds
<1>4. CASE prior.kind = "request_resolution"
  <2> DEFINE answered == ResolutionReceipt(rec, prior, disposition, state)
             doubt == answered.recovery \/ disposition = "uncertain"
  <2>1. next = [answered EXCEPT !.recovery = doubt]
    BY <1>4 DEF ReceiptRun
  <2>2. \/ answered = rec
        \/ \E value, phase : answered = [rec EXCEPT !.requestState = value, !.phase = phase]
    BY DEF ResolutionReceipt
  <2> HIDE DEF answered, doubt
  <2>3. CASE answered = rec
    BY <1>4, <2>1, <2>3 DEF RunRecord, InputKinds
  <2>4. ASSUME NEW value, NEW phase,
               answered = [rec EXCEPT !.requestState = value, !.phase = phase]
        PROVE  next.task = rec.task /\ next.cancelRequested = rec.cancelRequested
    BY <2>1, <2>4 DEF RunRecord
  <2> QED BY <1>4, <2>2, <2>3, <2>4 DEF InputKinds
<1>5. CASE prior.kind \notin {"prepare", "turn", "steer", "configure", "request_resolution"}
  <2>1. next = rec
    BY <1>5 DEF ReceiptRun
  <2> QED BY <2>1
<1> QED BY <1>1, <1>2, <1>3, <1>4, <1>5

\* operationReceipt shows a loss of truth or nothing, however late it comes.
LEMMA ReceiptPromised ==
  ASSUME IInv, LedgerInv, NEW r \in Runs, Receipt(r)
  PROVE  PromisedCommit(r)
<1>0. /\ run[r] \in RunRecord /\ RequestTruth(run[r]) /\ LedgerTruth(run[r], op[r])
      /\ op[r] \in [OpIds -> OpRecord] /\ ResolutionNamesRequest(op[r])
  BY DEF IInv, TypeOK, RequestsTrue, LedgerInv
<1>1. PICK id \in OpIds, disposition \in Dispositions, state \in {"none", "pending", "unavailable"} :
        OperationReceipt(r, id, disposition, state)
  BY DEF Receipt
<1> DEFINE prior == op[r][id]
           next == ReceiptRun(run[r], prior, disposition, state)
           ledger == [op[r] EXCEPT ![id] = [prior EXCEPT !.disposition = disposition]]
<1>2. Commit(r, next, ledger)
  BY <1>1 DEF OperationReceipt
<1>3. /\ (prior.kind = "request_resolution" /\ disposition = "rejected") <=> state # "none"
      /\ prior.kind = "request_resolution" /\ run[r].request = prior.request
           => run[r].requestState \in {"resolution_intended", "unavailable"}
      /\ prior.kind = "request_resolution" => prior.request # NoRequest
  BY <1>0, <1>1 DEF OperationReceipt, ResolutionNamesRequest
<1>4. prior.kind \in InputKinds => run[r].phase \notin {"absent", "queued"}
  BY <1>0 DEF LedgerTruth, InputsOwned
<1>5. ReceiptMove(run[r], prior, disposition, next)
  <2> HIDE DEF prior
  <2> QED BY <1>0, <1>3, ReceiptMoves
<1>6. /\ next.task = run[r].task /\ next.cancelRequested = run[r].cancelRequested
      /\ prior.kind \notin {"configure", "steer", "request_resolution"}
           => next.recovery = run[r].recovery
      /\ prior.kind \notin InputKinds => next = run[r]
  <2> HIDE DEF prior
  <2> QED BY <1>0, ReceiptKeeps
<1>7. next.recovery \in BOOLEAN /\ run[r].recovery \in BOOLEAN /\ run[r].phase \in Phases
  <2>1. PICK n \in RunRecord, l \in [OpIds -> OpRecord] : Commit(r, n, l)
    BY ReceiptLegal DEF LegalCommit
  <2>2. n = next
    BY <1>2, <2>1 DEF Commit, IInv, TypeOK
  <2> HIDE DEF next
  <2> QED BY <1>0, <2>1, <2>2 DEF RunRecord
<1> HIDE DEF next, ledger, prior
<1>8. next.phase = "queued" => next = run[r]
  BY <1>4, <1>5, <1>6 DEF ReceiptMove
<1>9. CASE next.recovery = run[r].recovery
  <2>1. PromisedMove(r, next)
    BY <1>5, <1>6, <1>8, <1>9, UnseenMove DEF ReceiptMove
  <2> QED BY <1>2, <2>1 DEF PromisedCommit
<1>10. CASE next.recovery # run[r].recovery
  <2>1. next.recovery = TRUE /\ run[r].phase \notin {"absent", "queued"}
    BY <1>4, <1>5, <1>6, <1>7, <1>10 DEF ReceiptMove, InputKinds
  <2>2. Stage(next.phase) = Stage(run[r].phase)
    BY <1>5 DEF ReceiptMove, Stage
  <2>3. Stage(run[r].phase) \in {"started", "entered", "settled"}
    BY <1>7, <2>1 DEF Stage, Phases, Active
  <2>4. Seen(next) = [Seen(run[r]) EXCEPT !.doubt = TRUE]
    <3>1. next.outcome = run[r].outcome
      BY <1>5 DEF ReceiptMove
    <3> QED BY <1>6, <2>1, <2>2, <3>1, SeenDoubt
  <2>5. PromisedMove(r, next)
    BY <1>8, <2>3, <2>4, SeenFields DEF PromisedMove
  <2> QED BY <1>2, <2>5 DEF PromisedCommit
<1> QED BY <1>9, <1>10

\* requestState shows nothing: the turn stays handed over while its run waits.
LEMMA RequestPromised ==
  ASSUME IInv, NEW r \in Runs, Request(r)
  PROVE  PromisedCommit(r)
<1> DEFINE more == run[r].operations + 1
<1>0. run[r] \in RunRecord /\ RequestTruth(run[r])
  BY DEF IInv, TypeOK, RequestsTrue
<1> HIDE DEF more
<1>1. ASSUME NEW request \in Requests, RequestOpened(r, request)
      PROVE  PromisedCommit(r)
  <2> DEFINE next == [run[r] EXCEPT !.phase = "waiting", !.request = request,
                                    !.requestState = "waiting"]
  <2>1. Commit(r, next, op[r]) /\ run[r].phase = "running"
    BY <1>1 DEF RequestOpened
  <2>2. /\ next.phase = "waiting" /\ next.task = run[r].task /\ next.outcome = run[r].outcome
        /\ next.cancelRequested = run[r].cancelRequested /\ next.recovery = run[r].recovery
    BY <1>0 DEF RunRecord
  <2> HIDE DEF next
  <2>3. PromisedMove(r, next)
    BY <2>1, <2>2, UnseenMove
  <2> QED BY <2>1, <2>3 DEF PromisedCommit
<1>2. ASSUME NEW id \in Controls, ResolutionIntended(r, id)
      PROVE  PromisedCommit(r)
  <2> DEFINE next == [run[r] EXCEPT !.phase = "running", !.requestState = "resolution_intended",
                                    !.operations = more]
             ledger == WithOperation(r, id, "request_resolution", run[r].request)
  <2>1. Commit(r, next, ledger) /\ run[r].phase = "waiting"
    BY <1>2 DEF ResolutionIntended, more
  <2>2. /\ next.phase = "running" /\ next.task = run[r].task /\ next.outcome = run[r].outcome
        /\ next.cancelRequested = run[r].cancelRequested /\ next.recovery = run[r].recovery
    BY <1>0 DEF RunRecord
  <2> HIDE DEF next, ledger
  <2>3. PromisedMove(r, next)
    BY <2>1, <2>2, UnseenMove
  <2> QED BY <2>1, <2>3 DEF PromisedCommit
<1>3. CASE RequestResolved(r)
  <2> DEFINE next == [run[r] EXCEPT !.requestState = "resolved"]
  <2>1. Commit(r, next, op[r]) /\ run[r].request # NoRequest
    BY <1>3 DEF RequestResolved
  <2>2. /\ next.phase = run[r].phase /\ next.task = run[r].task /\ next.outcome = run[r].outcome
        /\ next.cancelRequested = run[r].cancelRequested /\ next.recovery = run[r].recovery
    BY <1>0 DEF RunRecord
  <2> HIDE DEF next
  <2>3. PromisedMove(r, next)
    BY <1>0, <2>1, <2>2, UnseenMove DEF RequestTruth
  <2> QED BY <2>1, <2>3 DEF PromisedCommit
<1>4. CASE RequestUnavailable(r)
  <2> DEFINE phase == IF run[r].phase = "waiting" THEN "running" ELSE run[r].phase
             next == [run[r] EXCEPT !.requestState = "unavailable", !.phase = phase]
  <2>1. Commit(r, next, op[r]) /\ run[r].request # NoRequest
    BY <1>4 DEF RequestUnavailable
  <2>2. phase = run[r].phase \/ {phase, run[r].phase} \subseteq {"running", "waiting"}
    OBVIOUS
  <2> HIDE DEF phase
  <2>3. /\ next.phase = phase /\ next.task = run[r].task /\ next.outcome = run[r].outcome
        /\ next.cancelRequested = run[r].cancelRequested /\ next.recovery = run[r].recovery
    BY <1>0 DEF RunRecord
  <2> HIDE DEF next
  <2>4. PromisedMove(r, next)
    BY <1>0, <2>1, <2>2, <2>3, UnseenMove DEF RequestTruth
  <2> QED BY <2>1, <2>4 DEF PromisedCommit
<1> QED BY <1>1, <1>2, <1>3, <1>4 DEF Request

\* settleRun, as a parent sees it.
LEMMA SettledSeen ==
  ASSUME NEW rec \in RunRecord, NEW requested
  PROVE  LET outcome == IF rec.recovery THEN "recovery_required" ELSE requested IN
         /\ Settled(rec, requested).phase = "settled"
         /\ Seen(Settled(rec, requested)) = Delegation!Ended(Seen(rec), outcome)
<1> DEFINE state == IF rec.request = NoRequest THEN rec.requestState ELSE "unavailable"
           outcome == IF rec.recovery THEN "recovery_required" ELSE requested
           next == Settled(rec, requested)
<1>1. next = [rec EXCEPT !.phase = "settled", !.outcome = outcome, !.requestState = state]
  BY DEF Settled
<1> HIDE DEF state, next, outcome
<1>2. /\ next.phase = "settled" /\ next.outcome = outcome /\ next.task = rec.task
      /\ next.cancelRequested = rec.cancelRequested /\ next.recovery = rec.recovery
  BY <1>1 DEF RunRecord
<1>3. Seen(next) = Delegation!Ended(Seen(rec), outcome)
  BY <1>2, SeenEnd
<1> QED BY <1>2, <1>3 DEF next, outcome

\* cancelRun and settle show the cancellation or the end they commit.
LEMMA FinishPromised ==
  ASSUME IInv, QueuedFresh, NEW r \in Runs, Finish(r)
  PROVE  PromisedCommit(r)
<1>0. /\ run[r] \in RunRecord /\ run[r].phase \in Phases
      /\ run[r].phase = "settled" <=> run[r].outcome # "none"
  BY DEF IInv, TypeOK, RunRecord, SettledHasOutcome
<1>1. CASE CancelRun(r)
  <2> DEFINE canceled == [run[r] EXCEPT !.cancelRequested = TRUE]
             ledger == WithOperation(r, "cancel", "cancel", NoRequest)
             settled == Settled(canceled, "not_dispatched")
             next == IF run[r].phase = "settled" THEN run[r]
                     ELSE IF NeverDispatched(run[r]) THEN settled ELSE canceled
  <2>1. Commit(r, next, ledger) /\ run[r].phase # "absent"
    BY <1>1 DEF CancelRun, Admitted
  <2>2. /\ canceled \in RunRecord /\ canceled.phase = run[r].phase
        /\ canceled.recovery = run[r].recovery
        /\ Seen(canceled) = [Seen(run[r]) EXCEPT !.canceled = TRUE]
    <3>1. /\ canceled \in RunRecord /\ canceled.phase = run[r].phase
          /\ canceled.recovery = run[r].recovery /\ canceled.outcome = run[r].outcome
          /\ canceled.task = run[r].task
      BY <1>0 DEF RunRecord
    <3>2. canceled.cancelRequested = TRUE
      BY <1>0, CancelMark
    <3>3. Seen(canceled) = [Seen(run[r]) EXCEPT !.canceled = TRUE]
      <4> HIDE DEF canceled
      <4> QED BY <3>1, <3>2, SeenCanceled
    <3> QED BY <3>1, <3>3
  <2> HIDE DEF canceled, ledger
  <2>3. CASE run[r].phase = "settled"
    <3>1. next = run[r] /\ PromisedMove(r, run[r])
      BY <2>3 DEF PromisedMove
    <3> QED BY <2>1, <3>1 DEF PromisedCommit
  <2>4. CASE run[r].phase = "queued"
    <3>1. next = settled /\ ~run[r].recovery
      BY <2>4 DEF QueuedFresh
    <3>2. settled.phase = "settled"
          /\ Seen(settled) = Delegation!Ended(Seen(canceled), "not_dispatched")
      BY <2>2, <3>1, SettledSeen
    <3>3. Seen(run[r]).stage = "queued"
      BY <2>4 DEF Seen, Stage
    <3> HIDE DEF settled, next
    <3>4. PromisedMove(r, settled)
      BY <2>2, <3>2, <3>3 DEF PromisedMove
    <3> QED BY <2>1, <3>1, <3>4 DEF PromisedCommit
  <2>5. CASE run[r].phase \in Active
    <3>1. next = canceled
      BY <2>5 DEF NeverDispatched, Active
    <3>2. Seen(run[r]).stage \in {"started", "entered"} /\ canceled.phase # "queued"
      BY <2>2, <2>5 DEF Seen, Stage, Active
    <3> HIDE DEF next
    <3>3. PromisedMove(r, canceled)
      BY <2>2, <3>2 DEF PromisedMove
    <3> QED BY <2>1, <3>1, <3>3 DEF PromisedCommit
  <2> QED BY <1>0, <2>1, <2>3, <2>4, <2>5 DEF Phases
<1>2. ASSUME NEW requested \in Outcomes, Settle(r, requested)
      PROVE  PromisedCommit(r)
  <2> DEFINE next == Settled(run[r], requested)
             outcome == IF run[r].recovery THEN "recovery_required" ELSE requested
  <2>1. /\ Commit(r, next, op[r]) /\ run[r].phase \notin {"absent", "settled"}
        /\ requested \in {"succeeded", "provider_terminal"} => run[r].phase \in {"running", "waiting"}
        /\ requested = "not_dispatched" => run[r].phase = "queued"
    BY <1>0, <1>2 DEF Settle, Admitted, MaySettle, NeverDispatched
  <2>2. /\ next.phase = "settled"
        /\ Seen(next) = Delegation!Ended(Seen(run[r]), outcome)
    BY <1>0, SettledSeen
  <2>3. /\ outcome \in Outcomes
        /\ outcome \in {"succeeded", "provider_terminal"} => run[r].phase \in {"running", "waiting"}
        /\ outcome = "not_dispatched" => run[r].phase = "queued"
        /\ run[r].recovery => outcome = "recovery_required"
    BY <2>1 DEF Outcomes
  <2> HIDE DEF next, outcome
  <2>4. /\ Seen(run[r]).stage \in {"queued", "started", "entered"}
        /\ run[r].phase \in {"running", "waiting"} => Seen(run[r]).stage = "entered"
        /\ run[r].phase = "queued" => Seen(run[r]).stage = "queued"
    BY <1>0, <2>1, SeenFields DEF Stage, Phases, Active
  <2>5. Seen(run[r]).doubt => outcome = "recovery_required"
    BY <2>3, SeenFields
  <2>6. PromisedMove(r, next)
    BY <2>2, <2>3, <2>4, <2>5 DEF PromisedMove
  <2> QED BY <2>1, <2>6 DEF PromisedCommit
<1> QED BY <1>1, <1>2 DEF Finish

\* Every command about an admitted run commits a move the contract knows.
LEMMA CommandPromised ==
  ASSUME IInv, LedgerInv, PromiseInv, NEW r \in Runs,
         Dispatch(r) \/ Receipt(r) \/ Request(r) \/ Finish(r)
  PROVE  PromisedCommit(r)
BY DispatchPromised, ReceiptPromised, RequestPromised, FinishPromised DEF PromiseInv

\* While the task takes input, everything its runs have done is known.
LEMMA InputUsable ==
  ASSUME IInv, LedgerInv, NEW t \in Tasks,
         task[t].state \notin {"retired", "recovery_required"}
  PROVE  Delegation!Usable(t)
<1>1. \A s \in Runs : run[s].task = t => ~run[s].recovery /\ run[s].outcome # "recovery_required"
  BY DEF LedgerInv, DoubtKnown
<1>2. \A s \in Runs : run[s].task = t =>
        ~Seen(run[s]).doubt /\ Seen(run[s]).outcome # "recovery_required"
  BY <1>1, SeenFields
<1>3. \A s \in Runs : Seen(run[s]).task = run[s].task
  BY SeenFields
<1> QED BY <1>2, <1>3 DEF Delegation!Usable, Delegation!Of, Delegation!Lost

\* A run that leaves the queue for a free executor has only ended runs before it.
LEMMA OthersEnded ==
  ASSUME IInv, NEW r \in Runs, run[r].phase = "queued", FreeExecutor(r),
         NEW s \in Runs, s # r, run[s].task = run[r].task
  PROVE  run[s].phase = "settled"
<1>1. run[r] \in RunRecord /\ run[s] \in RunRecord /\ run[r].task # NoTask
  BY DEF IInv, TypeOK, Traces
<1>2. run[r].task \in Tasks /\ run[s].phase \in Phases
  BY <1>1 DEF RunRecord
<1>3. run[s].phase # "absent"
  BY <1>1 DEF IInv, Traces
<1>4. run[s].phase \notin Active
  BY DEF FreeExecutor, RunsOf
<1>5. run[s].phase # "queued"
  BY <1>1, <1>2 DEF IInv, Ordinals, Exclusive
<1> QED BY <1>2, <1>3, <1>4, <1>5 DEF Phases

\* Such a commit is a step of the contract, and it keeps what the steps need.
LEMMA CommitPromised ==
  ASSUME IInv, LedgerInv, PromiseInv, NEW r \in Runs, PromisedCommit(r), LegalCommit(r)
  PROVE  /\ PromiseInv'
         /\ [Delegation!ContractNext]_(Delegation!contractVars)
<1>1. PICK next, ledger : Commit(r, next, ledger) /\ PromisedMove(r, next)
  BY DEF PromisedCommit
<1> DEFINE t == next.task
           state == DerivedState(t, run')
           was == Seen(run[r])
           now == Seen(next)
           work == [s \in Runs |-> Seen(run[s])]
<1>2. run'[r] = next /\ \A s \in Runs : s # r => run'[s] = run[s]
  BY <1>1 DEF Commit, IInv, TypeOK
<1>3. t = run[r].task /\ t \in Tasks /\ run[r].phase \in Phases
  <2>1. PICK n \in RunRecord, l \in [OpIds -> OpRecord] : LegalStep(r, n) /\ Commit(r, n, l)
    BY DEF LegalCommit
  <2>2. n = next
    BY <1>1, <2>1 DEF Commit, IInv, TypeOK
  <2>3. run[r] \in RunRecord
    BY DEF IInv, TypeOK
  <2> QED BY <2>1, <2>2, <2>3 DEF LegalStep, IInv, Traces, RunRecord
<1>4. task'[t].state = state /\ \A u \in Tasks : u # t => task'[u] = task[u]
  <2>1. task' = [task EXCEPT ![t].state = state] /\ task \in [Tasks -> TaskRecord]
    BY <1>1, TypeParts DEF Commit, IInv
  <2> HIDE DEF state, t
  <2> QED BY <1>3, <2>1 DEF TaskRecord
<1>5. /\ state = "retired" <=> task[t].state = "retired"
      /\ state = "recovery_required" =>
           \E s \in Runs : /\ run'[s].task = t
                           /\ run'[s].recovery \/ run'[s].outcome = "recovery_required"
  BY DEF DerivedState
<1> HIDE DEF state
<1>6. {u \in Tasks : task'[u].state = "retired"} = {u \in Tasks : task[u].state = "retired"}
  BY <1>3, <1>4, <1>5
<1>7. QueuedFresh'
  <2> SUFFICES ASSUME NEW s \in Runs, run'[s].phase = "queued"
               PROVE  NeverDispatched(run'[s]) /\ ~run'[s].recovery
    BY DEF QueuedFresh, NeverDispatched
  <2>1. run'[s] = run[s]
    BY <1>1, <1>2 DEF PromisedMove
  <2> QED BY <2>1 DEF PromiseInv, QueuedFresh
<1>8. DoubtReal'
  <2> SUFFICES ASSUME NEW u \in Tasks, task'[u].state = "recovery_required"
               PROVE  \E s \in Runs : /\ run'[s].task = u
                                      /\ run'[s].recovery \/ run'[s].outcome = "recovery_required"
    BY DEF DoubtReal
  <2>1. CASE u = t
    BY <1>4, <1>5, <2>1
  <2>2. CASE u # t
    <3>1. PICK s \in Runs : /\ run[s].task = u
                            /\ run[s].recovery \/ run[s].outcome = "recovery_required"
      BY <1>4, <2>2 DEF PromiseInv, DoubtReal
    <3>2. run'[s] = run[s]
      BY <1>2, <1>3, <2>2, <3>1
    <3> QED BY <3>1, <3>2
  <2> QED BY <2>1, <2>2
<1> HIDE DEF t
<1>9. [s \in Runs |-> Seen(run'[s])] = [work EXCEPT ![r] = now]
  BY <1>2
<1>10. /\ work[r] = was /\ was.task = t
       /\ \A s \in Runs : work[s] = Seen(run[s]) /\ work[s].task = run[s].task
  BY <1>3, SeenFields
<1>11. AdmitsInput(r) => Delegation!Usable(t)
  BY <1>3, InputUsable DEF AdmitsInput
<1> HIDE DEF now
<1>12. CASE now = was
  <2>1. [s \in Runs |-> Seen(run'[s])] = work
    BY <1>9, <1>10, <1>12
  <2>2. UNCHANGED Delegation!contractVars
    BY <1>6, <2>1 DEF Delegation!contractVars
  <2> QED BY <1>7, <1>8, <2>2 DEF PromiseInv
<1>13. CASE /\ was.stage = "queued" /\ AdmitsInput(r) /\ FreeExecutor(r)
            /\ now = [was EXCEPT !.stage = "started"]
  <2>1. run[r].phase = "queued"
    BY <1>3, <1>13, SeenFields, Stages
  <2>2. ASSUME NEW s \in Runs, run[s].task = t, s # r PROVE Seen(run[s]).stage = "settled"
    BY <1>3, <1>13, <2>1, <2>2, OthersEnded, SeenFields DEF Stage
  <2>3. Delegation!Start(r)
    BY <1>6, <1>9, <1>10, <1>11, <1>13, <2>2 DEF Delegation!Start, Delegation!Of
  <2> QED BY <1>7, <1>8, <2>3 DEF PromiseInv, Delegation!ContractNext
<1>14. CASE /\ was.stage = "started" /\ AdmitsInput(r)
            /\ now = [was EXCEPT !.stage = "entered"]
  <2>1. ~was.canceled
    BY <1>14, SeenFields DEF AdmitsInput
  <2>2. Delegation!Enter(r)
    BY <1>6, <1>9, <1>10, <1>11, <1>14, <2>1 DEF Delegation!Enter
  <2> QED BY <1>7, <1>8, <2>2 DEF PromiseInv, Delegation!ContractNext
<1>15. CASE /\ was.stage = "queued"
            /\ now = Delegation!Ended([was EXCEPT !.canceled = TRUE], "not_dispatched")
  <2>1. Delegation!Cancel(r)
    BY <1>6, <1>9, <1>10, <1>15 DEF Delegation!Cancel
  <2> QED BY <1>7, <1>8, <2>1 DEF PromiseInv, Delegation!ContractNext
<1>16. CASE /\ was.stage \in {"started", "entered"}
            /\ now = [was EXCEPT !.canceled = TRUE]
  <2>1. Delegation!Cancel(r)
    BY <1>6, <1>9, <1>10, <1>16 DEF Delegation!Cancel
  <2> QED BY <1>7, <1>8, <2>1 DEF PromiseInv, Delegation!ContractNext
<1>17. CASE /\ was.stage \in {"started", "entered", "settled"}
            /\ now = [was EXCEPT !.doubt = TRUE]
  <2>1. Delegation!Lose(r)
    BY <1>6, <1>9, <1>10, <1>17 DEF Delegation!Lose
  <2> QED BY <1>7, <1>8, <2>1 DEF PromiseInv, Delegation!ContractNext
<1>18. ASSUME NEW outcome \in Outcomes,
              was.stage \in {"queued", "started", "entered"},
              outcome \in {"succeeded", "provider_terminal"} => was.stage = "entered",
              outcome = "not_dispatched" => was.stage = "queued",
              was.doubt => outcome = "recovery_required",
              now = Delegation!Ended(was, outcome)
       PROVE  [Delegation!ContractNext]_(Delegation!contractVars)
  <2>1. Delegation!Settle(r, outcome)
    BY <1>6, <1>9, <1>10, <1>18 DEF Delegation!Settle
  <2> QED BY <2>1 DEF Delegation!ContractNext, Outcomes
<1>19. PromiseInv'
  BY <1>7, <1>8 DEF PromiseInv
<1>20. PromisedMove(r, next)
  BY <1>1
<1> QED BY <1>12, <1>13, <1>14, <1>15, <1>16, <1>17, <1>18, <1>19, <1>20 DEF PromisedMove, now

\* Admission finds the task usable and nothing of it waiting.
LEMMA AdmitUsable ==
  ASSUME IInv, LedgerInv, NEW t \in Tasks, NEW r \in Runs,
         \/ AdmitTask(t, r)
         \/ \E mode \in {"next_turn", "follow_up"} : AdmitContinuation(t, r, mode)
  PROVE  /\ AdmitRun(t, r) /\ Delegation!Usable(t)
         /\ \A s \in Runs : run[s].task = t => run[s].phase # "queued"
<1>1. CASE AdmitTask(t, r)
  <2>1. ASSUME NEW s \in Runs, run[s].task = t PROVE FALSE
    <3>1. task[t].runCount = 0
      BY <1>1 DEF AdmitTask, IInv, Ordinals
    <3> QED BY <2>1, <3>1 DEF IInv, Ordinals
  <2>2. Delegation!Usable(t)
    BY <1>1, InputUsable DEF AdmitTask
  <2> QED BY <1>1, <2>1, <2>2 DEF AdmitTask
<1>2. CASE \E mode \in {"next_turn", "follow_up"} : AdmitContinuation(t, r, mode)
  <2>1. /\ AdmitRun(t, r) /\ task[t].state \notin {"retired", "recovery_required"}
        /\ \A s \in RunsOf(t) : run[s].phase # "queued"
    BY <1>2 DEF AdmitContinuation
  <2>2. Delegation!Usable(t)
    BY <2>1, InputUsable
  <2> QED BY <2>1, <2>2 DEF RunsOf
<1> QED BY <1>1, <1>2

\* An admission is one of the contract.
LEMMA AdmitPromised ==
  ASSUME IInv, LedgerInv, PromiseInv, NEW t \in Tasks, NEW r \in Runs,
         AdmitRun(t, r), Delegation!Usable(t),
         \A s \in Runs : run[s].task = t => run[s].phase # "queued"
  PROVE  PromiseInv' /\ Delegation!ContractNext
<1> DEFINE ordinal == task[t].runCount + 1
           next == [BlankRun EXCEPT !.task = t, !.ordinal = ordinal,
                                    !.ownerEpoch = owner, !.phase = "queued", !.operations = 1]
           state == DerivedState(t, run')
           work == [s \in Runs |-> Seen(run[s])]
<1>1. /\ run[r].phase = "absent" /\ run[r] = BlankRun /\ task \in [Tasks -> TaskRecord]
  BY TypeParts DEF AdmitRun, Admitted, LedgerInv, Untouched, IInv
<1>2. /\ run'[r] = next /\ \A s \in Runs : s # r => run'[s] = run[s]
      /\ task' = [task EXCEPT ![t] = [state |-> state, runCount |-> ordinal]]
  BY <1>1 DEF AdmitRun, IInv, TypeOK
<1>3. /\ state = "retired" <=> task[t].state = "retired"
      /\ state = "recovery_required" =>
           \E s \in Runs : /\ run'[s].task = t
                           /\ run'[s].recovery \/ run'[s].outcome = "recovery_required"
  BY DEF DerivedState
<1> HIDE DEF ordinal, state
<1>4. /\ next.task = t /\ next.phase = "queued" /\ next.outcome = "none"
      /\ next.preparation = "none" /\ next.dispatch = "none" /\ next.recovery = FALSE
      /\ next.cancelRequested = FALSE
  BY DEF BlankRun
<1>5. BlankRun.task = NoTask /\ BlankRun.recovery = FALSE /\ BlankRun.outcome = "none"
  BY DEF BlankRun
<1> HIDE DEF next
<1>6. task'[t].state = state /\ \A u \in Tasks : u # t => task'[u] = task[u]
  BY <1>1, <1>2
<1>7. QueuedFresh'
  <2> SUFFICES ASSUME NEW s \in Runs, run'[s].phase = "queued"
               PROVE  NeverDispatched(run'[s]) /\ ~run'[s].recovery
    BY DEF QueuedFresh, NeverDispatched
  <2>1. CASE s = r
    BY <1>2, <1>4, <2>1 DEF NeverDispatched
  <2>2. CASE s # r
    <3>1. run'[s] = run[s]
      BY <1>2, <2>2
    <3> QED BY <3>1 DEF PromiseInv, QueuedFresh
  <2> QED BY <2>1, <2>2
<1>8. DoubtReal'
  <2> SUFFICES ASSUME NEW u \in Tasks, task'[u].state = "recovery_required"
               PROVE  \E s \in Runs : /\ run'[s].task = u
                                      /\ run'[s].recovery \/ run'[s].outcome = "recovery_required"
    BY DEF DoubtReal
  <2>1. CASE u = t
    BY <1>3, <1>6, <2>1
  <2>2. CASE u # t
    <3>1. PICK s \in Runs : /\ run[s].task = u
                            /\ run[s].recovery \/ run[s].outcome = "recovery_required"
      BY <1>6, <2>2 DEF PromiseInv, DoubtReal
    <3>2. s # r
      BY <1>1, <1>5, <3>1
    <3> QED BY <1>2, <3>1, <3>2
  <2> QED BY <2>1, <2>2
<1>9. Seen(next) = Delegation!Fresh(t, "queued")
  <2>1. Stage(next.phase) = "queued"
    BY <1>4 DEF Stage
  <2> QED BY <1>4, <2>1, Zenon DEF Seen, Delegation!Fresh
<1>10. [s \in Runs |-> Seen(run'[s])] = [work EXCEPT ![r] = Seen(next)]
  BY <1>2
<1>11. {u \in Tasks : task'[u].state = "retired"} = {u \in Tasks : task[u].state = "retired"}
  BY <1>3, <1>6
<1>12. /\ work[r].stage = "absent"
       /\ \A s \in Runs : work[s].task = t => work[s].stage # "queued"
  <2>1. \A s \in Runs : run[s].phase \in Phases
    BY DEF IInv, TypeOK, RunRecord
  <2>2. \A s \in Runs : run[s].phase # "queued" => Stage(run[s].phase) # "queued"
    BY <2>1, Stages
  <2>3. Stage(run[r].phase) = "absent"
    BY <1>1 DEF Stage
  <2>4. \A s \in Runs : work[s].task = run[s].task /\ work[s].stage = Stage(run[s].phase)
    BY SeenFields
  <2> QED BY <2>2, <2>3, <2>4
<1>13. Delegation!Admit(t, r)
  BY <1>9, <1>10, <1>11, <1>12 DEF Delegation!Admit, Delegation!Of
<1> QED BY <1>7, <1>8, <1>13 DEF PromiseInv, Delegation!ContractNext

\* A retirement is one of the contract: the task really has lost its truth.
LEMMA RetirePromised ==
  ASSUME IInv, PromiseInv, NEW t \in Tasks, RetireRecovery(t)
  PROVE  PromiseInv' /\ Delegation!ContractNext
<1>1. run' = run /\ task[t].state = "recovery_required"
      /\ \A s \in Runs : run[s].task = t => run[s].phase = "settled"
  BY DEF RetireRecovery, RunsOf
<1>2. task'[t].state = "retired" /\ \A u \in Tasks : u # t => task'[u] = task[u]
  <2>1. task \in [Tasks -> TaskRecord]
    BY TypeParts DEF IInv
  <2> QED BY <2>1 DEF RetireRecovery, TaskRecord
<1>3. PromiseInv'
  BY <1>1, <1>2 DEF PromiseInv, QueuedFresh, NeverDispatched, DoubtReal
<1>4. \A s \in Runs : Seen(run'[s]) = Seen(run[s])
  BY <1>1
<1>5. {u \in Tasks : task'[u].state = "retired"}
        = {u \in Tasks : task[u].state = "retired"} \cup {t}
  BY <1>2
<1>6. PICK s \in Runs : /\ run[s].task = t
                        /\ run[s].recovery \/ run[s].outcome = "recovery_required"
  BY <1>1 DEF PromiseInv, DoubtReal
<1>7. \A u \in Runs : run[u].task = t => Seen(run[u]).stage = "settled"
  BY <1>1, SeenFields DEF Stage
<1>8. \A u \in Runs : Seen(run[u]).task = run[u].task
  BY SeenFields
<1>9. Seen(run[s]).doubt \/ Seen(run[s]).outcome = "recovery_required"
  BY <1>6, SeenFields
<1>10. Delegation!Retire(t)
  BY <1>1, <1>4, <1>5, <1>6, <1>7, <1>8, <1>9 DEF Delegation!Retire, Delegation!Of, Delegation!Lost
<1> QED BY <1>3, <1>10 DEF Delegation!ContractNext

\* Every step of the store is a step of the contract or shows nothing.
LEMMA StepsOfThePromise ==
  ASSUME IInv, LedgerInv, PromiseInv, [Next]_vars
  PROVE  PromiseInv' /\ [Delegation!ContractNext]_(Delegation!contractVars)
<1>1. CASE run' = run /\ task' = task
  <2>1. PromiseInv'
    BY <1>1 DEF PromiseInv, QueuedFresh, NeverDispatched, DoubtReal
  <2>2. UNCHANGED Delegation!contractVars
    BY <1>1 DEF Delegation!contractVars
  <2> QED BY <2>1, <2>2
<1>2. CASE Admit
  <2>1. PICK t \in Tasks, r \in Runs :
          \/ AdmitTask(t, r)
          \/ \E mode \in {"next_turn", "follow_up"} : AdmitContinuation(t, r, mode)
    BY <1>2 DEF Admit
  <2> QED BY <2>1, AdmitUsable, AdmitPromised
<1>3. ASSUME NEW r \in Runs, Dispatch(r) \/ Receipt(r) \/ Request(r) \/ Finish(r)
      PROVE  PromiseInv' /\ [Delegation!ContractNext]_(Delegation!contractVars)
  BY <1>3, CommandPromised, CommandTrue, CommitPromised
<1>4. ASSUME NEW t \in Tasks, RetireRecovery(t)
      PROVE  PromiseInv' /\ [Delegation!ContractNext]_(Delegation!contractVars)
  BY <1>4, RetirePromised
<1>5. CASE AcquireOwner \/ ReleaseOwner \/ UNCHANGED vars
  BY <1>1, <1>5 DEF AcquireOwner, ReleaseOwner, vars
<1> QED BY <1>2, <1>3, <1>4, <1>5 DEF Next

\* The empty store is the empty contract.
LEMMA InitPromised == Init => PromiseInv /\ Delegation!ContractInit
<1> SUFFICES ASSUME Init PROVE PromiseInv /\ Delegation!ContractInit
  OBVIOUS
<1>1. \A r \in Runs : run[r] = BlankRun
  BY DEF Init
<1>2. Seen(BlankRun) = Delegation!Fresh(NoTask, "absent")
  BY DEF Seen, Stage, BlankRun, Delegation!Fresh
<1>3. BlankRun.phase = "absent"
  BY DEF BlankRun
<1>4. \A t \in Tasks : task[t].state = "absent"
  BY DEF Init
<1>5. PromiseInv
  BY <1>1, <1>3, <1>4 DEF PromiseInv, QueuedFresh, DoubtReal
<1>6. Delegation!ContractInit
  BY <1>1, <1>2, <1>4 DEF Delegation!ContractInit
<1> QED BY <1>5, <1>6

\* The store keeps what delegation promises of its runs (RunContract): they start one
\* after the other, end once and truthfully, and a task whose truth is lost does
\* nothing more, for every order of commands, late receipts and owners.
THEOREM StoreKeepsPromise == Spec => RunPromise
<1>1. IInv /\ LedgerInv /\ PromiseInv /\ [Next]_vars
        => PromiseInv' /\ [Delegation!ContractNext]_(Delegation!contractVars)
  BY StepsOfThePromise
<1> QED BY <1>1, InitPromised, StoreInvariant, LedgerInvariant, PTL
        DEF Spec, RunPromise, Delegation!ContractSpec

================================================================================
