-------------------------- MODULE AgentSessionProofs --------------------------
(***************************************************************************)
(* Facts about AgentSession for any number of requests, interruptions,     *)
(* invocations, turns and failures: requests are presented one at a time,  *)
(* none is left behind and none is replayed; executions do not overlap;    *)
(* the host's binding is released last; and nothing enters the provider    *)
(* after doubt.                                                            *)
(***************************************************************************)
EXTENDS AgentSession, TurnRequestsProofs

\* Nothing enters the provider after doubt or once the session was stopped; before it is open
\* there is nothing to enter.
FenceTrue ==
  /\ doubt \/ session.stopped => session.unusable
  /\ session.stopped => binding.stopped /\ exec.kind \notin {"reserved", "entered"}
  /\ session.phase # "open" => exec.kind = "none" /\ session.operation = "none"

\* Who has the slot has the provider.
SlotTrue ==
  /\ exec.kind \in {"reserved", "entered"} => session.slot = "turn"
  /\ session.slot = "turn" => exec.kind \in {"reserved", "entered", "stopped"}
  /\ session.slot # "turn" \/ exec.kind = "reserved" => TurnQuiet
  /\ session.operation = "running" <=> session.slot = "operation"
  /\ exec.pull # "idle" => exec.kind = "entered"
  /\ exec.kind = "entered" => (exec.native <=> exec.pull = "native")

\* What the requests of an execution are, by its state.
RequestsTrue ==
  /\ exec.kind \in {"none", "reserved"} => exec = NewExecution(exec.kind)
  /\ exec.kind \in {"settled", "stopped"} => \A q \in Requests : exec.requests.kind[q] = "retired"
  /\ exec.kind = "entered" =>
       /\ OnePending(exec.requests)
       /\ Running(exec) => Served(exec.requests)
       /\ \A q \in Requests :
            /\ exec.requests.suspensions[q] \subseteq calls.interrupts
            /\ exec.requests.kind[q] = "unopened" => exec.requests.suspensions[q] = {}
            /\ q > session.identities => exec.requests.kind[q] = "unopened"

\* What a close has found over stays over.
CloseTrue ==
  /\ close.pc # "idle" \/ binding.released => session.stopped
  /\ close.pc \in {"join", "return", "operations", "drain", "release"} \/ binding.released
       => close.providerClosed
  /\ exec.kind = "none" => ~close.turn
  /\ close.pc = "return" => close.turn
  /\ close.pc # "idle" /\ ~close.turn => TurnQuiet
  /\ exec.joined => session.stopped /\ TurnQuiet
  /\ close.pc \in {"return", "operations", "drain", "release"} \/ binding.released => TurnQuiet
  /\ close.pc \in {"drain", "release"} \/ binding.released => session.operation = "none"
  /\ close.pc = "release" \/ binding.released => Active = {}

\* The inductive invariant of a session.
SessionInv ==
  SessionTypeOK /\ FenceTrue /\ SlotTrue /\ RequestsTrue /\ NoReplay /\ CloseTrue



\* The failures of a cleanup are counted.
LEMMA FailuresFit ==
  ASSUME NEW c \in CloseRecord, c.failures < MaxFailures
  PROVE  c.failures + 1 \in 0..MaxFailures
BY SessionAssumption DEF CloseRecord

\* A step of a close that fails.
LEMMA FailsFacts ==
  ASSUME close \in CloseRecord, Fails
  PROVE  /\ close' \in CloseRecord /\ close'.pc = "idle"
         /\ close'.turn = close.turn /\ close'.providerClosed = close.providerClosed
         /\ UNCHANGED <<calls, doubt>>
<1> DEFINE failures == close.failures + 1
<1>1. failures \in 0..MaxFailures
  BY FailuresFit DEF Fails
<1>2. close' = [close EXCEPT !.pc = "idle", !.failures = failures] /\ UNCHANGED <<calls, doubt>>
  BY DEF Fails, Goes
<1> HIDE DEF failures
<1> QED BY <1>1, <1>2 DEF CloseRecord


\* The session opens.
LEMMA OpensInv ==
  ASSUME SessionInv, Opens
  PROVE  SessionInv'
<1> USE DEF SessionInv, SessionTypeOK, sessionVars
<1>1. session' \in SessionRecord
  BY DEF Opens, SessionRecord
<1>2. SessionTypeOK'
  BY <1>1 DEF Opens
<1>3. FenceTrue'
  BY DEF Opens, FenceTrue, SessionRecord
<1>4. SlotTrue'
  BY DEF Opens, SlotTrue, TurnQuiet, SessionRecord
<1>5. RequestsTrue'
  BY DEF Opens, RequestsTrue, SessionRecord
<1>6. NoReplay'
  BY DEF Opens, NoReplay, SessionRecord
<1>7. CloseTrue'
  BY DEF Opens, CloseTrue, TurnQuiet, Active, SessionRecord
<1> QED BY <1>2, <1>3, <1>4, <1>5, <1>6, <1>7

\* The opening is rejected.
LEMMA OpeningRejectedInv ==
  ASSUME SessionInv, OpeningRejected
  PROVE  SessionInv'
<1> USE DEF SessionInv, SessionTypeOK, sessionVars
<1>1. session' \in SessionRecord
  BY DEF OpeningRejected, SessionRecord
<1>2. binding' \in BindingRecord
  BY DEF OpeningRejected, BindingRecord
<1>3. close' \in CloseRecord
  <2> DEFINE failures == close.failures + 1
  <2>1. close.failures < MaxFailures => failures \in 0..MaxFailures
    BY FailuresFit
  <2>2. \/ close' = [close EXCEPT !.pc = "join", !.providerClosed = TRUE]
        \/ close' = [close EXCEPT !.pc = "provider"]
        \/ close.failures < MaxFailures /\ close' = [close EXCEPT !.failures = failures]
    BY DEF OpeningRejected
  <2> HIDE DEF failures
  <2> QED BY <2>1, <2>2 DEF CloseRecord
<1>4. SessionTypeOK'
  BY <1>1, <1>2, <1>3 DEF OpeningRejected
<1>5. FenceTrue'
  BY DEF OpeningRejected, FenceTrue, SessionRecord, BindingRecord, CloseRecord
<1>6. SlotTrue'
  BY DEF OpeningRejected, SlotTrue, TurnQuiet, SessionRecord, BindingRecord, CloseRecord
<1>7. RequestsTrue'
  BY DEF OpeningRejected, RequestsTrue, SessionRecord, BindingRecord, CloseRecord
<1>8. NoReplay'
  BY DEF OpeningRejected, NoReplay, SessionRecord, BindingRecord, CloseRecord
<1>9. CloseTrue'
  BY ZenonT(60) DEF OpeningRejected, CloseTrue, TurnQuiet, Active, SessionRecord, BindingRecord,
     CloseRecord, SlotTrue, FenceTrue
<1> QED BY <1>4, <1>5, <1>6, <1>7, <1>8, <1>9

\* An operation is asked for.
LEMMA InvokeOperationInv ==
  ASSUME SessionInv, InvokeOperation
  PROVE  SessionInv'
<1> USE DEF SessionInv, SessionTypeOK, sessionVars
<1>1. session' \in SessionRecord
  BY DEF InvokeOperation, Usable, SessionRecord
<1>2. SessionTypeOK'
  BY <1>1 DEF InvokeOperation, Usable
<1>3. FenceTrue'
  BY DEF InvokeOperation, Usable, FenceTrue, SessionRecord
<1>4. SlotTrue'
  BY DEF InvokeOperation, Usable, SlotTrue, TurnQuiet, SessionRecord
<1>5. RequestsTrue'
  BY DEF InvokeOperation, Usable, RequestsTrue, SessionRecord
<1>6. NoReplay'
  BY DEF InvokeOperation, Usable, NoReplay, SessionRecord
<1>7. CloseTrue'
  BY DEF InvokeOperation, Usable, CloseTrue, TurnQuiet, Active, SessionRecord
<1> QED BY <1>2, <1>3, <1>4, <1>5, <1>6, <1>7

\* The operation enters the provider or is refused.
LEMMA OperationListedInv ==
  ASSUME SessionInv, OperationListed
  PROVE  SessionInv'
<1> USE DEF SessionInv, SessionTypeOK, sessionVars
<1>1. session' \in SessionRecord
  BY DEF OperationListed, SlotForOperation, Usable, SessionRecord
<1>2. SessionTypeOK'
  BY <1>1 DEF OperationListed, SlotForOperation, Usable
<1>3. FenceTrue'
  BY DEF OperationListed, SlotForOperation, Usable, FenceTrue, SessionRecord
<1>4. SlotTrue'
  BY DEF OperationListed, SlotForOperation, Usable, SlotTrue, TurnQuiet, SessionRecord
<1>5. RequestsTrue'
  BY DEF OperationListed, SlotForOperation, Usable, RequestsTrue, SessionRecord
<1>6. NoReplay'
  BY DEF OperationListed, SlotForOperation, Usable, NoReplay, SessionRecord
<1>7. CloseTrue'
  BY DEF OperationListed, SlotForOperation, Usable, CloseTrue, TurnQuiet, Active, SessionRecord
<1> QED BY <1>2, <1>3, <1>4, <1>5, <1>6, <1>7

\* A host tool call is admitted.
LEMMA InvokeInv ==
  ASSUME SessionInv, NEW v \in Invocations, Invoke(v)
  PROVE  SessionInv'
<1> USE DEF SessionInv, SessionTypeOK, sessionVars
<1>1. binding' \in BindingRecord
  BY DEF Invoke, BindingRecord
<1>2. SessionTypeOK'
  BY <1>1 DEF Invoke
<1>3. FenceTrue'
  BY DEF Invoke, FenceTrue, BindingRecord
<1>4. SlotTrue'
  BY DEF Invoke, SlotTrue, TurnQuiet, BindingRecord
<1>5. RequestsTrue'
  BY DEF Invoke, RequestsTrue, BindingRecord
<1>6. NoReplay'
  BY DEF Invoke, NoReplay, BindingRecord
<1>7. CloseTrue'
  BY DEF Invoke, CloseTrue, TurnQuiet, Active, BindingRecord, FenceTrue
<1> QED BY <1>2, <1>3, <1>4, <1>5, <1>6, <1>7

\* A host tool call enters the host.
LEMMA InvocationEntersInv ==
  ASSUME SessionInv, NEW v \in Invocations, InvocationEnters(v)
  PROVE  SessionInv'
<1> USE DEF SessionInv, SessionTypeOK, sessionVars
<1>1. binding' \in BindingRecord
  BY DEF InvocationEnters, StillAdmitted, BindingRecord
<1>2. SessionTypeOK'
  BY <1>1 DEF InvocationEnters, StillAdmitted
<1>3. FenceTrue'
  BY DEF InvocationEnters, StillAdmitted, FenceTrue, BindingRecord
<1>4. SlotTrue'
  BY DEF InvocationEnters, StillAdmitted, SlotTrue, TurnQuiet, BindingRecord
<1>5. RequestsTrue'
  BY DEF InvocationEnters, StillAdmitted, RequestsTrue, BindingRecord
<1>6. NoReplay'
  BY DEF InvocationEnters, StillAdmitted, NoReplay, BindingRecord
<1>7. CloseTrue'
  BY DEF InvocationEnters, StillAdmitted, CloseTrue, TurnQuiet, Active, BindingRecord
<1> QED BY <1>2, <1>3, <1>4, <1>5, <1>6, <1>7

\* A host tool call ends.
LEMMA InvocationEndsInv ==
  ASSUME SessionInv, NEW v \in Invocations, InvocationEnds(v)
  PROVE  SessionInv'
<1> USE DEF SessionInv, SessionTypeOK, sessionVars
<1>1. binding' \in BindingRecord
  BY DEF InvocationEnds, BindingRecord
<1>2. SessionTypeOK'
  BY <1>1 DEF InvocationEnds
<1>3. FenceTrue'
  BY DEF InvocationEnds, FenceTrue, BindingRecord
<1>4. SlotTrue'
  BY DEF InvocationEnds, SlotTrue, TurnQuiet, BindingRecord
<1>5. RequestsTrue'
  BY DEF InvocationEnds, RequestsTrue, BindingRecord
<1>6. NoReplay'
  BY DEF InvocationEnds, NoReplay, BindingRecord
<1>7. CloseTrue'
  BY DEF InvocationEnds, CloseTrue, TurnQuiet, Active, BindingRecord
<1> QED BY <1>2, <1>3, <1>4, <1>5, <1>6, <1>7

\* The provider is closed.
LEMMA CloseProviderInv ==
  ASSUME SessionInv, CloseProvider
  PROVE  SessionInv'
<1> USE DEF SessionInv, SessionTypeOK, sessionVars
<1>1. close' \in CloseRecord
  <2>1. CASE Goes([close EXCEPT !.pc = "join", !.providerClosed = TRUE])
    BY <2>1 DEF Goes, CloseRecord
  <2> QED BY <2>1, FailsFacts DEF CloseProvider
<1>2. SessionTypeOK'
  BY FailsFacts, <1>1 DEF CloseProvider, Goes
<1>3. FenceTrue'
  <2>1. CASE Fails
    BY <2>1, FailsFacts DEF CloseProvider, FenceTrue
  <2>2. CASE ~Fails
    BY <2>2 DEF CloseProvider, Goes, CloseRecord, FenceTrue
  <2> QED BY <2>1, <2>2
<1>4. SlotTrue'
  <2>1. CASE Fails
    BY <2>1, FailsFacts DEF CloseProvider, SlotTrue, TurnQuiet
  <2>2. CASE ~Fails
    BY <2>2 DEF CloseProvider, Goes, CloseRecord, SlotTrue, TurnQuiet
  <2> QED BY <2>1, <2>2
<1>5. RequestsTrue'
  <2>1. CASE Fails
    BY <2>1, FailsFacts DEF CloseProvider, RequestsTrue
  <2>2. CASE ~Fails
    BY <2>2 DEF CloseProvider, Goes, CloseRecord, RequestsTrue
  <2> QED BY <2>1, <2>2
<1>6. NoReplay'
  <2>1. CASE Fails
    BY <2>1, FailsFacts DEF CloseProvider, NoReplay
  <2>2. CASE ~Fails
    BY <2>2 DEF CloseProvider, Goes, CloseRecord, NoReplay
  <2> QED BY <2>1, <2>2
<1>7. CloseTrue'
  <2>1. CASE Fails
    BY <2>1, FailsFacts DEF CloseProvider, CloseTrue, TurnQuiet, Active
  <2>2. CASE ~Fails
    BY <2>2 DEF CloseProvider, Goes, CloseRecord, CloseTrue, TurnQuiet, Active
  <2> QED BY <2>1, <2>2
<1> QED BY <1>2, <1>3, <1>4, <1>5, <1>6, <1>7

\* No operation is under way.
LEMMA JoinOperationsInv ==
  ASSUME SessionInv, JoinOperations
  PROVE  SessionInv'
<1> USE DEF SessionInv, SessionTypeOK, sessionVars
<1>1. close' \in CloseRecord
  BY SessionAssumption DEF JoinOperations, Goes, CloseRecord
<1>2. SessionTypeOK'
  BY <1>1 DEF JoinOperations, Goes
<1>3. FenceTrue'
  BY DEF JoinOperations, Goes, FenceTrue, CloseRecord
<1>4. SlotTrue'
  BY DEF JoinOperations, Goes, SlotTrue, TurnQuiet, CloseRecord
<1>5. RequestsTrue'
  BY DEF JoinOperations, Goes, RequestsTrue, CloseRecord
<1>6. NoReplay'
  BY DEF JoinOperations, Goes, NoReplay, CloseRecord
<1>7. CloseTrue'
  BY DEF JoinOperations, Goes, CloseTrue, TurnQuiet, Active, CloseRecord
<1> QED BY <1>2, <1>3, <1>4, <1>5, <1>6, <1>7

\* No tool call is under way.
LEMMA DrainBindingInv ==
  ASSUME SessionInv, DrainBinding
  PROVE  SessionInv'
<1> USE DEF SessionInv, SessionTypeOK, sessionVars
<1>1. close' \in CloseRecord
  BY SessionAssumption DEF DrainBinding, Goes, InvocationsOver, CloseRecord
<1>2. SessionTypeOK'
  BY <1>1 DEF DrainBinding, Goes, InvocationsOver
<1>3. FenceTrue'
  BY DEF DrainBinding, Goes, InvocationsOver, FenceTrue, CloseRecord
<1>4. SlotTrue'
  BY DEF DrainBinding, Goes, InvocationsOver, SlotTrue, TurnQuiet, CloseRecord
<1>5. RequestsTrue'
  BY DEF DrainBinding, Goes, InvocationsOver, RequestsTrue, CloseRecord
<1>6. NoReplay'
  BY DEF DrainBinding, Goes, InvocationsOver, NoReplay, CloseRecord
<1>7. CloseTrue'
  BY DEF DrainBinding, Goes, InvocationsOver, CloseTrue, TurnQuiet, Active, CloseRecord
<1> QED BY <1>2, <1>3, <1>4, <1>5, <1>6, <1>7

\* The binding is released.
LEMMA ReleaseBindingInv ==
  ASSUME SessionInv, ReleaseBinding
  PROVE  SessionInv'
<1> USE DEF SessionInv, SessionTypeOK, sessionVars
<1>1. close' \in CloseRecord
  <2>1. CASE Goes([close EXCEPT !.pc = "idle"])
    BY <2>1 DEF Goes, CloseRecord
  <2> QED BY <2>1, FailsFacts DEF ReleaseBinding
<1>2. binding' \in BindingRecord
  BY DEF ReleaseBinding, Goes, BindingRecord
<1>3. session' \in SessionRecord
  BY DEF ReleaseBinding, Goes, SessionRecord
<1>4. SessionTypeOK'
  BY FailsFacts, <1>1, <1>2, <1>3 DEF ReleaseBinding, Goes
<1>5. FenceTrue'
  <2>1. CASE Fails /\ UNCHANGED <<binding, session>>
    BY <2>1, FailsFacts DEF ReleaseBinding, FenceTrue
  <2>2. CASE ~(Fails /\ UNCHANGED <<binding, session>>)
    BY <2>2 DEF ReleaseBinding, Goes, CloseRecord, BindingRecord, SessionRecord, FenceTrue
  <2> QED BY <2>1, <2>2
<1>6. SlotTrue'
  <2>1. CASE Fails /\ UNCHANGED <<binding, session>>
    BY <2>1, FailsFacts DEF ReleaseBinding, SlotTrue, TurnQuiet
  <2>2. CASE ~(Fails /\ UNCHANGED <<binding, session>>)
    BY <2>2 DEF ReleaseBinding, Goes, CloseRecord, BindingRecord, SessionRecord, SlotTrue,
       TurnQuiet
  <2> QED BY <2>1, <2>2
<1>7. RequestsTrue'
  <2>1. CASE Fails /\ UNCHANGED <<binding, session>>
    BY <2>1, FailsFacts DEF ReleaseBinding, RequestsTrue
  <2>2. CASE ~(Fails /\ UNCHANGED <<binding, session>>)
    BY <2>2 DEF ReleaseBinding, Goes, CloseRecord, BindingRecord, SessionRecord, RequestsTrue
  <2> QED BY <2>1, <2>2
<1>8. NoReplay'
  <2>1. CASE Fails /\ UNCHANGED <<binding, session>>
    BY <2>1, FailsFacts DEF ReleaseBinding, NoReplay
  <2>2. CASE ~(Fails /\ UNCHANGED <<binding, session>>)
    BY <2>2 DEF ReleaseBinding, Goes, CloseRecord, BindingRecord, SessionRecord, NoReplay
  <2> QED BY <2>1, <2>2
<1>9. CloseTrue'
  <2>1. CASE Fails /\ UNCHANGED <<binding, session>>
    BY <2>1, FailsFacts DEF ReleaseBinding, CloseTrue, TurnQuiet, Active
  <2>2. CASE ~(Fails /\ UNCHANGED <<binding, session>>)
    BY <2>2 DEF ReleaseBinding, Goes, CloseRecord, BindingRecord, SessionRecord, CloseTrue,
       TurnQuiet, Active
  <2> QED BY <2>1, <2>2
<1> QED BY <1>4, <1>5, <1>6, <1>7, <1>8, <1>9

\* A turn is steered.
LEMMA SteerInv ==
  ASSUME SessionInv, Steer
  PROVE  SessionInv'
<1> USE DEF SessionInv, SessionTypeOK, sessionVars
<1>1. calls' \in CallRecord
  BY DEF Steer, Usable, Running, CallRecord
<1>2. SessionTypeOK'
  BY <1>1 DEF Steer, Usable, Running
<1>3. FenceTrue'
  BY DEF Steer, Usable, Running, FenceTrue, CallRecord
<1>4. SlotTrue'
  BY DEF Steer, Usable, Running, SlotTrue, TurnQuiet, CallRecord
<1>5. RequestsTrue'
  BY DEF Steer, Usable, Running, RequestsTrue, CallRecord
<1>6. NoReplay'
  BY DEF Steer, Usable, Running, NoReplay, CallRecord
<1>7. CloseTrue'
  BY DEF Steer, Usable, Running, CloseTrue, TurnQuiet, Active, CallRecord, FenceTrue
<1> QED BY <1>2, <1>3, <1>4, <1>5, <1>6, <1>7

\* A pull is started.
LEMMA PullInv ==
  ASSUME SessionInv, Pull
  PROVE  SessionInv'
<1> USE DEF SessionInv, SessionTypeOK, sessionVars
<1>1. exec' \in ExecutionRecord
  BY DEF Pull, ExecutionRecord
<1>2. SessionTypeOK'
  BY <1>1 DEF Pull
<1>3. FenceTrue'
  BY DEF Pull, FenceTrue, ExecutionRecord
<1>4. SlotTrue'
  BY DEF Pull, SlotTrue, TurnQuiet, ExecutionRecord
<1>5. RequestsTrue'
  BY DEF Pull, RequestsTrue, ExecutionRecord, Running
<1>6. NoReplay'
  BY DEF Pull, NoReplay, ExecutionRecord
<1>7. CloseTrue'
  BY DEF Pull, CloseTrue, TurnQuiet, Active, ExecutionRecord, FenceTrue
<1> QED BY <1>2, <1>3, <1>4, <1>5, <1>6, <1>7

\* A late pull ends.
LEMMA LatePullInv ==
  ASSUME SessionInv, LatePull
  PROVE  SessionInv'
<1> USE DEF SessionInv, SessionTypeOK, sessionVars
<1>1. exec' \in ExecutionRecord
  BY DEF LatePull, ExecutionRecord
<1>2. SessionTypeOK'
  BY <1>1 DEF LatePull
<1>3. FenceTrue'
  BY DEF LatePull, FenceTrue, ExecutionRecord
<1>4. SlotTrue'
  BY DEF LatePull, SlotTrue, TurnQuiet, ExecutionRecord
<1>5. RequestsTrue'
  BY DEF LatePull, RequestsTrue, ExecutionRecord
<1>6. NoReplay'
  BY DEF LatePull, NoReplay, ExecutionRecord
<1>7. CloseTrue'
  BY DEF LatePull, CloseTrue, TurnQuiet, Active, ExecutionRecord
<1> QED BY <1>2, <1>3, <1>4, <1>5, <1>6, <1>7

\* An event without effect.
LEMMA ProgressInv ==
  ASSUME SessionInv, Progress
  PROVE  SessionInv'
<1> USE DEF SessionInv, SessionTypeOK, sessionVars
<1>1. exec' \in ExecutionRecord
  BY DEF Progress, Yields, Observed, Settled, ExecutionRecord
<1>2. SessionTypeOK'
  BY <1>1 DEF Progress, Yields, Observed, Settled
<1>3. FenceTrue'
  BY DEF Progress, Yields, Observed, Settled, FenceTrue, ExecutionRecord
<1>4. SlotTrue'
  BY DEF Progress, Yields, Observed, Settled, SlotTrue, TurnQuiet, ExecutionRecord
<1>5. RequestsTrue'
  BY DEF Progress, Yields, Observed, Settled, RequestsTrue, ExecutionRecord, Running
<1>6. NoReplay'
  BY DEF Progress, Yields, Observed, Settled, NoReplay, ExecutionRecord
<1>7. CloseTrue'
  BY DEF Progress, Yields, Observed, Settled, CloseTrue, TurnQuiet, Active, ExecutionRecord
<1> QED BY <1>2, <1>3, <1>4, <1>5, <1>6, <1>7

\* The output ends.
LEMMA OutputEndsInv ==
  ASSUME SessionInv, OutputEnds
  PROVE  SessionInv'
<1> USE DEF SessionInv, SessionTypeOK, sessionVars
<1>1. exec' \in ExecutionRecord
  BY DEF OutputEnds, Yields, ExecutionRecord
<1>2. SessionTypeOK'
  BY <1>1 DEF OutputEnds, Yields
<1>3. FenceTrue'
  BY DEF OutputEnds, Yields, FenceTrue, ExecutionRecord
<1>4. SlotTrue'
  BY DEF OutputEnds, Yields, SlotTrue, TurnQuiet, ExecutionRecord
<1>5. RequestsTrue'
  BY DEF OutputEnds, Yields, RequestsTrue, ExecutionRecord, Running
<1>6. NoReplay'
  BY DEF OutputEnds, Yields, NoReplay, ExecutionRecord
<1>7. CloseTrue'
  BY DEF OutputEnds, Yields, CloseTrue, TurnQuiet, Active, ExecutionRecord
<1> QED BY <1>2, <1>3, <1>4, <1>5, <1>6, <1>7

\* An item ends.
LEMMA SubjectEndsInv ==
  ASSUME SessionInv, NEW q \in Requests, SubjectEnds(q)
  PROVE  SessionInv'
<1> USE DEF SessionInv, SessionTypeOK, sessionVars
<1>1. exec' \in ExecutionRecord
  BY DEF SubjectEnds, Yields, Observed, Settled, ExecutionRecord
<1>2. SessionTypeOK'
  BY <1>1 DEF SubjectEnds, Yields, Observed, Settled
<1>3. FenceTrue'
  BY DEF SubjectEnds, Yields, Observed, Settled, FenceTrue, ExecutionRecord
<1>4. SlotTrue'
  BY DEF SubjectEnds, Yields, Observed, Settled, SlotTrue, TurnQuiet, ExecutionRecord
<1>5. RequestsTrue'
  BY DEF SubjectEnds, Yields, Observed, Settled, RequestsTrue, ExecutionRecord, Running
<1>6. NoReplay'
  BY DEF SubjectEnds, Yields, Observed, Settled, NoReplay, ExecutionRecord
<1>7. CloseTrue'
  BY DEF SubjectEnds, Yields, Observed, Settled, CloseTrue, TurnQuiet, Active, ExecutionRecord
<1> QED BY <1>2, <1>3, <1>4, <1>5, <1>6, <1>7

\* A new admission, and one whose entries were all retired.
LEMMA NoRequestsFacts ==
  /\ NoRequests \in AdmissionRecord /\ OnePending(NoRequests) /\ Served(NoRequests)
  /\ \A q \in Requests : NoRequests.kind[q] = "unopened" /\ NoRequests.suspensions[q] = {}
<1> DEFINE kinds == [q \in Requests |-> "unopened"]
           held == [q \in Requests |-> {}]
<1>1. kinds \in [Requests -> Kinds] /\ \A q \in Requests : kinds[q] = "unopened"
  BY DEF Kinds
<1>2. held \in [Requests -> SUBSET Interruptions] /\ \A q \in Requests : held[q] = {}
  OBVIOUS
<1>3. NoRequests = [kind |-> kinds, suspensions |-> held]
  BY DEF NoRequests
<1> HIDE DEF kinds, held
<1>4. NoRequests \in AdmissionRecord /\ NoRequests.kind = kinds /\ NoRequests.suspensions = held
  BY <1>1, <1>2, <1>3 DEF AdmissionRecord
<1>5. Pending(NoRequests) = {} /\ Ready(NoRequests) = {}
  BY <1>1, <1>4 DEF Pending, Ready
<1> QED BY <1>1, <1>2, <1>4, <1>5 DEF OnePending, Served

\* A new execution has an empty admission and nothing under way.
LEMMA NewExecutionFacts ==
  ASSUME NEW kind \in {"none", "reserved", "entered", "settled", "stopped"}, NEW x,
         x = NewExecution(kind)
  PROVE  /\ x \in ExecutionRecord /\ x.kind = kind /\ x.requests = NoRequests
         /\ x.spent = {} /\ x.dead = {} /\ x.pull = "idle"
         /\ ~x.native /\ ~x.joined /\ ~x.sourced /\ ~x.terminal
BY NoRequestsFacts DEF NewExecution, ExecutionRecord

\* An execution that is over.
LEMMA OverFacts ==
  ASSUME NEW x \in ExecutionRecord, NEW kind \in {"settled", "stopped"}, NEW y,
         y = Over(x, kind)
  PROVE  /\ y \in ExecutionRecord /\ y.kind = kind /\ y.native = x.native
         /\ y.sourced = x.sourced /\ y.pull = "idle" /\ ~y.joined /\ y.spent = {}
         /\ \A q \in Requests : y.requests.kind[q] = "retired"
<1> DEFINE none == NewExecution(kind)
           retired == Retire(NoRequests, Requests)
<1>1. retired \in AdmissionRecord /\ \A q \in Requests : retired.kind[q] = "retired"
  BY NoRequestsFacts, RetireFacts
<1>2. /\ none \in ExecutionRecord /\ none.kind = kind /\ none.spent = {}
      /\ none.pull = "idle" /\ ~none.joined
  BY NewExecutionFacts
<1>3. y = [none EXCEPT !.sourced = x.sourced, !.native = x.native, !.requests = retired]
  BY DEF Over
<1> HIDE DEF none, retired
<1>4. x.sourced \in BOOLEAN /\ x.native \in BOOLEAN
  BY DEF ExecutionRecord
<1>5. y \in ExecutionRecord /\ y.kind = none.kind /\ y.native = x.native /\ y.sourced = x.sourced
  BY <1>1, <1>2, <1>3, <1>4 DEF ExecutionRecord
<1>6. y.pull = none.pull /\ y.joined = none.joined /\ y.spent = none.spent /\ y.requests = retired
  BY <1>1, <1>2, <1>3, <1>4 DEF ExecutionRecord
<1> QED BY <1>1, <1>2, <1>5, <1>6

\* stop of an execution.
LEMMA StoppedFacts ==
  ASSUME NEW x \in ExecutionRecord, NEW y, y = Stopped(x)
  PROVE  /\ y \in ExecutionRecord /\ y.native = x.native
         /\ x.kind \notin {"reserved", "entered"} => y = x
         /\ x.kind \in {"reserved", "entered"} =>
              /\ y.kind = "stopped" /\ y.pull = "idle" /\ ~y.joined /\ y.spent = {}
              /\ \A q \in Requests : y.requests.kind[q] = "retired"
BY OverFacts DEF Stopped

\* t is session s after the stop of execution x.
StoppedWith(s, x, t) ==
  /\ t.phase = s.phase /\ t.stopped = s.stopped /\ t.closed = s.closed
  /\ t.operation = s.operation /\ t.identities = s.identities /\ t.turns = s.turns
  /\ s.unusable \/ x.kind = "entered" => t.unusable
  /\ x.kind = "reserved" => t.slot = "free"
  /\ x.kind # "reserved" => t.slot = s.slot

\* What the stop of an execution does to its session.
LEMMA AfterStopFacts ==
  ASSUME NEW s \in SessionRecord, NEW x, NEW t, t = AfterStop(s, x)
  PROVE  t \in SessionRecord /\ StoppedWith(s, x, t)
BY DEF AfterStop, SessionRecord, StoppedWith

\* Once an execution is stopped, what it leaves is the pull.
LEMMA StopExecutionInv ==
  ASSUME SessionInv, NEW x \in ExecutionRecord, exec.kind \in {"reserved", "entered"},
         x.kind = exec.kind \/ x.kind = "entered", x.native => exec.native,
         StopExecution(x), UNCHANGED <<calls, binding, close, doubt>>
  PROVE  SessionInv'
<1> USE DEF SessionInv, SessionTypeOK
<1>1. x.kind \in {"reserved", "entered"}
  OBVIOUS
<1>2. /\ exec' \in ExecutionRecord /\ exec'.native = x.native
      /\ exec'.kind = "stopped" /\ exec'.pull = "idle" /\ ~exec'.joined /\ exec'.spent = {}
      /\ \A q \in Requests : exec'.requests.kind[q] = "retired"
  BY <1>1, StoppedFacts DEF StopExecution
<1>0. session' \in SessionRecord /\ StoppedWith(session, x, session')
  BY AfterStopFacts DEF StopExecution
<1>3. /\ session' \in SessionRecord
      /\ session'.phase = session.phase /\ session'.stopped = session.stopped
      /\ session'.operation = session.operation /\ session'.identities = session.identities
      /\ session.unusable \/ x.kind = "entered" => session'.unusable
      /\ x.kind = "reserved" => session'.slot = "free"
      /\ x.kind # "reserved" => session'.slot = session.slot
  BY <1>0 DEF StoppedWith
<1>4. SessionTypeOK'
  BY <1>2, <1>3
<1>5. FenceTrue'
  BY <1>2, <1>3 DEF FenceTrue
<1>6. SlotTrue'
  BY <1>1, <1>2, <1>3 DEF SlotTrue, TurnQuiet, CallRecord, SessionRecord
<1>7. RequestsTrue'
  BY <1>2, <1>3 DEF RequestsTrue
<1>8. NoReplay'
  BY <1>2 DEF NoReplay, CallRecord
<1>9. CloseTrue'
  BY <1>2, <1>3 DEF CloseTrue, TurnQuiet, Active
<1> QED BY <1>4, <1>5, <1>6, <1>7, <1>8, <1>9

\* A close begins, or the one under way is shared.
LEMMA BeginCloseInv ==
  ASSUME SessionInv, NEW x \in ExecutionRecord, session.phase # "opening",
         x = exec \/ (exec.kind = "entered" /\ x.kind = "entered" /\ (x.native => exec.native)),
         BeginClose(x), UNCHANGED calls
  PROVE  SessionInv'
<1> USE DEF SessionInv, SessionTypeOK
<1>1. CASE close.pc # "idle" \/ session.closed
  <2>1. StopExecution(x) /\ UNCHANGED <<binding, close, doubt>>
    BY <1>1 DEF BeginClose
  <2>2. CASE exec.kind \in {"reserved", "entered"}
    BY <2>1, <2>2, StopExecutionInv
  <2>3. CASE exec.kind \notin {"reserved", "entered"}
    <3>1. x = exec
      BY <2>3
    <3>2. UNCHANGED sessionVars
      BY <2>1, <2>3, <3>1 DEF StopExecution, Stopped, AfterStop, sessionVars
    <3> QED BY <3>2 DEF sessionVars, FenceTrue, SlotTrue, RequestsTrue, NoReplay, CloseTrue,
               TurnQuiet, Active
  <2> QED BY <2>2, <2>3
<1>2. CASE ~(close.pc # "idle" \/ session.closed)
  <2> DEFINE s == AfterStop(session, x)
             turn == session.slot = "turn"
  <2>1. /\ exec' \in ExecutionRecord /\ exec'.native = x.native
        /\ x.kind \notin {"reserved", "entered"} => exec' = x
        /\ x.kind \in {"reserved", "entered"} =>
             /\ exec'.kind = "stopped" /\ exec'.pull = "idle" /\ ~exec'.joined /\ exec'.spent = {}
             /\ \A q \in Requests : exec'.requests.kind[q] = "retired"
    BY <1>2, StoppedFacts DEF BeginClose
  <2>0. s \in SessionRecord /\ StoppedWith(session, x, s)
    BY AfterStopFacts
  <2>2. /\ s \in SessionRecord
        /\ s.phase = session.phase /\ s.closed = session.closed
        /\ s.operation = session.operation /\ s.identities = session.identities
        /\ x.kind = "reserved" => s.slot = "free"
        /\ x.kind # "reserved" => s.slot = session.slot
    BY <2>0 DEF StoppedWith
  <2>3. turn \in BOOLEAN /\ (turn <=> session.slot = "turn")
    OBVIOUS
  <2>4. /\ session' = [s EXCEPT !.unusable = TRUE, !.stopped = TRUE]
        /\ binding' = [binding EXCEPT !.stopped = TRUE]
        /\ close' = [close EXCEPT !.pc = IF close.providerClosed THEN "join" ELSE "provider",
                                  !.turn = turn]
        /\ doubt' = FALSE
    BY <1>2 DEF BeginClose
  <2> HIDE DEF s, turn
  <2>5. /\ session' \in SessionRecord /\ session'.phase = session.phase
        /\ session'.unusable /\ session'.stopped
        /\ session'.operation = session.operation /\ session'.identities = session.identities
        /\ x.kind = "reserved" => session'.slot = "free"
        /\ x.kind # "reserved" => session'.slot = session.slot
    BY <2>2, <2>4 DEF SessionRecord
  <2>6. /\ binding' \in BindingRecord /\ binding'.stopped
        /\ binding'.released = binding.released /\ binding'.invocations = binding.invocations
    BY <2>4 DEF BindingRecord
  <2>7. /\ close' \in CloseRecord
        /\ close'.pc = IF close.providerClosed THEN "join" ELSE "provider"
        /\ close'.turn = turn /\ close'.providerClosed = close.providerClosed
    BY <2>3, <2>4 DEF CloseRecord
  <2>8. doubt' = FALSE
    BY <2>4
  <2>9. SessionTypeOK'
    BY <2>1, <2>5, <2>6, <2>7, <2>8
  <2>10. FenceTrue'
    BY <2>1, <2>5, <2>6, <2>8 DEF FenceTrue
  <2>11. SlotTrue'
    BY <2>1, <2>5 DEF SlotTrue, TurnQuiet, CallRecord, SessionRecord, ExecutionRecord
  <2>12. RequestsTrue'
    BY <2>1, <2>5 DEF RequestsTrue
  <2>13. NoReplay'
    BY <2>1 DEF NoReplay, CallRecord
  <2>14. CloseTrue'
    BY <1>2, <2>1, <2>3, <2>5, <2>6, <2>7 DEF CloseTrue, SlotTrue, TurnQuiet, Active
  <2> QED BY <2>9, <2>10, <2>11, <2>12, <2>13, <2>14
<1> QED BY <1>1, <1>2


\* A turn takes the slot.
LEMMA StartTurnInv ==
  ASSUME SessionInv, StartTurn
  PROVE  SessionInv'
<1> USE DEF SessionInv, SessionTypeOK
<1>1. /\ exec' \in ExecutionRecord /\ exec'.kind = "reserved" /\ exec' = NewExecution("reserved")
      /\ exec'.spent = {} /\ exec'.pull = "idle" /\ ~exec'.native /\ ~exec'.joined
  BY NewExecutionFacts DEF StartTurn
<1> DEFINE turns == session.turns + 1
<1>2. turns \in 0..MaxTurns
  BY SessionAssumption DEF StartTurn, SessionRecord
<1>3. session' = [session EXCEPT !.slot = "turn", !.turns = turns]
  BY DEF StartTurn
<1> HIDE DEF turns
<1>4. /\ session' \in SessionRecord /\ session'.slot = "turn"
      /\ session'.phase = session.phase /\ session'.stopped = session.stopped
      /\ session'.operation = session.operation /\ session'.unusable = session.unusable
  BY <1>2, <1>3 DEF SessionRecord
<1>5. /\ UNCHANGED <<calls, binding, close, doubt>> /\ session.slot = "free"
      /\ session.phase = "open" /\ ~session.stopped
  BY DEF StartTurn, Usable
<1>6. SessionTypeOK'
  BY <1>1, <1>4, <1>5
<1>7. FenceTrue'
  BY <1>1, <1>4, <1>5 DEF FenceTrue
<1>8. SlotTrue'
  BY <1>1, <1>4, <1>5 DEF SlotTrue, TurnQuiet
<1>9. RequestsTrue'
  BY <1>1 DEF RequestsTrue
<1>10. NoReplay'
  BY <1>1, <1>5 DEF NoReplay, SlotTrue, TurnQuiet, NoCalls
<1>11. CloseTrue'
  BY <1>1, <1>4, <1>5 DEF CloseTrue, TurnQuiet, Active
<1> QED BY <1>6, <1>7, <1>8, <1>9, <1>10, <1>11

\* A turn that is over leaves the slot, with nothing of it under way.
LEMMA SettledInv ==
  ASSUME SessionInv, exec.kind \in {"reserved", "entered"}, calls = NoCalls, ~exec.native,
         exec' = Over(exec, "settled"), session' = [session EXCEPT !.slot = "free"],
         UNCHANGED <<calls, binding, close, doubt>>
  PROVE  SessionInv'
<1> USE DEF SessionInv, SessionTypeOK
<1>1. /\ exec' \in ExecutionRecord /\ exec'.kind = "settled" /\ exec'.native = exec.native
      /\ exec'.pull = "idle" /\ ~exec'.joined /\ exec'.spent = {}
      /\ \A q \in Requests : exec'.requests.kind[q] = "retired"
  BY OverFacts
<1>2. /\ session' \in SessionRecord /\ session'.slot = "free"
      /\ session'.phase = session.phase /\ session'.stopped = session.stopped
      /\ session'.operation = session.operation /\ session'.unusable = session.unusable
  BY DEF SessionRecord
<1>3. SessionTypeOK'
  BY <1>1, <1>2
<1>4. FenceTrue'
  BY <1>1, <1>2 DEF FenceTrue
<1>5. SlotTrue'
  BY <1>1, <1>2 DEF SlotTrue, TurnQuiet
<1>6. RequestsTrue'
  BY <1>1 DEF RequestsTrue
<1>7. NoReplay'
  BY <1>1 DEF NoReplay, NoCalls
<1>8. CloseTrue'
  BY <1>1, <1>2 DEF CloseTrue, TurnQuiet, Active
<1> QED BY <1>3, <1>4, <1>5, <1>6, <1>7, <1>8

\* The execution is entered, fails to start, or ends at once.
LEMMA EnterInv ==
  ASSUME SessionInv, Enter
  PROVE  SessionInv'
<1> USE DEF SessionInv, SessionTypeOK
<1> DEFINE entered == [exec EXCEPT !.kind = "entered"]
<1>1. /\ exec.kind = "reserved" /\ UNCHANGED <<calls, binding, close, doubt>>
      /\ exec = NewExecution("reserved")
  BY DEF Enter, RequestsTrue
<1>2. /\ exec.requests = NoRequests /\ exec.spent = {} /\ ~exec.native /\ ~exec.joined
  BY <1>1, NewExecutionFacts
<1>3. /\ entered \in ExecutionRecord /\ entered.kind = "entered" /\ entered.native = exec.native
  BY DEF ExecutionRecord
<1>4. CASE /\ exec' = [entered EXCEPT !.sourced = TRUE, !.pull = "native", !.native = TRUE]
           /\ UNCHANGED session
  <2>1. /\ exec' \in ExecutionRecord /\ exec'.kind = "entered" /\ exec'.requests = NoRequests
        /\ exec'.spent = {} /\ exec'.native /\ exec'.pull = "native" /\ ~exec'.joined
    BY <1>2, <1>4 DEF ExecutionRecord
  <2>2. SessionTypeOK'
    BY <1>1, <1>4, <2>1
  <2>3. FenceTrue'
    BY <1>1, <1>4, <2>1 DEF FenceTrue
  <2>4. SlotTrue'
    BY <1>1, <1>4, <2>1 DEF SlotTrue, TurnQuiet
  <2>5. RequestsTrue'
    BY <1>1, <1>4, <2>1, NoRequestsFacts DEF RequestsTrue
  <2>6. NoReplay'
    BY <1>1, <2>1 DEF NoReplay, SlotTrue, TurnQuiet, NoCalls
  <2>7. CloseTrue'
    BY <1>1, <1>4, <2>1 DEF CloseTrue, FenceTrue, TurnQuiet, Active
  <2> QED BY <2>2, <2>3, <2>4, <2>5, <2>6, <2>7
<1>5. CASE StopExecution(entered)
  BY <1>1, <1>3, <1>5, StopExecutionInv
<1>6. CASE /\ exec' = Over(exec, "settled")
           /\ session' = [session EXCEPT !.slot = "free"]
  <2>1. calls = NoCalls
    BY <1>1 DEF SlotTrue, TurnQuiet
  <2> QED BY <1>1, <1>2, <1>6, <2>1, SettledInv
<1> QED BY <1>4, <1>5, <1>6 DEF Enter

\* A pull that fails, or an event that breaks the rules.
LEMMA InvalidInv ==
  ASSUME SessionInv, Invalid
  PROVE  SessionInv'
<1>1. /\ Settled(exec) \in ExecutionRecord /\ Settled(exec).kind = exec.kind
      /\ ~Settled(exec).native /\ exec.kind = "entered"
  BY DEF Invalid, Yields, Settled, SessionInv, SessionTypeOK, ExecutionRecord
<1> QED BY <1>1, StopExecutionInv DEF Invalid

\* One identity too many.
LEMMA IdentityLimitInv ==
  ASSUME SessionInv, IdentityLimit
  PROVE  SessionInv'
<1>1. /\ Settled(exec) \in ExecutionRecord /\ Settled(exec).kind = exec.kind
      /\ ~Settled(exec).native /\ exec.kind = "entered"
  BY DEF IdentityLimit, Yields, Settled, SessionInv, SessionTypeOK, ExecutionRecord
<1>2. session.phase # "opening"
  BY <1>1 DEF SessionInv, FenceTrue
<1> QED BY <1>1, <1>2, BeginCloseInv DEF IdentityLimit

\* The end of an output.
LEMMA SettleInv ==
  ASSUME SessionInv, Settle
  PROVE  SessionInv'
<1>1. /\ exec.kind = "entered" /\ exec \in ExecutionRecord /\ calls = NoCalls /\ ~exec.native
      /\ UNCHANGED <<calls, binding, close, doubt>>
  BY DEF Settle, Drained, SessionInv, SessionTypeOK, SlotTrue
<1>2. CASE StopExecution(exec)
  BY <1>1, <1>2, StopExecutionInv
<1>3. CASE exec' = Over(exec, "settled") /\ session' = [session EXCEPT !.slot = "free"]
  BY <1>1, <1>3, SettledInv
<1> QED BY <1>2, <1>3 DEF Settle

\* The caller's signal.
LEMMA AbortTurnInv ==
  ASSUME SessionInv, AbortTurn
  PROVE  SessionInv'
BY StopExecutionInv DEF AbortTurn, SessionInv, SessionTypeOK

\* The consumer returns.
LEMMA ReturnInv ==
  ASSUME SessionInv, Return
  PROVE  SessionInv'
<1>1. exec \in ExecutionRecord /\ session.phase # "opening" /\ UNCHANGED calls
  BY DEF Return, SessionInv, SessionTypeOK, FenceTrue
<1>2. CASE BeginClose(exec)
  BY <1>1, <1>2, BeginCloseInv
<1>3. CASE exec.kind = "reserved" /\ StopExecution(exec) /\ UNCHANGED <<binding, close, doubt>>
  BY <1>1, <1>3, StopExecutionInv
<1> QED BY <1>2, <1>3 DEF Return

\* close, and its retry.
LEMMA CloseInv ==
  ASSUME SessionInv, Close
  PROVE  SessionInv'
BY BeginCloseInv DEF Close, SessionInv, SessionTypeOK


\* An event moves the requests of a running turn on, and may be the last.
LEMMA ReadInv ==
  ASSUME SessionInv, Yields, NEW a \in AdmissionRecord, NEW terminal \in BOOLEAN,
         exec' = Settled([exec EXCEPT !.requests = a, !.terminal = terminal]),
         OnePending(a), ~terminal => Served(a), Evolves(exec.requests, a, {}),
         UNCHANGED <<session, calls, binding, close, doubt>>
  PROVE  SessionInv'
<1> USE DEF SessionInv, SessionTypeOK, Yields
<1>1. /\ exec' \in ExecutionRecord /\ exec'.kind = "entered" /\ exec'.requests = a
      /\ exec'.terminal = terminal /\ exec'.spent = exec.spent /\ exec'.pull = "idle"
      /\ ~exec'.native /\ exec'.joined = exec.joined
  BY DEF Settled, ExecutionRecord
<1>2. SessionTypeOK'
  BY <1>1
<1>3. FenceTrue'
  BY <1>1 DEF FenceTrue
<1>4. SlotTrue'
  BY <1>1 DEF SlotTrue, TurnQuiet
<1>5. RequestsTrue'
  BY <1>1 DEF RequestsTrue, Running, Evolves
<1>6. NoReplay'
  BY <1>1 DEF NoReplay, Evolves, ExecutionRecord, CallRecord
<1>7. CloseTrue'
  BY <1>1 DEF CloseTrue, TurnQuiet, Active
<1> QED BY <1>2, <1>3, <1>4, <1>5, <1>6, <1>7

\* A request is no longer available.
LEMMA RequestUnavailableInv ==
  ASSUME SessionInv, NEW q \in Requests, RequestUnavailable(q)
  PROVE  SessionInv'
<1> USE DEF SessionInv, SessionTypeOK
<1> DEFINE a == Unavailable(exec.requests, q, TRUE, Live)
<1>1. /\ exec.requests \in AdmissionRecord /\ Yields /\ ~exec.terminal
      /\ OnePending(exec.requests) /\ exec.requests.kind[q] # "unopened"
  BY DEF RequestUnavailable, Yields, RequestsTrue, ExecutionRecord
<1>2. a \in AdmissionRecord /\ OnePending(a) /\ Evolves(exec.requests, a, {}) /\ Served(a)
  BY <1>1, UnavailableFacts
<1>3. /\ exec' = Settled([exec EXCEPT !.requests = a])
      /\ UNCHANGED <<session, calls, binding, close, doubt>>
  BY DEF RequestUnavailable, Observed
<1> HIDE DEF a
<1>4. [exec EXCEPT !.requests = a] = [exec EXCEPT !.requests = a, !.terminal = FALSE]
  BY <1>1 DEF ExecutionRecord
<1> QED BY <1>1, <1>2, <1>3, <1>4, ReadInv

\* The turn completes.
LEMMA TurnCompletesInv ==
  ASSUME SessionInv, NEW outcome \in {"completed", "canceled"}, TurnCompletes(outcome)
  PROVE  SessionInv'
<1> USE DEF SessionInv, SessionTypeOK
<1> DEFINE a == RequestsAtEnd(exec.requests, outcome)
<1>1. exec.requests \in AdmissionRecord /\ Yields /\ OnePending(exec.requests)
  BY DEF TurnCompletes, Yields, RequestsTrue, ExecutionRecord
<1>2. a \in AdmissionRecord /\ OnePending(a) /\ Evolves(exec.requests, a, {})
  <2>1. CASE outcome = "completed"
    <3>1. Evolves(exec.requests, exec.requests, {})
      BY DEF Evolves
    <3> QED BY <1>1, <2>1, <3>1 DEF RequestsAtEnd
  <2>2. CASE outcome # "completed"
    BY <1>1, <2>2, WithdrawFacts DEF RequestsAtEnd
  <2> QED BY <2>1, <2>2
<1>3. /\ exec' = Settled([exec EXCEPT !.requests = a, !.terminal = TRUE])
      /\ UNCHANGED <<session, calls, binding, close, doubt>>
  BY DEF TurnCompletes, Observed
<1> HIDE DEF a
<1> QED BY <1>1, <1>2, <1>3, ReadInv

\* A request is opened: its identity is fresh.
LEMMA RequestOpensInv ==
  ASSUME SessionInv, RequestOpens
  PROVE  SessionInv'
<1> USE DEF SessionInv, SessionTypeOK
<1> DEFINE q == session.identities + 1
           a == OpenRequest(exec.requests, q)
<1>1. /\ q \in Requests /\ q \in 0..MaxRequests /\ session.identities \in Nat
      /\ \A p \in Requests : p > q => p > session.identities
      /\ q > session.identities
  BY RequestsAssumption DEF RequestOpens, IdentityFits, SessionRecord, Requests
<1>2. /\ exec.requests \in AdmissionRecord /\ exec.kind = "entered" /\ exec.native
      /\ Pending(exec.requests) = {} /\ ~exec.terminal
  BY DEF RequestOpens, Yields, ExecutionRecord
<1>3. /\ session' = [session EXCEPT !.identities = q]
      /\ exec' = Settled([exec EXCEPT !.requests = a])
      /\ UNCHANGED <<calls, binding, close, doubt>>
  BY DEF RequestOpens, Observed
<1> HIDE DEF q
<1>4. /\ a \in AdmissionRecord /\ OnePending(a) /\ Served(a)
      /\ a.suspensions = exec.requests.suspensions /\ a.kind[q] = "pending"
      /\ \A p \in Requests : p # q => a.kind[p] = exec.requests.kind[p]
  BY <1>1, <1>2, OpenRequestFacts
<1> HIDE DEF a
<1>5. /\ exec' \in ExecutionRecord /\ exec'.kind = "entered" /\ exec'.requests = a
      /\ exec'.spent = exec.spent /\ exec'.pull = "idle"
      /\ ~exec'.native /\ exec'.joined = exec.joined
  BY <1>2, <1>3, <1>4 DEF Settled, ExecutionRecord
<1>6. /\ session' \in SessionRecord /\ session'.identities = q
      /\ session'.phase = session.phase /\ session'.stopped = session.stopped
      /\ session'.operation = session.operation /\ session'.unusable = session.unusable
      /\ session'.slot = session.slot
  BY <1>1, <1>3 DEF SessionRecord
<1>7. exec.requests.kind[q] = "unopened"
  BY <1>1, <1>2 DEF RequestsTrue
<1>8. SessionTypeOK'
  BY <1>3, <1>5, <1>6
<1>9. FenceTrue'
  BY <1>2, <1>3, <1>5, <1>6 DEF FenceTrue
<1>10. SlotTrue'
  BY <1>2, <1>3, <1>5, <1>6 DEF SlotTrue, TurnQuiet
<1>11. RequestsTrue'
  <2>1. ASSUME NEW p \in Requests
        PROVE  /\ a.suspensions[p] \subseteq calls.interrupts
               /\ a.kind[p] = "unopened" => a.suspensions[p] = {}
               /\ p > q => a.kind[p] = "unopened"
    <3>1. CASE p = q
      BY <1>2, <1>4, <1>1, <3>1 DEF RequestsTrue
    <3>2. CASE p # q
      BY <1>1, <1>2, <1>4, <3>2 DEF RequestsTrue
    <3> QED BY <3>1, <3>2
  <2> QED BY <1>3, <1>4, <1>5, <1>6, <2>1 DEF RequestsTrue
<1>12. NoReplay'
  BY <1>3, <1>4, <1>5, <1>7 DEF NoReplay, ExecutionRecord, CallRecord
<1>13. CloseTrue'
  BY <1>2, <1>3, <1>5, <1>6 DEF CloseTrue, TurnQuiet, Active
<1> QED BY <1>8, <1>9, <1>10, <1>11, <1>12, <1>13

\* An answer enters the provider, or its request is given back.
LEMMA AnswerInv ==
  ASSUME SessionInv, NEW q \in Requests, Answer(q)
  PROVE  SessionInv'
<1> USE DEF SessionInv, SessionTypeOK
<1> DEFINE a == Claim(exec.requests, q, TRUE, Live)
           b == GiveBack(a, q, TRUE, Live)
<1>1. /\ exec.requests \in AdmissionRecord /\ exec.kind = "entered" /\ ~exec.terminal
      /\ OnePending(exec.requests) /\ q \in Pending(exec.requests) /\ exec.requests.kind[q] = "pending"
      /\ UNCHANGED <<session, binding, close, doubt>>
  BY DEF Answer, Running, RequestsTrue, ExecutionRecord, Pending
<1>2. /\ a \in AdmissionRecord /\ OnePending(a) /\ Evolves(exec.requests, a, {})
      /\ Served(a) /\ a.kind[q] = "claimed"
  BY <1>1, ClaimFacts
<1>3. \/ exec' = [exec EXCEPT !.requests = a] /\ calls' = [calls EXCEPT !.answers = @ \cup {q}]
      \/ exec' = [exec EXCEPT !.requests = b] /\ UNCHANGED calls
  BY DEF Answer
<1> HIDE DEF a
<1>4. b \in AdmissionRecord /\ OnePending(b) /\ Evolves(a, b, {q}) /\ Served(b)
  BY <1>2, GiveBackFacts
<1> HIDE DEF b
<1>5. /\ exec' \in ExecutionRecord /\ exec'.kind = "entered" /\ exec'.requests \in {a, b}
      /\ exec'.spent = exec.spent /\ exec'.pull = exec.pull
      /\ exec'.native = exec.native /\ exec'.joined = exec.joined /\ exec'.requests = exec'.requests
  BY <1>1, <1>2, <1>3, <1>4 DEF ExecutionRecord
<1>6. /\ calls' \in CallRecord /\ calls'.interrupts = calls.interrupts
      /\ calls'.answers \subseteq calls.answers \cup {q}
  BY <1>3 DEF CallRecord
<1>7. q \in calls'.answers => exec'.requests = a
  BY <1>1, <1>3 DEF NoReplay, ExecutionRecord
<1>8. SessionTypeOK'
  BY <1>1, <1>5, <1>6
<1>9. FenceTrue'
  BY <1>1, <1>5 DEF FenceTrue
<1>10. SlotTrue'
  BY <1>1, <1>5 DEF SlotTrue, TurnQuiet
<1>11. RequestsTrue'
  <2>1. \A c \in {a, b} : \A p \in Requests :
          /\ c.suspensions[p] \subseteq exec.requests.suspensions[p]
          /\ c.kind[p] = "unopened" <=> exec.requests.kind[p] = "unopened"
    BY <1>2, <1>4 DEF Evolves
  <2> QED BY <1>1, <1>2, <1>4, <1>5, <1>6, <2>1 DEF RequestsTrue
<1>12. NoReplay'
  <2>1. \A p \in exec.spent : p \in Requests /\ exec.requests.kind[p] = "retired"
    BY DEF NoReplay, ExecutionRecord
  <2>2. \A p \in calls.answers :
          p \in Requests /\ exec.requests.kind[p] \in {"claimed", "retired"} /\ p # q
    BY <1>1 DEF NoReplay, CallRecord
  <2>3. \A p \in exec.spent : a.kind[p] = "retired" /\ b.kind[p] = "retired"
    BY <1>2, <1>4, <2>1 DEF Evolves
  <2>4. \A p \in calls.answers : /\ a.kind[p] \in {"claimed", "retired"}
                                 /\ b.kind[p] \in {"claimed", "retired"}
    BY <1>2, <1>4, <2>2 DEF Evolves
  <2> QED BY <1>2, <1>5, <1>6, <1>7, <2>3, <2>4 DEF NoReplay
<1>13. CloseTrue'
  BY <1>1, <1>5 DEF CloseTrue, FenceTrue, TurnQuiet, Active
<1> QED BY <1>8, <1>9, <1>10, <1>11, <1>12, <1>13

\* An interruption holds every request back.
LEMMA InterruptInv ==
  ASSUME SessionInv, NEW i \in Interruptions, Interrupt(i)
  PROVE  SessionInv'
<1> USE DEF SessionInv, SessionTypeOK
<1> DEFINE a == Suspend(exec.requests, i)
<1>1. /\ exec.requests \in AdmissionRecord /\ exec.kind = "entered"
      /\ UNCHANGED <<session, binding, close, doubt>>
  BY DEF Interrupt, Running, ExecutionRecord
<1>2. /\ a \in AdmissionRecord /\ OnePending(a) /\ Served(a)
      /\ \A q \in Requests :
           /\ a.kind[q] = IF exec.requests.kind[q] = "pending" THEN "withheld" ELSE exec.requests.kind[q]
           /\ a.suspensions[q] \subseteq exec.requests.suspensions[q] \cup {i}
           /\ exec.requests.kind[q] = "unopened" => a.suspensions[q] = exec.requests.suspensions[q]
  BY <1>1, SuspendFacts
<1>3. exec' = [exec EXCEPT !.requests = a] /\ calls' = [calls EXCEPT !.interrupts = @ \cup {i}]
  BY DEF Interrupt
<1> HIDE DEF a
<1>4. /\ exec' \in ExecutionRecord /\ exec'.kind = "entered" /\ exec'.requests = a
      /\ exec'.spent = exec.spent /\ exec'.pull = exec.pull
      /\ exec'.native = exec.native /\ exec'.joined = exec.joined
  BY <1>1, <1>2, <1>3 DEF ExecutionRecord
<1>5. /\ calls' \in CallRecord /\ calls'.interrupts = calls.interrupts \cup {i}
      /\ calls'.answers = calls.answers
  BY <1>3 DEF CallRecord
<1>6. SessionTypeOK'
  BY <1>1, <1>4, <1>5
<1>7. FenceTrue'
  BY <1>1, <1>4 DEF FenceTrue
<1>8. SlotTrue'
  BY <1>1, <1>4 DEF SlotTrue, TurnQuiet
<1>9. RequestsTrue'
  BY <1>1, <1>2, <1>4, <1>5 DEF RequestsTrue
<1>10. NoReplay'
  BY <1>2, <1>4, <1>5 DEF NoReplay, ExecutionRecord, CallRecord
<1>11. CloseTrue'
  BY <1>1, <1>4 DEF CloseTrue, FenceTrue, TurnQuiet, Active
<1> QED BY <1>6, <1>7, <1>8, <1>9, <1>10, <1>11


\* The receipt of a call: an unknown effect spoils the session.
LEMMA DoubtsFacts ==
  ASSUME SessionInv, NEW result, Doubts(result)
  PROVE  doubt' \in BOOLEAN /\ (doubt' => session.unusable \/ result = "unknown")
<1> DEFINE unknown == result = "unknown"
<1>1. unknown \in BOOLEAN /\ session.unusable \in BOOLEAN /\ session.stopped \in BOOLEAN
  BY DEF SessionInv, SessionTypeOK, SessionRecord
<1>2. doubt \in BOOLEAN /\ (doubt => session.unusable)
  BY DEF SessionInv, SessionTypeOK, FenceTrue
<1>3. doubt' = (~session.stopped /\ (doubt \/ unknown))
  BY DEF Doubts
<1> HIDE DEF unknown
<1>4. doubt' \in BOOLEAN /\ (doubt' => session.unusable \/ unknown)
  BY <1>1, <1>2, <1>3
<1> QED BY <1>4 DEF unknown

\* A session after a receipt, with the slot and the operation as they are.
LEMMA ReceiptSession ==
  ASSUME SessionInv, NEW result, NEW s,
         s = [session EXCEPT !.unusable = @ \/ result = "unknown"]
  PROVE  /\ s \in SessionRecord /\ (s.unusable <=> session.unusable \/ result = "unknown")
         /\ s.phase = session.phase /\ s.stopped = session.stopped
         /\ s.slot = session.slot /\ s.operation = session.operation
         /\ s.identities = session.identities
<1> DEFINE u == session.unusable \/ result = "unknown"
<1>1. u \in BOOLEAN
  OBVIOUS
<1>2. s = [session EXCEPT !.unusable = u]
  OBVIOUS
<1>3. session \in SessionRecord
  BY DEF SessionInv, SessionTypeOK
<1> HIDE DEF u
<1>4. /\ s \in SessionRecord /\ s.unusable = u
      /\ s.phase = session.phase /\ s.stopped = session.stopped
      /\ s.slot = session.slot /\ s.operation = session.operation
      /\ s.identities = session.identities
  BY <1>1, <1>2, <1>3 DEF SessionRecord
<1> QED BY <1>4 DEF u

\* What a receipt leaves as it was.
Receipt(s, t) ==
  /\ t.phase = s.phase /\ t.stopped = s.stopped /\ t.slot = s.slot
  /\ t.operation = s.operation /\ t.identities = s.identities
  /\ s.unusable => t.unusable

\* The receipt of a call on the turn, as far as the session goes.
LEMMA ReceiptTrue ==
  ASSUME SessionInv, NEW result, session' = [session EXCEPT !.unusable = @ \/ result = "unknown"],
         Doubts(result)
  PROVE  /\ session' \in SessionRecord /\ doubt' \in BOOLEAN
         /\ doubt' => session'.unusable
         /\ Receipt(session, session')
<1>1. /\ session' \in SessionRecord /\ (session'.unusable <=> session.unusable \/ result = "unknown")
      /\ session'.phase = session.phase /\ session'.stopped = session.stopped
      /\ session'.slot = session.slot /\ session'.operation = session.operation
      /\ session'.identities = session.identities
  BY ReceiptSession
<1>2. /\ doubt' \in BOOLEAN /\ (doubt' => session'.unusable)
      /\ session.unusable => session'.unusable
  BY <1>1, DoubtsFacts
<1> QED BY <1>1, <1>2 DEF Receipt

\* The receipt of a steer.
LEMMA SteerEndsInv ==
  ASSUME SessionInv, NEW result \in {"settled", "unknown"}, SteerEnds(result)
  PROVE  SessionInv'
<1> USE DEF SessionInv, SessionTypeOK
<1>1. /\ session' \in SessionRecord /\ doubt' \in BOOLEAN /\ (doubt' => session'.unusable)
      /\ Receipt(session, session') /\ UNCHANGED <<exec, binding, close>>
  BY ReceiptTrue DEF SteerEnds
<1>2. calls' \in CallRecord /\ calls'.answers = calls.answers /\ calls'.interrupts = calls.interrupts
  BY DEF SteerEnds, CallRecord
<1>3. TurnQuiet => FALSE
  BY DEF TurnQuiet, NoCalls, SteerEnds
<1>4. SessionTypeOK'
  BY <1>1, <1>2
<1>5. FenceTrue'
  BY <1>1 DEF FenceTrue, Receipt
<1>6. SlotTrue'
  BY <1>1, <1>3 DEF SlotTrue, Receipt
<1>7. RequestsTrue'
  BY <1>1, <1>2 DEF RequestsTrue, Receipt
<1>8. NoReplay'
  BY <1>1, <1>2 DEF NoReplay
<1>9. CloseTrue'
  BY <1>1, <1>3 DEF CloseTrue, Receipt, Active
<1> QED BY <1>4, <1>5, <1>6, <1>7, <1>8, <1>9

\* The receipt of an operation.
LEMMA OperationEndsInv ==
  ASSUME SessionInv, NEW result \in {"settled", "unknown"}, OperationEnds(result)
  PROVE  SessionInv'
<1> USE DEF SessionInv, SessionTypeOK
<1> DEFINE u == session.unusable \/ result = "unknown"
<1>1. u \in BOOLEAN
  OBVIOUS
<1>2. session' = [session EXCEPT !.operation = "none", !.slot = "free", !.unusable = u]
  BY DEF OperationEnds
<1> HIDE DEF u
<1>3. /\ session' \in SessionRecord /\ session'.unusable = u
      /\ session'.phase = session.phase /\ session'.stopped = session.stopped
      /\ session'.slot = "free" /\ session'.operation = "none"
      /\ session'.identities = session.identities
  BY <1>1, <1>2 DEF SessionRecord
<1>4. Doubts(result) /\ UNCHANGED <<exec, calls, binding, close>> /\ session.operation = "running"
  BY DEF OperationEnds
<1>5. session'.unusable <=> session.unusable \/ result = "unknown"
  BY <1>3 DEF u
<1>6. /\ doubt' \in BOOLEAN /\ (doubt' => session'.unusable)
      /\ session.unusable => session'.unusable
  BY <1>4, <1>5, DoubtsFacts
<1>7. SessionTypeOK'
  BY <1>3, <1>4, <1>6
<1>8. FenceTrue'
  BY <1>3, <1>4, <1>6 DEF FenceTrue
<1>9. SlotTrue'
  BY <1>3, <1>4 DEF SlotTrue, TurnQuiet
<1>10. RequestsTrue'
  BY <1>3, <1>4 DEF RequestsTrue
<1>11. NoReplay'
  BY <1>4 DEF NoReplay
<1>12. CloseTrue'
  BY <1>3, <1>4 DEF CloseTrue, TurnQuiet, Active
<1> QED BY <1>7, <1>8, <1>9, <1>10, <1>11, <1>12

\* The receipt of a call on the turn: what it does to the requests, whichever state the turn
\* is in when the receipt comes.
LEMMA TurnReceiptInv ==
  ASSUME SessionInv, NEW result, NEW b, NEW spent,
         ~TurnQuiet, session' = [session EXCEPT !.unusable = @ \/ result = "unknown"],
         Doubts(result), UNCHANGED <<binding, close>>,
         exec' = [exec EXCEPT !.requests = b, !.spent = spent],
         b \in AdmissionRecord, spent \in SUBSET Requests, OnePending(b),
         Running(exec) => Served(b),
         exec.kind = "stopped" => \A q \in Requests : b.kind[q] = "retired",
         calls' \in CallRecord,
         exec.kind = "entered" => \A q \in Requests :
            /\ b.kind[q] = "unopened" <=> exec.requests.kind[q] = "unopened"
            /\ b.suspensions[q] \subseteq calls'.interrupts
            /\ b.kind[q] = "unopened" => b.suspensions[q] = {},
         \A q \in spent : b.kind[q] = "retired",
         \A q \in calls'.answers : b.kind[q] \in {"claimed", "retired"}
  PROVE  SessionInv'
<1> USE DEF SessionInv, SessionTypeOK
<1>1. /\ session' \in SessionRecord /\ doubt' \in BOOLEAN /\ (doubt' => session'.unusable)
      /\ Receipt(session, session')
  BY ReceiptTrue
<1>2. /\ exec' \in ExecutionRecord /\ exec'.kind = exec.kind /\ exec'.requests = b
      /\ exec'.spent = spent /\ exec'.terminal = exec.terminal
      /\ exec'.native = exec.native /\ exec'.joined = exec.joined /\ exec'.pull = exec.pull
  BY DEF ExecutionRecord
<1>3. exec.kind \in {"entered", "stopped"}
  BY DEF SlotTrue, ExecutionRecord
<1>4. SessionTypeOK'
  BY <1>1, <1>2
<1>5. FenceTrue'
  BY <1>1, <1>2 DEF FenceTrue, Receipt
<1>6. SlotTrue'
  BY <1>1, <1>2, <1>3 DEF SlotTrue, Receipt
<1>7. RequestsTrue'
  BY <1>1, <1>2, <1>3 DEF RequestsTrue, Receipt, Running
<1>8. NoReplay'
  BY <1>2 DEF NoReplay
<1>9. CloseTrue'
  BY <1>1, <1>2, <1>3 DEF CloseTrue, Receipt, Active
<1> QED BY <1>4, <1>5, <1>6, <1>7, <1>8, <1>9

\* Before a turn is over its requests are presented one at a time, and afterwards none is.
LEMMA TurnRequestsFacts ==
  ASSUME SessionInv, exec.kind \in {"entered", "stopped"}
  PROVE  exec.requests \in AdmissionRecord /\ OnePending(exec.requests)
<1>1. exec.requests \in AdmissionRecord
  BY DEF SessionInv, SessionTypeOK, ExecutionRecord
<1>2. CASE exec.kind = "stopped"
  BY <1>1, <1>2 DEF SessionInv, RequestsTrue, OnePending, Pending
<1> QED BY <1>1, <1>2 DEF SessionInv, RequestsTrue

\* The receipt of an answer.
LEMMA AnswerEndsInv ==
  ASSUME SessionInv, NEW q \in Requests, NEW result \in {"settled", "refused", "unknown"},
         AnswerEnds(q, result)
  PROVE  SessionInv'
<1> DEFINE running == Running(exec)
           a == exec.requests
           b == IF result = "refused" THEN GiveBack(a, q, running, Live)
                                      ELSE RetireClaim(a, q, running, Live)
           spent == Spent(IF result = "refused" THEN {} ELSE {q})
<1>1. /\ exec \in ExecutionRecord /\ calls \in CallRecord /\ q \in calls.answers
      /\ calls' = [calls EXCEPT !.answers = @ \ {q}] /\ UNCHANGED <<binding, close>>
      /\ session' = [session EXCEPT !.unusable = @ \/ result = "unknown"] /\ Doubts(result)
  BY DEF AnswerEnds, SessionInv, SessionTypeOK
<1>2. exec' = [exec EXCEPT !.requests = b, !.spent = spent]
  BY DEF AnswerEnds
<1>3. ~TurnQuiet /\ exec.kind \in {"entered", "stopped"}
  BY <1>1 DEF TurnQuiet, NoCalls, SessionInv, SlotTrue, ExecutionRecord
<1>4. /\ a \in AdmissionRecord /\ OnePending(a) /\ running \in BOOLEAN
      /\ a.kind[q] \in {"claimed", "retired"}
  BY <1>1, <1>3, TurnRequestsFacts DEF Running, SessionInv, NoReplay
<1>5. running => Served(a) /\ exec.kind = "entered"
  BY DEF SessionInv, RequestsTrue, Running
<1>6. /\ calls' \in CallRecord /\ calls'.answers = calls.answers \ {q}
      /\ calls'.interrupts = calls.interrupts
  BY <1>1 DEF CallRecord
<1>7. spent \in SUBSET Requests /\ spent \subseteq exec.spent \cup (IF result = "refused" THEN {} ELSE {q})
  BY <1>1 DEF Spent, ExecutionRecord
<1> HIDE DEF running, spent
<1>8. /\ b \in AdmissionRecord /\ OnePending(b) /\ Evolves(a, b, {q}) /\ (running => Served(b))
      /\ result # "refused" => b.kind[q] = "retired"
  <2>1. CASE result = "refused"
    BY <1>4, <1>5, <2>1, GiveBackFacts
  <2>2. CASE result # "refused"
    <3>1. /\ b \in AdmissionRecord /\ OnePending(b) /\ Evolves(a, b, {})
          /\ running /\ Served(a) => Served(b)
          /\ a.kind[q] \in {"claimed", "retired"} => b.kind[q] = "retired"
      BY <1>4, <2>2, RetireClaimFacts
    <3>2. Evolves(a, b, {q})
      BY <3>1 DEF Evolves
    <3> QED BY <1>4, <1>5, <3>1, <3>2
  <2> QED BY <2>1, <2>2
<1> HIDE DEF b
<1>9. exec.kind = "stopped" => \A p \in Requests : b.kind[p] = "retired"
  BY <1>8 DEF Evolves, SessionInv, RequestsTrue
<1>10. exec.kind = "entered" => \A p \in Requests :
            /\ b.kind[p] = "unopened" <=> exec.requests.kind[p] = "unopened"
            /\ b.suspensions[p] \subseteq calls'.interrupts
            /\ b.kind[p] = "unopened" => b.suspensions[p] = {}
  BY <1>6, <1>8 DEF Evolves, SessionInv, RequestsTrue
<1>11. \A p \in exec.spent : p \in Requests /\ a.kind[p] = "retired"
  BY <1>1 DEF SessionInv, NoReplay, ExecutionRecord
<1>12. \A p \in spent : b.kind[p] = "retired"
  BY <1>7, <1>8, <1>11 DEF Evolves
<1>13. \A p \in calls'.answers : b.kind[p] \in {"claimed", "retired"}
  <2>1. \A p \in calls'.answers : p \in Requests /\ p # q /\ a.kind[p] \in {"claimed", "retired"}
    BY <1>1, <1>6 DEF SessionInv, NoReplay, CallRecord
  <2> QED BY <1>8, <2>1 DEF Evolves
<1>14. Running(exec) => Served(b)
  BY <1>8 DEF running
<1> HIDE DEF a
<1> QED BY <1>1, <1>2, <1>3, <1>6, <1>7, <1>8, <1>9, <1>10, <1>12, <1>13, <1>14, TurnReceiptInv

\* The receipt of an interruption.
LEMMA InterruptEndsInv ==
  ASSUME SessionInv, NEW i \in Interruptions, NEW result \in {"accepted", "failed", "unknown"},
         InterruptEnds(i, result)
  PROVE  SessionInv'
<1> DEFINE running == Running(exec)
           a == exec.requests
           b == IF result = "failed" THEN Resume(a, i, running, Live) ELSE Withdraw(a)
           spent == Spent(IF result = "failed" THEN {} ELSE Opened(exec.requests))
<1>1. /\ exec \in ExecutionRecord /\ calls \in CallRecord /\ i \in calls.interrupts
      /\ calls' = [calls EXCEPT !.interrupts = @ \ {i}] /\ UNCHANGED <<binding, close>>
      /\ session' = [session EXCEPT !.unusable = @ \/ result = "unknown"] /\ Doubts(result)
  BY DEF InterruptEnds, SessionInv, SessionTypeOK
<1>2. exec' = [exec EXCEPT !.requests = b, !.spent = spent]
  BY DEF InterruptEnds, AfterInterruption
<1>3. ~TurnQuiet /\ exec.kind \in {"entered", "stopped"}
  BY <1>1 DEF TurnQuiet, NoCalls, SessionInv, SlotTrue, ExecutionRecord
<1>4. a \in AdmissionRecord /\ OnePending(a) /\ running \in BOOLEAN
  BY <1>3, TurnRequestsFacts DEF Running
<1>5. /\ calls' \in CallRecord /\ calls'.answers = calls.answers
      /\ calls'.interrupts = calls.interrupts \ {i}
  BY <1>1 DEF CallRecord
<1>6. /\ spent \in SUBSET Requests
      /\ spent \subseteq exec.spent \cup (IF result = "failed" THEN {} ELSE Opened(a))
  BY <1>1 DEF Spent, ExecutionRecord, Opened
<1> HIDE DEF running, spent
<1>7. /\ b \in AdmissionRecord /\ OnePending(b) /\ Evolves(a, b, {}) /\ (running => Served(b))
      /\ result = "failed" => \A q \in Requests : i \notin b.suspensions[q]
      /\ result # "failed" => \A q \in Requests :
           a.kind[q] # "unopened" => b.kind[q] = "retired" /\ b.suspensions[q] = {}
  <2>1. CASE result = "failed"
    BY <1>4, <2>1, ResumeFacts
  <2>2. CASE result # "failed"
    BY <1>4, <2>2, WithdrawFacts
  <2> QED BY <2>1, <2>2
<1> HIDE DEF b
<1>8. exec.kind = "stopped" => \A q \in Requests : b.kind[q] = "retired"
  BY <1>7 DEF Evolves, SessionInv, RequestsTrue
<1>9. exec.kind = "entered" => \A q \in Requests :
            /\ b.kind[q] = "unopened" <=> exec.requests.kind[q] = "unopened"
            /\ b.suspensions[q] \subseteq calls'.interrupts
            /\ b.kind[q] = "unopened" => b.suspensions[q] = {}
  BY <1>5, <1>7 DEF Evolves, SessionInv, RequestsTrue
<1>10. \A q \in exec.spent : q \in Requests /\ a.kind[q] = "retired"
  BY <1>1 DEF SessionInv, NoReplay, ExecutionRecord
<1>11. \A q \in spent : b.kind[q] = "retired"
  <2>1. \A q \in exec.spent : b.kind[q] = "retired"
    BY <1>7, <1>10 DEF Evolves
  <2>2. result # "failed" => \A q \in Opened(a) : b.kind[q] = "retired"
    BY <1>7 DEF Opened
  <2> QED BY <1>6, <2>1, <2>2
<1>12. \A q \in calls'.answers : b.kind[q] \in {"claimed", "retired"}
  <2>1. \A q \in calls'.answers : q \in Requests /\ a.kind[q] \in {"claimed", "retired"}
    BY <1>1, <1>5 DEF SessionInv, NoReplay, CallRecord
  <2> QED BY <1>7, <2>1 DEF Evolves
<1>13. Running(exec) => Served(b)
  BY <1>7 DEF running
<1> HIDE DEF a
<1> QED BY <1>1, <1>2, <1>3, <1>5, <1>6, <1>7, <1>8, <1>9, <1>11, <1>12, <1>13, TurnReceiptInv

\* The close joins the turn.
LEMMA JoinTurnInv ==
  ASSUME SessionInv, JoinTurn
  PROVE  SessionInv'
<1> USE DEF SessionInv, SessionTypeOK
<1> DEFINE over == ~exec.sourced
<1>1. over \in BOOLEAN
  OBVIOUS
<1>2. /\ close.pc = "join" /\ UNCHANGED <<session, binding, calls, doubt>>
      /\ \/ /\ ~close.turn \/ exec.joined
            /\ close' = [close EXCEPT !.pc = "operations"] /\ UNCHANGED exec
         \/ /\ close.turn /\ ~exec.joined /\ TurnQuiet
            /\ close' = [close EXCEPT !.pc = IF exec.sourced THEN "return" ELSE "operations"]
            /\ exec' = [exec EXCEPT !.joined = over]
  BY DEF JoinTurn, Goes
<1> HIDE DEF over
<1>3. /\ close' \in CloseRecord /\ close'.pc \in {"return", "operations"}
      /\ close'.turn = close.turn /\ close'.providerClosed = close.providerClosed
      /\ close'.pc = "return" => close.turn
  BY <1>2 DEF CloseRecord
<1>4. /\ exec' \in ExecutionRecord /\ exec'.kind = exec.kind /\ exec'.requests = exec.requests
      /\ exec'.spent = exec.spent /\ exec'.terminal = exec.terminal
      /\ exec'.native = exec.native /\ exec'.pull = exec.pull
      /\ exec'.joined => exec.joined \/ TurnQuiet
  BY <1>1, <1>2 DEF ExecutionRecord
<1>5. session.stopped /\ TurnQuiet /\ close.providerClosed
  BY <1>2 DEF CloseTrue
<1>6. exec.kind \notin {"reserved", "entered"} /\ (exec.kind = "none" => exec' = exec)
  BY <1>2, <1>5 DEF FenceTrue, CloseTrue
<1>7. SessionTypeOK'
  BY <1>2, <1>3, <1>4
<1>8. FenceTrue'
  BY <1>2, <1>4 DEF FenceTrue
<1>9. SlotTrue'
  BY <1>2, <1>4 DEF SlotTrue, TurnQuiet
<1>10. RequestsTrue'
  BY <1>2, <1>4, <1>6 DEF RequestsTrue
<1>11. NoReplay'
  BY <1>2, <1>4 DEF NoReplay
<1>12. CloseTrue'
  BY <1>2, <1>3, <1>4, <1>5 DEF CloseTrue, TurnQuiet, Active
<1> QED BY <1>7, <1>8, <1>9, <1>10, <1>11, <1>12

\* The iterator of the provider returns.
LEMMA ReturnSourceInv ==
  ASSUME SessionInv, ReturnSource
  PROVE  SessionInv'
<1> USE DEF SessionInv, SessionTypeOK
<1>1. CASE Fails /\ UNCHANGED exec
  <2>1. /\ close' \in CloseRecord /\ close'.pc = "idle"
        /\ close'.turn = close.turn /\ close'.providerClosed = close.providerClosed
        /\ UNCHANGED <<calls, doubt, session, binding, exec>>
    BY <1>1, FailsFacts DEF ReturnSource
  <2> QED BY <2>1 DEF FenceTrue, SlotTrue, RequestsTrue, NoReplay, CloseTrue, TurnQuiet, Active
<1>2. CASE Goes([close EXCEPT !.pc = "operations"]) /\ exec' = [exec EXCEPT !.joined = TRUE]
  <2>1. /\ close.pc = "return" /\ UNCHANGED <<session, binding, calls, doubt>>
    BY <1>2 DEF ReturnSource, Goes
  <2>2. /\ close' \in CloseRecord /\ close'.pc = "operations"
        /\ close'.turn = close.turn /\ close'.providerClosed = close.providerClosed
    BY <1>2 DEF Goes, CloseRecord
  <2>3. /\ exec' \in ExecutionRecord /\ exec'.kind = exec.kind /\ exec'.requests = exec.requests
        /\ exec'.spent = exec.spent /\ exec'.terminal = exec.terminal
        /\ exec'.native = exec.native /\ exec'.pull = exec.pull
    BY <1>2 DEF ExecutionRecord
  <2>4. session.stopped /\ TurnQuiet /\ close.providerClosed
    BY <2>1 DEF CloseTrue
  <2>5. exec.kind \notin {"reserved", "entered", "none"}
    BY <2>1, <2>4 DEF FenceTrue, CloseTrue
  <2>6. SessionTypeOK'
    BY <2>1, <2>2, <2>3
  <2>7. FenceTrue'
    BY <2>1, <2>3 DEF FenceTrue
  <2>8. SlotTrue'
    BY <2>1, <2>3 DEF SlotTrue, TurnQuiet
  <2>9. RequestsTrue'
    BY <2>1, <2>3, <2>5 DEF RequestsTrue
  <2>10. NoReplay'
    BY <2>1, <2>3 DEF NoReplay
  <2>11. CloseTrue'
    BY <2>1, <2>2, <2>3, <2>4 DEF CloseTrue, TurnQuiet, Active
  <2> QED BY <2>6, <2>7, <2>8, <2>9, <2>10, <2>11
<1> QED BY <1>1, <1>2 DEF ReturnSource


\* The invariant holds of a session that is being opened.
LEMMA SessionInitInv ==
  ASSUME SessionInit
  PROVE  SessionInv
<1>1. /\ exec \in ExecutionRecord /\ exec = NewExecution("none") /\ exec.kind = "none"
      /\ exec.spent = {} /\ exec.pull = "idle" /\ ~exec.native /\ ~exec.joined
  BY NewExecutionFacts DEF SessionInit
<1>2. /\ session \in SessionRecord /\ session.slot = "free" /\ session.operation = "none"
      /\ ~session.stopped /\ ~session.unusable
  BY SessionAssumption, RequestsAssumption DEF SessionInit, SessionRecord
<1>3. calls = NoCalls /\ calls \in CallRecord /\ calls.answers = {}
  BY DEF SessionInit, CallRecord, NoCalls
<1>4. binding \in BindingRecord /\ ~binding.released
  BY DEF SessionInit, BindingRecord
<1>5. close \in CloseRecord /\ close.pc = "idle" /\ ~close.turn
  BY SessionAssumption DEF SessionInit, CloseRecord
<1>6. doubt = FALSE
  BY DEF SessionInit
<1>7. SessionTypeOK
  BY <1>1, <1>2, <1>3, <1>4, <1>5, <1>6 DEF SessionTypeOK
<1>8. FenceTrue /\ SlotTrue /\ CloseTrue
  BY <1>1, <1>2, <1>3, <1>4, <1>5, <1>6 DEF FenceTrue, SlotTrue, CloseTrue, TurnQuiet
<1>9. RequestsTrue /\ NoReplay
  BY <1>1, <1>3 DEF RequestsTrue, NoReplay
<1> QED BY <1>7, <1>8, <1>9 DEF SessionInv

\* Every step keeps the invariant.
LEMMA SessionStepInv ==
  ASSUME SessionInv, [SessionNext]_sessionVars
  PROVE  SessionInv'
<1>1. CASE UNCHANGED sessionVars
  BY <1>1 DEF sessionVars, SessionInv, SessionTypeOK, FenceTrue, SlotTrue, RequestsTrue,
     NoReplay, CloseTrue, TurnQuiet, Active
<1>2. CASE Opens \/ OpeningRejected \/ Settle \/ Close \/ \E v \in Invocations : Invoke(v)
  BY <1>2, OpensInv, OpeningRejectedInv, SettleInv, CloseInv, InvokeInv
<1>3. CASE Consumer
  BY <1>3, StartTurnInv, EnterInv, PullInv, ReturnInv, AbortTurnInv DEF Consumer
<1>4. CASE Output
  BY <1>4, ProgressInv, InvalidInv, OutputEndsInv, RequestOpensInv, IdentityLimitInv,
     RequestUnavailableInv, SubjectEndsInv, TurnCompletesInv DEF Output
<1>5. CASE Controls
  BY <1>5, AnswerInv, InterruptInv, SteerInv, InvokeOperationInv DEF Controls
<1>6. CASE CallsEnd
  BY <1>6, AnswerEndsInv, InterruptEndsInv, SteerEndsInv, OperationEndsInv,
     OperationListedInv, LatePullInv DEF CallsEnd
<1>7. CASE HostTools
  BY <1>7, InvocationEntersInv, InvocationEndsInv DEF HostTools
<1>8. CASE Closing
  BY <1>8, CloseProviderInv, JoinTurnInv, ReturnSourceInv, JoinOperationsInv, DrainBindingInv,
     ReleaseBindingInv DEF Closing
<1> QED BY <1>1, <1>2, <1>3, <1>4, <1>5, <1>6, <1>7, <1>8 DEF SessionNext

\* The inductive invariant of a session holds throughout, whatever the callers, the consumer,
\* the provider and the host do and in whatever order their calls end.
THEOREM SessionInvariant == SessionSpec => []SessionInv
<1>1. SessionInit => SessionInv
  BY SessionInitInv
<1>2. SessionInv /\ [SessionNext]_sessionVars => SessionInv'
  BY SessionStepInv
<1> QED BY <1>1, <1>2, PTL DEF SessionSpec

\* Requests are presented one at a time and none is left behind (turnExecution/requests.ts),
\* through any number of overlapping interruptions and answers.
THEOREM RequestsAreFair == SessionSpec => []FairlyPresented
<1>1. SessionInv => FairlyPresented
  <2> SUFFICES ASSUME SessionInv PROVE FairlyPresented
    OBVIOUS
  <2>1. OneAnswerable
    <3>1. CASE exec.kind = "entered"
      BY <3>1 DEF SessionInv, RequestsTrue, OnePending, OneAnswerable
    <3>2. CASE exec.kind \in {"settled", "stopped"}
      BY <3>2 DEF SessionInv, RequestsTrue, OneAnswerable, Pending
    <3>3. CASE exec.kind \in {"none", "reserved"}
      <4>1. exec.requests = NoRequests
        BY <3>3, NewExecutionFacts DEF SessionInv, RequestsTrue
      <4> QED BY <4>1, NoRequestsFacts DEF OneAnswerable, OnePending
    <3> QED BY <3>1, <3>2, <3>3 DEF SessionInv, SessionTypeOK, ExecutionRecord
  <2>2. HeldBack
    <3>1. SUFFICES ASSUME Running(exec), Pending(exec.requests) = {}, NEW q \in Requests,
                          exec.requests.kind[q] = "withheld"
                   PROVE  exec.requests.suspensions[q] \cap calls.interrupts # {}
      BY DEF HeldBack
    <3>2. Served(exec.requests) /\ exec.requests.suspensions[q] \subseteq calls.interrupts
      BY <3>1 DEF SessionInv, RequestsTrue, Running
    <3>3. exec.requests.suspensions[q] # {}
      BY <3>1, <3>2 DEF Served, Ready
    <3> QED BY <3>2, <3>3
  <2> QED BY <2>1, <2>2 DEF FairlyPresented
<1> QED BY <1>1, SessionInvariant, PTL

\* An answer that had or may have had an effect, and a request an interruption may have
\* withdrawn, are never presented again (sessionValidation.ts, resolveRequest, interruptTurn).
THEOREM NothingReplayed == SessionSpec => []NoReplay
<1>1. SessionInv => NoReplay
  BY DEF SessionInv
<1> QED BY <1>1, SessionInvariant, PTL

\* A turn and an operation never overlap in the provider, and a new turn finds nothing of the
\* one before under way (sessionAdmission.ts).
THEOREM ExecutionsApart == SessionSpec => []OneExecution
<1>1. SessionInv => OneExecution
  BY DEF SessionInv, SlotTrue, OneExecution, TurnQuiet
<1> QED BY <1>1, SessionInvariant, PTL

\* The host's release is entered only when the provider is closed and nothing is inside the
\* provider or the host any more (sessionValidation.ts closeOwned, hostBindings/lifetime.ts).
THEOREM ReleaseIsLast == SessionSpec => []BindingReleasedLast
<1>1. SessionInv => BindingReleasedLast
  BY DEF SessionInv, CloseTrue, FenceTrue, BindingReleasedLast, TurnQuiet
<1> QED BY <1>1, SessionInvariant, PTL

\* The stop of an execution and the begin of a close let nothing in.
LEMMA StopsEntry ==
  ASSUME SessionInv, NEW x \in ExecutionRecord, StopExecution(x) \/ BeginClose(x)
  PROVE  exec'.kind # "entered" /\ session'.operation = session.operation
<1> DEFINE s == AfterStop(session, x)
<1>1. session \in SessionRecord
  BY DEF SessionInv, SessionTypeOK
<1>2. exec' = Stopped(x) /\ session' \in {s, [s EXCEPT !.unusable = TRUE, !.stopped = TRUE]}
  BY DEF StopExecution, BeginClose
<1>3. exec'.kind # "entered"
  BY <1>2, StoppedFacts
<1>4. s \in SessionRecord /\ StoppedWith(session, x, s)
  BY <1>1, AfterStopFacts
<1> HIDE DEF s
<1>5. session'.operation = s.operation
  BY <1>2, <1>4 DEF SessionRecord
<1> QED BY <1>3, <1>4, <1>5 DEF StoppedWith

\* An answer, control, operation or turn enters the provider only while the session is usable,
\* which it is not after an unknown effect or once a close has begun.
THEOREM DoubtIsFinal == SessionSpec => NoEntryAfterDoubt
<1> DEFINE Closed == doubt \/ session.stopped =>
             /\ calls'.answers \subseteq calls.answers
             /\ calls'.interrupts \subseteq calls.interrupts
             /\ calls'.steering => calls.steering
             /\ session'.operation = "running" => session.operation = "running"
             /\ exec'.kind = "entered" => exec.kind = "entered"
<1>1. SessionInv /\ SessionInv' /\ [SessionNext]_sessionVars => [Closed]_sessionVars
  <2> SUFFICES ASSUME SessionInv, SessionInv', SessionNext, doubt \/ session.stopped
               PROVE  Closed
    BY DEF sessionVars
  <2> USE DEF SessionInv, SessionTypeOK
  <2>1. session.unusable
    BY DEF FenceTrue
  <2>2. ~Usable /\ ~SlotForOperation
    BY <2>1 DEF Usable, SlotForOperation
  <2>3. ASSUME NEW x \in ExecutionRecord, StopExecution(x) \/ BeginClose(x), UNCHANGED calls
        PROVE  Closed
    BY <2>3, StopsEntry
  <2>4. CASE Opens \/ OpeningRejected \/ HostTools \/ \E v \in Invocations : Invoke(v)
    BY <2>4 DEF Opens, OpeningRejected, HostTools, Invoke, InvocationEnters, InvocationEnds,
       SessionRecord
  <2>5. CASE Settle
    <3>1. CASE StopExecution(exec)
      BY <2>3, <2>5, <3>1 DEF Settle
    <3>2. CASE exec' = Over(exec, "settled") /\ session' = [session EXCEPT !.slot = "free"]
      <4>1. exec'.kind = "settled"
        BY <3>2, OverFacts
      <4> QED BY <2>5, <3>2, <4>1 DEF Settle, SessionRecord
    <3> QED BY <2>5, <3>1, <3>2 DEF Settle
  <2>6. CASE Close \/ Return \/ AbortTurn
    BY <2>3, <2>6 DEF Close, Return, AbortTurn
  <2>7. CASE StartTurn \/ Enter \/ Controls
    BY <2>2, <2>7 DEF StartTurn, Enter, Controls, Answer, Interrupt, Steer, InvokeOperation
  <2>8. CASE Invalid \/ IdentityLimit
    <3>1. Settled(exec) \in ExecutionRecord
      BY DEF Settled, ExecutionRecord
    <3> QED BY <2>3, <2>8, <3>1 DEF Invalid, IdentityLimit
  <2>9. CASE Pull \/ (Output /\ ~Invalid /\ ~IdentityLimit)
    BY <2>9 DEF Pull, Output, Progress, OutputEnds, RequestOpens, RequestUnavailable,
       SubjectEnds, TurnCompletes, Yields, Observed, SessionRecord
  <2>10. CASE CallsEnd
    <3>1. CASE \E q \in Requests, result \in {"settled", "refused", "unknown"} : AnswerEnds(q, result)
      BY <3>1 DEF AnswerEnds, CallRecord, ExecutionRecord, SessionRecord
    <3>2. CASE \E i \in Interruptions, result \in {"accepted", "failed", "unknown"} :
                 InterruptEnds(i, result)
      BY <3>2 DEF InterruptEnds, CallRecord, ExecutionRecord, SessionRecord
    <3>3. CASE \E result \in {"settled", "unknown"} : SteerEnds(result) \/ OperationEnds(result)
      BY <3>3 DEF SteerEnds, OperationEnds, CallRecord, SessionRecord
    <3>4. CASE OperationListed \/ LatePull
      BY <2>2, <3>4 DEF OperationListed, LatePull, ExecutionRecord, SessionRecord
    <3> QED BY <2>10, <3>1, <3>2, <3>3, <3>4 DEF CallsEnd
  <2>11. CASE Closing
    BY <2>11, FailsFacts DEF Closing, CloseProvider, JoinTurn, ReturnSource, JoinOperations,
       DrainBinding, ReleaseBinding, Goes, ExecutionRecord, SessionRecord
  <2> QED BY <2>4, <2>5, <2>6, <2>7, <2>8, <2>9, <2>10, <2>11 DEF SessionNext, Consumer, Output
<1> QED BY <1>1, SessionInvariant, PTL DEF SessionSpec, NoEntryAfterDoubt


===============================================================================
