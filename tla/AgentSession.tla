----------------------------- MODULE AgentSession -----------------------------
(***************************************************************************)
(* A validated provider session of agent-runtime: its admission            *)
(* (sessionAdmission.ts), its turn executions (turnExecution/execution.ts),*)
(* the controls and the close of validateAgentProviderSession              *)
(* (sessionValidation.ts) and the host binding lent to the provider        *)
(* (hostBindings/lifetime.ts).                                             *)
(*                                                                         *)
(* An action is the code between two awaits.  Callers, the consumer of the *)
(* output and the provider are the environment: they call when they like,  *)
(* and a provider's call ends as it likes.  An event that touches none of  *)
(* this state is the event "progress"; one out of sequence is "invalid".   *)
(* Execution input, native continuations and session interactions, which   *)
(* a session may be opened without, are not in use.                        *)
(*                                                                         *)
(* Two bounds are in the guards: one steering call and one operation at a  *)
(* time.  The code lets several of each wait; of the operations only one   *)
(* can have the execution slot.                                            *)
(***************************************************************************)
EXTENDS TurnRequests

CONSTANTS
  Invocations,      \* host tool invocations, by id
  MaxTurns,         \* bound: executions of a behaviour
  MaxFailures,      \* bound: failures of a cleanup step
  maxInvocations    \* the limit of a binding (16)

ASSUME SessionAssumption ==
  /\ IsFiniteSet(Invocations)
  /\ MaxTurns \in Nat /\ MaxFailures \in Nat /\ maxInvocations \in Nat

VARIABLES
  session,        \* createAgentSessionValidationOwner and sessionAdmission
  exec,           \* the latest execution
  calls,          \* its inFlightOperations
  binding,        \* the lease, and [Invocations -> where the tool call is]
  close,          \* closeOwned
  doubt           \* history: some effect on the provider is unknown; no code reads it

sessionVars == <<session, exec, calls, binding, close, doubt>>

SessionRecord ==
  [phase : {"opening", "open", "rejected"},
   unusable : BOOLEAN, stopped : BOOLEAN, closed : BOOLEAN,
   slot : {"free", "turn", "operation"},
   operation : {"none", "listing", "running"},
   identities : 0..MaxRequests,                     \* requestIds, of which MaxRequests fit
   turns : 0..MaxTurns]

ExecutionRecord ==
  [kind : {"none", "reserved", "entered", "settled", "stopped"},
   sourced : BOOLEAN,                               \* source # undefined
   terminal : BOOLEAN,
   requests : AdmissionRecord,
   dead : SUBSET Requests,                          \* approval subjects that are gone
   pull : {"idle", "native", "drain"},              \* where next() waits
   native : BOOLEAN,                                \* nativeOperations holds a pull
   joined : BOOLEAN,                                \* joinPromise is fulfilled
   spent : SUBSET Requests]     \* history, which no code reads: requests whose answer
                                \* had or may have had an effect, and those opened
                                \* before an interruption that may have been accepted

CallRecord ==
  [answers : SUBSET Requests, interrupts : SUBSET Interruptions, steering : BOOLEAN]

BindingRecord ==
  [stopped : BOOLEAN, released : BOOLEAN,
   invocations : [Invocations -> {"none", "admitted", "running"}]]

CloseRecord ==
  [pc : {"idle", "provider", "join", "return", "operations", "drain", "release"},
   turn : BOOLEAN,                                  \* closingTurn
   providerClosed : BOOLEAN, failures : 0..MaxFailures]

SessionTypeOK ==
  /\ session \in SessionRecord /\ exec \in ExecutionRecord /\ calls \in CallRecord
  /\ binding \in BindingRecord /\ close \in CloseRecord /\ doubt \in BOOLEAN

NoCalls == [answers |-> {}, interrupts |-> {}, steering |-> FALSE]

NewExecution(kind) ==
  [kind |-> kind, sourced |-> FALSE, terminal |-> FALSE, requests |-> NoRequests,
   dead |-> {}, pull |-> "idle", native |-> FALSE, joined |-> FALSE,
   spent |-> {}]

SessionInit ==
  /\ session = [phase |-> "opening", unusable |-> FALSE, stopped |-> FALSE, closed |-> FALSE,
                slot |-> "free", operation |-> "none", identities |-> 0, turns |-> 0]
  /\ exec = NewExecution("none")
  /\ calls = NoCalls
  /\ binding = [stopped |-> FALSE, released |-> FALSE,
                invocations |-> [v \in Invocations |-> "none"]]
  /\ close = [pc |-> "idle", turn |-> FALSE, providerClosed |-> FALSE, failures |-> 0]
  /\ doubt = FALSE

--------------------------------------------------------------------------------
(* Shared pieces *)

\* Mutant: a check that forgets the fence.
OpenOnly == session.phase = "open" /\ ~session.closed

\* requireUsable
Usable == session.phase = "open" /\ ~session.unusable /\ ~session.closed

\* canRestore, and with Usable requireAnswerable
Running(x) == x.kind = "entered" /\ ~x.terminal
Live == Requests \ exec.dead

\* An execution that is over: every request is retired, and nothing else that its
\* output told is ever read again.
Over(x, kind) ==
  [NewExecution(kind) EXCEPT !.sourced = x.sourced, !.native = x.native,
     !.requests = Retire(NoRequests, Requests)]

\* stop of an execution: the requests go, an outstanding next() rejects, the native
\* pull stays; a turn that was entered keeps its slot and spoils the session.
Stopped(x) == IF x.kind \in {"reserved", "entered"} THEN Over(x, "stopped") ELSE x

AfterStop(s, x) ==
  CASE x.kind = "entered" -> [s EXCEPT !.unusable = TRUE]
    [] x.kind = "reserved" -> [s EXCEPT !.slot = "free"]
    [] OTHER -> s

StopExecution(x) == exec' = Stopped(x) /\ session' = AfterStop(session, x)

\* closeOwned up to its first await, with execution x; a close under way is shared.
BeginClose(x) ==
  IF close.pc # "idle" \/ session.closed
  THEN StopExecution(x) /\ UNCHANGED <<binding, close, doubt>>
  ELSE /\ exec' = Stopped(x)
       /\ session' = [AfterStop(session, x) EXCEPT !.unusable = TRUE, !.stopped = TRUE]
       /\ binding' = [binding EXCEPT !.stopped = TRUE]
       /\ close' = [close EXCEPT !.pc = IF close.providerClosed THEN "join" ELSE "provider",
                                 !.turn = session.slot = "turn"]
       /\ doubt' = FALSE

Spent(requests) == IF exec.kind = "entered" THEN exec.spent \cup requests ELSE exec.spent

\* A session that is being closed is past all doubt.
Doubts(result) == doubt' = (~session.stopped /\ (doubt \/ result = "unknown"))

--------------------------------------------------------------------------------
(* Opening: withAgentSessionHostBinding, invokeAgentSessionOpening *)

Opens ==
  /\ session.phase = "opening"
  /\ session' = [session EXCEPT !.phase = "open"]
  /\ UNCHANGED <<exec, calls, binding, close, doubt>>

\* The candidate rejects, returns an invalid session, or retains a cleanup of its own.
OpeningRejected ==
  /\ session.phase = "opening"
  /\ session' = [session EXCEPT !.phase = "rejected", !.unusable = TRUE, !.stopped = TRUE]
  /\ binding' = [binding EXCEPT !.stopped = TRUE]
  /\ \/ close' = [close EXCEPT !.pc = "join", !.providerClosed = TRUE]
     \/ close' = [close EXCEPT !.pc = "provider"]
     \/ close.failures < MaxFailures /\ close' = [close EXCEPT !.failures = @ + 1]
  /\ UNCHANGED <<exec, calls, doubt>>

--------------------------------------------------------------------------------
(* Executions and their output *)

\* startTurn: reserveExecution and installExecution.
StartTurn ==
  /\ Usable /\ ~session.stopped /\ session.slot = "free" /\ session.turns < MaxTurns
  /\ session' = [session EXCEPT !.slot = "turn", !.turns = @ + 1]
  /\ exec' = NewExecution("reserved")
  /\ UNCHANGED <<calls, binding, close, doubt>>

\* The first next(): the observer may refuse, and the candidate may fail to start.
Enter ==
  /\ exec.kind = "reserved" /\ Usable
  /\ LET entered == [exec EXCEPT !.kind = "entered"] IN
     \/ /\ exec' = [entered EXCEPT !.sourced = TRUE, !.pull = "native", !.native = TRUE]
        /\ UNCHANGED session
     \/ StopExecution(entered)
     \/ /\ exec' = Over(exec, "settled")
        /\ session' = [session EXCEPT !.slot = "free"]
  /\ UNCHANGED <<calls, binding, close, doubt>>

Pull ==
  /\ exec.kind = "entered" /\ exec.pull = "idle"
  /\ exec' = [exec EXCEPT !.pull = "native", !.native = TRUE]
  /\ UNCHANGED <<session, calls, binding, close, doubt>>

\* The provider settles the pull of an execution that still reads.
Yields == exec.kind = "entered" /\ exec.native
Settled(x) == [x EXCEPT !.native = FALSE, !.pull = "idle"]
Observed(x) == exec' = Settled(x) /\ UNCHANGED <<calls, binding, close, doubt>>

Progress == Yields /\ Observed(exec) /\ UNCHANGED session

\* A rejected pull, an invalid event, or one out of sequence.
Invalid ==
  /\ Yields /\ StopExecution(Settled(exec))
  /\ UNCHANGED <<calls, binding, close, doubt>>

\* claimRequest, of a fresh identity.
IdentityFits == session.identities < MaxRequests

RequestOpens ==
  /\ Yields /\ ~exec.terminal /\ Pending(exec.requests) = {} /\ IdentityFits
  /\ Observed([exec EXCEPT !.requests = OpenRequest(@, session.identities + 1)])
  /\ session' = [session EXCEPT !.identities = @ + 1]

\* One identity too many: the reader stops and abandons the session.
IdentityLimit ==
  /\ Yields /\ ~exec.terminal /\ Pending(exec.requests) = {}
  /\ ~IdentityFits
  /\ BeginClose(Settled(exec))
  /\ UNCHANGED calls

RequestUnavailable(q) ==
  /\ Yields /\ ~exec.terminal
  /\ exec.requests.kind[q] \notin {"unopened", "retired"}
  /\ Observed([exec EXCEPT !.requests = Unavailable(@, q, TRUE, Live)])
  /\ UNCHANGED session

\* The item a request asks about ends; with the request unclaimed it is a violation.
SubjectEnds(q) ==
  /\ Yields /\ ~exec.terminal
  /\ q \in Opened(exec.requests) \ (exec.dead \cup Unclaimed(exec.requests))
  /\ Observed([exec EXCEPT !.dead = @ \cup {q}])
  /\ UNCHANGED session

\* turn.completed: any outcome but completion withdraws the requests first.
RequestsAtEnd(a, outcome) == IF outcome = "completed" THEN a ELSE Withdraw(a)

TurnCompletes(outcome) ==
  LET a == RequestsAtEnd(exec.requests, outcome) IN
  /\ Yields /\ ~exec.terminal /\ Unclaimed(a) = {}
  /\ Observed([exec EXCEPT !.requests = a, !.terminal = TRUE])
  /\ UNCHANGED session

OutputEnds ==
  /\ Yields
  /\ exec' = [exec EXCEPT !.native = FALSE, !.pull = "drain"]
  /\ UNCHANGED <<session, calls, binding, close, doubt>>

\* Mutant: the end of the output does not wait for the calls of the turn.
NotDrained == exec.pull = "drain"

\* The output has ended and no answer or control of this turn is under way.
Drained == exec.pull = "drain" /\ calls = NoCalls

\* assertCompleted, and the end of the execution.
Settle ==
  /\ Drained
  /\ IF exec.terminal /\ Pending(exec.requests) = {}
     THEN /\ exec' = Over(exec, "settled")
          /\ session' = [session EXCEPT !.slot = "free"]
     ELSE StopExecution(exec)
  /\ UNCHANGED <<calls, binding, close, doubt>>

\* A pull that outlived its execution.
LatePull ==
  /\ exec.kind = "stopped" /\ exec.native
  /\ exec' = [exec EXCEPT !.native = FALSE]
  /\ UNCHANGED <<session, calls, binding, close, doubt>>

\* The caller's signal.
AbortTurn ==
  /\ exec.kind \in {"reserved", "entered"}
  /\ StopExecution(exec)
  /\ UNCHANGED <<calls, binding, close, doubt>>

\* return() of the consumer: a turn that was entered takes the session with it.
Return ==
  /\ exec.kind \in {"reserved", "entered", "stopped"}
  /\ IF exec.sourced THEN BeginClose(exec)
     ELSE exec.kind = "reserved" /\ StopExecution(exec) /\ UNCHANGED <<binding, close, doubt>>
  /\ UNCHANGED calls

--------------------------------------------------------------------------------
(* Answers and controls *)

\* resolveRequest: claimed, and then delivered unless the observer refuses.
Answer(q) ==
  LET claimed == Claim(exec.requests, q, TRUE, Live) IN
  /\ Usable /\ Running(exec) /\ q \in Pending(exec.requests)
  /\ \/ /\ exec' = [exec EXCEPT !.requests = claimed]
        /\ calls' = [calls EXCEPT !.answers = @ \cup {q}]
     \/ /\ exec' = [exec EXCEPT !.requests = GiveBack(claimed, q, TRUE, Live)]
        /\ UNCHANGED calls
  /\ UNCHANGED <<session, binding, close, doubt>>

\* The receipt: settled (delivered or no longer available), refused, or unknown.  Only a
\* definitive refusal that leaves the request pending gives it back.
AnswerEnds(q, result) ==
  /\ q \in calls.answers
  /\ calls' = [calls EXCEPT !.answers = @ \ {q}]
  /\ exec' = [exec EXCEPT
       !.requests = IF result = "refused" THEN GiveBack(@, q, Running(exec), Live)
                                         ELSE RetireClaim(@, q, Running(exec), Live),
       !.spent = Spent(IF result = "refused" THEN {} ELSE {q})]
  /\ session' = [session EXCEPT !.unusable = @ \/ result = "unknown"]
  /\ Doubts(result)
  /\ UNCHANGED <<binding, close>>

\* interruptTurn
Interrupt(i) ==
  /\ Usable /\ Running(exec)
  /\ i \notin calls.interrupts /\ 1..(i - 1) \subseteq calls.interrupts
  /\ calls' = [calls EXCEPT !.interrupts = @ \cup {i}]
  /\ exec' = [exec EXCEPT !.requests = Suspend(@, i)]
  /\ UNCHANGED <<session, binding, close, doubt>>

\* Mutant: an accepted interruption takes away only what was held back.
WithdrawHeld(a, i, result) ==
  IF result = "failed" THEN Resume(a, i, Running(exec), Live)
  ELSE Resume(Retire(a, {q \in Requests : a.kind[q] = "withheld"}), i, Running(exec), Live)
\* Mutant: a failed interruption restores nothing.
LeftSuspended(a, i, result) == IF result = "failed" THEN a ELSE Withdraw(a)

\* A definitive failure restores, anything else withdraws.
AfterInterruption(a, i, result) ==
  IF result = "failed" THEN Resume(a, i, Running(exec), Live) ELSE Withdraw(a)

InterruptEnds(i, result) ==
  /\ i \in calls.interrupts
  /\ calls' = [calls EXCEPT !.interrupts = @ \ {i}]
  /\ exec' = [exec EXCEPT
       !.requests = AfterInterruption(@, i, result),
       !.spent = Spent(IF result = "failed" THEN {} ELSE Opened(exec.requests))]
  /\ session' = [session EXCEPT !.unusable = @ \/ result = "unknown"]
  /\ Doubts(result)
  /\ UNCHANGED <<binding, close>>

\* steerTurn: no request may be presented.  Bound: one steering call at a time.
Steer ==
  /\ Usable /\ Running(exec) /\ Pending(exec.requests) = {} /\ ~calls.steering
  /\ calls' = [calls EXCEPT !.steering = TRUE]
  /\ UNCHANGED <<session, exec, binding, close, doubt>>

SteerEnds(result) ==
  /\ calls.steering
  /\ calls' = [calls EXCEPT !.steering = FALSE]
  /\ session' = [session EXCEPT !.unusable = @ \/ result = "unknown"]
  /\ Doubts(result)
  /\ UNCHANGED <<exec, binding, close>>

--------------------------------------------------------------------------------
(* invokeOperation, of an idle_session operation that executes immediately; bound: one at a time *)

InvokeOperation ==
  /\ Usable /\ ~session.stopped /\ session.operation = "none"
  /\ session' = [session EXCEPT !.operation = "listing"]
  /\ UNCHANGED <<exec, calls, binding, close, doubt>>

\* The session is looked at again after the catalogue has been awaited.
SlotForOperation == Usable /\ ~session.stopped /\ session.slot = "free"

OperationListed ==
  /\ session.operation = "listing"
  /\ \/ /\ SlotForOperation
        /\ session' = [session EXCEPT !.operation = "running", !.slot = "operation"]
     \/ session' = [session EXCEPT !.operation = "none"]
  /\ UNCHANGED <<exec, calls, binding, close, doubt>>

OperationEnds(result) ==
  /\ session.operation = "running"
  /\ session' = [session EXCEPT !.operation = "none", !.slot = "free",
                                !.unusable = @ \/ result = "unknown"]
  /\ Doubts(result)
  /\ UNCHANGED <<exec, calls, binding, close>>

--------------------------------------------------------------------------------
(* The host binding *)

Active == {v \in Invocations : binding.invocations[v] # "none"}

Invoke(v) ==
  /\ ~binding.stopped /\ v \notin Active /\ Cardinality(Active) < maxInvocations
  /\ binding' = [binding EXCEPT !.invocations[v] = "admitted"]
  /\ UNCHANGED <<session, exec, calls, close, doubt>>

\* The callback enters the host one microtask later, unless the lease has stopped.
StillAdmitted == ~binding.stopped

InvocationEnters(v) ==
  /\ binding.invocations[v] = "admitted"
  /\ binding' = [binding EXCEPT !.invocations[v] = IF StillAdmitted THEN "running" ELSE "none"]
  /\ UNCHANGED <<session, exec, calls, close, doubt>>

InvocationEnds(v) ==
  /\ binding.invocations[v] = "running"
  /\ binding' = [binding EXCEPT !.invocations[v] = "none"]
  /\ UNCHANGED <<session, exec, calls, close, doubt>>

--------------------------------------------------------------------------------
(* closeOwned: provider, turn, operations, binding *)

\* Mutant: a session that was stopped is taken for closed.
NotYetStopped == ~session.stopped /\ close.pc = "idle"

\* No close has succeeded, and none is under way to be shared.
MayClose == ~session.closed /\ close.pc = "idle"

\* close() and the retry of a cleanup that was retained.
Close ==
  /\ session.phase # "opening" /\ MayClose
  /\ BeginClose(exec)
  /\ UNCHANGED calls

Goes(c) == close' = c /\ UNCHANGED <<calls, doubt>>
\* A step that fails ends the attempt; a later close starts another one.
Fails == close.failures < MaxFailures /\ Goes([close EXCEPT !.pc = "idle", !.failures = @ + 1])

CloseProvider ==
  /\ close.pc = "provider"
  /\ Goes([close EXCEPT !.pc = "join", !.providerClosed = TRUE]) \/ Fails
  /\ UNCHANGED <<session, exec, binding>>

\* Nothing that entered the provider for this turn is under way.
TurnQuiet == ~exec.native /\ calls = NoCalls

JoinTurn ==
  /\ close.pc = "join"
  /\ \/ /\ ~close.turn \/ exec.joined
        /\ Goes([close EXCEPT !.pc = "operations"]) /\ UNCHANGED exec
     \/ /\ close.turn /\ ~exec.joined /\ TurnQuiet
        /\ Goes([close EXCEPT !.pc = IF exec.sourced THEN "return" ELSE "operations"])
        /\ exec' = [exec EXCEPT !.joined = ~exec.sourced]
  /\ UNCHANGED <<session, binding>>

\* source.return(), of the provider's iterator.
ReturnSource ==
  /\ close.pc = "return"
  /\ \/ Goes([close EXCEPT !.pc = "operations"]) /\ exec' = [exec EXCEPT !.joined = TRUE]
     \/ Fails /\ UNCHANGED exec
  /\ UNCHANGED <<session, binding>>

JoinOperations ==
  /\ close.pc = "operations" /\ session.operation = "none"
  /\ Goes([close EXCEPT !.pc = "drain"])
  /\ UNCHANGED <<session, exec, binding>>

\* Mutant: the invocations are not awaited.
NotAwaited == TRUE

\* release awaits the invocations it finds; none is admitted any more.
InvocationsOver == Active = {}

DrainBinding ==
  /\ close.pc = "drain" /\ InvocationsOver
  /\ Goes([close EXCEPT !.pc = "release"])
  /\ UNCHANGED <<session, exec, binding>>

ReleaseBinding ==
  /\ close.pc = "release"
  /\ \/ /\ Goes([close EXCEPT !.pc = "idle"])
        /\ binding' = [binding EXCEPT !.released = TRUE]
        /\ session' = [session EXCEPT !.closed = TRUE]
     \/ Fails /\ UNCHANGED <<binding, session>>
  /\ UNCHANGED exec

--------------------------------------------------------------------------------

Output ==
  \/ Progress \/ Invalid \/ OutputEnds \/ RequestOpens \/ IdentityLimit
  \/ \E q \in Requests : RequestUnavailable(q) \/ SubjectEnds(q)
  \/ \E outcome \in {"completed", "canceled"} : TurnCompletes(outcome)

Consumer == StartTurn \/ Enter \/ Pull \/ Return \/ AbortTurn

Controls ==
  \/ \E q \in Requests : Answer(q)
  \/ \E i \in Interruptions : Interrupt(i)
  \/ Steer \/ InvokeOperation

\* Provider calls end, late or not.
CallsEnd ==
  \/ \E q \in Requests, result \in {"settled", "refused", "unknown"} : AnswerEnds(q, result)
  \/ \E i \in Interruptions, result \in {"accepted", "failed", "unknown"} : InterruptEnds(i, result)
  \/ \E result \in {"settled", "unknown"} : SteerEnds(result) \/ OperationEnds(result)
  \/ OperationListed \/ LatePull

HostTools == \E v \in Invocations : InvocationEnters(v) \/ InvocationEnds(v)

Closing ==
  \/ CloseProvider \/ JoinTurn \/ ReturnSource \/ JoinOperations
  \/ DrainBinding \/ ReleaseBinding

SessionNext ==
  \/ Opens \/ OpeningRejected
  \/ Consumer \/ Output \/ Settle \/ Controls \/ CallsEnd
  \/ \E v \in Invocations : Invoke(v)
  \/ HostTools \/ Close \/ Closing

SessionSpec == SessionInit /\ [][SessionNext]_sessionVars

\* Every call of a provider or host returns in the end, an aborted pull included; the
\* event loop runs continuations; the owner of a session that failed to close retries.
\* Nobody owes a pull, an output or an answer.
SessionFairness ==
  /\ WF_sessionVars(CallsEnd) /\ WF_sessionVars(HostTools) /\ WF_sessionVars(Closing)
  /\ WF_sessionVars(session.stopped /\ Close)

FairSessionSpec == SessionSpec /\ SessionFairness

--------------------------------------------------------------------------------
(* Properties *)

\* A session offers its user one request at a time, whatever is restored when.
OneAnswerable == \A p, q \in Pending(exec.requests) : p = q

\* A request held back in a running turn is never stranded: an interruption that holds
\* it is under way, or another request is presented whose end will bring it back.
HeldBack ==
  Running(exec) =>
    \A q \in Requests : exec.requests.kind[q] = "withheld" =>
      \/ exec.requests.suspensions[q] \cap calls.interrupts # {}
      \/ Pending(exec.requests) # {}

\* Through overlapping interruptions, answers and openings, requests are presented one
\* at a time and none is left behind.
FairlyPresented == OneAnswerable /\ HeldBack

\* README: "Concurrent duplicate answers cannot enter the provider twice", "an
\* uncertain answer must not be replayed", and "an accepted interruption withdraws it
\* regardless of response completion order": such requests are never presented again,
\* and none while its answer is inside the provider.
NoReplay ==
  /\ \A q \in exec.spent : exec.requests.kind[q] = "retired"
  /\ \A q \in calls.answers : exec.requests.kind[q] \in {"claimed", "retired"}

\* After an answer, control or operation of unknown effect, or once a close has begun,
\* nothing enters the provider any more but the pulls of its reader and the close.
NoEntryAfterDoubt ==
  [][doubt \/ session.stopped =>
       /\ calls'.answers \subseteq calls.answers
       /\ calls'.interrupts \subseteq calls.interrupts
       /\ calls'.steering => calls.steering
       /\ session'.operation = "running" => session.operation = "running"
       /\ exec'.kind = "entered" => exec.kind = "entered"]_sessionVars

\* A turn and an operation never overlap in the provider, and a new turn finds nothing
\* of its predecessor under way.
OneExecution ==
  /\ session.operation = "running" \/ exec.kind = "reserved" =>
       ~exec.native /\ calls = NoCalls
  /\ session.operation = "running" => exec.kind # "entered"

\* README: close "drains host callbacks before releasing resources": when the host's
\* release is entered, and ever after, the provider is closed, no pull, answer, control
\* or operation is inside it, and no tool call is inside the host.
BindingReleasedLast ==
  close.pc = "release" \/ binding.released =>
    /\ close.providerClosed /\ session.stopped
    /\ ~exec.native /\ calls = NoCalls /\ session.operation = "none"
    /\ exec.kind \notin {"reserved", "entered"}
    /\ Active = {}

\* A close that has begun, or an opening that was rejected, ends with the binding
\* released, though every step of the cleanup may fail and have to be tried again.
CloseCompletes == session.stopped ~> session.closed

================================================================================
