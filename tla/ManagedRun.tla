------------------------------ MODULE ManagedRun ------------------------------
(***************************************************************************)
(* One live run of the delegation coordinator, composed with the store it  *)
(* journals in: the pump that launches it (execution/scheduler.ts),        *)
(* prepareRun, the output reader (stream.ts), the serialized controls      *)
(* (control.ts), the bounded cleanup (cleanup.ts) and the settlement       *)
(* (finish.ts).                                                            *)
(*                                                                         *)
(* An action is the code between two awaits, and every commit is an action *)
(* of its own: the step takes the action of DelegationStore it sends.      *)
(* Anything may happen between an intent, the call it announces and the    *)
(* receipt.  A commit the planner refuses is an alternative of its own.    *)
(*                                                                         *)
(* Hosts and providers are the environment: a call ends as it likes, and a *)
(* gate (assertRunDispatch) may refuse at any time, because policy may     *)
(* change at any time.  Commits do not fail for lack of storage here.      *)
(***************************************************************************)
EXTENDS DelegationStore, Sequences

CONSTANTS
  T, R,                        \* the task and the run under study
  Configures, Steers, Answers, \* operation ids, by the control that uses them
  Causes,                      \* who may cancel: "user", "coordinator"
  Failures                     \* what may fail: see below

ASSUME ManagedAssumption ==
  /\ T \in Tasks /\ R \in Runs
  /\ Configures \cup Steers \cup Answers \subseteq Controls
  /\ Steers \cap Answers = {}
  /\ ExecutorSlots = {"interrupt", "session_close", "binding_cleanup"}
  /\ \A c, d \in Configures : c = d
  /\ Causes \subseteq {"user", "coordinator"}
  /\ Failures \subseteq {"opening", "host", "interrupt", "close", "release", "crash"}

VARIABLES
  live,     \* the LiveRun record of execution/state.ts
  turns     \* how often the provider has entered a turn of this run

managedVars == <<vars, live, turns>>

Serialized == Steers \cup Answers \cup {"cancel"}
NoControl == "none"
Terminals == {"completed", "canceled", "failed"}

\* Where the code of prepareRun and the reader is.
Mains ==
  {"none", "claimed", "start", "execution", "resources", "opening", "configure",
   "configuring", "configured", "verifying", "prepared", "turn_intent", "turn_start",
   "reading", "routing", "presenting", "retiring", "turn_rejected", "rejected", "fail", "done"}
\* Where the code of finishRun and of the closer is.
Finishes == {"none", "join", "drain", "resources", "close_receipt", "binding_receipt",
             "execution", "final", "settle", "done"}
Closers == {"none", "close_intent", "binding_intent", "closing", "close_uncertain",
            "binding_uncertain", "closed", "gave_up"}
Grants == {"none", "held", "released"}
Sessions == {"none", "open", "rejected", "closed"}
Configured == {"none", "completed", "rejected", "uncertain"}
Doubts == {"none", "dispatch", "steering", "request", "cancellation"}
Eligibilities == {"none", "waiting", "claimed", "retired"}
Places == {"none", "queued", "commit", "decide", "intent", "call", "wait", "receipt", "after", "done"}
Results == {"none", "delivered", "rejected", "pending", "unavailable", "uncertain",
            "accepted", "failed", "lost"}
MaybeRequest == Requests \cup {NoRequest}
MaybeTerminal == Terminals \cup {"none"}
MaybeOutcome == Outcomes \cup {"none"}
Tries == 0..2

\* A control: where its code is, the request it answers, what its call told.
Control == [pc : Places, request : MaybeRequest, result : Results, phase : Phases]
ControlTable == [Serialized -> Control]
ControlTails == Seq(Serialized)
CallSets == SUBSET (Serialized \cup Requests)
EligibilityTable == [Requests -> Eligibilities]
ResolutionTable == [Requests -> Answers \cup {NoControl}]

LiveRecord ==
  [main : Mains,
   registered : BOOLEAN,                        \* a member of state.live
   execution : Grants, resources : Grants, session : Sessions, configured : Configured,
   stream : BOOLEAN, started : BOOLEAN, recorded : BOOLEAN,
   read : MaybeTerminal,                        \* consumeTurn's terminal
   ended : BOOLEAN,                             \* live.terminal is set
   aborted : BOOLEAN,                           \* live.lifetime
   uncertain : Doubts,
   control : ControlTable,
   tail : ControlTails,                         \* live.controlTail
   calls : CallSets,                            \* provider and host calls under way
   request : MaybeRequest,                      \* live.request
   next : MaybeRequest,                         \* the request the reader is handling
   eligibility : EligibilityTable,
   shown : SUBSET Requests,                     \* presentations not aborted
   resolution : ResolutionTable,
   asked : BOOLEAN,                             \* a user's cancel is on its way here
   grace : BOOLEAN,                             \* the timer armed after an interruption
   finish : Finishes,
   outcome : MaybeOutcome,                      \* as requested by the first finishRun
   final : MaybeOutcome,                        \* as sent to the store
   overruled : Doubts,                          \* the doubt that replaced the outcome in it
   closer : Closers, attempts : Tries, releases : Tries]

NoLive ==
  [main |-> "none", registered |-> FALSE, execution |-> "none", resources |-> "none",
   session |-> "none", configured |-> "none", stream |-> FALSE, started |-> FALSE,
   recorded |-> FALSE, read |-> "none", ended |-> FALSE, aborted |-> FALSE,
   uncertain |-> "none",
   control |-> [c \in Serialized |->
                 [pc |-> "none", request |-> NoRequest, result |-> "none", phase |-> "absent"]],
   tail |-> <<>>, calls |-> {}, request |-> NoRequest, next |-> NoRequest,
   eligibility |-> [q \in Requests |-> "none"], shown |-> {},
   resolution |-> [q \in Requests |-> NoControl], asked |-> FALSE, grace |-> FALSE,
   finish |-> "none", outcome |-> "none", final |-> "none", overruled |-> "none",
   closer |-> "none", attempts |-> 0, releases |-> 0]

ManagedTypeOK == TypeOK /\ live \in LiveRecord /\ turns \in Nat

ManagedInit == Init /\ live = NoLive /\ turns = 0

Rests == UNCHANGED vars

--------------------------------------------------------------------------------
(* What the pieces of code do to the live record *)

Cancelling == live.control["cancel"].pc # "none"
Finishing == live.finish # "none"

\* live.lifetime.abort: the listener of the pump aborts every presentation.
Abort(l) == [l EXCEPT !.aborted = TRUE, !.shown = {}]

\* finishRun up to its first await: the first outcome wins, and cleanupRun takes
\* the request away, disarms the timers, starts the closer and aborts the lifetime.
FinishRun(l, outcome) ==
  IF l.finish # "none" THEN l
  ELSE Abort([l EXCEPT !.finish = "join", !.outcome = outcome, !.request = NoRequest,
                       !.grace = FALSE, !.closer = "close_intent", !.attempts = 1])

\* A control's end frees the tail for the next one.
Leave(l, c) == [l EXCEPT !.control[c].pc = "done", !.tail = Tail(@)]

Uncertain(l, reason) == [l EXCEPT !.uncertain = reason]

OutcomeOf(terminal) ==
  CASE terminal = "completed" -> "succeeded"
    [] terminal = "canceled" -> "provider_terminal"
    [] terminal = "failed" -> "failed"

--------------------------------------------------------------------------------
(* The pump and prepareRun *)

\* The intent is committed before the run is registered in state.live.
Launch ==
  /\ live.main = "none"
  /\ DispatchPrepare(R)
  /\ live' = [NoLive EXCEPT !.main = "claimed"]

\* Expired, no longer permitted, or refused by the gate while still queued.
RejectQueued ==
  /\ live.main = "none" /\ run[R].phase = "queued"
  /\ Settle(R, "failed")
  /\ UNCHANGED live

Register ==
  /\ live.main = "claimed" /\ Rests
  /\ live' = [live EXCEPT !.main = "start", !.registered = TRUE]

\* A gate lets an intact lifetime pass, unless policy has changed.
Gate(pc) == {"rejected"} \cup (IF live.aborted THEN {} ELSE {pc})

Start ==
  /\ live.main = "start" /\ Rests
  /\ \E pc \in IF run[R].cancelRequested THEN {"rejected"} ELSE Gate("execution") :
       live' = [live EXCEPT !.main = pc]

\* A grant may arrive for a lifetime that has ended: it is kept for cleanup.
Acquire(grant, pc) ==
  /\ live.main = grant /\ Rests
  /\ \/ \E after \in Gate(pc) : live' = [live EXCEPT ![grant] = "held", !.main = after]
     \/ live' = [live EXCEPT !.main = "rejected"]

Open ==
  /\ live.main = "opening" /\ Rests
  /\ \/ \E after \in Gate(IF Configures = {} THEN "verifying" ELSE "configure") :
          live' = [live EXCEPT !.session = "open", !.main = after]
     \/ live' = [live EXCEPT !.main = "rejected"]
     \/ "opening" \in Failures /\ live' = [live EXCEPT !.session = "rejected", !.main = "rejected"]

AcceptsInput == AdmitsInput(R) /\ HasOrdinaryRoom(R)

ConfigureIntent ==
  /\ live.main = "configure"
  /\ \E c \in Configures :
       \/ DispatchControl(R, c, "configure") /\ live' = [live EXCEPT !.main = "configuring"]
       \/ ~AcceptsInput /\ Rests /\ live' = [live EXCEPT !.main = "rejected"]

\* An exception after the provider was entered leaves no receipt behind.
ConfigureCall ==
  /\ live.main = "configuring" /\ Rests
  /\ \/ live' = [live EXCEPT !.main = "rejected"]
     \/ /\ ~live.aborted
        /\ \/ live' = [live EXCEPT !.main = "rejected", !.uncertain = "dispatch"]
           \/ \E result \in {"completed", "rejected", "uncertain"} :
                live' = [live EXCEPT !.main = "configured", !.configured = result]

ConfigureReceipt ==
  /\ live.main = "configured"
  /\ \E c \in Configures : OperationReceipt(R, c, live.configured, "none")
  /\ \E pc \in IF live.configured = "completed" THEN Gate("verifying") ELSE {"rejected"} :
       live' = [live EXCEPT !.main = pc,
                  !.uncertain = IF live.configured = "uncertain" THEN "dispatch" ELSE @]

Verify ==
  /\ live.main = "verifying" /\ Rests
  /\ \E pc \in Gate("prepared") : live' = [live EXCEPT !.main = pc]

PrepareReceipt ==
  /\ live.main = "prepared"
  /\ OperationReceipt(R, "prepare", "completed", "none")
  /\ live' = [live EXCEPT !.main = "turn_intent"]

TurnIntent ==
  /\ live.main = "turn_intent"
  /\ \/ DispatchTurn(R) /\ live' = [live EXCEPT !.main = "turn_start"]
     \/ ~AcceptsInput /\ Rests /\ live' = [live EXCEPT !.main = "fail"]

StartTurn ==
  /\ live.main = "turn_start" /\ Rests
  /\ \/ ~live.aborted /\ live' = [live EXCEPT !.main = "reading", !.stream = TRUE]
     \/ live' = [live EXCEPT !.main = "fail"]

\* The catch block before preparation has completed.
RejectPreparation ==
  /\ live.main = "rejected"
  /\ OperationReceipt(R, "prepare",
       IF live.session = "rejected" \/ live.uncertain # "none" THEN "uncertain" ELSE "rejected",
       "none")
  /\ live' = [live EXCEPT !.main = "fail"]

Fail ==
  /\ live.main = "fail" /\ Rests
  /\ live' = FinishRun([live EXCEPT !.main = "done"],
               IF live.session = "rejected" \/ live.uncertain # "none"
               THEN "recovery_required" ELSE "failed")

--------------------------------------------------------------------------------
(* consumeTurn: the only reader of the child's output *)

\* Mutant: a provider that is entered again while its output is read.
EnterAgain ==
  /\ live.main = "reading" /\ ~live.aborted /\ Rests
  /\ live' = [live EXCEPT !.started = TRUE]
  /\ turns' = turns + 1

\* onProviderExecutionStarted, behind its gate.
EnterTurn ==
  /\ live.main = "reading" /\ ~live.started /\ ~live.aborted /\ Rests
  /\ live' = [live EXCEPT !.started = TRUE]
  /\ turns' = turns + 1

\* The first output records the delegation before it is reduced.
RecordStart ==
  /\ live.main = "reading" /\ live.started /\ ~live.recorded
  /\ OperationReceipt(R, "turn", "delegated", "none")
  /\ live' = [live EXCEPT !.recorded = TRUE]

\* The validated runtime passes events of a running turn only.
Emits == live.main = "reading" /\ live.recorded /\ live.read = "none" /\ ~live.aborted
NoneWaits == \A q \in Requests : live.eligibility[q] # "waiting"

\* The runtime refuses a second pending request.
ReadRequest(q) ==
  /\ Emits /\ Rests
  /\ live.eligibility[q] = "none" /\ NoneWaits
  /\ live' = [live EXCEPT !.main = "routing", !.next = q]

\* Mutant: a reader that failed says so whether or not the provider was entered.
AlwaysRejected(l, aborting) ==
  FinishRun([l EXCEPT !.main = "done", !.stream = FALSE, !.ended = TRUE], "failed")

\* The catch block of consumeTurn and what follows it.  Only an AbortError is taken for
\* the end of the output of a turn whose terminal is being settled.
ReaderError(l, aborting) ==
  LET reason == IF l.uncertain # "none" THEN l.uncertain
                ELSE IF l.control["cancel"].pc # "none" THEN "cancellation" ELSE "dispatch"
      over == [l EXCEPT !.main = "done", !.stream = FALSE, !.ended = TRUE]
  IN  IF aborting /\ l.read # "none" /\ l.finish # "none" /\ l.aborted THEN over
      ELSE IF l.started THEN FinishRun(Uncertain(over, reason), "recovery_required")
      ELSE [l EXCEPT !.main = "turn_rejected"]

Reads(l) == [l EXCEPT !.main = "reading", !.next = NoRequest]

\* A request that follows an unsettled answer waits for it, unless it was retired.
RouteRequest ==
  /\ live.main = "routing" /\ Rests
  /\ live.request # NoRequest /\ live.eligibility[live.request] # "retired"
       => live.resolution[live.request] = NoControl
  /\ live' = IF live.uncertain # "none" \/ live.aborted THEN Reads(live)
             ELSE [live EXCEPT !.main = "presenting"]

\* What was in order when the request was routed may have changed before its commit: a
\* presentation of a lifetime that has ended is aborted at once and calls nobody.
PresentRequest ==
  LET q == live.next
      shows == IF live.aborted THEN {} ELSE {q}
  IN
  /\ live.main = "presenting"
  /\ \/ /\ RequestOpened(R, q)
        /\ live' = [Reads(live) EXCEPT !.request = q, !.eligibility[q] = "waiting",
                          !.shown = @ \cup shows, !.calls = @ \cup shows]
     \/ run[R].phase # "running" /\ Rests /\ live' = ReaderError(Reads(live), FALSE)

\* An answer is under way from its committed intent to the end of its receipt.
RequestAttempts == {c \in Answers : live.control[c].pc \in {"call", "wait", "receipt"}}

ReadUnavailable(q) ==
  /\ Emits /\ q \in live.shown /\ Rests
  /\ live' = [live EXCEPT !.main = "retiring", !.next = q, !.shown = @ \ {q},
       !.eligibility[q] =
          IF live.request = q \/ \E c \in RequestAttempts : live.control[c].request = q
          THEN "retired" ELSE @]

RecordUnavailable ==
  /\ live.main = "retiring"
  /\ IF run[R].request = live.next THEN RequestUnavailable(R) ELSE Rests
  /\ live' = Reads(live)

\* A terminal event during an unsettled answer closes the session at once, for
\* the runtime ends the output only after the answer.
ReadTerminal(terminal) ==
  /\ Emits /\ Rests
  /\ terminal = "completed" => NoneWaits
  /\ LET l == [live EXCEPT !.read = terminal] IN
     live' = IF RequestAttempts = {} THEN l
             ELSE FinishRun([l EXCEPT !.ended = TRUE], OutcomeOf(terminal))

EndOfOutput ==
  /\ live.main = "reading" /\ live.read # "none" /\ ~live.aborted /\ Rests
  /\ live.calls \cap Serialized = {}
  /\ live' = FinishRun([live EXCEPT !.main = "done", !.stream = FALSE, !.ended = TRUE],
                       OutcomeOf(live.read))

\* The output fails: the provider's doing, or the abort of the lifetime.
OutputFails ==
  /\ live.main = "reading" /\ Rests
  /\ \E aborting \in BOOLEAN : live' = ReaderError(live, aborting)

RejectTurn ==
  /\ live.main = "turn_rejected"
  /\ OperationReceipt(R, "turn", "rejected", "none")
  /\ live' = FinishRun([live EXCEPT !.main = "done", !.stream = FALSE, !.ended = TRUE], "failed")

\* host.onRequest: a callback may outlive its request, and fail in any other way than by
\* the abort it was told of.
HostReturns(q) ==
  /\ q \in live.calls /\ Rests
  /\ live' = [live EXCEPT !.calls = @ \ {q}]

HostFails(q) ==
  /\ "host" \in Failures /\ q \in live.calls /\ Rests
  /\ live' = FinishRun(Uncertain([live EXCEPT !.calls = @ \ {q}], "request"), "recovery_required")

--------------------------------------------------------------------------------
(* Controls: one tail serializes steering, answers and cancellation *)

Queue(l, c) == [l EXCEPT !.control[c].pc = "queued", !.tail = Append(@, c)]
At(c, pc) == live.control[c].pc = pc
\* The control runs when those queued before it have left.
AtHead(c) == live.tail # <<>> /\ Head(live.tail) = c
Goes(c, pc) == live' = [live EXCEPT !.control[c].pc = pc]

\* boundedControl: the call returns, or its deadline passes and it goes on alone.
Returned(c, result) ==
  [live EXCEPT !.calls = @ \ {c}, !.control[c] = [@ EXCEPT !.pc = "receipt", !.result = result]]
TimedOut(c, result) ==
  [live EXCEPT !.control[c] = [@ EXCEPT !.pc = "receipt", !.result = result]]
Enters(c) ==
  live' = [live EXCEPT !.calls = @ \cup {c}, !.control[c].pc = "wait"]
Skips(c, result) ==
  live' = TimedOut(c, result)

AskSteer(c) ==
  /\ live.registered /\ At(c, "none") /\ Rests
  /\ live' = Queue(live, c)

BeginSteer(c) ==
  /\ AtHead(c) /\ At(c, "queued") /\ Rests
  /\ \/ /\ live.uncertain = "none" /\ ~Cancelling /\ ~run[R].cancelRequested
        /\ run[R].phase = "running" /\ live.stream /\ ~Finishing
        /\ Goes(c, "intent")
     \/ live' = Leave(live, c)

SteerIntent(c) ==
  /\ At(c, "intent")
  /\ \/ DispatchControl(R, c, "steer") /\ Goes(c, "call")
     \/ ~(run[R].phase = "running" /\ AcceptsInput) /\ Rests /\ live' = Leave(live, c)

SteerCall(c) ==
  /\ At(c, "call") /\ Rests
  /\ \/ live.uncertain = "none" /\ ~Cancelling /\ ~live.aborted /\ Enters(c)
     \/ Skips(c, "rejected")

SteerEnds(c) ==
  /\ At(c, "wait") /\ Rests
  /\ \/ \E result \in {"delivered", "rejected"} : live' = Returned(c, result)
     \/ \E l \in {Returned(c, "uncertain"), TimedOut(c, "uncertain")} :
          live' = Uncertain(l, "steering")

SteerReceipt(c) ==
  /\ At(c, "receipt")
  /\ OperationReceipt(R, c, live.control[c].result, "none")
  /\ live' = Leave(live, c)

\* A call that outlived its deadline comes to an end.
CallEnds(c) ==
  /\ c \in live.calls /\ ~At(c, "wait") /\ Rests
  /\ live' = [live EXCEPT !.calls = @ \ {c}]

\* resolveRequest with the handle of a request that was opened.
AskAnswer(c, q) ==
  /\ live.registered /\ At(c, "none") /\ live.eligibility[q] # "none" /\ Rests
  /\ live' = [Queue(live, c) EXCEPT !.control[c].request = q,
                !.resolution[q] = IF @ = NoControl THEN c ELSE @]

\* The end of resolveLiveRequest's work.
Answered(l, c) ==
  LET q == l.control[c].request IN
  [l EXCEPT !.control[c].pc = "done", !.resolution[q] = IF @ = c THEN NoControl ELSE @]

BeginAnswer(c) ==
  LET q == live.control[c].request IN
  /\ AtHead(c) /\ At(c, "queued") /\ Rests
  /\ \/ /\ live.request = q /\ live.eligibility[q] = "waiting" /\ live.stream
        /\ ~Finishing /\ ~Cancelling /\ live.uncertain = "none" /\ ~live.aborted
        /\ run[R].phase = "waiting"
        /\ live' = [live EXCEPT !.control[c].pc = "intent", !.eligibility[q] = "claimed"]
     \/ live' = Answered(Leave(live, c), c)

\* A refused intent gives the request back, unless it has been retired meanwhile.
AnswerIntent(c) ==
  LET q == live.control[c].request IN
  /\ At(c, "intent")
  /\ \/ /\ run[R].request = q
        /\ ResolutionIntended(R, c)
        /\ live' = [live EXCEPT !.control[c].pc = "call", !.tail = Tail(@)]
     \/ /\ ~(/\ run[R].request = q /\ run[R].requestState = "waiting"
             /\ ~run[R].cancelRequested /\ HasOrdinaryRoom(R))
        /\ Rests
        /\ live' = [Answered(Leave(live, c), c) EXCEPT
             !.eligibility[q] = IF q \in live.shown /\ live.request = q THEN "waiting" ELSE @]

\* What is said of an answer that failed before the provider was entered.
NotEntered == IF live.aborted \/ Cancelling THEN "unavailable" ELSE "pending"

AnswerCall(c) ==
  /\ At(c, "call") /\ Rests
  /\ \/ ~live.aborted /\ ~Cancelling /\ Enters(c)
     \/ Skips(c, NotEntered)

\* An answer whose deadline passes before the provider is entered is rejected, though
\* its call goes on; after that its effect is unknown.
AnswerEnds(c) ==
  /\ At(c, "wait") /\ Rests
  /\ \/ \E result \in {"delivered", "pending", "unavailable"} : live' = Returned(c, result)
     \/ live' = TimedOut(c, NotEntered)
     \/ \E l \in {Returned(c, "uncertain"), TimedOut(c, "uncertain")} :
          live' = Uncertain(l, "request")

\* Mutant: no answer gives its request back.
NeverRestored(c) == "retired"

\* Only a definitive pending rejection of a request that is still live restores it.
EligibilityAfter(c) ==
  LET q == live.control[c].request IN
  IF /\ live.eligibility[q] # "retired" /\ live.control[c].result = "pending"
     /\ live.request = q /\ ~live.aborted /\ ~Cancelling
  THEN "waiting" ELSE "retired"

AnswerReceipt(c) ==
  LET q == live.control[c].request
      result == live.control[c].result
      l == [Answered(live, c) EXCEPT !.eligibility[q] = EligibilityAfter(c)]
  IN
  /\ At(c, "receipt")
  /\ IF result \in {"pending", "unavailable"} THEN OperationReceipt(R, c, "rejected", result)
     ELSE OperationReceipt(R, c, result, "none")
  /\ live' = IF live.uncertain = "none" THEN l ELSE FinishRun(l, "recovery_required")

--------------------------------------------------------------------------------
(* Cancellation *)

\* client.cancel commits first and then looks the live run up.
UserCancel ==
  /\ "user" \in Causes /\ run[R].phase # "settled"
  /\ CancelRun(R)
  /\ live' = [live EXCEPT !.asked = live.registered]

\* cancelLive, called by the user's cancel, the deadline, a revoked execution
\* grant or dispose: only the first call of a run starts anything.
CancelLive ==
  /\ live.registered /\ ~Cancelling /\ Rests
  /\ live.asked \/ "coordinator" \in Causes
  /\ live' = Queue(live, "cancel")

\* The record is read outside the gate: what follows goes by this reading.
BeginCancel ==
  /\ AtHead("cancel") /\ At("cancel", "queued") /\ Rests
  /\ live' = IF run[R].phase = "settled" THEN Leave(live, "cancel")
             ELSE [live EXCEPT !.control["cancel"] =
                     [@ EXCEPT !.phase = run[R].phase,
                               !.pc = IF run[R].cancelRequested THEN "decide" ELSE "commit"]]

\* A cancellation recorded meanwhile under another identity is a conflict.
CommitCancel ==
  /\ At("cancel", "commit")
  /\ \/ CancelRun(R) /\ Goes("cancel", "decide")
     \/ Recorded(R, "cancel") /\ Rests /\ live' = Leave(live, "cancel")

DecideCancel ==
  /\ At("cancel", "decide") /\ Rests
  /\ live' = IF live.session \in {"none", "rejected"} \/ live.control["cancel"].phase = "preparing"
             THEN Leave(Abort(live), "cancel")
             ELSE [live EXCEPT !.control["cancel"].pc = "intent"]

InterruptIntent ==
  /\ At("cancel", "intent")
  /\ \/ DispatchInterrupt(R) /\ Goes("cancel", "call")
     \/ run[R].phase = "settled" /\ Rests /\ live' = Leave(live, "cancel")

\* A provider without interruption loses its lifetime; a validated runtime refuses
\* to interrupt a turn that was not entered, is over or whose session closes.
InterruptCall ==
  /\ At("cancel", "call") /\ Rests
  /\ \/ live.started /\ live.read = "none" /\ ~live.aborted /\ Enters("cancel")
     \/ /\ ~live.started \/ live.read # "none" \/ live.aborted
        /\ live' = Uncertain(TimedOut("cancel", "lost"), "cancellation")
     \/ /\ "interrupt" \in Failures
        /\ live' = Uncertain(TimedOut("cancel", "unavailable"), "cancellation")

InterruptEnds ==
  /\ At("cancel", "wait") /\ Rests
  /\ \/ live' = Returned("cancel", "accepted")
     \/ /\ "interrupt" \in Failures
        /\ \/ live' = Returned("cancel", "failed")
           \/ \E l \in {Returned("cancel", "lost"), TimedOut("cancel", "lost")} :
                live' = Uncertain(l, "cancellation")

InterruptReceipt ==
  LET result == live.control["cancel"].result
      l == [live EXCEPT !.control["cancel"].pc = "after",
              !.uncertain = IF result = "failed" THEN "cancellation" ELSE @]
  IN
  /\ At("cancel", "receipt")
  /\ OperationReceipt(R, "interrupt",
       IF result = "accepted" THEN "interruption_requested" ELSE "uncertain", "none")
  /\ live' = IF result = "unavailable" THEN Abort(l) ELSE l

\* Mutant: nobody watches the provider after the interruption.
Trusting(l) == l

\* Without a reader the run ends here; with one it gets a bounded grace.
AfterInterrupt(l) ==
  IF ~l.stream
  THEN IF l.ended THEN l
       ELSE FinishRun(Uncertain(l, "cancellation"), "recovery_required")
  ELSE [l EXCEPT !.grace = l.finish = "none"]

EndCancel ==
  /\ At("cancel", "after") /\ Rests
  /\ live' = AfterInterrupt(Leave(live, "cancel"))

GraceExpires ==
  /\ live.grace /\ Rests
  /\ live' = Uncertain(Abort([live EXCEPT !.grace = FALSE]), "cancellation")

--------------------------------------------------------------------------------
(* cleanupRun and finishRun *)

\* runtimeCleanup runs beside the join of the controls: at most two attempts, the
\* first of a rejected opening being the one that the runtime made itself.
CleanupIntent(kind) ==
  IF live.attempts = 1 THEN DispatchCleanup(R, kind) ELSE RetryCleanup(R, kind)

CloseIntent ==
  /\ live.closer = "close_intent"
  /\ CleanupIntent("session_close")
  /\ live' = [live EXCEPT !.closer = "binding_intent"]

BindingIntent ==
  /\ live.closer = "binding_intent"
  /\ CleanupIntent("binding_cleanup")
  /\ live' = [live EXCEPT !.closer =
       IF live.session = "rejected" /\ live.attempts = 1 THEN "close_uncertain" ELSE "closing"]

CloseSession ==
  /\ live.closer = "closing" /\ Rests
  /\ \/ live' = [live EXCEPT !.closer = "closed",
                             !.session = IF @ = "none" THEN @ ELSE "closed"]
     \/ /\ "close" \in Failures /\ live.session # "none"
        /\ live' = [live EXCEPT !.closer = "close_uncertain"]

CloseUncertain ==
  /\ live.closer = "close_uncertain"
  /\ OperationReceipt(R, "session_close", "uncertain", "none")
  /\ live' = [live EXCEPT !.closer = "binding_uncertain"]

\* Mutant: a second attempt that is announced like the first.
RetriedAsNew(l) == [l EXCEPT !.closer = "close_intent"]

AfterAttempt(l) ==
  IF l.attempts = 1 THEN [l EXCEPT !.closer = "close_intent", !.attempts = 2]
  ELSE [l EXCEPT !.closer = "gave_up"]

BindingUncertain ==
  /\ live.closer = "binding_uncertain"
  /\ OperationReceipt(R, "binding_cleanup", "uncertain", "none")
  /\ live' = AfterAttempt(live)

\* Mutant: the controls are aborted but not joined.
ControlsAborted == TRUE

\* live.controls is empty: no control is queued or running, no call is under way.
ControlsSettled ==
  /\ live.calls = {}
  /\ \A c \in Serialized : live.control[c].pc \in {"none", "done"}

Join ==
  /\ live.finish = "join" /\ ControlsSettled /\ Rests
  /\ live' = [live EXCEPT !.finish = "drain"]

\* The runtime is closed and the reader has left its loop.
Quiet == live.closer = "closed" /\ ~live.stream

Drain ==
  /\ live.finish = "drain" /\ Rests
  /\ \/ Quiet /\ live' = [live EXCEPT !.finish = "resources"]
     \/ live.closer = "gave_up" /\ live' = [live EXCEPT !.finish = "final"]

\* Two attempts for each grant; a grant that will not go ends the cleanup.
Release(grant, pc) ==
  /\ live.finish = grant /\ Rests
  /\ \/ live' = [live EXCEPT !.finish = pc, !.releases = 0,
                             ![grant] = IF @ = "held" THEN "released" ELSE @]
     \/ /\ "release" \in Failures /\ live[grant] = "held"
        /\ live' = IF live.releases = 0 THEN [live EXCEPT !.releases = 1]
                   ELSE [live EXCEPT !.releases = 2, !.finish = "final"]

CloseReceipt ==
  /\ live.finish = "close_receipt"
  /\ OperationReceipt(R, "session_close", "completed", "none")
  /\ live' = [live EXCEPT !.finish = "binding_receipt"]

BindingReceipt ==
  /\ live.finish = "binding_receipt"
  /\ OperationReceipt(R, "binding_cleanup", "completed", "none")
  /\ live' = [live EXCEPT !.finish = "execution"]

CleanedUp == live.closer = "closed" /\ live.resources # "held" /\ live.execution # "held"

\* Mutant: any uncertainty replaces the truth, a cancellation's included.
StickyForAll == live.uncertain # "none"

\* A cancellation of unknown effect does not replace what the provider completed.
Sticky ==
  /\ live.uncertain # "none"
  /\ ~(live.uncertain = "cancellation" /\ live.outcome \in {"succeeded", "provider_terminal"})

Final ==
  /\ live.finish = "final" /\ Rests
  /\ live' = [live EXCEPT !.finish = "settle",
                !.final = IF Sticky \/ ~CleanedUp THEN "recovery_required" ELSE live.outcome,
                !.overruled = IF Sticky THEN live.uncertain ELSE "none"]

\* A run that could not be cleaned up stays registered.
SettleRun ==
  /\ live.finish = "settle"
  /\ Settle(R, live.final)
  /\ live' = [live EXCEPT !.finish = "done", !.registered = ~CleanedUp]

--------------------------------------------------------------------------------
(* Owners *)

Crash ==
  /\ "crash" \in Failures /\ run[R].phase # "settled"
  /\ ReleaseOwner
  /\ live' = NoLive

\* recoverRuns: a queued run waits for the pump, any other has lost its executor.
Recover ==
  /\ live.main = "none" /\ run[R].phase \in Active /\ ~OwnExecutor(R)
  /\ Settle(R, "recovery_required")
  /\ UNCHANGED live

--------------------------------------------------------------------------------

Begin ==
  \/ AcquireOwner /\ UNCHANGED live
  \/ AdmitTask(T, R) /\ UNCHANGED live
  \/ Launch
  \/ RejectQueued
  \/ Recover

Prepare ==
  \/ Register \/ Start
  \/ Acquire("execution", "resources") \/ Acquire("resources", "opening")
  \/ Open \/ ConfigureIntent \/ ConfigureCall \/ ConfigureReceipt \/ Verify
  \/ PrepareReceipt \/ TurnIntent \/ StartTurn \/ RejectPreparation \/ Fail

\* What the reader does by itself, and what the provider may make it do.
Reader == RecordStart \/ RouteRequest \/ PresentRequest \/ RecordUnavailable \/ RejectTurn
Output ==
  \/ \E q \in Requests : ReadRequest(q) \/ ReadUnavailable(q)
  \/ \E terminal \in Terminals : ReadTerminal(terminal)
  \/ EndOfOutput \/ OutputFails

Steering(c) ==
  BeginSteer(c) \/ SteerIntent(c) \/ SteerCall(c) \/ SteerEnds(c) \/ SteerReceipt(c)
Answering(c) ==
  BeginAnswer(c) \/ AnswerIntent(c) \/ AnswerCall(c) \/ AnswerEnds(c) \/ AnswerReceipt(c)
Cancellation ==
  \/ BeginCancel \/ CommitCancel \/ DecideCancel \/ InterruptIntent \/ InterruptCall
  \/ InterruptEnds \/ InterruptReceipt \/ EndCancel
Closing == CloseIntent \/ BindingIntent \/ CloseSession \/ CloseUncertain \/ BindingUncertain
Cleanup ==
  \/ Join \/ Drain
  \/ Release("resources", "close_receipt") \/ CloseReceipt \/ BindingReceipt
  \/ Release("execution", "final") \/ Final \/ SettleRun

Client ==
  \/ \E c \in Steers : AskSteer(c)
  \/ \E c \in Answers, q \in Requests : AskAnswer(c, q)
  \/ UserCancel

CallReturns == \E c \in Serialized : CallEnds(c)
HostReturn == \E q \in Requests : HostReturns(q)

ManagedNext ==
  \/ EnterTurn
  \/ /\ UNCHANGED turns
     /\ \/ Begin \/ Prepare \/ Reader \/ Output \/ Client
        \/ \E c \in Steers : Steering(c)
        \/ \E c \in Answers : Answering(c)
        \/ CancelLive \/ Cancellation \/ GraceExpires
        \/ CallReturns \/ HostReturn \/ \E q \in Requests : HostFails(q)
        \/ Closing \/ Cleanup
        \/ Crash

Step(A) == A /\ UNCHANGED turns

ManagedSpec == ManagedInit /\ [][ManagedNext]_managedVars

\* The event loop runs every continuation, an owner recovers what it finds when it
\* arrives, calls of hosts and providers return in the end, and a validated runtime
\* fails the output of an aborted lifetime.  The provider owes nobody an output, nor
\* the end of a turn, and no owner has to come after one that died.
ManagedFairness ==
  /\ WF_managedVars(Step(Recover))
  /\ WF_managedVars(Step(Prepare)) /\ WF_managedVars(Step(Reader))
  /\ WF_managedVars(Step(live.aborted /\ OutputFails))
  /\ \A c \in Steers : WF_managedVars(Step(Steering(c)))
  /\ \A c \in Answers : WF_managedVars(Step(Answering(c)))
  /\ WF_managedVars(Step(live.asked /\ CancelLive)) /\ WF_managedVars(Step(Cancellation))
  /\ WF_managedVars(Step(GraceExpires))
  /\ WF_managedVars(Step(CallReturns)) /\ WF_managedVars(Step(HostReturn))
  /\ WF_managedVars(Step(Closing)) /\ WF_managedVars(Step(Cleanup))

FairManagedSpec == ManagedSpec /\ ManagedFairness

--------------------------------------------------------------------------------
(* Properties *)

\* README "Host responsibilities and cleanup": what the child was lent goes back
\* only after its session is closed, its reader has left and no steering, answer or
\* host callback is still under way, whichever of the five ways the run ended by.
ReleasedAfterQuiescence ==
  /\ live.resources = "released" =>
       /\ live.session # "open" /\ ~live.stream /\ live.aborted
       /\ live.calls \cap (Steers \cup Answers \cup Requests) = {}
       /\ \A c \in Steers \cup Answers : ~(live.control[c].pc \in {"intent", "call", "wait", "receipt"})
  /\ live.execution = "released" => live.resources # "held"

\* An outcome is never better than what is known: success, failure after the start
\* and provider cancellation repeat the event the reader took, everything was given
\* back, and no control is left whose effect is unknown.
OutcomeIsHonest ==
  live.finish = "done" /\ run[R].outcome # "recovery_required" =>
    /\ CleanedUp
    /\ live.started => live.read # "none" /\ run[R].outcome = OutcomeOf(live.read)
    /\ ~live.started => run[R].outcome = "failed"
    /\ \A c \in Steers \cup Answers : live.control[c].result # "uncertain"

\* Everything was given back, no control of unknown effect marked the run, and neither a
\* callback or an answer nor the output was lost: what is left is a cancellation's doubt.
OnlyCancellationInDoubt ==
  CleanedUp /\ ~run[R].recovery /\ live.overruled \notin {"request", "dispatch"}

\* Once the reader has handed over what the provider ended with, a cancellation whose
\* effect is unknown, at whatever point of the cleanup it fails, leaves it alone; and a
\* steering of unknown effect replaces it only after it has marked the run.
ReportedResultIsKept ==
  /\ live.finish = "done" /\ live.outcome \in {"succeeded", "provider_terminal"}
  /\ OnlyCancellationInDoubt
  => run[R].outcome = live.outcome

\* README.md:153 of agent-orchestration: "a cancellation race does not overwrite a
\* completed result".  The reader has taken the provider's completion, and nothing
\* but a cancellation is in doubt: the run is settled as succeeded.
CompletedResultIsKept ==
  /\ live.finish = "done" /\ live.read = "completed" /\ OnlyCancellationInDoubt
  => run[R].outcome = "succeeded"

\* The provider enters a run's turn at most once, whatever happens to the owner.
OneTurn == turns <= 1

\* What control.ts:152 asks of the live run before it admits an answer.
AdmitsAnswer ==
  /\ live.request = run[R].request /\ live.eligibility[live.request] = "waiting"
  /\ live.stream /\ live.uncertain = "none"

\* A steering of unknown effect closes the run to answers (control.ts:106, 152): it is
\* recorded, or its receipt is on its way.
SteeringInDoubt ==
  /\ live.uncertain = "steering"
  /\ run[R].recovery \/ \E c \in Steers : At(c, "receipt") /\ live.control[c].result = "uncertain"

\* The request a waiting run waits for is admitted to an answer, or an answer is about to
\* be intended or to report an unknown effect, or the run is being ended.  No rejected,
\* refused, timed out or raced answer strands it; the one thing that does, until the run
\* is cancelled or the provider ends the turn, is a steering of unknown effect.
WaitingIsAnswerable ==
  live.main \in {"reading", "routing", "presenting"} /\ run[R].phase = "waiting" =>
    \/ AdmitsAnswer
    \/ \E c \in Answers : At(c, "intent")
    \/ \E c \in Answers : At(c, "receipt") /\ live.control[c].result = "uncertain"
    \/ SteeringInDoubt
    \/ Cancelling \/ Finishing \/ live.aborted

\* Owners may die, but not for ever.
StaysOwned == <>[](owner # 0)

\* Once finishRun has begun, the run settles, by this owner's cleanup or by the next
\* one's recovery: no commit of the cleanup is refused and no wait of the cleanup is
\* for something that waits for the cleanup.
FinishSettles == StaysOwned => (Finishing ~> run[R].phase = "settled")

\* A recorded cancellation ends the run, though the provider may never end a turn and
\* the owner may die on the way.
CancelSettles == StaysOwned => (run[R].cancelRequested ~> run[R].phase = "settled")

================================================================================
