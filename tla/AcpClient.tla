------------------------------- MODULE AcpClient -------------------------------
(***************************************************************************)
(* The JSON-RPC client of an ACP connection (acp-transport/src/client.ts)  *)
(* over its message writer: requests of this side, requests of the peer    *)
(* (reverse requests) with their handlers, notification handlers, and the  *)
(* close that any failure starts.  Both sides draw their ids from one      *)
(* space: no outbound prefix is configured.                                *)
(*                                                                         *)
(* An action is the code between two awaits.  Handlers and observers are   *)
(* the host's: they are called synchronously and may dispose of the client *)
(* from inside.  The peer sends what it likes.  What only chooses an error *)
(* code (validation, cancellation of a handler, the notification rate) is  *)
(* a choice between the outcomes.  The id counter stays below 2^53, and    *)
(* shutdownDrainMs is positive.                                            *)
(***************************************************************************)
EXTENDS AcpWriter

CONSTANTS
  MaxId,              \* bound: ids of a behaviour, each used once by either side
  maxOutstandingRequests, maxInboundRequestConcurrency, maxNotificationHandlerConcurrency

Ids == 1..MaxId

RequestFrame(id) == <<"request", id>>
ResponseFrame(id) == <<"response", id>>
RefusalFrame(id) == <<"refusal", id>>
\* Notifications: $/cancel_request and those of the host.
Notices == {f \in Frames : f[1] = "notice"}

ASSUME ClientAssumption ==
  /\ MaxId \in Nat
  /\ maxOutstandingRequests \in Nat /\ maxInboundRequestConcurrency \in Nat
  /\ maxNotificationHandlerConcurrency \in Nat
  /\ Frames \subseteq {"request", "response", "refusal", "notice"} \X Ids
  /\ \A id \in Ids : {RequestFrame(id), ResponseFrame(id), RefusalFrame(id)} \subseteq Frames

VARIABLE client

clientVars == <<client, writerVars>>

ClientRecord ==
  [state : {"open", "drain", "settle", "transport", "closed"},  \* the middle three: 'closing'
   nextRequestId : Nat \ {0},
   pending : SUBSET Ids,
   \* reservedInboundRequestIds, and activeReverse but for the refusals
   reverse : [Ids -> {"none", "handling", "responding", "refusing"}],
   notifications : Nat,                \* activeNotifications
   settlements : SUBSET Ids,           \* what close waits for: of activeReverse
   noted : BOOLEAN,                    \* and whether there were notifications
   expired : BOOLEAN]                  \* history: close stopped waiting for them

Reserved(c) == {id \in Ids : c.reverse[id] # "none"}
Active(c) == {id \in Ids : c.reverse[id] \in {"handling", "responding"}}
Open == client.state = "open"

ClientTypeOK ==
  /\ client \in ClientRecord
  /\ Cardinality(client.pending) <= maxOutstandingRequests
  /\ Cardinality(Active(client)) <= maxInboundRequestConcurrency
  /\ client.notifications <= maxNotificationHandlerConcurrency

ClientInit ==
  /\ WriterInit
  /\ client = [state |-> "open", nextRequestId |-> 1,
               pending |-> {}, reverse |-> [id \in Ids |-> "none"],
               notifications |-> 0, settlements |-> {}, noted |-> FALSE, expired |-> FALSE]

--------------------------------------------------------------------------------
(* close, fatal, writeOrFail *)

\* Mutant: the settlements are collected before the handler being entered is registered.
SettlementsBefore(c) == Active(client)

Settlements(c) == Active(c)

\* close rejects every pending request with one error.
RequestsRejected(c) == {}

\* The synchronous part of close, with the client as c; a later close shares it.  Ids
\* are not allocated any more.
Closing(c) ==
  [c EXCEPT !.state = "drain", !.nextRequestId = 1, !.pending = RequestsRejected(c),
            !.settlements = Settlements(c), !.noted = c.notifications > 0]

CloseFrom(c) == client' = Closing(c) /\ OwnerDisposes

\* writeOrFail up to its await: a frame that is not admitted closes the client at once.
\* The client becomes sent, or is closed from unsent.
WriteOrFail(f, sent, unsent) ==
  IF Fits(f) THEN Submit(f) /\ client' = sent ELSE CloseFrom(unsent)

\* dispose, the end of the peer's output, a frame that is invalid, unsolicited or over a
\* limit, and an observer that disposes.
Shut == Open /\ CloseFrom(client)

\* Mutant: the rejection of a write is nobody's concern.
RejectionIgnored(f) == UNCHANGED <<client, write, disposed>>

\* writeOrFail after its await: a rejected write is fatal.
AfterWrite(f) ==
  IF write[f].caller = "rejected" /\ Open
  THEN client' = Closing(client) /\ Dispose
  ELSE UNCHANGED <<client, write, disposed>>

WriteContinues(f) == Account(f) /\ AfterWrite(f)

--------------------------------------------------------------------------------
(* Requests of this side *)

Candidates == client.nextRequestId..(client.nextRequestId + maxOutstandingRequests)

\* Mutant: an id is free when no request of this side waits on it.
FreeOfPending == Candidates \ client.pending

\* allocateRequestId looks at so many ids and takes the first free one.
FreeIds == Candidates \ (client.pending \cup Reserved(client))

Allocated == CHOOSE id \in FreeIds : \A other \in FreeIds : id <= other

\* request: registered, shown to onRequestDispatch, which may throw or dispose, and sent.
Request ==
  /\ Open /\ Cardinality(client.pending) < maxOutstandingRequests
  /\ FreeIds # {} /\ Allocated \in Ids
  /\ LET id == Allocated
         c == [client EXCEPT !.nextRequestId = id + 1, !.pending = @ \cup {id}]
     IN  \/ WriteOrFail(RequestFrame(id), c, c)
         \/ client' = [c EXCEPT !.pending = @ \ {id}] /\ UNCHANGED writerVars
         \/ CloseFrom(c)

\* acp_request_id_space_exhausted
NoIdLeft ==
  /\ Open /\ Cardinality(client.pending) < maxOutstandingRequests
  /\ FreeIds = {}
  /\ client' = [client EXCEPT !.nextRequestId = @ + maxOutstandingRequests + 1]
  /\ UNCHANGED writerVars

Unsent(frames) == {f \in frames : write[f].caller = "none"}

\* The timer or the caller's signal: the peer is told, where the schema has a way to.
GiveUp(id) ==
  /\ id \in client.pending
  /\ LET c == [client EXCEPT !.pending = @ \ {id}]
     IN  \/ \E f \in Unsent(Notices) : WriteOrFail(f, c, c)
         \/ client' = c /\ UNCHANGED writerVars

Notify == Open /\ \E f \in Unsent(Notices) : WriteOrFail(f, client, client)

\* handleResponse: to a request that waits, valid or not; anything else is fatal.
Response(id) ==
  /\ Open
  /\ \/ /\ id \in client.pending \ Reserved(client)
        /\ LET c == [client EXCEPT !.pending = @ \ {id}]
           IN  (client' = c /\ UNCHANGED writerVars) \/ CloseFrom(c)
     \/ id \notin client.pending \ Reserved(client) /\ CloseFrom(client)

--------------------------------------------------------------------------------
(* Requests and notifications of the peer *)

Entering(id) == [client EXCEPT !.reverse[id] = "handling"]

RoomForHandler == Cardinality(Active(client)) < maxInboundRequestConcurrency

\* handleRequest: a known id is fatal; over the limit, of an unknown extension or
\* without a handler it is refused; otherwise its handler is entered.
ReverseRequest(id) ==
  /\ Open /\ {ResponseFrame(id), RefusalFrame(id)} \subseteq Unsent(Frames)
  /\ \/ id \in client.pending \cup Reserved(client) /\ CloseFrom(client)
     \/ /\ id \notin client.pending \cup Reserved(client)
        /\ \/ WriteOrFail(RefusalFrame(id), [client EXCEPT !.reverse[id] = "refusing"], client)
           \/ RoomForHandler /\ client' = Entering(id) /\ UNCHANGED writerVars
           \/ RoomForHandler /\ CloseFrom(Entering(id))

\* The handler ends, with a result or an error: a response is written if still open.
HandlerEnds(id) ==
  /\ client.reverse[id] = "handling"
  /\ IF Open
     THEN WriteOrFail(ResponseFrame(id), [client EXCEPT !.reverse[id] = "responding"],
                      [client EXCEPT !.reverse[id] = "none"])
     ELSE client' = [client EXCEPT !.reverse[id] = "none"] /\ UNCHANGED writerVars

Answered(f) ==
  write[f].caller \in {"resolved", "rejected"} /\ \A i \in DOMAIN queue : queue[i] # f

\* The finally of runReverseRequest awaits the actual write.
ResponseOver(id) == Answered(ResponseFrame(id)) /\ write[ResponseFrame(id)].settled

\* The id is given back, and context.settled is fulfilled.
ReverseEnds(id) ==
  /\ \/ client.reverse[id] = "responding" /\ ResponseOver(id)
     \/ client.reverse[id] = "refusing" /\ Answered(RefusalFrame(id))
  /\ client' = [client EXCEPT !.reverse[id] = "none"]
  /\ UNCHANGED writerVars

\* handleNotification of a notification that has a handler.
Notification ==
  /\ Open /\ client.notifications < maxNotificationHandlerConcurrency
  /\ LET c == [client EXCEPT !.notifications = @ + 1]
     IN  (client' = c /\ UNCHANGED writerVars) \/ CloseFrom(c)

\* A handler that throws is fatal.
NotificationEnds ==
  /\ client.notifications > 0
  /\ LET c == [client EXCEPT !.notifications = @ - 1]
     IN  (client' = c /\ UNCHANGED writerVars) \/ (Open /\ CloseFrom(c))

--------------------------------------------------------------------------------
(* The asynchronous part of close *)

Becomes(state) == client' = [client EXCEPT !.state = state] /\ UNCHANGED writerVars

\* What close waited for is forgotten.
Waited == [client EXCEPT !.state = "transport", !.settlements = {}, !.noted = FALSE]

\* The writer's queue, or its timer.
WriterDrains == client.state = "drain" /\ Becomes("settle")

SettlementsOver ==
  /\ client.settlements \cap Active(client) = {}
  /\ client.noted => client.notifications = 0

HandlersSettle ==
  client.state = "settle" /\ SettlementsOver /\ client' = Waited /\ UNCHANGED writerVars

\* Mutant: a drain without a limit.
NoTimer == FALSE

\* The timer of shutdownDrainMs.
DrainTimer == ~SettlementsOver

HandlersExpire ==
  /\ client.state = "settle" /\ DrainTimer
  /\ client' = [Waited EXCEPT !.expired = TRUE]
  /\ UNCHANGED writerVars

\* disposeTransport, whether it fulfills or rejects.
TransportDisposed == client.state = "transport" /\ Becomes("closed")

--------------------------------------------------------------------------------

Microtasks ==
  \/ \E f \in Frames : (Enter(f) /\ UNCHANGED client) \/ WriteContinues(f)
  \/ \E id \in Ids : ReverseEnds(id)

StreamEvents ==
  /\ \/ \E f \in Frames : Callback(f) \/ Drain(f)
     \/ \E f \in Frames : write[f].called = "error" /\ StreamFails
  /\ UNCHANGED client

CloseSteps == WriterDrains \/ HandlersSettle \/ HandlersExpire \/ TransportDisposed

ClientNext ==
  \/ Shut \/ Request \/ NoIdLeft \/ Notify \/ Notification \/ NotificationEnds
  \/ \E id \in Ids :
       GiveUp(id) \/ Response(id) \/ ReverseRequest(id) \/ HandlerEnds(id)
  \/ Microtasks \/ StreamEvents \/ CloseSteps
  \/ StreamFails /\ UNCHANGED client

ClientSpec == ClientInit /\ [][ClientNext]_clientVars

\* Microtasks run, the stream calls back (WriterFairness), timers fire and the host's
\* transport disposer returns.  Nobody owes a request, an answer or the end of a handler.
\* Each of these steps happens finitely often, so fairness to their union is enough.
ClientFairness ==
  WF_clientVars(Microtasks) /\ WF_clientVars(StreamEvents) /\ WF_clientVars(CloseSteps)

FairClientSpec == ClientSpec /\ ClientFairness

--------------------------------------------------------------------------------
(* Properties *)

\* README: context.settled "fulfills after that handler and its actual response-write
\* obligation settle", and the ids of refusals "remain reserved until writing finishes".
ReservedThroughWrite ==
  \A id \in Ids \ Reserved(client) :
    /\ write[RefusalFrame(id)].caller # "waiting"
    /\ write[ResponseFrame(id)].caller # "none" => write[ResponseFrame(id)].settled

\* No id stands for two things: none waits for an answer of the peer and of this side at
\* once, and one of the peer's stays taken until its answer has left or is lost, so that a
\* response, early or late, is never taken for the wrong one.
IdsUnambiguous == client.pending \cap Reserved(client) = {} /\ ReservedThroughWrite

\* Once a close has begun, from wherever it was called, no request waits any more, and the
\* transport is disposed of under no handler and under no response that is being written,
\* unless the drain took too long.
QuietTransport ==
  /\ ~Open => client.pending = {}
  /\ client.state \in {"transport", "closed"} /\ ~client.expired =>
       Active(client) = {} /\ client.notifications = 0

\* Every close completes, though handlers may never end and the peer never read.
CloseEnds == ~Open ~> client.state = "closed"

================================================================================
