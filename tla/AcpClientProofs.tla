---------------------------- MODULE AcpClientProofs ----------------------------
(***************************************************************************)
(* Facts about AcpClient for any ids, frames and limits: the client uses   *)
(* its writer as AcpWriter expects an owner to, so that the output is      *)
(* owned; ids are unambiguous; and the transport is quiet when it is       *)
(* disposed of.                                                            *)
(*                                                                         *)
(* A close may be called from inside any other action, by a handler, an    *)
(* observer or a full buffer: what the client is at that moment is part of *)
(* the argument, so the invariant is stated of a client c.                 *)
(***************************************************************************)
EXTENDS AcpClient, AcpWriterProofs, FiniteSetTheorems, WellFoundedInduction

\* The limits of client.ts.
Bounded(c) ==
  /\ Cardinality(c.pending) <= maxOutstandingRequests
  /\ Cardinality(Active(c)) <= maxInboundRequestConcurrency
  /\ c.notifications <= maxNotificationHandlerConcurrency

\* What has been written in answer to a request of the peer, by the state of its id.
AnswerWritten(state, response, refusal) ==
  /\ state \in {"handling", "refusing"} => response.caller = "none"
  /\ state \in {"handling", "responding"} => refusal.caller = "none"
  /\ state = "none" => /\ refusal.caller # "waiting"
                       /\ response.caller # "none" => response.settled

\* The answers to every id.
AnswersWritten(c, w) ==
  \A id \in Ids : AnswerWritten(c.reverse[id], w[ResponseFrame(id)], w[RefusalFrame(id)])

\* What holds of the client within an action too.
ClientTrue(c, w) == c \in ClientRecord /\ Bounded(c) /\ AnswersWritten(c, w)

\* The writer is fenced exactly when the client is.
Fenced == Open <=> ~disposed

\* A close waits for every handler and notification that is left, and there are no new ones.
CloseTrue ==
  /\ ~Open => client.pending = {}
  /\ client.state \in {"drain", "settle"} =>
       /\ Active(client) \subseteq client.settlements
       /\ client.notifications > 0 => client.noted
  /\ client.state \in {"transport", "closed"} /\ ~client.expired =>
       Active(client) = {} /\ client.notifications = 0

\* No id is waited for in both directions.
IdsApart(c) == c.pending \cap Reserved(c) = {}

\* The inductive invariant of the client.
ClientInv == WriterInv /\ ClientTrue(client, write) /\ IdsApart(client) /\ Fenced /\ CloseTrue

--------------------------------------------------------------------------------
(* Ids and frames *)

\* The frames of an id are frames, and tell their kind and their id.
LEMMA FramesOfIds ==
  ASSUME NEW id \in Ids
  PROVE  /\ RequestFrame(id) \in Frames /\ ResponseFrame(id) \in Frames
         /\ RefusalFrame(id) \in Frames
BY ClientAssumption

\* Frames of two kinds differ, and so do frames of one kind for two ids.
LEMMA FramesApart ==
  ASSUME NEW id, NEW other
  PROVE  /\ RequestFrame(id) # ResponseFrame(other) /\ RequestFrame(id) # RefusalFrame(other)
         /\ ResponseFrame(id) # RefusalFrame(other)
         /\ ResponseFrame(id) = ResponseFrame(other) => id = other
         /\ RefusalFrame(id) = RefusalFrame(other) => id = other
         /\ \A f \in Notices : f # ResponseFrame(id) /\ f # RefusalFrame(id)
<1>1. RequestFrame(id)[1] = "request" /\ ResponseFrame(other)[1] = "response"
      /\ RefusalFrame(other)[1] = "refusal" /\ ResponseFrame(id)[1] = "response"
      /\ RefusalFrame(id)[1] = "refusal"
  BY DEF RequestFrame, ResponseFrame, RefusalFrame
<1>2. ResponseFrame(id)[2] = id /\ ResponseFrame(other)[2] = other
      /\ RefusalFrame(id)[2] = id /\ RefusalFrame(other)[2] = other
  BY DEF ResponseFrame, RefusalFrame
<1> QED BY <1>1, <1>2 DEF Notices

\* Requests and handlers are finitely many.
LEMMA ClientSets ==
  ASSUME NEW c \in ClientRecord
  PROVE  /\ IsFiniteSet(c.pending) /\ Cardinality(c.pending) \in Nat
         /\ IsFiniteSet(Active(c)) /\ Cardinality(Active(c)) \in Nat
<1>1. IsFiniteSet(Ids)
  BY ClientAssumption, FS_Interval DEF Ids
<1>2. c.pending \in SUBSET Ids /\ Active(c) \in SUBSET Ids
  BY DEF ClientRecord, Active
<1>3. IsFiniteSet(c.pending) /\ IsFiniteSet(Active(c))
  BY <1>1, <1>2, FS_Subset
<1> QED BY <1>3, FS_CardinalityType

\* A request of the peer moves from one state to another.
LEMMA ReverseMoves ==
  ASSUME NEW c \in ClientRecord, NEW id \in Ids, NEW d,
         NEW state \in {"none", "handling", "responding", "refusing"},
         d = [c EXCEPT !.reverse[id] = state]
  PROVE  /\ d \in ClientRecord
         /\ d.state = c.state /\ d.pending = c.pending /\ d.notifications = c.notifications
         /\ d.settlements = c.settlements /\ d.noted = c.noted /\ d.expired = c.expired
         /\ d.reverse[id] = state
         /\ \A other \in Ids : other # id => d.reverse[other] = c.reverse[other]
         /\ Reserved(d) = IF state = "none" THEN Reserved(c) \ {id} ELSE Reserved(c) \cup {id}
         /\ Active(d) = IF state \in {"none", "refusing"} THEN Active(c) \ {id}
                        ELSE Active(c) \cup {id}
<1>1. d = [c EXCEPT !.reverse = [c.reverse EXCEPT ![id] = state]]
  OBVIOUS
<1>2. /\ d \in ClientRecord
      /\ d.state = c.state /\ d.pending = c.pending /\ d.notifications = c.notifications
      /\ d.settlements = c.settlements /\ d.noted = c.noted /\ d.expired = c.expired
      /\ d.reverse = [c.reverse EXCEPT ![id] = state]
  BY <1>1 DEF ClientRecord
<1>3. c.reverse \in [Ids -> {"none", "handling", "responding", "refusing"}]
  BY DEF ClientRecord
<1>4. d.reverse[id] = state /\ \A other \in Ids : other # id => d.reverse[other] = c.reverse[other]
  BY <1>2, <1>3
<1>5. /\ Reserved(d) = IF state = "none" THEN Reserved(c) \ {id} ELSE Reserved(c) \cup {id}
      /\ Active(d) = IF state \in {"none", "refusing"} THEN Active(c) \ {id}
                     ELSE Active(c) \cup {id}
  BY <1>4 DEF Reserved, Active
<1> QED BY <1>2, <1>4, <1>5

\* Fewer requests and handlers are within the limits too.
LEMMA StillBounded ==
  ASSUME NEW c \in ClientRecord, NEW d \in ClientRecord, Bounded(c),
         d.pending \subseteq c.pending, Active(d) \subseteq Active(c),
         d.notifications <= c.notifications
  PROVE  Bounded(d)
<1>1. Cardinality(d.pending) <= Cardinality(c.pending)
  BY ClientSets, FS_Subset
<1>2. Cardinality(Active(d)) <= Cardinality(Active(c))
  BY ClientSets, FS_Subset
<1>3. d.notifications \in Nat /\ c.notifications \in Nat
  BY DEF ClientRecord
<1>4. /\ Cardinality(d.pending) \in Nat /\ Cardinality(c.pending) \in Nat
      /\ Cardinality(Active(d)) \in Nat /\ Cardinality(Active(c)) \in Nat
  BY ClientSets
<1> QED BY <1>1, <1>2, <1>3, <1>4, ClientAssumption DEF Bounded

\* allocateRequestId finds the first free id, when one is left.
LEMMA AllocatedIsFree ==
  ASSUME client \in ClientRecord, FreeIds # {}
  PROVE  Allocated \in FreeIds
<1>1. FreeIds \subseteq Nat
  BY ClientAssumption DEF FreeIds, Candidates, ClientRecord
<1>2. PICK id \in FreeIds : \A other \in FreeIds : ~(<<other, id>> \in OpToRel(<, Nat))
  BY <1>1, WFMin, NatLessThanWellFounded
<1>3. \A other \in FreeIds : id <= other
  <2> SUFFICES ASSUME NEW other \in FreeIds, other < id PROVE FALSE
    BY <1>1
  <2>1. <<other, id>> \in Nat \X Nat /\ <<other, id>>[1] < <<other, id>>[2]
    BY <1>1
  <2>2. <<other, id>> \in OpToRel(<, Nat)
    BY <2>1 DEF OpToRel
  <2> QED BY <1>2, <2>2
<1> QED BY <1>3 DEF Allocated

--------------------------------------------------------------------------------
(* What the steps of the writer do to the answers *)

\* Nothing is submitted: a caller is answered at most, and a settled write stays settled.
NothingSent ==
  \A f \in Frames :
    /\ write'[f].caller = "none" <=> write[f].caller = "none"
    /\ write'[f].caller = "waiting" => write[f].caller = "waiting"
    /\ write[f].settled => write'[f].settled

\* Only f is submitted.
Sent(f) ==
  /\ write[f].caller = "none" /\ write'[f].caller = "waiting"
  /\ \A g \in Frames : g # f => write'[g] = write[g]

\* A write that was admitted is one that was not there.
LEMMA SubmitSends == ASSUME WriterTypes, NEW f \in Frames, Submit(f) PROVE Sent(f)
BY DEF WriterTypes, Submit, Sent

\* The fence of the writer rejects and writes nothing.
LEMMA DisposeSendsNothing == ASSUME WriterTypes, Dispose PROVE NothingSent
<1> SUFFICES ASSUME NEW f \in Frames
             PROVE  /\ write'[f].caller = "none" <=> write[f].caller = "none"
                    /\ write'[f].caller = "waiting" => write[f].caller = "waiting"
                    /\ write[f].settled => write'[f].settled
  BY DEF NothingSent
<1>1. write[f] \in WriteRecord /\ write'[f] = RejectActive(write[f])
  BY DEF WriterTypes, Dispose
<1> QED BY <1>1 DEF RejectActive, WriteRecord

\* A completed write has left no caller waiting.
LEMMA CompleteSendsNothing ==
  ASSUME NEW w \in WriteRecord, NEW answer \in {"resolved", "rejected"}
  PROVE  /\ Complete(w, answer).caller = "none" <=> w.caller = "none"
         /\ Complete(w, answer).caller # "waiting"
         /\ Complete(w, answer).settled
BY DEF Complete, Answer

\* Whatever the stream does, no write is added.
LEMMA StreamSendsNothing ==
  ASSUME WriterTypes, StreamFails \/ \E f \in Frames : Enter(f) \/ Callback(f) \/ Drain(f)
  PROVE  NothingSent
<1> DEFINE Kept(f) == /\ write'[f].caller = "none" <=> write[f].caller = "none"
                      /\ write'[f].caller = "waiting" => write[f].caller = "waiting"
                      /\ write[f].settled => write'[f].settled
<1> SUFFICES ASSUME NEW g \in Frames PROVE Kept(g)
  BY DEF NothingSent
<1>0. write[g] \in WriteRecord
  BY DEF WriterTypes
<1>c. ASSUME NEW w \in WriteRecord, w.caller = write[g].caller, write[g].settled => w.settled,
             NEW answer \in {"resolved", "rejected"},
             write'[g] = Complete(w, answer)
      PROVE  Kept(g)
  <2> HIDE DEF WriteRecord
  <2> QED BY <1>c, CompleteSendsNothing
<1>1. CASE StreamFails
  <2>1. write'[g] = IF write[g].listening THEN Complete(write[g], "rejected") ELSE write[g]
    BY <1>1 DEF StreamFails
  <2> HIDE DEF Kept, WriteRecord
  <2>2. CASE write[g].listening
    BY <1>0, <1>c, <2>1, <2>2
  <2>3. CASE ~write[g].listening
    BY <2>1, <2>3 DEF Kept
  <2> QED BY <2>2, <2>3
<1>2. ASSUME NEW f \in Frames, Enter(f) PROVE Kept(g)
  <2>1. CASE write'[g] = write[g]
    BY <2>1
  <2>2. CASE f = g /\ write' = [write EXCEPT ![f] = Complete(@, "rejected")]
    <3>1. write'[g] = Complete(write[g], "rejected")
      BY <2>2 DEF WriterTypes
    <3> HIDE DEF Kept, WriteRecord
    <3> QED BY <1>0, <1>c, <3>1
  <2>3. CASE f = g /\ \E admitted \in BOOLEAN : write' =
               [write EXCEPT ![f].entered = TRUE, ![f].listening = TRUE, ![f].drained = admitted]
    BY <1>0, <2>3 DEF WriterTypes
  <2> QED BY <1>2, <2>1, <2>2, <2>3 DEF Enter, WriterTypes
<1>3. ASSUME NEW f \in Frames, Callback(f) PROVE Kept(g)
  <2> DEFINE ok == [write[g] EXCEPT !.called = "ok"]
             failed == [write[g] EXCEPT !.called = "error"]
             late == [ok EXCEPT !.listening = FALSE, !.settled = TRUE]
  <2>1. CASE write'[g] \in {write[g], failed, ok, late}
    BY <1>0, <2>1 DEF WriteRecord
  <2>2. CASE write'[g] = Complete(ok, "resolved")
    <3>1. ok \in WriteRecord /\ ok.caller = write[g].caller /\ ok.settled = write[g].settled
      BY <1>0 DEF WriteRecord
    <3> HIDE DEF Kept, ok, WriteRecord
    <3> QED BY <1>c, <2>2, <3>1
  <2>3. write'[g] \in {write[g], failed, ok, late, Complete(ok, "resolved")}
    BY <1>3 DEF Callback, WriterTypes
  <2> QED BY <2>1, <2>2, <2>3
<1>4. ASSUME NEW f \in Frames, Drain(f) PROVE Kept(g)
  <2> DEFINE seen == [write[g] EXCEPT !.drained = TRUE]
  <2>1. CASE write'[g] \in {write[g], seen}
    BY <1>0, <2>1 DEF WriteRecord
  <2>2. CASE write'[g] = Complete(seen, "resolved")
    <3>1. seen \in WriteRecord /\ seen.caller = write[g].caller /\ seen.settled = write[g].settled
      BY <1>0 DEF WriteRecord
    <3> HIDE DEF Kept, seen, WriteRecord
    <3> QED BY <1>c, <2>2, <3>1
  <2>3. write'[g] \in {write[g], seen, Complete(seen, "resolved")}
    BY <1>4 DEF Drain, WriterTypes
  <2> QED BY <2>1, <2>2, <2>3
<1> QED BY <1>1, <1>2, <1>3, <1>4

--------------------------------------------------------------------------------
(* Answers *)

\* Steps that send nothing, and leave the requests of the peer where they are, keep the answers.
LEMMA AnswersKept ==
  ASSUME NEW c, NEW d, d.reverse = c.reverse, AnswersWritten(c, write), NothingSent
  PROVE  AnswersWritten(d, write')
<1> SUFFICES ASSUME NEW id \in Ids
             PROVE  AnswerWritten(c.reverse[id], write'[ResponseFrame(id)], write'[RefusalFrame(id)])
  BY DEF AnswersWritten
<1>1. AnswerWritten(c.reverse[id], write[ResponseFrame(id)], write[RefusalFrame(id)])
  BY DEF AnswersWritten
<1>2. /\ write'[ResponseFrame(id)].caller = "none" <=> write[ResponseFrame(id)].caller = "none"
      /\ write[ResponseFrame(id)].settled => write'[ResponseFrame(id)].settled
      /\ write'[RefusalFrame(id)].caller = "none" <=> write[RefusalFrame(id)].caller = "none"
      /\ write'[RefusalFrame(id)].caller = "waiting" => write[RefusalFrame(id)].caller = "waiting"
  BY FramesOfIds DEF NothingSent
<1> QED BY <1>1, <1>2 DEF AnswerWritten

\* So does sending what answers nothing.
LEMMA AnswersUntouched ==
  ASSUME NEW c, NEW d, d.reverse = c.reverse, AnswersWritten(c, write), NEW f, Sent(f),
         \A id \in Ids : f # ResponseFrame(id) /\ f # RefusalFrame(id)
  PROVE  AnswersWritten(d, write')
BY FramesOfIds DEF Sent, AnswersWritten

\* A close, from wherever it is called.
LEMMA ClosingInv ==
  ASSUME ClientInv, NEW c, ClientTrue(c, write), client' = Closing(c),
         Dispose, UNCHANGED stream, queue' \in Seq(Frames)
  PROVE  ClientInv'
<1>1. WriterInv'
  BY DisposeInv DEF ClientInv
<1>2. /\ client' \in ClientRecord /\ client'.state = "drain" /\ client'.pending = {}
      /\ client'.reverse = c.reverse /\ client'.notifications = c.notifications
      /\ client'.settlements = Active(c) /\ client'.noted = (c.notifications > 0)
  <2>1. c \in ClientRecord /\ Active(c) \in SUBSET Ids /\ {} \in SUBSET Ids /\ 1 \in Nat \ {0}
    BY DEF ClientTrue, Active
  <2> DEFINE noted == c.notifications > 0
  <2> HIDE DEF noted
  <2>3. client' = [c EXCEPT !.state = "drain", !.nextRequestId = 1, !.pending = {},
                            !.settlements = Active(c), !.noted = noted]
    BY DEF Closing, Settlements, RequestsRejected, noted
  <2>4. noted \in BOOLEAN
    BY DEF noted
  <2> DEFINE active == Active(c)
  <2> HIDE DEF active
  <2>a. active \in SUBSET Ids /\ client' = [c EXCEPT !.state = "drain", !.nextRequestId = 1, !.pending = {},
                            !.settlements = active, !.noted = noted]
    BY <2>1, <2>3 DEF active
  <2>5. /\ client' \in ClientRecord /\ client'.state = "drain" /\ client'.pending = {}
        /\ client'.reverse = c.reverse /\ client'.notifications = c.notifications
        /\ client'.settlements = active /\ client'.noted = noted
    BY <2>1, <2>a, <2>4 DEF ClientRecord
  <2> QED BY <2>5 DEF noted, active
<1>3. Active(client') = Active(c)
  BY <1>2 DEF Active
<1>4. Bounded(client')
  <2>1. c \in ClientRecord /\ Bounded(c) /\ c.notifications \in Nat
    BY DEF ClientTrue, ClientRecord
  <2> QED BY <1>2, <1>3, <2>1, StillBounded
<1>5. AnswersWritten(client', write')
  <2>1. NothingSent
    BY DisposeSendsNothing DEF ClientInv, WriterInv
  <2> QED BY <1>2, <2>1, AnswersKept DEF ClientTrue
<1>6. IdsApart(client')
  BY <1>2 DEF IdsApart
<1>7. Fenced'
  BY <1>2 DEF Fenced, Open, Dispose
<1>8. CloseTrue'
  BY <1>2, <1>3 DEF CloseTrue, Open
<1>9. ClientTrue(client', write')
  BY <1>2, <1>4, <1>5 DEF ClientTrue
<1> QED BY <1>1, <1>6, <1>7, <1>8, <1>9 DEF ClientInv

\* A close, from inside whichever action called it, keeps the invariant.
LEMMA CloseFromInv ==
  ASSUME ClientInv, NEW c, ClientTrue(c, write), CloseFrom(c)
  PROVE  ClientInv' /\ WriterNext
<1>1. Dispose /\ UNCHANGED <<queue, stream>> /\ client' = Closing(c)
  BY DEF CloseFrom, OwnerDisposes
<1>2. queue' \in Seq(Frames)
  BY <1>1 DEF ClientInv, WriterInv, WriterTypes
<1>3. ClientInv'
  BY <1>1, <1>2, ClosingInv
<1> QED BY <1>3 DEF CloseFrom, WriterNext

\* The client goes on, open.
LEMMA StaysOpen ==
  ASSUME ClientInv, WriterInv', Open, UNCHANGED disposed, NEW c, client' = c,
         c.state = "open", ClientTrue(c, write'), IdsApart(c)
  PROVE  ClientInv'
BY DEF ClientInv, Fenced, Open, CloseTrue

\* It goes on without having touched the writer.
LEMMA StaysSilent ==
  ASSUME ClientInv, Open, UNCHANGED writerVars, NEW c, client' = c,
         c.state = "open", ClientTrue(c, write), IdsApart(c)
  PROVE  ClientInv' /\ [WriterNext]_writerVars
<1>1. WriterInv' /\ write' = write /\ UNCHANGED disposed
  BY WriterNextInv DEF writerVars, ClientInv
<1> QED BY <1>1, StaysOpen

\* writeOrFail: the frame is sent, or the client closes.
LEMMA WriteOrFailInv ==
  ASSUME ClientInv, Open, NEW f \in Frames, NEW sent, NEW unsent,
         WriteOrFail(f, sent, unsent), ClientTrue(unsent, write),
         sent \in ClientRecord, Bounded(sent), sent.state = "open", IdsApart(sent),
         Sent(f) => AnswersWritten(sent, write')
  PROVE  ClientInv' /\ [WriterNext]_writerVars
<1>1. CASE Submit(f) /\ client' = sent
  <2>1. WriterInv' /\ UNCHANGED disposed /\ WriterNext
    BY <1>1, SubmitInv DEF ClientInv, Submit, WriterNext
  <2>2. Sent(f)
    BY <1>1, SubmitSends DEF ClientInv, WriterInv
  <2>3. ClientTrue(sent, write')
    BY <2>2 DEF ClientTrue
  <2> QED BY <1>1, <2>1, <2>3, StaysOpen
<1>2. CASE CloseFrom(unsent)
  BY <1>2, CloseFromInv
<1> QED BY <1>1, <1>2 DEF WriteOrFail

\* dispose, the peer's end, an invalid frame.
LEMMA ShutInv == ASSUME ClientInv, Shut PROVE ClientInv' /\ [WriterNext]_writerVars
BY CloseFromInv DEF ClientInv, Shut

\* A request leaves the table; nothing else changes.
LEMMA RequestLeaves ==
  ASSUME ClientInv, NEW id \in Ids
  PROVE  LET c == [client EXCEPT !.pending = @ \ {id}]
         IN  ClientTrue(c, write) /\ IdsApart(c) /\ c.state = client.state /\ c.reverse = client.reverse
<1> DEFINE c == [client EXCEPT !.pending = @ \ {id}]
<1>1. client \in ClientRecord /\ Bounded(client) /\ AnswersWritten(client, write)
  BY DEF ClientInv, ClientTrue
<1>2. /\ c \in ClientRecord /\ c.state = client.state /\ c.reverse = client.reverse
      /\ c.pending = client.pending \ {id} /\ c.notifications = client.notifications
  BY <1>1 DEF ClientRecord
<1> HIDE DEF c
<1>3. Active(c) = Active(client) /\ Reserved(c) = Reserved(client)
  BY <1>2 DEF Active, Reserved
<1>4. Bounded(c)
  <2>1. c.notifications \in Nat
    BY <1>2 DEF ClientRecord
  <2> QED BY <1>1, <1>2, <1>3, <2>1, StillBounded
<1>5. AnswersWritten(c, write)
  BY <1>1, <1>2 DEF AnswersWritten
<1>6. IdsApart(c)
  BY <1>2, <1>3 DEF ClientInv, IdsApart
<1> QED BY <1>2, <1>4, <1>5, <1>6 DEF ClientTrue, c

\* request: the id is free of both sides.
LEMMA RequestInv == ASSUME ClientInv, Request PROVE ClientInv' /\ [WriterNext]_writerVars
<1> DEFINE id == Allocated
           c == [client EXCEPT !.nextRequestId = id + 1, !.pending = @ \cup {id}]
           d == [c EXCEPT !.pending = @ \ {id}]
<1>1. client \in ClientRecord /\ Bounded(client) /\ AnswersWritten(client, write)
  BY DEF ClientInv, ClientTrue
<1>2. Open /\ Cardinality(client.pending) < maxOutstandingRequests /\ id \in Ids
  BY DEF Request
<1>3. id \in Nat \ {0} /\ id \notin client.pending /\ id \notin Reserved(client)
  <2>1. id \in FreeIds
    BY <1>1, AllocatedIsFree DEF Request
  <2> QED BY <1>2, <2>1 DEF FreeIds, Ids
<1>4. \/ WriteOrFail(RequestFrame(id), c, c)
      \/ client' = d /\ UNCHANGED writerVars
      \/ CloseFrom(c)
  BY DEF Request
<1> HIDE DEF id
<1>5. /\ c \in ClientRecord /\ c.state = "open" /\ c.reverse = client.reverse
      /\ c.pending = client.pending \cup {id} /\ c.notifications = client.notifications
      /\ d \in ClientRecord /\ d.state = "open" /\ d.reverse = client.reverse
      /\ d.pending = client.pending /\ d.notifications = client.notifications
  <2> DEFINE more == client.pending \cup {id}
  <2>1. id + 1 \in Nat \ {0} /\ more \in SUBSET Ids /\ more \ {id} = client.pending
    BY <1>1, <1>2, <1>3 DEF ClientRecord
  <2>2. c = [client EXCEPT !.nextRequestId = id + 1, !.pending = more]
    OBVIOUS
  <2> HIDE DEF c, more
  <2>3. /\ c \in ClientRecord /\ c.state = "open" /\ c.reverse = client.reverse
        /\ c.pending = more /\ c.notifications = client.notifications
    BY <1>1, <1>2, <2>1, <2>2 DEF ClientRecord, Open
  <2>4. d = [c EXCEPT !.pending = client.pending]
    BY <2>1, <2>3
  <2>5. /\ d \in ClientRecord /\ d.state = "open" /\ d.reverse = client.reverse
        /\ d.pending = client.pending /\ d.notifications = client.notifications
    BY <1>1, <2>3, <2>4 DEF ClientRecord
  <2> QED BY <2>3, <2>5 DEF more
<1> HIDE DEF c, d
<1>6. /\ Active(c) = Active(client) /\ Reserved(c) = Reserved(client)
      /\ Active(d) = Active(client) /\ Reserved(d) = Reserved(client)
  BY <1>5 DEF Active, Reserved
<1>7. Cardinality(c.pending) <= maxOutstandingRequests
  <2>1. IsFiniteSet(client.pending) /\ Cardinality(client.pending) \in Nat
    BY <1>1, ClientSets
  <2>2. Cardinality(client.pending \cup {id}) = Cardinality(client.pending) + 1
    BY <1>3, <2>1, FS_AddElement
  <2> QED BY <1>2, <1>5, <2>1, <2>2, ClientAssumption
<1>8. ClientTrue(c, write) /\ ClientTrue(d, write)
  BY <1>1, <1>5, <1>6, <1>7 DEF ClientTrue, Bounded, AnswersWritten
<1>9. IdsApart(c) /\ IdsApart(d)
  BY <1>3, <1>5, <1>6 DEF ClientInv, IdsApart
<1>10. CASE WriteOrFail(RequestFrame(id), c, c)
  <2>1. RequestFrame(id) \in Frames
    BY <1>2, FramesOfIds
  <2>2. Sent(RequestFrame(id)) => AnswersWritten(c, write')
    BY <1>1, <1>5, FramesApart, AnswersUntouched
  <2> QED BY <1>2, <1>5, <1>8, <1>9, <1>10, <2>1, <2>2, WriteOrFailInv DEF ClientTrue
<1>11. CASE client' = d /\ UNCHANGED writerVars
  BY <1>2, <1>5, <1>8, <1>9, <1>11, StaysSilent
<1>12. CASE CloseFrom(c)
  BY <1>8, <1>12, CloseFromInv
<1> QED BY <1>4, <1>10, <1>11, <1>12

\* No request id is left: the client closes.
LEMMA NoIdLeftInv == ASSUME ClientInv, NoIdLeft PROVE ClientInv' /\ [WriterNext]_writerVars
<1>1. client \in ClientRecord /\ Open
  BY DEF ClientInv, ClientTrue, NoIdLeft
<1>2. /\ client' \in ClientRecord /\ client'.state = "open" /\ client'.reverse = client.reverse
      /\ client'.pending = client.pending /\ client'.notifications = client.notifications
  <2> DEFINE next == client.nextRequestId + maxOutstandingRequests + 1
  <2>1. next \in Nat \ {0} /\ client' = [client EXCEPT !.nextRequestId = next]
    BY <1>1, ClientAssumption DEF NoIdLeft, ClientRecord
  <2> HIDE DEF next
  <2> QED BY <1>1, <2>1 DEF ClientRecord, Open
<1>3. Active(client') = Active(client) /\ Reserved(client') = Reserved(client)
  BY <1>2 DEF Active, Reserved
<1>4. ClientTrue(client', write) /\ IdsApart(client')
  BY <1>2, <1>3 DEF ClientInv, ClientTrue, Bounded, AnswersWritten, IdsApart
<1> QED BY <1>1, <1>2, <1>4, StaysSilent DEF NoIdLeft

\* A timer or a signal gives a request up, which tells the peer where it can.
LEMMA GiveUpInv ==
  ASSUME ClientInv, NEW id \in Ids, GiveUp(id)
  PROVE  ClientInv' /\ [WriterNext]_writerVars
<1> DEFINE c == [client EXCEPT !.pending = @ \ {id}]
<1>1. /\ ClientTrue(c, write) /\ IdsApart(c) /\ c.state = client.state
      /\ c.reverse = client.reverse
  BY RequestLeaves
<1>2. Open /\ c.state = "open"
  BY <1>1 DEF GiveUp, ClientInv, CloseTrue, Open
<1>3. \/ \E f \in Unsent(Notices) : WriteOrFail(f, c, c)
      \/ client' = c /\ UNCHANGED writerVars
  BY DEF GiveUp
<1> HIDE DEF c
<1>4. ASSUME NEW f \in Unsent(Notices), WriteOrFail(f, c, c)
      PROVE  ClientInv' /\ [WriterNext]_writerVars
  <2>1. f \in Frames /\ f \in Notices
    BY DEF Unsent, Notices
  <2>2. Sent(f) => AnswersWritten(c, write')
    BY <1>1, <2>1, FramesApart, AnswersUntouched DEF ClientTrue
  <2> QED BY <1>1, <1>2, <1>4, <2>1, <2>2, WriteOrFailInv DEF ClientTrue
<1>5. CASE client' = c /\ UNCHANGED writerVars
  BY <1>1, <1>2, <1>5, StaysSilent
<1> QED BY <1>3, <1>4, <1>5

\* A notification is written.
LEMMA NotifyInv == ASSUME ClientInv, Notify PROVE ClientInv' /\ [WriterNext]_writerVars
<1>1. PICK f \in Unsent(Notices) : WriteOrFail(f, client, client)
  BY DEF Notify
<1>2. f \in Frames /\ f \in Notices /\ Open
  BY DEF Unsent, Notices, Notify
<1>3. ClientTrue(client, write) /\ IdsApart(client) /\ client.state = "open"
  BY <1>2 DEF ClientInv, Open
<1>4. Sent(f) => AnswersWritten(client, write')
  BY <1>2, <1>3, FramesApart, AnswersUntouched DEF ClientTrue
<1> QED BY <1>1, <1>2, <1>3, <1>4, WriteOrFailInv DEF ClientTrue

\* handleResponse: the request it answers leaves the table, or the client closes.
LEMMA ResponseInv ==
  ASSUME ClientInv, NEW id \in Ids, Response(id)
  PROVE  ClientInv' /\ [WriterNext]_writerVars
<1> DEFINE c == [client EXCEPT !.pending = @ \ {id}]
<1>1. ClientTrue(c, write) /\ IdsApart(c) /\ c.state = client.state
  BY RequestLeaves
<1>2. Open /\ c.state = "open" /\ ClientTrue(client, write)
  BY <1>1 DEF Response, Open, ClientInv
<1>3. (client' = c /\ UNCHANGED writerVars) \/ CloseFrom(c) \/ CloseFrom(client)
  BY DEF Response
<1> HIDE DEF c
<1> QED BY <1>1, <1>2, <1>3, StaysSilent, CloseFromInv

\* handleRequest: the id is new to both sides, and has been answered by nobody.
LEMMA ReverseRequestInv ==
  ASSUME ClientInv, NEW id \in Ids, ReverseRequest(id)
  PROVE  ClientInv' /\ [WriterNext]_writerVars
<1> DEFINE refusing == [client EXCEPT !.reverse[id] = "refusing"]
           entering == Entering(id)
<1>1. /\ client \in ClientRecord /\ Bounded(client) /\ AnswersWritten(client, write)
      /\ ClientTrue(client, write) /\ IdsApart(client) /\ Open /\ client.state = "open"
  BY DEF ClientInv, ClientTrue, ReverseRequest, Open
<1>2. write[ResponseFrame(id)].caller = "none" /\ write[RefusalFrame(id)].caller = "none"
  BY DEF ReverseRequest, Unsent
<1>3. /\ refusing \in ClientRecord /\ refusing.state = "open" /\ refusing.pending = client.pending
      /\ refusing.notifications = client.notifications /\ refusing.reverse[id] = "refusing"
      /\ \A other \in Ids : other # id => refusing.reverse[other] = client.reverse[other]
      /\ Reserved(refusing) = Reserved(client) \cup {id} /\ Active(refusing) = Active(client) \ {id}
  BY <1>1, ReverseMoves
<1>4. /\ entering \in ClientRecord /\ entering.state = "open" /\ entering.pending = client.pending
      /\ entering.notifications = client.notifications /\ entering.reverse[id] = "handling"
      /\ \A other \in Ids : other # id => entering.reverse[other] = client.reverse[other]
      /\ Reserved(entering) = Reserved(client) \cup {id} /\ Active(entering) = Active(client) \cup {id}
  BY <1>1, ReverseMoves DEF Entering
<1>5. \/ CloseFrom(client)
      \/ id \notin client.pending /\ WriteOrFail(RefusalFrame(id), refusing, client)
      \/ /\ id \notin client.pending /\ RoomForHandler
         /\ (client' = entering /\ UNCHANGED writerVars) \/ CloseFrom(entering)
  BY DEF ReverseRequest
<1> HIDE DEF refusing, entering
<1>6. CASE CloseFrom(client)
  BY <1>1, <1>6, CloseFromInv
<1>7. CASE id \notin client.pending /\ WriteOrFail(RefusalFrame(id), refusing, client)
  <2>1. Bounded(refusing)
    <3>1. refusing.notifications \in Nat
      BY <1>3 DEF ClientRecord
    <3> QED BY <1>1, <1>3, <3>1, StillBounded
  <2>2. IdsApart(refusing)
    BY <1>1, <1>3, <1>7 DEF IdsApart
  <2>3. ASSUME Sent(RefusalFrame(id)) PROVE AnswersWritten(refusing, write')
    <3> SUFFICES ASSUME NEW other \in Ids
                 PROVE  AnswerWritten(refusing.reverse[other], write'[ResponseFrame(other)],
                                      write'[RefusalFrame(other)])
      BY DEF AnswersWritten
    <3>1. write'[ResponseFrame(other)] = write[ResponseFrame(other)]
      BY <2>3, FramesOfIds, FramesApart DEF Sent
    <3>2. CASE other = id
      BY <1>2, <1>3, <3>1, <3>2 DEF AnswerWritten
    <3>3. CASE other # id
      <4>1. write'[RefusalFrame(other)] = write[RefusalFrame(other)]
        BY <2>3, <3>3, FramesOfIds, FramesApart DEF Sent
      <4> QED BY <1>1, <1>3, <3>1, <3>3, <4>1 DEF AnswersWritten
    <3> QED BY <3>2, <3>3
  <2>4. RefusalFrame(id) \in Frames
    BY FramesOfIds
  <2> QED BY <1>1, <1>3, <1>7, <2>1, <2>2, <2>3, <2>4, WriteOrFailInv
<1>8. CASE /\ id \notin client.pending /\ RoomForHandler
           /\ (client' = entering /\ UNCHANGED writerVars) \/ CloseFrom(entering)
  <2>1. Bounded(entering)
    <3>1. IsFiniteSet(Active(client)) /\ Cardinality(Active(client)) \in Nat
      BY <1>1, ClientSets
    <3>2. Cardinality(Active(client) \cup {id}) <= maxInboundRequestConcurrency
      <4>1. Cardinality(Active(client) \cup {id}) \in
              {Cardinality(Active(client)), Cardinality(Active(client)) + 1}
        BY <3>1, FS_AddElement
      <4> QED BY <1>8, <3>1, <4>1, ClientAssumption DEF RoomForHandler
    <3> QED BY <1>1, <1>4, <3>2 DEF Bounded
  <2>2. AnswersWritten(entering, write)
    BY <1>1, <1>2, <1>4 DEF AnswersWritten, AnswerWritten
  <2>3. IdsApart(entering) /\ ClientTrue(entering, write)
    BY <1>1, <1>4, <1>8, <2>1, <2>2 DEF IdsApart, ClientTrue
  <2> QED BY <1>1, <1>4, <1>8, <2>3, StaysSilent, CloseFromInv
<1> QED BY <1>5, <1>6, <1>7, <1>8

\* An id is given back: by a handler that ends in a closed client, a response that cannot be
\* written, or an answer that has been.
LEMMA GivenBack ==
  ASSUME ClientInv, NEW id \in Ids,
         write[RefusalFrame(id)].caller # "waiting",
         write[ResponseFrame(id)].caller # "none" => write[ResponseFrame(id)].settled
  PROVE  LET c == [client EXCEPT !.reverse[id] = "none"]
         IN  /\ ClientTrue(c, write)
             /\ client' = c /\ UNCHANGED writerVars => ClientInv'
<1> DEFINE c == [client EXCEPT !.reverse[id] = "none"]
<1>1. client \in ClientRecord /\ Bounded(client) /\ AnswersWritten(client, write)
  BY DEF ClientInv, ClientTrue
<1>2. /\ c \in ClientRecord /\ c.state = client.state /\ c.pending = client.pending
      /\ c.notifications = client.notifications /\ c.settlements = client.settlements
      /\ c.noted = client.noted /\ c.expired = client.expired
      /\ c.reverse[id] = "none"
      /\ \A other \in Ids : other # id => c.reverse[other] = client.reverse[other]
      /\ Reserved(c) = Reserved(client) \ {id} /\ Active(c) = Active(client) \ {id}
  BY <1>1, ReverseMoves
<1> HIDE DEF c
<1>3. Bounded(c)
  <2>1. c.notifications \in Nat
    BY <1>2 DEF ClientRecord
  <2> QED BY <1>1, <1>2, <2>1, StillBounded
<1>4. AnswersWritten(c, write)
  BY <1>1, <1>2 DEF AnswersWritten, AnswerWritten
<1>5. ClientTrue(c, write)
  BY <1>2, <1>3, <1>4 DEF ClientTrue
<1>6. ASSUME client' = c, UNCHANGED writerVars PROVE ClientInv'
  <2>1. WriterInv' /\ UNCHANGED <<write, disposed>>
    BY <1>6, WriterNextInv DEF writerVars, ClientInv
  <2>2. IdsApart(client')
    BY <1>2, <1>6 DEF ClientInv, IdsApart
  <2>3. Fenced'
    BY <1>2, <1>6, <2>1 DEF ClientInv, Fenced, Open
  <2>4. CloseTrue'
    BY <1>2, <1>6 DEF ClientInv, CloseTrue, Open
  <2> QED BY <1>5, <1>6, <2>1, <2>2, <2>3, <2>4 DEF ClientInv
<1> QED BY <1>5, <1>6 DEF c

\* A handler ends: its response is written if the client is still open.
LEMMA HandlerEndsInv ==
  ASSUME ClientInv, NEW id \in Ids, HandlerEnds(id)
  PROVE  ClientInv' /\ [WriterNext]_writerVars
<1> DEFINE responding == [client EXCEPT !.reverse[id] = "responding"]
           none == [client EXCEPT !.reverse[id] = "none"]
<1>1. client \in ClientRecord /\ Bounded(client) /\ AnswersWritten(client, write) /\ IdsApart(client)
  BY DEF ClientInv, ClientTrue
<1>2. /\ client.reverse[id] = "handling"
      /\ write[ResponseFrame(id)].caller = "none" /\ write[RefusalFrame(id)].caller = "none"
  BY <1>1 DEF HandlerEnds, AnswersWritten, AnswerWritten
<1>3. ClientTrue(none, write) /\ (client' = none /\ UNCHANGED writerVars => ClientInv')
  BY <1>2, GivenBack
<1>4. /\ responding \in ClientRecord /\ responding.state = client.state
      /\ responding.pending = client.pending /\ responding.notifications = client.notifications
      /\ responding.reverse[id] = "responding"
      /\ \A other \in Ids : other # id => responding.reverse[other] = client.reverse[other]
      /\ Reserved(responding) = Reserved(client) \cup {id}
      /\ Active(responding) = Active(client) \cup {id}
  BY <1>1, ReverseMoves
<1>5. id \in Active(client) /\ id \in Reserved(client)
  BY <1>2 DEF Active, Reserved
<1>6. IF Open THEN WriteOrFail(ResponseFrame(id), responding, none)
      ELSE client' = none /\ UNCHANGED writerVars
  BY DEF HandlerEnds
<1> HIDE DEF responding, none
<1>7. CASE Open
  <2>1. Bounded(responding) /\ IdsApart(responding) /\ responding.state = "open"
    <3>1. Active(responding) = Active(client) /\ Reserved(responding) = Reserved(client)
      BY <1>4, <1>5
    <3> QED BY <1>1, <1>4, <1>7, <3>1 DEF Bounded, IdsApart, Open
  <2>2. ASSUME Sent(ResponseFrame(id)) PROVE AnswersWritten(responding, write')
    <3> SUFFICES ASSUME NEW other \in Ids
                 PROVE  AnswerWritten(responding.reverse[other], write'[ResponseFrame(other)],
                                      write'[RefusalFrame(other)])
      BY DEF AnswersWritten
    <3>1. write'[RefusalFrame(other)] = write[RefusalFrame(other)]
      BY <2>2, FramesOfIds, FramesApart DEF Sent
    <3>2. CASE other = id
      BY <1>2, <1>4, <3>1, <3>2 DEF AnswerWritten
    <3>3. CASE other # id
      <4>1. write'[ResponseFrame(other)] = write[ResponseFrame(other)]
        BY <2>2, <3>3, FramesOfIds, FramesApart DEF Sent
      <4> QED BY <1>1, <1>4, <3>1, <3>3, <4>1 DEF AnswersWritten
    <3> QED BY <3>2, <3>3
  <2>3. ResponseFrame(id) \in Frames
    BY FramesOfIds
  <2> QED BY <1>3, <1>4, <1>6, <1>7, <2>1, <2>2, <2>3, WriteOrFailInv
<1>8. CASE ~Open
  BY <1>3, <1>6, <1>8
<1> QED BY <1>7, <1>8

\* The id of a request of the peer is given back when its answer has left.
LEMMA ReverseEndsInv ==
  ASSUME ClientInv, NEW id \in Ids, ReverseEnds(id)
  PROVE  ClientInv' /\ [WriterNext]_writerVars
<1>1. AnswerWritten(client.reverse[id], write[ResponseFrame(id)], write[RefusalFrame(id)])
  BY DEF ClientInv, ClientTrue, AnswersWritten
<1>2. /\ write[RefusalFrame(id)].caller # "waiting"
      /\ write[ResponseFrame(id)].caller # "none" => write[ResponseFrame(id)].settled
  BY <1>1 DEF ReverseEnds, ResponseOver, Answered, AnswerWritten
<1> QED BY <1>2, GivenBack DEF ReverseEnds

\* A notification handler is entered, within its limit.
LEMMA NotificationInv ==
  ASSUME ClientInv, Notification PROVE ClientInv' /\ [WriterNext]_writerVars
<1> DEFINE c == [client EXCEPT !.notifications = @ + 1]
<1>1. client \in ClientRecord /\ Bounded(client) /\ AnswersWritten(client, write) /\ IdsApart(client)
  BY DEF ClientInv, ClientTrue
<1>2. /\ Open /\ client.notifications < maxNotificationHandlerConcurrency
      /\ (client' = c /\ UNCHANGED writerVars) \/ CloseFrom(c)
  BY DEF Notification
<1>3. /\ c \in ClientRecord /\ c.state = "open" /\ c.pending = client.pending
      /\ c.reverse = client.reverse /\ c.notifications <= maxNotificationHandlerConcurrency
  <2> DEFINE more == client.notifications + 1
  <2>1. more \in Nat /\ more <= maxNotificationHandlerConcurrency
    BY <1>1, <1>2, ClientAssumption DEF ClientRecord
  <2>2. c = [client EXCEPT !.notifications = more]
    OBVIOUS
  <2> HIDE DEF c, more
  <2> QED BY <1>1, <1>2, <2>1, <2>2 DEF ClientRecord, Open
<1> HIDE DEF c
<1>4. ClientTrue(c, write) /\ IdsApart(c)
  BY <1>1, <1>3 DEF ClientTrue, Bounded, Active, AnswersWritten, IdsApart, Reserved
<1> QED BY <1>2, <1>3, <1>4, StaysSilent, CloseFromInv

\* A notification handler ends, in an open client or under a close that waits for it.
LEMMA NotificationEndsInv ==
  ASSUME ClientInv, NotificationEnds PROVE ClientInv' /\ [WriterNext]_writerVars
<1> DEFINE c == [client EXCEPT !.notifications = @ - 1]
<1>1. client \in ClientRecord /\ Bounded(client) /\ AnswersWritten(client, write) /\ IdsApart(client)
  BY DEF ClientInv, ClientTrue
<1>2. /\ client.notifications > 0
      /\ (client' = c /\ UNCHANGED writerVars) \/ CloseFrom(c)
  BY DEF NotificationEnds
<1>3. /\ c \in ClientRecord /\ c.state = client.state /\ c.pending = client.pending
      /\ c.reverse = client.reverse /\ c.notifications <= client.notifications
      /\ c.notifications \in Nat /\ client.notifications \in Nat
      /\ c.settlements = client.settlements /\ c.noted = client.noted /\ c.expired = client.expired
  BY <1>1, <1>2 DEF ClientRecord
<1> HIDE DEF c
<1>4. Active(c) = Active(client) /\ Reserved(c) = Reserved(client)
  BY <1>3 DEF Active, Reserved
<1>5. ClientTrue(c, write) /\ IdsApart(c)
  BY <1>1, <1>3, <1>4, ClientAssumption DEF ClientTrue, Bounded, AnswersWritten, IdsApart
<1>6. CASE client' = c /\ UNCHANGED writerVars
  <2>1. WriterInv' /\ UNCHANGED <<write, disposed>>
    BY <1>6, WriterNextInv DEF writerVars, ClientInv
  <2>2. Fenced'
    BY <1>3, <1>6, <2>1 DEF ClientInv, Fenced, Open
  <2>3. CloseTrue'
    BY <1>2, <1>3, <1>4, <1>6 DEF ClientInv, CloseTrue, Open
  <2> QED BY <1>5, <1>6, <2>1, <2>2, <2>3 DEF ClientInv
<1> QED BY <1>2, <1>5, <1>6, CloseFromInv

\* Steps of the writer alone.
LEMMA WriterAloneInv ==
  ASSUME ClientInv, WriterInv', NothingSent, UNCHANGED <<client, disposed>>
  PROVE  ClientInv'
<1>1. AnswersWritten(client, write')
  BY AnswersKept DEF ClientInv, ClientTrue
<1>2. ClientTrue(client', write') /\ IdsApart(client')
  BY <1>1 DEF ClientInv, ClientTrue, IdsApart
<1>3. Fenced' /\ CloseTrue'
  BY DEF ClientInv, Fenced, CloseTrue, Open
<1> QED BY <1>2, <1>3 DEF ClientInv

\* The stream takes a frame, calls back, drains or fails.
LEMMA StreamInv ==
  ASSUME ClientInv, UNCHANGED client,
         StreamFails \/ \E f \in Frames : Enter(f) \/ Callback(f) \/ Drain(f)
  PROVE  ClientInv' /\ [WriterNext]_writerVars
<1>1. WriterNext /\ UNCHANGED disposed
  BY DEF WriterNext, StreamFails, Enter, Callback, Drain
<1>2. WriterInv'
  BY <1>1, WriterNextInv DEF ClientInv
<1>3. NothingSent
  BY StreamSendsNothing DEF ClientInv, WriterInv
<1> QED BY SMTT(30), <1>1, <1>2, <1>3, WriterAloneInv

\* writeOrFail goes on after its write: an open client is one whose writer is not disposed, so
\* that a rejected write closes both or finds both closed.
LEMMA WriteContinuesInv ==
  ASSUME ClientInv, NEW f \in Frames, WriteContinues(f)
  PROVE  ClientInv' /\ [WriterNext]_writerVars
<1>1. Account(f) /\ UNCHANGED stream /\ queue' \in Seq(Frames)
  BY DEF WriteContinues, Account, InTurn, ClientInv, WriterInv, WriterTypes
<1>2. Open <=> ~disposed
  BY DEF ClientInv, Fenced
<1>3. CASE write[f].caller = "rejected" /\ Open
  <2>1. client' = Closing(client) /\ Dispose
    BY <1>3 DEF WriteContinues, AfterWrite
  <2>2. Continue(f)
    BY <1>1, <1>2, <1>3, <2>1 DEF Continue
  <2>3. ClientInv'
    BY <1>1, <2>1, ClosingInv DEF ClientInv
  <2> QED BY <2>2, <2>3 DEF WriterNext
<1>4. CASE ~(write[f].caller = "rejected" /\ Open)
  <2>1. UNCHANGED <<client, write, disposed>>
    BY <1>4 DEF WriteContinues, AfterWrite
  <2>2. Continue(f)
    BY <1>1, <1>2, <1>4, <2>1 DEF Continue
  <2>3. NothingSent
    BY <2>1 DEF NothingSent
  <2>4. WriterInv'
    BY <2>2, WriterNextInv DEF WriterNext, ClientInv
  <2> QED BY <2>1, <2>2, <2>3, <2>4, WriterAloneInv DEF WriterNext
<1> QED BY <1>3, <1>4

\* The close goes on: it gets to the transport when what it waited for is over, or says so.
LEMMA CloseStepsInv == ASSUME ClientInv, CloseSteps PROVE ClientInv' /\ [WriterNext]_writerVars
<1>1. client \in ClientRecord /\ Bounded(client) /\ AnswersWritten(client, write) /\ IdsApart(client)
  BY DEF ClientInv, ClientTrue
<1>2. UNCHANGED writerVars /\ ~Open /\ disposed
  BY DEF CloseSteps, WriterDrains, HandlersSettle, HandlersExpire, TransportDisposed, Becomes,
     Open, ClientInv, Fenced
<1>3. /\ client' \in ClientRecord /\ client'.state # "open" /\ client'.pending = client.pending
      /\ client'.reverse = client.reverse /\ client'.notifications = client.notifications
  <2>1. CASE client' \in {[client EXCEPT !.state = "settle"], [client EXCEPT !.state = "closed"]}
    BY <1>1, <2>1 DEF ClientRecord
  <2>2. /\ Waited \in ClientRecord /\ Waited.state = "transport"
        /\ Waited.pending = client.pending /\ Waited.reverse = client.reverse
        /\ Waited.notifications = client.notifications
    BY <1>1 DEF Waited, ClientRecord
  <2>3. CASE client' \in {Waited, [Waited EXCEPT !.expired = TRUE]}
    BY <2>2, <2>3 DEF ClientRecord
  <2> QED BY <2>1, <2>3 DEF CloseSteps, WriterDrains, HandlersSettle, HandlersExpire,
             TransportDisposed, Becomes
<1>4. Active(client') = Active(client) /\ Reserved(client') = Reserved(client)
  BY <1>3 DEF Active, Reserved
<1>5. WriterInv' /\ UNCHANGED <<write, disposed>>
  BY <1>2, WriterNextInv DEF writerVars, ClientInv
<1>6. ClientTrue(client', write') /\ IdsApart(client')
  BY <1>1, <1>3, <1>4, <1>5 DEF ClientTrue, Bounded, AnswersWritten, IdsApart
<1>7. Fenced'
  BY <1>2, <1>3, <1>5 DEF Fenced, Open
<1>8. CloseTrue'
  <2>1. client'.pending = {}
    BY <1>2, <1>3 DEF ClientInv, CloseTrue
  <2>2. client'.notifications \in Nat
    BY <1>3 DEF ClientRecord
  <2>3. CASE WriterDrains
    BY <1>1, <1>3, <1>4, <2>1, <2>3 DEF WriterDrains, Becomes, ClientInv, CloseTrue,
       ClientRecord, Open
  <2>4. CASE HandlersSettle
    <3>1. Active(client) = {} /\ client.notifications = 0
      BY <1>3, <2>2, <2>4 DEF HandlersSettle, SettlementsOver, ClientInv, CloseTrue
    <3>2. client'.state = "transport"
      BY <1>1, <2>4 DEF HandlersSettle, Waited, ClientRecord
    <3> QED BY <1>3, <1>4, <2>1, <3>1, <3>2 DEF CloseTrue, Open
  <2>5. CASE HandlersExpire
    <3>1. client'.state = "transport" /\ client'.expired = TRUE
      BY <1>1, <2>5 DEF HandlersExpire, Waited, ClientRecord
    <3> QED BY <2>1, <3>1 DEF CloseTrue, Open
  <2>6. CASE TransportDisposed
    BY <1>1, <1>3, <1>4, <2>1, <2>6 DEF TransportDisposed, Becomes, ClientInv, CloseTrue,
       ClientRecord
  <2> QED BY <2>3, <2>4, <2>5, <2>6 DEF CloseSteps
<1> QED BY <1>2, <1>5, <1>6, <1>7, <1>8 DEF ClientInv

--------------------------------------------------------------------------------

\* A connection starts open, with nothing asked, answered or written.
LEMMA ClientInitInv == ClientInit => ClientInv
<1> SUFFICES ASSUME ClientInit PROVE ClientInv
  OBVIOUS
<1>1. WriterInv
  BY WriterInitInv DEF ClientInit
<1>2. /\ client \in ClientRecord /\ client.state = "open" /\ client.pending = {}
      /\ client.notifications = 0 /\ client.reverse = [id \in Ids |-> "none"]
  BY DEF ClientInit, ClientRecord
<1>3. Active(client) = {} /\ Reserved(client) = {}
  BY <1>2 DEF Active, Reserved
<1>4. Bounded(client)
  BY <1>2, <1>3, FS_EmptySet, ClientAssumption DEF Bounded
<1>5. AnswersWritten(client, write)
  <2>1. \A f \in Frames : write[f].caller = "none"
    BY DEF ClientInit, WriterInit, NoWrite
  <2> QED BY <1>2, <2>1, FramesOfIds DEF AnswersWritten, AnswerWritten
<1>6. IdsApart(client) /\ Fenced /\ CloseTrue
  BY <1>2, <1>3 DEF IdsApart, Fenced, Open, CloseTrue, ClientInit, WriterInit
<1> QED BY <1>1, <1>2, <1>4, <1>5, <1>6 DEF ClientInv, ClientTrue

\* Every step of the client keeps ClientInv and is, for the writer, a step of AcpWriter.
LEMMA ClientNextInv ==
  ClientInv /\ [ClientNext]_clientVars => ClientInv' /\ [WriterNext]_writerVars
<1> SUFFICES ASSUME ClientInv, [ClientNext]_clientVars
             PROVE  ClientInv' /\ [WriterNext]_writerVars
  OBVIOUS
<1>1. CASE Shut \/ Request \/ NoIdLeft \/ Notify \/ Notification \/ NotificationEnds
  BY <1>1, ShutInv, RequestInv, NoIdLeftInv, NotifyInv, NotificationInv, NotificationEndsInv
<1>2. ASSUME NEW id \in Ids, GiveUp(id) \/ Response(id) \/ ReverseRequest(id) \/ HandlerEnds(id)
      PROVE  ClientInv' /\ [WriterNext]_writerVars
  BY <1>2, GiveUpInv, ResponseInv, ReverseRequestInv, HandlerEndsInv
<1>3. CASE Microtasks
  <2>1. ASSUME NEW f \in Frames, Enter(f), UNCHANGED client
        PROVE  ClientInv' /\ [WriterNext]_writerVars
    BY <2>1, StreamInv
  <2>2. ASSUME NEW f \in Frames, WriteContinues(f) PROVE ClientInv' /\ [WriterNext]_writerVars
    BY <2>2, WriteContinuesInv
  <2>3. ASSUME NEW id \in Ids, ReverseEnds(id) PROVE ClientInv' /\ [WriterNext]_writerVars
    BY <2>3, ReverseEndsInv
  <2> QED BY <1>3, <2>1, <2>2, <2>3 DEF Microtasks
<1>4. CASE StreamEvents \/ (StreamFails /\ UNCHANGED client)
  BY <1>4, StreamInv DEF StreamEvents
<1>5. CASE CloseSteps
  BY <1>5, CloseStepsInv
<1>6. CASE UNCHANGED clientVars
  <2>1. UNCHANGED <<client, writerVars, write, disposed>>
    BY <1>6 DEF clientVars, writerVars
  <2>2. WriterInv'
    BY <2>1, WriterNextInv DEF ClientInv
  <2>3. NothingSent
    BY <2>1 DEF NothingSent
  <2> QED BY <2>1, <2>2, <2>3, WriterAloneInv
<1> QED BY <1>1, <1>2, <1>3, <1>4, <1>5, <1>6 DEF ClientNext

\* The inductive invariant of client.ts over messageWriter.ts, for any ids, frames and limits.
THEOREM ClientInvariant == ClientSpec => []ClientInv
<1>1. ClientInv /\ [ClientNext]_clientVars => ClientInv'
  BY ClientNextInv
<1> QED BY <1>1, ClientInitInv, PTL DEF ClientSpec

\* The client implements the owner that AcpWriter is specified under: it submits what fits,
\* once, and disposes of the writer in the continuation of the first rejected write at the latest.
THEOREM ClientImplementsOwner == ClientSpec => WriterSpec
<1>1. ClientInit => WriterInit
  BY DEF ClientInit
<1>2. ClientInv /\ [ClientNext]_clientVars => [WriterNext]_writerVars
  BY ClientNextInv
<1> QED BY <1>1, <1>2, ClientInvariant, PTL DEF ClientSpec, WriterSpec

\* The output of a connection is serialized and owned to its physical end: the facts proved of
\* the writer, carried over to the client.
THEOREM ClientOutputIsOwned == ClientSpec => []OutputIsOwned
BY ClientImplementsOwner, OwnedOutput, PTL

\* The bytes charged to a connection are those of the frames still queued, and inside the
\* buffer, through every close, failure and refused answer.
THEOREM ClientBudget == ClientSpec => []BudgetExact
BY ClientImplementsOwner, ExactBudget, PTL

\* client.ts: no id waits for an answer of both sides at once, and one of the peer's stays
\* taken until its answer has left or is lost.
THEOREM UnambiguousIds == ClientSpec => []IdsUnambiguous
<1>1. ASSUME ClientInv PROVE IdsUnambiguous
  <2>1. ReservedThroughWrite
    BY <1>1 DEF ClientInv, ClientTrue, AnswersWritten, AnswerWritten, Reserved,
       ReservedThroughWrite
  <2> QED BY <1>1, <2>1 DEF ClientInv, IdsApart, IdsUnambiguous
<1> QED BY <1>1, ClientInvariant, PTL

\* client.ts: after a close has begun nothing waits, and the transport is disposed of under no
\* handler and no response unless the drain expired.
THEOREM TransportIsQuiet == ClientSpec => []QuietTransport
<1>1. ClientInv => QuietTransport
  BY DEF ClientInv, CloseTrue, QuietTransport
<1> QED BY <1>1, ClientInvariant, PTL

\* limits.ts: requests of this side, handlers of reverse requests and notification handlers
\* stay within their limits, whatever the peer sends.
THEOREM ClientLimits == ClientSpec => []ClientTypeOK
<1>1. ClientInv => ClientTypeOK
  BY DEF ClientInv, ClientTrue, Bounded, ClientTypeOK
<1> QED BY <1>1, ClientInvariant, PTL

================================================================================
