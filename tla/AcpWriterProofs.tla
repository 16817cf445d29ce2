---------------------------- MODULE AcpWriterProofs ----------------------------
(***************************************************************************)
(* Facts about AcpWriter for any frames, sizes and limits.  The properties *)
(* are about the stream; what makes them inductive is the relation between *)
(* the queue and the stream: a frame that entered and whose caller still   *)
(* waits is the head of the queue, and a caller is answered before the     *)
(* callback only by a disposal or by the end of the stream.                *)
(***************************************************************************)
EXTENDS AcpWriter, TLAPS, WellFoundedInduction

\* The types of the writer.
WriterTypes ==
  /\ write \in [Frames -> WriteRecord]
  /\ queue \in Seq(Frames)
  /\ disposed \in BOOLEAN
  /\ stream \in {"open", "closed"}

\* Only the head of the queue is in the stream with a caller that waits.
WaitsInTurn == \A f \in Frames : write[f].entered /\ write[f].caller = "waiting" => InTurn(f)

\* Who answered the caller of a write the stream has not called back.
AnsweredEarly ==
  \A f \in Frames : write[f].entered /\ write[f].called = "no" =>
    write[f].caller = "waiting" \/ disposed \/ stream = "closed"

\* Only what was submitted enters.
EnteredWasSubmitted == \A f \in Frames : write[f].entered => write[f].caller # "none"

\* A write that waits for its turn has no obligation settled and no listener.
NeverEarly ==
  \A f \in Frames : ~write[f].entered =>
    /\ ~write[f].listening
    /\ write[f].settled => write[f].caller \in {"resolved", "rejected"}

\* The inductive invariant of the writer.
WriterInv == WriterTypes /\ EnteredWasSubmitted /\ NeverEarly /\ WaitsInTurn /\ AnsweredEarly /\ OneInStream
               /\ SettledMeansOver /\ ErrorIsOwned

USE DEF WriteRecord

\* A completed write is a write.
LEMMA CompleteType ==
  ASSUME NEW w \in WriteRecord, NEW answer \in {"resolved", "rejected"}
  PROVE  /\ Complete(w, answer) \in WriteRecord
         /\ Complete(w, answer).entered = w.entered
         /\ Complete(w, answer).called = w.called
         /\ Complete(w, answer).caller # "waiting" /\ ~Complete(w, answer).listening
         /\ Complete(w, answer).caller = "none" => w.caller = "none"
BY DEF Complete, Answer

\* A rejected write is a write.
LEMMA RejectActiveType ==
  ASSUME NEW w \in WriteRecord
  PROVE  /\ RejectActive(w) \in WriteRecord
         /\ RejectActive(w).entered = w.entered
         /\ RejectActive(w).called = w.called
         /\ ~(w.entered /\ RejectActive(w).caller = "waiting")
         /\ RejectActive(w).caller = "none" => w.caller = "none"
         /\ ~w.entered => RejectActive(w) = w
         /\ w.called # "ok" => RejectActive(w).listening = w.listening
         /\ RejectActive(w).settled => w.settled \/ w.called = "ok"
BY DEF RejectActive

\* The invariant holds of a new writer.
LEMMA WriterInitInv == WriterInit => WriterInv
<1> SUFFICES ASSUME WriterInit PROVE WriterInv
  OBVIOUS
<1>1. \A f \in Frames : write[f] = NoWrite
  BY DEF WriterInit
<1>2. NoWrite \in WriteRecord /\ <<>> \in Seq(Frames)
  BY DEF NoWrite
<1>3. WriterTypes
  BY <1>2 DEF WriterInit, WriterTypes
<1> QED
  BY <1>1, <1>3 DEF WriterInv, EnteredWasSubmitted, NeverEarly, WaitsInTurn, AnsweredEarly,
     OneInStream, InStream, SettledMeansOver, ErrorIsOwned, NoWrite

\* A write is admitted.
LEMMA SubmitInv ==
  ASSUME WriterInv, NEW f \in Frames, Submit(f)
  PROVE  WriterInv'
<1> USE DEF WriterInv, WriterTypes
<1>1. WriterTypes'
  BY DEF Submit
<1>2. EnteredWasSubmitted' /\ NeverEarly' /\ AnsweredEarly' /\ OneInStream' /\ SettledMeansOver' /\ ErrorIsOwned'
  BY DEF Submit, EnteredWasSubmitted, NeverEarly, AnsweredEarly, OneInStream, InStream,
     SettledMeansOver, ErrorIsOwned
<1>3. \A g \in Frames : InTurn(g) => InTurn(g)'
  BY DEF Submit, InTurn
<1>4. WaitsInTurn'
  BY <1>3 DEF Submit, EnteredWasSubmitted, NeverEarly, WaitsInTurn
<1> QED BY <1>1, <1>2, <1>4

\* A write enters the stream.
LEMMA EnterInv ==
  ASSUME WriterInv, NEW f \in Frames, Enter(f)
  PROVE  WriterInv'
<1> USE DEF WriterInv, WriterTypes
<1>0. \A g \in Frames : InTurn(g)' <=> InTurn(g)
  BY DEF Enter, InTurn
<1>1. CASE write' = [write EXCEPT ![f] = Complete(@, "rejected")]
  <2>1. write'[f] = Complete(write[f], "rejected") /\ write[f] \in WriteRecord
        /\ \A g \in Frames : g # f => write'[g] = write[g]
    BY <1>1
  <2>2. /\ write'[f] \in WriteRecord /\ ~write'[f].entered /\ write'[f].caller # "waiting" /\ ~write'[f].listening
        /\ write'[f].caller # "none"
    <3>1. write[f].caller = "waiting" /\ ~write[f].entered
      BY DEF Enter
    <3>2. write[f].caller # "none"
      BY <3>1
    <3> HIDE DEF WriteRecord
    <3> QED BY <2>1, <3>1, <3>2, CompleteType
  <2>3. WriterTypes'
    BY <1>1, <2>1, <2>2 DEF Enter
  <2>4. EnteredWasSubmitted' /\ NeverEarly' /\ AnsweredEarly' /\ OneInStream' /\ SettledMeansOver' /\ ErrorIsOwned'
    BY <2>1, <2>2 DEF Enter, EnteredWasSubmitted, NeverEarly, AnsweredEarly, OneInStream,
       InStream, SettledMeansOver, ErrorIsOwned
  <2>5. WaitsInTurn'
    BY <1>0, <2>1, <2>2 DEF WaitsInTurn
  <2> QED BY <2>3, <2>4, <2>5
<1>2. CASE \E admitted \in BOOLEAN : ~disposed /\ write' =
             [write EXCEPT ![f].entered = TRUE, ![f].listening = TRUE, ![f].drained = admitted]
  <2> PICK admitted \in BOOLEAN : ~disposed /\ write' =
             [write EXCEPT ![f].entered = TRUE, ![f].listening = TRUE, ![f].drained = admitted]
    BY <1>2
  <2> DEFINE w == [write[f] EXCEPT !.entered = TRUE, !.listening = TRUE, !.drained = admitted]
  <2>1. write[f] \in WriteRecord /\ write[f].caller = "waiting" /\ ~write[f].entered /\ InTurn(f)
    BY DEF Enter
  <2>2. /\ w \in WriteRecord /\ w.entered /\ w.listening
        /\ w.caller = write[f].caller /\ w.called = write[f].called /\ w.settled = write[f].settled
    BY <2>1
  <2>3. write' = [write EXCEPT ![f] = w]
    OBVIOUS
  <2> HIDE DEF w, WriteRecord
  <2>4. write'[f] = w /\ \A g \in Frames : g # f => write'[g] = write[g]
    BY <2>3
  <2>5. WriterTypes'
    BY ZenonT(60), <2>2, <2>3 DEF Enter
  <2>6. EnteredWasSubmitted' /\ NeverEarly' /\ AnsweredEarly' /\ ErrorIsOwned'
    BY <2>1, <2>2, <2>4 DEF Enter, EnteredWasSubmitted, NeverEarly, AnsweredEarly, ErrorIsOwned
  <2>7. WaitsInTurn'
    BY <1>0, <2>1, <2>2, <2>4 DEF WaitsInTurn
  <2>8. stream = "open" => \A g \in Frames : ~(write[g].entered /\ write[g].called = "no")
    <3> SUFFICES ASSUME stream = "open", NEW g \in Frames, write[g].entered, write[g].called = "no"
                 PROVE FALSE
      OBVIOUS
    <3>1. write[g].caller = "waiting"
      BY DEF AnsweredEarly
    <3>2. InTurn(g) /\ InTurn(f) /\ g # f
      BY <2>1, <3>1 DEF WaitsInTurn
    <3> QED BY <3>2 DEF InTurn
  <2>9. OneInStream'
    BY <2>4, <2>8 DEF Enter, OneInStream, InStream
  <2>10. SettledMeansOver'
    BY <2>1, <2>2, <2>4 DEF Enter, SettledMeansOver, NeverEarly
  <2> QED BY <2>5, <2>6, <2>7, <2>9, <2>10
<1> QED BY <1>1, <1>2 DEF Enter

\* The account of the writes that are over.
LEMMA AccountInv ==
  ASSUME WriterInv, NEW f \in Frames, Account(f), UNCHANGED <<write, disposed>>
  PROVE  WriterInv'
<1> USE DEF WriterInv, WriterTypes
<1>1. queue' \in Seq(Frames) /\ WriterTypes'
  BY DEF Account, InTurn
<1>2. \A g \in Frames : ~(write[g].entered /\ write[g].caller = "waiting")
  BY DEF WaitsInTurn, Account, InTurn
<1> QED
  BY <1>1, <1>2 DEF Account, EnteredWasSubmitted, NeverEarly, WaitsInTurn, AnsweredEarly,
     OneInStream, InStream, SettledMeansOver, ErrorIsOwned

\* A disposal may come with the end of the head's turn (Continue) or alone.
LEMMA DisposeInv ==
  ASSUME WriterInv, Dispose, UNCHANGED stream, queue' \in Seq(Frames)
  PROVE  WriterInv'
<1> USE DEF WriterInv, WriterTypes
<1>1. \A g \in Frames : write'[g] = RejectActive(write[g]) /\ write[g] \in WriteRecord
  BY DEF Dispose
<1>2. WriterTypes'
  BY <1>1, RejectActiveType DEF Dispose
<1>3. \A g \in Frames :
        /\ write'[g].entered = write[g].entered /\ write'[g].called = write[g].called
        /\ ~(write[g].entered /\ write'[g].caller = "waiting")
        /\ write[g].called # "ok" => write'[g].listening = write[g].listening
        /\ write'[g].settled => write[g].settled \/ write[g].called = "ok"
  BY <1>1, RejectActiveType
<1>4. \A g \in Frames : write'[g].caller = "none" => write[g].caller = "none"
  BY <1>1, RejectActiveType
<1>5. EnteredWasSubmitted' /\ NeverEarly' /\ WaitsInTurn'
  BY <1>1, <1>3, <1>4, RejectActiveType DEF EnteredWasSubmitted, NeverEarly, WaitsInTurn
<1>6. AnsweredEarly' /\ OneInStream'
  BY <1>3 DEF Dispose, AnsweredEarly, OneInStream, InStream
<1>7. SettledMeansOver' /\ ErrorIsOwned'
  BY <1>3 DEF SettledMeansOver, ErrorIsOwned
<1> QED BY <1>2, <1>5, <1>6, <1>7

\* The stream calls back.
LEMMA CallbackInv ==
  ASSUME WriterInv, NEW f \in Frames, Callback(f)
  PROVE  WriterInv'
<1> USE DEF WriterInv, WriterTypes
<1>0. \A g \in Frames : InTurn(g)' <=> InTurn(g)
  BY DEF Callback, InTurn
<1>1. write[f] \in WriteRecord /\ write[f].entered /\ write[f].called = "no"
  BY DEF Callback
<1> DEFINE ok == [write[f] EXCEPT !.called = "ok"]
           failed == [write[f] EXCEPT !.called = "error"]
           late == [ok EXCEPT !.listening = FALSE, !.settled = TRUE]
<1>2. \E w \in {ok, failed, late, Complete(ok, "resolved")} : write' = [write EXCEPT ![f] = w]
  BY DEF Callback
<1>3. \A w \in {ok, failed, late, Complete(ok, "resolved")} :
        /\ w \in WriteRecord /\ w.entered /\ w.called # "no"
        /\ w.caller = "waiting" => write[f].caller = "waiting"
        /\ w.caller = "none" => write[f].caller = "none"
        /\ w.called # "ok" => w.listening = write[f].listening
  <2>1. ok \in WriteRecord /\ ok.entered /\ ok.called = "ok" /\ ok.caller = write[f].caller
    BY <1>1
  <2>2. /\ failed \in WriteRecord /\ failed.entered /\ failed.called = "error"
        /\ failed.caller = write[f].caller /\ failed.listening = write[f].listening
    BY <1>1
  <2>3. late \in WriteRecord /\ late.entered /\ late.called = "ok" /\ late.caller = write[f].caller
    BY <1>1
  <2> HIDE DEF ok, failed, late, WriteRecord
  <2>4. /\ Complete(ok, "resolved") \in WriteRecord /\ Complete(ok, "resolved").entered
        /\ Complete(ok, "resolved").called = "ok" /\ Complete(ok, "resolved").caller # "waiting"
        /\ Complete(ok, "resolved").caller = "none" => write[f].caller = "none"
    BY <2>1, CompleteType
  <2> QED BY <2>1, <2>2, <2>3, <2>4
<1> HIDE DEF ok, failed, late, WriteRecord
<1>4. PICK w \in {ok, failed, late, Complete(ok, "resolved")} : write' = [write EXCEPT ![f] = w]
  BY <1>2
<1>5. write'[f] = w /\ \A g \in Frames : g # f => write'[g] = write[g]
  BY <1>4
<1>6. WriterTypes'
  BY <1>3, <1>4 DEF Callback
<1>7. EnteredWasSubmitted' /\ NeverEarly' /\ WaitsInTurn'
  BY <1>0, <1>1, <1>3, <1>5 DEF EnteredWasSubmitted, NeverEarly, WaitsInTurn
<1>8. AnsweredEarly' /\ OneInStream' /\ SettledMeansOver' /\ ErrorIsOwned'
  BY <1>1, <1>3, <1>5 DEF Callback, AnsweredEarly, OneInStream, InStream, SettledMeansOver,
     ErrorIsOwned
<1> QED BY <1>6, <1>7, <1>8

\* The stream drains.
LEMMA DrainInv ==
  ASSUME WriterInv, NEW f \in Frames, Drain(f)
  PROVE  WriterInv'
<1> USE DEF WriterInv, WriterTypes
<1>0. \A g \in Frames : InTurn(g)' <=> InTurn(g)
  BY DEF Drain, InTurn
<1>1. write[f] \in WriteRecord /\ write[f].entered /\ write[f].caller = "waiting"
  BY DEF Drain
<1> DEFINE seen == [write[f] EXCEPT !.drained = TRUE]
           w == IF write[f].called = "ok" THEN Complete(seen, "resolved") ELSE seen
<1>2. write' = [write EXCEPT ![f] = w]
  BY <1>1 DEF Drain
<1>3. /\ w \in WriteRecord /\ w.entered /\ w.called = write[f].called /\ w.caller # "none"
      /\ write[f].called # "ok" =>
           w.listening = write[f].listening /\ w.settled = write[f].settled /\ w.caller = write[f].caller
  <2>1. /\ seen \in WriteRecord /\ seen.entered /\ seen.called = write[f].called
        /\ seen.caller = write[f].caller /\ seen.listening = write[f].listening
        /\ seen.settled = write[f].settled
    BY <1>1
  <2> HIDE DEF seen, WriteRecord
  <2>2. CASE write[f].called = "ok"
    BY <1>1, <2>1, <2>2, CompleteType
  <2>3. CASE write[f].called # "ok"
    BY <1>1, <2>1, <2>3
  <2> QED BY <2>2, <2>3
<1> HIDE DEF w, WriteRecord
<1>4. write'[f] = w /\ \A g \in Frames : g # f => write'[g] = write[g]
  BY <1>2
<1>5. WriterTypes'
  BY <1>2, <1>3 DEF Drain
<1>6. EnteredWasSubmitted' /\ NeverEarly' /\ WaitsInTurn'
  BY <1>0, <1>1, <1>3, <1>4 DEF EnteredWasSubmitted, NeverEarly, WaitsInTurn
<1>7. AnsweredEarly' /\ OneInStream' /\ SettledMeansOver' /\ ErrorIsOwned'
  <2>1. UNCHANGED <<disposed, stream>>
    BY DEF Drain
  <2>2. \A g \in Frames :
          /\ write'[g].entered = write[g].entered /\ write'[g].called = write[g].called
          /\ write[g].called # "ok" =>
               /\ write'[g].listening = write[g].listening /\ write'[g].settled = write[g].settled
               /\ write'[g].caller = write[g].caller
    <3>1. write[f].entered = TRUE /\ w.entered = TRUE
      BY <1>1, <1>3 DEF WriteRecord
    <3> QED BY <1>3, <1>4, <3>1
  <2>3. AnsweredEarly' /\ OneInStream'
    BY <2>1, <2>2 DEF AnsweredEarly, OneInStream, InStream
  <2>4. SettledMeansOver' /\ ErrorIsOwned'
    BY <2>1, <2>2 DEF SettledMeansOver, ErrorIsOwned
  <2> QED BY <2>3, <2>4
<1> QED BY <1>5, <1>6, <1>7

\* The stream fails.
LEMMA StreamFailsInv ==
  ASSUME WriterInv, StreamFails
  PROVE  WriterInv'
<1> USE DEF WriterInv, WriterTypes
<1>0. \A g \in Frames : InTurn(g)' <=> InTurn(g)
  BY DEF StreamFails, InTurn
<1>1. \A g \in Frames : write[g] \in WriteRecord
        /\ write'[g] = IF write[g].listening THEN Complete(write[g], "rejected") ELSE write[g]
  BY DEF StreamFails
<1>2. \A g \in Frames :
        /\ write'[g] \in WriteRecord /\ write'[g].entered = write[g].entered
        /\ write'[g].caller = "waiting" => write[g].caller = "waiting"
        /\ write'[g].caller = "none" => write[g].caller = "none"
        /\ ~write[g].listening => write'[g] = write[g]
  <2> HIDE DEF WriteRecord
  <2> SUFFICES ASSUME NEW g \in Frames
               PROVE  /\ write'[g] \in WriteRecord /\ write'[g].entered = write[g].entered
                      /\ write'[g].caller = "waiting" => write[g].caller = "waiting"
                      /\ write'[g].caller = "none" => write[g].caller = "none"
                      /\ ~write[g].listening => write'[g] = write[g]
    OBVIOUS
  <2>1. CASE write[g].listening
    BY <1>1, <2>1, CompleteType
  <2>2. CASE ~write[g].listening
    BY <1>1, <2>2
  <2> QED BY <2>1, <2>2
<1>3. WriterTypes' /\ stream' = "closed"
  BY <1>2 DEF StreamFails
<1> QED
  BY <1>0, <1>2, <1>3 DEF EnteredWasSubmitted, NeverEarly, WaitsInTurn, AnsweredEarly,
     OneInStream, SettledMeansOver, ErrorIsOwned

\* Every step keeps the invariant.
LEMMA WriterNextInv == WriterInv /\ [WriterNext]_writerVars => WriterInv'
<1> SUFFICES ASSUME WriterInv, [WriterNext]_writerVars PROVE WriterInv'
  OBVIOUS
<1>1. ASSUME NEW f \in Frames, Submit(f) \/ Enter(f) \/ Callback(f) \/ Drain(f) PROVE WriterInv'
  BY <1>1, SubmitInv, EnterInv, CallbackInv, DrainInv
<1>2. ASSUME NEW f \in Frames, Continue(f) PROVE WriterInv'
  <2>1. CASE Dispose
    <3>1. queue' \in Seq(Frames) /\ UNCHANGED stream
      BY <1>2 DEF Continue, Account, InTurn, WriterInv, WriterTypes
    <3> QED BY <2>1, <3>1, DisposeInv
  <2>2. CASE UNCHANGED <<write, disposed>>
    BY <1>2, <2>2, AccountInv DEF Continue
  <2> QED BY <1>2, <2>1, <2>2 DEF Continue
<1>3. CASE StreamFails
  BY <1>3, StreamFailsInv
<1>4. CASE OwnerDisposes
  BY <1>4, DisposeInv DEF OwnerDisposes, WriterInv, WriterTypes
<1>5. CASE UNCHANGED writerVars
  BY <1>5 DEF writerVars, WriterInv, WriterTypes, EnteredWasSubmitted, NeverEarly,
     WaitsInTurn, AnsweredEarly, OneInStream, InStream, SettledMeansOver, ErrorIsOwned, InTurn
<1> QED BY <1>1, <1>2, <1>3, <1>4, <1>5 DEF WriterNext

--------------------------------------------------------------------------------

\* The inductive invariant of messageWriter.ts holds in every reachable state.
THEOREM WriterInvariant == WriterSpec => []WriterInv
BY WriterInitInv, WriterNextInv, PTL DEF WriterSpec

\* Whatever is submitted and however the stream behaves, two frames are never
\* inside the stream at once.
THEOREM SerializedWrites == WriterSpec => []OneInStream
<1>1. WriterInv => OneInStream
  BY DEF WriterInv
<1> QED BY <1>1, WriterInvariant, PTL

\* The settlement promise of a write never fulfills while the write is in the stream.
THEOREM HonestSettlement == WriterSpec => []SettledMeansOver
<1>1. WriterInv => SettledMeansOver
  BY DEF WriterInv
<1> QED BY <1>1, WriterInvariant, PTL

\* A write that can still fail has its listeners, disposals in between included.
THEOREM OwnedErrors == WriterSpec => []ErrorIsOwned
<1>1. WriterInv => ErrorIsOwned
  BY DEF WriterInv
<1> QED BY <1>1, WriterInvariant, PTL

\* The three together, which is what the client built on the writer relies on.
THEOREM OwnedOutput == WriterSpec => []OutputIsOwned
<1>1. OneInStream /\ SettledMeansOver /\ ErrorIsOwned => OutputIsOwned
  BY DEF OutputIsOwned
<1> QED BY <1>1, SerializedWrites, HonestSettlement, OwnedErrors, PTL

--------------------------------------------------------------------------------
(* The byte budget *)

\* No part of a queue is charged more than the whole.
LEMMA PartOfTheSum ==
  ASSUME NEW frames \in Seq(Frames), NEW rest \in [0..Len(frames) -> Nat],
         PartialSums(frames, rest)
  PROVE  \A i \in 0..Len(frames) : rest[i] <= rest[0]
<1> DEFINE over == {i \in 0..Len(frames) : ~(rest[i] <= rest[0])}
<1> SUFFICES ASSUME over # {} PROVE FALSE
  OBVIOUS
<1>1. over \subseteq Nat
  OBVIOUS
<1>2. PICK i \in over : \A j \in over : ~(<<j, i>> \in OpToRel(<, Nat))
  BY <1>1, WFMin, NatLessThanWellFounded
<1>3. i \in 1..Len(frames) /\ i - 1 \in 0..Len(frames)
  OBVIOUS
<1>4. rest[i - 1] = rest[i] + Bytes[frames[i]] /\ Bytes[frames[i]] \in Nat
  BY <1>3, WriterAssumption DEF PartialSums
<1>5. i - 1 \in over
  BY <1>3, <1>4
<1>6. <<i - 1, i>> \in Nat \X Nat /\ <<i - 1, i>>[1] < <<i - 1, i>>[2]
  BY <1>3
<1>7. <<i - 1, i>> \in OpToRel(<, Nat)
  BY <1>6 DEF OpToRel
<1> QED BY <1>2, <1>5, <1>7

\* The partial sums of a queue are determined by it: the budget is one number.
LEMMA OneSum ==
  ASSUME NEW frames \in Seq(Frames),
         NEW rest \in [0..Len(frames) -> Nat], PartialSums(frames, rest),
         NEW other \in [0..Len(frames) -> Nat], PartialSums(frames, other)
  PROVE  rest[0] = other[0]
<1> DEFINE n == Len(frames)
           apart == {k \in 0..n : rest[n - k] # other[n - k]}
<1>0. n \in Nat
  OBVIOUS
<1> HIDE DEF n
<1> SUFFICES ASSUME apart # {} PROVE FALSE
  <2>1. n \in 0..n /\ n - n = 0
    BY <1>0
  <2> QED BY <2>1
<1>1. apart \subseteq Nat
  BY <1>0
<1>2. PICK k \in apart : \A j \in apart : ~(<<j, k>> \in OpToRel(<, Nat))
  BY <1>1, WFMin, NatLessThanWellFounded
<1>3. rest[n] = 0 /\ other[n] = 0
  BY DEF PartialSums, n
<1>4. k \in 1..n /\ k - 1 \in 0..n /\ n - (k - 1) \in 1..n
  BY <1>0, <1>3
<1>5. /\ rest[n - k] = rest[n - (k - 1)] + Bytes[frames[n - (k - 1)]]
      /\ other[n - k] = other[n - (k - 1)] + Bytes[frames[n - (k - 1)]]
  <2>1. (n - (k - 1)) - 1 = n - k
    BY <1>0, <1>4
  <2> QED BY <1>4, <2>1 DEF PartialSums, n
<1>6. k - 1 \in apart
  BY <1>0, <1>4, <1>5
<1>7. <<k - 1, k>> \in Nat \X Nat /\ <<k - 1, k>>[1] < <<k - 1, k>>[2]
  BY <1>4, <1>0
<1>8. <<k - 1, k>> \in OpToRel(<, Nat)
  BY <1>7 DEF OpToRel
<1> QED BY <1>2, <1>6, <1>8

\* Admission charges the bytes of the frame, and stays inside the buffer.
LEMMA SubmitCharges ==
  ASSUME WriterTypes, BudgetExact, NEW f \in Frames, Submit(f)
  PROVE  BudgetExact'
<1>1. PICK rest \in [0..Len(queue) -> 0..maxBufferedBytes] :
        PartialSums(queue, rest) /\ rest[0] = queuedBytes
  BY DEF BudgetExact
<1> DEFINE n == Len(queue)
           more == [i \in 0..(n + 1) |-> IF i = n + 1 THEN 0 ELSE rest[i] + Bytes[f]]
<1>2. /\ n \in Nat /\ queue \in Seq(Frames) /\ maxBufferedBytes \in Nat
      /\ Bytes \in [Frames -> Nat] /\ Bytes[f] \in Nat
  BY WriterAssumption DEF WriterTypes
<1>3. /\ queue' = Append(queue, f) /\ queuedBytes' = queuedBytes + Bytes[f]
      /\ queuedBytes + Bytes[f] <= maxBufferedBytes
  BY DEF Submit, Fits
<1>4. /\ Len(queue') = n + 1 /\ queue'[n + 1] = f
      /\ \A i \in 1..n : queue'[i] = queue[i]
  BY <1>2, <1>3
<1>5. \A i \in 0..n : rest[i] \in Nat /\ rest[i] <= queuedBytes
  <2>1. rest \in [0..Len(queue) -> Nat]
    BY <1>1, <1>2
  <2> QED BY <1>1, <1>2, <2>1, PartOfTheSum
<1>6. more \in [0..(n + 1) -> 0..maxBufferedBytes]
  BY <1>1, <1>2, <1>3, <1>5
<1>7. PartialSums(queue', more)
  <2>1. more[Len(queue')] = 0
    BY <1>2, <1>4
  <2>2. more[n] = Bytes[f] /\ rest[n] = 0
    BY <1>1, <1>2 DEF PartialSums
  <2>3. ASSUME NEW i \in 1..n PROVE more[i - 1] = more[i] + Bytes[queue'[i]]
    <3>1. rest[i - 1] = rest[i] + Bytes[queue[i]] /\ Bytes[queue[i]] \in Nat
      BY <1>1, <1>2 DEF PartialSums
    <3>2. more[i - 1] = rest[i - 1] + Bytes[f] /\ more[i] = rest[i] + Bytes[f]
      BY <1>2
    <3> QED BY <1>2, <1>4, <1>5, <3>1, <3>2
  <2>4. ASSUME NEW i \in 1..(n + 1) PROVE more[i - 1] = more[i] + Bytes[queue'[i]]
    <3>1. CASE i \in 1..n
      BY <2>3, <3>1
    <3>2. CASE i = n + 1
      <4>1. more[i] = 0 /\ i - 1 = n
        BY <1>2, <3>2
      <4>2. more[i - 1] = Bytes[f] /\ Bytes[queue'[i]] = Bytes[f]
        BY <1>4, <2>2, <3>2, <4>1
      <4> HIDE DEF more, n
      <4> QED BY <1>2, <4>1, <4>2
    <3> QED BY <1>2, <3>1, <3>2
  <2> HIDE DEF more, n
  <2> QED BY <1>4, <2>1, <2>4 DEF PartialSums
<1>8. more[0] = queuedBytes'
  BY <1>1, <1>2, <1>3
<1> HIDE DEF more, n
<1> QED BY <1>4, <1>6, <1>7, <1>8 DEF BudgetExact

\* The end of a write gives back exactly what its admission charged.
LEMMA AccountReleases ==
  ASSUME WriterTypes, BudgetExact, NEW f \in Frames, Account(f)
  PROVE  BudgetExact'
<1>1. PICK rest \in [0..Len(queue) -> 0..maxBufferedBytes] :
        PartialSums(queue, rest) /\ rest[0] = queuedBytes
  BY DEF BudgetExact
<1> DEFINE n == Len(queue)
           less == [i \in 0..(n - 1) |-> rest[i + 1]]
<1>2. /\ queue \in Seq(Frames) /\ queue # <<>> /\ Head(queue) = f
      /\ queue' = Tail(queue) /\ queuedBytes' = queuedBytes - Bytes[f]
      /\ Bytes[f] \in Nat
  BY WriterAssumption DEF WriterTypes, Account, InTurn, Released
<1>3. /\ n \in Nat /\ n >= 1 /\ queue[1] = f /\ Len(queue') = n - 1
      /\ \A i \in 1..(n - 1) : queue'[i] = queue[i + 1]
  BY <1>2
<1>4. less \in [0..(n - 1) -> 0..maxBufferedBytes]
  BY <1>1, <1>3
<1>5. PartialSums(queue', less)
  <2>1. less[n - 1] = 0
    BY <1>1, <1>3 DEF PartialSums
  <2>2. ASSUME NEW i \in 1..(n - 1) PROVE less[i - 1] = less[i] + Bytes[queue'[i]]
    <3>1. i + 1 \in 1..n /\ (i + 1) - 1 = i
      BY <1>3
    <3>2. rest[i] = rest[i + 1] + Bytes[queue[i + 1]]
      BY <1>1, <3>1 DEF PartialSums
    <3>3. less[i - 1] = rest[i] /\ less[i] = rest[i + 1]
      BY <1>3
    <3> QED BY <1>3, <3>2, <3>3
  <2> HIDE DEF less, n
  <2> QED BY <1>3, <2>1, <2>2 DEF PartialSums
<1>6. less[0] = queuedBytes'
  <2>1. less[0] = rest[1] /\ rest[1] \in Nat
    BY <1>1, <1>3
  <2>2. 1 \in 1..n /\ 1 - 1 = 0
    BY <1>3
  <2>3. rest[0] = rest[1] + Bytes[f]
    BY <1>1, <1>3, <2>2 DEF PartialSums
  <2> QED BY <1>1, <1>2, <2>1, <2>3
<1> HIDE DEF less, n
<1> QED BY <1>3, <1>4, <1>5, <1>6 DEF BudgetExact

\* messageWriter.ts: queuedBytes is the sum of the frames still queued and inside the
\* buffer, through disposals, failures and answers in any order.
THEOREM ExactBudget == WriterSpec => []BudgetExact
<1>1. WriterInit => BudgetExact
  <2> SUFFICES ASSUME WriterInit PROVE BudgetExact
    OBVIOUS
  <2> DEFINE none == [i \in 0..0 |-> 0]
  <2>1. none \in [0..Len(queue) -> 0..maxBufferedBytes] /\ none[0] = 0
    BY WriterAssumption DEF WriterInit
  <2>2. PartialSums(queue, none)
    BY SMTT(30), <2>1 DEF WriterInit, PartialSums
  <2> HIDE DEF none
  <2> QED BY <2>1, <2>2 DEF WriterInit, BudgetExact
<1>2. WriterInv /\ BudgetExact /\ [WriterNext]_writerVars => BudgetExact'
  <2> SUFFICES ASSUME WriterTypes, BudgetExact, [WriterNext]_writerVars PROVE BudgetExact'
    BY DEF WriterInv
  <2>1. CASE UNCHANGED <<queue, queuedBytes>>
    BY <2>1 DEF BudgetExact
  <2>2. ASSUME NEW f \in Frames, Submit(f) PROVE BudgetExact'
    BY <2>2, SubmitCharges
  <2>3. ASSUME NEW f \in Frames, Continue(f) PROVE BudgetExact'
    BY <2>3, AccountReleases DEF Continue
  <2> QED BY <2>1, <2>2, <2>3 DEF WriterNext, Enter, Callback, Drain, StreamFails,
                                   OwnerDisposes, writerVars
<1> QED BY <1>1, <1>2, WriterInvariant, PTL DEF WriterSpec

================================================================================
