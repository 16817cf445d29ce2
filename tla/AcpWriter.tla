------------------------------- MODULE AcpWriter -------------------------------
(***************************************************************************)
(* The serialized, bounded output of an ACP connection                     *)
(* (acp-transport/src/messageWriter.ts).  A frame is admitted against a    *)
(* byte budget, waits for its predecessors, enters Node's stream, and ends *)
(* in two respects that need not coincide: its caller is answered, and its *)
(* write is physically settled.                                            *)
(*                                                                         *)
(* The stream is external: it calls back once per write it took, emits     *)
(* drain after it refused to buffer more, and may fail or close.  A write  *)
(* on a stream that has already closed is only called back with an error:  *)
(* Node emits nothing any more.                                            *)
(***************************************************************************)
EXTENDS Integers, Sequences, FiniteSets

CONSTANTS
  Frames,             \* the writes of a behaviour, each submitted at most once
  Bytes,              \* [Frames -> size], the newline included
  maxFrameBytes, maxBufferedBytes,
  IdleClose           \* may the stream close while nothing is being written?

\* limits.ts: the buffer holds one maximum-sized frame and its delimiter.
ASSUME WriterAssumption ==
  /\ IsFiniteSet(Frames)
  /\ Bytes \in [Frames -> Nat \ {0}]
  /\ maxFrameBytes \in Nat /\ maxBufferedBytes \in Nat
  /\ maxBufferedBytes >= maxFrameBytes + 1
  /\ IdleClose \in BOOLEAN

VARIABLES
  write,          \* [Frames -> what became of the write]
  queue,          \* frames whose bytes are still charged, in order of admission
  queuedBytes,
  disposed,
  stream          \* "open", or "closed" once its error or close event is out

writerVars == <<write, queue, queuedBytes, disposed, stream>>

WriteRecord ==
  [caller : {"none", "waiting", "resolved", "rejected"},
   entered : BOOLEAN,                 \* the stream took the frame
   called : {"no", "ok", "error"},    \* its callback
   drained : BOOLEAN,                 \* drainObserved, none required, or caller answered
   listening : BOOLEAN,               \* error and close listeners attached
   settled : BOOLEAN]                 \* the promise given to observeSettlement

NoWrite == [caller |-> "none", entered |-> FALSE, called |-> "no", drained |-> FALSE,
            listening |-> FALSE, settled |-> FALSE]

WriterTypeOK ==
  /\ write \in [Frames -> WriteRecord]
  /\ queue \in Seq(Frames)
  /\ queuedBytes \in 0..maxBufferedBytes
  /\ disposed \in BOOLEAN
  /\ stream \in {"open", "closed"}

WriterInit ==
  /\ write = [f \in Frames |-> NoWrite]
  /\ queue = <<>>
  /\ queuedBytes = 0
  /\ disposed = FALSE
  /\ stream = "open"

--------------------------------------------------------------------------------
(* What the closures of writeNow do to one write *)

\* settle: the first answer to the caller counts.
Answer(w, answer) == IF w.caller = "waiting" THEN answer ELSE w.caller

\* A completion that stops at a caller already answered.
CompleteWaiting(w, answer) ==
  IF w.caller = "waiting"
    THEN [w EXCEPT !.listening = FALSE, !.caller = answer, !.settled = TRUE]
    ELSE [w EXCEPT !.listening = FALSE]

\* complete: listeners off, caller answered, obligation settled.
Complete(w, answer) ==
  [w EXCEPT !.listening = FALSE, !.caller = Answer(w, answer), !.settled = TRUE,
            !.drained = TRUE]

\* A disposal that takes the caller's rejection for the end of the write.
RejectAndSettle(w) ==
  IF w.entered /\ w.caller = "waiting"
    THEN [w EXCEPT !.caller = "rejected", !.listening = FALSE, !.settled = TRUE]
    ELSE w

\* rejectActive: the caller goes, the listeners stay unless the write has completed.
RejectActive(w) ==
  IF w.entered /\ w.caller = "waiting"
    THEN [w EXCEPT !.caller = "rejected", !.drained = TRUE,
                   !.listening = @ /\ w.called # "ok",
                   !.settled = @ \/ w.called = "ok"]
    ELSE w

--------------------------------------------------------------------------------
(* The interface *)

\* Admission checks of write: a frame that fails them throws.
Fits(f) ==
  /\ Bytes[f] - 1 <= maxFrameBytes
  /\ queuedBytes + Bytes[f] <= maxBufferedBytes

Submit(f) ==
  /\ ~disposed /\ write[f].caller = "none" /\ Fits(f)
  /\ write' = [write EXCEPT ![f].caller = "waiting"]
  /\ queue' = Append(queue, f)
  /\ queuedBytes' = queuedBytes + Bytes[f]
  /\ UNCHANGED <<disposed, stream>>

Dispose ==
  /\ ~disposed
  /\ disposed' = TRUE
  /\ write' = [f \in Frames |-> RejectActive(write[f])]

--------------------------------------------------------------------------------
(* The queue *)

\* The promise chain hands the stream the head of the queue, and no other frame.
InTurn(f) == queue # <<>> /\ Head(queue) = f

\* writeNow, with the three ways in which stream.write returns.
Enter(f) ==
  /\ InTurn(f) /\ write[f].caller = "waiting" /\ ~write[f].entered
  /\ \/ /\ disposed
        /\ write' = [write EXCEPT ![f] = Complete(@, "rejected")]
     \/ /\ ~disposed
        /\ \E admitted \in BOOLEAN :
             /\ stream = "closed" => ~admitted
             /\ write' = [write EXCEPT ![f].entered = TRUE, ![f].listening = TRUE,
                                       ![f].drained = admitted]
     \/ /\ ~disposed
        /\ write' = [write EXCEPT ![f] = Complete(@, "rejected")]
  /\ UNCHANGED <<queue, queuedBytes, disposed, stream>>

\* A release of the budget that forgets rejected frames.
ReleasedIfWritten(f) == IF write[f].caller = "resolved" THEN Bytes[f] ELSE 0

\* The bytes given back when the caller of f has been answered, either way.
Released(f) == Bytes[f]

\* The continuations of one answered write run before the next frame's turn.
Account(f) ==
  /\ InTurn(f) /\ write[f].caller \in {"resolved", "rejected"}
  /\ queue' = Tail(queue)
  /\ queuedBytes' = queuedBytes - Released(f)
  /\ UNCHANGED stream

--------------------------------------------------------------------------------
(* Events of the stream *)

\* The write callback.  An error is left to the stream's own event.
Callback(f) ==
  /\ write[f].entered /\ write[f].called = "no"
  /\ \/ /\ stream = "open" \/ ~write[f].listening
        /\ write' = [write EXCEPT ![f] =
             LET w == [@ EXCEPT !.called = "ok"]
             IN IF disposed THEN [w EXCEPT !.listening = FALSE, !.settled = TRUE]
                ELSE IF w.drained THEN Complete(w, "resolved") ELSE w]
     \/ write' = [write EXCEPT ![f].called = "error"]
  /\ UNCHANGED <<queue, queuedBytes, disposed, stream>>

Drain(f) ==
  /\ stream = "open"
  /\ write[f].entered /\ write[f].caller = "waiting" /\ ~write[f].drained
  /\ write' = [write EXCEPT ![f] =
       LET w == [@ EXCEPT !.drained = TRUE]
       IN IF w.called = "ok" THEN Complete(w, "resolved") ELSE w]
  /\ UNCHANGED <<queue, queuedBytes, disposed, stream>>

\* error or close: every write still listening is over.
StreamFails ==
  /\ stream = "open"
  /\ IdleClose \/ \E f \in Frames : write[f].listening
  /\ stream' = "closed"
  /\ write' = [f \in Frames |-> IF write[f].listening THEN Complete(write[f], "rejected") ELSE write[f]]
  /\ UNCHANGED <<queue, queuedBytes, disposed>>

--------------------------------------------------------------------------------
(* The writer under its owner, which disposes of it at will and, at the latest, *)
(* in the continuation of the first rejected write (writeOrFail, fatal, close). *)

Continue(f) ==
  /\ Account(f)
  /\ IF write[f].caller = "rejected" /\ ~disposed THEN Dispose ELSE UNCHANGED <<write, disposed>>

OwnerDisposes == Dispose /\ UNCHANGED <<queue, queuedBytes, stream>>

WriterNext ==
  \/ \E f \in Frames : Submit(f) \/ Enter(f) \/ Continue(f) \/ Callback(f) \/ Drain(f)
  \/ StreamFails
  \/ OwnerDisposes

WriterSpec == WriterInit /\ [][WriterNext]_writerVars

\* Microtasks run; the stream calls back every write it took, drains what it called
\* back successfully, and reports the failure of a write.  No one owes a disposal.
WriterFairness ==
  /\ \A f \in Frames :
       /\ WF_writerVars(Enter(f)) /\ WF_writerVars(Continue(f))
       /\ WF_writerVars(Callback(f)) /\ WF_writerVars(Drain(f))
       /\ WF_writerVars(write[f].called = "error" /\ StreamFails)

FairWriterSpec == WriterSpec /\ WriterFairness

--------------------------------------------------------------------------------
(* Properties *)

\* Never two frames inside the stream: the next one enters after the callback and
\* the drain of its predecessor, and none after a disposal that rejected a caller
\* whose write goes on.
InStream == {f \in Frames : write[f].entered /\ write[f].called = "no"}
OneInStream == stream = "open" => \A f, g \in InStream : f = g

\* README: the settlement of a write "remains pending when disposal rejects an
\* entered write early": it says that the write is physically over.
SettledMeansOver ==
  \A f \in Frames : write[f].settled =>
    ~write[f].entered \/ write[f].called # "no" \/ stream = "closed"

\* README: the writer "retains error/close observation until its callback succeeds or
\* its stream reports failure or closure", callers rejected early by a disposal
\* included: a late error of the stream is never unowned.
ErrorIsOwned ==
  stream = "open" =>
    \A f \in Frames : write[f].entered /\ write[f].called # "ok" => write[f].listening

\* Output is serialized, and owned to its physical end whoever stops waiting for it.
OutputIsOwned == OneInStream /\ SettledMeansOver /\ ErrorIsOwned

\* The charge is the sum of the frames still queued, whichever way the others left (an
\* answered write gives back its bytes once, a rejected one too), and within its limit.
\* The sum is stated by its partial sums: rest[i] are the bytes behind position i.
PartialSums(frames, rest) ==
  /\ rest[Len(frames)] = 0
  /\ \A i \in 1..Len(frames) : rest[i - 1] = rest[i] + Bytes[frames[i]]
BudgetExact ==
  \E rest \in [0..Len(queue) -> 0..maxBufferedBytes] :
    PartialSums(queue, rest) /\ rest[0] = queuedBytes

\* Every admitted write ends: its caller is answered and, through "an actual write
\* callback or stream termination", its obligation settles (README).  Frames are
\* finitely many and the end of a write is final, so this is one formula for all.
WriteOver(f) == write[f].caller # "waiting" /\ write[f].settled
WritesEnd == []<>(\A f \in Frames : write[f].caller # "none" => WriteOver(f))

================================================================================
