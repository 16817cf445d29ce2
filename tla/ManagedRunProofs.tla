---------------------------- MODULE ManagedRunProofs ----------------------------
(***************************************************************************)
(* Machine-checked facts about ManagedRun, for every value of its          *)
(* constants.  A step of the live run changes the live record and, when it *)
(* commits, the store.  Moves says what all steps have in common on the    *)
(* side of the record; the lemmas named after shapes (SetMain, GoesMoves,  *)
(* FinishMoves...) show it once for each shape of an update, and each      *)
(* group of actions is then taken apart into shapes.  On the other side    *)
(* every step is shown to be a command of DelegationStore or to leave it   *)
(* alone, so that its theorems hold of the store this run journals in.     *)
(*                                                                         *)
(* Three invariants follow, each on top of the one before: ManagedInv (the *)
(* types, the queue of the controls, the one turn), HonestInv (Orderly: in *)
(* which order the parts of the run come to rest; SettledAs: what was      *)
(* settled is what was observed) and WaitInv (a published request has      *)
(* whoever can answer it).                                                 *)
(***************************************************************************)
EXTENDS ManagedRun, DelegationStoreProofs

\* A control that has left the queue and not the tail: an answer gives the tail
\* up with its intent, the others keep it to their end (control.ts).
Holds(l, c) ==
  IF c \in Answers THEN l.control[c].pc = "intent"
  ELSE l.control[c].pc \notin {"none", "queued", "done"}

\* The tail serializes: whoever holds it is at its head.
HeadHolds(l) == \A c \in Serialized : Holds(l, c) => l.tail # <<>> /\ Head(l.tail) = c

\* finishRun knows its outcome, and sends the store one.
Told(l) ==
  /\ l.finish # "none" => l.outcome # "none"
  /\ l.finish = "settle" => l.final # "none"

\* The controls go on as they were.
SameControls(l, m) == m.control = l.control /\ m.tail = l.tail /\ m.started = l.started

\* Nothing is said of the end.
SameEnd(l, m) == m.finish = l.finish /\ m.outcome = l.outcome /\ m.final = l.final

\* The live record is well formed, and the reader routes a request that exists.
Sane(l) ==
  /\ l \in LiveRecord
  /\ Told(l)
  /\ HeadHolds(l)
  /\ l.main \in {"routing", "presenting"} => l.next \in Requests

\* What every step but a launch, a turn and a crash leaves alone.
Calm(l, m) == m.started = l.started /\ (m.main = "none" <=> l.main = "none")

\* A step from a sane record to a sane one, at most a run of code further.
Moves(l, m) == Sane(m) /\ Calm(l, m)

--------------------------------------------------------------------------------

\* A step that leaves the tail and its controls alone.
LEMMA PlainMove ==
  ASSUME NEW l, NEW m, Sane(l), m \in LiveRecord, SameControls(l, m), m.main = "none" <=> l.main = "none",
         m.main \in {"routing", "presenting"} => m.next \in Requests, Told(m)
  PROVE  Moves(l, m)
BY DEF Moves, Sane, Calm, HeadHolds, Holds, SameControls

\* What is said of the end is still true.
LEMMA StillTold ==
  ASSUME NEW l, Sane(l), NEW m, SameEnd(l, m)
  PROVE  Told(m)
BY DEF Sane, Told, SameEnd

\* Moves follow each other.
LEMMA MovesOn ==
  ASSUME NEW l, NEW m, NEW n, Moves(l, m), Moves(m, n)
  PROVE  Moves(l, n)
BY DEF Moves, Calm

\* The lifetime ends.
LEMMA AbortMoves ==
  ASSUME NEW l, Sane(l)
  PROVE  Moves(l, Abort(l))
<1> DEFINE m == Abort(l)
<1>1. l \in LiveRecord
  BY DEF Sane
<1>2. m \in LiveRecord
  BY <1>1 DEF Abort, LiveRecord
<1>3. /\ SameControls(l, m)
      /\ m.main = l.main /\ m.next = l.next /\ SameEnd(l, m)
  BY <1>1 DEF Abort, LiveRecord, SameEnd, SameControls
<1> HIDE DEF m
<1>4. Moves(l, m)
  BY <1>2, <1>3, PlainMove, StillTold DEF Sane
<1> QED BY <1>4 DEF m

\* finishRun starts.
LEMMA FinishMoves ==
  ASSUME NEW l, Sane(l), NEW outcome \in Outcomes
  PROVE  Moves(l, FinishRun(l, outcome))
<1> DEFINE first == 1
           k == [l EXCEPT !.finish = "join", !.outcome = outcome, !.request = NoRequest,
                       !.grace = FALSE, !.closer = "close_intent", !.attempts = first]
<1>0. /\ l \in LiveRecord /\ first \in Tries /\ outcome \in MaybeOutcome
      /\ NoRequest \in MaybeRequest /\ "join" \in Finishes /\ "close_intent" \in Closers
  BY DEF Sane, Tries, MaybeOutcome, MaybeRequest, Finishes, Closers
<1>1. FinishRun(l, outcome) = IF l.finish # "none" THEN l ELSE Abort(k)
  BY DEF FinishRun
<1> HIDE DEF first
<1>2. k \in LiveRecord
  BY <1>0 DEF LiveRecord
<1>3. /\ SameControls(l, k)
      /\ k.main = l.main /\ k.next = l.next /\ k.outcome = outcome /\ k.finish = "join"
  BY <1>0 DEF LiveRecord, SameControls
<1>7. Told(k)
  BY <1>3 DEF Told, Outcomes
<1> HIDE DEF k
<1>4. Moves(l, k)
  BY <1>2, <1>3, <1>7, PlainMove DEF Sane
<1>5. Moves(l, Abort(k))
  BY <1>4, AbortMoves, MovesOn DEF Moves
<1>6. Moves(l, l)
  BY DEF Moves, Calm
<1> QED BY <1>1, <1>5, <1>6

\* A reason to doubt the outcome is noted.
LEMMA UncertainMoves ==
  ASSUME NEW l, Sane(l), NEW reason \in Doubts
  PROVE  Moves(l, Uncertain(l, reason))
<1> DEFINE m == Uncertain(l, reason)
<1>1. l \in LiveRecord
  BY DEF Sane
<1>2. m \in LiveRecord
  BY <1>1 DEF Uncertain, LiveRecord
<1>3. /\ SameControls(l, m)
      /\ m.main = l.main /\ m.next = l.next /\ SameEnd(l, m)
  BY <1>1 DEF Uncertain, LiveRecord, SameEnd, SameControls
<1> HIDE DEF m
<1>4. Moves(l, m)
  BY <1>2, <1>3, PlainMove, StillTold DEF Sane
<1> QED BY <1>4 DEF m

\* The record m is l with the entry of control c, the tail, the calls and the doubt
\* replaced.
Replaced(l, m, c, entry, tail) ==
  /\ m \in LiveRecord /\ m.control[c] = entry /\ m.tail = tail
  /\ \A d \in Serialized : d # c => m.control[d] = l.control[d]
  /\ m.started = l.started /\ m.main = l.main /\ m.next = l.next /\ SameEnd(l, m)

\* Replacing well-formed parts by well-formed parts.
LEMMA ControlSet ==
  ASSUME NEW l \in LiveRecord, NEW c \in Serialized, NEW entry \in Control,
         NEW tail \in ControlTails, NEW calls \in CallSets, NEW reason \in Doubts,
         NEW controls, controls = [l.control EXCEPT ![c] = entry],
         NEW m, m = [l EXCEPT !.control = controls, !.tail = tail, !.calls = calls,
                              !.uncertain = reason]
  PROVE  Replaced(l, m, c, entry, tail)
<1>2. l.control \in [Serialized -> Control]
  BY DEF LiveRecord, ControlTable
<1>3. /\ controls \in ControlTable /\ controls[c] = entry
      /\ \A d \in Serialized : d # c => controls[d] = l.control[d]
  BY <1>2 DEF ControlTable
<1>4. m \in LiveRecord
  BY <1>3 DEF LiveRecord
<1>5. /\ m.control = controls /\ m.tail = tail
      /\ m.started = l.started /\ m.main = l.main /\ m.next = l.next /\ SameEnd(l, m)
  BY DEF LiveRecord, SameEnd
<1> QED BY <1>3, <1>4, <1>5 DEF Replaced

\* The fields of a live record, one by one.
LEMMA LiveFields ==
  ASSUME NEW l, Sane(l)
  PROVE  /\ l \in LiveRecord /\ l.tail \in ControlTails /\ l.control \in ControlTable
         /\ l.calls \in CallSets /\ l.uncertain \in Doubts /\ l.request \in MaybeRequest
         /\ l.eligibility \in EligibilityTable /\ l.shown \in SUBSET Requests
         /\ l.resolution \in ResolutionTable /\ l.outcome \in MaybeOutcome
         /\ l.final \in MaybeOutcome /\ l.session \in Sessions /\ l.read \in MaybeTerminal
         /\ l.registered \in BOOLEAN /\ l.execution \in Grants /\ l.resources \in Grants
         /\ l.main \in Mains /\ l.finish \in Finishes /\ l.next \in MaybeRequest
BY DEF Sane, LiveRecord

\* A control is replaced together with the tail,
LEMMA TailSet ==
  ASSUME NEW l, Sane(l), NEW c \in Serialized, NEW entry \in Control, NEW tail \in ControlTails,
         NEW m, m = [l EXCEPT !.control[c] = entry, !.tail = tail]
  PROVE  Replaced(l, m, c, entry, tail)
<1> DEFINE controls == [l.control EXCEPT ![c] = entry]
           calls == l.calls
           reason == l.uncertain
<1>1. l \in LiveRecord /\ calls \in CallSets /\ reason \in Doubts
  BY LiveFields
<1>2. m = [l EXCEPT !.control = controls, !.tail = tail, !.calls = calls, !.uncertain = reason]
  BY <1>1 DEF LiveRecord
<1>3. controls = [l.control EXCEPT ![c] = entry]
  OBVIOUS
<1> HIDE DEF controls, calls, reason
<1> QED BY <1>1, <1>2, <1>3, ControlSet

\* or with the calls and the doubt.
LEMMA CallSet ==
  ASSUME NEW l, Sane(l), NEW c \in Serialized, NEW entry \in Control,
         NEW calls \in CallSets, NEW reason \in Doubts,
         NEW m, m = [l EXCEPT !.control[c] = entry, !.calls = calls, !.uncertain = reason]
  PROVE  Replaced(l, m, c, entry, l.tail)
<1> DEFINE controls == [l.control EXCEPT ![c] = entry]
           tail == l.tail
<1>1. l \in LiveRecord /\ tail \in ControlTails
  BY LiveFields
<1>2. m = [l EXCEPT !.control = controls, !.tail = tail, !.calls = calls, !.uncertain = reason]
  BY <1>1 DEF LiveRecord
<1>3. controls = [l.control EXCEPT ![c] = entry]
  OBVIOUS
<1>4. tail = l.tail
  OBVIOUS
<1> HIDE DEF controls, tail
<1>5. Replaced(l, m, c, entry, tail)
  BY <1>1, <1>2, <1>3, ControlSet
<1> QED BY <1>4, <1>5

\* The code moves on.
LEMMA SetMain ==
  ASSUME NEW l, Sane(l), NEW m,
         NEW pc \in Mains,
         l.main # "none", pc # "none",
         pc \in {"routing", "presenting"} => l.next \in Requests,
         m = [l EXCEPT !.main = pc]
  PROVE  Moves(l, m)
<1>1. l \in LiveRecord
  BY DEF Sane
<1>2. m \in LiveRecord
  BY <1>1 DEF LiveRecord
<1>3. SameControls(l, m) /\ m.next = l.next /\ m.main = pc /\ SameEnd(l, m)
  BY <1>1 DEF LiveRecord, SameControls, SameEnd
<1> QED BY <1>2, <1>3, PlainMove, StillTold DEF Sane

\* The run is registered in state.live.
LEMMA SetRegistered ==
  ASSUME NEW l, Sane(l), NEW m,
         NEW pc \in Mains,
         NEW known \in BOOLEAN,
         l.main # "none", pc # "none",
         pc \in {"routing", "presenting"} => l.next \in Requests,
         m = [l EXCEPT !.main = pc, !.registered = known]
  PROVE  Moves(l, m)
<1>1. l \in LiveRecord
  BY DEF Sane
<1>2. m \in LiveRecord
  BY <1>1 DEF LiveRecord
<1>3. SameControls(l, m) /\ m.next = l.next /\ m.main = pc /\ SameEnd(l, m)
  BY <1>1 DEF LiveRecord, SameControls, SameEnd
<1> QED BY <1>2, <1>3, PlainMove, StillTold DEF Sane

\* The execution grant is kept.
LEMMA SetExecution ==
  ASSUME NEW l, Sane(l), NEW m,
         NEW grant \in Grants,
         NEW pc \in Mains,
         l.main # "none", pc # "none",
         pc \in {"routing", "presenting"} => l.next \in Requests,
         m = [l EXCEPT !.execution = grant, !.main = pc]
  PROVE  Moves(l, m)
<1>1. l \in LiveRecord
  BY DEF Sane
<1>2. m \in LiveRecord
  BY <1>1 DEF LiveRecord
<1>3. SameControls(l, m) /\ m.next = l.next /\ m.main = pc /\ SameEnd(l, m)
  BY <1>1 DEF LiveRecord, SameControls, SameEnd
<1> QED BY <1>2, <1>3, PlainMove, StillTold DEF Sane

\* The resources are kept.
LEMMA SetResources ==
  ASSUME NEW l, Sane(l), NEW m,
         NEW grant \in Grants,
         NEW pc \in Mains,
         l.main # "none", pc # "none",
         pc \in {"routing", "presenting"} => l.next \in Requests,
         m = [l EXCEPT !.resources = grant, !.main = pc]
  PROVE  Moves(l, m)
<1>1. l \in LiveRecord
  BY DEF Sane
<1>2. m \in LiveRecord
  BY <1>1 DEF LiveRecord
<1>3. SameControls(l, m) /\ m.next = l.next /\ m.main = pc /\ SameEnd(l, m)
  BY <1>1 DEF LiveRecord, SameControls, SameEnd
<1> QED BY <1>2, <1>3, PlainMove, StillTold DEF Sane

\* The session is open, or rejected.
LEMMA SetSession ==
  ASSUME NEW l, Sane(l), NEW m,
         NEW session \in Sessions,
         NEW pc \in Mains,
         l.main # "none", pc # "none",
         pc \in {"routing", "presenting"} => l.next \in Requests,
         m = [l EXCEPT !.session = session, !.main = pc]
  PROVE  Moves(l, m)
<1>1. l \in LiveRecord
  BY DEF Sane
<1>2. m \in LiveRecord
  BY <1>1 DEF LiveRecord
<1>3. SameControls(l, m) /\ m.next = l.next /\ m.main = pc /\ SameEnd(l, m)
  BY <1>1 DEF LiveRecord, SameControls, SameEnd
<1> QED BY <1>2, <1>3, PlainMove, StillTold DEF Sane

\* The code moves on in doubt.
LEMMA SetDoubt ==
  ASSUME NEW l, Sane(l), NEW m,
         NEW pc \in Mains,
         NEW reason \in Doubts,
         l.main # "none", pc # "none",
         pc \in {"routing", "presenting"} => l.next \in Requests,
         m = [l EXCEPT !.main = pc, !.uncertain = reason]
  PROVE  Moves(l, m)
<1>1. l \in LiveRecord
  BY DEF Sane
<1>2. m \in LiveRecord
  BY <1>1 DEF LiveRecord
<1>3. SameControls(l, m) /\ m.next = l.next /\ m.main = pc /\ SameEnd(l, m)
  BY <1>1 DEF LiveRecord, SameControls, SameEnd
<1> QED BY <1>2, <1>3, PlainMove, StillTold DEF Sane

\* The configuration has answered.
LEMMA SetConfigured ==
  ASSUME NEW l, Sane(l), NEW m,
         NEW pc \in Mains,
         NEW result \in Configured,
         l.main # "none", pc # "none",
         pc \in {"routing", "presenting"} => l.next \in Requests,
         m = [l EXCEPT !.main = pc, !.configured = result]
  PROVE  Moves(l, m)
<1>1. l \in LiveRecord
  BY DEF Sane
<1>2. m \in LiveRecord
  BY <1>1 DEF LiveRecord
<1>3. SameControls(l, m) /\ m.next = l.next /\ m.main = pc /\ SameEnd(l, m)
  BY <1>1 DEF LiveRecord, SameControls, SameEnd
<1> QED BY <1>2, <1>3, PlainMove, StillTold DEF Sane

\* The reader has its stream.
LEMMA SetStream ==
  ASSUME NEW l, Sane(l), NEW m,
         NEW pc \in Mains,
         NEW reads \in BOOLEAN,
         l.main # "none", pc # "none",
         pc \in {"routing", "presenting"} => l.next \in Requests,
         m = [l EXCEPT !.main = pc, !.stream = reads]
  PROVE  Moves(l, m)
<1>1. l \in LiveRecord
  BY DEF Sane
<1>2. m \in LiveRecord
  BY <1>1 DEF LiveRecord
<1>3. SameControls(l, m) /\ m.next = l.next /\ m.main = pc /\ SameEnd(l, m)
  BY <1>1 DEF LiveRecord, SameControls, SameEnd
<1> QED BY <1>2, <1>3, PlainMove, StillTold DEF Sane

\* The delegation is recorded.
LEMMA SetRecorded ==
  ASSUME NEW l, Sane(l), NEW m,
         NEW noted \in BOOLEAN,
         m = [l EXCEPT !.recorded = noted]
  PROVE  Moves(l, m)
<1>1. l \in LiveRecord
  BY DEF Sane
<1>2. m \in LiveRecord
  BY <1>1 DEF LiveRecord
<1>3. SameControls(l, m) /\ m.main = l.main /\ m.next = l.next /\ SameEnd(l, m)
  BY <1>1 DEF LiveRecord, SameControls, SameEnd
<1> QED BY <1>2, <1>3, PlainMove, StillTold DEF Sane

\* The reader takes a request up or puts it down.
LEMMA SetNext ==
  ASSUME NEW l, Sane(l), NEW m,
         NEW pc \in Mains,
         NEW next \in MaybeRequest,
         l.main # "none", pc # "none",
         pc \in {"routing", "presenting"} => next \in Requests,
         m = [l EXCEPT !.main = pc, !.next = next]
  PROVE  Moves(l, m)
<1>1. l \in LiveRecord
  BY DEF Sane
<1>2. m \in LiveRecord
  BY <1>1 DEF LiveRecord
<1>3. SameControls(l, m) /\ m.main = pc /\ m.next = next /\ SameEnd(l, m)
  BY <1>1 DEF LiveRecord, SameControls, SameEnd
<1> QED BY <1>2, <1>3, PlainMove, StillTold DEF Sane

\* The reader has taken the terminal event.
LEMMA SetRead ==
  ASSUME NEW l, Sane(l), NEW m,
         NEW terminal \in MaybeTerminal,
         m = [l EXCEPT !.read = terminal]
  PROVE  Moves(l, m)
<1>1. l \in LiveRecord
  BY DEF Sane
<1>2. m \in LiveRecord
  BY <1>1 DEF LiveRecord
<1>3. SameControls(l, m) /\ m.main = l.main /\ m.next = l.next /\ SameEnd(l, m)
  BY <1>1 DEF LiveRecord, SameControls, SameEnd
<1> QED BY <1>2, <1>3, PlainMove, StillTold DEF Sane

\* The turn has ended.
LEMMA SetEnded ==
  ASSUME NEW l, Sane(l), NEW m,
         NEW over \in BOOLEAN,
         m = [l EXCEPT !.ended = over]
  PROVE  Moves(l, m)
<1>1. l \in LiveRecord
  BY DEF Sane
<1>2. m \in LiveRecord
  BY <1>1 DEF LiveRecord
<1>3. SameControls(l, m) /\ m.main = l.main /\ m.next = l.next /\ SameEnd(l, m)
  BY <1>1 DEF LiveRecord, SameControls, SameEnd
<1> QED BY <1>2, <1>3, PlainMove, StillTold DEF Sane

\* The reader leaves its loop.
LEMMA SetOver ==
  ASSUME NEW l, Sane(l), NEW m,
         NEW pc \in Mains,
         NEW reads \in BOOLEAN,
         NEW over \in BOOLEAN,
         l.main # "none", pc # "none",
         pc \in {"routing", "presenting"} => l.next \in Requests,
         m = [l EXCEPT !.main = pc, !.stream = reads, !.ended = over]
  PROVE  Moves(l, m)
<1>1. l \in LiveRecord
  BY DEF Sane
<1>2. m \in LiveRecord
  BY <1>1 DEF LiveRecord
<1>3. SameControls(l, m) /\ m.next = l.next /\ m.main = pc /\ SameEnd(l, m)
  BY <1>1 DEF LiveRecord, SameControls, SameEnd
<1> QED BY <1>2, <1>3, PlainMove, StillTold DEF Sane

\* A call starts or ends.
LEMMA SetCalls ==
  ASSUME NEW l, Sane(l), NEW m,
         NEW calls \in CallSets,
         m = [l EXCEPT !.calls = calls]
  PROVE  Moves(l, m)
<1>1. l \in LiveRecord
  BY DEF Sane
<1>2. m \in LiveRecord
  BY <1>1 DEF LiveRecord
<1>3. SameControls(l, m) /\ m.main = l.main /\ m.next = l.next /\ SameEnd(l, m)
  BY <1>1 DEF LiveRecord, SameControls, SameEnd
<1> QED BY <1>2, <1>3, PlainMove, StillTold DEF Sane

\* A cancel is on its way.
LEMMA SetAsked ==
  ASSUME NEW l, Sane(l), NEW m,
         NEW asked \in BOOLEAN,
         m = [l EXCEPT !.asked = asked]
  PROVE  Moves(l, m)
<1>1. l \in LiveRecord
  BY DEF Sane
<1>2. m \in LiveRecord
  BY <1>1 DEF LiveRecord
<1>3. SameControls(l, m) /\ m.main = l.main /\ m.next = l.next /\ SameEnd(l, m)
  BY <1>1 DEF LiveRecord, SameControls, SameEnd
<1> QED BY <1>2, <1>3, PlainMove, StillTold DEF Sane

\* The timer is armed or disarmed.
LEMMA SetGrace ==
  ASSUME NEW l, Sane(l), NEW m,
         NEW grace \in BOOLEAN,
         m = [l EXCEPT !.grace = grace]
  PROVE  Moves(l, m)
<1>1. l \in LiveRecord
  BY DEF Sane
<1>2. m \in LiveRecord
  BY <1>1 DEF LiveRecord
<1>3. SameControls(l, m) /\ m.main = l.main /\ m.next = l.next /\ SameEnd(l, m)
  BY <1>1 DEF LiveRecord, SameControls, SameEnd
<1> QED BY <1>2, <1>3, PlainMove, StillTold DEF Sane

\* The closer moves on,
LEMMA SetCloser ==
  ASSUME NEW l, Sane(l), NEW m,
         NEW closer \in Closers,
         m = [l EXCEPT !.closer = closer]
  PROVE  Moves(l, m)
<1>1. l \in LiveRecord
  BY DEF Sane
<1>2. m \in LiveRecord
  BY <1>1 DEF LiveRecord
<1>3. SameControls(l, m) /\ m.main = l.main /\ m.next = l.next /\ SameEnd(l, m)
  BY <1>1 DEF LiveRecord, SameControls, SameEnd
<1> QED BY <1>2, <1>3, PlainMove, StillTold DEF Sane

\* to another attempt,
LEMMA SetAttempt ==
  ASSUME NEW l, Sane(l), NEW m,
         NEW closer \in Closers,
         NEW attempts \in Tries,
         m = [l EXCEPT !.closer = closer, !.attempts = attempts]
  PROVE  Moves(l, m)
<1>1. l \in LiveRecord
  BY DEF Sane
<1>2. m \in LiveRecord
  BY <1>1 DEF LiveRecord
<1>3. SameControls(l, m) /\ m.main = l.main /\ m.next = l.next /\ SameEnd(l, m)
  BY <1>1 DEF LiveRecord, SameControls, SameEnd
<1> QED BY <1>2, <1>3, PlainMove, StillTold DEF Sane

\* or to the end of the session.
LEMMA SetClosed ==
  ASSUME NEW l, Sane(l), NEW m,
         NEW closer \in Closers,
         NEW session \in Sessions,
         m = [l EXCEPT !.closer = closer, !.session = session]
  PROVE  Moves(l, m)
<1>1. l \in LiveRecord
  BY DEF Sane
<1>2. m \in LiveRecord
  BY <1>1 DEF LiveRecord
<1>3. SameControls(l, m) /\ m.main = l.main /\ m.next = l.next /\ SameEnd(l, m)
  BY <1>1 DEF LiveRecord, SameControls, SameEnd
<1> QED BY <1>2, <1>3, PlainMove, StillTold DEF Sane

\* finishRun moves on,
LEMMA SetFinish ==
  ASSUME NEW l, Sane(l), NEW m,
         NEW finish \in Finishes,
         l.finish # "none", finish # "settle",
         m = [l EXCEPT !.finish = finish]
  PROVE  Moves(l, m)
<1>1. l \in LiveRecord
  BY DEF Sane
<1>2. m \in LiveRecord
  BY <1>1 DEF LiveRecord
<1>3. /\ SameControls(l, m) /\ m.main = l.main /\ m.next = l.next
      /\ m.finish = finish /\ m.outcome = l.outcome
  BY <1>1 DEF LiveRecord, SameControls
<1>4. Told(m)
  BY <1>3 DEF Told, Sane
<1> QED BY <1>2, <1>3, <1>4, PlainMove DEF Sane

\* decides,
LEMMA SetFinal ==
  ASSUME NEW l, Sane(l), NEW m,
         NEW finish \in Finishes,
         NEW final \in MaybeOutcome,
         l.finish # "none", final # "none",
         NEW overruled \in Doubts,
         m = [l EXCEPT !.finish = finish, !.final = final, !.overruled = overruled]
  PROVE  Moves(l, m)
<1>1. l \in LiveRecord
  BY DEF Sane
<1>2. m \in LiveRecord
  BY <1>1 DEF LiveRecord
<1>3. /\ SameControls(l, m) /\ m.main = l.main /\ m.next = l.next
      /\ m.finish = finish /\ m.outcome = l.outcome /\ m.final = final
  BY <1>1 DEF LiveRecord, SameControls
<1>4. Told(m)
  BY <1>3 DEF Told, Sane
<1> QED BY <1>2, <1>3, <1>4, PlainMove DEF Sane

\* and forgets the run.
LEMMA SetDone ==
  ASSUME NEW l, Sane(l), NEW m,
         NEW finish \in Finishes,
         NEW known \in BOOLEAN,
         l.finish # "none", finish # "settle",
         m = [l EXCEPT !.finish = finish, !.registered = known]
  PROVE  Moves(l, m)
<1>1. l \in LiveRecord
  BY DEF Sane
<1>2. m \in LiveRecord
  BY <1>1 DEF LiveRecord
<1>3. /\ SameControls(l, m) /\ m.main = l.main /\ m.next = l.next
      /\ m.finish = finish /\ m.outcome = l.outcome
  BY <1>1 DEF LiveRecord, SameControls
<1>4. Told(m)
  BY <1>3 DEF Told, Sane
<1> QED BY <1>2, <1>3, <1>4, PlainMove DEF Sane

\* A release fails once,
LEMMA SetReleases ==
  ASSUME NEW l, Sane(l), NEW m,
         NEW releases \in Tries,
         m = [l EXCEPT !.releases = releases]
  PROVE  Moves(l, m)
<1>1. l \in LiveRecord
  BY DEF Sane
<1>2. m \in LiveRecord
  BY <1>1 DEF LiveRecord
<1>3. SameControls(l, m) /\ m.main = l.main /\ m.next = l.next /\ SameEnd(l, m)
  BY <1>1 DEF LiveRecord, SameControls, SameEnd
<1> QED BY <1>2, <1>3, PlainMove, StillTold DEF Sane

\* or twice.
LEMMA SetGivenUp ==
  ASSUME NEW l, Sane(l), NEW m,
         NEW releases \in Tries,
         NEW finish \in Finishes,
         l.finish # "none", finish # "settle",
         m = [l EXCEPT !.releases = releases, !.finish = finish]
  PROVE  Moves(l, m)
<1>1. l \in LiveRecord
  BY DEF Sane
<1>2. m \in LiveRecord
  BY <1>1 DEF LiveRecord
<1>3. /\ SameControls(l, m) /\ m.main = l.main /\ m.next = l.next
      /\ m.finish = finish /\ m.outcome = l.outcome
  BY <1>1 DEF LiveRecord, SameControls
<1>4. Told(m)
  BY <1>3 DEF Told, Sane
<1> QED BY <1>2, <1>3, <1>4, PlainMove DEF Sane

\* The resources go back,
LEMMA SetReleasedResources ==
  ASSUME NEW l, Sane(l), NEW m,
         NEW finish \in Finishes,
         NEW releases \in Tries,
         NEW grant \in Grants,
         l.finish # "none", finish # "settle",
         m = [l EXCEPT !.finish = finish, !.releases = releases, !.resources = grant]
  PROVE  Moves(l, m)
<1>1. l \in LiveRecord
  BY DEF Sane
<1>2. m \in LiveRecord
  BY <1>1 DEF LiveRecord
<1>3. /\ SameControls(l, m) /\ m.main = l.main /\ m.next = l.next
      /\ m.finish = finish /\ m.outcome = l.outcome
  BY <1>1 DEF LiveRecord, SameControls
<1>4. Told(m)
  BY <1>3 DEF Told, Sane
<1> QED BY <1>2, <1>3, <1>4, PlainMove DEF Sane

\* and so does the execution grant.
LEMMA SetReleasedExecution ==
  ASSUME NEW l, Sane(l), NEW m,
         NEW finish \in Finishes,
         NEW releases \in Tries,
         NEW grant \in Grants,
         l.finish # "none", finish # "settle",
         m = [l EXCEPT !.finish = finish, !.releases = releases, !.execution = grant]
  PROVE  Moves(l, m)
<1>1. l \in LiveRecord
  BY DEF Sane
<1>2. m \in LiveRecord
  BY <1>1 DEF LiveRecord
<1>3. /\ SameControls(l, m) /\ m.main = l.main /\ m.next = l.next
      /\ m.finish = finish /\ m.outcome = l.outcome
  BY <1>1 DEF LiveRecord, SameControls
<1>4. Told(m)
  BY <1>3 DEF Told, Sane
<1> QED BY <1>2, <1>3, <1>4, PlainMove DEF Sane

\* A request is taken from the host.
LEMMA SetRetired ==
  ASSUME NEW l, Sane(l), NEW m,
         NEW pc \in Mains,
         NEW next \in MaybeRequest,
         NEW shown \in SUBSET Requests,
         NEW table \in EligibilityTable,
         l.main # "none", pc # "none",
         pc \in {"routing", "presenting"} => next \in Requests,
         m = [l EXCEPT !.main = pc, !.next = next, !.shown = shown, !.eligibility = table]
  PROVE  Moves(l, m)
<1>1. l \in LiveRecord
  BY DEF Sane
<1>2. m \in LiveRecord
  BY <1>1 DEF LiveRecord
<1>3. SameControls(l, m) /\ m.main = pc /\ m.next = next /\ SameEnd(l, m)
  BY <1>1 DEF LiveRecord, SameControls, SameEnd
<1> QED BY <1>2, <1>3, PlainMove, StillTold DEF Sane

\* A request is presented to the host.
LEMMA SetOpened ==
  ASSUME NEW l, Sane(l), NEW m,
         NEW pc \in Mains,
         NEW next \in MaybeRequest,
         NEW request \in MaybeRequest,
         NEW table \in EligibilityTable,
         NEW shown \in SUBSET Requests,
         NEW calls \in CallSets,
         l.main # "none", pc # "none",
         pc \in {"routing", "presenting"} => next \in Requests,
         m = [l EXCEPT !.main = pc, !.next = next, !.request = request, !.eligibility = table,
                       !.shown = shown, !.calls = calls]
  PROVE  Moves(l, m)
<1>1. l \in LiveRecord
  BY DEF Sane
<1>2. m \in LiveRecord
  BY <1>1 DEF LiveRecord
<1>3. SameControls(l, m) /\ m.main = pc /\ m.next = next /\ SameEnd(l, m)
  BY <1>1 DEF LiveRecord, SameControls, SameEnd
<1> QED BY <1>2, <1>3, PlainMove, StillTold DEF Sane

\* One control moves, and holds the tail only from its head.
LEMMA ControlMove ==
  ASSUME NEW l, Sane(l), NEW m \in LiveRecord, NEW c \in Serialized,
         \A d \in Serialized : d # c => m.control[d] = l.control[d],
         m.tail = l.tail, m.started = l.started, m.main = l.main, m.next = l.next, SameEnd(l, m),
         Holds(m, c) => l.tail # <<>> /\ Head(l.tail) = c
  PROVE  Moves(l, m)
BY StillTold DEF Moves, Sane, Calm, HeadHolds, Holds

\* A control leaves the tail, for the given place.
LeaveFor(l, c, pc) == [l EXCEPT !.control[c].pc = pc, !.tail = Tail(@)]

\* Whoever is at the head of the tail may leave it.
LEMMA TailMoves ==
  ASSUME NEW l, Sane(l), NEW c \in Serialized, l.tail # <<>>, Head(l.tail) = c, NEW pc \in Places,
         pc = "done" \/ (c \in Answers /\ pc # "intent"),
         NEW m, m = LeaveFor(l, c, pc)
  PROVE  Moves(l, m) /\ m.control[c].request = l.control[c].request
<1> DEFINE entry == [l.control[c] EXCEPT !.pc = pc]
           rest == Tail(l.tail)
<1>1. l \in LiveRecord /\ l.tail \in Seq(Serialized) /\ l.control \in [Serialized -> Control]
  BY DEF Sane, LiveRecord, ControlTable, ControlTails
<1>2. entry \in Control /\ entry.pc = pc /\ entry.request = l.control[c].request
  <2> DEFINE old == l.control[c]
  <2>1. old \in Control
    BY <1>1
  <2> HIDE DEF old
  <2>2. [old EXCEPT !.pc = pc] \in Control /\ [old EXCEPT !.pc = pc].pc = pc
        /\ [old EXCEPT !.pc = pc].request = old.request
    BY <2>1 DEF Control
  <2> QED BY <2>2 DEF old
<1>3. rest \in Seq(Serialized)
  BY <1>1
<1>4. m = [l EXCEPT !.control[c] = entry, !.tail = rest]
  BY DEF LeaveFor
<1> HIDE DEF entry, rest
<1>5. Replaced(l, m, c, entry, rest)
  BY <1>2, <1>3, <1>4, TailSet DEF ControlTails
<1>6. ASSUME NEW d \in Serialized PROVE ~Holds(m, d)
  <2>1. CASE d = c
    BY <1>2, <1>5, <2>1 DEF Holds, Replaced
  <2>2. CASE d # c
    BY <1>5, <2>2 DEF Sane, HeadHolds, Holds, Replaced
  <2> QED BY <2>1, <2>2
<1>7. Moves(l, m)
  BY <1>5, <1>6, StillTold DEF Moves, Calm, Sane, HeadHolds, Replaced
<1> QED BY <1>2, <1>5, <1>7 DEF Replaced

\* A control that ends frees the tail for the next one.
LEMMA LeaveMoves ==
  ASSUME NEW l, Sane(l), NEW c \in Serialized, l.tail # <<>>, Head(l.tail) = c
  PROVE  Moves(l, Leave(l, c)) /\ Leave(l, c).control[c].request = l.control[c].request
<1> DEFINE m == Leave(l, c)
           pc == "done"
<1>1. pc \in Places /\ pc = "done"
  BY DEF Places
<1>2. m = LeaveFor(l, c, pc)
  BY DEF Leave, LeaveFor
<1> HIDE DEF m, pc
<1>3. Moves(l, m) /\ m.control[c].request = l.control[c].request
  BY <1>1, <1>2, TailMoves
<1> QED BY <1>3 DEF m

\* A control joins the tail.
LEMMA QueueMoves ==
  ASSUME NEW l, Sane(l), NEW c \in Serialized
  PROVE  Moves(l, Queue(l, c))
<1> DEFINE entry == [l.control[c] EXCEPT !.pc = "queued"]
           longer == Append(l.tail, c)
           m == Queue(l, c)
<1>1. l \in LiveRecord /\ l.tail \in Seq(Serialized) /\ l.control \in [Serialized -> Control]
  BY DEF Sane, LiveRecord, ControlTable, ControlTails
<1>2. entry \in Control /\ entry.pc = "queued"
  <2> DEFINE old == l.control[c]
  <2>1. old \in Control /\ "queued" \in Places
    BY <1>1 DEF Places
  <2> HIDE DEF old
  <2>2. [old EXCEPT !.pc = "queued"] \in Control /\ [old EXCEPT !.pc = "queued"].pc = "queued"
    BY <2>1 DEF Control
  <2> QED BY <2>2 DEF old
<1>3. /\ longer \in Seq(Serialized) /\ longer # <<>>
      /\ l.tail # <<>> => Head(longer) = Head(l.tail)
  BY <1>1
<1>4. m = [l EXCEPT !.control[c] = entry, !.tail = longer]
  BY DEF Queue
<1> HIDE DEF m, entry, longer
<1>5. Replaced(l, m, c, entry, longer)
  BY <1>2, <1>3, <1>4, TailSet DEF ControlTails
<1>6. ASSUME NEW d \in Serialized, Holds(m, d) PROVE m.tail # <<>> /\ Head(m.tail) = d
  <2>1. CASE d = c
    BY <1>2, <1>5, <1>6, <2>1 DEF Holds, Replaced
  <2>2. CASE d # c
    BY <1>3, <1>5, <1>6, <2>2 DEF Sane, HeadHolds, Holds, Replaced
  <2> QED BY <2>1, <2>2
<1>7. Moves(l, m)
  BY <1>5, <1>6, StillTold DEF Moves, Calm, Sane, HeadHolds, Replaced
<1> QED BY <1>7 DEF m

\* A control that holds the tail, or an answer that has given it up, goes on.
LEMMA ControlGoes ==
  ASSUME NEW l, Sane(l), NEW m, NEW c \in Serialized, NEW entry \in Control,
         Replaced(l, m, c, entry, l.tail),
         \/ l.tail # <<>> /\ Head(l.tail) = c
         \/ c \in Answers /\ entry.pc # "intent"
  PROVE  Moves(l, m)
BY ControlMove DEF Replaced, Holds

\* What a control's step makes of its entry and of the live record.
EntryFor(old, pc, result, phase) == [old EXCEPT !.pc = pc, !.result = result, !.phase = phase]
GoFor(l, c, entry, calls, reason) ==
  [l EXCEPT !.control[c] = entry, !.calls = calls, !.uncertain = reason]

\* A control goes to another place of its code, with the calls it starts or ends,
\* what they told, and a doubt.
LEMMA GoMoves ==
  ASSUME NEW l, Sane(l), NEW c \in Serialized, NEW pc \in Places, NEW result \in Results,
         NEW phase \in Phases, NEW calls \in CallSets, NEW reason \in Doubts,
         NEW entry, entry = EntryFor(l.control[c], pc, result, phase),
         NEW m, m = GoFor(l, c, entry, calls, reason),
         \/ l.tail # <<>> /\ Head(l.tail) = c
         \/ c \in Answers /\ pc # "intent"
  PROVE  Moves(l, m)
<1>1. l.control[c] \in Control
  BY LiveFields DEF ControlTable
<1>2. entry \in Control /\ entry.pc = pc
  BY <1>1 DEF Control, EntryFor
<1>3. Replaced(l, m, c, entry, l.tail)
  BY <1>2, CallSet DEF GoFor
<1> QED BY <1>2, <1>3, ControlGoes

\* The same, in the shapes the code has: the place alone,
LEMMA GoesMoves ==
  ASSUME NEW l, Sane(l), NEW c \in Serialized,
         NEW pc \in Places,
         NEW m, m = [l EXCEPT !.control[c].pc = pc],
         \/ l.tail # <<>> /\ Head(l.tail) = c
         \/ c \in Answers /\ pc # "intent"
  PROVE  Moves(l, m)
<1> DEFINE old == l.control[c]
           result == old.result
           phase == old.phase
           calls == l.calls
           reason == l.uncertain
           entry == EntryFor(old, pc, result, phase)
<1>1. old \in Control /\ l \in LiveRecord /\ calls \in CallSets /\ reason \in Doubts
  BY LiveFields DEF ControlTable
<1>2. result \in Results /\ phase \in Phases /\ entry = [old EXCEPT !.pc = pc]
  BY <1>1 DEF Control, EntryFor
<1>3. m = GoFor(l, c, entry, calls, reason)
  <2>1. m = [l EXCEPT !.control[c] = entry]
    BY <1>2
  <2> HIDE DEF entry
  <2> QED BY <1>1, <2>1 DEF LiveRecord, GoFor
<1>4. entry = EntryFor(l.control[c], pc, result, phase)
  OBVIOUS
<1> HIDE DEF entry, result, phase, calls, reason
<1> QED BY <1>1, <1>2, <1>3, <1>4, GoMoves

\* with what its call told,
LEMMA TellsMoves ==
  ASSUME NEW l, Sane(l), NEW c \in Serialized,
         NEW pc \in Places, NEW result \in Results,
         NEW m, m = [l EXCEPT !.control[c] = [@ EXCEPT !.pc = pc, !.result = result]],
         \/ l.tail # <<>> /\ Head(l.tail) = c
         \/ c \in Answers /\ pc # "intent"
  PROVE  Moves(l, m)
<1> DEFINE old == l.control[c]
           phase == old.phase
           calls == l.calls
           reason == l.uncertain
           entry == EntryFor(old, pc, result, phase)
<1>1. old \in Control /\ l \in LiveRecord /\ calls \in CallSets /\ reason \in Doubts
  BY LiveFields DEF ControlTable
<1>2. phase \in Phases /\ entry = [old EXCEPT !.pc = pc, !.result = result]
  BY <1>1 DEF Control, EntryFor
<1>3. m = GoFor(l, c, entry, calls, reason)
  <2>1. m = [l EXCEPT !.control[c] = entry]
    BY <1>2
  <2> HIDE DEF entry
  <2> QED BY <1>1, <2>1 DEF LiveRecord, GoFor
<1>4. entry = EntryFor(l.control[c], pc, result, phase)
  OBVIOUS
<1> HIDE DEF entry, phase, calls, reason
<1> QED BY <1>1, <1>2, <1>3, <1>4, GoMoves

\* with the phase it read,
LEMMA ReadsMoves ==
  ASSUME NEW l, Sane(l), NEW c \in Serialized,
         NEW pc \in Places, NEW phase \in Phases,
         NEW m, m = [l EXCEPT !.control[c] = [@ EXCEPT !.phase = phase, !.pc = pc]],
         \/ l.tail # <<>> /\ Head(l.tail) = c
         \/ c \in Answers /\ pc # "intent"
  PROVE  Moves(l, m)
<1> DEFINE old == l.control[c]
           result == old.result
           calls == l.calls
           reason == l.uncertain
           entry == EntryFor(old, pc, result, phase)
<1>1. old \in Control /\ l \in LiveRecord /\ calls \in CallSets /\ reason \in Doubts
  BY LiveFields DEF ControlTable
<1>2. result \in Results /\ entry = [old EXCEPT !.pc = pc, !.phase = phase]
  BY <1>1 DEF Control, EntryFor
<1>3. m = GoFor(l, c, entry, calls, reason)
  <2>1. m = [l EXCEPT !.control[c] = entry]
    BY <1>2
  <2> HIDE DEF entry
  <2> QED BY <1>1, <2>1 DEF LiveRecord, GoFor
<1>4. entry = EntryFor(l.control[c], pc, result, phase)
  OBVIOUS
<1> HIDE DEF entry, result, calls, reason
<1> QED BY <1>1, <1>2, <1>3, <1>4, GoMoves

\* with a doubt,
LEMMA DoubtsMoves ==
  ASSUME NEW l, Sane(l), NEW c \in Serialized,
         NEW pc \in Places, NEW reason \in Doubts,
         NEW m, m = [l EXCEPT !.control[c].pc = pc, !.uncertain = reason],
         \/ l.tail # <<>> /\ Head(l.tail) = c
         \/ c \in Answers /\ pc # "intent"
  PROVE  Moves(l, m)
<1> DEFINE old == l.control[c]
           result == old.result
           phase == old.phase
           calls == l.calls
           entry == EntryFor(old, pc, result, phase)
<1>1. old \in Control /\ l \in LiveRecord /\ calls \in CallSets
  BY LiveFields DEF ControlTable
<1>2. result \in Results /\ phase \in Phases /\ entry = [old EXCEPT !.pc = pc]
  BY <1>1 DEF Control, EntryFor
<1>3. m = GoFor(l, c, entry, calls, reason)
  <2>1. m = [l EXCEPT !.control[c] = entry, !.uncertain = reason]
    BY <1>2
  <2> HIDE DEF entry
  <2> QED BY <1>1, <2>1 DEF LiveRecord, GoFor
<1>4. entry = EntryFor(l.control[c], pc, result, phase)
  OBVIOUS
<1> HIDE DEF entry, result, phase, calls
<1> QED BY <1>1, <1>2, <1>3, <1>4, GoMoves

\* or with a call that starts
LEMMA EntersMoves ==
  ASSUME NEW l, Sane(l), NEW c \in Serialized,
         NEW pc \in Places, NEW calls \in CallSets,
         NEW m, m = [l EXCEPT !.calls = calls, !.control[c].pc = pc],
         \/ l.tail # <<>> /\ Head(l.tail) = c
         \/ c \in Answers /\ pc # "intent"
  PROVE  Moves(l, m)
<1> DEFINE old == l.control[c]
           result == old.result
           phase == old.phase
           reason == l.uncertain
           entry == EntryFor(old, pc, result, phase)
<1>1. old \in Control /\ l \in LiveRecord /\ reason \in Doubts
  BY LiveFields DEF ControlTable
<1>2. result \in Results /\ phase \in Phases /\ entry = [old EXCEPT !.pc = pc]
  BY <1>1 DEF Control, EntryFor
<1>3. m = GoFor(l, c, entry, calls, reason)
  <2>1. m = [l EXCEPT !.control[c] = entry, !.calls = calls]
    BY <1>2
  <2> HIDE DEF entry
  <2> QED BY <1>1, <2>1 DEF LiveRecord, GoFor
<1>4. entry = EntryFor(l.control[c], pc, result, phase)
  OBVIOUS
<1> HIDE DEF entry, result, phase, reason
<1> QED BY <1>1, <1>2, <1>3, <1>4, GoMoves

\* or returns.
LEMMA ReturnsMoves ==
  ASSUME NEW l, Sane(l), NEW c \in Serialized,
         NEW pc \in Places, NEW result \in Results, NEW calls \in CallSets,
         NEW m, m = [l EXCEPT !.calls = calls, !.control[c] = [@ EXCEPT !.pc = pc, !.result = result]],
         \/ l.tail # <<>> /\ Head(l.tail) = c
         \/ c \in Answers /\ pc # "intent"
  PROVE  Moves(l, m)
<1> DEFINE old == l.control[c]
           phase == old.phase
           reason == l.uncertain
           entry == EntryFor(old, pc, result, phase)
<1>1. old \in Control /\ l \in LiveRecord /\ reason \in Doubts
  BY LiveFields DEF ControlTable
<1>2. phase \in Phases /\ entry = [old EXCEPT !.pc = pc, !.result = result]
  BY <1>1 DEF Control, EntryFor
<1>3. m = GoFor(l, c, entry, calls, reason)
  <2>1. m = [l EXCEPT !.control[c] = entry, !.calls = calls]
    BY <1>2
  <2> HIDE DEF entry
  <2> QED BY <1>1, <2>1 DEF LiveRecord, GoFor
<1>4. entry = EntryFor(l.control[c], pc, result, phase)
  OBVIOUS
<1> HIDE DEF entry, phase, reason
<1> QED BY <1>1, <1>2, <1>3, <1>4, GoMoves

\* The entry of a control and the resolutions of the requests change together.
LEMMA ResolutionSet ==
  ASSUME NEW l, Sane(l), NEW c \in Serialized, NEW entry \in Control,
         NEW resolutions \in ResolutionTable,
         NEW controls, controls = [l.control EXCEPT ![c] = entry],
         NEW m, m = [l EXCEPT !.control = controls, !.resolution = resolutions]
  PROVE  Replaced(l, m, c, entry, l.tail)
<1>1. l \in LiveRecord /\ l.control \in [Serialized -> Control]
  BY DEF Sane, LiveRecord, ControlTable
<1>2. /\ controls \in ControlTable /\ controls[c] = entry
      /\ \A d \in Serialized : d # c => controls[d] = l.control[d]
  BY <1>1 DEF ControlTable
<1>3. m \in LiveRecord
  BY <1>1, <1>2 DEF LiveRecord
<1>4. /\ m.control = controls /\ m.tail = l.tail
      /\ m.started = l.started /\ m.main = l.main /\ m.next = l.next /\ SameEnd(l, m)
  BY <1>1 DEF LiveRecord, SameEnd
<1> QED BY <1>2, <1>3, <1>4 DEF Replaced

\* The end of resolveLiveRequest's work frees the request of its resolution.
LEMMA AnsweredMoves ==
  ASSUME NEW l, Sane(l), NEW c \in Answers
  PROVE  Moves(l, Answered(l, c))
<1> DEFINE old == l.control[c]
           q == old.request
           entry == [old EXCEPT !.pc = "done"]
           controls == [l.control EXCEPT ![c] = entry]
           freed == IF l.resolution[q] = c THEN NoControl ELSE l.resolution[q]
           resolutions == [l.resolution EXCEPT ![q] = freed]
           m == Answered(l, c)
<1>1. /\ c \in Serialized /\ old \in Control /\ "done" \in Places
      /\ l.resolution \in [Requests -> Answers \cup {NoControl}]
  BY LiveFields DEF Serialized, ControlTable, ResolutionTable, Places
<1>2. m = [l EXCEPT !.control = controls, !.resolution = resolutions]
  <2>1. l \in LiveRecord
    BY LiveFields
  <2> QED BY <2>1 DEF Answered, LiveRecord
<1> HIDE DEF old, m
<1>3. entry \in Control /\ entry.pc = "done"
  BY <1>1 DEF Control
<1> HIDE DEF entry, q
<1>4. q \in Requests => freed \in Answers \cup {NoControl}
  BY <1>1
<1> HIDE DEF freed
<1>5. resolutions \in ResolutionTable
  BY <1>1, <1>4 DEF ResolutionTable
<1>6. controls = [l.control EXCEPT ![c] = entry]
  OBVIOUS
<1> HIDE DEF resolutions, controls
<1>7. Replaced(l, m, c, entry, l.tail)
  BY <1>1, <1>2, <1>3, <1>5, <1>6, ResolutionSet
<1>8. Moves(l, m)
  BY <1>1, <1>3, <1>7, ControlGoes
<1> QED BY <1>8 DEF m

\* A caller's answer names its request and takes its resolution, if it is free.
AnswerFor(l, c, q) ==
  [l EXCEPT !.control[c].request = q, !.resolution[q] = IF @ = NoControl THEN c ELSE @]

\* An answer asked for leaves the queue of the controls as it is.
LEMMA AskMoves ==
  ASSUME NEW l, Sane(l), NEW c \in Answers, NEW q \in Requests
  PROVE  Moves(l, AnswerFor(l, c, q))
<1> DEFINE old == l.control[c]
           entry == [old EXCEPT !.request = q]
           controls == [l.control EXCEPT ![c] = entry]
           taken == IF l.resolution[q] = NoControl THEN c ELSE l.resolution[q]
           resolutions == [l.resolution EXCEPT ![q] = taken]
           m == AnswerFor(l, c, q)
<1>1. /\ c \in Serialized /\ old \in Control /\ q \in MaybeRequest
      /\ l.resolution \in [Requests -> Answers \cup {NoControl}]
  BY LiveFields DEF Serialized, ControlTable, ResolutionTable, MaybeRequest
<1>2. m = [l EXCEPT !.control = controls, !.resolution = resolutions]
  <2>1. l \in LiveRecord
    BY LiveFields
  <2> QED BY <2>1 DEF AnswerFor, LiveRecord
<1>9. old = l.control[c]
  OBVIOUS
<1> HIDE DEF old, m
<1>3. entry \in Control /\ entry.pc = old.pc
  BY <1>1 DEF Control
<1> HIDE DEF entry
<1>4. taken \in Answers \cup {NoControl}
  BY <1>1
<1> HIDE DEF taken
<1>5. resolutions \in ResolutionTable
  BY <1>1, <1>4 DEF ResolutionTable
<1>6. controls = [l.control EXCEPT ![c] = entry]
  OBVIOUS
<1> HIDE DEF resolutions, controls
<1>7. Replaced(l, m, c, entry, l.tail)
  BY <1>1, <1>2, <1>3, <1>5, <1>6, ResolutionSet
<1>10. Holds(m, c) => Holds(l, c)
  BY <1>3, <1>7, <1>9 DEF Holds, Replaced
<1>8. Moves(l, m)
  BY <1>1, <1>7, <1>10, ControlMove DEF Replaced, Sane, HeadHolds
<1> QED BY <1>8 DEF m

\* A request changes its eligibility.
LEMMA EligibilityMoves ==
  ASSUME NEW l, Sane(l), NEW q, NEW e \in Eligibilities,
         NEW m, m = [l EXCEPT !.eligibility[q] = e]
  PROVE  Moves(l, m)
<1> DEFINE table == [l.eligibility EXCEPT ![q] = e]
<1>1. l \in LiveRecord /\ l.eligibility \in [Requests -> Eligibilities]
  BY LiveFields DEF EligibilityTable
<1>2. table \in EligibilityTable
  BY <1>1 DEF EligibilityTable
<1>3. m = [l EXCEPT !.eligibility = table]
  OBVIOUS
<1> HIDE DEF table
<1>4. m \in LiveRecord
  BY <1>1, <1>2, <1>3 DEF LiveRecord
<1>5. SameControls(l, m) /\ m.main = l.main /\ m.next = l.next /\ SameEnd(l, m)
  BY <1>1, <1>3 DEF LiveRecord, SameEnd, SameControls
<1> QED BY <1>4, <1>5, PlainMove, StillTold DEF Sane

\* The catch block of consumeTurn.
LEMMA ErrorMoves ==
  ASSUME NEW l, Sane(l), l.main # "none"
  PROVE  \A aborting \in BOOLEAN : Moves(l, ReaderError(l, aborting))
<1> DEFINE reason == IF l.uncertain # "none" THEN l.uncertain
                     ELSE IF l.control["cancel"].pc # "none" THEN "cancellation" ELSE "dispatch"
           over == [l EXCEPT !.main = "done", !.stream = FALSE, !.ended = TRUE]
           rejected == [l EXCEPT !.main = "turn_rejected"]
           doubted == Uncertain(over, reason)
           lost == "recovery_required"
<1>0. lost \in Outcomes
  BY DEF Outcomes
<1>1. ASSUME NEW aborting \in BOOLEAN
      PROVE  ReaderError(l, aborting) \in {over, FinishRun(doubted, lost), rejected}
  BY DEF ReaderError
<1>2. reason \in Doubts
  BY LiveFields DEF Doubts
<1>3. Moves(l, over)
  <2>1. "done" \in Mains /\ FALSE \in BOOLEAN /\ TRUE \in BOOLEAN /\ "done" # "none" /\ "done" \notin {"routing", "presenting"}
    BY DEF Mains
  <2>2. over = [l EXCEPT !.main = "done", !.stream = FALSE, !.ended = TRUE]
    OBVIOUS
  <2> HIDE DEF over
  <2> QED BY <2>1, <2>2, SetOver
<1>4. Moves(l, rejected)
  <2>1. "turn_rejected" \in Mains
    BY DEF Mains
  <2>2. rejected = [l EXCEPT !.main = "turn_rejected"]
    OBVIOUS
  <2> HIDE DEF rejected
  <2> QED BY <2>1, <2>2, SetMain
<1> HIDE DEF over, rejected, reason, lost
<1>5. Moves(l, doubted)
  BY <1>2, <1>3, UncertainMoves, MovesOn DEF Moves
<1> HIDE DEF doubted
<1>6. Moves(l, FinishRun(doubted, lost))
  BY <1>0, <1>5, FinishMoves, MovesOn DEF Moves
<1> QED BY <1>1, <1>3, <1>4, <1>6

--------------------------------------------------------------------------------
(* Every step of the live run leads from a sane record to a sane one *)

\* Where a gate lets the code go on.
LEMMA GateLeads ==
  ASSUME NEW pc \in Mains \ {"none", "routing", "presenting"}, NEW after \in Gate(pc)
  PROVE  after \in Mains \ {"none", "routing", "presenting"}
BY DEF Gate, Mains

\* prepareRun.
LEMMA PrepareMoves ==
  ASSUME Sane(live), Prepare
  PROVE  Moves(live, live')
<1> USE DEF Mains
<1>1. CASE Register
  <2>1. live.main # "none" /\ live' = [live EXCEPT !.main = "start", !.registered = TRUE]
    BY <1>1 DEF Register
  <2> QED BY <2>1, SetRegistered
<1>2. CASE Start
  <2>1. PICK pc \in {"rejected"} \cup Gate("execution") : live' = [live EXCEPT !.main = pc]
    BY <1>2 DEF Start
  <2>2. pc \in Mains \ {"none", "routing", "presenting"} /\ live.main # "none"
    BY <1>2, GateLeads DEF Start
  <2> QED BY <2>1, <2>2, SetMain
<1>3. CASE Acquire("execution", "resources")
  <2>0. live.main # "none"
    BY <1>3 DEF Acquire
  <2>1. CASE live' = [live EXCEPT !.main = "rejected"]
    BY SMTT(30), <2>0, <2>1, SetMain
  <2>2. CASE \E after \in Gate("resources") :
               live' = [live EXCEPT !.execution = "held", !.main = after]
    <3>1. PICK after \in Gate("resources") :
            live' = [live EXCEPT !.execution = "held", !.main = after]
      BY <2>2
    <3>2. after \in Mains \ {"none", "routing", "presenting"} /\ "held" \in Grants
      BY GateLeads DEF Grants
    <3> QED BY <2>0, <3>1, <3>2, SetExecution
  <2> QED BY <1>3, <2>1, <2>2 DEF Acquire
<1>4. CASE Acquire("resources", "opening")
  <2>0. live.main # "none"
    BY <1>4 DEF Acquire
  <2>1. CASE live' = [live EXCEPT !.main = "rejected"]
    BY <2>0, <2>1, SetMain
  <2>2. CASE \E after \in Gate("opening") :
               live' = [live EXCEPT !.resources = "held", !.main = after]
    <3>1. PICK after \in Gate("opening") :
            live' = [live EXCEPT !.resources = "held", !.main = after]
      BY <2>2
    <3>2. after \in Mains \ {"none", "routing", "presenting"} /\ "held" \in Grants
      BY GateLeads DEF Grants
    <3> QED BY <2>0, <3>1, <3>2, SetResources
  <2> QED BY <1>4, <2>1, <2>2 DEF Acquire
<1>5. CASE Open
  <2> DEFINE further == IF Configures = {} THEN "verifying" ELSE "configure"
  <2>0. live.main # "none" /\ further \in Mains \ {"none", "routing", "presenting"}
    BY <1>5 DEF Open
  <2>1. CASE live' = [live EXCEPT !.main = "rejected"]
    BY SMTT(30), <2>0, <2>1, SetMain
  <2>2. CASE live' = [live EXCEPT !.session = "rejected", !.main = "rejected"]
    <3>1. "rejected" \in Sessions
      BY SMTT(30) DEF Sessions
    <3> QED BY <2>0, <2>2, <3>1, SetSession
  <2>3. CASE \E after \in Gate(further) : live' = [live EXCEPT !.session = "open", !.main = after]
    <3>1. PICK after \in Gate(further) : live' = [live EXCEPT !.session = "open", !.main = after]
      BY <2>3
    <3>2. after \in Mains \ {"none", "routing", "presenting"} /\ "open" \in Sessions
      BY <2>0, GateLeads DEF Sessions
    <3> QED BY <2>0, <3>1, <3>2, SetSession
  <2> QED BY <1>5, <2>1, <2>2, <2>3 DEF Open
<1>6. CASE ConfigureIntent
  <2>1. /\ live.main # "none"
        /\ \/ live' = [live EXCEPT !.main = "configuring"]
           \/ live' = [live EXCEPT !.main = "rejected"]
    BY <1>6 DEF ConfigureIntent
  <2> QED BY <2>1, SetMain
<1>7. CASE ConfigureCall
  <2>0. live.main # "none"
    BY SMTT(30), <1>7 DEF ConfigureCall
  <2>1. CASE live' = [live EXCEPT !.main = "rejected"]
    BY <2>0, <2>1, SetMain
  <2>2. CASE live' = [live EXCEPT !.main = "rejected", !.uncertain = "dispatch"]
    <3>1. "dispatch" \in Doubts
      BY DEF Doubts
    <3> QED BY <2>0, <2>2, <3>1, SetDoubt
  <2>3. CASE \E result \in {"completed", "rejected", "uncertain"} :
               live' = [live EXCEPT !.main = "configured", !.configured = result]
    <3>1. PICK result \in {"completed", "rejected", "uncertain"} :
               live' = [live EXCEPT !.main = "configured", !.configured = result]
      BY <2>3
    <3>2. result \in Configured
      BY DEF Configured
    <3> QED BY <2>0, <3>1, <3>2, SetConfigured
  <2> QED BY <1>7, <2>1, <2>2, <2>3 DEF ConfigureCall
<1>8. CASE ConfigureReceipt
  <2> DEFINE reason == IF live.configured = "uncertain" THEN "dispatch" ELSE live.uncertain
  <2>0. live.main # "none" /\ reason \in Doubts
    BY <1>8, LiveFields DEF ConfigureReceipt, Doubts
  <2>1. PICK pc \in {"rejected"} \cup Gate("verifying") :
          live' = [live EXCEPT !.main = pc, !.uncertain = reason]
    BY <1>8 DEF ConfigureReceipt
  <2>2. pc \in Mains \ {"none", "routing", "presenting"}
    BY GateLeads
  <2> HIDE DEF reason
  <2> QED BY <2>0, <2>1, <2>2, SetDoubt
<1>9. CASE Verify
  <2>1. PICK pc \in Gate("prepared") : live' = [live EXCEPT !.main = pc]
    BY <1>9 DEF Verify
  <2>2. pc \in Mains \ {"none", "routing", "presenting"} /\ live.main # "none"
    BY <1>9, GateLeads DEF Verify
  <2> QED BY <2>1, <2>2, SetMain
<1>10. CASE PrepareReceipt
  <2>1. live.main # "none" /\ live' = [live EXCEPT !.main = "turn_intent"]
    BY <1>10 DEF PrepareReceipt
  <2> QED BY <2>1, SetMain
<1>11. CASE TurnIntent
  <2>1. /\ live.main # "none"
        /\ \/ live' = [live EXCEPT !.main = "turn_start"]
           \/ live' = [live EXCEPT !.main = "fail"]
    BY SMTT(30), <1>11 DEF TurnIntent
  <2> QED BY <2>1, SetMain
<1>12. CASE StartTurn
  <2>1. /\ live.main # "none"
        /\ \/ live' = [live EXCEPT !.main = "reading", !.stream = TRUE]
           \/ live' = [live EXCEPT !.main = "fail"]
    BY <1>12 DEF StartTurn
  <2> QED BY <2>1, SetMain, SetStream
<1>13. CASE RejectPreparation
  <2>1. live.main # "none" /\ live' = [live EXCEPT !.main = "fail"]
    BY <1>13 DEF RejectPreparation
  <2> QED BY <2>1, SetMain
<1>14. CASE Fail
  <2> DEFINE m == [live EXCEPT !.main = "done"]
             outcome == IF live.session = "rejected" \/ live.uncertain # "none"
                        THEN "recovery_required" ELSE "failed"
  <2>1. live.main # "none" /\ live' = FinishRun(m, outcome) /\ outcome \in Outcomes
    BY <1>14 DEF Fail, Outcomes
  <2>2. m = [live EXCEPT !.main = "done"]
    OBVIOUS
  <2> HIDE DEF m, outcome
  <2>3. Moves(live, m)
    BY <2>1, <2>2, SetMain
  <2> QED BY <2>1, <2>3, FinishMoves, MovesOn DEF Moves
<1> QED
  BY SMTT(30), <1>1, <1>2, <1>3, <1>4, <1>5, <1>6, <1>7, <1>8, <1>9, <1>10, <1>11, <1>12, <1>13, <1>14
  DEF Prepare

\* The reader leaves its loop.
LEMMA OverMoves ==
  ASSUME NEW l, Sane(l), l.main # "none", NEW outcome \in Outcomes,
         NEW over, over = [l EXCEPT !.main = "done", !.stream = FALSE, !.ended = TRUE]
  PROVE  Moves(l, FinishRun(over, outcome))
<1>1. "done" \in Mains
  BY DEF Mains
<1>2. Moves(l, over)
  BY <1>1, SetOver
<1> QED BY <1>2, FinishMoves, MovesOn DEF Moves

\* What a terminal event says is an outcome.
LEMMA OutcomeOfType ==
  ASSUME NEW terminal \in Terminals PROVE OutcomeOf(terminal) \in Outcomes
BY DEF Terminals, OutcomeOf, Outcomes

\* The reader's own steps.
LEMMA ReaderMoves ==
  ASSUME Sane(live), Reader
  PROVE  Moves(live, live')
<1>0. ASSUME live.main # "none" PROVE Moves(live, Reads(live))
  <2>1. "reading" \in Mains \ {"none", "routing", "presenting"} /\ NoRequest \in MaybeRequest
    BY DEF Mains, MaybeRequest
  <2>2. Reads(live) = [live EXCEPT !.main = "reading", !.next = NoRequest]
    BY DEF Reads
  <2> QED BY <1>0, <2>1, <2>2, SetNext
<1>1. CASE RecordStart
  <2>1. live' = [live EXCEPT !.recorded = TRUE]
    BY <1>1 DEF RecordStart
  <2> QED BY <2>1, SetRecorded
<1>2. CASE RouteRequest
  <2>1. live.main # "none" /\ (live' = Reads(live) \/ live' = [live EXCEPT !.main = "presenting"])
    BY <1>2 DEF RouteRequest
  <2>2. "presenting" \in Mains /\ live.next \in Requests
    BY <1>2 DEF RouteRequest, Sane, Mains
  <2> QED BY <1>0, <2>1, <2>2, SetMain
<1>3. CASE PresentRequest
  <2> DEFINE q == live.next
             shows == IF live.aborted THEN {} ELSE {q}
             table == [live.eligibility EXCEPT ![q] = "waiting"]
             shown == live.shown \cup shows
             calls == live.calls \cup shows
  <2>0. live.main # "none" /\ q \in Requests /\ "reading" \in Mains /\ NoRequest \in MaybeRequest
    BY <1>3 DEF PresentRequest, Sane, Mains, MaybeRequest
  <2>1. CASE live' = [Reads(live) EXCEPT !.request = q, !.eligibility[q] = "waiting",
                                         !.shown = @ \cup shows, !.calls = @ \cup shows]
    <3>1. live \in LiveRecord /\ q \in MaybeRequest /\ shows \subseteq Requests
      BY <2>0, LiveFields DEF MaybeRequest
    <3>2. /\ table \in EligibilityTable
      BY <2>0, LiveFields DEF EligibilityTable, Eligibilities
    <3> HIDE DEF q, shows
    <3>3. shown \in SUBSET Requests /\ calls \in CallSets
      BY <3>1, LiveFields DEF CallSets
    <3>4. live' = [live EXCEPT !.main = "reading", !.next = NoRequest, !.request = q,
                               !.eligibility = table, !.shown = shown, !.calls = calls]
      BY <2>1, <3>1 DEF LiveRecord, Reads
    <3> HIDE DEF table, shown, calls
    <3> QED BY <2>0, <3>1, <3>2, <3>3, <3>4, SetOpened
  <2>2. CASE live' = ReaderError(Reads(live), FALSE)
    <3>1. Moves(live, Reads(live)) /\ Sane(Reads(live)) /\ Reads(live).main # "none"
      BY <1>0, <2>0 DEF Moves, Calm
    <3>2. Moves(Reads(live), ReaderError(Reads(live), FALSE))
      BY <3>1, ErrorMoves
    <3> QED BY <2>2, <3>1, <3>2, MovesOn
  <2> QED BY <1>3, <2>1, <2>2 DEF PresentRequest
<1>4. CASE RecordUnavailable
  BY <1>0, <1>4 DEF RecordUnavailable
<1>5. CASE RejectTurn
  <2> DEFINE over == [live EXCEPT !.main = "done", !.stream = FALSE, !.ended = TRUE]
  <2>1. live.main # "none" /\ live' = FinishRun(over, "failed")
    BY <1>5 DEF RejectTurn
  <2>2. over = [live EXCEPT !.main = "done", !.stream = FALSE, !.ended = TRUE]
    OBVIOUS
  <2>3. "failed" \in Outcomes
    BY DEF Outcomes
  <2> HIDE DEF over
  <2> QED BY <2>1, <2>2, <2>3, OverMoves
<1> QED BY <1>1, <1>2, <1>3, <1>4, <1>5 DEF Reader

\* What the provider makes the reader do.
LEMMA OutputMoves ==
  ASSUME Sane(live), Output
  PROVE  Moves(live, live')
<1>1. ASSUME NEW q \in Requests, ReadRequest(q) PROVE Moves(live, live')
  <2>1. live.main # "none" /\ live' = [live EXCEPT !.main = "routing", !.next = q]
    BY <1>1 DEF ReadRequest, Emits
  <2>2. "routing" \in Mains /\ q \in MaybeRequest
    BY DEF Mains, MaybeRequest
  <2> QED BY <2>1, <2>2, SetNext
<1>2. ASSUME NEW q \in Requests, ReadUnavailable(q) PROVE Moves(live, live')
  <2> DEFINE retired == live.request = q \/ \E c \in RequestAttempts : live.control[c].request = q
             e == IF retired THEN "retired" ELSE live.eligibility[q]
             table == [live.eligibility EXCEPT ![q] = e]
             shown == live.shown \ {q}
  <2>1. /\ live.main # "none"
        /\ live' = [live EXCEPT !.main = "retiring", !.next = q, !.shown = shown, !.eligibility = table]
    BY <1>2 DEF ReadUnavailable, Emits
  <2> HIDE DEF retired
  <2>2. e \in Eligibilities
    BY LiveFields DEF EligibilityTable, Eligibilities
  <2> HIDE DEF e
  <2>3. table \in EligibilityTable /\ shown \in SUBSET Requests
    BY <2>2, LiveFields DEF EligibilityTable
  <2>4. "retiring" \in Mains /\ q \in MaybeRequest
    BY DEF Mains, MaybeRequest
  <2> HIDE DEF table, shown
  <2> QED BY <2>1, <2>3, <2>4, SetRetired
<1>3. ASSUME NEW terminal \in Terminals, ReadTerminal(terminal) PROVE Moves(live, live')
  <2> DEFINE l == [live EXCEPT !.read = terminal]
             k == [l EXCEPT !.ended = TRUE]
             outcome == OutcomeOf(terminal)
  <2>1. live' = l \/ live' = FinishRun(k, outcome)
    BY <1>3 DEF ReadTerminal
  <2>2. terminal \in MaybeTerminal /\ outcome \in Outcomes
    BY OutcomeOfType DEF MaybeTerminal
  <2>3. l = [live EXCEPT !.read = terminal] /\ k = [l EXCEPT !.ended = TRUE]
    OBVIOUS
  <2> HIDE DEF l, k, outcome
  <2>4. Moves(live, l)
    BY <2>2, <2>3, SetRead
  <2>5. Moves(live, k)
    BY <2>3, <2>4, SetEnded, MovesOn DEF Moves
  <2>6. Moves(live, FinishRun(k, outcome))
    BY <2>2, <2>5, FinishMoves, MovesOn DEF Moves
  <2> QED BY <2>1, <2>4, <2>6
<1>4. CASE EndOfOutput
  <2> DEFINE over == [live EXCEPT !.main = "done", !.stream = FALSE, !.ended = TRUE]
             outcome == OutcomeOf(live.read)
  <2>1. live.main # "none" /\ live.read # "none" /\ live' = FinishRun(over, outcome)
    BY <1>4 DEF EndOfOutput
  <2>2. over = [live EXCEPT !.main = "done", !.stream = FALSE, !.ended = TRUE]
    OBVIOUS
  <2>3. live.read \in Terminals
    BY <2>1, LiveFields DEF MaybeTerminal
  <2>4. outcome \in Outcomes
    BY <2>3, OutcomeOfType
  <2> HIDE DEF over, outcome
  <2> QED BY <2>1, <2>2, <2>4, OverMoves
<1>5. CASE OutputFails
  <2>1. live.main # "none" /\ \E aborting \in BOOLEAN : live' = ReaderError(live, aborting)
    BY <1>5 DEF OutputFails
  <2> QED BY <2>1, ErrorMoves
<1> QED BY <1>1, <1>2, <1>3, <1>4, <1>5 DEF Output

\* Host callbacks end.
LEMMA HostMoves ==
  ASSUME Sane(live), NEW q \in Requests, HostReturns(q) \/ HostFails(q)
  PROVE  Moves(live, live')
<1> DEFINE calls == live.calls \ {q}
           k == [live EXCEPT !.calls = calls]
           d == Uncertain(k, "request")
           lost == "recovery_required"
<1>1. live' = k \/ live' = FinishRun(d, lost)
  BY DEF HostReturns, HostFails
<1>2. calls \in CallSets
  BY LiveFields DEF CallSets
<1>3. k = [live EXCEPT !.calls = calls] /\ d = Uncertain(k, "request")
  OBVIOUS
<1>4. lost \in Outcomes /\ "request" \in Doubts
  BY DEF Outcomes, Doubts
<1> HIDE DEF calls, k, d, lost
<1>5. Moves(live, k)
  BY <1>2, <1>3, SetCalls
<1>6. Moves(live, d)
  BY <1>3, <1>4, <1>5, UncertainMoves, MovesOn DEF Moves
<1>7. Moves(live, FinishRun(d, lost))
  BY <1>4, <1>6, FinishMoves, MovesOn DEF Moves
<1> QED BY <1>1, <1>5, <1>7

--------------------------------------------------------------------------------
(* The controls *)

\* The names of the controls are apart.
LEMMA ControlNames ==
  /\ Steers \subseteq Serialized /\ Answers \subseteq Serialized /\ "cancel" \in Serialized
  /\ \A c \in Steers : c \notin Answers
  /\ "cancel" \notin Answers
BY ManagedAssumption, ControlsAssumption DEF Serialized, FixedIds, CriticalKinds

\* A control in the middle of its work may go on: it is at the head of the tail,
\* or it is an answer that needs the tail no more.
May(l, c, pc) == (l.tail # <<>> /\ Head(l.tail) = c) \/ (c \in Answers /\ pc # "intent")

\* A control past its wait and short of its end may go on.
LEMMA MidwayMay ==
  ASSUME NEW l, Sane(l), NEW c \in Serialized, NEW pc,
         l.control[c].pc \notin {"none", "queued", "done"}, pc # "intent"
  PROVE  May(l, c, pc)
BY DEF Sane, HeadHolds, Holds, May

\* Whoever has the tail to give up is at its head.
LEMMA HolderLeaves ==
  ASSUME NEW l, Sane(l), NEW c \in Serialized, Holds(l, c)
  PROVE  Moves(l, Leave(l, c))
<1>1. l.tail # <<>> /\ Head(l.tail) = c
  BY DEF Sane, HeadHolds
<1> QED BY <1>1, LeaveMoves

\* A control whose call is over, or was not made.
LEMMA EndsMove ==
  ASSUME Sane(live), NEW c \in Serialized, NEW result \in Results,
         live.control[c].pc \notin {"none", "queued", "done"}
  PROVE  Moves(live, Returned(c, result)) /\ Moves(live, TimedOut(c, result))
<1> DEFINE calls == live.calls \ {c}
           m == Returned(c, result)
           n == TimedOut(c, result)
           pc == "receipt"
<1>1. calls \in CallSets
  BY LiveFields DEF CallSets
<1>2. pc \in Places /\ pc # "intent"
  BY DEF Places
<1>3. /\ m = [live EXCEPT !.calls = calls, !.control[c] = [@ EXCEPT !.pc = pc, !.result = result]]
      /\ n = [live EXCEPT !.control[c] = [@ EXCEPT !.pc = pc, !.result = result]]
  BY DEF Returned, TimedOut
<1> HIDE DEF calls, m, n, pc
<1>4. (live.tail # <<>> /\ Head(live.tail) = c) \/ (c \in Answers /\ pc # "intent")
  BY <1>2, MidwayMay DEF May
<1>5. Moves(live, m)
  BY <1>1, <1>2, <1>3, <1>4, ReturnsMoves
<1>6. Moves(live, n)
  BY <1>2, <1>3, <1>4, TellsMoves
<1> QED BY <1>5, <1>6 DEF m, n

\* The same, in doubt.
LEMMA DoubtfulEnd ==
  ASSUME Sane(live), NEW c \in Serialized, NEW result \in Results, NEW reason \in Doubts,
         live.control[c].pc \notin {"none", "queued", "done"},
         NEW l \in {Returned(c, result), TimedOut(c, result)}
  PROVE  Moves(live, Uncertain(l, reason))
<1>1. Moves(live, l)
  BY EndsMove
<1> QED BY <1>1, UncertainMoves, MovesOn DEF Moves

\* A call of the provider begins.
LEMMA CallMoves ==
  ASSUME Sane(live), NEW c \in Serialized, live.control[c].pc = "call", Enters(c)
  PROVE  Moves(live, live')
<1> DEFINE calls == live.calls \cup {c}
           pc == "wait"
<1>1. calls \in CallSets
  BY LiveFields DEF CallSets
<1>2. pc \in Places /\ pc # "intent"
  BY DEF Places
<1>3. live' = [live EXCEPT !.calls = calls, !.control[c].pc = pc]
  BY DEF Enters
<1> HIDE DEF calls, pc
<1>4. (live.tail # <<>> /\ Head(live.tail) = c) \/ (c \in Answers /\ pc # "intent")
  BY <1>2, MidwayMay DEF May
<1> QED BY <1>1, <1>2, <1>3, <1>4, EntersMoves

\* Steering.
LEMMA SteeringMoves ==
  ASSUME Sane(live), NEW c \in Steers, Steering(c)
  PROVE  Moves(live, live')
<1>0. c \in Serialized /\ c \notin Answers
  BY ControlNames
<1>1. CASE BeginSteer(c)
  <2>1. live.tail # <<>> /\ Head(live.tail) = c
    BY <1>1 DEF BeginSteer, AtHead
  <2>2. CASE live' = Leave(live, c)
    BY <1>0, <2>1, <2>2, LeaveMoves
  <2>3. CASE Goes(c, "intent")
    <3>1. live' = [live EXCEPT !.control[c].pc = "intent"] /\ "intent" \in Places
      BY <2>3 DEF Goes, Places
    <3> QED BY <1>0, <2>1, <3>1, GoesMoves
  <2> QED BY <1>1, <2>2, <2>3 DEF BeginSteer
<1>2. CASE SteerIntent(c)
  <2>1. Holds(live, c)
    BY <1>0, <1>2 DEF SteerIntent, At, Holds
  <2>2. CASE live' = Leave(live, c)
    BY <1>0, <2>1, <2>2, HolderLeaves
  <2>3. CASE Goes(c, "call")
    <3>1. live' = [live EXCEPT !.control[c].pc = "call"] /\ "call" \in Places
      BY <2>3 DEF Goes, Places
    <3>2. live.tail # <<>> /\ Head(live.tail) = c
      BY <1>0, <2>1 DEF Sane, HeadHolds
    <3> QED BY <1>0, <3>1, <3>2, GoesMoves
  <2> QED BY <1>2, <2>2, <2>3 DEF SteerIntent
<1>3. CASE SteerCall(c)
  <2>1. live.control[c].pc = "call" /\ "rejected" \in Results
    BY <1>3 DEF SteerCall, At, Results
  <2>2. CASE Enters(c)
    BY <1>0, <2>1, <2>2, CallMoves
  <2>3. CASE live' = TimedOut(c, "rejected")
    BY <1>0, <2>1, <2>3, EndsMove
  <2> QED BY <1>3, <2>2, <2>3 DEF SteerCall, Skips
<1>4. CASE SteerEnds(c)
  <2>1. live.control[c].pc = "wait"
    BY <1>4 DEF SteerEnds, At
  <2>2. CASE \E result \in {"delivered", "rejected"} : live' = Returned(c, result)
    <3>1. PICK result \in {"delivered", "rejected"} : live' = Returned(c, result)
      BY <2>2
    <3>2. result \in Results
      BY DEF Results
    <3> QED BY <1>0, <2>1, <3>1, <3>2, EndsMove
  <2>3. CASE \E l \in {Returned(c, "uncertain"), TimedOut(c, "uncertain")} :
               live' = Uncertain(l, "steering")
    <3>1. "uncertain" \in Results /\ "steering" \in Doubts
      BY DEF Results, Doubts
    <3>2. PICK l \in {Returned(c, "uncertain"), TimedOut(c, "uncertain")} :
               live' = Uncertain(l, "steering")
      BY <2>3
    <3> QED BY <1>0, <2>1, <3>1, <3>2, DoubtfulEnd
  <2> QED BY <1>4, <2>2, <2>3 DEF SteerEnds
<1>5. CASE SteerReceipt(c)
  <2>1. Holds(live, c) /\ live' = Leave(live, c)
    BY <1>0, <1>5 DEF SteerReceipt, At, Holds
  <2> QED BY <1>0, <2>1, HolderLeaves
<1> QED BY <1>1, <1>2, <1>3, <1>4, <1>5 DEF Steering

\* Answers: the tail is given up with the committed intent.
LEMMA AnsweringMoves ==
  ASSUME Sane(live), NEW c \in Answers, Answering(c)
  PROVE  Moves(live, live')
<1> DEFINE q == live.control[c].request
<1>0. c \in Serialized
  BY ControlNames
<1>1. CASE BeginAnswer(c)
  <2>1. live.tail # <<>> /\ Head(live.tail) = c
    BY <1>1 DEF BeginAnswer, AtHead
  <2>2. CASE live' = Answered(Leave(live, c), c)
    <3>1. Moves(live, Leave(live, c))
      BY <1>0, <2>1, LeaveMoves
    <3> QED BY <2>2, <3>1, AnsweredMoves, MovesOn DEF Moves
  <2>3. CASE live' = [live EXCEPT !.control[c].pc = "intent", !.eligibility[q] = "claimed"]
    <3> DEFINE k == [live EXCEPT !.control[c].pc = "intent"]
    <3>1. live' = [k EXCEPT !.eligibility[q] = "claimed"]
      BY <2>3, LiveFields DEF LiveRecord
    <3>2. k = [live EXCEPT !.control[c].pc = "intent"]
      OBVIOUS
    <3>3. "intent" \in Places /\ "claimed" \in Eligibilities
      BY DEF Places, Eligibilities
    <3> HIDE DEF k, q
    <3>4. Moves(live, k)
      BY <1>0, <2>1, <3>2, <3>3, GoesMoves
    <3>5. Moves(k, live')
      BY <3>1, <3>3, <3>4, EligibilityMoves DEF Moves
    <3> QED BY <3>4, <3>5, MovesOn
  <2> QED BY <1>1, <2>2, <2>3 DEF BeginAnswer
<1>2. CASE AnswerIntent(c)
  <2>0. live.tail # <<>> /\ Head(live.tail) = c
    BY <1>0, <1>2 DEF AnswerIntent, At, Holds, Sane, HeadHolds
  <2>1. CASE live' = [live EXCEPT !.control[c].pc = "call", !.tail = Tail(@)]
    <3>1. live' = LeaveFor(live, c, "call") /\ "call" \in Places
      BY <2>1 DEF LeaveFor, Places
    <3> QED BY <1>0, <2>0, <3>1, TailMoves
  <2>2. CASE live' = [Answered(Leave(live, c), c) EXCEPT
               !.eligibility[q] = IF q \in live.shown /\ live.request = q THEN "waiting" ELSE @]
    <3> DEFINE k == Answered(Leave(live, c), c)
               given == q \in live.shown /\ live.request = q
               e == IF given THEN "waiting" ELSE k.eligibility[q]
    <3>1. Moves(live, k)
      BY <1>0, <2>0, LeaveMoves, AnsweredMoves, MovesOn DEF Moves
    <3>2. live' = [k EXCEPT !.eligibility[q] = e]
      BY <2>2
    <3>3. q \in Requests => e \in Eligibilities
      <4>1. k.eligibility \in [Requests -> Eligibilities]
        BY <3>1, LiveFields DEF EligibilityTable, Moves
      <4> HIDE DEF k, given
      <4> QED BY <4>1 DEF Eligibilities
    <3> HIDE DEF k, e, q
    <3>4. CASE q \in Requests
      BY <3>1, <3>2, <3>3, <3>4, EligibilityMoves, MovesOn DEF Moves
    <3>5. CASE q \notin Requests
      <4>1. k \in LiveRecord /\ k.eligibility \in [Requests -> Eligibilities]
        BY <3>1, LiveFields DEF EligibilityTable, Moves
      <4>2. [k.eligibility EXCEPT ![q] = e] = k.eligibility
        BY <3>5, <4>1
      <4>3. live' = [k EXCEPT !.eligibility = k.eligibility]
        BY <3>2, <4>2
      <4>4. live' = k
        BY <4>1, <4>3 DEF LiveRecord
      <4> QED BY <3>1, <4>4
    <3> QED BY <3>4, <3>5
  <2> QED BY <1>2, <2>1, <2>2 DEF AnswerIntent
<1>3. CASE AnswerCall(c)
  <2>1. live.control[c].pc = "call"
    BY <1>3 DEF AnswerCall, At
  <2>2. CASE Enters(c)
    BY <1>0, <2>1, <2>2, CallMoves
  <2>3. CASE Skips(c, NotEntered)
    <3>1. live' = TimedOut(c, NotEntered) /\ NotEntered \in Results
      BY <2>3 DEF Skips, NotEntered, Results
    <3> QED BY <1>0, <2>1, <3>1, EndsMove
  <2> QED BY <1>3, <2>2, <2>3 DEF AnswerCall
<1>4. CASE AnswerEnds(c)
  <2>1. live.control[c].pc = "wait"
    BY <1>4 DEF AnswerEnds, At
  <2>2. CASE \E result \in {"delivered", "pending", "unavailable"} : live' = Returned(c, result)
    <3>1. PICK result \in {"delivered", "pending", "unavailable"} : live' = Returned(c, result)
      BY <2>2
    <3>2. result \in Results
      BY DEF Results
    <3> QED BY <1>0, <2>1, <3>1, <3>2, EndsMove
  <2>3. CASE \E l \in {Returned(c, "uncertain"), TimedOut(c, "uncertain")} :
               live' = Uncertain(l, "request")
    <3>1. "uncertain" \in Results /\ "request" \in Doubts
      BY DEF Results, Doubts
    <3>2. PICK l \in {Returned(c, "uncertain"), TimedOut(c, "uncertain")} :
               live' = Uncertain(l, "request")
      BY <2>3
    <3> QED BY <1>0, <2>1, <3>1, <3>2, DoubtfulEnd
  <2>4. CASE live' = TimedOut(c, NotEntered)
    <3>1. NotEntered \in Results
      BY DEF NotEntered, Results
    <3> QED BY <1>0, <2>1, <2>4, <3>1, EndsMove
  <2> QED BY <1>4, <2>2, <2>3, <2>4 DEF AnswerEnds
<1>5. CASE AnswerReceipt(c)
  <2> DEFINE k == Answered(live, c)
             e == EligibilityAfter(c)
             l == [k EXCEPT !.eligibility[q] = e]
             lost == "recovery_required"
  <2>1. live' = l \/ live' = FinishRun(l, lost)
    BY <1>5 DEF AnswerReceipt
  <2>2. e \in Eligibilities /\ lost \in Outcomes
    BY DEF EligibilityAfter, Eligibilities, Outcomes
  <2>3. Moves(live, k)
    BY AnsweredMoves
  <2>4. l = [k EXCEPT !.eligibility[q] = e]
    OBVIOUS
  <2> HIDE DEF k, e, l, lost, q
  <2>5. Moves(live, l)
    BY <2>2, <2>3, <2>4, EligibilityMoves, MovesOn DEF Moves
  <2>6. Moves(live, FinishRun(l, lost))
    BY <2>2, <2>5, FinishMoves, MovesOn DEF Moves
  <2> QED BY <2>1, <2>5, <2>6
<1> QED BY <1>1, <1>2, <1>3, <1>4, <1>5 DEF Answering

\* Cancellation: it holds the tail to its end.
LEMMA CancellationMoves ==
  ASSUME Sane(live), TypeOK, Cancellation
  PROVE  Moves(live, live')
<1> DEFINE c == "cancel"
<1>0. c \in Serialized /\ c \notin Answers
  BY ControlNames
<1>a. ASSUME live.control[c].pc \notin {"none", "queued", "done"}
      PROVE  Holds(live, c) /\ live.tail # <<>> /\ Head(live.tail) = c
  BY <1>0, <1>a DEF Sane, HeadHolds, Holds
<1>b. ASSUME live.control[c].pc \notin {"none", "queued", "done"}, NEW pc \in Places, Goes(c, pc)
      PROVE  Moves(live, live')
  <2>1. live' = [live EXCEPT !.control[c].pc = pc]
    BY <1>b DEF Goes
  <2> HIDE DEF c
  <2> QED BY <1>0, <1>a, <1>b, <2>1, GoesMoves
<1>c. ASSUME live.control[c].pc \notin {"none", "queued", "done"} PROVE Moves(live, Leave(live, c))
  <2> HIDE DEF c
  <2> QED BY <1>0, <1>a, <1>c, HolderLeaves
<1>1. CASE BeginCancel
  <2> DEFINE pc == IF run[R].cancelRequested THEN "decide" ELSE "commit"
             phase == run[R].phase
  <2>1. live.tail # <<>> /\ Head(live.tail) = c
    BY <1>1 DEF BeginCancel, AtHead
  <2>2. \/ live' = Leave(live, c)
        \/ live' = [live EXCEPT !.control[c] = [@ EXCEPT !.phase = phase, !.pc = pc]]
    BY <1>1 DEF BeginCancel
  <2>3. pc \in Places /\ phase \in Phases
    BY ManagedAssumption DEF TypeOK, RunRecord, Places
  <2> HIDE DEF c, pc, phase
  <2> QED BY <1>0, <2>1, <2>2, <2>3, LeaveMoves, ReadsMoves
<1>2. CASE CommitCancel
  <2>1. /\ live.control[c].pc = "commit" /\ "decide" \in Places
        /\ Goes(c, "decide") \/ live' = Leave(live, c)
    BY <1>2 DEF CommitCancel, At, Places
  <2> HIDE DEF c
  <2> QED BY <1>b, <1>c, <2>1
<1>3. CASE DecideCancel
  <2> DEFINE k == Abort(live)
  <2>1. /\ live.control[c].pc = "decide" /\ "intent" \in Places
        /\ Goes(c, "intent") \/ live' = Leave(k, c)
    BY <1>3 DEF DecideCancel, At, Places, Goes
  <2>2. k.tail = live.tail
    BY LiveFields DEF Abort, LiveRecord
  <2>3. Moves(live, k)
    BY AbortMoves
  <2> HIDE DEF c, k
  <2>4. CASE live' = Leave(k, c)
    BY <1>0, <1>a, <2>1, <2>2, <2>3, <2>4, LeaveMoves, MovesOn DEF Moves
  <2> QED BY <1>b, <2>1, <2>4
<1>4. CASE InterruptIntent
  <2>1. /\ live.control[c].pc = "intent" /\ "call" \in Places
        /\ Goes(c, "call") \/ live' = Leave(live, c)
    BY <1>4 DEF InterruptIntent, At, Places
  <2> HIDE DEF c
  <2> QED BY <1>b, <1>c, <2>1
<1>5. CASE InterruptCall
  <2>1. /\ live.control[c].pc = "call"
        /\ \/ Enters(c)
           \/ \E result \in {"lost", "unavailable"} :
                live' = Uncertain(TimedOut(c, result), "cancellation")
    BY <1>5 DEF InterruptCall, At
  <2>2. CASE Enters(c)
    <3> HIDE DEF c
    <3> QED BY <1>0, <2>1, <2>2, CallMoves
  <2>3. CASE \E result \in {"lost", "unavailable"} :
                live' = Uncertain(TimedOut(c, result), "cancellation")
    <3>1. PICK result \in {"lost", "unavailable"} :
                live' = Uncertain(TimedOut(c, result), "cancellation")
      BY <2>3
    <3>2. result \in Results /\ "cancellation" \in Doubts
      BY DEF Results, Doubts
    <3> DEFINE l == TimedOut(c, result)
    <3>3. l \in {Returned(c, result), TimedOut(c, result)} /\ live' = Uncertain(l, "cancellation")
      BY <3>1
    <3> HIDE DEF c, l
    <3> QED BY <1>0, <2>1, <3>2, <3>3, DoubtfulEnd
  <2> QED BY <2>1, <2>2, <2>3
<1>6. CASE InterruptEnds
  <2>1. live.control[c].pc = "wait"
    BY <1>6 DEF InterruptEnds, At
  <2>2. CASE \E result \in {"accepted", "failed"} : live' = Returned(c, result)
    <3>1. PICK result \in {"accepted", "failed"} : live' = Returned(c, result)
      BY <2>2
    <3>2. result \in Results
      BY DEF Results
    <3> HIDE DEF c
    <3> QED BY <1>0, <2>1, <3>1, <3>2, EndsMove
  <2>3. CASE \E l \in {Returned(c, "lost"), TimedOut(c, "lost")} : live' = Uncertain(l, "cancellation")
    <3>1. "lost" \in Results /\ "cancellation" \in Doubts
      BY DEF Results, Doubts
    <3>2. PICK l \in {Returned(c, "lost"), TimedOut(c, "lost")} : live' = Uncertain(l, "cancellation")
      BY <2>3
    <3> HIDE DEF c
    <3> QED BY <1>0, <2>1, <3>1, <3>2, DoubtfulEnd
  <2> QED BY <1>6, <2>2, <2>3 DEF InterruptEnds
<1>7. CASE InterruptReceipt
  <2> DEFINE reason == IF live.control[c].result = "failed" THEN "cancellation" ELSE live.uncertain
             l == [live EXCEPT !.control[c].pc = "after", !.uncertain = reason]
  <2>1. live.control[c].pc = "receipt" /\ (live' = l \/ live' = Abort(l))
    BY <1>7 DEF InterruptReceipt, At
  <2>2. "after" \in Places /\ reason \in Doubts
    BY LiveFields DEF Places, Doubts
  <2>3. l = [live EXCEPT !.control[c].pc = "after", !.uncertain = reason]
    OBVIOUS
  <2> HIDE DEF c, reason, l
  <2>4. Moves(live, l)
    BY <1>0, <1>a, <2>1, <2>2, <2>3, DoubtsMoves
  <2>5. Moves(live, Abort(l))
    BY <2>4, AbortMoves, MovesOn DEF Moves
  <2> QED BY <2>1, <2>4, <2>5
<1>8. CASE EndCancel
  <2> DEFINE l == Leave(live, c)
             d == Uncertain(l, "cancellation")
             armed == l.finish = "none"
             g == [l EXCEPT !.grace = armed]
             lost == "recovery_required"
  <2>1. /\ live.control[c].pc = "after"
        /\ live' = l \/ live' = FinishRun(d, lost) \/ live' = g
    BY <1>8 DEF EndCancel, At, AfterInterrupt
  <2>2. Moves(live, l)
    BY <1>c, <2>1
  <2>3. "cancellation" \in Doubts /\ lost \in Outcomes /\ armed \in BOOLEAN
    BY DEF Doubts, Outcomes
  <2>4. g = [l EXCEPT !.grace = armed] /\ d = Uncertain(l, "cancellation")
    OBVIOUS
  <2> HIDE DEF c, l, d, armed, g, lost
  <2>5. Moves(live, g)
    BY <2>2, <2>3, <2>4, SetGrace, MovesOn DEF Moves
  <2>6. Moves(live, d)
    BY <2>2, <2>3, <2>4, UncertainMoves, MovesOn DEF Moves
  <2>7. Moves(live, FinishRun(d, lost))
    BY <2>3, <2>6, FinishMoves, MovesOn DEF Moves
  <2> QED BY <2>1, <2>2, <2>5, <2>7
<1> QED BY <1>1, <1>2, <1>3, <1>4, <1>5, <1>6, <1>7, <1>8 DEF Cancellation

\* What clients and timers do.
LEMMA ClientMoves ==
  ASSUME Sane(live), Client \/ CancelLive \/ GraceExpires \/ CallReturns
  PROVE  Moves(live, live')
<1>1. ASSUME NEW c \in Steers, AskSteer(c) PROVE Moves(live, live')
  <2>1. live' = Queue(live, c) /\ c \in Serialized
    BY <1>1, ControlNames DEF AskSteer
  <2> QED BY <2>1, QueueMoves
<1>2. ASSUME NEW c \in Answers, NEW q \in Requests, AskAnswer(c, q) PROVE Moves(live, live')
  <2> DEFINE l == Queue(live, c)
  <2>1. live' = AnswerFor(l, c, q) /\ c \in Serialized
    BY <1>2, ControlNames DEF AskAnswer, AnswerFor
  <2>2. Moves(live, l)
    BY <2>1, QueueMoves
  <2> HIDE DEF l
  <2> QED BY <2>1, <2>2, AskMoves, MovesOn DEF Moves
<1>3. CASE UserCancel
  <2> DEFINE asked == live.registered
  <2>1. live' = [live EXCEPT !.asked = asked] /\ asked \in BOOLEAN
    BY <1>3, LiveFields DEF UserCancel
  <2> HIDE DEF asked
  <2> QED BY <2>1, SetAsked
<1>4. CASE CancelLive
  <2>1. live' = Queue(live, "cancel") /\ "cancel" \in Serialized
    BY <1>4, ControlNames DEF CancelLive
  <2> QED BY <2>1, QueueMoves
<1>5. CASE GraceExpires
  <2> DEFINE g == [live EXCEPT !.grace = FALSE]
  <2>1. live' = Uncertain(Abort(g), "cancellation") /\ "cancellation" \in Doubts
    BY <1>5 DEF GraceExpires, Doubts
  <2>2. g = [live EXCEPT !.grace = FALSE]
    OBVIOUS
  <2> HIDE DEF g
  <2>3. Moves(live, g)
    BY <2>2, SetGrace
  <2>4. Moves(live, Abort(g))
    BY <2>3, AbortMoves, MovesOn DEF Moves
  <2> QED BY <2>1, <2>4, UncertainMoves, MovesOn DEF Moves
<1>6. ASSUME NEW c \in Serialized, CallEnds(c) PROVE Moves(live, live')
  <2> DEFINE calls == live.calls \ {c}
  <2>1. live' = [live EXCEPT !.calls = calls] /\ calls \in CallSets
    BY <1>6, LiveFields DEF CallEnds, CallSets
  <2> HIDE DEF calls
  <2> QED BY <2>1, SetCalls
<1> QED BY <1>1, <1>2, <1>3, <1>4, <1>5, <1>6 DEF Client, CallReturns

--------------------------------------------------------------------------------
(* The closer and the cleanup *)

\* The steps that close the session move the record as every step does.
LEMMA ClosingMoves ==
  ASSUME Sane(live), Closing
  PROVE  Moves(live, live')
<1> USE DEF Closers
<1>1. CASE CloseIntent
  <2>1. live' = [live EXCEPT !.closer = "binding_intent"]
    BY <1>1 DEF CloseIntent
  <2> QED BY <2>1, SetCloser
<1>2. CASE BindingIntent
  <2> DEFINE closer == IF live.session = "rejected" /\ live.attempts = 1
                       THEN "close_uncertain" ELSE "closing"
  <2>1. live' = [live EXCEPT !.closer = closer] /\ closer \in Closers
    BY <1>2 DEF BindingIntent
  <2> HIDE DEF closer
  <2> QED BY <2>1, SetCloser
<1>3. CASE CloseSession
  <2> DEFINE session == IF live.session = "none" THEN live.session ELSE "closed"
  <2>1. CASE live' = [live EXCEPT !.closer = "closed", !.session = session]
    <3>1. session \in Sessions
      BY LiveFields DEF Sessions
    <3> HIDE DEF session
    <3> QED BY <2>1, <3>1, SetClosed
  <2>2. CASE live' = [live EXCEPT !.closer = "close_uncertain"]
    BY <2>2, SetCloser
  <2> QED BY <1>3, <2>1, <2>2 DEF CloseSession
<1>4. CASE CloseUncertain
  <2>1. live' = [live EXCEPT !.closer = "binding_uncertain"]
    BY <1>4 DEF CloseUncertain
  <2> QED BY <2>1, SetCloser
<1>5. CASE BindingUncertain
  <2> DEFINE attempts == 2
  <2>1. \/ live' = [live EXCEPT !.closer = "close_intent", !.attempts = attempts]
        \/ live' = [live EXCEPT !.closer = "gave_up"]
    BY <1>5 DEF BindingUncertain, AfterAttempt
  <2>2. attempts \in Tries
    BY DEF Tries
  <2> HIDE DEF attempts
  <2> QED BY <2>1, <2>2, SetCloser, SetAttempt
<1> QED BY <1>1, <1>2, <1>3, <1>4, <1>5 DEF Closing

\* So do the steps of finish(): closing, joining, draining and releasing.
LEMMA CleanupMoves ==
  ASSUME Sane(live), Cleanup
  PROVE  Moves(live, live')
<1> USE DEF Finishes
<1> DEFINE zero == 0
           one == 1
           two == 2
<1>t. zero \in Tries /\ one \in Tries /\ two \in Tries
  BY DEF Tries
<1>1. CASE Join
  <2>1. live.finish # "none" /\ live' = [live EXCEPT !.finish = "drain"]
    BY <1>1 DEF Join
  <2> QED BY <2>1, SetFinish
<1>2. CASE Drain
  <2>1. /\ live.finish # "none"
        /\ \/ live' = [live EXCEPT !.finish = "resources"]
           \/ live' = [live EXCEPT !.finish = "final"]
    BY SMTT(30), <1>2 DEF Drain
  <2> QED BY <2>1, SetFinish
<1>3. CASE Release("resources", "close_receipt")
  <2> DEFINE grant == IF live.resources = "held" THEN "released" ELSE live.resources
  <2>1. /\ live.finish # "none"
        /\ \/ live' = [live EXCEPT !.finish = "close_receipt", !.releases = zero, !.resources = grant]
           \/ live' = [live EXCEPT !.releases = one]
           \/ live' = [live EXCEPT !.releases = two, !.finish = "final"]
    BY <1>3 DEF Release
  <2>2. grant \in Grants
    BY LiveFields DEF Grants
  <2> HIDE DEF grant, zero, one, two
  <2> QED BY <1>t, <2>1, <2>2, SetReleasedResources, SetReleases, SetGivenUp
<1>4. CASE CloseReceipt
  <2>1. live.finish # "none" /\ live' = [live EXCEPT !.finish = "binding_receipt"]
    BY <1>4 DEF CloseReceipt
  <2> QED BY <2>1, SetFinish
<1>5. CASE BindingReceipt
  <2>1. live.finish # "none" /\ live' = [live EXCEPT !.finish = "execution"]
    BY SMTT(30), <1>5 DEF BindingReceipt
  <2> QED BY <2>1, SetFinish
<1>6. CASE Release("execution", "final")
  <2> DEFINE grant == IF live.execution = "held" THEN "released" ELSE live.execution
  <2>1. /\ live.finish # "none"
        /\ \/ live' = [live EXCEPT !.finish = "final", !.releases = zero, !.execution = grant]
           \/ live' = [live EXCEPT !.releases = one]
           \/ live' = [live EXCEPT !.releases = two, !.finish = "final"]
    BY <1>6 DEF Release
  <2>2. grant \in Grants
    BY LiveFields DEF Grants
  <2> HIDE DEF grant, zero, one, two
  <2> QED BY <1>t, <2>1, <2>2, SetReleasedExecution, SetReleases, SetGivenUp
<1>7. CASE Final
  <2> DEFINE final == IF Sticky \/ ~CleanedUp THEN "recovery_required" ELSE live.outcome
             overruled == IF Sticky THEN live.uncertain ELSE "none"
  <2>1. /\ live.finish # "none"
        /\ live' = [live EXCEPT !.finish = "settle", !.final = final, !.overruled = overruled]
    BY <1>7 DEF Final
  <2>2. final \in MaybeOutcome /\ final # "none"
    BY <2>1, LiveFields DEF MaybeOutcome, Outcomes, Sane, Told
  <2>3. overruled \in Doubts /\ "settle" \in Finishes
    BY LiveFields DEF Doubts, Finishes
  <2> HIDE DEF final, overruled
  <2> QED BY <2>1, <2>2, <2>3, SetFinal
<1>8. CASE SettleRun
  <2> DEFINE known == ~CleanedUp
  <2>1. /\ live.finish # "none" /\ live' = [live EXCEPT !.finish = "done", !.registered = known]
        /\ known \in BOOLEAN
    BY <1>8 DEF SettleRun
  <2> HIDE DEF known
  <2> QED BY <2>1, SetDone
<1> QED BY <1>1, <1>2, <1>3, <1>4, <1>5, <1>6, <1>7, <1>8 DEF Cleanup

--------------------------------------------------------------------------------
(* Every step of the live run is a step of the store, or leaves it alone *)

\* The dispositions a receipt may carry are dispositions.
LEMMA ReceiptKnown ==
  ASSUME NEW kind PROVE ReceiptDispositions(kind) \subseteq Dispositions
BY DEF ReceiptDispositions, Dispositions

\* A receipt for an operation of the run is a command.
LEMMA ReceiptCommand ==
  ASSUME NEW id \in OpIds, NEW disposition, NEW state \in {"none", "pending", "unavailable"},
         OperationReceipt(R, id, disposition, state)
  PROVE  Next
<1>1. R \in Runs
  BY ManagedAssumption
<1>2. disposition \in Dispositions
  <2>1. disposition \in ReceiptDispositions(op[R][id].kind)
    BY DEF OperationReceipt
  <2> QED BY <2>1, ReceiptKnown
<1>3. Receipt(R)
  BY <1>2 DEF Receipt
<1> QED BY <1>1, <1>3 DEF Next

\* The ids the live run uses are operation ids.
LEMMA ManagedIds ==
  /\ {"prepare", "turn", "interrupt", "session_close", "binding_cleanup", "cancel"} \subseteq OpIds
  /\ Configures \subseteq Controls /\ Steers \subseteq Controls /\ Answers \subseteq Controls
  /\ Controls \subseteq OpIds /\ R \in Runs /\ T \in Tasks
BY ManagedAssumption DEF OpIds, FixedIds, CriticalKinds

\* The steps that open, retire, claim or give back a request.
Asks ==
  \/ PresentRequest \/ RecordUnavailable
  \/ \E q \in Requests : ReadUnavailable(q)
  \/ \E c \in Answers : BeginAnswer(c) \/ AnswerIntent(c) \/ AnswerReceipt(c)

\* The commands of the other steps: intents, receipts that say nothing of a request, the
\* cancellation and the settlement of this run.
Plain ==
  \/ UNCHANGED vars
  \/ Dispatch(R) \/ Finish(R)
  \/ \E id \in OpIds : \E disposition : OperationReceipt(R, id, disposition, "none")

\* Intents.
LEMMA DispatchCommand ==
  ASSUME \/ DispatchPrepare(R) \/ DispatchTurn(R) \/ DispatchInterrupt(R)
         \/ \E id \in Controls, kind \in {"configure", "steer"} : DispatchControl(R, id, kind)
         \/ \E kind \in CleanupKinds : DispatchCleanup(R, kind) \/ RetryCleanup(R, kind)
  PROVE  Dispatch(R)
BY ManagedAssumption DEF Dispatch, CleanupKinds

\* Recording a provider request is the request command of the store.
LEMMA RequestCommand ==
  ASSUME \/ \E request \in Requests : RequestOpened(R, request)
         \/ \E id \in Controls : ResolutionIntended(R, id)
         \/ RequestUnavailable(R)
  PROVE  Next
<1>1. Request(R)
  BY DEF Request
<1> QED BY <1>1, ManagedAssumption DEF Next

\* They are commands of the store.
LEMMA PlainCommand == ASSUME Plain PROVE Next \/ UNCHANGED vars
<1>1. CASE Dispatch(R) \/ Finish(R)
  BY <1>1, ManagedAssumption DEF Next
<1>2. ASSUME NEW id \in OpIds, NEW disposition, OperationReceipt(R, id, disposition, "none")
      PROVE  Next
  BY <1>2, ReceiptCommand
<1> QED BY <1>1, <1>2 DEF Plain

\* The pump and recovery.
LEMMA BeginStore == ASSUME Begin PROVE Next
<1>1. CASE AcquireOwner
  BY <1>1 DEF Next
<1>2. CASE AdmitTask(T, R)
  BY <1>2, ManagedAssumption DEF Next, Admit
<1>3. CASE Launch
  <2>1. Dispatch(R)
    BY <1>3, DispatchCommand DEF Launch
  <2> QED BY <2>1, ManagedAssumption DEF Next
<1>4. CASE RejectQueued \/ Recover
  <2>1. Finish(R)
    BY <1>4 DEF RejectQueued, Recover, Finish, Outcomes
  <2> QED BY <2>1, ManagedAssumption DEF Next
<1> QED BY <1>1, <1>2, <1>3, <1>4 DEF Begin

\* What opens, retires, claims or gives back a request.
LEMMA AsksStore == ASSUME Sane(live), Asks PROVE Next \/ UNCHANGED vars
<1>1. CASE PresentRequest
  <2>1. live.next \in Requests
    BY <1>1 DEF PresentRequest, Sane
  <2>2. Rests \/ RequestOpened(R, live.next)
    BY <1>1 DEF PresentRequest
  <2> QED BY <2>1, <2>2, RequestCommand DEF Rests
<1>2. CASE RecordUnavailable
  <2>1. Rests \/ RequestUnavailable(R)
    BY <1>2 DEF RecordUnavailable
  <2> QED BY <2>1, RequestCommand DEF Rests
<1>3. ASSUME NEW q \in Requests, ReadUnavailable(q) PROVE UNCHANGED vars
  BY <1>3 DEF ReadUnavailable, Rests
<1>4. ASSUME NEW c \in Answers, BeginAnswer(c) PROVE UNCHANGED vars
  BY <1>4 DEF BeginAnswer, Rests
<1>5. ASSUME NEW c \in Answers, AnswerIntent(c) PROVE Next \/ UNCHANGED vars
  <2>1. c \in Controls /\ (Rests \/ ResolutionIntended(R, c))
    BY <1>5, ManagedIds DEF AnswerIntent
  <2> QED BY <2>1, RequestCommand DEF Rests
<1>6. ASSUME NEW c \in Answers, AnswerReceipt(c) PROVE Next \/ UNCHANGED vars
  <2>0. c \in OpIds
    BY ManagedIds
  <2> DEFINE result == live.control[c].result
  <2>1. CASE result \in {"pending", "unavailable"}
    <3>1. OperationReceipt(R, c, "rejected", result)
      BY <1>6, <2>1 DEF AnswerReceipt
    <3> HIDE DEF result
    <3> QED BY <2>0, <2>1, <3>1, ReceiptCommand
  <2>2. CASE result \notin {"pending", "unavailable"}
    <3>1. OperationReceipt(R, c, result, "none")
      BY <1>6, <2>2 DEF AnswerReceipt
    <3> HIDE DEF result
    <3> QED BY <2>0, <3>1, ReceiptCommand
  <2> QED BY <2>1, <2>2
<1> QED BY <1>1, <1>2, <1>3, <1>4, <1>5, <1>6 DEF Asks

\* prepareRun.
LEMMA PrepareStore == ASSUME Prepare PROVE Plain
<1>1. CASE ConfigureIntent
  <2>1. Rests \/ \E c \in Configures : DispatchControl(R, c, "configure")
    BY <1>1 DEF ConfigureIntent
  <2> QED BY <2>1, ManagedIds, DispatchCommand DEF Plain, Rests
<1>2. CASE ConfigureReceipt
  <2>1. PICK c \in Configures : OperationReceipt(R, c, live.configured, "none")
    BY <1>2 DEF ConfigureReceipt
  <2> QED BY <2>1, ManagedIds DEF Plain
<1>3. CASE PrepareReceipt
  BY <1>3, ManagedIds DEF PrepareReceipt, Plain
<1>4. CASE TurnIntent
  BY <1>4, DispatchCommand DEF TurnIntent, Rests, Plain
<1>5. CASE RejectPreparation
  BY <1>5, ManagedIds DEF RejectPreparation, Plain
<1>6. CASE Rests
  BY <1>6 DEF Rests, Plain
<1> QED BY <1>1, <1>2, <1>3, <1>4, <1>5, <1>6
        DEF Prepare, Register, Start, Acquire, Open, ConfigureCall, Verify, StartTurn, Fail

\* The reader.
LEMMA ReaderStore == ASSUME Reader \/ Output PROVE Plain \/ Asks
<1>1. CASE RecordStart
  BY <1>1, ManagedIds DEF RecordStart, Plain
<1>2. CASE RejectTurn
  BY <1>2, ManagedIds DEF RejectTurn, Plain
<1>3. CASE Output
  <2>1. UNCHANGED vars
    BY <1>3 DEF Output, ReadRequest, ReadUnavailable, ReadTerminal, EndOfOutput, OutputFails, Rests
  <2> QED BY SMTT(30), <2>1 DEF Plain
<1>4. CASE RouteRequest
  BY <1>4 DEF RouteRequest, Rests, Plain
<1> QED BY <1>1, <1>2, <1>3, <1>4 DEF Reader, Asks

\* Steering and answers.
LEMMA ControlStore ==
  ASSUME \/ \E c \in Steers : Steering(c)
         \/ \E c \in Answers : Answering(c)
  PROVE  Plain \/ Asks
<1>1. ASSUME NEW c \in Steers, Steering(c) PROVE Plain
  <2>0. c \in Controls /\ c \in OpIds
    BY ManagedIds
  <2>1. CASE SteerIntent(c)
    <3>1. Rests \/ DispatchControl(R, c, "steer")
      BY <2>1 DEF SteerIntent
    <3> QED BY <2>0, <3>1, DispatchCommand DEF Rests, Plain
  <2>2. CASE SteerReceipt(c)
    BY <2>0, <2>2 DEF SteerReceipt, Plain
  <2>3. CASE Rests
    BY <2>3 DEF Rests, Plain
  <2> QED BY <1>1, <2>1, <2>2, <2>3 DEF Steering, BeginSteer, SteerCall, SteerEnds
<1>2. ASSUME NEW c \in Answers, Answering(c) PROVE Plain \/ Asks
  <2>1. CASE AnswerCall(c) \/ AnswerEnds(c)
    BY <2>1 DEF AnswerCall, AnswerEnds, Rests, Plain
  <2> QED BY <1>2, <2>1 DEF Answering, Asks
<1> QED BY <1>1, <1>2

\* Cancellation, and what clients, hosts and timers do.
LEMMA CancelStore ==
  ASSUME \/ Client \/ CancelLive \/ Cancellation \/ GraceExpires \/ CallReturns
         \/ \E q \in Requests : HostReturns(q) \/ HostFails(q)
  PROVE  Plain
<1>1. CASE UserCancel \/ CommitCancel
  <2>1. Rests \/ CancelRun(R)
    BY <1>1 DEF UserCancel, CommitCancel
  <2> QED BY <2>1 DEF Rests, Plain, Finish
<1>2. CASE InterruptIntent
  BY <1>2, DispatchCommand DEF InterruptIntent, Rests, Plain
<1>3. CASE InterruptReceipt
  BY <1>3, ManagedIds DEF InterruptReceipt, Plain
<1>4. CASE Rests
  BY <1>4 DEF Rests, Plain
<1> QED BY <1>1, <1>2, <1>3, <1>4
        DEF Client, AskSteer, AskAnswer, CancelLive, Cancellation, GraceExpires, CallReturns, CallEnds,
            HostReturns, HostFails, BeginCancel, DecideCancel, InterruptCall, InterruptEnds, EndCancel

\* The cleanup and the settlement.
LEMMA CleanupStore == ASSUME Sane(live), Closing \/ Cleanup PROVE Plain
<1>1. CASE CloseIntent \/ BindingIntent
  <2>1. \E kind \in CleanupKinds : DispatchCleanup(R, kind) \/ RetryCleanup(R, kind)
    BY <1>1 DEF CloseIntent, BindingIntent, CleanupIntent, CleanupKinds
  <2> QED BY <2>1, DispatchCommand DEF Plain
<1>2. CASE CloseUncertain \/ BindingUncertain
  BY <1>2, ManagedIds DEF CloseUncertain, BindingUncertain, Plain
<1>3. CASE CloseReceipt \/ BindingReceipt
  BY <1>3, ManagedIds DEF CloseReceipt, BindingReceipt, Plain
<1>4. CASE SettleRun
  <2>1. Settle(R, live.final) /\ live.finish = "settle"
    BY <1>4 DEF SettleRun
  <2>2. live.final \in Outcomes
    BY <2>1, LiveFields DEF MaybeOutcome, Sane, Told
  <2> QED BY <2>1, <2>2 DEF Plain, Finish
<1>5. CASE Rests
  BY <1>5 DEF Rests, Plain
<1> QED BY <1>1, <1>2, <1>3, <1>4, <1>5 DEF Closing, Cleanup, CloseSession, Join, Drain, Release, Final


\* The run has left the queue.
Begun == run[R].phase \notin {"absent", "queued"}

\* No command puts a run back into the queue.
LEMMA BegunStays ==
  ASSUME IInv, [Next]_vars, Begun
  PROVE  Begun'
<1>0. R \in Runs /\ run \in [Runs -> RunRecord]
  BY ManagedAssumption DEF IInv, TypeOK
<1>1. CASE run' = run
  BY <1>1 DEF Begun
<1>2. ASSUME NEW s \in Runs, LegalCommit(s) PROVE Begun'
  <2>1. PICK next \in RunRecord, ledger \in [OpIds -> OpRecord] :
          LegalStep(s, next) /\ Commit(s, next, ledger)
    BY <1>2 DEF LegalCommit
  <2>2. CASE s = R
    <3>1. run'[R] = next
      BY <1>0, <2>1, <2>2 DEF Commit
    <3> QED BY <2>1, <2>2, <3>1 DEF LegalStep, Begun
  <2>3. CASE s # R
    BY <1>0, <2>1, <2>3 DEF Commit, Begun
  <2> QED BY <2>2, <2>3
<1>3. ASSUME NEW t \in Tasks, NEW s \in Runs, AdmitRun(t, s) PROVE Begun'
  <2>1. s # R
    BY <1>3 DEF AdmitRun, Admitted, Begun
  <2> QED BY <1>0, <1>3, <2>1 DEF AdmitRun, Begun
<1>4. CASE UNCHANGED vars
  BY <1>1, <1>4 DEF vars
<1>5. CASE Next
  BY <1>1, <1>2, <1>3, <1>5, StepKinds DEF AcquireOwner, ReleaseOwner, RetireRecovery
<1> QED BY <1>4, <1>5

\* The turn has been entered: by the live run that says so, or by one that died, and
\* then no other run of code can be started for it.
TurnTrue ==
  /\ turns \in {0, 1}
  /\ live.main # "none" => Begun
  /\ turns = 1 => Begun /\ (live.started \/ live.main = "none")

\* The inductive invariant of the live run.
ManagedInv == IInv /\ Sane(live) /\ TurnTrue

\* The empty live record.
LEMMA NoLiveSane == Sane(NoLive) /\ NoLive.main = "none" /\ ~NoLive.started
<1> DEFINE entry == [pc |-> "none", request |-> NoRequest, result |-> "none", phase |-> "absent"]
           controls == [c \in Serialized |-> entry]
           eligibilities == [q \in Requests |-> "none"]
           resolutions == [q \in Requests |-> NoControl]
           zero == 0
           tail == <<>>
           none == {}
<1>1. entry \in Control
  BY DEF Control, Places, Results, Phases, MaybeRequest
<1>2. controls \in ControlTable /\ eligibilities \in EligibilityTable /\ resolutions \in ResolutionTable
  BY <1>1 DEF ControlTable, EligibilityTable, ResolutionTable, Eligibilities
<1>3. zero \in Tries /\ tail \in ControlTails /\ none \in CallSets /\ none \in SUBSET Requests
  BY DEF Tries, ControlTails, CallSets
<1>4. \A c \in Serialized : controls[c].pc = "none"
  OBVIOUS
<1>5. NoLive =
  [main |-> "none", registered |-> FALSE, execution |-> "none", resources |-> "none",
   session |-> "none", configured |-> "none", stream |-> FALSE, started |-> FALSE,
   recorded |-> FALSE, read |-> "none", ended |-> FALSE, aborted |-> FALSE,
   uncertain |-> "none", control |-> controls,
   tail |-> tail, calls |-> none, request |-> NoRequest, next |-> NoRequest,
   eligibility |-> eligibilities, shown |-> none,
   resolution |-> resolutions, asked |-> FALSE, grace |-> FALSE,
   finish |-> "none", outcome |-> "none", final |-> "none", overruled |-> "none",
   closer |-> "none", attempts |-> zero, releases |-> zero]
  BY DEF NoLive
<1>6. /\ "none" \in Mains /\ "none" \in Grants /\ "none" \in Sessions /\ "none" \in Configured
      /\ "none" \in MaybeTerminal /\ "none" \in Doubts /\ NoRequest \in MaybeRequest
      /\ "none" \in Finishes /\ "none" \in MaybeOutcome /\ "none" \in Closers
  BY DEF Mains, Grants, Sessions, Configured, MaybeTerminal, Doubts, MaybeRequest, Finishes,
         MaybeOutcome, Closers
<1> HIDE DEF entry, controls, eligibilities, resolutions, zero, tail, none
<1>7. NoLive \in LiveRecord
  BY <1>2, <1>3, <1>5, <1>6 DEF LiveRecord
<1>8. /\ NoLive.main = "none" /\ ~NoLive.started /\ NoLive.finish = "none"
      /\ NoLive.control = controls
  BY <1>5
<1>9. HeadHolds(NoLive)
  BY <1>4, <1>8 DEF HeadHolds, Holds
<1> QED BY <1>7, <1>8, <1>9 DEF Sane, Told

\* A launch begins the code of a run; the entry of the turn is noted.
LEMMA LaunchSane ==
  ASSUME NEW m, m = [NoLive EXCEPT !.main = "claimed"]
  PROVE  Sane(m) /\ m.main = "claimed" /\ ~m.started
<1>1. NoLive \in LiveRecord /\ Sane(NoLive) /\ "claimed" \in Mains
  BY NoLiveSane DEF Sane, Mains
<1>2. m \in LiveRecord
  BY <1>1 DEF LiveRecord
<1>3. /\ m.control = NoLive.control /\ m.tail = NoLive.tail /\ m.started = NoLive.started
      /\ m.main = "claimed" /\ SameEnd(NoLive, m)
  BY <1>1 DEF LiveRecord, SameEnd
<1> QED BY <1>1, <1>2, <1>3, NoLiveSane, StillTold DEF Sane, HeadHolds, Holds

\* Marking the turn as entered keeps the record sane.
LEMMA EnterSane ==
  ASSUME NEW l, Sane(l), NEW m, m = [l EXCEPT !.started = TRUE]
  PROVE  Sane(m) /\ m.main = l.main /\ m.started
<1>1. l \in LiveRecord
  BY DEF Sane
<1>2. m \in LiveRecord
  BY <1>1 DEF LiveRecord
<1>3. /\ m.control = l.control /\ m.tail = l.tail /\ m.started /\ m.next = l.next
      /\ m.main = l.main /\ SameEnd(l, m)
  BY <1>1 DEF LiveRecord, SameEnd
<1> QED BY <1>2, <1>3, StillTold DEF Sane, HeadHolds, Holds

\* The steps that go on with the code that runs.
Continues ==
  \/ Prepare \/ Reader \/ Output \/ Client
  \/ \E c \in Steers : Steering(c)
  \/ \E c \in Answers : Answering(c)
  \/ CancelLive \/ Cancellation \/ GraceExpires
  \/ CallReturns \/ HostReturn \/ \E q \in Requests : HostFails(q)
  \/ Closing \/ Cleanup

\* Every step after the launch moves the record.
LEMMA ContinuesMoves ==
  ASSUME Sane(live), TypeOK, Continues
  PROVE  Moves(live, live') /\ (Plain \/ Asks) /\ (Next \/ UNCHANGED vars)
<1>1. Moves(live, live')
  BY PrepareMoves, ReaderMoves, OutputMoves, ClientMoves, SteeringMoves, AnsweringMoves,
     CancellationMoves, HostMoves, ClosingMoves, CleanupMoves DEF Continues, HostReturn
<1>2. Plain \/ Asks
  BY PrepareStore, ReaderStore, ControlStore, CancelStore, CleanupStore DEF Continues, HostReturn
<1>3. Next \/ UNCHANGED vars
  BY <1>2, PlainCommand, AsksStore
<1> QED BY <1>1, <1>2, <1>3

\* The kinds of steps.
LEMMA ManagedKinds ==
  ASSUME ManagedNext
  PROVE  \/ EnterTurn
         \/ UNCHANGED turns /\ (Begin \/ Continues \/ Crash)
BY DEF ManagedNext, Continues

\* A launch takes the run from the queue.
LEMMA LaunchBegins == ASSUME IInv, Launch PROVE Begun' /\ ~Begun
<1>1. R \in Runs /\ run \in [Runs -> RunRecord]
  BY ManagedAssumption DEF IInv, TypeOK
<1> DEFINE next == [run[R] EXCEPT !.phase = "preparing", !.preparation = "intended",
                                  !.ownerEpoch = owner, !.operations = @ + 1]
<1>2. run[R].phase = "queued" /\ run' = [run EXCEPT ![R] = next]
  BY DEF Launch, DispatchPrepare, Commit
<1>3. next.phase = "preparing"
  BY <1>1 DEF RunRecord
<1> HIDE DEF next
<1> QED BY <1>1, <1>2, <1>3 DEF Begun

\* The invariant holds before the launch.
LEMMA InitManaged == ManagedInit => ManagedInv
<1> SUFFICES ASSUME ManagedInit PROVE ManagedInv
  OBVIOUS
<1>1. IInv
  BY InitIInv DEF ManagedInit
<1> QED BY <1>1, NoLiveSane DEF ManagedInit, ManagedInv, TurnTrue

\* Every step keeps the invariant and is a step of the store.
LEMMA NextManaged ==
  ManagedInv /\ [ManagedNext]_managedVars => ManagedInv' /\ [Next]_vars
<1> SUFFICES ASSUME ManagedInv, [ManagedNext]_managedVars PROVE ManagedInv' /\ [Next]_vars
  OBVIOUS
<1>0. IInv /\ TypeOK /\ Sane(live) /\ TurnTrue
  BY DEF ManagedInv, IInv
<1>1. CASE UNCHANGED managedVars
  <2>1. UNCHANGED vars /\ live' = live /\ turns' = turns
    BY <1>1 DEF managedVars
  <2>2. run' = run
    BY <2>1 DEF vars
  <2>3. TurnTrue'
    BY <1>0, <2>1, <2>2 DEF TurnTrue, Begun
  <2>4. IInv'
    BY <1>0, <2>1, NextIInv
  <2> QED BY <1>0, <2>1, <2>3, <2>4 DEF ManagedInv
<1>2. CASE EnterTurn
  <2>1. /\ UNCHANGED vars /\ live' = [live EXCEPT !.started = TRUE] /\ turns' = turns + 1
        /\ live.main # "none" /\ ~live.started
    BY <1>2 DEF EnterTurn, Rests
  <2>2. Sane(live)' /\ live'.main = live.main /\ live'.started
    BY <1>0, <2>1, EnterSane
  <2>3. turns = 0 /\ Begun
    BY <1>0, <2>1 DEF TurnTrue
  <2>4. IInv' /\ Begun'
    BY <1>0, <2>1, <2>3, NextIInv, BegunStays
  <2>5. TurnTrue'
    BY <2>1, <2>2, <2>3, <2>4 DEF TurnTrue
  <2> QED BY <2>1, <2>2, <2>4, <2>5 DEF ManagedInv
<1>3. CASE UNCHANGED turns /\ Launch
  <2>1. Sane(live)' /\ live'.main # "none"
    BY <1>3, LaunchSane DEF Launch
  <2>2. Begun' /\ ~Begun
    BY <1>0, <1>3, LaunchBegins
  <2>3. turns' = 0
    BY <1>0, <1>3, <2>2 DEF TurnTrue
  <2>4. Next
    BY <1>3, BeginStore DEF Begin
  <2>5. IInv'
    BY <1>0, <2>4, NextIInv
  <2> QED BY <2>1, <2>2, <2>3, <2>4, <2>5 DEF ManagedInv, TurnTrue
<1>4. CASE UNCHANGED turns /\ Begin /\ ~Launch
  <2>1. Next
    BY <1>4, BeginStore
  <2>2. live' = live /\ turns' = turns
    BY <1>4 DEF Begin, RejectQueued, Recover
  <2>3. IInv' /\ (Begun => Begun')
    BY <1>0, <2>1, NextIInv, BegunStays
  <2>4. TurnTrue'
    BY <1>0, <2>2, <2>3 DEF TurnTrue
  <2> QED BY <1>0, <2>1, <2>2, <2>3, <2>4 DEF ManagedInv
<1>5. CASE UNCHANGED turns /\ Continues
  <2>1. Moves(live, live') /\ [Next]_vars
    BY <1>0, <1>5, ContinuesMoves
  <2>2. IInv' /\ (Begun => Begun')
    BY <1>0, <2>1, NextIInv, BegunStays
  <2>3. TurnTrue'
    BY <1>0, <1>5, <2>1, <2>2 DEF TurnTrue, Moves, Calm
  <2> QED BY <2>1, <2>2, <2>3 DEF ManagedInv, Moves
<1>6. CASE UNCHANGED turns /\ Crash
  <2>1. Next /\ live' = NoLive
    BY <1>6 DEF Crash, Next
  <2>2. IInv' /\ (Begun => Begun')
    BY <1>0, <2>1, NextIInv, BegunStays
  <2>3. Sane(live)' /\ live'.main = "none"
    BY <2>1, NoLiveSane
  <2>4. TurnTrue'
    BY <1>0, <1>6, <2>2, <2>3 DEF TurnTrue
  <2> QED BY <2>1, <2>2, <2>3, <2>4 DEF ManagedInv
<1> QED BY <1>1, <1>2, <1>3, <1>4, <1>5, <1>6, ManagedKinds

--------------------------------------------------------------------------------
(* The theorems *)

\* The inductive invariant holds of every reachable state of a live run.
THEOREM ManagedInvariant == ManagedSpec => []ManagedInv
BY InitManaged, NextManaged, PTL DEF ManagedSpec

\* Every record the live run keeps (execution/state.ts) is well formed.
THEOREM ManagedTyped == ManagedSpec => []ManagedTypeOK
<1>1. ManagedInv => ManagedTypeOK
  BY DEF ManagedInv, IInv, Sane, TurnTrue, ManagedTypeOK
<1> QED BY <1>1, ManagedInvariant, PTL

\* A live run sends the store only commands the planner takes, in every interleaving
\* of pump, reader, controls, cleanup and crash: what is proved of the store is true
\* of the store it journals in.
THEOREM ManagedImplementsStore == ManagedSpec => Spec
<1>1. ManagedInit => Init
  BY DEF ManagedInit
<1> QED BY <1>1, NextManaged, ManagedInvariant, PTL DEF ManagedSpec, Spec

\* Delegation's promise about its runs (RunContract) survives the whole execution: pump,
\* reader, controls, cleanup, deaths of the owner and recovery of what they left.
THEOREM ManagedKeepsPromise == ManagedSpec => RunPromise
BY ManagedImplementsStore, StoreKeepsPromise, PTL

\* The provider enters a run's turn at most once, however often the owner dies
\* (scheduler.ts, recovery.ts, stream.ts).
THEOREM TurnEnteredOnce == ManagedSpec => []OneTurn
<1>1. ManagedInv => OneTurn
  BY DEF ManagedInv, TurnTrue, OneTurn
<1> QED BY <1>1, ManagedInvariant, PTL

\* Steering, answers and cancellation take turns (control.ts, serializeControl).
THEOREM ControlsSerialized == ManagedSpec => []HeadHolds(live)
<1>1. ManagedInv => HeadHolds(live)
  BY SMTT(30) DEF ManagedInv, Sane
<1> QED BY <1>1, ManagedInvariant, PTL

--------------------------------------------------------------------------------
(* Order: what is over before anything is given back, and what was read before *)
(* anything is reported                                                        *)

\* The session is not open yet.
Early == {"none", "claimed", "start", "execution", "resources", "opening"}
\* The turn cannot have been entered, or was refused.
BeforeTurn == Early \cup
  {"configure", "configuring", "configured", "verifying", "prepared", "turn_intent",
   "turn_start", "turn_rejected", "rejected", "fail"}
\* A control is in the middle of its work.
Busy == {"intent", "call", "wait", "receipt", "after"}
\* What a cancellation of unknown effect does not replace.
GoodOutcomes == {"succeeded", "provider_terminal"}

\* Before the session opens there is nothing to finish, nothing shown, called or read.
Unopened(l) ==
  l.main \in Early =>
    /\ l.session = "none" /\ l.shown = {} /\ l.calls = {} /\ ~l.stream /\ l.finish = "none"
    /\ \A c \in Serialized : l.control[c].pc \notin Busy

\* A lifetime that is finishing is aborted, and after the join no call is under way.
Joined(l) ==
  /\ l.finish # "none" => l.aborted
  /\ l.finish \notin {"none", "join"} =>
       /\ l.calls = {}
       /\ \A c \in Steers \cup Answers : l.control[c].pc \notin Busy

\* Only finishRun closes, and what it closed is not open.
Shut(l) ==
  /\ l.closer # "none" => l.finish # "none"
  /\ l.closer = "closed" => l.session # "open"

\* What is given back is given back by a cleanup that found everything quiet.
GivenBack(l) ==
  /\ \/ l.finish \in {"resources", "close_receipt", "binding_receipt", "execution"}
     \/ l.resources = "released" \/ l.execution = "released"
     => l.finish \notin {"none", "join"} /\ l.closer = "closed" /\ ~l.stream
  /\ l.finish \in {"close_receipt", "binding_receipt", "execution"} \/ l.execution = "released"
     => l.resources # "held"

\* Output comes from a turn that was entered, and is being read until the stream ends; no
\* request is shown after the abort.
TurnFirst(l) ==
  /\ l.main \in {"reading", "routing", "presenting", "retiring"} => l.stream
  /\ l.main \in BeforeTurn => ~l.started
  /\ l.recorded \/ l.read # "none" => l.started
  /\ l.aborted => l.shown = {}

\* The first outcome asked for is unknown, or what the reader took, or that of a turn
\* that was never entered.
Reported(l) ==
  l.finish # "none" /\ l.outcome # "recovery_required" =>
    /\ l.started => l.read # "none" /\ l.outcome = OutcomeOf(l.read)
    /\ ~l.started => l.outcome = "failed"

Clean(l) == l.closer = "closed" /\ l.resources # "held" /\ l.execution # "held"

\* The outcome that is sent is the one asked for, over a complete cleanup, or unknown.
Decided(l) ==
  /\ l.finish \in {"final", "settle", "done"} => l.closer \in {"closed", "gave_up"}
  /\ l.finish \in {"settle", "done"} =>
       \/ l.final = "recovery_required"
       \/ l.final = l.outcome /\ Clean(l)

\* While nothing ends the run, a doubt has somebody who will: a preparation that fails, an
\* answer whose receipt is due, a cancellation.  Only a steering's doubt has nobody.
OpenDoubt(l) ==
  l.finish = "none" =>
    /\ l.uncertain = "dispatch" => l.main \in {"rejected", "fail"}
    /\ l.uncertain = "request" =>
         \E c \in Answers : l.control[c].pc = "receipt" /\ l.control[c].result = "uncertain"
    /\ l.uncertain = "cancellation" => l.control["cancel"].pc # "none" \/ l.aborted

\* A steering of unknown effect is about to be recorded or has been; "lost" stands for the
\* recovery mark of the run.
SteeringDoubt(l, lost) ==
  l.uncertain = "steering" =>
    \/ lost
    \/ \E c \in Steers : l.control[c].pc = "receipt" /\ l.control[c].result = "uncertain"

\* A result of unknown effect waits for its receipt or has been recorded.
ResultsRecorded(l, lost) ==
  \A c \in Steers \cup Answers :
    l.control[c].result = "uncertain" => l.control[c].pc = "receipt" \/ lost

\* Only a failed cleanup, a recorded doubt, or a lost callback or output replaces a good
\* outcome.
KeptResult(l, lost) ==
  l.finish \in {"settle", "done"} /\ l.outcome \in GoodOutcomes /\ l.final # l.outcome
    => ~Clean(l) \/ lost \/ l.overruled \in {"request", "dispatch"}

Orderly(l, lost) ==
  /\ Unopened(l) /\ Joined(l) /\ Shut(l) /\ GivenBack(l)
  /\ TurnFirst(l) /\ Reported(l) /\ Decided(l) /\ OpenDoubt(l)
  /\ SteeringDoubt(l, lost) /\ ResultsRecorded(l, lost) /\ KeptResult(l, lost)

\* A run that is done stays done, with its outcome and the results it knows.
DoneStays(l, m) ==
  l.finish = "done" =>
    /\ m.finish = "done" /\ m.final = l.final
    /\ \A c \in Steers \cup Answers :
         m.control[c].result = "uncertain" => l.control[c].result = "uncertain"

\* What a wait goes by is left alone: no end of the finish, the abort or the cancellation
\* is taken back, and no other step touches the request and its eligibility.
StillWaits(l, m) ==
  /\ m.main # "none" => l.main # "none"
  /\ m.finish = "none" => l.finish = "none"
  /\ m.finish = "none" =>
       /\ m.request = l.request /\ m.eligibility = l.eligibility
       /\ ~m.aborted => ~l.aborted /\ m.shown = l.shown
       /\ m.control["cancel"].pc = "none" => l.control["cancel"].pc = "none"
       /\ \A c \in Answers : l.control[c].pc = "intent" =>
            m.control[c].pc = "intent" /\ m.control[c].request = l.control[c].request
       /\ l.main = "retiring" => m.main = "retiring" /\ m.next = l.next

\* An answer is in the ledger.
InFlight == {"call", "wait", "receipt"}
StillAnswers(l, m) ==
  \A c \in Answers : m.control[c].pc \in InFlight =>
    l.control[c].pc \in InFlight /\ m.control[c].request = l.control[c].request

\* What a step does to all of this.
Ordered(lost) ==
  /\ Orderly(live', lost) /\ DoneStays(live, live')
  /\ live'.finish = "done" => live.finish = "done" \/ SettleRun
  /\ Asks \/ StillWaits(live, live')
  /\ StillAnswers(live, live') \/ \E c \in Answers : AnswerIntent(c)

\* The order is kept by prepareRun,
LEMMA OrderedPrepare ==
  ASSUME live \in LiveRecord, NEW lost \in BOOLEAN, Orderly(live, lost), Prepare
  PROVE  Ordered(lost)
<1> USE DEF LiveRecord, Ordered, Orderly, Early, BeforeTurn, Busy, GoodOutcomes,
            Unopened, Joined, Shut, GivenBack, TurnFirst, Reported, Clean, Decided, OpenDoubt,
            SteeringDoubt, ResultsRecorded, KeptResult, DoneStays, StillWaits, StillAnswers, InFlight
<1>1. CASE Register
  BY <1>1 DEF Register
<1>2. CASE Start
  <2>1. PICK pc \in {"execution", "rejected"} : live.main = "start" /\ live' = [live EXCEPT !.main = pc]
    BY <1>2 DEF Start, Gate
  <2> QED BY <2>1
<1>3. CASE Acquire("execution", "resources")
  <2>1. ASSUME NEW after \in {"resources", "rejected"}, live.main = "execution",
               live' = [live EXCEPT !.execution = "held", !.main = after]
        PROVE  Ordered(lost)
    BY <2>1
  <2>2. ASSUME live.main = "execution", live' = [live EXCEPT !.main = "rejected"]
        PROVE  Ordered(lost)
    BY <2>2
  <2> HIDE DEF Ordered, Orderly
  <2> QED BY <1>3, <2>1, <2>2 DEF Acquire, Gate
<1>4. CASE Acquire("resources", "opening")
  <2>1. ASSUME NEW after \in {"opening", "rejected"}, live.main = "resources",
               live' = [live EXCEPT !.resources = "held", !.main = after]
        PROVE  Ordered(lost)
    BY <2>1
  <2>2. ASSUME live.main = "resources", live' = [live EXCEPT !.main = "rejected"]
        PROVE  Ordered(lost)
    BY <2>2
  <2> HIDE DEF Ordered, Orderly
  <2> QED BY <1>4, <2>1, <2>2 DEF Acquire, Gate
<1>5. CASE Open
  <2>1. ASSUME NEW after \in Gate(IF Configures = {} THEN "verifying" ELSE "configure"),
               live' = [live EXCEPT !.session = "open", !.main = after]
        PROVE  Ordered(lost)
    <3>1. after \in {"verifying", "configure", "rejected"}
      BY <2>1 DEF Gate
    <3>2. live.main = "opening"
      BY <1>5 DEF Open
    <3> QED BY SMTT(30), <2>1, <3>1, <3>2
  <2>2. CASE live' = [live EXCEPT !.main = "rejected"]
    BY <1>5, <2>2 DEF Open
  <2>3. CASE live' = [live EXCEPT !.session = "rejected", !.main = "rejected"]
    BY <1>5, <2>3 DEF Open
  <2> QED BY <1>5, <2>1, <2>2, <2>3 DEF Open
<1>6. CASE ConfigureIntent
  BY <1>6 DEF ConfigureIntent
<1>7. CASE ConfigureCall
  <2>1. CASE live' = [live EXCEPT !.main = "rejected"]
    BY <1>7, <2>1 DEF ConfigureCall
  <2>2. CASE live' = [live EXCEPT !.main = "rejected", !.uncertain = "dispatch"]
    BY <1>7, <2>2 DEF ConfigureCall
  <2>3. ASSUME NEW result, live' = [live EXCEPT !.main = "configured", !.configured = result]
        PROVE  Ordered(lost)
    BY <1>7, <2>3 DEF ConfigureCall
  <2> HIDE DEF Ordered, Orderly
  <2> QED BY <1>7, <2>1, <2>2, <2>3 DEF ConfigureCall
<1>8. CASE ConfigureReceipt
  <2> DEFINE reason == IF live.configured = "uncertain" THEN "dispatch" ELSE live.uncertain
             ways == IF live.configured = "completed" THEN Gate("verifying") ELSE {"rejected"}
  <2>1. live.main = "configured" /\ \E pc \in ways : live' = [live EXCEPT !.main = pc, !.uncertain = reason]
    BY <1>8 DEF ConfigureReceipt
  <2>2. \A pc \in ways : pc \in {"verifying", "rejected"}
    BY DEF Gate
  <2>4. \A pc \in ways : reason = "dispatch" => pc = "rejected" \/ live.uncertain = "dispatch"
    OBVIOUS
  <2>5. reason = "dispatch" \/ reason = live.uncertain
    OBVIOUS
  <2> HIDE DEF reason, ways
  <2>3. PICK pc \in ways : live' = [live EXCEPT !.main = pc, !.uncertain = reason]
    BY <2>1
  <2> QED BY <2>1, <2>2, <2>3, <2>4, <2>5
<1>9. CASE Verify
  BY <1>9 DEF Verify, Gate
<1>10. CASE PrepareReceipt
  BY <1>10 DEF PrepareReceipt
<1>11. CASE TurnIntent
  BY <1>11 DEF TurnIntent
<1>12. CASE StartTurn
  <2>1. CASE ~live.aborted /\ live' = [live EXCEPT !.main = "reading", !.stream = TRUE]
    BY <1>12, <2>1 DEF StartTurn
  <2>2. CASE live' = [live EXCEPT !.main = "fail"]
    BY <1>12, <2>2 DEF StartTurn
  <2> QED BY <1>12, <2>1, <2>2 DEF StartTurn
<1>13. CASE RejectPreparation
  BY <1>13 DEF RejectPreparation
<1>14. CASE Fail
  BY SMTT(30), <1>14 DEF Fail, FinishRun, Abort
<1> QED
  BY <1>1, <1>2, <1>3, <1>4, <1>5, <1>6, <1>7, <1>8, <1>9, <1>10, <1>11, <1>12, <1>13, <1>14
  DEF Prepare

\* by the reader,
LEMMA OrderedReader ==
  ASSUME live \in LiveRecord, NEW lost \in BOOLEAN, Orderly(live, lost), Reader \/ Output \/ EnterTurn
  PROVE  Ordered(lost)
<1> USE DEF LiveRecord, Ordered, Orderly, Early, BeforeTurn, Busy, GoodOutcomes,
            Unopened, Joined, Shut, GivenBack, TurnFirst, Reported, Clean, Decided, OpenDoubt,
            SteeringDoubt, ResultsRecorded, KeptResult, DoneStays, StillWaits, StillAnswers, InFlight
<1>1. CASE RecordStart
  BY <1>1 DEF RecordStart
<1>2. CASE RouteRequest
  <2>1. CASE live' = Reads(live)
    BY <1>2, <2>1 DEF RouteRequest, Reads
  <2>2. CASE live' = [live EXCEPT !.main = "presenting"]
    BY <1>2, <2>2 DEF RouteRequest
  <2> QED BY <1>2, <2>1, <2>2 DEF RouteRequest
<1>3. CASE PresentRequest
  <2>0. Asks
    BY <1>3 DEF Asks
  <2> DEFINE q == live.next
             shows == IF live.aborted THEN {} ELSE {q}
  <2>1. ASSUME NEW new, live.aborted => new = {}, live.main = "presenting",
               live' = [Reads(live) EXCEPT !.request = q, !.eligibility[q] = "waiting",
                          !.shown = @ \cup new, !.calls = @ \cup new]
        PROVE  Ordered(lost)
    BY <2>0, <2>1 DEF Reads
  <2>2. CASE live' = ReaderError(Reads(live), FALSE)
    BY <1>3, <2>0, <2>2 DEF PresentRequest, ReaderError, Reads, FinishRun, Abort, Uncertain
  <2>3. live.main = "presenting" /\ (live.aborted => shows = {})
    BY <1>3 DEF PresentRequest
  <2>4. \/ live' = ReaderError(Reads(live), FALSE)
        \/ live' = [Reads(live) EXCEPT !.request = q, !.eligibility[q] = "waiting",
                          !.shown = @ \cup shows, !.calls = @ \cup shows]
    BY <1>3 DEF PresentRequest
  <2> HIDE DEF Ordered, shows, q
  <2> QED BY <2>1, <2>2, <2>3, <2>4
<1>4. CASE RecordUnavailable
  <2>0. Asks
    BY <1>4 DEF Asks
  <2> QED BY <1>4, <2>0 DEF RecordUnavailable, Reads
<1>5. CASE RejectTurn
  BY <1>5 DEF RejectTurn, FinishRun, Abort
<1>6. ASSUME NEW q \in Requests, ReadRequest(q) PROVE Ordered(lost)
  BY <1>6 DEF ReadRequest, Emits
<1>7. ASSUME NEW q \in Requests, ReadUnavailable(q) PROVE Ordered(lost)
  <2>0. Asks
    BY <1>7 DEF Asks
  <2>1. PICK table : /\ live.main = "reading"
                     /\ live' = [live EXCEPT !.main = "retiring", !.next = q, !.shown = @ \ {q},
                                             !.eligibility = table]
    BY <1>7 DEF ReadUnavailable, Emits
  <2> QED BY <2>0, <2>1
<1>8. ASSUME NEW terminal \in Terminals, ReadTerminal(terminal) PROVE Ordered(lost)
  <2>1. CASE live' = [live EXCEPT !.read = terminal]
    BY <1>8, <2>1 DEF ReadTerminal, Emits
  <2>2. CASE live' = FinishRun([live EXCEPT !.read = terminal, !.ended = TRUE], OutcomeOf(terminal))
    BY <1>8, <2>2 DEF ReadTerminal, Emits, FinishRun, Abort, Terminals, OutcomeOf
  <2>3. live' = [live EXCEPT !.read = terminal]
        \/ live' = FinishRun([live EXCEPT !.read = terminal, !.ended = TRUE], OutcomeOf(terminal))
    BY <1>8 DEF ReadTerminal
  <2> QED BY <2>1, <2>2, <2>3
<1>9. CASE EndOfOutput
  BY <1>9 DEF EndOfOutput, FinishRun, Abort
<1>10. CASE OutputFails
  <2>1. ASSUME NEW aborting \in BOOLEAN, live.main = "reading", live' = ReaderError(live, aborting)
        PROVE  Ordered(lost)
    BY <2>1 DEF ReaderError, FinishRun, Abort, Uncertain
  <2> HIDE DEF Ordered
  <2> QED BY <1>10, <2>1 DEF OutputFails
<1>11. CASE EnterTurn
  BY SMTT(30), <1>11 DEF EnterTurn
<1> QED BY <1>1, <1>2, <1>3, <1>4, <1>5, <1>6, <1>7, <1>8, <1>9, <1>10, <1>11
        DEF Reader, Output

\* by hosts and callers,
LEMMA OrderedClient ==
  ASSUME live \in LiveRecord, NEW lost \in BOOLEAN, Orderly(live, lost),
         \/ Client \/ CancelLive \/ GraceExpires \/ CallReturns
         \/ \E q \in Requests : HostReturns(q) \/ HostFails(q)
  PROVE  Ordered(lost)
<1> USE DEF LiveRecord, Ordered, Orderly, Early, BeforeTurn, Busy, GoodOutcomes,
            Unopened, Joined, Shut, GivenBack, TurnFirst, Reported, Clean, Decided, OpenDoubt,
            SteeringDoubt, ResultsRecorded, KeptResult, DoneStays, StillWaits, StillAnswers, InFlight
<1>0. "cancel" \notin Steers \cup Answers
  BY ManagedAssumption, ControlsAssumption DEF FixedIds, CriticalKinds
<1>1. ASSUME NEW q \in Requests, HostReturns(q) PROVE Ordered(lost)
  BY <1>1 DEF HostReturns
<1>2. ASSUME NEW q \in Requests, HostFails(q) PROVE Ordered(lost)
  <2>1. CASE live.finish # "none"
    <3>1. live' = [live EXCEPT !.calls = @ \ {q}, !.uncertain = "request"]
      BY <1>2, <2>1 DEF HostFails, FinishRun, Uncertain
    <3> QED BY <2>1, <3>1
  <2>2. CASE live.finish = "none"
    <3>1. live' = [live EXCEPT !.calls = @ \ {q}, !.uncertain = "request", !.finish = "join",
                     !.outcome = "recovery_required", !.request = NoRequest, !.grace = FALSE,
                     !.closer = "close_intent", !.attempts = 1, !.aborted = TRUE, !.shown = {}]
      BY <1>2, <2>2 DEF HostFails, FinishRun, Abort, Uncertain
    <3>2. live.main \notin Early
      BY <1>2 DEF HostFails
    <3> QED BY <2>2, <3>1, <3>2
  <2> QED BY <2>1, <2>2
<1>3. ASSUME NEW c \in Steers, AskSteer(c) PROVE Ordered(lost)
  BY <1>3 DEF AskSteer, Queue, At, ControlTable, Control, Serialized
<1>4. ASSUME NEW c \in Answers, NEW q \in Requests, AskAnswer(c, q) PROVE Ordered(lost)
  BY <1>4 DEF AskAnswer, Queue, At, ControlTable, Control, Serialized
<1>5. CASE UserCancel
  BY <1>5 DEF UserCancel
<1>6. CASE CancelLive
  BY <1>0, <1>6 DEF CancelLive, Cancelling, Queue, ControlTable, Control, Serialized
<1>7. CASE GraceExpires
  BY <1>7 DEF GraceExpires, Abort, Uncertain
<1>8. ASSUME NEW c \in Serialized, CallEnds(c) PROVE Ordered(lost)
  BY <1>8 DEF CallEnds
<1> QED BY <1>1, <1>2, <1>3, <1>4, <1>5, <1>6, <1>7, <1>8 DEF Client, CallReturns

\* by steering,
LEMMA OrderedSteering ==
  ASSUME live \in LiveRecord, NEW lost \in BOOLEAN, Orderly(live, lost), NEW c \in Steers, Steering(c),
         SteerReceipt(c) /\ live.control[c].result = "uncertain" => lost
  PROVE  Ordered(lost)
<1> USE DEF LiveRecord, ControlTable, Control, Serialized, Ordered, Orderly, Early, BeforeTurn,
            Busy, GoodOutcomes,
            Unopened, Joined, Shut, GivenBack, TurnFirst, Reported, Clean, Decided, OpenDoubt,
            SteeringDoubt, ResultsRecorded, KeptResult, DoneStays, StillWaits, StillAnswers, InFlight
<1>0. c \notin Answers
  BY ManagedAssumption
<1>1. CASE BeginSteer(c)
  <2>1. CASE ~Finishing /\ live.stream /\ Goes(c, "intent")
    BY <1>1, <2>1 DEF BeginSteer, At, Finishing, Goes
  <2>2. CASE live' = Leave(live, c)
    BY <1>1, <2>2 DEF BeginSteer, At, Leave
  <2> QED BY <1>1, <2>1, <2>2 DEF BeginSteer
<1>2. CASE SteerIntent(c)
  <2>1. CASE Goes(c, "call")
    <3>1. live.control[c].pc = "intent"
      BY <1>2 DEF SteerIntent, At
    <3> QED BY <1>0, <2>1, <3>1 DEF Goes
  <2>2. CASE live' = Leave(live, c)
    <3>1. live.control[c].pc = "intent"
      BY <1>2 DEF SteerIntent, At
    <3> QED BY <1>0, <2>2, <3>1 DEF Leave
  <2> QED BY <1>2, <2>1, <2>2 DEF SteerIntent
<1>3. CASE SteerCall(c)
  <2>1. CASE ~live.aborted /\ Enters(c)
    BY <1>3, <2>1 DEF SteerCall, At, Enters
  <2>2. CASE Skips(c, "rejected")
    BY <1>3, <2>2 DEF SteerCall, At, Skips, TimedOut
  <2> QED BY <1>3, <2>1, <2>2 DEF SteerCall
<1>4. CASE SteerEnds(c)
  <2>1. ASSUME NEW result, live' = Returned(c, result) PROVE Ordered(lost)
    BY <1>4, <2>1 DEF SteerEnds, At, Returned
  <2>2. CASE live' = Uncertain(Returned(c, "uncertain"), "steering")
    BY <1>4, <2>2 DEF SteerEnds, At, Returned, Uncertain
  <2>3. CASE live' = Uncertain(TimedOut(c, "uncertain"), "steering")
    BY <1>4, <2>3 DEF SteerEnds, At, TimedOut, Uncertain
  <2> QED BY <1>4, <2>1, <2>2, <2>3 DEF SteerEnds
<1>5. CASE SteerReceipt(c)
  <2>1. /\ live.control[c].pc = "receipt" /\ live' = Leave(live, c)
        /\ live.control[c].result = "uncertain" => lost
    BY <1>5 DEF SteerReceipt, At
  <2>2. SteeringDoubt(live', lost)
    BY <2>1 DEF Leave
  <2>3. OpenDoubt(live')
    BY <1>0, <2>1 DEF Leave
  <2> HIDE DEF SteeringDoubt, OpenDoubt
  <2> QED BY <2>1, <2>2, <2>3 DEF Leave
<1> QED BY <1>1, <1>2, <1>3, <1>4, <1>5 DEF Steering

\* An answer that leaves before its call disturbs nothing but itself.
Withdrawn(c) ==
  /\ live'.control = [live.control EXCEPT ![c].pc = "done"]
  /\ live'.main = live.main /\ live'.session = live.session /\ live'.stream = live.stream
  /\ live'.execution = live.execution /\ live'.resources = live.resources
  /\ live'.started = live.started /\ live'.recorded = live.recorded /\ live'.read = live.read
  /\ live'.aborted = live.aborted /\ live'.uncertain = live.uncertain /\ live'.calls = live.calls
  /\ live'.shown = live.shown /\ live'.finish = live.finish /\ live'.outcome = live.outcome
  /\ live'.final = live.final /\ live'.overruled = live.overruled /\ live'.closer = live.closer

\* Its withdrawal keeps the order.
LEMMA OrderedWithdrawal ==
  ASSUME live \in LiveRecord, NEW lost \in BOOLEAN, Orderly(live, lost), NEW c \in Answers, Asks,
         live.control[c].pc \in {"queued", "intent"}, Withdrawn(c)
  PROVE  Ordered(lost)
<1>1. live.control \in ControlTable /\ c \in Serialized /\ Steers \cup Answers \subseteq Serialized
  BY DEF LiveRecord, Serialized
<1>2. \A d \in Serialized : /\ live'.control[d].pc = IF d = c THEN "done" ELSE live.control[d].pc
                            /\ live'.control[d].result = live.control[d].result
                            /\ live'.control[d].request = live.control[d].request
  BY <1>1 DEF Withdrawn, ControlTable, Control
<1>3. /\ Unopened(live') /\ Joined(live') /\ Shut(live') /\ GivenBack(live')
  BY <1>1, <1>2 DEF Withdrawn, Orderly, Unopened, Joined, Shut, GivenBack, Busy
<1>4. /\ TurnFirst(live') /\ Reported(live') /\ Decided(live') /\ OpenDoubt(live')
      /\ KeptResult(live', lost)
  BY DEF Withdrawn, Orderly, TurnFirst, Reported, Decided, OpenDoubt, KeptResult, Clean
<1>5. SteeringDoubt(live', lost) /\ ResultsRecorded(live', lost)
  BY <1>1, <1>2 DEF Withdrawn, Orderly, SteeringDoubt, ResultsRecorded
<1>6. DoneStays(live, live') /\ StillAnswers(live, live')
  BY <1>1, <1>2 DEF Withdrawn, DoneStays, StillAnswers, InFlight
<1>7. live'.finish = "done" => live.finish = "done"
  BY DEF Withdrawn
<1> QED BY <1>3, <1>4, <1>5, <1>6, <1>7 DEF Ordered, Orderly

\* by answers,
LEMMA OrderedAnswering ==
  ASSUME live \in LiveRecord, NEW lost \in BOOLEAN, Orderly(live, lost), NEW c \in Answers, Answering(c),
         AnswerReceipt(c) /\ live.control[c].result = "uncertain" => lost
  PROVE  Ordered(lost)
<1> USE DEF LiveRecord, ControlTable, Control, Serialized, Ordered, Orderly, Early, BeforeTurn,
            Busy, GoodOutcomes,
            Unopened, Joined, Shut, GivenBack, TurnFirst, Reported, Clean, Decided, OpenDoubt,
            SteeringDoubt, ResultsRecorded, KeptResult, DoneStays, StillWaits, StillAnswers, InFlight
<1>1. CASE BeginAnswer(c)
  <2>0. Asks
    BY <1>1 DEF Asks
  <2> DEFINE q == live.control[c].request
  <2>1. CASE /\ ~Finishing /\ live.stream
             /\ live' = [live EXCEPT !.control[c].pc = "intent", !.eligibility[q] = "claimed"]
    BY <1>1, <2>0, <2>1 DEF BeginAnswer, At, Finishing
  <2>2. CASE live' = Answered(Leave(live, c), c)
    <3>1. live.control[c].pc = "queued"
      BY <1>1 DEF BeginAnswer, At
    <3>2. Withdrawn(c)
      BY <2>2 DEF Leave, Answered, Withdrawn
    <3> QED BY <2>0, <3>1, <3>2, OrderedWithdrawal
  <2> QED BY <1>1, <2>1, <2>2 DEF BeginAnswer
<1>2. CASE AnswerIntent(c)
  <2>0. Asks /\ (\E d \in Answers : AnswerIntent(d)) /\ live.control[c].pc = "intent"
    <3>1. Asks /\ \E d \in Answers : AnswerIntent(d)
      BY <1>2 DEF Asks
    <3>2. live.control[c].pc = "intent"
      BY <1>2 DEF AnswerIntent, At
    <3> QED BY <3>1, <3>2
  <2> DEFINE q == live.control[c].request
             back == IF q \in live.shown /\ live.request = q THEN "waiting" ELSE live.eligibility[q]
  <2>1. CASE live' = [live EXCEPT !.control[c].pc = "call", !.tail = Tail(@)]
    BY <2>0, <2>1
  <2>2. ASSUME NEW table, live' = [Answered(Leave(live, c), c) EXCEPT !.eligibility = table]
        PROVE  Ordered(lost)
    <3>1. Withdrawn(c)
      BY <2>2 DEF Leave, Answered, Withdrawn
    <3> QED BY <2>0, <3>1, OrderedWithdrawal
  <2>3. ASSUME live' = [Answered(Leave(live, c), c) EXCEPT
                          !.eligibility[q] = IF q \in live.shown /\ live.request = q THEN "waiting" ELSE @]
        PROVE  \E table : live' = [Answered(Leave(live, c), c) EXCEPT !.eligibility = table]
    BY <2>3 DEF Leave, Answered
  <2> QED BY <1>2, <2>1, <2>2, <2>3 DEF AnswerIntent
<1>3. CASE AnswerCall(c)
  <2>1. CASE ~live.aborted /\ Enters(c)
    BY <1>3, <2>1 DEF AnswerCall, At, Enters
  <2>2. ASSUME NEW result, Skips(c, result) PROVE Ordered(lost)
    BY <1>3, <2>2 DEF AnswerCall, At, Skips, TimedOut
  <2> QED BY <1>3, <2>1, <2>2 DEF AnswerCall
<1>4. CASE AnswerEnds(c)
  <2>1. ASSUME NEW result, live' = Returned(c, result) PROVE Ordered(lost)
    BY <1>4, <2>1 DEF AnswerEnds, At, Returned
  <2>2. CASE live' = Uncertain(Returned(c, "uncertain"), "request")
    BY <1>4, <2>2 DEF AnswerEnds, At, Returned, Uncertain
  <2>3. CASE live' = Uncertain(TimedOut(c, "uncertain"), "request")
    BY <1>4, <2>3 DEF AnswerEnds, At, TimedOut, Uncertain
  <2>4. ASSUME NEW result, live' = TimedOut(c, result), result # "uncertain" PROVE Ordered(lost)
    BY <1>4, <2>4 DEF AnswerEnds, At, TimedOut
  <2>5. NotEntered # "uncertain"
    BY DEF NotEntered
  <2> HIDE DEF Ordered
  <2> QED BY <1>4, <2>1, <2>2, <2>3, <2>4, <2>5 DEF AnswerEnds
<1>5. CASE AnswerReceipt(c)
  <2>0. Asks
    BY <1>5 DEF Asks
  <2> QED BY <1>5, <2>0 DEF AnswerReceipt, At, Answered, FinishRun, Abort
<1> QED BY <1>1, <1>2, <1>3, <1>4, <1>5 DEF Answering

\* by the cancellation,
LEMMA OrderedCancellation ==
  ASSUME live \in LiveRecord, NEW lost \in BOOLEAN, Orderly(live, lost), Cancellation
  PROVE  Ordered(lost)
<1>0. "cancel" \notin Steers \cup Answers
  BY ManagedAssumption, ControlsAssumption DEF FixedIds, CriticalKinds
<1> USE <1>0 DEF LiveRecord, ControlTable, Control, Serialized, Ordered, Orderly, Early, BeforeTurn,
            Busy, GoodOutcomes,
            Unopened, Joined, Shut, GivenBack, TurnFirst, Reported, Clean, Decided, OpenDoubt,
            SteeringDoubt, ResultsRecorded, KeptResult, DoneStays, StillWaits, StillAnswers, InFlight
<1>1. CASE BeginCancel
  BY <1>1 DEF BeginCancel, At, Leave
<1>2. CASE CommitCancel
  <2>1. CASE Goes("cancel", "decide")
    BY <2>1 DEF Goes
  <2>2. CASE live' = Leave(live, "cancel")
    BY <2>2 DEF Leave
  <2> QED BY <1>2, <2>1, <2>2 DEF CommitCancel
<1>3. CASE DecideCancel
  BY <1>3 DEF DecideCancel, At, Leave, Abort
<1>4. CASE InterruptIntent
  <2>1. CASE Goes("cancel", "call")
    BY <1>4, <2>1 DEF InterruptIntent, At, Goes
  <2>2. CASE live' = Leave(live, "cancel")
    BY <2>2 DEF Leave
  <2> QED BY <1>4, <2>1, <2>2 DEF InterruptIntent
<1>5. CASE InterruptCall
  <2>1. CASE ~live.aborted /\ Enters("cancel")
    BY <1>5, <2>1 DEF InterruptCall, At, Enters
  <2>2. ASSUME NEW result, live' = Uncertain(TimedOut("cancel", result), "cancellation")
        PROVE  Ordered(lost)
    BY <1>5, <2>2 DEF InterruptCall, At, TimedOut, Uncertain
  <2> QED BY <1>5, <2>1, <2>2 DEF InterruptCall
<1>6. CASE InterruptEnds
  <2>1. ASSUME NEW result, live' = Returned("cancel", result) PROVE Ordered(lost)
    BY <1>6, <2>1 DEF InterruptEnds, At, Returned
  <2>2. CASE live' = Uncertain(Returned("cancel", "lost"), "cancellation")
    BY <1>6, <2>2 DEF InterruptEnds, At, Returned, Uncertain
  <2>3. CASE live' = Uncertain(TimedOut("cancel", "lost"), "cancellation")
    BY <1>6, <2>3 DEF InterruptEnds, At, TimedOut, Uncertain
  <2> QED BY <1>6, <2>1, <2>2, <2>3 DEF InterruptEnds
<1>7. CASE InterruptReceipt
  BY <1>7 DEF InterruptReceipt, At, Abort
<1>8. CASE EndCancel
  BY SMTT(30), <1>8 DEF EndCancel, At, AfterInterrupt, Leave, Uncertain, FinishRun, Abort
<1> QED BY <1>1, <1>2, <1>3, <1>4, <1>5, <1>6, <1>7, <1>8 DEF Cancellation

\* and by the cleanup.
LEMMA OrderedClosing ==
  ASSUME live \in LiveRecord, NEW lost \in BOOLEAN, Orderly(live, lost), Closing \/ Cleanup
  PROVE  Ordered(lost)
<1> USE DEF LiveRecord, Ordered, Orderly, Early, BeforeTurn, Busy, GoodOutcomes,
            Unopened, Joined, Shut, GivenBack, TurnFirst, Reported, Clean, Decided, OpenDoubt,
            SteeringDoubt, ResultsRecorded, KeptResult, DoneStays, StillWaits, StillAnswers, InFlight
<1>1. CASE CloseIntent
  BY <1>1 DEF CloseIntent
<1>2. CASE BindingIntent
  BY <1>2 DEF BindingIntent
<1>3. CASE CloseSession
  <2> DEFINE shut == IF live.session = "none" THEN "none" ELSE "closed"
  <2>1. ASSUME NEW after \in Sessions \ {"open"}, live.session = "none" => after = "none",
               live' = [live EXCEPT !.closer = "closed", !.session = after]
        PROVE  Ordered(lost)
    BY <1>3, <2>1 DEF CloseSession
  <2>2. CASE live' = [live EXCEPT !.closer = "close_uncertain"]
    BY <1>3, <2>2 DEF CloseSession
  <2>3. CASE live' = [live EXCEPT !.closer = "closed", !.session = IF @ = "none" THEN @ ELSE "closed"]
    <3>1. shut \in Sessions \ {"open"} /\ (live.session = "none" => shut = "none")
      BY DEF Sessions
    <3>2. live' = [live EXCEPT !.closer = "closed", !.session = shut]
      BY <2>3
    <3> QED BY <2>1, <3>1, <3>2
  <2> QED BY <1>3, <2>2, <2>3 DEF CloseSession
<1>4. CASE CloseUncertain
  BY <1>4 DEF CloseUncertain
<1>5. CASE BindingUncertain
  BY <1>5 DEF BindingUncertain, AfterAttempt
<1>6. CASE Join
  BY <1>6 DEF Join, ControlsSettled, Serialized
<1>7. CASE Drain
  BY <1>7 DEF Drain, Quiet
<1>8. CASE Release("resources", "close_receipt")
  <2> DEFINE back == IF live.resources = "held" THEN "released" ELSE live.resources
  <2>0. live.finish = "resources" /\ back # "held"
    BY <1>8 DEF Release
  <2>1. ASSUME live' = [live EXCEPT !.finish = "close_receipt", !.releases = 0, !.resources = back]
        PROVE  Ordered(lost)
    <3> HIDE DEF back
    <3> QED BY <2>0, <2>1
  <2>2. CASE live' = [live EXCEPT !.releases = 1]
    BY <2>0, <2>2
  <2>3. CASE live' = [live EXCEPT !.releases = 2, !.finish = "final"]
    BY <2>0, <2>3
  <2> QED BY <1>8, <2>1, <2>2, <2>3 DEF Release
<1>9. CASE CloseReceipt
  BY <1>9 DEF CloseReceipt
<1>10. CASE BindingReceipt
  BY <1>10 DEF BindingReceipt
<1>11. CASE Release("execution", "final")
  <2> DEFINE back == IF live.execution = "held" THEN "released" ELSE live.execution
  <2>0. live.finish = "execution" /\ back # "held"
    BY <1>11 DEF Release
  <2>1. ASSUME live' = [live EXCEPT !.finish = "final", !.releases = 0, !.execution = back]
        PROVE  Ordered(lost)
    <3> HIDE DEF back
    <3> QED BY <2>0, <2>1
  <2>2. CASE live' = [live EXCEPT !.releases = 1]
    BY <2>0, <2>2
  <2>3. CASE live' = [live EXCEPT !.releases = 2, !.finish = "final"]
    BY <2>0, <2>3
  <2> QED BY <1>11, <2>1, <2>2, <2>3 DEF Release
<1>12. CASE Final
  <2> DEFINE final == IF Sticky \/ ~CleanedUp THEN "recovery_required" ELSE live.outcome
             overruled == IF Sticky THEN live.uncertain ELSE "none"
  <2>1. /\ live.finish = "final"
        /\ live' = [live EXCEPT !.finish = "settle", !.final = final, !.overruled = overruled]
    BY <1>12 DEF Final
  <2>2. final = "recovery_required" \/ (final = live.outcome /\ Clean(live))
    BY DEF CleanedUp
  <2>3. final # live.outcome /\ live.outcome \in GoodOutcomes =>
          ~Clean(live) \/ overruled \in {"dispatch", "steering", "request"}
    <3>1. live.uncertain \in {"none", "dispatch", "steering", "request", "cancellation"}
      BY DEF Doubts
    <3> QED BY <3>1 DEF CleanedUp, Sticky
  <2>4. overruled = "steering" => lost
    <3>1. overruled = "steering" => live.uncertain = "steering"
      OBVIOUS
    <3> HIDE DEF overruled
    <3> QED BY <2>1, <3>1
  <2> HIDE DEF final, overruled
  <2> QED BY <2>1, <2>2, <2>3, <2>4
<1>13. CASE SettleRun
  BY <1>13 DEF SettleRun
<1> QED BY <1>1, <1>2, <1>3, <1>4, <1>5, <1>6, <1>7, <1>8, <1>9, <1>10, <1>11, <1>12, <1>13
        DEF Closing, Cleanup

--------------------------------------------------------------------------------
(* What the store remembers of a doubt and of a settlement *)

\* No command takes the recovery mark from its run.
LEMMA CommandRemembers ==
  ASSUME IInv, NEW r \in Runs, run[r].recovery,
         Dispatch(r) \/ Receipt(r) \/ Request(r) \/ Finish(r)
  PROVE  run'[r].recovery
<1>0. /\ run \in [Runs -> RunRecord] /\ run[r] \in RunRecord /\ RequestTruth(run[r])
      /\ op[r] \in [OpIds -> OpRecord] /\ ResolutionNamesRequest(op[r])
  BY DEF IInv, TypeOK, RequestsTrue
<1>1. ASSUME NEW next, NEW ledger, Commit(r, next, ledger) PROVE run'[r] = next
  BY <1>0, <1>1 DEF Commit
<1>2. ASSUME NEW rec \in RunRecord, NEW requested, rec.recovery
      PROVE  Settled(rec, requested).recovery
  BY <1>2 DEF Settled, RunRecord
<1>3. CASE Dispatch(r)
  <2>1. CASE DispatchPrepare(r)
    <3> DEFINE next == [run[r] EXCEPT !.phase = "preparing", !.preparation = "intended",
                                      !.ownerEpoch = owner, !.operations = @ + 1]
    <3>1. next.recovery
      BY <1>0 DEF RunRecord
    <3> HIDE DEF next
    <3>2. run'[r] = next
      BY <1>1, <2>1 DEF DispatchPrepare, next
    <3> QED BY <3>1, <3>2
  <2>2. CASE DispatchTurn(r)
    <3> DEFINE next == [run[r] EXCEPT !.phase = "running", !.dispatch = "intended",
                                      !.operations = @ + 1]
    <3>1. next.recovery
      BY <1>0 DEF RunRecord
    <3> HIDE DEF next
    <3>2. run'[r] = next
      BY <1>1, <2>2 DEF DispatchTurn, next
    <3> QED BY <3>1, <3>2
  <2>3. ASSUME NEW id \in Controls, NEW kind, DispatchControl(r, id, kind) PROVE run'[r].recovery
    <3> DEFINE next == [run[r] EXCEPT !.operations = @ + 1]
    <3>1. next.recovery
      BY <1>0 DEF RunRecord
    <3> HIDE DEF next
    <3>2. run'[r] = next
      BY <1>1, <2>3 DEF DispatchControl, next
    <3> QED BY <3>1, <3>2
  <2>4. CASE DispatchInterrupt(r)
    BY <1>1, <2>4 DEF DispatchInterrupt
  <2>5. ASSUME NEW kind, DispatchCleanup(r, kind) \/ RetryCleanup(r, kind) PROVE run'[r].recovery
    BY <1>1, <2>5 DEF DispatchCleanup, RetryCleanup
  <2> QED BY <1>3, <2>1, <2>2, <2>3, <2>4, <2>5 DEF Dispatch
<1>4. CASE Receipt(r)
  <2>1. PICK id \in OpIds, disposition \in Dispositions, state \in {"none", "pending", "unavailable"} :
          OperationReceipt(r, id, disposition, state)
    BY <1>4 DEF Receipt
  <2> DEFINE prior == op[r][id]
             next == ReceiptRun(run[r], prior, disposition, state)
             ledger == [op[r] EXCEPT ![id] = [prior EXCEPT !.disposition = disposition]]
  <2>2. Commit(r, next, ledger)
    BY <2>1 DEF OperationReceipt
  <2>3. /\ (prior.kind = "request_resolution" /\ disposition = "rejected") <=> state # "none"
        /\ prior.kind = "request_resolution" /\ run[r].request = prior.request
             => run[r].requestState \in {"resolution_intended", "unavailable"}
    BY <2>1 DEF OperationReceipt
  <2>4. prior \in OpRecord /\ (prior.kind = "request_resolution" => prior.request # NoRequest)
    BY <1>0 DEF ResolutionNamesRequest
  <2>5. ReceiptMove(run[r], prior, disposition, next)
    <3> HIDE DEF prior
    <3> QED BY <1>0, <2>3, <2>4, ReceiptMoves
  <2> HIDE DEF next, ledger
  <2> QED BY <1>1, <2>2, <2>5 DEF ReceiptMove
<1>5. CASE Request(r)
  <2>1. ASSUME NEW request, RequestOpened(r, request) PROVE run'[r].recovery
    <3> DEFINE next == [run[r] EXCEPT !.phase = "waiting", !.request = request,
                                      !.requestState = "waiting"]
    <3>1. next.recovery
      BY <1>0 DEF RunRecord
    <3> HIDE DEF next
    <3>2. run'[r] = next
      BY <1>1, <2>1 DEF RequestOpened, next
    <3> QED BY <3>1, <3>2
  <2>2. ASSUME NEW id \in Controls, ResolutionIntended(r, id) PROVE run'[r].recovery
    <3> DEFINE next == [run[r] EXCEPT !.phase = "running", !.requestState = "resolution_intended",
                                      !.operations = @ + 1]
    <3>1. next.recovery
      BY <1>0 DEF RunRecord
    <3> HIDE DEF next
    <3>2. run'[r] = next
      BY <1>1, <2>2 DEF ResolutionIntended, next
    <3> QED BY <3>1, <3>2
  <2>3. CASE RequestResolved(r)
    <3> DEFINE next == [run[r] EXCEPT !.requestState = "resolved"]
    <3>1. next.recovery
      BY <1>0 DEF RunRecord
    <3> HIDE DEF next
    <3>2. run'[r] = next
      BY <1>1, <2>3 DEF RequestResolved, next
    <3> QED BY <3>1, <3>2
  <2>4. CASE RequestUnavailable(r)
    <3> DEFINE next == [run[r] EXCEPT !.requestState = "unavailable",
                                      !.phase = IF @ = "waiting" THEN "running" ELSE @]
    <3>1. next.recovery
      BY <1>0 DEF RunRecord
    <3> HIDE DEF next
    <3>2. run'[r] = next
      BY <1>1, <2>4 DEF RequestUnavailable, next
    <3> QED BY <3>1, <3>2
  <2> QED BY <1>5, <2>1, <2>2, <2>3, <2>4 DEF Request
<1>6. CASE Finish(r)
  <2>1. CASE CancelRun(r)
    <3> DEFINE canceled == [run[r] EXCEPT !.cancelRequested = TRUE]
               next == IF run[r].phase = "settled" THEN run[r]
                       ELSE IF NeverDispatched(run[r]) THEN Settled(canceled, "not_dispatched")
                       ELSE canceled
    <3>1. canceled \in RunRecord /\ canceled.recovery
      BY <1>0 DEF RunRecord
    <3> HIDE DEF canceled
    <3>2. next.recovery
      BY <1>2, <3>1
    <3> HIDE DEF next
    <3>3. run'[r] = next
      BY <1>1, <2>1 DEF CancelRun, next, canceled
    <3> QED BY <3>2, <3>3
  <2>2. ASSUME NEW requested, Settle(r, requested) PROVE run'[r].recovery
    BY <1>0, <1>1, <1>2, <2>2 DEF Settle
  <2> QED BY <1>6, <2>1, <2>2 DEF Finish
<1> QED BY <1>3, <1>4, <1>5, <1>6

\* A doubt recorded of the run stays recorded, and a settlement stays as it was made.
Remembered ==
  /\ run[R].recovery => run'[R].recovery
  /\ run[R].phase = "settled" => run'[R].phase = "settled" /\ run'[R].outcome = run[R].outcome

\* No step of the store takes either back.
LEMMA StoreRemembers ==
  ASSUME IInv, LedgerInv, [Next]_vars
  PROVE  Remembered
<1>0. R \in Runs /\ run \in [Runs -> RunRecord]
  BY ManagedAssumption DEF IInv, TypeOK
<1>1. CASE run' = run
  BY <1>1 DEF Remembered
<1>2. ASSUME NEW s \in Runs, Dispatch(s) \/ Receipt(s) \/ Request(s) \/ Finish(s) PROVE Remembered
  <2>1. LegalCommit(s)
    BY <1>2, CommandTrue
  <2>2. PICK next \in RunRecord, ledger \in [OpIds -> OpRecord] :
          LegalStep(s, next) /\ Commit(s, next, ledger)
    BY <2>1 DEF LegalCommit
  <2>3. CASE s = R
    <3>1. run'[R] = next
      BY <1>0, <2>2, <2>3 DEF Commit
    <3>2. run[R].phase = "settled" => run[R].outcome # "none"
      BY <1>0 DEF IInv, SettledHasOutcome
    <3>3. run[R].recovery => run'[R].recovery
      BY <1>0, <1>2, <2>3, CommandRemembers
    <3> QED BY <2>2, <2>3, <3>1, <3>2, <3>3 DEF LegalStep, Remembered
  <2>4. CASE s # R
    BY <1>0, <2>2, <2>4 DEF Commit, Remembered
  <2> QED BY <2>3, <2>4
<1>3. ASSUME NEW t \in Tasks, NEW s \in Runs, AdmitRun(t, s) PROVE Remembered
  <2>1. CASE s = R
    <3>1. run[R].phase = "absent" /\ run[R] = BlankRun
      BY <1>0, <1>3, <2>1 DEF AdmitRun, Admitted, LedgerInv, Untouched
    <3>2. ~BlankRun.recovery
      BY DEF BlankRun
    <3> QED BY <3>1, <3>2 DEF Remembered
  <2>2. CASE s # R
    BY <1>0, <1>3, <2>2 DEF AdmitRun, Remembered
  <2> QED BY <2>1, <2>2
<1>4. CASE UNCHANGED vars
  BY <1>1, <1>4 DEF vars
<1>5. CASE Next
  <2>1. CASE Admit
    BY <1>3, <2>1 DEF Admit, AdmitTask, AdmitContinuation
  <2> QED BY <1>1, <1>2, <1>5, <2>1 DEF Next, AcquireOwner, ReleaseOwner, RetireRecovery
<1> QED BY <1>4, <1>5

--------------------------------------------------------------------------------
(* What is reported of a run *)

\* A receipt of unknown effect marks the run.
LEMMA DoubtMarks ==
  ASSUME IInv, LedgerInv', NEW c \in Controls, NEW state, OperationReceipt(R, c, "uncertain", state)
  PROVE  run'[R].recovery
<1>1. R \in Runs /\ c \in OpIds /\ op \in [Runs -> [OpIds -> OpRecord]]
  BY ManagedIds DEF IInv, TypeOK
<1> DEFINE entry == [op[R][c] EXCEPT !.disposition = "uncertain"]
<1>2. op' = [op EXCEPT ![R] = [op[R] EXCEPT ![c] = entry]]
  BY DEF OperationReceipt, Commit
<1>3. entry.disposition = "uncertain"
  BY <1>1 DEF OpRecord
<1> HIDE DEF entry
<1>4. op'[R][c].disposition = "uncertain"
  BY <1>1, <1>2, <1>3
<1> QED BY <1>1, <1>4 DEF LedgerInv, LedgerTruth, DoubtRecorded

\* A control's receipt that tells of an unknown effect marks the run.
LEMMA ControlDoubtMarks ==
  ASSUME IInv, LedgerInv', NEW c, live.control[c].result = "uncertain",
         (c \in Steers /\ SteerReceipt(c)) \/ (c \in Answers /\ AnswerReceipt(c))
  PROVE  run'[R].recovery
<1>1. c \in Controls
  BY ManagedIds
<1>2. OperationReceipt(R, c, "uncertain", "none")
  BY DEF SteerReceipt, AnswerReceipt
<1> QED BY <1>1, <1>2, DoubtMarks

\* More doubt in the store asks for less of the live record.
LEMMA DoubtGrows ==
  ASSUME NEW l, NEW lost \in BOOLEAN, NEW more \in BOOLEAN, lost => more, Orderly(l, lost)
  PROVE  Orderly(l, more)
BY DEF Orderly, SteeringDoubt, ResultsRecorded, KeptResult

\* The empty live record, and the one a launch makes, are in order.
LEMMA NoLiveOrderly ==
  ASSUME NEW lost \in BOOLEAN,
         NEW m, m = NoLive \/ m = [NoLive EXCEPT !.main = "claimed"]
  PROVE  Orderly(m, lost) /\ m.finish = "none"
<1> DEFINE entry == [pc |-> "none", request |-> NoRequest, result |-> "none", phase |-> "absent"]
<1>1. NoLive \in LiveRecord
  BY NoLiveSane DEF Sane
<1>2. /\ NoLive.main = "none" /\ NoLive.session = "none" /\ NoLive.shown = {} /\ NoLive.calls = {} /\ ~NoLive.stream
      /\ NoLive.finish = "none" /\ NoLive.closer = "none" /\ NoLive.resources = "none"
      /\ NoLive.execution = "none" /\ ~NoLive.started /\ ~NoLive.recorded /\ NoLive.read = "none"
      /\ ~NoLive.aborted /\ NoLive.uncertain = "none"
      /\ NoLive.control = [c \in Serialized |-> entry]
  BY DEF NoLive
<1>3. \A c \in Serialized : NoLive.control[c] = entry
  BY <1>2
<1>4. /\ m.main \in {"none", "claimed"} /\ m.session = "none" /\ m.shown = {} /\ m.calls = {} /\ ~m.stream
      /\ m.finish = "none" /\ m.closer = "none" /\ m.resources = "none"
      /\ m.execution = "none" /\ ~m.started /\ ~m.recorded /\ m.read = "none"
      /\ ~m.aborted /\ m.uncertain = "none" /\ m.control = NoLive.control
  BY <1>1, <1>2 DEF LiveRecord
<1>5. \A c \in Serialized : m.control[c].pc = "none" /\ m.control[c].result = "none"
  BY <1>3, <1>4
<1> HIDE DEF entry
<1> QED BY <1>4, <1>5 DEF Serialized, Orderly, Early, Busy, Unopened, Joined, Shut, GivenBack,
           TurnFirst, Reported, Decided, OpenDoubt, SteeringDoubt, ResultsRecorded, KeptResult

\* Every step of the code that runs keeps the order, if a receipt of unknown effect has
\* marked the run.
LEMMA ContinuesOrderly ==
  ASSUME live \in LiveRecord, NEW lost \in BOOLEAN, Orderly(live, lost), Continues,
         \A c \in Steers : SteerReceipt(c) /\ live.control[c].result = "uncertain" => lost,
         \A c \in Answers : AnswerReceipt(c) /\ live.control[c].result = "uncertain" => lost
  PROVE  Ordered(lost)
BY OrderedPrepare, OrderedReader, OrderedClient, OrderedSteering, OrderedAnswering, OrderedCancellation,
   OrderedClosing DEF Continues, HostReturn

\* What the store holds of a run that is done is what the live run sent, unless the run
\* was marked.
SettledAs ==
  live.finish = "done" =>
    /\ run[R].phase = "settled"
    /\ run[R].outcome = live.final \/ (run[R].outcome = "recovery_required" /\ run[R].recovery)
    /\ run[R].outcome # "recovery_required" =>
         \A c \in Steers \cup Answers : live.control[c].result # "uncertain"

\* The inductive invariant behind the theorems about what is reported.
HonestInv == ManagedInv /\ LedgerInv /\ Orderly(live, run[R].recovery) /\ SettledAs

\* A settlement is what was sent, or the mark of the run.
LEMMA SettleSettles ==
  ASSUME IInv, NEW requested, Settle(R, requested)
  PROVE  /\ run'[R].phase = "settled" /\ run'[R].recovery = run[R].recovery
         /\ run'[R].outcome = (IF run[R].recovery THEN "recovery_required" ELSE requested)
<1>1. R \in Runs /\ run \in [Runs -> RunRecord] /\ run[R] \in RunRecord
  BY ManagedAssumption DEF IInv, TypeOK
<1>2. run'[R] = Settled(run[R], requested)
  BY <1>1 DEF Settle, Commit
<1> DEFINE outcome == IF run[R].recovery THEN "recovery_required" ELSE requested
           state == IF run[R].request = NoRequest THEN run[R].requestState ELSE "unavailable"
<1>3. run'[R] = [run[R] EXCEPT !.phase = "settled", !.outcome = outcome, !.requestState = state]
  BY <1>2 DEF Settled
<1>4. outcome = (IF run[R].recovery THEN "recovery_required" ELSE requested)
  OBVIOUS
<1> HIDE DEF outcome, state
<1> QED BY <1>1, <1>3, <1>4 DEF RunRecord

\* The end of finishRun settles the run as it says.
LEMMA DoneSettled ==
  ASSUME IInv, live \in LiveRecord, Orderly(live, run[R].recovery), SettleRun
  PROVE  SettledAs'
<1>1. /\ live.finish = "settle" /\ Settle(R, live.final)
      /\ live' = [live EXCEPT !.finish = "done", !.registered = ~CleanedUp]
  BY DEF SettleRun
<1>2. live'.final = live.final /\ live'.control = live.control
  BY <1>1 DEF LiveRecord
<1>3. \A c \in Steers \cup Answers : live.control[c].result = "uncertain" => run[R].recovery
  BY <1>1 DEF Orderly, Joined, Busy, ResultsRecorded
<1>4. /\ run'[R].phase = "settled" /\ run'[R].recovery = run[R].recovery
      /\ run'[R].outcome = (IF run[R].recovery THEN "recovery_required" ELSE live.final)
  BY <1>1, SettleSettles
<1> QED BY <1>2, <1>3, <1>4 DEF SettledAs

\* A run that was not launched is quiet and has settled nothing.
LEMMA InitHonest == ManagedInit => HonestInv
<1> SUFFICES ASSUME ManagedInit PROVE HonestInv
  OBVIOUS
<1>1. ManagedInv /\ LedgerInv
  BY InitManaged, InitTrue DEF ManagedInit
<1>2. run[R].recovery \in BOOLEAN
  BY <1>1, ManagedAssumption DEF ManagedInv, IInv, TypeOK, RunRecord
<1>3. Orderly(live, run[R].recovery) /\ live.finish = "none"
  BY <1>2, NoLiveOrderly DEF ManagedInit
<1> QED BY <1>1, <1>3 DEF HonestInv, SettledAs

\* Every step keeps the invariant.
LEMMA NextHonest == HonestInv /\ [ManagedNext]_managedVars => HonestInv'
<1> SUFFICES ASSUME HonestInv, [ManagedNext]_managedVars PROVE HonestInv'
  OBVIOUS
<1> DEFINE lost == run[R].recovery
           more == run'[R].recovery
<1>0. /\ ManagedInv /\ IInv /\ LedgerInv /\ live \in LiveRecord /\ Orderly(live, lost) /\ SettledAs
  BY DEF HonestInv, ManagedInv, Sane
<1>1. ManagedInv' /\ [Next]_vars
  BY <1>0, NextManaged
<1>2. LedgerInv' /\ IInv'
  BY <1>0, <1>1, NextTrue DEF ManagedInv
<1>3. Remembered
  BY <1>0, <1>1, StoreRemembers
<1>4. lost \in BOOLEAN /\ more \in BOOLEAN /\ (lost => more)
  BY <1>0, <1>2, <1>3, ManagedAssumption DEF IInv, TypeOK, RunRecord, Remembered
<1> HIDE DEF lost, more
<1>5. ASSUME live' = live PROVE Orderly(live', more) /\ SettledAs'
  <2>1. Orderly(live', more)
    BY <1>0, <1>4, <1>5, DoubtGrows
  <2>2. SettledAs'
    BY <1>0, <1>3, <1>5 DEF SettledAs, Remembered
  <2> QED BY <2>1, <2>2
<1>6. ASSUME live' = NoLive \/ live' = [NoLive EXCEPT !.main = "claimed"]
      PROVE  Orderly(live', more) /\ SettledAs'
  <2>1. Orderly(live', more) /\ live'.finish = "none"
    BY <1>4, <1>6, NoLiveOrderly
  <2> QED BY <2>1 DEF SettledAs
<1>7. ASSUME Ordered(more) PROVE Orderly(live', more) /\ SettledAs'
  <2>1. CASE live'.finish = "done" /\ live.finish = "done"
    BY <1>0, <1>3, <1>7, <2>1 DEF Ordered, DoneStays, SettledAs, Remembered
  <2>2. CASE live'.finish = "done" /\ SettleRun
    BY <1>0, <1>7, <2>2, DoneSettled DEF Ordered, lost
  <2>3. CASE live'.finish # "done"
    BY <1>7, <2>3 DEF Ordered, SettledAs
  <2> QED BY <1>7, <2>1, <2>2, <2>3 DEF Ordered
<1>8. ASSUME EnterTurn PROVE Orderly(live', more) /\ SettledAs'
  <2>1. Orderly(live, more)
    BY <1>0, <1>4, DoubtGrows
  <2>2. Ordered(more)
    BY <1>0, <1>4, <1>8, <2>1, OrderedReader
  <2> QED BY <1>7, <2>2
<1>9. ASSUME Begin PROVE Orderly(live', more) /\ SettledAs'
  <2>1. live' = live \/ live' = [NoLive EXCEPT !.main = "claimed"]
    BY <1>9 DEF Begin, Launch, RejectQueued, Recover
  <2> QED BY <1>5, <1>6, <2>1
<1>10. ASSUME Crash PROVE Orderly(live', more) /\ SettledAs'
  BY <1>6, <1>10 DEF Crash
<1>11. ASSUME Continues PROVE Orderly(live', more) /\ SettledAs'
  <2>1. Orderly(live, more)
    BY <1>0, <1>4, DoubtGrows
  <2>2. /\ \A c \in Steers : SteerReceipt(c) /\ live.control[c].result = "uncertain" => more
        /\ \A c \in Answers : AnswerReceipt(c) /\ live.control[c].result = "uncertain" => more
    BY <1>0, <1>2, ControlDoubtMarks DEF more
  <2>3. Ordered(more)
    BY <1>0, <1>4, <1>11, <2>1, <2>2, ContinuesOrderly
  <2> QED BY <1>7, <2>3
<1>12. Orderly(live', more) /\ SettledAs'
  <2>1. CASE UNCHANGED managedVars
    <3>1. live' = live
      BY <2>1 DEF managedVars
    <3> QED BY <1>5, <3>1
  <2> QED BY <1>8, <1>9, <1>10, <1>11, <2>1, ManagedKinds
<1> QED BY <1>1, <1>2, <1>12 DEF HonestInv, more

--------------------------------------------------------------------------------

\* The order and the honesty of a live run hold in every reachable state.
THEOREM HonestInvariant == ManagedSpec => []HonestInv
BY InitHonest, NextHonest, PTL DEF ManagedSpec

\* Nothing is given back while the session is open, the reader reads or a steering, an
\* answer or a callback is under way (cleanup.ts).
THEOREM QuietBeforeRelease == ManagedSpec => []ReleasedAfterQuiescence
<1>1. ASSUME HonestInv PROVE ReleasedAfterQuiescence
  <2>1. Joined(live) /\ Shut(live) /\ GivenBack(live)
    BY <1>1 DEF HonestInv, Orderly
  <2> QED BY <2>1 DEF ReleasedAfterQuiescence, Joined, Shut, GivenBack, Busy
<1> QED BY <1>1, HonestInvariant, PTL

\* An outcome is never better than what is known (finish.ts, stream.ts, control.ts).
THEOREM HonestOutcome == ManagedSpec => []OutcomeIsHonest
<1>1. ASSUME HonestInv PROVE OutcomeIsHonest
  <2> SUFFICES ASSUME live.finish = "done", run[R].outcome # "recovery_required"
               PROVE  /\ CleanedUp
                      /\ live.started => live.read # "none" /\ run[R].outcome = OutcomeOf(live.read)
                      /\ ~live.started => run[R].outcome = "failed"
                      /\ \A c \in Steers \cup Answers : live.control[c].result # "uncertain"
    BY DEF OutcomeIsHonest
  <2>1. Reported(live) /\ Decided(live) /\ SettledAs
    BY <1>1 DEF HonestInv, Orderly
  <2>2. run[R].outcome = live.final /\ live.final = live.outcome /\ Clean(live)
    BY <2>1 DEF SettledAs, Decided
  <2> QED BY <2>1, <2>2 DEF Reported, SettledAs, Clean, CleanedUp
<1> QED BY <1>1, HonestInvariant, PTL

\* A cancellation of unknown effect leaves a reported result alone (finish.ts).
THEOREM ResultKept == ManagedSpec => []ReportedResultIsKept
<1>1. ASSUME HonestInv PROVE ReportedResultIsKept
  <2> SUFFICES ASSUME live.finish = "done", live.outcome \in GoodOutcomes, CleanedUp, ~run[R].recovery,
                      live.overruled \notin {"request", "dispatch"}
               PROVE  run[R].outcome = live.outcome
    BY DEF ReportedResultIsKept, OnlyCancellationInDoubt, GoodOutcomes
  <2>1. KeptResult(live, run[R].recovery) /\ SettledAs
    BY <1>1 DEF HonestInv, Orderly
  <2> QED BY <2>1 DEF KeptResult, SettledAs, Clean, CleanedUp
<1> QED BY <1>1, HonestInvariant, PTL

--------------------------------------------------------------------------------
(* A request that waits *)

\* The store expects an answer.
Expected == {"waiting", "resolution_intended"}

\* The live run waits for the request the store remembers; while nothing ends the wait,
\* the request is shown and not retired, and one that waits may be answered or an answer
\* is about to be intended.
Waits(l, request, state) ==
  l.main # "none" /\ l.finish = "none" =>
    /\ l.request = request
    /\ /\ ~l.aborted /\ l.control["cancel"].pc = "none" /\ state \in Expected
       /\ ~(l.main = "retiring" /\ l.next = request)
       => /\ request \in l.shown /\ l.eligibility[request] # "retired"
          /\ state = "waiting" =>
               \/ l.eligibility[request] = "waiting"
               \/ \E c \in Answers : l.control[c].pc = "intent" /\ l.control[c].request = request

\* An answer under way is in the ledger, for its request.
AnswersRecorded ==
  \A c \in Answers : live.control[c].pc \in InFlight =>
    op[R][c].kind = "request_resolution" /\ op[R][c].request = live.control[c].request

\* The store remembers the same request, and offers it no more than before.
Steady ==
  /\ run'[R].request = run[R].request
  /\ run'[R].requestState = run[R].requestState \/ run'[R].requestState \notin Expected

\* A wait that the record can answer stays so when the record keeps what it needs.
LEMMA StillWaiting ==
  ASSUME NEW l, NEW m, NEW request, NEW state, Waits(l, request, state), StillWaits(l, m)
  PROVE  Waits(m, request, state)
BY DEF Waits, StillWaits, Expected

\* An intent of another kind leaves the request alone.
LEMMA DispatchSteady ==
  ASSUME IInv, Dispatch(R)
  PROVE  Steady
<1>0. R \in Runs /\ run \in [Runs -> RunRecord] /\ run[R] \in RunRecord
  BY ManagedAssumption DEF IInv, TypeOK
<1>1. ASSUME NEW next, NEW ledger, Commit(R, next, ledger),
             next.request = run[R].request, next.requestState = run[R].requestState
      PROVE  Steady
  BY <1>0, <1>1 DEF Commit, Steady
<1>2. CASE DispatchPrepare(R)
  <2> DEFINE next == [run[R] EXCEPT !.phase = "preparing", !.preparation = "intended",
                                    !.ownerEpoch = owner, !.operations = @ + 1]
  <2>1. next.request = run[R].request /\ next.requestState = run[R].requestState
    BY <1>0 DEF RunRecord
  <2> HIDE DEF next
  <2> QED BY <1>1, <1>2, <2>1 DEF DispatchPrepare, next
<1>3. CASE DispatchTurn(R)
  <2> DEFINE next == [run[R] EXCEPT !.phase = "running", !.dispatch = "intended",
                                    !.operations = @ + 1]
  <2>1. next.request = run[R].request /\ next.requestState = run[R].requestState
    BY <1>0 DEF RunRecord
  <2> HIDE DEF next
  <2> QED BY <1>1, <1>3, <2>1 DEF DispatchTurn, next
<1>4. ASSUME NEW id \in Controls, NEW kind, DispatchControl(R, id, kind) PROVE Steady
  <2> DEFINE next == [run[R] EXCEPT !.operations = @ + 1]
  <2>1. next.request = run[R].request /\ next.requestState = run[R].requestState
    BY <1>0 DEF RunRecord
  <2> HIDE DEF next
  <2> QED BY <1>1, <1>4, <2>1 DEF DispatchControl, next
<1>5. CASE DispatchInterrupt(R)
  BY <1>1, <1>5 DEF DispatchInterrupt
<1>6. ASSUME NEW kind, DispatchCleanup(R, kind) \/ RetryCleanup(R, kind) PROVE Steady
  BY <1>1, <1>6 DEF DispatchCleanup, RetryCleanup
<1> QED BY <1>2, <1>3, <1>4, <1>5, <1>6 DEF Dispatch

\* A settlement retires the request.
LEMMA FinishSteady ==
  ASSUME IInv, Finish(R)
  PROVE  Steady
<1>0. R \in Runs /\ run \in [Runs -> RunRecord] /\ run[R] \in RunRecord
  BY ManagedAssumption DEF IInv, TypeOK
<1>1. ASSUME NEW next, NEW ledger, Commit(R, next, ledger), next.request = run[R].request,
             next.requestState = run[R].requestState \/ next.requestState = "unavailable"
      PROVE  Steady
  BY <1>0, <1>1 DEF Commit, Steady, Expected
<1>2. ASSUME NEW rec \in RunRecord, NEW requested
      PROVE  /\ Settled(rec, requested).request = rec.request
             /\ \/ Settled(rec, requested).requestState = rec.requestState
                \/ Settled(rec, requested).requestState = "unavailable"
  BY <1>2 DEF Settled, RunRecord
<1>3. CASE CancelRun(R)
  <2> DEFINE canceled == [run[R] EXCEPT !.cancelRequested = TRUE]
             next == IF run[R].phase = "settled" THEN run[R]
                     ELSE IF NeverDispatched(run[R]) THEN Settled(canceled, "not_dispatched")
                     ELSE canceled
  <2>1. /\ canceled \in RunRecord /\ canceled.request = run[R].request
        /\ canceled.requestState = run[R].requestState
    BY <1>0 DEF RunRecord
  <2>2. Commit(R, next, WithOperation(R, "cancel", "cancel", NoRequest))
    BY <1>3 DEF CancelRun
  <2> HIDE DEF canceled
  <2>3. /\ next.request = run[R].request
        /\ next.requestState = run[R].requestState \/ next.requestState = "unavailable"
    BY <1>2, <2>1
  <2> HIDE DEF next
  <2> QED BY <1>1, <2>2, <2>3
<1>4. ASSUME NEW requested, Settle(R, requested) PROVE Steady
  BY <1>0, <1>1, <1>2, <1>4 DEF Settle
<1> QED BY <1>3, <1>4 DEF Finish

\* What an answer's receipt does to its run: nothing, unless the run remembers its request;
\* only a pending rejection puts that back on offer.
LEMMA AnswerMoves ==
  ASSUME NEW rec \in RunRecord, NEW prior, NEW disposition, NEW state, NEW next,
         next = ReceiptRun(rec, prior, disposition, state), prior.kind = "request_resolution"
  PROVE  /\ next.request = rec.request
         /\ rec.request # prior.request => next.requestState = rec.requestState
         /\ rec.request = prior.request /\ next.requestState \in Expected
              => /\ state = "pending" /\ next.requestState = "waiting"
                 /\ rec.requestState # "unavailable"
<1> DEFINE moved == ResolutionReceipt(rec, prior, disposition, state)
           lost == moved.recovery \/ disposition = "uncertain"
<1>1. next = [moved EXCEPT !.recovery = lost]
  BY DEF ReceiptRun
<1>2. CASE rec.request # prior.request
  <2>1. moved = rec
    BY <1>2 DEF ResolutionReceipt
  <2> HIDE DEF lost, moved
  <2> QED BY <1>1, <1>2, <2>1 DEF RunRecord
<1>3. CASE rec.request = prior.request
  <2> DEFINE request == CASE rec.requestState = "unavailable" -> "unavailable"
                 [] rec.requestState # "unavailable" /\ disposition = "delivered" -> "resolved"
                 [] OTHER -> IF state = "pending" THEN "waiting" ELSE "unavailable"
             phase == IF rec.phase = "settled" THEN rec.phase
                      ELSE IF request = "waiting" THEN "waiting" ELSE "running"
  <2>1. moved = [rec EXCEPT !.requestState = request, !.phase = phase]
    BY <1>3 DEF ResolutionReceipt
  <2>2. request \in Expected =>
          state = "pending" /\ request = "waiting" /\ rec.requestState # "unavailable"
    BY DEF Expected
  <2> HIDE DEF moved, lost, request, phase
  <2>3. next.request = rec.request /\ next.requestState = request
    BY <1>1, <2>1 DEF RunRecord
  <2> QED BY <1>3, <2>2, <2>3
<1> QED BY <1>2, <1>3

\* Every other receipt leaves the request alone.
LEMMA OtherReceipt ==
  ASSUME NEW rec \in RunRecord, NEW prior, NEW disposition, NEW state, NEW next,
         next = ReceiptRun(rec, prior, disposition, state), prior.kind # "request_resolution"
  PROVE  next.request = rec.request /\ next.requestState = rec.requestState
<1>1. CASE prior.kind = "prepare"
  BY <1>1 DEF ReceiptRun, RunRecord
<1>2. CASE prior.kind = "turn"
  BY <1>2 DEF ReceiptRun, RunRecord
<1>3. CASE prior.kind \in {"steer", "configure"}
  <2> DEFINE lost == rec.recovery \/ disposition = "uncertain"
  <2>1. next = [rec EXCEPT !.recovery = lost]
    BY <1>3 DEF ReceiptRun
  <2> HIDE DEF lost
  <2> QED BY <2>1 DEF RunRecord
<1>4. CASE prior.kind \notin {"prepare", "turn", "steer", "configure"}
  BY <1>4 DEF ReceiptRun
<1> QED BY <1>1, <1>2, <1>3, <1>4

\* A receipt that says nothing of a request offers none.
LEMMA ReceiptSteady ==
  ASSUME IInv, NEW id \in OpIds, NEW disposition, OperationReceipt(R, id, disposition, "none")
  PROVE  Steady
<1>0. R \in Runs /\ run \in [Runs -> RunRecord] /\ run[R] \in RunRecord
  BY ManagedAssumption DEF IInv, TypeOK
<1> DEFINE prior == op[R][id]
           next == ReceiptRun(run[R], prior, disposition, "none")
<1>1. run'[R] = next
  BY <1>0 DEF OperationReceipt, Commit
<1> HIDE DEF next, prior
<1>2. CASE prior.kind = "request_resolution"
  BY <1>0, <1>1, <1>2, AnswerMoves DEF next, Steady
<1>3. CASE prior.kind # "request_resolution"
  BY <1>0, <1>1, <1>3, OtherReceipt DEF next, Steady
<1> QED BY <1>2, <1>3

\* No plain command of the run touches the request.
LEMMA PlainSteady == ASSUME IInv, Plain PROVE Steady
<1>1. CASE UNCHANGED vars
  BY <1>1 DEF vars, Steady
<1> QED BY <1>1, DispatchSteady, FinishSteady, ReceiptSteady DEF Plain

\* A recorded control keeps its kind and its request.
EntryStays(c) ==
  op[R][c].kind # "none" => op'[R][c].kind = op[R][c].kind /\ op'[R][c].request = op[R][c].request

\* No command of the run rewrites the entry of a control it has recorded.
LEMMA CommandKeepsEntry ==
  ASSUME IInv, NEW c \in Controls, Dispatch(R) \/ Receipt(R) \/ Request(R) \/ Finish(R)
  PROVE  EntryStays(c)
<1>0. /\ R \in Runs /\ op \in [Runs -> [OpIds -> OpRecord]] /\ c \in OpIds /\ op[R][c] \in OpRecord
      /\ c \notin {"admit", "prepare", "turn", "cancel", "interrupt", "session_close", "binding_cleanup"}
  BY ManagedIds, IdsApart DEF IInv, TypeOK
<1>1. ASSUME NEW next, Commit(R, next, op[R]) PROVE EntryStays(c)
  BY <1>0, <1>1 DEF Commit, EntryStays
<1>2. ASSUME NEW next, NEW id \in OpIds, NEW entry, Commit(R, next, [op[R] EXCEPT ![id] = entry]),
             id = c => op[R][c].kind = "none"
      PROVE  EntryStays(c)
  BY <1>0, <1>2 DEF Commit, EntryStays
<1>3. ASSUME NEW next, NEW id \in OpIds, NEW kind, NEW request,
             Commit(R, next, WithOperation(R, id, kind, request)),
             id = c => op[R][c].kind = "none"
      PROVE  EntryStays(c)
  BY <1>2, <1>3 DEF WithOperation
<1>4. CASE Dispatch(R)
  <2>1. CASE DispatchPrepare(R)
    BY <1>0, <1>3, <2>1, ManagedIds DEF DispatchPrepare
  <2>2. CASE DispatchTurn(R)
    BY <1>0, <1>3, <2>2, ManagedIds DEF DispatchTurn
  <2>3. ASSUME NEW id \in Controls, NEW kind, DispatchControl(R, id, kind) PROVE EntryStays(c)
    <3>1. id \in OpIds /\ op[R][id].kind = "none"
      BY <2>3, ManagedIds DEF DispatchControl, Recorded
    <3> QED BY <1>3, <2>3, <3>1 DEF DispatchControl
  <2>4. CASE DispatchInterrupt(R)
    BY <1>0, <1>3, <2>4, ManagedIds DEF DispatchInterrupt
  <2>5. ASSUME NEW kind \in CleanupKinds, DispatchCleanup(R, kind) \/ RetryCleanup(R, kind)
        PROVE  EntryStays(c)
    <3>1. kind \in OpIds /\ kind # c
      BY <1>0, <2>5, ManagedIds DEF CleanupKinds
    <3>2. CASE DispatchCleanup(R, kind)
      BY <1>3, <3>1, <3>2 DEF DispatchCleanup
    <3>3. CASE RetryCleanup(R, kind)
      <4> DEFINE entry == [op[R][kind] EXCEPT !.attempts = 2, !.disposition = "intent",
                                              !.ownerEpoch = owner]
      <4>1. Commit(R, run[R], [op[R] EXCEPT ![kind] = entry])
        BY <3>3 DEF RetryCleanup
      <4> HIDE DEF entry
      <4> QED BY <1>2, <3>1, <4>1
    <3> QED BY <2>5, <3>2, <3>3
  <2> QED BY <1>4, <2>1, <2>2, <2>3, <2>4, <2>5 DEF Dispatch
<1>5. CASE Receipt(R)
  <2>1. PICK id \in OpIds, disposition \in Dispositions, state \in {"none", "pending", "unavailable"} :
          OperationReceipt(R, id, disposition, state)
    BY <1>5 DEF Receipt
  <2> DEFINE prior == op[R][id]
             entry == [prior EXCEPT !.disposition = disposition]
             next == ReceiptRun(run[R], prior, disposition, state)
  <2>2. Commit(R, next, [op[R] EXCEPT ![id] = entry])
    BY <2>1 DEF OperationReceipt
  <2>3. entry.kind = prior.kind /\ entry.request = prior.request
    BY <1>0 DEF OpRecord
  <2> HIDE DEF next, entry
  <2>4. op'[R] = [op[R] EXCEPT ![id] = entry]
    BY <1>0, <2>2 DEF Commit
  <2> QED BY <1>0, <2>3, <2>4 DEF EntryStays
<1>6. CASE Request(R)
  <2>1. ASSUME NEW request, RequestOpened(R, request) PROVE EntryStays(c)
    BY <1>1, <2>1 DEF RequestOpened
  <2>2. ASSUME NEW id \in Controls, ResolutionIntended(R, id) PROVE EntryStays(c)
    <3>1. id \in OpIds /\ op[R][id].kind = "none"
      BY <2>2, ManagedIds DEF ResolutionIntended, Recorded
    <3> QED BY <1>3, <2>2, <3>1 DEF ResolutionIntended
  <2>3. CASE RequestResolved(R)
    BY <1>1, <2>3 DEF RequestResolved
  <2>4. CASE RequestUnavailable(R)
    BY <1>1, <2>4 DEF RequestUnavailable
  <2> QED BY <1>6, <2>1, <2>2, <2>3, <2>4 DEF Request
<1>7. CASE Finish(R)
  <2>1. CASE CancelRun(R)
    BY <1>0, <1>3, <2>1, ManagedIds DEF CancelRun
  <2>2. ASSUME NEW requested, Settle(R, requested) PROVE EntryStays(c)
    BY <1>1, <2>2 DEF Settle
  <2> QED BY <1>7, <2>1, <2>2 DEF Finish
<1> QED BY <1>4, <1>5, <1>6, <1>7

\* Nor does any other step of the store.
LEMMA StoreKeepsEntry ==
  ASSUME IInv, [Next]_vars, NEW c \in Controls
  PROVE  EntryStays(c)
<1>0. R \in Runs /\ op \in [Runs -> [OpIds -> OpRecord]] /\ c \in OpIds
  BY ManagedIds DEF IInv, TypeOK
<1>1. CASE op' = op
  BY <1>1 DEF EntryStays
<1>2. ASSUME NEW s \in Runs, s # R, NEW ledger, op' = [op EXCEPT ![s] = ledger] PROVE EntryStays(c)
  BY <1>0, <1>2 DEF EntryStays
<1>3. ASSUME NEW s \in Runs, Dispatch(s) \/ Receipt(s) \/ Request(s) \/ Finish(s) PROVE EntryStays(c)
  <2>1. CASE s = R
    BY <1>3, <2>1, CommandKeepsEntry
  <2>2. CASE s # R
    <3>1. LegalCommit(s)
      BY <1>3, DispatchLegal, ReceiptLegal, RequestLegal, FinishLegal
    <3> QED BY <1>2, <2>2, <3>1 DEF LegalCommit, Commit
  <2> QED BY <2>1, <2>2
<1>4. ASSUME NEW t \in Tasks, NEW s \in Runs, AdmitRun(t, s) PROVE EntryStays(c)
  <2>1. CASE s = R
    <3>1. op[R][c].kind = "none"
      BY <1>0, <1>4, <2>1 DEF AdmitRun, Admitted, IInv, Traces
    <3> QED BY <3>1 DEF EntryStays
  <2>2. CASE s # R
    BY <1>2, <1>4, <2>2 DEF AdmitRun
  <2> QED BY <2>1, <2>2
<1>5. CASE UNCHANGED vars
  BY <1>1, <1>5 DEF vars
<1>6. CASE Next
  <2>1. CASE Admit
    BY <1>4, <2>1 DEF Admit, AdmitTask, AdmitContinuation
  <2> QED BY <1>1, <1>3, <1>6, <2>1 DEF Next, AcquireOwner, ReleaseOwner, RetireRecovery
<1> QED BY <1>5, <1>6

\* The wait, with the store as it is.
Waiting == Waits(live, run[R].request, run[R].requestState)

\* The reader opens a request.
LEMMA PresentWaits ==
  ASSUME IInv, Sane(live), Waiting, PresentRequest
  PROVE  Waiting'
<1>0. live \in LiveRecord /\ live.next \in Requests /\ live.main = "presenting"
  BY DEF Sane, PresentRequest
<1>1. R \in Runs /\ run \in [Runs -> RunRecord] /\ run[R] \in RunRecord
  BY ManagedAssumption DEF IInv, TypeOK
<1> DEFINE q == live.next
           shows == IF live.aborted THEN {} ELSE {q}
<1>2. CASE RequestOpened(R, q) /\ live' = [Reads(live) EXCEPT !.request = q, !.eligibility[q] = "waiting",
                                             !.shown = @ \cup shows, !.calls = @ \cup shows]
  <2> DEFINE rec == [run[R] EXCEPT !.phase = "waiting", !.request = q, !.requestState = "waiting"]
  <2>1. run'[R] = rec
    BY <1>1, <1>2 DEF RequestOpened, Commit
  <2>2. rec.request = q /\ rec.requestState = "waiting"
    BY <1>1 DEF RunRecord
  <2> HIDE DEF rec
  <2>3. /\ live'.request = q /\ live'.eligibility[q] = "waiting"
        /\ ~live'.aborted => q \in live'.shown
    BY <1>0, <1>2 DEF LiveRecord, EligibilityTable, Reads
  <2>4. Waits(live', q, "waiting")
    BY <2>3 DEF Waits
  <2> QED BY <2>1, <2>2, <2>4 DEF Waiting
<1>3. CASE Rests /\ live' = ReaderError(Reads(live), FALSE)
  <2>1. run' = run
    BY <1>3 DEF Rests, vars
  <2>2. Waits(live', run[R].request, run[R].requestState)
    <3>1. CASE live' = [Reads(live) EXCEPT !.main = "turn_rejected"]
      BY <1>0, <3>1 DEF Waiting, Waits, LiveRecord, Reads
    <3>2. CASE live'.finish # "none"
      BY <3>2 DEF Waits
    <3>3. live' = [Reads(live) EXCEPT !.main = "turn_rejected"] \/ live'.finish # "none"
      BY <1>0, <1>3 DEF ReaderError, FinishRun, Abort, Uncertain, LiveRecord, Reads
    <3> QED BY <3>1, <3>2, <3>3
  <2> QED BY <2>1, <2>2 DEF Waiting
<1> QED BY <1>2, <1>3 DEF PresentRequest

\* The reader is told that a request is gone, and says so.
LEMMA RetireWaits ==
  ASSUME IInv, live \in LiveRecord, Waiting,
         RecordUnavailable \/ \E q \in Requests : ReadUnavailable(q)
  PROVE  Waiting'
<1>1. R \in Runs /\ run \in [Runs -> RunRecord] /\ run[R] \in RunRecord
  BY ManagedAssumption DEF IInv, TypeOK
<1>2. CASE RecordUnavailable
  <2>0. live.main = "retiring" /\ live' = [live EXCEPT !.main = "reading", !.next = NoRequest]
    BY <1>2 DEF RecordUnavailable, Reads
  <2>1. CASE run[R].request = live.next /\ RequestUnavailable(R)
    <3> DEFINE phase == IF run[R].phase = "waiting" THEN "running" ELSE run[R].phase
               rec == [run[R] EXCEPT !.requestState = "unavailable", !.phase = phase]
    <3>1. run'[R] = rec
      BY <1>1, <2>1 DEF RequestUnavailable, Commit
    <3>2. rec.request = run[R].request /\ rec.requestState = "unavailable"
      <4> HIDE DEF phase
      <4> QED BY <1>1 DEF RunRecord
    <3> HIDE DEF rec
    <3>3. Waits(live', run[R].request, "unavailable")
      BY <2>0 DEF Waiting, Waits, LiveRecord, Expected
    <3> QED BY <3>1, <3>2, <3>3 DEF Waiting
  <2>2. CASE run[R].request # live.next /\ Rests
    <3>1. run' = run
      BY <2>2 DEF Rests, vars
    <3>2. Waits(live', run[R].request, run[R].requestState)
      BY <2>0, <2>2 DEF Waiting, Waits, LiveRecord
    <3> QED BY <3>1, <3>2 DEF Waiting
  <2> QED BY <1>2, <2>1, <2>2 DEF RecordUnavailable
<1>3. ASSUME NEW q \in Requests, ReadUnavailable(q) PROVE Waiting'
  <2> DEFINE gone == IF live.request = q \/ \E c \in RequestAttempts : live.control[c].request = q
                     THEN "retired" ELSE live.eligibility[q]
             table == [live.eligibility EXCEPT ![q] = gone]
  <2>1. /\ run' = run /\ live.main = "reading"
        /\ live' = [live EXCEPT !.main = "retiring", !.next = q, !.shown = @ \ {q},
                                !.eligibility = table]
    BY ZenonT(60), <1>3 DEF ReadUnavailable, Emits, Rests, vars
  <2>2. \A p \in Requests : p # q => table[p] = live.eligibility[p]
    BY DEF LiveRecord, EligibilityTable
  <2> HIDE DEF table, gone
  <2>3. live.shown \subseteq Requests
    BY DEF LiveRecord
  <2>4. Waits(live', run[R].request, run[R].requestState)
    BY <2>1, <2>2, <2>3 DEF Waiting, Waits, LiveRecord
  <2> QED BY SMTT(30), <2>1, <2>4 DEF Waiting
<1> QED BY <1>2, <1>3

\* An answer claims the request, or leaves.
LEMMA ClaimWaits ==
  ASSUME live \in LiveRecord, Waiting, NEW c \in Answers, BeginAnswer(c)
  PROVE  Waiting'
<1> DEFINE q == live.control[c].request
<1>1. run' = run /\ live.control[c].pc = "queued"
  BY DEF BeginAnswer, Rests, vars, At
<1>2. CASE /\ live.request = q /\ live.eligibility[q] = "waiting"
           /\ live' = [live EXCEPT !.control[c].pc = "intent", !.eligibility[q] = "claimed"]
  <2>1. /\ live'.control[c].pc = "intent" /\ live'.control[c].request = q
        /\ \A d \in Serialized : d # c => live'.control[d] = live.control[d]
        /\ live'.request = live.request /\ live'.shown = live.shown /\ live'.main = live.main
        /\ live'.next = live.next /\ live'.finish = live.finish /\ live'.aborted = live.aborted
        /\ \A p \in Requests : live'.eligibility[p] = (IF p = q THEN "claimed" ELSE live.eligibility[p])
    BY <1>2 DEF LiveRecord, ControlTable, Control, Serialized, EligibilityTable
  <2>2. "cancel" \in Serialized /\ "cancel" # c /\ live.shown \subseteq Requests
    BY ManagedAssumption, ControlsAssumption DEF FixedIds, CriticalKinds, Serialized, LiveRecord
  <2>3. Waits(live', run[R].request, run[R].requestState)
    BY <1>2, <2>1, <2>2 DEF Waiting, Waits, Serialized
  <2> QED BY <1>1, <2>3 DEF Waiting
<1>3. CASE live' = Answered(Leave(live, c), c)
  <2>1. /\ \A d \in Serialized : d # c => live'.control[d] = live.control[d]
        /\ live'.request = live.request /\ live'.shown = live.shown /\ live'.main = live.main
        /\ live'.next = live.next /\ live'.finish = live.finish /\ live'.aborted = live.aborted
        /\ live'.eligibility = live.eligibility
    BY <1>3 DEF Leave, Answered, LiveRecord, ControlTable, Control, Serialized
  <2>2. "cancel" \in Serialized /\ "cancel" # c
    BY ManagedAssumption, ControlsAssumption DEF FixedIds, CriticalKinds, Serialized
  <2>3. Waits(live', run[R].request, run[R].requestState)
    BY <1>1, <2>1, <2>2 DEF Waiting, Waits, Serialized
  <2> QED BY <1>1, <2>3 DEF Waiting
<1> QED BY <1>2, <1>3 DEF BeginAnswer

\* An answer is intended, or refused and the request given back.
LEMMA IntentWaits ==
  ASSUME IInv, live \in LiveRecord, Waiting, NEW c \in Answers, AnswerIntent(c)
  PROVE  Waiting'
<1> DEFINE q == live.control[c].request
<1>0. R \in Runs /\ run \in [Runs -> RunRecord] /\ run[R] \in RunRecord
  BY ManagedAssumption DEF IInv, TypeOK
<1>1. "cancel" \in Serialized /\ "cancel" # c /\ live.shown \subseteq Requests
  BY ManagedAssumption, ControlsAssumption DEF FixedIds, CriticalKinds, Serialized, LiveRecord
<1>2. CASE /\ ResolutionIntended(R, c)
           /\ live' = [live EXCEPT !.control[c].pc = "call", !.tail = Tail(@)]
  <2> DEFINE rec == [run[R] EXCEPT !.phase = "running", !.requestState = "resolution_intended",
                                   !.operations = @ + 1]
  <2>1. run'[R] = rec /\ run[R].requestState = "waiting"
    BY <1>0, <1>2 DEF ResolutionIntended, Commit
  <2>2. rec.request = run[R].request /\ rec.requestState = "resolution_intended"
    BY <1>0 DEF RunRecord
  <2> HIDE DEF rec
  <2>3. /\ \A d \in Serialized : d # c => live'.control[d] = live.control[d]
        /\ live'.request = live.request /\ live'.shown = live.shown /\ live'.main = live.main
        /\ live'.next = live.next /\ live'.finish = live.finish /\ live'.aborted = live.aborted
        /\ live'.eligibility = live.eligibility
    BY <1>2 DEF LiveRecord, ControlTable, Control, Serialized
  <2>4. Waits(live', run[R].request, "resolution_intended")
    BY <1>1, <2>1, <2>3 DEF Waiting, Waits, Expected
  <2> QED BY <2>1, <2>2, <2>4 DEF Waiting
<1>3. CASE /\ Rests
           /\ live' = [Answered(Leave(live, c), c) EXCEPT
                !.eligibility[q] = IF q \in live.shown /\ live.request = q THEN "waiting" ELSE @]
  <2> DEFINE back == IF q \in live.shown /\ live.request = q THEN "waiting" ELSE live.eligibility[q]
             table == [live.eligibility EXCEPT ![q] = back]
  <2>1. run' = run
    BY <1>3 DEF Rests, vars
  <2>2. /\ \A p \in Requests : p # q => table[p] = live.eligibility[p]
        /\ q \in live.shown /\ live.request = q => table[q] = "waiting"
    BY <1>1 DEF LiveRecord, EligibilityTable
  <2>3. live' = [Answered(Leave(live, c), c) EXCEPT !.eligibility = table]
    BY <1>3 DEF Answered, Leave, LiveRecord
  <2> HIDE DEF back, table
  <2>4. /\ \A d \in Serialized : d # c => live'.control[d] = live.control[d]
        /\ live'.request = live.request /\ live'.shown = live.shown /\ live'.main = live.main
        /\ live'.next = live.next /\ live'.finish = live.finish /\ live'.aborted = live.aborted
        /\ live'.eligibility = table
    BY <2>3 DEF Leave, Answered, LiveRecord, ControlTable, Control, Serialized
  <2>5. Waits(live', run[R].request, run[R].requestState)
    BY <1>1, <2>2, <2>4 DEF Waiting, Waits, Serialized
  <2> QED BY <2>1, <2>5 DEF Waiting
<1> QED BY <1>2, <1>3 DEF AnswerIntent

\* The receipt of an answer: what the store offers again, the live run offers again.
LEMMA ReceiptWaits ==
  ASSUME IInv, live \in LiveRecord, Waiting, AnswersRecorded, NEW c \in Answers, AnswerReceipt(c)
  PROVE  Waiting'
<1> DEFINE q == live.control[c].request
           result == live.control[c].result
           prior == op[R][c]
           after == EligibilityAfter(c)
           table == [live.eligibility EXCEPT ![q] = after]
           l == [Answered(live, c) EXCEPT !.eligibility[q] = after]
<1>0. R \in Runs /\ run \in [Runs -> RunRecord] /\ run[R] \in RunRecord
  BY ManagedAssumption DEF IInv, TypeOK
<1>1. "cancel" \in Serialized /\ "cancel" # c /\ live.shown \subseteq Requests
  BY ManagedAssumption, ControlsAssumption DEF FixedIds, CriticalKinds, Serialized, LiveRecord
<1>2. live.control[c].pc = "receipt" /\ prior.kind = "request_resolution" /\ prior.request = q
  BY DEF AnswerReceipt, At, AnswersRecorded, InFlight
<1>3. PICK disposition, state :
        /\ OperationReceipt(R, c, disposition, state)
        /\ state = "pending" => result = "pending"
  BY DEF AnswerReceipt
<1>4. run[R].request = q => run[R].requestState \in {"resolution_intended", "unavailable"}
  BY <1>2, <1>3 DEF OperationReceipt
<1> DEFINE rec == ReceiptRun(run[R], prior, disposition, state)
<1>5. run'[R] = rec
  BY <1>0, <1>3 DEF OperationReceipt, Commit
<1> HIDE DEF rec
<1>6. /\ rec.request = run[R].request
      /\ run[R].request # q => rec.requestState = run[R].requestState
      /\ run[R].request = q /\ rec.requestState \in Expected
           => /\ result = "pending" /\ rec.requestState = "waiting"
              /\ run[R].requestState # "unavailable"
  BY <1>0, <1>2, <1>3, AnswerMoves DEF rec
<1>7. /\ \A p \in Requests : p # q => table[p] = live.eligibility[p]
      /\ q \in Requests => table[q] = after
  BY DEF LiveRecord, EligibilityTable
<1>8. live.eligibility[q] # "retired" /\ result = "pending" /\ live.request = q /\ ~live.aborted
        /\ live.control["cancel"].pc = "none" => after = "waiting"
  BY DEF EligibilityAfter, Cancelling
<1>9. live' = l \/ live' = FinishRun(l, "recovery_required")
  BY DEF AnswerReceipt
<1>10. l = [Answered(live, c) EXCEPT !.eligibility = table]
  BY DEF Answered, LiveRecord
<1> HIDE DEF after, table
<1>11. /\ \A d \in Serialized : d # c => l.control[d] = live.control[d]
       /\ l.request = live.request /\ l.shown = live.shown /\ l.main = live.main
       /\ l.next = live.next /\ l.finish = live.finish /\ l.aborted = live.aborted
       /\ l.eligibility = table
  <2> HIDE DEF l
  <2> QED BY <1>10 DEF Answered, LiveRecord, ControlTable, Control, Serialized
<1>12. live' = FinishRun(l, "recovery_required") => live'.finish # "none"
  BY DEF FinishRun, Abort, Answered, LiveRecord
<1> HIDE DEF l
<1>13. CASE live' = l
  <2>1. CASE run[R].request = q
    <3>1. Waits(l, q, rec.requestState)
      <4>1. ASSUME l.main # "none", l.finish = "none", ~l.aborted, l.control["cancel"].pc = "none",
                   rec.requestState \in Expected, ~(l.main = "retiring" /\ l.next = q)
            PROVE  q \in l.shown /\ l.eligibility[q] = "waiting"
        <5>1. run[R].requestState = "resolution_intended" /\ result = "pending"
          BY <1>4, <1>6, <2>1, <4>1
        <5>2. q \in live.shown /\ live.eligibility[q] # "retired" /\ live.request = q
          BY <1>1, <1>11, <2>1, <4>1, <5>1 DEF Waiting, Waits, Expected
        <5> QED BY <1>1, <1>7, <1>8, <1>11, <4>1, <5>1, <5>2
      <4>2. l.main # "none" /\ l.finish = "none" => l.request = q
        BY <1>11, <2>1 DEF Waiting, Waits
      <4> QED BY <4>1, <4>2 DEF Waits
    <3> QED BY <1>5, <1>6, <1>13, <2>1, <3>1 DEF Waiting
  <2>2. CASE run[R].request # q
    <3>1. Waits(l, run[R].request, run[R].requestState)
      BY <1>1, <1>2, <1>7, <1>11, <2>2 DEF Waiting, Waits, Serialized
    <3> QED BY <1>5, <1>6, <1>13, <2>2, <3>1 DEF Waiting
  <2> QED BY <2>1, <2>2
<1>14. CASE live'.finish # "none"
  BY <1>14 DEF Waiting, Waits
<1> QED BY <1>9, <1>12, <1>13, <1>14

\* An intended answer enters the ledger; the others stay there.
LEMMA IntentRecords ==
  ASSUME IInv, live \in LiveRecord, AnswersRecorded, [Next]_vars, NEW c \in Answers, AnswerIntent(c)
  PROVE  AnswersRecorded'
<1> DEFINE q == live.control[c].request
<1>0. R \in Runs /\ op \in [Runs -> [OpIds -> OpRecord]] /\ Answers \subseteq Controls /\ c \in OpIds
  BY ManagedIds DEF IInv, TypeOK
<1>1. \A d \in Answers : EntryStays(d)
  BY <1>0, StoreKeepsEntry
<1>2. CASE /\ run[R].request = q /\ ResolutionIntended(R, c)
           /\ live' = [live EXCEPT !.control[c].pc = "call", !.tail = Tail(@)]
  <2>1. /\ \A d \in Answers : d # c => live'.control[d] = live.control[d]
        /\ live'.control[c].request = q
    BY <1>2 DEF LiveRecord, ControlTable, Control, Serialized
  <2> DEFINE entry == NewOperation("request_resolution", run[R].request)
  <2>2. op' = [op EXCEPT ![R] = [op[R] EXCEPT ![c] = entry]]
    BY <1>2 DEF ResolutionIntended, Commit, WithOperation
  <2>3. entry.kind = "request_resolution" /\ entry.request = q
    BY <1>2 DEF NewOperation
  <2> HIDE DEF entry
  <2>4. op'[R][c] = entry
    BY <1>0, <2>2
  <2> QED BY <1>1, <2>1, <2>3, <2>4 DEF AnswersRecorded, EntryStays
<1>3. CASE live' = [Answered(Leave(live, c), c) EXCEPT
                !.eligibility[q] = IF q \in live.shown /\ live.request = q THEN "waiting" ELSE @]
  <2>1. /\ \A d \in Answers : d # c => live'.control[d] = live.control[d]
        /\ live'.control[c].pc = "done"
    BY <1>3 DEF Leave, Answered, LiveRecord, ControlTable, Control, Serialized
  <2> QED BY <1>1, <2>1 DEF AnswersRecorded, EntryStays, InFlight
<1> QED BY <1>2, <1>3 DEF AnswerIntent

\* Every other step leaves answers in the ledger there.
LEMMA StillRecorded ==
  ASSUME IInv, AnswersRecorded, [Next]_vars, StillAnswers(live, live')
  PROVE  AnswersRecorded'
<1>1. \A c \in Answers : EntryStays(c)
  BY ManagedIds, StoreKeepsEntry
<1> QED BY <1>1 DEF AnswersRecorded, StillAnswers, EntryStays

\* The inductive invariant behind the theorem about waiting.
WaitInv == HonestInv /\ Waiting /\ AnswersRecorded

\* Nothing waits before the run is launched.
LEMMA InitWait == ManagedInit => WaitInv
<1> SUFFICES ASSUME ManagedInit PROVE WaitInv
  OBVIOUS
<1>1. live = NoLive /\ HonestInv
  BY InitHonest DEF ManagedInit
<1>2. live.main = "none" /\ \A c \in Answers : live.control[c].pc = "none"
  BY <1>1 DEF NoLive, Serialized
<1> QED BY <1>1, <1>2 DEF WaitInv, Waiting, Waits, AnswersRecorded, InFlight

\* Every step keeps the invariant.
LEMMA NextWait == WaitInv /\ [ManagedNext]_managedVars => WaitInv'
<1> SUFFICES ASSUME WaitInv, [ManagedNext]_managedVars PROVE WaitInv'
  OBVIOUS
<1>0. /\ HonestInv /\ ManagedInv /\ IInv /\ LedgerInv /\ Sane(live) /\ live \in LiveRecord /\ TurnTrue
      /\ TypeOK /\ Waiting /\ AnswersRecorded /\ Orderly(live, run[R].recovery)
  BY DEF WaitInv, HonestInv, ManagedInv, Sane, IInv
<1>1. HonestInv' /\ [Next]_vars
  BY <1>0, NextHonest, NextManaged
<1>2. R \in Runs /\ run \in [Runs -> RunRecord] /\ run[R] \in RunRecord /\ RequestTruth(run[R])
  BY <1>0, ManagedAssumption DEF IInv, TypeOK, RequestsTrue
<1>3. ASSUME live' = live PROVE AnswersRecorded'
  BY <1>0, <1>1, <1>3, StillRecorded DEF StillAnswers
<1>4. ASSUME live' = NoLive \/ live' = [NoLive EXCEPT !.main = "claimed"]
      PROVE  AnswersRecorded' /\ live'.request = NoRequest
  <2>1. NoLive.request = NoRequest /\ \A c \in Answers : NoLive.control[c].pc = "none"
    BY DEF NoLive, Serialized
  <2>2. NoLive \in LiveRecord
    BY NoLiveSane DEF Sane
  <2>3. live'.control = NoLive.control /\ live'.request = NoLive.request
    BY <1>4, <2>2 DEF LiveRecord
  <2> QED BY <2>1, <2>3 DEF AnswersRecorded, InFlight
<1>5. ASSUME UNCHANGED managedVars PROVE Waiting' /\ AnswersRecorded'
  <2>1. live' = live /\ run' = run
    BY <1>5 DEF managedVars, vars
  <2> QED BY <1>0, <1>3, <2>1 DEF Waiting
<1>6. ASSUME EnterTurn PROVE Waiting' /\ AnswersRecorded'
  <2>1. UNCHANGED vars /\ live' = [live EXCEPT !.started = TRUE]
    BY <1>6 DEF EnterTurn, Rests
  <2>2. StillWaits(live, live') /\ StillAnswers(live, live')
    BY <1>0, <2>1 DEF StillWaits, StillAnswers, LiveRecord
  <2>3. run' = run
    BY <2>1 DEF vars
  <2>4. Waits(live', run[R].request, run[R].requestState)
    BY <1>0, <2>2, StillWaiting DEF Waiting
  <2> QED BY <1>0, <1>1, <2>2, <2>3, <2>4, StillRecorded DEF Waiting
<1>7. ASSUME Launch PROVE Waiting' /\ AnswersRecorded'
  <2>1. live' = [NoLive EXCEPT !.main = "claimed"] /\ Dispatch(R) /\ run[R].phase = "queued"
    BY <1>7, DispatchCommand DEF Launch, DispatchPrepare
  <2>2. run[R].request = NoRequest /\ run[R].requestState = "none"
    BY <1>2, <2>1 DEF RequestTruth
  <2>3. run'[R].request = NoRequest /\ run'[R].requestState \notin Expected
    BY <1>0, <2>1, <2>2, DispatchSteady DEF Steady, Expected
  <2> QED BY <1>4, <2>1, <2>3 DEF Waiting, Waits
<1>8. ASSUME Begin, ~Launch PROVE Waiting' /\ AnswersRecorded'
  <2>1. live' = live
    BY <1>8 DEF Begin, RejectQueued, Recover
  <2>2. CASE live.main = "none"
    BY <1>3, <2>1, <2>2 DEF Waiting, Waits
  <2>3. CASE live.main # "none"
    <3>1. run[R].phase \notin {"absent", "queued"}
      BY <1>0, <2>3 DEF TurnTrue, Begun
    <3>2. run' = run
      BY <1>8, <2>3, <3>1 DEF Begin, RejectQueued, Recover, AcquireOwner, AdmitTask, AdmitRun, Admitted
    <3> QED BY <1>0, <1>3, <2>1, <3>2 DEF Waiting
  <2> QED BY <2>2, <2>3
<1>9. ASSUME Crash PROVE Waiting' /\ AnswersRecorded'
  <2>1. live' = NoLive /\ live'.main = "none"
    BY <1>9, NoLiveSane DEF Crash
  <2> QED BY <1>4, <2>1 DEF Waiting, Waits
<1>10. ASSUME Continues PROVE Waiting' /\ AnswersRecorded'
  <2> DEFINE more == run'[R].recovery
  <2>1. more \in BOOLEAN /\ Orderly(live, more)
    <3>1. more \in BOOLEAN /\ run[R].recovery \in BOOLEAN
      BY <1>1, <1>2, ManagedAssumption DEF HonestInv, ManagedInv, IInv, TypeOK, RunRecord
    <3>2. run[R].recovery => more
      BY <1>0, <1>1, StoreRemembers DEF Remembered
    <3> HIDE DEF more
    <3> QED BY <1>0, <3>1, <3>2, DoubtGrows
  <2>2. /\ \A c \in Steers : SteerReceipt(c) /\ live.control[c].result = "uncertain" => more
        /\ \A c \in Answers : AnswerReceipt(c) /\ live.control[c].result = "uncertain" => more
    BY <1>0, <1>1, ControlDoubtMarks DEF HonestInv
  <2> HIDE DEF more
  <2>3. Ordered(more)
    BY <1>0, <1>10, <2>1, <2>2, ContinuesOrderly
  <2>4. Waiting'
    <3>1. CASE Asks
      BY <1>0, <3>1, PresentWaits, RetireWaits, ClaimWaits, IntentWaits, ReceiptWaits DEF Asks
    <3>2. CASE ~Asks
      <4>1. Steady
        BY <1>0, <1>10, <3>2, ContinuesMoves, PlainSteady
      <4>2. Waits(live', run[R].request, run[R].requestState)
        BY <1>0, <2>3, <3>2, StillWaiting DEF Ordered, Waiting
      <4> QED BY <4>1, <4>2 DEF Waiting, Waits, Steady
    <3> QED BY <3>1, <3>2
  <2>5. AnswersRecorded'
    BY <1>0, <1>1, <2>3, StillRecorded, IntentRecords DEF Ordered
  <2> QED BY <2>4, <2>5
<1> QED BY <1>1, <1>5, <1>6, <1>7, <1>8, <1>9, <1>10, ManagedKinds DEF WaitInv

\* Live run and ledger agree on the request that waits, in every reachable state.
THEOREM WaitInvariant == ManagedSpec => []WaitInv
BY InitWait, NextWait, PTL DEF ManagedSpec

\* A waiting run is open to an answer in the sense of control.ts:152, or an answer is about
\* to be intended or to report an unknown effect, or a steering of unknown effect closes the
\* run to answers, or the run is being ended (control.ts, stream.ts).
THEOREM NoStrandedWait == ManagedSpec => []WaitingIsAnswerable
<1>1. ASSUME WaitInv PROVE WaitingIsAnswerable
  <2> SUFFICES ASSUME live.main \in {"reading", "routing", "presenting"}, run[R].phase = "waiting",
                      ~Cancelling, ~Finishing, ~live.aborted
               PROVE  \/ AdmitsAnswer
                      \/ \E c \in Answers : At(c, "intent")
                      \/ \E c \in Answers : At(c, "receipt") /\ live.control[c].result = "uncertain"
                      \/ SteeringInDoubt
    BY DEF WaitingIsAnswerable
  <2>1. /\ RequestTruth(run[R]) /\ Waiting /\ live \in LiveRecord
        /\ TurnFirst(live) /\ OpenDoubt(live) /\ SteeringDoubt(live, run[R].recovery)
    BY <1>1, ManagedAssumption
    DEF WaitInv, HonestInv, ManagedInv, Sane, Orderly, IInv, RequestsTrue
  <2>2. run[R].requestState = "waiting"
    BY <2>1 DEF RequestTruth
  <2>3. \/ live.request = run[R].request /\ live.eligibility[live.request] = "waiting"
        \/ \E c \in Answers : At(c, "intent")
    BY <2>1, <2>2 DEF Waiting, Waits, Expected, Cancelling, Finishing, At
  <2>4. live.stream
    BY <2>1 DEF TurnFirst
  <2>5. \/ live.uncertain = "none"
        \/ \E c \in Answers : At(c, "receipt") /\ live.control[c].result = "uncertain"
        \/ SteeringInDoubt
    <3>1. live.uncertain \in {"none", "dispatch", "steering", "request", "cancellation"}
      BY <2>1 DEF LiveRecord, Doubts
    <3>2. CASE live.uncertain = "steering"
      BY <2>1, <3>2 DEF SteeringDoubt, SteeringInDoubt, At
    <3>3. CASE live.uncertain \in {"dispatch", "request", "cancellation"}
      BY <2>1, <3>3 DEF OpenDoubt, Finishing, Cancelling, At
    <3> QED BY <3>1, <3>2, <3>3
  <2> QED BY <2>3, <2>4, <2>5 DEF AdmitsAnswer
<1> QED BY <1>1, WaitInvariant, PTL

================================================================================
