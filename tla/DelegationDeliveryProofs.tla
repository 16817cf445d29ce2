----------------------- MODULE DelegationDeliveryProofs -----------------------
(***************************************************************************)
(* Machine-checked facts about DelegationDelivery, for any number of       *)
(* notifications and owners: the inbox holds at most one copy, callbacks   *)
(* do not pile up or outlive their owner, no completion is forgotten, and  *)
(* the mechanism implements DeliveryContract.                              *)
(***************************************************************************)
EXTENDS DelegationDelivery, TLAPS, FiniteSetTheorems

\* A callback is in flight for one notification at most, under a living owner; an
\* acceptance is asked for only while the verdict is open, and its slot knows whether it
\* has been committed.
CallsTrue ==
  /\ \A m, n \in InFlight : m = n
  /\ InFlight # {} => life = "up"
  /\ \A n \in Notifications :
       /\ call[n].kind = "accept" => /\ note[n].state \in {"pending", "claimed"}
                                     /\ copies[n] = IF call[n].committed THEN 1 ELSE 0
       /\ call[n].kind # "accept" => ~call[n].committed

\* The scheduler works on a notification that it has claimed ...
Works == pump.at \in {"inspect", "inspecting", "decide", "accepting", "receipt"}

\* ... which is still claimed, and whose callback, if any, is its own.
PumpTrue ==
  /\ pump.at # "idle" => life = "up"
  /\ Works => pump.current \in Notifications /\ note[pump.current].state = "claimed"
  /\ pump.at \in {"inspect", "decide"} => InFlight = {}
  /\ pump.at = "inspecting" => call[pump.current].kind = "inspect"
  /\ pump.at = "accepting" => call[pump.current].kind = "accept"
  /\ pump.at = "decide" => copies[pump.current] = 0

\* ... and what it is about to record agrees with the inbox.
ResultTrue ==
  pump.at = "receipt" =>
    /\ pump.result # "uncertain" => call[pump.current].kind = "none"
    /\ pump.result = "accepted" => copies[pump.current] = 1
    /\ pump.result \in {"blocked", "expired"} => copies[pump.current] = 0

\* The inbox has seen nothing of a notification that was never claimed, nor of one whose
\* last attempt did not end in doubt.
NotesTrue ==
  \A n \in Notifications :
    /\ copies[n] \in {0, 1}
    /\ note[n].state = "absent" => note[n].attempts = 0
    /\ note[n].state = "claimed" => note[n].attempts # 0
    /\ note[n].attempts = 0 => copies[n] = 0 /\ call[n].kind = "none"
    /\ note[n].state = "pending" /\ note[n].reason # "uncertain"
         => copies[n] = 0 /\ call[n].kind = "none"

\* The inductive invariant of delivery.
DeliveryInv == TypeOK /\ CallsTrue /\ PumpTrue /\ ResultTrue /\ NotesTrue

\* A wake-up starts a pass when none runs and is remembered otherwise; it disturbs nothing else.
LEMMA ScheduledFacts ==
  ASSUME NEW state \in PumpRecord
  PROVE  /\ Scheduled(state) \in PumpRecord
         /\ Scheduled(state).current = state.current
         /\ Scheduled(state).result = state.result
         /\ state.at # "idle" => Scheduled(state).at = state.at
         /\ state.at = "idle" => Scheduled(state).at \in {"idle", "scan"}
         /\ Scheduled(state).at = "scan" => state.at = "scan" \/ life = "up"
BY DEF Scheduled, PumpRecord

\* A pass ends idle, or in the pass that a remembered wake-up asks for.
LEMMA EndedFacts ==
  ASSUME NEW state \in PumpRecord
  PROVE  /\ Ended(state) \in PumpRecord
         /\ Ended(state).at \in {"idle", "scan"}
         /\ Ended(state).at = "scan" => life = "up"
<1>1. IdlePump \in PumpRecord /\ IdlePump.at = "idle"
  BY DEF IdlePump, PumpRecord, Results
<1> QED BY <1>1, ScheduledFacts DEF Ended

\* What a claim writes is a record, and so is what a receipt writes.
LEMMA ClaimedType == ASSUME TypeOK, NEW n \in Notifications PROVE Claimed(n) \in NoteRecord
<1>1. note[n] \in NoteRecord /\ epoch \in 0..MaxEpoch
  BY DEF TypeOK
<1> DEFINE attempts == IF note[n].attempts = 0 THEN 1 ELSE 2
<1>2. attempts \in 0..2
  OBVIOUS
<1>3. CASE ExpiresUnclaimed(n)
  <2>1. Claimed(n) = [note[n] EXCEPT !.attempts = attempts, !.state = "expired", !.reason = "none"]
    BY <1>1, <1>3 DEF Claimed, NoteRecord
  <2> HIDE DEF attempts
  <2> QED BY <1>1, <1>2, <2>1 DEF NoteRecord, Final
<1>4. CASE ~ExpiresUnclaimed(n)
  <2>1. Claimed(n) = [note[n] EXCEPT !.attempts = attempts, !.state = "claimed", !.claim = epoch]
    BY <1>1, <1>4 DEF Claimed, NoteRecord
  <2> HIDE DEF attempts
  <2> QED BY <1>1, <1>2, <2>1 DEF NoteRecord, Final
<1> QED BY <1>3, <1>4

\* The receipt of a delivery writes a notification and a clock.
LEMMA CommitReceiptType ==
  ASSUME TypeOK, NEW n \in Notifications, NEW result \in Results, CommitReceipt(n, result)
  PROVE  note' \in [Notifications -> NoteRecord] /\ clock' \in [Notifications -> ClockRecord]
<1>1. note[n] \in NoteRecord /\ clock[n] \in ClockRecord
  BY DEF TypeOK
<1>2. Receipted(n, result) \in NoteRecord
  <2>1. 0 \in 0..MaxEpoch
    BY DeliveryAssumption
  <2>2. CASE result \in Final
    BY <1>1, <2>1, <2>2 DEF Receipted, NoteRecord
  <2>3. CASE result \notin Final
    BY <1>1, <2>1, <2>3 DEF Receipted, NoteRecord, Results
  <2> QED BY <2>2, <2>3
<1>3. \A due \in BOOLEAN : [clock[n] EXCEPT !.due = due] \in ClockRecord
  BY <1>1 DEF ClockRecord
<1>4. (result \in Final) \in BOOLEAN
  OBVIOUS
<1>5. [clock[n] EXCEPT !.due = result \in Final] \in ClockRecord
  BY <1>3, <1>4
<1> QED BY <1>2, <1>5 DEF TypeOK, CommitReceipt

\* A callback that starts in the free slot is the only one in flight.
LEMMA CallStarted ==
  ASSUME TypeOK, NEW c \in Notifications, NEW kind \in {"inspect", "accept"}, InFlight = {},
         call' = [call EXCEPT ![c].kind = kind]
  PROVE  /\ call' \in [Notifications -> CallRecord]
         /\ InFlight' = {c}
         /\ call'[c].kind = kind /\ call'[c].committed = call[c].committed
         /\ \A m \in Notifications : m # c => call'[m] = call[m]
BY DEF TypeOK, CallRecord, InFlight

\* A callback that ends frees its slot.
LEMMA CallEnded ==
  ASSUME TypeOK, NEW c \in Notifications, call' = [call EXCEPT ![c] = NoCall]
  PROVE  /\ call' \in [Notifications -> CallRecord]
         /\ InFlight' = InFlight \ {c}
         /\ call'[c] = NoCall
         /\ \A m \in Notifications : m # c => call'[m] = call[m]
BY DEF TypeOK, CallRecord, NoCall, InFlight

\* A scan only fills the pass.
LEMMA ScanInv == ASSUME DeliveryInv, Scan PROVE DeliveryInv'
<1> USE DEF DeliveryInv
<1>1. TypeOK'
  <2>1. pump' \in PumpRecord
    BY DEF TypeOK, PumpRecord, Scan
  <2> QED BY <2>1 DEF TypeOK, Scan
<1> USE DEF TypeOK, NoteRecord, CallRecord, PumpRecord
<1>2. CallsTrue'
  BY DEF CallsTrue, InFlight, PumpTrue, Works, NotesTrue, Scan
<1>3. PumpTrue'
  BY DEF PumpTrue, Works, CallsTrue, InFlight, NotesTrue, Scan
<1>4. ResultTrue'
  BY DEF ResultTrue, PumpTrue, Works, CallsTrue, InFlight, NotesTrue, Scan
<1>5. NotesTrue'
  BY DEF NotesTrue, PumpTrue, ResultTrue, Works, CallsTrue, InFlight, Scan
<1> QED BY <1>1, <1>2, <1>3, <1>4, <1>5

\* An early return ends the pass.
LEMMA ReturnInv == ASSUME DeliveryInv, Return PROVE DeliveryInv'
<1> USE DEF DeliveryInv
<1>0. pump' \in PumpRecord /\ pump'.at \in {"idle", "scan"} /\ (pump'.at = "scan" => life = "up")
  BY EndedFacts DEF TypeOK, Return
<1>1. TypeOK'
  <2>1. pump' \in PumpRecord
    BY <1>0
  <2> QED BY <2>1 DEF TypeOK, Return, MustReturn
<1> USE DEF TypeOK, NoteRecord, CallRecord, PumpRecord
<1>2. CallsTrue'
  BY <1>0 DEF CallsTrue, InFlight, PumpTrue, Works, NotesTrue, Return, MustReturn
<1>3. PumpTrue'
  BY <1>0 DEF PumpTrue, Works, CallsTrue, InFlight, NotesTrue, Return, MustReturn
<1>4. ResultTrue'
  BY <1>0 DEF ResultTrue, PumpTrue, Works, CallsTrue, InFlight, NotesTrue, Return, MustReturn
<1>5. NotesTrue'
  BY <1>0 DEF NotesTrue, PumpTrue, ResultTrue, Works, CallsTrue, InFlight, Return, MustReturn
<1> QED BY <1>1, <1>2, <1>3, <1>4, <1>5

\* A postponed notification waits for its retry.
LEMMA PostponeInv ==
  ASSUME DeliveryInv, NEW n \in Notifications, Postpone(n)
  PROVE  DeliveryInv'
<1> USE DEF DeliveryInv
<1>1. TypeOK'
  <2>1. pump' \in PumpRecord
    BY DEF TypeOK, PumpRecord, Postpone
  <2> QED BY <2>1 DEF TypeOK, Postpone
<1> USE DEF TypeOK, NoteRecord, CallRecord, PumpRecord
<1>2. CallsTrue'
  BY DEF CallsTrue, InFlight, PumpTrue, Works, NotesTrue, Postpone
<1>3. PumpTrue'
  BY DEF PumpTrue, Works, CallsTrue, InFlight, NotesTrue, Postpone
<1>4. ResultTrue'
  BY DEF ResultTrue, PumpTrue, Works, CallsTrue, InFlight, NotesTrue, Postpone
<1>5. NotesTrue'
  BY DEF NotesTrue, PumpTrue, ResultTrue, Works, CallsTrue, InFlight, Postpone
<1> QED BY <1>1, <1>2, <1>3, <1>4, <1>5

\* A claim finds no callback in flight; a first one finds an inbox that knows nothing.
LEMMA ClaimInv ==
  ASSUME DeliveryInv, NEW n \in Notifications, Claim(n)
  PROVE  DeliveryInv'
<1> USE DEF DeliveryInv
<1>1. TypeOK'
  <2>1. note' \in [Notifications -> NoteRecord]
    BY ClaimedType DEF TypeOK, Claim
  <2>2. pump' \in PumpRecord
    BY DEF TypeOK, PumpRecord, Claim
  <2> QED BY <2>1, <2>2 DEF TypeOK, Claim, Claimed, ExpiresUnclaimed, InspectsFirst, MustReturn
<1> USE DEF TypeOK, NoteRecord, CallRecord, PumpRecord
<1>2. CallsTrue'
  BY DEF CallsTrue, InFlight, PumpTrue, Works, NotesTrue, Claim, Claimed, ExpiresUnclaimed,
     InspectsFirst, MustReturn
<1>3. PumpTrue'
  BY DEF PumpTrue, Works, CallsTrue, InFlight, NotesTrue, Claim, Claimed, ExpiresUnclaimed,
     InspectsFirst, MustReturn
<1>4. ResultTrue'
  BY DEF ResultTrue, PumpTrue, Works, CallsTrue, InFlight, NotesTrue, Claim, Claimed,
     ExpiresUnclaimed, InspectsFirst, MustReturn
<1>5. NotesTrue'
  BY DEF NotesTrue, PumpTrue, ResultTrue, Works, CallsTrue, InFlight, Claim, Claimed,
     ExpiresUnclaimed, InspectsFirst, MustReturn
<1> QED BY <1>1, <1>2, <1>3, <1>4, <1>5

\* The inspection takes the free slot.
LEMMA CallInspectInv == ASSUME DeliveryInv, CallInspect PROVE DeliveryInv'
<1> USE DEF DeliveryInv
<1> DEFINE c == pump.current
<1>c. c \in Notifications /\ InFlight = {} /\ life = "up"
  BY DEF CallInspect, PumpTrue, Works
<1>p. /\ pump' \in PumpRecord /\ pump'.current = c
      /\ stopped # "no" => pump'.at = "receipt" /\ pump'.result = "uncertain" /\ call' = call
      /\ stopped = "no" => pump'.at = "inspecting" /\ call' = [call EXCEPT ![c].kind = "inspect"]
  BY ZenonT(60) DEF TypeOK, PumpRecord, Results, CallInspect
<1>s. stopped = "no" =>
        /\ call' \in [Notifications -> CallRecord] /\ InFlight' = {c}
        /\ call'[c].kind = "inspect" /\ call'[c].committed = call[c].committed
        /\ \A m \in Notifications : m # c => call'[m] = call[m]
  BY <1>c, <1>p, CallStarted
<1>u. UNCHANGED <<note, copies, life>>
  BY DEF CallInspect
<1>a. note[c].state = "claimed" /\ note[c].attempts # 0
  BY <1>c DEF CallInspect, PumpTrue, Works, NotesTrue
<1>f. call[c].kind = "none"
  BY <1>c DEF InFlight
<1> HIDE DEF c
<1>1. TypeOK'
  BY <1>p, <1>s DEF TypeOK, CallInspect
<1>2. CallsTrue'
  BY <1>c, <1>p, <1>s, <1>u, <1>f DEF CallsTrue, InFlight
<1>3. PumpTrue'
  BY <1>c, <1>p, <1>s, <1>u, <1>f DEF CallInspect, PumpTrue, Works, c
<1>4. ResultTrue'
  BY <1>p DEF ResultTrue
<1>5. NotesTrue'
  BY <1>p, <1>s, <1>u, <1>a DEF NotesTrue
<1> QED BY <1>1, <1>2, <1>3, <1>4, <1>5

\* An answer in time tells what the inbox holds; absence leads to a new acceptance.
LEMMA InspectAnswerInv ==
  ASSUME DeliveryInv, NEW answer \in Final \cup {"absent", "uncertain"}, InspectAnswer(answer)
  PROVE  DeliveryInv'
<1> USE DEF DeliveryInv
<1> DEFINE c == pump.current
           state == IF answer = "absent" THEN [pump EXCEPT !.at = "decide"]
                    ELSE [pump EXCEPT !.at = "receipt", !.result = answer]
<1>c. /\ c \in Notifications /\ note[c].state = "claimed" /\ call[c].kind = "inspect"
      /\ InFlight = {c} /\ life = "up"
  BY DEF InspectAnswer, PumpTrue, Works, CallsTrue, InFlight
<1>p. /\ state \in PumpRecord /\ state.current = c
      /\ answer = "absent" => state.at = "decide"
      /\ answer # "absent" => state.at = "receipt" /\ state.result = answer
  BY DEF TypeOK, PumpRecord, Results, Final
<1>q. pump' = Scheduled(state)
  BY DEF InspectAnswer, Answered
<1> HIDE DEF state
<1>r. /\ pump' \in PumpRecord /\ pump'.current = c
      /\ answer = "absent" => pump'.at = "decide"
      /\ answer # "absent" => pump'.at = "receipt" /\ pump'.result = answer
  BY <1>p, <1>q, ScheduledFacts
<1>s. /\ call' \in [Notifications -> CallRecord] /\ InFlight' = {} /\ call'[c] = NoCall
      /\ \A m \in Notifications : m # c => call'[m] = call[m]
  BY <1>c, CallEnded DEF InspectAnswer
<1>u. UNCHANGED <<note, copies, life>>
  BY DEF InspectAnswer
<1>i. /\ answer = "accepted" => copies[c] > 0
      /\ answer \in {"absent", "expired"} => copies[c] = 0
  BY DEF InspectAnswer
<1> HIDE DEF c
<1>1. TypeOK'
  BY <1>r, <1>s DEF TypeOK, InspectAnswer
<1>2. CallsTrue'
  BY <1>s, <1>u DEF CallsTrue, NoCall
<1>3. PumpTrue'
  BY <1>c, <1>r, <1>s, <1>u, <1>i DEF PumpTrue, Works
<1>4. ResultTrue'
  BY <1>c, <1>r, <1>s, <1>u, <1>i DEF ResultTrue, NotesTrue, NoCall, Final
<1>5. NotesTrue'
  BY <1>s, <1>u DEF NotesTrue, NoCall
<1> QED BY <1>1, <1>2, <1>3, <1>4, <1>5

\* A deadline that passes leaves the callback running and says nothing.
LEMMA CallTimeoutInv == ASSUME DeliveryInv, CallTimeout PROVE DeliveryInv'
<1> USE DEF DeliveryInv
<1>1. TypeOK'
  <2>1. pump' \in PumpRecord
    BY DEF TypeOK, PumpRecord, Results, CallTimeout
  <2> QED BY <2>1 DEF TypeOK, CallTimeout
<1> USE DEF TypeOK, NoteRecord, CallRecord, PumpRecord
<1>2. CallsTrue'
  BY DEF CallsTrue, InFlight, PumpTrue, Works, NotesTrue, CallTimeout
<1>3. PumpTrue'
  BY DEF PumpTrue, Works, CallsTrue, InFlight, NotesTrue, CallTimeout
<1>4. ResultTrue'
  BY DEF ResultTrue, PumpTrue, Works, CallsTrue, InFlight, NotesTrue, CallTimeout
<1>5. NotesTrue'
  BY DEF NotesTrue, PumpTrue, ResultTrue, Works, CallsTrue, InFlight, CallTimeout
<1> QED BY <1>1, <1>2, <1>3, <1>4, <1>5

\* An acceptance is asked for only of an inbox that holds nothing.
LEMMA DecideInv == ASSUME DeliveryInv, Decide PROVE DeliveryInv'
<1> USE DEF DeliveryInv
<1> DEFINE c == pump.current
           asks == ~(clock[c].expired \/ MustReturn)
<1>c. /\ c \in Notifications /\ InFlight = {} /\ life = "up"
      /\ note[c].state = "claimed" /\ copies[c] = 0
  BY DEF Decide, PumpTrue, Works
<1>p. /\ pump' \in PumpRecord /\ pump'.current = c
      /\ ~asks => /\ pump'.at = "receipt" /\ pump'.result \in {"expired", "uncertain"}
                  /\ call' = call
      /\ asks => pump'.at = "accepting" /\ call' = [call EXCEPT ![c].kind = "accept"]
  BY ZenonT(60) DEF TypeOK, PumpRecord, Results, Final, Decide
<1>s. asks =>
        /\ call' \in [Notifications -> CallRecord] /\ InFlight' = {c}
        /\ call'[c].kind = "accept" /\ call'[c].committed = call[c].committed
        /\ \A m \in Notifications : m # c => call'[m] = call[m]
  BY <1>c, <1>p, CallStarted
<1>u. UNCHANGED <<note, copies, life>>
  BY DEF Decide
<1>f. call[c].kind = "none" /\ ~call[c].committed
  BY <1>c DEF InFlight, CallsTrue
<1> HIDE DEF c, asks
<1>1. TypeOK'
  BY <1>p, <1>s DEF TypeOK, Decide
<1>2. CallsTrue'
  BY <1>c, <1>p, <1>s, <1>u, <1>f DEF CallsTrue, InFlight
<1>3. PumpTrue'
  BY <1>c, <1>p, <1>s, <1>u DEF PumpTrue, Works
<1>4. ResultTrue'
  BY <1>c, <1>p, <1>u, <1>f DEF ResultTrue
<1>5. NotesTrue'
  <2>1. note[c].attempts # 0
    BY <1>c DEF NotesTrue
  <2> QED BY <1>c, <1>p, <1>s, <1>u, <2>1 DEF NotesTrue
<1> QED BY <1>1, <1>2, <1>3, <1>4, <1>5

\* An answer in time agrees with what was committed.
LEMMA AcceptAnswerInv ==
  ASSUME DeliveryInv, NEW answer \in Results, AcceptAnswer(answer)
  PROVE  DeliveryInv'
<1> USE DEF DeliveryInv
<1> DEFINE c == pump.current
           state == [pump EXCEPT !.at = "receipt", !.result = answer]
<1>c. /\ c \in Notifications /\ note[c].state = "claimed" /\ call[c].kind = "accept"
      /\ InFlight = {c} /\ life = "up" /\ copies[c] = IF call[c].committed THEN 1 ELSE 0
  BY DEF AcceptAnswer, PumpTrue, Works, CallsTrue, InFlight
<1>p. state \in PumpRecord /\ state.current = c /\ state.at = "receipt" /\ state.result = answer
  BY DEF TypeOK, PumpRecord
<1>q. pump' = Scheduled(state)
  BY DEF AcceptAnswer, Answered
<1> HIDE DEF state
<1>r. pump' \in PumpRecord /\ pump'.current = c /\ pump'.at = "receipt" /\ pump'.result = answer
  BY <1>p, <1>q, ScheduledFacts
<1>s. /\ call' \in [Notifications -> CallRecord] /\ InFlight' = {} /\ call'[c] = NoCall
      /\ \A m \in Notifications : m # c => call'[m] = call[m]
  BY <1>c, CallEnded DEF AcceptAnswer
<1>u. UNCHANGED <<note, copies, life>>
  BY DEF AcceptAnswer
<1>i. /\ answer = "accepted" => copies[c] = 1
      /\ answer \in {"blocked", "rejected", "expired"} => copies[c] = 0
  BY <1>c DEF AcceptAnswer
<1> HIDE DEF c
<1>1. TypeOK'
  BY <1>r, <1>s DEF TypeOK, AcceptAnswer
<1>2. CallsTrue'
  BY <1>s, <1>u DEF CallsTrue, NoCall
<1>3. PumpTrue'
  BY <1>c, <1>r, <1>s, <1>u DEF PumpTrue, Works
<1>4. ResultTrue'
  BY <1>c, <1>r, <1>s, <1>u, <1>i DEF ResultTrue, NoCall
<1>5. NotesTrue'
  BY <1>s, <1>u DEF NotesTrue, NoCall
<1> QED BY <1>1, <1>2, <1>3, <1>4, <1>5

\* The receipt records what the inbox holds, or doubt.
LEMMA ReceiptInv == ASSUME DeliveryInv, Receipt PROVE DeliveryInv'
<1> USE DEF DeliveryInv
<1> DEFINE c == pump.current
<1>c. c \in Notifications /\ note[c].state = "claimed" /\ pump.result \in Results
  BY DEF Receipt, PumpTrue, Works, TypeOK, PumpRecord
<1>p. pump' \in PumpRecord /\ pump'.at = "loop" /\ life = "up"
  BY <1>c DEF TypeOK, PumpRecord, Results, Receipt, PumpTrue
<1>n. /\ note' \in [Notifications -> NoteRecord] /\ clock' \in [Notifications -> ClockRecord]
      /\ note'[c].attempts = note[c].attempts
      /\ note'[c].state = IF pump.result \in Final THEN pump.result ELSE "pending"
      /\ note'[c].reason = IF pump.result \in Final THEN "none" ELSE pump.result
      /\ \A m \in Notifications : m # c => note'[m] = note[m]
  BY <1>c, CommitReceiptType DEF Receipt, CommitReceipt, Receipted, TypeOK, NoteRecord
<1>u. UNCHANGED <<copies, call, life>>
  BY DEF Receipt
<1>r. /\ pump.result # "uncertain" => call[c].kind = "none"
      /\ pump.result \in {"blocked", "expired"} => copies[c] = 0
  BY DEF Receipt, ResultTrue
<1> HIDE DEF c
<1>1. TypeOK'
  BY <1>p, <1>n DEF TypeOK, Receipt
<1>2. CallsTrue'
  BY <1>c, <1>n, <1>u, <1>r DEF CallsTrue, InFlight, Results, Final
<1>3. PumpTrue'
  BY <1>p, <1>u DEF PumpTrue, Works
<1>4. ResultTrue'
  BY <1>p DEF ResultTrue
<1>5. NotesTrue'
  BY <1>c, <1>n, <1>u, <1>r DEF NotesTrue, Results, Final
<1> QED BY <1>1, <1>2, <1>3, <1>4, <1>5

\* The end of a pass arms the timer.
LEMMA EndPassInv == ASSUME DeliveryInv, EndPass PROVE DeliveryInv'
<1> USE DEF DeliveryInv
<1>0. pump' \in PumpRecord /\ pump'.at \in {"idle", "scan"} /\ (pump'.at = "scan" => life = "up")
  BY EndedFacts DEF TypeOK, EndPass
<1>t. timer' \in SUBSET Notifications
  BY DEF TypeOK, PumpRecord, EndPass, TimerAfter
<1>1. TypeOK'
  <2>1. pump' \in PumpRecord
    BY <1>0
  <2> QED BY <2>1, <1>t DEF TypeOK, EndPass
<1> USE DEF TypeOK, NoteRecord, CallRecord, PumpRecord
<1>2. CallsTrue'
  BY <1>0 DEF CallsTrue, InFlight, PumpTrue, Works, NotesTrue, EndPass, TimerAfter
<1>3. PumpTrue'
  BY <1>0 DEF PumpTrue, Works, CallsTrue, InFlight, NotesTrue, EndPass, TimerAfter
<1>4. ResultTrue'
  BY <1>0 DEF ResultTrue, PumpTrue, Works, CallsTrue, InFlight, NotesTrue, EndPass, TimerAfter
<1>5. NotesTrue'
  BY <1>0 DEF NotesTrue, PumpTrue, ResultTrue, Works, CallsTrue, InFlight, EndPass, TimerAfter
<1> QED BY <1>1, <1>2, <1>3, <1>4, <1>5

\* The timer wakes the scheduler.
LEMMA TimerFiresInv == ASSUME DeliveryInv, TimerFires PROVE DeliveryInv'
<1> USE DEF DeliveryInv
<1>0. /\ pump' \in PumpRecord /\ pump'.current = pump.current /\ pump'.result = pump.result
      /\ pump.at # "idle" => pump'.at = pump.at
      /\ pump.at = "idle" => pump'.at \in {"idle", "scan"}
      /\ pump'.at = "scan" => pump.at = "scan" \/ life = "up"
  BY ScheduledFacts DEF TypeOK, Answered, TimerFires
<1>1. TypeOK'
  <2>1. pump' \in PumpRecord
    BY <1>0
  <2> QED BY <2>1 DEF TypeOK, TimerFires
<1> USE DEF TypeOK, NoteRecord, CallRecord, PumpRecord
<1>2. CallsTrue'
  BY <1>0 DEF CallsTrue, InFlight, PumpTrue, Works, NotesTrue, TimerFires
<1>3. PumpTrue'
  BY <1>0 DEF PumpTrue, Works, CallsTrue, InFlight, NotesTrue, TimerFires
<1>4. ResultTrue'
  BY <1>0 DEF ResultTrue, PumpTrue, Works, CallsTrue, InFlight, NotesTrue, TimerFires
<1>5. NotesTrue'
  BY <1>0 DEF NotesTrue, PumpTrue, ResultTrue, Works, CallsTrue, InFlight, TimerFires
<1> QED BY <1>1, <1>2, <1>3, <1>4, <1>5

\* A new owner starts from what was retained.
LEMMA AcquireOwnerInv == ASSUME DeliveryInv, AcquireOwner PROVE DeliveryInv'
<1> USE DEF DeliveryInv
<1>1. TypeOK'
  BY DeliveryAssumption DEF TypeOK, AcquireOwner
<1> USE DEF TypeOK, NoteRecord, CallRecord, PumpRecord
<1>2. CallsTrue'
  BY DEF CallsTrue, InFlight, PumpTrue, Works, NotesTrue, AcquireOwner
<1>3. PumpTrue'
  BY DEF PumpTrue, Works, CallsTrue, InFlight, NotesTrue, AcquireOwner
<1>4. ResultTrue'
  BY DEF ResultTrue, PumpTrue, Works, CallsTrue, InFlight, NotesTrue, AcquireOwner
<1>5. NotesTrue'
  BY DEF NotesTrue, PumpTrue, ResultTrue, Works, CallsTrue, InFlight, AcquireOwner
<1> QED BY <1>1, <1>2, <1>3, <1>4, <1>5

\* Recovery leaves every abandoned claim in doubt.
LEMMA RecoverClaimInv ==
  ASSUME DeliveryInv, NEW n \in Notifications, RecoverClaim(n)
  PROVE  DeliveryInv'
<1> USE DEF DeliveryInv
<1>c. note[n].state = "claimed" /\ life = "recovering" /\ InFlight = {} /\ pump.at = "idle"
  BY DEF RecoverClaim, Abandoned, CallsTrue, PumpTrue
<1>n. /\ note' \in [Notifications -> NoteRecord] /\ clock' \in [Notifications -> ClockRecord]
      /\ note'[n].attempts = note[n].attempts
      /\ note'[n].state = "pending" /\ note'[n].reason = "uncertain"
      /\ \A m \in Notifications : m # n => note'[m] = note[m]
  BY CommitReceiptType DEF RecoverClaim, RecoveredResult, CommitReceipt, Receipted, TypeOK,
     NoteRecord, Results, Final
<1>u. UNCHANGED <<copies, call, life, pump>>
  BY DEF RecoverClaim
<1>1. TypeOK'
  BY <1>n DEF TypeOK, RecoverClaim
<1>2. CallsTrue'
  BY <1>n, <1>u DEF CallsTrue, InFlight
<1>3. PumpTrue'
  BY <1>c, <1>u DEF PumpTrue, Works
<1>4. ResultTrue'
  BY <1>c, <1>u DEF ResultTrue
<1>5. NotesTrue'
  BY <1>c, <1>n, <1>u DEF NotesTrue
<1> QED BY <1>1, <1>2, <1>3, <1>4, <1>5

\* The recovered owner begins its first pass.
LEMMA InstallInv == ASSUME DeliveryInv, Install PROVE DeliveryInv'
<1> USE DEF DeliveryInv
<1>1. TypeOK'
  <2>1. pump' \in PumpRecord
    BY DEF TypeOK, PumpRecord, Install
  <2> QED BY <2>1 DEF TypeOK, Install
<1> USE DEF TypeOK, NoteRecord, CallRecord, PumpRecord
<1>2. CallsTrue'
  BY DEF CallsTrue, InFlight, PumpTrue, Works, NotesTrue, Install
<1>3. PumpTrue'
  BY DEF PumpTrue, Works, CallsTrue, InFlight, NotesTrue, Install
<1>4. ResultTrue'
  BY DEF ResultTrue, PumpTrue, Works, CallsTrue, InFlight, NotesTrue, Install
<1>5. NotesTrue'
  BY DEF NotesTrue, PumpTrue, ResultTrue, Works, CallsTrue, InFlight, Install
<1> QED BY <1>1, <1>2, <1>3, <1>4, <1>5

\* An owner is released when neither a pass nor a callback is left.
LEMMA ReleaseInv == ASSUME DeliveryInv, Release PROVE DeliveryInv'
<1> USE DEF DeliveryInv
<1>1. TypeOK'
  BY DEF TypeOK, Release
<1> USE DEF TypeOK, NoteRecord, CallRecord, PumpRecord
<1>2. CallsTrue'
  BY DEF CallsTrue, InFlight, PumpTrue, Works, NotesTrue, Release, Quiescent
<1>3. PumpTrue'
  BY DEF PumpTrue, Works, CallsTrue, InFlight, NotesTrue, Release, Quiescent
<1>4. ResultTrue'
  BY DEF ResultTrue, PumpTrue, Works, CallsTrue, InFlight, NotesTrue, Release, Quiescent
<1>5. NotesTrue'
  BY DEF NotesTrue, PumpTrue, ResultTrue, Works, CallsTrue, InFlight, Release, Quiescent
<1> QED BY <1>1, <1>2, <1>3, <1>4, <1>5

\* A failed store ends the pass at most.
LEMMA StoreFailsInv == ASSUME DeliveryInv, StoreFails PROVE DeliveryInv'
<1> USE DEF DeliveryInv
<1>1. TypeOK'
  <2>1. pump' \in PumpRecord
    <3>1. IdlePump \in PumpRecord
      BY DEF IdlePump, PumpRecord, Results
    <3> QED BY <3>1 DEF TypeOK, StoreFails
  <2> QED BY <2>1 DEF TypeOK, StoreFails, IdlePump
<1> USE DEF TypeOK, NoteRecord, CallRecord, PumpRecord
<1>2. CallsTrue'
  BY DEF CallsTrue, InFlight, PumpTrue, Works, NotesTrue, StoreFails, IdlePump
<1>3. PumpTrue'
  BY DEF PumpTrue, Works, CallsTrue, InFlight, NotesTrue, StoreFails, IdlePump
<1>4. ResultTrue'
  BY DEF ResultTrue, PumpTrue, Works, CallsTrue, InFlight, NotesTrue, StoreFails, IdlePump
<1>5. NotesTrue'
  BY DEF NotesTrue, PumpTrue, ResultTrue, Works, CallsTrue, InFlight, StoreFails, IdlePump
<1> QED BY <1>1, <1>2, <1>3, <1>4, <1>5

\* Shutdown waits for what runs.
LEMMA ShutdownInv == ASSUME DeliveryInv, Shutdown PROVE DeliveryInv'
<1> USE DEF DeliveryInv
<1>1. TypeOK'
  BY DEF TypeOK, Shutdown
<1> USE DEF TypeOK, NoteRecord, CallRecord, PumpRecord
<1>2. CallsTrue'
  BY DEF CallsTrue, InFlight, PumpTrue, Works, NotesTrue, Shutdown
<1>3. PumpTrue'
  BY DEF PumpTrue, Works, CallsTrue, InFlight, NotesTrue, Shutdown
<1>4. ResultTrue'
  BY DEF ResultTrue, PumpTrue, Works, CallsTrue, InFlight, NotesTrue, Shutdown
<1>5. NotesTrue'
  BY DEF NotesTrue, PumpTrue, ResultTrue, Works, CallsTrue, InFlight, Shutdown
<1> QED BY <1>1, <1>2, <1>3, <1>4, <1>5

\* A crash takes the callbacks along and leaves what they committed.
LEMMA CrashInv == ASSUME DeliveryInv, Crash PROVE DeliveryInv'
<1> USE DEF DeliveryInv
<1>1. TypeOK'
  <2>1. call' \in [Notifications -> CallRecord]
    BY DEF TypeOK, CallRecord, NoCall, Crash
  <2>2. pump' \in PumpRecord
    BY DEF TypeOK, PumpRecord, IdlePump, Results, Crash
  <2> QED BY <2>1, <2>2 DEF TypeOK, Crash, IdlePump, NoCall
<1> USE DEF TypeOK, NoteRecord, CallRecord, PumpRecord
<1>2. CallsTrue'
  BY DEF CallsTrue, InFlight, PumpTrue, Works, NotesTrue, Crash, IdlePump, NoCall
<1>3. PumpTrue'
  BY DEF PumpTrue, Works, CallsTrue, InFlight, NotesTrue, Crash, IdlePump, NoCall
<1>4. ResultTrue'
  BY DEF ResultTrue, PumpTrue, Works, CallsTrue, InFlight, NotesTrue, Crash, IdlePump, NoCall
<1>5. NotesTrue'
  BY DEF NotesTrue, PumpTrue, ResultTrue, Works, CallsTrue, InFlight, Crash, IdlePump, NoCall
<1> QED BY <1>1, <1>2, <1>3, <1>4, <1>5

\* A settled run owes its first attempt.
LEMMA SettleInv ==
  ASSUME DeliveryInv, NEW n \in Notifications, Settle(n)
  PROVE  DeliveryInv'
<1> USE DEF DeliveryInv
<1>0. /\ pump' \in PumpRecord /\ pump'.current = pump.current /\ pump'.result = pump.result
      /\ pump.at # "idle" => pump'.at = pump.at
      /\ pump.at = "idle" => pump'.at \in {"idle", "scan"}
      /\ pump'.at = "scan" => pump.at = "scan" \/ life = "up"
  BY ScheduledFacts DEF TypeOK, Answered, Settle
<1>1. TypeOK'
  <2>1. note' \in [Notifications -> NoteRecord]
    BY DEF TypeOK, NoteRecord, Settle
  <2>2. pump' \in PumpRecord
    BY <1>0
  <2> QED BY <2>1, <2>2 DEF TypeOK, Settle
<1> USE DEF TypeOK, NoteRecord, CallRecord, PumpRecord
<1>2. CallsTrue'
  BY <1>0 DEF CallsTrue, InFlight, PumpTrue, Works, NotesTrue, Settle
<1>3. PumpTrue'
  BY <1>0 DEF PumpTrue, Works, CallsTrue, InFlight, NotesTrue, Settle
<1>4. ResultTrue'
  BY <1>0 DEF ResultTrue, PumpTrue, Works, CallsTrue, InFlight, NotesTrue, Settle
<1>5. NotesTrue'
  BY <1>0 DEF NotesTrue, PumpTrue, ResultTrue, Works, CallsTrue, InFlight, Settle
<1> QED BY <1>1, <1>2, <1>3, <1>4, <1>5

\* Expiry is a matter of the clock.
LEMMA ExpireInv ==
  ASSUME DeliveryInv, NEW n \in Notifications, Expire(n)
  PROVE  DeliveryInv'
<1> USE DEF DeliveryInv
<1>1. TypeOK'
  <2>1. clock' \in [Notifications -> ClockRecord]
    BY DEF TypeOK, ClockRecord, Expire
  <2> QED BY <2>1 DEF TypeOK, Expire
<1> USE DEF TypeOK, NoteRecord, CallRecord, PumpRecord
<1>2. CallsTrue'
  BY DEF CallsTrue, InFlight, PumpTrue, Works, NotesTrue, Expire
<1>3. PumpTrue'
  BY DEF PumpTrue, Works, CallsTrue, InFlight, NotesTrue, Expire
<1>4. ResultTrue'
  BY DEF ResultTrue, PumpTrue, Works, CallsTrue, InFlight, NotesTrue, Expire
<1>5. NotesTrue'
  BY DEF NotesTrue, PumpTrue, ResultTrue, Works, CallsTrue, InFlight, Expire
<1> QED BY <1>1, <1>2, <1>3, <1>4, <1>5

\* So is a retry.
LEMMA RetryDueInv ==
  ASSUME DeliveryInv, NEW n \in Notifications, RetryDue(n)
  PROVE  DeliveryInv'
<1> USE DEF DeliveryInv
<1>1. TypeOK'
  <2>1. clock' \in [Notifications -> ClockRecord]
    BY DEF TypeOK, ClockRecord, RetryDue
  <2> QED BY <2>1 DEF TypeOK, RetryDue
<1> USE DEF TypeOK, NoteRecord, CallRecord, PumpRecord
<1>2. CallsTrue'
  BY DEF CallsTrue, InFlight, PumpTrue, Works, NotesTrue, RetryDue
<1>3. PumpTrue'
  BY DEF PumpTrue, Works, CallsTrue, InFlight, NotesTrue, RetryDue
<1>4. ResultTrue'
  BY DEF ResultTrue, PumpTrue, Works, CallsTrue, InFlight, NotesTrue, RetryDue
<1>5. NotesTrue'
  BY DEF NotesTrue, PumpTrue, ResultTrue, Works, CallsTrue, InFlight, RetryDue
<1> QED BY <1>1, <1>2, <1>3, <1>4, <1>5

\* The inbox commits a callback at most once.
LEMMA InboxCommitsInv ==
  ASSUME DeliveryInv, NEW n \in Notifications, InboxCommits(n)
  PROVE  DeliveryInv'
<1> USE DEF DeliveryInv
<1>1. TypeOK'
  <2>1. copies' \in [Notifications -> Nat]
    BY DEF TypeOK, InboxCommits
  <2>2. call' \in [Notifications -> CallRecord]
    BY DEF TypeOK, CallRecord, InboxCommits
  <2> QED BY <2>1, <2>2 DEF TypeOK, InboxCommits
<1> USE DEF TypeOK, NoteRecord, CallRecord, PumpRecord
<1>2. CallsTrue'
  BY DEF CallsTrue, InFlight, PumpTrue, Works, NotesTrue, InboxCommits
<1>3. PumpTrue'
  BY DEF PumpTrue, Works, CallsTrue, InFlight, NotesTrue, InboxCommits
<1>4. ResultTrue'
  BY DEF ResultTrue, PumpTrue, Works, CallsTrue, InFlight, NotesTrue, InboxCommits
<1>5. NotesTrue'
  BY DEF NotesTrue, PumpTrue, ResultTrue, Works, CallsTrue, InFlight, InboxCommits
<1> QED BY <1>1, <1>2, <1>3, <1>4, <1>5

\* A callback nobody awaits frees its slot and wakes the scheduler.
LEMMA OrphanEndsInv ==
  ASSUME DeliveryInv, NEW n \in Notifications, OrphanEnds(n)
  PROVE  DeliveryInv'
<1> USE DEF DeliveryInv
<1>0. /\ pump' \in PumpRecord /\ pump'.current = pump.current /\ pump'.result = pump.result
      /\ pump.at # "idle" => pump'.at = pump.at
      /\ pump.at = "idle" => pump'.at \in {"idle", "scan"}
      /\ pump'.at = "scan" => pump.at = "scan" \/ life = "up"
  BY ScheduledFacts DEF TypeOK, Answered, OrphanEnds
<1>1. TypeOK'
  <2>1. call' \in [Notifications -> CallRecord]
    BY DEF TypeOK, CallRecord, NoCall, OrphanEnds
  <2>2. pump' \in PumpRecord
    BY <1>0
  <2> QED BY <2>1, <2>2 DEF TypeOK, OrphanEnds, NoCall
<1> USE DEF TypeOK, NoteRecord, CallRecord, PumpRecord
<1>2. CallsTrue'
  BY <1>0 DEF CallsTrue, InFlight, PumpTrue, Works, NotesTrue, OrphanEnds, NoCall
<1>3. PumpTrue'
  BY <1>0 DEF PumpTrue, Works, CallsTrue, InFlight, NotesTrue, OrphanEnds, NoCall
<1>4. ResultTrue'
  BY <1>0 DEF ResultTrue, PumpTrue, Works, CallsTrue, InFlight, NotesTrue, OrphanEnds, NoCall
<1>5. NotesTrue'
  BY <1>0 DEF NotesTrue, PumpTrue, ResultTrue, Works, CallsTrue, InFlight, OrphanEnds, NoCall
<1> QED BY <1>1, <1>2, <1>3, <1>4, <1>5

\* The coordinator starts with nothing claimed, asked for or held.
LEMMA DeliveryInitInv == Init => DeliveryInv
<1> SUFFICES ASSUME Init PROVE DeliveryInv
  OBVIOUS
<1> USE DEF Init
<1>1. TypeOK
  BY DeliveryAssumption DEF TypeOK, NoteRecord, ClockRecord, CallRecord, NoCall, PumpRecord,
     IdlePump, Results
<1>2. CallsTrue
  BY DEF CallsTrue, InFlight, NoCall
<1>3. PumpTrue
  BY DEF PumpTrue, Works, IdlePump
<1>4. ResultTrue
  BY DEF ResultTrue, IdlePump
<1>5. NotesTrue
  BY DEF NotesTrue, NoCall
<1> QED BY <1>1, <1>2, <1>3, <1>4, <1>5 DEF DeliveryInv

\* Every step of the coordinator, the inbox and the clock keeps DeliveryInv.
LEMMA DeliveryNextInv == DeliveryInv /\ [Next]_vars => DeliveryInv'
<1> SUFFICES ASSUME DeliveryInv, [Next]_vars PROVE DeliveryInv'
  OBVIOUS
<1>1. CASE Inbox
  <2>1. ASSUME NEW answer \in Final \cup {"absent", "uncertain"}, InspectAnswer(answer)
        PROVE  DeliveryInv'
    BY <2>1, InspectAnswerInv
  <2>2. ASSUME NEW answer \in Results, AcceptAnswer(answer) PROVE DeliveryInv'
    BY <2>2, AcceptAnswerInv
  <2> QED BY <1>1, <2>1, <2>2 DEF Inbox, Conclusive
<1>2. CASE Pass
  <2>1. CASE Scan \/ Return \/ CallInspect \/ CallTimeout \/ Decide \/ Receipt \/ EndPass \/ TimerFires
    BY <2>1, ScanInv, ReturnInv, CallInspectInv, CallTimeoutInv, DecideInv, ReceiptInv,
       EndPassInv, TimerFiresInv
  <2>2. ASSUME NEW n \in Notifications, Postpone(n) \/ Claim(n) PROVE DeliveryInv'
    BY <2>2, PostponeInv, ClaimInv
  <2> QED BY <1>2, <2>1, <2>2 DEF Pass
<1>3. CASE Owner
  <2>1. CASE AcquireOwner \/ Install \/ Release
    BY <2>1, AcquireOwnerInv, InstallInv, ReleaseInv
  <2>2. ASSUME NEW n \in Notifications, RecoverClaim(n) PROVE DeliveryInv'
    BY <2>2, RecoverClaimInv
  <2> QED BY <1>3, <2>1, <2>2 DEF Owner
<1>4. CASE StoreFails \/ Shutdown \/ Crash
  BY <1>4, StoreFailsInv, ShutdownInv, CrashInv
<1>5. ASSUME NEW n \in Notifications,
             Settle(n) \/ Expire(n) \/ RetryDue(n) \/ InboxCommits(n) \/ OrphanEnds(n)
      PROVE  DeliveryInv'
  BY <1>5, SettleInv, ExpireInv, RetryDueInv, InboxCommitsInv, OrphanEndsInv
<1>6. CASE UNCHANGED vars
  BY <1>6 DEF vars, DeliveryInv, TypeOK, CallsTrue, InFlight, PumpTrue, Works, ResultTrue,
     NotesTrue
<1> QED BY <1>1, <1>2, <1>3, <1>4, <1>5, <1>6 DEF Next

\* DeliveryInv holds in every reachable state, whatever the number of notifications, of owners
\* and of crashes between them.
THEOREM DeliveryInvariant == Spec => []DeliveryInv
BY DeliveryInitInv, DeliveryNextInv, PTL DEF Spec

\* delivery/scheduler.ts: lost acknowledgements, callbacks that commit after their deadline and
\* crashes between acceptance and receipt never make the inbox take a completion twice.
THEOREM NoDuplicateDelivery == Spec => []AtMostOneCopy
<1>1. DeliveryInv => AtMostOneCopy
  BY DEF DeliveryInv, NotesTrue, AtMostOneCopy
<1> QED BY <1>1, DeliveryInvariant, PTL

\* delivery/calls.ts: one callback runs at a time, timed-out ones included, and it never
\* outlives the owner that made it.
THEOREM OwnedCallback == Spec => []CallbackIsOwned
<1>1. ASSUME DeliveryInv PROVE CallbackIsOwned
  <2>1. CASE InFlight = {}
    <3>1. Cardinality(InFlight) = 0
      BY <2>1, FS_EmptySet
    <3> QED BY <2>1, <3>1 DEF CallbackIsOwned
  <2>2. ASSUME NEW n \in InFlight PROVE CallbackIsOwned
    <3>1. InFlight = {n}
      BY <1>1, <2>2 DEF DeliveryInv, CallsTrue
    <3>2. Cardinality({n}) = 1
      BY FS_Singleton
    <3> QED BY <1>1, <3>1, <3>2 DEF CallbackIsOwned, DeliveryInv, CallsTrue
  <2> QED BY <2>1, <2>2
<1> QED BY <1>1, DeliveryInvariant, PTL

--------------------------------------------------------------------------------
(* Nothing is forgotten *)

\* Claims are never ahead of the latest owner: a new owner finds every claim abandoned.
ClaimsPast == \A n \in Notifications : note[n].claim <= epoch

\* The inductive invariant of wake-ups.
WakeInv == NothingForgotten /\ ClaimsPast

\* A wake-up of a scheduler in service starts a pass or is remembered by the one that runs.
LEMMA WokenPass ==
  ASSUME NEW state \in PumpRecord, life = "up", stopped = "no"
  PROVE  \/ Scheduled(state).at = "scan"
         \/ Scheduled(state).at \notin {"idle", "scan"} /\ Scheduled(state).pending
BY DEF Scheduled, PumpRecord

\* Whoever wakes the scheduler without touching a notification forgets none.
LEMMA WokenForgetsNone ==
  ASSUME DeliveryInv, WakeInv, UNCHANGED <<note, epoch, life, stopped>>,
         NEW state \in PumpRecord, pump' = Scheduled(state),
         state.current = pump.current, state.at \in {"idle", "scan", "loop"} => state.at = pump.at
  PROVE  WakeInv'
<1>1. ClaimsPast'
  BY DEF WakeInv, ClaimsPast
<1>2. ASSUME NEW n \in Notifications, note[n].state = "pending", life = "up", stopped = "no"
      PROVE  OnItsWay(n)'
  BY <1>2, WokenPass DEF OnItsWay
<1>3. ASSUME NEW n \in Notifications, note[n].state = "claimed", life = "up", stopped # "failed"
      PROVE  pump'.current = n /\ pump'.at \notin {"idle", "scan", "loop"}
  <2>1. pump.current = n /\ pump.at \notin {"idle", "scan", "loop"}
    BY <1>3 DEF WakeInv, NothingForgotten
  <2> QED BY <2>1, ScheduledFacts
<1>4. ASSUME NEW n \in Notifications, note[n].state = "claimed", life = "recovering"
      PROVE  n \in Abandoned'
  BY <1>4 DEF WakeInv, NothingForgotten, Abandoned
<1> QED BY <1>1, <1>2, <1>3, <1>4 DEF WakeInv, NothingForgotten

\* A step that touches neither notifications nor callbacks nor the owner forgets none if
\* the pass works on what it worked on and keeps its lists.
LEMMA SamePass ==
  ASSUME DeliveryInv, WakeInv, UNCHANGED <<note, epoch, life, stopped, timer>>,
         InFlight # {} => InFlight' # {},
         pump'.current = pump.current, pump'.pending = pump.pending,
         pump'.todo \cup pump'.late = pump.todo \cup pump.late,
         \/ pump'.at = pump.at
         \/ pump.at \notin {"idle", "scan", "loop"} /\ pump'.at \notin {"idle", "scan", "loop"}
  PROVE  WakeInv'
<1>1. ClaimsPast'
  BY DEF WakeInv, ClaimsPast
<1>2. ASSUME NEW n \in Notifications, note[n].state = "pending", life = "up", stopped = "no"
      PROVE  OnItsWay(n)'
  <2>1. OnItsWay(n)
    BY <1>2 DEF WakeInv, NothingForgotten
  <2> QED BY <2>1 DEF OnItsWay
<1>3. ASSUME NEW n \in Notifications, note[n].state = "claimed", life = "up", stopped # "failed"
      PROVE  pump'.current = n /\ pump'.at \notin {"idle", "scan", "loop"}
  BY <1>3 DEF WakeInv, NothingForgotten
<1>4. ASSUME NEW n \in Notifications, note[n].state = "claimed", life = "recovering"
      PROVE  n \in Abandoned'
  BY <1>4 DEF WakeInv, NothingForgotten, Abandoned
<1> QED BY <1>1, <1>2, <1>3, <1>4 DEF WakeInv, NothingForgotten

\* While the scheduler is not working on a notification, none is claimed.
LEMMA NoneClaimed ==
  ASSUME WakeInv, life = "up", stopped # "failed", pump.at \in {"idle", "scan", "loop"}
  PROVE  \A n \in Notifications : note[n].state # "claimed"
BY DEF WakeInv, NothingForgotten

\* The end of a pass: what it leaves pending waits for a callback, the timer or the next pass.
LEMMA PassEndsForgetsNone ==
  ASSUME DeliveryInv, WakeInv, UNCHANGED <<note, epoch, life, stopped, call>>,
         pump.at = "loop", pump' = Ended(pump),
         stopped # "no" \/ InFlight # {} \/ pump.todo \cup pump.late \subseteq timer'
  PROVE  WakeInv'
<1>1. ClaimsPast'
  BY DEF WakeInv, ClaimsPast
<1>a. life = "up"
  BY DEF DeliveryInv, PumpTrue
<1>b. InFlight' = InFlight
  BY DEF InFlight
<1>2. ASSUME NEW n \in Notifications, note[n].state = "pending", stopped = "no"
      PROVE  OnItsWay(n)'
  <2>1. OnItsWay(n)
    BY <1>2, <1>a DEF WakeInv, NothingForgotten
  <2>2. CASE InFlight # {}
    BY <2>2, <1>b DEF OnItsWay
  <2>3. CASE pump.pending
    <3>1. IdlePump \in PumpRecord
      BY DEF IdlePump, PumpRecord, Results
    <3>2. pump' = Scheduled(IdlePump)
      BY <2>3 DEF Ended
    <3> QED BY <3>1, <3>2, <1>2, <1>a, WokenPass DEF OnItsWay
  <2>4. CASE n \in pump.todo \cup pump.late /\ ~pump.pending /\ InFlight = {}
    <3>1. pump'.at = "idle"
      BY <2>4 DEF Ended, IdlePump
    <3> QED BY <3>1, <2>4, <1>2 DEF OnItsWay
  <2> QED BY <2>1, <2>2, <2>3, <2>4 DEF OnItsWay
<1>3. \A n \in Notifications : note[n].state = "claimed" => stopped = "failed"
  BY <1>a, NoneClaimed
<1> QED BY <1>1, <1>2, <1>3, <1>a DEF WakeInv, NothingForgotten

\* Every step of the scheduler's pass forgets no completion.
LEMMA PassForgetsNone == ASSUME DeliveryInv, WakeInv, Pass PROVE WakeInv'
<1>t. pump \in PumpRecord /\ TypeOK
  BY DEF DeliveryInv, TypeOK
<1>1. CASE Scan
  <2>1. life = "up"
    BY <1>1 DEF Scan, DeliveryInv, PumpTrue
  <2>2. ASSUME NEW n \in Notifications, note[n].state = "pending" PROVE OnItsWay(n)'
    BY <1>1, <1>t, <2>2 DEF Scan, OnItsWay, PumpRecord
  <2>3. \A n \in Notifications : note[n].state = "claimed" => stopped = "failed"
    BY <1>1, <2>1, NoneClaimed DEF Scan
  <2> QED BY <1>1, <2>1, <2>2, <2>3 DEF Scan, WakeInv, NothingForgotten, ClaimsPast
<1>2. CASE Return
  BY <1>2, PassEndsForgetsNone DEF Return, MustReturn
<1>3. ASSUME NEW n \in Notifications, Postpone(n) PROVE WakeInv'
  <2>1. InFlight' = InFlight
    BY <1>3 DEF Postpone, InFlight
  <2>2. /\ pump'.current = pump.current /\ pump'.pending = pump.pending /\ pump'.at = pump.at
        /\ pump'.todo = pump.todo \ {n} /\ pump'.late = pump.late \cup {n}
    BY <1>3, <1>t DEF Postpone, PumpRecord
  <2>3. n \in pump.todo
    BY <1>3 DEF Postpone
  <2> QED BY <1>3, <2>1, <2>2, <2>3, SamePass DEF Postpone
<1>4. ASSUME NEW n \in Notifications, Claim(n) PROVE WakeInv'
  <2>1. life = "up" /\ stopped = "no" /\ InFlight = {} /\ pump.at = "loop"
    BY <1>4 DEF Claim, MustReturn, DeliveryInv, PumpTrue
  <2>2. \A m \in Notifications : note[m].state # "claimed"
    BY <2>1, NoneClaimed
  <2>3. Claimed(n).state \in {"expired", "claimed"} /\ Claimed(n).claim <= epoch
    BY <1>t DEF Claimed, TypeOK, NoteRecord, WakeInv, ClaimsPast
  <2>4. /\ \A m \in Notifications \ {n} : note'[m] = note[m]
        /\ note'[n] = Claimed(n)
    BY <1>4, <1>t DEF Claim, TypeOK
  <2>5. ClaimsPast'
    BY <1>4, <2>3, <2>4 DEF Claim, WakeInv, ClaimsPast
  <2>6. ASSUME NEW m \in Notifications, note'[m].state = "pending" PROVE OnItsWay(m)'
    <3>1. m # n /\ note[m].state = "pending"
      BY <2>3, <2>4, <2>6
    <3>2. pump.pending \/ m \in pump.todo \cup pump.late
      BY <2>1, <3>1 DEF WakeInv, NothingForgotten, OnItsWay
    <3>3. CASE ExpiresUnclaimed(n)
      <4>1. pump' = [pump EXCEPT !.todo = @ \ {n}]
        BY <1>4, <3>3 DEF Claim
      <4> QED BY <4>1, <3>1, <3>2, <1>t, <2>1 DEF OnItsWay, PumpRecord
    <3>4. CASE ~ExpiresUnclaimed(n)
      <4>1. pump' = [pump EXCEPT !.current = n,
                        !.at = IF InspectsFirst(Claimed(n).attempts) THEN "inspect" ELSE "decide"]
        BY <1>4, <3>4 DEF Claim
      <4> QED BY <4>1, <3>2, <1>t DEF OnItsWay, PumpRecord
    <3> QED BY <3>3, <3>4
  <2>7. ASSUME NEW m \in Notifications, note'[m].state = "claimed"
        PROVE  pump'.current = m /\ pump'.at \notin {"idle", "scan", "loop"}
    <3>1. m = n
      BY <2>2, <2>4, <2>7
    <3>2. ~ExpiresUnclaimed(n)
      BY <3>1, <2>4, <2>7, <1>t DEF Claimed, TypeOK, NoteRecord
    <3>3. pump' = [pump EXCEPT !.current = n,
                      !.at = IF InspectsFirst(Claimed(n).attempts) THEN "inspect" ELSE "decide"]
      BY <1>4, <3>2 DEF Claim
    <3> QED BY <3>1, <3>3, <1>t DEF PumpRecord
  <2>8. life' = "up"
    BY <1>4, <2>1 DEF Claim
  <2> QED BY <2>5, <2>6, <2>7, <2>8 DEF WakeInv, NothingForgotten
<1>5. CASE CallInspect
  <2>1. InFlight # {} => InFlight' # {}
    BY <1>5 DEF CallInspect, DeliveryInv, PumpTrue
  <2>2. /\ pump'.current = pump.current /\ pump'.pending = pump.pending
        /\ pump'.todo = pump.todo /\ pump'.late = pump.late
        /\ pump.at = "inspect" /\ pump'.at \in {"receipt", "inspecting"}
    BY <1>5, <1>t DEF CallInspect, PumpRecord
  <2> QED BY <1>5, <2>1, <2>2, SamePass DEF CallInspect
<1>6. CASE CallTimeout
  <2>1. InFlight # {} => InFlight' # {}
    BY <1>6 DEF CallTimeout, InFlight
  <2>2. /\ pump'.current = pump.current /\ pump'.pending = pump.pending
        /\ pump'.todo = pump.todo /\ pump'.late = pump.late
        /\ pump.at \in {"inspecting", "accepting"} /\ pump'.at = "receipt"
    BY <1>6, <1>t DEF CallTimeout, PumpRecord
  <2> QED BY <1>6, <2>1, <2>2, SamePass DEF CallTimeout
<1>7. CASE Decide
  <2>1. InFlight # {} => InFlight' # {}
    BY <1>7 DEF Decide, DeliveryInv, PumpTrue
  <2>2. /\ pump'.current = pump.current /\ pump'.pending = pump.pending
        /\ pump'.todo = pump.todo /\ pump'.late = pump.late
        /\ pump.at = "decide" /\ pump'.at \in {"receipt", "accepting"}
    BY <1>7, <1>t DEF Decide, PumpRecord
  <2> QED BY <1>7, <2>1, <2>2, SamePass DEF Decide
<1>8. CASE Receipt
  <2> DEFINE c == pump.current
  <2>1. c \in Notifications /\ note[c].state = "claimed" /\ life = "up" /\ pump.at = "receipt"
    BY <1>8 DEF Receipt, DeliveryInv, PumpTrue, Works
  <2>2. /\ \A m \in Notifications \ {c} : note'[m] = note[m]
        /\ note'[c] = Receipted(c, pump.result)
    <3>1. note' = [note EXCEPT ![c] = Receipted(c, pump.result)]
      BY <1>8 DEF Receipt, CommitReceipt
    <3>2. DOMAIN note = Notifications
      BY <1>t DEF TypeOK
    <3> HIDE DEF c
    <3> QED BY <3>1, <3>2, <2>1
  <2>3. /\ Receipted(c, pump.result).claim = 0
        /\ Receipted(c, pump.result).state # "claimed"
        /\ Receipted(c, pump.result).state = "pending" => pump.result \notin Final
    BY <2>1, <1>t DEF Receipted, TypeOK, NoteRecord, Final
  <2>4. /\ pump'.at = "loop" /\ pump'.pending = pump.pending
        /\ pump'.todo = pump.todo \ {c}
        /\ pump'.late = IF pump.result \in Final THEN pump.late ELSE pump.late \cup {c}
        /\ UNCHANGED <<call, life, stopped, epoch>>
    BY <1>8, <1>t DEF Receipt, PumpRecord
  <2>5. ClaimsPast'
    BY <2>2, <2>3, <2>4, <1>t DEF WakeInv, ClaimsPast, TypeOK
  <2>6. ASSUME NEW m \in Notifications, note'[m].state = "pending", stopped = "no" PROVE OnItsWay(m)'
    <3>1. CASE m = c
      BY <3>1, <2>2, <2>3, <2>4, <2>6 DEF OnItsWay
    <3>2. CASE m # c
      <4>1. OnItsWay(m)
        BY <3>2, <2>1, <2>2, <2>6 DEF WakeInv, NothingForgotten
      <4>2. InFlight' = InFlight
        BY <2>4 DEF InFlight
      <4> QED BY <3>2, <4>1, <4>2, <2>1, <2>4 DEF OnItsWay
    <3> QED BY <3>1, <3>2
  <2>7. \A m \in Notifications : note'[m].state = "claimed" => stopped = "failed"
    BY <2>1, <2>2, <2>3 DEF WakeInv, NothingForgotten
  <2> QED BY <2>1, <2>4, <2>5, <2>6, <2>7 DEF WakeInv, NothingForgotten
<1>9. CASE EndPass
  <2>1. stopped # "no" \/ InFlight # {} \/ pump.todo \cup pump.late \subseteq timer'
    BY <1>9 DEF EndPass, TimerAfter, MustReturn
  <2> QED BY <1>9, <2>1, PassEndsForgetsNone DEF EndPass
<1>10. CASE TimerFires
  BY <1>10, <1>t, WokenForgetsNone DEF TimerFires
<1> QED BY <1>1, <1>2, <1>3, <1>4, <1>5, <1>6, <1>7, <1>8, <1>9, <1>10 DEF Pass

\* An answer of the inbox, awaited or not, wakes the scheduler as it frees its slot.
LEMMA InboxForgetsNone == ASSUME DeliveryInv, WakeInv, Inbox PROVE WakeInv'
<1>t. pump \in PumpRecord
  BY DEF DeliveryInv, TypeOK
<1>1. ASSUME NEW answer \in Final \cup {"absent", "uncertain"}, InspectAnswer(answer) PROVE WakeInv'
  <2> DEFINE state == IF answer = "absent" THEN [pump EXCEPT !.at = "decide"]
                      ELSE [pump EXCEPT !.at = "receipt", !.result = answer]
  <2>1. /\ state \in PumpRecord /\ state.current = pump.current
        /\ state.at \in {"decide", "receipt"}
    BY <1>1, <1>t DEF PumpRecord, Results, Final
  <2>2. pump' = Scheduled(state) /\ UNCHANGED <<note, epoch, life, stopped>>
    BY <1>1 DEF InspectAnswer, Answered
  <2> HIDE DEF state
  <2> QED BY <2>1, <2>2, WokenForgetsNone
<1>2. ASSUME NEW answer \in Results, AcceptAnswer(answer) PROVE WakeInv'
  <2> DEFINE state == [pump EXCEPT !.at = "receipt", !.result = answer]
  <2>1. /\ state \in PumpRecord /\ state.current = pump.current
        /\ state.at = "receipt"
    BY <1>2, <1>t DEF PumpRecord
  <2>2. pump' = Scheduled(state) /\ UNCHANGED <<note, epoch, life, stopped>>
    BY <1>2 DEF AcceptAnswer, Answered
  <2> HIDE DEF state
  <2> QED BY <2>1, <2>2, WokenForgetsNone
<1> QED BY <1>1, <1>2 DEF Inbox, Conclusive

\* A new owner finds every claim abandoned, recovers them all before it is in service, and
\* then reads the whole store.
LEMMA OwnerForgetsNone == ASSUME DeliveryInv, WakeInv, Owner PROVE WakeInv'
<1>t. TypeOK
  BY DEF DeliveryInv
<1>1. CASE AcquireOwner
  <2>1. /\ epoch \in Nat /\ epoch' = epoch + 1 /\ life' = "recovering" /\ note' = note
        /\ \A n \in Notifications : note[n].claim \in Nat
    BY <1>1, <1>t, DeliveryAssumption DEF AcquireOwner, TypeOK, NoteRecord
  <2>2. \A n \in Notifications : note[n].claim <= epoch
    BY DEF WakeInv, ClaimsPast
  <2>3. ClaimsPast'
    BY <2>1, <2>2 DEF ClaimsPast
  <2>4. \A n \in Notifications : note[n].state = "claimed" => n \in Abandoned'
    BY <2>1, <2>2 DEF Abandoned
  <2> QED BY <2>1, <2>3, <2>4 DEF WakeInv, NothingForgotten
<1>2. ASSUME NEW n \in Notifications, RecoverClaim(n) PROVE WakeInv'
  <2>1. /\ \A m \in Notifications \ {n} : note'[m] = note[m]
        /\ note'[n] = Receipted(n, RecoveredResult)
        /\ life' = "recovering" /\ life = "recovering" /\ epoch' = epoch
    BY <1>2, <1>t DEF RecoverClaim, CommitReceipt, TypeOK
  <2>2. Receipted(n, RecoveredResult).state = "pending" /\ Receipted(n, RecoveredResult).claim = 0
    BY <1>t DEF Receipted, RecoveredResult, Final, TypeOK, NoteRecord
  <2>3. ClaimsPast'
    BY <2>1, <2>2, <1>t DEF WakeInv, ClaimsPast, TypeOK
  <2>4. \A m \in Notifications : note'[m].state = "claimed" => m \in Abandoned'
    BY <2>1, <2>2 DEF WakeInv, NothingForgotten, Abandoned
  <2> QED BY <2>1, <2>3, <2>4 DEF WakeInv, NothingForgotten
<1>3. CASE Install
  <2>1. pump'.at = "scan"
    BY <1>3, <1>t DEF Install, TypeOK, PumpRecord
  <2>2. \A n \in Notifications : note[n].state # "claimed"
    BY <1>3 DEF Install, WakeInv, NothingForgotten
  <2>3. \A n \in Notifications : OnItsWay(n)'
    BY <2>1 DEF OnItsWay
  <2> QED BY <1>3, <2>2, <2>3 DEF Install, WakeInv, NothingForgotten, ClaimsPast
<1>4. CASE Release
  BY <1>4 DEF Release, WakeInv, NothingForgotten, ClaimsPast
<1> QED BY <1>1, <1>2, <1>3, <1>4 DEF Owner

\* Settlements, the clock and callbacks nobody awaits forget none either.
LEMMA OthersForgetNone ==
  ASSUME DeliveryInv, WakeInv, NEW n \in Notifications,
         \/ Settle(n) \/ Expire(n) \/ RetryDue(n) \/ InboxCommits(n) \/ OrphanEnds(n)
  PROVE  WakeInv'
<1>t. TypeOK /\ pump \in PumpRecord
  BY DEF DeliveryInv, TypeOK
<1>4. CASE Settle(n)
  <2>1. /\ \A m \in Notifications \ {n} : note'[m] = note[m]
        /\ note'[n].state = "pending" /\ note'[n].claim = note[n].claim
        /\ UNCHANGED <<epoch, life, stopped>> /\ pump' = Scheduled(pump)
    BY <1>4, <1>t DEF Settle, TypeOK, NoteRecord
  <2>2. ClaimsPast'
    BY <2>1 DEF WakeInv, ClaimsPast
  <2>3. ASSUME NEW m \in Notifications, life = "up", stopped = "no" PROVE OnItsWay(m)'
    BY <2>1, <2>3, <1>t, WokenPass DEF OnItsWay
  <2>4. ASSUME NEW m \in Notifications, note'[m].state = "claimed", life = "up", stopped # "failed"
        PROVE  pump'.current = m /\ pump'.at \notin {"idle", "scan", "loop"}
    <3>1. pump.current = m /\ pump.at \notin {"idle", "scan", "loop"}
      BY <2>1, <2>4 DEF WakeInv, NothingForgotten
    <3> QED BY <3>1, <2>1, <1>t, ScheduledFacts
  <2>5. ASSUME NEW m \in Notifications, note'[m].state = "claimed", life = "recovering"
        PROVE  m \in Abandoned'
    BY <2>1, <2>5 DEF WakeInv, NothingForgotten, Abandoned
  <2> QED BY <2>1, <2>2, <2>3, <2>4, <2>5 DEF WakeInv, NothingForgotten
<1>5. CASE Expire(n) \/ RetryDue(n)
  <2>1. InFlight' = InFlight /\ UNCHANGED <<note, epoch, life, stopped, timer, pump>>
    BY <1>5 DEF Expire, RetryDue, InFlight
  <2> QED BY <2>1, SamePass
<1>6. CASE InboxCommits(n)
  <2>1. UNCHANGED <<note, epoch, life, stopped, timer, pump>>
    BY <1>6 DEF InboxCommits
  <2>2. n \in InFlight'
    BY <1>6, <1>t DEF InboxCommits, InFlight, TypeOK, CallRecord
  <2> QED BY <2>1, <2>2, SamePass
<1>7. CASE OrphanEnds(n)
  BY <1>7, <1>t, WokenForgetsNone DEF OrphanEnds, Answered
<1> QED BY <1>4, <1>5, <1>6, <1>7

\* delivery/scheduler.ts: no wake-up is lost and no claim is stranded, for any number of
\* notifications, owners, timed-out callbacks, shutdowns and crashes.
THEOREM NoneForgotten == Spec => []NothingForgotten
<1>1. Init => WakeInv
  BY DEF Init, WakeInv, NothingForgotten, ClaimsPast
<1>2. ASSUME DeliveryInv, WakeInv, [Next]_vars PROVE WakeInv'
  <2>1. CASE Inbox
    BY <1>2, <2>1, InboxForgetsNone
  <2>2. CASE Pass
    BY <1>2, <2>2, PassForgetsNone
  <2>3. CASE Owner
    BY <1>2, <2>3, OwnerForgetsNone
  <2>4. CASE StoreFails \/ Shutdown \/ Crash
    BY <1>2, <2>4 DEF StoreFails, Shutdown, Crash, WakeInv, NothingForgotten, ClaimsPast
  <2>5. ASSUME NEW n \in Notifications,
               Settle(n) \/ Expire(n) \/ RetryDue(n) \/ InboxCommits(n) \/ OrphanEnds(n)
        PROVE  WakeInv'
    BY <1>2, <2>5, OthersForgetNone
  <2>6. CASE UNCHANGED vars
    BY <1>2, <2>6 DEF vars, WakeInv, NothingForgotten, ClaimsPast, OnItsWay, InFlight, Abandoned
  <2> QED BY <1>2, <2>1, <2>2, <2>3, <2>4, <2>5, <2>6 DEF Next
<1>3. WakeInv => NothingForgotten
  BY DEF WakeInv
<1> QED BY <1>1, <1>2, <1>3, DeliveryInvariant, PTL DEF Spec

--------------------------------------------------------------------------------
(* The refinement *)

\* What the store's state of a notification says of its delivery.
LEMMA VerdictOf ==
  ASSUME NEW n \in Notifications
  PROVE  /\ note[n].state = "absent" => Verdict[n] = "none"
         /\ note[n].state \in {"pending", "claimed"} => Verdict[n] = "owed"
         /\ note[n].state \in Final => Verdict[n] = note[n].state
BY DEF Verdict, Final

\* Steps that write neither a notification nor the inbox are invisible in the contract.
LEMMA InvisibleSteps == ASSUME UNCHANGED <<note, copies>> PROVE UNCHANGED Promise!contractVars
BY DEF Promise!contractVars, Verdict

\* Claims, and receipts that settle nothing, leave the completion owed.
LEMMA StillOwed ==
  ASSUME NEW n \in Notifications, UNCHANGED copies,
         \A m \in Notifications : m # n => note'[m] = note[m],
         note[n].state \in {"pending", "claimed"}, note'[n].state \in {"pending", "claimed"}
  PROVE  UNCHANGED Promise!contractVars
<1>1. Verdict' = Verdict
  BY DEF Verdict
<1> QED BY <1>1 DEF Promise!contractVars

\* A verdict is given on a completion that was owed.
LEMMA Concludes ==
  ASSUME NEW n \in Notifications, UNCHANGED copies,
         \A m \in Notifications : m # n => note'[m] = note[m],
         note[n].state \in {"pending", "claimed"}, note'[n].state \in Final,
         note'[n].state = "accepted" => copies[n] > 0,
         note'[n].state = "expired" => ~(copies[n] > 0)
  PROVE  Promise!ContractNext
<1> DEFINE result == note'[n].state
<1>1. Verdict[n] = "owed"
  BY VerdictOf
<1>2. Verdict' = [Verdict EXCEPT ![n] = result]
  BY DEF Verdict, Final
<1>3. result \in {"accepted", "rejected", "expired"}
  BY DEF Final
<1>4. Promise!Conclude(n, result)
  BY <1>1, <1>2 DEF Promise!Conclude
<1> QED BY <1>3, <1>4 DEF Promise!ContractNext

\* Each step of the mechanism is a step of the contract or invisible in it.
LEMMA StepsOfTheContract ==
  ASSUME DeliveryInv, [Next]_vars PROVE [Promise!ContractNext]_(Promise!contractVars)
<1> USE DEF DeliveryInv
<1>1. ASSUME NEW n \in Notifications, Claim(n)
      PROVE  [Promise!ContractNext]_(Promise!contractVars)
  <2>1. /\ note[n].state = "pending"
        /\ note'[n].state = IF ExpiresUnclaimed(n) THEN "expired" ELSE "claimed"
        /\ \A m \in Notifications : m # n => note'[m] = note[m]
        /\ UNCHANGED copies
    BY <1>1 DEF Claim, Claimed, TypeOK, NoteRecord
  <2>2. CASE ExpiresUnclaimed(n)
    <3>1. copies[n] = 0
      BY <2>1, <2>2 DEF NotesTrue, ExpiresUnclaimed
    <3> QED BY <2>1, <2>2, <3>1, Concludes DEF Final
  <2>3. CASE ~ExpiresUnclaimed(n)
    BY <2>1, <2>3, StillOwed
  <2> QED BY <2>2, <2>3
<1>2. CASE Receipt
  <2> DEFINE c == pump.current
  <2>1. c \in Notifications /\ note[c].state = "claimed"
    BY <1>2 DEF Receipt, PumpTrue, Works
  <2>2. /\ note'[c].state = IF pump.result \in Final THEN pump.result ELSE "pending"
        /\ \A m \in Notifications : m # c => note'[m] = note[m]
        /\ UNCHANGED copies
    BY <1>2, <2>1 DEF Receipt, CommitReceipt, Receipted, TypeOK, NoteRecord
  <2>3. /\ pump.result = "accepted" => copies[c] = 1
        /\ pump.result = "expired" => copies[c] = 0
    BY <1>2 DEF Receipt, ResultTrue
  <2> HIDE DEF c
  <2>4. CASE pump.result \in Final
    BY <2>1, <2>2, <2>3, <2>4, Concludes
  <2>5. CASE pump.result \notin Final
    BY <2>1, <2>2, <2>5, StillOwed
  <2> QED BY <2>4, <2>5
<1>3. ASSUME NEW n \in Notifications, RecoverClaim(n)
      PROVE  [Promise!ContractNext]_(Promise!contractVars)
  <2>1. /\ note[n].state = "claimed" /\ note'[n].state = "pending"
        /\ \A m \in Notifications : m # n => note'[m] = note[m]
        /\ UNCHANGED copies
    BY <1>3 DEF RecoverClaim, Abandoned, CommitReceipt, Receipted, RecoveredResult, Final,
       TypeOK, NoteRecord
  <2> QED BY <2>1, StillOwed
<1>4. ASSUME NEW n \in Notifications, Settle(n)
      PROVE  [Promise!ContractNext]_(Promise!contractVars)
  <2>1. /\ note[n].state = "absent" /\ note'[n].state = "pending"
        /\ \A m \in Notifications : m # n => note'[m] = note[m]
        /\ UNCHANGED copies
    BY <1>4 DEF Settle, TypeOK, NoteRecord
  <2>2. Verdict[n] = "none"
    BY <2>1, VerdictOf
  <2>3. Verdict' = [Verdict EXCEPT ![n] = "owed"]
    BY <2>1 DEF Verdict
  <2>4. Promise!Owe(n)
    BY <2>1, <2>2, <2>3 DEF Promise!Owe
  <2> QED BY <2>4 DEF Promise!ContractNext
<1>5. ASSUME NEW n \in Notifications, InboxCommits(n)
      PROVE  [Promise!ContractNext]_(Promise!contractVars)
  <2>1. note[n].state \in {"pending", "claimed"} /\ copies[n] = 0
    BY <1>5 DEF InboxCommits, CallsTrue
  <2>2. Verdict[n] = "owed" /\ Verdict' = Verdict
    BY <1>5, <2>1, VerdictOf DEF InboxCommits, Verdict
  <2>3. {m \in Notifications : copies'[m] > 0} = {m \in Notifications : copies[m] > 0} \cup {n}
    BY <1>5, <2>1 DEF InboxCommits, TypeOK
  <2>4. Promise!Take(n)
    BY <2>1, <2>2, <2>3 DEF Promise!Take
  <2> QED BY <2>4 DEF Promise!ContractNext
<1>6. CASE UNCHANGED <<note, copies>>
  BY <1>6, InvisibleSteps
<1>7. \/ UNCHANGED <<note, copies>> \/ Receipt
      \/ \E n \in Notifications :
           Claim(n) \/ RecoverClaim(n) \/ Settle(n) \/ InboxCommits(n)
  BY DEF vars, Next, Inbox, Conclusive, Pass, Owner, InspectAnswer, AcceptAnswer, Scan,
     Return, Postpone, CallInspect, CallTimeout, Decide, EndPass, TimerFires, AcquireOwner,
     Install, Release, StoreFails, Shutdown, Crash, Expire, RetryDue, OrphanEnds
<1> QED BY <1>1, <1>2, <1>3, <1>4, <1>5, <1>6, <1>7

\* The delivery mechanism implements its contract: a completion is taken at most once, only
\* while it is owed, and the store's verdict on it agrees with the inbox and is final.
THEOREM ImplementsContract == Spec => Contract
<1>1. Init => Promise!ContractInit
  BY DEF Init, Promise!ContractInit, Verdict
<1>2. DeliveryInv /\ [Next]_vars => [Promise!ContractNext]_(Promise!contractVars)
  BY StepsOfTheContract
<1> QED BY <1>1, <1>2, DeliveryInvariant, PTL DEF Spec, Contract, Promise!ContractSpec

================================================================================
