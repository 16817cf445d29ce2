--------------------------- MODULE DelegationDelivery ---------------------------
(***************************************************************************)
(* Delivery of run completions to the parent's inbox: the notification     *)
(* records and their claim and receipt commands (store-adapter/delivery),  *)
(* the scheduler and its wake-ups (delivery/scheduler), deadline-bounded   *)
(* inbox calls (delivery/calls), recovery of abandoned claims, and the     *)
(* shutdown of the owner.                                                  *)
(*                                                                         *)
(* The inbox is external and does NOT deduplicate here (the port asks that *)
(* it does): every acceptance it commits is one more copy, so at-most-once *)
(* is the coordinator's own doing.  An inbox callback dies with its        *)
(* process; what it committed stays.                                       *)
(***************************************************************************)
EXTENDS Integers, FiniteSets

CONSTANTS
  Notifications,   \* completions whose policy is next_turn or automatic
  None,            \* no notification
  MaxEpoch         \* bound on the number of owners; the last one is not disturbed

ASSUME DeliveryAssumption ==
  /\ None \notin Notifications
  /\ MaxEpoch \in Nat \ {0}

VARIABLES
  note,      \* the retained notification records
  clock,     \* which deadlines of a notification have passed
  copies,    \* acceptances the inbox has committed (external)
  call,      \* state.deliveryCalls: the inbox callback in flight per notification
  epoch,     \* epoch of the latest owner
  life,      \* the owner process
  stopped,   \* why the scheduler starts nothing any more
  pump,      \* the scheduler's running pass
  timer      \* notifications the armed retry timer waits for

vars == <<note, clock, copies, call, epoch, life, stopped, pump, timer>>

Final == {"accepted", "rejected", "expired"}
Results == Final \cup {"blocked", "uncertain"}

NoCall == [kind |-> "none", committed |-> FALSE]
IdlePump == [at |-> "idle", current |-> None, result |-> "uncertain",
             todo |-> {}, late |-> {}, pending |-> FALSE]

NoteRecord ==
  [state : {"absent", "pending", "claimed"} \cup Final,
   attempts : 0..2,                       \* 2 stands for every attempt after the first
   reason : {"none", "blocked", "uncertain"}, claim : 0..MaxEpoch]
ClockRecord == [expired : BOOLEAN, due : BOOLEAN]
CallRecord == [kind : {"none", "inspect", "accept"}, committed : BOOLEAN]
PumpRecord ==
  [at : {"idle", "scan", "loop", "inspect", "inspecting", "decide", "accepting", "receipt"},
   current : Notifications \cup {None}, result : Results,
   todo : SUBSET Notifications, late : SUBSET Notifications, pending : BOOLEAN]

TypeOK ==
  /\ note \in [Notifications -> NoteRecord]
  /\ clock \in [Notifications -> ClockRecord]
  /\ copies \in [Notifications -> Nat]
  /\ call \in [Notifications -> CallRecord]
  /\ epoch \in 0..MaxEpoch
  /\ life \in {"down", "recovering", "up"}
  /\ stopped \in {"no", "closing", "failed"}
  /\ pump \in PumpRecord
  /\ timer \in SUBSET Notifications

Init ==
  /\ note = [n \in Notifications |->
       [state |-> "absent", attempts |-> 0, reason |-> "none", claim |-> 0]]
  /\ clock = [n \in Notifications |-> [expired |-> FALSE, due |-> TRUE]]
  /\ copies = [n \in Notifications |-> 0]
  /\ call = [n \in Notifications |-> NoCall]
  /\ epoch = 0 /\ life = "down" /\ stopped = "no"
  /\ pump = IdlePump /\ timer = {}

InFlight == {n \in Notifications : call[n].kind # "none"}

--------------------------------------------------------------------------------
(* Wake-ups *)

\* Mutant: a wake-up during a pass is dropped instead of remembered.
Forgetful(state) ==
  IF life # "up" \/ stopped # "no" \/ state.at # "idle" THEN state
  ELSE [state EXCEPT !.at = "scan"]

\* schedule(): one pass at a time; a wake-up during a pass is remembered.
Scheduled(state) ==
  IF life # "up" \/ stopped # "no" THEN state
  ELSE IF state.at # "idle" THEN [state EXCEPT !.pending = TRUE]
  ELSE [state EXCEPT !.at = "scan"]

\* Mutant: the end of a pass forgets the wake-up it remembered.
EndedForGood(state) == IdlePump

\* The end of a pass, and the pass a remembered wake-up asks for.
Ended(state) ==
  IF state.pending THEN Scheduled(IdlePump) ELSE IdlePump

--------------------------------------------------------------------------------
(* Commands of the store *)

\* Mutant: expiry is decided without regard to an unknown earlier attempt.
ExpiresWhateverHappened(n) == clock[n].expired

\* A claim of an expired notification ends it, unless an earlier attempt may have
\* been accepted: then only the inbox can tell.
ExpiresUnclaimed(n) == clock[n].expired /\ note[n].reason # "uncertain"

\* delivery_claim
Claimed(n) ==
  [note[n] EXCEPT !.attempts = IF @ = 0 THEN 1 ELSE 2,
                  !.state = IF ExpiresUnclaimed(n) THEN "expired" ELSE "claimed",
                  !.reason = IF ExpiresUnclaimed(n) THEN "none" ELSE @,
                  !.claim = IF ExpiresUnclaimed(n) THEN @ ELSE epoch]

\* delivery_receipt: an inconclusive result puts the notification back with a
\* retry time of one to thirty seconds.
Receipted(n, result) ==
  [note[n] EXCEPT !.state = IF result \in Final THEN result ELSE "pending",
                  !.reason = IF result \in Final THEN "none" ELSE result,
                  !.claim = 0]

CommitReceipt(n, result) ==
  /\ note' = [note EXCEPT ![n] = Receipted(n, result)]
  /\ clock' = [clock EXCEPT ![n].due = result \in Final]

\* eligibleAt(n) has passed.
Eligible(n) ==
  IF note[n].reason = "uncertain" THEN clock[n].due
  ELSE clock[n].due \/ clock[n].expired

--------------------------------------------------------------------------------
(* The scheduler's pass *)

Scan ==
  /\ pump.at = "scan"
  /\ timer' = {}
  /\ pump' = [pump EXCEPT !.at = "loop",
                          !.todo = {n \in Notifications : note[n].state = "pending"}]
  /\ UNCHANGED <<note, clock, copies, call, epoch, life, stopped>>

\* A stopped scheduler, or a callback that outlived its deadline, ends the pass
\* without a timer: the callback itself will wake the scheduler.
MustReturn == stopped # "no" \/ InFlight # {}

Return ==
  /\ pump.at = "loop" /\ pump.todo # {} /\ MustReturn
  /\ pump' = Ended(pump)
  /\ UNCHANGED <<note, clock, copies, call, epoch, life, stopped, timer>>

Postpone(n) ==
  /\ pump.at = "loop" /\ n \in pump.todo /\ ~MustReturn
  /\ note[n].state = "pending" /\ ~Eligible(n)
  /\ pump' = [pump EXCEPT !.todo = @ \ {n}, !.late = @ \cup {n}]
  /\ UNCHANGED <<note, clock, copies, call, epoch, life, stopped, timer>>

\* Mutant: every attempt asks the inbox to accept.
NeverInspects(attempts) == FALSE

\* An attempt after the first may find that the inbox already accepted.
InspectsFirst(attempts) == attempts > 1

Claim(n) ==
  /\ pump.at = "loop" /\ n \in pump.todo /\ ~MustReturn
  /\ note[n].state = "pending" /\ Eligible(n)
  /\ note' = [note EXCEPT ![n] = Claimed(n)]
  /\ pump' = IF ExpiresUnclaimed(n) THEN [pump EXCEPT !.todo = @ \ {n}]
             ELSE [pump EXCEPT !.current = n,
                               !.at = IF InspectsFirst(Claimed(n).attempts) THEN "inspect" ELSE "decide"]
  /\ UNCHANGED <<clock, copies, call, epoch, life, stopped, timer>>

CallInspect ==
  /\ pump.at = "inspect"
  /\ IF stopped # "no"
       THEN /\ pump' = [pump EXCEPT !.at = "receipt", !.result = "uncertain"]
            /\ UNCHANGED call
       ELSE /\ pump' = [pump EXCEPT !.at = "inspecting"]
            /\ call' = [call EXCEPT ![pump.current].kind = "inspect"]
  /\ UNCHANGED <<note, clock, copies, epoch, life, stopped, timer>>

\* The callback ends: its slot is freed and the scheduler woken.
Answered(state) == Scheduled(state)

\* The inbox tells what it holds, or that the parent may not be told; an answer
\* that is late, malformed or an exception says nothing.
InspectAnswer(answer) ==
  /\ pump.at = "inspecting"
  /\ answer = "accepted" => copies[pump.current] > 0
  /\ answer \in {"absent", "expired"} => copies[pump.current] = 0
  /\ call' = [call EXCEPT ![pump.current] = NoCall]
  /\ pump' = Answered(IF answer = "absent" THEN [pump EXCEPT !.at = "decide"]
                      ELSE [pump EXCEPT !.at = "receipt", !.result = answer])
  /\ UNCHANGED <<note, clock, copies, epoch, life, stopped, timer>>

\* The deadline of the call passes; the callback keeps running.
CallTimeout ==
  /\ pump.at \in {"inspecting", "accepting"}
  /\ pump' = [pump EXCEPT !.at = "receipt", !.result = "uncertain"]
  /\ UNCHANGED <<note, clock, copies, call, epoch, life, stopped, timer>>

\* Confirmed absence: a new acceptance unless it is too late or forbidden.
Decide ==
  /\ pump.at = "decide"
  /\ IF clock[pump.current].expired \/ MustReturn
       THEN /\ pump' = [pump EXCEPT !.at = "receipt",
                          !.result = IF clock[pump.current].expired THEN "expired" ELSE "uncertain"]
            /\ UNCHANGED call
       ELSE /\ pump' = [pump EXCEPT !.at = "accepting"]
            /\ call' = [call EXCEPT ![pump.current].kind = "accept"]
  /\ UNCHANGED <<note, clock, copies, epoch, life, stopped, timer>>

\* The inbox commits the acceptance, awaited or not.
InboxCommits(n) ==
  /\ call[n].kind = "accept" /\ ~call[n].committed
  /\ copies' = [copies EXCEPT ![n] = @ + 1]
  /\ call' = [call EXCEPT ![n].committed = TRUE]
  /\ UNCHANGED <<note, clock, epoch, life, stopped, pump, timer>>

\* The callback returns in time, or throws after or before its commit.
AcceptAnswer(answer) ==
  /\ pump.at = "accepting"
  /\ answer = "accepted" => call[pump.current].committed
  /\ answer \in {"blocked", "rejected", "expired"} => ~call[pump.current].committed
  /\ call' = [call EXCEPT ![pump.current] = NoCall]
  /\ pump' = Answered([pump EXCEPT !.at = "receipt", !.result = answer])
  /\ UNCHANGED <<note, clock, copies, epoch, life, stopped, timer>>

\* A callback nobody awaits any more ends.
OrphanEnds(n) ==
  /\ call[n].kind # "none"
  /\ ~(pump.at \in {"inspecting", "accepting"} /\ pump.current = n)
  /\ call' = [call EXCEPT ![n] = NoCall]
  /\ pump' = Answered(pump)
  /\ UNCHANGED <<note, clock, copies, epoch, life, stopped, timer>>

Receipt ==
  /\ pump.at = "receipt"
  /\ CommitReceipt(pump.current, pump.result)
  /\ pump' = [pump EXCEPT !.at = "loop", !.current = None, !.result = "uncertain",
                          !.todo = @ \ {pump.current},
                          !.late = IF pump.result \in Final THEN @ ELSE @ \cup {pump.current}]
  /\ UNCHANGED <<copies, call, epoch, life, stopped, timer>>

\* The pass is over: the timer waits for the earliest retry, unless a callback
\* will wake the scheduler anyway.
TimerAfter(state) == IF MustReturn THEN {} ELSE state.late

EndPass ==
  /\ pump.at = "loop" /\ pump.todo = {}
  /\ timer' = TimerAfter(pump)
  /\ pump' = Ended(pump)
  /\ UNCHANGED <<note, clock, copies, call, epoch, life, stopped>>

TimerFires ==
  /\ \E n \in timer : Eligible(n)
  /\ timer' = {}
  /\ pump' = Scheduled(pump)
  /\ UNCHANGED <<note, clock, copies, call, epoch, life, stopped>>

--------------------------------------------------------------------------------
(* The coordinator around the scheduler *)

\* The notification is written with the outcome of its run; the commit wakes
\* the scheduler once it is installed.  Recovery settles lost runs as well.
Settle(n) ==
  /\ life # "down" /\ note[n].state = "absent"
  /\ note' = [note EXCEPT ![n].state = "pending"]
  /\ pump' = Scheduled(pump)
  /\ UNCHANGED <<clock, copies, call, epoch, life, stopped, timer>>

AcquireOwner ==
  /\ life = "down" /\ epoch < MaxEpoch
  /\ epoch' = epoch + 1 /\ life' = "recovering" /\ stopped' = "no"
  /\ UNCHANGED <<note, clock, copies, call, pump, timer>>

Abandoned == {n \in Notifications : note[n].state = "claimed" /\ note[n].claim # epoch}

\* A previous process may have been accepted before losing the acknowledgement.
RecoveredResult == "uncertain"

RecoverClaim(n) ==
  /\ life = "recovering" /\ n \in Abandoned
  /\ CommitReceipt(n, RecoveredResult)
  /\ UNCHANGED <<copies, call, epoch, life, stopped, pump, timer>>

Install ==
  /\ life = "recovering" /\ Abandoned = {}
  /\ life' = "up"
  /\ pump' = [pump EXCEPT !.at = "scan"]
  /\ UNCHANGED <<note, clock, copies, call, epoch, stopped, timer>>

\* A commit fails for good, of this pass (which ends) or of another part of the
\* coordinator: nothing is started any more and the owner is never released.
StoreFails ==
  /\ epoch < MaxEpoch
  /\ life = "up" /\ stopped # "failed"
  /\ stopped' = "failed" /\ timer' = {}
  /\ \/ pump.at \in {"scan", "loop", "receipt"} /\ pump' = IdlePump
     \/ UNCHANGED pump
  /\ UNCHANGED <<note, clock, copies, call, epoch, life>>

Shutdown ==
  /\ epoch < MaxEpoch
  /\ life = "up" /\ stopped = "no"
  /\ stopped' = "closing" /\ timer' = {}
  /\ UNCHANGED <<note, clock, copies, call, epoch, life, pump>>

\* Mutant: shutdown waits for the scheduler's pass only.
PassIsOver == pump.at = "idle"

\* state.producers is empty: no pass and no callback, awaited or not.
Quiescent == pump.at = "idle" /\ InFlight = {}

Release ==
  /\ life = "up" /\ stopped = "closing" /\ Quiescent
  /\ life' = "down"
  /\ UNCHANGED <<note, clock, copies, call, epoch, stopped, pump, timer>>

Crash ==
  /\ life # "down" /\ epoch < MaxEpoch
  /\ life' = "down" /\ stopped' = "no"
  /\ call' = [n \in Notifications |-> NoCall]
  /\ pump' = IdlePump /\ timer' = {}
  /\ UNCHANGED <<note, clock, copies, epoch>>

--------------------------------------------------------------------------------
(* Time *)

Expire(n) ==
  /\ note[n].state # "absent" /\ ~clock[n].expired
  /\ clock' = [clock EXCEPT ![n].expired = TRUE]
  /\ UNCHANGED <<note, copies, call, epoch, life, stopped, pump, timer>>

RetryDue(n) ==
  /\ ~clock[n].due
  /\ clock' = [clock EXCEPT ![n].due = TRUE]
  /\ UNCHANGED <<note, copies, call, epoch, life, stopped, pump, timer>>

--------------------------------------------------------------------------------

Conclusive == \E answer \in Final \cup {"absent"} : InspectAnswer(answer)

Inbox ==
  \/ Conclusive
  \/ InspectAnswer("uncertain")
  \/ \E answer \in Results : AcceptAnswer(answer)

Pass ==
  \/ Scan
  \/ Return
  \/ \E n \in Notifications : Postpone(n) \/ Claim(n)
  \/ CallInspect
  \/ CallTimeout
  \/ Decide
  \/ Receipt
  \/ EndPass
  \/ TimerFires

Owner ==
  \/ AcquireOwner
  \/ \E n \in Notifications : RecoverClaim(n)
  \/ Install
  \/ Release

Next ==
  \/ Inbox
  \/ Pass
  \/ Owner
  \/ StoreFails
  \/ Shutdown
  \/ Crash
  \/ \E n \in Notifications :
       Settle(n) \/ Expire(n) \/ RetryDue(n) \/ InboxCommits(n) \/ OrphanEnds(n)

Spec == Init /\ [][Next]_vars

\* The event loop runs what is ready; timers fire and deadlines pass; callbacks
\* end, aborted or not; a host restarts a failed or dead coordinator; and the
\* inbox does not forever keep back what it knows of a notification (the README
\* of the package: delivery is conditional on "eventual destination availability").
Fairness ==
  /\ WF_vars(Pass) /\ WF_vars(Inbox \/ CallTimeout) /\ WF_vars(Owner)
  /\ \A n \in Notifications :
       /\ WF_vars(Expire(n)) /\ WF_vars(RetryDue(n)) /\ WF_vars(OrphanEnds(n))
       /\ SF_vars(pump.current = n /\ Conclusive)
  /\ WF_vars(stopped = "failed" /\ Crash)

FairSpec == Spec /\ Fairness

--------------------------------------------------------------------------------
(* Properties *)

\* Through lost acknowledgements, timed-out callbacks that commit late, crashes
\* between acceptance and receipt and any number of owners, the inbox is asked to
\* take a completion only when it does not have it.
AtMostOneCopy == \A n \in Notifications : copies[n] <= 1

\* README: "One actual inbox callback runs at a time", timed-out ones included, and
\* "shutdown cannot release that owner while a callback can still commit a side effect":
\* callbacks do not pile up, and whoever has one in flight still owns the store.
CallbackIsOwned == Cardinality(InFlight) <= 1 /\ (InFlight # {} => life = "up")

Verdict == [n \in Notifications |->
              CASE note[n].state = "absent" -> "none"
                [] note[n].state \in {"pending", "claimed"} -> "owed"
                [] OTHER -> note[n].state]

Promise == INSTANCE DeliveryContract
             WITH verdict <- Verdict, held <- {n \in Notifications : copies[n] > 0}

\* The mechanism implements the contract: what the inbox holds is never reported
\* expired, what is reported accepted is held, and nothing is taken after a verdict.
Contract == Promise!ContractSpec

\* Somebody will look at a pending completion again: the callback in flight when it
\* ends, the armed timer, a pass that has yet to read the store, or the running pass,
\* which has it on its list, arms the timer for it or remembers a wake-up.
OnItsWay(n) ==
  \/ InFlight # {}
  \/ pump.at = "idle" /\ n \in timer
  \/ pump.at = "scan"
  \/ pump.at \notin {"idle", "scan"} /\ (pump.pending \/ n \in pump.todo \cup pump.late)

\* At every moment each undelivered completion has somebody who will take it up: an
\* owner in service has every pending one on its way and works on every claimed one, and
\* recovery finds every claimed one abandoned.  Passes that return without a timer,
\* late callbacks, a shutdown and any number of takeovers in between leave no gap.
NothingForgotten ==
  \A n \in Notifications :
    /\ note[n].state = "pending" /\ life = "up" /\ stopped = "no" => OnItsWay(n)
    /\ note[n].state = "claimed" /\ life = "up" /\ stopped # "failed"
         => pump.current = n /\ pump.at \notin {"idle", "scan", "loop"}
    /\ note[n].state = "claimed" /\ life = "recovering" => n \in Abandoned

\* No wake-up is lost and no claim is stranded: every completion gets its verdict,
\* across crashes, failed stores and shutdowns.
EventuallyConcluded ==
  \A n \in Notifications : note[n].state = "pending" ~> note[n].state \in Final

================================================================================
