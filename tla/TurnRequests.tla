----------------------------- MODULE TurnRequests -----------------------------
(***************************************************************************)
(* The request admission of one turn execution                             *)
(* (agent-runtime/src/turnExecution/requests.ts): which of the requests a  *)
(* provider has opened may be answered.  An admission is a record and each *)
(* method of the code an operator on it; the callbacks canRestore and      *)
(* canRestoreRequest are passed as a Boolean and as the set of requests    *)
(* whose approval subject is still live.                                   *)
(*                                                                         *)
(* pendingRequests holds exactly the entries of kind "pending".  A claim's *)
(* attempt symbol is left out: an entry is claimed again only after its    *)
(* attempt gave it back, so a claimed entry has one attempt.               *)
(***************************************************************************)
EXTENDS Integers, FiniteSets

CONSTANTS
  MaxRequests,       \* bound: requests a provider opens in a session
  MaxInterruptions   \* bound: interruptions under way together

ASSUME RequestsAssumption == MaxRequests \in Nat /\ MaxInterruptions \in Nat

\* Names in the order of opening, which is the order of the Map; a suspension's token
\* is the smallest one not in use.
Requests == 1..MaxRequests
Interruptions == 1..MaxInterruptions

Kinds == {"unopened", "pending", "withheld", "claimed", "retired"}

AdmissionRecord ==
  [kind : [Requests -> Kinds],
   suspensions : [Requests -> SUBSET Interruptions]]

NoRequests ==
  [kind |-> [q \in Requests |-> "unopened"],
   suspensions |-> [q \in Requests |-> {}]]

Opened(a) == {q \in Requests : a.kind[q] # "unopened"}
Pending(a) == {q \in Requests : a.kind[q] = "pending"}
\* hasUnclaimedRequest, unclaimedRequests
Unclaimed(a) == {q \in Requests : a.kind[q] \in {"pending", "withheld"}}

Become(a, q, kind) == [a EXCEPT !.kind[q] = kind]

\* retire, of a set of entries.
Retire(a, gone) ==
  [a EXCEPT !.kind = [q \in Requests |-> IF q \in gone THEN "retired" ELSE a.kind[q]],
            !.suspensions = [q \in Requests |-> IF q \in gone THEN {} ELSE a.suspensions[q]]]

Withdraw(a) == Retire(a, Opened(a))

Ready(a) == {q \in Requests : a.kind[q] = "withheld" /\ a.suspensions[q] = {}}

\* restoreReadyRequest: the first ready entry whose subject is live becomes pending;
\* the ready entries passed on the way, whose subjects are gone, are retired.
RestoreReady(a, canRestore, live) ==
  IF ~canRestore \/ Pending(a) # {} THEN a
  ELSE LET first == {q \in Ready(a) \cap live :
                       \A p \in Ready(a) \cap live : q <= p}
           passed == {q \in Ready(a) \ live : \A p \in first : q < p}
           rest == Retire(a, passed)
       IN  [rest EXCEPT !.kind = [q \in Requests |-> IF q \in first THEN "pending" ELSE @[q]]]

\* claim
Claim(a, q, canRestore, live) == RestoreReady(Become(a, q, "claimed"), canRestore, live)

\* The restore and the retire of an attempt: nothing once the entry was retired.
GiveBack(a, q, canRestore, live) ==
  IF a.kind[q] # "claimed" \/ ~canRestore THEN a
  ELSE RestoreReady(Become(a, q, "withheld"), canRestore, live)

RetireClaim(a, q, canRestore, live) ==
  IF a.kind[q] # "claimed" THEN a ELSE RestoreReady(Retire(a, {q}), canRestore, live)

\* suspend, for interruption i: claimed entries are marked too.
Suspend(a, i) ==
  [a EXCEPT
     !.kind = [q \in Requests |-> IF a.kind[q] = "pending" THEN "withheld" ELSE a.kind[q]],
     !.suspensions = [q \in Requests |->
        IF a.kind[q] \in {"pending", "withheld", "claimed"}
        THEN a.suspensions[q] \cup {i} ELSE a.suspensions[q]]]

\* The restore of a suspension.
Resume(a, i, canRestore, live) ==
  RestoreReady([a EXCEPT !.suspensions = [q \in Requests |-> @[q] \ {i}]], canRestore, live)

\* open, after its checks.
OpenRequest(a, q) == Become(a, q, "pending")

\* unavailable, after its checks; of an entry already retired it changes nothing.
Unavailable(a, q, canRestore, live) == RestoreReady(Retire(a, {q}), canRestore, live)

================================================================================
