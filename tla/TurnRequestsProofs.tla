-------------------------- MODULE TurnRequestsProofs --------------------------
(***************************************************************************)
(* What the methods of the request admission (turnExecution/requests.ts)   *)
(* return, for any number of requests and interruptions.                   *)
(***************************************************************************)
EXTENDS TurnRequests, TLAPS, WellFoundedInduction

\* One request is presented at a time.
OnePending(a) == \A p, q \in Pending(a) : p = q

\* A request is presented unless every one held back is suspended.
Served(a) == Pending(a) # {} \/ Ready(a) = {}

\* b is a with some requests restored or retired: nothing is opened, what was retired stays
\* so, a claim ends by its retirement unless it is one of those given back, and no suspension
\* is added.
Evolves(a, b, back) ==
  \A q \in Requests :
    /\ b.suspensions[q] \subseteq a.suspensions[q]
    /\ b.kind[q] = "unopened" <=> a.kind[q] = "unopened"
    /\ a.kind[q] = "retired" => b.kind[q] = "retired"
    /\ a.kind[q] = "claimed" /\ q \notin back => b.kind[q] \in {"claimed", "retired"}

\* b is a with some of the requests held back presented or retired.
Restored(a, b) ==
  \A q \in Requests :
    /\ b.suspensions[q] \subseteq a.suspensions[q]
    /\ \/ b.kind[q] = a.kind[q]
       \/ a.kind[q] = "withheld" /\ b.kind[q] \in {"pending", "retired"}

\* The kinds and suspensions of an admission.
LEMMA AdmissionTypes ==
  ASSUME NEW a \in AdmissionRecord, NEW q \in Requests
  PROVE  a.kind[q] \in Kinds /\ a.suspensions[q] \in SUBSET Interruptions
BY DEF AdmissionRecord

\* A kind of one request is replaced.
LEMMA KindReplaced ==
  ASSUME NEW a \in AdmissionRecord, NEW q \in Requests, NEW kind \in Kinds, NEW b,
         b = Become(a, q, kind)
  PROVE  /\ b \in AdmissionRecord /\ b.suspensions = a.suspensions /\ b.kind[q] = kind
         /\ \A p \in Requests : p # q => b.kind[p] = a.kind[p]
<1>1. b = [a EXCEPT !.kind = [a.kind EXCEPT ![q] = kind]]
  BY DEF Become
<1>2. a.kind \in [Requests -> Kinds] /\ [a.kind EXCEPT ![q] = kind] \in [Requests -> Kinds]
  BY DEF AdmissionRecord
<1> DEFINE kinds == [a.kind EXCEPT ![q] = kind]
<1>3. kinds[q] = kind /\ \A p \in Requests : p # q => kinds[p] = a.kind[p]
  BY <1>2
<1> HIDE DEF kinds
<1>4. b = [a EXCEPT !.kind = kinds] /\ kinds \in [Requests -> Kinds]
  BY <1>1, <1>2 DEF kinds
<1>5. b \in AdmissionRecord /\ b.suspensions = a.suspensions /\ b.kind = kinds
  BY <1>4 DEF AdmissionRecord
<1> QED BY <1>3, <1>5

\* retire: the entries go, with their suspensions, and no other changes.
LEMMA RetireFacts ==
  ASSUME NEW a \in AdmissionRecord, NEW gone, NEW b, b = Retire(a, gone)
  PROVE  /\ b \in AdmissionRecord
         /\ \A q \in Requests :
              /\ b.kind[q] = IF q \in gone THEN "retired" ELSE a.kind[q]
              /\ b.suspensions[q] = IF q \in gone THEN {} ELSE a.suspensions[q]
<1> DEFINE kinds == [q \in Requests |-> IF q \in gone THEN "retired" ELSE a.kind[q]]
           held == [q \in Requests |-> IF q \in gone THEN {} ELSE a.suspensions[q]]
<1>1. kinds \in [Requests -> Kinds]
  BY AdmissionTypes DEF Kinds
<1>2. held \in [Requests -> SUBSET Interruptions]
  BY AdmissionTypes
<1>3. b = [a EXCEPT !.kind = kinds, !.suspensions = held]
  BY DEF Retire
<1>4. /\ \A q \in Requests : kinds[q] = IF q \in gone THEN "retired" ELSE a.kind[q]
      /\ \A q \in Requests : held[q] = IF q \in gone THEN {} ELSE a.suspensions[q]
  OBVIOUS
<1> HIDE DEF kinds, held
<1>5. b \in AdmissionRecord /\ b.kind = kinds /\ b.suspensions = held
  BY <1>1, <1>2, <1>3 DEF AdmissionRecord
<1> QED BY <1>4, <1>5

\* Requests are ordered by their opening.
LEMMA FirstRequest ==
  ASSUME NEW S, S \subseteq Requests, S # {}
  PROVE  \E q \in S : \A p \in S : q <= p
<1>1. S \subseteq Nat
  BY RequestsAssumption DEF Requests
<1>2. PICK q \in S : \A p \in S : ~(<<p, q>> \in OpToRel(<, Nat))
  BY <1>1, WFMin, NatLessThanWellFounded
<1>3. ASSUME NEW p \in S, p < q PROVE FALSE
  <2>1. <<p, q>> \in Nat \X Nat /\ <<p, q>>[1] < <<p, q>>[2]
    BY <1>1, <1>3
  <2>2. <<p, q>> \in OpToRel(<, Nat)
    BY <2>1 DEF OpToRel
  <2> QED BY <1>2, <2>2
<1>4. \A p \in S : q <= p
  BY <1>1, <1>3
<1> QED BY <1>4

\* restoreReadyRequest presents at most one request, and leaves none behind that is ready.
LEMMA RestoreReadyFacts ==
  ASSUME NEW a \in AdmissionRecord, OnePending(a), NEW canRestore \in BOOLEAN, NEW live, NEW b,
         b = RestoreReady(a, canRestore, live)
  PROVE  /\ b \in AdmissionRecord /\ OnePending(b)
         /\ canRestore => Served(b)
         /\ Restored(a, b)
<1>1. CASE ~canRestore \/ Pending(a) # {}
  <2>1. b = a
    BY <1>1 DEF RestoreReady
  <2> QED BY <1>1, <2>1 DEF Served, Restored
<1>2. CASE canRestore /\ Pending(a) = {}
  <2> DEFINE first == {q \in Ready(a) \cap live : \A p \in Ready(a) \cap live : q <= p}
             passed == {q \in Ready(a) \ live : \A p \in first : q < p}
             rest == Retire(a, passed)
             kinds == [q \in Requests |-> IF q \in first THEN "pending" ELSE rest.kind[q]]
  <2>1. b = [rest EXCEPT !.kind = kinds]
    BY <1>2 DEF RestoreReady
  <2>2. /\ first \subseteq Ready(a) /\ passed \subseteq Ready(a) \ live
        /\ first = {} => Ready(a) \cap live = {} /\ passed = Ready(a)
    <3>1. Ready(a) \cap live # {} => first # {}
      <4>1. Ready(a) \cap live \subseteq Requests
        BY DEF Ready
      <4>2. Ready(a) \cap live # {} => \E q \in Ready(a) \cap live : \A p \in Ready(a) \cap live : q <= p
        BY <4>1, FirstRequest
      <4> QED BY <4>2
    <3>2. first = {} => passed = Ready(a) \ live
      OBVIOUS
    <3> QED BY <3>1, <3>2
  <2>3. \A p, q \in first : p = q
    BY RequestsAssumption DEF Ready, Requests
  <2>4. first \cap passed = {}
    BY <2>2
  <2> HIDE DEF first, passed, rest, kinds
  <2>5. /\ rest \in AdmissionRecord
        /\ \A q \in Requests :
             /\ rest.kind[q] = IF q \in passed THEN "retired" ELSE a.kind[q]
             /\ rest.suspensions[q] = IF q \in passed THEN {} ELSE a.suspensions[q]
    BY RetireFacts DEF rest
  <2>6. /\ kinds \in [Requests -> Kinds]
        /\ \A q \in Requests : kinds[q] = IF q \in first THEN "pending" ELSE rest.kind[q]
    BY <2>5, AdmissionTypes DEF kinds, Kinds
  <2>7. b \in AdmissionRecord /\ b.kind = kinds /\ b.suspensions = rest.suspensions
    BY <2>1, <2>5, <2>6 DEF AdmissionRecord
  <2>8. \A q \in Requests :
          /\ b.kind[q] = IF q \in first THEN "pending"
                         ELSE IF q \in passed THEN "retired" ELSE a.kind[q]
          /\ b.suspensions[q] = IF q \in passed THEN {} ELSE a.suspensions[q]
    BY <2>5, <2>6, <2>7
  <2>9. Pending(b) = first
    <3>1. first \subseteq Requests /\ \A q \in Requests : a.kind[q] # "pending"
      BY <1>2, <2>2 DEF Pending, Ready
    <3>2. \A q \in Requests : b.kind[q] = "pending" <=> q \in first
      BY <2>8, <3>1
    <3>3. Pending(b) \subseteq first /\ first \subseteq Pending(b)
      BY <3>1, <3>2 DEF Pending
    <3> QED BY <3>3
  <2>10. Served(b)
    <3>1. CASE first = {}
      <4>1. Ready(b) = {}
        BY <2>2, <2>8, <3>1 DEF Ready
      <4> QED BY <4>1 DEF Served
    <3> QED BY <2>9, <3>1 DEF Served
  <2>11. OnePending(b)
    BY <2>3, <2>9 DEF OnePending
  <2>12. \A q \in Requests : q \in first \/ q \in passed => a.kind[q] = "withheld"
    BY <2>2 DEF Ready
  <2>13. Restored(a, b)
    BY <2>8, <2>12 DEF Restored
  <2> QED BY <2>7, <2>10, <2>11, <2>13
<1> QED BY <1>1, <1>2

\* claim, of the request presented.
LEMMA ClaimFacts ==
  ASSUME NEW a \in AdmissionRecord, OnePending(a), NEW canRestore \in BOOLEAN, NEW live,
         NEW q \in Pending(a), NEW b, b = Claim(a, q, canRestore, live)
  PROVE  /\ b \in AdmissionRecord /\ OnePending(b) /\ Evolves(a, b, {})
         /\ canRestore => Served(b)
         /\ b.kind[q] = "claimed"
<1> DEFINE c == Become(a, q, "claimed")
<1>0. q \in Requests /\ a.kind[q] = "pending" /\ "claimed" \in Kinds
  BY DEF Pending, Kinds
<1>1. /\ c \in AdmissionRecord /\ c.suspensions = a.suspensions /\ c.kind[q] = "claimed"
      /\ \A p \in Requests : p # q => c.kind[p] = a.kind[p]
  BY <1>0, KindReplaced
<1>2. b = RestoreReady(c, canRestore, live)
  BY DEF Claim
<1> HIDE DEF c
<1>3. OnePending(c)
  BY <1>0, <1>1 DEF OnePending, Pending
<1>4. /\ b \in AdmissionRecord /\ OnePending(b) /\ (canRestore => Served(b)) /\ Restored(c, b)
  BY <1>1, <1>2, <1>3, RestoreReadyFacts
<1>5. Evolves(a, b, {}) /\ b.kind[q] = "claimed"
  BY <1>0, <1>1, <1>4 DEF Evolves, Restored
<1> QED BY <1>4, <1>5

\* The restore of an attempt.
LEMMA GiveBackFacts ==
  ASSUME NEW a \in AdmissionRecord, OnePending(a), NEW canRestore \in BOOLEAN, NEW live,
         NEW q \in Requests, NEW b, b = GiveBack(a, q, canRestore, live)
  PROVE  /\ b \in AdmissionRecord /\ OnePending(b) /\ Evolves(a, b, {q})
         /\ canRestore /\ (a.kind[q] = "claimed" \/ Served(a)) => Served(b)
<1>1. CASE a.kind[q] # "claimed" \/ ~canRestore
  <2>1. b = a
    BY <1>1 DEF GiveBack
  <2> QED BY <1>1, <2>1 DEF Evolves, Restored
<1>2. CASE a.kind[q] = "claimed" /\ canRestore
  <2> DEFINE c == Become(a, q, "withheld")
  <2>0. "withheld" \in Kinds
    BY DEF Kinds
  <2>1. /\ c \in AdmissionRecord /\ c.suspensions = a.suspensions /\ c.kind[q] = "withheld"
        /\ \A p \in Requests : p # q => c.kind[p] = a.kind[p]
    BY <2>0, KindReplaced
  <2>2. b = RestoreReady(c, canRestore, live)
    BY <1>2 DEF GiveBack
  <2> HIDE DEF c
  <2>3. OnePending(c)
    BY <2>1 DEF OnePending, Pending
  <2>4. /\ b \in AdmissionRecord /\ OnePending(b) /\ (canRestore => Served(b)) /\ Restored(c, b)
    BY <2>1, <2>2, <2>3, RestoreReadyFacts
  <2>5. Evolves(a, b, {q})
    BY <1>2, <2>1, <2>4 DEF Evolves, Restored
  <2> QED BY <2>4, <2>5
<1> QED BY <1>1, <1>2

\* An entry is retired, and the next one restored.
LEMMA RetireRestoreFacts ==
  ASSUME NEW a \in AdmissionRecord, OnePending(a), NEW canRestore \in BOOLEAN, NEW live,
         NEW q \in Requests, a.kind[q] # "unopened", NEW b,
         b = RestoreReady(Retire(a, {q}), canRestore, live)
  PROVE  /\ b \in AdmissionRecord /\ OnePending(b) /\ Evolves(a, b, {})
         /\ canRestore => Served(b)
         /\ b.kind[q] = "retired"
<1> DEFINE c == Retire(a, {q})
<1>1. /\ c \in AdmissionRecord
      /\ \A p \in Requests : /\ c.kind[p] = IF p \in {q} THEN "retired" ELSE a.kind[p]
                             /\ c.suspensions[p] = IF p \in {q} THEN {} ELSE a.suspensions[p]
  BY RetireFacts
<1> HIDE DEF c
<1>2. OnePending(c)
  BY <1>1 DEF OnePending, Pending
<1>3. /\ b \in AdmissionRecord /\ OnePending(b) /\ (canRestore => Served(b)) /\ Restored(c, b)
  BY <1>1, <1>2, RestoreReadyFacts DEF c
<1>4. Evolves(a, b, {}) /\ b.kind[q] = "retired"
  BY <1>1, <1>3 DEF Evolves, Restored
<1> QED BY <1>3, <1>4

\* The retire of an attempt: the claim is over, whoever retired it.
LEMMA RetireClaimFacts ==
  ASSUME NEW a \in AdmissionRecord, OnePending(a), NEW canRestore \in BOOLEAN, NEW live,
         NEW q \in Requests, NEW b, b = RetireClaim(a, q, canRestore, live)
  PROVE  /\ b \in AdmissionRecord /\ OnePending(b) /\ Evolves(a, b, {})
         /\ canRestore /\ Served(a) => Served(b)
         /\ a.kind[q] \in {"claimed", "retired"} => b.kind[q] = "retired"
<1>1. CASE a.kind[q] # "claimed"
  <2>1. b = a
    BY <1>1 DEF RetireClaim
  <2> QED BY <1>1, <2>1 DEF Evolves, Restored
<1>2. CASE a.kind[q] = "claimed"
  <2>1. b = RestoreReady(Retire(a, {q}), canRestore, live)
    BY <1>2 DEF RetireClaim
  <2> QED BY <1>2, <2>1, RetireRestoreFacts
<1> QED BY <1>1, <1>2

\* unavailable
LEMMA UnavailableFacts ==
  ASSUME NEW a \in AdmissionRecord, OnePending(a), NEW canRestore \in BOOLEAN, NEW live,
         NEW q \in Requests, a.kind[q] # "unopened", NEW b, b = Unavailable(a, q, canRestore, live)
  PROVE  /\ b \in AdmissionRecord /\ OnePending(b) /\ Evolves(a, b, {})
         /\ canRestore => Served(b)
BY RetireRestoreFacts DEF Unavailable

\* withdraw: every entry is retired.
LEMMA WithdrawFacts ==
  ASSUME NEW a \in AdmissionRecord, NEW b, b = Withdraw(a)
  PROVE  /\ b \in AdmissionRecord /\ OnePending(b) /\ Served(b) /\ Evolves(a, b, {})
         /\ \A q \in Requests :
              a.kind[q] # "unopened" => b.kind[q] = "retired" /\ b.suspensions[q] = {}
<1>1. /\ b \in AdmissionRecord
      /\ \A q \in Requests :
           /\ b.kind[q] = IF q \in Opened(a) THEN "retired" ELSE a.kind[q]
           /\ b.suspensions[q] = IF q \in Opened(a) THEN {} ELSE a.suspensions[q]
  BY RetireFacts DEF Withdraw
<1>2. \A q \in Requests : q \in Opened(a) <=> a.kind[q] # "unopened"
  BY DEF Opened
<1>3. Pending(b) = {} /\ Ready(b) = {}
  BY <1>1, <1>2 DEF Pending, Ready
<1>4. Evolves(a, b, {})
  BY <1>1, <1>2 DEF Evolves, Restored
<1> QED BY <1>1, <1>2, <1>3, <1>4 DEF OnePending, Served

\* suspend: every entry that could be presented is held back by the interruption.
LEMMA SuspendFacts ==
  ASSUME NEW a \in AdmissionRecord, NEW i \in Interruptions, NEW b, b = Suspend(a, i)
  PROVE  /\ b \in AdmissionRecord /\ OnePending(b) /\ Served(b)
         /\ \A q \in Requests :
              /\ b.kind[q] = IF a.kind[q] = "pending" THEN "withheld" ELSE a.kind[q]
              /\ b.suspensions[q] \subseteq a.suspensions[q] \cup {i}
              /\ a.kind[q] = "unopened" => b.suspensions[q] = a.suspensions[q]
<1> DEFINE kinds == [q \in Requests |-> IF a.kind[q] = "pending" THEN "withheld" ELSE a.kind[q]]
           held == [q \in Requests |->
                      IF a.kind[q] \in {"pending", "withheld", "claimed"}
                      THEN a.suspensions[q] \cup {i} ELSE a.suspensions[q]]
<1>1. kinds \in [Requests -> Kinds]
  BY AdmissionTypes DEF Kinds
<1>2. held \in [Requests -> SUBSET Interruptions]
  BY AdmissionTypes
<1>3. b = [a EXCEPT !.kind = kinds, !.suspensions = held]
  BY DEF Suspend
<1>4. /\ \A q \in Requests : kinds[q] = IF a.kind[q] = "pending" THEN "withheld" ELSE a.kind[q]
      /\ \A q \in Requests : held[q] = IF a.kind[q] \in {"pending", "withheld", "claimed"}
                                       THEN a.suspensions[q] \cup {i} ELSE a.suspensions[q]
  OBVIOUS
<1> HIDE DEF kinds, held
<1>5. b \in AdmissionRecord /\ b.kind = kinds /\ b.suspensions = held
  BY <1>1, <1>2, <1>3 DEF AdmissionRecord
<1>6. Pending(b) = {} /\ Ready(b) = {}
  BY <1>4, <1>5 DEF Pending, Ready
<1> QED BY <1>4, <1>5, <1>6 DEF OnePending, Served

\* The restore of a suspension: the interruption holds nothing back any more.
LEMMA ResumeFacts ==
  ASSUME NEW a \in AdmissionRecord, OnePending(a), NEW canRestore \in BOOLEAN, NEW live,
         NEW i, NEW b, b = Resume(a, i, canRestore, live)
  PROVE  /\ b \in AdmissionRecord /\ OnePending(b) /\ Evolves(a, b, {})
         /\ canRestore => Served(b)
         /\ \A q \in Requests : i \notin b.suspensions[q]
<1> DEFINE held == [q \in Requests |-> a.suspensions[q] \ {i}]
           c == [a EXCEPT !.suspensions = held]
<1>1. held \in [Requests -> SUBSET Interruptions] /\ \A q \in Requests : held[q] = a.suspensions[q] \ {i}
  BY AdmissionTypes
<1>2. b = RestoreReady(c, canRestore, live)
  BY DEF Resume
<1> HIDE DEF held
<1>3. c \in AdmissionRecord /\ c.kind = a.kind /\ c.suspensions = held
  BY <1>1 DEF AdmissionRecord
<1> HIDE DEF c
<1>4. OnePending(c)
  BY <1>3 DEF OnePending, Pending
<1>5. /\ b \in AdmissionRecord /\ OnePending(b) /\ (canRestore => Served(b)) /\ Restored(c, b)
  BY <1>2, <1>3, <1>4, RestoreReadyFacts
<1>6. Evolves(a, b, {}) /\ \A q \in Requests : i \notin b.suspensions[q]
  BY <1>1, <1>3, <1>5 DEF Evolves, Restored
<1> QED BY <1>5, <1>6

\* open, of a fresh request when none is presented.
LEMMA OpenRequestFacts ==
  ASSUME NEW a \in AdmissionRecord, Pending(a) = {}, NEW q \in Requests,
         NEW b, b = OpenRequest(a, q)
  PROVE  /\ b \in AdmissionRecord /\ OnePending(b) /\ Served(b)
         /\ b.suspensions = a.suspensions /\ b.kind[q] = "pending"
         /\ \A p \in Requests : p # q => b.kind[p] = a.kind[p]
<1>1. "pending" \in Kinds
  BY DEF Kinds
<1>2. /\ b \in AdmissionRecord /\ b.suspensions = a.suspensions /\ b.kind[q] = "pending"
      /\ \A p \in Requests : p # q => b.kind[p] = a.kind[p]
  BY <1>1, KindReplaced DEF OpenRequest
<1>3. Pending(b) = {q}
  BY <1>2 DEF Pending
<1> QED BY <1>2, <1>3 DEF OnePending, Served

===============================================================================
