---------------------------- MODULE DeliveryContract ----------------------------
(***************************************************************************)
(* What managed delegation promises about the completion of a run: the     *)
(* parent's inbox takes it at most once, and the verdict the store keeps   *)
(* of it agrees with the inbox.  Nothing here knows of claims, attempts,   *)
(* callbacks, deadlines or owners; DelegationDelivery implements it.       *)
(***************************************************************************)
CONSTANT Notifications

VARIABLES
  verdict,   \* [Notifications -> what the store says of the delivery]
  held       \* the completions the inbox holds

contractVars == <<verdict, held>>

ContractInit ==
  /\ verdict = [n \in Notifications |-> "none"]
  /\ held = {}

\* The run settled: its completion is owed to the parent.
Owe(n) ==
  /\ verdict[n] = "none"
  /\ verdict' = [verdict EXCEPT ![n] = "owed"]
  /\ UNCHANGED held

\* The inbox takes a completion once, and only while it is owed.
Take(n) ==
  /\ verdict[n] = "owed" /\ n \notin held
  /\ held' = held \cup {n}
  /\ UNCHANGED verdict

\* Accepted and expired are statements about the inbox; a rejection is about
\* the authority of the parent and may follow an acceptance nobody saw.
Conclude(n, result) ==
  /\ verdict[n] = "owed"
  /\ result = "accepted" => n \in held
  /\ result = "expired" => n \notin held
  /\ verdict' = [verdict EXCEPT ![n] = result]
  /\ UNCHANGED held

ContractNext ==
  \E n \in Notifications :
    \/ Owe(n)
    \/ Take(n)
    \/ \E result \in {"accepted", "rejected", "expired"} : Conclude(n, result)

ContractSpec == ContractInit /\ [][ContractNext]_contractVars

================================================================================
