------------------------------ MODULE RunContract ------------------------------
(***************************************************************************)
(* What managed delegation promises about the runs of its tasks, to a      *)
(* parent that sees neither operations nor receipts nor owners: how far a  *)
(* run may have got, what its outcome tells, and that a task whose truth   *)
(* is lost does nothing more.  DelegationStore implements it.              *)
(***************************************************************************)
CONSTANTS Tasks, Runs, NoTask

VARIABLES
  work,      \* [Runs -> what is known of the run]
  retired    \* the tasks given up after their truth was lost

contractVars == <<work, retired>>

\* A run nothing has happened to.
Fresh(t, stage) == [task |-> t, stage |-> stage, canceled |-> FALSE, doubt |-> FALSE,
                    outcome |-> "none"]

ContractInit ==
  /\ work = [r \in Runs |-> Fresh(NoTask, "absent")]
  /\ retired = {}

Of(t) == {r \in Runs : work[r].task = t}

\* Nobody knows any more what the run has done.
Lost(r) == work[r].doubt \/ work[r].outcome = "recovery_required"

\* A task takes and starts work while everything it has done is known.
Usable(t) == t \notin retired /\ \A r \in Of(t) : ~Lost(r)

Ended(known, outcome) == [known EXCEPT !.stage = "settled", !.outcome = outcome]

\* A task has one run waiting to start at most.
Admit(t, r) ==
  /\ work[r].stage = "absent" /\ Usable(t)
  /\ \A s \in Of(t) : work[s].stage # "queued"
  /\ work' = [work EXCEPT ![r] = Fresh(t, "queued")]
  /\ UNCHANGED retired

\* It starts when everything before it has ended, and may then be seen by a provider.
Start(r) ==
  /\ work[r].stage = "queued" /\ Usable(work[r].task)
  /\ \A s \in Of(work[r].task) : s # r => work[s].stage = "settled"
  /\ work' = [work EXCEPT ![r].stage = "started"]
  /\ UNCHANGED retired

\* Its turn is handed to the provider, unless it was canceled by then.
Enter(r) ==
  /\ work[r].stage = "started" /\ ~work[r].canceled /\ Usable(work[r].task)
  /\ work' = [work EXCEPT ![r].stage = "entered"]
  /\ UNCHANGED retired

\* A cancellation ends what no provider has seen, at once and for certain.
Cancel(r) ==
  /\ work[r].stage \in {"queued", "started", "entered"}
  /\ work' = [work EXCEPT ![r] =
       IF @.stage = "queued"
         THEN Ended([@ EXCEPT !.canceled = TRUE], "not_dispatched")
         ELSE [@ EXCEPT !.canceled = TRUE]]
  /\ UNCHANGED retired

\* The effect of an input has become unknown: of a run that has had one, ended or not.
Lose(r) ==
  /\ work[r].stage \in {"started", "entered", "settled"}
  /\ work' = [work EXCEPT ![r].doubt = TRUE]
  /\ UNCHANGED retired

\* A run ends once.  Its outcome is the provider's only if the turn was handed over,
\* "not dispatched" only if nothing was, and nothing is claimed over a doubt.
Settle(r, outcome) ==
  /\ work[r].stage \in {"queued", "started", "entered"}
  /\ outcome \in {"succeeded", "provider_terminal"} => work[r].stage = "entered"
  /\ outcome = "not_dispatched" => work[r].stage = "queued"
  /\ work[r].doubt => outcome = "recovery_required"
  /\ work' = [work EXCEPT ![r] = Ended(@, outcome)]
  /\ UNCHANGED retired

\* Only a task whose truth is lost is given up, and only when nothing of it goes on.
Retire(t) ==
  /\ t \notin retired
  /\ \E r \in Of(t) : Lost(r)
  /\ \A r \in Of(t) : work[r].stage = "settled"
  /\ retired' = retired \cup {t}
  /\ UNCHANGED work

ContractNext ==
  \/ \E t \in Tasks, r \in Runs : Admit(t, r)
  \/ \E r \in Runs :
       \/ Start(r) \/ Enter(r) \/ Cancel(r) \/ Lose(r)
       \/ \E outcome \in {"succeeded", "failed", "not_dispatched", "provider_terminal",
                          "recovery_required"} : Settle(r, outcome)
  \/ \E t \in Tasks : Retire(t)

ContractSpec == ContractInit /\ [][ContractNext]_contractVars

================================================================================
