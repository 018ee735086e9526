----------------------------- MODULE PostingPromise -----------------------------
(***************************************************************************)
(* What the integration hub promises about the postings of a trade,        *)
(* whoever works on them and whatever is undone: the jobs of a trade come  *)
(* together with its decision, none of them disappears, and nothing is     *)
(* called resolved or committed that has no posting and no person behind   *)
(* it.  IntegrationHub implements it (IntegrationHub!KeepsPromise).        *)
(***************************************************************************)
CONSTANTS
    Txns,     \* trade transactions
    Targets   \* systems a decided trade is posted to

VARIABLES
    stage,    \* trade -> "undecided", "decided" or "committed"
    posting,  \* job -> "absent", "open" or "resolved"
    behind    \* jobs with an accepted posting or a person's confirmation

promised == <<stage, posting, behind>>

Jobs == Txns \X Targets
JobsOf(t) == {t} \X Targets

Init ==
    /\ stage = [t \in Txns |-> "undecided"]
    /\ posting = [j \in Jobs |-> "absent"]
    /\ behind = {}

\* Only what is backed is claimed.
Honest ==
    /\ \A j \in Jobs : posting[j] = "resolved" => j \in behind
    /\ \A t \in Txns : stage[t] = "committed" => JobsOf(t) \subseteq behind

Accept(j) ==
    /\ behind' = behind \cup {j}
    /\ UNCHANGED <<stage, posting>>

\* The decision brings the jobs that are missing, and may settle some.
Decide(t) ==
    /\ stage[t] = "undecided"
    /\ stage'[t] # "undecided"
    /\ \A u \in Txns \ {t} : stage'[u] = stage[u]
    /\ \A j \in JobsOf(t) : posting'[j] \in {"open", "resolved"}
    /\ \A j \in Jobs \ JobsOf(t) : posting'[j] = posting[j]
    /\ UNCHANGED behind
    /\ Honest'

\* A worker settles jobs that are there, and commits trades; a person at work
\* stands behind what he confirms.
Work ==
    /\ \A j \in Jobs : posting[j] = "absent" <=> posting'[j] = "absent"
    /\ \A t \in Txns : stage'[t] \in {stage[t], "committed"}
    /\ behind \subseteq behind'
    /\ Honest'

\* A decided trade goes back to the desk, with its jobs.
Reopen(t) ==
    /\ stage[t] # "undecided"
    /\ stage' = [stage EXCEPT ![t] = "undecided"]
    /\ UNCHANGED <<posting, behind>>

Next ==
    \/ \E j \in Jobs : Accept(j)
    \/ \E t \in Txns : Decide(t) \/ Reopen(t)
    \/ Work

Spec == Init /\ [][Next]_promised
=============================================================================
