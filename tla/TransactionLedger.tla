-------------------------- MODULE TransactionLedger --------------------------
(***************************************************************************)
(* What the executor promises about its protected plans, with no process,  *)
(* no file and no crash in sight: evidence first, then at most one change, *)
(* then a final record, and never back.  A transaction may stop at any     *)
(* stage for ever; a stage only moves forward.                             *)
(***************************************************************************)
CONSTANT Tokens     \* plan tokens, each the identity of one transaction

VARIABLE stage      \* token -> how far its transaction has come

Stages == {"open", "prepared", "applied", "final"}

Init == stage = [t \in Tokens |-> "open"]

Move(t, from, to) ==
    /\ stage[t] = from
    /\ stage' = [stage EXCEPT ![t] = to]

\* Backup, manifest and receipt are durable.
Prepare(t) == Move(t, "open", "prepared")

\* The protected step changes a document, for the first and only time.  A
\* crash closes every marked handle, and so may apply several plans at once.
Apply(S) ==
    /\ \A t \in S : stage[t] = "prepared"
    /\ stage' = [t \in Tokens |-> IF t \in S THEN "applied" ELSE stage[t]]

\* The record says committed.
Finish(t) == Move(t, "applied", "final")

Next == \/ \E t \in Tokens : Prepare(t) \/ Finish(t)
        \/ \E S \in SUBSET Tokens : Apply(S)

Spec == Init /\ [][Next]_stage
=============================================================================
