-------------------------- MODULE ActionProjection --------------------------
(***************************************************************************)
(* The bridge's action projection: what the browser is told about a        *)
(* protected action, judged from the tool messages Hermes has of it.       *)
(*                                                                         *)
(* A tool message carries the JSON the plugin returned.  On its way        *)
(* through transports, stores and older producers it can lose fields, lose *)
(* its structure, or lose the name of its tool; what is left is never      *)
(* altered.  Field values are "true", "false", or "absent", which stands   *)
(* for whatever is no Boolean.                                             *)
(***************************************************************************)
EXTENDS Naturals, Sequences

\* What really became of the protected action of a turn.
Outcomes == {"refused", "stale", "stopped", "stale_stopped", "broken",
             "committed"}

\* A recovery record that is not final is left behind.
Unresolved(o) == o \in {"stopped", "stale_stopped", "broken"}

\* The document was changed, or may have been.
Changed(o) == o \in {"broken", "committed"}

Flag(b) == IF b THEN "true" ELSE "false"

\* The result the production executor returns for each outcome.
Result(o) ==
    [tool |-> "apply", structured |-> TRUE,
     success |-> Flag(o = "committed"), mutation |-> Flag(Changed(o)),
     recovery |-> Flag(Unresolved(o)),
     error |-> CASE o = "refused" -> "refusal"
                 [] o \in {"stale", "stale_stopped"} -> "stale"
                 [] o \in {"stopped", "broken"} -> "other"
                 [] o = "committed" -> "none",
     complete |-> o = "committed"]

\* What can be left of a message.
Remains(m) ==
    {n \in [tool : {m.tool, "unknown"}, structured : {TRUE, FALSE},
            success : {m.success, "absent"}, mutation : {m.mutation, "absent"},
            recovery : {m.recovery, "absent"}, error : {m.error, "none"},
            complete : {m.complete, FALSE}] : n.structured => m.structured}

Preview == [tool |-> "preview", structured |-> TRUE, success |-> "true",
            mutation |-> "false", recovery |-> "absent", error |-> "none",
            complete |-> TRUE]

-----------------------------------------------------------------------------
\* Mutant: a field that is missing counts as false.
UnharmedUnlessSaid(m) == m.mutation # "true" /\ m.recovery # "true"

\* The result says itself that nothing was changed and nothing is left open.
Unharmed(m) == m.mutation = "false" /\ m.recovery = "false"

ClaimsChange(m) == m.success = "true" /\ m.mutation = "true"

\* The success evidence the projection demands, all of it.
Proven(m) == m.recovery = "false" /\ m.error = "none" /\ m.complete

ApplyState(m) ==
    IF m.recovery = "true" THEN "failed"
    ELSE IF ClaimsChange(m)
         THEN IF Proven(m) THEN "succeeded" ELSE "unknown"
    ELSE IF Unharmed(m) /\ m.error = "stale" THEN "stale_plan"
    ELSE IF Unharmed(m) /\ m.error = "refusal" THEN "refused"
    ELSE IF m.success = "false" \/ m.error # "none" THEN "failed"
    ELSE "unknown"

PreviewClaim(m) ==
    /\ m.success = "true" /\ m.mutation = "false"
    /\ m.error = "none" /\ m.recovery \in {"false", "absent"}

\* A preview read back from the session is history: no plan can be acted on.
PreviewState(m, hydrated) ==
    IF PreviewClaim(m) /\ m.complete
    THEN IF hydrated THEN "unavailable" ELSE "preview_ready"
    ELSE IF m.success = "false" \/ m.error # "none" THEN "failed"
    ELSE "unavailable"

ToolState(m, hydrated) ==
    IF ~m.structured THEN "unknown"
    ELSE IF m.tool = "preview" THEN PreviewState(m, hydrated)
    ELSE ApplyState(m)

\* Messages of other tools, or of none that can be told, are no evidence.
Evidence(messages) ==
    SelectSeq(messages, LAMBDA m : m.tool \in {"apply", "preview"})

-----------------------------------------------------------------------------
\* An approval event is shown as one only when everything a human needs to
\* decide is there exactly.
ApprovalState(request) ==
    IF request.run /\ request.command /\ request.description /\ request.choices
    THEN "approval_requested" ELSE "unavailable"

\* The answer to a decision counts when it is about this run, this choice,
\* and resolved something.
DecisionProjected(run, choice, answer) ==
    answer.run = run /\ answer.choice = choice /\ answer.resolved

DecisionState(choice) ==
    IF choice = "deny" THEN "approval_denied" ELSE "approval_accepted"
=============================================================================
