----------------------------- MODULE SyncLedger ------------------------------
(***************************************************************************)
(* What the DC-02 ingester promises about the semantic store, with no      *)
(* process, lock, journal or crash in sight: outside a declared set of     *)
(* doubtful documents the store holds exactly the last checkpoint, only    *)
(* doubtful documents ever change, and a document leaves the set only when *)
(* a checkpoint records what the store then holds.                         *)
(***************************************************************************)
CONSTANTS
    Tags,       \* documents of the store
    Values,     \* what a document may hold
    Missing     \* the document is not in the store

VARIABLES
    synced,     \* tag -> what the last checkpoint says the store holds
    content,    \* tag -> what the store holds
    doubt       \* tags whose content may differ from the checkpoint

vars == <<synced, content, doubt>>

Init ==
    /\ synced = [t \in Tags |-> Missing]
    /\ content = [t \in Tags |-> Missing]
    /\ doubt = {}

\* Documents are declared doubtful before they are touched.
Declare(S) ==
    /\ doubt' = doubt \cup S
    /\ UNCHANGED <<synced, content>>

\* Doubtful documents change, to anything.
Touch ==
    /\ content' \in [Tags -> Values]
    /\ \A t \in Tags \ doubt : content'[t] = content[t]
    /\ UNCHANGED <<synced, doubt>>

\* A checkpoint settles every doubt at once.
Settle ==
    /\ synced' = content
    /\ doubt' = {}
    /\ UNCHANGED content

Next == (\E S \in SUBSET Tags : Declare(S)) \/ Touch \/ Settle

Spec == Init /\ [][Next]_vars
=============================================================================
