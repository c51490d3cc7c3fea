---------------------------- MODULE CampaignSetup ----------------------------
(***************************************************************************)
(* What the Phase 5 campaign stands on, and the gates that put it there:   *)
(*                                                                         *)
(*   J  creates the recovery root and closes its access list               *)
(*   K  appends the root to the profile's .env                             *)
(*   L  starts the gateway and looks whether it read that .env             *)
(*   O  replaces the plugin by the one with the guarded apply              *)
(*   W  replaces it by the one that can also preview a delete              *)
(*                                                                         *)
(* Each changes its one thing first, verifies the result with mutation     *)
(* disabled and takes the change back if anything fails; a gate that is    *)
(* killed takes nothing back.  An install removes the old plugin before it *)
(* moves the new one in.                                                   *)
(*                                                                         *)
(* What a gate sees of the recovery inventory and the documents is a       *)
(* parameter here; module CanaryCampaign supplies it.                      *)
(***************************************************************************)

VARIABLES
    root,       \* the recovery root: "none", or who may write in it
    assigned,   \* .env names the recovery root
    plugin,     \* the installed plugin
    step,       \* gate -> how far its process is
    saved       \* W is under way and has backed up an .env with the root

setupVars == <<root, assigned, plugin, step, saved>>

Setups == {"J", "K", "L", "O", "W"}

SetupInit ==
    /\ root = "none"
    /\ assigned = FALSE
    /\ plugin = "placeholder"
    /\ step = [g \in Setups |-> "idle"]
    /\ saved = FALSE

Under == {g \in Setups : step[g] # "idle"}

\* The executor's own check of the root: a directory no broad group writes to.
RootUsable == root \in {"narrow", "closed"}

\* A verifier's view: the profile's .env is read and the root is usable.
RootsValid == assigned /\ RootUsable

\* The plugin gate g was written for is installed.
Installed(g) == plugin = IF g \in {"X", "Y"} THEN "deleting" ELSE "guarded"

Equipped(g) == RootsValid /\ Installed(g)

\* L, O and W verify over the running gateway and stop it in the end; after a
\* kill the operator stops it.  No script of the campaign starts meanwhile.
GatewayUp == \E g \in {"L", "O", "W"} : step[g] = "placed"

-----------------------------------------------------------------------------
(* The change.                                                             *)

At(g, from, to) == step[g] = from /\ step' = [step EXCEPT ![g] = to]

\* A new directory inherits its access list, which may be narrow already.
CreateRoot ==
    /\ At("J", "idle", "begun")
    /\ root = "none" /\ ~assigned /\ plugin = "placeholder"
    /\ root' \in {"broad", "narrow"}
    /\ UNCHANGED <<assigned, plugin, saved>>

CloseRoot ==
    /\ At("J", "begun", "placed")
    /\ root # "none"
    /\ root' = "closed"
    /\ UNCHANGED <<assigned, plugin, saved>>

AppendRoot(empty) ==
    /\ At("K", "idle", "placed")
    /\ RootUsable /\ ~assigned /\ plugin = "placeholder" /\ empty
    /\ assigned' = TRUE
    /\ UNCHANGED <<root, plugin, saved>>

StartGateway(empty) ==
    /\ At("L", "idle", "placed")
    /\ root # "none" /\ assigned /\ plugin = "placeholder" /\ empty
    /\ UNCHANGED <<root, assigned, plugin, saved>>

\* The qualified source is staged beside the plugin; then the plugin goes.
RemovePlugin(g, fits) ==
    /\ At(g, "idle", "begun")
    /\ root # "none" /\ fits
    /\ g = "O" => assigned /\ plugin = "placeholder"
    /\ g = "W" => plugin = "guarded"
    /\ plugin' = "gone"
    /\ saved' = IF g = "W" THEN assigned ELSE saved
    /\ UNCHANGED <<root, assigned>>

PlacePlugin(g) ==
    /\ At(g, "begun", "placed")
    /\ plugin = "gone"
    /\ plugin' = IF g = "O" THEN "guarded" ELSE "deleting"
    /\ UNCHANGED <<root, assigned, saved>>

-----------------------------------------------------------------------------
(* The verification with mutation disabled, and PASS.                      *)

Passes(g) == At(g, "placed", "idle") /\ UNCHANGED <<root, assigned, plugin, saved>>

VerifyRoot(empty) ==
    /\ Passes("J")
    /\ RootUsable /\ ~assigned /\ plugin = "placeholder" /\ empty

VerifyAppend(empty) ==
    /\ Passes("K")
    /\ RootUsable /\ assigned /\ plugin = "placeholder" /\ empty

VerifyIngestion(empty) ==
    /\ Passes("L")
    /\ RootsValid /\ plugin = "placeholder" /\ empty

\* Apply must refuse before it asks anybody, and the root still be empty.
VerifyGuarded(empty) ==
    /\ Passes("O")
    /\ RootsValid /\ plugin = "guarded" /\ empty

\* The same with a delete preview, over exactly the records of Q, R, T and U.
VerifyDeleting(fits) ==
    /\ At("W", "placed", "idle")
    /\ assigned = saved /\ RootsValid /\ plugin = "deleting" /\ fits
    /\ saved' = FALSE
    /\ UNCHANGED <<root, assigned, plugin>>

-----------------------------------------------------------------------------
(* Failure.                                                                *)

\* J removes the directory it created if that is still empty.
UndoRoot(empty) ==
    /\ step["J"] # "idle" /\ step' = [step EXCEPT !["J"] = "idle"]
    /\ root' = IF empty THEN "none" ELSE root
    /\ UNCHANGED <<assigned, plugin, saved>>

\* K puts the .env of before back.
UndoAppend ==
    /\ At("K", "placed", "idle")
    /\ assigned' = FALSE
    /\ UNCHANGED <<root, plugin, saved>>

\* O and W put plugin and .env of before back; O's names the root.
UndoInstall(g) ==
    /\ step[g] # "idle" /\ step' = [step EXCEPT ![g] = "idle"]
    /\ plugin' = IF g = "O" THEN "placeholder" ELSE "guarded"
    /\ assigned' = (g = "O" \/ saved)
    /\ saved' = (saved /\ g = "O")
    /\ UNCHANGED root

\* The process is killed.  L stops the gateway and ends the same way.
Killed(g) ==
    /\ step[g] # "idle" /\ step' = [step EXCEPT ![g] = "idle"]
    /\ saved' = (saved /\ g # "W")
    /\ UNCHANGED <<root, assigned, plugin>>

\* A gate starts: the root is empty, the four records W expects are there.
SetupStart(empty, four) ==
    /\ ~GatewayUp
    /\ \/ CreateRoot \/ AppendRoot(empty) \/ StartGateway(empty)
       \/ RemovePlugin("O", empty) \/ RemovePlugin("W", four)

\* A gate goes on: W finds its records final and classified as expected.
SetupStep(empty, left) ==
    \/ CloseRoot \/ VerifyRoot(empty) \/ UndoRoot(empty)
    \/ VerifyAppend(empty) \/ UndoAppend
    \/ VerifyIngestion(empty)
    \/ \E g \in {"O", "W"} : PlacePlugin(g) \/ UndoInstall(g)
    \/ VerifyGuarded(empty) \/ VerifyDeleting(left)
    \/ \E g \in Setups : Killed(g)
=============================================================================
