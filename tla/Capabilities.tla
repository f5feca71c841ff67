---------------------------- MODULE Capabilities ----------------------------
(***************************************************************************)
(* Which capabilities the server assembles (capabilities.rs).  The         *)
(* deployment file and environment switches give every capability a        *)
(* policy; the user's choices, kept in a state file with a revision, apply *)
(* only where the policy lets them, and only from the next start on.       *)
(***************************************************************************)
EXTENDS Naturals

CONSTANTS Caps,        \* capability ids
          Fixed,       \* the base tools
          Compiled,    \* what this build contains
          Defaults,    \* DeploymentFile::default(): a policy per capability
          Pages,       \* open settings pages
          MaxChoices, MaxBoots

VARIABLES policies,    \* what the running server was deployed with
          up,          \* is the server running
          active,      \* the capabilities it assembled
          saved,       \* the state file
          state,       \* its copy in memory
          saving,      \* the page whose replaced file is not yet adopted in memory, if any
          pages,       \* the revision each page was shown
          told,        \* per capability, the choice last confirmed to a user
          boots

capabilityVars == <<policies, up, active, saved, state, saving, pages, told, boots>>

Policy == [enabled : BOOLEAN, configurable : BOOLEAN]
Unset == "unset"
Nobody == "nobody"
NoChoices == [revision |-> 0, enabled |-> [c \in Caps |-> Unset]]
LockedOff == [enabled |-> FALSE, configurable |-> FALSE]

Init ==
  /\ policies = Defaults
  /\ up = FALSE
  /\ active = {}
  /\ saved = NoChoices
  /\ state = NoChoices
  /\ saving = Nobody
  /\ pages = [p \in Pages |-> 0]
  /\ told = [c \in Caps |-> Unset]
  /\ boots = 0

(* read_state and write_state: the file is replaced by a rename. *)
ReadState == saved
WriteState(next) == saved' = next

\* Mutant: a choice can switch a capability off, never on.
DesiredOffOnly(c, policy, choices) ==
  policy.enabled /\ (policy.configurable => choices.enabled[c] # "off")

(* desired(): the user's choice counts where the deployment allows one.    *)
Desired(c, policy, choices) ==
  IF policy.configurable /\ choices.enabled[c] # Unset
  THEN choices.enabled[c] = "on"
  ELSE policy.enabled

(* CapabilityManager::open on what from_environment read: an AGENT_X=0     *)
(* switch overrides the file, the file overrides the defaults.  A start    *)
(* that would unfix a base tool or enable what was not compiled fails.     *)
Boot(file, off) ==
  LET deployed == [c \in Caps |->
        CASE c \in off -> LockedOff
          [] c \in DOMAIN file -> file[c]
          [] OTHER -> Defaults[c]]
  IN /\ ~up /\ boots < MaxBoots
     /\ \A c \in Fixed : deployed[c].enabled /\ ~deployed[c].configurable
     /\ \A c \in Caps : deployed[c].enabled => c \in Compiled
     /\ boots' = boots + 1
     /\ up' = TRUE
     /\ policies' = deployed
     /\ state' = ReadState
     /\ active' = {c \in Compiled : Desired(c, deployed[c], ReadState)}
     /\ UNCHANGED <<saved, saving, pages, told>>

(* The server ends, possibly between replacing the file and adopting it.   *)
Crash ==
  /\ up
  /\ up' = FALSE
  /\ active' = {}
  /\ saving' = Nobody
  /\ UNCHANGED <<policies, saved, state, pages, told, boots>>

(* GET /api/capabilities *)
View(p) ==
  /\ up /\ saving = Nobody
  /\ pages' = [pages EXCEPT ![p] = state.revision]
  /\ UNCHANGED <<policies, up, active, saved, state, saving, told, boots>>

(* The refusals of set_enabled. *)
Savable(p, c) ==
  /\ c \in Compiled
  /\ policies[c].configurable
  /\ pages[p] = state.revision

(* set_enabled up to the atomic replacement of the file, under the lock.   *)
(* A failed write changes nothing.  The choice is not confirmed yet.       *)
SetEnabled(p, c, choice) ==
  /\ up /\ saving = Nobody
  /\ Savable(p, c)
  /\ state.revision < MaxChoices
  /\ WriteState([revision |-> state.revision + 1,
                 enabled |-> [state.enabled EXCEPT ![c] = choice]])
  /\ saving' = p
  /\ told' = [told EXCEPT ![c] = Unset]
  /\ UNCHANGED <<policies, up, active, state, pages, boots>>

(* ... and the rest: the copy in memory follows and the page is answered.  *)
Adopt(p) ==
  /\ up /\ saving = p
  /\ state' = saved
  /\ saving' = Nobody
  /\ pages' = [pages EXCEPT ![p] = saved.revision]
  /\ told' = [c \in Caps |->
       IF saved.enabled[c] # state.enabled[c] THEN saved.enabled[c] ELSE told[c]]
  /\ UNCHANGED <<policies, up, active, saved, boots>>

Next ==
  \/ \E file \in UNION {[cs -> Policy] : cs \in SUBSET Caps} :
       \E off \in SUBSET (Caps \ Fixed) : Boot(file, off)
  \/ Crash
  \/ \E p \in Pages :
       View(p) \/ Adopt(p) \/ \E c \in Caps, choice \in {"on", "off"} : SetEnabled(p, c, choice)

Spec == Init /\ [][Next]_capabilityVars

-----------------------------------------------------------------------------
(* A locked capability follows the deployment whatever was chosen before   *)
(* it was locked, nothing runs that was not compiled, and memory and file  *)
(* hold the choices that were confirmed.                                   *)
AsDeployed ==
  up => \A c \in Caps :
    /\ c \in active => c \in Compiled
    /\ ~policies[c].configurable => (c \in active <=> policies[c].enabled)
    /\ saving = Nobody /\ told[c] # Unset => state.enabled[c] = told[c] /\ saved.enabled[c] = told[c]

(* Where the user decides, a start takes the choice that was last          *)
(* confirmed, however many changes, failures and starts lie in between.    *)
ChoiceTaken ==
  [][~up /\ up' =>
       \A c \in Compiled :
         policies'[c].configurable /\ told[c] # Unset => (c \in active' <=> told[c] = "on")]_capabilityVars

(* What runs is what the deployment allows and the user was last told.     *)
LockedByDeployment == []AsDeployed /\ ChoiceTaken
=============================================================================
