------------------------------ MODULE Registry ------------------------------
(***************************************************************************)
(* The profile registry (profiles/models.py, runtime.py): the profiles the *)
(* server was started with, and how a tool finds the one it was asked for. *)
(* Names and aliases are what they are folded to.                          *)
(***************************************************************************)
EXTENDS Naturals, Sequences

CONSTANT Profiles   \* profiles.yaml, in file order; empty if it is missing.
                    \* A grid profile also has a valueType.

Layouts == {"table", "dated-block", "grid"}

Tokens(profile) == {profile.name} \cup profile.aliases

\* Two profiles that claim one token stop the server at boot.
ASSUME RegistryAssumption ==
  /\ \A i \in DOMAIN Profiles : Profiles[i].layout \in Layouts
  /\ \A i, j \in DOMAIN Profiles :
       Tokens(Profiles[i]) \cap Tokens(Profiles[j]) # {} => i = j

\* The profiles a name or alias finds: at most one.
Resolve(token) == {i \in DOMAIN Profiles : token \in Tokens(Profiles[i])}

\* The token names a profile, and one of this layout.
HasLayout(token, layout) ==
  \E i \in Resolve(token) : Profiles[i].layout = layout
=============================================================================
