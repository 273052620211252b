---------------------------- MODULE DomainSwitch ----------------------------
(***************************************************************************)
(* What a change of a site's host name promises to its visitors and to the *)
(* panel, without saying how: at every moment one of the two names is      *)
(* served or none is, what visitors wrote stays written, the outcome is    *)
(* decided once and never revised, and the panel is told the outcome only  *)
(* when it is what visitors get, which then stays so.                      *)
(***************************************************************************)
EXTENDS Naturals

CONSTANTS Old, New,  \* the two host names, which differ
          None,      \* neither of them
          MaxWrites  \* bound: writes of visitors

VARIABLES serving,   \* the name under which visitors reach the site
          writes,    \* the writes of visitors its database holds
          decision,  \* the outcome, once nothing can change it any more
          told       \* what the panel believes to be the outcome

vars == <<serving, writes, decision, told>>

Init == serving = Old /\ writes = 0 /\ decision = None /\ told = None

Visit ==
    /\ serving # None /\ writes < MaxWrites
    /\ writes' = writes + 1
    /\ UNCHANGED <<serving, decision, told>>

\* Traffic is paused, or let in again under the old name, which may happen
\* several times until the panel knows.
Pause ==
    /\ decision # New /\ told = None
    /\ serving' \in {Old, None}
    /\ UNCHANGED <<writes, decision, told>>

Decide ==
    /\ decision = None /\ told = None /\ decision' \in {Old, New}
    /\ decision' = New => serving = None
    /\ UNCHANGED <<serving, writes, told>>

Open ==
    /\ decision = New /\ serving' = New
    /\ UNCHANGED <<writes, decision, told>>

\* A change refused before it started has left the old name in place.
Tell ==
    /\ told = None
    /\ serving # None /\ decision \in {None, serving}
    /\ told' = serving
    /\ UNCHANGED <<serving, writes, decision>>

Next == Visit \/ Pause \/ Decide \/ Open \/ Tell

Spec == Init /\ [][Next]_vars
=============================================================================
