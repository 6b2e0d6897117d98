---------------------------- MODULE PinnedGrant ----------------------------
(***************************************************************************)
(* What the task authority promises its users, with clocks, browsers and   *)
(* requests left out: the grant stays the one grant it is for as long as   *)
(* anybody relies on it.                                                   *)
(***************************************************************************)

CONSTANTS
  Users,    \* who may rely on the grant
  Grants,   \* the grants there can be
  NoGrant

VARIABLES
  grant,    \* the grant in force, or NoGrant
  relying   \* the users in the middle of something it allowed

vars == <<grant, relying>>

Init == grant = NoGrant /\ relying = {}

Rely(u) ==
  /\ grant # NoGrant
  /\ relying' = relying \cup {u}
  /\ UNCHANGED grant

Leave(u) ==
  /\ relying' = relying \ {u}
  /\ UNCHANGED grant

Change ==
  /\ relying = {}
  /\ grant' \in Grants \cup {NoGrant}
  /\ UNCHANGED relying

Next == Change \/ \E u \in Users : Rely(u) \/ Leave(u)

Spec == Init /\ [][Next]_vars
============================================================================
