-------------------------- MODULE ExecutionLedger --------------------------
(***************************************************************************)
(* What the learning journal promises, with processes, locks, files and    *)
(* scans left out: a key is claimed once, an execution ends once, and      *)
(* while one is unresolved on a target - running, abandoned, or ended      *)
(* without a proven restore - nobody else claims the target.               *)
(***************************************************************************)
CONSTANTS Key, Target

VARIABLES
  claims,   \* [key, target] of every execution ever claimed
  outcomes  \* [key, state] of every execution that ended

vars == <<claims, outcomes>>

States == {"COMPLETED", "FAILED", "AMBIGUOUS"}
Safe == {"COMPLETED", "FAILED"}

Init == claims = {} /\ outcomes = {}

Resolved(k) == \E o \in outcomes : o.key = k /\ o.state \in Safe

Claim(k, t) ==
  /\ \A c \in claims : c.key # k
  /\ \A c \in claims : c.target = t => Resolved(c.key)
  /\ claims' = claims \cup {[key |-> k, target |-> t]}
  /\ UNCHANGED outcomes

Settle(k, s) ==
  /\ \E c \in claims : c.key = k
  /\ \A o \in outcomes : o.key # k
  /\ outcomes' = outcomes \cup {[key |-> k, state |-> s]}
  /\ UNCHANGED claims

Next ==
  \E k \in Key :
    \/ \E t \in Target : Claim(k, t)
    \/ \E s \in States : Settle(k, s)

Spec == Init /\ [][Next]_vars
============================================================================
