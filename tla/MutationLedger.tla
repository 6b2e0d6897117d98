--------------------------- MODULE MutationLedger ---------------------------
(***************************************************************************)
(* What the ChangeSet engine promises of every change set, and the         *)
(* publication controller of every key, with processes, locks, files and   *)
(* reads left out: each action is attempted once, each remote write is     *)
(* sent once and only while its attempt is unsettled, and a verdict rests  *)
(* on an attempt and is never taken back.                                  *)
(***************************************************************************)
EXTENDS Naturals

CONSTANT ChangeSets

VARIABLES
  attempts,  \* the actions each change set has durably attempted
  sent,      \* how often each kind of remote write was sent
  verdict    \* what the journal says came of it

vars == <<attempts, sent, verdict>>

Actions == {"apply", "rollback"}
Purposes == Actions \cup {"recovery"}

Init ==
  /\ attempts = [c \in ChangeSets |-> {}]
  /\ sent = [c \in ChangeSets |-> [a \in Purposes |-> 0]]
  /\ verdict = [c \in ChangeSets |-> "open"]

Attempt(c, a) ==
  /\ a \notin attempts[c]
  /\ verdict[c] # "undone" /\ (a = "apply" => verdict[c] = "open")
  /\ attempts' = [attempts EXCEPT ![c] = @ \cup {a}]
  /\ UNCHANGED <<sent, verdict>>

SendWrite(c, a) ==
  /\ sent[c][a] = 0
  /\ \/ a = "apply" /\ a \in attempts[c] /\ verdict[c] = "open"
     \/ a = "recovery" /\ sent[c]["apply"] = 1 /\ verdict[c] = "open"
     \/ a = "rollback" /\ a \in attempts[c]
        /\ verdict[c] \in {"applied", "failed"}
  /\ sent' = [sent EXCEPT ![c][a] = 1]
  /\ UNCHANGED <<attempts, verdict>>

\* A success needs its attempt; a failure of what was applied can only be
\* the failure of its rollback.
Justified(c, v) ==
  \/ v = "applied" /\ verdict[c] = "open" /\ "apply" \in attempts[c]
  \/ v = "undone" /\ verdict[c] # "undone" /\ "rollback" \in attempts[c]
  \/ v = "failed" /\ verdict[c] = "open" /\ attempts[c] # {}
  \/ v = "failed" /\ verdict[c] = "applied" /\ "rollback" \in attempts[c]

Settle(c, v) ==
  /\ Justified(c, v)
  /\ verdict' = [verdict EXCEPT ![c] = v]
  /\ UNCHANGED <<attempts, sent>>

Next ==
  \E c \in ChangeSets :
    \/ \E a \in Actions : Attempt(c, a)
    \/ \E a \in Purposes : SendWrite(c, a)
    \/ \E v \in {"applied", "undone", "failed"} : Settle(c, v)

Spec == Init /\ [][Next]_vars
============================================================================
