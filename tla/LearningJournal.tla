-------------------------- MODULE LearningJournal --------------------------
(***************************************************************************)
(* The journal of capability learning (learning/journal.ts): a directory   *)
(* of immutable entries and two directories of locks, shared by the        *)
(* processes of one machine.                                               *)
(*                                                                         *)
(* A process runs claim() and finish() without an await, so one process is *)
(* never interleaved with itself there; the steps below are its single     *)
(* file operations, between which other processes run and it may die.  A   *)
(* scan is one step: entries are only ever added, and one that is still    *)
(* being written cannot be parsed.  A call that cannot remove a lock       *)
(* leaves what a death before the removal leaves.                          *)
(***************************************************************************)
EXTENDS Naturals, FiniteSets

CONSTANTS
  Proc,
  Key,         \* idempotency keys
  Target,      \* exact targets
  Capability,
  Lineage,     \* task and grant a request comes with
  MaxEntries   \* files the journal directory may hold (10 000)

ASSUME LockAssumption == Proc \cap {"free", "stale"} = {}
ASSUME BoundAssumption == MaxEntries \in Nat

VARIABLES
  entries,     \* files under entries/
  keyLocks,    \* directories under locks/keys
  targetLocks, \* directories under locks/targets
  pc,          \* what each process is doing
  req,         \* request of its current call
  outcome      \* final state its current call writes

files == <<entries, keyLocks, targetLocks>>
journal == <<files, pc, req, outcome>>

Request ==
  [key : Key, target : Target, cap : Capability, lineage : Lineage]
Safe == {"COMPLETED", "FAILED"}
Final == Safe \cup {"AMBIGUOUS"}
States == {"IN_FLIGHT"} \cup Final

\* Sequence 0 is IN_FLIGHT, sequence 1 a final state.  Entries of a file
\* that was not written to its end, or says what no reader accepts, cannot
\* be read; the file's name still tells target, key and state.
Entry == [id : Request, state : States, readable : BOOLEAN]

\* A lock directory is held by the process whose nonce its owner file has;
\* without an owner file, or with that of a dead process, it is stale.
Lock == Proc \cup {"free", "stale"}

Steps == {"idle", "keyLock", "targetLock", "rescan", "create",
          "write", "claimed", "finish", "releaseKey", "releaseTarget"}
HasKeyLock(p) ==
  pc[p] \in Steps \ {"idle", "keyLock", "releaseTarget"}
HasTargetLock(p) ==
  pc[p] \in Steps \ {"idle", "keyLock", "targetLock"}

Init ==
  /\ entries = {}
  /\ keyLocks = [k \in Key |-> "free"]
  /\ targetLocks = [t \in Target |-> "free"]
  /\ pc = [p \in Proc |-> "idle"]
  /\ req \in [Proc -> Request]
  /\ outcome = [p \in Proc |-> "FAILED"]

----------------------------------------------------------------------------
(* Reading the journal: #latest() and latestEntries()                      *)

OfKey(k) == {e \in entries : e.id.key = k}
Claims == {e \in entries : e.state = "IN_FLIGHT"}
Finals == {e \in entries : e.state \in Final}

\* Every history is a claim and at most one final entry of its identity.
Sound ==
  /\ Cardinality(entries) <= MaxEntries
  /\ \A e \in entries : e.readable
  /\ \A e \in entries : \E c \in Claims : c.id = e.id
  /\ \A e, f \in entries :
       e.id.key = f.id.key /\ e.id.target = f.id.target => e.id = f.id
  /\ \A e, f \in Finals : e.id = f.id => e = f

\* The target has an execution in flight or an ambiguous one.
Unresolved(t) ==
  \E c \in Claims :
    c.id.target = t /\ \A f \in Finals : f.id = c.id => f.state \notin Safe

Settled(r, s) == \E e \in Finals : e.id = r /\ e.state = s

Claimable(r) == Sound /\ OfKey(r.key) = {} /\ ~Unresolved(r.target)

----------------------------------------------------------------------------
(* claim()                                                                 *)

Goto(p, step) == pc' = [pc EXCEPT ![p] = step]

\* The first scan.  A call whose key has already ended in a safe state is
\* told so, any other that may not claim is refused: neither changes a file.
Call(p) ==
  /\ pc[p] = "idle"
  /\ \E r \in Request : Claimable(r) /\ req' = [req EXCEPT ![p] = r]
  /\ Goto(p, "keyLock")
  /\ UNCHANGED <<files, outcome>>

SetKeyLock(p, lock) == keyLocks' = [keyLocks EXCEPT ![req[p].key] = lock]
SetTargetLock(p, lock) ==
  targetLocks' = [targetLocks EXCEPT ![req[p].target] = lock]

LockKey(p) ==
  /\ pc[p] = "keyLock"
  /\ keyLocks[req[p].key] = "free"
  /\ SetKeyLock(p, p)
  /\ Goto(p, "targetLock")
  /\ UNCHANGED <<entries, targetLocks, req, outcome>>

KeyBusy(p) ==
  /\ pc[p] = "keyLock"
  /\ keyLocks[req[p].key] # "free"
  /\ Goto(p, "idle")
  /\ UNCHANGED <<files, req, outcome>>

\* The directory is made, its owner file is not.
LockKeyBare(p) ==
  /\ pc[p] = "keyLock"
  /\ keyLocks[req[p].key] = "free"
  /\ SetKeyLock(p, "stale")
  /\ Goto(p, "idle")
  /\ UNCHANGED <<entries, targetLocks, req, outcome>>

\* Mutant: a lock directory that exists is taken for one just made.
LockTargetShared(p) ==
  /\ pc[p] = "targetLock"
  /\ SetTargetLock(p, p)
  /\ Goto(p, "rescan")
  /\ UNCHANGED <<entries, keyLocks, req, outcome>>

LockTarget(p) ==
  /\ pc[p] = "targetLock"
  /\ targetLocks[req[p].target] = "free"
  /\ SetTargetLock(p, p)
  /\ Goto(p, "rescan")
  /\ UNCHANGED <<entries, keyLocks, req, outcome>>

TargetBusy(p) ==
  /\ pc[p] = "targetLock"
  /\ targetLocks[req[p].target] # "free"
  /\ SetKeyLock(p, "free")
  /\ Goto(p, "idle")
  /\ UNCHANGED <<entries, targetLocks, req, outcome>>

LockTargetBare(p) ==
  /\ pc[p] = "targetLock"
  /\ targetLocks[req[p].target] = "free"
  /\ SetTargetLock(p, "stale")
  /\ SetKeyLock(p, "free")
  /\ Goto(p, "idle")
  /\ UNCHANGED <<entries, req, outcome>>

Unlock(p) == SetKeyLock(p, "free") /\ SetTargetLock(p, "free")

Rescan(p) ==
  /\ pc[p] = "rescan"
  /\ \/ Claimable(req[p]) /\ Goto(p, "create") /\ UNCHANGED files
     \/ ~Claimable(req[p]) /\ Goto(p, "idle") /\ Unlock(p)
        /\ UNCHANGED entries
  /\ UNCHANGED <<req, outcome>>

\* A file appears under its name before it is written.
Created(p, s) ==
  entries' = entries \cup
    {[id |-> req[p], state |-> s, readable |-> FALSE]}
Written(p, s) ==
  entries' = (entries \ {[id |-> req[p], state |-> s, readable |-> FALSE]})
    \cup {[id |-> req[p], state |-> s, readable |-> TRUE]}

\* Mutant: execution starts before the claim is written.
CreateClaimUnwritten(p) ==
  /\ pc[p] = "create"
  /\ Created(p, "IN_FLIGHT")
  /\ Goto(p, "claimed")
  /\ UNCHANGED <<keyLocks, targetLocks, req, outcome>>

\* The key was free under its lock, so no file of that name exists.
CreateClaim(p) ==
  /\ pc[p] = "create"
  /\ Created(p, "IN_FLIGHT")
  /\ Goto(p, "write")
  /\ UNCHANGED <<keyLocks, targetLocks, req, outcome>>

WriteClaim(p) ==
  /\ pc[p] = "write"
  /\ Written(p, "IN_FLIGHT")
  /\ Goto(p, "claimed")
  /\ UNCHANGED <<keyLocks, targetLocks, req, outcome>>

\* The entry could not be created, or not be written.
ClaimFails(p) ==
  /\ pc[p] \in {"create", "write"}
  /\ Unlock(p)
  /\ Goto(p, "idle")
  /\ UNCHANGED <<entries, req, outcome>>

----------------------------------------------------------------------------
(* FileLearningExecutionClaim                                              *)

\* #finish(): the final entry is created ...
Finish(p, s) ==
  /\ pc[p] = "claimed"
  /\ Created(p, s)
  /\ outcome' = [outcome EXCEPT ![p] = s]
  /\ Goto(p, "finish")
  /\ UNCHANGED <<keyLocks, targetLocks, req>>

\* ... and written; nobody reads it back, and if the clock was set back
\* since the claim no reader will accept it.
WriteFinal(p) ==
  /\ pc[p] = "finish"
  /\ Written(p, outcome[p]) \/ UNCHANGED entries
  /\ Goto(p, "releaseKey")
  /\ UNCHANGED <<keyLocks, targetLocks, req, outcome>>

ReleaseKey(p) ==
  /\ pc[p] = "releaseKey"
  /\ SetKeyLock(p, "free")
  /\ Goto(p, "releaseTarget")
  /\ UNCHANGED <<entries, targetLocks, req, outcome>>

ReleaseTarget(p) ==
  /\ pc[p] = "releaseTarget"
  /\ SetTargetLock(p, "free")
  /\ Goto(p, "idle")
  /\ UNCHANGED <<entries, keyLocks, req, outcome>>

Disowned(locks, p) ==
  [l \in DOMAIN locks |-> IF locks[l] = p THEN "stale" ELSE locks[l]]

\* The process dies, or its call gives up where it cannot settle: nobody
\* will ever remove the locks it holds.
Abandon(p) ==
  /\ pc[p] # "idle"
  /\ keyLocks' = Disowned(keyLocks, p)
  /\ targetLocks' = Disowned(targetLocks, p)
  /\ Goto(p, "idle")
  /\ UNCHANGED <<entries, req, outcome>>

Claiming(p) ==
  \/ LockKey(p) \/ KeyBusy(p) \/ LockKeyBare(p)
  \/ LockTarget(p) \/ TargetBusy(p) \/ LockTargetBare(p)
  \/ Rescan(p) \/ CreateClaim(p) \/ WriteClaim(p) \/ ClaimFails(p)
Settling(p) == WriteFinal(p) \/ ReleaseKey(p) \/ ReleaseTarget(p)

Next ==
  \E p \in Proc :
    \/ Call(p) \/ Claiming(p) \/ Settling(p) \/ Abandon(p)
    \/ \E s \in Final : Finish(p, s)

Spec == Init /\ [][Next]_journal

----------------------------------------------------------------------------
(* Properties                                                              *)

\* The state is well typed: entries of requests, locks that are free, stale
\* or held by a process.
TypeOK ==
  /\ entries \subseteq Entry
  /\ keyLocks \in [Key -> Lock]
  /\ targetLocks \in [Target -> Lock]
  /\ pc \in [Proc -> Steps]
  /\ req \in [Proc -> Request]
  /\ outcome \in [Proc -> Final]

Executing(p) == pc[p] = "claimed"

\* Whoever executes on a target is alone on it: no other process executes
\* there, and every other execution the journal knows of on this target has
\* ended with its baseline proven restored (journal.ts:628-689 checks this
\* before and again under the two locks).
Alone ==
  \A p \in Proc : Executing(p) =>
    /\ \A q \in Proc \ {p} : Executing(q) => req[q].target # req[p].target
    /\ \A c \in Claims : c.id.target = req[p].target =>
         c.id = req[p] \/ \E s \in Safe : Settled(c.id, s)

\* An execution is known to the journal while it runs, by a claim that can
\* be read and no final entry, so that a death leaves it in flight
\* (journal.ts:544-568 and 660-671).
ClaimDurable ==
  \A p \in Proc : Executing(p) =>
    /\ [id |-> req[p], state |-> "IN_FLIGHT", readable |-> TRUE] \in entries
    /\ \A f \in Finals : f.id # req[p]

\* A key names one execution for ever: every entry under it has the same
\* target, capability and lineage, at most one of them is final, and no
\* entry lacks its claim (journal.ts:471-505 refuses the journal otherwise).
KeyNamesOne ==
  /\ \A e, f \in entries : e.id.key = f.id.key => e.id = f.id
  /\ \A e, f \in Finals : e.id.key = f.id.key => e = f
  /\ \A e \in entries : \E c \in Claims : c.id = e.id

\* The journal keeps what ExecutionLedger promises: a claim is what a file
\* of sequence 0 names, an outcome what a file of sequence 1 names.
Ledger == INSTANCE ExecutionLedger WITH
  claims <- {[key |-> e.id.key, target |-> e.id.target] : e \in Claims},
  outcomes <- {[key |-> e.id.key, state |-> e.state] : e \in Finals}

KeepsLedger == Ledger!Spec
============================================================================
