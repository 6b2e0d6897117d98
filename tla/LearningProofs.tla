---------------------------- MODULE LearningProofs --------------------------
(***************************************************************************)
(* Proofs about LearningJournal and CapabilityLearning, for all sets of    *)
(* processes, keys, targets, capabilities and lineages, and every bound on *)
(* the journal's size and on the edits of others.                          *)
(*                                                                         *)
(* The locks carry the argument.  Between its second scan and its claim's  *)
(* creation a process holds the locks of its key and its target, so what   *)
(* that scan found stays true: only the holder of a key's lock adds an     *)
(* entry under it, and only the holder of a target's lock adds a claim on  *)
(* it.  That dead processes leave their locks behind is not needed.        *)
(*                                                                         *)
(* A lesson rests on that: alone on its object, it knows which marks the   *)
(* object carries at each of its steps, others' edits notwithstanding.     *)
(***************************************************************************)
EXTENDS CapabilityLearning, TLAPS

\* A process past mkdir is the one its lock directories name.
LocksOwned ==
  /\ \A p \in Proc : HasKeyLock(p) => keyLocks[req[p].key] = p
  /\ \A p \in Proc : HasTargetLock(p) => targetLocks[req[p].target] = p

\* Apart from r's own, every execution on r's target ended safely.
Clear(r) ==
  \A c \in Claims : c.id.target = r.target =>
    c.id = r \/ \E s \in Safe : Settled(c.id, s)

Mine(p, s, readable) ==
  [id |-> req[p], state |-> s, readable |-> readable]

\* What the journal holds of a process' call, step by step.
Recorded(p) ==
  /\ pc[p] = "create" => OfKey(req[p].key) = {}
  /\ pc[p] \in {"create", "write", "claimed"} => Clear(req[p])
  /\ pc[p] = "write" => Mine(p, "IN_FLIGHT", FALSE) \in entries
  /\ pc[p] = "claimed" => Mine(p, "IN_FLIGHT", TRUE) \in entries
  /\ pc[p] \in {"write", "claimed"} =>
       \A f \in Finals : f.id.key # req[p].key
  /\ pc[p] = "finish" => Mine(p, outcome[p], FALSE) \in entries

Progress == \A p \in Proc : Recorded(p)

IInv == TypeOK /\ LocksOwned /\ Progress /\ KeyNamesOne

----------------------------------------------------------------------------
(* Entries                                                                 *)

LEMMA MineEntry ==
  ASSUME TypeOK, NEW p \in Proc, NEW s \in States, NEW r \in BOOLEAN
  PROVE  Mine(p, s, r) \in Entry
BY DEF TypeOK, Entry, Mine

----------------------------------------------------------------------------
(* Locks                                                                   *)

\* Only the lock named n changes, if any, and only if it was free or p's.
MayChange(locks, next, n, p) ==
  /\ \A l \in DOMAIN locks : l # n => next[l] = locks[l]
  /\ next = locks \/ locks[n] = "free" \/ locks[n] = p

LEMMA SetOne ==
  ASSUME NEW S, NEW locks \in [S -> Lock], NEW n \in S, NEW v, NEW p,
         locks[n] = "free" \/ locks[n] = p
  PROVE  MayChange(locks, [locks EXCEPT ![n] = v], n, p)
BY DEF MayChange

LEMMA SetNone ==
  ASSUME NEW S, NEW locks \in [S -> Lock], NEW n, NEW p
  PROVE  MayChange(locks, locks, n, p)
BY DEF MayChange

\* Two processes never hold one lock.
LEMMA LocksExclude ==
  ASSUME LocksOwned, NEW p \in Proc, NEW q \in Proc, p # q
  PROVE  /\ HasKeyLock(p) /\ HasKeyLock(q) => req[p].key # req[q].key
         /\ HasTargetLock(p) /\ HasTargetLock(q)
              => req[p].target # req[q].target
BY DEF LocksOwned

\* A step that moves only p, and gives away or takes no lock but p's own,
\* leaves every holder a holder.
LEMMA LocksKept ==
  ASSUME TypeOK, LocksOwned, NEW p \in Proc, NEW s \in Steps,
         Goto(p, s), \A q \in Proc \ {p} : req'[q] = req[q],
         \A q \in Proc \ {p} : HasKeyLock(q) =>
            keyLocks'[req[q].key] = keyLocks[req[q].key],
         \A q \in Proc \ {p} : HasTargetLock(q) =>
            targetLocks'[req[q].target] = targetLocks[req[q].target],
         HasKeyLock(p)' => keyLocks'[req'[p].key] = p,
         HasTargetLock(p)' => targetLocks'[req'[p].target] = p
  PROVE  LocksOwned'
<1>1. \A q \in Proc \ {p} : pc'[q] = pc[q]
  BY DEF TypeOK, Goto
<1>2. \A q \in Proc \ {p} : (HasKeyLock(q)' <=> HasKeyLock(q))
                           /\ (HasTargetLock(q)' <=> HasTargetLock(q))
  BY <1>1 DEF HasKeyLock, HasTargetLock
<1> QED
  BY <1>2 DEF LocksOwned

----------------------------------------------------------------------------
(* Steps that write no entry                                               *)

LEMMA QuietRecords ==
  ASSUME TypeOK, Progress, KeyNamesOne, UNCHANGED <<entries, outcome>>,
         NEW p \in Proc, NEW s \in Steps, Goto(p, s),
         \A q \in Proc \ {p} : req'[q] = req[q],
         s \notin {"write", "claimed", "finish"},
         s = "create" => Claimable(req[p]) /\ req'[p] = req[p]
  PROVE  Progress' /\ KeyNamesOne'
<1>1. KeyNamesOne'
  BY DEF KeyNamesOne, Claims, Finals
<1>2. \A q \in Proc \ {p} : Recorded(q)'
  <2> TAKE q \in Proc \ {p}
  <2>1. pc'[q] = pc[q] /\ req'[q] = req[q] /\ outcome'[q] = outcome[q]
    BY DEF TypeOK, Goto
  <2> QED
    BY <2>1 DEF Progress, Recorded, Clear, Settled, OfKey, Claims, Finals, Mine
<1>3. Recorded(p)'
  <2>1. pc'[p] = s
    BY DEF TypeOK, Goto
  <2>2. CASE s # "create"
    BY <2>1, <2>2 DEF Recorded
  <2>3. CASE s = "create"
    <3>1. OfKey(req[p].key) = {} /\ Clear(req[p])
      BY <2>3 DEF Claimable, Unresolved, Clear, Settled
    <3> QED
      BY <2>1, <2>3, <3>1 DEF Recorded, Clear, Settled, OfKey, Claims, Finals
  <2> QED
    BY <2>2, <2>3
<1> QED
  BY <1>1, <1>2, <1>3 DEF Progress

----------------------------------------------------------------------------
(* Steps that write an entry                                               *)

\* What p writes under its own key and target is nothing to the others.
LEMMA OthersRecords ==
  ASSUME TypeOK, LocksOwned, Progress,
         NEW p \in Proc, HasKeyLock(p), HasTargetLock(p),
         NEW q \in Proc, q # p,
         pc'[q] = pc[q], req'[q] = req[q], outcome'[q] = outcome[q],
         \A e \in entries' : e \in entries \/ e.id = req[p],
         \A e \in entries : e.id # req[p] => e \in entries',
         \A e \in entries :
           \E f \in entries' : f.id = e.id /\ f.state = e.state
  PROVE  Recorded(q)'
<1>1. Recorded(q)
  BY DEF Progress
<1>2. CASE pc[q] \notin {"create", "write", "claimed", "finish"}
  BY <1>2 DEF Recorded
<1>3. CASE pc[q] \in {"create", "write", "claimed", "finish"}
  <2>1. HasKeyLock(q) /\ HasTargetLock(q)
    BY <1>3 DEF HasKeyLock, HasTargetLock, Steps
  <2>2. req[p].key # req[q].key /\ req[p].target # req[q].target
    BY <2>1, LocksExclude
  <2>3. \A st, r : Mine(q, st, r) \in entries => Mine(q, st, r) \in entries'
    BY <2>2 DEF Mine
  <2>4. OfKey(req[q].key) = {} => OfKey(req[q].key)' = {}
    BY <2>2 DEF OfKey
  <2>5. \A r, st : Settled(r, st) => Settled(r, st)'
    BY DEF Settled, Finals
  <2>6. Clear(req[q]) => Clear(req[q])'
    BY <2>2, <2>5 DEF Clear, Claims
  <2>7. (\A f \in Finals : f.id.key # req[q].key)
          => \A f \in Finals' : f.id.key # req[q].key
    BY <2>2 DEF Finals
  <2> QED
    BY <1>1, <2>3, <2>4, <2>6, <2>7 DEF Recorded, Mine, Clear, OfKey
<1> QED
  BY <1>2, <1>3

LEMMA CreatedEntries ==
  ASSUME TypeOK, NEW p \in Proc, NEW s \in States, Created(p, s)
  PROVE  /\ entries' = entries \cup {Mine(p, s, FALSE)}
         /\ entries' \subseteq Entry
BY MineEntry DEF Created, Mine, TypeOK

LEMMA WrittenEntries ==
  ASSUME TypeOK, NEW p \in Proc, NEW s \in States, Written(p, s)
  PROVE  /\ entries' =
              (entries \ {Mine(p, s, FALSE)}) \cup {Mine(p, s, TRUE)}
         /\ entries' \subseteq Entry
BY MineEntry DEF Written, Mine, TypeOK

----------------------------------------------------------------------------
(* Every step keeps the invariant                                          *)

LEMMA GotoType ==
  ASSUME TypeOK, NEW p \in Proc, NEW s \in Steps, Goto(p, s)
  PROVE  pc' \in [Proc -> Steps] /\ pc'[p] = s
         /\ \A q \in Proc \ {p} : pc'[q] = pc[q]
BY DEF TypeOK, Goto

LEMMA CallKeeps ==
  ASSUME IInv, NEW p \in Proc, Call(p)
  PROVE  IInv'
<1>1. PICK r \in Request : req' = [req EXCEPT ![p] = r]
  BY DEF Call
<1>2. "keyLock" \in Steps /\ Goto(p, "keyLock")
  BY DEF Steps, Call
<1>3. TypeOK'
  BY <1>1, <1>2, GotoType DEF IInv, TypeOK, Call, files
<1>4. \A q \in Proc \ {p} : req'[q] = req[q]
  BY <1>1 DEF IInv, TypeOK
<1>5. ~HasKeyLock(p)' /\ ~HasTargetLock(p)'
  BY <1>2, GotoType DEF IInv, HasKeyLock, HasTargetLock
<1>6. LocksOwned'
  BY <1>2, <1>4, <1>5, LocksKept DEF IInv, Call, files
<1>7. Progress' /\ KeyNamesOne'
  BY <1>2, <1>4, QuietRecords DEF IInv, Call, files
<1> QED
  BY <1>3, <1>6, <1>7 DEF IInv

\* Steps that only touch locks, of p's own key and target.
LEMMA LockStep ==
  ASSUME IInv, NEW p \in Proc, NEW s \in Steps, Goto(p, s),
         UNCHANGED <<entries, req, outcome>>,
         s \notin {"write", "claimed", "finish"},
         s = "create" => Claimable(req[p]),
         keyLocks' \in [Key -> Lock], targetLocks' \in [Target -> Lock],
         MayChange(keyLocks, keyLocks', req[p].key, p),
         MayChange(targetLocks, targetLocks', req[p].target, p),
         HasKeyLock(p)' => keyLocks'[req[p].key] = p,
         HasTargetLock(p)' => targetLocks'[req[p].target] = p
  PROVE  IInv'
<1>1. TypeOK'
  BY GotoType DEF IInv, TypeOK
<1>2. \A q \in Proc : req[q].key \in Key /\ req[q].target \in Target
  BY DEF IInv, TypeOK, Request
<1>3. \A q \in Proc \ {p} : HasKeyLock(q) =>
        keyLocks'[req[q].key] = keyLocks[req[q].key]
  BY <1>2, LockAssumption DEF IInv, TypeOK, LocksOwned, MayChange
<1>4. \A q \in Proc \ {p} : HasTargetLock(q) =>
        targetLocks'[req[q].target] = targetLocks[req[q].target]
  BY <1>2, LockAssumption DEF IInv, TypeOK, LocksOwned, MayChange
<1>5. LocksOwned'
  BY <1>3, <1>4, LocksKept DEF IInv
<1>6. Progress' /\ KeyNamesOne'
  BY QuietRecords DEF IInv
<1> QED
  BY <1>1, <1>5, <1>6 DEF IInv

LEMMA RequestFields ==
  ASSUME TypeOK, NEW p \in Proc
  PROVE  req[p] \in Request /\ req[p].key \in Key /\ req[p].target \in Target
BY DEF TypeOK, Request

LEMMA LockKeyKeeps ==
  ASSUME IInv, NEW p \in Proc, LockKey(p)
  PROVE  IInv'
<1>1. /\ "targetLock" \in Steps /\ Goto(p, "targetLock")
      /\ pc'[p] = "targetLock" /\ req[p].key \in Key
  BY GotoType, RequestFields DEF IInv, LockKey, Steps
<1>2. keyLocks' \in [Key -> Lock] /\ keyLocks'[req[p].key] = p
  BY <1>1 DEF IInv, TypeOK, LockKey, SetKeyLock, Lock
<1>3. MayChange(keyLocks, keyLocks', req[p].key, p)
  BY <1>1, SetOne DEF IInv, TypeOK, LockKey, SetKeyLock
<1>4. MayChange(targetLocks, targetLocks', req[p].target, p)
  BY SetNone DEF IInv, TypeOK, LockKey
<1>5. targetLocks' \in [Target -> Lock] /\ ~HasTargetLock(p)'
  BY <1>1 DEF IInv, TypeOK, LockKey, HasTargetLock
<1> QED
  BY <1>1, <1>2, <1>3, <1>4, <1>5, LockStep DEF LockKey

LEMMA LockTargetKeeps ==
  ASSUME IInv, NEW p \in Proc, LockTarget(p)
  PROVE  IInv'
<1>1. /\ "rescan" \in Steps /\ Goto(p, "rescan")
      /\ pc'[p] = "rescan" /\ req[p].target \in Target
  BY GotoType, RequestFields DEF IInv, LockTarget, Steps
<1>2. targetLocks' \in [Target -> Lock] /\ targetLocks'[req[p].target] = p
  BY <1>1 DEF IInv, TypeOK, LockTarget, SetTargetLock, Lock
<1>3. MayChange(targetLocks, targetLocks', req[p].target, p)
  BY <1>1, SetOne DEF IInv, TypeOK, LockTarget, SetTargetLock
<1>4. keyLocks[req[p].key] = p
  BY DEF IInv, LocksOwned, LockTarget, HasKeyLock, Steps
<1>5. keyLocks' = keyLocks /\ keyLocks \in [Key -> Lock]
  BY DEF IInv, TypeOK, LockTarget
<1>6. MayChange(keyLocks, keyLocks', req[p].key, p)
  BY <1>5, SetNone
<1> QED
  BY <1>1, <1>2, <1>3, <1>4, <1>5, <1>6, LockStep DEF LockTarget

\* A call that ends or goes on without a lock it had to give back.
LEMMA ReleaseStep ==
  ASSUME IInv, NEW p \in Proc, NEW s \in {"idle", "releaseTarget"},
         Goto(p, s), UNCHANGED <<entries, req, outcome>>,
         keyLocks' \in [Key -> Lock], targetLocks' \in [Target -> Lock],
         MayChange(keyLocks, keyLocks', req[p].key, p),
         MayChange(targetLocks, targetLocks', req[p].target, p),
         s = "releaseTarget" => targetLocks'[req[p].target] = p
  PROVE  IInv'
<1>1. s \in Steps /\ pc'[p] = s
  BY GotoType DEF IInv, Steps
<1>2. ~HasKeyLock(p)' /\ (HasTargetLock(p)' => s = "releaseTarget")
  BY <1>1 DEF HasKeyLock, HasTargetLock
<1> QED
  BY <1>1, <1>2, LockStep

LEMMA BusyKeeps ==
  ASSUME IInv, NEW p \in Proc,
         KeyBusy(p) \/ LockKeyBare(p) \/ TargetBusy(p) \/ LockTargetBare(p)
  PROVE  IInv'
<1>1. /\ Goto(p, "idle") /\ UNCHANGED <<entries, req, outcome>>
      /\ req[p].key \in Key /\ req[p].target \in Target
  BY RequestFields
     DEF IInv, KeyBusy, LockKeyBare, TargetBusy, LockTargetBare, files
<1>2. pc[p] = "targetLock" => keyLocks[req[p].key] = p
  BY DEF IInv, LocksOwned, HasKeyLock, Steps
<1>3. /\ keyLocks' \in [Key -> Lock] /\ targetLocks' \in [Target -> Lock]
  BY DEF IInv, TypeOK, Lock, KeyBusy, LockKeyBare, TargetBusy,
         LockTargetBare, SetKeyLock, SetTargetLock, files
<1>4. MayChange(keyLocks, keyLocks', req[p].key, p)
  <2>1. CASE KeyBusy(p)
    BY <2>1, SetNone DEF IInv, TypeOK, KeyBusy, files
  <2>2. CASE LockKeyBare(p)
    BY <1>1, <2>2, SetOne DEF IInv, TypeOK, LockKeyBare, SetKeyLock
  <2>3. CASE TargetBusy(p) \/ LockTargetBare(p)
    BY <1>1, <1>2, <2>3, SetOne
       DEF IInv, TypeOK, TargetBusy, LockTargetBare, SetKeyLock
  <2> QED
    BY <2>1, <2>2, <2>3
<1>5. MayChange(targetLocks, targetLocks', req[p].target, p)
  <2>1. CASE KeyBusy(p) \/ LockKeyBare(p) \/ TargetBusy(p)
    BY <2>1, SetNone DEF IInv, TypeOK, KeyBusy, LockKeyBare, TargetBusy, files
  <2>2. CASE LockTargetBare(p)
    BY <1>1, <2>2, SetOne DEF IInv, TypeOK, LockTargetBare, SetTargetLock
  <2> QED
    BY <2>1, <2>2
<1> QED
  BY <1>1, <1>3, <1>4, <1>5, ReleaseStep

\* Giving back both locks.
LEMMA UnlockKeeps ==
  ASSUME IInv, NEW p \in Proc, HasKeyLock(p), HasTargetLock(p),
         Unlock(p), Goto(p, "idle"), UNCHANGED <<entries, req, outcome>>
  PROVE  IInv'
<1>1. req[p].key \in Key /\ req[p].target \in Target
  BY RequestFields DEF IInv
<1>2. keyLocks[req[p].key] = p /\ targetLocks[req[p].target] = p
  BY DEF IInv, LocksOwned
<1>3. keyLocks' \in [Key -> Lock] /\ targetLocks' \in [Target -> Lock]
  BY DEF IInv, TypeOK, Lock, Unlock, SetKeyLock, SetTargetLock
<1>4. MayChange(keyLocks, keyLocks', req[p].key, p)
  BY <1>1, <1>2, SetOne DEF IInv, TypeOK, Unlock, SetKeyLock
<1>5. MayChange(targetLocks, targetLocks', req[p].target, p)
  BY <1>1, <1>2, SetOne DEF IInv, TypeOK, Unlock, SetTargetLock
<1> QED
  BY <1>3, <1>4, <1>5, ReleaseStep

LEMMA RescanKeeps ==
  ASSUME IInv, NEW p \in Proc, Rescan(p)
  PROVE  IInv'
<1>1. HasKeyLock(p) /\ HasTargetLock(p) /\ UNCHANGED <<entries, req, outcome>>
  BY DEF Rescan, HasKeyLock, HasTargetLock, Steps, files
<1>2. keyLocks[req[p].key] = p /\ targetLocks[req[p].target] = p
  BY <1>1 DEF IInv, LocksOwned
<1>3. CASE Claimable(req[p]) /\ Goto(p, "create") /\ UNCHANGED files
  <2>1. keyLocks' = keyLocks /\ targetLocks' = targetLocks
    BY <1>3 DEF files
  <2>2. keyLocks \in [Key -> Lock] /\ targetLocks \in [Target -> Lock]
    BY DEF IInv, TypeOK
  <2>3. /\ MayChange(keyLocks, keyLocks', req[p].key, p)
        /\ MayChange(targetLocks, targetLocks', req[p].target, p)
    BY <2>1, <2>2, SetNone
  <2>4. "create" \in Steps \ {"write", "claimed", "finish"}
    BY DEF Steps
  <2> QED
    BY <1>1, <1>2, <1>3, <2>1, <2>2, <2>3, <2>4, LockStep
<1>4. CASE Goto(p, "idle") /\ Unlock(p)
  BY <1>1, <1>4, UnlockKeeps
<1> QED
  BY <1>3, <1>4 DEF Rescan

LEMMA ClaimFailsKeeps ==
  ASSUME IInv, NEW p \in Proc, ClaimFails(p)
  PROVE  IInv'
<1>1. HasKeyLock(p) /\ HasTargetLock(p)
  BY DEF ClaimFails, HasKeyLock, HasTargetLock, Steps
<1> QED
  BY <1>1, UnlockKeeps DEF ClaimFails

LEMMA ReleaseKeeps ==
  ASSUME IInv, NEW p \in Proc, ReleaseKey(p) \/ ReleaseTarget(p)
  PROVE  IInv'
<1>1. req[p].key \in Key /\ req[p].target \in Target
  BY RequestFields DEF IInv
<1>2. /\ pc[p] = "releaseKey" => keyLocks[req[p].key] = p
      /\ targetLocks[req[p].target] = p
  BY DEF IInv, LocksOwned, ReleaseKey, ReleaseTarget, HasKeyLock,
         HasTargetLock, Steps
<1>3. keyLocks' \in [Key -> Lock] /\ targetLocks' \in [Target -> Lock]
  BY DEF IInv, TypeOK, Lock, ReleaseKey, ReleaseTarget, SetKeyLock,
         SetTargetLock
<1>4. MayChange(keyLocks, keyLocks', req[p].key, p)
  BY <1>1, <1>2, SetOne, SetNone
     DEF IInv, TypeOK, ReleaseKey, ReleaseTarget, SetKeyLock
<1>5. MayChange(targetLocks, targetLocks', req[p].target, p)
  BY <1>1, <1>2, SetOne, SetNone
     DEF IInv, TypeOK, ReleaseKey, ReleaseTarget, SetTargetLock
<1>6. CASE ReleaseKey(p)
  BY <1>2, <1>3, <1>4, <1>5, <1>6, ReleaseStep DEF ReleaseKey
<1>7. CASE ReleaseTarget(p)
  BY <1>3, <1>4, <1>5, <1>7, ReleaseStep DEF ReleaseTarget
<1> QED
  BY <1>6, <1>7

\* A death takes no lock from anybody else.
LEMMA AbandonKeeps ==
  ASSUME IInv, NEW p \in Proc, Abandon(p)
  PROVE  IInv'
<1>1. "idle" \in Steps /\ Goto(p, "idle")
  BY DEF Abandon, Steps
<1>2. keyLocks' \in [Key -> Lock] /\ targetLocks' \in [Target -> Lock]
  BY DEF IInv, TypeOK, Lock, Abandon, Disowned
<1>3. TypeOK'
  BY <1>1, <1>2, GotoType DEF IInv, TypeOK, Abandon
<1>4. \A q \in Proc \ {p} : req[q].key \in Key /\ req[q].target \in Target
  BY RequestFields DEF IInv
<1>5. \A q \in Proc \ {p} : HasKeyLock(q) =>
        keyLocks'[req[q].key] = keyLocks[req[q].key]
  BY <1>4 DEF IInv, TypeOK, LocksOwned, Abandon, Disowned
<1>6. \A q \in Proc \ {p} : HasTargetLock(q) =>
        targetLocks'[req[q].target] = targetLocks[req[q].target]
  BY <1>4 DEF IInv, TypeOK, LocksOwned, Abandon, Disowned
<1>7. ~HasKeyLock(p)' /\ ~HasTargetLock(p)'
  BY <1>1, GotoType DEF IInv, HasKeyLock, HasTargetLock
<1>8. LocksOwned'
  BY <1>1, <1>5, <1>6, <1>7, LocksKept DEF IInv, Abandon
<1>9. Progress' /\ KeyNamesOne'
  BY <1>1, QuietRecords DEF IInv, Abandon
<1> QED
  BY <1>3, <1>8, <1>9 DEF IInv

\* What a step that writes an entry of p has to show of p itself.
LEMMA WriteStep ==
  ASSUME IInv, NEW p \in Proc, NEW s \in Steps, Goto(p, s),
         HasKeyLock(p), HasTargetLock(p),
         s \in {"write", "claimed", "finish", "releaseKey"},
         UNCHANGED <<keyLocks, targetLocks, req>>,
         outcome' \in [Proc -> Final],
         \A q \in Proc \ {p} : outcome'[q] = outcome[q],
         entries' \subseteq Entry,
         \A e \in entries' : e \in entries \/ e.id = req[p],
         \A e \in entries : e.id # req[p] => e \in entries',
         \A e \in entries :
           \E f \in entries' : f.id = e.id /\ f.state = e.state,
         Recorded(p)', KeyNamesOne'
  PROVE  IInv'
<1>1. TypeOK'
  BY GotoType DEF IInv, TypeOK
<1>2. keyLocks[req[p].key] = p /\ targetLocks[req[p].target] = p
  BY DEF IInv, LocksOwned
<1>3. LocksOwned'
  BY <1>2, LocksKept DEF IInv
<1>4. \A q \in Proc \ {p} : Recorded(q)'
  <2> TAKE q \in Proc \ {p}
  <2>1. pc'[q] = pc[q] /\ req'[q] = req[q] /\ outcome'[q] = outcome[q]
    BY GotoType DEF IInv
  <2> QED
    BY <2>1, OthersRecords DEF IInv
<1>5. Progress'
  BY <1>4 DEF Progress
<1> QED
  BY <1>1, <1>3, <1>5 DEF IInv

LEMMA CreateClaimKeeps ==
  ASSUME IInv, NEW p \in Proc, CreateClaim(p)
  PROVE  IInv'
<1> DEFINE n == Mine(p, "IN_FLIGHT", FALSE)
<1>1. /\ entries' = entries \cup {n} /\ entries' \subseteq Entry
      /\ n.id = req[p] /\ n.state = "IN_FLIGHT"
  <2>1. "IN_FLIGHT" \in States /\ Created(p, "IN_FLIGHT") /\ TypeOK
    BY DEF IInv, CreateClaim, States
  <2>2. entries' = entries \cup {n} /\ entries' \subseteq Entry
    BY <2>1, CreatedEntries
  <2> QED
    BY <2>2 DEF Mine
<1>2. /\ "write" \in Steps /\ Goto(p, "write") /\ pc'[p] = "write"
      /\ HasKeyLock(p) /\ HasTargetLock(p)
  BY GotoType DEF IInv, CreateClaim, Steps, HasKeyLock, HasTargetLock
<1>3. OfKey(req[p].key) = {} /\ Clear(req[p])
  BY DEF IInv, Progress, Recorded, CreateClaim
<1> HIDE DEF n
<1>4. Claims' = Claims \cup {n} /\ Finals' = Finals
  BY <1>1 DEF Claims, Finals, Final, Safe
<1>5. req' = req /\ outcome' = outcome
  BY DEF CreateClaim
<1>6. Recorded(p)'
  <2>1. Clear(req[p])'
    BY <1>1, <1>3, <1>4, <1>5 DEF Clear, Settled
  <2>2. \A f \in Finals' : f.id.key # req[p].key
    BY <1>3, <1>4 DEF OfKey, Finals
  <2>3. Mine(p, "IN_FLIGHT", FALSE) \in entries'
    BY <1>1 DEF n
  <2> QED
    BY <1>2, <1>5, <2>1, <2>2, <2>3 DEF Recorded, Mine, Clear
<1>7. KeyNamesOne'
  <2>1. \A e \in entries : e.id.key # req[p].key
    BY <1>3 DEF OfKey
  <2> QED
    BY <1>1, <1>4, <2>1 DEF IInv, KeyNamesOne
<1> QED
  BY <1>1, <1>2, <1>5, <1>6, <1>7, WriteStep
     DEF IInv, TypeOK, CreateClaim

LEMMA WriteClaimKeeps ==
  ASSUME IInv, NEW p \in Proc, WriteClaim(p)
  PROVE  IInv'
<1> DEFINE n == Mine(p, "IN_FLIGHT", TRUE)
<1> DEFINE o == Mine(p, "IN_FLIGHT", FALSE)
<1>1. /\ entries' = (entries \ {o}) \cup {n} /\ entries' \subseteq Entry
      /\ n.id = req[p] /\ n.state = "IN_FLIGHT"
      /\ o.id = req[p] /\ o.state = "IN_FLIGHT"
  <2>1. "IN_FLIGHT" \in States /\ Written(p, "IN_FLIGHT") /\ TypeOK
    BY DEF IInv, WriteClaim, States
  <2>2. entries' = (entries \ {o}) \cup {n} /\ entries' \subseteq Entry
    BY <2>1, WrittenEntries
  <2> QED
    BY <2>2 DEF Mine
<1>2. /\ "claimed" \in Steps /\ Goto(p, "claimed") /\ pc'[p] = "claimed"
      /\ HasKeyLock(p) /\ HasTargetLock(p)
  BY GotoType DEF IInv, WriteClaim, Steps, HasKeyLock, HasTargetLock
<1>3. /\ Clear(req[p]) /\ o \in entries
      /\ \A f \in Finals : f.id.key # req[p].key
  BY DEF IInv, Progress, Recorded, WriteClaim
<1>4. Mine(p, "IN_FLIGHT", TRUE) \in entries'
  BY <1>1
<1> HIDE DEF n, o
<1>5. /\ Claims' = (Claims \ {o}) \cup {n} /\ Finals' = Finals
      /\ o \in Claims
  BY <1>1, <1>3 DEF Claims, Finals, Final, Safe
<1>6. req' = req /\ outcome' = outcome
  BY DEF WriteClaim
<1>7. Recorded(p)'
  <2>1. Clear(req[p])'
    BY <1>1, <1>3, <1>5, <1>6 DEF Clear, Settled
  <2> QED
    BY <1>2, <1>3, <1>4, <1>5, <1>6, <2>1 DEF Recorded, Mine, Clear
<1>8. KeyNamesOne'
  <2>1. \A e, f \in entries' : e.id.key = f.id.key => e.id = f.id
    BY <1>1, <1>3 DEF IInv, KeyNamesOne
  <2>2. \A e \in entries' : \E c \in Claims' : c.id = e.id
    BY <1>1, <1>5 DEF IInv, KeyNamesOne
  <2> QED
    BY <1>5, <2>1, <2>2 DEF IInv, KeyNamesOne
<1> QED
  BY <1>1, <1>2, <1>6, <1>7, <1>8, WriteStep
     DEF IInv, TypeOK, WriteClaim

LEMMA FinishKeeps ==
  ASSUME IInv, NEW p \in Proc, NEW s \in Final, Finish(p, s)
  PROVE  IInv'
<1> DEFINE n == Mine(p, s, FALSE)
<1>1. s \in States /\ s # "IN_FLIGHT"
  BY DEF States, Final, Safe
<1>2. /\ entries' = entries \cup {n} /\ entries' \subseteq Entry
      /\ n.id = req[p] /\ n.state = s
  <2>1. entries' = entries \cup {n} /\ entries' \subseteq Entry
    BY <1>1, CreatedEntries DEF IInv, Finish
  <2> QED
    BY <2>1 DEF Mine
<1>3. /\ "finish" \in Steps /\ Goto(p, "finish") /\ pc'[p] = "finish"
      /\ HasKeyLock(p) /\ HasTargetLock(p)
  BY GotoType DEF IInv, Finish, Steps, HasKeyLock, HasTargetLock
<1>4. /\ Mine(p, "IN_FLIGHT", TRUE) \in entries
      /\ \A f \in Finals : f.id.key # req[p].key
  BY DEF IInv, Progress, Recorded, Finish
<1>5. /\ req' = req /\ outcome'[p] = s /\ outcome' \in [Proc -> Final]
      /\ \A q \in Proc \ {p} : outcome'[q] = outcome[q]
  BY DEF IInv, TypeOK, Finish
<1>6. Recorded(p)'
  BY <1>2, <1>3, <1>5 DEF Recorded, Mine
<1> HIDE DEF n
<1>7. Claims' = Claims /\ Finals' = Finals \cup {n}
  BY <1>1, <1>2 DEF Claims, Finals
<1>8. \E c \in Claims : c.id = req[p] /\ c \in entries
  BY <1>4 DEF Claims, Mine
<1>9. KeyNamesOne'
  <2>1. \A e, f \in entries' : e.id.key = f.id.key => e.id = f.id
    BY <1>2, <1>8 DEF IInv, KeyNamesOne
  <2>2. \A e, f \in Finals' : e.id.key = f.id.key => e = f
    BY <1>2, <1>4, <1>7 DEF IInv, KeyNamesOne
  <2>3. \A e \in entries' : \E c \in Claims' : c.id = e.id
    BY <1>2, <1>7, <1>8 DEF IInv, KeyNamesOne
  <2> QED
    BY <2>1, <2>2, <2>3 DEF KeyNamesOne
<1> QED
  BY <1>2, <1>3, <1>5, <1>6, <1>9, WriteStep DEF Finish

LEMMA WriteFinalKeeps ==
  ASSUME IInv, NEW p \in Proc, WriteFinal(p)
  PROVE  IInv'
<1> DEFINE n == Mine(p, outcome[p], TRUE)
<1> DEFINE o == Mine(p, outcome[p], FALSE)
<1>1. outcome[p] \in Final /\ outcome[p] \in States /\ outcome[p] # "IN_FLIGHT"
  BY DEF IInv, TypeOK, States, Final, Safe
<1>2. /\ "releaseKey" \in Steps /\ Goto(p, "releaseKey")
      /\ pc'[p] = "releaseKey" /\ HasKeyLock(p) /\ HasTargetLock(p)
  BY GotoType DEF IInv, WriteFinal, Steps, HasKeyLock, HasTargetLock
<1>3. Recorded(p)'
  BY <1>2 DEF Recorded
<1>4. UNCHANGED <<keyLocks, targetLocks, req, outcome>>
  BY DEF WriteFinal
<1>5. CASE UNCHANGED entries
  <2>1. KeyNamesOne'
    BY <1>5 DEF IInv, KeyNamesOne, Claims, Finals
  <2> QED
    BY <1>2, <1>3, <1>4, <1>5, <2>1, WriteStep DEF IInv, TypeOK
<1>6. CASE Written(p, outcome[p])
  <2>1. /\ entries' = (entries \ {o}) \cup {n} /\ entries' \subseteq Entry
        /\ n.id = req[p] /\ n.state = outcome[p]
        /\ o.id = req[p] /\ o.state = outcome[p]
    <3>1. entries' = (entries \ {o}) \cup {n} /\ entries' \subseteq Entry
      BY <1>1, <1>6, WrittenEntries DEF IInv
    <3> QED
      BY <3>1 DEF Mine
  <2>2. o \in entries
    BY DEF IInv, Progress, Recorded, WriteFinal
  <2> HIDE DEF n, o
  <2>3. /\ Claims' = Claims /\ Finals' = (Finals \ {o}) \cup {n}
        /\ o \in Finals
    BY <1>1, <2>1, <2>2 DEF Claims, Finals
  <2>4. KeyNamesOne'
    <3>1. \A e, f \in entries' : e.id.key = f.id.key => e.id = f.id
      BY <2>1, <2>2 DEF IInv, KeyNamesOne
    <3>2. \A e, f \in Finals' : e.id.key = f.id.key => e = f
      BY <2>1, <2>3 DEF IInv, KeyNamesOne
    <3>3. \A e \in entries' : \E c \in Claims' : c.id = e.id
      BY <2>1, <2>2, <2>3 DEF IInv, KeyNamesOne
    <3> QED
      BY <3>1, <3>2, <3>3 DEF KeyNamesOne
  <2> QED
    BY <1>2, <1>3, <1>4, <2>1, <2>2, <2>4, WriteStep DEF IInv, TypeOK
<1> QED
  BY <1>5, <1>6 DEF WriteFinal

LEMMA StutterKeeps ==
  ASSUME IInv, UNCHANGED journal
  PROVE  IInv'
BY DEF IInv, TypeOK, LocksOwned, HasKeyLock, HasTargetLock, Progress,
       Recorded, Clear, Settled, OfKey, Claims, Finals, Mine, KeyNamesOne,
       journal, files

LEMMA StepKeeps ==
  ASSUME IInv, [Next]_journal
  PROVE  IInv'
<1>1. CASE UNCHANGED journal
  BY <1>1, StutterKeeps
<1>2. ASSUME NEW p \in Proc, Call(p) \/ Claiming(p)
      PROVE  IInv'
  BY <1>2, CallKeeps, LockKeyKeeps, BusyKeeps, LockTargetKeeps, RescanKeeps,
     CreateClaimKeeps, WriteClaimKeeps, ClaimFailsKeeps DEF Claiming
<1>3. ASSUME NEW p \in Proc, Settling(p)
      PROVE  IInv'
  BY <1>3, WriteFinalKeeps, ReleaseKeeps DEF Settling
<1>4. ASSUME NEW p \in Proc, Abandon(p)
      PROVE  IInv'
  BY <1>4, AbandonKeeps
<1>5. ASSUME NEW p \in Proc, NEW s \in Final, Finish(p, s)
      PROVE  IInv'
  BY <1>5, FinishKeeps
<1> QED
  BY <1>1, <1>2, <1>3, <1>4, <1>5 DEF Next

LEMMA InitInvariant == Init => IInv
<1> SUFFICES ASSUME Init PROVE IInv
  OBVIOUS
<1>1. TypeOK
  BY DEF Init, TypeOK, Lock, Steps, Final, Safe
<1>2. LocksOwned /\ Progress
  BY DEF Init, LocksOwned, HasKeyLock, HasTargetLock, Progress, Recorded
<1>3. KeyNamesOne
  BY DEF Init, KeyNamesOne, Claims, Finals
<1> QED
  BY <1>1, <1>2, <1>3 DEF IInv

LEMMA Invariance == Spec => []IInv
<1>1. IInv /\ [Next]_journal => IInv'
  BY StepKeeps
<1> QED
  BY InitInvariant, <1>1, PTL DEF Spec

----------------------------------------------------------------------------
(* Theorems                                                                *)

\* The state stays well typed (learning/journal.ts).
THEOREM TypeCorrect == Spec => []TypeOK
BY Invariance, PTL DEF IInv

\* Nobody executes on a target beside another execution, nor on one whose
\* last execution is unresolved (journal.ts:628-689).
THEOREM ExecutesAlone == Spec => []Alone
<1>1. IInv => Alone
  <2> SUFFICES ASSUME IInv, NEW p \in Proc, Executing(p)
               PROVE  /\ \A q \in Proc \ {p} :
                           Executing(q) => req[q].target # req[p].target
                      /\ \A c \in Claims : c.id.target = req[p].target =>
                           c.id = req[p] \/ \E s \in Safe : Settled(c.id, s)
    BY DEF Alone
  <2>1. \A q \in Proc \ {p} : Executing(q) => req[q].target # req[p].target
    BY LocksExclude DEF IInv, Executing, HasTargetLock, Steps
  <2>2. Clear(req[p])
    BY DEF IInv, Progress, Recorded, Executing
  <2> QED
    BY <2>1, <2>2 DEF Clear
<1> QED
  BY <1>1, Invariance, PTL

\* A running execution is recorded as in flight (journal.ts:664-676).
THEOREM ClaimsDurable == Spec => []ClaimDurable
<1>1. IInv => ClaimDurable
  BY DEF IInv, Progress, Recorded, ClaimDurable, Executing, Mine
<1> QED
  BY <1>1, Invariance, PTL

\* A key never names two executions, nor one two endings
\* (journal.ts:471-505).
THEOREM KeysNameOne == Spec => []KeyNamesOne
BY Invariance, PTL DEF IInv

----------------------------------------------------------------------------
(* Refinement                                                              *)

ClaimOf(e) == [key |-> e.id.key, target |-> e.id.target]
OutcomeOf(e) == [key |-> e.id.key, state |-> e.state]

\* A step that names no new claim and no new outcome is a stutter.
LEMMA SameNames ==
  ASSUME {ClaimOf(e) : e \in Claims'} = {ClaimOf(e) : e \in Claims},
         {OutcomeOf(e) : e \in Finals'} = {OutcomeOf(e) : e \in Finals}
  PROVE  UNCHANGED Ledger!vars
BY DEF Ledger!vars, ClaimOf, OutcomeOf

LEMMA SameEntries ==
  ASSUME UNCHANGED entries
  PROVE  UNCHANGED Ledger!vars
BY DEF Ledger!vars, Claims, Finals

LEMMA CreateClaimRefines ==
  ASSUME IInv, NEW p \in Proc, CreateClaim(p)
  PROVE  Ledger!Claim(req[p].key, req[p].target)
<1> DEFINE n == Mine(p, "IN_FLIGHT", FALSE)
<1>1. /\ entries' = entries \cup {n} /\ n.id = req[p] /\ n.state = "IN_FLIGHT"
  <2>1. "IN_FLIGHT" \in States /\ Created(p, "IN_FLIGHT") /\ TypeOK
    BY DEF IInv, CreateClaim, States
  <2>2. entries' = entries \cup {n}
    BY <2>1, CreatedEntries
  <2> QED
    BY <2>2 DEF Mine
<1> HIDE DEF n
<1>2. Claims' = Claims \cup {n} /\ Finals' = Finals
  BY <1>1 DEF Claims, Finals, Final, Safe
<1>3. OfKey(req[p].key) = {} /\ Clear(req[p])
  BY DEF IInv, Progress, Recorded, CreateClaim
<1>4. \A c \in Claims : c.id.key # req[p].key
  BY <1>3 DEF OfKey, Claims
<1>5. \A c \in Claims : c.id.target = req[p].target =>
        \E f \in Finals : f.id = c.id /\ f.state \in Safe
  BY <1>3, <1>4 DEF Clear, Settled
<1>6. \A c \in {ClaimOf(e) : e \in Claims} : c.key # req[p].key
  BY <1>4 DEF ClaimOf
<1>7. \A c \in {ClaimOf(e) : e \in Claims} : c.target = req[p].target =>
        \E o \in {OutcomeOf(f) : f \in Finals} :
          o.key = c.key /\ o.state \in Ledger!Safe
  <2> SUFFICES ASSUME NEW c \in Claims, ClaimOf(c).target = req[p].target
               PROVE  \E o \in {OutcomeOf(f) : f \in Finals} :
                        o.key = ClaimOf(c).key /\ o.state \in Ledger!Safe
    OBVIOUS
  <2>1. PICK f \in Finals : f.id = c.id /\ f.state \in Safe
    BY <1>5 DEF ClaimOf
  <2>2. /\ OutcomeOf(f) \in {OutcomeOf(g) : g \in Finals}
        /\ OutcomeOf(f).key = ClaimOf(c).key
        /\ OutcomeOf(f).state \in Ledger!Safe
    BY <2>1 DEF OutcomeOf, ClaimOf, Safe, Ledger!Safe
  <2> QED
    BY <2>2
<1>8. {ClaimOf(e) : e \in Claims'} = {ClaimOf(e) : e \in Claims}
        \cup {[key |-> req[p].key, target |-> req[p].target]}
  BY <1>1, <1>2 DEF ClaimOf
<1> QED
  BY <1>2, <1>6, <1>7, <1>8
     DEF Ledger!Claim, Ledger!Resolved, ClaimOf, OutcomeOf

LEMMA FinishRefines ==
  ASSUME IInv, NEW p \in Proc, NEW s \in Final, Finish(p, s)
  PROVE  Ledger!Settle(req[p].key, s)
<1> DEFINE n == Mine(p, s, FALSE)
<1>1. s \in States /\ s # "IN_FLIGHT"
  BY DEF States, Final, Safe
<1>2. entries' = entries \cup {n} /\ n.id = req[p] /\ n.state = s
  <2>1. entries' = entries \cup {n}
    BY <1>1, CreatedEntries DEF IInv, Finish
  <2> QED
    BY <2>1 DEF Mine
<1> HIDE DEF n
<1>3. Claims' = Claims /\ Finals' = Finals \cup {n}
  BY <1>1, <1>2 DEF Claims, Finals
<1>4. /\ Mine(p, "IN_FLIGHT", TRUE) \in entries
      /\ \A f \in Finals : f.id.key # req[p].key
  BY DEF IInv, Progress, Recorded, Finish
<1>5. PICK c \in Claims : c.id = req[p]
  BY <1>4 DEF Claims, Mine
<1>6. \E d \in {ClaimOf(e) : e \in Claims} : d.key = req[p].key
  <2>1. ClaimOf(c) \in {ClaimOf(e) : e \in Claims}
    OBVIOUS
  <2>2. ClaimOf(c).key = req[p].key
    BY <1>5 DEF ClaimOf
  <2> QED
    BY <2>1, <2>2
<1>7. \A o \in {OutcomeOf(e) : e \in Finals} : o.key # req[p].key
  BY <1>4 DEF OutcomeOf
<1>8. {OutcomeOf(e) : e \in Finals'} = {OutcomeOf(e) : e \in Finals}
        \cup {[key |-> req[p].key, state |-> s]}
  BY <1>2, <1>3 DEF OutcomeOf
<1> QED
  BY <1>3, <1>6, <1>7, <1>8 DEF Ledger!Settle, ClaimOf, OutcomeOf

\* Writing a file to its end does not change what its name says.
LEMMA WritingRefines ==
  ASSUME IInv, NEW p \in Proc, NEW s \in States, Written(p, s),
         Mine(p, s, FALSE) \in entries
  PROVE  UNCHANGED Ledger!vars
<1> DEFINE o == Mine(p, s, FALSE)
<1> DEFINE n == Mine(p, s, TRUE)
<1>1. /\ entries' = (entries \ {o}) \cup {n} /\ o \in entries
      /\ n.id = req[p] /\ n.state = s /\ o.id = req[p] /\ o.state = s
  <2>1. entries' = (entries \ {o}) \cup {n}
    BY WrittenEntries DEF IInv
  <2> QED
    BY <2>1 DEF Mine
<1> HIDE DEF n, o
<1>2. ClaimOf(n) = ClaimOf(o) /\ OutcomeOf(n) = OutcomeOf(o)
  BY <1>1 DEF ClaimOf, OutcomeOf
<1>3. (n \in Claims' <=> o \in Claims) /\ (n \in Finals' <=> o \in Finals)
  BY <1>1 DEF Claims, Finals
<1>4. /\ Claims' \ {n, o} = Claims \ {n, o}
      /\ Finals' \ {n, o} = Finals \ {n, o}
      /\ n \in Claims => o \in Claims
      /\ n \in Finals => o \in Finals
  BY <1>1 DEF Claims, Finals
<1>5. /\ o \in Claims' => n \in Claims'
      /\ o \in Finals' => n \in Finals'
  BY <1>1 DEF Claims, Finals
<1>6. {ClaimOf(e) : e \in Claims'} = {ClaimOf(e) : e \in Claims}
  BY <1>2, <1>3, <1>4, <1>5
<1>7. {OutcomeOf(e) : e \in Finals'} = {OutcomeOf(e) : e \in Finals}
  BY <1>2, <1>3, <1>4, <1>5
<1> QED
  BY <1>6, <1>7, SameNames

\* The journal implements the ledger: creating the file of sequence 0 is the
\* claim, creating that of sequence 1 the outcome, every other step a
\* stutter (journal.ts:471-689).
THEOREM ImplementsLedger == Spec => KeepsLedger
<1>1. Init => Ledger!Init
  BY DEF Init, Ledger!Init, Claims, Finals
<1>2. ASSUME IInv, [Next]_journal
      PROVE  [Ledger!Next]_Ledger!vars
  <2>1. CASE UNCHANGED journal
    BY <2>1, SameEntries DEF journal, files
  <2>2. ASSUME NEW p \in Proc, Call(p) \/ Claiming(p)
        PROVE  [Ledger!Next]_Ledger!vars
    <3>1. CASE CreateClaim(p)
      <4>1. req[p].key \in Key /\ req[p].target \in Target
        BY <1>2, RequestFields DEF IInv
      <4>2. Ledger!Claim(req[p].key, req[p].target)
        BY <1>2, <3>1, CreateClaimRefines
      <4> QED
        BY <4>1, <4>2 DEF Ledger!Next, Ledger!Claim
    <3>2. CASE WriteClaim(p)
      <4>1. "IN_FLIGHT" \in States /\ Mine(p, "IN_FLIGHT", FALSE) \in entries
        BY <1>2, <3>2 DEF IInv, Progress, Recorded, WriteClaim, States
      <4> QED
        BY <1>2, <3>2, <4>1, WritingRefines DEF WriteClaim
    <3>3. CASE ~CreateClaim(p) /\ ~WriteClaim(p)
      <4>1. UNCHANGED entries
        BY <2>2, <3>3 DEF Claiming, Call, LockKey, KeyBusy, LockKeyBare,
           LockTarget, TargetBusy, LockTargetBare, Rescan, ClaimFails, files
      <4> QED
        BY <4>1, SameEntries
    <3> QED
      BY <3>1, <3>2, <3>3
  <2>3. ASSUME NEW p \in Proc, Settling(p)
        PROVE  [Ledger!Next]_Ledger!vars
    <3>1. CASE WriteFinal(p) /\ Written(p, outcome[p])
      <4>1. outcome[p] \in States /\ Mine(p, outcome[p], FALSE) \in entries
        BY <1>2, <3>1 DEF IInv, TypeOK, Progress, Recorded, WriteFinal, States
      <4> QED
        BY <1>2, <3>1, <4>1, WritingRefines
    <3>2. CASE UNCHANGED entries
      BY <3>2, SameEntries
    <3> QED
      BY <2>3, <3>1, <3>2 DEF Settling, WriteFinal, ReleaseKey, ReleaseTarget
  <2>4. ASSUME NEW p \in Proc, Abandon(p)
        PROVE  [Ledger!Next]_Ledger!vars
    BY <2>4, SameEntries DEF Abandon
  <2>5. ASSUME NEW p \in Proc, NEW s \in Final, Finish(p, s)
        PROVE  [Ledger!Next]_Ledger!vars
    <3>1. s \in Ledger!States /\ req[p].key \in Key
      BY <1>2, RequestFields DEF Ledger!States, Final, Safe, IInv
    <3> QED
      BY <1>2, <2>5, <3>1, FinishRefines DEF Ledger!Next
  <2> QED
    BY <1>2, <2>1, <2>2, <2>3, <2>4, <2>5 DEF Next
<1> QED
  BY <1>1, <1>2, Invariance, PTL DEF Spec, KeepsLedger, Ledger!Spec

----------------------------------------------------------------------------
(* The lesson: what holds between its steps                                *)

\* The journal has an entry of execution r in state s, whole or not.
Named(r, s) == \E e \in entries : e.id = r /\ e.state = s

\* Execution r is in flight or ambiguous.
Held(r) == Named(r, "IN_FLIGHT") /\ \A s \in Safe : ~Named(r, s)

\* The keys whose marks object t carries, late ones apart.
Open(t) == content[t].marks \ landed

Guarded ==
  \A t \in Target : \A k \in Open(t) :
    \E r \in Request : Held(r) /\ r.key = k /\ r.target = t

\* What a call that has its claim knows of its object.  As long as it has not
\* prepared its mark the object does not carry it; afterwards an object with
\* the mark is longer than the baseline, whatever others append to it; and
\* a lesson that goes on to the registry has proved the object restored.
InLesson(p) ==
  /\ at[p] > 1 => before[p].marks \subseteq landed
  /\ KeyOf(p) \in Open(req[p].target) =>
       /\ Prepared(p) /\ at[p] < RegisterAt
       /\ Len(Seen(p).text) > Len(before[p].text)
  /\ at[p] \in 1..RegisterAt => Recipe(p) = "none"
  /\ at[p] = RegisterAt + 1 => Recipe(p) = "partial"
  /\ at[p] = RegisterAt + 2 => Recipe(p) = "recipe"
  /\ KeyOf(p) \notin told

InLessons == \A p \in Proc : pc[p] \in {"write", "claimed"} => InLesson(p)

ToldTrue ==
  \A k \in told :
    /\ \E r \in Request : Named(r, "IN_FLIGHT") /\ r.key = k
    /\ \A t \in Target : k \notin Open(t)

Recipes ==
  \A r \in Request :
    Named(r, "COMPLETED") => registry[r.target][r.cap] = "recipe"

LInv ==
  WorkflowTypeOK /\ IInv /\ Guarded /\ InLessons /\ ToldTrue /\ Recipes

----------------------------------------------------------------------------
(* The lesson: what the journal's entries name                             *)

LEMMA NamedOnce ==
  ASSUME IInv, NEW r, NEW s, Named(r, s)
  PROVE  /\ r \in Request
         /\ \A r2, s2 : Named(r2, s2) /\ r2.key = r.key => r2 = r
BY DEF Named, IInv, TypeOK, Entry, KeyNamesOne

\* A call that executes has an open claim, alone on its target.
LEMMA ClaimedNamed ==
  ASSUME IInv, NEW p \in Proc, pc[p] \in {"write", "claimed"}
  PROVE  /\ Named(req[p], "IN_FLIGHT")
         /\ \A r : \A s \in Final : r.key = req[p].key => ~Named(r, s)
         /\ \A r : Held(r) /\ r.target = req[p].target => r = req[p]
<1>1. Recorded(p)
  BY DEF IInv, Progress
<1>2. Named(req[p], "IN_FLIGHT")
  BY <1>1 DEF Recorded, Named, Mine
<1>3. ASSUME NEW r, NEW s \in Final, r.key = req[p].key, Named(r, s) PROVE FALSE
  BY <1>1, <1>3 DEF Recorded, Named, Finals
<1>4. ASSUME NEW r, Held(r), r.target = req[p].target PROVE r = req[p]
  <2>1. PICK c \in Claims : c.id = r
    BY <1>4 DEF Held, Named, Claims
  <2>2. \A s \in Safe : ~Settled(r, s)
    BY <1>4 DEF Held, Named, Settled, Finals
  <2> QED
    BY <1>1, <1>4, <2>1, <2>2 DEF Recorded, Clear
<1> QED
  BY <1>2, <1>3, <1>4

\* Writing an entry to its end renames nothing.
LEMMA WrittenNames ==
  ASSUME IInv, NEW p \in Proc, NEW s \in States, Written(p, s),
         Mine(p, s, FALSE) \in entries
  PROVE  \A r, st : Named(r, st)' <=> Named(r, st)
<1> DEFINE o == Mine(p, s, FALSE)
           n == Mine(p, s, TRUE)
<1>1. entries' = (entries \ {o}) \cup {n}
  BY WrittenEntries DEF IInv
<1>2. o \in entries /\ o.id = n.id /\ o.state = n.state
  BY DEF Mine
<1> HIDE DEF o, n
<1> QED
  BY <1>1, <1>2 DEF Named

LEMMA NamesKept ==
  ASSUME IInv, NEW p \in Proc,
         \/ Call(p) \/ (Claiming(p) /\ ~CreateClaim(p))
         \/ Settling(p) \/ Abandon(p) \/ UNCHANGED entries
  PROVE  \A r, s : Named(r, s)' <=> Named(r, s)
<1>1. CASE UNCHANGED entries
  BY <1>1 DEF Named
<1>2. CASE WriteClaim(p)
  BY <1>2, WrittenNames DEF WriteClaim, IInv, Progress, Recorded, States
<1>3. CASE WriteFinal(p) /\ ~UNCHANGED entries
  <2>1. outcome[p] \in States
    BY DEF IInv, TypeOK, States
  <2> QED
    BY <1>3, <2>1, WrittenNames DEF WriteFinal, IInv, Progress, Recorded
<1>4. \/ UNCHANGED entries \/ WriteClaim(p) \/ WriteFinal(p)
  BY DEF Call, Claiming, Settling, Abandon, files, LockKey, KeyBusy, LockKeyBare,
     LockTarget, TargetBusy, LockTargetBare, Rescan, ClaimFails, ReleaseKey,
     ReleaseTarget
<1> QED
  BY <1>1, <1>2, <1>3, <1>4

LEMMA CreatedNames ==
  ASSUME IInv, NEW p \in Proc, NEW s \in States, Created(p, s)
  PROVE  \A r, st : Named(r, st)' <=> Named(r, st) \/ (r = req[p] /\ st = s)
<1> DEFINE n == Mine(p, s, FALSE)
<1>1. entries' = entries \cup {n}
  BY CreatedEntries DEF IInv
<1>2. n.id = req[p] /\ n.state = s
  BY DEF Mine
<1> HIDE DEF n
<1> QED
  BY <1>1, <1>2 DEF Named

----------------------------------------------------------------------------
(* The lesson: its steps                                                   *)

LEMMA Places ==
  /\ Len(Script) = 13 /\ RestoreAt = 11 /\ RegisterAt = 14
  /\ \A i \in 1..13 :
       /\ Script[i] = "capture" <=> i = 1
       /\ Script[i] = "mark" <=> i \in {3, 9}
       /\ Script[i] = "unmark" <=> i \in {6, 12}
       /\ Script[i] = "seeBase" <=> i \in {2, 7, 8, 13}
       /\ Script[i] = "seeMark" <=> i \in {4, 5, 10}
       /\ Script[i] = "inspect" <=> i = 11
BY DEF Script, RestoreAt, RegisterAt

LEMMA ObjectsTyped ==
  ASSUME WorkflowTypeOK, TypeOK, NEW p \in Proc
  PROVE  /\ req[p].target \in Target /\ req[p].cap \in Capability
         /\ KeyOf(p) \in Key
         /\ Seen(p) \in Object
         /\ at[p] > 1 => Baseline(p) \in Object /\ Intended(p) \in Object
<1>1. req[p].target \in Target /\ req[p].cap \in Capability /\ KeyOf(p) \in Key
  BY DEF TypeOK, Request, KeyOf
<1>2. Seen(p) \in Object
  BY <1>1 DEF WorkflowTypeOK, Seen
<1>3. ASSUME at[p] > 1 PROVE Baseline(p) \in Object /\ Intended(p) \in Object
  <2>1. before[p] \in Object
    BY <1>3 DEF WorkflowTypeOK
  <2>2. Append(before[p].text, "mark") \in Seq({"edit", "mark"})
    BY <2>1 DEF Object
  <2> QED
    BY <1>1, <2>1, <2>2 DEF Baseline, Intended, Object
<1> QED
  BY <1>1, <1>2, <1>3

\* How a failing call moves.
FallsBack(p) ==
  /\ 1 < at[p] /\ at[p] < RestoreAt
  /\ at' = [at EXCEPT ![p] = RestoreAt]
  /\ recovering' = [recovering EXCEPT ![p] =
       IF Prepared(p) THEN "touched" ELSE "untouched"]
  /\ UNCHANGED <<journal, before, valid, history>>

LEMMA FailCases ==
  ASSUME NEW p \in Proc, Fail(p)
  PROVE  \/ at[p] = 1 /\ Settle(p, "FAILED")
         \/ FallsBack(p)
         \/ at[p] >= RestoreAt /\ Settle(p, "AMBIGUOUS")
BY DEF Fail, FallsBack

LEMMA SettleJournal ==
  ASSUME NEW p \in Proc, NEW s \in Final, Settle(p, s)
  PROVE  Finish(p, s) \/ Abandon(p)
BY DEF Settle

\* What a step of the lesson does to the journal.
LEMMA LessonJournal ==
  ASSUME NEW p \in Proc, Lesson(p)
  PROVE  \/ UNCHANGED journal \/ Abandon(p) \/ \E s \in Final : Finish(p, s)
<1> DEFINE Same == \/ UNCHANGED journal \/ Abandon(p)
                   \/ \E s \in Final : Finish(p, s)
<1>1. ASSUME NEW s \in {"COMPLETED", "FAILED", "AMBIGUOUS"}, Settle(p, s)
      PROVE  Same
  BY <1>1, SettleJournal DEF Final, Safe
<1>2. ASSUME Fail(p) PROVE Same
  BY <1>1, <1>2, FailCases DEF FallsBack
<1>3. ASSUME Advance(p) \/ Restored(p) PROVE Same
  BY <1>1, <1>3 DEF Advance, Restored
<1>4. CASE Lookup(p)
  BY <1>1, <1>4 DEF Lookup
<1>5. CASE Capture(p) \/ Throw(p)
  BY <1>2, <1>5 DEF Capture, Throw
<1>6. CASE Reread(p)
  BY <1>2, <1>3, <1>6 DEF Reread
<1>7. CASE Inspect(p) \/ Save(p)
  BY <1>2, <1>3, <1>7 DEF Inspect, Save
<1>8. CASE Register(p) \/ RegisterFails(p)
  BY <1>1, <1>3, <1>8 DEF Register, RegisterFails
<1> QED
  BY <1>4, <1>5, <1>6, <1>7, <1>8 DEF Lesson

\* Lessons use the journal by its own steps only.
LEMMA JournalStep ==
  ASSUME [LearningNext]_vars
  PROVE  [Next]_journal
<1>1. CASE UNCHANGED vars
  BY <1>1 DEF vars
<1>2. ASSUME NEW p \in Proc, BeginLearn(p) \/ GoOn(p) \/ Die(p)
      PROVE  [Next]_journal
  BY <1>2 DEF BeginLearn, GoOn, Die, Next
<1>3. ASSUME NEW p \in Proc, Lesson(p)
      PROVE  [Next]_journal
  BY <1>3, LessonJournal DEF Next
<1>4. ASSUME NEW p \in Proc, Lapse(p) PROVE [Next]_journal
  BY <1>4 DEF Lapse
<1>5. CASE \E w \in late : Land(w)
  BY <1>5 DEF Land
<1>6. CASE \E t \in Target : Edit(t)
  BY <1>6 DEF Edit
<1> QED
  BY <1>1, <1>2, <1>3, <1>4, <1>5, <1>6 DEF LearningNext

LEMMA JournalKeeps ==
  ASSUME IInv, [LearningNext]_vars
  PROVE  IInv'
BY JournalStep, StepKeeps

----------------------------------------------------------------------------
(* The lesson: type correctness                                            *)

LessonTypeOK ==
  /\ at \in [Proc -> 0..(RegisterAt + 2)]
  /\ before \in [Proc -> Object \cup {None}]
  /\ recovering \in [Proc -> {"no", "untouched", "touched"}]
  /\ valid \in [Proc -> BOOLEAN]
  /\ \A p \in Proc :
       /\ at[p] > 0 => pc[p] = "claimed"
       /\ before[p] # None <=> at[p] > 1
       /\ recovering[p] # "no" => at[p] \in RestoreAt..Len(Script)

StoresTypeOK ==
  /\ content \in [Target -> Object]
  /\ late \subseteq Write
  /\ registry \in [Target -> [Capability -> {"none", "partial", "recipe"}]]
  /\ told \subseteq Key /\ landed \subseteq Key

LEMMA TypeParts == WorkflowTypeOK <=> LessonTypeOK /\ StoresTypeOK
BY DEF WorkflowTypeOK, LessonTypeOK, StoresTypeOK

LEMMA TypesNext ==
  ASSUME LessonTypeOK', StoresTypeOK'
  PROVE  WorkflowTypeOK'
BY DEF WorkflowTypeOK, LessonTypeOK, StoresTypeOK

\* A call that ends takes its lesson with it.
LEMMA ForgetTypes ==
  ASSUME LessonTypeOK, NEW p \in Proc, Forget(p),
         \A q \in Proc \ {p} : pc'[q] = pc[q]
  PROVE  LessonTypeOK'
<1>1. /\ at' \in [Proc -> 0..16] /\ at'[p] = 0
      /\ before' \in [Proc -> Object \cup {None}] /\ before'[p] = None
      /\ recovering' \in [Proc -> {"no", "untouched", "touched"}]
      /\ recovering'[p] = "no"
      /\ valid' \in [Proc -> BOOLEAN]
  BY Places DEF LessonTypeOK, Forget
<1>2. \A q \in Proc \ {p} :
        at'[q] = at[q] /\ before'[q] = before[q] /\ recovering'[q] = recovering[q]
  BY DEF LessonTypeOK, Forget
<1> QED
  BY <1>1, <1>2, Places DEF LessonTypeOK

LEMMA SettleTypes ==
  ASSUME WorkflowTypeOK, TypeOK, NEW p \in Proc, NEW s \in Final, Settle(p, s)
  PROVE  LessonTypeOK' /\ told' \subseteq Key /\ landed' \subseteq Key
<1>1. \A q \in Proc \ {p} : pc'[q] = pc[q]
  BY DEF Settle, Finish, Abandon, Goto, TypeOK
<1> QED
  BY <1>1, TypeParts, ForgetTypes, ObjectsTyped DEF Settle, WorkflowTypeOK

\* A call that goes on with its lesson.
MovesOn(p) ==
  /\ at' \in [Proc -> 0..16] /\ at'[p] > 0
  /\ \A q \in Proc \ {p} : at'[q] = at[q]
  /\ before' \in [Proc -> Object \cup {None}]
  /\ \A q \in Proc \ {p} : before'[q] = before[q]
  /\ before'[p] # None <=> at'[p] > 1
  /\ recovering' \in [Proc -> {"no", "untouched", "touched"}]
  /\ \A q \in Proc \ {p} : recovering'[q] = recovering[q]
  /\ recovering'[p] # "no" => at'[p] \in 11..13

LEMMA MoveTypes ==
  ASSUME LessonTypeOK, NEW p \in Proc, pc[p] = "claimed",
         UNCHANGED <<journal, valid>>, MovesOn(p)
  PROVE  LessonTypeOK'
<1>1. pc' = pc /\ valid' = valid
  BY DEF journal
<1> QED
  BY <1>1, Places DEF LessonTypeOK, MovesOn

LEMMA AdvanceTypes ==
  ASSUME LessonTypeOK, NEW p \in Proc, pc[p] = "claimed", Advance(p),
         1 < at[p], at[p] < 16, recovering[p] # "no" => at[p] < 13
  PROVE  LessonTypeOK'
<1>1. MovesOn(p)
  BY Places DEF LessonTypeOK, Advance, MovesOn
<1> QED
  BY <1>1, MoveTypes DEF Advance

LEMMA StepTypes ==
  ASSUME LessonTypeOK, StoresTypeOK, NEW p \in Proc, pc[p] = "claimed",
         Advance(p), at[p] \in 2..12
  PROVE  LessonTypeOK' /\ told' \subseteq Key /\ landed' \subseteq Key
<1>1. LessonTypeOK'
  BY AdvanceTypes
<1> QED
  BY <1>1 DEF Advance, StoresTypeOK, history

LEMMA FallTypes ==
  ASSUME LessonTypeOK, NEW p \in Proc, pc[p] = "claimed", FallsBack(p)
  PROVE  LessonTypeOK'
<1>1. MovesOn(p)
  BY Places DEF LessonTypeOK, FallsBack, MovesOn
<1> QED
  BY <1>1, MoveTypes DEF FallsBack

LEMMA FailTypes ==
  ASSUME WorkflowTypeOK, TypeOK, NEW p \in Proc, pc[p] = "claimed", Fail(p)
  PROVE  LessonTypeOK' /\ told' \subseteq Key /\ landed' \subseteq Key
<1>1. CASE FallsBack(p)
  BY <1>1, FallTypes, TypeParts DEF FallsBack, history, StoresTypeOK
<1>2. CASE Settle(p, "FAILED") \/ Settle(p, "AMBIGUOUS")
  BY <1>2, SettleTypes DEF Final, Safe
<1> QED
  BY <1>1, <1>2, FailCases

LEMMA RestoredTypes ==
  ASSUME WorkflowTypeOK, TypeOK, NEW p \in Proc, pc[p] = "claimed", at[p] > 1,
         Restored(p)
  PROVE  LessonTypeOK' /\ told' \subseteq Key /\ landed' \subseteq Key
<1>1. CASE Settle(p, "FAILED")
  BY <1>1, SettleTypes DEF Final, Safe
<1>2. CASE /\ recovering[p] = "no"
           /\ at' = [at EXCEPT ![p] = RegisterAt]
           /\ UNCHANGED <<journal, before, recovering, valid, history>>
  <2>1. LessonTypeOK
    BY TypeParts
  <2>2. MovesOn(p)
    BY <1>2, <2>1, Places DEF LessonTypeOK, MovesOn
  <2>3. LessonTypeOK'
    BY <1>2, <2>1, <2>2, MoveTypes
  <2> QED
    BY <1>2, <2>3 DEF WorkflowTypeOK, history
<1> QED
  BY <1>1, <1>2 DEF Restored

LEMMA SavedTypes ==
  ASSUME WorkflowTypeOK, TypeOK, NEW p \in Proc, Save(p)
  PROVE  content' \in [Target -> Object] /\ late' \subseteq Write
<1>1. PICK op \in {"mark", "unmark"} :
        /\ Doing(p, op)
        /\ LET value == IF op = "mark" THEN Intended(p) ELSE Baseline(p)
               Done == content' = [content EXCEPT ![req[p].target] = value]
           IN  \/ Done /\ Advance(p) /\ UNCHANGED late
               \/ Fail(p) /\ UNCHANGED late /\ (Done \/ UNCHANGED content)
               \/ /\ Fail(p) /\ UNCHANGED content
                  /\ late' = late \cup
                       {[target |-> req[p].target, value |-> value]}
  BY DEF Save
<1> DEFINE value == IF op = "mark" THEN Intended(p) ELSE Baseline(p)
<1>2. at[p] > 1
  BY <1>1, Places DEF Doing
<1>3. value \in Object /\ req[p].target \in Target
  BY <1>2, ObjectsTyped
<1>4. \/ UNCHANGED content /\ UNCHANGED late
      \/ content' = [content EXCEPT ![req[p].target] = value] /\ UNCHANGED late
      \/ /\ UNCHANGED content
         /\ late' = late \cup {[target |-> req[p].target, value |-> value]}
  BY <1>1
<1> HIDE DEF value
<1> QED
  BY <1>3, <1>4 DEF WorkflowTypeOK, Write

LEMMA LessonTypes ==
  ASSUME WorkflowTypeOK, TypeOK, NEW p \in Proc, Lesson(p)
  PROVE  WorkflowTypeOK'
<1>1. /\ LessonTypeOK /\ StoresTypeOK
      /\ req[p].target \in Target /\ req[p].cap \in Capability
  BY TypeParts, ObjectsTyped
<1>2. pc[p] = "claimed"
  BY DEF Lesson, Lookup, Capture, Reread, Inspect, Save, Doing, Throw, Register,
     RegisterFails
<1>3. CASE Lookup(p)
  <2>1. ASSUME NEW s \in {"COMPLETED", "FAILED"}, Settle(p, s)
        PROVE  LessonTypeOK' /\ told' \subseteq Key /\ landed' \subseteq Key
    BY <2>1, SettleTypes DEF Final, Safe
  <2>2. UNCHANGED <<editor, registry>> /\ at[p] = 0
    BY <1>3 DEF Lookup
  <2>3. CASE /\ Abandon(p) /\ Forget(p)
             /\ told' = told \cup {KeyOf(p)} /\ UNCHANGED landed
    <3>1. Settle(p, "FAILED")
      BY <1>2, <2>3 DEF Settle
    <3> QED
      BY <2>1, <2>2, <3>1, <1>1, TypesNext DEF StoresTypeOK, editor
  <2>4. CASE /\ at' = [at EXCEPT ![p] = 1]
             /\ UNCHANGED <<journal, before, recovering, valid, history>>
    <3>1. LessonTypeOK'
      <4>1. MovesOn(p)
        BY <1>1, <2>2, <2>4, Places DEF LessonTypeOK, MovesOn
      <4> QED
        BY <1>1, <1>2, <2>4, <4>1, MoveTypes
    <3> QED
      BY <1>1, <2>2, <2>4, <3>1, TypesNext DEF StoresTypeOK, editor, history
  <2>5. CASE Settle(p, "COMPLETED") \/ Settle(p, "FAILED")
    BY <1>1, <2>1, <2>2, <2>5, TypesNext DEF StoresTypeOK, editor
  <2> QED
    BY <1>3, <2>3, <2>4, <2>5 DEF Lookup
<1>4. CASE Capture(p)
  <2>1. at[p] = 1 /\ at' = [at EXCEPT ![p] = 2]
    <3>1. at[p] = 1
      BY <1>4, Places DEF Capture, Doing
    <3> QED
      BY <1>4, <3>1 DEF Capture, Advance
  <2>2. /\ before' = [before EXCEPT ![p] = Seen(p)] /\ Seen(p) \in Object
        /\ UNCHANGED <<journal, recovering, valid, editor, registry, history>>
    BY <1>4, ObjectsTyped DEF Capture
  <2>3. LessonTypeOK'
    <3>1. MovesOn(p)
      BY <1>1, <2>1, <2>2, NoneAssumption, Places DEF LessonTypeOK, MovesOn
    <3> QED
      BY <1>1, <1>2, <2>1, <2>2, <3>1, MoveTypes
  <2> QED
    BY <1>1, <2>2, <2>3, TypesNext DEF StoresTypeOK, editor, history
<1>5. CASE Reread(p)
  <2>1. PICK op \in {"seeBase", "seeMark"} :
          Doing(p, op) /\ (Fail(p) \/ (at[p] = Len(Script) /\ Restored(p))
                                   \/ (at[p] # Len(Script) /\ Advance(p)))
    BY <1>5 DEF Reread
  <2>2. at[p] \in 2..13 /\ UNCHANGED <<editor, registry>>
    BY <1>5, <2>1, Places DEF Doing, Reread
  <2>3. LessonTypeOK' /\ told' \subseteq Key /\ landed' \subseteq Key
    <3>1. CASE Fail(p)
      BY <1>2, <3>1, FailTypes
    <3>2. CASE Restored(p)
      BY <1>2, <2>2, <3>2, RestoredTypes
    <3>3. CASE Advance(p) /\ at[p] # 13
      <4>1. at[p] \in 2..12
        BY <2>2, <3>3
      <4> QED
        BY <1>1, <1>2, <3>3, <4>1, StepTypes
    <3> QED
      BY <2>1, <3>1, <3>2, <3>3, Places
  <2> QED
    BY <1>1, <2>2, <2>3, TypesNext DEF StoresTypeOK, editor
<1>6. CASE Inspect(p)
  <2>1. at[p] = 11 /\ UNCHANGED <<editor, registry>>
    BY <1>6, Places DEF Doing, Inspect
  <2>2. LessonTypeOK' /\ told' \subseteq Key /\ landed' \subseteq Key
    <3>1. CASE Fail(p)
      BY <1>2, <3>1, FailTypes
    <3>2. CASE Restored(p)
      BY <1>2, <2>1, <3>2, RestoredTypes
    <3>3. CASE Advance(p)
      BY <1>1, <1>2, <2>1, <3>3, StepTypes
    <3> QED
      BY <1>6, <3>1, <3>2, <3>3 DEF Inspect
  <2> QED
    BY <1>1, <2>1, <2>2, TypesNext DEF StoresTypeOK, editor
<1>7. CASE Save(p)
  <2>1. /\ at[p] \in {3, 6, 9, 12} /\ UNCHANGED registry
        /\ Fail(p) \/ Advance(p)
    BY <1>7, Places DEF Save, Doing
  <2>2. LessonTypeOK' /\ told' \subseteq Key /\ landed' \subseteq Key
    <3>1. CASE Fail(p)
      BY <1>2, <3>1, FailTypes
    <3>2. CASE Advance(p)
      BY <1>1, <1>2, <2>1, <3>2, StepTypes
    <3> QED
      BY <2>1, <3>1, <3>2
  <2> QED
    BY <1>1, <1>7, <2>1, <2>2, SavedTypes, TypesNext DEF StoresTypeOK
<1>8. CASE Throw(p)
  BY <1>1, <1>2, <1>8, FailTypes, TypesNext DEF Throw, StoresTypeOK, editor
<1>9. CASE Register(p)
  <2>1. CASE \E r \in {"partial", "recipe"} :
               at[p] \in {14, 15} /\ SetRecipe(p, r) /\ Advance(p)
    <3>1. LessonTypeOK'
      BY <1>1, <1>2, <2>1, AdvanceTypes, Places DEF LessonTypeOK
    <3>2. registry' \in
            [Target -> [Capability -> {"none", "partial", "recipe"}]]
      BY <1>1, <2>1 DEF StoresTypeOK, SetRecipe
    <3>3. UNCHANGED <<editor, history>>
      BY <1>9, <2>1 DEF Register, Advance
    <3> QED
      BY <1>1, <3>1, <3>2, <3>3, TypesNext DEF StoresTypeOK, editor, history
  <2>2. CASE Settle(p, "COMPLETED") /\ UNCHANGED registry
    <3>1. LessonTypeOK' /\ told' \subseteq Key /\ landed' \subseteq Key
      BY <2>2, SettleTypes DEF Final, Safe
    <3> QED
      BY <1>1, <1>9, <2>2, <3>1, TypesNext DEF Register, StoresTypeOK, editor
  <2> QED
    BY <1>9, <2>1, <2>2, Places DEF Register
<1>10. CASE RegisterFails(p)
  <2>1. LessonTypeOK' /\ told' \subseteq Key /\ landed' \subseteq Key
    BY <1>10, SettleTypes DEF RegisterFails, Final, Safe
  <2> QED
    BY <1>1, <1>10, <2>1, TypesNext DEF RegisterFails, StoresTypeOK, editor
<1> QED
  BY <1>3, <1>4, <1>5, <1>6, <1>7, <1>8, <1>9, <1>10 DEF Lesson

LEMMA WorkflowTypes ==
  ASSUME WorkflowTypeOK, TypeOK, [LearningNext]_vars
  PROVE  WorkflowTypeOK'
<1>1. LessonTypeOK /\ StoresTypeOK
  BY TypeParts
<1>2. CASE UNCHANGED vars
  BY <1>2 DEF vars, journal, lesson, editor, history, WorkflowTypeOK
<1>3. ASSUME NEW p \in Proc, BeginLearn(p) PROVE WorkflowTypeOK'
  <2>1. /\ valid' \in [Proc -> BOOLEAN]
        /\ UNCHANGED <<at, before, recovering, editor, registry, history>>
    BY <1>1, <1>3 DEF BeginLearn, LessonTypeOK
  <2>2. \A q \in Proc : pc[q] = "claimed" => pc'[q] = "claimed"
    BY <1>3 DEF BeginLearn, Call, Goto, TypeOK
  <2> QED
    BY <2>1, <2>2 DEF WorkflowTypeOK, editor, history
<1>4. ASSUME NEW p \in Proc, GoOn(p) PROVE WorkflowTypeOK'
  <2>1. UNCHANGED <<lesson, editor, registry, history>>
    BY <1>4 DEF GoOn
  <2>2. pc[p] # "claimed" /\ \E s : Goto(p, s)
    BY <1>4 DEF GoOn, Claiming, Settling, LockKey, KeyBusy, LockKeyBare,
       LockTarget, TargetBusy, LockTargetBare, Rescan, CreateClaim, WriteClaim,
       ClaimFails, WriteFinal, ReleaseKey, ReleaseTarget
  <2>3. \A q \in Proc : pc[q] = "claimed" => pc'[q] = "claimed"
    BY <2>2 DEF Goto, TypeOK
  <2> QED
    BY <2>1, <2>3 DEF WorkflowTypeOK, lesson, editor, history
<1>5. ASSUME NEW p \in Proc, Lapse(p) PROVE WorkflowTypeOK'
  <2>1. /\ valid' \in [Proc -> BOOLEAN]
        /\ UNCHANGED <<journal, at, before, recovering, editor, registry, history>>
    BY <1>1, <1>5 DEF Lapse, LessonTypeOK
  <2> QED
    BY <2>1 DEF WorkflowTypeOK, editor, history, journal
<1>6. ASSUME NEW p \in Proc, Die(p) PROVE WorkflowTypeOK'
  <2>1. LessonTypeOK'
    BY <1>1, <1>6, ForgetTypes DEF Die, Abandon, Goto, TypeOK
  <2> QED
    BY <1>1, <1>6, <2>1, TypesNext DEF Die, StoresTypeOK, editor, history
<1>7. ASSUME NEW w \in late, Land(w) PROVE WorkflowTypeOK'
  <2>1. w.target \in Target /\ w.value \in Object /\ w.value.marks \subseteq Key
    BY <1>7 DEF WorkflowTypeOK, Write, Object
  <2>2. /\ content' \in [Target -> Object] /\ late' \subseteq Write
        /\ landed' \subseteq Key
        /\ UNCHANGED <<journal, lesson, registry, told>>
    BY <1>1, <1>7, <2>1 DEF Land, StoresTypeOK
  <2> QED
    BY <2>2 DEF WorkflowTypeOK, journal, lesson
<1>8. ASSUME NEW t \in Target, Edit(t) PROVE WorkflowTypeOK'
  <2> DEFINE text == Append(content[t].text, "edit")
  <2>1. content[t] \in Object
    BY <1>8 DEF WorkflowTypeOK
  <2>2. text \in Seq({"edit", "mark"})
    BY <2>1 DEF Object
  <2>3. content' = [content EXCEPT ![t].text = text]
    BY <1>8 DEF Edit
  <2> HIDE DEF text
  <2>4. content' \in [Target -> Object]
    BY <1>1, <2>1, <2>2, <2>3 DEF StoresTypeOK, Object
  <2>5. UNCHANGED <<journal, lesson, late, registry, history>>
    BY <1>8 DEF Edit
  <2> QED
    BY <2>4, <2>5 DEF WorkflowTypeOK, journal, lesson, history
<1>9. ASSUME NEW p \in Proc, Lesson(p) PROVE WorkflowTypeOK'
  BY <1>9, LessonTypes
<1> QED
  BY <1>2, <1>3, <1>4, <1>5, <1>6, <1>7, <1>8, <1>9 DEF LearningNext

----------------------------------------------------------------------------
(* The lesson: what a step leaves of the others                            *)

Executes(p) == pc[p] \in {"write", "claimed"}

LEMMA Apart ==
  ASSUME IInv, NEW p \in Proc, NEW q \in Proc, p # q, Executes(p), Executes(q)
  PROVE  req[p].key # req[q].key /\ req[p].target # req[q].target
BY LocksExclude DEF IInv, Executes, HasKeyLock, HasTargetLock, Steps

\* Where nothing happens to its object, its recipe and its own state.
LEMMA LessonUndisturbed ==
  ASSUME NEW q \in Proc, InLesson(q),
         at'[q] = at[q], before'[q] = before[q], recovering'[q] = recovering[q],
         req'[q] = req[q], content'[req[q].target] = content[req[q].target],
         registry'[req[q].target] = registry[req[q].target],
         landed \subseteq landed', KeyOf(q) \notin told'
  PROVE  InLesson(q)'
<1>1. Recipe(q)' = Recipe(q) /\ KeyOf(q)' = KeyOf(q) /\ Seen(q)' = Seen(q)
  BY DEF Recipe, KeyOf, Seen
<1>2. Prepared(q)' <=> Prepared(q)
  BY DEF Prepared
<1>3. Open(req[q].target)' \subseteq Open(req[q].target)
  BY DEF Open
<1> QED
  BY <1>1, <1>2, <1>3 DEF InLesson, KeyOf

\* A step of p alone, on its own object and recipe.
LEMMA OthersUndisturbed ==
  ASSUME IInv, InLessons, NEW p \in Proc, Executes(p),
         \A q \in Proc \ {p} :
           /\ at'[q] = at[q] /\ before'[q] = before[q]
           /\ recovering'[q] = recovering[q]
           /\ pc'[q] = pc[q] /\ req'[q] = req[q],
         \A t \in Target \ {req[p].target} :
           content'[t] = content[t] /\ registry'[t] = registry[t],
         landed' = landed, told' \subseteq told \cup {KeyOf(p)}
  PROVE  \A q \in Proc \ {p} : Executes(q)' => InLesson(q)'
<1> SUFFICES ASSUME NEW q \in Proc \ {p}, Executes(q)' PROVE InLesson(q)'
  OBVIOUS
<1>1. Executes(q) /\ InLesson(q)
  BY DEF InLessons, Executes
<1>2. req[q].key # req[p].key /\ req[q].target # req[p].target
  BY <1>1, Apart
<1>3. req[q].target \in Target
  BY DEF IInv, TypeOK, Request
<1>4. KeyOf(q) \notin told'
  BY <1>1, <1>2 DEF InLesson, KeyOf
<1> QED
  BY <1>1, <1>2, <1>3, <1>4, LessonUndisturbed

\* A key whose mark an object carries has its execution there.
LEMMA MarkOfClaim ==
  ASSUME IInv, Guarded, NEW p \in Proc, Executes(p), NEW t \in Target,
         KeyOf(p) \in Open(t)
  PROVE  t = req[p].target
<1>1. PICK r \in Request : Held(r) /\ r.key = KeyOf(p) /\ r.target = t
  BY DEF Guarded
<1>2. Named(req[p], "IN_FLIGHT")
  BY ClaimedNamed DEF Executes
<1>3. r = req[p]
  BY <1>1, <1>2, NamedOnce DEF Held, KeyOf
<1> QED
  BY <1>1, <1>3

----------------------------------------------------------------------------
(* The lesson: how it ends and how it goes on                              *)

LEMMA SettleNames ==
  ASSUME IInv, NEW p \in Proc, NEW s \in Final, Settle(p, s)
  PROVE  /\ \A r, st : Named(r, st) => Named(r, st)'
         /\ \A r, st : Named(r, st)' => Named(r, st) \/ (r = req[p] /\ st = s)
         /\ pc[p] = "claimed" /\ pc'[p] \in {"finish", "idle"}
         /\ req' = req /\ \A q \in Proc \ {p} : pc'[q] = pc[q]
<1>1. CASE Finish(p, s)
  <2>1. s \in States /\ Created(p, s)
    BY <1>1 DEF Finish, States
  <2>2. pc'[p] = "finish" /\ \A q \in Proc \ {p} : pc'[q] = pc[q]
    BY <1>1 DEF Finish, Goto, IInv, TypeOK
  <2> QED
    BY <1>1, <2>1, <2>2, CreatedNames DEF Finish
<1>2. CASE pc[p] = "claimed" /\ Abandon(p)
  <2>1. pc'[p] = "idle" /\ \A q \in Proc \ {p} : pc'[q] = pc[q]
    BY <1>2 DEF Abandon, Goto, IInv, TypeOK
  <2>2. \A r, st : Named(r, st)' <=> Named(r, st)
    BY <1>2, NamesKept
  <2> QED
    BY <1>2, <2>1, <2>2 DEF Abandon
<1> QED
  BY <1>1, <1>2 DEF Settle

Learnt == Guarded /\ InLessons /\ ToldTrue /\ Recipes

\* A call ends: safely only if the object does not carry its mark, and with
\* success only if there is a recipe.
LEMMA SettleKeeps ==
  ASSUME LInv, NEW p \in Proc, NEW s \in Final, Settle(p, s),
         \A t \in Target \ {req[p].target} : content'[t] = content[t],
         Open(req[p].target)' \subseteq Open(req[p].target),
         UNCHANGED registry,
         s \in Safe => KeyOf(p) \notin Open(req[p].target),
         s = "COMPLETED" => Recipe(p) = "recipe"
  PROVE  Learnt'
<1> DEFINE g == req[p].target
           k == KeyOf(p)
<1>1. /\ \A r, st : Named(r, st) => Named(r, st)'
      /\ \A r, st : Named(r, st)' => Named(r, st) \/ (r = req[p] /\ st = s)
      /\ Executes(p) /\ ~Executes(p)' /\ UNCHANGED <<req, landed>>
      /\ \A q \in Proc \ {p} : pc'[q] = pc[q]
      /\ IInv
  BY SettleNames DEF LInv, Executes, Settle
<1>2. Named(req[p], "IN_FLIGHT")
  BY <1>1, ClaimedNamed DEF Executes
<1>3. /\ told' \subseteq told \cup {k}
      /\ s \notin Safe => told' = told
  BY DEF Settle, Final
<1>4. \A t \in Target : Open(t)' \subseteq Open(t)
  BY <1>1 DEF Open
<1>5. ASSUME NEW t \in Target, NEW h \in Open(t)'
      PROVE  \E r \in Request : Held(r)' /\ r.key = h /\ r.target = t
  <2>1. PICK r \in Request : Held(r) /\ r.key = h /\ r.target = t
    BY <1>4, <1>5 DEF LInv, Guarded
  <2>2. r = req[p] => s \notin Safe
    BY <1>4, <1>5, <2>1 DEF KeyOf
  <2>3. Held(r)'
    BY <1>1, <2>1, <2>2 DEF Held
  <2> QED
    BY <2>1, <2>3
<1>6. Guarded'
  BY <1>5 DEF Guarded
<1>7. InLessons'
  <2>1. \A q \in Proc \ {p} :
          /\ at'[q] = at[q] /\ before'[q] = before[q]
          /\ recovering'[q] = recovering[q]
    BY DEF Settle, Forget, LInv, WorkflowTypeOK
  <2>2. \A q \in Proc \ {p} : Executes(q)' => InLesson(q)'
    BY <1>1, <1>3, <2>1, OthersUndisturbed DEF LInv
  <2> QED
    BY <1>1, <2>2 DEF InLessons, Executes
<1>8. ToldTrue'
  <2> SUFFICES ASSUME NEW h \in told'
               PROVE  /\ \E r \in Request : Named(r, "IN_FLIGHT")' /\ r.key = h
                      /\ \A t \in Target : h \notin Open(t)'
    BY DEF ToldTrue
  <2>1. CASE h \in told
    BY <1>1, <1>4, <2>1 DEF LInv, ToldTrue
  <2>2. CASE h = k /\ s \in Safe
    <3>1. req[p] \in Request
      BY <1>1 DEF IInv, TypeOK
    <3>2. \A t \in Target : k \notin Open(t)
      BY <1>1, <2>2, MarkOfClaim DEF LInv
    <3> QED
      BY <1>1, <1>2, <1>4, <2>2, <3>1, <3>2 DEF KeyOf
  <2> QED
    BY <1>3, <2>1, <2>2
<1>9. Recipes'
  BY <1>1 DEF LInv, Recipes, Recipe
<1> QED
  BY <1>6, <1>7, <1>8, <1>9 DEF Learnt

\* A call goes on: it writes nothing but its own mark, and a recipe only where
\* nobody has completed one.
LEMMA MoveKeeps ==
  ASSUME LInv, NEW p \in Proc, Executes(p), UNCHANGED <<journal, told, landed>>,
         \A q \in Proc \ {p} :
           /\ at'[q] = at[q] /\ before'[q] = before[q]
           /\ recovering'[q] = recovering[q],
         \A t \in Target \ {req[p].target} : content'[t] = content[t],
         Open(req[p].target)' \subseteq Open(req[p].target) \cup {KeyOf(p)},
         \/ UNCHANGED registry
         \/ Recipe(p) # "recipe" /\ \E x : SetRecipe(p, x),
         InLesson(p)'
  PROVE  Learnt'
<1> DEFINE g == req[p].target
           k == KeyOf(p)
<1>1. /\ UNCHANGED <<entries, pc, req>> /\ IInv
      /\ \A r, st : Named(r, st)' <=> Named(r, st)
  BY DEF journal, files, Named, LInv
<1>2. \A r : Held(r)' <=> Held(r)
  BY <1>1 DEF Held
<1>3. /\ Named(req[p], "IN_FLIGHT") /\ req[p] \in Request
      /\ \A s \in Final : ~Named(req[p], s)
      /\ g \in Target
  BY <1>1, ClaimedNamed DEF Executes, IInv, TypeOK, Request
<1>4. Held(req[p])
  BY <1>3 DEF Held, Final
<1>5. k \notin told
  BY DEF LInv, InLessons, Executes, InLesson
<1>6. \A t \in Target : t # g => Open(t)' = Open(t)
  BY DEF Open
<1>7. Guarded'
  <2> SUFFICES ASSUME NEW t \in Target, NEW h \in Open(t)'
               PROVE  \E r \in Request : Held(r)' /\ r.key = h /\ r.target = t
    BY DEF Guarded
  <2>1. CASE h \in Open(t)
    BY <1>2, <2>1 DEF LInv, Guarded
  <2>2. CASE h = k /\ t = g
    BY <1>2, <1>3, <1>4, <2>2 DEF KeyOf
  <2> QED
    BY <1>1, <1>6, <2>1, <2>2
<1>8. \A t \in Target \ {g} : registry'[t] = registry[t]
  <2>1. registry \in [Target -> [Capability -> {"none", "partial", "recipe"}]]
    BY DEF LInv, WorkflowTypeOK
  <2>2. ASSUME NEW x, SetRecipe(p, x), NEW t \in Target, t # g
        PROVE  registry'[t] = registry[t]
    BY <2>1, <2>2 DEF SetRecipe
  <2> QED
    BY <2>2
<1>9. InLessons'
  <2>1. \A q \in Proc \ {p} : Executes(q)' => InLesson(q)'
    BY <1>1, <1>8, OthersUndisturbed DEF LInv
  <2> QED
    BY <2>1 DEF InLessons, Executes
<1>10. ToldTrue'
  BY <1>1, <1>5, <1>6 DEF LInv, ToldTrue
<1>11. Recipes'
  <2> SUFFICES ASSUME NEW r \in Request, Named(r, "COMPLETED")
               PROVE  registry'[r.target][r.cap] = "recipe"
    BY <1>1 DEF Recipes
  <2>1. registry[r.target][r.cap] = "recipe" /\ r.target \in Target
    BY DEF LInv, Recipes, Request
  <2>2. CASE UNCHANGED registry
    BY <2>1, <2>2
  <2>3. CASE Recipe(p) # "recipe" /\ \E x : SetRecipe(p, x)
    <3>1. r.target # g \/ r.cap # req[p].cap
      BY <2>1, <2>3 DEF Recipe
    <3> QED
      BY <2>1, <2>3, <3>1 DEF SetRecipe, LInv, WorkflowTypeOK, Request
  <2> QED
    BY <2>2, <2>3
<1> QED
  BY <1>7, <1>9, <1>10, <1>11 DEF Learnt

----------------------------------------------------------------------------
(* The lesson: its steps keep what was learnt                              *)

\* What a lesson knows while its call has the claim.
LEMMA Knows ==
  ASSUME LInv, NEW p \in Proc, pc[p] = "claimed"
  PROVE  /\ Executes(p) /\ InLesson(p) /\ TypeOK /\ WorkflowTypeOK
         /\ at[p] \in 0..16
         /\ req[p].target \in Target /\ req[p].cap \in Capability
         /\ Seen(p) \in Object
         /\ at[p] > 1 => Baseline(p) \in Object /\ Intended(p) \in Object
BY ObjectsTyped, Places
   DEF LInv, IInv, InLessons, Executes, WorkflowTypeOK

LEMMA FailKeeps ==
  ASSUME LInv, NEW p \in Proc, pc[p] = "claimed", Fail(p),
         \A t \in Target \ {req[p].target} : content'[t] = content[t],
         Open(req[p].target)' \subseteq Open(req[p].target) \cup {KeyOf(p)},
         at[p] >= RestoreAt =>
           Open(req[p].target)' \subseteq Open(req[p].target),
         at[p] = 1 => UNCHANGED content,
         FallsBack(p) /\ KeyOf(p) \in Open(req[p].target)' =>
           Prepared(p) /\ Len(content'[req[p].target].text) > Len(before[p].text),
         UNCHANGED registry
  PROVE  Learnt'
<1>1. /\ Executes(p) /\ InLesson(p) /\ at[p] \in 0..16
      /\ req[p].target \in Target
  BY Knows
<1>2. CASE at[p] = 1 /\ Settle(p, "FAILED")
  <2>1. ~Prepared(p)
    BY <1>2 DEF Prepared
  <2>2. Open(req[p].target)' \subseteq Open(req[p].target)
    BY <1>2, SettleNames DEF Open, Settle, LInv, Final, Safe
  <2> QED
    BY <1>1, <1>2, <2>1, <2>2, SettleKeeps DEF InLesson, Final, Safe
<1>3. CASE at[p] >= RestoreAt /\ Settle(p, "AMBIGUOUS")
  BY <1>1, <1>3, SettleKeeps DEF Final, Safe
<1>4. CASE FallsBack(p)
  <2>1. /\ UNCHANGED <<journal, told, landed, req>>
        /\ at'[p] = 11 /\ before'[p] = before[p] /\ 1 < at[p] /\ at[p] < 11
        /\ \A q \in Proc \ {p} :
             /\ at'[q] = at[q] /\ before'[q] = before[q]
             /\ recovering'[q] = recovering[q]
        /\ recovering'[p] = IF Prepared(p) THEN "touched" ELSE "untouched"
    BY <1>4, Places DEF FallsBack, history, journal, LInv, WorkflowTypeOK
  <2>2. Prepared(p)' <=> Prepared(p)
    BY <2>1 DEF Prepared
  <2>3. InLesson(p)'
    BY <1>1, <1>4, <2>1, <2>2, Places DEF InLesson, KeyOf, Seen, Recipe
  <2> QED
    BY <1>1, <2>1, <2>3, MoveKeeps
<1> QED
  BY <1>2, <1>3, <1>4, FailCases

\* A failure that leaves the editor alone.
LEMMA FailQuietly ==
  ASSUME LInv, NEW p \in Proc, pc[p] = "claimed", Fail(p),
         UNCHANGED <<content, registry>>
  PROVE  Learnt'
<1>1. InLesson(p)
  BY Knows
<1>2. UNCHANGED <<req, landed>>
  <2>1. \A s \in {"FAILED", "AMBIGUOUS"} : Settle(p, s) => UNCHANGED <<req, landed>>
    BY SettleNames DEF LInv, Settle, Final, Safe
  <2> QED
    BY <2>1, FailCases DEF FallsBack, journal, history
<1>3. Open(req[p].target)' = Open(req[p].target)
  BY <1>2 DEF Open
<1>4. KeyOf(p) \in Open(req[p].target) =>
        Prepared(p) /\ Len(content'[req[p].target].text) > Len(before[p].text)
  BY <1>1 DEF InLesson, Seen
<1> QED
  BY <1>3, <1>4, FailKeeps

\* A step to the next place of the script.
LEMMA AdvanceKeeps ==
  ASSUME LInv, NEW p \in Proc, pc[p] = "claimed", Advance(p),
         1 < at[p], at[p] < 13,
         \A t \in Target \ {req[p].target} : content'[t] = content[t],
         Open(req[p].target)' \subseteq Open(req[p].target) \cup {KeyOf(p)},
         KeyOf(p) \in Open(req[p].target)' =>
           Prepared(p) /\ Len(content'[req[p].target].text) > Len(before[p].text),
         UNCHANGED registry
  PROVE  Learnt'
<1>1. Executes(p) /\ InLesson(p) /\ at[p] \in 0..16
  BY Knows
<1>2. /\ UNCHANGED <<journal, told, landed, req>>
      /\ at'[p] = at[p] + 1 /\ before'[p] = before[p]
      /\ recovering'[p] = recovering[p]
      /\ \A q \in Proc \ {p} :
           /\ at'[q] = at[q] /\ before'[q] = before[q]
           /\ recovering'[q] = recovering[q]
  BY DEF Advance, history, journal, LInv, WorkflowTypeOK
<1>3. Prepared(p) => Prepared(p)'
  BY <1>1, <1>2 DEF Prepared
<1>4. InLesson(p)'
  BY <1>1, <1>2, <1>3, Places DEF InLesson, KeyOf, Seen, Recipe
<1> QED
  BY <1>1, <1>2, <1>4, MoveKeeps

LEMMA AdvanceQuietly ==
  ASSUME LInv, NEW p \in Proc, pc[p] = "claimed", Advance(p),
         1 < at[p], at[p] < 13, UNCHANGED <<content, registry>>
  PROVE  Learnt'
<1>1. InLesson(p)
  BY Knows
<1>2. Open(req[p].target)' = Open(req[p].target)
  BY DEF Advance, journal, history, Open
<1> QED
  BY <1>1, <1>2, AdvanceKeeps DEF InLesson, Seen

\* The object is at its baseline again.
LEMMA RestoredKeeps ==
  ASSUME LInv, NEW p \in Proc, pc[p] = "claimed", at[p] \in 11..13, Restored(p),
         SameHash(Seen(p), Baseline(p)), UNCHANGED <<content, registry>>
  PROVE  Learnt'
<1>1. /\ Executes(p) /\ InLesson(p) /\ Seen(p) \in Object
      /\ Baseline(p) \in Object
  BY Knows
<1>2. KeyOf(p) \notin Open(req[p].target)
  <2>1. Len(Seen(p).text) = Len(before[p].text) /\ Len(Seen(p).text) \in Nat
    BY <1>1 DEF SameHash, Baseline, Object
  <2> QED
    BY <1>1, <2>1 DEF InLesson
<1>3. CASE Settle(p, "FAILED")
  <2>1. Open(req[p].target)' \subseteq Open(req[p].target)
    BY <1>3, SettleNames DEF Open, Settle, LInv, Final, Safe
  <2> QED
    BY <1>2, <1>3, <2>1, SettleKeeps DEF Final, Safe
<1>4. CASE /\ at' = [at EXCEPT ![p] = RegisterAt]
           /\ UNCHANGED <<journal, before, recovering, valid, history>>
  <2>1. /\ UNCHANGED <<journal, told, landed, req>>
        /\ at'[p] = 14 /\ before'[p] = before[p]
        /\ \A q \in Proc \ {p} :
             /\ at'[q] = at[q] /\ before'[q] = before[q]
             /\ recovering'[q] = recovering[q]
    BY <1>4, Places DEF history, journal, LInv, WorkflowTypeOK
  <2>2. Open(req[p].target)' = Open(req[p].target)
    BY <2>1 DEF Open
  <2>3. InLesson(p)'
    BY <1>1, <1>2, <2>1, <2>2, Places DEF InLesson, KeyOf, Recipe
  <2> QED
    BY <1>1, <2>1, <2>2, <2>3, MoveKeeps
<1> QED
  BY <1>3, <1>4 DEF Restored

LEMMA SaveKeeps ==
  ASSUME LInv, NEW p \in Proc, Save(p)
  PROVE  Learnt'
<1>1. PICK op \in {"mark", "unmark"} :
        /\ Doing(p, op)
        /\ LET value == IF op = "mark" THEN Intended(p) ELSE Baseline(p)
               Done == content' = [content EXCEPT ![req[p].target] = value]
           IN  \/ Done /\ Advance(p) /\ UNCHANGED late
               \/ Fail(p) /\ UNCHANGED late /\ (Done \/ UNCHANGED content)
               \/ /\ Fail(p) /\ UNCHANGED content
                  /\ late' = late \cup
                       {[target |-> req[p].target, value |-> value]}
  BY DEF Save
<1> DEFINE g == req[p].target
           value == IF op = "mark" THEN Intended(p) ELSE Baseline(p)
<1>2. /\ op = "mark" => at[p] \in {3, 9}
      /\ op = "unmark" => at[p] \in {6, 12}
      /\ pc[p] = "claimed" /\ UNCHANGED registry
  BY <1>1, Places DEF Doing, Save
<1>3. /\ InLesson(p) /\ WorkflowTypeOK /\ g \in Target
      /\ Baseline(p) \in Object /\ value \in Object
  BY <1>2, Knows
<1>4. /\ value.marks \subseteq landed \cup {KeyOf(p)}
      /\ op = "unmark" => value.marks \subseteq landed
      /\ op = "mark" => Len(value.text) > Len(before[p].text)
  <2>1. before[p].marks \subseteq landed /\ before[p] \in Object
    BY <1>2, <1>3 DEF InLesson, Baseline
  <2>2. Len(Append(before[p].text, "mark")) = Len(before[p].text) + 1
    BY <2>1 DEF Object
  <2>3. Len(before[p].text) \in Nat
    BY <2>1 DEF Object
  <2> QED
    BY <2>1, <2>2, <2>3 DEF Baseline, Intended
<1>5. CASE Fail(p) /\ UNCHANGED content
  BY <1>2, <1>5, FailQuietly
<1>6. CASE content' = [content EXCEPT ![g] = value] /\ (Fail(p) \/ Advance(p))
  <2> HIDE DEF value
  <2>1. /\ content'[g] = value
        /\ \A t \in Target \ {g} : content'[t] = content[t]
    BY <1>3, <1>6 DEF WorkflowTypeOK
  <2>2. UNCHANGED <<req, landed>>
    <3>1. \A s \in {"FAILED", "AMBIGUOUS"} :
            Settle(p, s) => UNCHANGED <<req, landed>>
      BY SettleNames DEF LInv, Settle, Final, Safe
    <3> QED
      BY <1>6, <3>1, FailCases DEF FallsBack, journal, history, Advance
  <2>3. /\ Open(req[p].target)' \subseteq {KeyOf(p)}
        /\ op = "unmark" => Open(req[p].target)' = {}
    BY <1>4, <2>1, <2>2 DEF Open
  <2>4. ASSUME KeyOf(p) \in Open(req[p].target)', 1 < at[p], at[p] < 11
        PROVE  Prepared(p) /\ Len(content'[g].text) > Len(before[p].text)
    <3>1. op = "mark"
      BY <2>3, <2>4
    <3>2. recovering[p] = "no" /\ at[p] > 2
      BY <1>2, <1>3, <2>4, <3>1, Places DEF WorkflowTypeOK
    <3> QED
      BY <1>4, <2>1, <3>1, <3>2 DEF Prepared
  <2>5. CASE Advance(p)
    <3>1. KeyOf(p) \in Open(req[p].target)' =>
            Prepared(p) /\ Len(content'[req[p].target].text) > Len(before[p].text)
      BY <1>2, <2>3, <2>4
    <3>2. 1 < at[p] /\ at[p] < 13
      BY <1>2
    <3> QED
      BY <1>2, <2>1, <2>3, <2>5, <3>1, <3>2, AdvanceKeeps
  <2>6. CASE Fail(p)
    <3>1. FallsBack(p) /\ KeyOf(p) \in Open(req[p].target)' =>
            Prepared(p) /\ Len(content'[req[p].target].text) > Len(before[p].text)
      BY <2>4, Places DEF FallsBack
    <3>2. at[p] # 1
      BY <1>2
    <3>3. at[p] >= RestoreAt => op = "unmark"
      BY <1>2, Places
    <3> QED
      BY <1>2, <2>1, <2>3, <2>6, <3>1, <3>2, <3>3, FailKeeps
  <2> QED
    BY <1>6, <2>5, <2>6
<1> QED
  BY <1>1, <1>5, <1>6

\* A lesson that ends without touching the editor, before it has prepared its
\* mark or after it has proved the object restored.
LEMMA EndKeeps ==
  ASSUME LInv, NEW p \in Proc, pc[p] = "claimed", NEW s \in Safe, Settle(p, s),
         ~Prepared(p) \/ at[p] >= RegisterAt,
         s = "COMPLETED" => Recipe(p) = "recipe",
         UNCHANGED <<content, registry>>
  PROVE  Learnt'
<1>1. InLesson(p) /\ at[p] \in 0..16
  BY Knows
<1>2. KeyOf(p) \notin Open(req[p].target)
  BY <1>1, Places DEF InLesson
<1>3. Open(req[p].target)' \subseteq Open(req[p].target)
  BY SettleNames DEF Open, Settle, LInv, Final
<1> QED
  BY <1>2, <1>3, SettleKeeps DEF Final

LEMMA LookupKeeps ==
  ASSUME LInv, NEW p \in Proc, Lookup(p)
  PROVE  Learnt'
<1>1. /\ pc[p] = "claimed" /\ at[p] = 0 /\ UNCHANGED <<content, registry>>
      /\ ~Prepared(p)
  BY DEF Lookup, Prepared, editor
<1>2. Executes(p) /\ InLesson(p)
  BY <1>1, Knows
<1>3. CASE /\ Abandon(p) /\ Forget(p)
           /\ told' = told \cup {KeyOf(p)} /\ UNCHANGED landed
  <2>1. Settle(p, "FAILED")
    BY <1>1, <1>3 DEF Settle
  <2> QED
    BY <1>1, <2>1, EndKeeps DEF Safe
<1>4. CASE \/ Recipe(p) = "recipe" /\ Settle(p, "COMPLETED")
           \/ Settle(p, "FAILED")
  BY <1>1, <1>4, EndKeeps DEF Safe
<1>5. CASE /\ Recipe(p) = "none"
           /\ at' = [at EXCEPT ![p] = 1]
           /\ UNCHANGED <<journal, before, recovering, valid, history>>
  <2>1. /\ UNCHANGED <<journal, told, landed, req>>
        /\ at'[p] = 1
        /\ \A q \in Proc \ {p} :
             /\ at'[q] = at[q] /\ before'[q] = before[q]
             /\ recovering'[q] = recovering[q]
    BY <1>5 DEF history, journal, LInv, WorkflowTypeOK
  <2>2. Open(req[p].target)' = Open(req[p].target)
    BY <1>1, <2>1 DEF Open
  <2>3. InLesson(p)'
    BY <1>1, <1>2, <1>5, <2>1, <2>2, Places DEF InLesson, KeyOf, Recipe
  <2> QED
    BY <1>1, <1>2, <2>1, <2>2, <2>3, MoveKeeps
<1> QED
  BY <1>3, <1>4, <1>5 DEF Lookup

\* What is captured carries no mark but late ones: its executions are over.
LEMMA CaptureKeeps ==
  ASSUME LInv, NEW p \in Proc, Capture(p)
  PROVE  Learnt'
<1>1. /\ pc[p] = "claimed" /\ at[p] = 1 /\ UNCHANGED <<content, registry>>
      /\ ~Prepared(p)
  BY Places DEF Capture, Doing, Prepared, editor
<1>2. /\ Executes(p) /\ InLesson(p) /\ req[p].target \in Target
  BY <1>1, Knows
<1>3. Open(req[p].target) = {}
  <2> SUFFICES ASSUME NEW k \in Open(req[p].target) PROVE FALSE
    OBVIOUS
  <2>1. PICK r \in Request : Held(r) /\ r.key = k /\ r.target = req[p].target
    BY <1>2 DEF LInv, Guarded
  <2>2. r = req[p]
    BY <1>2, <2>1, ClaimedNamed DEF LInv, Executes
  <2> QED
    BY <1>1, <1>2, <2>1, <2>2 DEF InLesson, KeyOf
<1>4. /\ UNCHANGED <<journal, told, landed, req>>
      /\ at'[p] = 2 /\ before'[p] = Seen(p)
      /\ \A q \in Proc \ {p} :
           /\ at'[q] = at[q] /\ before'[q] = before[q]
           /\ recovering'[q] = recovering[q]
  BY <1>1 DEF Capture, history, journal, LInv, WorkflowTypeOK
<1>5. Open(req[p].target)' = {}
  BY <1>1, <1>3, <1>4 DEF Open
<1>6. InLesson(p)'
  BY <1>1, <1>2, <1>3, <1>4, <1>5, Places
     DEF InLesson, KeyOf, Recipe, Open, Seen
<1> QED
  BY <1>1, <1>2, <1>4, <1>5, <1>6, MoveKeeps

LEMMA LooksKeep ==
  ASSUME LInv, NEW p \in Proc, Reread(p) \/ Inspect(p) \/ Throw(p)
  PROVE  Learnt'
<1>1. pc[p] = "claimed" /\ UNCHANGED <<content, registry>>
  BY DEF Reread, Inspect, Throw, Doing, editor
<1>2. CASE Fail(p)
  BY <1>1, <1>2, FailQuietly
<1>3. CASE Reread(p) /\ ~Fail(p)
  <2>1. PICK op \in {"seeBase", "seeMark"} :
          /\ Doing(p, op)
          /\ SameHash(Seen(p), IF op = "seeBase" THEN Baseline(p) ELSE Intended(p))
          /\ IF at[p] = Len(Script) THEN Restored(p) ELSE Advance(p)
    BY <1>3 DEF Reread
  <2>2. at[p] \in 2..13 /\ (at[p] = 13 => op = "seeBase")
    BY <2>1, Places DEF Doing
  <2> QED
    BY <1>1, <2>1, <2>2, RestoredKeeps, AdvanceQuietly, Places
<1>4. CASE Inspect(p) /\ ~Fail(p)
  <2>1. at[p] = 11
    BY <1>4, Places DEF Inspect, Doing
  <2> QED
    BY <1>1, <1>4, <2>1, RestoredKeeps, AdvanceQuietly DEF Inspect
<1> QED
  BY <1>2, <1>3, <1>4 DEF Throw

LEMMA RegisterKeeps ==
  ASSUME LInv, NEW p \in Proc, Register(p) \/ RegisterFails(p)
  PROVE  Learnt'
<1>1. pc[p] = "claimed" /\ at[p] \in 14..16 /\ UNCHANGED content
  <2>1. pc[p] = "claimed" /\ at[p] >= 14 /\ UNCHANGED content
    BY Places DEF Register, RegisterFails, editor
  <2> QED
    BY <2>1, Knows
<1>2. /\ Executes(p) /\ InLesson(p)
      /\ req[p].target \in Target /\ req[p].cap \in Capability
  BY <1>1, Knows
<1>3. CASE RegisterFails(p)
  BY <1>1, <1>3, EndKeeps, Places DEF RegisterFails, Safe
<1>4. CASE at[p] = 16 /\ Settle(p, "COMPLETED") /\ UNCHANGED registry
  BY <1>1, <1>2, <1>4, EndKeeps, Places DEF InLesson, Safe
<1>5. ASSUME NEW r, SetRecipe(p, r), Advance(p),
             \/ at[p] = 14 /\ r = "partial"
             \/ at[p] = 15 /\ r = "recipe"
      PROVE  Learnt'
  <2>1. /\ UNCHANGED <<journal, told, landed, req>>
        /\ at'[p] = at[p] + 1 /\ before'[p] = before[p]
        /\ \A q \in Proc \ {p} :
             /\ at'[q] = at[q] /\ before'[q] = before[q]
             /\ recovering'[q] = recovering[q]
    BY <1>5 DEF Advance, history, journal, LInv, WorkflowTypeOK
  <2>2. Recipe(p)' = r /\ Recipe(p) # "recipe"
    BY <1>2, <1>5, <2>1, Places
       DEF SetRecipe, Recipe, InLesson, LInv, WorkflowTypeOK
  <2>3. Open(req[p].target)' = Open(req[p].target)
    BY <1>1, <2>1 DEF Open
  <2>4. InLesson(p)'
    BY <1>1, <1>2, <1>5, <2>1, <2>2, <2>3, Places DEF InLesson, KeyOf
  <2> QED
    BY <1>1, <1>2, <1>5, <2>1, <2>2, <2>3, <2>4, MoveKeeps
<1>6. ASSUME Register(p) PROVE Learnt'
  <2>1. \/ at[p] = 14 /\ SetRecipe(p, "partial") /\ Advance(p)
        \/ at[p] = 15 /\ SetRecipe(p, "recipe") /\ Advance(p)
        \/ at[p] = 16 /\ Settle(p, "COMPLETED") /\ UNCHANGED registry
    BY <1>6, Places DEF Register
  <2> QED
    BY <1>4, <1>5, <2>1
<1> QED
  BY <1>3, <1>6

LEMMA LessonKeeps ==
  ASSUME LInv, NEW p \in Proc, Lesson(p)
  PROVE  Learnt'
BY LookupKeeps, CaptureKeeps, LooksKeep, SaveKeeps, RegisterKeeps DEF Lesson

----------------------------------------------------------------------------
(* The steps around the lesson                                             *)

LEMMA AroundKeeps ==
  ASSUME LInv, NEW p \in Proc, BeginLearn(p) \/ GoOn(p) \/ Die(p)
  PROVE  Learnt'
<1>1. /\ UNCHANGED <<content, registry, told, landed>> /\ IInv
      /\ \A t : Open(t)' = Open(t)
      /\ BeginLearn(p) => Call(p)
      /\ Die(p) => Abandon(p)
      /\ GoOn(p) => Claiming(p) \/ Settling(p)
  BY DEF BeginLearn, GoOn, Die, editor, history, Open, LInv
<1>2. \A q \in Proc \ {p} :
        /\ at'[q] = at[q] /\ before'[q] = before[q]
        /\ recovering'[q] = recovering[q]
  BY DEF BeginLearn, GoOn, Die, lesson, Forget, LInv, WorkflowTypeOK
<1>3. \A q \in Proc \ {p} : pc'[q] = pc[q] /\ req'[q] = req[q]
  BY <1>1 DEF Call, Claiming, Settling, Abandon, LockKey, KeyBusy, LockKeyBare,
     LockTarget, TargetBusy, LockTargetBare, Rescan, CreateClaim, WriteClaim,
     ClaimFails, WriteFinal, ReleaseKey, ReleaseTarget, Goto, IInv, TypeOK
<1>4. \A q \in Proc \ {p} : Executes(q)' => InLesson(q)'
  <2> SUFFICES ASSUME NEW q \in Proc \ {p}, Executes(q)' PROVE InLesson(q)'
    OBVIOUS
  <2>1. InLesson(q)
    BY <1>3 DEF LInv, InLessons, Executes
  <2> QED
    BY <1>1, <1>2, <1>3, <2>1, LessonUndisturbed DEF InLesson
<1>5. CASE ~CreateClaim(p)
  <2>1. \A r, s : Named(r, s)' <=> Named(r, s)
    BY <1>1, <1>5, NamesKept DEF BeginLearn, GoOn, Die
  <2>2. Guarded' /\ ToldTrue' /\ Recipes'
    BY <1>1, <2>1 DEF LInv, Guarded, Held, ToldTrue, Recipes
  <2>3. ASSUME Executes(p)' PROVE InLesson(p)'
    <3>1. WriteClaim(p) /\ GoOn(p) /\ pc[p] = "write"
      BY <1>1, <1>5, <2>3 DEF BeginLearn, GoOn, Die, Call, Claiming, Settling,
         Abandon, LockKey, KeyBusy, LockKeyBare, LockTarget, TargetBusy,
         LockTargetBare, Rescan, WriteClaim, ClaimFails, WriteFinal,
         ReleaseKey, ReleaseTarget, Goto, IInv, TypeOK, Executes
    <3>2. InLesson(p)
      BY <3>1 DEF LInv, InLessons
    <3>3. UNCHANGED <<at, before, recovering, req>>
      BY <3>1 DEF GoOn, lesson, WriteClaim
    <3> QED
      BY <1>1, <3>2, <3>3, LessonUndisturbed DEF InLesson
  <2> QED
    BY <1>4, <2>2, <2>3 DEF Learnt, InLessons, Executes
<1>6. CASE CreateClaim(p)
  <2>1. /\ pc[p] = "create" /\ GoOn(p) /\ UNCHANGED <<at, before, recovering, req>>
    BY <1>6 DEF CreateClaim, BeginLearn, GoOn, Die, Call, lesson, Goto, Abandon,
       IInv, LInv, TypeOK
  <2>2. \A r, s : Named(r, s)' <=> Named(r, s) \/ (r = req[p] /\ s = "IN_FLIGHT")
    BY <1>1, <1>6, CreatedNames DEF CreateClaim, States
  <2>3. \A r, s : r.key = req[p].key => ~Named(r, s)
    BY <1>1, <2>1 DEF IInv, Progress, Recorded, OfKey, Named
  <2>4. Guarded' /\ Recipes'
    BY <1>1, <2>2 DEF LInv, Guarded, Held, Recipes, Safe
  <2>5. ToldTrue'
    <3> SUFFICES ASSUME NEW k \in told
                 PROVE  /\ \E r \in Request : Named(r, "IN_FLIGHT")' /\ r.key = k
                        /\ \A t \in Target : k \notin Open(t)'
      BY <1>1 DEF ToldTrue
    <3>1. PICK r \in Request : Named(r, "IN_FLIGHT") /\ r.key = k
      BY DEF LInv, ToldTrue
    <3>2. Named(r, "IN_FLIGHT")'
      BY <2>2, <3>1
    <3> QED
      BY <1>1, <3>1, <3>2 DEF LInv, ToldTrue
  <2>6. InLesson(p)'
    <3>1. at[p] = 0 /\ req[p].target \in Target
      <4>1. at[p] = 0
        BY <2>1, Places DEF LInv, WorkflowTypeOK
      <4>2. req[p].target \in Target
        BY DEF LInv, IInv, TypeOK, Request
      <4> QED
        BY <4>1, <4>2
    <3>2. KeyOf(p) \notin told
      BY <2>3 DEF LInv, ToldTrue, KeyOf
    <3>3. KeyOf(p) \notin Open(req[p].target)
      BY <2>3, <3>1 DEF LInv, Guarded, Held, KeyOf
    <3> QED
      BY <1>1, <2>1, <3>1, <3>2, <3>3, Places DEF InLesson, KeyOf
  <2> QED
    BY <1>4, <2>4, <2>5, <2>6 DEF Learnt, InLessons, Executes
<1> QED
  BY <1>5, <1>6

LEMMA SameJournal ==
  ASSUME UNCHANGED journal
  PROVE  /\ \A r, s : Named(r, s)' <=> Named(r, s)
         /\ \A r : Held(r)' <=> Held(r)
         /\ UNCHANGED <<pc, req>>
BY DEF journal, files, Named, Held

\* A write that lands late marks its keys as landed.
LEMMA LandKeeps ==
  ASSUME LInv, NEW w \in late, Land(w)
  PROVE  Learnt'
<1>1. /\ UNCHANGED <<journal, at, before, recovering, registry, told>>
      /\ landed' = landed \cup w.value.marks
      /\ w.target \in Target
      /\ content' = [content EXCEPT ![w.target] = w.value]
  BY DEF Land, lesson, LInv, WorkflowTypeOK, Write
<1>2. \A t \in Target : Open(t)' \subseteq Open(t)
  BY <1>1 DEF Open, LInv, WorkflowTypeOK
<1>3. \A t \in Target : t # w.target => content'[t] = content[t]
  BY <1>1 DEF LInv, WorkflowTypeOK
<1>4. Open(w.target)' = {}
  BY <1>1 DEF Open, LInv, WorkflowTypeOK
<1>5. Guarded' /\ ToldTrue' /\ Recipes'
  BY <1>1, <1>2, SameJournal DEF LInv, Guarded, ToldTrue, Recipes
<1>6. ASSUME NEW p \in Proc, Executes(p)' PROVE InLesson(p)'
  <2>1. InLesson(p) /\ UNCHANGED req /\ req[p].target \in Target
    BY <1>1, <1>6, SameJournal DEF LInv, InLessons, Executes, IInv, TypeOK, Request
  <2>2. Prepared(p)' <=> Prepared(p)
    BY <1>1 DEF Prepared
  <2>3. KeyOf(p) \in Open(req[p].target)' => Seen(p)' = Seen(p)
    BY <1>1, <1>3, <1>4, <2>1 DEF Seen
  <2> QED
    BY <1>1, <1>2, <2>1, <2>2, <2>3 DEF InLesson, KeyOf, Recipe
<1> QED
  BY <1>5, <1>6 DEF Learnt, InLessons, Executes

\* An edit makes the object longer and carries its marks along.
LEMMA EditKeeps ==
  ASSUME LInv, NEW t \in Target, Edit(t)
  PROVE  Learnt'
<1> DEFINE text == Append(content[t].text, "edit")
<1>1. /\ UNCHANGED <<journal, at, before, recovering, registry, told, landed>>
      /\ content' = [content EXCEPT ![t].text = text]
  BY DEF Edit, lesson, history
<1>2. content \in [Target -> Object] /\ content[t] \in Object
  BY DEF LInv, WorkflowTypeOK
<1>3. Len(text) = Len(content[t].text) + 1 /\ Len(content[t].text) \in Nat
  BY <1>2 DEF Object
<1> HIDE DEF text
<1>4. /\ content'[t].text = text /\ content'[t].marks = content[t].marks
      /\ \A g \in Target : g # t => content'[g] = content[g]
  BY <1>1, <1>2 DEF Object
<1>5. \A g \in Target : Open(g)' = Open(g)
  BY <1>1, <1>4 DEF Open
<1>6. Guarded' /\ ToldTrue' /\ Recipes'
  BY <1>1, <1>5, SameJournal DEF LInv, Guarded, ToldTrue, Recipes
<1>7. ASSUME NEW p \in Proc, Executes(p)' PROVE InLesson(p)'
  <2>1. /\ InLesson(p) /\ UNCHANGED req /\ req[p].target \in Target
        /\ WorkflowTypeOK
    BY <1>1, <1>7, SameJournal DEF LInv, InLessons, Executes, IInv, TypeOK, Request
  <2>2. Prepared(p)' <=> Prepared(p)
    BY <1>1 DEF Prepared
  <2>3. KeyOf(p) \in Open(req[p].target) /\ at[p] > 1 =>
          Len(Seen(p)'.text) > Len(before[p].text)
    <3>1. at[p] > 1 => Len(before[p].text) \in Nat
      BY <2>1 DEF WorkflowTypeOK, Object
    <3> QED
      BY <1>3, <1>4, <2>1, <3>1 DEF InLesson, Seen
  <2>4. KeyOf(p) \in Open(req[p].target) => at[p] > 1
    BY <2>1, Places DEF InLesson, Prepared, WorkflowTypeOK
  <2> QED
    BY <1>1, <1>5, <2>1, <2>2, <2>3, <2>4 DEF InLesson, KeyOf, Recipe, Seen
<1> QED
  BY <1>6, <1>7 DEF Learnt, InLessons, Executes

LEMMA LearningKeeps ==
  ASSUME LInv, [LearningNext]_vars
  PROVE  LInv'
<1>1. IInv' /\ WorkflowTypeOK'
  BY JournalKeeps, WorkflowTypes DEF LInv, IInv
<1>2. CASE UNCHANGED vars \/ \E p \in Proc : Lapse(p)
  <2>1. UNCHANGED <<journal, at, before, recovering, content, registry, told, landed>>
    BY <1>2 DEF vars, lesson, editor, history, Lapse
  <2>2. UNCHANGED <<pc, req>> /\ \A t : Open(t)' = Open(t)
    BY <2>1, SameJournal DEF Open
  <2>3. \A p \in Proc : InLesson(p) => InLesson(p)'
    BY <2>1, <2>2, LessonUndisturbed DEF InLesson
  <2>4. Learnt'
    BY <2>1, <2>2, <2>3, SameJournal
       DEF Learnt, LInv, Guarded, InLessons, ToldTrue, Recipes
  <2> QED
    BY <1>1, <2>4 DEF LInv, Learnt
<1>3. ASSUME NEW p \in Proc, BeginLearn(p) \/ GoOn(p) \/ Lesson(p) \/ Die(p)
      PROVE  Learnt'
  BY <1>3, AroundKeeps, LessonKeeps
<1>4. ASSUME NEW w \in late, Land(w) PROVE Learnt'
  BY <1>4, LandKeeps
<1>5. ASSUME NEW t \in Target, Edit(t) PROVE Learnt'
  BY <1>5, EditKeeps
<1> QED
  BY <1>1, <1>2, <1>3, <1>4, <1>5 DEF LearningNext, LInv, Learnt

LEMMA LearningInvariance == LearningSpec => []LInv
<1>1. LearningInit => LInv
  <2> SUFFICES ASSUME LearningInit PROVE LInv
    OBVIOUS
  <2>1. IInv /\ entries = {} /\ \A p \in Proc : pc[p] = "idle"
    BY InitInvariant DEF LearningInit, Init
  <2>2. WorkflowTypeOK
    <3>1. [text |-> <<>>, marks |-> {}] \in Object
      BY DEF Object
    <3> QED
      BY <2>1, <3>1, Places DEF LearningInit, WorkflowInit, WorkflowTypeOK
  <2>3. Guarded /\ ToldTrue
    BY DEF LearningInit, WorkflowInit, Guarded, ToldTrue, Open
  <2>4. InLessons /\ Recipes
    BY <2>1 DEF InLessons, Recipes, Named
  <2> QED
    BY <2>1, <2>2, <2>3, <2>4 DEF LInv
<1>2. LInv /\ [LearningNext]_vars => LInv'
  BY LearningKeeps
<1> QED
  BY <1>1, <1>2, PTL DEF LearningSpec

----------------------------------------------------------------------------
(* What follows for a lesson                                               *)

\* The state of lessons, objects and recipes stays well typed
\* (learning/workflow.ts, adapter-session-learning-provider.ts).
THEOREM LessonsTypeCorrect == LearningSpec => []WorkflowTypeOK
BY LearningInvariance, PTL DEF LInv

\* A mark that is left behind leaves its execution unresolved, so that nobody
\* learns on the object until it is looked at (workflow.ts:387-416).
THEOREM MarksAlwaysQuarantined == LearningSpec => []MarksQuarantined
<1>1. LInv => MarksQuarantined
  BY DEF LInv, Guarded, Held, Open, Named, MarksQuarantined, Claims, Finals,
     Settled
<1> QED
  BY <1>1, LearningInvariance, PTL

\* An answer that nothing changed stays true of the object
\* (workflow.ts:499-545).
THEOREM UnchangedStaysTrue == LearningSpec => []UnchangedTrue
<1>1. LInv => UnchangedTrue
  BY DEF LInv, ToldTrue, Open, UnchangedTrue, Claims, IInv, TypeOK, Entry, Request
<1> QED
  BY <1>1, LearningInvariance, PTL

\* A completed execution always has its recipe (workflow.ts:311-332).
THEOREM CompletedHaveRecipes == LearningSpec => []CompletedHasRecipe
<1>1. LInv => CompletedHasRecipe
  BY DEF LInv, Recipes, Named, CompletedHasRecipe, Finals, IInv, TypeOK, Entry
<1> QED
  BY <1>1, LearningInvariance, PTL

\* Lessons use the journal as LearningJournal has it: whatever holds of every
\* behaviour of the journal holds under the workflow.
THEOREM LessonsKeepJournal == LearningSpec => Spec
<1>1. LearningInit => Init
  BY DEF LearningInit
<1>2. [LearningNext]_vars => [Next]_journal
  BY JournalStep
<1> QED
  BY <1>1, <1>2, PTL DEF LearningSpec, Spec

\* What the journal promises of claims and of its refinement of the ledger
\* holds with lessons in between (learning/journal.ts:628-689).
THEOREM LessonsImplementLedger == LearningSpec => []ClaimDurable /\ KeepsLedger
BY LessonsKeepJournal, ClaimsDurable, ImplementsLedger, PTL
=============================================================================
