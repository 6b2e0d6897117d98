----------------------- MODULE ChangeSetEngineProofs -----------------------
(***************************************************************************)
(* Proofs about ChangeSetEngine for every number of change sets, keys,     *)
(* processes, hashes, drifts and faults.                                   *)
(***************************************************************************)
EXTENDS ChangeSetEngine, TLAPS

----------------------------------------------------------------------------
(* Type correctness                                                        *)

\* A call that is somewhere is a call; an idle process is nowhere.
LEMMA PresentCall ==
  ASSUME TypeOK, NEW p \in Procs, op[p].pc \in Steps
  PROVE  op[p] \in Call
BY DEF TypeOK, Idle, Steps

LEMMA GotoType ==
  ASSUME TypeOK, NEW p \in Procs, op[p] \in Call, NEW pc \in Steps,
         Goto(p, pc)
  PROVE  op' \in [Procs -> Call \cup {Idle}]
BY DEF TypeOK, Goto, Call

LEMMA ThrowsType ==
  ASSUME TypeOK, NEW p \in Procs, op[p] \in Call, NEW pc \in Steps,
         NEW how \in {"error", "head"}, Throws(p, how, pc)
  PROVE  op' \in [Procs -> Call \cup {Idle}]
<1>1. [op[p] EXCEPT !.threw = how, !.pc = pc] \in Call
  BY DEF Call
<1> QED
  BY <1>1 DEF TypeOK, Throws

\* What a read finds is written into the call.
LEMMA ReadType ==
  ASSUME TypeOK, NEW p \in Procs, op[p] \in Call, NEW h \in OptHash,
         NEW pc \in Steps, NEW o \in
           {[op[p] EXCEPT !.fresh = h, !.pc = pc],
            [op[p] EXCEPT !.seen = h, !.pc = pc],
            [op[p] EXCEPT !.again = h, !.pc = pc]},
         op' = [op EXCEPT ![p] = o]
  PROVE  op' \in [Procs -> Call \cup {Idle}]
<1>1. o \in Call
  BY DEF Call
<1> QED
  BY <1>1 DEF TypeOK

LEMMA FinishType ==
  ASSUME TypeOK, NEW p \in Procs, op[p] \in Call, NEW code \in Codes,
         Finish(p, code)
  PROVE  /\ lock' \in Procs \cup {Free, Stale}
         /\ op' \in [Procs -> Call \cup {Idle}]
         /\ reply' \in [kind : Kinds \cup {"none"}, code : Codes]
BY DEF TypeOK, Finish, Call

LEMMA ConcludeType ==
  ASSUME TypeOK, NEW p \in Procs, op[p] \in Call, NEW r \in Record,
         NEW code \in Codes, NEW drop \in BOOLEAN, Conclude(p, r, code, drop)
  PROVE  TypeOK'
<1>1. op[p].cs \in ChangeSets
  BY DEF Call
<1>2. journal' \in [ChangeSets -> Record]
  BY <1>1 DEF TypeOK, Conclude
<1>3. vault' \in [Procs -> SUBSET ChangeSets]
  <2>1. vault' = vault \/ Forget(p, op[p].cs)
    BY DEF Conclude
  <2> QED
    BY <2>1 DEF TypeOK, Forget
<1>4. PICK end \in Codes : Finish(p, end)
  BY DEF Conclude, Codes
<1>5. UNCHANGED <<remote, idempotency, actionClaims, snapshots, writes, bounds>>
  BY DEF Conclude
<1> QED
  BY <1>2, <1>3, <1>4, <1>5, FinishType DEF TypeOK, bounds, remote

LEMMA RecordType ==
  ASSUME TypeOK, NEW p \in Procs, op[p] \in Call, NEW s \in States,
         NEW expected \in OptHash, NEW actual \in OptHash
  PROVE  /\ Entry(p) \in Record
         /\ Concluded(p, s, expected, actual) \in Record
         /\ \A code \in Failures : Failed(p, code, expected, actual) \in Record
         /\ \A h \in OptHash :
              [Concluded(p, s, expected, actual) EXCEPT !.applied = h] \in Record
         /\ \A code \in Failures, h \in OptHash :
              /\ [Failed(p, code, expected, actual) EXCEPT !.applied = h]
                   \in Record
              /\ Ambiguous(p, code, expected, actual, h) \in Record
<1>1. Entry(p) \in Record
  BY DEF TypeOK, Entry, Call
<1>2. Concluded(p, s, expected, actual) \in Record
  BY <1>1 DEF Concluded, Record
<1>3. \A code \in Failures : Failed(p, code, expected, actual) \in Record
  BY <1>1 DEF Concluded, Record, Failed, States
<1>4. \A h \in OptHash :
        [Concluded(p, s, expected, actual) EXCEPT !.applied = h] \in Record
  BY <1>2 DEF Record
<1>5. ASSUME NEW code \in Failures, NEW h \in OptHash
      PROVE  [Failed(p, code, expected, actual) EXCEPT !.applied = h] \in Record
  BY <1>3 DEF Record
<1>6. ASSUME NEW code \in Failures, NEW h \in OptHash
      PROVE  Ambiguous(p, code, expected, actual, h) \in Record
  <2> DEFINE kept == [Entry(p) EXCEPT !.state = "FAILED", !.failure = code]
             r == IF actual = NoHash THEN kept
                  ELSE Failed(p, code, expected, actual)
  <2>1. kept \in Record
    BY <1>1 DEF Record, States
  <2>2. r \in Record
    BY <2>1, <1>3
  <2>3. \A g \in OptHash : [r EXCEPT !.applied = g] \in Record
    <3> HIDE DEF r
    <3> QED BY <2>2 DEF Record
  <2>4. r.applied \in OptHash
    <3> HIDE DEF r
    <3> QED BY <2>2 DEF Record
  <2>5. Ambiguous(p, code, expected, actual, h)
          = [r EXCEPT !.applied = IF h = NoHash THEN r.applied ELSE h]
    BY DEF Ambiguous
  <2> QED
    BY <2>3, <2>4, <2>5
<1> QED
  BY <1>1, <1>2, <1>3, <1>4, <1>5, <1>6
\* Steps that only move the call: everything else keeps its type.
LEMMA MoveType ==
  ASSUME TypeOK, op' \in [Procs -> Call \cup {Idle}],
         UNCHANGED <<remote, lock, disk, vault, reply, writes, bounds>>
  PROVE  TypeOK'
BY DEF TypeOK, remote, disk, bounds

LEMMA EndType ==
  ASSUME TypeOK, NEW p \in Procs, op[p] \in Call, NEW code \in Codes,
         Finish(p, code), UNCHANGED <<remote, disk, vault, writes>>,
         drifts' \in Nat, faults' \in Nat
  PROVE  TypeOK'
BY FinishType DEF TypeOK, remote, disk

LEMMA StartType ==
  ASSUME TypeOK, NEW p \in Procs, NEW kind \in Kinds, NEW c \in ChangeSets,
         NEW k \in OptKey, Start(p, kind, c, k)
  PROVE  TypeOK'
<1>1. [Idle EXCEPT !.kind = kind, !.pc = "read", !.cs = c, !.key = k] \in Call
  BY DEF Idle, Call, Steps, OptHash
<1> QED
  BY <1>1 DEF TypeOK, Start, remote, disk, bounds

LEMMA SendType ==
  ASSUME TypeOK, NEW p \in Procs, op[p] \in Call, NEW a \in Purposes,
         Send(p, a), op' \in [Procs -> Call \cup {Idle}]
  PROVE  TypeOK'
<1>1. writes' \in [ChangeSets -> [Purposes -> Nat]]
  BY DEF TypeOK, Send, Call
<1> QED
  BY <1>1 DEF TypeOK, Send, disk, bounds

LEMMA BindType ==
  ASSUME TypeOK, NEW p \in Procs, op[p] \in Call, op[p].kind \in Actions,
         BindKey(p)
  PROVE  TypeOK'
<1>1. op' \in [Procs -> Call \cup {Idle}]
  BY GotoType DEF BindKey, Steps
<1>2. idempotency' \in [Keys -> Binding \cup {Unbound}]
  BY DEF TypeOK, BindKey, BindingOf, Binding, Call, Actions
<1> QED
  BY <1>1, <1>2 DEF TypeOK, BindKey, remote, bounds

LEMMA UndoType ==
  ASSUME TypeOK, NEW p \in Procs, op[p] \in Call, NEW code \in Codes,
         PlanUndo(p, code), drifts' \in Nat, faults' \in Nat
  PROVE  TypeOK'
<1>1. NoRecord \in Record
  BY DEF NoRecord, Record, States, OptHash, OptKey
<1>2. journal' \in [ChangeSets -> Record]
  BY <1>1 DEF TypeOK, PlanUndo
<1>3. vault' \in [Procs -> SUBSET ChangeSets] /\ snapshots' \subseteq ChangeSets
  BY DEF TypeOK, PlanUndo, Forget
<1> QED
  BY <1>2, <1>3, FinishType DEF TypeOK, PlanUndo, remote

LEMMA PlanType ==
  ASSUME TypeOK, NEW p \in Procs, Plan(p) \/ PlanWriteFails(p)
  PROVE  TypeOK'
<1>1. op[p] \in Call
  BY PresentCall DEF Plan, PlanWriteFails, PlanSnapshot, PlanRejected, PlanEvent,
     PlanBind, PlanConflict, Running, Steps
<1>2. CASE PlanSnapshot(p)
  <2>1. op' \in [Procs -> Call \cup {Idle}]
    BY <1>1, <1>2, ReadType DEF PlanSnapshot, Steps, OptHash
  <2> QED
    BY <1>1, <1>2, <2>1 DEF PlanSnapshot, TypeOK, remote, bounds, Call
<1>3. CASE PlanRejected(p)
  BY <1>1, <1>3, EndType DEF PlanRejected, Codes, bounds, TypeOK
<1>4. CASE PlanEvent(p)
  <2>1. [NoRecord EXCEPT !.state = "PLANNED", !.before = op[p].fresh,
                         !.after = op[p].seen, !.planKey = op[p].key] \in Record
    BY <1>1 DEF NoRecord, Record, Call, States, OptHash
  <2>2. journal' \in [ChangeSets -> Record]
    BY <1>4, <2>1 DEF PlanEvent, TypeOK
  <2>3. CASE Finish(p, "OK")
    BY <1>1, <1>4, <2>2, <2>3, FinishType DEF PlanEvent, TypeOK, remote, bounds, Codes
  <2>4. CASE Goto(p, "bind") /\ UNCHANGED <<lock, reply>>
    BY <1>1, <1>4, <2>2, <2>4, GotoType DEF PlanEvent, TypeOK, remote, bounds, Steps
  <2> QED
    BY <1>4, <2>3, <2>4 DEF PlanEvent
<1>5. CASE PlanBind(p)
  <2>1. idempotency' \in [Keys -> Binding \cup {Unbound}]
    BY <1>1, <1>5 DEF PlanBind, TypeOK, BindingOf, Binding, Call
  <2> QED
    BY <1>1, <1>5, <2>1, FinishType DEF PlanBind, TypeOK, remote, bounds, Codes
<1>6. CASE PlanConflict(p)
  BY <1>1, <1>6, UndoType DEF PlanConflict, TypeOK, bounds, Codes
<1>7. CASE PlanWriteFails(p)
  BY <1>1, <1>7, UndoType DEF PlanWriteFails, TypeOK, Codes
<1> QED
  BY <1>2, <1>3, <1>4, <1>5, <1>6, <1>7 DEF Plan

LEMMA ApplyType ==
  ASSUME TypeOK, NEW p \in Procs, Apply(p)
  PROVE  TypeOK'
<1>1. op[p] \in Call
  BY PresentCall DEF Apply, ApplyReplay, ApplyStale, ApplyPermit, ApplyGuard,
     ApplyWrite, ApplyReread, Diagnose, ApplySettle, ApplyMismatch,
     RecoverySettle, Running, At, Steps
<1> DEFINE r == Entry(p)
<1>2. /\ r.before \in OptHash /\ r.after \in OptHash
      /\ op[p].fresh \in OptHash /\ op[p].seen \in OptHash
      /\ op[p].again \in OptHash
  BY <1>1 DEF TypeOK, Call, Record, Entry
<1>3. CASE ApplyReplay(p)
  BY <1>1, <1>2, <1>3, RecordType, ConcludeType
  DEF ApplyReplay, Failures, BaselineFailures, AmbiguousFailures, States, Codes
<1>4. CASE ApplyStale(p)
  BY <1>1, <1>4, EndType DEF ApplyStale, Codes, bounds, TypeOK
<1>5. CASE ApplyPermit(p)
  BY <1>1, <1>5, BindType DEF ApplyPermit, Running, Actions
<1>6. CASE ApplyGuard(p)
  <2>1. op' \in [Procs -> Call \cup {Idle}]
    BY <1>1, <1>6, GotoType, ThrowsType DEF ApplyGuard, Steps
  <2> QED
    BY <1>6, <2>1, MoveType DEF ApplyGuard
<1>7. CASE ApplyWrite(p)
  <2>1. op' \in [Procs -> Call \cup {Idle}]
    BY <1>1, <1>7, GotoType, ThrowsType DEF ApplyWrite, Steps
  <2> QED
    BY <1>1, <1>7, <2>1, SendType DEF ApplyWrite, Purposes, Actions
<1>8. CASE ApplyReread(p)
  <2>1. op' \in [Procs -> Call \cup {Idle}]
    BY <1>1, <1>8, ReadType, ThrowsType
    DEF ApplyReread, Steps, TypeOK, OptHash
  <2> QED
    BY <1>8, <2>1, MoveType DEF ApplyReread
<1>9. CASE Diagnose(p)
  <2>1. PICK h \in OptHash :
          op' = [op EXCEPT ![p] = [@ EXCEPT !.seen = h, !.pc = "settle"]]
    BY <1>9 DEF Diagnose, TypeOK, OptHash
  <2>2. op' \in [Procs -> Call \cup {Idle}]
    BY <1>1, <2>1, ReadType DEF Steps, TypeOK
  <2> QED
    BY <1>9, <2>2, MoveType DEF Diagnose
<1>10. CASE ApplySettle(p)
  BY <1>1, <1>2, <1>10, RecordType, ConcludeType
  DEF ApplySettle, Failures, BaselineFailures, AmbiguousFailures, States, Codes
<1>11. CASE ApplyMismatch(p)
  BY <1>1, <1>11, GotoType, MoveType DEF ApplyMismatch, Steps
<1>12. CASE RecoverySettle(p)
  BY <1>1, <1>2, <1>12, RecordType, ConcludeType
  DEF RecoverySettle, Failures, BaselineFailures, AmbiguousFailures, States, Codes
<1> QED
  BY <1>3, <1>4, <1>5, <1>6, <1>7, <1>8, <1>9, <1>10, <1>11, <1>12 DEF Apply

LEMMA RestoreType ==
  ASSUME TypeOK, NEW p \in Procs, Restore(p)
  PROVE  TypeOK'
<1>1. op[p] \in Call
  BY PresentCall DEF Restore, RestoreRefused, RestoreWrite, RestoreReread,
     Rediagnose, At, Steps
<1>2. op' \in [Procs -> Call \cup {Idle}]
  <2>1. CASE Rediagnose(p)
    <3>1. PICK h \in OptHash :
            op' = [op EXCEPT ![p] = [@ EXCEPT !.again = h, !.pc = "resettle"]]
      BY <2>1 DEF Rediagnose, TypeOK, OptHash
    <3> QED
      BY <1>1, <3>1, ReadType DEF Steps, TypeOK
  <2> QED
    BY <1>1, <2>1, GotoType, ThrowsType
    DEF Restore, RestoreRefused, RestoreWrite, RestoreReread, Steps
<1>3. CASE RestoreWrite(p)
  BY <1>1, <1>2, <1>3, SendType DEF RestoreWrite, Purposes, Actions
<1> QED
  BY <1>2, <1>3, MoveType DEF Restore, RestoreRefused, RestoreReread, Rediagnose

LEMMA RollbackType ==
  ASSUME TypeOK, NEW p \in Procs, Rollback(p)
  PROVE  TypeOK'
<1>1. op[p] \in Call
  BY PresentCall DEF Rollback, RollbackReplay, RollbackStale, RollbackPermit,
     RollbackSettle, Running, Steps
<1> DEFINE r == Entry(p)
<1>2. /\ r.before \in OptHash /\ r.after \in OptHash
      /\ op[p].fresh \in OptHash /\ op[p].again \in OptHash
      /\ NoHash \in OptHash
  BY <1>1, RecordType, SMTT(30) DEF Call, Record, OptHash, States
<1>3. CASE RollbackReplay(p)
  BY <1>1, <1>2, <1>3, RecordType, ConcludeType, EndType
  DEF RollbackReplay, Failures, AppliedFailures, AmbiguousFailures, States, Codes,
      TypeOK, bounds
<1>4. CASE RollbackStale(p)
  BY <1>1, <1>4, EndType DEF RollbackStale, Codes, bounds, TypeOK
<1>5. CASE RollbackPermit(p)
  BY <1>1, <1>5, BindType DEF RollbackPermit, Running, Actions
<1>6. CASE RollbackSettle(p)
  BY <1>1, <1>2, <1>6, RecordType, ConcludeType
  DEF RollbackSettle, Failures, AppliedFailures, AmbiguousFailures, States, Codes
<1> QED
  BY <1>3, <1>4, <1>5, <1>6 DEF Rollback

LEMMA OtherType ==
  ASSUME TypeOK, NEW p \in Procs,
         Read(p) \/ ReadThrows(p) \/ ClaimAction(p) \/ VerifySettle(p)
           \/ WriteFails(p)
  PROVE  TypeOK'
<1>1. op[p] \in Call
  BY PresentCall DEF Read, ReadThrows, ClaimAction, VerifySettle, WriteFails,
     Running, At, Steps
<1>2. CASE Read(p)
  <2>1. op' \in [Procs -> Call \cup {Idle}]
    BY <1>1, <1>2, ReadType DEF Read, Steps, TypeOK, OptHash
  <2> QED
    BY <1>2, <2>1, MoveType DEF Read
<1>3. CASE ReadThrows(p)
  BY <1>1, <1>3, EndType DEF ReadThrows, Codes, bounds, TypeOK
<1>4. CASE ClaimAction(p)
  <2>1. op' \in [Procs -> Call \cup {Idle}]
    BY <1>1, <1>4, GotoType DEF ClaimAction, Steps
  <2>2. actionClaims' \in [ChangeSets -> [Actions -> OptKey]]
    BY <1>1, <1>4 DEF ClaimAction, TypeOK, Call
  <2> QED
    BY <1>4, <2>1, <2>2 DEF ClaimAction, TypeOK, remote, bounds
<1>5. CASE VerifySettle(p)
  <2> DEFINE r == Entry(p)
  <2>1. /\ r \in Record /\ r.before \in OptHash /\ r.after \in OptHash
        /\ r.state \in States /\ op[p].fresh \in OptHash
    <3>1. r \in Record
      BY <1>1 DEF TypeOK, Entry, Call
    <3> HIDE DEF r
    <3> QED
      BY <1>1, <3>1 DEF Call, Record
  <2> HIDE DEF r
  <2>2. PICK s \in States, e \in OptHash, code \in Codes :
          Conclude(p, Concluded(p, s, e, op[p].fresh), code, FALSE)
    BY <1>5, <2>1 DEF VerifySettle, Codes, States, r
  <2> QED
    BY <1>1, <2>1, <2>2, RecordType, ConcludeType
<1>6. CASE WriteFails(p)
  BY <1>1, <1>6, EndType DEF WriteFails, Codes, TypeOK
<1> QED
  BY <1>2, <1>3, <1>4, <1>5, <1>6

LEMMA TypeStep ==
  ASSUME TypeOK, [Next]_vars
  PROVE  TypeOK'
<1>1. CASE UNCHANGED vars
  BY <1>1 DEF TypeOK, vars, remote, disk, bounds
<1>2. ASSUME NEW p \in Procs, Begin(p) PROVE TypeOK'
  BY <1>2, StartType DEF Begin, VerifyBegin, PlanBegin, ApplyBegin,
     RollbackBegin, Kinds, Actions, OptKey
<1>3. ASSUME NEW p \in Procs, Proceed(p) PROVE TypeOK'
  BY <1>3, PlanType, ApplyType, RestoreType, RollbackType, OtherType
  DEF Proceed
<1>4. ASSUME NEW p \in Procs, ProcessDies(p) PROVE TypeOK'
  BY <1>4 DEF ProcessDies, TypeOK, remote, disk, Idle
<1>5. ASSUME NEW p \in Procs, PlanWriteFails(p) \/ WriteFails(p) PROVE TypeOK'
  BY <1>5, PlanType, OtherType
<1>6. CASE RemoveStaleLock
  BY <1>6 DEF RemoveStaleLock, TypeOK, remote, disk, bounds
<1>7. CASE Drift
  BY <1>7 DEF Drift, TypeOK, disk
<1>8. CASE Landing
  BY <1>8 DEF Landing, Land, TypeOK, disk, bounds
<1> QED
  BY <1>1, <1>2, <1>3, <1>4, <1>5, <1>6, <1>7, <1>8 DEF Next, Fault

LEMMA TypeInit == Init => TypeOK
BY ConstantsAssumption
DEF Init, TypeOK, NoRecord, Record, States, OptHash, OptKey, Codes

\* Every reachable state of the engine has the types of TypeOK.
THEOREM TypeCorrect == Spec => []TypeOK
BY TypeInit, TypeStep, PTL DEF Spec

----------------------------------------------------------------------------
(* The inductive invariant                                                 *)

ClaimOf(p) == actionClaims[op[p].cs][op[p].kind]
SentBy(p, a) == writes[op[p].cs][a]
MayClaim(p) ==
  \/ Replays(op[p].key, op[p].kind, op[p].cs)
  \/ Unclaimed(op[p].key, op[p].kind, op[p].cs)
Claiming(p) ==
  /\ ClaimOf(p) = NoKey
  /\ idempotency[op[p].key] = BindingOf(op[p].kind, op[p].cs)

\* What a plan has written so far.
InPlan(p) ==
  op[p].kind = "plan" =>
    /\ op[p].pc \in {"read", "decide", "event", "bind"}
    /\ \A a \in Actions : actionClaims[op[p].cs][a] = NoKey
    /\ IF op[p].pc = "bind"
       THEN op[p].key \in Keys /\ Entry(p).state = "PLANNED"
       ELSE Entry(p).state = "NONE"
    /\ op[p].pc \in {"event", "bind"} => op[p].cs \in snapshots
    /\ op[p].pc = "event" => op[p].seen # op[p].fresh

\* An apply writes after its claim and before its outcome.
InApply(p) ==
  op[p].kind = "apply" =>
    /\ op[p].key \in Keys
    /\ Entry(p).state = "PLANNED"
    /\ op[p].pc \notin {"event", "bind"}
    /\ op[p].pc \in {"read", "decide"} => MayClaim(p)
    /\ op[p].pc = "claim" => Claiming(p)
    /\ op[p].pc \notin {"read", "decide", "claim"} => ClaimOf(p) # NoKey
    /\ op[p].pc \in {"guard", "write"} => SentBy(p, "apply") = 0
    /\ op[p].pc \in {"reread", "diagnose", "settle", "restore"} =>
         SentBy(p, "recovery") = 0
    /\ op[p].pc \in {"reread", "restore"} => SentBy(p, "apply") = 1
    /\ op[p].pc = "diagnose" => op[p].threw # "no"
    /\ op[p].pc = "settle" /\ op[p].threw = "no" => SentBy(p, "apply") = 1

\* A rollback restores after its claim, and only what was once applied.
InRollback(p) ==
  op[p].kind = "rollback" =>
    /\ op[p].key \in Keys
    /\ Entry(p).state \notin {"NONE", "ROLLED_BACK"}
    /\ op[p].pc \in {"read", "decide", "claim", "restore", "restored",
                      "rediagnose", "resettle"}
    /\ op[p].pc \in {"read", "decide"} => MayClaim(p)
    /\ op[p].pc = "claim" =>
         /\ Claiming(p)
         /\ op[p].fresh = Entry(p).after => Entry(p).state # "PLANNED"
    /\ op[p].pc \notin {"read", "decide", "claim"} => ClaimOf(p) # NoKey
    /\ op[p].pc = "restore" =>
         SentBy(p, "rollback") = 0 /\ Entry(p).state # "PLANNED"

InVerify(p) ==
  op[p].kind = "verify" =>
    op[p].pc \in {"read", "decide"} /\ Entry(p).state # "NONE"

Local(p) == InPlan(p) /\ InApply(p) /\ InRollback(p) /\ InVerify(p)

\* A claim's key is bound to what it claims.
KeyBound ==
  \A c \in ChangeSets, a \in Actions :
    actionClaims[c][a] # NoKey =>
      idempotency[actionClaims[c][a]] = BindingOf(a, c)

\* Nothing is claimed of a change set that was never journalled, and a
\* planned change differs from its baseline.
PlannedFirst ==
  \A c \in ChangeSets :
    IF journal[c].state = "NONE"
    THEN \A a \in Actions : actionClaims[c][a] = NoKey
    ELSE journal[c].before # journal[c].after

Durable ==
  SentOnce /\ OutcomeClaimed /\ SnapshotKept /\ KeyBound /\ PlannedFirst

IInv ==
  /\ TypeOK
  /\ LockHeld
  /\ Durable
  /\ \A p \in Procs : Local(p)
----------------------------------------------------------------------------
(* Preservation, by what a step does                                       *)

LEMMA Sole ==
  ASSUME IInv, NEW p \in Procs, op[p] \in Call
  PROVE  lock = p /\ \A q \in Procs \ {p} : op[q] = Idle
BY ConstantsAssumption DEF IInv, LockHeld, Idle, Call, Steps

LEMMA IdleLocal ==
  ASSUME NEW p \in Procs, op'[p] = Idle
  PROVE  Local(p)'
BY DEF Local, InPlan, InApply, InRollback, InVerify, Idle

\* A step of the running process that keeps the durable state in order, and
\* either goes on in order or ends.
LEMMA RunInv ==
  ASSUME IInv, TypeOK', Durable', NEW p \in Procs, op[p] \in Call,
         \A q \in Procs \ {p} : op'[q] = op[q],
         \/ lock' = p /\ op'[p] # Idle /\ Local(p)'
         \/ lock' \in {Free, Stale} /\ op'[p] = Idle
  PROVE  IInv'
<1>1. lock = p /\ \A q \in Procs \ {p} : op'[q] = Idle
  BY Sole
<1>2. \A q \in Procs : Local(q)'
  BY <1>1, IdleLocal
<1>3. LockHeld'
  BY <1>1, ConstantsAssumption DEF LockHeld
<1> QED
  BY <1>2, <1>3 DEF IInv

LEMMA DurableSame ==
  ASSUME Durable, UNCHANGED <<disk, writes>>
  PROVE  Durable'
BY DEF Durable, SentOnce, OutcomeClaimed, SnapshotKept, KeyBound, PlannedFirst,
       disk

LEMMA EndInv ==
  ASSUME IInv, TypeOK', Durable', NEW p \in Procs, op[p] \in Call, NEW code,
         Finish(p, code)
  PROVE  IInv'
<1>1. op'[p] = Idle /\ \A q \in Procs \ {p} : op'[q] = op[q]
  BY DEF IInv, TypeOK, Finish
<1> QED
  BY <1>1, RunInv DEF Finish

LEMMA MoveInv ==
  ASSUME IInv, TypeOK', NEW p \in Procs, op[p] \in Call, NEW o,
         op' = [op EXCEPT ![p] = o], o # Idle, Durable', lock' = lock,
         Local(p)'
  PROVE  IInv'
<1>1. op'[p] = o /\ \A q \in Procs \ {p} : op'[q] = op[q]
  BY DEF IInv, TypeOK
<1> QED
  BY <1>1, RunInv, Sole

\* The outcome s may follow the running call's last journalled state.
RestsOnClaim(p, s) ==
  \/ s = Entry(p).state
  \/ s = "VERIFIED" /\ Entry(p).state = "APPLIED"
  \/ /\ s = "APPLIED" /\ Entry(p).state = "PLANNED"
     /\ actionClaims[op[p].cs]["apply"] # NoKey
  \/ /\ s = "FAILED" /\ Entry(p).state = "PLANNED"
     /\ \E a \in Actions : actionClaims[op[p].cs][a] # NoKey
  \/ /\ s \in {"ROLLED_BACK", "FAILED"}
     /\ Entry(p).state # "ROLLED_BACK"
     /\ actionClaims[op[p].cs]["rollback"] # NoKey

\* The call ends, and journals at most one outcome that rests on a claim.
Settles(p) ==
  /\ Entry(p).state # "NONE"
  /\ \E code : Finish(p, code)
  /\ UNCHANGED <<idempotency, actionClaims, snapshots, writes>>
  /\ \/ UNCHANGED journal
     \/ \E r : /\ journal' = [journal EXCEPT ![op[p].cs] = r]
               /\ r.before = Entry(p).before /\ r.after = Entry(p).after
               /\ RestsOnClaim(p, r.state)

LEMMA ConcludeSettles ==
  ASSUME NEW p \in Procs, NEW r, NEW code, NEW drop, Conclude(p, r, code, drop),
         Entry(p).state # "NONE", RestsOnClaim(p, r.state),
         r.before = Entry(p).before, r.after = Entry(p).after
  PROVE  Settles(p)
BY DEF Conclude, Settles

LEMMA SettlesInv ==
  ASSUME IInv, TypeOK', NEW p \in Procs, op[p] \in Call, Settles(p)
  PROVE  IInv'
<1>1. PICK end : Finish(p, end)
  BY DEF Settles
<1>2. /\ op[p].cs \in ChangeSets
      /\ UNCHANGED <<idempotency, actionClaims, snapshots, writes>>
  BY DEF Call, Settles
<1>3. CASE UNCHANGED journal
  BY <1>1, <1>2, <1>3, EndInv, DurableSame DEF disk, IInv
<1>4. ASSUME NEW r, journal' = [journal EXCEPT ![op[p].cs] = r],
             r.before = Entry(p).before, r.after = Entry(p).after,
             RestsOnClaim(p, r.state)
      PROVE  IInv'
  <2>1. /\ journal'[op[p].cs] = r
        /\ \A d \in ChangeSets \ {op[p].cs} : journal'[d] = journal[d]
    BY <1>2, <1>4 DEF IInv, TypeOK
  <2>2. r.state # "NONE" /\ Entry(p).state # "NONE"
    BY <1>4 DEF Settles, RestsOnClaim
  <2>3. SentOnce' /\ KeyBound'
    BY <1>2 DEF IInv, Durable, SentOnce, KeyBound
  <2>4. SnapshotKept' /\ PlannedFirst'
    BY <1>2, <1>4, <2>1, <2>2 DEF IInv, Durable, SnapshotKept, PlannedFirst, Entry
  <2>5. OutcomeClaimed'
    BY <1>2, <1>4, <2>1, <2>2 DEF IInv, Durable, OutcomeClaimed, Entry,
       RestsOnClaim, Actions
  <2> QED
    BY <1>1, <2>3, <2>4, <2>5, EndInv DEF Durable
<1> QED
  BY <1>3, <1>4 DEF Settles

\* What the records of a conclusion keep.
LEMMA RecordFields ==
  ASSUME TypeOK, NEW p \in Procs, op[p] \in Call, NEW s, NEW expected,
         NEW actual, NEW code, NEW h,
         NEW r \in
           {Concluded(p, s, expected, actual),
            [Concluded(p, s, expected, actual) EXCEPT !.applied = h]}
  PROVE  r.state = s /\ r.before = Entry(p).before /\ r.after = Entry(p).after
<1>1. Entry(p) \in Record
  BY DEF TypeOK, Entry, Call
<1> QED
  BY <1>1 DEF Concluded, Record

LEMMA FailedFields ==
  ASSUME TypeOK, NEW p \in Procs, op[p] \in Call, NEW expected,
         NEW actual, NEW code, NEW h,
         NEW r \in
           {Failed(p, code, expected, actual),
            [Failed(p, code, expected, actual) EXCEPT !.applied = h],
            Ambiguous(p, code, expected, actual, h)}
  PROVE  /\ r.state = "FAILED" /\ r.before = Entry(p).before
         /\ r.after = Entry(p).after
<1>1. Entry(p) \in Record
  BY DEF TypeOK, Entry, Call
<1> QED
  BY <1>1 DEF Failed, Concluded, Record, Ambiguous
----------------------------------------------------------------------------
(* Every action preserves the invariant                                    *)

LEMMA BeginInv ==
  ASSUME IInv, TypeOK', NEW p \in Procs, Begin(p)
  PROVE  IInv'
<1>1. PICK kind \in Kinds, c \in ChangeSets, k \in OptKey :
        /\ Start(p, kind, c, k)
        /\ kind = "plan" => journal[c].state = "NONE"
        /\ kind = "verify" => journal[c].state # "NONE"
        /\ kind = "apply" => journal[c].state = "PLANNED"
        /\ kind = "rollback" => journal[c].state \notin {"NONE", "ROLLED_BACK"}
        /\ kind \in Actions =>
             k \in Keys /\ (Replays(k, kind, c) \/ Unclaimed(k, kind, c))
  BY DEF Begin, VerifyBegin, PlanBegin, ApplyBegin, RollbackBegin, Kinds,
     Actions, OptKey, ExpectsBefore, ExpectsAfter
<1> DEFINE o == [Idle EXCEPT !.kind = kind, !.pc = "read", !.cs = c, !.key = k]
<1>2. o.kind = kind /\ o.pc = "read" /\ o.cs = c /\ o.key = k
  BY DEF Idle
<1>3. op'[p] = o /\ \A q \in Procs \ {p} : op'[q] = op[q]
  BY <1>1 DEF Start, IInv, TypeOK
<1> HIDE DEF o
<1>4. lock' = p /\ \A q \in Procs : op[q] = Idle
  BY <1>1, ConstantsAssumption DEF Start, IInv, LockHeld
<1>5. Durable'
  BY <1>1, DurableSame DEF Start, IInv
<1>6. Local(p)'
  <2>1. InPlan(p)'
    BY <1>1, <1>2, <1>3 DEF InPlan, Start, disk, IInv, Durable, PlannedFirst, Entry
  <2>2. InApply(p)'
    BY <1>1, <1>2, <1>3 DEF InApply, Start, disk, Entry, MayClaim, Replays,
       Unclaimed, Actions
  <2>3. InRollback(p)'
    BY <1>1, <1>2, <1>3 DEF InRollback, Start, disk, Entry, MayClaim, Replays,
       Unclaimed, Actions
  <2>4. InVerify(p)'
    BY <1>1, <1>2, <1>3 DEF InVerify, Start, disk, Entry
  <2> QED
    BY <2>1, <2>2, <2>3, <2>4 DEF Local
<1>7. op'[p] # Idle
  BY <1>2, <1>3 DEF Idle
<1>8. \A q \in Procs : Local(q)'
  BY <1>3, <1>4, <1>6, IdleLocal
<1>9. LockHeld'
  BY <1>3, <1>4, <1>7 DEF LockHeld
<1> QED
  BY <1>5, <1>8, <1>9 DEF IInv

\* A running call that moves to pc, as the same call.
Moved(p, pc) ==
  /\ \A q \in Procs \ {p} : op'[q] = op[q]
  /\ op'[p].kind = op[p].kind /\ op'[p].cs = op[p].cs
  /\ op'[p].key = op[p].key /\ op'[p].pc = pc

LEMMA GotoFields ==
  ASSUME TypeOK, NEW p \in Procs, op[p] \in Call, NEW pc, Goto(p, pc)
  PROVE  Moved(p, pc) /\ op'[p].fresh = op[p].fresh /\ op'[p].threw = op[p].threw
BY DEF Goto, Moved, TypeOK, Call

LEMMA ThrowsFields ==
  ASSUME TypeOK, NEW p \in Procs, op[p] \in Call, NEW pc, NEW how,
         Throws(p, how, pc)
  PROVE  Moved(p, pc) /\ op'[p].threw = how
BY DEF Throws, Moved, TypeOK, Call

LEMMA ReadFields ==
  ASSUME TypeOK, NEW p \in Procs, op[p] \in Call, NEW pc, NEW h, NEW o \in
           {[op[p] EXCEPT !.fresh = h, !.pc = pc],
            [op[p] EXCEPT !.seen = h, !.pc = pc],
            [op[p] EXCEPT !.again = h, !.pc = pc]},
         op' = [op EXCEPT ![p] = o]
  PROVE  Moved(p, pc) /\ op'[p].threw = op[p].threw
BY DEF Moved, TypeOK, Call

LEMMA ReadInv ==
  ASSUME IInv, TypeOK', NEW p \in Procs, Read(p) \/ ReadThrows(p)
  PROVE  IInv'
<1>1. op[p] \in Call
  BY PresentCall DEF IInv, Read, ReadThrows, At, Steps
<1>2. Durable'
  BY DurableSame DEF IInv, Read, ReadThrows
<1>3. CASE Read(p)
  <2>1. Moved(p, "decide")
    BY <1>1, <1>3, ReadFields DEF Read, IInv
  <2>2. Local(p)'
    BY <1>3, <2>1, SMTT(30) DEF Read, At, IInv, Local, InPlan, InApply, InRollback,
       InVerify, Entry, MayClaim, Replays, Unclaimed, disk, Moved
  <2> QED
    BY <1>1, <1>2, <1>3, <2>1, <2>2, MoveInv DEF Read, Moved, Idle
<1>4. CASE ReadThrows(p)
  BY <1>1, <1>2, <1>4, EndInv DEF ReadThrows
<1> QED
  BY <1>3, <1>4

LEMMA ApplyQuietInv ==
  ASSUME IInv, TypeOK', NEW p \in Procs,
         \/ ApplyGuard(p) \/ ApplyReread(p) \/ Diagnose(p) \/ ApplyMismatch(p)
  PROVE  IInv'
<1>1. op[p] \in Call
  BY PresentCall DEF IInv, ApplyGuard, ApplyReread, Diagnose, ApplyMismatch, At,
     Steps
<1>2. \/ op[p].pc = "guard" /\ Moved(p, "write")
      \/ /\ op[p].pc \in {"guard", "reread"}
         /\ Moved(p, "diagnose") /\ op'[p].threw # "no"
      \/ op[p].pc = "reread" /\ Moved(p, "settle")
      \/ /\ op[p].pc = "diagnose"
         /\ Moved(p, "settle") /\ op'[p].threw = op[p].threw
      \/ op[p].pc = "settle" /\ op[p].threw = "no" /\ Moved(p, "restore")
  <2>1. CASE ApplyGuard(p)
    <3>1. CASE Goto(p, "write")
      BY <1>1, <2>1, <3>1, GotoFields DEF ApplyGuard, At, IInv
    <3>2. CASE Throws(p, "error", "diagnose")
      BY <1>1, <2>1, <3>2, ThrowsFields DEF ApplyGuard, At, IInv
    <3> QED
      BY <2>1, <3>1, <3>2 DEF ApplyGuard
  <2>2. CASE ApplyReread(p)
    <3>1. CASE op' = [op EXCEPT ![p] = [@ EXCEPT !.seen = editor, !.pc = "settle"]]
      BY <1>1, <2>2, <3>1, ReadFields DEF ApplyReread, At, IInv
    <3>2. CASE Throws(p, "head", "diagnose")
      BY <1>1, <2>2, <3>2, ThrowsFields DEF ApplyReread, At, IInv
    <3>3. CASE Throws(p, "error", "diagnose")
      BY <1>1, <2>2, <3>3, ThrowsFields DEF ApplyReread, At, IInv
    <3> QED
      BY <2>2, <3>1, <3>2, <3>3 DEF ApplyReread
  <2>3. CASE Diagnose(p)
    <3>1. PICK h :
            op' = [op EXCEPT ![p] = [@ EXCEPT !.seen = h, !.pc = "settle"]]
      BY <2>3 DEF Diagnose
    <3> QED
      BY <1>1, <2>3, <3>1, ReadFields DEF Diagnose, At, IInv
  <2>4. CASE ApplyMismatch(p)
    BY <1>1, <2>4, GotoFields DEF ApplyMismatch, Mismatched, At, IInv
  <2> QED
    BY <2>1, <2>2, <2>3, <2>4
<1>3. UNCHANGED <<lock, disk, writes>>
  BY DEF ApplyGuard, ApplyReread, Diagnose, ApplyMismatch
<1>4. op[p].kind = "apply"
  BY <1>1, <1>2 DEF IInv, Local, InPlan, InRollback, InVerify, Call, Kinds, Actions
<1>5. Local(p)'
  <2>1. /\ op'[p].kind = "apply" /\ op'[p].key = op[p].key
        /\ Entry(p)' = Entry(p) /\ ClaimOf(p)' = ClaimOf(p)
        /\ \A a : SentBy(p, a)' = SentBy(p, a)
    BY <1>2, <1>3, <1>4 DEF Entry, ClaimOf, SentBy, disk, Moved
  <2>2. InApply(p)
    BY DEF IInv, Local
  <2>3. op'[p].pc \in {"write", "diagnose", "settle", "restore"}
    BY <1>2 DEF Moved
  <2>4. /\ op'[p].pc = "write" => op[p].pc = "guard"
        /\ op'[p].pc = "diagnose" =>
             op[p].pc \in {"guard", "reread"} /\ op'[p].threw # "no"
        /\ op'[p].pc = "settle" =>
             \/ op[p].pc = "reread"
             \/ op[p].pc = "diagnose" /\ op'[p].threw = op[p].threw
        /\ op'[p].pc = "restore" => op[p].pc = "settle" /\ op[p].threw = "no"
    BY <1>2 DEF Moved
  <2>5. SentBy(p, "apply") = 0 => SentBy(p, "recovery") = 0
    BY <1>1 DEF IInv, Durable, SentOnce, SentBy, TypeOK, Call, Purposes, Actions
  <2>6. InApply(p)'
    BY <1>4, <2>1, <2>2, <2>3, <2>4, <2>5 DEF InApply
  <2> QED
    BY <2>1, <2>6 DEF Local, InPlan, InRollback, InVerify
<1>6. op'[p] # Idle /\ \A q \in Procs \ {p} : op'[q] = op[q]
  BY <1>2 DEF Moved, Idle
<1> QED
  BY <1>1, <1>3, <1>5, <1>6, RunInv, Sole, DurableSame DEF IInv

LEMMA RestoreQuietInv ==
  ASSUME IInv, TypeOK', NEW p \in Procs,
         RestoreRefused(p) \/ RestoreReread(p) \/ Rediagnose(p)
  PROVE  IInv'
<1>1. op[p] \in Call
  BY PresentCall DEF IInv, RestoreRefused, RestoreReread, Rediagnose, At, Steps
<1>2. /\ op[p].pc \in {"restore", "restored", "rediagnose"}
      /\ Moved(p, "rediagnose") \/ Moved(p, "resettle")
  <2>1. CASE RestoreRefused(p)
    BY <1>1, <2>1, ThrowsFields DEF RestoreRefused, At, IInv
  <2>2. CASE RestoreReread(p)
    <3>1. CASE Goto(p, "rediagnose")
      BY <1>1, <2>2, <3>1, GotoFields DEF RestoreReread, At, IInv
    <3>2. CASE Throws(p, "head", "rediagnose")
      BY <1>1, <2>2, <3>2, ThrowsFields DEF RestoreReread, At, IInv
    <3>3. CASE Throws(p, "error", "rediagnose")
      BY <1>1, <2>2, <3>3, ThrowsFields DEF RestoreReread, At, IInv
    <3> QED
      BY <2>2, <3>1, <3>2, <3>3 DEF RestoreReread
  <2>3. CASE Rediagnose(p)
    <3>1. PICK h :
            op' = [op EXCEPT ![p] = [@ EXCEPT !.again = h, !.pc = "resettle"]]
      BY <2>3 DEF Rediagnose
    <3> QED
      BY <1>1, <2>3, <3>1, ReadFields DEF Rediagnose, At, IInv
  <2> QED
    BY <2>1, <2>2, <2>3
<1>3. UNCHANGED <<lock, disk, writes>>
  BY DEF RestoreRefused, RestoreReread, Rediagnose
<1>4. op[p].kind \notin {"plan", "verify"}
  BY <1>1, <1>2 DEF IInv, Local, InPlan, InVerify
<1>5. Local(p)'
  <2>1. InApply(p)'
    BY <1>2, <1>3, <1>4
    DEF IInv, Local, InApply, Entry, ClaimOf, SentBy, disk, Moved
  <2>2. InRollback(p)'
    BY <1>2, <1>3, <1>4
    DEF IInv, Local, InRollback, Entry, ClaimOf, SentBy, disk, Moved
  <2> QED
    BY <1>2, <1>4, <2>1, <2>2 DEF Local, InPlan, InVerify, Moved
<1>6. op'[p] # Idle /\ \A q \in Procs \ {p} : op'[q] = op[q]
  BY <1>2 DEF Moved, Idle
<1> QED
  BY <1>1, <1>3, <1>5, <1>6, RunInv, Sole, DurableSame DEF IInv
LEMMA EndsInv ==
  ASSUME IInv, TypeOK', NEW p \in Procs,
         \/ ApplyStale(p) \/ RollbackStale(p) \/ PlanRejected(p) \/ WriteFails(p)
  PROVE  IInv'
<1>1. op[p] \in Call
  BY PresentCall DEF IInv, ApplyStale, RollbackStale, PlanRejected, WriteFails,
     Running, At, Steps
<1>2. UNCHANGED <<disk, writes>>
  BY DEF ApplyStale, RollbackStale, PlanRejected, WriteFails
<1>3. PICK code : Finish(p, code)
  BY DEF ApplyStale, RollbackStale, PlanRejected, WriteFails
<1> QED
  BY <1>1, <1>2, <1>3, EndInv, DurableSame DEF IInv

\* The first file of a claim: no other claim rests on the key.
LEMMA PermitInv ==
  ASSUME IInv, TypeOK', NEW p \in Procs, ApplyPermit(p) \/ RollbackPermit(p)
  PROVE  IInv'
<1>1. op[p] \in Call
  BY PresentCall DEF IInv, ApplyPermit, RollbackPermit, Running, Steps
<1> DEFINE kind == op[p].kind
           c == op[p].cs
           k == op[p].key
<1>2. /\ op[p].pc = "decide" /\ kind \in Actions /\ c \in ChangeSets
      /\ BindKey(p)
  BY <1>1 DEF ApplyPermit, RollbackPermit, Running, Actions, Call
<1>3. k \in Keys /\ ~Replays(k, kind, c) /\ MayClaim(p)
  BY <1>2 DEF ApplyPermit, RollbackPermit, Running, Actions, IInv, Local, InApply,
     InRollback
<1>4. /\ actionClaims[c][kind] = NoKey
      /\ idempotency[k] \in {Unbound, BindingOf(kind, c)}
  BY <1>3 DEF MayClaim, Unclaimed
<1>5. Moved(p, "claim") /\ op'[p].fresh = op[p].fresh
  BY <1>1, <1>2, GotoFields DEF BindKey, IInv
<1>6. /\ idempotency'[k] = BindingOf(kind, c)
      /\ \A l \in Keys \ {k} : idempotency'[l] = idempotency[l]
      /\ UNCHANGED <<lock, journal, actionClaims, snapshots, writes>>
  BY <1>2, <1>3 DEF BindKey, IInv, TypeOK
<1>7. KeyBound'
  <2> SUFFICES ASSUME NEW d \in ChangeSets, NEW a \in Actions,
                      actionClaims[d][a] # NoKey
               PROVE  idempotency'[actionClaims[d][a]] = BindingOf(a, d)
    BY <1>6 DEF KeyBound
  <2>1. /\ idempotency[actionClaims[d][a]] = BindingOf(a, d)
        /\ actionClaims[d][a] \in Keys
    BY DEF IInv, Durable, KeyBound, TypeOK, OptKey
  <2>2. CASE actionClaims[d][a] = k
    <3>1. BindingOf(a, d) # Unbound
      BY DEF BindingOf, Unbound, Actions
    <3>2. BindingOf(a, d) = BindingOf(kind, c)
      BY <1>4, <2>1, <2>2, <3>1
    <3> QED
      BY <1>6, <2>2, <3>2
  <2> QED
    BY <1>6, <2>1, <2>2
<1>8. Durable'
  BY <1>6, <1>7 DEF IInv, Durable, SentOnce, OutcomeClaimed, SnapshotKept,
     PlannedFirst
<1>9. /\ op'[p].kind = kind /\ op'[p].cs = c /\ op'[p].key = k
      /\ op'[p].pc = "claim" /\ Entry(p)' = Entry(p) /\ Claiming(p)'
  BY <1>4, <1>5, <1>6 DEF Moved, Entry, Claiming, ClaimOf
<1>10. CASE ApplyPermit(p)
  <2>1. InApply(p)'
    BY <1>3, <1>9, <1>10 DEF ApplyPermit, Running, IInv, Local, InApply
  <2> QED
    BY <1>1, <1>5, <1>6, <1>8, <1>9, <1>10, <2>1, RunInv, Sole
    DEF Local, InPlan, InRollback, InVerify, ApplyPermit, Running, Moved, Idle
<1>11. CASE RollbackPermit(p)
  <2>1. op[p].fresh = Entry(p).after => Entry(p).state # "PLANNED"
    BY <1>2, <1>11 DEF RollbackPermit, Rollbackable, IInv, Durable, PlannedFirst,
       Entry
  <2>2. InRollback(p)'
    BY <1>3, <1>5, <1>9, <1>11, <2>1 DEF RollbackPermit, Running, IInv, Local,
       InRollback
  <2> QED
    BY <1>1, <1>5, <1>6, <1>8, <1>9, <1>11, <2>2, RunInv, Sole
    DEF Local, InPlan, InApply, InVerify, RollbackPermit, Running, Moved, Idle
<1> QED
  BY <1>10, <1>11

\* The second file: the claim itself.
LEMMA ClaimInv ==
  ASSUME IInv, TypeOK', NEW p \in Procs, ClaimAction(p)
  PROVE  IInv'
<1> DEFINE kind == op[p].kind
           c == op[p].cs
           k == op[p].key
<1>1. op[p] \in Call /\ op[p].pc = "claim" /\ c \in ChangeSets
  BY PresentCall DEF IInv, ClaimAction, At, Steps, Call
<1>2. /\ kind \in Actions /\ k \in Keys /\ k # NoKey /\ Claiming(p)
      /\ Entry(p).state # "NONE"
  BY <1>1, ConstantsAssumption
  DEF IInv, Local, InPlan, InApply, InRollback, InVerify, Actions, Call, Kinds
<1>3. /\ actionClaims[c][kind] = NoKey
      /\ idempotency[k] = BindingOf(kind, c)
  BY <1>2 DEF Claiming, ClaimOf
<1>4. /\ actionClaims'[c][kind] = k
      /\ \A d \in ChangeSets, a \in Actions :
           d # c \/ a # kind => actionClaims'[d][a] = actionClaims[d][a]
      /\ UNCHANGED <<lock, journal, idempotency, snapshots, writes>>
  BY <1>1, <1>2 DEF ClaimAction, IInv, TypeOK
<1>5. Durable'
  <2>1. SentOnce'
    BY <1>2, <1>3, <1>4 DEF IInv, Durable, SentOnce, Actions
  <2>2. OutcomeClaimed'
    BY <1>2, <1>3, <1>4 DEF IInv, Durable, OutcomeClaimed, Actions
  <2>3. KeyBound'
    BY <1>1, <1>2, <1>3, <1>4 DEF IInv, Durable, KeyBound
  <2>4. SnapshotKept' /\ PlannedFirst'
    BY <1>1, <1>2, <1>4 DEF IInv, Durable, SnapshotKept, PlannedFirst, Entry
  <2> QED
    BY <2>1, <2>2, <2>3, <2>4 DEF Durable
<1>6. /\ Moved(p, IF kind = "apply" THEN "guard"
                  ELSE IF op[p].fresh = Entry(p).after THEN "restore"
                  ELSE "resettle")
      /\ op'[p].fresh = op[p].fresh
  BY <1>1, GotoFields DEF ClaimAction, IInv
<1>7. /\ op'[p].kind = kind /\ op'[p].cs = c /\ op'[p].key = k
      /\ Entry(p)' = Entry(p) /\ ClaimOf(p)' # NoKey
      /\ \A a : SentBy(p, a)' = SentBy(p, a)
  BY <1>2, <1>4, <1>6 DEF Moved, Entry, ClaimOf, SentBy
<1>8. kind \in Actions => SentBy(p, kind) = 0
  BY <1>1, <1>3 DEF IInv, Durable, SentOnce, SentBy, Actions, Purposes, TypeOK
<1>9. CASE kind = "apply"
  <2>1. InApply(p)'
    BY <1>1, <1>6, <1>7, <1>8, <1>9 DEF IInv, Local, InApply, Actions, Moved
  <2> QED
    BY <1>1, <1>4, <1>5, <1>6, <1>7, <1>9, <2>1, RunInv, Sole
    DEF Local, InPlan, InRollback, InVerify, Moved, Idle
<1>10. CASE kind = "rollback"
  <2>1. InRollback(p)'
    BY <1>1, <1>6, <1>7, <1>8, <1>10 DEF IInv, Local, InRollback, Actions, Moved
  <2> QED
    BY <1>1, <1>4, <1>5, <1>6, <1>7, <1>10, <2>1, RunInv, Sole
    DEF Local, InPlan, InApply, InVerify, Moved, Idle
<1> QED
  BY <1>2, <1>9, <1>10 DEF Actions
LEMMA RecoveryAfterWrite ==
  ASSUME IInv, NEW c \in ChangeSets, writes[c]["apply"] = 0
  PROVE  writes[c]["recovery"] = 0
<1>1. writes[c]["recovery"] \in Nat /\ ~(writes[c]["recovery"] > 0)
  BY DEF IInv, Durable, SentOnce, TypeOK, Purposes
<1> QED
  BY <1>1

LEMMA SendInv ==
  ASSUME IInv, TypeOK', NEW p \in Procs, ApplyWrite(p) \/ RestoreWrite(p)
  PROVE  IInv'
<1> DEFINE kind == op[p].kind
           c == op[p].cs
           to == IF ApplyWrite(p) THEN "apply"
                 ELSE IF kind = "apply" THEN "recovery" ELSE "rollback"
<1>1. /\ op[p] \in Call /\ op[p].pc \in {"write", "restore"}
      /\ c \in ChangeSets /\ kind \in Actions
  <2>1. op[p] \in Call /\ op[p].pc \in {"write", "restore"}
    BY PresentCall DEF IInv, ApplyWrite, RestoreWrite, At, Steps
  <2> QED
    BY <2>1 DEF IInv, Local, InPlan, InVerify, Call, Kinds
<1>2. /\ op[p].pc = "write" => kind = "apply" /\ ApplyWrite(p)
      /\ op[p].pc = "restore" => RestoreWrite(p) /\ ~ApplyWrite(p)
  BY <1>1 DEF IInv, Local, InRollback, Actions, ApplyWrite, RestoreWrite, At
<1>3. /\ to \in Purposes /\ Send(p, to) /\ SentBy(p, to) = 0
      /\ to = "recovery" => SentBy(p, "apply") = 1
      /\ to = "apply" => SentBy(p, "recovery") = 0
      /\ ClaimOf(p) # NoKey
      /\ to = "rollback" => kind = "rollback"
      /\ to \in {"apply", "recovery"} => kind = "apply"
  <2>1. CASE op[p].pc = "write"
    <3>1. to = "apply" /\ kind = "apply" /\ Send(p, to)
      BY <1>2, <2>1 DEF ApplyWrite
    <3>2. InApply(p)
      BY DEF IInv, Local
    <3>3. SentBy(p, "apply") = 0 /\ ClaimOf(p) # NoKey
      BY <2>1, <3>1, <3>2 DEF InApply
    <3>4. SentBy(p, "recovery") = 0
      BY <1>1, <3>3, RecoveryAfterWrite DEF SentBy
    <3> QED
      BY <3>1, <3>3, <3>4 DEF Purposes, Actions
  <2>2. CASE op[p].pc = "restore"
    BY <1>1, <1>2, <2>2 DEF IInv, Local, InApply, InRollback, RestoreWrite,
       Purposes, Actions
  <2> QED
    BY <1>1, <2>1, <2>2
<1>4. PICK pc \in {"reread", "diagnose", "restored", "rediagnose"} :
        /\ Moved(p, pc)
        /\ pc = "diagnose" => op'[p].threw # "no"
        /\ op[p].pc = "write" => pc \in {"reread", "diagnose"}
        /\ op[p].pc = "restore" => pc \in {"restored", "rediagnose"}
  <2>1. CASE op[p].pc = "write"
    <3>1. CASE Goto(p, "reread")
      BY <1>1, <2>1, <3>1, GotoFields DEF IInv
    <3>2. CASE Throws(p, "error", "diagnose")
      BY <1>1, <2>1, <3>2, ThrowsFields DEF IInv
    <3> QED
      BY <1>2, <2>1, <3>1, <3>2 DEF ApplyWrite
  <2>2. CASE op[p].pc = "restore"
    <3>1. CASE Goto(p, "restored")
      BY <1>1, <2>2, <3>1, GotoFields DEF IInv
    <3>2. CASE Throws(p, "error", "rediagnose")
      BY <1>1, <2>2, <3>2, ThrowsFields DEF IInv
    <3> QED
      BY <1>2, <2>2, <3>1, <3>2 DEF RestoreWrite
  <2> QED
    BY <1>1, <2>1, <2>2
<1>5. /\ UNCHANGED <<lock, journal, idempotency, actionClaims, snapshots>>
      /\ writes' = [writes EXCEPT ![c][to] = @ + 1]
  BY <1>3 DEF Send, disk
<1> HIDE DEF to
<1>6. /\ writes'[c][to] = 1
      /\ \A d \in ChangeSets, a \in Purposes :
           d # c \/ a # to => writes'[d][a] = writes[d][a]
  BY <1>1, <1>3, <1>5 DEF IInv, TypeOK, SentBy
<1>7. SentOnce'
  <2> SUFFICES ASSUME NEW d \in ChangeSets
               PROVE  /\ \A a \in Purposes : writes'[d][a] <= 1
                      /\ writes'[d]["apply"] > 0 => actionClaims'[d]["apply"] # NoKey
                      /\ writes'[d]["recovery"] > 0 => writes'[d]["apply"] > 0
                      /\ writes'[d]["rollback"] > 0 =>
                           actionClaims'[d]["rollback"] # NoKey
    BY DEF SentOnce
  <2>1. CASE d # c
    BY <1>5, <1>6, <2>1 DEF IInv, Durable, SentOnce, Purposes, Actions
  <2>2. CASE d = c
    BY <1>1, <1>3, <1>5, <1>6, <2>2 DEF IInv, Durable, SentOnce, Purposes, Actions,
       SentBy, ClaimOf
  <2> QED
    BY <2>1, <2>2
<1>8. Durable'
  BY <1>5, <1>7 DEF IInv, Durable, OutcomeClaimed, SnapshotKept, KeyBound,
     PlannedFirst
<1>9. /\ op'[p].kind = kind /\ op'[p].cs = c /\ op'[p].key = op[p].key
      /\ Entry(p)' = Entry(p) /\ ClaimOf(p)' # NoKey
  BY <1>3, <1>4, <1>5 DEF Moved, Entry, ClaimOf
<1>10. CASE kind = "apply"
  <2>1. op[p].key \in Keys /\ Entry(p).state = "PLANNED"
    BY <1>10 DEF IInv, Local, InApply
  <2>2. Local(p)'
    <3>1. CASE op[p].pc = "write"
      <4>1. to = "apply"
        BY <1>2, <3>1 DEF to
      <4>2. SentBy(p, "apply")' = 1 /\ SentBy(p, "recovery")' = 0
        BY <1>1, <1>3, <1>6, <1>9, <4>1 DEF SentBy, Purposes, Actions
      <4>3. InApply(p)'
        BY <1>4, <1>9, <1>10, <3>1, <2>1, <4>2 DEF InApply, Moved
      <4> QED
        BY <1>9, <1>10, <4>3 DEF Local, InPlan, InRollback, InVerify
    <3>2. CASE op[p].pc = "restore"
      <4>1. InApply(p)'
        BY <1>4, <1>9, <1>10, <3>2, <2>1 DEF InApply, Moved
      <4> QED
        BY <1>9, <1>10, <4>1 DEF Local, InPlan, InRollback, InVerify
    <3> QED
      BY <1>1, <3>1, <3>2
  <2> QED
    BY <1>1, <1>4, <1>5, <1>8, <2>2, RunInv, Sole DEF Moved, Idle
<1>11. CASE kind = "rollback"
  <2>1. op[p].pc = "restore"
    BY <1>1, <1>2, <1>11
  <2>2. InRollback(p)'
    BY <1>4, <1>9, <1>11, <2>1 DEF IInv, Local, InRollback, Moved
  <2>3. Local(p)'
    BY <1>9, <1>11, <2>2 DEF Local, InPlan, InApply, InVerify
  <2> QED
    BY <1>1, <1>4, <1>5, <1>8, <2>3, RunInv, Sole DEF Moved, Idle
<1> QED
  BY <1>1, <1>10, <1>11 DEF Actions
LEMMA PlanInv ==
  ASSUME IInv, TypeOK', NEW p \in Procs,
         \/ PlanSnapshot(p) \/ PlanEvent(p) \/ PlanBind(p)
         \/ PlanConflict(p) \/ PlanWriteFails(p)
  PROVE  IInv'
<1> DEFINE c == op[p].cs
           k == op[p].key
<1>1. /\ op[p] \in Call /\ op[p].kind = "plan" /\ c \in ChangeSets
      /\ InPlan(p)
  <2>1. op[p].pc \in Steps /\ op[p].kind = "plan"
    BY DEF PlanSnapshot, PlanEvent, PlanBind, PlanConflict, PlanWriteFails,
       Running, Steps
  <2> QED
    BY <2>1, PresentCall DEF IInv, Local, Call
<1>2. \A a \in Actions : actionClaims[c][a] = NoKey
  BY <1>1 DEF InPlan
<1>3. CASE PlanSnapshot(p)
  <2>1. PICK after \in Hashes \ {op[p].fresh} :
          op' = [op EXCEPT ![p] = [@ EXCEPT !.seen = after, !.pc = "event"]]
    BY <1>3 DEF PlanSnapshot
  <2>2. Moved(p, "event") /\ op'[p].seen # op'[p].fresh
    BY <1>1, <2>1 DEF Moved, IInv, TypeOK, Call
  <2>3. /\ UNCHANGED <<lock, journal, actionClaims, idempotency, writes>>
        /\ snapshots' = snapshots \cup {c}
    BY <1>3 DEF PlanSnapshot
  <2>4. Durable'
    BY <2>3 DEF IInv, Durable, SentOnce, OutcomeClaimed, SnapshotKept, KeyBound,
       PlannedFirst
  <2>5. Local(p)'
    BY <1>1, <1>2, <1>3, <2>2, <2>3 DEF PlanSnapshot, Running, Moved, Local,
       InPlan, InApply, InRollback, InVerify, Entry
  <2> QED
    BY <1>1, <2>2, <2>3, <2>4, <2>5, RunInv, Sole DEF Moved, Idle
<1>4. CASE PlanEvent(p)
  <2> DEFINE r == [NoRecord EXCEPT !.state = "PLANNED", !.before = op[p].fresh,
                                   !.after = op[p].seen, !.planKey = k]
  <2>1. r.state = "PLANNED" /\ r.before = op[p].fresh /\ r.after = op[p].seen
    BY DEF NoRecord
  <2>2. journal' = [journal EXCEPT ![c] = r]
    BY <1>4 DEF PlanEvent
  <2> HIDE DEF r
  <2>3. /\ journal'[c] = r
        /\ \A d \in ChangeSets \ {c} : journal'[d] = journal[d]
    BY <1>1, <2>2 DEF IInv, TypeOK
  <2>4. UNCHANGED <<idempotency, actionClaims, snapshots, writes>>
    BY <1>4 DEF PlanEvent
  <2>5. op[p].pc = "event" /\ op[p].seen # op[p].fresh /\ c \in snapshots
    BY <1>1, <1>4 DEF PlanEvent, Running, InPlan
  <2>6. SentOnce' /\ KeyBound'
    BY <2>4 DEF IInv, Durable, SentOnce, KeyBound
  <2>7. OutcomeClaimed' /\ SnapshotKept'
    BY <2>1, <2>3, <2>4, <2>5 DEF IInv, Durable, OutcomeClaimed, SnapshotKept
  <2>8. PlannedFirst'
    BY <2>1, <2>3, <2>4, <2>5 DEF IInv, Durable, PlannedFirst
  <2>9. Durable'
    BY <2>6, <2>7, <2>8 DEF Durable
  <2>10. CASE Finish(p, "OK")
    BY <1>1, <2>9, <2>10, EndInv
  <2>11. CASE k # NoKey /\ Goto(p, "bind") /\ UNCHANGED lock
    <3>1. Moved(p, "bind")
      BY <1>1, <2>11, GotoFields DEF IInv
    <3>2. k \in Keys
      BY <1>1, <2>11 DEF Call, OptKey
    <3>3. Local(p)'
      BY <1>1, <1>2, <2>1, <2>3, <2>4, <2>5, <3>1, <3>2 DEF Moved, Local,
         InPlan, InApply, InRollback, InVerify, Entry
    <3> QED
      BY <1>1, <2>9, <2>11, <3>1, <3>3, RunInv, Sole DEF Moved, Idle
  <2> QED
    BY <1>4, <2>10, <2>11 DEF PlanEvent
<1>5. CASE PlanBind(p)
  <2>1. /\ idempotency[k] = Unbound /\ k \in Keys /\ Finish(p, "OK")
        /\ \A l \in Keys \ {k} : idempotency'[l] = idempotency[l]
        /\ UNCHANGED <<journal, actionClaims, snapshots, writes>>
    BY <1>1, <1>5 DEF PlanBind, Running, InPlan, IInv, TypeOK
  <2>2. KeyBound'
    <3> SUFFICES ASSUME NEW d \in ChangeSets, NEW a \in Actions,
                        actionClaims[d][a] # NoKey
                 PROVE  idempotency'[actionClaims[d][a]] = BindingOf(a, d)
      BY <2>1 DEF KeyBound
    <3>1. /\ idempotency[actionClaims[d][a]] = BindingOf(a, d)
          /\ actionClaims[d][a] \in Keys
      BY DEF IInv, Durable, KeyBound, TypeOK, OptKey
    <3>2. BindingOf(a, d) # Unbound
      BY DEF BindingOf, Unbound, Actions
    <3> QED
      BY <2>1, <3>1, <3>2
  <2>3. Durable'
    BY <2>1, <2>2 DEF IInv, Durable, SentOnce, OutcomeClaimed, SnapshotKept,
       PlannedFirst
  <2> QED
    BY <1>1, <2>1, <2>3, EndInv
<1>6. CASE PlanConflict(p) \/ PlanWriteFails(p)
  <2>1. PICK code : PlanUndo(p, code)
    BY <1>6 DEF PlanConflict, PlanWriteFails
  <2>2. /\ journal'[c] = NoRecord
        /\ \A d \in ChangeSets \ {c} : journal'[d] = journal[d]
        /\ snapshots' = snapshots \ {c}
        /\ UNCHANGED <<idempotency, actionClaims, writes>>
    BY <1>1, <2>1 DEF PlanUndo, IInv, TypeOK
  <2>3. SentOnce' /\ KeyBound'
    BY <2>2 DEF IInv, Durable, SentOnce, KeyBound
  <2>4. OutcomeClaimed' /\ SnapshotKept'
    BY <2>2 DEF IInv, Durable, OutcomeClaimed, SnapshotKept, NoRecord
  <2>5. PlannedFirst'
    BY <1>2, <2>2 DEF IInv, Durable, PlannedFirst, NoRecord
  <2> QED
    BY <1>1, <2>1, <2>3, <2>4, <2>5, EndInv DEF Durable, PlanUndo
<1> QED
  BY <1>3, <1>4, <1>5, <1>6

LEMMA SettleForm ==
  ASSUME IInv, NEW p \in Procs,
         \/ ApplyReplay(p) \/ ApplySettle(p) \/ RecoverySettle(p)
         \/ RollbackReplay(p) \/ RollbackSettle(p) \/ VerifySettle(p)
  PROVE  op[p] \in Call /\ Settles(p)
<1> DEFINE c == op[p].cs
           r == Entry(p)
<1>1. op[p] \in Call /\ Local(p) /\ TypeOK
  BY PresentCall DEF IInv, ApplyReplay, ApplySettle, RecoverySettle,
     RollbackReplay, RollbackSettle, VerifySettle, Running, At, Steps
<1>2. CASE ApplyReplay(p) \/ ApplySettle(p) \/ RecoverySettle(p)
  <2>1. op[p].kind = "apply"
    BY <1>1, <1>2 DEF ApplyReplay, ApplySettle, RecoverySettle, Running, At,
       Local, InPlan, InRollback, InVerify, Call, Kinds, Actions
  <2>2. actionClaims[c]["apply"] # NoKey /\ r.state = "PLANNED"
    <3>1. CASE ApplyReplay(p)
      BY <1>1, <2>1, <3>1, ConstantsAssumption DEF ApplyReplay, Replays, Local,
         InApply
    <3>2. CASE ApplySettle(p) \/ RecoverySettle(p)
      BY <1>1, <2>1, <3>2 DEF ApplySettle, RecoverySettle, Running, At, Local,
         InApply, ClaimOf
    <3> QED
      BY <1>2, <3>1, <3>2
  <2>3. ASSUME NEW rec, NEW code, NEW drop, Conclude(p, rec, code, drop),
               rec.before = r.before, rec.after = r.after,
               rec.state \in {"APPLIED", "FAILED"}
        PROVE  Settles(p)
    BY <2>2, <2>3, ConcludeSettles DEF RestsOnClaim, Actions
  <2>4. ASSUME NEW expected, NEW actual, NEW h, NEW code, NEW drop,
               Conclude(p, [Concluded(p, "APPLIED", expected, actual)
                              EXCEPT !.applied = h], code, drop)
        PROVE  Settles(p)
    <3> DEFINE rec == [Concluded(p, "APPLIED", expected, actual)
                         EXCEPT !.applied = h]
    <3>1. rec.state = "APPLIED" /\ rec.before = r.before /\ rec.after = r.after
      BY <1>1, RecordFields
    <3> HIDE DEF rec
    <3> QED
      BY <2>3, <2>4, <3>1 DEF rec
  <2>5. ASSUME NEW failure, NEW expected, NEW actual, NEW code, NEW drop,
               Conclude(p, Failed(p, failure, expected, actual), code, drop)
        PROVE  Settles(p)
    BY <1>1, <2>3, <2>5, FailedFields
  <2>6. ASSUME NEW failure, NEW expected, NEW actual, NEW h, NEW code, NEW drop,
               \/ Conclude(p, [Failed(p, failure, expected, actual)
                                 EXCEPT !.applied = h], code, drop)
               \/ Conclude(p, Ambiguous(p, failure, expected, actual, h),
                           code, drop)
        PROVE  Settles(p)
    <3> DEFINE rec == [Failed(p, failure, expected, actual) EXCEPT !.applied = h]
               amb == Ambiguous(p, failure, expected, actual, h)
    <3>1. rec.state = "FAILED" /\ rec.before = r.before /\ rec.after = r.after
      BY <1>1, FailedFields
    <3>2. amb.state = "FAILED" /\ amb.before = r.before /\ amb.after = r.after
      BY <1>1, FailedFields
    <3>3. CASE Conclude(p, rec, code, drop)
      <4> HIDE DEF rec
      <4> QED BY <2>3, <3>1, <3>3
    <3>4. CASE Conclude(p, amb, code, drop)
      <4> HIDE DEF amb
      <4> QED BY <2>3, <3>2, <3>4
    <3> QED
      BY <2>6, <3>3, <3>4
  <2>7. CASE ApplyReplay(p)
    BY <1>1, <2>4, <2>5, <2>6, <2>7 DEF ApplyReplay
  <2>8. CASE ApplySettle(p)
    BY <1>1, <2>4, <2>5, <2>6, <2>8 DEF ApplySettle
  <2>9. CASE RecoverySettle(p)
    BY <1>1, <2>6, <2>9 DEF RecoverySettle
  <2> QED
    BY <1>2, <2>7, <2>8, <2>9
<1>3. CASE RollbackReplay(p) \/ RollbackSettle(p)
  <2>1. /\ actionClaims[c]["rollback"] # NoKey
        /\ r.state \notin {"NONE", "ROLLED_BACK"}
    <3>1. CASE RollbackReplay(p)
      BY <1>1, <3>1, ConstantsAssumption DEF RollbackReplay, Replays, Local,
         InRollback, Running
    <3>2. CASE RollbackSettle(p)
      BY <1>1, <3>2 DEF RollbackSettle, Running, Local, InRollback, ClaimOf
    <3> QED
      BY <1>3, <3>1, <3>2
  <2>2. ASSUME NEW rec, NEW code, NEW drop, Conclude(p, rec, code, drop),
               rec.before = r.before, rec.after = r.after,
               rec.state \in {"ROLLED_BACK", "FAILED"}
        PROVE  Settles(p)
    BY <2>1, <2>2, ConcludeSettles DEF RestsOnClaim
  <2>3. ASSUME NEW expected, NEW actual, NEW code, NEW drop,
               Conclude(p, Concluded(p, "ROLLED_BACK", expected, actual),
                        code, drop)
        PROVE  Settles(p)
    BY <1>1, <2>2, <2>3, RecordFields
  <2>4. ASSUME NEW failure, NEW expected, NEW actual, NEW h, NEW code, NEW drop,
               \/ Conclude(p, Failed(p, failure, expected, actual), code, drop)
               \/ Conclude(p, Ambiguous(p, failure, expected, actual, h),
                           code, drop)
        PROVE  Settles(p)
    BY <1>1, <2>2, <2>4, FailedFields
  <2>5. ASSUME NEW code, Finish(p, code), UNCHANGED <<disk, writes>>
        PROVE  Settles(p)
    BY <2>1, <2>5 DEF Settles, disk
  <2>6. CASE RollbackReplay(p)
    <3>1. CASE op[p].fresh = r.after
      BY <1>1, <2>3, <2>4, <2>5, <2>6, <3>1 DEF RollbackReplay
    <3>2. CASE op[p].fresh # r.after
      BY <1>1, <2>3, <2>4, <2>5, <2>6, <3>2 DEF RollbackReplay
    <3> QED
      BY <3>1, <3>2
  <2>7. CASE RollbackSettle(p)
    BY <1>1, <2>3, <2>4, <2>7 DEF RollbackSettle
  <2> QED
    BY <1>3, <2>6, <2>7
<1>4. CASE VerifySettle(p)
  <2>1. r.state # "NONE"
    BY <1>1, <1>4 DEF VerifySettle, Running, Local, InVerify
  <2>2. PICK s, expected, code :
          /\ Conclude(p, Concluded(p, s, expected, op[p].fresh), code, FALSE)
          /\ s = r.state \/ (s = "VERIFIED" /\ r.state = "APPLIED")
    BY <1>4 DEF VerifySettle
  <2> DEFINE rec == Concluded(p, s, expected, op[p].fresh)
  <2>3. rec.state = s /\ rec.before = r.before /\ rec.after = r.after
    BY <1>1, RecordFields
  <2> HIDE DEF rec
  <2> QED
    BY <1>1, <2>1, <2>2, <2>3, ConcludeSettles DEF RestsOnClaim, rec
<1> QED
  BY <1>1, <1>2, <1>3, <1>4

LEMMA WorldInv ==
  ASSUME IInv, TypeOK',
         (\E p \in Procs : ProcessDies(p)) \/ RemoveStaleLock \/ Drift \/ Landing
  PROVE  IInv'
<1>1. Durable'
  BY DurableSame DEF IInv, ProcessDies, RemoveStaleLock, Drift, Land, Landing
<1>2. CASE RemoveStaleLock \/ Drift \/ Landing
  <2>1. /\ UNCHANGED <<op, disk, writes>>
        /\ lock' = lock \/ (lock = Stale /\ lock' = Free)
    BY <1>2 DEF RemoveStaleLock, Drift, Land, Landing
  <2>2. LockHeld'
    BY <2>1, ConstantsAssumption DEF IInv, LockHeld
  <2>3. \A q \in Procs : Local(q)'
    BY <2>1, SMTT(30) DEF IInv, Local, InPlan, InApply, InRollback, InVerify, Entry,
       MayClaim, Replays, Unclaimed, Claiming, ClaimOf, SentBy, disk
  <2> QED
    BY <1>1, <2>2, <2>3 DEF IInv
<1>3. ASSUME NEW p \in Procs, ProcessDies(p) PROVE IInv'
  <2>1. /\ op'[p] = Idle /\ \A q \in Procs \ {p} : op'[q] = op[q]
        /\ lock' = IF lock = p THEN Stale ELSE lock
        /\ UNCHANGED <<disk, writes>>
    BY <1>3 DEF ProcessDies, IInv, TypeOK
  <2>2. LockHeld'
    BY <2>1, ConstantsAssumption DEF IInv, LockHeld
  <2>3. ASSUME NEW q \in Procs PROVE Local(q)'
    <3>1. CASE q = p
      BY <2>1, <3>1, IdleLocal
    <3>2. CASE q # p
      BY <2>1, <3>2, SMTT(30) DEF IInv, Local, InPlan, InApply, InRollback, InVerify,
         Entry, MayClaim, Replays, Unclaimed, Claiming, ClaimOf, SentBy, disk
    <3> QED
      BY <3>1, <3>2
  <2> QED
    BY <1>1, <2>2, <2>3 DEF IInv
<1> QED
  BY <1>2, <1>3

LEMMA InvStep ==
  ASSUME IInv, [Next]_vars
  PROVE  IInv'
<1>1. TypeOK'
  BY TypeStep DEF IInv
<1>2. CASE UNCHANGED vars
  <2>1. UNCHANGED <<op, lock, disk, writes>>
    BY <1>2 DEF vars
  <2>2. Durable' /\ LockHeld'
    BY <2>1, DurableSame DEF IInv, LockHeld
  <2>3. \A q \in Procs : Local(q)'
    BY <2>1, SMTT(30) DEF IInv, Local, InPlan, InApply, InRollback, InVerify, Entry,
       MayClaim, Replays, Unclaimed, Claiming, ClaimOf, SentBy, disk
  <2> QED
    BY <1>1, <2>2, <2>3 DEF IInv
<1>3. ASSUME NEW p \in Procs, Proceed(p) PROVE IInv'
  BY <1>1, <1>3, ReadInv, PlanInv, ApplyQuietInv, RestoreQuietInv, EndsInv,
     PermitInv, ClaimInv, SendInv, SettleForm, SettlesInv
  DEF Proceed, Plan, Apply, Restore, Rollback
<1>4. ASSUME NEW p \in Procs, Begin(p) PROVE IInv'
  BY <1>1, <1>4, BeginInv
<1>5. ASSUME NEW p \in Procs, Fault(p) PROVE IInv'
  BY <1>1, <1>5, PlanInv, EndsInv, WorldInv DEF Fault
<1>6. CASE RemoveStaleLock \/ Drift \/ Landing
  BY <1>1, <1>6, WorldInv
<1> QED
  BY <1>2, <1>3, <1>4, <1>5, <1>6 DEF Next

LEMMA InvInit == Init => IInv
<1> SUFFICES ASSUME Init PROVE IInv
  OBVIOUS
<1>1. TypeOK
  BY TypeInit
<1>2. LockHeld
  BY ConstantsAssumption DEF Init, LockHeld
<1>3. SentOnce
  BY DEF Init, SentOnce, Purposes, Actions
<1>4. OutcomeClaimed /\ SnapshotKept /\ KeyBound /\ PlannedFirst
  BY DEF Init, OutcomeClaimed, SnapshotKept, KeyBound, PlannedFirst, NoRecord
<1>5. \A p \in Procs : Local(p)
  BY DEF Init, Local, InPlan, InApply, InRollback, InVerify, Idle
<1> QED
  BY <1>1, <1>2, <1>3, <1>4, <1>5 DEF IInv, Durable

LEMMA Invariance == Spec => []IInv
BY InvInit, InvStep, PTL DEF Spec
----------------------------------------------------------------------------
(* What follows                                                            *)

\* LockHeld: the process inside a call is the one the lock file names.
THEOREM LockCorrect == Spec => []LockHeld
BY Invariance, PTL DEF IInv

\* SentOnce: no replay, key, process or death sends a remote write twice.
THEOREM NeverSentTwice == Spec => []SentOnce
<1>1. IInv => SentOnce
  BY DEF IInv, Durable
<1> QED
  BY <1>1, Invariance, PTL

\* OutcomeClaimed: every journalled outcome rests on a durable claim.
THEOREM OutcomesClaimed == Spec => []OutcomeClaimed
<1>1. IInv => OutcomeClaimed
  BY DEF IInv, Durable
<1> QED
  BY <1>1, Invariance, PTL

\* SnapshotKept: what is journalled can be rolled back from its snapshot.
THEOREM SnapshotsKept == Spec => []SnapshotKept
<1>1. IInv => SnapshotKept
  BY DEF IInv, Durable
<1> QED
  BY <1>1, Invariance, PTL

\* KeyAuthorisesOnce: a key never claims two actions.
THEOREM KeysAuthoriseOnce == Spec => []KeyAuthorisesOnce
<1>1. IInv => KeyAuthorisesOnce
  <2> SUFFICES ASSUME IInv, NEW c \in ChangeSets, NEW d \in ChangeSets,
                      NEW a \in Actions, NEW b \in Actions,
                      actionClaims[c][a] # NoKey,
                      actionClaims[c][a] = actionClaims[d][b]
               PROVE  c = d /\ a = b
    BY DEF KeyAuthorisesOnce
  <2>1. BindingOf(a, c) = BindingOf(b, d)
    BY DEF IInv, Durable, KeyBound
  <2> QED
    BY <2>1 DEF BindingOf
<1> QED
  BY <1>1, Invariance, PTL
----------------------------------------------------------------------------
(* The engine implements the ledger                                        *)

Attempts == [c \in ChangeSets |-> {a \in Actions : actionClaims[c][a] # NoKey}]
Verdicts == [c \in ChangeSets |-> Verdict[journal[c].state]]

\* Equal claims, writes and verdicts: the ledger stands still.
LEMMA LedgerStutter ==
  ASSUME UNCHANGED <<Attempts, writes, Verdicts>>
  PROVE  [Ledger!Next]_(Ledger!vars)
BY DEF Ledger!vars, Attempts, Verdicts

LEMMA LedgerAttempt ==
  ASSUME IInv, NEW p \in Procs, ClaimAction(p)
  PROVE  [Ledger!Next]_(Ledger!vars)
<1>0. PICK kind, c : kind = op[p].kind /\ c = op[p].cs
  OBVIOUS
<1>1. op[p] \in Call /\ op[p].pc = "claim" /\ c \in ChangeSets
  BY <1>0, PresentCall DEF IInv, ClaimAction, At, Steps, Call
<1>2. /\ kind \in Actions /\ op[p].key \in Keys /\ op[p].key # NoKey
      /\ actionClaims[c][kind] = NoKey
      /\ kind = "apply" => journal[c].state = "PLANNED"
      /\ journal[c].state # "ROLLED_BACK"
  BY <1>0, <1>1, ConstantsAssumption
  DEF IInv, Local, InPlan, InApply, InRollback, InVerify, Actions, Call, Kinds,
      Claiming, ClaimOf, Entry
<1>3. journal[c].state \in States
  BY <1>1 DEF IInv, TypeOK, Record
<1>4. /\ actionClaims' = [actionClaims EXCEPT ![c][kind] = op[p].key]
      /\ UNCHANGED <<journal, writes>>
  BY <1>0 DEF ClaimAction
<1>5. Attempts' = [Attempts EXCEPT ![c] = @ \cup {kind}]
  <2>1. \A d \in ChangeSets : Attempts'[d]
          = IF d = c THEN Attempts[d] \cup {kind} ELSE Attempts[d]
    BY <1>1, <1>2, <1>4 DEF Attempts, IInv, TypeOK
  <2> QED
    BY <2>1 DEF Attempts
<1>6. kind \notin Attempts[c] /\ Verdicts' = Verdicts
  BY <1>1, <1>2, <1>4 DEF Attempts, Verdicts
<1>7. Verdicts[c] # "undone" /\ (kind = "apply" => Verdicts[c] = "open")
  BY <1>1, <1>2, <1>3 DEF Verdicts, Verdict, States
<1>8. Ledger!Attempt(c, kind)
  BY <1>4, <1>5, <1>6, <1>7 DEF Ledger!Attempt, Attempts, Verdicts
<1> QED
  BY <1>1, <1>2, <1>8 DEF Ledger!Next, Ledger!Actions, Actions

LEMMA LedgerWrite ==
  ASSUME IInv, NEW p \in Procs, ApplyWrite(p) \/ RestoreWrite(p)
  PROVE  [Ledger!Next]_(Ledger!vars)
<1> DEFINE kind == op[p].kind
           c == op[p].cs
<1>1. op[p] \in Call /\ c \in ChangeSets
  BY PresentCall DEF IInv, ApplyWrite, RestoreWrite, At, Steps, Call
<1>2. journal[c].state \in States /\ writes[c] \in [Purposes -> Nat]
  BY <1>1 DEF IInv, TypeOK, Record
<1>3. PICK a \in Purposes :
        /\ Send(p, a) /\ writes[c][a] = 0
        /\ a = "apply" => actionClaims[c]["apply"] # NoKey
        /\ a = "recovery" => writes[c]["apply"] = 1
        /\ a \in {"apply", "recovery"} => journal[c].state = "PLANNED"
        /\ a = "rollback" =>
             /\ actionClaims[c]["rollback"] # NoKey
             /\ journal[c].state \notin {"NONE", "PLANNED", "ROLLED_BACK"}
  <2>1. InPlan(p) /\ InApply(p) /\ InRollback(p) /\ InVerify(p)
    BY DEF IInv, Local
  <2>2. CASE ApplyWrite(p)
    <3>1. kind = "apply"
      BY <1>1, <2>1, <2>2 DEF ApplyWrite, At, InPlan, InRollback, InVerify, Call,
         Kinds, Actions
    <3> QED
      BY <2>1, <2>2, <3>1 DEF ApplyWrite, At, InApply, Entry, ClaimOf, SentBy,
         Purposes, Actions
  <2>3. CASE RestoreWrite(p) /\ kind = "apply"
    BY <2>1, <2>3 DEF RestoreWrite, At, InApply, Entry, ClaimOf, SentBy, Purposes
  <2>4. CASE RestoreWrite(p) /\ kind # "apply"
    <3>1. kind = "rollback"
      BY <1>1, <2>1, <2>4 DEF RestoreWrite, At, InPlan, InVerify, Call, Kinds,
         Actions
    <3> QED
      BY <2>1, <2>4, <3>1 DEF RestoreWrite, At, InRollback, Entry, ClaimOf,
         SentBy, Purposes, Actions
  <2> QED
    BY <2>2, <2>3, <2>4
<1>4. /\ writes' = [writes EXCEPT ![c][a] = 1]
      /\ UNCHANGED <<journal, actionClaims>>
  BY <1>2, <1>3 DEF Send, disk
<1>5. UNCHANGED <<Attempts, Verdicts>>
  BY <1>4 DEF Attempts, Verdicts
<1>6. /\ a = "apply" => a \in Attempts[c] /\ Verdicts[c] = "open"
      /\ a = "recovery" => Verdicts[c] = "open"
      /\ a = "rollback" =>
           a \in Attempts[c] /\ Verdicts[c] \in {"applied", "failed"}
  BY <1>1, <1>2, <1>3, SMTT(30) DEF Attempts, Verdicts, Verdict, States, Actions
<1>7. Ledger!SendWrite(c, a)
  BY <1>3, <1>4, <1>5, <1>6 DEF Ledger!SendWrite, Attempts, Verdicts, Purposes,
     Actions
<1> QED
  BY <1>1, <1>7 DEF Ledger!Next, Ledger!Purposes, Ledger!Actions, Purposes,
     Actions

LEMMA LedgerSettle ==
  ASSUME IInv, NEW p \in Procs, op[p] \in Call, Settles(p)
  PROVE  [Ledger!Next]_(Ledger!vars)
<1> DEFINE c == op[p].cs
<1>1. /\ c \in ChangeSets /\ journal[c].state \in States
      /\ Entry(p) = journal[c] /\ journal[c].state # "NONE"
  BY DEF Call, IInv, TypeOK, Record, Entry, Settles
<1>2. UNCHANGED <<actionClaims, writes, Attempts>>
  BY DEF Settles, Attempts
<1>3. CASE UNCHANGED journal
  BY <1>2, <1>3, LedgerStutter DEF Verdicts
<1>4. ASSUME NEW r, journal' = [journal EXCEPT ![c] = r],
             RestsOnClaim(p, r.state)
      PROVE  [Ledger!Next]_(Ledger!vars)
  <2> DEFINE v == Verdict[r.state]
  <2>1. r.state \in States
    BY <1>1, <1>4 DEF RestsOnClaim, States
  <2>2. Verdicts' = [Verdicts EXCEPT ![c] = v]
    <3>1. \A d \in ChangeSets :
            Verdicts'[d] = IF d = c THEN v ELSE Verdicts[d]
      BY <1>1, <1>4 DEF Verdicts, IInv, TypeOK
    <3> QED
      BY <3>1 DEF Verdicts
  <2>3. \/ v = Verdicts[c]
        \/ /\ v \in {"applied", "undone", "failed"}
           /\ \/ v = "applied" /\ Verdicts[c] = "open" /\ "apply" \in Attempts[c]
              \/ /\ v = "undone" /\ Verdicts[c] # "undone"
                 /\ "rollback" \in Attempts[c]
              \/ v = "failed" /\ Verdicts[c] = "open" /\ Attempts[c] # {}
              \/ /\ v = "failed" /\ Verdicts[c] = "applied"
                 /\ "rollback" \in Attempts[c]
    BY <1>1, <1>4, <2>1, SMTT(30) DEF RestsOnClaim, Verdicts, Verdict, States, Attempts,
       Actions
  <2>4. CASE v = Verdicts[c]
    <3>1. Verdicts' = Verdicts
      BY <2>2, <2>4 DEF Verdicts
    <3> QED
      BY <1>2, <3>1, LedgerStutter
  <2>5. CASE v # Verdicts[c]
    <3>1. Ledger!Settle(c, v)
      BY <1>2, <2>2, <2>3, <2>5 DEF Ledger!Settle, Ledger!Justified, Attempts,
         Verdicts
    <3> QED
      BY <1>1, <2>3, <2>5, <3>1 DEF Ledger!Next
  <2> QED
    BY <2>4, <2>5
<1> QED
  BY <1>3, <1>4 DEF Settles

LEMMA LedgerPlan ==
  ASSUME IInv, NEW p \in Procs, Plan(p) \/ PlanWriteFails(p)
  PROVE  [Ledger!Next]_(Ledger!vars)
<1> DEFINE c == op[p].cs
<1>1. /\ op[p] \in Call /\ op[p].kind = "plan" /\ c \in ChangeSets
  <2>1. op[p].pc \in Steps /\ op[p].kind = "plan"
    BY DEF Plan, PlanRejected, PlanSnapshot, PlanEvent, PlanBind, PlanConflict,
       PlanWriteFails, Running, Steps
  <2> QED
    BY <2>1, PresentCall DEF IInv, Call
<1>2. Verdict[journal[c].state] = "open"
  BY <1>1 DEF IInv, Local, InPlan, Entry, Verdict
<1>3. UNCHANGED <<actionClaims, writes>>
  BY DEF Plan, PlanRejected, PlanSnapshot, PlanEvent, PlanBind, PlanConflict,
     PlanWriteFails, PlanUndo, disk
<1>4. ASSUME journal'[c].state \in {"NONE", "PLANNED"},
             \A d \in ChangeSets \ {c} : journal'[d] = journal[d]
      PROVE  Verdicts' = Verdicts
  <2>1. Verdict[journal'[c].state] = "open"
    BY <1>4 DEF Verdict
  <2>2. \A d \in ChangeSets : Verdict[journal'[d].state] = Verdict[journal[d].state]
    BY <1>1, <1>2, <1>4, <2>1
  <2> QED
    BY <2>2 DEF Verdicts
<1>5. Verdicts' = Verdicts
  <2>1. CASE PlanEvent(p)
    <3> DEFINE r == [NoRecord EXCEPT !.state = "PLANNED", !.before = op[p].fresh,
                                     !.after = op[p].seen, !.planKey = op[p].key]
    <3>1. r.state = "PLANNED"
      BY DEF NoRecord
    <3>2. journal' = [journal EXCEPT ![c] = r]
      BY <2>1 DEF PlanEvent
    <3> HIDE DEF r
    <3>3. journal'[c] = r /\ \A d \in ChangeSets \ {c} : journal'[d] = journal[d]
      BY <1>1, <3>2 DEF IInv, TypeOK
    <3> QED
      BY <1>4, <3>1, <3>3
  <2>2. CASE PlanConflict(p) \/ PlanWriteFails(p)
    <3>1. NoRecord.state = "NONE"
      BY DEF NoRecord
    <3>2. /\ journal'[c] = NoRecord
          /\ \A d \in ChangeSets \ {c} : journal'[d] = journal[d]
      BY <1>1, <2>2 DEF PlanConflict, PlanWriteFails, PlanUndo, IInv, TypeOK
    <3> QED
      BY <1>4, <3>1, <3>2
  <2>3. CASE PlanSnapshot(p) \/ PlanRejected(p) \/ PlanBind(p)
    BY <2>3 DEF PlanSnapshot, PlanRejected, PlanBind, disk, Verdicts
  <2> QED
    BY <2>1, <2>2, <2>3 DEF Plan
<1> QED
  BY <1>3, <1>5, LedgerStutter DEF Attempts

\* Every step of the engine is a step of the ledger or leaves it alone.
LEMMA LedgerStep ==
  ASSUME IInv, [Next]_vars
  PROVE  [Ledger!Next]_(Ledger!vars)
<1>1. CASE UNCHANGED <<actionClaims, writes, journal>>
  BY <1>1, LedgerStutter DEF Attempts, Verdicts
<1>2. ASSUME NEW p \in Procs, Proceed(p) PROVE [Ledger!Next]_(Ledger!vars)
  <2>1. CASE \/ Read(p) \/ ReadThrows(p) \/ ApplyStale(p) \/ ApplyPermit(p)
             \/ ApplyGuard(p) \/ ApplyReread(p) \/ Diagnose(p) \/ ApplyMismatch(p)
             \/ RestoreRefused(p) \/ RestoreReread(p) \/ Rediagnose(p)
             \/ RollbackStale(p) \/ RollbackPermit(p)
    BY <1>1, <2>1 DEF Read, ReadThrows, ApplyStale, ApplyPermit, ApplyGuard,
       ApplyReread, Diagnose, ApplyMismatch, RestoreRefused, RestoreReread,
       Rediagnose, RollbackStale, RollbackPermit, BindKey, disk
  <2> QED
    BY <1>2, <2>1, LedgerPlan, LedgerAttempt, LedgerWrite, SettleForm, LedgerSettle
    DEF Proceed, Apply, Restore, Rollback
<1>3. ASSUME NEW p \in Procs, Begin(p) PROVE [Ledger!Next]_(Ledger!vars)
  BY <1>1, <1>3 DEF Begin, VerifyBegin, PlanBegin, ApplyBegin, RollbackBegin, Start,
     disk
<1>4. ASSUME NEW p \in Procs, Fault(p) PROVE [Ledger!Next]_(Ledger!vars)
  <2>1. CASE PlanWriteFails(p)
    BY <2>1, LedgerPlan
  <2> QED
    BY <1>1, <1>4, <2>1 DEF Fault, WriteFails, ProcessDies, disk
<1>5. CASE RemoveStaleLock \/ Drift \/ Landing \/ UNCHANGED vars
  BY <1>1, <1>5 DEF RemoveStaleLock, Drift, Land, Landing, vars, disk
<1> QED
  BY <1>2, <1>3, <1>4, <1>5 DEF Next

\* FollowsLedger: attempts, remote writes and verdicts follow the ledger.
THEOREM ImplementsLedger == Spec => FollowsLedger
<1>1. Init => Ledger!Init
  <2> SUFFICES ASSUME Init PROVE Ledger!Init
    OBVIOUS
  <2>1. Attempts = [c \in ChangeSets |-> {}]
    BY DEF Init, Attempts
  <2>2. Verdicts = [c \in ChangeSets |-> "open"]
    BY DEF Init, Verdicts, Verdict, NoRecord
  <2> QED
    BY <2>1, <2>2 DEF Init, Ledger!Init, Attempts, Verdicts, Ledger!Purposes,
       Ledger!Actions, Purposes, Actions
<1> QED
  BY <1>1, Invariance, LedgerStep, PTL DEF Spec, FollowsLedger, Ledger!Spec
============================================================================
