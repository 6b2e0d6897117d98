------------------------ MODULE EngineOutcomeProofs ------------------------
(***************************************************************************)
(* Proofs about what the ChangeSet engine journals and forgets: the store  *)
(* takes every outcome, private material goes only with a sight of the     *)
(* baseline, a plan key finds one journal, and the journal tells the truth *)
(* about the target.  They rest on the inductive invariant IInv of         *)
(* ChangeSetEngineProofs.                                                  *)
(***************************************************************************)
EXTENDS ChangeSetEngineProofs, FiniteSetTheorems

----------------------------------------------------------------------------
(* No outcome is refused by the store                                      *)

\* A planned change has a hash of its own, which is one the editor can show,
\* and nothing was applied before it is.
Plannable ==
  /\ \A c \in ChangeSets :
       /\ journal[c].state # "NONE" => journal[c].after # NoHash
       /\ journal[c].state = "PLANNED" => journal[c].applied = NoHash
  /\ \A p \in Procs :
       op[p].kind = "plan" /\ op[p].pc = "event" => op[p].seen # NoHash
Outcomes == Plannable /\ OutcomeAccepted

\* Only the step that has taken the snapshot brings a plan to its event.
Unplanned ==
  \A p \in Procs : op'[p] = op[p] \/ op'[p].pc # "event" \/ op'[p].seen # NoHash

LEMMA ElsewhereUnplanned ==
  ASSUME TypeOK, NEW p \in Procs, op[p] \in Call,
         \/ \E code : Finish(p, code)
         \/ \E pc \in Steps \ {"event"} : Goto(p, pc)
         \/ \E pc \in Steps \ {"event"}, how \in {"error", "head"} : Throws(p, how, pc)
  PROVE  Unplanned
<1>1. CASE \E code : Finish(p, code)
  BY <1>1 DEF TypeOK, Finish, Unplanned, Idle
<1>2. ASSUME NEW pc \in Steps \ {"event"}, Goto(p, pc) PROVE Unplanned
  BY <1>2 DEF TypeOK, Goto, Unplanned, Call
<1>3. ASSUME NEW pc \in Steps \ {"event"}, NEW how \in {"error", "head"},
             Throws(p, how, pc)
      PROVE  Unplanned
  BY <1>3 DEF TypeOK, Throws, Unplanned, Call
<1> QED
  BY <1>1, <1>2, <1>3

\* What a step without an event leaves.
LEMMA QuietOutcomes ==
  ASSUME Outcomes, UNCHANGED journal, Unplanned,
         reply' = reply \/ reply'.code # "STATE_CORRUPT"
  PROVE  Outcomes'
BY DEF Outcomes, Plannable, OutcomeAccepted, Unplanned

LEMMA EndOutcomes ==
  ASSUME Outcomes, TypeOK, NEW p \in Procs, op[p] \in Call, NEW code,
         code # "STATE_CORRUPT", Finish(p, code), UNCHANGED journal
  PROVE  Outcomes'
<1>1. Unplanned
  BY ElsewhereUnplanned
<1>2. reply'.code # "STATE_CORRUPT"
  BY DEF Finish
<1> QED
  BY <1>1, <1>2, QuietOutcomes

\* A conclusion that the store takes, or a verification.
LEMMA ConcludeOutcomes ==
  ASSUME Outcomes, TypeOK, NEW p \in Procs, op[p] \in Call, NEW r, NEW code,
         NEW drop, Conclude(p, r, code, drop), code # "STATE_CORRUPT",
         Accepted(op[p].cs, r) \/ op[p].kind = "verify",
         r.after # NoHash, r.state = "PLANNED" => r.applied = NoHash
  PROVE  Outcomes'
<1>1. PICK end : Finish(p, end) /\ (end = "STATE_CORRUPT" => op[p].kind = "verify")
  BY DEF Conclude
<1>2. Unplanned
  BY <1>1, ElsewhereUnplanned
<1>3. OutcomeAccepted'
  BY <1>1 DEF OutcomeAccepted, Finish
<1>4. journal' = journal \/ journal' = [journal EXCEPT ![op[p].cs] = r]
  BY DEF Conclude
<1>5. \A c \in ChangeSets : journal'[c] = journal[c] \/ journal'[c] = r
  BY <1>4 DEF TypeOK
<1> QED
  BY <1>2, <1>3, <1>5 DEF Outcomes, Plannable, Unplanned

\* The records that apply and rollback build.
LEMMA BuiltRecords ==
  ASSUME TypeOK, NEW p \in Procs, op[p] \in Call, NEW s, NEW expected,
         NEW actual, NEW code, NEW h
  PROVE  LET done == Concluded(p, s, expected, actual)
             set == [done EXCEPT !.applied = h]
             failed == Failed(p, code, expected, actual)
             left == [failed EXCEPT !.applied = h]
             amb == Ambiguous(p, code, expected, actual, h)
         IN /\ \A r \in {done, set} :
                 /\ r.state = s /\ r.after = Entry(p).after
                 /\ r.before = Entry(p).before
                 /\ r.expected = expected /\ r.actual = actual
            /\ \A r \in {failed, left, amb} :
                 /\ r.state = "FAILED" /\ r.failure = code
                 /\ r.after = Entry(p).after
            /\ \A r \in {failed, left} :
                 /\ r.before = Entry(p).before
                 /\ r.expected = expected /\ r.actual = actual
            /\ done.applied = Entry(p).applied
            /\ failed.applied = Entry(p).applied
            /\ set.applied = h
            /\ amb.applied = IF h = NoHash THEN Entry(p).applied ELSE h
<1>1. Entry(p) \in Record
  BY DEF TypeOK, Entry, Call
<1> QED
  BY <1>1 DEF Failed, Concluded, Record, Ambiguous

LEMMA ApplyOutcomes ==
  ASSUME Outcomes, IInv, NEW p \in Procs,
         ApplyReplay(p) \/ ApplySettle(p) \/ RecoverySettle(p)
  PROVE  Outcomes'
<1> DEFINE r == Entry(p)
<1>1. op[p] \in Call /\ Local(p) /\ TypeOK /\ op[p].cs \in ChangeSets
  BY PresentCall DEF IInv, ApplyReplay, ApplySettle, RecoverySettle,
     Running, At, Steps, Call
<1>2. op[p].kind = "apply"
  BY <1>1 DEF ApplyReplay, ApplySettle, RecoverySettle, Running, At,
     Local, InPlan, InRollback, InVerify, Call, Kinds, Actions
<1>3. /\ r.state = "PLANNED" /\ r.applied = NoHash /\ r.after # NoHash
      /\ r = journal[op[p].cs]
  BY <1>1, <1>2 DEF Local, InApply, Outcomes, Plannable, Entry
<1>4. ASSUME NEW rec, NEW code, NEW drop, Conclude(p, rec, code, drop),
             code # "STATE_CORRUPT", rec.after = r.after,
             \/ /\ rec.state = "APPLIED" /\ rec.applied # NoHash
                /\ rec.expected = r.after /\ rec.actual = r.after
             \/ rec.state = "FAILED" /\ rec.failure # "none"
      PROVE  Outcomes'
  <2>1. Accepted(op[p].cs, rec)
    BY <1>3, <1>4 DEF Accepted, WellFormed, Transitions
  <2> QED
    BY <1>1, <1>3, <1>4, <2>1, ConcludeOutcomes
<1>5. ASSUME NEW drop,
             Conclude(p, [Concluded(p, "APPLIED", r.after, r.after)
                            EXCEPT !.applied = r.after], "OK", drop)
      PROVE  Outcomes'
  <2> DEFINE rec == [Concluded(p, "APPLIED", r.after, r.after)
                       EXCEPT !.applied = r.after]
  <2>1. /\ rec.state = "APPLIED" /\ rec.applied = r.after /\ rec.after = r.after
        /\ rec.expected = r.after /\ rec.actual = r.after
    BY <1>1, BuiltRecords
  <2> HIDE DEF rec
  <2> QED
    BY <1>3, <1>4, <1>5, <2>1 DEF rec
<1>6. ASSUME NEW code \in Failures, NEW expected, NEW actual, NEW h, NEW drop,
             NEW rec \in {Failed(p, code, expected, actual),
                          [Failed(p, code, expected, actual) EXCEPT !.applied = h],
                          Ambiguous(p, code, expected, actual, h)},
             Conclude(p, rec, code, drop)
      PROVE  Outcomes'
  <2>1. rec.state = "FAILED" /\ rec.failure = code /\ rec.after = r.after
    <3>1. CASE rec = Failed(p, code, expected, actual)
      BY <1>1, <3>1, BuiltRecords
    <3>2. CASE rec = [Failed(p, code, expected, actual) EXCEPT !.applied = h]
      BY <1>1, <3>2, BuiltRecords
    <3>3. CASE rec = Ambiguous(p, code, expected, actual, h)
      BY <1>1, <3>3, BuiltRecords
    <3> QED
      BY <1>6, <3>1, <3>2, <3>3
  <2>2. code # "none" /\ code # "STATE_CORRUPT"
    BY DEF Failures, BaselineFailures, AppliedFailures, AmbiguousFailures
  <2> HIDE DEF r
  <2> QED
    BY <1>4, <1>6, <2>1, <2>2
<1>7. ASSUME NEW code \in Failures, NEW expected, NEW actual, NEW h, NEW drop,
             \/ Conclude(p, Failed(p, code, expected, actual), code, drop)
             \/ Conclude(p, [Failed(p, code, expected, actual)
                               EXCEPT !.applied = h], code, drop)
             \/ Conclude(p, Ambiguous(p, code, expected, actual, h), code, drop)
      PROVE  Outcomes'
  BY <1>6, <1>7
<1>8. /\ "APPLY_PREVIOUS_ATTEMPT_UNCHANGED" \in Failures
      /\ "APPLY_AMBIGUOUS" \in Failures /\ "APPLY_FAILED_UNCHANGED" \in Failures
      /\ "APPLY_VERIFICATION_FAILED_RECOVERED" \in Failures
      /\ "APPLY_VERIFICATION_FAILED_RECOVERY_UNPROVEN" \in Failures
  BY DEF Failures, BaselineFailures, AmbiguousFailures
<1>9. CASE ApplyReplay(p)
  BY <1>5, <1>7, <1>8, <1>9 DEF ApplyReplay
<1>10. CASE ApplySettle(p)
  BY <1>5, <1>7, <1>8, <1>10 DEF ApplySettle, Applied
<1>11. CASE RecoverySettle(p)
  BY <1>7, <1>8, <1>11 DEF RecoverySettle
<1> QED
  BY <1>9, <1>10, <1>11

LEMMA RollbackOutcomes ==
  ASSUME Outcomes, IInv, NEW p \in Procs, RollbackReplay(p) \/ RollbackSettle(p)
  PROVE  Outcomes'
<1> DEFINE r == Entry(p)
<1>1. op[p] \in Call /\ Local(p) /\ TypeOK /\ op[p].cs \in ChangeSets
  BY PresentCall DEF IInv, RollbackReplay, RollbackSettle, Running, Steps, Call
<1>2. /\ r.state \in {"PLANNED", "APPLIED", "VERIFIED", "FAILED"}
      /\ r.after # NoHash /\ r = journal[op[p].cs]
  <2>1. r \in Record
    BY <1>1 DEF TypeOK, Entry
  <2> QED
    BY <1>1, <2>1 DEF RollbackReplay, RollbackSettle, Running, Local, InRollback,
       Outcomes, Plannable, Entry, Record, States
<1>3. ASSUME NEW rec, NEW code, NEW drop, Conclude(p, rec, code, drop),
             code # "STATE_CORRUPT", rec.after = r.after,
             \/ /\ rec.state = "ROLLED_BACK" /\ rec.expected = rec.before
                /\ rec.actual = rec.before
             \/ rec.state = "FAILED" /\ rec.failure # "none",
             r.applied # NoHash => rec.applied = r.applied
      PROVE  Outcomes'
  <2>1. Accepted(op[p].cs, rec)
    BY <1>2, <1>3 DEF Accepted, WellFormed, Transitions
  <2> QED
    BY <1>1, <1>2, <1>3, <2>1, ConcludeOutcomes
<1>4. ASSUME NEW drop,
             Conclude(p, Concluded(p, "ROLLED_BACK", r.before, r.before), "OK", drop)
      PROVE  Outcomes'
  <2> DEFINE rec == Concluded(p, "ROLLED_BACK", r.before, r.before)
  <2>1. /\ rec.state = "ROLLED_BACK" /\ rec.expected = rec.before
        /\ rec.actual = rec.before /\ rec.after = r.after /\ rec.applied = r.applied
    BY <1>1, BuiltRecords
  <2> HIDE DEF rec
  <2> QED
    BY <1>3, <1>4, <2>1 DEF rec
<1>5. ASSUME NEW code \in Failures, NEW expected, NEW actual, NEW h, NEW drop,
             r.applied # NoHash => h = NoHash,
             NEW rec \in {Failed(p, code, expected, actual),
                          Ambiguous(p, code, expected, actual, h)},
             Conclude(p, rec, code, drop)
      PROVE  Outcomes'
  <2>1. rec.state = "FAILED" /\ rec.failure = code /\ rec.after = r.after
    BY <1>1, <1>5, BuiltRecords
  <2>2. r.applied # NoHash => rec.applied = r.applied
    BY <1>1, <1>5, BuiltRecords
  <2>3. code # "none" /\ code # "STATE_CORRUPT"
    BY DEF Failures, BaselineFailures, AppliedFailures, AmbiguousFailures
  <2> HIDE DEF r
  <2> QED
    BY <1>3, <1>5, <2>1, <2>2, <2>3
<1>6. ASSUME NEW code \in Failures, NEW expected, NEW actual, NEW drop,
             Conclude(p, Failed(p, code, expected, actual), code, drop)
      PROVE  Outcomes'
  BY <1>5, <1>6
<1>7. ASSUME NEW code \in Failures, NEW expected, NEW actual, NEW h, NEW drop,
             r.applied # NoHash => h = NoHash,
             Conclude(p, Ambiguous(p, code, expected, actual, h), code, drop)
      PROVE  Outcomes'
  BY <1>5, <1>7
<1>8. /\ "ROLLBACK_PREVIOUS_ATTEMPT_UNCHANGED" \in Failures
      /\ "ROLLBACK_AMBIGUOUS" \in Failures
      /\ "ROLLBACK_FAILED_UNCHANGED" \in Failures
      /\ "STATE_CORRUPT" \notin Failures
  BY DEF Failures, BaselineFailures, AppliedFailures, AmbiguousFailures
<1>9. CASE RollbackReplay(p)
  <2> DEFINE fresh == op[p].fresh
             code == IF fresh = r.after THEN "ROLLBACK_PREVIOUS_ATTEMPT_UNCHANGED"
                     ELSE "ROLLBACK_AMBIGUOUS"
             h == IF r.applied = NoHash THEN fresh ELSE NoHash
  <2>1. CASE /\ fresh = r.before
             /\ Conclude(p, Concluded(p, "ROLLED_BACK", r.before, fresh), "OK", TRUE)
    BY <1>4, <2>1
  <2>2. CASE fresh = r.after /\ Conclude(p, Failed(p, code, r.after, fresh), code, FALSE)
    BY <1>6, <1>8, <2>2
  <2>3. CASE /\ fresh # r.after
             /\ Conclude(p, Ambiguous(p, code, r.before, fresh, h), code, FALSE)
    <3>1. code = "ROLLBACK_AMBIGUOUS" /\ (r.applied # NoHash => h = NoHash)
      BY <2>3
    <3> QED
      BY <1>7, <1>8, <2>3, <3>1
  <2>4. CASE Finish(p, code) /\ UNCHANGED disk
    BY <1>1, <1>8, <2>4, EndOutcomes DEF disk
  <2> QED
    BY <1>9, <2>1, <2>2, <2>3, <2>4 DEF RollbackReplay
<1>10. CASE RollbackSettle(p)
  BY <1>4, <1>6, <1>7, <1>8, <1>10 DEF RollbackSettle
<1> QED
  BY <1>9, <1>10

LEMMA VerifyOutcomes ==
  ASSUME Outcomes, IInv, NEW p \in Procs, VerifySettle(p)
  PROVE  Outcomes'
<1> DEFINE r == Entry(p)
<1>1. op[p] \in Call /\ Local(p) /\ TypeOK /\ op[p].cs \in ChangeSets
  BY PresentCall DEF IInv, VerifySettle, Running, Steps, Call
<1>2. /\ op[p].kind = "verify" /\ r.after # NoHash
      /\ r.state = "PLANNED" => r.applied = NoHash
  BY <1>1 DEF VerifySettle, Running, Local, InVerify, Outcomes, Plannable, Entry
<1>3. PICK s, expected, code :
        /\ Conclude(p, Concluded(p, s, expected, op[p].fresh), code, FALSE)
        /\ s = "VERIFIED" \/ s = r.state
        /\ code # "STATE_CORRUPT"
  BY DEF VerifySettle
<1> DEFINE rec == Concluded(p, s, expected, op[p].fresh)
<1>4. rec.state = s /\ rec.after = r.after /\ rec.applied = r.applied
  BY <1>1, BuiltRecords
<1> HIDE DEF rec
<1> QED
  BY <1>1, <1>2, <1>3, <1>4, ConcludeOutcomes DEF rec

LEMMA PlanOutcomes ==
  ASSUME Outcomes, TypeOK, NEW p \in Procs, Plan(p) \/ PlanWriteFails(p)
  PROVE  Outcomes'
<1>1. op[p] \in Call /\ op[p].cs \in ChangeSets
  BY PresentCall DEF Plan, PlanSnapshot, PlanRejected, PlanEvent, PlanBind,
     PlanConflict, PlanWriteFails, Running, Steps, Call
<1>2. CASE PlanSnapshot(p)
  <2>1. PICK after \in Hashes :
          op' = [op EXCEPT ![p] = [@ EXCEPT !.seen = after, !.pc = "event"]]
    BY <1>2 DEF PlanSnapshot
  <2>2. op'[p].seen # NoHash
    BY <1>1, <2>1, ConstantsAssumption DEF TypeOK, Call
  <2>3. Unplanned
    BY <2>1, <2>2 DEF TypeOK, Unplanned
  <2> QED
    BY <1>2, <2>3, QuietOutcomes DEF PlanSnapshot
<1>3. CASE PlanRejected(p) \/ PlanBind(p)
  BY <1>1, <1>3, EndOutcomes DEF PlanRejected, PlanBind, disk
<1>4. CASE PlanEvent(p)
  <2> DEFINE r == [NoRecord EXCEPT !.state = "PLANNED", !.before = op[p].fresh,
                                   !.after = op[p].seen, !.planKey = op[p].key]
  <2>1. r.after # NoHash /\ r.applied = NoHash
    BY <1>4 DEF Outcomes, Plannable, PlanEvent, Running, NoRecord
  <2>2. \A c \in ChangeSets : journal'[c] = journal[c] \/ journal'[c] = r
    BY <1>4 DEF PlanEvent, TypeOK
  <2> HIDE DEF r
  <2>3. Unplanned /\ (reply' = reply \/ reply'.code # "STATE_CORRUPT")
    BY <1>1, <1>4, ElsewhereUnplanned DEF PlanEvent, Finish, Steps
  <2> QED
    BY <2>1, <2>2, <2>3 DEF Outcomes, Plannable, OutcomeAccepted, Unplanned
<1>5. CASE PlanConflict(p) \/ PlanWriteFails(p)
  <2>1. PICK code : PlanUndo(p, code) /\ code # "STATE_CORRUPT"
    BY <1>5 DEF PlanConflict, PlanWriteFails
  <2>2. \A c \in ChangeSets :
          journal'[c] = journal[c] \/ journal'[c].state = "NONE"
    BY <2>1 DEF PlanUndo, TypeOK, NoRecord
  <2>3. Unplanned /\ reply'.code # "STATE_CORRUPT"
    BY <1>1, <2>1, ElsewhereUnplanned DEF PlanUndo, Finish
  <2> QED
    BY <2>2, <2>3 DEF Outcomes, Plannable, OutcomeAccepted, Unplanned
<1> QED
  BY <1>2, <1>3, <1>4, <1>5 DEF Plan

\* The steps that journal nothing.
LEMMA OtherOutcomes ==
  ASSUME Outcomes, TypeOK, NEW p \in Procs,
         \/ Read(p) \/ ReadThrows(p) \/ ClaimAction(p) \/ Restore(p)
         \/ ApplyStale(p) \/ ApplyPermit(p) \/ ApplyGuard(p) \/ ApplyWrite(p)
         \/ ApplyReread(p) \/ Diagnose(p) \/ ApplyMismatch(p)
         \/ RollbackStale(p) \/ RollbackPermit(p) \/ WriteFails(p)
  PROVE  Outcomes'
<1>1. op[p] \in Call
  BY PresentCall DEF Read, ReadThrows, ClaimAction, Restore, RestoreRefused,
     RestoreWrite, RestoreReread, Rediagnose, ApplyStale, ApplyPermit, ApplyGuard,
     ApplyWrite, ApplyReread, Diagnose, ApplyMismatch, RollbackStale,
     RollbackPermit, WriteFails, Running, At, Steps
<1>2. CASE ReadThrows(p) \/ ApplyStale(p) \/ RollbackStale(p) \/ WriteFails(p)
  BY <1>1, <1>2, EndOutcomes DEF ReadThrows, ApplyStale, RollbackStale,
     WriteFails, disk
<1>3. CASE Read(p) \/ ApplyReread(p) \/ Diagnose(p) \/ Rediagnose(p)
  <2>1. UNCHANGED <<journal, reply>>
    BY <1>3 DEF Read, ApplyReread, Diagnose, Rediagnose, disk
  <2>2. CASE \E how \in {"error", "head"} : Throws(p, how, "diagnose")
    BY <1>1, <2>1, <2>2, ElsewhereUnplanned, QuietOutcomes DEF Steps
  <2>3. ASSUME NEW h, NEW pc, pc # "event", NEW o \in
                 {[op[p] EXCEPT !.fresh = h, !.pc = pc],
                  [op[p] EXCEPT !.seen = h, !.pc = pc],
                  [op[p] EXCEPT !.again = h, !.pc = pc]},
               op' = [op EXCEPT ![p] = o]
        PROVE  Outcomes'
    <3>1. o.pc # "event"
      BY <1>1, <2>3 DEF Call
    <3>2. Unplanned
      BY <2>3, <3>1 DEF TypeOK, Unplanned
    <3> QED
      BY <2>1, <3>2, QuietOutcomes
  <2> QED
    BY <1>3, <2>2, <2>3 DEF Read, ApplyReread, Diagnose, Rediagnose
<1>4. CASE \/ ClaimAction(p) \/ RestoreRefused(p) \/ RestoreWrite(p)
           \/ RestoreReread(p) \/ ApplyPermit(p) \/ ApplyGuard(p)
           \/ ApplyWrite(p) \/ ApplyMismatch(p) \/ RollbackPermit(p)
  <2>1. UNCHANGED <<journal, reply>>
    BY <1>4 DEF ClaimAction, RestoreRefused, RestoreWrite, RestoreReread,
       ApplyPermit, ApplyGuard, ApplyWrite, ApplyMismatch, RollbackPermit,
       BindKey, Send, disk
  <2>2. \/ \E pc \in Steps \ {"event"} : Goto(p, pc)
        \/ \E pc \in Steps \ {"event"}, how \in {"error", "head"} : Throws(p, how, pc)
    BY <1>4 DEF ClaimAction, RestoreRefused, RestoreWrite, RestoreReread,
       ApplyPermit, ApplyGuard, ApplyWrite, ApplyMismatch, RollbackPermit,
       BindKey, Steps
  <2> QED
    BY <1>1, <2>1, <2>2, ElsewhereUnplanned, QuietOutcomes
<1> QED
  BY <1>2, <1>3, <1>4 DEF Restore

LEMMA OutcomesStep ==
  ASSUME Outcomes, IInv, [Next]_vars
  PROVE  Outcomes'
<1> USE DEF IInv
<1>1. CASE UNCHANGED vars \/ RemoveStaleLock \/ Drift \/ Landing
  BY <1>1, QuietOutcomes DEF vars, disk, RemoveStaleLock, Drift, Land, Landing, Unplanned
<1>2. ASSUME NEW p \in Procs, Begin(p) PROVE Outcomes'
  <2>1. PICK kind, c, k : Start(p, kind, c, k)
    BY <1>2 DEF Begin, VerifyBegin, PlanBegin, ApplyBegin, RollbackBegin
  <2>2. Unplanned
    BY <2>1 DEF Start, TypeOK, Unplanned, Idle
  <2> QED
    BY <2>1, <2>2, QuietOutcomes DEF Start, disk
<1>3. ASSUME NEW p \in Procs, Proceed(p) PROVE Outcomes'
  BY <1>3, PlanOutcomes, ApplyOutcomes, RollbackOutcomes, VerifyOutcomes,
     OtherOutcomes DEF Proceed, Apply, Rollback
<1>4. ASSUME NEW p \in Procs, ProcessDies(p) PROVE Outcomes'
  <2>1. Unplanned
    BY <1>4 DEF ProcessDies, TypeOK, Unplanned, Idle
  <2> QED
    BY <1>4, <2>1, QuietOutcomes DEF ProcessDies, disk
<1>5. ASSUME NEW p \in Procs, Fault(p) PROVE Outcomes'
  BY <1>4, <1>5, PlanOutcomes, OtherOutcomes DEF Fault
<1> QED
  BY <1>1, <1>2, <1>3, <1>5 DEF Next

\* OutcomeAccepted: whatever apply and rollback find, the store takes what
\* they journal about it.
THEOREM OutcomesAccepted == Spec => []OutcomeAccepted
<1>1. Init => Outcomes
  BY DEF Init, Outcomes, Plannable, OutcomeAccepted, NoRecord, Idle
<1>2. Outcomes => OutcomeAccepted
  BY DEF Outcomes
<1> QED
  BY <1>1, <1>2, OutcomesStep, Invariance, PTL DEF Spec
----------------------------------------------------------------------------
(* Private material                                                        *)

\* The step journals an exact sight of the baseline of change set c.
SightOfBaseline(c) ==
  /\ journal'[c] # journal[c]
  /\ journal'[c].expected = journal'[c].before
  /\ journal'[c].actual = journal'[c].before
Keeping ==
  \A p \in Procs, c \in ChangeSets : MaterialDropped(p, c) => SightOfBaseline(c)

\* A step that forgets nothing.
LEMMA HeldKeeping ==
  ASSUME vault' = vault
  PROVE  Keeping
BY DEF Keeping, MaterialDropped

LEMMA ForgetOne ==
  ASSUME TypeOK, NEW p \in Procs, NEW d, Forget(p, d), NEW q \in Procs,
         NEW c \in ChangeSets, MaterialDropped(q, c)
  PROVE  c = d
BY DEF TypeOK, Forget, MaterialDropped

\* A conclusion forgets only together with the event that it appends.
LEMMA ConcludeKeeping ==
  ASSUME TypeOK, NEW p \in Procs, op[p] \in Call, NEW r, NEW code, NEW drop,
         Conclude(p, r, code, drop),
         drop => /\ r.state # Entry(p).state
                 /\ r.expected = r.before /\ r.actual = r.before
  PROVE  Keeping
<1>1. CASE UNCHANGED vault
  BY <1>1, HeldKeeping
<1>2. CASE ~UNCHANGED vault
  <2>1. /\ drop /\ Forget(p, op[p].cs) /\ op[p].cs \in ChangeSets
        /\ journal' = [journal EXCEPT ![op[p].cs] = r]
    BY <1>2 DEF Conclude, Call
  <2>2. SightOfBaseline(op[p].cs)
    BY <2>1 DEF SightOfBaseline, TypeOK, Entry
  <2> QED
    BY <2>1, <2>2, ForgetOne DEF Keeping
<1> QED
  BY <1>1, <1>2

LEMMA SettleKeeping ==
  ASSUME IInv, NEW p \in Procs,
         \/ ApplyReplay(p) \/ ApplySettle(p) \/ RecoverySettle(p)
         \/ RollbackReplay(p) \/ RollbackSettle(p) \/ VerifySettle(p)
  PROVE  Keeping
<1> DEFINE r == Entry(p)
<1>1. op[p] \in Call /\ Local(p) /\ TypeOK
  BY PresentCall DEF IInv, ApplyReplay, ApplySettle, RecoverySettle,
     RollbackReplay, RollbackSettle, VerifySettle, Running, At, Steps
<1>2. ASSUME NEW rec, NEW code, Conclude(p, rec, code, FALSE) PROVE Keeping
  BY <1>1, <1>2, ConcludeKeeping
<1>3. CASE ApplyReplay(p) \/ ApplySettle(p) \/ RecoverySettle(p)
  <2>1. op[p].kind = "apply"
    BY <1>1, <1>3 DEF ApplyReplay, ApplySettle, RecoverySettle, Running, At,
       Local, InPlan, InRollback, InVerify, Call, Kinds, Actions
  <2>2. r.state = "PLANNED"
    BY <1>1, <2>1 DEF Local, InApply
  <2>3. ASSUME NEW failure, NEW code,
               Conclude(p, Failed(p, failure, r.before, r.before), code, TRUE)
        PROVE  Keeping
    <3> DEFINE rec == Failed(p, failure, r.before, r.before)
    <3>1. /\ rec.state = "FAILED" /\ rec.expected = rec.before
          /\ rec.actual = rec.before
      BY <1>1, BuiltRecords
    <3> HIDE DEF rec
    <3> QED
      BY <1>1, <2>2, <2>3, <3>1, ConcludeKeeping DEF rec
  <2>4. ASSUME NEW failure, NEW code, NEW h,
               Conclude(p, [Failed(p, failure, r.before, r.before)
                              EXCEPT !.applied = h], code, TRUE)
        PROVE  Keeping
    <3> DEFINE rec == [Failed(p, failure, r.before, r.before) EXCEPT !.applied = h]
    <3>1. /\ rec.state = "FAILED" /\ rec.expected = rec.before
          /\ rec.actual = rec.before
      BY <1>1, BuiltRecords
    <3> HIDE DEF rec
    <3> QED
      BY <1>1, <2>2, <2>4, <3>1, ConcludeKeeping DEF rec
  <2>5. CASE ApplyReplay(p)
    BY <1>2, <2>3, <2>5 DEF ApplyReplay
  <2>6. CASE ApplySettle(p)
    BY <1>2, <2>3, <2>6 DEF ApplySettle
  <2>7. CASE RecoverySettle(p)
    BY <1>2, <2>4, <2>7 DEF RecoverySettle
  <2> QED
    BY <1>3, <2>5, <2>6, <2>7
<1>4. CASE RollbackReplay(p) \/ RollbackSettle(p)
  <2>1. r.state # "ROLLED_BACK"
    BY <1>1, <1>4 DEF RollbackReplay, RollbackSettle, Running, Local, InRollback
  <2>2. ASSUME NEW code,
               Conclude(p, Concluded(p, "ROLLED_BACK", r.before, r.before), code, TRUE)
        PROVE  Keeping
    <3> DEFINE rec == Concluded(p, "ROLLED_BACK", r.before, r.before)
    <3>1. /\ rec.state = "ROLLED_BACK" /\ rec.expected = rec.before
          /\ rec.actual = rec.before
      BY <1>1, BuiltRecords
    <3> HIDE DEF rec
    <3> QED
      BY <1>1, <2>1, <2>2, <3>1, ConcludeKeeping DEF rec
  <2>3. CASE RollbackReplay(p)
    BY <1>2, <2>2, <2>3, HeldKeeping DEF RollbackReplay
  <2>4. CASE RollbackSettle(p)
    BY <1>2, <2>2, <2>4 DEF RollbackSettle
  <2> QED
    BY <1>4, <2>3, <2>4
<1>5. CASE VerifySettle(p)
  BY <1>2, <1>5 DEF VerifySettle
<1> QED
  BY <1>1, <1>3, <1>4, <1>5

LEMMA KeepingStep ==
  ASSUME IInv, [Next]_vars
  PROVE  Keeping
<1>1. CASE UNCHANGED vars \/ RemoveStaleLock \/ Drift \/ Landing
  BY <1>1, HeldKeeping DEF vars, RemoveStaleLock, Drift, Land, Landing
<1>2. ASSUME NEW p \in Procs, Begin(p) PROVE Keeping
  BY <1>2, HeldKeeping DEF Begin, VerifyBegin, PlanBegin, ApplyBegin,
     RollbackBegin, Start
<1>3. ASSUME NEW p \in Procs, Plan(p) PROVE Keeping
  <2>1. CASE PlanSnapshot(p)
    BY <2>1 DEF PlanSnapshot, Keeping, MaterialDropped, IInv, TypeOK
  <2>2. CASE PlanConflict(p)
    <3>1. op[p].cs \in ChangeSets
      BY <2>2, PresentCall DEF PlanConflict, Running, Steps, IInv, Call
    <3>2. journal'[op[p].cs].state = "NONE"
      BY <2>2, <3>1 DEF PlanConflict, PlanUndo, IInv, TypeOK, NoRecord
    <3> QED
      BY <2>2, <3>2, ForgetOne DEF PlanConflict, PlanUndo, Keeping,
         MaterialDropped, IInv
  <2>3. CASE PlanRejected(p) \/ PlanEvent(p) \/ PlanBind(p)
    BY <2>3, HeldKeeping DEF PlanRejected, PlanEvent, PlanBind
  <2> QED
    BY <1>3, <2>1, <2>2, <2>3 DEF Plan
<1>4. ASSUME NEW p \in Procs, Proceed(p), ~Plan(p) PROVE Keeping
  <2>1. CASE \/ ApplyReplay(p) \/ ApplySettle(p) \/ RecoverySettle(p)
             \/ RollbackReplay(p) \/ RollbackSettle(p) \/ VerifySettle(p)
    BY <2>1, SettleKeeping
  <2>2. CASE \/ Read(p) \/ ReadThrows(p) \/ ClaimAction(p) \/ Restore(p)
             \/ ApplyStale(p) \/ ApplyPermit(p) \/ ApplyGuard(p)
             \/ ApplyWrite(p) \/ ApplyReread(p) \/ Diagnose(p)
             \/ ApplyMismatch(p) \/ RollbackStale(p) \/ RollbackPermit(p)
    BY <2>2, HeldKeeping DEF Read, ReadThrows, ClaimAction, Restore,
       RestoreRefused, RestoreWrite, RestoreReread, Rediagnose, ApplyStale,
       ApplyPermit, ApplyGuard, ApplyWrite, ApplyReread, Diagnose,
       ApplyMismatch, RollbackStale, RollbackPermit, BindKey, Send
  <2> QED
    BY <1>4, <2>1, <2>2 DEF Proceed, Apply, Rollback
<1>5. ASSUME NEW p \in Procs, Fault(p) PROVE Keeping
  <2>1. faults \in Nat
    BY DEF IInv, TypeOK
  <2>2. CASE PlanWriteFails(p) \/ ProcessDies(p)
    BY <2>1, <2>2 DEF PlanWriteFails, ProcessDies, Keeping, MaterialDropped
  <2>3. CASE WriteFails(p)
    BY <2>3, HeldKeeping DEF WriteFails
  <2> QED
    BY <1>5, <2>2, <2>3 DEF Fault
<1> QED
  BY <1>1, <1>2, <1>3, <1>4, <1>5 DEF Next

\* MaterialKept: a living process forgets the private material of a
\* journalled change set only with an exact sight of the baseline.
THEOREM MaterialAlwaysKept == Spec => MaterialKept
<1>1. IInv /\ [Next]_vars =>
        [\A p \in Procs, c \in ChangeSets : MaterialDropped(p, c) =>
           /\ journal'[c] # journal[c]
           /\ journal'[c].expected = journal'[c].before
           /\ journal'[c].actual = journal'[c].before]_vars
  BY KeepingStep DEF Keeping, SightOfBaseline
<1> QED
  BY <1>1, Invariance, PTL DEF Spec, MaterialKept
----------------------------------------------------------------------------
(* The scan for a plan without a mapping                                   *)

\* No two journals carry one unmapped plan key, and none yet carries the key
\* of a plan that has not journalled its own event.
Unjournalled(p) == op[p].kind = "plan" /\ op[p].pc # "bind" /\ op[p].key \in Keys
Scannable ==
  /\ \A k \in Keys : idempotency[k] = Unbound =>
       \A c, d \in ChangeSets :
         journal[c].planKey = k /\ journal[d].planKey = k => c = d
  /\ \A p \in Procs : Unjournalled(p) /\ idempotency[op[p].key] = Unbound =>
       \A c \in ChangeSets : journal[c].planKey # op[p].key

\* A step that neither begins a call nor journals a plan.
LEMMA GoingScannable ==
  ASSUME Scannable,
         \A k \in Keys : idempotency'[k] = Unbound => idempotency[k] = Unbound,
         \A c \in ChangeSets : journal'[c].planKey \in {journal[c].planKey, NoKey},
         \A p \in Procs :
           \/ op'[p] = Idle \/ op'[p] = op[p]
           \/ /\ op'[p].kind = op[p].kind /\ op'[p].key = op[p].key
              /\ op[p].pc # "bind"
  PROVE  Scannable'
BY ConstantsAssumption DEF Scannable, Unjournalled, Idle

LEMMA BeginScannable ==
  ASSUME Scannable, IInv, NEW p \in Procs, Begin(p)
  PROVE  Scannable'
<1>1. PICK kind \in Kinds, c \in ChangeSets, k \in OptKey :
        Start(p, kind, c, k) /\ (kind = "plan" /\ k # NoKey => PlansOf(k) = {})
  BY DEF Begin, VerifyBegin, PlanBegin, ApplyBegin, RollbackBegin, Kinds,
     Actions, OptKey
<1> DEFINE o == [Idle EXCEPT !.kind = kind, !.pc = "read", !.cs = c, !.key = k]
<1>2. o.kind = kind /\ o.key = k
  BY DEF Idle
<1>3. op'[p] = o /\ \A q \in Procs \ {p} : op'[q] = op[q]
  BY <1>1 DEF Start, IInv, TypeOK
<1> HIDE DEF o
<1>4. UNCHANGED <<journal, idempotency>>
  BY <1>1 DEF Start, disk
<1>5. kind = "plan" /\ k \in Keys /\ idempotency[k] = Unbound =>
        \A d \in ChangeSets : journal[d].planKey # k
  BY <1>1, ConstantsAssumption DEF PlansOf
<1> QED
  BY <1>2, <1>3, <1>4, <1>5 DEF Scannable, Unjournalled

LEMMA EventScannable ==
  ASSUME Scannable, IInv, NEW p \in Procs, PlanEvent(p)
  PROVE  Scannable'
<1>1. op[p] \in Call /\ op[p].cs \in ChangeSets
  BY PresentCall DEF IInv, PlanEvent, Running, Steps, Call
<1>2. \A q \in Procs \ {p} : op'[q] = Idle
  BY <1>1, Sole DEF PlanEvent, Finish, Goto, IInv, TypeOK
<1>3. op'[p] = Idle \/ op'[p].pc = "bind"
  BY <1>1 DEF PlanEvent, Finish, Goto, IInv, TypeOK, Call
<1>4. /\ journal'[op[p].cs].planKey = op[p].key
      /\ \A c \in ChangeSets \ {op[p].cs} : journal'[c] = journal[c]
  BY <1>1 DEF PlanEvent, IInv, TypeOK, NoRecord
<1>5. UNCHANGED idempotency /\ op[p].kind = "plan" /\ op[p].pc = "event"
  BY DEF PlanEvent, Running
<1>6. op[p].key \in Keys /\ idempotency[op[p].key] = Unbound =>
        \A c \in ChangeSets : journal[c].planKey # op[p].key
  BY <1>5 DEF Scannable, Unjournalled
<1>7. \A q \in Procs : ~Unjournalled(q)'
  BY <1>2, <1>3 DEF Unjournalled, Idle
<1>8. ASSUME NEW k \in Keys, idempotency[k] = Unbound,
             NEW c \in ChangeSets, NEW d \in ChangeSets,
             journal'[c].planKey = k, journal'[d].planKey = k
      PROVE  c = d
  <2>1. CASE k = op[p].key
    BY <1>4, <1>6, <1>8, <2>1
  <2>2. CASE k # op[p].key
    BY <1>4, <1>8, <2>2 DEF Scannable
  <2> QED
    BY <2>1, <2>2
<1> QED
  BY <1>5, <1>7, <1>8 DEF Scannable

\* What an appended event keeps.
LEMMA SettlePlanKey ==
  ASSUME TypeOK, NEW p \in Procs, op[p] \in Call,
         \/ ApplyReplay(p) \/ ApplySettle(p) \/ RecoverySettle(p)
         \/ RollbackReplay(p) \/ RollbackSettle(p) \/ VerifySettle(p)
  PROVE  /\ \A c \in ChangeSets : journal'[c].planKey = journal[c].planKey
         /\ UNCHANGED idempotency
         /\ \E code : Finish(p, code)
<1> DEFINE Same == /\ \A c \in ChangeSets : journal'[c].planKey = journal[c].planKey
                   /\ UNCHANGED idempotency
                   /\ \E code : Finish(p, code)
<1> SUFFICES Same
  OBVIOUS
<1>1. ASSUME NEW r, NEW code, NEW drop, Conclude(p, r, code, drop),
             r.planKey = Entry(p).planKey
      PROVE  Same
  BY <1>1 DEF Conclude, TypeOK, Call, Entry
<1>2. ASSUME NEW s, NEW expected, NEW actual, NEW code, NEW h
      PROVE  \A r \in {Concluded(p, s, expected, actual),
                       [Concluded(p, s, expected, actual) EXCEPT !.applied = h],
                       Failed(p, code, expected, actual),
                       [Failed(p, code, expected, actual) EXCEPT !.applied = h],
                       Ambiguous(p, code, expected, actual, h)} :
               r.planKey = Entry(p).planKey
  <2>1. Entry(p) \in Record
    BY DEF TypeOK, Entry, Call
  <2> QED
    BY <2>1 DEF Failed, Concluded, Record, Ambiguous
<1>3. ASSUME NEW s, NEW expected, NEW actual, NEW code, NEW drop,
              Conclude(p, Concluded(p, s, expected, actual), code, drop)
       PROVE  Same
  BY <1>1, <1>2, <1>3
<1>4. ASSUME NEW s, NEW expected, NEW actual, NEW h, NEW code, NEW drop,
              Conclude(p, [Concluded(p, s, expected, actual) EXCEPT !.applied = h],
                       code, drop)
       PROVE  Same
  <2> DEFINE r == [Concluded(p, s, expected, actual) EXCEPT !.applied = h]
  <2>1. r.planKey = Entry(p).planKey
    BY <1>2
  <2> HIDE DEF r
  <2> QED
    BY <1>1, <1>4, <2>1 DEF r
<1>5. ASSUME NEW failure, NEW expected, NEW actual, NEW h, NEW code, NEW drop,
              \/ Conclude(p, Failed(p, failure, expected, actual), code, drop)
              \/ Conclude(p, [Failed(p, failure, expected, actual)
                                EXCEPT !.applied = h], code, drop)
              \/ Conclude(p, Ambiguous(p, failure, expected, actual, h), code, drop)
       PROVE  Same
  <2> DEFINE failed == Failed(p, failure, expected, actual)
             left == [failed EXCEPT !.applied = h]
             amb == Ambiguous(p, failure, expected, actual, h)
  <2>1. /\ failed.planKey = Entry(p).planKey /\ left.planKey = Entry(p).planKey
        /\ amb.planKey = Entry(p).planKey
    BY <1>2
  <2>2. \/ Conclude(p, failed, code, drop) \/ Conclude(p, left, code, drop)
        \/ Conclude(p, amb, code, drop)
    BY <1>5
  <2> HIDE DEF failed, left, amb
  <2> QED
    BY <1>1, <2>1, <2>2
<1>6. ASSUME NEW code, Finish(p, code), UNCHANGED disk PROVE Same
  BY <1>6 DEF disk
<1> HIDE DEF Same
<1>7. CASE ApplyReplay(p)
  BY <1>3, <1>4, <1>5, <1>7 DEF ApplyReplay
<1>8. CASE ApplySettle(p)
  BY <1>3, <1>4, <1>5, <1>8 DEF ApplySettle
<1>9. CASE RecoverySettle(p)
  BY <1>3, <1>4, <1>5, <1>9 DEF RecoverySettle
<1>10. CASE RollbackReplay(p)
  <2>1. CASE op[p].fresh = Entry(p).after
    BY <1>3, <1>5, <1>6, <1>10, <2>1 DEF RollbackReplay
  <2>2. CASE op[p].fresh # Entry(p).after
    BY <1>3, <1>5, <1>6, <1>10, <2>2 DEF RollbackReplay
  <2> QED
    BY <2>1, <2>2
<1>11. CASE RollbackSettle(p)
  BY <1>3, <1>4, <1>5, <1>11 DEF RollbackSettle
<1>12. CASE VerifySettle(p)
  BY <1>3, <1>4, <1>5, <1>12 DEF VerifySettle
<1> QED
  BY <1>7, <1>8, <1>9, <1>10, <1>11, <1>12

LEMMA ScannableStep ==
  ASSUME Scannable, IInv, [Next]_vars
  PROVE  Scannable'
<1>1. TypeOK
  BY DEF IInv
<1>2. CASE UNCHANGED vars \/ RemoveStaleLock \/ Drift \/ Landing
  BY <1>2, GoingScannable DEF vars, disk, RemoveStaleLock, Drift, Land, Landing
<1>3. ASSUME NEW p \in Procs, \E code : Finish(p, code),
             \A k \in Keys : idempotency'[k] = Unbound => idempotency[k] = Unbound,
             \A c \in ChangeSets :
               journal'[c].planKey \in {journal[c].planKey, NoKey}
      PROVE  Scannable'
  <2>1. \A q \in Procs : op'[q] = Idle \/ op'[q] = op[q]
    BY <1>1, <1>3 DEF Finish, TypeOK
  <2> QED
    BY <1>3, <2>1, GoingScannable
<1>4. ASSUME NEW p \in Procs,
             \/ ReadThrows(p) \/ PlanRejected(p) \/ PlanBind(p)
             \/ PlanConflict(p) \/ PlanWriteFails(p) \/ ApplyStale(p)
             \/ RollbackStale(p) \/ WriteFails(p)
      PROVE  Scannable'
  <2>1. \E code : Finish(p, code)
    BY <1>4 DEF ReadThrows, PlanRejected, PlanBind, PlanConflict,
       PlanWriteFails, PlanUndo, ApplyStale, RollbackStale, WriteFails
  <2>2. \A c \in ChangeSets : journal'[c].planKey \in {journal[c].planKey, NoKey}
    BY <1>1, <1>4 DEF ReadThrows, PlanRejected, PlanBind, PlanConflict,
       PlanWriteFails, PlanUndo, ApplyStale, RollbackStale, WriteFails, disk,
       TypeOK, NoRecord
  <2>3. \A k \in Keys : idempotency'[k] = Unbound => idempotency[k] = Unbound
    <3>1. CASE PlanBind(p)
      BY <1>1, <3>1 DEF PlanBind, TypeOK
    <3>2. CASE ~PlanBind(p)
      BY <1>4, <3>2 DEF ReadThrows, PlanRejected, PlanConflict,
         PlanWriteFails, PlanUndo, ApplyStale, RollbackStale, WriteFails, disk
    <3> QED
      BY <3>1, <3>2
  <2> QED
    BY <1>3, <2>1, <2>2, <2>3
<1>5. ASSUME NEW p \in Procs,
             \/ ApplyReplay(p) \/ ApplySettle(p) \/ RecoverySettle(p)
             \/ RollbackReplay(p) \/ RollbackSettle(p) \/ VerifySettle(p)
      PROVE  Scannable'
  <2>1. op[p] \in Call
    BY <1>5, SettleForm
  <2> QED
    BY <1>1, <1>3, <1>5, <2>1, SettlePlanKey
<1>6. ASSUME NEW p \in Procs,
             \/ Read(p) \/ PlanSnapshot(p) \/ ClaimAction(p) \/ Restore(p)
             \/ ApplyPermit(p) \/ ApplyGuard(p) \/ ApplyWrite(p)
             \/ ApplyReread(p) \/ Diagnose(p) \/ ApplyMismatch(p)
             \/ RollbackPermit(p)
      PROVE  Scannable'
  <2>1. op[p] \in Call /\ op[p].pc # "bind"
    BY <1>1, <1>6, PresentCall DEF Read, PlanSnapshot, ClaimAction, Restore,
       RestoreRefused, RestoreWrite, RestoreReread, Rediagnose, ApplyPermit,
       ApplyGuard, ApplyWrite, ApplyReread, Diagnose, ApplyMismatch,
       RollbackPermit, Running, At, Steps
  <2>2. UNCHANGED journal
    BY <1>6 DEF Read, PlanSnapshot, ClaimAction, Restore,
       RestoreRefused, RestoreWrite, RestoreReread, Rediagnose, ApplyPermit,
       ApplyGuard, ApplyWrite, ApplyReread, Diagnose, ApplyMismatch,
       RollbackPermit, BindKey, Send, disk
  <2>3. \A k \in Keys : idempotency'[k] = Unbound => idempotency[k] = Unbound
    <3>1. CASE ApplyPermit(p) \/ RollbackPermit(p)
      <4>1. BindingOf(op[p].kind, op[p].cs) # Unbound
        BY <3>1 DEF ApplyPermit, RollbackPermit, Running, BindingOf, Unbound
      <4>2. \A k \in Keys : \/ idempotency'[k] = idempotency[k]
                            \/ idempotency'[k] = BindingOf(op[p].kind, op[p].cs)
        BY <1>1, <3>1 DEF ApplyPermit, RollbackPermit, BindKey, TypeOK
      <4> QED
        BY <4>1, <4>2
    <3>2. CASE ~(ApplyPermit(p) \/ RollbackPermit(p))
      BY <1>6, <3>2 DEF Read, PlanSnapshot, ClaimAction, Restore,
         RestoreRefused, RestoreWrite, RestoreReread, Rediagnose, ApplyGuard,
         ApplyWrite, ApplyReread, Diagnose, ApplyMismatch, Send, disk
    <3> QED
      BY <3>1, <3>2
  <2> DEFINE SameCall == /\ op'[p].kind = op[p].kind /\ op'[p].key = op[p].key
                         /\ \A q \in Procs \ {p} : op'[q] = op[q]
  <2>4. SameCall
    <3>1. CASE \E pc : Goto(p, pc)
      BY <1>1, <2>1, <3>1, GotoFields DEF Moved
    <3>2. CASE \E how, pc : Throws(p, how, pc)
      BY <1>1, <2>1, <3>2, ThrowsFields DEF Moved
    <3>3. ASSUME NEW h, NEW pc, NEW o \in
                   {[op[p] EXCEPT !.fresh = h, !.pc = pc],
                    [op[p] EXCEPT !.seen = h, !.pc = pc],
                    [op[p] EXCEPT !.again = h, !.pc = pc]},
                 op' = [op EXCEPT ![p] = o]
          PROVE  SameCall
      <4>1. o.kind = op[p].kind /\ o.key = op[p].key
        BY <2>1, <3>3 DEF Call
      <4> QED
        BY <1>1, <3>3, <4>1 DEF TypeOK
    <3> HIDE DEF SameCall
    <3>4. CASE \/ Read(p) \/ PlanSnapshot(p) \/ ApplyReread(p) \/ Diagnose(p)
               \/ Rediagnose(p)
      BY <3>2, <3>3, <3>4 DEF Read, PlanSnapshot, ApplyReread, Diagnose, Rediagnose
    <3>5. CASE \/ ClaimAction(p) \/ RestoreRefused(p) \/ RestoreWrite(p)
               \/ RestoreReread(p) \/ ApplyPermit(p) \/ ApplyGuard(p)
               \/ ApplyWrite(p) \/ ApplyMismatch(p) \/ RollbackPermit(p)
      BY <3>1, <3>2, <3>5 DEF ClaimAction, RestoreRefused, RestoreWrite,
         RestoreReread, ApplyPermit, ApplyGuard, ApplyWrite, ApplyMismatch,
         RollbackPermit, BindKey
    <3> QED
      BY <1>6, <3>4, <3>5 DEF Restore
  <2> QED
    BY <2>1, <2>2, <2>3, <2>4, GoingScannable
<1>7. ASSUME NEW p \in Procs, ProcessDies(p) PROVE Scannable'
  <2>1. \A q \in Procs : op'[q] = Idle \/ op'[q] = op[q]
    BY <1>1, <1>7 DEF ProcessDies, TypeOK
  <2> QED
    BY <1>7, <2>1, GoingScannable DEF ProcessDies, disk
<1>8. ASSUME NEW p \in Procs, Proceed(p) PROVE Scannable'
  BY <1>4, <1>5, <1>6, <1>8, EventScannable DEF Proceed, Plan, Apply, Rollback
<1> QED
  BY <1>2, <1>4, <1>7, <1>8, BeginScannable DEF Next, Fault

\* PlanScanUnambiguous: the scan for an unmapped plan key finds one journal
\* at most.
THEOREM PlanScansUnambiguous == Spec => []PlanScanUnambiguous
<1>1. Init => Scannable
  BY ConstantsAssumption DEF Init, Scannable, Unjournalled, NoRecord, Idle
<1>2. Scannable => PlanScanUnambiguous
  <2> SUFFICES ASSUME Scannable, NEW k \in Keys, idempotency[k] = Unbound
               PROVE  Cardinality({c \in ChangeSets : journal[c].planKey = k}) <= 1
    BY DEF PlanScanUnambiguous
  <2> DEFINE found == {c \in ChangeSets : journal[c].planKey = k}
  <2>1. \A c, d \in found : c = d
    BY DEF Scannable
  <2>2. CASE found = {}
    BY <2>2, FS_EmptySet
  <2>3. ASSUME NEW c \in found PROVE Cardinality(found) <= 1
    <3>1. found = {c}
      BY <2>1, <2>3
    <3>2. Cardinality({c}) = 1
      BY FS_Singleton
    <3> QED
      BY <3>1, <3>2
  <2> QED
    BY <2>2, <2>3
<1> QED
  BY <1>1, <1>2, ScannableStep, Invariance, PTL DEF Spec
----------------------------------------------------------------------------
(* The journal tells the truth about the target                            *)

\* What record r of change set c says of the target.
Says(c, r) ==
  LET unsettled == actionClaims[c]["rollback"] # NoKey
      baseline == editor = r.before \/ c \in late
  IN /\ r.state \in {"APPLIED", "VERIFIED"} /\ ~unsettled => editor = r.after
     /\ r.state = "ROLLED_BACK" => baseline
     /\ r.state = "FAILED" /\ r.failure \in BaselineFailures /\ ~unsettled
          => baseline
Told(c) == Says(c, journal[c])

\* Hash h, read for change set c, is what the target holds, unless a request
\* of c was executed since.
Holds(c, h) == h = editor \/ c \in late

\* What the running call will judge by.
Sees(p) ==
  op[p].kind \in Actions =>
    /\ op[p].pc = "decide" => Holds(op[p].cs, op[p].fresh)
    /\ op[p].pc = "claim" /\ op[p].kind = "rollback" =>
         Holds(op[p].cs, op[p].fresh)
    /\ op[p].pc = "settle" => op[p].seen = NoHash \/ Holds(op[p].cs, op[p].seen)
    /\ op[p].pc = "resettle" =>
         IF op[p].kind = "rollback" /\ op[p].fresh # Entry(p).after
         THEN Holds(op[p].cs, op[p].fresh)
         ELSE op[p].again = NoHash \/ Holds(op[p].cs, op[p].again)

\* Nobody has claimed the rollback of change set c.
Open(c) == actionClaims[c]["rollback"] = NoKey

\* An apply that saw the planned content may rely on it, and one that is
\* about to send something does not find it.
Knows(p) ==
  op[p].kind = "apply" /\ Open(op[p].cs) =>
    /\ op[p].pc = "decide" /\ op[p].fresh = Entry(p).after =>
         editor = Entry(p).after
    /\ op[p].pc = "settle" /\ op[p].seen = Entry(p).after =>
         editor = Entry(p).after
    /\ op[p].pc = "settle" /\ op[p].threw = "no" => op[p].seen = editor
    /\ op[p].pc \in {"write", "restore"} => editor # Entry(p).after

\* While a write of c or its recovery is under way, the target does not show
\* the planned content: nothing can be taken for a success before it lands.
Outstanding(c) == \E a \in {"apply", "recovery"} : <<c, a>> \in pending
Waits(c) == Open(c) /\ Outstanding(c) => editor # journal[c].after

Informed(p) == Alone(op[p].cs) => Sees(p) /\ Knows(p)
Honest(c) == Alone(c) => Told(c) /\ Waits(c)
Truthful ==
  drifts = 0 =>
    (\A p \in Procs : Informed(p)) /\ (\A c \in ChangeSets : Honest(c))

----------------------------------------------------------------------------
(* What is under way                                                       *)

\* The running apply's write was acknowledged.
Acked(p) ==
  /\ op[p].kind = "apply"
  /\ \/ op[p].pc \in {"reread", "restore"}
     \/ op[p].pc = "settle" /\ op[p].threw = "no"

\* What is under way was sent, a recovery only after the write it corrects
\* was acknowledged.
Wired ==
  /\ \A c \in ChangeSets, a \in Purposes : <<c, a>> \in pending => writes[c][a] > 0
  /\ \A c \in ChangeSets : <<c, "apply">> \notin pending \/ <<c, "recovery">> \notin pending
  /\ \A p \in Procs : Acked(p) => <<op[p].cs, "apply">> \notin pending

LEMMA WiredKept ==
  ASSUME Wired, UNCHANGED writes, pending' \subseteq pending,
         \A p \in Procs : Acked(p)' => Acked(p) /\ op'[p].cs = op[p].cs
  PROVE  Wired'
BY DEF Wired

\* Nothing of change set c is under way before its apply claim.
LEMMA NothingSent ==
  ASSUME Wired, SentOnce, NEW c \in ChangeSets, writes \in [ChangeSets -> [Purposes -> Nat]]
  PROVE  /\ writes[c]["apply"] = 0 => ~Outstanding(c)
         /\ actionClaims[c]["apply"] = NoKey => ~Outstanding(c)
         /\ Open(c) => <<c, "rollback">> \notin pending
<1>1. /\ writes[c]["apply"] \in Nat /\ writes[c]["recovery"] \in Nat
      /\ writes[c]["rollback"] \in Nat
  BY DEF Purposes, Actions
<1>2. /\ <<c, "apply">> \in pending => writes[c]["apply"] > 0
      /\ <<c, "recovery">> \in pending => writes[c]["recovery"] > 0
      /\ <<c, "rollback">> \in pending => writes[c]["rollback"] > 0
  BY DEF Wired, Purposes, Actions
<1> QED
  BY <1>1, <1>2 DEF SentOnce, Outstanding, Open

\* The running call goes on to pc.
LEMMA MoveWired ==
  ASSUME Wired, TypeOK, NEW p \in Procs, op[p] \in Call, NEW pc, Moved(p, pc),
         UNCHANGED <<pending, writes>>,
         pc \notin {"reread", "settle", "restore"} \/ op[p].kind # "apply"
  PROVE  Wired'
<1>1. \A q \in Procs : Acked(q)' => Acked(q) /\ op'[q].cs = op[q].cs
  BY DEF Moved, Acked
<1> QED
  BY <1>1, WiredKept

LEMMA EndWired ==
  ASSUME Wired, UNCHANGED <<pending, writes>>,
         \A q \in Procs : op'[q] = Idle \/ op'[q] = op[q]
  PROVE  Wired'
<1>1. \A q \in Procs : Acked(q)' => Acked(q) /\ op'[q].cs = op[q].cs
  BY DEF Acked, Idle
<1> QED
  BY <1>1, WiredKept

LEMMA SendWired ==
  ASSUME Wired, IInv, NEW p \in Procs, ApplyWrite(p) \/ RestoreWrite(p)
  PROVE  Wired'
<1>1. op[p] \in Call /\ Local(p) /\ TypeOK /\ op[p].cs \in ChangeSets
  BY PresentCall DEF IInv, ApplyWrite, RestoreWrite, At, Steps, Call
<1> PICK c \in ChangeSets : c = op[p].cs
  BY <1>1
<1>2. op[p].kind \in Actions
  <2>1. op[p].pc \in {"write", "restore"}
    BY DEF ApplyWrite, RestoreWrite, At
  <2> QED
    BY <1>1, <2>1 DEF Local, InPlan, InVerify, Call, Kinds, Actions
<1>3. PICK a \in Purposes :
        /\ writes' = [writes EXCEPT ![c][a] = @ + 1]
        /\ pending' = pending \/ pending' = pending \cup {<<c, a>>}
        /\ a = "apply" => op[p].pc = "write"
        /\ a = "recovery" => op[p].pc = "restore" /\ op[p].kind = "apply"
  BY <1>2 DEF ApplyWrite, RestoreWrite, Send, Purposes, Actions, At
<1>4. /\ \A d \in ChangeSets, b \in Purposes : writes[d][b] > 0 => writes'[d][b] > 0
      /\ writes'[c][a] > 0
  BY <1>1, <1>3 DEF TypeOK
<1>5. op[p].pc = "write" => writes[c]["apply"] = 0
  BY <1>1, <1>2 DEF Local, InApply, InRollback, SentBy, Actions
<1>6. op[p].pc = "write" => ~Outstanding(c)
  BY <1>1, <1>5, NothingSent DEF IInv, Durable, TypeOK
<1>7. op[p].pc = "restore" /\ op[p].kind = "apply" => <<c, "apply">> \notin pending
  BY DEF Wired, Acked
<1>8. \A d \in ChangeSets :
        <<d, "apply">> \notin pending' \/ <<d, "recovery">> \notin pending'
  <2>1. \A x : x \in pending' => x \in pending \/ x = <<c, a>>
    BY <1>3
  <2>2. a \in {"apply", "recovery"} =>
          <<c, "apply">> \notin pending /\ (a = "recovery" \/ ~Outstanding(c))
    BY <1>3, <1>6, <1>7 DEF Outstanding
  <2> QED
    BY <2>1, <2>2 DEF Wired, Outstanding
<1>9. ASSUME NEW q \in Procs, Acked(q)' PROVE <<op'[q].cs, "apply">> \notin pending'
  <2>1. CASE ApplyWrite(p) /\ UNCHANGED pending /\ Goto(p, "reread")
    BY <1>1, <1>6, <1>9, <2>1, GotoFields, Sole
    DEF Moved, Outstanding, Acked, Idle, ApplyWrite, At
  <2>2. CASE \/ \E how : Throws(p, how, "diagnose")
             \/ \E how : Throws(p, how, "rediagnose")
             \/ Goto(p, "restored")
    BY <1>1, <1>9, <2>2, GotoFields, ThrowsFields, Sole DEF Moved, Acked, Idle
  <2> QED
    BY <2>1, <2>2 DEF ApplyWrite, RestoreWrite
<1>10. \A d \in ChangeSets, b \in Purposes : <<d, b>> \in pending' => writes'[d][b] > 0
  BY <1>3, <1>4 DEF Wired
<1> QED
  BY <1>8, <1>9, <1>10 DEF Wired

LEMMA ReadWired ==
  ASSUME Wired, IInv, NEW p \in Procs,
         \/ Read(p) \/ ApplyReread(p) \/ Diagnose(p) \/ Rediagnose(p)
         \/ RestoreReread(p) \/ RestoreRefused(p) \/ ApplyGuard(p)
         \/ ApplyMismatch(p) \/ ApplyPermit(p) \/ RollbackPermit(p)
         \/ ClaimAction(p) \/ PlanSnapshot(p)
  PROVE  Wired'
<1>1. op[p] \in Call /\ Local(p) /\ TypeOK
  BY PresentCall DEF IInv, Read, ApplyReread, Diagnose, Rediagnose, RestoreReread,
     RestoreRefused, ApplyGuard, ApplyMismatch, ApplyPermit, RollbackPermit,
     ClaimAction, PlanSnapshot, Running, At, Steps
<1>2. UNCHANGED <<pending, writes>>
  BY DEF Read, ApplyReread, Diagnose, Rediagnose, RestoreReread, RestoreRefused,
     ApplyGuard, ApplyMismatch, ApplyPermit, RollbackPermit, BindKey, ClaimAction,
     PlanSnapshot, remote
<1>3. ASSUME NEW pc, Goto(p, pc) \/ \E how : Throws(p, how, pc),
             pc \notin {"reread", "settle", "restore"} \/ op[p].kind # "apply"
      PROVE  Wired'
  BY <1>1, <1>2, <1>3, GotoFields, ThrowsFields, MoveWired
<1>4. ASSUME NEW h, NEW pc, NEW o \in
               {[op[p] EXCEPT !.fresh = h, !.pc = pc],
                [op[p] EXCEPT !.seen = h, !.pc = pc],
                [op[p] EXCEPT !.again = h, !.pc = pc]},
             op' = [op EXCEPT ![p] = o]
      PROVE  Moved(p, pc) /\ op'[p].threw = op[p].threw
  BY <1>1, <1>4, ReadFields
<1>5. CASE Read(p) \/ Rediagnose(p) \/ PlanSnapshot(p)
  <2>1. \E pc \in {"decide", "resettle", "event"} : Moved(p, pc)
    BY <1>4, <1>5 DEF Read, Rediagnose, PlanSnapshot
  <2> QED
    BY <1>1, <1>2, <2>1, MoveWired
<1>6. CASE ApplyReread(p)
  <2>1. CASE op' = [op EXCEPT ![p] = [@ EXCEPT !.seen = editor, !.pc = "settle"]]
    <3>1. Moved(p, "settle") /\ op[p].pc = "reread"
      BY <1>4, <1>6, <2>1 DEF ApplyReread, At
    <3> QED
      BY <1>2, <3>1, WiredKept DEF Moved, Acked
  <2> QED
    BY <1>3, <1>6, <2>1 DEF ApplyReread
<1>7. CASE Diagnose(p)
  <2>1. Moved(p, "settle") /\ op'[p].threw = op[p].threw /\ op[p].pc = "diagnose"
    BY <1>4, <1>7 DEF Diagnose, At
  <2>2. op[p].kind = "apply" => op[p].threw # "no"
    BY <1>1, <2>1 DEF Local, InApply
  <2> QED
    BY <1>2, <2>1, <2>2, WiredKept DEF Moved, Acked
<1>8. CASE ApplyMismatch(p)
  <2>1. op[p].kind # "apply" \/ (Moved(p, "restore") /\ Acked(p))
    BY <1>1, <1>8, GotoFields DEF ApplyMismatch, Mismatched, At, Acked
  <2>2. CASE op[p].kind # "apply"
    BY <1>3, <1>8, <2>2 DEF ApplyMismatch
  <2> QED
    BY <1>2, <2>1, <2>2, WiredKept DEF Moved, Acked
<1>9. CASE RestoreReread(p) \/ RestoreRefused(p) \/ ApplyGuard(p)
           \/ ApplyPermit(p) \/ RollbackPermit(p) \/ ClaimAction(p)
  BY <1>3, <1>9 DEF RestoreReread, RestoreRefused, ApplyGuard, ApplyPermit,
     RollbackPermit, BindKey, ClaimAction
<1> QED
  BY <1>5, <1>6, <1>7, <1>8, <1>9

LEMMA WiredStep ==
  ASSUME Wired, IInv, [Next]_vars
  PROVE  Wired'
<1>1. TypeOK
  BY DEF IInv
<1>2. CASE UNCHANGED vars \/ RemoveStaleLock \/ Drift
  BY <1>2, EndWired DEF vars, remote, RemoveStaleLock, Drift
<1>3. CASE Landing
  <2>1. pending' \subseteq pending /\ UNCHANGED <<op, writes>>
    BY <1>3 DEF Landing, Land
  <2> QED
    BY <2>1, WiredKept DEF Acked
<1>4. ASSUME NEW p \in Procs, Begin(p) PROVE Wired'
  <2>1. PICK kind, c, k : Start(p, kind, c, k)
    BY <1>4 DEF Begin, VerifyBegin, PlanBegin, ApplyBegin, RollbackBegin
  <2>2. op'[p].pc = "read" /\ \A q \in Procs \ {p} : op'[q] = op[q]
    BY <1>1, <2>1 DEF Start, TypeOK, Idle
  <2> QED
    BY <2>1, <2>2, WiredKept DEF Start, remote, Acked
<1>5. ASSUME NEW p \in Procs, \E code : Finish(p, code), UNCHANGED <<pending, writes>>
      PROVE  Wired'
  <2>1. \A q \in Procs : op'[q] = Idle \/ op'[q] = op[q]
    BY <1>1, <1>5 DEF Finish, TypeOK
  <2> QED
    BY <1>5, <2>1, EndWired
<1>6. ASSUME NEW p \in Procs,
             \/ ReadThrows(p) \/ ApplyStale(p) \/ RollbackStale(p) \/ WriteFails(p)
             \/ PlanRejected(p) \/ PlanBind(p) \/ PlanConflict(p)
             \/ PlanWriteFails(p) \/ VerifySettle(p)
      PROVE  Wired'
  BY <1>5, <1>6 DEF ReadThrows, ApplyStale, RollbackStale, WriteFails, PlanRejected,
     PlanBind, PlanConflict, PlanWriteFails, PlanUndo, VerifySettle, Conclude, remote
<1>7. ASSUME NEW p \in Procs,
             \/ ApplyReplay(p) \/ ApplySettle(p) \/ RecoverySettle(p)
             \/ RollbackReplay(p) \/ RollbackSettle(p)
      PROVE  Wired'
  BY <1>5, <1>7 DEF ApplyReplay, ApplySettle, RecoverySettle, RollbackReplay,
     RollbackSettle, Conclude, remote
<1>8. ASSUME NEW p \in Procs, PlanEvent(p) PROVE Wired'
  <2>1. op[p] \in Call /\ UNCHANGED <<pending, writes>>
    BY <1>1, <1>8, PresentCall DEF PlanEvent, Running, Steps, remote
  <2>2. CASE Goto(p, "bind")
    BY <1>1, <2>1, <2>2, GotoFields, MoveWired
  <2> QED
    BY <1>5, <1>8, <2>1, <2>2 DEF PlanEvent
<1>9. ASSUME NEW p \in Procs, Proceed(p) PROVE Wired'
  BY <1>6, <1>7, <1>8, <1>9, ReadWired, SendWired DEF Proceed, Plan, Apply, Restore,
     Rollback
<1>10. ASSUME NEW p \in Procs, ProcessDies(p) PROVE Wired'
  <2>1. \A q \in Procs : op'[q] = Idle \/ op'[q] = op[q]
    BY <1>1, <1>10 DEF ProcessDies, TypeOK
  <2> QED
    BY <1>10, <2>1, EndWired DEF ProcessDies, remote
<1> QED
  BY <1>2, <1>3, <1>4, <1>6, <1>9, <1>10 DEF Next, Fault

----------------------------------------------------------------------------
(* What calls and journals rest on                                         *)

\* A plan's baseline was read, and a rollback restores what it found applied.
Based ==
  /\ \A c \in ChangeSets : journal[c].state # "NONE" => journal[c].before # NoHash
  /\ \A p \in Procs :
       /\ op[p].pc \in {"decide", "event"} => op[p].fresh # NoHash
       /\ op[p].kind = "rollback" /\ op[p].pc \in {"restore", "restored", "rediagnose"}
            => op[p].fresh = Entry(p).after

LEMMA BasedStill ==
  ASSUME Based, UNCHANGED journal,
         \A q \in Procs : op'[q] = Idle \/ op'[q] = op[q]
  PROVE  Based'
BY DEF Based, Idle, Entry

\* The running call ends.
LEMMA BasedEnd ==
  ASSUME Based, IInv, NEW p \in Procs, op[p] \in Call, NEW code, Finish(p, code),
         \A c \in ChangeSets :
           \/ journal'[c] = journal[c]
           \/ journal'[c].state = "NONE"
           \/ journal'[c].before # NoHash
  PROVE  Based'
<1>1. \A q \in Procs : op'[q] = Idle
  BY Sole DEF Finish, IInv, TypeOK
<1> QED
  BY <1>1 DEF Based, Idle

\* The running call goes on.
LEMMA BasedMove ==
  ASSUME Based, IInv, NEW p \in Procs, op[p] \in Call, NEW pc, Moved(p, pc),
         \A c \in ChangeSets :
           journal'[c] = journal[c] \/ journal'[c].before # NoHash,
         pc \in {"decide", "event"} => op'[p].fresh # NoHash,
         op[p].kind = "rollback" /\ pc \in {"restore", "restored", "rediagnose"}
           => op'[p].fresh = Entry(p)'.after
  PROVE  Based'
<1>1. \A q \in Procs \ {p} : op'[q] = Idle
  BY Sole DEF Moved
<1> QED
  BY <1>1 DEF Based, Idle, Moved

\* A step forward leaves what the call has read first.
LEMMA FreshKept ==
  ASSUME TypeOK, NEW p \in Procs, op[p] \in Call, NEW pc,
         Goto(p, pc) \/ \E how : Throws(p, how, pc)
  PROVE  Moved(p, pc) /\ op'[p].fresh = op[p].fresh
<1>1. CASE Goto(p, pc)
  BY <1>1, GotoFields
<1>2. ASSUME NEW how, Throws(p, how, pc)
      PROVE  Moved(p, pc) /\ op'[p].fresh = op[p].fresh
  BY <1>2, ThrowsFields DEF Throws, TypeOK, Call
<1> QED
  BY <1>1, <1>2

\* The steps of a call that goes on and journals nothing.
LEMMA BasedGoing ==
  ASSUME Based, IInv, NEW p \in Procs,
         \/ Read(p) \/ ApplyReread(p) \/ Diagnose(p) \/ Rediagnose(p)
         \/ RestoreReread(p) \/ RestoreRefused(p) \/ ApplyGuard(p)
         \/ ApplyMismatch(p) \/ ApplyPermit(p) \/ RollbackPermit(p)
         \/ ClaimAction(p) \/ PlanSnapshot(p) \/ ApplyWrite(p) \/ RestoreWrite(p)
  PROVE  Based'
<1>1. op[p] \in Call /\ Local(p) /\ TypeOK
  BY PresentCall DEF IInv, Read, ApplyReread, Diagnose, Rediagnose, RestoreReread,
     RestoreRefused, ApplyGuard, ApplyMismatch, ApplyPermit, RollbackPermit,
     ClaimAction, PlanSnapshot, ApplyWrite, RestoreWrite, Running, At, Steps
<1>2. UNCHANGED journal
  BY DEF Read, ApplyReread, Diagnose, Rediagnose, RestoreReread, RestoreRefused,
     ApplyGuard, ApplyMismatch, ApplyPermit, RollbackPermit, BindKey, ClaimAction,
     PlanSnapshot, ApplyWrite, RestoreWrite, Send, disk
<1>3. ASSUME NEW pc,
             Goto(p, pc) \/ \E how : Throws(p, how, pc),
             pc \notin {"decide", "event"},
             op[p].kind = "rollback" /\ pc \in {"restore", "restored", "rediagnose"}
               => op[p].fresh = Entry(p).after
      PROVE  Based'
  <2>1. Moved(p, pc) /\ op'[p].fresh = op[p].fresh
    BY <1>1, <1>3, FreshKept
  <2>2. op[p].kind = "rollback" /\ pc \in {"restore", "restored", "rediagnose"}
          => op'[p].fresh = Entry(p)'.after
    BY <1>2, <1>3, <2>1 DEF Moved, Entry
  <2> QED
    BY <1>1, <1>2, <1>3, <2>1, <2>2, BasedMove
<1>4. CASE Read(p)
  <2>1. Moved(p, "decide") /\ op'[p].fresh = editor
    <3>1. op' = [op EXCEPT ![p] = [op[p] EXCEPT !.fresh = editor, !.pc = "decide"]]
      BY <1>4 DEF Read
    <3>2. [op[p] EXCEPT !.fresh = editor, !.pc = "decide"].fresh = editor
      BY <1>1 DEF Call
    <3> QED
      BY <1>1, <3>1, <3>2, ReadFields DEF TypeOK
  <2>2. editor # NoHash
    BY <1>1, ConstantsAssumption DEF TypeOK
  <2> QED
    BY <1>1, <1>2, <2>1, <2>2, BasedMove
<1>5. CASE PlanSnapshot(p)
  <2>1. Moved(p, "event") /\ op'[p].fresh = op[p].fresh
    <3>1. PICK h : op' = [op EXCEPT ![p] = [op[p] EXCEPT !.seen = h, !.pc = "event"]]
      BY <1>5 DEF PlanSnapshot
    <3>2. [op[p] EXCEPT !.seen = h, !.pc = "event"].fresh = op[p].fresh
      BY <1>1 DEF Call
    <3> QED
      BY <1>1, <3>1, <3>2, ReadFields DEF TypeOK
  <2>2. op[p].fresh # NoHash
    BY <1>5 DEF Based, PlanSnapshot, Running
  <2> QED
    BY <1>1, <1>2, <2>1, <2>2, BasedMove
<1>6. CASE Rediagnose(p) \/ Diagnose(p)
  <2>1. \E pc \in {"resettle", "settle"} : Moved(p, pc)
    BY <1>1, <1>6, ReadFields DEF Rediagnose, Diagnose
  <2> QED
    BY <1>1, <1>2, <2>1, BasedMove
<1>7. CASE ApplyReread(p)
  <2>1. CASE op' = [op EXCEPT ![p] = [@ EXCEPT !.seen = editor, !.pc = "settle"]]
    <3>1. Moved(p, "settle")
      BY <1>1, <2>1, ReadFields
    <3> QED
      BY <1>1, <1>2, <3>1, BasedMove
  <2> QED
    BY <1>3, <1>7, <2>1 DEF ApplyReread
<1>8. CASE RestoreReread(p) \/ RestoreRefused(p) \/ RestoreWrite(p)
  <2>1. op[p].kind = "rollback" => op[p].fresh = Entry(p).after
    BY <1>8 DEF RestoreReread, RestoreRefused, RestoreWrite, At, Based
  <2> QED
    BY <1>3, <1>8, <2>1 DEF RestoreReread, RestoreRefused, RestoreWrite
<1>9. CASE ApplyGuard(p) \/ ApplyWrite(p) \/ ApplyPermit(p) \/ RollbackPermit(p)
  BY <1>3, <1>9 DEF ApplyGuard, ApplyWrite, ApplyPermit, RollbackPermit, BindKey
<1>10. CASE ApplyMismatch(p)
  <2>1. op[p].kind # "rollback"
    BY <1>1, <1>10 DEF ApplyMismatch, At, Local, InRollback
  <2> QED
    BY <1>3, <1>10, <2>1 DEF ApplyMismatch
<1>11. CASE ClaimAction(p)
  <2>1. CASE op[p].kind = "apply"
    BY <1>3, <1>11, <2>1 DEF ClaimAction
  <2>2. CASE op[p].kind # "apply" /\ op[p].fresh = Entry(p).after
    BY <1>3, <1>11, <2>2 DEF ClaimAction
  <2>3. CASE op[p].kind # "apply" /\ op[p].fresh # Entry(p).after
    BY <1>3, <1>11, <2>3 DEF ClaimAction
  <2> QED
    BY <2>1, <2>2, <2>3
<1> QED
  BY <1>4, <1>5, <1>6, <1>7, <1>8, <1>9, <1>10, <1>11

LEMMA BasedStep ==
  ASSUME Based, IInv, [Next]_vars
  PROVE  Based'
<1>1. TypeOK
  BY DEF IInv
<1>2. CASE UNCHANGED vars \/ RemoveStaleLock \/ Drift \/ Landing
  BY <1>2, BasedStill DEF vars, disk, RemoveStaleLock, Drift, Landing, Land
<1>3. ASSUME NEW p \in Procs, Begin(p) PROVE Based'
  <2>1. PICK kind, c, k : Start(p, kind, c, k)
    BY <1>3 DEF Begin, VerifyBegin, PlanBegin, ApplyBegin, RollbackBegin
  <2>2. op'[p].pc = "read" /\ \A q \in Procs \ {p} : op'[q] = op[q]
    BY <1>1, <2>1 DEF Start, TypeOK, Idle
  <2> QED
    BY <2>1, <2>2 DEF Start, disk, Based, Entry
<1>4. ASSUME NEW p \in Procs, ProcessDies(p) PROVE Based'
  <2>1. \A q \in Procs : op'[q] = Idle \/ op'[q] = op[q]
    BY <1>1, <1>4 DEF ProcessDies, TypeOK
  <2> QED
    BY <1>4, <2>1, BasedStill DEF ProcessDies, disk
<1>5. ASSUME NEW p \in Procs,
             \/ ReadThrows(p) \/ ApplyStale(p) \/ RollbackStale(p) \/ WriteFails(p)
             \/ PlanRejected(p) \/ PlanBind(p)
      PROVE  Based'
  <2>1. op[p] \in Call /\ UNCHANGED journal /\ \E code : Finish(p, code)
    BY <1>1, <1>5, PresentCall DEF ReadThrows, ApplyStale, RollbackStale,
       WriteFails, PlanRejected, PlanBind, Running, At, Steps, disk
  <2> QED
    BY <2>1, BasedEnd
<1>6. ASSUME NEW p \in Procs, PlanConflict(p) \/ PlanWriteFails(p) PROVE Based'
  <2>1. op[p] \in Call /\ \E code : PlanUndo(p, code)
    BY <1>1, <1>6, PresentCall DEF PlanConflict, PlanWriteFails, Running, Steps
  <2>2. \A c \in ChangeSets : journal'[c] = journal[c] \/ journal'[c].state = "NONE"
    BY <1>1, <2>1 DEF PlanUndo, TypeOK, NoRecord
  <2> QED
    BY <2>1, <2>2, BasedEnd DEF PlanUndo
<1>7. ASSUME NEW p \in Procs,
             \/ ApplyReplay(p) \/ ApplySettle(p) \/ RecoverySettle(p)
             \/ RollbackReplay(p) \/ RollbackSettle(p) \/ VerifySettle(p)
      PROVE  Based'
  <2>1. op[p] \in Call /\ Settles(p) /\ op[p].cs \in ChangeSets
    BY <1>7, SettleForm DEF Call
  <2>2. \A c \in ChangeSets : journal'[c] = journal[c] \/ journal'[c].before # NoHash
    BY <1>1, <2>1 DEF Settles, TypeOK, Based, Entry
  <2> QED
    BY <2>1, <2>2, BasedEnd DEF Settles
<1>8. ASSUME NEW p \in Procs, PlanEvent(p) PROVE Based'
  <2> DEFINE r == [NoRecord EXCEPT !.state = "PLANNED", !.before = op[p].fresh,
                                   !.after = op[p].seen, !.planKey = op[p].key]
  <2>1. op[p] \in Call /\ op[p].pc = "event" /\ op[p].fresh # NoHash
    BY <1>1, <1>8, PresentCall DEF PlanEvent, Running, Steps, Based
  <2>2. r.before # NoHash
    BY <2>1 DEF NoRecord
  <2>3. \A c \in ChangeSets : journal'[c] = journal[c] \/ journal'[c] = r
    BY <1>1, <1>8 DEF PlanEvent, TypeOK
  <2> HIDE DEF r
  <2>4. CASE Goto(p, "bind")
    <3>1. Moved(p, "bind")
      BY <1>1, <2>1, <2>4, GotoFields
    <3> QED
      BY <2>1, <2>2, <2>3, <3>1, BasedMove
  <2> QED
    BY <1>8, <2>1, <2>2, <2>3, <2>4, BasedEnd DEF PlanEvent
<1>9. ASSUME NEW p \in Procs, Proceed(p) PROVE Based'
  BY <1>5, <1>6, <1>7, <1>8, <1>9, BasedGoing DEF Proceed, Plan, Apply, Restore,
     Rollback
<1> QED
  BY <1>2, <1>3, <1>4, <1>5, <1>6, <1>9 DEF Next, Fault

----------------------------------------------------------------------------
(* The journal stays true                                                  *)

\* A step that changes neither the target nor what the journal says of it.
LEMMA StillTruthful ==
  ASSUME Truthful, UNCHANGED <<remote, drifts, writes>>,
         \A c \in ChangeSets :
           /\ \/ journal'[c] = journal[c]
              \/ journal'[c].state \in {"NONE", "PLANNED"} /\ ~Outstanding(c)
           /\ Open(c)' => Open(c),
         drifts = 0 => \A p \in Procs : Informed(p)'
  PROVE  Truthful'
<1> SUFFICES ASSUME drifts = 0, NEW c \in ChangeSets, Alone(c)' PROVE Told(c)' /\ Waits(c)'
  BY DEF Truthful, Honest
<1>1. Told(c) /\ Waits(c)
  BY DEF Truthful, Honest, Alone
<1>2. UNCHANGED <<editor, pending, late>>
  BY DEF remote
<1>3. CASE journal'[c] = journal[c]
  BY <1>1, <1>2, <1>3 DEF Told, Says, Waits, Outstanding, Open
<1>4. CASE journal'[c].state \in {"NONE", "PLANNED"} /\ ~Outstanding(c)
  BY <1>2, <1>4 DEF Told, Says, Waits, Outstanding
<1> QED
  BY <1>3, <1>4

\* Idle processes judge nothing.
LEMMA IdleInformed ==
  ASSUME NEW p \in Procs, op'[p] = Idle
  PROVE  Informed(p)'
BY DEF Informed, Sees, Knows, Idle, Actions

\* The running call ends.
LEMMA EndInformed ==
  ASSUME IInv, NEW p \in Procs, op[p] \in Call, NEW code, Finish(p, code)
  PROVE  \A q \in Procs : Informed(q)'
<1>1. \A q \in Procs : op'[q] = Idle
  BY Sole DEF Finish, IInv, TypeOK
<1> QED
  BY <1>1, IdleInformed

LEMMA EndTruthful ==
  ASSUME Truthful, IInv, NEW p \in Procs, op[p] \in Call, NEW code,
         Finish(p, code), UNCHANGED <<remote, drifts, writes, journal, actionClaims>>
  PROVE  Truthful'
<1>1. \A q \in Procs : Informed(q)'
  BY EndInformed
<1> QED
  BY <1>1, StillTruthful DEF Open

\* The running call goes on and is informed.
LEMMA GoTruthful ==
  ASSUME Truthful, IInv, NEW p \in Procs, op[p] \in Call,
         \A q \in Procs \ {p} : op'[q] = op[q],
         UNCHANGED <<remote, drifts, writes, journal>>,
         \A c \in ChangeSets : Open(c)' => Open(c),
         drifts = 0 /\ Alone(op[p].cs) => Sees(p)' /\ Knows(p)',
         op'[p].cs = op[p].cs
  PROVE  Truthful'
<1>1. \A q \in Procs \ {p} : Informed(q)'
  BY Sole, IdleInformed
<1>2. drifts = 0 => Informed(p)'
  BY DEF Informed, Alone
<1> QED
  BY <1>1, <1>2, StillTruthful

\* A conclusion whose event is true of the target.
LEMMA ConcludeTruthful ==
  ASSUME Truthful, IInv, NEW p \in Procs, op[p] \in Call, NEW r, NEW code,
         NEW drop, Conclude(p, r, code, drop), r.after = Entry(p).after,
         drifts = 0 /\ Alone(op[p].cs) => Says(op[p].cs, r)
  PROVE  Truthful'
<1>1. /\ UNCHANGED <<editor, pending, late, writes, actionClaims, drifts>>
      /\ op[p].cs \in ChangeSets
  BY DEF Conclude, remote, bounds, Call
<1>2. \A q \in Procs : Informed(q)'
  BY EndInformed DEF Conclude
<1> SUFFICES ASSUME drifts = 0, NEW c \in ChangeSets, Alone(c)' PROVE Told(c)' /\ Waits(c)'
  BY <1>1, <1>2 DEF Truthful, Honest
<1>3. Alone(c) /\ Told(c) /\ Waits(c)
  BY <1>1 DEF Truthful, Honest, Alone
<1>4. journal'[c] = journal[c] \/ (c = op[p].cs /\ journal'[c] = r)
  BY <1>1 DEF Conclude, IInv, TypeOK
<1>5. journal'[c].after = journal[c].after
  BY <1>4 DEF Entry
<1>6. Says(c, journal'[c])
  BY <1>3, <1>4 DEF Told
<1> QED
  BY <1>1, <1>3, <1>5, <1>6 DEF Told, Says, Waits, Outstanding, Open

LEMMA SettleTruthful ==
  ASSUME Truthful, Based, IInv, NEW p \in Procs,
         \/ ApplyReplay(p) \/ ApplySettle(p) \/ RecoverySettle(p)
         \/ RollbackReplay(p) \/ RollbackSettle(p) \/ VerifySettle(p)
  PROVE  Truthful'
<1> DEFINE r == Entry(p)
           c == op[p].cs
           known == drifts = 0 /\ Alone(c)
<1>1. /\ op[p] \in Call /\ Local(p) /\ TypeOK /\ c \in ChangeSets
      /\ r.state # "NONE" /\ r = journal[c] /\ r.before # NoHash
  BY SettleForm DEF IInv, Settles, Call, Based, Entry
<1>2. known => Sees(p) /\ Knows(p) /\ Told(c)
  BY <1>1 DEF Truthful, Informed, Honest
<1>3. CASE ApplyReplay(p) \/ ApplySettle(p) \/ RecoverySettle(p)
  <2>1. op[p].kind = "apply"
    BY <1>1, <1>3 DEF ApplyReplay, ApplySettle, RecoverySettle, Running, At, Local,
       InPlan, InRollback, InVerify, Call, Kinds, Actions
  <2>2. ASSUME NEW actual, NEW code, NEW drop, NEW h,
               known /\ Open(c) => editor = r.after,
               Conclude(p, [Concluded(p, "APPLIED", r.after, actual)
                              EXCEPT !.applied = h], code, drop)
        PROVE  Truthful'
    <3> DEFINE rec == [Concluded(p, "APPLIED", r.after, actual) EXCEPT !.applied = h]
    <3>1. rec.state = "APPLIED" /\ rec.after = r.after
      BY <1>1, BuiltRecords
    <3> HIDE DEF rec
    <3>2. known => Says(c, rec)
      BY <2>2, <3>1 DEF Says, Open
    <3> QED
      BY <1>1, <2>2, <3>1, <3>2, ConcludeTruthful DEF rec
  <2>3. ASSUME NEW failure, NEW expected, NEW actual, NEW code, NEW drop, NEW h,
               known => failure \notin BaselineFailures \/ Holds(c, r.before),
               \/ Conclude(p, Failed(p, failure, expected, actual), code, drop)
               \/ Conclude(p, [Failed(p, failure, expected, actual)
                                 EXCEPT !.applied = h], code, drop)
               \/ Conclude(p, Ambiguous(p, failure, expected, actual, h), code, drop)
        PROVE  Truthful'
    <3> DEFINE failed == Failed(p, failure, expected, actual)
               left == [failed EXCEPT !.applied = h]
               amb == Ambiguous(p, failure, expected, actual, h)
    <3>1. \A rec \in {failed, left, amb} :
            /\ rec.state = "FAILED" /\ rec.failure = failure
            /\ rec.before = r.before /\ rec.after = r.after
      <4>1. /\ failed.failure = failure /\ left.failure = failure
            /\ amb.failure = failure
        BY <1>1, BuiltRecords
      <4>2. /\ failed.before = r.before /\ left.before = r.before
            /\ amb.before = r.before
        BY <1>1, FailedFields
      <4>3. /\ failed.after = r.after /\ left.after = r.after
            /\ amb.after = r.after
        BY <1>1, FailedFields
      <4>4. /\ failed.state = "FAILED" /\ left.state = "FAILED"
            /\ amb.state = "FAILED"
        BY <1>1, FailedFields
      <4> HIDE DEF failed, left, amb
      <4> QED
        BY <4>1, <4>2, <4>3, <4>4
    <3>2. PICK rec \in {failed, left, amb} : Conclude(p, rec, code, drop)
      BY <2>3
    <3> HIDE DEF failed, left, amb
    <3>3. known => Says(c, rec)
      BY <2>3, <3>1 DEF Says, Holds
    <3> QED
      BY <1>1, <3>1, <3>2, <3>3, ConcludeTruthful
  <2>4. /\ "APPLY_AMBIGUOUS" \notin BaselineFailures
        /\ "APPLY_VERIFICATION_FAILED_RECOVERY_UNPROVEN" \notin BaselineFailures
    BY DEF BaselineFailures
  <2>5. CASE ApplyReplay(p)
    <3>1. known => Holds(c, op[p].fresh)
      BY <1>2, <2>1, <2>5 DEF ApplyReplay, Running, Sees, Actions
    <3>2. known /\ Open(c) /\ op[p].fresh = r.after => editor = r.after
      BY <1>2, <2>1, <2>5 DEF ApplyReplay, Running, Knows
    <3> QED
      BY <2>2, <2>3, <2>4, <2>5, <3>1, <3>2 DEF ApplyReplay
  <2>6. CASE ApplySettle(p)
    <3>1. known /\ op[p].seen = r.before => Holds(c, r.before)
      BY <1>1, <1>2, <2>1, <2>6 DEF ApplySettle, At, Sees, Actions
    <3>2. known /\ Open(c) /\ op[p].seen = r.after => editor = r.after
      BY <1>2, <2>1, <2>6 DEF ApplySettle, At, Knows
    <3> QED
      BY <2>2, <2>3, <2>4, <2>6, <3>1, <3>2 DEF ApplySettle, Applied
  <2>7. CASE RecoverySettle(p)
    <3>1. known /\ op[p].again = r.before => Holds(c, r.before)
      BY <1>1, <1>2, <2>1, <2>7 DEF RecoverySettle, Running, Sees, Actions
    <3> QED
      BY <2>3, <2>4, <2>7, <3>1 DEF RecoverySettle
  <2> QED
    BY <1>3, <2>5, <2>6, <2>7
<1>4. CASE RollbackReplay(p) \/ RollbackSettle(p)
  <2>1. op[p].kind = "rollback" /\ ~Open(c)
    <3>1. CASE RollbackReplay(p)
      BY <1>1, <3>1, ConstantsAssumption DEF RollbackReplay, Replays, Local,
         InRollback, Running, Open
    <3>2. CASE RollbackSettle(p)
      BY <1>1, <3>2 DEF RollbackSettle, Running, Local, InRollback, ClaimOf, Open
    <3> QED
      BY <1>4, <3>1, <3>2
  <2>2. ASSUME NEW actual, NEW code, NEW drop, known => Holds(c, r.before),
               Conclude(p, Concluded(p, "ROLLED_BACK", r.before, actual), code, drop)
        PROVE  Truthful'
    <3> DEFINE rec == Concluded(p, "ROLLED_BACK", r.before, actual)
    <3>1. rec.state = "ROLLED_BACK" /\ rec.before = r.before /\ rec.after = r.after
      BY <1>1, BuiltRecords
    <3> HIDE DEF rec
    <3>2. known => Says(c, rec)
      BY <2>2, <3>1 DEF Says, Holds
    <3> QED
      BY <1>1, <2>2, <3>1, <3>2, ConcludeTruthful DEF rec
  <2>3. ASSUME NEW failure, NEW expected, NEW actual, NEW code, NEW drop, NEW h,
               \/ Conclude(p, Failed(p, failure, expected, actual), code, drop)
               \/ Conclude(p, Ambiguous(p, failure, expected, actual, h), code, drop)
        PROVE  Truthful'
    <3> DEFINE failed == Failed(p, failure, expected, actual)
               amb == Ambiguous(p, failure, expected, actual, h)
    <3>1. \A rec \in {failed, amb} : rec.state = "FAILED" /\ rec.after = r.after
      BY <1>1, FailedFields
    <3>2. PICK rec \in {failed, amb} : Conclude(p, rec, code, drop)
      BY <2>3
    <3> HIDE DEF failed, amb
    <3>3. Says(c, rec)
      BY <2>1, <3>1 DEF Says, Open
    <3> QED
      BY <1>1, <3>1, <3>2, <3>3, ConcludeTruthful
  <2>4. CASE RollbackReplay(p)
    <3>1. known => Holds(c, op[p].fresh)
      BY <1>2, <2>1, <2>4 DEF RollbackReplay, Running, Sees, Actions
    <3>2. ASSUME NEW code, Finish(p, code), UNCHANGED <<remote, disk, vault, writes, bounds>>
          PROVE  Truthful'
      BY <1>1, <3>2, EndTruthful DEF disk, bounds
    <3>3. CASE op[p].fresh = r.after
      BY <2>2, <2>3, <2>4, <3>1, <3>2, <3>3 DEF RollbackReplay
    <3>4. CASE op[p].fresh # r.after
      BY <2>2, <2>3, <2>4, <3>1, <3>2, <3>4 DEF RollbackReplay
    <3> QED
      BY <3>3, <3>4
  <2>5. CASE RollbackSettle(p)
    <3> DEFINE again == IF op[p].fresh = r.after THEN op[p].again ELSE op[p].fresh
    <3>1. known => again = NoHash \/ Holds(c, again)
      BY <1>2, <2>1, <2>5 DEF RollbackSettle, Running, Sees, Actions
    <3>2. known /\ again = r.before => Holds(c, r.before)
      BY <1>1, <3>1
    <3> QED
      BY <2>2, <2>3, <2>5, <3>2 DEF RollbackSettle
  <2> QED
    BY <1>4, <2>4, <2>5
<1>5. CASE VerifySettle(p)
  <2>1. PICK s, expected, code :
          /\ Conclude(p, Concluded(p, s, expected, op[p].fresh), code, FALSE)
          /\ s = r.state \/ (s = "VERIFIED" /\ r.state = "APPLIED")
    BY <1>5 DEF VerifySettle
  <2> DEFINE rec == Concluded(p, s, expected, op[p].fresh)
  <2>2. /\ rec.state = s /\ rec.before = r.before /\ rec.after = r.after
        /\ rec.failure = r.failure
    <3>1. r \in Record
      BY <1>1 DEF TypeOK
    <3> QED
      BY <3>1 DEF Concluded, Record
  <2> HIDE DEF rec
  <2>3. known => Says(c, rec)
    BY <1>1, <1>2, <2>1, <2>2 DEF Told, Says
  <2> QED
    BY <1>1, <2>1, <2>2, <2>3, ConcludeTruthful DEF rec
<1> QED
  BY <1>3, <1>4, <1>5

\* A request leaves while its own change set says nothing of the target, and
\* no other one is alone after it.
LEMMA SendTruthful ==
  ASSUME Truthful, Wired, IInv, NEW p \in Procs, ApplyWrite(p) \/ RestoreWrite(p)
  PROVE  Truthful'
<1> PICK c : c = op[p].cs
  OBVIOUS
<1> SUFFICES ASSUME drifts = 0 PROVE Truthful'
  BY DEF Truthful, ApplyWrite, RestoreWrite, Send, bounds
<1>1. op[p] \in Call /\ Local(p) /\ TypeOK /\ c \in ChangeSets
  BY PresentCall DEF IInv, ApplyWrite, RestoreWrite, At, Steps, Call
<1>2. op[p].kind \in Actions /\ ClaimOf(p) # NoKey
  <2>1. op[p].pc \in {"write", "restore"}
    BY DEF ApplyWrite, RestoreWrite, At
  <2>2. op[p].kind \in Actions
    BY <1>1, <2>1 DEF Local, InPlan, InVerify, Call, Kinds, Actions
  <2> QED
    BY <1>1, <2>1, <2>2 DEF Local, InApply, InRollback, Actions
<1>3. /\ op[p].kind = "apply" => journal[c].state = "PLANNED"
      /\ op[p].kind = "rollback" => journal[c].state # "ROLLED_BACK" /\ ~Open(c)
  BY <1>1, <1>2 DEF Local, InApply, InRollback, ClaimOf, Entry, Open
<1>4. /\ UNCHANGED <<journal, actionClaims, drifts, late>>
      /\ \E a \in Purposes : writes' = [writes EXCEPT ![c][a] = @ + 1]
      /\ \/ UNCHANGED pending
         \/ UNCHANGED editor
  BY <1>2 DEF ApplyWrite, RestoreWrite, Send, disk, bounds, Purposes, Actions
<1>5. \A d \in ChangeSets \ {c} : ~Alone(d)'
  <2>1. PICK a \in Purposes : writes' = [writes EXCEPT ![c][a] = @ + 1]
    BY <1>4
  <2>2. writes'[c][a] = writes[c][a] + 1 /\ writes[c][a] \in Nat
    BY <1>1, <2>1 DEF TypeOK
  <2>3. writes'[c][a] # 0
    BY <2>2
  <2> QED
    BY <1>1, <2>3 DEF Alone
<1>6. Alone(c)' => Alone(c)
  BY <1>1, <1>4 DEF TypeOK, Alone
<1>7. Open(c) => ~Outstanding(c) /\ (Alone(c) => editor # journal[c].after)
  <2> SUFFICES ASSUME Open(c) PROVE ~Outstanding(c) /\ (Alone(c) => editor # journal[c].after)
    OBVIOUS
  <2>1. op[p].kind = "apply" /\ op[p].pc \in {"write", "restore"}
    BY <1>2, <1>3 DEF Actions, ApplyWrite, RestoreWrite, At
  <2>2. Alone(c) => editor # journal[c].after
    BY <2>1 DEF Truthful, Informed, Knows, Entry
  <2>3. CASE op[p].pc = "write"
    <3>1. writes[c]["apply"] = 0
      BY <1>1, <2>1, <2>3 DEF Local, InApply, SentBy
    <3> QED
      BY <1>1, <2>2, <3>1, NothingSent DEF IInv, Durable, TypeOK
  <2>4. CASE op[p].pc = "restore"
    <3>1. writes[c]["recovery"] = 0 /\ <<c, "apply">> \notin pending
      BY <1>1, <2>1, <2>4 DEF Local, InApply, SentBy, Wired, Acked
    <3> QED
      BY <1>1, <2>2, <3>1 DEF Wired, Purposes, Outstanding
  <2> QED
    BY <2>1, <2>3, <2>4
<1>8. Told(c)' /\ (Alone(c)' => Waits(c)')
  <2>1. Told(c)'
    BY <1>2, <1>3, <1>4 DEF Told, Says, Actions, Open
  <2>2. CASE UNCHANGED pending
    BY <1>4, <1>7, <2>1, <2>2 DEF Waits, Open, Outstanding
  <2>3. CASE UNCHANGED editor
    BY <1>4, <1>6, <1>7, <2>1, <2>3 DEF Waits, Open
  <2> QED
    BY <1>4, <2>2, <2>3
<1>9. Informed(p)' /\ \A q \in Procs \ {p} : Informed(q)'
  <2>1. \E pc \in {"reread", "diagnose", "restored", "rediagnose"} :
          Goto(p, pc) \/ \E how : Throws(p, how, pc)
    BY DEF ApplyWrite, RestoreWrite
  <2>2. /\ \A q \in Procs \ {p} : op'[q] = op[q]
        /\ op'[p].pc \in {"reread", "diagnose", "restored", "rediagnose"}
    BY <1>1, <2>1, FreshKept DEF Moved
  <2> QED
    BY <1>1, <2>2, Sole, IdleInformed DEF Informed, Sees, Knows
<1> QED
  BY <1>5, <1>8, <1>9 DEF Truthful, Honest

\* The steps of a running call that read the target or go on without it.
LEMMA ReadTruthful ==
  ASSUME Truthful, Based, Outcomes, IInv, NEW p \in Procs,
         \/ Read(p) \/ ApplyReread(p) \/ Diagnose(p) \/ Rediagnose(p)
         \/ RestoreReread(p) \/ RestoreRefused(p) \/ ApplyGuard(p)
         \/ ApplyMismatch(p)
  PROVE  Truthful'
<1> DEFINE known == drifts = 0 /\ Alone(op[p].cs)
<1>1. op[p] \in Call /\ TypeOK /\ Local(p) /\ op[p].cs \in ChangeSets
  BY PresentCall DEF IInv, Read, ApplyReread, Diagnose, Rediagnose, RestoreReread,
     RestoreRefused, ApplyGuard, ApplyMismatch, At, Steps, Call
<1>2. UNCHANGED <<remote, drifts, writes, journal, actionClaims>>
  BY DEF Read, ApplyReread, Diagnose, Rediagnose, RestoreReread,
     RestoreRefused, ApplyGuard, ApplyMismatch, disk, bounds
<1>3. known => Sees(p) /\ Knows(p)
  BY DEF Truthful, Informed
<1>4. ASSUME NEW pc, Moved(p, pc), known => Sees(p)' /\ Knows(p)' PROVE Truthful'
  BY <1>1, <1>2, <1>4, GoTruthful DEF Moved, Open
<1>5. CASE Read(p)
  <2>1. Moved(p, "decide") /\ op'[p].fresh = editor
    <3>1. op' = [op EXCEPT ![p] = [op[p] EXCEPT !.fresh = editor, !.pc = "decide"]]
      BY <1>5 DEF Read
    <3>2. [op[p] EXCEPT !.fresh = editor, !.pc = "decide"].fresh = editor
      BY <1>1 DEF Call
    <3> QED
      BY <1>1, <3>1, <3>2, ReadFields DEF TypeOK
  <2>2. Sees(p)' /\ Knows(p)'
    BY <1>2, <2>1 DEF Moved, Sees, Knows, Holds, Entry, remote
  <2> QED
    BY <1>4, <2>1, <2>2
<1>6. ASSUME NEW h \in {editor, NoHash},
             op' = [op EXCEPT ![p] = [@ EXCEPT !.seen = h, !.pc = "settle"]],
             h = editor \/ (op[p].kind = "apply" => op[p].threw # "no"),
             op[p].kind = "apply" => Entry(p).after # NoHash
      PROVE  Truthful'
  <2>1. Moved(p, "settle") /\ op'[p].threw = op[p].threw
    BY <1>1, <1>6, ReadFields
  <2>2. op'[p].seen = h
    <3>1. [op[p] EXCEPT !.seen = h, !.pc = "settle"].seen = h
      BY <1>1 DEF Call
    <3> QED
      BY <1>1, <1>6, <3>1 DEF TypeOK
  <2>3. Sees(p)' /\ Knows(p)'
    BY <1>2, <1>6, <2>1, <2>2 DEF Moved, Sees, Knows, Holds, Entry, remote
  <2> QED
    BY <1>4, <2>1, <2>3
<1>7. op[p].kind = "apply" => Entry(p).after # NoHash
  BY <1>1 DEF Local, InApply, Outcomes, Plannable, Entry
<1>8. CASE Rediagnose(p)
  <2>1. PICK h \in {editor, NoHash} :
          op' = [op EXCEPT ![p] = [@ EXCEPT !.again = h, !.pc = "resettle"]]
    BY <1>8 DEF Rediagnose
  <2>2. Moved(p, "resettle")
    BY <1>1, <2>1, ReadFields
  <2>3. op'[p].again = h /\ op'[p].fresh = op[p].fresh
    <3>1. LET o == [op[p] EXCEPT !.again = h, !.pc = "resettle"]
          IN o.again = h /\ o.fresh = op[p].fresh
      BY <1>1 DEF Call
    <3> QED
      BY <1>1, <2>1, <3>1 DEF TypeOK
  <2>4. op[p].kind = "rollback" => op[p].fresh = Entry(p).after
    BY <1>8 DEF Rediagnose, At, Based
  <2>5. Sees(p)' /\ Knows(p)'
    BY <1>2, <2>1, <2>2, <2>3, <2>4 DEF Moved, Sees, Knows, Holds, Entry, remote
  <2> QED
    BY <1>4, <2>2, <2>5
<1>9. ASSUME NEW pc \in {"write", "diagnose", "restore", "rediagnose"},
             op[p].kind = "apply" /\ pc \in {"write", "restore"} =>
               (known /\ Open(op[p].cs) => editor # Entry(p).after),
             Goto(p, pc) \/ \E how : Throws(p, how, pc)
      PROVE  Truthful'
  <2>1. Moved(p, pc)
    BY <1>1, <1>9, FreshKept
  <2>2. known => Sees(p)' /\ Knows(p)'
    BY <1>2, <1>9, <2>1 DEF Moved, Sees, Knows, Entry, Open, remote
  <2> QED
    BY <1>4, <2>1, <2>2
<1>10. CASE ApplyReread(p)
  <2>1. CASE op' = [op EXCEPT ![p] = [@ EXCEPT !.seen = editor, !.pc = "settle"]]
    BY <1>6, <1>7, <2>1
  <2> QED
    BY <1>9, <1>10, <2>1 DEF ApplyReread
<1>11. CASE Diagnose(p)
  <2>1. op[p].kind = "apply" => op[p].threw # "no"
    BY <1>1, <1>11 DEF Diagnose, At, Local, InApply
  <2> QED
    BY <1>6, <1>7, <1>11, <2>1 DEF Diagnose
<1>12. CASE RestoreReread(p) \/ RestoreRefused(p)
  BY <1>9, <1>12 DEF RestoreReread, RestoreRefused
<1>13. CASE ApplyGuard(p)
  <2>1. op[p].kind = "apply" => Entry(p).before # Entry(p).after
    BY <1>1 DEF Local, InApply, IInv, Durable, PlannedFirst, Entry
  <2> QED
    BY <1>9, <1>13, <2>1 DEF ApplyGuard
<1>14. CASE ApplyMismatch(p)
  <2>1. known /\ op[p].kind = "apply" /\ Open(op[p].cs) => editor # Entry(p).after
    BY <1>3, <1>14 DEF ApplyMismatch, Mismatched, At, Knows
  <2> QED
    BY <1>9, <1>14, <2>1 DEF ApplyMismatch
<1> QED
  BY <1>5, <1>8, <1>10, <1>11, <1>12, <1>13, <1>14

LEMMA ClaimTruthful ==
  ASSUME Truthful, IInv, NEW p \in Procs,
         ApplyPermit(p) \/ RollbackPermit(p) \/ ClaimAction(p)
  PROVE  Truthful'
<1> DEFINE known == drifts = 0 /\ Alone(op[p].cs)
<1>1. op[p] \in Call /\ TypeOK /\ Local(p) /\ op[p].cs \in ChangeSets
  BY PresentCall DEF IInv, ApplyPermit, RollbackPermit, ClaimAction, Running, At,
     Steps, Call
<1>2. known => Sees(p)
  BY DEF Truthful, Informed
<1>3. UNCHANGED <<remote, drifts, writes, journal>>
  BY DEF ApplyPermit, RollbackPermit, ClaimAction, BindKey, bounds
<1>4. CASE ApplyPermit(p) \/ RollbackPermit(p)
  <2>1. UNCHANGED actionClaims /\ Goto(p, "claim") /\ op[p].pc = "decide"
    BY <1>4 DEF ApplyPermit, RollbackPermit, BindKey, Running
  <2>2. Moved(p, "claim") /\ op'[p].fresh = op[p].fresh
    BY <1>1, <2>1, GotoFields
  <2>3. known => Sees(p)' /\ Knows(p)'
    BY <1>2, <1>3, <2>1, <2>2 DEF Sees, Knows, Moved, Holds, remote, Actions
  <2> QED
    BY <1>1, <1>3, <2>1, <2>2, <2>3, GoTruthful DEF Moved, Open
<1>5. CASE ClaimAction(p)
  <2> DEFINE pc == IF op[p].kind = "apply" THEN "guard"
                   ELSE IF op[p].fresh = Entry(p).after THEN "restore"
                   ELSE "resettle"
  <2>1. Goto(p, pc) /\ op[p].pc = "claim"
    BY <1>5 DEF ClaimAction, At
  <2>2. Moved(p, pc) /\ op'[p].fresh = op[p].fresh
    BY <1>1, <2>1, GotoFields
  <2>3. op[p].kind \in Actions /\ op[p].key # NoKey
    BY <1>1, <2>1, ConstantsAssumption DEF Local, InPlan, InApply, InRollback,
       InVerify, Call, Kinds, Actions
  <2>4. known => Sees(p)' /\ Knows(p)'
    BY <1>2, <1>3, <2>1, <2>2, <2>3 DEF Sees, Knows, Moved, Entry, Holds, remote,
       Actions
  <2>5. \A d \in ChangeSets : Open(d)' => Open(d)
    BY <1>1, <1>5, <2>3 DEF ClaimAction, TypeOK, Actions, Open
  <2> QED
    BY <1>1, <1>3, <2>2, <2>4, <2>5, GoTruthful DEF Moved
<1> QED
  BY <1>4, <1>5

\* A plan journals its event while nothing of its change set is under way.
LEMMA PlanTruthful ==
  ASSUME Truthful, Wired, IInv, NEW p \in Procs, Plan(p) \/ PlanWriteFails(p)
  PROVE  Truthful'
<1>1. /\ op[p] \in Call /\ TypeOK /\ op[p].cs \in ChangeSets /\ op[p].kind = "plan"
      /\ Local(p)
  BY PresentCall DEF IInv, Plan, PlanSnapshot, PlanRejected, PlanEvent, PlanBind,
     PlanConflict, PlanWriteFails, Running, Steps, Call, Local, InApply, InRollback,
     InVerify, Kinds, Actions
<1>2. UNCHANGED <<remote, drifts, writes, actionClaims>>
  BY DEF Plan, PlanSnapshot, PlanRejected, PlanEvent, PlanBind,
     PlanConflict, PlanWriteFails, PlanUndo, bounds, disk
<1>3. ~Outstanding(op[p].cs)
  BY <1>1, NothingSent DEF Local, InPlan, Actions, IInv, Durable, TypeOK
<1>4. CASE PlanSnapshot(p)
  <2>1. PICK after :
          op' = [op EXCEPT ![p] = [@ EXCEPT !.seen = after, !.pc = "event"]]
    BY <1>4 DEF PlanSnapshot
  <2>2. Moved(p, "event")
    BY <1>1, <2>1, ReadFields
  <2>3. Sees(p)' /\ Knows(p)'
    BY <1>1, <2>2 DEF Moved, Sees, Knows, Actions
  <2> QED
    BY <1>1, <1>2, <1>4, <2>2, <2>3, GoTruthful DEF PlanSnapshot, Moved, Open
<1>5. CASE PlanRejected(p) \/ PlanBind(p)
  BY <1>1, <1>2, <1>5, EndTruthful DEF PlanRejected, PlanBind, disk
<1>6. CASE PlanEvent(p)
  <2>1. \A c \in ChangeSets :
          journal'[c] = journal[c] \/ (c = op[p].cs /\ journal'[c].state = "PLANNED")
    BY <1>6, <1>1 DEF PlanEvent, TypeOK, NoRecord
  <2>2. \A q \in Procs : Informed(q)'
    <3>1. CASE Goto(p, "bind")
      <4>1. Moved(p, "bind")
        BY <1>1, <3>1, GotoFields
      <4> QED
        BY <1>1, <4>1, Sole, IdleInformed DEF Moved, Informed, Sees, Knows, Actions
    <3> QED
      BY <1>1, <1>6, <3>1, EndInformed DEF PlanEvent
  <2> QED
    BY <1>2, <1>3, <2>1, <2>2, StillTruthful DEF Open
<1>7. CASE PlanConflict(p) \/ PlanWriteFails(p)
  <2>1. PICK code : PlanUndo(p, code)
    BY <1>7 DEF PlanConflict, PlanWriteFails
  <2>2. \A c \in ChangeSets :
          journal'[c] = journal[c] \/ (c = op[p].cs /\ journal'[c].state = "NONE")
    BY <1>1, <2>1 DEF PlanUndo, TypeOK, NoRecord
  <2>3. \A q \in Procs : Informed(q)'
    BY <1>1, <2>1, EndInformed DEF PlanUndo
  <2> QED
    BY <1>2, <1>3, <2>2, <2>3, StillTruthful DEF Open
<1> QED
  BY <1>4, <1>5, <1>6, <1>7 DEF Plan

\* A lost request is executed after all.  Nothing of another change set is
\* under way, and no success can have been journalled before it.
LEMMA LandTruthful ==
  ASSUME Truthful, Wired, IInv, NEW c \in ChangeSets, NEW a \in Purposes, Land(c, a)
  PROVE  Truthful'
<1> SUFFICES ASSUME drifts = 0 PROVE Truthful'
  BY DEF Truthful, Land, bounds
<1>1. /\ <<c, a>> \in pending /\ pending' = pending \ {<<c, a>>}
      /\ UNCHANGED <<journal, actionClaims, op, writes, drifts>>
      /\ late' = IF Judged(c) THEN late \cup {c} ELSE late
  BY DEF Land, disk, bounds
<1>2. TypeOK /\ writes[c][a] \in Nat /\ writes[c][a] > 0
  BY <1>1 DEF IInv, TypeOK, Wired
<1>3. \A d \in ChangeSets : d # c => ~Alone(d)
  BY <1>2 DEF Alone
<1>4. \A d : Alone(d)' = Alone(d)
  BY <1>1 DEF Alone
<1>5. ASSUME Open(c) PROVE Outstanding(c) /\ a # "rollback"
  BY <1>1, <1>2, <1>5, NothingSent DEF IInv, Durable, TypeOK, Outstanding,
     Purposes, Actions
<1>6. ASSUME Alone(c) PROVE Told(c)' /\ Waits(c)'
  <2>1. Told(c) /\ Waits(c)
    BY <1>6 DEF Truthful, Honest
  <2>2. Open(c) => editor # journal[c].after
    BY <1>5, <2>1 DEF Waits
  <2>3. Told(c)'
    BY <1>1, <2>1, <2>2 DEF Told, Says, Judged, Open
  <2>4. Open(c) => ~Outstanding(c)'
    BY <1>1, <1>5 DEF Outstanding, Wired, Purposes, Actions
  <2> QED
    BY <1>1, <2>3, <2>4 DEF Waits, Open
<1>7. ASSUME NEW p \in Procs, Alone(op[p].cs) PROVE Sees(p)' /\ Knows(p)'
  <2>1. Sees(p) /\ Knows(p)
    BY <1>7 DEF Truthful, Informed
  <2>2. CASE op[p].kind \notin Actions
    BY <1>1, <2>2 DEF Sees, Knows, Actions
  <2>3. CASE op[p].kind \in Actions
    <3>1. op[p] \in Call /\ Local(p) /\ op[p].cs \in ChangeSets
      BY <1>2, <2>3 DEF TypeOK, IInv, Idle, Actions, Call
    <3>2. op[p].cs = c
      BY <1>3, <1>7, <3>1
    <3>3. Sees(p)'
      BY <1>1, <2>1, <2>3, <3>2 DEF Sees, Holds, Judged, Entry
    <3>4. ASSUME op[p].kind = "apply", Open(c) PROVE Knows(p)'
      <4>1. editor # Entry(p).after /\ Outstanding(c)
        BY <1>5, <1>7, <3>2, <3>4 DEF Truthful, Honest, Waits, Entry
      <4>2. op[p].pc # "write"
        BY <1>2, <3>1, <3>2, <3>4, <4>1, NothingSent DEF Local, InApply, SentBy, IInv,
           Durable, TypeOK
      <4>3. ~Acked(p) \/ op[p].pc \notin {"settle", "restore"}
        <5> SUFFICES ASSUME Acked(p), op[p].pc \in {"settle", "restore"} PROVE FALSE
          OBVIOUS
        <5>1. writes[c]["recovery"] = 0
          BY <3>1, <3>2, <3>4 DEF Local, InApply, SentBy
        <5>2. <<c, "apply">> \notin pending
          BY <3>2 DEF Wired, Acked
        <5>3. <<c, "recovery">> \notin pending
          BY <5>1 DEF Wired, Purposes
        <5> QED
          BY <4>1, <5>2, <5>3 DEF Outstanding
      <4> QED
        BY <1>1, <2>1, <3>2, <3>4, <4>1, <4>2, <4>3 DEF Knows, Acked, Entry
    <3> QED
      BY <1>1, <3>2, <3>3, <3>4 DEF Knows, Open
  <2> QED
    BY <2>2, <2>3
<1> QED
  BY <1>1, <1>3, <1>4, <1>6, <1>7 DEF Truthful, Honest, Informed

LEMMA TruthfulStep ==
  ASSUME Truthful, Wired, Based, Outcomes, IInv, [Next]_vars
  PROVE  Truthful'
<1>1. TypeOK
  BY DEF IInv
<1>2. CASE UNCHANGED vars \/ RemoveStaleLock
  <2>1. UNCHANGED <<remote, drifts, writes, journal, actionClaims, op>>
    BY <1>2 DEF vars, disk, bounds, RemoveStaleLock
  <2>2. drifts = 0 => \A p \in Procs : Informed(p)'
    BY <2>1 DEF Truthful, Informed, Sees, Knows, Holds, Open, Entry, Alone, remote
  <2> QED
    BY <2>1, <2>2, StillTruthful DEF Open
<1>3. CASE Drift
  BY <1>1, <1>3 DEF Drift, Truthful, TypeOK
<1>4. CASE Landing
  BY <1>4, LandTruthful DEF Landing
<1>5. ASSUME NEW p \in Procs, Begin(p) PROVE Truthful'
  <2>1. PICK kind, c, k : Start(p, kind, c, k)
    BY <1>5 DEF Begin, VerifyBegin, PlanBegin, ApplyBegin, RollbackBegin
  <2>2. UNCHANGED <<remote, drifts, writes, journal, actionClaims>>
    BY <2>1 DEF Start, disk, bounds
  <2>3. op'[p].pc = "read" /\ \A q \in Procs \ {p} : op'[q] = op[q]
    BY <1>1, <2>1 DEF Start, TypeOK, Idle
  <2>4. drifts = 0 => \A q \in Procs : Informed(q)'
    BY <2>2, <2>3 DEF Truthful, Informed, Sees, Knows, Holds, Open, Entry, Alone,
       remote
  <2> QED
    BY <2>2, <2>4, StillTruthful DEF Open
<1>6. ASSUME NEW p \in Procs, ProcessDies(p) PROVE Truthful'
  <2>1. UNCHANGED <<remote, drifts, writes, journal, actionClaims>>
    BY <1>6 DEF ProcessDies, disk
  <2>2. \A q \in Procs : op'[q] = Idle \/ op'[q] = op[q]
    BY <1>1, <1>6 DEF ProcessDies, TypeOK
  <2>3. ASSUME NEW q \in Procs, op'[q] = op[q], drifts = 0 PROVE Informed(q)'
    BY <2>1, <2>3 DEF Truthful, Informed, Sees, Knows, Holds, Open, Entry, Alone,
       remote
  <2> QED
    BY <2>1, <2>2, <2>3, IdleInformed, StillTruthful DEF Open
<1>7. ASSUME NEW p \in Procs,
             ReadThrows(p) \/ ApplyStale(p) \/ RollbackStale(p) \/ WriteFails(p)
      PROVE  Truthful'
  <2>1. op[p] \in Call
    BY <1>1, <1>7, PresentCall DEF ReadThrows, ApplyStale, RollbackStale,
       WriteFails, Running, At, Steps
  <2> QED
    BY <1>7, <2>1, EndTruthful DEF ReadThrows, ApplyStale, RollbackStale,
       WriteFails, disk, bounds
<1>8. ASSUME NEW p \in Procs, Proceed(p) PROVE Truthful'
  BY <1>7, <1>8, PlanTruthful, ClaimTruthful, ReadTruthful, SendTruthful,
     SettleTruthful DEF Proceed, Apply, Restore, Rollback
<1> QED
  BY <1>2, <1>3, <1>4, <1>5, <1>6, <1>7, <1>8, PlanTruthful DEF Next, Fault

\* JournalTruthful: while nobody else edits the target and no other change
\* set has sent anything, a success that the journal tells between two calls
\* is what the target holds, whatever becomes of the requests given up for
\* lost, and a return to the baseline is, until such a request is executed
\* after a look that was relied on.
THEOREM JournalAlwaysTruthful == Spec => []JournalTruthful
<1>1. Init => Truthful
  BY DEF Init, Truthful, Informed, Honest, Sees, Knows, Told, Says, Waits,
     Outstanding, Idle, NoRecord, Actions
<1>2. Init => Outcomes
  BY DEF Init, Outcomes, Plannable, OutcomeAccepted, NoRecord, Idle
<1>3. Init => Wired /\ Based
  BY DEF Init, Wired, Based, Acked, Idle, NoRecord
<1>4. Truthful => JournalTruthful
  BY DEF Truthful, Honest, Told, Says, JournalTruthful
<1> QED
  BY <1>1, <1>2, <1>3, <1>4, TruthfulStep, WiredStep, BasedStep, OutcomesStep,
     Invariance, PTL DEF Spec
============================================================================
