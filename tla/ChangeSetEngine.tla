-------------------------- MODULE ChangeSetEngine --------------------------
(***************************************************************************)
(* The ChangeSet engine (core/engine.ts) over its durable store            *)
(* (core/store.ts) and its volatile vault (core/vault.ts), with the editor *)
(* target it reads and writes through an adapter.                          *)
(*                                                                         *)
(* Several server processes share one state directory.  A mutation runs    *)
(* under the lock file; between two awaits it is one step, and a process   *)
(* may die between any two durable writes.  A call that the code refuses   *)
(* before it has read the target leaves no trace and is not an action.     *)
(***************************************************************************)
EXTENDS Naturals, FiniteSets

CONSTANTS
  ChangeSets,     \* ids that randomUUID() can hand out
  Keys,           \* caller-supplied idempotency keys
  Procs,          \* server processes sharing the state directory
  Hashes,         \* canonical hashes of the one editor target
  HeadCode,       \* the change sets owned by the page-head-code adapter
  NoKey, NoHash,  \* absent key, absent hash
  Free, Stale,    \* lock file absent; lock file left by a dead process
  MaxDrifts,      \* bound: edits by somebody else
  MaxFaults       \* bound: process deaths and refused durable writes

ASSUME ConstantsAssumption ==
  /\ HeadCode \subseteq ChangeSets
  /\ NoKey \notin Keys
  /\ NoHash \notin Hashes
  /\ Free \notin Procs /\ Stale \notin Procs /\ Free # Stale
  /\ MaxDrifts \in Nat /\ MaxFaults \in Nat

VARIABLES
  editor,        \* hash of the target's present content
  pending,       \* requests given up for lost that may still be executed
  late,          \* (history) change sets with a request executed after a
                 \* look at the target that was relied on
  lock,          \* mutation.lock: Free, Stale or its holder
  journal,       \* last event of every change set's journal
  idempotency,   \* what each idempotency digest is bound to
  actionClaims,  \* action-claims/<id>/<action>.json: the claiming key
  snapshots,     \* change sets whose snapshot file exists
  vault,         \* private plan material in each process's memory
  op,            \* the call each process is executing
  reply,         \* kind and code of the call that ended last
  writes,        \* (history) remote writes sent, per change set and purpose
  drifts, faults

disk == <<journal, idempotency, actionClaims, snapshots>>
bounds == <<drifts, faults>>
remote == <<editor, pending, late>>
vars == <<remote, lock, disk, vault, op, reply, writes, bounds>>

----------------------------------------------------------------------------
(* Journal records                                                         *)

Actions == {"apply", "rollback"}
Purposes == Actions \cup {"recovery"}
States == {"NONE", "PLANNED", "APPLIED", "VERIFIED", "ROLLED_BACK", "FAILED"}

BaselineFailures ==
  {"APPLY_FAILED_UNCHANGED", "APPLY_PREVIOUS_ATTEMPT_UNCHANGED",
   "APPLY_VERIFICATION_FAILED_RECOVERED"}
AppliedFailures ==
  {"ROLLBACK_FAILED_UNCHANGED", "ROLLBACK_PREVIOUS_ATTEMPT_UNCHANGED"}
AmbiguousFailures ==
  {"APPLY_AMBIGUOUS", "ROLLBACK_AMBIGUOUS",
   "APPLY_VERIFICATION_FAILED_RECOVERY_UNPROVEN"}
Failures == BaselineFailures \cup AppliedFailures \cup AmbiguousFailures

OptHash == Hashes \cup {NoHash}
OptKey == Keys \cup {NoKey}

Record ==
  [state : States, before : OptHash, after : OptHash, planKey : OptKey,
   failure : Failures \cup {"none"}, applied : OptHash,
   expected : OptHash, actual : OptHash]

NoRecord ==
  [state |-> "NONE", before |-> NoHash, after |-> NoHash, planKey |-> NoKey,
   failure |-> "none", applied |-> NoHash,
   expected |-> NoHash, actual |-> NoHash]

Transitions ==
  [NONE |-> {},
   PLANNED |-> {"PLANNED", "APPLIED", "ROLLED_BACK", "FAILED"},
   APPLIED |-> {"APPLIED", "VERIFIED", "ROLLED_BACK", "FAILED"},
   VERIFIED |-> {"VERIFIED", "ROLLED_BACK", "FAILED"},
   FAILED |-> {"FAILED", "ROLLED_BACK"},
   ROLLED_BACK |-> {"ROLLED_BACK"}]

\* What a record must carry for its state, whoever built it.
WellFormed(r) ==
  /\ r.state \in {"APPLIED", "VERIFIED"} =>
       r.applied # NoHash /\ r.expected = r.after /\ r.actual = r.after
  /\ r.state = "FAILED" => r.failure # "none"
  /\ r.state = "ROLLED_BACK" => r.expected = r.before /\ r.actual = r.before

\* The store takes event r after the last event of change set c.
Accepted(c, r) ==
  /\ WellFormed(r)
  /\ r.state \in Transitions[journal[c].state]
  /\ journal[c].applied # NoHash => r.applied = journal[c].applied

\* The hash verify() compares with; an ambiguous failure has none.
ExpectsBefore(r) ==
  \/ r.state \in {"PLANNED", "ROLLED_BACK"}
  \/ r.state = "FAILED" /\ r.failure \in BaselineFailures
ExpectsAfter(r) ==
  \/ r.state \in {"APPLIED", "VERIFIED"}
  \/ r.state = "FAILED" /\ r.failure \in AppliedFailures

----------------------------------------------------------------------------
(* Idempotency                                                             *)

Binding == [scope : {"plan"} \cup Actions, cs : ChangeSets]
Unbound == [scope |-> "none"]

BindingOf(a, c) == [scope |-> a, cs |-> c]

\* Mutant: a claim made under another key does not refuse the call.
UnclaimedIgnoringClaim(k, a, c) ==
  idempotency[k] \in {Unbound, BindingOf(a, c)}
\* Mutant: the key's binding to another action is not looked at.
UnclaimedIgnoringBinding(k, a, c) == actionClaims[c][a] = NoKey

\* actionAttemptStatus(): the claim is the caller's own, or nobody has
\* claimed and the key means nothing else.  Otherwise the call is refused.
Replays(k, a, c) == actionClaims[c][a] = k
Unclaimed(k, a, c) ==
  /\ actionClaims[c][a] = NoKey
  /\ idempotency[k] \in {Unbound, BindingOf(a, c)}

\* Mutant: no scan of the journals for a key whose mapping was not written.
PlansOfMapping(k) ==
  {c \in ChangeSets : idempotency[k] = BindingOf("plan", c)}

\* The plans a key stands for: by its mapping, else by scanning journals.
PlansOf(k) ==
  IF idempotency[k] = Unbound
  THEN {c \in ChangeSets : journal[c].planKey = k}
  ELSE {c \in ChangeSets : idempotency[k] = BindingOf("plan", c)}

----------------------------------------------------------------------------
(* Running calls                                                           *)

Idle ==
  [kind |-> "none", pc |-> "idle", cs |-> NoKey, key |-> NoKey,
   fresh |-> NoHash, seen |-> NoHash, again |-> NoHash, threw |-> "no"]

Kinds == Actions \cup {"plan", "verify"}
Steps ==
  {"read", "decide", "event", "bind", "claim", "guard", "write", "reread",
   "diagnose", "settle", "restore", "restored", "rediagnose", "resettle"}

Call ==
  [kind : Kinds, pc : Steps, cs : ChangeSets, key : OptKey, fresh : OptHash,
   seen : OptHash, again : OptHash, threw : {"no", "error", "head"}]

Codes ==
  Failures \cup {"none", "OK", "READ_FAILED", "STALE_TARGET", "REFUSED",
                 "IDEMPOTENCY_CONFLICT", "VERIFICATION_FAILED",
                 "STATE_CORRUPT", "IO_ERROR"}

At(p, pc) == op[p].pc = pc
Running(p, kind, pc) == op[p].kind = kind /\ op[p].pc = pc
Entry(p) == journal[op[p].cs]
Goto(p, pc) == op' = [op EXCEPT ![p].pc = pc]
\* The adapter throws; how tells the HEAD verdict from any other error.
Throws(p, how, pc) ==
  op' = [op EXCEPT ![p] = [@ EXCEPT !.threw = how, !.pc = pc]]

Start(p, kind, c, k) ==
  /\ lock = Free
  /\ lock' = p
  /\ op' = [op EXCEPT ![p] = [Idle EXCEPT !.kind = kind, !.pc = "read",
                                          !.cs = c, !.key = k]]
  /\ UNCHANGED <<remote, disk, vault, reply, writes, bounds>>

\* Mutant: the ended call's arguments survive it.
FinishKeepingCall(p, code) ==
  /\ lock' = Free
  /\ op' = [op EXCEPT ![p].pc = "idle"]
  /\ reply' = [kind |-> op[p].kind, code |-> code]

\* The finally block of withMutationLock(), and the call's answer.
Finish(p, code) ==
  /\ lock' = Free
  /\ op' = [op EXCEPT ![p] = Idle]
  /\ reply' = [kind |-> op[p].kind, code |-> code]

Forget(p, c) == vault' = [vault EXCEPT ![p] = @ \ {c}]

\* Mutant: every failure forgets the private material.
ConcludeForgetting(p, r, code, drop) ==
  /\ Accepted(op[p].cs, r)
  /\ journal' = [journal EXCEPT ![op[p].cs] = r]
  /\ IF drop \/ r.state = "FAILED" THEN Forget(p, op[p].cs)
     ELSE UNCHANGED vault
  /\ Finish(p, code)
  /\ UNCHANGED <<remote, idempotency, actionClaims, snapshots, writes, bounds>>

\* Append event r and answer code, or be refused by the store.
Conclude(p, r, code, drop) ==
  /\ \/ /\ Accepted(op[p].cs, r)
        /\ journal' = [journal EXCEPT ![op[p].cs] = r]
        /\ IF drop THEN Forget(p, op[p].cs) ELSE UNCHANGED vault
        /\ Finish(p, code)
     \/ /\ ~Accepted(op[p].cs, r)
        /\ UNCHANGED <<journal, vault>>
        /\ Finish(p, "STATE_CORRUPT")
  /\ UNCHANGED <<remote, idempotency, actionClaims, snapshots, writes, bounds>>

\* The record a conclusion builds from the current one.
Concluded(p, s, expected, actual) ==
  [Entry(p) EXCEPT !.state = s, !.expected = expected, !.actual = actual]
Failed(p, code, expected, actual) ==
  [Concluded(p, "FAILED", expected, actual) EXCEPT !.failure = code]

Init ==
  /\ editor \in Hashes
  /\ pending = {} /\ late = {}
  /\ lock = Free
  /\ journal = [c \in ChangeSets |-> NoRecord]
  /\ idempotency = [k \in Keys |-> Unbound]
  /\ actionClaims = [c \in ChangeSets |-> [a \in Actions |-> NoKey]]
  /\ snapshots = {}
  /\ vault = [p \in Procs |-> {}]
  /\ op = [p \in Procs |-> Idle]
  /\ reply = [kind |-> "none", code |-> "none"]
  /\ writes = [c \in ChangeSets |-> [a \in Purposes |-> 0]]
  /\ drifts = 0 /\ faults = 0

----------------------------------------------------------------------------
(* Reading the target                                                      *)

Read(p) ==
  /\ At(p, "read")
  /\ op' = [op EXCEPT ![p] = [@ EXCEPT !.fresh = editor, !.pc = "decide"]]
  /\ UNCHANGED <<remote, lock, disk, vault, reply, writes, bounds>>

ReadThrows(p) ==
  /\ At(p, "read")
  /\ Finish(p, "READ_FAILED")
  /\ UNCHANGED <<remote, disk, vault, writes, bounds>>

----------------------------------------------------------------------------
(* plan                                                                    *)

PlanBegin(p, c, k) ==
  /\ journal[c].state = "NONE"
  /\ k # NoKey => PlansOf(k) = {}
  /\ Start(p, "plan", c, k)

\* The adapter's plan: vault.put and the snapshot file.
PlanSnapshot(p) ==
  /\ Running(p, "plan", "decide")
  /\ \E after \in Hashes \ {op[p].fresh} :
       op' = [op EXCEPT ![p] = [@ EXCEPT !.seen = after, !.pc = "event"]]
  /\ vault' = [vault EXCEPT ![p] = @ \cup {op[p].cs}]
  /\ snapshots' = snapshots \cup {op[p].cs}
  /\ UNCHANGED <<remote, lock, journal, idempotency, actionClaims,
                 reply, writes, bounds>>

\* A patch that changes nothing, or that the adapter rejects.
PlanRejected(p) ==
  /\ Running(p, "plan", "decide")
  /\ Finish(p, "REFUSED")
  /\ UNCHANGED <<remote, disk, vault, writes, bounds>>

\* createChangeSet(): event 000001, then the key's mapping.
PlanEvent(p) ==
  /\ Running(p, "plan", "event")
  /\ journal' = [journal EXCEPT ![op[p].cs] =
                   [NoRecord EXCEPT !.state = "PLANNED", !.before = op[p].fresh,
                                    !.after = op[p].seen, !.planKey = op[p].key]]
  /\ \/ /\ op[p].key = NoKey
        /\ Finish(p, "OK")
     \/ /\ op[p].key # NoKey
        /\ Goto(p, "bind")
        /\ UNCHANGED <<lock, reply>>
  /\ UNCHANGED <<remote, idempotency, actionClaims, snapshots, vault,
                 writes, bounds>>

PlanBind(p) ==
  /\ Running(p, "plan", "bind")
  /\ idempotency[op[p].key] = Unbound
  /\ idempotency' = [idempotency EXCEPT ![op[p].key] =
                       BindingOf("plan", op[p].cs)]
  /\ Finish(p, "OK")
  /\ UNCHANGED <<remote, journal, actionClaims, snapshots, vault,
                 writes, bounds>>

\* The two catch blocks: journal directory, vault and snapshot are removed.
PlanUndo(p, code) ==
  /\ journal' = [journal EXCEPT ![op[p].cs] = NoRecord]
  /\ snapshots' = snapshots \ {op[p].cs}
  /\ Forget(p, op[p].cs)
  /\ Finish(p, code)
  /\ UNCHANGED <<remote, idempotency, actionClaims, writes>>

PlanConflict(p) ==
  /\ Running(p, "plan", "bind")
  /\ idempotency[op[p].key] # Unbound
  /\ PlanUndo(p, "IDEMPOTENCY_CONFLICT")
  /\ UNCHANGED bounds

PlanWriteFails(p) ==
  /\ faults < MaxFaults
  /\ Running(p, "plan", "event") \/ Running(p, "plan", "bind")
  /\ PlanUndo(p, "IO_ERROR")
  /\ faults' = faults + 1
  /\ UNCHANGED drifts

----------------------------------------------------------------------------
(* apply                                                                   *)

ApplyBegin(p, c, k) ==
  /\ journal[c].state = "PLANNED"
  /\ Replays(k, "apply", c) \/ Unclaimed(k, "apply", c)
  /\ c \in vault[p]
  /\ Start(p, "apply", c, k)

\* A durable claim without an outcome is settled by reading, never by writing.
ApplyReplay(p) ==
  /\ Running(p, "apply", "decide")
  /\ Replays(op[p].key, "apply", op[p].cs)
  /\ LET r == Entry(p)
         fresh == op[p].fresh
     IN \/ /\ fresh = r.after
           /\ Conclude(p, [Concluded(p, "APPLIED", r.after, fresh)
                             EXCEPT !.applied = fresh], "OK", FALSE)
        \/ /\ fresh = r.before
           /\ Conclude(p, Failed(p, "APPLY_PREVIOUS_ATTEMPT_UNCHANGED",
                                 r.before, fresh),
                       "APPLY_PREVIOUS_ATTEMPT_UNCHANGED", TRUE)
        \/ /\ fresh \notin {r.before, r.after}
           /\ Conclude(p, [Failed(p, "APPLY_AMBIGUOUS", r.after, fresh)
                             EXCEPT !.applied = fresh],
                       "APPLY_AMBIGUOUS", FALSE)

\* A moved hash, or a moved revision under an equal hash.
ApplyStale(p) ==
  /\ Running(p, "apply", "decide")
  /\ ~Replays(op[p].key, "apply", op[p].cs)
  /\ Finish(p, "STALE_TARGET")
  /\ UNCHANGED <<remote, disk, vault, writes, bounds>>

\* claimActionIdempotency(), first file: the key's mapping.
BindKey(p) ==
  /\ idempotency' = [idempotency EXCEPT ![op[p].key] =
                       BindingOf(op[p].kind, op[p].cs)]
  /\ Goto(p, "claim")
  /\ UNCHANGED <<remote, lock, journal, actionClaims, snapshots, vault,
                 reply, writes, bounds>>

ApplyPermit(p) ==
  /\ Running(p, "apply", "decide")
  /\ ~Replays(op[p].key, "apply", op[p].cs)
  /\ op[p].fresh = Entry(p).before
  /\ BindKey(p)

\* Second file: the claim, which no key can take over afterwards.  A
\* rollback that finds the baseline in place has nothing to restore.
ClaimAction(p) ==
  /\ At(p, "claim")
  /\ actionClaims' = [actionClaims EXCEPT ![op[p].cs][op[p].kind] = op[p].key]
  /\ Goto(p, IF op[p].kind = "apply" THEN "guard"
             ELSE IF op[p].fresh = Entry(p).after THEN "restore"
             ELSE "resettle")
  /\ UNCHANGED <<remote, lock, journal, idempotency, snapshots, vault,
                 reply, writes, bounds>>

\* adapter.apply(): its own reread must still find the baseline.
ApplyGuard(p) ==
  /\ At(p, "guard")
  /\ \/ editor = Entry(p).before /\ Goto(p, "write")
     \/ Throws(p, "error", "diagnose")
  /\ UNCHANGED <<remote, lock, disk, vault, reply, writes, bounds>>

\* One request leaves for the editor.  It is executed, rightly, wrongly or
\* not at all, or it is still under way when its sender stops waiting.
Send(p, purpose) ==
  /\ writes' = [writes EXCEPT ![op[p].cs][purpose] = @ + 1]
  /\ \/ editor' \in Hashes /\ UNCHANGED pending
     \/ pending' = pending \cup {<<op[p].cs, purpose>>} /\ UNCHANGED editor
  /\ UNCHANGED <<late, lock, disk, vault, reply, bounds>>

\* An acknowledged request is no longer under way; the acknowledgement of
\* an executed one may be missing.
ApplyWrite(p) ==
  /\ At(p, "write")
  /\ Send(p, "apply")
  /\ \/ UNCHANGED pending /\ Goto(p, "reread")
     \/ Throws(p, "error", "diagnose")

\* The adapter's reread; the page-head-code adapter refuses to judge any
\* other hash than the intended one.
ApplyReread(p) ==
  /\ At(p, "reread")
  /\ \/ /\ op[p].cs \in HeadCode => editor = Entry(p).after
        /\ op' = [op EXCEPT ![p] = [@ EXCEPT !.seen = editor, !.pc = "settle"]]
     \/ /\ op[p].cs \in HeadCode
        /\ editor # Entry(p).after
        /\ Throws(p, "head", "diagnose")
     \/ Throws(p, "error", "diagnose")
  /\ UNCHANGED <<remote, lock, disk, vault, reply, writes, bounds>>

\* diagnosticRead(): the present hash, or nothing.
Diagnose(p) ==
  /\ At(p, "diagnose")
  /\ \E h \in {editor, NoHash} :
       op' = [op EXCEPT ![p] = [@ EXCEPT !.seen = h, !.pc = "settle"]]
  /\ UNCHANGED <<remote, lock, disk, vault, reply, writes, bounds>>

Applied(p) == op[p].threw # "head" /\ op[p].seen = Entry(p).after
Mismatched(p) == op[p].threw = "no" /\ op[p].seen # Entry(p).after

\* Mutant: the failed record takes the hash left now, whatever was known.
AmbiguousForgetting(p, code, expected, seen, left) ==
  [Failed(p, code, expected, seen) EXCEPT !.applied = left]

\* A failed record keeps the old verification when nothing could be read,
\* and remembers the hash that the attempt left behind.
Ambiguous(p, code, expected, seen, left) ==
  LET r == IF seen = NoHash
           THEN [Entry(p) EXCEPT !.state = "FAILED", !.failure = code]
           ELSE Failed(p, code, expected, seen)
  IN [r EXCEPT !.applied = IF left = NoHash THEN @ ELSE left]

\* Mutant: a target that could not be reread counts as unchanged.
ApplySettleUnread(p) ==
  /\ At(p, "settle")
  /\ LET r == Entry(p)
         seen == op[p].seen
     IN \/ /\ Applied(p)
           /\ Conclude(p, [Concluded(p, "APPLIED", r.after, seen)
                             EXCEPT !.applied = seen], "OK", FALSE)
        \/ /\ op[p].threw = "error" /\ seen \in {r.before, NoHash}
           /\ Conclude(p, Failed(p, "APPLY_FAILED_UNCHANGED", r.before, seen),
                       "APPLY_FAILED_UNCHANGED", TRUE)
        \/ /\ op[p].threw # "no" /\ ~Applied(p)
           /\ seen \notin {r.before, NoHash}
           /\ Conclude(p, Ambiguous(p, "APPLY_AMBIGUOUS", r.after, seen, seen),
                       "APPLY_AMBIGUOUS", FALSE)

ApplySettle(p) ==
  /\ At(p, "settle")
  /\ LET r == Entry(p)
         seen == op[p].seen
         unchanged == op[p].threw = "error" /\ seen = r.before
     IN \/ /\ Applied(p)
           /\ Conclude(p, [Concluded(p, "APPLIED", r.after, seen)
                             EXCEPT !.applied = seen], "OK", FALSE)
        \/ /\ unchanged
           /\ Conclude(p, Failed(p, "APPLY_FAILED_UNCHANGED", r.before, seen),
                       "APPLY_FAILED_UNCHANGED", TRUE)
        \/ /\ op[p].threw # "no" /\ ~Applied(p) /\ ~unchanged
           /\ Conclude(p, Ambiguous(p, "APPLY_AMBIGUOUS", r.after, seen, seen),
                       "APPLY_AMBIGUOUS", FALSE)

\* An acknowledged write that shows another hash is restored at once.
ApplyMismatch(p) ==
  /\ At(p, "settle")
  /\ Mismatched(p)
  /\ Goto(p, "restore")
  /\ UNCHANGED <<remote, lock, disk, vault, reply, writes, bounds>>

RecoverySettle(p) ==
  /\ Running(p, "apply", "resettle")
  /\ LET r == Entry(p)
         again == op[p].again
     IN \/ /\ again = r.before
           /\ Conclude(p, [Failed(p, "APPLY_VERIFICATION_FAILED_RECOVERED",
                                  r.before, again)
                             EXCEPT !.applied = op[p].seen],
                       "APPLY_VERIFICATION_FAILED_RECOVERED", TRUE)
        \/ /\ again # r.before
           /\ Conclude(p, Ambiguous(p,
                            "APPLY_VERIFICATION_FAILED_RECOVERY_UNPROVEN",
                            r.before, again, op[p].seen),
                       "APPLY_VERIFICATION_FAILED_RECOVERY_UNPROVEN", FALSE)

----------------------------------------------------------------------------
(* adapter.restore(), for a rollback and for apply's own recovery          *)

\* The adapter may refuse what it reads before it writes.
RestoreRefused(p) ==
  /\ At(p, "restore")
  /\ Throws(p, "error", "rediagnose")
  /\ UNCHANGED <<remote, lock, disk, vault, reply, writes, bounds>>

RestoreWrite(p) ==
  /\ At(p, "restore")
  /\ Send(p, IF op[p].kind = "apply" THEN "recovery" ELSE "rollback")
  /\ \/ UNCHANGED pending /\ Goto(p, "restored")
     \/ Throws(p, "error", "rediagnose")

RestoreReread(p) ==
  /\ At(p, "restored")
  /\ \/ /\ op[p].cs \in HeadCode => editor = Entry(p).before
        /\ Goto(p, "rediagnose")
     \/ /\ op[p].cs \in HeadCode
        /\ editor # Entry(p).before
        /\ Throws(p, "head", "rediagnose")
     \/ Throws(p, "error", "rediagnose")
  /\ UNCHANGED <<remote, lock, disk, vault, reply, writes, bounds>>

Rediagnose(p) ==
  /\ At(p, "rediagnose")
  /\ \E h \in {editor, NoHash} :
       op' = [op EXCEPT ![p] = [@ EXCEPT !.again = h, !.pc = "resettle"]]
  /\ UNCHANGED <<remote, lock, disk, vault, reply, writes, bounds>>

----------------------------------------------------------------------------
(* rollback                                                                *)

RollbackBegin(p, c, k) ==
  /\ journal[c].state \in {"PLANNED", "APPLIED", "VERIFIED", "FAILED"}
  /\ Replays(k, "rollback", c) \/ Unclaimed(k, "rollback", c)
  /\ Start(p, "rollback", c, k)

\* Mutant: nothing answers the replay of an already journalled failure.
RollbackReplayOnce(p) ==
  /\ Running(p, "rollback", "decide")
  /\ Replays(op[p].key, "rollback", op[p].cs)
  /\ Entry(p).state # "FAILED"
  /\ Conclude(p, Failed(p, "ROLLBACK_AMBIGUOUS", Entry(p).before, op[p].fresh),
              "ROLLBACK_AMBIGUOUS", FALSE)

RollbackReplay(p) ==
  /\ Running(p, "rollback", "decide")
  /\ Replays(op[p].key, "rollback", op[p].cs)
  /\ op[p].cs \in snapshots
  /\ LET r == Entry(p)
         fresh == op[p].fresh
         code == IF fresh = r.after THEN "ROLLBACK_PREVIOUS_ATTEMPT_UNCHANGED"
                 ELSE "ROLLBACK_AMBIGUOUS"
     IN \/ /\ fresh = r.before
           /\ Conclude(p, Concluded(p, "ROLLED_BACK", r.before, fresh),
                       "OK", TRUE)
        \/ /\ fresh # r.before
           /\ r.state # "FAILED" \/ r.failure # code
           /\ Conclude(p, IF fresh = r.after
                          THEN Failed(p, code, r.after, fresh)
                          ELSE Ambiguous(p, code, r.before, fresh,
                                 IF r.applied = NoHash THEN fresh
                                 ELSE NoHash),
                       code, FALSE)
        \/ /\ fresh # r.before
           /\ r.state = "FAILED" /\ r.failure = code
           /\ Finish(p, code)
           /\ UNCHANGED <<remote, disk, vault, writes, bounds>>

\* Mutant: a target that shows the planned content is restored whether or
\* not the change set was applied.
RollbackableUnapplied(p) ==
  /\ op[p].cs \in snapshots
  /\ \/ op[p].fresh = Entry(p).before
     \/ op[p].fresh = Entry(p).after /\ op[p].cs \in vault[p]

\* Where an unclaimed rollback may start from.
Rollbackable(p) ==
  /\ op[p].cs \in snapshots
  /\ \/ /\ op[p].fresh = Entry(p).before
        /\ Entry(p).state \in {"PLANNED", "FAILED"}
     \/ /\ op[p].fresh = Entry(p).after
        /\ Entry(p).state \in {"APPLIED", "VERIFIED", "FAILED"}
        /\ op[p].cs \in vault[p]

RollbackStale(p) ==
  /\ Running(p, "rollback", "decide")
  /\ ~Replays(op[p].key, "rollback", op[p].cs)
  /\ ~Rollbackable(p)
  /\ Finish(p, "STALE_TARGET")
  /\ UNCHANGED <<remote, disk, vault, writes, bounds>>

RollbackPermit(p) ==
  /\ Running(p, "rollback", "decide")
  /\ ~Replays(op[p].key, "rollback", op[p].cs)
  /\ Rollbackable(p)
  /\ BindKey(p)

RollbackSettle(p) ==
  /\ Running(p, "rollback", "resettle")
  /\ LET r == Entry(p)
         restoring == op[p].fresh = r.after
         again == IF restoring THEN op[p].again ELSE op[p].fresh
         proven == again = r.before /\ (restoring => op[p].threw # "head")
         inert == op[p].threw # "head" /\ again = r.after
     IN \/ /\ proven
           /\ Conclude(p, Concluded(p, "ROLLED_BACK", r.before, again),
                       "OK", TRUE)
        \/ /\ inert
           /\ Conclude(p, Failed(p, "ROLLBACK_FAILED_UNCHANGED",
                                 r.after, again),
                       "ROLLBACK_FAILED_UNCHANGED", FALSE)
        \/ /\ ~proven /\ ~inert
           /\ Conclude(p, Ambiguous(p, "ROLLBACK_AMBIGUOUS",
                                    r.before, again, NoHash),
                       "ROLLBACK_AMBIGUOUS", FALSE)

----------------------------------------------------------------------------
(* verify                                                                  *)

VerifyBegin(p, c) ==
  /\ ExpectsBefore(journal[c]) \/ ExpectsAfter(journal[c])
  /\ Start(p, "verify", c, NoKey)

VerifySettle(p) ==
  /\ Running(p, "verify", "decide")
  /\ LET r == Entry(p)
         expected == IF ExpectsBefore(r) THEN r.before ELSE r.after
         exact == op[p].fresh = expected
     IN Conclude(p,
          Concluded(p, IF exact /\ r.state = "APPLIED" THEN "VERIFIED"
                       ELSE r.state, expected, op[p].fresh),
          IF exact THEN "OK" ELSE "VERIFICATION_FAILED", FALSE)

----------------------------------------------------------------------------
(* Faults and the outside world                                            *)

\* A durable write of apply, verify or rollback throws: the disk refuses, or
\* the clock stepped back and the store calls the event stale.
WriteFails(p) ==
  /\ faults < MaxFaults
  /\ op[p].kind # "plan"
  /\ op[p].pc \in {"decide", "claim", "settle", "resettle"}
  /\ ~(At(p, "settle") /\ Mismatched(p))
  /\ faults' = faults + 1
  /\ Finish(p, "IO_ERROR")
  /\ UNCHANGED <<remote, disk, vault, writes, drifts>>

\* Process p dies and is started again: its memory is gone, the files stay.
ProcessDies(p) ==
  /\ faults < MaxFaults
  /\ lock = p \/ vault[p] # {}
  /\ faults' = faults + 1
  /\ lock' = IF lock = p THEN Stale ELSE lock
  /\ op' = [op EXCEPT ![p] = Idle]
  /\ vault' = [vault EXCEPT ![p] = {}]
  /\ UNCHANGED <<remote, disk, reply, writes, drifts>>

\* Nothing in the code removes a dead process's lock: somebody does by hand.
RemoveStaleLock ==
  /\ lock = Stale
  /\ lock' = Free
  /\ UNCHANGED <<remote, disk, vault, op, reply, writes, bounds>>

\* Another session edits the target.
Drift ==
  /\ drifts < MaxDrifts
  /\ drifts' = drifts + 1
  /\ editor' \in Hashes \ {editor}
  /\ UNCHANGED <<pending, late, lock, disk, vault, op, reply, writes, faults>>

\* The baseline was seen for change set c, or a call will judge by what it
\* has read already.
Judged(c) ==
  \/ journal[c].state = "ROLLED_BACK"
  \/ journal[c].state = "FAILED" /\ journal[c].failure \in BaselineFailures
  \/ \E p \in Procs :
       /\ op[p].cs = c /\ op[p].kind \in Actions
       /\ op[p].pc \in {"decide", "claim", "settle", "resettle"}

\* A request given up for lost is executed after all.
Land(c, purpose) ==
  /\ <<c, purpose>> \in pending
  /\ pending' = pending \ {<<c, purpose>>}
  /\ editor' \in Hashes
  /\ late' = IF Judged(c) THEN late \cup {c} ELSE late
  /\ UNCHANGED <<lock, disk, vault, op, reply, writes, bounds>>

Landing == \E c \in ChangeSets, purpose \in Purposes : Land(c, purpose)

----------------------------------------------------------------------------

Plan(p) ==
  \/ PlanSnapshot(p) \/ PlanRejected(p) \/ PlanEvent(p)
  \/ PlanBind(p) \/ PlanConflict(p)
Apply(p) ==
  \/ ApplyReplay(p) \/ ApplyStale(p) \/ ApplyPermit(p)
  \/ ApplyGuard(p) \/ ApplyWrite(p) \/ ApplyReread(p) \/ Diagnose(p)
  \/ ApplySettle(p) \/ ApplyMismatch(p) \/ RecoverySettle(p)
Restore(p) ==
  \/ RestoreRefused(p) \/ RestoreWrite(p) \/ RestoreReread(p)
  \/ Rediagnose(p)
Rollback(p) ==
  \/ RollbackReplay(p) \/ RollbackStale(p) \/ RollbackPermit(p)
  \/ RollbackSettle(p)

\* What a running call does next.
Proceed(p) ==
  \/ Read(p) \/ ReadThrows(p) \/ Plan(p) \/ Apply(p) \/ ClaimAction(p)
  \/ Restore(p) \/ Rollback(p) \/ VerifySettle(p)

Begin(p) ==
  \E c \in ChangeSets :
    \/ VerifyBegin(p, c)
    \/ \E k \in OptKey : PlanBegin(p, c, k)
    \/ \E k \in Keys : ApplyBegin(p, c, k) \/ RollbackBegin(p, c, k)

Fault(p) == PlanWriteFails(p) \/ WriteFails(p) \/ ProcessDies(p)

Next ==
  \/ \E p \in Procs : Begin(p) \/ Proceed(p) \/ Fault(p)
  \/ Landing
  \/ RemoveStaleLock
  \/ Drift

Spec == Init /\ [][Next]_vars
FairSpec == Spec /\ \A p \in Procs : WF_vars(Proceed(p))

----------------------------------------------------------------------------
(* Properties                                                              *)

TypeOK ==
  /\ editor \in Hashes
  /\ pending \subseteq ChangeSets \X Purposes /\ late \subseteq ChangeSets
  /\ lock \in Procs \cup {Free, Stale}
  /\ journal \in [ChangeSets -> Record]
  /\ idempotency \in [Keys -> Binding \cup {Unbound}]
  /\ actionClaims \in [ChangeSets -> [Actions -> OptKey]]
  /\ snapshots \subseteq ChangeSets
  /\ vault \in [Procs -> SUBSET ChangeSets]
  /\ op \in [Procs -> Call \cup {Idle}]
  /\ reply \in [kind : Kinds \cup {"none"}, code : Codes]
  /\ writes \in [ChangeSets -> [Purposes -> Nat]]
  /\ drifts \in Nat /\ faults \in Nat

\* At most one process is inside a call, and it holds the lock.
LockHeld == \A p \in Procs : lock = p <=> op[p] # Idle

\* A change set sends its write, its recovery and its rollback at most once
\* each, over all replays, keys, processes and deaths, and never without the
\* durable claim of the action it belongs to.  (engine.ts "it was not
\* retried"; store.ts "a new key cannot retry it".)
SentOnce ==
  \A c \in ChangeSets :
    /\ \A a \in Purposes : writes[c][a] <= 1
    /\ writes[c]["apply"] > 0 => actionClaims[c]["apply"] # NoKey
    /\ writes[c]["recovery"] > 0 => writes[c]["apply"] > 0
    /\ writes[c]["rollback"] > 0 => actionClaims[c]["rollback"] # NoKey

\* An outcome is never journalled without the claim it rests on: the
\* STATE_CORRUPT answers of apply and rollback to a settled change set
\* ("lacks its durable apply claim") cannot be given.
OutcomeClaimed ==
  \A c \in ChangeSets :
    /\ journal[c].state \in {"APPLIED", "VERIFIED"} =>
         actionClaims[c]["apply"] # NoKey
    /\ journal[c].state = "ROLLED_BACK" => actionClaims[c]["rollback"] # NoKey
    /\ journal[c].state = "FAILED" =>
         \E a \in Actions : actionClaims[c][a] # NoKey

\* One key authorises one action of one change set.
KeyAuthorisesOnce ==
  \A c, d \in ChangeSets : \A a, b \in Actions :
    actionClaims[c][a] # NoKey /\ actionClaims[c][a] = actionClaims[d][b]
      => c = d /\ a = b

\* The scan for a plan key that has no mapping finds at most one journal, so
\* "Duplicate plan idempotency digests exist" is never raised.
PlanScanUnambiguous ==
  \A k \in Keys : idempotency[k] = Unbound =>
    Cardinality({c \in ChangeSets : journal[c].planKey = k}) <= 1

\* A journalled change set always has the snapshot its rollback loads.
SnapshotKept ==
  \A c \in ChangeSets : journal[c].state # "NONE" => c \in snapshots

\* apply and rollback never compute an outcome that the store then refuses:
\* what happened remotely can always be journalled.
OutcomeAccepted == reply.code = "STATE_CORRUPT" => reply.kind = "verify"

\* While a process lives, private material of a journalled change set is
\* forgotten only in the step that journals an exact sight of the baseline.
MaterialDropped(p, c) ==
  /\ c \in vault[p] /\ c \notin vault'[p]
  /\ journal'[c].state # "NONE" /\ faults' = faults
MaterialKept ==
  [][\A p \in Procs, c \in ChangeSets : MaterialDropped(p, c) =>
       /\ journal'[c] # journal[c]
       /\ journal'[c].expected = journal'[c].before
       /\ journal'[c].actual = journal'[c].before]_vars

\* While nobody else edits the target and no other change set has sent
\* anything, a success that the journal tells between two calls is what the
\* target holds, whatever becomes of the requests given up for lost.  A
\* return to the baseline ("a diagnostic reread proved no change") is what
\* it holds until a request of the change set, given up for lost, is executed
\* after a look that was relied on: nothing in the code holds that request
\* back.  An apply says nothing more once its rollback is claimed.
Alone(c) ==
  \A d \in ChangeSets \ {c} : \A a \in Purposes : writes[d][a] = 0
JournalTruthful ==
  drifts = 0 /\ lock = Free =>
    \A c \in {d \in ChangeSets : Alone(d)} :
      LET r == journal[c]
          unsettled == actionClaims[c]["rollback"] # NoKey
          baseline == editor = r.before \/ c \in late
      IN /\ r.state \in {"APPLIED", "VERIFIED"} /\ ~unsettled =>
              editor = r.after
         /\ r.state = "ROLLED_BACK" => baseline
         /\ r.state = "FAILED" /\ r.failure \in BaselineFailures /\ ~unsettled
              => baseline

\* Every call ends and gives the lock back, or its process dies.
LockReleased == \A p \in Procs : []<>(lock # p)

\* engine.ts: a fresh state that does not match the expectation is answered
\* VERIFICATION_FAILED.
VerifyReportsMismatch ==
  reply.kind = "verify" => reply.code # "STATE_CORRUPT"

\* The engine implements MutationLedger: a claim file is an attempt, the
\* journal's state is the verdict.
Verdict ==
  [NONE |-> "open", PLANNED |-> "open", APPLIED |-> "applied",
   VERIFIED |-> "applied", ROLLED_BACK |-> "undone", FAILED |-> "failed"]
Ledger == INSTANCE MutationLedger WITH
  attempts <- [c \in ChangeSets |->
                 {a \in Actions : actionClaims[c][a] # NoKey}],
  sent <- writes,
  verdict <- [c \in ChangeSets |-> Verdict[journal[c].state]]

\* Attempts, remote writes and verdicts of every change set follow the
\* ledger: one attempt per action, no write after its outcome is journalled,
\* no outcome without an attempt, no outcome taken back.
FollowsLedger == Ledger!Spec
============================================================================
