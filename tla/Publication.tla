---------------------------- MODULE Publication ----------------------------
(***************************************************************************)
(* Publishing and unpublishing pages: PublicationController                *)
(* (core/publication.ts) over its journals in the shared store             *)
(* (core/store.ts).                                                        *)
(*                                                                         *)
(* One request is dispatched under a durable claim; bounded rereads say    *)
(* what became of it, and a replay of the key only ever reads.  A request  *)
(* travels on its own: it may land while the controller rereads, later,    *)
(* or never.                                                               *)
(***************************************************************************)
EXTENDS Naturals

CONSTANTS
  Keys,           \* caller-supplied idempotency keys
  Procs,          \* server processes sharing the state directory
  Pages,          \* pages that can be published
  Stamps,         \* values of the editor's "changed" field
  Free, Stale,    \* lock file absent; lock file left by a dead process
  None,           \* no key, no page, no reading
  Rereads,        \* how many delayed rereads follow the immediate one
  MaxDrifts,      \* bound: edits and publications by somebody else
  MaxFaults       \* bound: process deaths and refused durable writes

ASSUME ConstantsAssumption ==
  /\ None \notin Keys \cup Pages \cup Stamps
  /\ Free \notin Procs /\ Stale \notin Procs /\ Free # Stale
  /\ Rereads \in Nat /\ MaxDrifts \in Nat /\ MaxFaults \in Nat

VARIABLES
  page,          \* what the editor says of every page
  pending,       \* keys whose request is on its way
  lock,          \* mutation.lock: Free, Stale or its holder
  idempotency,   \* what each idempotency digest is bound to
  publications,  \* last event of publications/<digest>/
  op,            \* the call each process is executing
  reply,         \* how the last call ended
  dispatches,    \* (history) requests sent under each key
  late,          \* (history) keys whose request landed after its call
  drifts, faults

bounds == <<drifts, faults>>
world == <<page, pending, late>>
vars == <<world, lock, idempotency, publications, op, reply, dispatches, bounds>>

----------------------------------------------------------------------------
(* Pages and records                                                       *)

Actions == {"publish", "unpublish"}
Terminal == {"SUCCEEDED", "NOOP", "FAILED", "AMBIGUOUS"}
Page == [published : BOOLEAN, changed : Stamps]

\* NONE: no directory; EMPTY: a directory without its first event.
Journal ==
  [state : Terminal \cup {"NONE", "EMPTY", "CLAIMED"},
   action : Actions \cup {"none"}, page : Pages \cup {None},
   published : BOOLEAN, changed : Stamps \cup {None}]
NoJournal ==
  [state |-> "NONE", action |-> "none", page |-> None,
   published |-> FALSE, changed |-> None]

Desired(action, seen) == seen.published = (action = "publish")
\* The page was not edited since the record's claim.
Unedited(r, seen) == seen.changed = r.changed
Unchanged(r, seen) == Unedited(r, seen) /\ seen.published = r.published

\* What a reading says of the request of record r.
Classify(r, seen) ==
  CASE seen = None -> "AMBIGUOUS"
    [] seen # None /\ Desired(r.action, seen) /\ Unedited(r, seen) -> "DESIRED"
    [] seen # None /\ ~Desired(r.action, seen) /\ Unchanged(r, seen) ->
         "UNCHANGED"
    [] OTHER -> "AMBIGUOUS"

----------------------------------------------------------------------------
(* Running calls                                                           *)

Idle ==
  [pc |-> "idle", key |-> None, action |-> "none", page |-> None,
   before |-> None, seen |-> None, tries |-> 0]
Steps == {"read", "claim", "directory", "event", "act", "reread", "settle"}
Call ==
  [pc : Steps, key : Keys, action : Actions, page : Pages,
   before : Page \cup {None}, seen : Page \cup {None}, tries : 0 .. Rereads]
Codes ==
  {"none", "OK", "READ_FAILED", "IDEMPOTENCY_CONFLICT", "STATE_CORRUPT",
   "PUBLICATION_REPLAY_DRIFT", "RECOVERY_REQUIRED", "IO_ERROR",
   "PUBLICATION_FAILED_UNCHANGED", "PUBLICATION_AMBIGUOUS"}

At(p, pc) == op[p].pc = pc
Claim(p) == publications[op[p].key]
Goto(p, pc) == op' = [op EXCEPT ![p] = [@ EXCEPT !.pc = pc]]

\* Mutant: the ended call's arguments survive it.
FinishKeepingCall(p, code) ==
  /\ lock' = Free
  /\ op' = [op EXCEPT ![p] = [@ EXCEPT !.pc = "idle"]]
  /\ reply' = [code |-> code, action |-> op[p].action, page |-> op[p].page]

\* The finally block of withMutationLock(), and the call's answer.
Finish(p, code) ==
  /\ lock' = Free
  /\ op' = [op EXCEPT ![p] = Idle]
  /\ reply' = [code |-> code, action |-> op[p].action, page |-> op[p].page]

\* appendPublicationAction(): event 000002.
Conclude(p, state, code) ==
  /\ Claim(p).state = "CLAIMED"
  /\ publications' =
       [publications EXCEPT ![op[p].key] = [@ EXCEPT !.state = state]]
  /\ Finish(p, code)
  /\ UNCHANGED <<world, idempotency, dispatches, bounds>>

Answer(p, code) ==
  /\ Finish(p, code)
  /\ UNCHANGED <<world, idempotency, publications, dispatches, bounds>>

Init ==
  /\ page \in [Pages -> Page]
  /\ pending = {} /\ late = {}
  /\ lock = Free
  /\ idempotency = [k \in Keys |-> "unbound"]
  /\ publications = [k \in Keys |-> NoJournal]
  /\ op = [p \in Procs |-> Idle]
  /\ reply = [code |-> "none", action |-> "none", page |-> None]
  /\ dispatches = [k \in Keys |-> 0]
  /\ drifts = 0 /\ faults = 0

----------------------------------------------------------------------------
(* execute                                                                 *)

Begin(p) ==
  /\ lock = Free
  /\ lock' = p
  /\ \E k \in Keys, a \in Actions, g \in Pages :
       op' = [op EXCEPT ![p] = [Idle EXCEPT !.pc = "read", !.key = k,
                                            !.action = a, !.page = g]]
  /\ UNCHANGED <<world, idempotency, publications, reply, dispatches, bounds>>

Read(p) ==
  /\ At(p, "read")
  /\ op' = [op EXCEPT ![p] = [@ EXCEPT !.before = page[op[p].page],
                                       !.pc = "claim"]]
  /\ UNCHANGED <<world, lock, idempotency, publications, reply, dispatches,
                 bounds>>

ReadThrows(p) ==
  /\ At(p, "read")
  /\ Answer(p, "READ_FAILED")

\* The key has a journal for this very action and page.
OwnJournal(p) ==
  /\ Claim(p).state \notin {"NONE", "EMPTY"}
  /\ Claim(p).action = op[p].action /\ Claim(p).page = op[p].page

\* Mutant: an open claim is taken up as if it were new.
ReopenedClaim(p) ==
  /\ At(p, "claim")
  /\ OwnJournal(p) /\ Claim(p).state = "CLAIMED"
  /\ Goto(p, "act")
  /\ UNCHANGED <<world, lock, idempotency, publications, reply, dispatches,
                 bounds>>

\* The key belongs to something else, or its directory was left empty.
ClaimRefused(p) ==
  /\ At(p, "claim")
  /\ \/ /\ Claim(p).state = "EMPTY"
        /\ Answer(p, "STATE_CORRUPT")
     \/ /\ Claim(p).state \notin {"NONE", "EMPTY"} /\ ~OwnJournal(p)
        /\ Answer(p, "IDEMPOTENCY_CONFLICT")
     \/ /\ Claim(p).state = "NONE" /\ idempotency[op[p].key] = "other"
        /\ Answer(p, "IDEMPOTENCY_CONFLICT")

\* claimPublicationAction(), first file: the key's mapping.
ClaimBinds(p) ==
  /\ At(p, "claim")
  /\ Claim(p).state = "NONE"
  /\ idempotency[op[p].key] # "other"
  /\ idempotency' = [idempotency EXCEPT ![op[p].key] = "publication"]
  /\ Goto(p, "directory")
  /\ UNCHANGED <<world, lock, publications, reply, dispatches, bounds>>

\* The journal's directory comes before its first event.
ClaimDirectory(p) ==
  /\ At(p, "directory")
  /\ publications' =
       [publications EXCEPT ![op[p].key] = [NoJournal EXCEPT !.state = "EMPTY"]]
  /\ Goto(p, "event")
  /\ UNCHANGED <<world, lock, idempotency, reply, dispatches, bounds>>

ClaimEvent(p) ==
  /\ At(p, "event")
  /\ publications' = [publications EXCEPT ![op[p].key] =
       [state |-> "CLAIMED", action |-> op[p].action, page |-> op[p].page,
        published |-> op[p].before.published,
        changed |-> op[p].before.changed]]
  /\ Goto(p, "act")
  /\ UNCHANGED <<world, lock, idempotency, reply, dispatches, bounds>>

Noop(p) ==
  /\ At(p, "act")
  /\ Desired(op[p].action, op[p].before)
  /\ Conclude(p, "NOOP", "OK")

\* The request leaves; whether its acknowledgement comes, is missing or is
\* replaced by an error only shows in the reconciliation code.
Dispatch(p) ==
  /\ At(p, "act")
  /\ ~Desired(op[p].action, op[p].before)
  /\ dispatches' = [dispatches EXCEPT ![op[p].key] = @ + 1]
  /\ pending' = pending \cup {op[p].key}
  /\ Goto(p, "reread")
  /\ UNCHANGED <<page, late, lock, idempotency, publications, reply, bounds>>

\* Mutant: rereads go on until the page shows what was asked for.
RereadForever(p) ==
  /\ At(p, "reread")
  /\ \E seen \in {page[op[p].page], None} :
       op' = [op EXCEPT ![p] = [@ EXCEPT !.seen = seen,
                !.pc = IF Classify(Claim(p), seen) = "DESIRED"
                       THEN "settle" ELSE @]]
  /\ UNCHANGED <<world, lock, idempotency, publications, reply, dispatches,
                 bounds>>

\* One reread; an unchanged page is read again while the budget lasts.
Reread(p) ==
  /\ At(p, "reread")
  /\ \E seen \in {page[op[p].page], None} :
       LET again == /\ Classify(Claim(p), seen) = "UNCHANGED"
                    /\ op[p].tries < Rereads
       IN \/ /\ again
             /\ op' = [op EXCEPT ![p] = [@ EXCEPT !.seen = seen,
                                            !.tries = op[p].tries + 1]]
          \/ /\ ~again
             /\ op' = [op EXCEPT ![p] = [@ EXCEPT !.seen = seen,
                                                  !.pc = "settle"]]
  /\ UNCHANGED <<world, lock, idempotency, publications, reply, dispatches,
                 bounds>>

\* Mutant: what could not be read counts as unchanged.
SettleUnread(p) ==
  /\ At(p, "settle")
  /\ LET found == Classify(Claim(p), op[p].seen)
     IN \/ found = "DESIRED" /\ Conclude(p, "SUCCEEDED", "OK")
        \/ found # "DESIRED" /\ Conclude(p, "FAILED",
                                         "PUBLICATION_FAILED_UNCHANGED")

Settle(p) ==
  /\ At(p, "settle")
  /\ LET found == Classify(Claim(p), op[p].seen)
     IN \/ found = "DESIRED" /\ Conclude(p, "SUCCEEDED", "OK")
        \/ found = "UNCHANGED" /\ Conclude(p, "FAILED",
                                           "PUBLICATION_FAILED_UNCHANGED")
        \/ found = "AMBIGUOUS" /\ Conclude(p, "AMBIGUOUS",
                                           "PUBLICATION_AMBIGUOUS")

----------------------------------------------------------------------------
(* A replay of the key                                                     *)

\* Mutant: a settled success is answered whatever the page shows now.
ReplaySettledBlind(p) ==
  /\ At(p, "claim")
  /\ OwnJournal(p)
  /\ Claim(p).state \in {"SUCCEEDED", "NOOP"}
  /\ Answer(p, "OK")

\* The key already has its outcome.
ReplaySettled(p) ==
  /\ At(p, "claim")
  /\ OwnJournal(p)
  /\ \/ /\ Claim(p).state \in {"SUCCEEDED", "NOOP"}
        /\ Answer(p, IF Desired(op[p].action, op[p].before)
                        /\ Unedited(Claim(p), op[p].before)
                     THEN "OK" ELSE "PUBLICATION_REPLAY_DRIFT")
     \/ /\ Claim(p).state \in {"FAILED", "AMBIGUOUS"}
        /\ Answer(p, "RECOVERY_REQUIRED")

\* Mutant: a failure is reconciled again by what the page shows now.
ReplayFailed(p) ==
  /\ At(p, "claim")
  /\ OwnJournal(p) /\ Claim(p).state \in {"CLAIMED", "FAILED"}
  /\ Classify(Claim(p), op[p].before) = "DESIRED"
  /\ publications' =
       [publications EXCEPT ![op[p].key] = [@ EXCEPT !.state = "SUCCEEDED"]]
  /\ Finish(p, "OK")
  /\ UNCHANGED <<world, idempotency, dispatches, bounds>>

\* A claim without an outcome is settled by reading, never by a request.
ReplayOpen(p) ==
  /\ At(p, "claim")
  /\ OwnJournal(p) /\ Claim(p).state = "CLAIMED"
  /\ LET found == Classify(Claim(p), op[p].before)
         was == IF Desired(op[p].action, Claim(p)) THEN "NOOP" ELSE "SUCCEEDED"
     IN \/ found = "DESIRED" /\ Conclude(p, was, "OK")
        \/ found = "UNCHANGED" /\ Conclude(p, "FAILED", "RECOVERY_REQUIRED")
        \/ found = "AMBIGUOUS" /\ Conclude(p, "AMBIGUOUS",
                                           "PUBLICATION_AMBIGUOUS")

----------------------------------------------------------------------------
(* Faults and the outside world                                            *)

\* A durable write throws, or the clock stepped back and the event is stale.
WriteFails(p) ==
  /\ faults < MaxFaults
  /\ \/ op[p].pc \in {"directory", "event", "settle"}
     \/ At(p, "claim") /\ Claim(p).state = "NONE"
        /\ idempotency[op[p].key] = "unbound"
     \/ At(p, "claim") /\ OwnJournal(p) /\ Claim(p).state = "CLAIMED"
     \/ At(p, "act") /\ Desired(op[p].action, op[p].before)
  /\ faults' = faults + 1
  /\ Finish(p, "IO_ERROR")
  /\ UNCHANGED <<world, idempotency, publications, dispatches, drifts>>

ProcessDies(p) ==
  /\ faults < MaxFaults
  /\ lock = p
  /\ faults' = faults + 1
  /\ lock' = Stale
  /\ op' = [op EXCEPT ![p] = Idle]
  /\ UNCHANGED <<world, idempotency, publications, reply, dispatches, drifts>>

\* Nothing in the code removes a dead process's lock: somebody does by hand.
RemoveStaleLock ==
  /\ lock = Stale
  /\ lock' = Free
  /\ UNCHANGED <<world, idempotency, publications, op, reply, dispatches, bounds>>

\* The change set engine takes a key of the same store for itself.
OtherBinds ==
  /\ lock = Free
  /\ \E k \in Keys :
       /\ idempotency[k] = "unbound"
       /\ idempotency' = [idempotency EXCEPT ![k] = "other"]
  /\ UNCHANGED <<world, lock, publications, op, reply, dispatches, bounds>>

\* Some call took its last look at the outcome of key k.
Judged(k) ==
  \/ publications[k].state # "CLAIMED"
  \/ \E p \in Procs : op[p].key = k /\ op[p].pc \in {"claim", "settle"}

Land(k) ==
  /\ k \in pending
  /\ pending' = pending \ {k}
  /\ page' = [page EXCEPT ![publications[k].page] =
                [@ EXCEPT !.published = (publications[k].action = "publish")]]
  /\ late' = IF Judged(k) THEN late \cup {k} ELSE late
  /\ UNCHANGED <<lock, idempotency, publications, op, reply, dispatches, bounds>>

Lost(k) ==
  /\ k \in pending
  /\ pending' = pending \ {k}
  /\ UNCHANGED <<page, late, lock, idempotency, publications, op, reply,
                 dispatches, bounds>>

\* Somebody edits, publishes or unpublishes a page.
Drift ==
  /\ drifts < MaxDrifts
  /\ drifts' = drifts + 1
  /\ \E g \in Pages, s \in Page : page' = [page EXCEPT ![g] = s]
  /\ UNCHANGED <<pending, late, lock, idempotency, publications, op, reply,
                 dispatches, faults>>

----------------------------------------------------------------------------

Proceed(p) ==
  \/ Read(p) \/ ReadThrows(p)
  \/ ClaimRefused(p) \/ ClaimBinds(p) \/ ClaimDirectory(p) \/ ClaimEvent(p)
  \/ Noop(p) \/ Dispatch(p) \/ Reread(p) \/ Settle(p)
  \/ ReplaySettled(p) \/ ReplayOpen(p)

Next ==
  \/ \E p \in Procs : Begin(p) \/ Proceed(p) \/ WriteFails(p) \/ ProcessDies(p)
  \/ \E k \in Keys : Land(k) \/ Lost(k)
  \/ OtherBinds \/ RemoveStaleLock \/ Drift

Spec == Init /\ [][Next]_vars
FairSpec == Spec /\ \A p \in Procs : WF_vars(Proceed(p))

----------------------------------------------------------------------------
(* Properties                                                              *)

\* Every variable has its type.
TypeOK ==
  /\ page \in [Pages -> Page]
  /\ pending \subseteq Keys /\ late \subseteq Keys
  /\ lock \in Procs \cup {Free, Stale}
  /\ idempotency \in [Keys -> {"unbound", "publication", "other"}]
  /\ publications \in [Keys -> Journal]
  /\ op \in [Procs -> Call \cup {Idle}]
  /\ reply \in [code : Codes, action : Actions \cup {"none"},
                page : Pages \cup {None}]
  /\ dispatches \in [Keys -> Nat]
  /\ drifts \in Nat /\ faults \in Nat

\* At most one process is inside a call, and it holds the lock.
LockHeld == \A p \in Procs : lock = p <=> op[p] # Idle

\* A key sends at most one request, over all replays, processes and deaths,
\* and none before its claim is on disk.  (publication.ts "no write is ever
\* retried".)
DispatchedOnce ==
  \A k \in Keys :
    /\ dispatches[k] <= 1
    /\ dispatches[k] = 1 => publications[k].state \notin {"NONE", "EMPTY"}

\* A no-op is journalled only for a key that never sent anything, also when
\* the outcome is reconciled by a replay after a crash.
NoopSilent ==
  \A k \in Keys : publications[k].state = "NOOP" => dispatches[k] = 0

\* A key keeps the operation it was bound to, and its journal the intent and
\* the baseline it was claimed with.
KeyKept ==
  [][\A k \in Keys :
       /\ idempotency[k] # "unbound" => idempotency'[k] = idempotency[k]
       /\ publications[k].state \notin {"NONE", "EMPTY"} =>
            publications'[k] =
              [publications[k] EXCEPT !.state = publications'[k].state]]_vars

\* With nobody else at work and no request that lands after it was judged,
\* a key's outcome is what the editor shows, and a success was its own.
Alone(k) ==
  \A j \in Keys \ {k} :
    dispatches[j] = 0 \/ publications[j].page # publications[k].page
OutcomeTrue ==
  drifts = 0 /\ late = {} /\ lock = Free =>
    \A k \in {j \in Keys : Alone(j)} :
      LET r == publications[k]
      IN /\ r.state \in {"SUCCEEDED", "NOOP"} => Desired(r.action, page[r.page])
         /\ r.state = "SUCCEEDED" => dispatches[k] = 1
         /\ r.state = "FAILED" => page[r.page].published = r.published

\* While no process has died and no durable write was refused, a call answered
\* with success leaves its page as asked for, whatever other keys did before,
\* until somebody acts again or a request lands after it was judged.
AnswerTrue ==
  /\ drifts = 0 /\ faults = 0 /\ late = {} /\ lock = Free
  /\ reply.code = "OK"
  => Desired(reply.action, page[reply.page])

\* Every call ends and gives the lock back, or its process dies.
LockReleased == \A p \in Procs : []<>(lock # p)

\* The controller implements MutationLedger: a claim event is an attempt,
\* the terminal state the verdict.
Verdict ==
  [NONE |-> "open", EMPTY |-> "open", CLAIMED |-> "open",
   SUCCEEDED |-> "applied", NOOP |-> "applied",
   FAILED |-> "failed", AMBIGUOUS |-> "failed"]
Ledger == INSTANCE MutationLedger WITH
  ChangeSets <- Keys,
  attempts <- [k \in Keys |-> IF publications[k].state \in {"NONE", "EMPTY"}
                             THEN {} ELSE {"apply"}],
  sent <- [k \in Keys |-> [apply |-> dispatches[k], rollback |-> 0,
                           recovery |-> 0]],
  verdict <- [k \in Keys |-> Verdict[publications[k].state]]

\* One request per claim, none after the outcome is journalled, and no
\* outcome revised.
FollowsLedger == Ledger!Spec
============================================================================
