# Verification of tilda-mcp

tilda-mcp is an MCP server that edits pages of the Tilda site builder through a
browser session.  A remote editor has no transactions, no version check on
save and no reliable acknowledgement; the server therefore splits every change
into `plan`, `apply`, `verify` and `rollback`, journals each step in files, and
never repeats a write whose outcome it does not know.  This directory holds a
TLA+ model of that machinery, TLC configurations that check it on small
instances, and TLAPS proofs of its main theorems.

Source paths below are relative to `src/src/`.

## 1. Inventory

| part | state it keeps | operations | interacts with |
|---|---|---|---|
| ChangeSet engine, `core/engine.ts` | none of its own | `query`, `plan`, `apply`, `verify`, `rollback` | store (journals, claims, lock), vault (material), adapters (the editor) |
| ChangeSet store, `core/store.ts` | `mutation.lock`; `changesets/<id>/NNNNNN.json` (append only); `snapshots/<id>.json`; `idempotency/<digest>.json`; `action-claims/<id>/<action>.json`; `publications/<digest>/` | `withMutationLock`, `createChangeSet`, `appendChangeSet`, `claimActionIdempotency`, `claimPublicationAction`, `appendPublicationAction` | shared by every server process with the same runtime directory |
| Volatile vault, `core/vault.ts` | a map from change set to request, baseline and plan, in memory | `put`, `get`, `has`, `delete` | engine; empty after a restart, on purpose |
| Publication controller, `core/publication.ts` | the `publications/` journals, through the store | `execute` (publish, unpublish) | store, a publication adapter; shares lock and idempotency keys with the engine |
| Task authority, `core/task-authority.ts` | a validated grant: targets, operations, expiry | guards in front of the engine and the publication controller | manager mints it, the service asks it before each call |
| Task authority manager, `core/task-authority-manager.ts`, `-reference.ts` | current grant, leases of running references, receipts of created pages | `mint`, `replace`, `clear`, reference create and clean-up | MCP service, browser authority |
| Adapters, `adapters/` (standard, t123, zero, page settings, page head code) | none | `read`, `plan` (pure), `apply`, `restore` | a session with the editor |
| Page lifecycle, `adapters/page-lifecycle.ts`; reference pages, `adapters/reference-page-lifecycle.ts` | attempts blocked after an ambiguous run; receipts | a fixed transaction: duplicate, compare, reorder, restore, clean up | browser authority, authority manager |
| Learning journal, `learning/journal.ts` | `entries/<target>-<key>-<0 or 1>-<state>.json`; lock directories per key and per target, each with an owner file | `claim`, `complete`, `fail`, `ambiguous` | learning workflow; shared by the processes of one machine |
| Learning workflow, providers, registry, `learning/` | the baseline and phase of a running lesson; a recipe file per capability and target | `learn`: before, after, replay, restore, register; `audit` | journal, adapter sessions, execution lease of the authority |
| MCP engine service, `mcp/engine-service.ts` | structural journal and receipts, in memory | one handler per tool | authority, engine, publication, lifecycles |
| MCP server, `mcp/server.ts` | none | tool schemas and registration | service |
| Browser authority, `control/browser-authority.ts` | session lease bound to account, route and page | reads and writes with a fresh binding | CDP session |
| Extension transport, `research/transports/` | stage and sequence of a bind transcript, the navigation under way, deadlines | broker and child exchange numbered requests; cleanup of the tab | browser extension, child process |
| CDP client, browser session, `research/` | pending requests by id; the document in the tab | fixed visits, probes and commands, each with a time-out | browser, editor |
| Lab transaction, observatory, `research/` | gate of one lab write, running trace | begin, authorise, accept, roll back | browser session |
| Research tooling, `research/` | none | inventory, sanitising, hashing, configuration | files |

### Which behaviours are hard

* **The unknown outcome.**  A write that threw may have been executed.  It may
  be sent once only, over retries with the same key, with other keys, from
  other processes and after restarts, and its outcome is established by
  reading.
* **Two files that cannot be written together.**  A change set's first event
  and its key's mapping; a key's mapping and the action claim.  A crash or a
  refused write falls between them.
* **Records the store refuses.**  The store validates every record the engine
  builds.  When it refuses one after the remote write, what happened cannot be
  journalled.
* **The vault.**  The content needed to restore a page exists only in the
  memory of the process that planned.
* **The request given up for lost.**  Tilda may execute a request after its
  sender stopped waiting for it, also after the engine has looked at the page
  and found it unchanged.
* **Foreign edits.**  Somebody else edits the page between any two reads.
* **A mark left behind.**  A lesson writes a mark into a live object and takes
  it back; when it dies or loses a write in between, nobody may learn on that
  object.
* **A command given up for lost.**  A command that is not answered in time goes
  on running in the document: it may be carried out after the call has begun to
  undo it, and a navigation may land after the tab was given back.
* **A capture of a moving account.**  An inventory is read page by page while
  the account may change.
* **A compensation with its own guards.**  What undoes a failed transaction
  goes through the checks every change goes through, and may be refused.
* **The lock.**  One file, created exclusively, removed in a `finally` block,
  left behind by a process that dies.

### What makes each part correct

* engine and store: each remote write at most once and only under its claim;
  every journalled outcome rests on a claim; while nobody else edits the page, a
  journalled success is true whatever becomes of lost requests, and a journalled
  return to the baseline until such a request of the same change set is
  executed; an outcome is never refused by the store;
* vault: material is forgotten only when it is certainly of no more use;
* publication controller: one dispatch per key, success only after it was seen;
* authority: no call outside the current grant, no change of grant while a
  call runs under it, a receipt for the pending clone until its cleanup has been
  tried;
* journals of the learning side: one owner of a lesson, no lost finish;
* browser session and page lifecycles: a command is posted once, a reported
  round trip left nothing behind, a form save changes its field only, a receipt
  stands for a clone that is there;
* Zero model: what the writer accepts it also takes back;
* transports: the tab the user had open is given back whatever fails, what is
  bound existed at one moment, and every run ends.

The hazards, each with the line where it bites, are in `PROJECT.json`.

## 2. Plan

In order of importance; the modules marked done are in this directory.

1. `ChangeSetEngine` (done): engine, store and vault with crashes, several
   processes, refused writes and foreign edits; `MutationLedger` (done), its
   abstract specification; `ChangeSetEngineProofs` and `EngineOutcomeProofs`
   (done).
2. `Publication` (done): claim, dispatch, bounded rereads, replay; it
   implements `MutationLedger` too; `PublicationProofs` (done).
3. `TaskAuthority` (done): mint, replace, clear and expiry against running
   leases, sessions and reference receipts; `PinnedGrant` (done), its abstract
   specification; `TaskAuthorityProofs` (done).
4. `LearningJournal` (done), claims under two locks, with `ExecutionLedger`
   (done), its abstract specification, and `LearningProofs` (done);
   `CapabilityLearning` (done), one lesson over the journal, with its proofs in
   `LearningProofs`.
5. `EditorSession` and `PageLifecycle` (done): the tab, the lease and the fixed
   commands; the round trip with its compensation, the clone of a reference page
   with its cleanup, the known template, the structural journal and the
   receipts; `PageLifecycleProofs` (done).
6. `BindBroker` (done): broker, pipes, bind child and tab with every time-out;
   `BindBrokerProofs` (done).
7. `ZeroModel` (done): the plans of the Zero adapter against the transitions the
   writer accepts; `ZeroModelProofs` (done).
8. Composition, left: engine and publication over one store (one lock, one set
   of keys); the authority's guard over the engine.
9. Pure algorithms, left: the field plans of standard blocks and T123.

## 3. The modules

### ChangeSetEngine

| variable | stands for |
|---|---|
| `editor` | hash of the page's present content; all change sets of an instance have this one target |
| `pending` | requests given up for lost that Tilda may still execute |
| `late` | history: change sets with a request executed after a look at the target that was relied on (`Judged`) |
| `lock` | `mutation.lock`: `Free`, its holder, or `Stale` when the holder died |
| `journal` | the last event of each change set (all that the code looks at) |
| `idempotency` | `idempotency/<digest>.json` |
| `actionClaims` | `action-claims/<id>/<action>.json` |
| `snapshots` | which snapshot files exist |
| `vault` | the material in each process's memory |
| `op` | the running call of each process: kind, step, arguments and what it has read |
| `reply` | how the last call ended |
| `writes` | history: how often each remote write was sent |

A call is a sequence of steps separated by its awaits and by its durable
writes, so a crash, a foreign edit or a failing write can fall between any two
of them:

* `plan`: `PlanBegin`, `Read`, `PlanSnapshot`, `PlanEvent`, `PlanBind`, with
  `PlanConflict` and `PlanWriteFails` for the two nested catch blocks;
* `apply`: `ApplyBegin`, `Read`, then `ApplyReplay` for a claimed attempt, or
  `ApplyStale`, or `ApplyPermit`, `ClaimAction`, `ApplyGuard`, `ApplyWrite`,
  `ApplyReread`, `Diagnose`, `ApplySettle`; an acknowledged write that shows a
  third hash goes through `ApplyMismatch`, the restore steps and
  `RecoverySettle`;
* `rollback`: `RollbackBegin`, `Read`, then `RollbackReplay`, `RollbackStale`
  or `RollbackPermit`, `ClaimAction`, the restore steps, `RollbackSettle`;
* `verify`: `VerifyBegin`, `Read`, `VerifySettle`.

`Conclude` is `appendChangeSet`: it takes the record, or refuses it when it is
not `Accepted`, and the call ends with `STATE_CORRUPT`.  In the model that code
stands for every refusal by the store.  `Send` lets the editor end up with any
hash, with or without an acknowledgement, or leaves the request under way when
its sender stops waiting; `Land` executes such a request at any later time, or
never, and then too the editor may end up with any hash.  An acknowledged
request is taken to be over, since every adapter awaits the editor's answer.
`Drift` is an edit by another session.  The change sets in `HeadCode` use
the page HEAD code adapter, which throws its own code instead of returning a
state it did not intend.

A call the code refuses before it reads the page changes nothing and is not an
action; so are dry runs.  Left out: time stamps, content beyond its hash,
revisions (a moved revision under an equal hash is the nondeterminism of
`ApplyStale` and `ApplyGuard`), `reconciliationCode`, torn journal directories.

### Publication

| variable | stands for |
|---|---|
| `page` | what the editor says of each page: published or not, and its `changed` stamp |
| `pending` | requests that left the server and have not taken effect yet |
| `lock`, `idempotency` | as above; `idempotency` holds what a key is bound to: nothing, a publication, something else |
| `publications` | the last event of each `publications/<digest>/`; `EMPTY` is a directory without an event |
| `op`, `reply` | the running call of each process, and how the last call ended |
| `dispatches`, `late` | history: requests sent under each key; keys whose request landed after its outcome was read |

A call is `Begin`, `Read`, then the claim: `ClaimRefused`, or `ClaimBinds`,
`ClaimDirectory`, `ClaimEvent` (three durable steps a death can separate), or
the replay of a journal that is there (`ReplaySettled`, `ReplayOpen`).  A new
claim continues with `Noop`, or with `Dispatch`, `Reread` up to `Rereads + 1`
times, and `Settle`.  A request travels on its own: `Land` may come at any
time after `Dispatch`, also after the caller died or gave up, or never
(`Lost`).  `Classify` is the three-way reading of the reread loop; the order of
its first two cases matters and is the code's.

Left out: time stamps (an event refused because the clock stepped back is a
`WriteFails`), failure and reconciliation codes in the journal, the public
page verifier.

### TaskAuthority

| variable | stands for |
|---|---|
| `active`, `pending`, `revocation` | the manager's grant with its guard, the clone whose receipt it waits for, the token of the guard that is not revoked |
| `refLease`, `dispatchLease`, `execLease` | the manager's three leases, by the call that holds them |
| `browser` | the call that owns the one browser session (`activeProcessLeaseToken`) |
| `receipts` | the lineage of each clone whose receipt has not been consumed |
| `planned` | the task named by each change set's record |
| `op` | the running calls: kind, step, the guard the call took, the guard its session was bound to, what it captured |
| `live`, `wire` | the account's pages, and requests that left and have not taken effect |
| `made` | history: clones ever asked for |
| `now`, `minted`, `drifts` | the clock, tokens used, foreign changes of the pages |

A call goes on where its code resumes after an await.  Authorising captures
the account's binding (`BeginCapture`, `Capture`) and then, in one go, clears,
mints or replaces (`AuthorizeRefused`, `AuthorizeInvalid`, `Authorize`).  A
plan, a change (apply or rollback) or a publication opens sessions one after
the other (`OpenSession`, `Bind`, `LeaveSession`, `CloseSession`), and in a
session starts a remote transaction (`Dispatch`, `EndFlight`).  `Dispatch` is
the check at the last moment.  Creating and cleaning up a clone goes through
`BeginCreate` or `BeginCleanup`, `SendCreate` or `SendCleanup`, `Answer` and
`Accept`, which binds the grant to the new pages; `Reject` stands for every way
this can fail.  `Clear`, `Dropped` and `Expired` are the three ways a grant
goes, each with the leases that forbid it.

A token is a number; a guard is known by its token, a task by the token of its
first guard.  The scopes a user grants are reduced to what they allow, `edit`,
`publish` and `reference`; account and inventory hash are the set of pages.
Everything but the editor is lost with the process, so a restart is `Init`
with the pages as they are.  A session that closes and the rebinding after it
run without another call in between.  Gaps between a call's sessions are real
for a publication (its rereads wait) and an over-approximation for a change.
The clock never steps back.  The journal of structural keys is in
`PageLifecycle`.

`PinnedGrant` is the promise: the grant stays the same grant for as long as
anybody executes a task or runs a remote transaction under it.

### LearningJournal

| variable | stands for |
|---|---|
| `entries` | the files under `entries/`: identity and state from the name, and whether a reader accepts the content |
| `keyLocks`, `targetLocks` | the lock directories: free, held by a process, or stale (without an owner file, or its owner died) |
| `pc`, `req`, `outcome` | what each process is doing, for which request, and the final state it writes |

`claim` is `Call` (the first scan), `LockKey`, `LockTarget`, `Rescan`,
`CreateClaim` and `WriteClaim`; the refusals and failures on the way are
`KeyBusy`, `TargetBusy`, `LockKeyBare`, `LockTargetBare`, `Rescan`'s second
case and `ClaimFails`.  A file is created and written in two steps, as
`writeExclusive` does it, so a process can die between them (`Abandon`).
`Finish`, `WriteFinal`, `ReleaseKey` and `ReleaseTarget` are the three ways to
end a claim.  A scan is one step, because entries are only added and a file
that is not complete cannot be parsed.  The 10 000 files the journal admits are
`MaxEntries`.  An entry that was created and not written makes every later scan
fail, for every key and target (`Sound`).  Left out: paths and redirects, hashes, time stamps (a final
entry older than its claim is an unreadable one).

`ExecutionLedger` is the promise: a key is claimed once, and a target only
while everything ever claimed on it has ended safely.

### CapabilityLearning

Adds to `LearningJournal`, whose variables and steps it uses as they are:

| variable | stands for |
|---|---|
| `content` | what was done to each object, which determines its hash, and whose marks it carries |
| `late` | writes given up for lost that may still land |
| `registry` | the recipe file of each target and capability: none, truncated, whole |
| `at`, `before`, `recovering` | how far each lesson is in `Script`, its baseline, whether it is restoring after a failure |
| `valid` | the grant the call was pinned to is still in force |
| `told`, `landed` | history: keys answered with `stateChanged: false`; keys whose mark landed late |

`Script` is the sequence of reads and writes of the four phases.  `Capture`,
`Reread`, `Save` and `Inspect` are its steps; `Throw` is a session that cannot
be opened, a read that is lost, or a lapsed grant, which the workflow notices
before and after each phase and the session at every opening.  `Fail` is the
`catch` block of `#learnPinned`: nothing to restore before the capture, one
restore after it, and an ambiguous ending when that restore fails.  `Lookup`,
`Register` and `RegisterFails` are the recipe file.  `Settle` ends the claim
and answers; where the final entry cannot be created, the answer is the same
and the claim stays in flight.  A marker is computed from the hash of the
baseline, so two lessons on one baseline write the same mark; comparisons are
of hashes (`SameHash`), and whose mark it is is history.

Left out: the widths of deltas, evidence and traces, dry runs, the execution
lease (in `TaskAuthority`), the in-memory registry, the audit.  A journal of
several targets is covered by the proofs of `LearningJournal`.

### EditorSession and PageLifecycle

`EditorSession` declares the state and what every call does; `PageLifecycle`
adds the calls on the page list, and the specification.

| variable | stands for |
|---|---|
| `order`, `page`, `fresh` | the project on the server: its page list, and of each page the edited field, all the rest, and whether it is published; the next page id |
| `wire` | requests a document has posted and the server has not carried out |
| `tab` | the document in the tab: which one, the page list it showed when it was loaded, the form it holds |
| `u` | the call that holds the lease: kind, step, what it has read, whether it failed, the commands it has sent |
| `lifecycle` | keys of the round trip: running, blocked after a failure, done |
| `structural`, `receipts` | the service's structural journal, and the clones whose cleanup nobody has begun |
| `calls`, `faults`, `drifts` | counters of the bounds |

A call is a `Script` of steps.  A visit loads a document and checks it
(`SaveVisit`, `Visit`, `File`); a command looks once more inside the document
and posts a request (`SendSave`, `Send`).  The server carries requests out
when it pleases (`LandSave`, `LandList`, `LandDuplicate`, `LandAdd`) or refuses
them (`Refuse`), with any status, since the code reads only whether it is 2xx.
`Lapse` is the time-out of a command: the call goes on as failed, the request
stays.  `Look`, `Relook`, `Compensate` and `Compensated` are the `finally`
block of `executePageLifecycle`: read the project, sort back if the order is
not source before clone, read again, delete the clone; a command the call has tried
before its failure is not tried again.  `Shut`, `RestoreRoot` and `Close` give the tab back,
`Rebind` is the manager's rebinding, `End` the journal's last entry.
`StepFails`, `LookFails`, `CloseFails`, `RebindFails` and `Crash` are failures
of our side; `Drift` is a colleague, `UserRestores` whoever sits at the tab;
`Busy` is a call that finds the lease taken.

A sort takes the clone out of the list and puts it behind its source, a delete
takes it out.  The editor's list names every page once, so `RemoveFirst` takes
out all of it; that the list stays so under every interleaving is proved
(`PagesListedOnce`).

The saves are those of a standard record, T123, Zero, settings, HEAD code and
publication: a record and a page's code travel field by field, settings and a
Zero model as a whole form.  Left out: what a form contains beyond "the field"
and "the rest", the evidence a call returns, the parsing of documents.

### BindBroker

| variable | stands for |
|---|---|
| `account` | the version of what each place (root, projects, identity) of the editor shows |
| `tab`, `flights`, `returning`, `pending` | where the claimed tab is, navigations of handlers still under way, the cleanup's own, and `context.pendingNavigation` |
| `requests`, `responses`, `shut` | the two pipes, and whether the broker closed its end |
| `stage`, `served`, `index`, `twoPass`, `at`, `request`, `answer` | the serve loop: expected operation, last number, expected project, and the handler's step |
| `child`, `step`, `sent`, `seen`, `failed`, `progress`, `output` | the bind child: its step in the two passes, what each read gave, the progress it wrote and what it printed |
| `run`, `lifecycle`, `primary`, `unrestored`, `transcript`, `result` | `runExtensionBindBroker`: phase, failure noted first, whether the restore failed, whether the transcript was complete, what it returns |
| `middle` | history: the account at the end of the first pass |

The child sends (`ChildSend`), receives (`ChildReceive`), runs out of time
before a read (`ChildDeadline`), breaks off for good (`ChildAborts`), derives
and prints (`ChildDerives`), ends (`ChildExits`) or dies (`ChildDies`).  The
broker receives and checks the number and the stage (`Receive`,
`ReceiveFails`), looks where the tab is and navigates if it has to (`Look`),
waits (`Settles`, or `HandlerFails` when the time is up and the navigation goes
on), evaluates the probe (`Probe`) and answers (`Reply`, `Refuse`,
`SendFails`).  The run ends with `ProtocolCompletes`, `ServeFails`,
`LifecycleFails` or `OverallTimeout`; then the output is judged (`Admit`,
`AdmitExpired`) and the tab brought back: `Cleanup` waits for the navigation
that was noted (`CleanupSettled`, `CleanupUnsettled`), `CleanupLook`,
`CleanupReturns`, `CleanupProbe`, `CleanupFails`.  `Following` and
`CheckEvent` are the state machine over the child's progress, and `Checked` runs
it over the whole report.

Left out: lines and bytes of the pipes, the contents of the probes (a version
stands for them), the environment of the child, diagnostics beyond which
failure came first, output too long.  Every change of the account gives a new
version: that something changes and changes back between two reads is not
told apart, neither by the code.

### ZeroModel

| variable | stands for |
|---|---|
| `model` | the elements of a Zero block: key to identity, type and fields |
| `last` | the write that could be rolled back |

`Plans` are the four plans of `adapters/zero.ts` (`PlanProperty`, `PlanLink`,
`PlanResponsive`, `PlanClone`); `Accepted` is
`assertSupportedZeroTransition` (`Patched`, `Cloned`, `Removed`).  `Apply`
plans and writes what is accepted, `Rollback` writes the snapshot back if that
is accepted.  The three geometry fields are one; numerals as geometry are left
out.

### MutationLedger

The promise without its mechanism: attempts, sent writes and verdicts.  An
action is attempted once; a write is sent once, and only while its attempt has
no verdict; a verdict needs its attempt and is never taken back.
`ChangeSetEngine` implements it: a claim file is an attempt, the journal's
state is the verdict.  `Publication` implements it with its keys in place of
change sets: a claim event is the attempt.

## 4. The runs

| run | instance | shows |
|---|---|---|
| `engine_one` | 1 change set, 2 processes, 2 keys, 3 hashes, 1 foreign edit, 2 faults | types, single writes, material, accepted outcomes, truthful journal, refinement of the ledger |
| `engine_two` | 2 change sets (one HEAD code), 1 process, 1 key, 3 hashes, 1 fault | a key shared between plans, actions and change sets; every call ends and removes the lock |
| `engine_verify` | 1 change set, 1 process, no faults | a finding below |
| `publication_safe` | 2 keys, 1 page, 2 processes, 2 stamps, 2 delayed rereads, 1 foreign edit, 2 faults | types, one request per key, true outcomes and answers, refinement of the ledger |
| `publication_live` | 1 key, 1 process, 1 foreign edit, 1 fault | every call ends and removes the lock |
| `taskauthority` | 2 calls, 2 tokens, 1 clone, 1 foreign change of the pages, a grant of every kind, 1 tick | types, receipts that fit the pending clone, remote transactions under their own grant, rebindings that keep their task, refinement of `PinnedGrant`, every call ends |
| `learning_safe` | 2 processes, 2 keys, 1 target, 1 capability, 4 files, 1 foreign edit | types, claims durable while running, marks quarantined, true answers, recipes of completed lessons, refinement of `ExecutionLedger`, every lesson ends |
| `learning_late` | 1 process, 1 key | a finding below |
| `bind_broker` | 2 projects, 1 change of the account | types, the tab given back, one navigation at a time, what is bound existed, own output admitted, every run ends |
| `page_lifecycle` | 2 calls of any kind, 2 keys, 3 pages, 1 fault, 1 change by somebody else | types, commands posted once, round trips that restore, saves that change their field only, receipts of real clones, every call ends |
| `page_lifecycle_undo` | 1 round trip, 1 fault | a finding below |
| `zero_undo` | 3 keys, 3 identities, 5 values and null | a finding below |

Bounds.  Three hashes are the baseline, the planned content and anything else;
the code compares with the first two only.  Two keys are the caller's own and
another one.  Two processes are the planner and one without its material; the
lock admits one call at a time, so a third behaves as the second.  Requests
given up for lost need no bound: a change set sends three at most.  Two faults
allow a crash or refused write in the attempt and one in its replay.  Change
set ids, keys, foreign edits (`MaxDrifts`) and faults (`MaxFaults`) are finite.

In `Publication` the code's five delays are the constant `Rereads`, here two:
the loop forgets all but the last reading, so a further round repeats one that
is there.  Two keys publish and unpublish one page against each other; two
stamps are the claim's and another.  `OutcomeTrue` speaks of a key whose page
no other key sent a request for, of runs without a foreign edit, and of
requests that landed before their outcome was read: outside these the code
promises nothing, because the editor's state says nothing about whose request
it came from.

In `TaskAuthority` two tokens are a grant and the one that replaces it, or the
one it is rebound to; one clone is the pending one, and the foreign page a
change of the pages that is none.  One tick takes a grant past its expiry.  Two
calls show what an authorisation, an expiry or a rebinding does to a call under
way; what three do to each other is left to the proofs, which are for any
number.

In `LearningJournal` every process competes for one key and one target at a
time, so two of them meet in every way two can; two targets and three keys let
a key come back with another target, after an execution that ended and beside
one that did not.  In `CapabilityLearning` all keys learn the same capability of
the same object: one lesson leaves what it leaves, and the second finds it.  One foreign edit is enough to make a hash that is
neither baseline nor test state.

In `BindBroker` two projects are one that is followed by another and one that
is followed by the next pass; one change of the account can fall between any
two reads, and every time-out, refusal and death is possible at every step.
In `PageLifecycle` the second call meets what the first one left behind: its
requests on the wire, its receipt, its blocked key, the tab where it was left.
One fault and one foreign change show each failure by itself and beside a
colleague; three pages are the source and the clones of two calls.  In
`ZeroModel` two values of a kind are before and after, three keys admit a
clone of a model of two.

Deadlock is not checked: ids are used up, a failed change set without a single
safe expectation admits no further call, and the server may rest for ever.

Fairness.  `FairSpec` is weakly fair in `Proceed(p)`, what a running call does
next: an `async` function whose awaited promise has settled is resumed by the
event loop, and each awaited browser call is bounded by a time-out.  The reread
loop of a publication is bounded by its list of delays, and an engine call
opens a fixed number of sessions (`Sessions`).  A lesson has a fixed script and
restores once.  `BindBroker` is weakly fair in `RunStep`, the broker's own run:
each of its waits has a time limit, the overall one and the cleanup's;
nothing is assumed of the child, the handlers or the browser.  `PageLifecycle`
is weakly fair in `CallStep`, which includes `Lapse`: every command of
`research/cdp-client.ts` has a time-out; nothing is assumed of the server.
Nothing is assumed of callers, of faults or of whoever removes a stale lock.

### What a diagnostic reread proves

When a write throws, the engine looks once, at once, and journals
`APPLY_FAILED_UNCHANGED`, "a diagnostic reread proved no change", if it finds
the baseline (`core/engine.ts:366-380`); the material goes with it.  The
request may be executed after that look, with no other editor at all.  The
page is then changed, the journal says it is not, and a rollback is refused,
because the material is gone.  The same holds for a rollback that found the
baseline in place, and for a recovery.  The engine
cannot prevent it, and no run reports it as a finding; `JournalTruthful` excepts
exactly these change sets (`late`), for their baseline outcomes only.  Without
that exception TLC finds the sequence in `engine_one`, without a foreign edit.
A success has no exception: the planned content is there only after the one
write was executed, and then nothing is left that could be executed late.

### Findings

`engine_verify`: when the page of an applied, verified or rolled-back change
set has drifted, `verify` builds a record of the same state whose verification
is not exact.  The store does not take such a record
(`core/store.ts:336-351`), so the caller gets `STATE_CORRUPT` and the journal
no event, and the `VERIFICATION_FAILED` answer of `core/engine.ts:456` is
reached for planned and failed change sets only.

`learning_late`: when the write of a mark is not acknowledged, the restore
reads the object at once, finds the baseline and settles the lesson as a
"safely restored failure" (`learning/workflow.ts:338`).  If the write lands
after that read, the mark stays and the target is open to the next lesson.
`MarksQuarantined` and `UnchangedTrue` therefore except marks that landed late.

`page_lifecycle_undo`: when the round trip fails after it moved the clone, the
compensation reads the page order, sorts the pages back and then deletes with
the order it read before (`research/browser-session.ts:2643-2667`).  The
document compares that with the order it shows now and refuses, so the clone
stays although nothing went wrong during the cleanup.

`zero_undo`: the writer admits a string link in place of one that was null or a
number, and a `left-res-480` on a shape that had none
(`control/browser-authority.ts:918-939`), but not the way back.  The rollback
writes the snapshot through the same writer, so such a change set cannot be
rolled back.  `NarrowStays` is the general fact, `PatchUndoable` and
`CloneUndoable` say which changes are not affected.

## 5. The proofs

`ChangeSetEngineProofs` proves, for all sets of change sets, keys, processes
and hashes and all bounds, under `ConstantsAssumption` (the special values
differ from the ordinary ones) only:

`TypeCorrect`, `LockCorrect`, `NeverSentTwice`, `OutcomesClaimed`,
`SnapshotsKept`, `KeysAuthoriseOnce` and `ImplementsLedger`.

None of these invariants is inductive alone.  A write is sent in the middle of
a call, and that it is the first one is known from what the call saw at its
start.  `IInv` adds two layers to `TypeOK` and `LockHeld`:

* `Durable`: what the files always satisfy, between and during calls: the
  properties themselves, that a claim's key is bound to that action of that
  change set (`KeyBound`), and that claims and writes exist for journalled
  change sets only (`PlannedFirst`);
* `Local(p)`: what a call has established by its step: `InPlan`, `InApply`,
  `InRollback` and `InVerify` say which claims, states and write counts each
  program point implies.

Since only the lock's holder moves, a step of one process leaves the `Local`
of the others alone (`Sole`, `IdleLocal`).  Each action has a lemma; the
temporal theorems combine them.  The refinement is proved step by step: each
action is a ledger step or a stutter under the mapping.

`EngineOutcomeProofs` builds four more invariants on `IInv`, for the properties
that relate the journal to the target, to the private material and to the plan
keys:

* `OutcomesAccepted`.  `Plannable`: a planned change has a hash of its own,
  which the editor can show, and nothing is applied before it is planned.  With
  it the records that apply and rollback build (`BuiltRecords`) meet every rule
  of the store, so that the call never ends in `STATE_CORRUPT`.
* `MaterialAlwaysKept`.  `Keeping`, an action property of each step: a
  conclusion forgets only together with the event it appends.
* `PlanScansUnambiguous`.  `Scannable`: no two journals carry one unmapped key,
  and none carries the key of a plan that has not journalled its event.  A plan
  looks first and holds the lock until it has journalled.
* `JournalAlwaysTruthful`.  `Truthful`: while nobody else edits, and for a change
  set that is alone at work, what the running call has read last is what the
  target holds unless a request of that change set was executed since (`Sees`),
  and what the journal says of it is true (`Told`).  A planned change says
  nothing of its target, and of an applied one nothing is said once its rollback
  is claimed: the claim goes before the write, so that no write meets a journal
  that still speaks.  For a success to be true without an exception, nothing
  may be under way when it is journalled.  `Waits`: as long as the write or its
  recovery is under way, the target does not show the planned content, because
  it was sent when the target showed something else, and nothing else is
  executed before it lands; so an apply that sees the planned content knows that
  nothing is to come (`Knows`).  Behind this is `Wired`: what is under way was
  sent, and never a write together with its recovery, since a recovery is sent
  only after the write was acknowledged.  `Based` adds that a baseline is a hash
  that was read, never the absent one of a reread that failed.

`PublicationProofs` proves, for all sets of keys, processes, pages and stamps
and every number of rereads: `TypeCorrect`, `LockCorrect`, `RequestSentOnce`,
`NoopsSilent`, `KeysKept`, `OutcomesTrue`, `AnswersTrue` and
`ImplementsLedger`.  `TypeOK` alone is not
inductive: the claim event copies what was read, so a call must have read
first.  `IInv` adds to `TypeOK` and `LockHeld` for every key `KeyOK` (a sent
request rests on a journalled claim whose baseline was not the desired state,
and a journal implies its key's mapping) and for every process `Local` (what
its step relies on: the claim it dispatches under is open, unsent, and has the
call's own action and baseline).  `NoopSilent` follows from the baseline in
`KeyOK`: a replay calls it a no-op only if the baseline was already desired,
and then nothing was sent.  `OutcomesTrue` adds `Placed` (a request on its way
was sent, a call that acts has its own open claim) and `Truthful`: for a key
that has its page to itself (`Clear`), what the call has read is what the page
holds, and what the journal says of it is true.  A request that lands finds its
claim open and its call still rereading, or it is late.  `AnswersTrue` needs no
key to be alone, but no fault either: in `Answered`, an open request belongs to
the call that is still rereading it, so nothing lands after a call has ended.

`TaskAuthorityProofs` proves, for all sets of calls, change sets, pages, scopes
and lifetimes, under `ConstantsAssumption` and `NoneAssumption`: `TypeCorrect`,
`LeasesCorrect`, `WritesGranted`, `ReceiptsPending`, `RebindingKeepsTask`,
`PendingsKept` and `ImplementsPinnedGrant`.  `IInv` adds to the checked
invariants that old tokens are never met again (`GrantOK`, and `Known` for
every session), that clones among the pages were asked for (`EditorOK`), and
what each call relies on at its step (`Shape`, `Relies`).  A session's guard
that is still valid at `Dispatch` is therefore the grant in force itself.  A
grant changes only when nobody holds an execution or dispatch lease
(`NobodyRelies`), so those who do keep what they rely on; and since one call
has the browser, the rebinding of a clone disturbs no other clone.

`LearningProofs` proves, for all sets of processes, keys, targets,
capabilities and lineages: `TypeCorrect`, `ExecutesAlone`, `ClaimsDurable`,
`KeysNameOne` and `ImplementsLedger`.  `IInv` adds `LocksOwned` (a process past
`mkdir` is the one its lock directories name) and `Progress` (what the entries
hold of a call at its step).  What the second scan found stays true up to the
claim because only the holder of a key's lock adds entries under it, and only
the holder of a target's lock adds a claim on it.

The same module proves the lesson that runs over the journal, under
`EditAssumption` and `NoneAssumption` (no object is the special value) as well:
`LessonsTypeCorrect`, `MarksAlwaysQuarantined`, `UnchangedStaysTrue` and
`CompletedHaveRecipes`.  A lesson does with the journal only what the journal
allows (`LessonsKeepJournal`), so `IInv` and the ledger carry over
(`LessonsImplementLedger`), and the invariant `LInv` adds to them:

* `Guarded`: every mark on an object, late ones apart, is of an execution that
  is in flight or ambiguous on that very object.  Since `IInv` leaves room for
  one such execution only, a lesson that runs knows whose mark it can meet:
  its own;
* `InLesson`: what a lesson knows of its object at its step.  The baseline
  carried late marks only; its own mark is there only after it prepared one,
  and then the object is longer than the baseline, whatever others append, so
  that a comparison with the baseline cannot succeed while the mark stands; the
  recipe file is where the script has got to;
* `ToldTrue` and `Recipes`: what was answered of an unchanged object, and the
  recipe of a completed execution, outlive the call.

`BindBrokerProofs` proves, for every number of projects and of changes of the
account, under `BrokerAssumption` and, for the last, `EventAssumption` (the
special value is no event): `TypeCorrect`, `NavigationAlwaysTracked`,
`TabGivenBack`, `BoundAccountExisted` and `OutputAlwaysAdmitted`.  `Typed` strengthens `TypeOK` by the
range of the child's step and number.  `Travelling` says where a navigation can
be under way: at most one request or answer is in the pipes (`Exchange`), so
that a second handler never starts while one is given up, and a navigation
heads for the place that was noted (`Heading`).  `TabGivenBack` follows with
`Returned`: the restore begins when the channel is shut, so that no handler
starts another navigation, and when none is under way but to the root, and it
succeeds only at the root.  `Faithful` relates what
the child has seen to the account: versions only grow (`Grown`), the request
being answered is the one the child waits for (`InStep`), the tab is where the
probe is evaluated (`Located`), what was seen in the first pass is not newer
and what was seen in the second not older than the account between the passes
(`Kept`, `RootKept`); a child that prints a binding has both passes complete
and equal (`Complete`, `Printed`).

`OutputAlwaysAdmitted` is about what the broker's checks find of a whole report.
They are a recursive function over the report, and no induction over it is
needed: a report grows by one event at a time, and one more event is one more
check (`CheckedAppend`), provided that the function exists for the report so
far, which is part of the invariant (`Judged`).  With that, `InOrderSoFar` says
what the strict and the lenient checks have found of an undisturbed script at
each of its steps (`Before`, `During`); the two lemmas behind it, `CheckStarted`
and `CheckCompleted`, say that the broker's table of phases is the child's
script.  `AstraySoFar` says what the lenient checks have found of a disturbed
one: anything until the way back begins, and one thing after it ended.  A run
asks for the output only when the child's last request was answered (`Closing`),
so a report that was broken off earlier is never judged.

`PageLifecycleProofs` proves `SavesAlwaysWhatItSaw` for every number of calls,
pages, faults and changes by others: `WireChecked`, that a form on the wire
was compared with what the call had seen when it was posted, is inductive.
It proves `EachCommandPostedOnce` too.  No script repeats a step (`Orderly`); a
call that goes well stands at one place of its script and has sent commands from
before that place only (`Going`); one that has failed sends only what it has
not tried (`Failing`), and whatever was sent counts as tried (`Tried`).  The
conjunction, `Posted`, is inductive.

`PagesListedOnce`, `PagesTypeCorrect`, `RoundTripsRestore` and
`ReceiptsStayTrue` rest on `PInv`, which adds to `Posted` the types (`Typed`) and
`Pages`, under `BoundsAssumption` and `NoneAssumption`:

* ids are handed out in order and every page is listed once (`ListOK`);
* the page a call made is its own: no receipt is for it (`Own`), and nothing on
  the wire deletes a page that was made for keeps (`WireOK`);
* a call that goes well has at most one request under way, the one it waits for
  (`OneOnWire`), so a command it has not sent cannot land behind its back;
* a round trip that has seen its clone gone finds it gone ever after, because
  ids are not used twice (`GoneOK`); a clone made for keeps stays as it was when
  it was compared (`CloneOK`, `ReceiptsOK`), as long as nobody else deletes it.

The steps of the server and of a colleague are reduced to what they may do to the
list and the pages (`ServerMoves`); every part of `Pages` is shown stable under
that once, and not once for each of those actions.

`ZeroModelProofs` proves for every set of values, fields and identities that
identities and types are kept (`IdentityAlwaysKept`), that a clone and a patch
within a kind can be undone (`CloneUndoable`, `PatchUndoable`), and that a
narrow position, once given, stays (`NarrowStays`).

Some of the proved properties are stated in no run, because a proof for all
values says more than the instance would: `LockHeld`, `OutcomeClaimed` and
`SnapshotKept` of the engine, `LockHeld`, `NoopSilent` and `KeyKept` of the
publication controller, `LeasesHeld` and `PendingKept` of the authority,
`TypeOK`, `Alone` and `KeyNamesOne` of the learning journal, `IdentityKept` of
the Zero model.

Every invariant and every action property of the runs is proved.  Checked by TLC
only: the liveness properties `LockReleased`, `CallsEnd`, `LessonsEnd` and
`RunEnds`, which are out of the proof system's reach, and the four properties of
section 4 that the code violates.

## 6. Not modelled

* The files below one journalled event (`core/store.ts`: temporary file, link,
  fsync, directory): an event is one atomic step.  A torn directory is answered
  `STATE_CORRUPT`, which is the safe side, and no part of the code repairs it.
* `research/lab-transaction.ts` and `research/observatory.ts`: no other file of
  `src/src` imports them.
* `core/standard-field-safety.ts`, the schema and code helpers of the adapters,
  the sanitiser, hashing, configuration, the read-only probes and their parsing:
  pure functions and I/O without state.
* `mcp/server.ts`: schemas and the wiring of tools to handlers.
* Launching a browser, the read-only lease of the browser authority, the audit
  of learning, and the public page verifier: they change nothing.
* The two change sets, a publication and a lesson that could meet in one
  account: each component is checked with its own callers, and the refinements
  (`MutationLedger`, `PinnedGrant`, `ExecutionLedger`) say what it promises the
  others.

The components in `PROJECT.json` list every part with its status.
