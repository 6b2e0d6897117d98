--------------------------- MODULE TaskAuthority ---------------------------
(***************************************************************************)
(* The one task authority of a server process (core/task-authority*.ts),   *)
(* the calls that use it (mcp/engine-service.ts) and the one browser       *)
(* session they share (control/browser-authority.ts).                      *)
(*                                                                         *)
(* Calls interleave wherever the code awaits.  A grant is bound to the     *)
(* pages of the account as they were captured; a session is bound to the   *)
(* grant it was opened under and to the pages it found.  Creating and      *)
(* cleaning up a reference page changes those pages, and the grant is      *)
(* bound anew without becoming another task.  Everything but the editor's  *)
(* pages is lost with the process.                                         *)
(***************************************************************************)
EXTENDS Naturals

CONSTANTS
  Calls,        \* tool calls that may run at once
  ChangeSets,
  Pages,        \* page ids of the project
  Source,       \* the reference page
  Clones,       \* page ids the editor hands out for clones
  Scopes,       \* what a user may ask a grant to allow
  Ttls,         \* lifetimes of a grant, in ticks
  None,
  Sessions,     \* browser sessions one engine call opens at most
  MaxTime,      \* bound: ticks of the clock
  MaxTokens,    \* bound: grants are minted only up to this token
  MaxDrifts     \* bound: pages added or removed by somebody else

Operations == {"edit", "publish", "reference"}

ASSUME ConstantsAssumption ==
  /\ None \notin Calls \cup ChangeSets \cup Pages \cup Clones
  /\ Source \in Pages /\ Clones \subseteq Pages /\ Source \notin Clones
  /\ Scopes \subseteq SUBSET Operations
  /\ Ttls \subseteq Nat \ {0} /\ Sessions \in Nat
  /\ MaxTime \in Nat /\ MaxTokens \in Nat /\ MaxDrifts \in Nat

VARIABLES
  active,         \* the grant in force, or None
  pending,        \* clone whose receipt awaits its cleanup, or None
  revocation,     \* token of the guard that is not revoked, 0 for none
  refLease,       \* call changing the page inventory, or None
  dispatchLease,  \* call whose remote transaction is running, or None
  execLease,      \* call executing a multi-phase task, or None
  browser,        \* call owning the browser session, or None
  receipts,       \* unconsumed receipt of every clone, or None
  planned,        \* task each change set was planned by, or None
  op,             \* what every call is doing
  live,           \* the account's pages
  wire,           \* requests on their way to the editor
  made,           \* (history) clones ever asked for
  now, minted, drifts

authority == <<active, pending, revocation>>
leases == <<refLease, dispatchLease, execLease, browser>>
memory == <<receipts, planned>>
editor == <<live, wire, made>>
bounds == <<now, minted, drifts>>
vars == <<authority, leases, memory, op, editor, bounds>>

----------------------------------------------------------------------------
(* Grants                                                                  *)

\* A guard: one token per activation, one task over its rebindings.
Guard ==
  [token : Nat \ {0}, task : Nat \ {0}, expires : Nat, allows : Scopes,
   pages : SUBSET Pages]

ASSUME NoneAssumption == None \notin Nat /\ None \notin Guard

Valid(g) == revocation = g.token /\ now < g.expires

\* #current() drops an expired grant, unless somebody's lease holds it.
Expired ==
  /\ active # None /\ now >= active.expires
  /\ dispatchLease = None /\ execLease = None

Current == IF Expired THEN None ELSE active

\* Mutant: a running execution does not hold the grant.
TransitionDispatchOnly ==
  refLease # None \/ pending # None \/ dispatchLease # None

\* #assertNoAuthorityTransition()
Transition ==
  \/ refLease # None \/ pending # None
  \/ dispatchLease # None \/ execLease # None

Dropped ==
  active' = None /\ pending' = None /\ revocation' = 0 /\ refLease' = None
Kept == UNCHANGED <<authority, refLease>>

\* clear()
Clear == (Transition /\ Kept) \/ (~Transition /\ Dropped)

----------------------------------------------------------------------------
(* Calls                                                                   *)

Kinds == {"authorize", "verify", "plan", "change", "publish", "create",
          "cleanup"}
Needs(kind) ==
  CASE kind \in {"plan", "change"} -> "edit"
    [] kind = "publish" -> "publish"
    [] OTHER -> "reference"
Executing == {"change", "publish"}
Reference == {"create", "cleanup"}

Receipt == [task : Nat \ {0}, pages : SUBSET Pages]
Idle ==
  [pc |-> "idle", kind |-> "none", guard |-> None, session |-> None,
   seen |-> None, page |-> None, set |-> None, ok |-> FALSE, left |-> 0]
Call ==
  [pc : {"capture", "resume", "work", "opening", "session", "flight", "sent",
         "closing"},
   kind : Kinds, guard : Guard \cup {None}, session : Guard \cup {None},
   seen : (SUBSET Pages) \cup {None}, page : Clones \cup {None},
   set : ChangeSets \cup {None}, ok : BOOLEAN, left : 0 .. Sessions]

At(c, pc) == op[c].pc = pc
Is(c, kinds) == op[c].kind \in kinds
Step(c, call) == op' = [op EXCEPT ![c] = call]
End(c) == Step(c, Idle)
Start(c, call) == At(c, "idle") /\ Step(c, call)

\* The task's guard, if it is active and allows this.
Authorised(operation) ==
  /\ active # None /\ ~Expired
  /\ Valid(active) /\ operation \in active.allows

Init ==
  /\ active = None /\ pending = None /\ revocation = 0
  /\ refLease = None /\ dispatchLease = None /\ execLease = None
  /\ browser = None
  /\ receipts = [k \in Clones |-> None]
  /\ planned = [s \in ChangeSets |-> None]
  /\ op = [c \in Calls |-> Idle]
  /\ live \in {pages \in SUBSET (Pages \ Clones) : Source \in pages}
  /\ wire = {} /\ made = {}
  /\ now = 0 /\ minted = 0 /\ drifts = 0

\* Any call that needs a grant drops an expired one and fails for want of it.
Lapse(c) ==
  /\ At(c, "idle") /\ Expired
  /\ Dropped
  /\ UNCHANGED <<dispatchLease, execLease, browser, memory, op, editor,
                 bounds>>

----------------------------------------------------------------------------
(* Calls that capture the account's binding: tilda_authorize_task, and     *)
(* tilda_verify_live through freshTaskAuthority()                          *)

BeginCapture(c) ==
  /\ \/ Start(c, [Idle EXCEPT !.pc = "capture", !.kind = "authorize"])
     \/ /\ active # None /\ Valid(active)
        /\ Start(c, [Idle EXCEPT !.pc = "capture", !.kind = "verify",
                                 !.guard = active])
  /\ UNCHANGED <<authority, leases, memory, editor, bounds>>

\* What is captured is used only after the capture's last await.
Capture(c) ==
  /\ At(c, "capture")
  /\ \E seen \in {live, None} :
       Step(c, [op[c] EXCEPT !.seen = seen, !.pc = "resume"])
  /\ UNCHANGED <<authority, leases, memory, editor, bounds>>

Resumes(c, kind) ==
  /\ At(c, "resume") /\ Is(c, {kind})
  /\ End(c)
  /\ UNCHANGED <<dispatchLease, execLease, browser, memory, editor, now,
                 drifts>>

\* Without a binding the grant is cleared; input outside it changes nothing.
AuthorizeRefused(c) ==
  /\ Resumes(c, "authorize")
  /\ (op[c].seen = None /\ Clear) \/ (op[c].seen # None /\ Kept)
  /\ UNCHANGED minted

\* An expired grant has been dropped, one that is bound to other pages
\* cleared, when the new one turns out to be invalid.
AuthorizeInvalid(c) ==
  /\ Resumes(c, "authorize")
  /\ op[c].seen # None
  /\ IF Current = None THEN Expired /\ Dropped
     ELSE /\ now < active.expires /\ active.pages # op[c].seen
          /\ Clear
  /\ UNCHANGED minted

\* A grant kept beyond its expiry by a lease cannot be replaced either.
Authorize(c) ==
  /\ Resumes(c, "authorize")
  /\ op[c].seen # None
  /\ Current # None => ~Transition /\ now < active.expires
  /\ minted < MaxTokens
  /\ minted' = minted + 1
  /\ \E allows \in Scopes, ttl \in Ttls :
       active' = [token |-> minted + 1, task |-> minted + 1,
                  expires |-> now + ttl, allows |-> allows,
                  pages |-> op[c].seen]
  /\ revocation' = minted + 1 /\ pending' = None /\ refLease' = None

\* The grant is cleared if it is still the one the call came with and is
\* bound to other pages than those captured, or nothing was captured.
Verify(c) ==
  /\ Resumes(c, "verify")
  /\ \/ Expired /\ Dropped
     \/ /\ ~Expired /\ active # None /\ active.token = op[c].guard.token
        /\ op[c].seen # active.pages
        /\ Clear
     \/ /\ ~Expired
        /\ active # None => \/ active.token # op[c].guard.token
                            \/ op[c].seen = active.pages
        /\ Kept
  /\ UNCHANGED minted

----------------------------------------------------------------------------
(* Planning, applying, rolling back and publishing                         *)

BeginPlan(c) ==
  /\ Authorised("edit")
  /\ \E s \in ChangeSets :
       /\ planned[s] = None
       /\ Start(c, [Idle EXCEPT !.pc = "work", !.kind = "plan", !.set = s,
                                !.guard = active, !.left = Sessions])
  /\ UNCHANGED <<authority, leases, memory, editor, bounds>>

\* The record names the task the call came with, whatever is in force now.
RecordPlan(c) ==
  /\ At(c, "work") /\ Is(c, {"plan"})
  /\ op[c].ok /\ planned[op[c].set] = None
  /\ planned' = [planned EXCEPT ![op[c].set] = op[c].guard.task]
  /\ End(c)
  /\ UNCHANGED <<authority, leases, receipts, editor, bounds>>

\* TaskScopedChangeSetEngine.apply() and rollback()
BeginChange(c) ==
  /\ Authorised("edit")
  /\ execLease = None /\ execLease' = c
  /\ \E s \in ChangeSets :
       /\ planned[s] = active.task
       /\ Start(c, [Idle EXCEPT !.pc = "work", !.kind = "change", !.set = s,
                                !.guard = active, !.left = Sessions])
  /\ UNCHANGED <<authority, refLease, dispatchLease, browser, memory, editor,
                 bounds>>

\* TaskScopedPublicationController.execute()
BeginPublish(c) ==
  /\ Authorised("publish")
  /\ execLease = None /\ execLease' = c
  /\ Start(c, [Idle EXCEPT !.pc = "work", !.kind = "publish",
                           !.guard = active, !.left = Sessions])
  /\ UNCHANGED <<authority, refLease, dispatchLease, browser, memory, editor,
                 bounds>>

\* Mutant: the ended call's arguments survive it.
EndWorkKeepingCall(c) ==
  /\ At(c, "work")
  /\ execLease' = IF execLease = c THEN None ELSE execLease
  /\ Step(c, [op[c] EXCEPT !.pc = "idle"])
  /\ UNCHANGED <<authority, refLease, dispatchLease, browser, memory, editor,
                 bounds>>

\* The call is done, has failed, or could not open a session.
EndWork(c) ==
  /\ At(c, "work")
  /\ execLease' = IF execLease = c THEN None ELSE execLease
  /\ End(c)
  /\ UNCHANGED <<authority, refLease, dispatchLease, browser, memory, editor,
                 bounds>>

----------------------------------------------------------------------------
(* The browser session                                                     *)

\* Mutant: a call opens sessions for as long as it likes.
OpenSessionForever(c) ==
  /\ At(c, "work")
  /\ active # None /\ ~Expired /\ browser = None
  /\ browser' = c
  /\ Step(c, [op[c] EXCEPT !.pc = "opening", !.session = active])
  /\ UNCHANGED <<authority, refLease, dispatchLease, execLease, memory,
                 editor, bounds>>

\* Every session asks the manager anew for the guard in force.
OpenSession(c) ==
  /\ At(c, "work") /\ op[c].left > 0
  /\ active # None /\ ~Expired /\ browser = None
  /\ browser' = c
  /\ Step(c, [op[c] EXCEPT !.pc = "opening", !.session = active,
                           !.left = op[c].left - 1])
  /\ UNCHANGED <<authority, refLease, dispatchLease, execLease, memory,
                 editor, bounds>>

\* A plan holds no lease: its grant may be gone when it opens its session.
OpenLapsed(c) ==
  /\ At(c, "work") /\ Expired
  /\ Dropped /\ End(c)
  /\ UNCHANGED <<dispatchLease, execLease, browser, memory, editor, bounds>>

Bind(c) ==
  /\ At(c, "opening")
  /\ Valid(op[c].session) /\ op[c].session.pages = live
  /\ Step(c, [op[c] EXCEPT !.pc = "session"])
  /\ UNCHANGED <<authority, leases, memory, editor, bounds>>

\* The binding is refused; or the session only read; or a check failed.
LeaveSession(c) ==
  /\ op[c].pc \in {"opening", "session"}
  /\ Step(c, [op[c] EXCEPT !.pc = "closing",
                           !.ok = At(c, "session") /\ Is(c, {"plan"})])
  /\ UNCHANGED <<authority, leases, memory, editor, bounds>>

\* Mutant: the guard is not asked again at the last moment.
DispatchUnchecked(c) ==
  /\ At(c, "session") /\ ~Is(c, {"plan"})
  /\ Needs(op[c].kind) \in op[c].session.allows
  /\ Is(c, {"cleanup"}) => op[c].page \in op[c].session.pages
  /\ dispatchLease = None /\ dispatchLease' = c
  /\ Step(c, [op[c] EXCEPT !.pc = "flight"])
  /\ UNCHANGED <<authority, refLease, execLease, browser, memory, editor,
                 bounds>>

\* #dispatchMutation()
Dispatch(c) ==
  /\ At(c, "session") /\ ~Is(c, {"plan"})
  /\ Valid(op[c].session) /\ active # None
  /\ Needs(op[c].kind) \in op[c].session.allows
  /\ Is(c, {"cleanup"}) => op[c].page \in op[c].session.pages
  /\ dispatchLease = None /\ dispatchLease' = c
  /\ Step(c, [op[c] EXCEPT !.pc = "flight"])
  /\ UNCHANGED <<authority, refLease, execLease, browser, memory, editor,
                 bounds>>

\* An edit or publication is over, or a reference transaction stopped short.
EndFlight(c) ==
  /\ At(c, "flight")
  /\ dispatchLease' = None
  /\ Step(c, [op[c] EXCEPT !.pc = "closing"])
  /\ UNCHANGED <<authority, refLease, execLease, browser, memory, editor,
                 bounds>>

CloseSession(c) ==
  /\ At(c, "closing") /\ ~Is(c, Reference)
  /\ browser' = None
  /\ Step(c, [op[c] EXCEPT !.pc = "work", !.session = None])
  /\ UNCHANGED <<authority, refLease, dispatchLease, execLease, memory,
                 editor, bounds>>

----------------------------------------------------------------------------
(* Reference pages                                                         *)

BeginCreate(c) ==
  /\ Authorised("reference")
  /\ refLease = None /\ pending = None /\ Source \in active.pages
  /\ browser = None
  /\ refLease' = c /\ browser' = c
  /\ Start(c, [Idle EXCEPT !.pc = "opening", !.kind = "create",
                           !.guard = active, !.session = active])
  /\ UNCHANGED <<authority, dispatchLease, execLease, memory, editor, bounds>>

\* Mutant: the receipt outlives a cleanup that was begun.
BeginCleanupAgain(c) ==
  /\ Authorised("reference")
  /\ \E k \in Clones :
       /\ receipts[k] # None
       /\ receipts[k].task = active.task
       /\ refLease = None /\ pending = k /\ browser = None
       /\ refLease' = c /\ browser' = c
       /\ Start(c, [Idle EXCEPT !.pc = "opening", !.kind = "cleanup",
                                !.page = k, !.guard = active,
                                !.session = active,
                                !.seen = receipts[k].pages])
  /\ UNCHANGED <<authority, dispatchLease, execLease, memory, editor, bounds>>

\* The receipt is consumed whether or not the cleanup gets under way.
BeginCleanup(c) ==
  /\ Authorised("reference")
  /\ \E k \in Clones :
       LET ready == /\ receipts[k].task = active.task
                    /\ refLease = None /\ pending = k /\ browser = None
       IN /\ receipts[k] # None
          /\ receipts' = [receipts EXCEPT ![k] = None]
          /\ \/ /\ ready
                /\ refLease' = c /\ browser' = c
                /\ Start(c, [Idle EXCEPT
                     !.pc = "opening", !.kind = "cleanup", !.page = k,
                     !.guard = active, !.session = active,
                     !.seen = receipts[k].pages])
             \/ /\ ~ready /\ At(c, "idle")
                /\ UNCHANGED <<refLease, browser, op>>
  /\ UNCHANGED <<authority, dispatchLease, execLease, planned, editor, bounds>>

\* The session reads the pages it starts from, then sends its request.
SendCreate(c) ==
  /\ At(c, "flight") /\ Is(c, {"create"})
  /\ Source \in live
  /\ \E k \in Clones \ made :
       /\ wire' = wire \cup {[kind |-> "add", page |-> k]}
       /\ made' = made \cup {k}
       /\ Step(c, [op[c] EXCEPT !.pc = "sent", !.seen = live, !.page = k])
  /\ UNCHANGED <<authority, leases, memory, live, bounds>>

SendCleanup(c) ==
  /\ At(c, "flight") /\ Is(c, {"cleanup"})
  /\ live = op[c].seen
  /\ wire' = wire \cup {[kind |-> "remove", page |-> op[c].page]}
  /\ Step(c, [op[c] EXCEPT !.pc = "sent"])
  /\ UNCHANGED <<authority, leases, memory, live, made, bounds>>

After(c) ==
  IF Is(c, {"create"}) THEN op[c].seen \cup {op[c].page}
  ELSE op[c].seen \ {op[c].page}

\* Proved only by the exact pages before and after; ambiguous otherwise.
Answer(c) ==
  /\ At(c, "sent")
  /\ dispatchLease' = None
  /\ \E ok \in {FALSE, live = After(c) /\ op[c].seen = op[c].session.pages} :
       Step(c, [op[c] EXCEPT !.pc = "closing", !.ok = ok])
  /\ UNCHANGED <<authority, refLease, execLease, browser, memory, editor,
                 bounds>>

\* acceptVerifiedReferenceInventoryTransition()
Acceptable(c) ==
  /\ op[c].ok /\ execLease = None /\ dispatchLease = None
  /\ active # None /\ ~Expired
  /\ refLease = c /\ active.task = op[c].guard.task
  /\ pending = IF Is(c, {"create"}) THEN None ELSE op[c].page
  /\ active.pages = op[c].seen

\* Mutant: every rebinding puts off the expiry.
AcceptRenewed(c) ==
  /\ At(c, "closing") /\ Is(c, Reference)
  /\ Acceptable(c)
  /\ minted' = minted + 1
  /\ revocation' = minted + 1
  /\ active' = [active EXCEPT !.token = minted + 1, !.pages = After(c),
                              !.expires = active.expires + 1]
  /\ pending' = IF Is(c, {"create"}) THEN op[c].page ELSE None
  /\ receipts' =
       IF Is(c, {"create"})
       THEN [receipts EXCEPT ![op[c].page] =
               [task |-> active.task, pages |-> After(c)]]
       ELSE receipts
  /\ refLease' = None /\ browser' = None /\ End(c)
  /\ UNCHANGED <<dispatchLease, execLease, planned, editor, now, drifts>>

\* The session closes and the grant is bound to the pages as they are now.
Accept(c) ==
  /\ At(c, "closing") /\ Is(c, Reference)
  /\ Acceptable(c)
  /\ minted' = minted + 1
  /\ revocation' = minted + 1
  /\ active' = [active EXCEPT !.token = minted + 1, !.pages = After(c)]
  /\ pending' = IF Is(c, {"create"}) THEN op[c].page ELSE None
  /\ receipts' =
       IF Is(c, {"create"})
       THEN [receipts EXCEPT ![op[c].page] =
               [task |-> active.task, pages |-> After(c)]]
       ELSE receipts
  /\ refLease' = None /\ browser' = None /\ End(c)
  /\ UNCHANGED <<dispatchLease, execLease, planned, editor, now, drifts>>

\* Root not restored, transaction unproved, or transition refused: whatever
\* the editor did, there is no receipt and the grant is bound as before.
Reject(c) ==
  /\ At(c, "closing") /\ Is(c, Reference)
  /\ \/ op[c].ok /\ Expired /\ Dropped
     \/ /\ UNCHANGED authority
        /\ refLease' = IF refLease = c THEN None ELSE refLease
  /\ browser' = None /\ End(c)
  /\ UNCHANGED <<dispatchLease, execLease, memory, editor, bounds>>

----------------------------------------------------------------------------
(* The editor, other people, and time                                      *)

Land(request) ==
  /\ wire' = wire \ {request}
  /\ live' = IF request.kind = "add" THEN live \cup {request.page}
             ELSE live \ {request.page}
  /\ UNCHANGED <<authority, leases, memory, op, made, bounds>>

Lost(request) ==
  /\ wire' = wire \ {request}
  /\ UNCHANGED <<authority, leases, memory, op, live, made, bounds>>

\* Somebody adds a page, or removes one.
Drift ==
  /\ drifts < MaxDrifts
  /\ drifts' = drifts + 1
  /\ \E g \in Pages :
       \/ g \in live /\ live' = live \ {g}
       \/ g \notin live \cup Clones /\ live' = live \cup {g}
  /\ UNCHANGED <<authority, leases, memory, op, wire, made, now, minted>>

Tick ==
  /\ now < MaxTime
  /\ now' = now + 1
  /\ UNCHANGED <<authority, leases, memory, op, editor, minted, drifts>>

----------------------------------------------------------------------------

Begin(c) ==
  \/ Lapse(c) \/ BeginCapture(c) \/ BeginPlan(c) \/ BeginChange(c)
  \/ BeginPublish(c) \/ BeginCreate(c) \/ BeginCleanup(c)

Proceed(c) ==
  \/ Capture(c) \/ AuthorizeRefused(c) \/ AuthorizeInvalid(c) \/ Authorize(c)
  \/ Verify(c) \/ RecordPlan(c) \/ EndWork(c)
  \/ OpenSession(c) \/ OpenLapsed(c) \/ Bind(c) \/ LeaveSession(c)
  \/ Dispatch(c) \/ EndFlight(c) \/ CloseSession(c)
  \/ SendCreate(c) \/ SendCleanup(c) \/ Answer(c) \/ Accept(c) \/ Reject(c)

Next ==
  \/ \E c \in Calls : Begin(c) \/ Proceed(c)
  \/ \E request \in wire : Land(request) \/ Lost(request)
  \/ Drift \/ Tick

Spec == Init /\ [][Next]_vars
FairSpec == Spec /\ \A c \in Calls : WF_vars(Proceed(c))

----------------------------------------------------------------------------
(* Properties                                                              *)

\* Every variable has its type.
TypeOK ==
  /\ active \in Guard \cup {None}
  /\ pending \in Clones \cup {None}
  /\ revocation \in Nat
  /\ {refLease, dispatchLease, execLease, browser} \subseteq Calls \cup {None}
  /\ receipts \in [Clones -> Receipt \cup {None}]
  /\ planned \in [ChangeSets -> (Nat \ {0}) \cup {None}]
  /\ op \in [Calls -> Call \cup {Idle}]
  /\ live \subseteq Pages
  /\ wire \subseteq [kind : {"add", "remove"}, page : Clones]
  /\ made \subseteq Clones
  /\ now \in Nat /\ minted \in Nat /\ drifts \in Nat

\* A lease is held exactly while its call is at the steps it is for: none
\* leaks on a failure, and no two calls are ever in a session.
Browsing == {"opening", "session", "flight", "sent", "closing"}
LeasesHeld ==
  \A c \in Calls :
    /\ browser = c <=> op[c].pc \in Browsing
    /\ dispatchLease = c <=> op[c].pc \in {"flight", "sent"}
    /\ execLease = c <=> op[c].kind \in Executing
    /\ refLease = c => op[c].kind \in Reference

\* While a remote transaction runs, the grant in force is the one its session
\* was bound to, is of the task its call came with and allows what is sent; a
\* change set is sent only by the task it was planned by.
WriteUnderGrant ==
  \A c \in Calls :
    op[c].pc \in {"flight", "sent"} =>
      /\ active # None /\ revocation = active.token
      /\ op[c].session = active /\ op[c].guard.task = active.task
      /\ Needs(op[c].kind) \in active.allows
      /\ op[c].kind = "change" => planned[op[c].set] = active.task

\* An unconsumed receipt of the task in force is for its pending clone and
\* was made for the very pages the grant is bound to, so a cleanup can start.
ReceiptPending ==
  \A k \in Clones :
    receipts[k] # None /\ active # None /\ receipts[k].task = active.task
    => pending = k /\ active.pages = receipts[k].pages /\ k \in active.pages

\* A task keeps what it was granted, and its expiry; its pages change by one
\* clone of its own, which becomes or was the pending one.
RebindKeepsTask ==
  [][active # None /\ active' # None /\ active'.task = active.task =>
       /\ active'.expires = active.expires /\ active'.allows = active.allows
       /\ active' # active =>
            \/ pending = None /\ pending' \in made \ active.pages
               /\ active'.pages = active.pages \cup {pending'}
            \/ pending \in active.pages /\ pending' = None
               /\ active'.pages = active.pages \ {pending}]_vars

\* A pending clone is let go only by its verified cleanup or with a grant
\* that has expired: no call can authorise another task over it.
PendingKept ==
  [][pending # None /\ pending' # pending =>
       \/ now >= active.expires
       \/ /\ active' # None /\ active'.task = active.task
          /\ pending \notin active'.pages]_vars

\* Every call ends and gives its leases back.
CallsEnd == \A c \in Calls : []<>(op[c] = Idle)

\* The authority implements PinnedGrant: nobody who executes a task or runs
\* a remote transaction sees the grant replaced, cleared, expired or rebound.
Grant == INSTANCE PinnedGrant WITH
  Users <- Calls, Grants <- Guard, NoGrant <- None,
  grant <- active, relying <- {c \in Calls : c \in {execLease, dispatchLease}}
PinsGrant == Grant!Spec
============================================================================
