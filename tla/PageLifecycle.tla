--------------------------- MODULE PageLifecycle ---------------------------
(***************************************************************************)
(* The calls that change the list of a project's pages: the fixed round    *)
(* trip (adapters/page-lifecycle.ts), the clone of a reference page and    *)
(* its cleanup, and adding a known template (adapters/                     *)
(* reference-page-lifecycle.ts), as the browser session carries them out   *)
(* and the server process remembers them (mcp/engine-service.ts).          *)
(*                                                                         *)
(* The round trip duplicates a page, moves the duplicate, moves it back    *)
(* and deletes it; when a step fails it tries once to undo what it did.    *)
(* Nothing is kept across the death of the process but the project itself. *)
(***************************************************************************)
EXTENDS EditorSession

Init ==
  /\ order = <<Source>>
  /\ page = [id \in PageIds |-> Blank]
  /\ fresh = 2
  /\ wire = {}
  /\ tab = Root
  /\ u = Idle
  /\ lifecycle = [k \in Keys |-> "none"]
  /\ structural = [k \in Keys |-> "none"]
  /\ receipts = {}
  /\ calls = 0 /\ faults = 0 /\ drifts = 0

----------------------------------------------------------------------------
(* Calls begin                                                             *)

Listed(list) == ToSet(list)

\* The lease is for the pages the account has now, and for a tab at its root.
Lease(op, key, receipt) ==
  /\ u = Idle /\ calls < MaxCalls
  /\ calls' = calls + 1
  /\ IF tab = Root
     THEN u' = [Idle EXCEPT !.op = op, !.key = key, !.nr = calls + 1,
                  !.step = Script(op)[1], !.owned = Listed(order),
                  !.receipt = receipt,
                  !.temp = IF receipt = None THEN None ELSE receipt.id]
     ELSE u' = [Idle EXCEPT !.op = op, !.key = key, !.nr = calls + 1,
                  !.step = "end", !.failed = TRUE]
  /\ UNCHANGED <<server, wire, tab, faults, drifts>>

BeginSave(op) ==
  /\ Lease(op, None, None)
  /\ UNCHANGED memory

\* A key whose attempt failed is never run again by this process.
BeginFixed(key) ==
  /\ lifecycle[key] = "none"
  /\ Lease("fixed", key, None)
  /\ lifecycle' = [lifecycle EXCEPT ![key] = "running"]
  /\ UNCHANGED <<structural, receipts>>

\* Mutant: the receipt is not consumed by the cleanup that uses it.
BeginStructuralKeeping(op, key, receipt) ==
  /\ structural[key] = "none"
  /\ Lease(op, key, receipt)
  /\ structural' = [structural EXCEPT ![key] = "PENDING"]
  /\ UNCHANGED <<receipts, lifecycle>>

\* #runStructuralOnce(): the entry is written before anything is done.
BeginStructural(op, key, receipt) ==
  /\ structural[key] = "none"
  /\ Lease(op, key, receipt)
  /\ structural' = [structural EXCEPT ![key] = "PENDING"]
  /\ receipts' = receipts \ {receipt}
  /\ UNCHANGED lifecycle

Begin ==
  \/ \E op \in Saves : BeginSave(op)
  \/ \E key \in Keys :
       \/ BeginFixed(key)
       \/ \E op \in {"create", "template"} : BeginStructural(op, key, None)
       \/ \E receipt \in receipts : BeginStructural("cleanup", key, receipt)

\* A call that finds the lease taken has failed before it did anything, and
\* its key with it; the receipt of a cleanup is gone as well.
Busy(key) ==
  /\ u # Idle
  /\ Fault
  /\ \/ /\ lifecycle[key] = "none" /\ u.op # "fixed"
        /\ lifecycle' = [lifecycle EXCEPT ![key] = "blocked"]
        /\ UNCHANGED <<structural, receipts>>
     \/ /\ structural[key] = "none"
        /\ structural' = [structural EXCEPT ![key] = "FAILED"]
        /\ \/ UNCHANGED receipts
           \/ \E receipt \in receipts : receipts' = receipts \ {receipt}
        /\ UNCHANGED lifecycle
  /\ UNCHANGED <<server, wire, tab, u, calls, drifts>>

----------------------------------------------------------------------------
(* Visits                                                                  *)

\* The records of a page come along when it is duplicated; it is unpublished.
Parity(clone, source) == ~clone.live /\ clone.rest = source.rest

\* Mutant: the last look at the project only finds the source page there.
RestoredSource == Source \in Listed(order)

Restored == order = u.base

Swapped == <<u.temp, Source>>
Aligned == <<Source, u.temp>>

\* What the visits of each call demand of the page list and of the pages.
FixedAccepts ==
  CASE u.step \in {"check", "source"} -> ~page[Source].live
    [] At("base")     -> order = <<Source>>
    [] u.step \in {"twin", "unsorted"} -> order = Aligned
    [] At("temp")     -> Parity(page[u.temp], u.seen)
    [] At("sorted")   -> Len(order) > 1 /\ SubSeq(order, 1, 2) = Swapped
    [] At("gone")     -> Restored
    [] At("after")    -> page[Source] = u.seen
    [] OTHER -> TRUE

CreateAccepts ==
  CASE At("base")  -> Source \in Listed(order)
    [] At("delta") -> /\ Listed(order) = Listed(u.base) \cup {u.temp}
                      /\ Len(order) = Len(u.base) + 1
    [] At("temp")  -> Parity(page[u.temp], u.seen)
    [] At("after") -> page[Source].rest = u.seen.rest
    [] OTHER -> TRUE

CleanupAccepts ==
  CASE At("match")  -> order = u.receipt.order /\ u.temp \in u.owned
    [] At("source") -> page[Source].rest = u.receipt.rest
    [] At("temp")   -> Parity(page[u.temp], u.receipt)
    [] At("absent") -> order = SelectSeq(u.receipt.order,
                                         LAMBDA id : id # u.temp)
    [] At("after")  -> page[Source].rest = u.receipt.rest
    [] OTHER -> TRUE

TemplateAccepts ==
  At("added") => /\ page[Source].rest = u.seen.rest + 1
                 /\ page[Source].live = u.seen.live

Accepts ==
  CASE u.op = "fixed"    -> FixedAccepts
    [] u.op = "create"   -> CreateAccepts
    [] u.op = "cleanup"  -> CleanupAccepts
    [] u.op = "template" -> TemplateAccepts

\* What a call keeps of a visit for later steps.
Learnt ==
  CASE At("base") -> [u EXCEPT !.base = order]
    [] u.step \in {"delta", "unsorted"} -> [u EXCEPT !.cur = order]
    [] u.step \in {"source", "before"} -> [u EXCEPT !.seen = page[Source]]
    [] OTHER -> u

ListVisits ==
  {"check", "base", "source", "ready", "twin", "temp", "aligned", "sorted",
   "unsorted", "gone", "after", "delta", "match", "absent", "before", "added"}

Visit ==
  /\ u.step \in ListVisits
  /\ tab' = Loads(u.step)
  /\ IF Accepts THEN Advance(Learnt) ELSE Fail
  /\ UNCHANGED <<server, wire, memory, bounds>>

\* The lease's own check of what the session says it created.
File ==
  /\ At("file")
  /\ IF Listed(u.base) = u.owned THEN Advance(u) ELSE Fail
  /\ UNCHANGED <<server, wire, tab, memory, bounds>>

----------------------------------------------------------------------------
(* Commands, as they check the document they run in                        *)

InProject == tab.at = "project" /\ Source \in Listed(tab.list)

\* The page order the call expects the document to show.
Expected ==
  CASE At("duplicate") -> u.base
    [] u.op = "cleanup" -> u.receipt.order
    [] OTHER -> u.cur

AddPermitted == tab.at = "editor" /\ tab.id = Source

Permitted ==
  CASE At("add") -> AddPermitted
    [] u.step \in {"sort", "unsort"} ->
         InProject /\ {Source, u.temp} \subseteq Listed(tab.list)
    [] At("duplicate") -> InProject /\ tab.list = Expected
    [] OTHER -> /\ InProject /\ tab.list = Expected
                /\ u.temp \in Listed(tab.list) /\ u.temp # Source

ListBody == [temp |-> u.temp]

\* A compensating step has failed the call already: it is the finally block's.
Noted ==
  [u EXCEPT !.sortTried = @ \/ At("unsort"), !.deleteTried = @ \/ At("delete")]

Send ==
  /\ u.step \in Commands \ {"save"}
  /\ IF Permitted
     THEN /\ wire' = wire \cup {Request(u.step, ListBody)}
          /\ u' = [Noted EXCEPT !.step = "sent", !.sent = Append(@, u.step)]
     ELSE /\ u' = Thrown(Noted)
          /\ UNCHANGED wire
  /\ UNCHANGED <<server, tab, memory, bounds>>

----------------------------------------------------------------------------
(* The server                                                              *)

\* The editor appends a duplicate, orders the two pages it is given first,
\* and deletes whatever page it is told to.  No page is listed twice.
Present(id) == IF id \in Listed(order) THEN <<id>> ELSE <<>>
Sorted(first, second) ==
  Present(first) \o Present(second)
    \o RemoveFirst(RemoveFirst(order, first), second)

LandList(r) ==
  /\ r \in wire /\ r.command \in {"sort", "unsort", "delete"}
  /\ order' = CASE r.command = "sort" -> Sorted(r.body.temp, Source)
                [] r.command = "unsort" -> Sorted(Source, r.body.temp)
                [] OTHER -> RemoveFirst(order, r.body.temp)
  /\ wire' = wire \ {r}
  /\ Answered(r, "done", None)
  /\ UNCHANGED <<page, fresh, tab, memory, bounds>>

LandDuplicate(r) ==
  /\ r \in wire /\ r.command = "duplicate" /\ fresh \in PageIds
  /\ order' = Append(order, fresh)
  /\ page' = [page EXCEPT ![fresh] = [page[Source] EXCEPT !.live = FALSE]]
  /\ fresh' = fresh + 1
  /\ wire' = wire \ {r}
  /\ Answered(r, "done", fresh)
  /\ UNCHANGED <<tab, memory, bounds>>

LandAdd(r) ==
  /\ r \in wire /\ r.command = "add"
  /\ page' = [page EXCEPT ![Source].rest = @ + 1]
  /\ wire' = wire \ {r}
  /\ Answered(r, "done", None)
  /\ UNCHANGED <<order, fresh, tab, memory, bounds>>

----------------------------------------------------------------------------
(* Answers                                                                 *)

ListAnswered ==
  /\ Waiting /\ LastSent # "save" /\ ~u.failed
  /\ u.answer # None
  /\ IF u.answer = "refused" THEN Fail
     ELSE u' = [u EXCEPT !.step = Following(LastSent), !.answer = None,
                  !.made = None,
                  !.temp = IF LastSent = "duplicate" THEN u.made ELSE @]
  /\ UNCHANGED <<server, wire, tab, memory, bounds>>

----------------------------------------------------------------------------
(* Compensation, in the finally blocks of the fixed round trip             *)

\* Mutant: what the call tried itself is forgotten when it is cleaned up.
RemedyAgain(list) ==
  IF u.temp \notin Listed(list) THEN "root"
  ELSE IF Len(list) = 2 /\ list # Aligned THEN "resort" ELSE "redelete"

\* What is tried next once the project has been looked at.
Remedy(list) ==
  IF u.temp \notin Listed(list) THEN "root"
  ELSE IF ~u.sortTried /\ Len(list) = 2 /\ list # Aligned THEN "resort"
  ELSE IF ~u.deleteTried THEN "redelete" ELSE "root"

\* mark: nothing has gone wrong, and nothing is late, from here on.
Look ==
  /\ At("look")
  /\ tab' = ProjectDocument
  /\ u' = [u EXCEPT !.step = Remedy(order), !.cur = order,
             !.mark = IF u.deleteTried \/ wire # {} THEN None
                      ELSE faults + drifts]
  /\ UNCHANGED <<server, wire, memory, bounds>>

AfterResort == IF u.deleteTried THEN "root" ELSE "redelete"

Relook ==
  /\ At("relook")
  /\ tab' = ProjectDocument
  /\ u' = [u EXCEPT !.step = AfterResort]
  /\ UNCHANGED <<server, wire, memory, bounds>>

LookFails ==
  /\ u.step \in {"look", "relook"}
  /\ Fault
  /\ tab' \in {tab, ProjectDocument}
  /\ u' = [u EXCEPT !.step = IF At("look") THEN "root" ELSE AfterResort]
  /\ UNCHANGED <<server, wire, memory, calls, drifts>>

\* The page order read before the sort is the one the delete must find.
Compensation == IF At("resort") THEN "unsort" ELSE "delete"
Compensable ==
  /\ InProject /\ u.temp \in Listed(tab.list)
  /\ At("redelete") => tab.list = u.cur

Compensate ==
  /\ u.step \in {"resort", "redelete"}
  /\ LET tried == [u EXCEPT !.sortTried = @ \/ At("resort"),
                           !.deleteTried = @ \/ At("redelete")]
     IN  IF Compensable
         THEN /\ wire' = wire \cup {Request(Compensation, ListBody)}
              /\ u' = [tried EXCEPT !.step = "sent", !.answer = None,
                         !.sent = Append(@, Compensation)]
         ELSE /\ u' = [tried EXCEPT
                         !.step = IF At("resort") THEN "relook" ELSE "root"]
              /\ UNCHANGED wire
  /\ UNCHANGED <<server, tab, memory, bounds>>

\* Answered, refused or not answered in time: it goes on all the same.
Compensated ==
  /\ Waiting /\ u.failed
  /\ u' = [u EXCEPT !.step = IF LastSent = "unsort" THEN "relook" ELSE "root",
             !.answer = None, !.mark = IF u.answer = None THEN None ELSE @]
  /\ UNCHANGED <<server, wire, tab, memory, bounds>>

----------------------------------------------------------------------------
(* Calls end                                                               *)

\* The task's grant moves on to the pages the evidence names, which the steps
\* before have proved to be one more or one fewer.
Rebind ==
  /\ At("rebind")
  /\ u' = [u EXCEPT !.step = "end"]
  /\ UNCHANGED <<server, wire, tab, memory, bounds>>

\* The grant is not what it was when the call began.
RebindFails ==
  /\ At("rebind")
  /\ Fault
  /\ u' = [u EXCEPT !.step = "end", !.failed = TRUE]
  /\ UNCHANGED <<server, wire, tab, memory, calls, drifts>>

\* What the process remembers of the call's key.
Journal ==
  CASE u.op = "fixed" ->
         /\ lifecycle' = [lifecycle EXCEPT
              ![u.key] = IF u.failed THEN "blocked" ELSE "done"]
         /\ UNCHANGED structural
    [] u.op \in Structural ->
         /\ structural' = [structural EXCEPT
              ![u.key] = IF u.failed THEN "FAILED" ELSE "SUCCEEDED"]
         /\ UNCHANGED lifecycle
    [] OTHER -> UNCHANGED <<structural, lifecycle>>

\* Mutant: a receipt is given for a clone that was not proved, too.
EndAnyReceipt ==
  /\ At("end")
  /\ u' = Idle
  /\ Journal
  /\ receipts' = IF u.op = "create"
                 THEN receipts \cup {[id |-> u.temp, order |-> u.cur,
                                      rest |-> u.seen.rest]}
                 ELSE receipts
  /\ UNCHANGED <<server, wire, tab, bounds>>

End ==
  /\ At("end")
  /\ u' = Idle
  /\ Journal
  /\ receipts' = IF u.op = "create" /\ ~u.failed
                 THEN receipts \cup {[id |-> u.temp, order |-> u.cur,
                                      rest |-> u.seen.rest]}
                 ELSE receipts
  /\ UNCHANGED <<server, wire, tab, bounds>>

----------------------------------------------------------------------------
(* What the code does not decide                                           *)

\* The process dies: its memory is gone, the tab and the wire are not.
Crash ==
  /\ Fault
  /\ u' = Idle
  /\ lifecycle' = [k \in Keys |-> "none"]
  /\ structural' = [k \in Keys |-> "none"]
  /\ receipts' = {}
  /\ UNCHANGED <<server, wire, tab, calls, drifts>>

\* The user puts the tab back where the next call expects it.
UserRestores ==
  /\ u = Idle /\ tab # Root
  /\ tab' = Root
  /\ UNCHANGED <<server, wire, u, memory, bounds>>

\* A colleague edits, publishes, adds or removes a page, or somebody drives
\* the tab away.
Drift ==
  /\ drifts < MaxDrifts
  /\ drifts' = drifts + 1
  /\ \/ /\ page' \in {[page EXCEPT ![Source].own = drifts'],
                       [page EXCEPT ![Source].rest = @ + MaxCalls + 1],
                       [page EXCEPT ![Source].live = TRUE]}
        /\ UNCHANGED <<order, fresh, tab>>
     \/ /\ fresh \in PageIds
        /\ order' = Append(order, fresh)
        /\ fresh' = fresh + 1
        /\ UNCHANGED <<page, tab>>
     \/ /\ \E id \in Listed(order) \ {Source} :
             order' = RemoveFirst(order, id)
        /\ UNCHANGED <<page, fresh, tab>>
     \/ /\ u # Idle /\ tab' = Elsewhere
        /\ UNCHANGED server
  /\ UNCHANGED <<wire, u, memory, calls, faults>>

----------------------------------------------------------------------------
(* The system                                                              *)

\* What a call does next, by the kind of its step.
Returning == {"file", "shut", "root", "close", "rebind", "end"}
CallStep ==
  \/ u.step \in SaveVisits /\ SaveVisit
  \/ u.step \in ListVisits /\ Visit
  \/ u.step \in Commands /\ (SendSave \/ Send)
  \/ Waiting /\ (SaveAnswered \/ ListAnswered \/ Lapse \/ Compensated)
  \/ u.step \in Recovery /\ (Look \/ Relook \/ Compensate)
  \/ u.step \in Returning /\ (Shut \/ RestoreRoot \/ File \/ Close \/ Rebind \/ End)

Server ==
  \E r \in wire : LandSave(r) \/ LandList(r) \/ LandDuplicate(r) \/ LandAdd(r)

Failure ==
  \/ \E r \in wire : Refuse(r)
  \/ StepFails \/ LookFails \/ CloseFails \/ RebindFails \/ Crash

Next ==
  \/ Begin \/ \E key \in Keys : Busy(key)
  \/ CallStep \/ Server \/ Failure \/ UserRestores \/ Drift

Spec == Init /\ [][Next]_vars
\* Every visit and every command of a call has a timeout, so a call goes on.
FairSpec == Spec /\ WF_vars(CallStep)

----------------------------------------------------------------------------
(* Properties                                                              *)

Receipt == [id : PageIds, order : Seq(PageIds), rest : Nat]

\* Types of all state.
TypeOK ==
  /\ order \in Seq(PageIds) /\ page \in [PageIds -> Page]
  /\ fresh \in 1 .. MaxPages + 1
  /\ \A r \in wire : r.command \in Commands /\ r.nr \in 1 .. MaxCalls
  /\ tab.at \in Places
  /\ u.op \in Operations \cup {"none"}
  /\ u.step \in Steps \cup Recovery \cup {"sent", "idle"}
  /\ lifecycle \in [Keys -> {"none", "running", "blocked", "done"}]
  /\ structural \in [Keys -> {"none", "PENDING", "FAILED", "SUCCEEDED"}]
  /\ receipts \subseteq Receipt
  /\ calls <= MaxCalls /\ faults <= MaxFaults /\ drifts <= MaxDrifts

\* A call never posts the same command twice, whatever fails and whatever its
\* compensation tries again: a command that was posted and not answered may
\* still be carried out.
EachCommandOnce == IsInjective(u.sent)

\* A round trip that goes on to report success has left no clone behind and
\* nothing of it on the wire that could bring about one.
RoundTripRestored ==
  u.op = "fixed" /\ ~u.failed /\ u.step \in {"after", "root", "close", "end"} =>
    /\ u.temp \notin Listed(order)
    /\ \A r \in wire : r.nr # u.nr

\* A request that saves a whole form changes nothing but the field the call
\* means to edit, and the code of a page head is replaced only if it is still
\* the code the call saw -- unless somebody changed the page after the form
\* was loaded.
SavesWhatItSaw ==
  \A r \in wire : r.command = "save" =>
    /\ r.op \in {"settings", "zero"} /\ page[Source].rest = r.body.loaded.rest =>
         r.body.rest = page[Source].rest
    /\ r.op = "head" /\ page[Source].own = r.body.loaded.own =>
         r.body.seen.own = page[Source].own

\* As long as nobody else touches the project, a receipt stands for a clone
\* that is there, unpublished, with the contents it was made with.
ReceiptTrue ==
  drifts = 0 =>
    \A receipt \in receipts :
      /\ receipt.id \in Listed(order)
      /\ Parity(page[receipt.id], receipt)

\* Every call comes to an end, on every failure path.
CallsEnd == u # Idle ~> u = Idle

\* A round trip that fails leaves no clone behind when nothing goes wrong
\* while it cleans up.
CompensationCleans ==
  At("root") /\ u.op = "fixed" /\ u.failed /\ u.mark # None
    => (u.mark = faults + drifts => u.temp \notin Listed(order))
=============================================================================
