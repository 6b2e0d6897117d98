--------------------------- MODULE EditorSession ---------------------------
(***************************************************************************)
(* One browser tab of the editor, the lease a call holds on it             *)
(* (control/browser-authority.ts) and the fixed commands the call runs in  *)
(* it (research/browser-session.ts, over research/cdp-client.ts).          *)
(*                                                                         *)
(* A call is a script of steps: visits, which load a document and check    *)
(* it, and commands, which run inside the document, check it once more and *)
(* post a request.  A command that is not answered in time fails for the   *)
(* call, its request stays on the wire.  Meanwhile colleagues change the   *)
(* project and whoever sits at the machine may drive the tab away.  The    *)
(* commands of this module save one field of a page; PageLifecycle adds    *)
(* the ones that change the project's list of pages.                       *)
(***************************************************************************)
EXTENDS Naturals, Sequences, SequencesExt

CONSTANTS
  Keys,       \* idempotency keys of the calls that change the page list
  MaxPages,   \* bound: page ids are 1 .. MaxPages, handed out in order
  MaxCalls,   \* bound: calls that get the lease
  MaxFaults,  \* bound: steps and calls that fail, requests refused, deaths
  MaxDrifts,  \* bound: changes made by somebody else
  None

ASSUME BoundsAssumption ==
  /\ MaxPages \in Nat \ {0} /\ MaxCalls \in Nat
  /\ MaxFaults \in Nat /\ MaxDrifts \in Nat

\* No page is nothing.
ASSUME NoneAssumption == None \notin Nat

VARIABLES
  order,      \* the project's pages, as the server lists them
  page,       \* what the server holds of every page
  fresh,      \* the next page id
  wire,       \* requests posted and not yet carried out
  tab,        \* the document in the tab
  u,          \* the call holding the lease, or Idle
  lifecycle,  \* what the fixed round trip remembers of every key
  structural, \* what the structural journal remembers of every key
  receipts,   \* reference pages whose cleanup nobody has begun
  calls, faults, drifts

server == <<order, page, fresh>>
memory == <<lifecycle, structural, receipts>>
bounds == <<calls, faults, drifts>>
vars == <<server, wire, tab, u, memory, bounds>>

Source == 1
PageIds == 1 .. MaxPages

\* A page: the field this code edits, all the rest, and the published flag.
Page == [own : Nat, rest : Nat, live : BOOLEAN]
Blank == [own |-> 0, rest |-> 0, live |-> FALSE]
Edited == MaxDrifts + 1   \* the value every call writes

----------------------------------------------------------------------------
(* The tab                                                                 *)

Places == {"root", "project", "editor", "form", "elsewhere"}
Tab(at, id, list, form) == [at |-> at, id |-> id, list |-> list, form |-> form]
Root == Tab("root", None, <<>>, None)
Elsewhere == Tab("elsewhere", None, <<>>, None)
ProjectDocument == Tab("project", None, order, None)
EditorDocument(id) == Tab("editor", id, <<>>, page[id])

----------------------------------------------------------------------------
(* Calls                                                                   *)

Forms == {"settings", "zero", "head"}
Saves == Forms \cup {"standard", "t123", "publish"}
Structural == {"create", "cleanup", "template"}
Operations == Saves \cup Structural \cup {"fixed"}

Script(op) ==
  CASE op = "fixed" ->
         <<"check", "base", "source", "ready", "duplicate", "twin", "temp",
           "aligned", "sort", "sorted", "unsort", "unsorted", "delete",
           "gone", "after", "root", "close", "end">>
    [] op = "create" ->
         <<"base", "source", "ready", "duplicate", "delta", "temp", "after",
           "root", "file", "close", "rebind", "end">>
    [] op = "cleanup" ->
         <<"match", "source", "temp", "ready", "delete", "absent", "after",
           "root", "close", "rebind", "end">>
    [] op = "template" ->
         <<"before", "add", "added", "root", "close", "end">>
    [] op \in {"settings", "zero"} ->
         <<"snap", "reread", "open", "save", "shut", "root", "proof", "close",
           "end">>
    [] op = "head" ->
         <<"snap", "reread", "open", "save", "root", "proof", "close", "end">>
    [] op = "publish" -> <<"snap", "reread", "open", "save", "close", "end">>
    [] op \in {"standard", "t123"} ->
         <<"snap", "reread", "save", "proof", "close", "end">>
    [] OTHER -> <<>>

Steps == UNION {ToSet(Script(op)) : op \in Operations}
Recovery == {"look", "resort", "relook", "redelete"}
Commands == {"duplicate", "sort", "unsort", "delete", "add", "save"}

\* No call holds the lease.
Idle ==
  [op |-> "none", step |-> "idle", key |-> None, nr |-> 0, failed |-> FALSE,
   owned |-> {}, seen |-> Blank, base |-> <<>>, temp |-> None, receipt |-> None,
   cur |-> <<>>, sent |-> <<>>, answer |-> None, made |-> None,
   sortTried |-> FALSE,
   deleteTried |-> FALSE, mark |-> None]

At(step) == u.step = step
Following(step) ==
  LET script == Script(u.op)
  IN  script[1 + CHOOSE i \in DOMAIN script : script[i] = step]
Has(step) == step \in ToSet(Script(u.op))

\* The call goes on to the next step of its script, having learnt some fields.
Advance(call) == u' = [call EXCEPT !.step = Following(u.step)]

\* What is done of the finally blocks when this step fails.
Finally ==
  IF u.step \in {"check", "snap", "reread", "file", "root", "proof"} THEN "close"
  ELSE IF u.op = "fixed" /\ u.temp # None THEN "look"
  ELSE IF Has("shut") /\ ~At("shut") THEN "shut"
  ELSE IF Has("root") THEN "root" ELSE "close"

\* What was only known to the steps that are cut short is gone.
Thrown(call) ==
  [call EXCEPT !.step = Finally, !.failed = TRUE, !.owned = {}, !.seen = Blank,
     !.base = <<>>, !.receipt = None, !.cur = <<>>, !.answer = None,
     !.made = None]
Fail == u' = Thrown(u)
Fault == faults < MaxFaults /\ faults' = faults + 1

----------------------------------------------------------------------------
(* Visits                                                                  *)

\* The forms in which a field is edited, as they show the page when loaded.
SettingsForm == page[Source]
ZeroForm == page[Source]
HeadForm == [Blank EXCEPT !.own = page[Source].own]
FormDocument ==
  Tab("form", Source, <<>>,
      CASE u.op = "settings" -> SettingsForm
        [] u.op = "zero" -> ZeroForm
        [] OTHER -> HeadForm)

\* The document a visit loads, or the tab it leaves behind.
Loads(step) ==
  CASE step \in {"base", "ready", "twin", "aligned", "sorted", "unsorted",
                 "gone", "delta", "match", "absent", "look", "relook"} ->
         ProjectDocument
    [] step \in {"check", "source", "after", "before", "added"} ->
         EditorDocument(Source)
    [] step = "temp" -> EditorDocument(u.temp)
    [] step = "open" -> IF u.op = "publish" THEN EditorDocument(Source)
                        ELSE FormDocument
    [] step \in {"snap", "reread", "proof"} ->
         IF u.op \in Forms THEN Root ELSE EditorDocument(Source)
    [] OTHER -> Root

----------------------------------------------------------------------------
(* Saving one field                                                        *)

\* What the lease demands of its own reading of the page, after the adapter's.
RecordFresh(found) == u.op = "standard" => found.own # Edited
ZeroFresh(found) == found.own # Edited /\ found.rest = u.seen.rest
SettingsFresh(found) == found.own # Edited /\ found.rest = u.seen.rest
HeadFresh(found) == found.own # Edited /\ found.own = u.seen.own

Fresh(found) ==
  CASE u.op = "zero" -> ZeroFresh(found)
    [] u.op = "settings" -> SettingsFresh(found)
    [] u.op = "head" -> HeadFresh(found)
    [] OTHER -> RecordFresh(found)

\* snap is the adapter's reading, reread the lease's, open loads the document
\* the save runs in and proof reads back what has become of it.
SaveVisits == {"snap", "reread", "open", "proof"}
SaveVisit ==
  /\ u.step \in SaveVisits
  /\ tab' = Loads(u.step)
  /\ IF At("reread") => Fresh(page[Source])
     THEN Advance([u EXCEPT !.seen = IF At("snap") THEN page[Source] ELSE @])
     ELSE Fail
  /\ UNCHANGED <<server, wire, memory, bounds>>

\* The last look a save takes, inside the document.
InEditor == tab.at = "editor" /\ tab.id = Source
InRecord == InEditor
InPublication == InEditor
InHead(form) == form.own # Edited /\ form.own = u.seen.own
InZero(form) == form.own # Edited /\ form.rest = u.seen.rest

\* Mutant: the form is posted as it was planned, whatever it holds by now.
InSettingsAnyRest(form) == form.own # Edited

InSettings(form) == form.own # Edited /\ form.rest = u.seen.rest

InDocument ==
  CASE u.op = "publish" -> InPublication
    [] u.op \in {"standard", "t123"} -> InRecord
    [] tab.at # "form" -> FALSE
    [] u.op = "zero" -> InZero(tab.form)
    [] u.op = "settings" -> InSettings(tab.form)
    [] OTHER -> InHead(tab.form)

\* A form is posted as a whole, everything else field by field.
Request(command, body) ==
  [command |-> command, nr |-> u.nr, op |-> u.op, body |-> body]
SaveBody ==
  [loaded |-> tab.form, seen |-> u.seen,
   rest |-> IF u.op \in {"settings", "zero"} THEN u.seen.rest ELSE None]

Post(request) ==
  /\ wire' = wire \cup {request}
  /\ u' = [u EXCEPT !.step = "sent", !.sent = Append(@, u.step),
             !.answer = None]

SendSave ==
  /\ At("save")
  /\ IF InDocument THEN Post(Request("save", SaveBody))
     ELSE Fail /\ UNCHANGED wire
  /\ UNCHANGED <<server, tab, memory, bounds>>

Saved(r) ==
  IF r.op = "publish" THEN [page[Source] EXCEPT !.live = TRUE]
  ELSE [page[Source] EXCEPT !.own = Edited,
          !.rest = IF r.body.rest = None THEN @ ELSE r.body.rest]

----------------------------------------------------------------------------
(* Answers                                                                 *)

\* The last command posted, whose answer the call waits for.
Waiting == At("sent")
LastSent == u.sent[Len(u.sent)]
Waits(r) == Waiting /\ u.nr = r.nr /\ LastSent = r.command

Answered(r, answer, made) ==
  u' = IF Waits(r) THEN [u EXCEPT !.answer = answer, !.made = made] ELSE u

LandSave(r) ==
  /\ r \in wire /\ r.command = "save"
  /\ page' = [page EXCEPT ![Source] = Saved(r)]
  /\ wire' = wire \ {r}
  /\ Answered(r, "done", None)
  /\ UNCHANGED <<order, fresh, tab, memory, bounds>>

\* The server does not carry a request out.  What the answer says of that is
\* read by nobody but for its status: a save reports it as its outcome, any
\* other command takes a 2xx for done and the rest for an error.  A duplicate
\* must be answered with the new page's id.
Refuse(r) ==
  /\ r \in wire
  /\ Fault
  /\ wire' = wire \ {r}
  /\ \E answer \in {"done", "refused"} :
       /\ r.command = "duplicate" => answer = "refused"
       /\ Answered(r, answer, None)
  /\ UNCHANGED <<server, tab, memory, calls, drifts>>

\* Mutant: CdpConnection.send waits for its answer for ever.
LapseNever == FALSE

\* CdpConnection.send gives up on its answer; the document does not.
Lapse ==
  /\ Waiting /\ u.answer = None /\ ~u.failed
  /\ Fail
  /\ UNCHANGED <<server, wire, tab, memory, bounds>>

SaveAnswered ==
  /\ Waiting /\ LastSent = "save" /\ u.answer # None
  /\ u' = [u EXCEPT !.step = Following("save"), !.answer = None]
  /\ UNCHANGED <<server, wire, tab, memory, bounds>>

----------------------------------------------------------------------------
(* The end of every call                                                   *)

\* The popup of a form is closed in the document that shows it.
Shut ==
  /\ At("shut")
  /\ u' = [u EXCEPT !.step = "root"]
  /\ UNCHANGED <<server, wire, tab, memory, bounds>>

\* restoreRoot(), the session's own.
RestoreRoot ==
  /\ At("root")
  /\ tab' = Root
  /\ u' = [u EXCEPT !.step = IF u.failed THEN "close" ELSE Following("root")]
  /\ UNCHANGED <<server, wire, memory, bounds>>

\* A visit, restoring the root or closing the popup fails: the probe times out
\* or the connection is gone.  The document may have been loaded all the same.
Visits == Steps \ (Commands \cup {"file", "close", "rebind", "end"})
StepFails ==
  /\ u.step \in Visits
  /\ Fault
  /\ tab' \in {tab, Loads(u.step)}
  /\ Fail
  /\ UNCHANGED <<server, wire, memory, calls, drifts>>

\* The lease is closed: the root is restored once more and the connection
\* dropped.  When the root cannot be restored the call has failed.
Close ==
  /\ At("close")
  /\ tab' = Root
  /\ u' = [u EXCEPT !.step = IF u.failed THEN "end" ELSE Following("close")]
  /\ UNCHANGED <<server, wire, memory, bounds>>

CloseFails ==
  /\ At("close")
  /\ Fault
  /\ u' = [u EXCEPT !.step = "end", !.failed = TRUE]
  /\ UNCHANGED <<server, wire, tab, memory, calls, drifts>>
=============================================================================
