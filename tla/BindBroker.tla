----------------------------- MODULE BindBroker -----------------------------
(***************************************************************************)
(* Binding an account through a claimed browser tab: the broker that       *)
(* drives the tab (research/transports/extension-broker.ts), the private   *)
(* pipes (extension-stdio.ts) and the bind child that captures the account *)
(* in two passes (research/inventory.ts, cli.ts).                          *)
(*                                                                         *)
(* The child sends numbered requests, one at a time.  The broker navigates *)
(* the tab and evaluates a probe for each.  A navigation given up for lost *)
(* may still land; the child may give up waiting, crash or be killed; the  *)
(* account may change under the capture.  Whatever happens, the broker     *)
(* brings the tab back to where the user had it.                           *)
(***************************************************************************)
EXTENDS Naturals, Sequences, FiniteSets, SequencesExt

CONSTANTS
  N,         \* projects of the account
  MaxDrifts, \* bound: changes of the account during the capture
  None

ASSUME BrokerAssumption ==
  /\ N \in Nat \ {0}
  /\ MaxDrifts \in Nat
  /\ None \notin Nat

VARIABLES
  account,   \* version of what each place of the editor shows
  tab,       \* the place the claimed tab is at
  flights,   \* places the handlers' navigations are still heading for
  returning, \* the cleanup's own navigation to the root is under way
  pending,   \* context.pendingNavigation
  requests, responses,  \* the two pipes
  shut,      \* the broker closed its channel
  stage, served, index, twoPass, at, request, answer,   \* the serve loop
  child, step, sent, seen, failed, progress, output,   \* the bind child
  run, lifecycle, primary, unrestored, transcript, result,   \* the broker's run
  middle     \* (history) the account between the two passes

browser == <<account, tab, flights, returning, pending>>
pipes == <<requests, responses, shut>>
serving == <<stage, served, index, twoPass, at, request, answer>>
capture == <<child, step, sent, seen, failed, progress, output>>
main == <<run, lifecycle, primary, unrestored, transcript, result>>
vars == <<browser, pipes, serving, capture, main, middle>>

----------------------------------------------------------------------------
(* Places and the child's script                                           *)

\* Project i is place i.
Root == 0
Identity == N + 1
Places == 0 .. N + 1

\* hello, root, identity, projects, identity, projects, restore, close.
Hello == 1
ReadRoot == 2
Identity1 == 3
Identity2 == N + 4
Restore == 2 * N + 5
Close == 2 * N + 6
Steps == 1 .. Close
Project1 == Identity1 + 1 .. Identity2 - 1
Project2 == Identity2 + 1 .. Restore - 1

Operation(k) ==
  CASE k = Hello -> "bind.hello"
    [] k = ReadRoot -> "bind.root"
    [] k \in {Identity1, Identity2} -> "bind.identity"
    [] k \in Project1 \cup Project2 -> "bind.project"
    [] k = Restore -> "bind.restore"
    [] OTHER -> "bind.close"

PlaceOf(k) ==
  CASE k \in {Identity1, Identity2} -> Identity
    [] k \in Project1 -> k - Identity1
    [] k \in Project2 -> k - Identity2
    [] OTHER -> Root

Phase(k) ==
  CASE k = ReadRoot -> "root"
    [] k = Identity1 -> "identity_pass_1"
    [] k \in Project1 -> "project_pass_1"
    [] k = Identity2 -> "identity_pass_2"
    [] k \in Project2 -> "project_pass_2"
    [] k = Restore -> "restore_root"
    [] OTHER -> "none"

Ordinal(k) == IF k \in Project1 \cup Project2 THEN PlaceOf(k) ELSE 0

Phases ==
  {"root", "identity_pass_1", "project_pass_1", "identity_pass_2",
   "project_pass_2", "restore_root", "derive"}
Events == [phase : Phases, state : {"started", "completed"}, ordinal : Nat]
ASSUME EventAssumption == None \notin Events

Event(phase, state, ordinal) ==
  [phase |-> phase, state |-> state, ordinal |-> ordinal]
Report(k, state) ==
  IF Phase(k) = "none" THEN <<>> ELSE <<Event(Phase(k), state, Ordinal(k))>>

Request(k, n) ==
  [sequence |-> n, operation |-> Operation(k), place |-> PlaceOf(k)]
Success == [sequence |-> served, ok |-> TRUE, result |-> answer]
Failure == [sequence |-> served, ok |-> FALSE, result |-> None]

Init ==
  /\ account = [p \in Places |-> 0]
  /\ tab \in Places
  /\ flights = {} /\ returning = FALSE /\ pending = None
  /\ requests = <<>> /\ responses = <<>> /\ shut = FALSE
  /\ stage = "await_hello" /\ served = 0 /\ index = 0 /\ twoPass = FALSE
  /\ at = "receive" /\ request = None /\ answer = None
  /\ child = "none" /\ step = Hello /\ sent = 0
  /\ seen = [k \in Steps |-> None] /\ failed = FALSE
  /\ progress = <<>> /\ output = "none"
  /\ run = "setup" /\ lifecycle = FALSE /\ primary = "none"
  /\ unrestored = FALSE /\ transcript = FALSE /\ result = "none"
  /\ middle = account

----------------------------------------------------------------------------
(* The bind child                                                          *)

\* The child has its pipes open while it is in the script.
Connected == child \in {"send", "wait"}
ChildRuns == child \in {"send", "wait", "derive", "printed"}
ChildAlone == UNCHANGED <<browser, serving, main, shut, middle>>

\* #call: one request, numbered, and then one response.
ChildSend ==
  /\ child = "send"
  /\ sent' = sent + 1
  /\ requests' = Append(requests, Request(step, sent'))
  /\ progress' = progress \o Report(step, "started")
  /\ child' = "wait"
  /\ UNCHANGED <<responses, step, seen, failed, output>>
  /\ ChildAlone

\* remainingProbeTimeout: the capture's own deadline passes before a read.
\* The session is still open, and the restore has its own time limit.
ChildDeadline ==
  /\ child = "send"
  /\ step \in ReadRoot .. Restore - 1
  /\ progress' = progress \o Report(step, "started")
  /\ failed' = TRUE
  /\ step' = Restore
  /\ UNCHANGED <<child, sent, seen, output, requests, responses>>
  /\ ChildAlone

\* The root read again must be the root read first.
RootChanged(version) ==
  step = Restore /\ seen[ReadRoot] \notin {None, version}

ChildReceive ==
  /\ child = "wait" /\ responses # <<>>
  /\ LET r == Head(responses) IN
       /\ r.sequence = sent /\ r.ok
       /\ seen' = [seen EXCEPT ![step] = r.result]
       /\ responses' = Tail(responses)
       /\ progress' = progress \o Report(step, "completed")
       /\ failed' = (failed \/ RootChanged(r.result))
       /\ child' = IF step = Close THEN "derive" ELSE "send"
       /\ step' = IF step = Close THEN step ELSE step + 1
  /\ UNCHANGED <<sent, output, requests>>
  /\ ChildAlone

\* A refusal, a wrong number, a time-out or a broken pipe closes the session
\* for good: no later call, not even the restore, sends anything.
ChildAborts ==
  /\ child = "wait"
  /\ failed' = TRUE
  /\ child' = IF step = Hello THEN "printed" ELSE "derive"
  /\ output' = IF step = Hello THEN "error" ELSE output
  /\ progress' =
       IF step \in ReadRoot .. Restore - 1
       THEN progress \o Report(Restore, "started") ELSE progress
  /\ UNCHANGED <<step, sent, seen, requests, responses>>
  /\ ChildAlone

\* Mutant: only the account is compared.
DriftedAccountOnly == seen[Identity1] # seen[Identity2]

\* SAME_SESSION_ACCOUNT_DRIFT and SAME_SESSION_INVENTORY_DRIFT.
Drifted ==
  \/ seen[Identity1] # seen[Identity2]
  \/ \E k \in Project1 : seen[k] # seen[k + N + 1]

Derivation(outcomes, states) ==
  /\ output' \in outcomes
  /\ progress' = progress \o [i \in 1 .. Len(states) |-> Event("derive", states[i], 0)]

\* A complete capture without drift may still be refused: its inventory is
\* incomplete, the machine key is missing, or the allowlist does not cover it.
ChildDerives ==
  /\ child = "derive"
  /\ child' = "printed"
  /\ \/ failed /\ Derivation({"blocked"}, <<>>)
     \/ ~failed /\ Derivation({"blocked"}, <<"started">>)
     \/ ~failed /\ ~Drifted /\ Derivation({"blocked", "ok"}, <<"started", "completed">>)
  /\ UNCHANGED <<step, sent, seen, failed, requests, responses>>
  /\ ChildAlone

\* An exit before the broker noted the end of the protocol is a failure of
\* the run; so is any end by a signal.
ChildExits ==
  /\ child = "printed"
  /\ child' = "exited"
  /\ lifecycle' = (lifecycle \/ run = "serving")
  /\ UNCHANGED <<browser, pipes, serving, middle, step, sent, seen, failed,
       progress, output, run, primary, unrestored, transcript, result>>

ChildDies ==
  /\ ChildRuns
  /\ child' = "killed"
  /\ lifecycle' = TRUE
  /\ UNCHANGED <<browser, pipes, serving, middle, step, sent, seen, failed,
       progress, output, run, primary, unrestored, transcript, result>>

----------------------------------------------------------------------------
(* The serve loop                                                          *)

ServeAlone == UNCHANGED <<capture, main, account, tab, returning, shut>>

Passes == <<"await_projects_1", "await_projects_2">>

\* The stage checks of the six operations.
InOrder(r) ==
  CASE r.operation = "bind.hello" -> stage = "await_hello"
    [] r.operation = "bind.root" -> stage = "await_root"
    [] r.operation = "bind.identity" -> stage \in {"await_identity_1", "await_identity_2"}
    [] r.operation = "bind.project" -> stage \in Range(Passes)
    [] r.operation = "bind.restore" -> stage \notin {"await_hello", "restored"}
    [] OTHER -> stage = "restored"

\* Only the next project of the root's own list.
Expected(r) == r.operation = "bind.project" => r.place = index + 1

\* context.tab.goto: sent at once, remembered until it settles.
Goto(place) ==
  /\ flights' = flights \cup {place}
  /\ pending' = place

\* Where a request of the right number leaves the handler: refused, waiting
\* for its navigation, or at its next step.
FirstStep(r) ==
  CASE ~InOrder(r) -> "refuseOrder"
    [] ~Expected(r) -> "refuse"
    [] r.operation \in {"bind.identity", "bind.project"} -> "travel"
    [] r.operation = "bind.root" -> "probe"
    [] r.operation = "bind.restore" -> "look"
    [] OTHER -> "reply"

\* parseRequest and the first step of the handler, without an await between.
Receive ==
  /\ at = "receive" /\ requests # <<>> /\ ~shut
  /\ LET r == Head(requests)
         numbered == r.sequence = served + 1
     IN /\ requests' = Tail(requests)
        /\ at' = IF numbered THEN FirstStep(r) ELSE "thrown"
        /\ served' = IF numbered THEN r.sequence ELSE served
        /\ request' = IF numbered THEN r ELSE request
        /\ answer' = IF numbered THEN None ELSE answer
        /\ IF at' = "travel" THEN Goto(r.place) ELSE UNCHANGED <<flights, pending>>
  /\ UNCHANGED <<responses, stage, index, twoPass, middle>>
  /\ ServeAlone

\* The child closed or died, the broker closed, or nothing came in time.
ReceiveFails ==
  /\ at = "receive" /\ run # "setup"
  /\ at' = "thrown"
  /\ UNCHANGED <<flights, pending, requests, responses, stage, served, index,
       twoPass, request, answer, middle>>
  /\ ServeAlone

\* ensureUrlAndProbe of a restore: navigate unless the tab is there.
Look ==
  /\ at = "look"
  /\ IF tab = Root
     THEN at' = "probe" /\ UNCHANGED <<flights, pending>>
     ELSE at' = "travel" /\ Goto(Root)
  /\ UNCHANGED <<requests, responses, stage, served, index, twoPass, request,
       answer, middle>>
  /\ ServeAlone

\* Mutant: a navigation given up is forgotten.
HandlerFailsForgetting ==
  /\ at \in {"look", "travel", "probe"}
  /\ at' = "refuse"
  /\ pending' = None
  /\ UNCHANGED <<flights, requests, responses, stage, served, index,
       twoPass, request, answer, middle>>
  /\ ServeAlone

\* Every wait of a handler is bounded, and every browser call may fail.  A
\* navigation given up stays pending.
HandlerFails ==
  /\ at \in {"look", "travel", "probe"}
  /\ at' = "refuse"
  /\ UNCHANGED <<flights, pending, requests, responses, stage, served, index,
       twoPass, request, answer, middle>>
  /\ ServeAlone

\* Mutant: the index runs on at the end of a pass.
AdvanceKeepingIndex ==
  CASE request.operation = "bind.root" ->
         stage' = "await_identity_1" /\ index' = 0 /\ UNCHANGED twoPass
    [] request.operation = "bind.identity" ->
         /\ stage' = IF stage = "await_identity_1" THEN Passes[1] ELSE Passes[2]
         /\ index' = 0 /\ UNCHANGED twoPass
    [] request.operation = "bind.project" /\ index + 1 < N ->
         index' = index + 1 /\ UNCHANGED <<stage, twoPass>>
    [] request.operation = "bind.project" /\ index + 1 = N ->
         /\ stage' = IF stage = Passes[1] THEN "await_identity_2" ELSE "await_restore"
         /\ index' = index + 1 /\ UNCHANGED twoPass
    [] OTHER ->
         twoPass' = (stage = "await_restore") /\ stage' = "restored" /\ UNCHANGED index

\* What the handlers do after their probe, before they answer.
Advance ==
  CASE request.operation = "bind.root" ->
         stage' = "await_identity_1" /\ index' = 0 /\ UNCHANGED twoPass
    [] request.operation = "bind.identity" ->
         /\ stage' = IF stage = "await_identity_1" THEN Passes[1] ELSE Passes[2]
         /\ index' = 0 /\ UNCHANGED twoPass
    [] request.operation = "bind.project" /\ index + 1 < N ->
         index' = index + 1 /\ UNCHANGED <<stage, twoPass>>
    [] request.operation = "bind.project" /\ index + 1 = N ->
         /\ stage' = IF stage = Passes[1] THEN "await_identity_2" ELSE "await_restore"
         /\ index' = 0 /\ UNCHANGED twoPass
    [] OTHER ->
         twoPass' = (stage = "await_restore") /\ stage' = "restored" /\ UNCHANGED index

\* evaluateNamedProbe: the tab shows the expected place, and the probe reads it.
Probe ==
  /\ at = "probe" /\ tab = request.place
  /\ Advance
  /\ at' = "reply"
  /\ answer' = account[tab]
  /\ middle' = IF stage' = "await_identity_2" /\ stage # stage' THEN account ELSE middle
  /\ UNCHANGED <<flights, pending, requests, responses, served, request>>
  /\ ServeAlone

\* sendBrokerResponse.
Reply ==
  /\ at = "reply" /\ ~shut /\ Connected
  /\ stage' = IF request.operation = "bind.hello" THEN "await_root" ELSE stage
  /\ responses' = Append(responses, Success)
  /\ at' = IF request.operation = "bind.close" THEN "returned" ELSE "receive"
  /\ UNCHANGED <<flights, pending, requests, served, index, twoPass, request,
       answer, middle>>
  /\ ServeAlone

\* The failure is answered, and the capture is over; a request out of order
\* ends the loop.  A close that fails leaves the stage alone.
Refuse ==
  /\ at \in {"refuse", "refuseOrder"} /\ ~shut /\ Connected
  /\ responses' = Append(responses, Failure)
  /\ stage' = IF request.operation = "bind.close" THEN stage ELSE "failed"
  /\ at' = IF at = "refuseOrder" THEN "thrown" ELSE "receive"
  /\ UNCHANGED <<flights, pending, requests, served, index, twoPass, request,
       answer, middle>>
  /\ ServeAlone

\* Neither an answer nor the failure that replaces it can be sent.
SendFails ==
  /\ at \in {"reply", "refuse", "refuseOrder"}
  /\ shut \/ ~Connected
  /\ at' = "thrown"
  /\ UNCHANGED <<flights, pending, requests, responses, stage, served, index,
       twoPass, request, answer, middle>>
  /\ ServeAlone

----------------------------------------------------------------------------
(* The browser                                                             *)

\* A navigation settles: it arrived, or was rejected on either side of it.
Settles(place) ==
  /\ place \in flights
  /\ flights' = flights \ {place}
  /\ pending' = IF pending = place THEN None ELSE pending
  /\ LET awaited == at = "travel" /\ request.place = place IN
       \/ tab' = place /\ at' = IF awaited THEN "probe" ELSE at
       \/ tab' \in {tab, place} /\ at' = IF awaited THEN "refuse" ELSE at
  /\ UNCHANGED <<account, returning, pipes, stage, served, index, twoPass,
       request, answer, capture, main, middle>>

\* The owner changes what a place shows; the newest version is the highest.
Drift(place) ==
  /\ run \in {"serving", "exiting"}
  /\ \E version \in 1 .. MaxDrifts :
       /\ \A p \in Places : account[p] < version
       /\ account' = [account EXCEPT ![place] = version]
  /\ UNCHANGED <<tab, flights, returning, pending, pipes, serving, capture, main, middle>>

----------------------------------------------------------------------------
(* The run                                                                 *)

RunAlone == UNCHANGED <<pipes, serving, account, middle>>
Ends(error) == run' = "done" /\ unrestored' = error

\* createBrokerContext: the tab must be at the exact root; then the child is
\* spawned.  A refusal here restores nothing, for nothing was moved.
Setup ==
  /\ run = "setup"
  /\ \/ tab = Root /\ run' = "serving" /\ child' = "send" /\ UNCHANGED primary
     \/ run' = "done" /\ primary' = "setup" /\ UNCHANGED child
  /\ UNCHANGED <<tab, flights, returning, pending, step, sent, seen, failed,
       progress, output, lifecycle, unrestored, transcript, result>>
  /\ RunAlone

ProtocolCompletes ==
  /\ run = "serving" /\ at = "returned"
  /\ run' = "exiting"
  /\ transcript' = twoPass
  /\ UNCHANGED <<browser, capture, lifecycle, primary, unrestored, result>>
  /\ RunAlone

ServeFails ==
  /\ run = "serving" /\ at = "thrown"
  /\ run' = "cleanup"
  /\ primary' = "protocol"
  /\ UNCHANGED <<browser, capture, lifecycle, unrestored, transcript, result>>
  /\ RunAlone

LifecycleFails ==
  /\ run \in {"serving", "exiting"} /\ lifecycle
  /\ run' = "cleanup"
  /\ primary' = "lifecycle"
  /\ UNCHANGED <<browser, capture, lifecycle, unrestored, transcript, result>>
  /\ RunAlone

\* The timer of the whole run: it fails the run and kills the child.
OverallTimeout ==
  /\ run \in {"serving", "exiting"} /\ ~lifecycle
  /\ lifecycle' = TRUE
  /\ child' = IF ChildRuns THEN "killed" ELSE child
  /\ UNCHANGED <<browser, step, sent, seen, failed, progress, output, run,
       primary, unrestored, transcript, result>>
  /\ RunAlone

\* validateProgressOrder: the phase that must come next, what is under way,
\* and whether the root was restored.
Following(phase, ordinal) ==
  CASE phase = "root" -> <<"identity_pass_1", 1>>
    [] phase = "identity_pass_1" -> <<"project_pass_1", 1>>
    [] phase = "project_pass_1" ->
         IF ordinal < N THEN <<phase, ordinal + 1>> ELSE <<"identity_pass_2", 1>>
    [] phase = "identity_pass_2" -> <<"project_pass_2", 1>>
    [] phase = "project_pass_2" ->
         IF ordinal < N THEN <<phase, ordinal + 1>> ELSE <<"restore_root", 1>>
    [] phase = "restore_root" -> <<"derive", ordinal>>
    [] OTHER -> <<"complete", ordinal>>

Rejected == [ok |-> FALSE]
Noted(phase, ordinal, under, restored) ==
  [ok |-> TRUE, phase |-> phase, ordinal |-> ordinal, under |-> under,
   restored |-> restored]

CheckEvent(lenient, s, e) ==
  IF ~s.ok THEN s
  ELSE IF e.state = "started" /\ e.phase = "restore_root"
  THEN IF ~lenient /\ (s.under # None \/ s.phase # "restore_root") THEN Rejected
       ELSE Noted("restore_root", s.ordinal, e, s.restored)
  ELSE IF e.state = "started"
  THEN IF \/ s.under # None
          \/ s.restored /\ e.phase # "derive"
          \/ e.phase # s.phase
          \/ e.phase \in {"project_pass_1", "project_pass_2"} /\ e.ordinal # s.ordinal
       THEN Rejected ELSE Noted(s.phase, s.ordinal, e, s.restored)
  ELSE IF s.under = None THEN Rejected
  ELSE IF e.phase # s.under.phase \/ e.ordinal # s.under.ordinal THEN Rejected
  ELSE IF e.phase = "derive" /\ ~s.restored THEN Rejected
  ELSE LET n == Following(e.phase, s.ordinal) IN
       Noted(n[1], n[2], None, s.restored \/ e.phase = "restore_root")

Unchecked == Noted("root", 1, None, FALSE)

\* The events checked one after the other.
Checked(lenient, events) ==
  LET after[i \in 0 .. Len(events)] ==
        IF i = 0 THEN Unchecked ELSE CheckEvent(lenient, after[i - 1], events[i])
  IN after[Len(events)]

\* Mutant: a refused capture may not have begun to derive.
ProgressValidSettled(events, lenient) ==
  LET s == Checked(lenient, events)
  IN \/ events = <<>>
     \/ /\ s.ok /\ s.restored
        /\ IF lenient
           THEN (s.under = None /\ s.phase \in {"derive", "complete"})
           ELSE s.under = None /\ s.phase = "complete"

ProgressValid(events, lenient) ==
  LET s == Checked(lenient, events)
      deriving == lenient /\ s.under # None /\ s.phase = "derive"
  IN \/ events = <<>>
     \/ /\ s.ok /\ s.restored
        /\ IF lenient
           THEN deriving \/ (s.under = None /\ s.phase \in {"derive", "complete"})
           ELSE s.under = None /\ s.phase = "complete"

\* assertExtensionBindTranscriptAdmission and the progress check.
Admitted ==
  /\ output \in {"ok", "blocked", "error"}
  /\ output = "ok" => transcript
  /\ ProgressValid(progress, output # "ok")

Admit ==
  /\ run = "exiting" /\ child = "exited" /\ ~lifecycle
  /\ run' = "cleanup"
  /\ IF Admitted
     THEN result' = output /\ UNCHANGED primary
     ELSE primary' = "output" /\ UNCHANGED result
  /\ UNCHANGED <<browser, capture, lifecycle, unrestored, transcript>>
  /\ RunAlone

\* assertSafeBindingOutput: a binding that came too late is refused.
AdmitExpired ==
  /\ run = "exiting" /\ child = "exited" /\ ~lifecycle
  /\ output = "ok"
  /\ run' = "cleanup"
  /\ primary' = "expired"
  /\ UNCHANGED <<browser, capture, lifecycle, unrestored, transcript, result>>
  /\ RunAlone

\* The finally block: the channel is shut, which frees a waiting receive,
\* and the child is killed if it still runs.
Cleanup ==
  /\ run = "cleanup"
  /\ shut' = TRUE
  /\ child' = IF ChildRuns THEN "killed" ELSE child
  /\ run' = "settle"
  /\ UNCHANGED <<browser, requests, responses, serving, middle, step,
       sent, seen, failed, progress, output, lifecycle, primary, unrestored,
       transcript, result>>

\* Mutant: the cleanup does not wait.
CleanupSettledUnasked ==
  /\ run = "settle"
  /\ run' = "look"
  /\ UNCHANGED <<browser, capture, lifecycle, primary, unrestored, transcript, result>>
  /\ RunAlone

\* restoreExactRootOutOfBand waits for the pending navigation.  One that does
\* not settle in time forbids the restore.
CleanupSettled ==
  /\ run = "settle" /\ pending = None
  /\ run' = "look"
  /\ UNCHANGED <<browser, capture, lifecycle, primary, unrestored, transcript, result>>
  /\ RunAlone

\* Mutant: the wait for the pending navigation is not bounded.
CleanupUnsettledUnbounded ==
  /\ run = "settle" /\ pending \notin Places \cup {None}
  /\ Ends(TRUE)
  /\ UNCHANGED <<browser, capture, lifecycle, primary, transcript, result>>
  /\ RunAlone

CleanupUnsettled ==
  /\ run = "settle" /\ pending # None
  /\ Ends(TRUE)
  /\ UNCHANGED <<browser, capture, lifecycle, primary, transcript, result>>
  /\ RunAlone

CleanupLook ==
  /\ run = "look"
  /\ run' = IF tab = Root THEN "probe" ELSE "return"
  /\ returning' = (tab # Root)
  /\ UNCHANGED <<account, tab, flights, pending, capture, lifecycle, primary,
       unrestored, transcript, result>>
  /\ RunAlone

CleanupReturns ==
  /\ returning
  /\ returning' = FALSE
  /\ \/ tab' = Root /\ run' = IF run = "return" THEN "probe" ELSE run
     \/ tab' \in {tab, Root} /\ run' = run
  /\ UNCHANGED <<account, flights, pending, capture, lifecycle, primary,
       unrestored, transcript, result>>
  /\ RunAlone

\* The root is probed twice, with a pause between.
CleanupProbe ==
  /\ run \in {"probe", "reprobe"} /\ tab = Root
  /\ IF run = "probe" THEN run' = "reprobe" /\ UNCHANGED unrestored ELSE Ends(FALSE)
  /\ UNCHANGED <<browser, capture, lifecycle, primary, transcript, result>>
  /\ RunAlone

CleanupFails ==
  /\ run \in {"look", "return", "probe", "reprobe"}
  /\ Ends(TRUE)
  /\ UNCHANGED <<browser, capture, lifecycle, primary, transcript, result>>
  /\ RunAlone

----------------------------------------------------------------------------
ChildStep ==
  \/ ChildSend \/ ChildDeadline \/ ChildReceive \/ ChildAborts
  \/ ChildDerives \/ ChildExits \/ ChildDies
ServeStep ==
  \/ Receive \/ ReceiveFails \/ Look \/ HandlerFails \/ Probe \/ Reply
  \/ Refuse \/ SendFails
RunStep ==
  \/ Setup \/ ProtocolCompletes \/ ServeFails \/ LifecycleFails \/ OverallTimeout
  \/ Admit \/ AdmitExpired \/ Cleanup \/ CleanupSettled \/ CleanupUnsettled \/ CleanupLook
  \/ CleanupProbe \/ CleanupFails
BrowserStep ==
  \/ \E p \in Places : Settles(p) \/ Drift(p)
  \/ CleanupReturns

Next == ChildStep \/ ServeStep \/ RunStep \/ BrowserStep
Spec == Init /\ [][Next]_vars

\* The run's own continuations and timers; nothing of the child, of the
\* handlers or of the browser.
FairSpec == Spec /\ WF_vars(RunStep)

----------------------------------------------------------------------------
(* Properties                                                              *)

Versions == 0 .. MaxDrifts \cup {None}

\* The variables keep their types.
TypeOK ==
  /\ account \in [Places -> 0 .. MaxDrifts] /\ middle \in [Places -> 0 .. MaxDrifts]
  /\ tab \in Places /\ flights \subseteq Places /\ returning \in BOOLEAN
  /\ pending \in Places \cup {None}
  /\ \A i \in 1 .. Len(requests) : requests[i] \in {Request(k, n) : k, n \in Steps}
  /\ \A i \in 1 .. Len(responses) :
        responses[i] \in [sequence : Steps, ok : BOOLEAN, result : Versions]
  /\ request \in {Request(k, n) : k, n \in Steps} \cup {None} /\ answer \in Versions
  /\ served \in 0 .. Close /\ step \in Steps /\ index \in 0 .. N - 1
  /\ seen \in [Steps -> Versions]
  /\ {shut, twoPass, failed, lifecycle, unrestored, transcript} \subseteq BOOLEAN

\* The tab is given back: a run that does not report a failed restore leaves
\* it at the root the user had open, and nothing that still travels can take
\* it away again (restoreExactRootOutOfBand, the finally block of
\* runExtensionBindBroker).
GivenBack ==
  run = "done" /\ primary # "setup" /\ ~unrestored =>
    tab = Root /\ flights \subseteq {Root}

\* The cleanup waits for one navigation, the last one it was told of: there
\* must never be another one that still travels (context.pendingNavigation).
NavigationTracked == flights \subseteq {pending}

\* What is bound existed: the two passes agree only if everything they read
\* was the account's state at one moment, the one between them.
BoundExisted ==
  result = "ok" =>
    \A k \in ReadRoot .. Restore : seen[k] = middle[PlaceOf(k)]

\* The broker's checks of progress and transcript never refuse what the
\* child of this repository prints.
OutputAdmitted == primary # "output"

\* Every run ends, whatever becomes of the child, its handlers and the tab.
RunEnds == <>(run = "done")

=============================================================================
