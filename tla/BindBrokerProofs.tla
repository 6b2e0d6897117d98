-------------------------- MODULE BindBrokerProofs --------------------------
(***************************************************************************)
(* Proofs about BindBroker for every number of projects and of changes of  *)
(* the account: the navigation the cleanup waits for is the only one that  *)
(* travels, the tab is given back, what is bound existed, and the checks   *)
(* of the child's output never refuse what this child prints.              *)
(***************************************************************************)
EXTENDS BindBroker, TLAPS

----------------------------------------------------------------------------
(* Types                                                                   *)

Operations == {"bind.hello", "bind.root", "bind.identity", "bind.project",
               "bind.restore", "bind.close"}
Requests == {Request(k, n) : k, n \in Steps}
Responses == [sequence : Steps, ok : BOOLEAN, result : Versions]

\* A handler is at work on a request.
Busy == {"look", "travel", "probe", "reply", "refuse", "refuseOrder"}


BrowserTyped ==
  /\ account \in [Places -> 0 .. MaxDrifts] /\ middle \in [Places -> 0 .. MaxDrifts]
  /\ tab \in Places /\ flights \subseteq Places /\ returning \in BOOLEAN
  /\ pending \in Places \cup {None}

PipesTyped == requests \in Seq(Requests) /\ responses \in Seq(Responses)

ServeTyped ==
  /\ request \in Requests \cup {None} /\ answer \in Versions
  /\ served \in 0 .. Close /\ index \in 0 .. N - 1 /\ twoPass \in BOOLEAN
  /\ at \in Busy => request \in Requests /\ served \in Steps

\* A number is never ahead of the step it was given for.
ChildTyped ==
  /\ step \in Steps /\ sent \in 0 .. Close
  /\ seen \in [Steps -> Versions] /\ failed \in BOOLEAN
  /\ child \in {"none", "send"} => sent < step
  /\ child = "wait" => sent <= step
  /\ run = "setup" => child = "none"

MainTyped == {shut, lifecycle, unrestored, transcript} \subseteq BOOLEAN

Typed == BrowserTyped /\ PipesTyped /\ ServeTyped /\ ChildTyped /\ MainTyped

LEMMA PlaceType ==
  ASSUME NEW k \in Steps
  PROVE  PlaceOf(k) \in Places /\ Operation(k) \in Operations
BY BrokerAssumption DEF PlaceOf, Places, Operation, Operations, Steps, Close,
   Identity1, Identity2, Project1, Project2, Identity, Root, Restore, Hello,
   ReadRoot

LEMMA RequestType ==
  ASSUME NEW k \in Steps, NEW n \in Steps
  PROVE  Request(k, n) \in Requests
BY DEF Requests

LEMMA RequestFields ==
  ASSUME NEW r \in Requests
  PROVE  r.sequence \in Steps /\ r.place \in Places /\ r.operation \in Operations
<1>1. PICK k \in Steps, n \in Steps : r = Request(k, n)
  BY DEF Requests
<1> QED
  BY <1>1, PlaceType DEF Request

LEMMA NoneFacts ==
  /\ None \notin Places /\ None \notin Steps /\ Steps \subseteq Nat
  /\ Close \in Nat /\ Hello \in Steps
  /\ Close \in Steps /\ Root \in Places
  /\ None \in Versions /\ Nat \cap Versions = 0 .. MaxDrifts
BY BrokerAssumption DEF Places, Steps, Close, Identity, Hello, Root, Versions

LEMMA TypedTypes == Typed => TypeOK
<1> SUFFICES ASSUME Typed PROVE TypeOK
  OBVIOUS
<1>1. /\ \A i \in 1 .. Len(requests) : requests[i] \in Requests
      /\ \A i \in 1 .. Len(responses) : responses[i] \in Responses
  BY DEF Typed, PipesTyped
<1> QED
  BY <1>1 DEF Typed, BrowserTyped, ServeTyped, ChildTyped, MainTyped, TypeOK,
     Requests, Responses

LEMMA TypedInit == Init => Typed
<1> SUFFICES ASSUME Init PROVE Typed
  OBVIOUS
<1>1. BrowserTyped
  BY BrokerAssumption, NoneFacts DEF Init, BrowserTyped, Places, Identity
<1>2. PipesTyped
  BY DEF Init, PipesTyped
<1>3. ServeTyped
  <2>1. 0 \in 0 .. Close /\ 0 \in 0 .. N - 1
    BY BrokerAssumption, NoneFacts
  <2> QED
    BY <2>1, NoneFacts DEF Init, ServeTyped, Busy
<1>4. ChildTyped
  <2>1. 0 \in 0 .. Close /\ 0 < Hello
    BY NoneFacts DEF Hello
  <2> QED
    BY <2>1, NoneFacts DEF Init, ChildTyped
<1>5. MainTyped
  BY DEF Init, MainTyped
<1> QED
  BY <1>1, <1>2, <1>3, <1>4, <1>5 DEF Typed

\* The steps of the child leave everything but its own state and the pipes.
LEMMA ChildTypedStep ==
  ASSUME Typed, ChildStep
  PROVE  Typed'
<1>1. BrowserTyped' /\ ServeTyped'
  BY DEF ChildStep, Typed, BrowserTyped, ServeTyped, ChildSend, ChildDeadline,
     ChildReceive, ChildAborts, ChildDerives, ChildExits, ChildDies, ChildAlone,
     browser, serving
<1>2. MainTyped'
  BY DEF ChildStep, Typed, MainTyped, ChildSend, ChildDeadline, ChildReceive,
     ChildAborts, ChildDerives, ChildExits, ChildDies, ChildAlone, main, pipes
<1>3. PipesTyped' /\ ChildTyped'
  <2> USE DEF Typed, ChildTyped, PipesTyped
  <2>1. CASE ChildSend
    <3>1. sent + 1 \in Steps /\ sent + 1 <= step
      BY <2>1, NoneFacts DEF ChildSend, Steps
    <3>2. Request(step, sent + 1) \in Requests
      BY <3>1, RequestType
    <3> QED
      BY <2>1, <3>1, <3>2, NoneFacts DEF ChildSend, Steps, ChildAlone, main
  <2>2. CASE ChildDeadline
    BY <2>2, BrokerAssumption DEF ChildDeadline, Steps, ReadRoot, Restore, Close,
       ChildAlone, main
  <2>3. CASE ChildReceive
    <3>1. Head(responses) \in Responses /\ Tail(responses) \in Seq(Responses)
      BY <2>3 DEF ChildReceive
    <3>2. Head(responses).result \in Versions
      BY <3>1 DEF Responses
    <3>3. PipesTyped'
      BY <2>3, <3>1 DEF ChildReceive
    <3>4. seen' \in [Steps -> Versions]
      BY <2>3, <3>2 DEF ChildReceive
    <3>5. /\ step' \in Steps /\ sent' \in 0 .. Close
          /\ child' \in {"none", "send"} => sent' < step'
          /\ child' # "wait" /\ run' # "setup"
      BY <2>3, NoneFacts DEF ChildReceive, Steps, ChildAlone, main
    <3>6. failed' \in BOOLEAN
      BY <2>3 DEF ChildReceive, RootChanged
    <3> QED
      BY <3>3, <3>4, <3>5, <3>6
  <2>4. CASE ChildAborts
    BY <2>4 DEF ChildAborts, ChildAlone, main
  <2>5. CASE ChildDerives
    BY <2>5 DEF ChildDerives, ChildAlone, main
  <2>6. CASE ChildExits \/ ChildDies
    BY <2>6 DEF ChildExits, ChildDies, ChildRuns, pipes
  <2> QED
    BY <2>1, <2>2, <2>3, <2>4, <2>5, <2>6 DEF ChildStep
<1> QED
  BY <1>1, <1>2, <1>3 DEF Typed

\* The steps of the serve loop leave the child, the account and the run.
LEMMA ServeTypedStep ==
  ASSUME Typed, ServeStep
  PROVE  Typed'
<1>1. ServeAlone
  BY DEF ServeStep, Receive, ReceiveFails, Look, HandlerFails, Probe, Reply,
     Refuse, SendFails
<1>2. ChildTyped' /\ MainTyped'
  BY <1>1 DEF ServeAlone, Typed, ChildTyped, MainTyped, capture, main
<1>3. CASE Receive
  <2>1. Head(requests) \in Requests /\ Tail(requests) \in Seq(Requests)
    BY <1>3 DEF Receive, Typed, PipesTyped
  <2>2. Head(requests).sequence \in Steps /\ Head(requests).place \in Places
    BY <2>1, RequestFields
  <2>3. BrowserTyped'
    BY <1>1, <1>3, <2>2 DEF Receive, ServeAlone, Goto, Typed, BrowserTyped
  <2>4. PipesTyped'
    BY <1>3, <2>1 DEF Receive, Typed, PipesTyped
  <2>5. ServeTyped'
    BY <1>3, <2>1, <2>2, NoneFacts DEF Receive, Typed, ServeTyped, Versions,
       Steps, Busy
  <2> QED
    BY <1>2, <2>3, <2>4, <2>5 DEF Typed
<1>4. CASE Look
  <2>1. BrowserTyped'
    BY <1>1, <1>4, NoneFacts DEF Look, ServeAlone, Goto, Typed, BrowserTyped
  <2>2. PipesTyped' /\ ServeTyped'
    BY <1>4 DEF Look, Typed, PipesTyped, ServeTyped, Busy
  <2> QED
    BY <1>2, <2>1, <2>2 DEF Typed
<1>5. CASE Probe
  <2>1. BrowserTyped'
    BY <1>1, <1>5 DEF Probe, ServeAlone, Typed, BrowserTyped
  <2>2. PipesTyped'
    BY <1>5 DEF Probe, Typed, PipesTyped
  <2>3. answer' \in Versions
    BY <1>5 DEF Probe, Typed, BrowserTyped, Versions
  <2>4. index' \in 0 .. N - 1 /\ twoPass' \in BOOLEAN
    <3>1. index \in 0 .. N - 1 /\ twoPass \in BOOLEAN /\ 0 \in 0 .. N - 1
      BY BrokerAssumption DEF Typed, ServeTyped
    <3>2. index + 1 < N => index + 1 \in 0 .. N - 1
      BY <3>1, BrokerAssumption
    <3>3. Advance
      BY <1>5 DEF Probe
    <3> QED
      BY <3>1, <3>2, <3>3 DEF Advance
  <2>5. ServeTyped'
    BY <1>5, <2>3, <2>4 DEF Probe, Typed, ServeTyped, Busy
  <2> QED
    BY <1>2, <2>1, <2>2, <2>5 DEF Typed
<1>6. CASE Reply \/ Refuse
  <2>1. at \in Busy
    BY <1>6 DEF Reply, Refuse, Busy
  <2>2. Success \in Responses /\ Failure \in Responses
    BY <2>1 DEF Typed, ServeTyped, Success, Failure, Responses, Versions
  <2>3. PipesTyped'
    BY <1>6, <2>2 DEF Reply, Refuse, Typed, PipesTyped
  <2>4. ServeTyped' /\ BrowserTyped'
    BY <1>1, <1>6 DEF Reply, Refuse, ServeAlone, Typed, ServeTyped,
       BrowserTyped, Busy
  <2> QED
    BY <1>2, <2>3, <2>4 DEF Typed
<1>7. CASE ReceiveFails \/ HandlerFails \/ SendFails
  BY <1>1, <1>2, <1>7 DEF ReceiveFails, HandlerFails, SendFails, ServeAlone,
     Typed, BrowserTyped, PipesTyped, ServeTyped, Busy
<1> QED
  BY <1>3, <1>4, <1>5, <1>6, <1>7 DEF ServeStep

\* The run leaves the serve loop, the account and, but for the child's end,
\* the child.
LEMMA RunTypedStep ==
  ASSUME Typed, RunStep
  PROVE  Typed'
<1> USE DEF RunStep, Setup, ProtocolCompletes, ServeFails, LifecycleFails,
      OverallTimeout, Admit, AdmitExpired, Cleanup, CleanupSettled,
      CleanupUnsettled, CleanupLook, CleanupProbe, CleanupFails, RunAlone, Ends,
      Typed, browser, pipes, serving, capture
<1>1. BrowserTyped'
  BY DEF BrowserTyped
<1>2. PipesTyped' /\ ServeTyped'
  BY DEF PipesTyped, ServeTyped
<1>3. ChildTyped'
  <2>1. CASE Setup
    BY <2>1 DEF ChildTyped
  <2>2. CASE ~Setup
    BY <2>2 DEF ChildTyped, ChildRuns
  <2> QED
    BY <2>1, <2>2
<1>4. MainTyped'
  BY DEF MainTyped, ServeTyped
<1> QED
  BY <1>1, <1>2, <1>3, <1>4

\* The browser's own steps.
LEMMA BrowserTypedStep ==
  ASSUME Typed, BrowserStep
  PROVE  Typed'
<1>1. CASE \E p \in Places : Settles(p)
  <2> PICK p \in Places : Settles(p)
    BY <1>1
  <2>1. BrowserTyped'
    BY DEF Settles, Typed, BrowserTyped
  <2>2. ServeTyped'
    BY DEF Settles, Typed, ServeTyped, Busy
  <2> QED
    BY <2>1, <2>2 DEF Settles, Typed, PipesTyped, ChildTyped, MainTyped, pipes,
       capture, main
<1>2. CASE \E p \in Places : Drift(p)
  BY <1>2, BrokerAssumption DEF Drift, Typed, BrowserTyped, PipesTyped, ServeTyped,
     ChildTyped, MainTyped, pipes, serving, capture, main
<1>3. CASE CleanupReturns
  BY <1>3, NoneFacts DEF CleanupReturns, RunAlone, Typed, BrowserTyped,
     PipesTyped, ServeTyped, ChildTyped, MainTyped, pipes, serving, capture
<1> QED
  BY <1>1, <1>2, <1>3 DEF BrowserStep

LEMMA TypedStep ==
  ASSUME Typed, [Next]_vars
  PROVE  Typed'
<1>1. CASE UNCHANGED vars
  BY <1>1 DEF vars, browser, pipes, serving, capture, main, Typed, BrowserTyped,
     PipesTyped, ServeTyped, ChildTyped, MainTyped
<1> QED
  BY <1>1, ChildTypedStep, ServeTypedStep, RunTypedStep, BrowserTypedStep
     DEF Next

LEMMA AlwaysTyped == Spec => []Typed
BY TypedInit, TypedStep, PTL DEF Spec

\* Every variable keeps its type, for every number of projects and changes.
THEOREM TypeCorrect == Spec => []TypeOK
BY AlwaysTyped, TypedTypes, PTL

----------------------------------------------------------------------------
(* One request at a time                                                   *)

\* The serve loop waits, or has ended, and nothing it sent off still travels.
Quiet == at \notin Busy /\ (at = "receive" => flights = {})

Exchange ==
  /\ child \in {"none", "send"} => requests = <<>> /\ responses = <<>> /\ Quiet
  /\ requests # <<>> =>
       Len(requests) = 1 /\ Quiet /\ (child = "wait" => responses = <<>>)
  /\ child = "wait" /\ responses # <<>> =>
       Len(responses) = 1 /\ at \notin Busy /\ (Head(responses).ok => Quiet)

\* A handler at work knows where its navigation is heading.
Heading ==
  /\ flights \subseteq {pending} /\ flights \subseteq Places
  /\ at = "travel" => flights \subseteq {request.place}
  /\ at \in {"look", "probe", "reply"} => flights = {}
  /\ at = "look" => request.place = Root

Travelling == Exchange /\ Heading

\* The way back is the root's request.
LEMMA RestorePlace ==
  ASSUME NEW r \in Requests, r.operation = "bind.restore"
  PROVE  r.place = Root
<1>1. PICK k \in Steps, n \in Steps : r = Request(k, n)
  BY DEF Requests
<1>2. Operation(k) = "bind.restore"
  BY <1>1 DEF Request
<1>3. k = Restore
  BY <1>2 DEF Operation
<1>4. k \notin {Identity1, Identity2} \cup Project1 \cup Project2
  BY <1>3, BrokerAssumption DEF Identity1, Identity2, Project1, Project2, Restore
<1> QED
  BY <1>1, <1>4 DEF Request, PlaceOf

LEMMA TravellingInit == Init => Travelling
BY DEF Init, Travelling, Exchange, Heading, Quiet, Busy

LEMMA TravellingStep ==
  ASSUME Typed, Travelling, [Next]_vars
  PROVE  Travelling'
<1>1. CASE ChildStep
  <2>1. Heading'
    BY <1>1 DEF ChildStep, ChildSend, ChildDeadline, ChildReceive, ChildAborts,
       ChildDerives, ChildExits, ChildDies, ChildAlone, browser, serving,
       Travelling, Heading
  <2>2. at' = at /\ flights' = flights
    BY <1>1 DEF ChildStep, ChildSend, ChildDeadline, ChildReceive, ChildAborts,
       ChildDerives, ChildExits, ChildDies, ChildAlone, browser, serving
  <2>3. Quiet' <=> Quiet
    BY <2>2 DEF Quiet
  <2>4. CASE ChildSend
    <3>1. requests = <<>> /\ responses = <<>> /\ Quiet
      BY <2>4 DEF ChildSend, Travelling, Exchange
    <3>2. Len(requests') = 1 /\ responses' = <<>> /\ child' = "wait"
      BY <2>4, <3>1 DEF ChildSend
    <3> QED
      BY <2>1, <2>3, <3>1, <3>2 DEF Travelling, Exchange
  <2>5. CASE ChildReceive
    <3>1. /\ child = "wait" /\ responses # <<>> /\ Head(responses).ok
          /\ responses' = Tail(responses) /\ requests' = requests
          /\ child' # "wait"
      BY <2>5 DEF ChildReceive
    <3>2. Quiet /\ Len(responses) = 1
      BY <3>1 DEF Travelling, Exchange
    <3>3. responses' = <<>>
      BY <3>1, <3>2 DEF Typed, PipesTyped
    <3>4. requests' = <<>>
      BY <3>1 DEF Travelling, Exchange
    <3> QED
      BY <2>1, <2>3, <3>1, <3>2, <3>3, <3>4 DEF Travelling, Exchange
  <2>6. CASE ChildDeadline
    BY <2>1, <2>2, <2>3, <2>6 DEF ChildDeadline, Travelling, Exchange
  <2>7. CASE ChildAborts \/ ChildDerives \/ ChildExits \/ ChildDies
    <3>1. requests' = requests /\ child' \notin {"none", "send", "wait"}
      BY <2>7 DEF ChildAborts, ChildDerives, ChildExits, ChildDies, pipes
    <3> QED
      BY <2>1, <2>3, <3>1 DEF Travelling, Exchange
  <2> QED
    BY <1>1, <2>4, <2>5, <2>6, <2>7 DEF ChildStep
<1>2. CASE Receive
  <2> DEFINE r == Head(requests)
  <2>1. r \in Requests /\ requests # <<>>
    BY <1>2 DEF Receive, Typed, PipesTyped
  <2>2. /\ r.place \in Places
        /\ r.operation = "bind.restore" => r.place = Root
    BY <2>1, RequestFields, RestorePlace
  <2>3. /\ Len(requests) = 1 /\ flights = {}
        /\ child \notin {"none", "send"}
        /\ child = "wait" => responses = <<>>
    BY <1>2, <2>1 DEF Receive, Travelling, Exchange, Quiet
  <2>4. requests' = <<>> /\ responses' = responses /\ child' = child
    BY <1>2, <2>3 DEF Receive, ServeAlone, capture, Typed, PipesTyped
  <2>5. Exchange'
    BY <2>3, <2>4 DEF Exchange
  <2>6. CASE at' # "travel"
    <3>1. flights' = {}
      BY <1>2, <2>3, <2>6 DEF Receive
    <3>2. at' = "look" => FirstStep(r) = "look" /\ request' = r
      BY <1>2 DEF Receive
    <3>3. FirstStep(r) = "look" => r.operation = "bind.restore"
      BY DEF FirstStep
    <3> QED
      BY <2>2, <2>5, <2>6, <3>1, <3>2, <3>3 DEF Heading, Travelling
  <2>7. CASE at' = "travel"
    <3>1. flights' = {r.place} /\ pending' = r.place /\ request' = r
      BY <1>2, <2>3, <2>7 DEF Receive, Goto
    <3> QED
      BY <2>2, <2>5, <2>7, <3>1 DEF Heading, Travelling
  <2> QED
    BY <2>6, <2>7
<1>3. CASE Look
  <2>1. /\ at = "look" /\ flights = {} /\ request' = request
        /\ request.place = Root /\ requests' = requests
        /\ responses' = responses /\ child' = child
    BY <1>3 DEF Look, ServeAlone, capture, Travelling, Heading
  <2>2. at' \in Busy /\ at \in Busy
    BY <1>3 DEF Look, Busy
  <2>3. Exchange'
    BY <2>1, <2>2 DEF Travelling, Exchange, Quiet
  <2>4. Heading'
    BY <1>3, <2>1, NoneFacts DEF Look, Goto, Heading, Travelling
  <2> QED
    BY <2>3, <2>4 DEF Travelling
<1>4. CASE Reply \/ Refuse
  <2>1. /\ at \in Busy /\ child \in {"send", "wait"}
        /\ at' \notin Busy /\ at' # "travel"
        /\ child' = child /\ requests' = requests /\ flights' = flights
        /\ pending' = pending
    BY <1>4 DEF Reply, Refuse, Busy, Connected, ServeAlone, capture
  <2>2. requests = <<>> /\ responses = <<>> /\ child = "wait"
    BY <2>1 DEF Travelling, Exchange, Quiet
  <2>3. Len(responses') = 1
    BY <1>4, <2>2 DEF Reply, Refuse
  <2>4. Head(responses').ok => flights = {}
    <3>1. CASE Reply
      BY <3>1 DEF Reply, Travelling, Heading
    <3>2. CASE Refuse
      BY <3>2, <2>2 DEF Refuse, Failure
    <3> QED
      BY <1>4, <3>1, <3>2
  <2>5. Exchange'
    BY <2>1, <2>2, <2>3, <2>4 DEF Exchange, Quiet
  <2>6. Heading'
    BY <2>1 DEF Heading, Travelling, Busy
  <2> QED
    BY <2>5, <2>6 DEF Travelling
<1>5. CASE ReceiveFails \/ HandlerFails \/ SendFails \/ Probe
  <2>1. /\ requests' = requests /\ responses' = responses /\ child' = child
        /\ flights' = flights /\ pending' = pending
        /\ at' # "receive" /\ at' \notin {"look", "travel"}
        /\ at' \in Busy => at \in Busy
        /\ at' \in {"probe", "reply"} => at = "probe"
    BY <1>5 DEF ReceiveFails, HandlerFails, SendFails, Probe, ServeAlone,
       capture, Busy
  <2>2. Exchange'
    BY <2>1 DEF Travelling, Exchange, Quiet
  <2>3. Heading'
    BY <2>1 DEF Travelling, Heading
  <2> QED
    BY <2>2, <2>3 DEF Travelling
<1>6. CASE RunStep
  <2>1. /\ requests' = requests /\ responses' = responses /\ at' = at
        /\ flights' = flights /\ pending' = pending /\ request' = request
    BY <1>6 DEF RunStep, Setup, ProtocolCompletes, ServeFails, LifecycleFails,
       OverallTimeout, Admit, AdmitExpired, Cleanup, CleanupSettled,
       CleanupUnsettled, CleanupLook, CleanupProbe, CleanupFails, RunAlone,
       Ends, browser, pipes, serving
  <2>2. \/ child' = child
        \/ child = "none" /\ child' = "send"
        \/ child' = "killed"
    BY <1>6 DEF RunStep, Setup, ProtocolCompletes, ServeFails, LifecycleFails,
       OverallTimeout, Admit, AdmitExpired, Cleanup, CleanupSettled,
       CleanupUnsettled, CleanupLook, CleanupProbe, CleanupFails, capture,
       Typed, ChildTyped
  <2>3. Heading'
    BY <2>1 DEF Travelling, Heading
  <2>4. Exchange'
    BY <2>1, <2>2 DEF Travelling, Exchange, Quiet
  <2> QED
    BY <2>3, <2>4 DEF Travelling
<1>7. CASE \E p \in Places : Settles(p)
  <2> PICK p \in Places : Settles(p)
    BY <1>7
  <2>1. p \in flights /\ p = pending /\ flights = {p}
    BY DEF Settles, Travelling, Heading
  <2>2. flights' = {} /\ pending' = None
    BY <2>1 DEF Settles
  <2>3. /\ requests' = requests /\ responses' = responses /\ child' = child
        /\ request' = request
    BY DEF Settles, pipes, capture
  <2>4. at = "travel" => request.place = p /\ at' \in {"probe", "refuse"}
    BY <2>1 DEF Settles, Travelling, Heading
  <2>5. at # "travel" => at' = at
    BY DEF Settles
  <2>6. Exchange'
    BY <2>1, <2>2, <2>3, <2>4, <2>5 DEF Travelling, Exchange, Quiet, Busy
  <2>7. Heading'
    BY <2>1, <2>2, <2>4, <2>5 DEF Travelling, Heading
  <2> QED
    BY <2>6, <2>7 DEF Travelling
<1>8. CASE CleanupReturns \/ (\E p \in Places : Drift(p)) \/ UNCHANGED vars
  BY <1>8 DEF CleanupReturns, Drift, vars, RunAlone, browser, pipes, serving,
     capture, Travelling, Exchange, Heading, Quiet
<1> QED
  BY <1>1, <1>2, <1>3, <1>4, <1>5, <1>6, <1>7, <1>8
     DEF Next, ServeStep, BrowserStep

LEMMA AlwaysTravelling == Spec => []Travelling
<1>1. Typed /\ Travelling /\ [Next]_vars => Travelling'
  BY TravellingStep
<1> QED
  BY <1>1, TravellingInit, AlwaysTyped, PTL DEF Spec

\* The one navigation that still travels is the one the cleanup waits for.
THEOREM NavigationAlwaysTracked == Spec => []NavigationTracked
<1>1. Travelling => NavigationTracked
  BY DEF Travelling, Heading, NavigationTracked
<1> QED
  BY <1>1, AlwaysTravelling, PTL

----------------------------------------------------------------------------
(* Giving the tab back                                                     *)

\* The root is restored, or is being restored.
Restoring ==
  \/ run \in {"look", "return", "probe", "reprobe"}
  \/ run = "done" /\ primary # "setup" /\ ~unrestored

\* After the wait nothing but the way back travels, and no handler sends
\* anything off but to the root.
Returned ==
  /\ run = "settle" \/ Restoring => shut
  /\ Restoring => flights \subseteq {Root}
  /\ run = "done" /\ Restoring => tab = Root

LEMMA ReturnedInit == Init => Returned
BY DEF Init, Returned, Restoring

LEMMA ReturnedStep ==
  ASSUME Typed, Travelling, Returned, [Next]_vars
  PROVE  Returned'
<1>1. CASE ChildStep \/ UNCHANGED vars
  <2>1. /\ UNCHANGED <<run, primary, unrestored, shut, flights, tab>>
    BY <1>1 DEF ChildStep, ChildSend, ChildDeadline, ChildReceive, ChildAborts,
       ChildDerives, ChildExits, ChildDies, ChildAlone, browser, pipes, main, vars
  <2> QED
    BY <2>1 DEF Returned, Restoring
<1>2. CASE ServeStep
  <2>1. UNCHANGED <<run, primary, unrestored, shut, tab>>
    BY <1>2 DEF ServeStep, Receive, ReceiveFails, Look, HandlerFails, Probe,
       Reply, Refuse, SendFails, ServeAlone, main
  <2>2. \/ flights' = flights
        \/ ~shut
        \/ flights' = flights \cup {Root}
    BY <1>2 DEF ServeStep, Receive, ReceiveFails, Look, HandlerFails, Probe,
       Reply, Refuse, SendFails, Goto
  <2> QED
    BY <2>1, <2>2 DEF Returned, Restoring
<1>3. CASE RunStep
  <2>1. flights' = flights /\ tab' = tab
    BY <1>3 DEF RunStep, Setup, ProtocolCompletes, ServeFails, LifecycleFails,
       OverallTimeout, Admit, AdmitExpired, Cleanup, CleanupSettled,
       CleanupUnsettled, CleanupLook, CleanupProbe, CleanupFails, browser
  <2>2. CASE Cleanup
    BY <2>2, <2>1 DEF Cleanup, Returned, Restoring
  <2>3. CASE CleanupSettled
    <3>1. flights = {}
      BY <2>3, NoneFacts DEF CleanupSettled, Travelling, Heading
    <3> QED
      BY <2>3, <2>1, <3>1 DEF CleanupSettled, RunAlone, pipes, Returned, Restoring
  <2>4. CASE CleanupUnsettled \/ CleanupFails
    BY <2>4, <2>1 DEF CleanupUnsettled, CleanupFails, Ends, RunAlone, pipes,
       Returned, Restoring
  <2>5. CASE CleanupLook \/ CleanupProbe
    BY <2>5, <2>1 DEF CleanupLook, CleanupProbe, Ends, RunAlone, pipes,
       Returned, Restoring
  <2>6. CASE \/ Setup \/ ProtocolCompletes \/ ServeFails \/ LifecycleFails
             \/ OverallTimeout \/ Admit \/ AdmitExpired
    BY <2>6, <2>1 DEF Setup, ProtocolCompletes, ServeFails, LifecycleFails,
       OverallTimeout, Admit, AdmitExpired, RunAlone, pipes, Returned, Restoring
  <2> QED
    BY <1>3, <2>2, <2>3, <2>4, <2>5, <2>6 DEF RunStep
<1>4. CASE \E p \in Places : Settles(p)
  <2> PICK p \in Places : Settles(p)
    BY <1>4
  <2>1. p \in flights /\ flights' \subseteq flights /\ tab' \in {tab, p}
        /\ UNCHANGED <<run, primary, unrestored, shut>>
    BY DEF Settles, pipes, main
  <2> QED
    BY <2>1 DEF Returned, Restoring
<1>5. CASE CleanupReturns
  <2>1. /\ tab' \in {tab, Root}
        /\ UNCHANGED <<flights, primary, unrestored, shut>>
        /\ run' = run \/ (run = "return" /\ run' = "probe")
    BY <1>5 DEF CleanupReturns, RunAlone, pipes
  <2> QED
    BY <2>1 DEF Returned, Restoring
<1>6. CASE \E p \in Places : Drift(p)
  BY <1>6 DEF Drift, pipes, main, Returned, Restoring
<1> QED
  BY <1>1, <1>2, <1>3, <1>4, <1>5, <1>6 DEF Next, BrowserStep

\* Whatever becomes of the capture, a run that reports no failed restore
\* leaves the tab at the user's root, with nothing on its way elsewhere.
THEOREM TabGivenBack == Spec => []GivenBack
<1>1. Typed /\ Travelling /\ Returned /\ [Next]_vars => Returned'
  BY ReturnedStep
<1>2. Spec => []Returned
  BY <1>1, ReturnedInit, AlwaysTyped, AlwaysTravelling, PTL DEF Spec
<1>3. Returned => GivenBack
  BY DEF Returned, Restoring, GivenBack
<1> QED
  BY <1>2, <1>3, PTL

----------------------------------------------------------------------------
(* What is bound existed                                                   *)

\* The serve loop expects step k of the child's script next.
Stands(k) ==
  \/ stage = "await_hello" /\ k = Hello
  \/ stage = "await_root" /\ k = ReadRoot
  \/ stage = "await_identity_1" /\ k = Identity1
  \/ stage = "await_projects_1" /\ k = Identity1 + 1 + index
  \/ stage = "await_identity_2" /\ k = Identity2
  \/ stage = "await_projects_2" /\ k = Identity2 + 1 + index
  \/ stage = "await_restore" /\ k = Restore
  \/ stage = "restored" /\ k = Close

\* The first pass is over: middle is the account of that moment.
Passed ==
  stage \in {"await_identity_2", "await_projects_2", "await_restore", "restored"}

\* What step k read is not newer than the moment between the passes if it
\* belongs to the first pass, and not older if it belongs to the second.
Within(k, v, upper, lower) ==
  /\ k \in ReadRoot .. Identity2 - 1 => v \in Nat /\ v <= upper[PlaceOf(k)]
  /\ k \in Identity2 .. Restore => v \in Nat /\ v >= lower[PlaceOf(k)]
Upper == IF Passed THEN middle ELSE account
Bound(k, v) == Within(k, v, Upper, middle)

Grown == \A p \in Places : middle[p] <= account[p]

InStep ==
  /\ child \in {"none", "send"} /\ ~failed => sent = step - 1 /\ Stands(step)
  /\ child = "wait" /\ ~failed => sent = step

\* Where the request of the child's step is, and what the serve loop expects.
Located ==
  child = "wait" /\ ~failed =>
    /\ requests # <<>> => Stands(step) /\ Head(requests) = Request(step, step)
    /\ at \in {"look", "travel", "probe"} =>
         /\ Stands(step) /\ request = Request(step, step)
         /\ step \notin {Hello, Close}
    /\ at = "reply" =>
         /\ request = Request(step, step)
         /\ IF step \in {Hello, Close} THEN Stands(step)
            ELSE Stands(step + 1) /\ Bound(step, answer)
    /\ responses # <<>> /\ Head(responses).ok =>
         IF step = Close THEN at = "returned" /\ Stands(step)
         ELSE Stands(step + 1) /\ Bound(step, Head(responses).result)

Kept ==
  child \in {"none", "send", "wait"} /\ ~failed /\ stage # "failed" =>
    \A k \in ReadRoot .. step - 1 : Bound(k, seen[k])

RootKept ==
  child \in {"none", "send", "wait"} /\ ~failed /\ step = Close =>
    seen[ReadRoot] = seen[Restore]

\* The script is over, and nothing is served any more.
Complete ==
  child \in {"derive", "printed", "exited"} /\ ~failed =>
    /\ at = "returned" /\ stage = "restored"
    /\ \A k \in ReadRoot .. Restore : Bound(k, seen[k])
    /\ seen[ReadRoot] = seen[Restore]

Printed ==
  output = "ok" =>
    /\ child \in {"printed", "exited", "killed"} /\ at = "returned"
    /\ \A k \in ReadRoot .. Restore : seen[k] = middle[PlaceOf(k)]

Faithful ==
  Grown /\ InStep /\ Located /\ Kept /\ RootKept /\ Complete /\ Printed

\* The script's numbers.
LEMMA ScriptOrder ==
  /\ Hello \in Nat /\ ReadRoot \in Nat /\ Identity1 \in Nat /\ Identity2 \in Nat
  /\ Restore \in Nat /\ Close \in Nat
  /\ Hello = 1 /\ ReadRoot = Hello + 1 /\ Identity1 = ReadRoot + 1
  /\ Identity2 = Identity1 + N + 1 /\ Restore = Identity2 + N + 1
  /\ Close = Restore + 1
  /\ Steps = 1 .. Close
BY BrokerAssumption DEF Hello, ReadRoot, Identity1, Identity2, Restore, Close, Steps

\* Where the steps of the two passes read.
LEMMA ScriptPlaces ==
  /\ PlaceOf(ReadRoot) = Root /\ PlaceOf(Restore) = Root
  /\ PlaceOf(Identity1) = Identity /\ PlaceOf(Identity2) = Identity
  /\ \A k \in Project1 : PlaceOf(k) = k - Identity1
  /\ \A k \in Project2 : PlaceOf(k) = k - Identity2
<1>1. /\ {ReadRoot, Restore} \cap ({Identity1, Identity2} \cup Project1 \cup Project2) = {}
      /\ {Identity1, Identity2} \cap (Project1 \cup Project2) = {}
      /\ Project1 \cap Project2 = {}
  BY ScriptOrder, BrokerAssumption DEF Project1, Project2
<1>2. PlaceOf(ReadRoot) = Root /\ PlaceOf(Restore) = Root
  BY <1>1 DEF PlaceOf
<1>3. PlaceOf(Identity1) = Identity /\ PlaceOf(Identity2) = Identity
  BY <1>1 DEF PlaceOf
<1>4. \A k \in Project1 : PlaceOf(k) = k - Identity1
  BY <1>1 DEF PlaceOf
<1>5. \A k \in Project2 : PlaceOf(k) = k - Identity2
  BY <1>1 DEF PlaceOf
<1> QED
  BY <1>2, <1>3, <1>4, <1>5

\* What the steps of the script ask for.
LEMMA ScriptOperations ==
  /\ Operation(Hello) = "bind.hello" /\ Operation(ReadRoot) = "bind.root"
  /\ \A k \in {Identity1, Identity2} : Operation(k) = "bind.identity"
  /\ \A k \in Project1 \cup Project2 : Operation(k) = "bind.project"
  /\ Operation(Restore) = "bind.restore" /\ Operation(Close) = "bind.close"
  /\ \A k \in Steps \ {Hello, Close} : Operation(k) \notin {"bind.hello", "bind.close"}
<1>1. /\ {Hello, ReadRoot, Restore, Close}
           \cap ({Identity1, Identity2} \cup Project1 \cup Project2) = {}
      /\ {Identity1, Identity2} \cap (Project1 \cup Project2) = {}
      /\ Hello # ReadRoot /\ Hello # Restore /\ Hello # Close
      /\ ReadRoot # Restore /\ ReadRoot # Close /\ Restore # Close
  BY ScriptOrder, BrokerAssumption DEF Project1, Project2
<1>2. Operation(Hello) = "bind.hello" /\ Operation(ReadRoot) = "bind.root"
  BY <1>1 DEF Operation
<1>3. \A k \in {Identity1, Identity2} : Operation(k) = "bind.identity"
  BY <1>1 DEF Operation
<1>4. \A k \in Project1 \cup Project2 : Operation(k) = "bind.project"
  BY <1>1 DEF Operation
<1>5. Operation(Restore) = "bind.restore" /\ Operation(Close) = "bind.close"
  BY <1>1 DEF Operation
<1>6. \A k \in Steps \ {Hello, Close} :
        k \in {ReadRoot, Restore, Identity1, Identity2} \cup Project1 \cup Project2
  BY ScriptOrder, BrokerAssumption DEF Project1, Project2
<1> QED
  BY <1>2, <1>3, <1>4, <1>5, <1>6

LEMMA WithinGrows ==
  ASSUME NEW k \in Steps, NEW v,
         NEW upper \in [Places -> 0 .. MaxDrifts],
         NEW later \in [Places -> 0 .. MaxDrifts],
         NEW lower \in [Places -> 0 .. MaxDrifts],
         \A p \in Places : upper[p] <= later[p],
         Within(k, v, upper, lower)
  PROVE  Within(k, v, later, lower)
<1>1. PlaceOf(k) \in Places
  BY PlaceType
<1>2. upper[PlaceOf(k)] <= later[PlaceOf(k)]
  BY <1>1
<1>3. upper[PlaceOf(k)] \in Nat /\ later[PlaceOf(k)] \in Nat
  BY <1>1, BrokerAssumption
<1> QED
  BY <1>2, <1>3 DEF Within

\* While neither middle nor the stage changes, a bound stays one.
LEMMA BoundGrows ==
  ASSUME Typed, UNCHANGED <<middle, stage>>, account' \in [Places -> 0 .. MaxDrifts],
         \A p \in Places : account[p] <= account'[p],
         NEW k \in Steps, NEW v, Within(k, v, Upper, middle)
  PROVE  Within(k, v, Upper', middle')
<1>1. Passed' = Passed
  BY DEF Passed
<1>2. CASE Passed
  BY <1>1, <1>2 DEF Upper
<1>3. CASE ~Passed
  BY <1>1, <1>3, WithinGrows DEF Upper, Typed, BrowserTyped
<1> QED
  BY <1>2, <1>3

LEMMA FaithfulInit == Init => Faithful
<1> SUFFICES ASSUME Init PROVE Faithful
  OBVIOUS
<1>1. Grown
  <2>1. middle = account /\ account = [p \in Places |-> 0]
    BY DEF Init
  <2> QED
    BY <2>1 DEF Grown
<1>2. InStep /\ Located
  BY DEF Init, InStep, Located, Stands, Hello
<1>3. Kept
  <2>1. ReadRoot .. step - 1 = {}
    BY DEF Init, ReadRoot, Hello
  <2> QED
    BY <2>1 DEF Kept
<1>4. RootKept /\ Complete /\ Printed
  BY ScriptOrder, BrokerAssumption DEF Init, RootKept, Complete, Printed
<1> QED
  BY <1>1, <1>2, <1>3, <1>4 DEF Faithful

\* The steps that send, receive, read and print nothing.
SilentChild ==
  \/ child' = child
  \/ child = "none" /\ child' = "send"
  \/ child = "printed" /\ child' = "exited"
  \/ child' = "killed"
SilentServe ==
  \/ at' = at
  \/ at \in {"look", "travel"} /\ at' \in {"travel", "probe"}
  \/ at # "returned" /\ at' \in {"refuse", "thrown"}

LEMMA SilentStep ==
  ASSUME Typed, Faithful, SilentChild, SilentServe,
         UNCHANGED <<step, sent, seen, failed, output, requests, responses, stage,
                     index, request, answer, middle>>,
         account' \in [Places -> 0 .. MaxDrifts],
         \A p \in Places : account[p] <= account'[p]
  PROVE  Faithful'
<1>1. \A k \in Steps : \A v :
        Within(k, v, Upper, middle) => Within(k, v, Upper', middle')
  BY BoundGrows
<1>2. step \in Steps /\ ReadRoot .. step - 1 \subseteq Steps
      /\ ReadRoot .. Restore \subseteq Steps
  BY ScriptOrder DEF Typed, ChildTyped
<1>3. \A k : Stands(k)' <=> Stands(k)
  BY DEF Stands
<1>4. Grown'
  <2> SUFFICES ASSUME NEW p \in Places PROVE middle'[p] <= account'[p]
    BY DEF Grown
  <2>1. /\ middle[p] <= account[p] /\ account[p] <= account'[p]
        /\ middle[p] \in Nat /\ account[p] \in Nat /\ account'[p] \in Nat
    BY BrokerAssumption DEF Faithful, Grown, Typed, BrowserTyped
  <2> QED
    BY <2>1
<1>5. InStep'
  BY <1>3 DEF SilentChild, Faithful, InStep, Stands
<1>6. Located'
  BY <1>1, <1>2 DEF SilentChild, SilentServe, Faithful, Located, Stands, Bound
<1>7. Kept'
  BY <1>1, <1>2 DEF SilentChild, Faithful, Kept, Bound
<1>8. RootKept'
  BY DEF SilentChild, Faithful, RootKept, InStep, Stands
<1>9. Complete'
  BY <1>1, <1>2 DEF SilentChild, SilentServe, Faithful, Complete, Bound
<1>10. Printed'
  BY DEF SilentChild, SilentServe, Faithful, Printed
<1> QED
  BY <1>4, <1>5, <1>6, <1>7, <1>8, <1>9, <1>10 DEF Faithful

LEMMA ChildFaithful ==
  ASSUME Typed, Travelling, Faithful, ChildStep
  PROVE  Faithful'
<1> USE DEF Faithful
<1>1. CASE ChildSend
  <2>1. /\ child = "send" /\ child' = "wait" /\ sent' = sent + 1
        /\ requests' = Append(requests, Request(step, sent'))
        /\ UNCHANGED <<responses, step, seen, failed, output, account, stage,
                       index, at, request, answer, middle>>
    BY <1>1 DEF ChildSend, ChildAlone, browser, serving
  <2>2. requests = <<>> /\ responses = <<>> /\ at \notin Busy
    BY <2>1 DEF Travelling, Exchange, Quiet
  <2>3. ~failed => sent' = step /\ Stands(step)
    BY <2>1, ScriptOrder DEF InStep, Typed, ChildTyped
  <2>4. Head(requests') = Request(step, sent') /\ requests' # <<>>
    BY <2>1, <2>2
  <2>5. InStep'
    BY <2>1, <2>3 DEF InStep
  <2>6. Located'
    BY <2>1, <2>2, <2>3, <2>4 DEF Located, Stands, Busy
  <2>7. Kept'
    BY <2>1 DEF Kept, Bound, Upper, Passed
  <2> QED
    BY <2>1, <2>5, <2>6, <2>7 DEF Grown, RootKept, Complete, Printed
<1>2. CASE ChildDeadline \/ ChildAborts
  <2>1. /\ failed' /\ child \in {"send", "wait"}
        /\ UNCHANGED <<seen, account, middle, at>>
        /\ output' = output \/ output' = "error"
    BY <1>2 DEF ChildDeadline, ChildAborts, ChildAlone, browser, serving
  <2> QED
    BY <2>1 DEF Grown, InStep, Located, Kept, RootKept, Complete, Printed
<1>3. CASE ChildReceive
  <2> DEFINE r == Head(responses)
  <2>1. /\ child = "wait" /\ responses # <<>> /\ r.ok
        /\ seen' = [seen EXCEPT ![step] = r.result]
        /\ responses' = Tail(responses)
        /\ failed' = (failed \/ RootChanged(r.result))
        /\ child' = IF step = Close THEN "derive" ELSE "send"
        /\ step' = IF step = Close THEN step ELSE step + 1
        /\ UNCHANGED <<sent, output, requests, account, stage, index, at, middle>>
    BY <1>3 DEF ChildReceive, ChildAlone, browser, serving
  <2>2. step \in Steps /\ seen \in [Steps -> Versions]
    BY DEF Typed, ChildTyped
  <2> HIDE DEF r
  <2>3. CASE failed'
    BY <2>1, <2>3 DEF Grown, InStep, Located, Kept, RootKept, Complete, Printed
  <2>4. CASE ~failed'
    <3>1. ~failed /\ ~RootChanged(r.result)
      BY <2>1, <2>4
    <3>2. IF step = Close THEN at = "returned" /\ Stands(step)
          ELSE Stands(step + 1) /\ Bound(step, r.result)
      BY <2>1, <3>1 DEF Located, r
    <3>3. stage # "failed"
      BY <3>2 DEF Stands
    <3>4. /\ \A k \in Steps \ {step} : seen'[k] = seen[k]
          /\ seen'[step] = r.result
      BY <2>1, <2>2
    <3>5. \A k \in ReadRoot .. step - 1 : Bound(k, seen[k])
      BY <2>1, <3>1, <3>3 DEF Kept
    <3>6. \A k, v : Bound(k, v)' <=> Within(k, v, Upper, middle)
      BY <2>1 DEF Bound, Upper, Passed
    <3>7. \A k \in ReadRoot .. step - 1 :
            k \in Steps \ {step} /\ Within(k, seen'[k], Upper, middle)
      BY <2>2, <3>4, <3>5, ScriptOrder DEF Bound
    <3>8. sent = step
      BY <2>1, <3>1 DEF InStep
    <3>9. Grown' /\ Located' /\ Printed'
      BY <2>1 DEF Grown, Located, Printed
    <3>10. CASE step = Close
      <4>1. /\ child' = "derive" /\ step' = step
            /\ at' = "returned" /\ stage' = "restored"
        BY <2>1, <3>2, <3>10, ScriptOrder, BrokerAssumption DEF Stands, Typed,
           ServeTyped
      <4>2. \A k \in ReadRoot .. Restore : Bound(k, seen[k])'
        BY <2>1, <3>7, <3>10, ScriptOrder DEF Bound, Upper, Passed
      <4>3. seen'[ReadRoot] = seen'[Restore]
        BY <2>1, <3>1, <3>4, <3>10, ScriptOrder, BrokerAssumption DEF RootKept
      <4> QED
        BY <3>9, <4>1, <4>2, <4>3 DEF InStep, Kept, RootKept, Complete
    <3>11. CASE step # Close
      <4>1. child' = "send" /\ step' = step + 1
        BY <2>1, <3>11
      <4>2. InStep'
        BY <2>1, <2>2, <3>2, <3>8, <3>11, <4>1, ScriptOrder DEF InStep, Stands
      <4>3. Kept'
        <5> SUFFICES ASSUME NEW k \in ReadRoot .. step PROVE Bound(k, seen[k])'
          BY <2>2, <4>1, ScriptOrder DEF Kept
        <5>1. CASE k = step
          BY <2>1, <3>2, <3>4, <3>11, <5>1 DEF Bound, Upper, Passed
        <5>2. CASE k # step
          <6>1. k \in ReadRoot .. step - 1
            BY <2>2, <5>2, ScriptOrder
          <6> QED
            BY <2>1, <3>7, <6>1 DEF Bound, Upper, Passed
        <5> QED
          BY <5>1, <5>2
      <4>4. RootKept'
        <5> SUFFICES ASSUME step + 1 = Close
                     PROVE  seen'[ReadRoot] = seen'[Restore]
          BY <4>1 DEF RootKept
        <5>1. step = Restore /\ ReadRoot \in ReadRoot .. step - 1
          BY <2>2, ScriptOrder, BrokerAssumption
        <5>2. seen[ReadRoot] \in Nat
          BY <3>5, <5>1, ScriptOrder, BrokerAssumption DEF Bound, Within
        <5>3. seen[ReadRoot] = r.result
          BY <3>1, <5>1, <5>2, BrokerAssumption DEF RootChanged
        <5> QED
          BY <3>4, <5>1, <5>3, ScriptOrder
      <4> QED
        BY <3>9, <4>1, <4>2, <4>3, <4>4 DEF Complete
    <3> QED
      BY <3>10, <3>11
  <2> QED
    BY <2>3, <2>4
<1>4. CASE ChildDerives
  <2>1. /\ child = "derive" /\ child' = "printed"
        /\ UNCHANGED <<step, sent, seen, failed, requests, responses, account,
                       stage, index, at, request, answer, middle>>
        /\ output' = "ok" => ~failed /\ ~Drifted
    BY <1>4 DEF ChildDerives, Derivation, ChildAlone, browser, serving
  <2>2. Complete'
    BY <2>1 DEF Complete, Bound, Upper, Passed
  <2>3. Printed'
    <3> SUFFICES ASSUME output' = "ok", NEW k \in ReadRoot .. Restore
                 PROVE  seen[k] = middle[PlaceOf(k)]
      BY <2>1, <2>2 DEF Printed, Complete
    <3>1. /\ at = "returned" /\ Upper = middle
          /\ \A i \in ReadRoot .. Restore : Within(i, seen[i], middle, middle)
          /\ seen[ReadRoot] = seen[Restore]
      BY <2>1 DEF Complete, Bound, Upper, Passed
    <3>2. /\ seen[Identity1] = seen[Identity2]
          /\ \A i \in Project1 : seen[i] = seen[i + N + 1]
      BY <2>1 DEF Drifted
    <3>3. \A i \in Steps : middle[PlaceOf(i)] \in Nat
      BY PlaceType, BrokerAssumption DEF Typed, BrowserTyped
    <3>4. \A i \in ReadRoot .. Identity2 - 1 : \A j \in Identity2 .. Restore :
            PlaceOf(i) = PlaceOf(j) /\ seen[i] = seen[j]
            => seen[i] = middle[PlaceOf(i)] /\ seen[j] = middle[PlaceOf(j)]
      <4> SUFFICES ASSUME NEW i \in ReadRoot .. Identity2 - 1,
                          NEW j \in Identity2 .. Restore,
                          PlaceOf(i) = PlaceOf(j), seen[i] = seen[j]
                   PROVE  seen[i] = middle[PlaceOf(i)]
        OBVIOUS
      <4>1. i \in Steps /\ i \in ReadRoot .. Restore /\ j \in ReadRoot .. Restore
        BY ScriptOrder
      <4>2. seen[i] \in Nat /\ seen[i] <= middle[PlaceOf(i)]
        BY <3>1, <4>1 DEF Within
      <4>3. seen[j] >= middle[PlaceOf(j)]
        BY <3>1, <4>1 DEF Within
      <4> QED
        BY <3>3, <4>1, <4>2, <4>3
    <3>5. CASE k \in {ReadRoot, Restore}
      <4>1. PlaceOf(ReadRoot) = PlaceOf(Restore)
        BY ScriptPlaces
      <4>2. ReadRoot \in ReadRoot .. Identity2 - 1 /\ Restore \in Identity2 .. Restore
        BY ScriptOrder, BrokerAssumption
      <4> QED
        BY <3>1, <3>4, <3>5, <4>1, <4>2
    <3>6. CASE k \in {Identity1, Identity2}
      <4>1. PlaceOf(Identity1) = PlaceOf(Identity2)
        BY ScriptPlaces
      <4>2. Identity1 \in ReadRoot .. Identity2 - 1 /\ Identity2 \in Identity2 .. Restore
        BY ScriptOrder, BrokerAssumption
      <4> QED
        BY <3>2, <3>4, <3>6, <4>1, <4>2
    <3>7. CASE k \in Project1
      <4> DEFINE j == k + N + 1
      <4>1. /\ k \in ReadRoot .. Identity2 - 1 /\ j \in Identity2 .. Restore
            /\ j \in Project2 /\ k - Identity1 = j - Identity2
        BY <3>7, ScriptOrder, BrokerAssumption DEF Project1, Project2
      <4>2. seen[k] = seen[j]
        BY <3>2, <3>7
      <4> HIDE DEF j
      <4>3. PlaceOf(k) = PlaceOf(j)
        BY <3>7, <4>1, ScriptPlaces
      <4> QED
        BY <3>4, <4>1, <4>2, <4>3
    <3>8. CASE k \in Project2
      <4> DEFINE j == k - (N + 1)
      <4>1. /\ j \in Project1 /\ j \in ReadRoot .. Identity2 - 1
            /\ j + N + 1 = k /\ k \in Identity2 .. Restore
        BY <3>8, ScriptOrder, BrokerAssumption DEF Project1, Project2
      <4>2. PlaceOf(j) = PlaceOf(k)
        <5>1. j - Identity1 = k - Identity2
          BY <3>8, ScriptOrder, BrokerAssumption DEF Project2
        <5> QED
          BY <3>8, <4>1, <5>1, ScriptPlaces
      <4>3. seen[j] = seen[k]
        BY <3>2, <4>1
      <4> HIDE DEF j
      <4> QED
        BY <3>4, <4>1, <4>2, <4>3
    <3>9. k \in {ReadRoot, Restore, Identity1, Identity2} \cup Project1 \cup Project2
      BY ScriptOrder, BrokerAssumption DEF Project1, Project2
    <3> QED
      BY <3>5, <3>6, <3>7, <3>8, <3>9
  <2> QED
    BY <2>1, <2>2, <2>3 DEF Grown, InStep, Located, Kept, RootKept
<1>5. CASE ChildExits \/ ChildDies
  <2>1. /\ SilentChild /\ SilentServe
        /\ UNCHANGED <<step, sent, seen, failed, output, requests, responses,
                       stage, index, request, answer, middle, account>>
    BY <1>5 DEF ChildExits, ChildDies, SilentChild, SilentServe, pipes, browser,
       serving
  <2>2. /\ account' \in [Places -> 0 .. MaxDrifts]
        /\ \A p \in Places : account[p] <= account'[p]
    BY <2>1, BrokerAssumption DEF Typed, BrowserTyped
  <2> QED
    BY <2>1, <2>2, SilentStep
<1> QED
  BY <1>1, <1>2, <1>3, <1>4, <1>5 DEF ChildStep

LEMMA ReceiveFaithful ==
  ASSUME Typed, Travelling, Faithful, Receive
  PROVE  Faithful'
<1> USE DEF Faithful
<1>1. /\ requests # <<>> /\ at = "receive"
      /\ requests' = Tail(requests)
      /\ UNCHANGED <<child, step, sent, seen, failed, output, responses, account,
                     stage, index, middle>>
  BY DEF Receive, ServeAlone, capture
<1>2. /\ Len(requests) = 1 /\ child \notin {"none", "send"}
      /\ child = "wait" => responses = <<>>
  BY <1>1 DEF Travelling, Exchange
<1>3. requests' = <<>>
  BY <1>1, <1>2 DEF Typed, PipesTyped
<1>4. at' # "thrown" => request' = Head(requests)
  BY DEF Receive
<1>5. at' = "reply" => request'.operation \in {"bind.hello", "bind.close"}
  <2>1. Head(requests).operation \in Operations
    BY <1>1, RequestFields DEF Typed, PipesTyped
  <2>2. at' = "reply" => FirstStep(Head(requests)) = "reply"
    BY DEF Receive
  <2>3. FirstStep(Head(requests)) = "reply" =>
          Head(requests).operation \in {"bind.hello", "bind.close"}
    BY <2>1 DEF FirstStep, Operations
  <2> QED
    BY <1>4, <2>2, <2>3
<1>6. Located'
  <2> SUFFICES ASSUME child = "wait", ~failed PROVE Located'
    BY <1>1 DEF Located
  <2>1. Stands(step) /\ Head(requests) = Request(step, step)
    BY <1>1 DEF Located
  <2>2. step \in Steps
    BY DEF Typed, ChildTyped
  <2>3. /\ Operation(step) \in {"bind.hello", "bind.close"} => step \in {Hello, Close}
        /\ Operation(step) \notin {"bind.hello", "bind.close"} => step \notin {Hello, Close}
    BY <2>2, ScriptOperations
  <2>4. at' = "reply" => step \in {Hello, Close}
    BY <1>4, <1>5, <2>1, <2>3 DEF Request
  <2>5. at' \in {"look", "travel", "probe"} => step \notin {Hello, Close}
    <3>1. at' \in {"look", "travel", "probe"} =>
            FirstStep(Head(requests)) \in {"look", "travel", "probe"}
      BY DEF Receive
    <3>2. FirstStep(Head(requests)) \in {"look", "travel", "probe"} =>
            Head(requests).operation \notin {"bind.hello", "bind.close"}
      BY DEF FirstStep
    <3> QED
      BY <2>1, <2>3, <3>1, <3>2 DEF Request
  <2> QED
    BY <1>1, <1>2, <1>3, <1>4, <2>1, <2>4, <2>5 DEF Located, Stands
<1> QED
  BY <1>1, <1>2, <1>6 DEF Grown, InStep, Kept, RootKept, Complete, Printed, Bound,
     Upper, Passed, Stands

\* After the probe of a step the serve loop expects the next one, and the
\* moment between the passes is that of the first pass's last probe.
LEMMA ProbeAdvances ==
  ASSUME Advance, Stands(step), request = Request(step, step),
         step \in Steps \ {Hello, Close}, index \in 0 .. N - 1,
         middle' = IF stage' = "await_identity_2" /\ stage # stage'
                   THEN account ELSE middle,
         UNCHANGED step
  PROVE  /\ Stands(step + 1)' /\ stage' # "failed" /\ stage # "failed"
         /\ step < Identity2 - 1 => ~Passed /\ ~Passed' /\ middle' = middle
         /\ step = Identity2 - 1 => ~Passed /\ Passed' /\ middle' = account
         /\ step >= Identity2 => Passed /\ Passed' /\ middle' = middle
<1> USE ScriptOrder, BrokerAssumption
<1>1. request.operation = Operation(step)
  BY DEF Request
<1>2. CASE step = ReadRoot
  <2>1. Operation(step) = "bind.root"
    BY <1>2, ScriptOperations
  <2>2. stage = "await_root"
    BY <1>2 DEF Stands
  <2>3. stage' = "await_identity_1"
    BY <1>1, <2>1 DEF Advance
  <2> QED
    BY <1>2, <2>2, <2>3 DEF Stands, Passed
<1>3. CASE step = Identity1
  <2>1. Operation(step) = "bind.identity"
    BY <1>3, ScriptOperations
  <2>2. stage = "await_identity_1"
    BY <1>3 DEF Stands
  <2>3. stage' = "await_projects_1" /\ index' = 0
    BY <1>1, <2>1, <2>2 DEF Advance, Passes
  <2> QED
    BY <1>3, <2>2, <2>3 DEF Stands, Passed
<1>4. CASE step \in Project1
  <2>1. Operation(step) = "bind.project"
    BY <1>4, ScriptOperations
  <2>2. stage = "await_projects_1" /\ step = Identity1 + 1 + index
    BY <1>4 DEF Stands, Project1
  <2>3. CASE index + 1 < N
    <3>1. stage' = stage /\ index' = index + 1
      <4>1. request.operation = "bind.project" /\ index + 1 # N
        BY <1>1, <2>1, <2>3
      <4> QED
        BY <2>3, <4>1, Zenon DEF Advance
    <3> QED
      BY <2>2, <2>3, <3>1 DEF Stands, Passed
  <2>4. CASE index + 1 = N
    <3>1. stage' = "await_identity_2"
      BY <1>1, <2>1, <2>2, <2>4 DEF Advance, Passes
    <3> QED
      BY <2>2, <2>4, <3>1 DEF Stands, Passed
  <2> QED
    BY <2>3, <2>4
<1>5. CASE step = Identity2
  <2>1. Operation(step) = "bind.identity"
    BY <1>5, ScriptOperations
  <2>2. stage = "await_identity_2"
    BY <1>5 DEF Stands
  <2>3. stage' = "await_projects_2" /\ index' = 0
    BY <1>1, <2>1, <2>2 DEF Advance, Passes
  <2> QED
    BY <1>5, <2>2, <2>3 DEF Stands, Passed
<1>6. CASE step \in Project2
  <2>1. Operation(step) = "bind.project"
    BY <1>6, ScriptOperations
  <2>2. stage = "await_projects_2" /\ step = Identity2 + 1 + index
    BY <1>6 DEF Stands, Project2
  <2>3. CASE index + 1 < N
    <3>1. stage' = stage /\ index' = index + 1
      <4>1. request.operation = "bind.project" /\ index + 1 # N
        BY <1>1, <2>1, <2>3
      <4> QED
        BY <2>3, <4>1, Zenon DEF Advance
    <3> QED
      BY <2>2, <2>3, <3>1 DEF Stands, Passed
  <2>4. CASE index + 1 = N
    <3>1. stage' = "await_restore"
      BY <1>1, <2>1, <2>2, <2>4 DEF Advance, Passes
    <3> QED
      BY <2>2, <2>4, <3>1 DEF Stands, Passed
  <2> QED
    BY <2>3, <2>4
<1>7. CASE step = Restore
  <2>1. Operation(step) = "bind.restore"
    BY <1>7, ScriptOperations
  <2>2. stage = "await_restore"
    BY <1>7 DEF Stands
  <2>3. stage' = "restored"
    BY <1>1, <2>1, <2>2 DEF Advance
  <2> QED
    BY <1>7, <2>2, <2>3 DEF Stands, Passed
<1>8. \/ step \in {ReadRoot, Restore, Identity1, Identity2}
      \/ step \in Project1 \cup Project2
  BY DEF Project1, Project2
<1> QED
  BY <1>2, <1>3, <1>4, <1>5, <1>6, <1>7, <1>8

\* What the probe of a step leaves behind.
LEMMA ProbeFaithful ==
  ASSUME Typed, Travelling, Faithful, Probe
  PROVE  Faithful'
<1> USE DEF Faithful
<1>1. /\ at = "probe" /\ at' = "reply" /\ tab = request.place
      /\ answer' = account[tab] /\ Advance
      /\ middle' = IF stage' = "await_identity_2" /\ stage # stage'
                   THEN account ELSE middle
      /\ UNCHANGED <<child, step, sent, seen, failed, output, requests, responses,
                     request, account>>
  BY DEF Probe, ServeAlone, capture
<1>2. /\ child \notin {"none", "send"} /\ requests = <<>>
      /\ child = "wait" => responses = <<>>
  BY <1>1 DEF Travelling, Exchange, Quiet, Busy
<1>3. Grown'
  BY <1>1, BrokerAssumption DEF Grown, Typed, BrowserTyped
<1>4. InStep' /\ RootKept'
  BY <1>1, <1>2 DEF InStep, RootKept
<1>5. Complete' /\ Printed'
  BY <1>1 DEF Complete, Printed
<1>6. Located' /\ Kept'
  <2> SUFFICES ASSUME child = "wait", ~failed PROVE Located' /\ Kept'
    BY <1>1, <1>2 DEF Located, Kept
  <2>1. /\ Stands(step) /\ request = Request(step, step)
        /\ step \notin {Hello, Close} /\ step \in Steps /\ index \in 0 .. N - 1
    BY <1>1 DEF Located, Typed, ChildTyped, ServeTyped
  <2>2. /\ Stands(step + 1)' /\ stage' # "failed" /\ stage # "failed"
        /\ step < Identity2 - 1 => ~Passed /\ ~Passed' /\ middle' = middle
        /\ step = Identity2 - 1 => ~Passed /\ Passed' /\ middle' = account
        /\ step >= Identity2 => Passed /\ Passed' /\ middle' = middle
    BY <1>1, <2>1, ProbeAdvances
  <2>3. \A k \in Steps : \A v :
          k <= step /\ Within(k, v, Upper, middle) => Within(k, v, Upper', middle')
    <3> SUFFICES ASSUME NEW k \in Steps, NEW v, k <= step,
                        Within(k, v, Upper, middle)
                 PROVE  Within(k, v, Upper', middle')
      OBVIOUS
    <3>1. CASE step = Identity2 - 1
      <4>1. k \notin Identity2 .. Restore
        BY <2>1, <3>1, ScriptOrder, BrokerAssumption
      <4>2. Upper' = Upper
        BY <2>2, <3>1 DEF Upper
      <4> QED
        BY <4>1, <4>2 DEF Within
    <3>2. CASE step # Identity2 - 1
      <4>1. Upper' = Upper /\ middle' = middle
        BY <1>1, <2>1, <2>2, <3>2, ScriptOrder, BrokerAssumption DEF Upper
      <4> QED
        BY <4>1
    <3> QED
      BY <3>1, <3>2
  <2>4. Within(step, answer', Upper', middle')
    <3>1. request.place = PlaceOf(step) /\ PlaceOf(step) \in Places
      BY <2>1, PlaceType DEF Request
    <3>2. answer' = account[PlaceOf(step)] /\ account[PlaceOf(step)] \in Nat
      BY <1>1, <3>1, BrokerAssumption DEF Typed, BrowserTyped
    <3>3. CASE step <= Identity2 - 1
      <4>1. Upper' = account
        BY <1>1, <2>1, <2>2, <3>3, ScriptOrder, BrokerAssumption DEF Upper
      <4> QED
        BY <2>1, <3>2, <3>3, <4>1, ScriptOrder, BrokerAssumption DEF Within
    <3>4. CASE step >= Identity2
      <4>1. middle' = middle /\ middle[PlaceOf(step)] <= account[PlaceOf(step)]
        BY <2>2, <3>1, <3>4 DEF Grown
      <4>2. middle[PlaceOf(step)] \in Nat
        BY <3>1, BrokerAssumption DEF Typed, BrowserTyped
      <4> QED
        BY <2>1, <3>2, <3>4, <4>1, <4>2, ScriptOrder, BrokerAssumption DEF Within
    <3> QED
      BY <2>1, <3>3, <3>4, ScriptOrder, BrokerAssumption
  <2>5. Located'
    BY <1>1, <1>2, <2>1, <2>2, <2>4 DEF Located, Bound, Stands
  <2>6. Kept'
    <3> SUFFICES ASSUME NEW k \in ReadRoot .. step - 1
                 PROVE  Within(k, seen[k], Upper', middle')
      BY <1>1 DEF Kept, Bound
    <3>1. k \in Steps /\ k <= step
      BY <2>1, ScriptOrder, BrokerAssumption
    <3>2. Within(k, seen[k], Upper, middle)
      BY <2>2 DEF Kept, Bound
    <3> QED
      BY <2>3, <3>1, <3>2
  <2> QED
    BY <2>5, <2>6
<1> QED
  BY <1>3, <1>4, <1>5, <1>6

LEMMA AnswerFaithful ==
  ASSUME Typed, Travelling, Faithful, Reply \/ Refuse
  PROVE  Faithful'
<1> USE DEF Faithful
<1>1. /\ at \in Busy /\ at # "returned" /\ child \in {"send", "wait"}
      /\ UNCHANGED <<child, step, sent, seen, failed, output, requests, account,
                     index, request, answer, middle>>
      /\ at' \in {"receive", "returned", "thrown"}
  BY DEF Reply, Refuse, Busy, Connected, ServeAlone, capture
<1>2. requests = <<>> /\ responses = <<>> /\ child = "wait"
  BY <1>1 DEF Travelling, Exchange, Quiet
<1>3. Grown' /\ InStep' /\ RootKept' /\ Complete' /\ Printed'
  BY <1>1, <1>2 DEF Grown, InStep, RootKept, Complete, Printed
<1>4. CASE Refuse
  <2>1. ~Head(responses').ok /\ responses' # <<>>
    BY <1>2, <1>4 DEF Refuse, Failure
  <2>2. stage' \in {stage, "failed"}
    BY <1>4 DEF Refuse
  <2>3. Located'
    BY <1>1, <1>2, <2>1 DEF Located
  <2>4. Kept'
    BY <1>1, <2>2 DEF Kept, Bound, Upper, Passed
  <2> QED
    BY <1>3, <2>3, <2>4
<1>5. CASE Reply
  <2>1. /\ at = "reply" /\ Head(responses') = Success /\ responses' # <<>>
        /\ stage' = IF request.operation = "bind.hello" THEN "await_root" ELSE stage
        /\ at' = IF request.operation = "bind.close" THEN "returned" ELSE "receive"
    BY <1>2, <1>5 DEF Reply
  <2>2. CASE failed
    BY <1>1, <1>3, <2>2 DEF Located, Kept
  <2>3. CASE ~failed
    <3>1. /\ request = Request(step, step)
          /\ IF step \in {Hello, Close} THEN Stands(step)
             ELSE Stands(step + 1) /\ Bound(step, answer)
      BY <1>2, <2>1, <2>3 DEF Located
    <3>2. step \in Steps /\ index \in 0 .. N - 1
      BY DEF Typed, ChildTyped, ServeTyped
    <3>3. /\ request.operation = "bind.hello" <=> step = Hello
          /\ request.operation = "bind.close" <=> step = Close
      <4>1. Hello # Close
        BY ScriptOrder, BrokerAssumption
      <4> QED
        BY <3>1, <3>2, <4>1, ScriptOperations DEF Request
    <3>4. Head(responses').result = answer
      BY <2>1 DEF Success
    <3>5. CASE step = Hello
      <4>1. stage' = "await_root" /\ step # Close /\ step + 1 = ReadRoot
        BY <2>1, <3>3, <3>5, ScriptOrder, BrokerAssumption
      <4>2. Located'
        <5>1. Stands(step + 1)'
          BY <1>1, <4>1 DEF Stands
        <5>2. Bound(step, Head(responses).result)'
          BY <1>1, <3>5, ScriptOrder, BrokerAssumption DEF Bound, Within
        <5> QED
          BY <1>1, <1>2, <2>1, <3>5, <4>1, <5>1, <5>2 DEF Located
      <4>3. Kept'
        BY <1>1, <3>5, <4>1, ScriptOrder DEF Kept
      <4> QED
        BY <1>3, <4>2, <4>3
    <3>6. CASE step # Hello
      <4>1. stage' = stage
        BY <2>1, <3>3, <3>6
      <4>2. Kept'
        BY <1>1, <4>1 DEF Kept, Bound, Upper, Passed
      <4>3. Located'
        <5>1. CASE step = Close
          BY <1>1, <1>2, <2>1, <3>1, <3>3, <4>1, <5>1 DEF Located, Stands
        <5>2. CASE step # Close
          BY <1>1, <1>2, <2>1, <3>1, <3>3, <3>4, <3>6, <4>1, <5>2
             DEF Located, Stands, Bound, Upper, Passed
        <5> QED
          BY <5>1, <5>2
      <4> QED
        BY <1>3, <4>2, <4>3
    <3> QED
      BY <3>5, <3>6
  <2> QED
    BY <2>2, <2>3
<1> QED
  BY <1>4, <1>5

LEMMA FaithfulStep ==
  ASSUME Typed, Travelling, Faithful, [Next]_vars
  PROVE  Faithful'
<1>1. CASE \/ Look \/ ReceiveFails \/ HandlerFails \/ SendFails \/ RunStep
           \/ BrowserStep \/ UNCHANGED vars
  <2>1. SilentChild
    BY <1>1 DEF Look, ReceiveFails, HandlerFails, SendFails, ServeAlone, RunStep,
       Setup, ProtocolCompletes, ServeFails, LifecycleFails, OverallTimeout,
       Admit, AdmitExpired, Cleanup, CleanupSettled, CleanupUnsettled,
       CleanupLook, CleanupProbe, CleanupFails, BrowserStep, Settles, Drift,
       CleanupReturns, capture, vars, SilentChild, Typed, ChildTyped
  <2>2. SilentServe
    BY <1>1 DEF Look, ReceiveFails, HandlerFails, SendFails, RunStep, Setup,
       ProtocolCompletes, ServeFails, LifecycleFails, OverallTimeout, Admit,
       AdmitExpired, Cleanup, CleanupSettled, CleanupUnsettled, CleanupLook,
       CleanupProbe, CleanupFails, RunAlone, BrowserStep, Settles, Drift,
       CleanupReturns, serving, vars, SilentServe
  <2>3. UNCHANGED <<step, sent, seen, failed, output, requests, responses, stage,
                    index, request, answer, middle>>
    BY <1>1 DEF Look, ReceiveFails, HandlerFails, SendFails, ServeAlone, RunStep,
       Setup, ProtocolCompletes, ServeFails, LifecycleFails, OverallTimeout,
       Admit, AdmitExpired, Cleanup, CleanupSettled, CleanupUnsettled,
       CleanupLook, CleanupProbe, CleanupFails, RunAlone, BrowserStep, Settles,
       Drift, CleanupReturns, capture, serving, pipes, vars
  <2>4. account' \in [Places -> 0 .. MaxDrifts]
    BY TypedStep DEF Typed, BrowserTyped
  <2>5. \A p \in Places : account[p] <= account'[p]
    <3>1. CASE \E p \in Places : Drift(p)
      <4> PICK place \in Places : Drift(place)
        BY <3>1
      <4> PICK version \in 1 .. MaxDrifts :
            /\ \A p \in Places : account[p] < version
            /\ account' = [account EXCEPT ![place] = version]
        BY DEF Drift
      <4> QED
        BY BrokerAssumption DEF Typed, BrowserTyped
    <3>2. CASE ~\E p \in Places : Drift(p)
      <4>1. account' = account
        BY <1>1, <3>2 DEF Look, ReceiveFails, HandlerFails, SendFails, ServeAlone,
           RunStep, Setup, ProtocolCompletes, ServeFails, LifecycleFails,
           OverallTimeout, Admit, AdmitExpired, Cleanup, CleanupSettled,
           CleanupUnsettled, CleanupLook, CleanupProbe, CleanupFails, RunAlone,
           BrowserStep, Settles, CleanupReturns, browser, vars
      <4> QED
        BY <4>1, BrokerAssumption DEF Typed, BrowserTyped
    <3> QED
      BY <3>1, <3>2
  <2> QED
    BY <2>1, <2>2, <2>3, <2>4, <2>5, SilentStep
<1> QED
  BY <1>1, ChildFaithful, ReceiveFaithful, ProbeFaithful, AnswerFaithful
     DEF Next, ServeStep

\* The result is what the child printed, and the child prints once.
Reported == result = "ok" => output = "ok"

LEMMA ReportedStep ==
  ASSUME Faithful, Reported, [Next]_vars
  PROVE  Reported'
<1>1. output = "ok" => output' = output
  BY DEF Faithful, Printed, Next, ChildStep, ServeStep, RunStep, BrowserStep,
     ChildSend, ChildDeadline, ChildReceive, ChildAborts, ChildDerives,
     ChildExits, ChildDies, Receive, ReceiveFails, Look, HandlerFails, Probe,
     Reply, Refuse, SendFails, ServeAlone, Setup, ProtocolCompletes, ServeFails,
     LifecycleFails, OverallTimeout, Admit, AdmitExpired, Cleanup,
     CleanupSettled, CleanupUnsettled, CleanupLook, CleanupProbe, CleanupFails,
     Settles, Drift, CleanupReturns, capture, vars
<1>2. result' = result \/ (result' = output /\ output' = output)
  BY DEF Next, ChildStep, ServeStep, RunStep, BrowserStep, ChildSend,
     ChildDeadline, ChildReceive, ChildAborts, ChildDerives, ChildExits,
     ChildDies, ChildAlone, Receive, ReceiveFails, Look, HandlerFails, Probe,
     Reply, Refuse, SendFails, ServeAlone, Setup, ProtocolCompletes, ServeFails,
     LifecycleFails, OverallTimeout, Admit, AdmitExpired, Cleanup,
     CleanupSettled, CleanupUnsettled, CleanupLook, CleanupProbe, CleanupFails,
     Settles, Drift, CleanupReturns, capture, main, vars
<1> QED
  BY <1>1, <1>2 DEF Reported

\* A binding is only made from an account that really looked like that, at
\* the moment between the two passes.
THEOREM BoundAccountExisted == Spec => []BoundExisted
<1>1. Init => Reported
  BY DEF Init, Reported
<1>2. Typed /\ Travelling /\ Faithful /\ [Next]_vars => Faithful'
  BY FaithfulStep
<1>3. Faithful /\ Reported /\ [Next]_vars => Reported'
  BY ReportedStep
<1>4. Spec => [](Faithful /\ Reported)
  BY <1>1, <1>2, <1>3, FaithfulInit, AlwaysTyped, AlwaysTravelling, PTL DEF Spec
<1>5. Faithful /\ Reported => BoundExisted
  BY DEF Faithful, Printed, Reported, BoundExisted
<1> QED
  BY <1>4, <1>5, PTL

----------------------------------------------------------------------------
(* The broker's checks of what the child reports                           *)

\* The checks of the events of a report, one after the other, as a function;
\* there is exactly one such function for every report that was made.
Tracks(lenient, events, g) ==
  g = [i \in 0 .. Len(events) |->
         IF i = 0 THEN Unchecked ELSE CheckEvent(lenient, g[i - 1], events[i])]
Definite(lenient, events) ==
  \E g : Tracks(lenient, events, g) /\ \A h : Tracks(lenient, events, h) => h = g

LEMMA CheckedTracks ==
  ASSUME NEW lenient, NEW events, NEW g, Tracks(lenient, events, g),
         \A h : Tracks(lenient, events, h) => h = g
  PROVE  Checked(lenient, events) = g[Len(events)]
<1> DEFINE f == CHOOSE h : Tracks(lenient, events, h)
<1>1. Tracks(lenient, events, f)
  OBVIOUS
<1>2. f = g
  BY <1>1
<1>3. Checked(lenient, events) = f[Len(events)]
  BY DEF Checked, Tracks
<1> QED
  BY <1>2, <1>3

LEMMA CheckedNothing ==
  ASSUME NEW lenient
  PROVE  Definite(lenient, <<>>) /\ Checked(lenient, <<>>) = Unchecked
<1> DEFINE g == [i \in 0 .. 0 |-> Unchecked]
<1>1. Tracks(lenient, <<>>, g)
  BY DEF Tracks
<1>2. ASSUME NEW h, Tracks(lenient, <<>>, h) PROVE h = g
  BY <1>2 DEF Tracks
<1>3. Checked(lenient, <<>>) = g[Len(<<>>)]
  BY <1>1, <1>2, CheckedTracks
<1>4. g[Len(<<>>)] = Unchecked
  OBVIOUS
<1> QED
  BY <1>1, <1>2, <1>3, <1>4 DEF Definite

\* One more event is one more check.
LEMMA CheckedAppend ==
  ASSUME NEW lenient, NEW S, NEW events \in Seq(S), NEW e \in S, Definite(lenient, events)
  PROVE  /\ Definite(lenient, Append(events, e))
         /\ Checked(lenient, Append(events, e))
              = CheckEvent(lenient, Checked(lenient, events), e)
<1> DEFINE n == Len(events)
           longer == Append(events, e)
<1>1. n \in Nat /\ Len(longer) = n + 1 /\ longer[n + 1] = e
      /\ \A i \in 1 .. n : longer[i] = events[i]
  OBVIOUS
<1>2. PICK g : Tracks(lenient, events, g) /\ \A h : Tracks(lenient, events, h) => h = g
  BY DEF Definite
<1>3. Checked(lenient, events) = g[n]
  BY <1>2, CheckedTracks
<1> DEFINE last == CheckEvent(lenient, g[n], e)
           k == [i \in 0 .. n + 1 |-> IF i = n + 1 THEN last ELSE g[i]]
<1> HIDE DEF n, longer, last
<1>4. \A i \in 0 .. n :
        g[i] = IF i = 0 THEN Unchecked ELSE CheckEvent(lenient, g[i - 1], events[i])
  BY <1>2 DEF Tracks, n
<1>5. Tracks(lenient, longer, k)
  <2> DEFINE body(i) == IF i = 0 THEN Unchecked ELSE CheckEvent(lenient, k[i - 1], longer[i])
  <2>1. ASSUME NEW i \in 0 .. n + 1 PROVE k[i] = body(i)
    <3>1. CASE i = n + 1
      <4>1. k[i] = last /\ k[i - 1] = g[n] /\ i # 0
        BY <1>1, <3>1
      <4> QED
        BY <1>1, <3>1, <4>1 DEF last
    <3>2. CASE i = 0
      BY <1>1, <1>4, <3>2
    <3>3. CASE i \in 1 .. n
      <4>1. k[i] = g[i] /\ k[i - 1] = g[i - 1] /\ longer[i] = events[i] /\ i # 0
        BY <1>1, <3>3
      <4> QED
        BY <1>4, <3>3, <4>1
    <3> QED
      BY <1>1, <3>1, <3>2, <3>3
  <2>2. k = [i \in 0 .. n + 1 |-> body(i)]
    <3> HIDE DEF body
    <3> QED
      BY <2>1
  <2> QED
    BY <1>1, <2>2 DEF Tracks
<1>6. ASSUME NEW h, Tracks(lenient, longer, h) PROVE h = k
  <2>1. h = [i \in 0 .. n + 1 |->
               IF i = 0 THEN Unchecked ELSE CheckEvent(lenient, h[i - 1], longer[i])]
    BY <1>1, <1>6 DEF Tracks
  <2>2. \A i \in 0 .. n + 1 :
          h[i] = IF i = 0 THEN Unchecked ELSE CheckEvent(lenient, h[i - 1], longer[i])
    BY <2>1
  <2> DEFINE r == [i \in 0 .. n |-> h[i]]
             body(i) == IF i = 0 THEN Unchecked ELSE CheckEvent(lenient, r[i - 1], events[i])
  <2>3. ASSUME NEW i \in 0 .. n PROVE r[i] = body(i)
    <3>1. r[i] = h[i] /\ i \in 0 .. n + 1
      BY <1>1
    <3>2. CASE i = 0
      BY <2>2, <3>1, <3>2
    <3>3. CASE i # 0
      <4>1. i \in 1 .. n /\ i - 1 \in 0 .. n
        BY <1>1, <3>3
      <4>2. r[i - 1] = h[i - 1] /\ longer[i] = events[i]
        BY <1>1, <4>1
      <4> QED
        BY <2>2, <3>1, <3>3, <4>2
    <3> QED
      BY <3>2, <3>3
  <2>4. r = [i \in 0 .. n |-> body(i)]
    <3> HIDE DEF body
    <3> QED
      BY <2>3
  <2>5. r = g
    BY <1>2, <2>4 DEF Tracks, n
  <2>6. \A i \in 0 .. n : h[i] = g[i]
    <3>1. \A i \in 0 .. n : r[i] = h[i]
      OBVIOUS
    <3> HIDE DEF r
    <3> QED
      BY <2>5, <3>1
  <2>7. h[n + 1] = last
    <3>1. n + 1 \in 0 .. n + 1 /\ n + 1 # 0 /\ (n + 1) - 1 = n /\ n \in 0 .. n
      BY <1>1
    <3> QED
      BY <1>1, <2>2, <2>6, <3>1 DEF last
  <2>8. h = [i \in 0 .. n + 1 |-> h[i]]
    BY <2>1
  <2>9. \A i \in 0 .. n + 1 : h[i] = k[i]
    BY <1>1, <2>6, <2>7
  <2> QED
    <3> HIDE DEF k
    <3>1. k = [i \in 0 .. n + 1 |-> k[i]]
      BY DEF k
    <3> QED
      BY <2>8, <2>9, <3>1
<1>7. Checked(lenient, longer) = k[n + 1]
  <2> HIDE DEF k
  <2> QED
    BY <1>1, <1>5, <1>6, CheckedTracks
<1>8. k[n + 1] = last
  BY <1>1
<1>9. Definite(lenient, longer)
  BY <1>5, <1>6 DEF Definite
<1> QED
  BY <1>3, <1>7, <1>8, <1>9 DEF last, longer

\* What the checks have found when the child is about to take step k of an
\* undisturbed script, and when it waits for the answer.
Before(k) ==
  Noted(IF k = Hello THEN "root" ELSE IF k = Close THEN "derive" ELSE Phase(k),
        IF Ordinal(k) = 0 THEN 1 ELSE Ordinal(k), None, k = Close)
During(k) ==
  IF k \in {Hello, Close} THEN Before(k)
  ELSE Noted(Phase(k), Before(k).ordinal, Event(Phase(k), "started", Ordinal(k)), FALSE)

\* What the lenient checks have found of a disturbed script: until the way
\* back is reported complete, and from then on.
Astray(s) ==
  \E phase \in Phases, ordinal \in Nat, under \in Events \cup {None} :
    s = Noted(phase, ordinal, under, FALSE)
Home(s) == \E ordinal \in Nat : s = Noted("derive", ordinal, None, TRUE)

\* What the child has reported, and what the checks find of it.
Judged ==
  progress \in Seq(Events) /\ \A lenient \in BOOLEAN : Definite(lenient, progress)

InOrderSoFar ==
  ~failed =>
    /\ child \in {"none", "send"} =>
         \A lenient \in BOOLEAN : Checked(lenient, progress) = Before(step)
    /\ child = "wait" =>
         \A lenient \in BOOLEAN : Checked(lenient, progress) = During(step)
    /\ child = "derive" =>
         step = Close /\ \A lenient \in BOOLEAN : Checked(lenient, progress) = Before(Close)

AstraySoFar ==
  /\ child = "none" => ~failed
  /\ failed /\ child \in {"send", "wait"} => step \in {Restore, Close}
  /\ failed /\ child = "send" /\ step = Restore => Astray(Checked(TRUE, progress))
  /\ failed /\ child = "wait" /\ step = Restore =>
       /\ Astray(Checked(TRUE, progress))
       /\ Checked(TRUE, progress).under = Event("restore_root", "started", 0)
  /\ failed /\ child \in {"send", "wait", "derive"} /\ step = Close =>
       Home(Checked(TRUE, progress))

PrintedInOrder ==
  child \in {"printed", "exited"} /\ step = Close =>
    /\ output \in {"ok", "blocked"}
    /\ output = "ok" => ~failed
    /\ ProgressValid(progress, output # "ok")

\* The loop returns for the last step of the script, and with the transcript
\* of that moment.
Closing ==
  /\ \A i \in 1 .. Len(requests) : requests[i].operation = "bind.close" => step = Close
  /\ at \in Busy /\ request.operation = "bind.close" => step = Close
  /\ at = "reply" /\ request.operation = "bind.close" => stage = "restored"
  /\ at \in {"look", "travel", "probe"} => request.operation # "bind.close"
  /\ at = "returned" => step = Close /\ stage = "restored"
  /\ run = "exiting" => at = "returned" /\ transcript = twoPass
  /\ child # "killed" /\ ~failed /\ stage = "restored" => twoPass
  /\ child \in {"none", "send", "wait", "derive", "printed", "exited", "killed"}

Admissible ==
  Judged /\ InOrderSoFar /\ AstraySoFar /\ PrintedInOrder /\ Closing /\ OutputAdmitted

\* Which steps the child reports.
LEMMA ScriptPhases ==
  /\ Phase(Hello) = "none" /\ Phase(Close) = "none"
  /\ Phase(ReadRoot) = "root" /\ Phase(Restore) = "restore_root"
  /\ Phase(Identity1) = "identity_pass_1" /\ Phase(Identity2) = "identity_pass_2"
  /\ \A k \in Project1 : Phase(k) = "project_pass_1"
  /\ \A k \in Project2 : Phase(k) = "project_pass_2"
<1>1. /\ {Hello, ReadRoot, Restore, Close}
           \cap ({Identity1, Identity2} \cup Project1 \cup Project2) = {}
      /\ {Identity1, Identity2} \cap (Project1 \cup Project2) = {}
      /\ Project1 \cap Project2 = {} /\ Identity1 # Identity2
      /\ Hello # ReadRoot /\ Hello # Restore /\ Hello # Close
      /\ ReadRoot # Restore /\ ReadRoot # Close /\ Restore # Close
  BY ScriptOrder, BrokerAssumption DEF Project1, Project2
<1>2. Phase(Hello) = "none" /\ Phase(Close) = "none"
  BY <1>1 DEF Phase
<1>3. Phase(ReadRoot) = "root" /\ Phase(Restore) = "restore_root"
  BY <1>1 DEF Phase
<1>4. Phase(Identity1) = "identity_pass_1" /\ Phase(Identity2) = "identity_pass_2"
  BY <1>1 DEF Phase
<1>5. \A k \in Project1 : Phase(k) = "project_pass_1"
  BY <1>1 DEF Phase
<1>6. \A k \in Project2 : Phase(k) = "project_pass_2"
  BY <1>1 DEF Phase
<1> QED
  BY <1>2, <1>3, <1>4, <1>5, <1>6

LEMMA ScriptOrdinals ==
  /\ \A k \in {Hello, ReadRoot, Identity1, Identity2, Restore, Close} : Ordinal(k) = 0
  /\ \A k \in Project1 : Ordinal(k) = k - Identity1 /\ Ordinal(k) \in 1 .. N
  /\ \A k \in Project2 : Ordinal(k) = k - Identity2 /\ Ordinal(k) \in 1 .. N
<1>1. {Hello, ReadRoot, Identity1, Identity2, Restore, Close} \cap (Project1 \cup Project2) = {}
  BY ScriptOrder, BrokerAssumption DEF Project1, Project2
<1>2. ASSUME NEW k \in Project1
      PROVE  Ordinal(k) = k - Identity1 /\ Ordinal(k) \in 1 .. N
  <2>1. Ordinal(k) = k - Identity1
    BY ScriptPlaces DEF Ordinal
  <2> QED
    BY <2>1, ScriptOrder, BrokerAssumption DEF Project1
<1>3. ASSUME NEW k \in Project2
      PROVE  Ordinal(k) = k - Identity2 /\ Ordinal(k) \in 1 .. N
  <2>1. Ordinal(k) = k - Identity2
    BY ScriptPlaces DEF Ordinal
  <2> QED
    BY <2>1, ScriptOrder, BrokerAssumption DEF Project2
<1>4. \A k \in {Hello, ReadRoot, Identity1, Identity2, Restore, Close} : Ordinal(k) = 0
  BY <1>1 DEF Ordinal
<1> QED
  BY <1>2, <1>3, <1>4

\* The steps between the first and the last, by what they do.
LEMMA ScriptParts ==
  ASSUME NEW k \in Steps
  PROVE  \/ k \in {Hello, ReadRoot, Identity1, Identity2, Restore, Close}
         \/ k \in Project1 \/ k \in Project2
BY ScriptOrder, BrokerAssumption DEF Project1, Project2

LEMMA StepReports ==
  ASSUME NEW k \in Steps
  PROVE  /\ Phase(k) = "none" <=> k \in {Hello, Close}
         /\ Phase(k) \in Phases \cup {"none"} /\ Ordinal(k) \in Nat
<1>1. Phase(k) \in Phases \cup {"none"}
  BY ScriptParts, ScriptPhases DEF Phases
<1>2. Ordinal(k) \in Nat
  BY ScriptParts, ScriptOrdinals
<1>3. Phase(k) = "none" <=> k \in {Hello, Close}
  BY ScriptParts, ScriptPhases
<1> QED
  BY <1>1, <1>2, <1>3

LEMMA StepEvents ==
  ASSUME NEW k \in Steps \ {Hello, Close}, NEW state \in {"started", "completed"}
  PROVE  /\ Event(Phase(k), state, Ordinal(k)) \in Events
         /\ Event(Phase(k), state, Ordinal(k)) # None
BY StepReports, EventAssumption DEF Event, Events

LEMMA Reports ==
  ASSUME NEW events \in Seq(Events), NEW k \in Steps,
         NEW state \in {"started", "completed"}
  PROVE  /\ k \in {Hello, Close} => events \o Report(k, state) = events
         /\ k \notin {Hello, Close} =>
              events \o Report(k, state)
                = Append(events, Event(Phase(k), state, Ordinal(k)))
<1>1. CASE k \in {Hello, Close}
  BY <1>1, StepReports DEF Report
<1>2. CASE k \notin {Hello, Close}
  <2> DEFINE e == Event(Phase(k), state, Ordinal(k))
  <2>1. Report(k, state) = <<e>>
    BY <1>2, StepReports DEF Report
  <2>2. e \in Events
    BY <1>2, StepEvents
  <2>3. events \o <<e>> = Append(events, e)
    <3> HIDE DEF e
    <3> QED
      BY <2>2
  <2> QED
    BY <1>2, <2>1, <2>3
<1> QED
  BY <1>1, <1>2

\* The checks follow the undisturbed script, the strict ones as well.
LEMMA CheckStarted ==
  ASSUME NEW k \in Steps \ {Hello, Close}, NEW lenient \in BOOLEAN
  PROVE  CheckEvent(lenient, Before(k), Event(Phase(k), "started", Ordinal(k))) = During(k)
<1> DEFINE e == Event(Phase(k), "started", Ordinal(k))
           o == IF Ordinal(k) = 0 THEN 1 ELSE Ordinal(k)
<1>1. e.state = "started" /\ e.phase = Phase(k) /\ e.ordinal = Ordinal(k)
  BY DEF Event
<1>2. Before(k) = Noted(Phase(k), o, None, FALSE)
  BY DEF Before
<1>3. Before(k).ordinal = o
  BY <1>2 DEF Noted
<1>4. Phase(k) \in {"project_pass_1", "project_pass_2"} => Ordinal(k) = o
  BY ScriptParts, ScriptPhases, ScriptOrdinals
<1> HIDE DEF e, o
<1>5. CheckEvent(lenient, Noted(Phase(k), o, None, FALSE), e) = Noted(Phase(k), o, e, FALSE)
  BY <1>1, <1>4 DEF CheckEvent, Noted
<1>6. During(k) = Noted(Phase(k), o, e, FALSE)
  BY <1>3 DEF During, e
<1> QED
  BY <1>2, <1>5, <1>6 DEF e

\* The phase that follows a step of the script is the next step's.
LEMMA NextStep ==
  ASSUME NEW k \in Steps \ {Hello, Close}
  PROVE  Following(Phase(k), Before(k).ordinal)
           = <<Before(k + 1).phase, Before(k + 1).ordinal>>
<1> USE ScriptOrder, BrokerAssumption
<1> DEFINE after == <<Before(k + 1).phase, Before(k + 1).ordinal>>
<1>1. /\ \A j : Before(j).ordinal = IF Ordinal(j) = 0 THEN 1 ELSE Ordinal(j)
      /\ \A j : Before(j).phase = IF j = Hello THEN "root"
                                  ELSE IF j = Close THEN "derive" ELSE Phase(j)
  BY DEF Before, Noted
<1>2. CASE k = ReadRoot
  <2>1. k + 1 = Identity1 /\ k + 1 # Hello /\ k + 1 # Close
    BY <1>2
  <2>2. after = <<"identity_pass_1", 1>>
    BY <1>1, <2>1, ScriptPhases, ScriptOrdinals
  <2> QED
    BY <1>2, <2>2, ScriptPhases DEF Following
<1>3. CASE k = Identity1
  <2>1. k + 1 \in Project1 /\ k + 1 # Hello /\ k + 1 # Close /\ k + 1 - Identity1 = 1
    BY <1>3 DEF Project1
  <2>2. Phase(k + 1) = "project_pass_1" /\ Ordinal(k + 1) = 1
    BY <2>1, ScriptPhases, ScriptOrdinals
  <2>3. after = <<"project_pass_1", 1>>
    BY <1>1, <2>1, <2>2
  <2> QED
    BY <1>3, <2>3, ScriptPhases DEF Following
<1>4. CASE k = Identity2
  <2>1. k + 1 \in Project2 /\ k + 1 # Hello /\ k + 1 # Close /\ k + 1 - Identity2 = 1
    BY <1>4 DEF Project2
  <2>2. Phase(k + 1) = "project_pass_2" /\ Ordinal(k + 1) = 1
    BY <2>1, ScriptPhases, ScriptOrdinals
  <2>3. after = <<"project_pass_2", 1>>
    BY <1>1, <2>1, <2>2
  <2> QED
    BY <1>4, <2>3, ScriptPhases DEF Following
<1>5. CASE k \in Project1
  <2>1. Phase(k) = "project_pass_1" /\ Ordinal(k) = k - Identity1 /\ Ordinal(k) \in 1 .. N
    BY <1>5, ScriptPhases, ScriptOrdinals
  <2>2. Before(k).ordinal = k - Identity1
    BY <1>1, <2>1
  <2>3. CASE k - Identity1 < N
    <3>1. k + 1 \in Project1 /\ k + 1 # Hello /\ k + 1 # Close
      BY <1>5, <2>3 DEF Project1
    <3>2. Phase(k + 1) = "project_pass_1" /\ Ordinal(k + 1) = k + 1 - Identity1
      BY <3>1, ScriptPhases, ScriptOrdinals
    <3>3. after = <<"project_pass_1", k - Identity1 + 1>>
      BY <1>1, <1>5, <3>1, <3>2 DEF Project1
    <3> QED
      BY <2>1, <2>2, <2>3, <3>3 DEF Following
  <2>4. CASE ~(k - Identity1 < N)
    <3>1. k + 1 = Identity2 /\ k + 1 # Hello /\ k + 1 # Close
      BY <1>5, <2>4 DEF Project1
    <3>2. after = <<"identity_pass_2", 1>>
      BY <1>1, <3>1, ScriptPhases, ScriptOrdinals
    <3> QED
      BY <2>1, <2>2, <2>4, <3>2 DEF Following
  <2> QED
    BY <2>3, <2>4
<1>6. CASE k \in Project2
  <2>1. Phase(k) = "project_pass_2" /\ Ordinal(k) = k - Identity2 /\ Ordinal(k) \in 1 .. N
    BY <1>6, ScriptPhases, ScriptOrdinals
  <2>2. Before(k).ordinal = k - Identity2
    BY <1>1, <2>1
  <2>3. CASE k - Identity2 < N
    <3>1. k + 1 \in Project2 /\ k + 1 # Hello /\ k + 1 # Close
      BY <1>6, <2>3 DEF Project2
    <3>2. Phase(k + 1) = "project_pass_2" /\ Ordinal(k + 1) = k + 1 - Identity2
      BY <3>1, ScriptPhases, ScriptOrdinals
    <3>3. after = <<"project_pass_2", k - Identity2 + 1>>
      BY <1>1, <1>6, <3>1, <3>2 DEF Project2
    <3> QED
      BY <2>1, <2>2, <2>3, <3>3 DEF Following
  <2>4. CASE ~(k - Identity2 < N)
    <3>1. k + 1 = Restore /\ k + 1 # Hello /\ k + 1 # Close
      BY <1>6, <2>4 DEF Project2
    <3>2. after = <<"restore_root", 1>>
      BY <1>1, <3>1, ScriptPhases, ScriptOrdinals
    <3> QED
      BY <2>1, <2>2, <2>4, <3>2 DEF Following
  <2> QED
    BY <2>3, <2>4
<1>7. CASE k = Restore
  <2>1. k + 1 = Close /\ k + 1 # Hello
    BY <1>7
  <2>2. after = <<"derive", 1>> /\ Before(k).ordinal = 1
    BY <1>1, <1>7, <2>1, ScriptOrdinals
  <2> QED
    BY <1>7, <2>2, ScriptPhases DEF Following
<1> QED
  BY <1>2, <1>3, <1>4, <1>5, <1>6, <1>7, ScriptParts

LEMMA CheckCompleted ==
  ASSUME NEW k \in Steps \ {Hello, Close}, NEW lenient \in BOOLEAN
  PROVE  CheckEvent(lenient, During(k), Event(Phase(k), "completed", Ordinal(k)))
           = Before(k + 1)
<1> DEFINE e == Event(Phase(k), "completed", Ordinal(k))
           u == Event(Phase(k), "started", Ordinal(k))
           o == Before(k).ordinal
           n == Following(Phase(k), o)
<1>1. During(k) = Noted(Phase(k), o, u, FALSE)
  BY DEF During
<1>2. u # None /\ e.phase = u.phase /\ e.ordinal = u.ordinal /\ e.state = "completed"
      /\ e.phase = Phase(k)
  BY StepEvents DEF Event
<1>3. Phase(k) # "derive"
  BY ScriptParts, ScriptPhases
<1>4. CheckEvent(lenient, Noted(Phase(k), o, u, FALSE), e)
        = Noted(n[1], n[2], None, Phase(k) = "restore_root")
  <2> HIDE DEF e, u, o
  <2> QED
    BY <1>2, <1>3 DEF CheckEvent, Noted
<1>5. n[1] = Before(k + 1).phase /\ n[2] = Before(k + 1).ordinal
  BY NextStep
<1>6. (Phase(k) = "restore_root") <=> (k + 1 = Close)
  BY ScriptParts, ScriptPhases, ScriptOrder, BrokerAssumption DEF Project1, Project2
<1>7. Before(k + 1)
        = Noted(Before(k + 1).phase, Before(k + 1).ordinal, None, k + 1 = Close)
  BY DEF Before, Noted
<1>8. Noted(n[1], n[2], None, Phase(k) = "restore_root")
        = Noted(n[1], n[2], None, k + 1 = Close)
  BY <1>6 DEF Noted
<1> HIDE DEF n, e
<1> QED
  BY <1>1, <1>4, <1>5, <1>7, <1>8 DEF e

\* The way back, reported at any moment of a disturbed script, is accepted by
\* the lenient checks.
LEMMA LenientStarted ==
  ASSUME NEW s, Astray(s)
  PROVE  /\ Astray(CheckEvent(TRUE, s, Event("restore_root", "started", 0)))
         /\ CheckEvent(TRUE, s, Event("restore_root", "started", 0)).under
              = Event("restore_root", "started", 0)
<1> DEFINE e == Event("restore_root", "started", 0)
<1>1. e \in Events /\ e.phase = "restore_root" /\ e.state = "started"
  BY DEF Event, Events, Phases
<1>2. PICK p \in Phases, o \in Nat, u \in Events \cup {None} : s = Noted(p, o, u, FALSE)
  BY DEF Astray
<1> HIDE DEF e
<1>3. CheckEvent(TRUE, s, e) = Noted("restore_root", o, e, FALSE)
  <2>1. s.ok = TRUE /\ s.ordinal = o /\ s.restored = FALSE
    BY <1>2 DEF Noted
  <2> QED
    BY <1>1, <2>1 DEF CheckEvent
<1>4. Astray(Noted("restore_root", o, e, FALSE))
  BY <1>1 DEF Astray, Phases
<1>5. Noted("restore_root", o, e, FALSE).under = e
  BY DEF Noted
<1> QED
  BY <1>3, <1>4, <1>5 DEF e

LEMMA LenientCompleted ==
  ASSUME NEW s, Astray(s), s.under = Event("restore_root", "started", 0)
  PROVE  Home(CheckEvent(TRUE, s, Event("restore_root", "completed", 0)))
<1> DEFINE e == Event("restore_root", "completed", 0)
           v == Event("restore_root", "started", 0)
<1>1. e.phase = "restore_root" /\ e.state = "completed" /\ e.ordinal = 0
      /\ v.phase = "restore_root" /\ v.ordinal = 0
  BY DEF Event
<1>2. v # None
  BY EventAssumption DEF Event, Events, Phases
<1>3. PICK p \in Phases, o \in Nat, u \in Events \cup {None} : s = Noted(p, o, u, FALSE)
  BY DEF Astray
<1>4. u = v
  BY <1>3 DEF Noted
<1>5. Following("restore_root", o) = <<"derive", o>>
  BY DEF Following
<1> HIDE DEF e, v
<1>6. CheckEvent(TRUE, Noted(p, o, v, FALSE), e) = Noted("derive", o, None, TRUE)
  <2> DEFINE n == Following("restore_root", o)
  <2>1. n[1] = "derive" /\ n[2] = o
    BY <1>5
  <2> HIDE DEF n
  <2>2. CheckEvent(TRUE, Noted(p, o, v, FALSE), e) = Noted(n[1], n[2], None, TRUE)
    BY <1>1, <1>2 DEF CheckEvent, Noted, n
  <2> QED
    BY <2>1, <2>2
<1> QED
  BY <1>3, <1>4, <1>6 DEF Home, e

\* Where the script is left, and where it ends.
LEMMA ScriptStates ==
  /\ \A k \in ReadRoot .. Restore : Astray(During(k))
  /\ Home(Before(Close))
  /\ Unchecked = Before(Hello) /\ Before(ReadRoot) = Before(Hello)
<1> USE ScriptOrder, BrokerAssumption
<1>1. ASSUME NEW k \in ReadRoot .. Restore PROVE Astray(During(k))
  <2>1. k \in Steps \ {Hello, Close}
    BY <1>1
  <2>2. Event(Phase(k), "started", Ordinal(k)) \in Events
    BY <2>1, StepEvents
  <2>3. Before(k).ordinal \in Nat /\ Phase(k) \in Phases
    BY <2>1, StepReports DEF Before, Noted
  <2> QED
    BY <2>1, <2>2, <2>3 DEF Astray, During
<1>2. Hello # Close /\ ReadRoot # Close /\ ReadRoot # Hello
  OBVIOUS
<1>3. Before(Close) = Noted("derive", 1, None, TRUE)
  BY <1>2, ScriptOrdinals DEF Before, Noted
<1>4. Before(Hello) = Noted("root", 1, None, FALSE)
  BY <1>2, ScriptOrdinals DEF Before, Noted
<1>5. Before(ReadRoot) = Noted("root", 1, None, FALSE)
  BY <1>2, ScriptOrdinals, ScriptPhases DEF Before, Noted
<1> QED
  BY <1>1, <1>3, <1>4, <1>5 DEF Home, Unchecked

\* A script that came home is accepted as it stands, with the derivation
\* begun, and with the derivation done.
LEMMA HomeAccepted ==
  ASSUME NEW lenient \in BOOLEAN, NEW events \in Seq(Events),
         Definite(lenient, events), Home(Checked(lenient, events))
  PROVE  /\ lenient => ProgressValid(events, lenient)
         /\ lenient => ProgressValid(Append(events, Event("derive", "started", 0)), lenient)
         /\ ProgressValid(Append(Append(events, Event("derive", "started", 0)),
                                 Event("derive", "completed", 0)), lenient)
<1> DEFINE b == Event("derive", "started", 0)
           c == Event("derive", "completed", 0)
           begun == Append(events, b)
           done == Append(begun, c)
<1>1. /\ b \in Events /\ c \in Events /\ b # None
      /\ b.phase = "derive" /\ b.state = "started" /\ b.ordinal = 0
      /\ c.phase = "derive" /\ c.state = "completed" /\ c.ordinal = 0
  BY EventAssumption DEF Event, Events, Phases
<1>2. PICK o \in Nat : Checked(lenient, events) = Noted("derive", o, None, TRUE)
  BY DEF Home
<1> HIDE DEF b, c
<1>3. CheckEvent(lenient, Noted("derive", o, None, TRUE), b) = Noted("derive", o, b, TRUE)
  BY <1>1 DEF CheckEvent, Noted
<1>4. begun \in Seq(Events) /\ Definite(lenient, begun)
      /\ Checked(lenient, begun) = Noted("derive", o, b, TRUE)
  <2>1. begun \in Seq(Events)
    BY <1>1
  <2>2. /\ Definite(lenient, Append(events, b))
        /\ Checked(lenient, Append(events, b))
             = CheckEvent(lenient, Checked(lenient, events), b)
    BY <1>1, CheckedAppend
  <2> QED
    BY <1>2, <1>3, <2>1, <2>2
<1>5. Following("derive", o) = <<"complete", o>>
  BY DEF Following
<1>6. CheckEvent(lenient, Noted("derive", o, b, TRUE), c) = Noted("complete", o, None, TRUE)
  <2> DEFINE n == Following("derive", o)
  <2>1. n[1] = "complete" /\ n[2] = o
    BY <1>5
  <2> HIDE DEF n
  <2>2. CheckEvent(lenient, Noted("derive", o, b, TRUE), c) = Noted(n[1], n[2], None, TRUE)
    BY <1>1 DEF CheckEvent, Noted, n
  <2> QED
    BY <2>1, <2>2
<1>7. Checked(lenient, done) = Noted("complete", o, None, TRUE)
  <2> HIDE DEF begun
  <2>1. Checked(lenient, Append(begun, c))
          = CheckEvent(lenient, Checked(lenient, begun), c)
    BY <1>1, <1>4, CheckedAppend
  <2> QED
    BY <1>4, <1>6, <2>1
<1> HIDE DEF begun, done
<1>8. lenient => ProgressValid(events, lenient)
  BY <1>2 DEF ProgressValid, Noted
<1>9. lenient => ProgressValid(begun, lenient)
  BY <1>1, <1>4 DEF ProgressValid, Noted
<1>10. ProgressValid(done, lenient)
  BY <1>7 DEF ProgressValid, Noted
<1> QED
  BY <1>8, <1>9, <1>10 DEF b, c, begun, done

LEMMA JudgedReport ==
  ASSUME Judged, NEW k \in Steps, NEW state \in {"started", "completed"},
         progress' = progress \o Report(k, state)
  PROVE  /\ Judged'
         /\ k \in {Hello, Close} => progress' = progress
         /\ k \notin {Hello, Close} =>
              \A lenient \in BOOLEAN :
                Checked(lenient, progress')
                  = CheckEvent(lenient, Checked(lenient, progress),
                               Event(Phase(k), state, Ordinal(k)))
<1>1. CASE k \in {Hello, Close}
  <2>1. progress' = progress
    BY <1>1, Reports DEF Judged
  <2> QED
    BY <1>1, <2>1 DEF Judged
<1>2. CASE k \notin {Hello, Close}
  <2> DEFINE e == Event(Phase(k), state, Ordinal(k))
  <2>1. progress' = Append(progress, e)
    BY <1>2, Reports DEF Judged
  <2>2. e \in Events
    BY <1>2, StepEvents
  <2> HIDE DEF e
  <2>3. ASSUME NEW lenient \in BOOLEAN
        PROVE  /\ Definite(lenient, Append(progress, e))
               /\ Checked(lenient, Append(progress, e))
                    = CheckEvent(lenient, Checked(lenient, progress), e)
    BY <2>2, CheckedAppend DEF Judged
  <2>4. Append(progress, e) \in Seq(Events)
    BY <2>2 DEF Judged
  <2> QED
    BY <1>2, <2>1, <2>3, <2>4 DEF Judged, e
<1> QED
  BY <1>1, <1>2

\* What a derivation reports.
LEMMA DerivationReports ==
  ASSUME NEW events \in Seq(Events)
  PROVE  LET shown(states) ==
               events \o [i \in 1 .. Len(states) |-> Event("derive", states[i], 0)]
             b == Event("derive", "started", 0)
             c == Event("derive", "completed", 0)
         IN /\ shown(<<>>) = events
            /\ shown(<<"started">>) = Append(events, b)
            /\ shown(<<"started", "completed">>) = Append(Append(events, b), c)
            /\ Append(events, b) \in Seq(Events)
<1> DEFINE told(states) == [i \in 1 .. Len(states) |-> Event("derive", states[i], 0)]
           b == Event("derive", "started", 0)
           c == Event("derive", "completed", 0)
<1>1. told(<<>>) = <<>>
  OBVIOUS
<1>2. told(<<"started">>) = <<b>>
  OBVIOUS
<1>3. told(<<"started", "completed">>) = <<b, c>>
  OBVIOUS
<1>4. b \in Events /\ c \in Events
  BY DEF Event, Events, Phases
<1> HIDE DEF b, c, told
<1>5. events \o <<>> = events
  OBVIOUS
<1>6. events \o <<b>> = Append(events, b)
  BY <1>4
<1>7. events \o <<b, c>> = Append(Append(events, b), c)
  BY <1>4
<1>8. Append(events, b) \in Seq(Events)
  BY <1>4
<1> QED
  BY <1>1, <1>2, <1>3, <1>5, <1>6, <1>7, <1>8 DEF b, c, told

LEMMA AdmissibleInit == Init => Admissible
<1> SUFFICES ASSUME Init PROVE Admissible
  OBVIOUS
<1>1. Judged
  BY CheckedNothing DEF Init, Judged
<1>2. InOrderSoFar
  BY CheckedNothing, ScriptStates DEF Init, InOrderSoFar
<1>3. AstraySoFar /\ PrintedInOrder /\ OutputAdmitted
  BY DEF Init, AstraySoFar, PrintedInOrder, OutputAdmitted
<1>4. Closing
  BY DEF Init, Closing, Busy
<1> QED
  BY <1>1, <1>2, <1>3, <1>4 DEF Admissible

\* What the checks have found of a request that was answered.
LEMMA ReceivedInOrder ==
  ASSUME Typed, Judged, InOrderSoFar, AstraySoFar, ChildReceive
  PROVE  Judged' /\ InOrderSoFar' /\ AstraySoFar'
<1> USE ScriptOrder, BrokerAssumption
<1>1. /\ child = "wait" /\ step \in Steps
      /\ progress' = progress \o Report(step, "completed")
      /\ failed' = (failed \/ RootChanged(Head(responses).result))
      /\ child' = IF step = Close THEN "derive" ELSE "send"
      /\ step' = IF step = Close THEN step ELSE step + 1
      /\ failed \in BOOLEAN
  BY DEF ChildReceive, Typed, ChildTyped
<1>2. /\ Judged'
      /\ step \in {Hello, Close} => progress' = progress
      /\ step \notin {Hello, Close} =>
           \A lenient \in BOOLEAN :
             Checked(lenient, progress')
               = CheckEvent(lenient, Checked(lenient, progress),
                            Event(Phase(step), "completed", Ordinal(step)))
  BY <1>1, JudgedReport
<1>3. step # Restore => failed' = failed
  BY <1>1 DEF RootChanged
<1>4. CASE step = Hello
  <2>1. ~failed /\ ~failed' /\ child' = "send" /\ step' = ReadRoot
    BY <1>1, <1>3, <1>4 DEF AstraySoFar
  <2>2. \A lenient \in BOOLEAN : Checked(lenient, progress') = Before(ReadRoot)
    BY <1>1, <1>2, <1>4, <2>1, ScriptStates DEF InOrderSoFar, During
  <2> QED
    BY <1>2, <2>1, <2>2 DEF InOrderSoFar, AstraySoFar
<1>5. CASE step = Close
  <2>1. failed' = failed /\ child' = "derive" /\ step' = Close /\ progress' = progress
    BY <1>1, <1>2, <1>3, <1>5
  <2>2. ~failed => \A lenient \in BOOLEAN : Checked(lenient, progress) = Before(Close)
    BY <1>1, <1>5 DEF InOrderSoFar, During
  <2>3. failed => Home(Checked(TRUE, progress))
    BY <1>1, <1>5 DEF AstraySoFar
  <2> QED
    BY <1>2, <2>1, <2>2, <2>3 DEF InOrderSoFar, AstraySoFar
<1>6. CASE step \in Steps \ {Hello, Close}
  <2>1. child' = "send" /\ step' = step + 1 /\ step' \in Steps
        /\ (step = Restore <=> step' = Close)
    BY <1>1, <1>6
  <2>2. CASE ~failed
    <3>1. \A lenient \in BOOLEAN : Checked(lenient, progress') = Before(step')
      BY <1>1, <1>2, <1>6, <2>1, <2>2, CheckCompleted DEF InOrderSoFar
    <3>2. failed' => step' = Close
      BY <1>3, <2>1, <2>2
    <3>3. failed' => Home(Checked(TRUE, progress'))
      BY <3>1, <3>2, ScriptStates
    <3>4. Restore # Close /\ child' \notin {"none", "wait", "derive"}
      BY <2>1
    <3>5. InOrderSoFar'
      BY <3>1, <3>4 DEF InOrderSoFar
    <3>6. AstraySoFar'
      BY <3>2, <3>3, <3>4 DEF AstraySoFar
    <3> QED
      BY <1>2, <3>5, <3>6
  <2>3. CASE failed
    <3>1. failed' /\ step = Restore /\ step' = Close
      BY <1>1, <1>6, <2>1, <2>3 DEF AstraySoFar
    <3>2. Phase(step) = "restore_root" /\ Ordinal(step) = 0
      BY <3>1, ScriptPhases, ScriptOrdinals
    <3>3. /\ Astray(Checked(TRUE, progress))
          /\ Checked(TRUE, progress).under = Event("restore_root", "started", 0)
      BY <1>1, <2>3, <3>1 DEF AstraySoFar
    <3>4. Home(Checked(TRUE, progress'))
      <4>1. Checked(TRUE, progress')
              = CheckEvent(TRUE, Checked(TRUE, progress),
                           Event("restore_root", "completed", 0))
        BY <1>2, <1>6, <3>2
      <4> QED
        BY <3>3, <4>1, LenientCompleted
    <3>5. Restore # Close /\ child' \notin {"none", "wait", "derive"}
      BY <2>1
    <3>6. AstraySoFar'
      BY <3>1, <3>4, <3>5 DEF AstraySoFar
    <3> QED
      BY <1>2, <3>1, <3>6 DEF InOrderSoFar
  <2> QED
    BY <1>1, <2>2, <2>3
<1> QED
  BY <1>1, <1>4, <1>5, <1>6

\* What the child prints is what the broker admits.
LEMMA DerivedInOrder ==
  ASSUME Judged, InOrderSoFar, AstraySoFar, ChildDerives
  PROVE  Judged' /\ PrintedInOrder'
<1> DEFINE b == Event("derive", "started", 0)
           c == Event("derive", "completed", 0)
<1>1. child = "derive" /\ child' = "printed" /\ UNCHANGED <<step, failed>>
  BY DEF ChildDerives
<1>2. /\ progress \in Seq(Events) /\ b \in Events /\ c \in Events
      /\ \A lenient \in BOOLEAN : Definite(lenient, progress)
  BY DEF Judged, Event, Events, Phases
<1>3. \/ failed /\ output' = "blocked" /\ progress' = progress
      \/ ~failed /\ output' = "blocked" /\ progress' = Append(progress, b)
      \/ ~failed /\ output' \in {"blocked", "ok"}
           /\ progress' = Append(Append(progress, b), c)
  <2>1. \/ failed /\ Derivation({"blocked"}, <<>>)
        \/ ~failed /\ Derivation({"blocked"}, <<"started">>)
        \/ ~failed /\ Derivation({"blocked", "ok"}, <<"started", "completed">>)
    BY DEF ChildDerives
  <2> QED
    BY <1>2, <2>1, DerivationReports DEF Derivation
<1> HIDE DEF b, c
<1>4. Judged'
  <2>1. ASSUME NEW lenient \in BOOLEAN
        PROVE  Definite(lenient, Append(progress, b))
               /\ Definite(lenient, Append(Append(progress, b), c))
    <3>1. Append(progress, b) \in Seq(Events)
      BY <1>2
    <3>2. Definite(lenient, Append(progress, b))
      BY <1>2, CheckedAppend
    <3>3. Definite(lenient, Append(Append(progress, b), c))
      BY <1>2, <3>1, <3>2, CheckedAppend
    <3> QED
      BY <3>2, <3>3
  <2>2. Append(progress, b) \in Seq(Events)
        /\ Append(Append(progress, b), c) \in Seq(Events)
    BY <1>2
  <2> QED
    BY <1>2, <1>3, <2>1, <2>2 DEF Judged
<1>5. PrintedInOrder'
  <2> SUFFICES ASSUME step = Close
               PROVE  /\ output' \in {"ok", "blocked"}
                      /\ output' = "ok" => ~failed
                      /\ ProgressValid(progress', output' # "ok")
    BY <1>1 DEF PrintedInOrder
  <2>1. Home(Checked(TRUE, progress))
        /\ (~failed => Home(Checked(FALSE, progress)))
    BY <1>1, ScriptStates DEF InOrderSoFar, AstraySoFar
  <2>2. /\ ProgressValid(progress, TRUE)
        /\ ProgressValid(Append(progress, b), TRUE)
        /\ ProgressValid(Append(Append(progress, b), c), TRUE)
        /\ ~failed => ProgressValid(Append(Append(progress, b), c), FALSE)
    BY <1>2, <2>1, HomeAccepted DEF b, c
  <2>3. CASE output' = "ok"
    BY <1>3, <2>2, <2>3
  <2>4. CASE output' = "blocked"
    <3>1. (output' # "ok") = TRUE
      BY <2>4
    <3>2. ProgressValid(progress', TRUE)
      BY <1>3, <2>2
    <3> QED
      BY <2>4, <3>1, <3>2
  <2> QED
    BY <1>3, <2>3, <2>4
<1> QED
  BY <1>4, <1>5

LEMMA SentInOrder ==
  ASSUME Typed, Judged, InOrderSoFar, AstraySoFar, ChildSend \/ ChildDeadline \/ ChildAborts
  PROVE  Judged' /\ InOrderSoFar' /\ AstraySoFar'
<1>1. step \in Steps /\ failed \in BOOLEAN /\ Restore \in Steps /\ Restore # Close
      /\ Restore \notin {Hello, Close} /\ Hello # Close
  BY ScriptOrder, BrokerAssumption DEF Typed, ChildTyped
<1>2. Phase(Restore) = "restore_root" /\ Ordinal(Restore) = 0
  BY ScriptPhases, ScriptOrdinals
<1>3. CASE ChildSend
  <2>1. /\ child = "send" /\ child' = "wait" /\ UNCHANGED <<step, failed>>
        /\ progress' = progress \o Report(step, "started")
    BY <1>3 DEF ChildSend
  <2>2. /\ Judged'
        /\ step \in {Hello, Close} => progress' = progress
        /\ step \notin {Hello, Close} =>
             \A lenient \in BOOLEAN :
               Checked(lenient, progress')
                 = CheckEvent(lenient, Checked(lenient, progress),
                              Event(Phase(step), "started", Ordinal(step)))
    BY <1>1, <2>1, JudgedReport
  <2>3. CASE ~failed
    <3>1. \A lenient \in BOOLEAN : Checked(lenient, progress) = Before(step)
      BY <2>1, <2>3 DEF InOrderSoFar
    <3>2. \A lenient \in BOOLEAN : Checked(lenient, progress') = During(step)
      <4>1. CASE step \in {Hello, Close}
        BY <2>2, <3>1, <4>1 DEF During
      <4>2. CASE step \notin {Hello, Close}
        BY <1>1, <2>2, <3>1, <4>2, CheckStarted
      <4> QED
        BY <4>1, <4>2
    <3> QED
      BY <2>1, <2>2, <2>3, <3>2 DEF InOrderSoFar, AstraySoFar
  <2>4. CASE failed
    <3>1. step \in {Restore, Close}
      BY <2>1, <2>4 DEF AstraySoFar
    <3>2. CASE step = Close
      <4>1. Home(Checked(TRUE, progress')) /\ step' = Close
        BY <2>1, <2>2, <2>4, <3>2 DEF AstraySoFar
      <4> QED
        BY <1>1, <2>1, <2>2, <2>4, <4>1 DEF InOrderSoFar, AstraySoFar
    <3>3. CASE step = Restore
      <4>1. Astray(Checked(TRUE, progress))
        BY <2>1, <2>4, <3>3 DEF AstraySoFar
      <4>2. Checked(TRUE, progress')
              = CheckEvent(TRUE, Checked(TRUE, progress),
                           Event("restore_root", "started", 0))
        BY <1>1, <1>2, <2>2, <3>3
      <4>3. /\ Astray(Checked(TRUE, progress'))
            /\ Checked(TRUE, progress').under = Event("restore_root", "started", 0)
        BY <4>1, <4>2, LenientStarted
      <4> QED
        BY <1>1, <2>1, <2>2, <2>4, <3>3, <4>3 DEF InOrderSoFar, AstraySoFar
    <3> QED
      BY <3>1, <3>2, <3>3
  <2> QED
    BY <1>1, <2>3, <2>4
<1>4. CASE ChildDeadline
  <2>1. /\ child = "send" /\ child' = child /\ failed' /\ step' = Restore
        /\ step \in ReadRoot .. Restore - 1
        /\ progress' = progress \o Report(step, "started")
    BY <1>4 DEF ChildDeadline
  <2>2. step \in Steps \ {Hello, Close} /\ step \notin {Restore, Close}
        /\ step \in ReadRoot .. Restore
    BY <1>1, <2>1, ScriptOrder, BrokerAssumption
  <2>3. ~failed
    BY <2>1, <2>2 DEF AstraySoFar
  <2>4. Judged' /\ Checked(TRUE, progress') = During(step)
    <3>1. Checked(TRUE, progress) = Before(step)
      BY <2>1, <2>3 DEF InOrderSoFar
    <3>2. /\ Judged'
          /\ Checked(TRUE, progress')
               = CheckEvent(TRUE, Checked(TRUE, progress),
                            Event(Phase(step), "started", Ordinal(step)))
      BY <2>1, <2>2, JudgedReport
    <3> QED
      BY <2>2, <3>1, <3>2, CheckStarted
  <2>5. Astray(Checked(TRUE, progress'))
    BY <2>2, <2>4, ScriptStates
  <2> QED
    BY <1>1, <2>1, <2>4, <2>5 DEF InOrderSoFar, AstraySoFar
<1>5. CASE ChildAborts
  <2>1. /\ child = "wait" /\ failed' /\ child' \in {"derive", "printed"}
        /\ step' = step
        /\ progress' = IF step \in ReadRoot .. Restore - 1
                       THEN progress \o Report(Restore, "started") ELSE progress
    BY <1>5 DEF ChildAborts
  <2>2. Judged'
    <3>1. CASE progress' = progress
      BY <3>1 DEF Judged
    <3>2. CASE progress' = progress \o Report(Restore, "started")
      BY <1>1, <3>2, JudgedReport
    <3> QED
      BY <2>1, <3>1, <3>2
  <2>3. step = Close => Home(Checked(TRUE, progress'))
    <3> SUFFICES ASSUME step = Close PROVE Home(Checked(TRUE, progress'))
      OBVIOUS
    <3>1. progress' = progress
      BY <2>1, ScriptOrder, BrokerAssumption
    <3>2. ~failed => Checked(TRUE, progress) = Before(Close)
      BY <2>1 DEF InOrderSoFar, During
    <3>3. failed => Home(Checked(TRUE, progress))
      BY <2>1 DEF AstraySoFar
    <3> QED
      BY <1>1, <3>1, <3>2, <3>3, ScriptStates
  <2> QED
    BY <2>1, <2>2, <2>3 DEF InOrderSoFar, AstraySoFar
<1> QED
  BY <1>3, <1>4, <1>5

\* Nothing but the child writes its report or changes its mind.
LEMMA OthersInOrder ==
  ASSUME Judged, InOrderSoFar, AstraySoFar, PrintedInOrder,
         UNCHANGED <<step, failed, progress, output>>,
         \/ child' = child
         \/ child = "none" /\ child' = "send"
         \/ child = "printed" /\ child' = "exited"
         \/ child' = "killed"
  PROVE  Judged' /\ InOrderSoFar' /\ AstraySoFar' /\ PrintedInOrder'
<1>1. Judged'
  BY DEF Judged
<1>2. InOrderSoFar'
  BY DEF InOrderSoFar
<1>3. AstraySoFar'
  BY DEF AstraySoFar
<1>4. PrintedInOrder'
  BY DEF PrintedInOrder
<1> QED
  BY <1>1, <1>2, <1>3, <1>4

LEMMA ChildInOrder ==
  ASSUME Typed, Judged, InOrderSoFar, AstraySoFar, PrintedInOrder, ChildStep
  PROVE  Judged' /\ InOrderSoFar' /\ AstraySoFar' /\ PrintedInOrder'
<1>1. CASE ChildSend \/ ChildDeadline \/ ChildAborts
  <2>1. child' \in {"printed", "exited"} => step' = Hello
    BY <1>1 DEF ChildSend, ChildDeadline, ChildAborts
  <2>2. Hello # Close
    BY ScriptOrder, BrokerAssumption
  <2>3. PrintedInOrder'
    BY <2>1, <2>2 DEF PrintedInOrder
  <2> QED
    BY <1>1, <2>3, SentInOrder
<1>2. CASE ChildReceive
  <2>1. PrintedInOrder'
    BY <1>2 DEF ChildReceive, PrintedInOrder
  <2> QED
    BY <1>2, <2>1, ReceivedInOrder
<1>3. CASE ChildDerives
  <2>1. child' = "printed"
    BY <1>3 DEF ChildDerives
  <2>2. InOrderSoFar' /\ AstraySoFar'
    BY <2>1 DEF InOrderSoFar, AstraySoFar
  <2> QED
    BY <1>3, <2>2, DerivedInOrder
<1>4. CASE ChildExits \/ ChildDies
  BY <1>4, OthersInOrder DEF ChildExits, ChildDies
<1> QED
  BY <1>1, <1>2, <1>3, <1>4 DEF ChildStep

LEMMA ClosingChild ==
  ASSUME Typed, Travelling, Closing, ChildStep
  PROVE  Closing'
<1>1. /\ UNCHANGED <<at, request, stage, twoPass, transcript>>
      /\ run' = run
  BY DEF ChildStep, ChildSend, ChildDeadline, ChildReceive, ChildAborts, ChildDerives,
     ChildExits, ChildDies, ChildAlone, serving, main
<1>2. step = Close => step' = Close
  BY ScriptOrder, BrokerAssumption DEF ChildStep, ChildSend, ChildDeadline, ChildReceive,
     ChildAborts, ChildDerives, ChildExits, ChildDies
<1>3. failed => failed'
  BY DEF ChildStep, ChildSend, ChildDeadline, ChildReceive,
     ChildAborts, ChildDerives, ChildExits, ChildDies
<1>4. /\ child # "killed"
      /\ child' \in {"none", "send", "wait", "derive", "printed", "exited", "killed"}
  BY DEF Closing, ChildStep, ChildSend, ChildDeadline, ChildReceive,
     ChildAborts, ChildDerives, ChildExits, ChildDies, ChildRuns
<1>5. \A i \in 1 .. Len(requests') :
        requests'[i].operation = "bind.close" => step' = Close
  <2>1. CASE ChildSend
    <3>1. requests = <<>> /\ step' = step /\ step \in Steps
          /\ requests' = Append(requests, Request(step, sent'))
      BY <2>1 DEF ChildSend, Travelling, Exchange, Typed, ChildTyped
    <3>2. Len(requests') = 1 /\ requests'[1] = Request(step, sent')
      BY <3>1
    <3>3. Operation(step) = "bind.close" => step = Close
      BY <3>1, ScriptOperations
    <3> QED
      BY <3>1, <3>2, <3>3 DEF Request
  <2>2. CASE ~ChildSend
    <3>1. requests' = requests
      BY <2>2 DEF ChildStep, ChildDeadline, ChildReceive, ChildAborts, ChildDerives,
         ChildExits, ChildDies, pipes
    <3> QED
      BY <1>2, <3>1 DEF Closing
  <2> QED
    BY <2>1, <2>2
<1> QED
  BY <1>1, <1>2, <1>3, <1>4, <1>5 DEF Closing

LEMMA ClosingReceive ==
  ASSUME Typed, Closing, Receive
  PROVE  Closing'
<1> DEFINE r == Head(requests)
<1>1. /\ requests # <<>> /\ requests' = Tail(requests)
      /\ at' = "thrown" \/ (at' = FirstStep(r) /\ request' = r)
      /\ at = "receive" /\ requests \in Seq(Requests)
      /\ UNCHANGED <<stage, twoPass, step, failed, child, run, transcript>>
  BY DEF Receive, ServeAlone, capture, main, Typed, PipesTyped
<1>2. \A i \in 1 .. Len(requests') : requests'[i] = requests[i + 1] /\ i + 1 \in 1 .. Len(requests)
  BY <1>1
<1>3. r.operation = "bind.close" => step = Close
  BY <1>1 DEF Closing
<1>4. r.operation = "bind.close" =>
        \/ FirstStep(r) \in {"refuse", "refuseOrder"}
        \/ FirstStep(r) = "reply" /\ stage = "restored"
  <2> HIDE DEF r
  <2> QED
    BY DEF FirstStep, InOrder
<1>5. FirstStep(r) # "returned"
  <2> HIDE DEF r
  <2> QED
    BY DEF FirstStep
<1>6. run # "exiting"
  BY <1>1 DEF Closing
<1> HIDE DEF r
<1> QED
  BY <1>1, <1>2, <1>3, <1>4, <1>5, <1>6 DEF Closing, Busy

\* The probe of the way back is the end of the second pass, unless the script
\* was disturbed.
LEMMA ClosingProbe ==
  ASSUME Typed, Travelling, Faithful, Closing, Probe
  PROVE  Closing'
<1>1. /\ at = "probe" /\ at' = "reply" /\ Advance
      /\ UNCHANGED <<requests, request, step, failed, child, run, transcript>>
  BY DEF Probe, ServeAlone, capture, main
<1>2. request.operation # "bind.close" /\ run # "exiting"
  BY <1>1 DEF Closing
<1>3. child # "killed" /\ ~failed /\ stage' = "restored" => twoPass'
  <2> SUFFICES ASSUME child # "killed", ~failed, stage' = "restored" PROVE twoPass'
    OBVIOUS
  <2>1. child = "wait"
    BY <1>1 DEF Closing, Travelling, Exchange, Quiet, Busy, Faithful, Complete
  <2>2. /\ Stands(step) /\ request = Request(step, step)
        /\ step \in Steps \ {Hello, Close} /\ index \in 0 .. N - 1
    BY <1>1, <2>1 DEF Faithful, Located, Typed, ChildTyped, ServeTyped
  <2>3. request.operation = Operation(step)
    BY <2>2 DEF Request
  <2>4. stage # "restored"
    BY <2>2, ScriptOrder, BrokerAssumption DEF Stands
  <2>5. CASE step = Restore
    <3>1. stage = "await_restore"
      BY <2>2, <2>5, ScriptOrder, BrokerAssumption DEF Stands
    <3>2. request.operation = "bind.restore"
      BY <2>3, <2>5, ScriptOperations
    <3> QED
      BY <1>1, <3>1, <3>2 DEF Advance
  <2>6. CASE step # Restore
    <3>1. request.operation \in {"bind.root", "bind.identity", "bind.project"}
      BY <2>2, <2>3, <2>6, ScriptParts, ScriptOperations
    <3>2. index + 1 < N \/ index + 1 = N
      BY <2>2, BrokerAssumption
    <3>3. stage' # "restored"
      BY <1>1, <2>4, <3>1, <3>2 DEF Advance, Passes
    <3> QED
      BY <3>3
  <2> QED
    BY <2>5, <2>6
<1> QED
  BY <1>1, <1>2, <1>3 DEF Closing, Busy

LEMMA ClosingServe ==
  ASSUME Typed, Travelling, Faithful, Closing, ServeStep
  PROVE  Closing'
<1>1. CASE Reply \/ Refuse
  <2>1. /\ UNCHANGED <<requests, request, twoPass, step, failed, child, run, transcript>>
        /\ at' \in {"receive", "returned", "thrown"} /\ at # "returned"
        /\ at' = "returned" =>
             at = "reply" /\ request.operation = "bind.close" /\ stage' = stage
        /\ stage' \in {stage, "failed", "await_root"}
    BY <1>1 DEF Reply, Refuse, ServeAlone, capture, main
  <2>2. run # "exiting" /\ at \in {"reply", "refuse", "refuseOrder"}
    BY <1>1, <2>1 DEF Closing, Reply, Refuse
  <2> QED
    BY <2>1, <2>2 DEF Closing, Busy
<1>2. CASE ReceiveFails \/ Look \/ HandlerFails \/ SendFails
  <2>1. /\ UNCHANGED <<requests, request, stage, twoPass, step, failed, child, run,
                       transcript>>
        /\ at' \in {"thrown", "refuse", "probe", "travel"} /\ at # "returned"
        /\ at' \in {"probe", "travel"} => at = "look"
        /\ at' = "refuse" => at \in {"look", "travel", "probe"}
    BY <1>2 DEF ReceiveFails, Look, HandlerFails, SendFails, ServeAlone, capture, main
  <2> QED
    BY <2>1 DEF Closing, Busy
<1> QED
  BY <1>1, <1>2, ClosingReceive, ClosingProbe DEF ServeStep

LEMMA ClosingRun ==
  ASSUME Typed, Closing, RunStep \/ BrowserStep
  PROVE  Closing'
<1>1. CASE RunStep
  <2>1. /\ UNCHANGED <<requests, at, request, stage, twoPass, step, failed>>
        /\ child' \in {child, "killed"} \/ (child = "none" /\ child' = "send")
        /\ run' = "exiting" => \/ run = "exiting" /\ transcript' = transcript
                               \/ at = "returned" /\ transcript' = twoPass
    BY <1>1 DEF RunStep, Setup, ProtocolCompletes, ServeFails, LifecycleFails,
       OverallTimeout, Admit, AdmitExpired, Cleanup, CleanupSettled, CleanupUnsettled,
       CleanupLook, CleanupProbe, CleanupFails, RunAlone, Ends, pipes, serving, capture,
       Typed, ChildTyped
  <2> QED
    BY <2>1 DEF Closing
<1>2. CASE BrowserStep
  <2>1. /\ UNCHANGED <<requests, request, stage, twoPass, step, failed, child, transcript>>
        /\ at' = at \/ (at = "travel" /\ at' \in {"probe", "refuse"})
        /\ run' = run \/ (run' = "probe")
    BY <1>2 DEF BrowserStep, Settles, Drift, CleanupReturns, RunAlone, pipes, serving,
       capture, main
  <2> QED
    BY <2>1 DEF Closing, Busy
<1> QED
  BY <1>1, <1>2

LEMMA OutputStep ==
  ASSUME Typed, Faithful, Admissible, [Next]_vars
  PROVE  OutputAdmitted'
<1>1. CASE Admit
  <2>1. /\ run = "exiting" /\ child = "exited"
        /\ primary' = "output" => ~Admitted \/ primary = "output"
    BY <1>1 DEF Admit
  <2>2. step = Close /\ stage = "restored" /\ transcript = twoPass /\ at = "returned"
    BY <2>1 DEF Admissible, Closing
  <2>3. /\ output \in {"ok", "blocked"}
        /\ output = "ok" => ~failed
        /\ ProgressValid(progress, output # "ok")
    BY <2>1, <2>2 DEF Admissible, PrintedInOrder
  <2>4. output = "ok" => transcript
    BY <2>1, <2>2, <2>3 DEF Admissible, Closing
  <2> QED
    BY <2>1, <2>3, <2>4 DEF Admissible, OutputAdmitted, Admitted
<1>2. CASE ~Admit
  <2>1. primary' \in {primary, "setup", "protocol", "lifecycle", "expired"}
    BY <1>2 DEF Next, ChildStep, ServeStep, RunStep, BrowserStep, ChildSend,
       ChildDeadline, ChildReceive, ChildAborts, ChildDerives, ChildExits,
       ChildDies, ChildAlone, Receive, ReceiveFails, Look, HandlerFails, Probe,
       Reply, Refuse, SendFails, ServeAlone, Setup, ProtocolCompletes, ServeFails,
       LifecycleFails, OverallTimeout, AdmitExpired, Cleanup,
       CleanupSettled, CleanupUnsettled, CleanupLook, CleanupProbe, CleanupFails,
       Settles, Drift, CleanupReturns, RunAlone, Ends, main, vars
  <2> QED
    BY <2>1 DEF Admissible, OutputAdmitted
<1> QED
  BY <1>1, <1>2

LEMMA AdmissibleStep ==
  ASSUME Typed, Travelling, Faithful, Admissible, [Next]_vars
  PROVE  Admissible'
<1> USE DEF Admissible
<1>1. OutputAdmitted'
  BY OutputStep
<1>2. CASE ChildStep
  BY <1>1, <1>2, ChildInOrder, ClosingChild
<1>3. CASE UNCHANGED vars
  <2>1. UNCHANGED <<step, failed, progress, output, child>>
    BY <1>3 DEF vars, capture
  <2>2. Closing'
    BY <1>3 DEF vars, capture, pipes, serving, main, Closing
  <2> QED
    BY <1>1, <2>1, <2>2, OthersInOrder
<1>4. CASE ServeStep
  <2>1. UNCHANGED <<step, failed, progress, output, child>>
    BY <1>4 DEF ServeStep, Receive, ReceiveFails, Look, HandlerFails, Probe, Reply,
       Refuse, SendFails, ServeAlone, capture
  <2> QED
    BY <1>1, <1>4, <2>1, OthersInOrder, ClosingServe
<1>5. CASE RunStep \/ BrowserStep
  <2>1. /\ UNCHANGED <<step, failed, progress, output>>
        /\ child' \in {child, "killed"} \/ (child = "none" /\ child' = "send")
    BY <1>5 DEF RunStep, Setup, ProtocolCompletes, ServeFails, LifecycleFails,
       OverallTimeout, Admit, AdmitExpired, Cleanup, CleanupSettled, CleanupUnsettled,
       CleanupLook, CleanupProbe, CleanupFails, BrowserStep, Settles, Drift,
       CleanupReturns, capture, Typed, ChildTyped
  <2> QED
    BY <1>1, <1>5, <2>1, OthersInOrder, ClosingRun
<1> QED
  BY <1>2, <1>3, <1>4, <1>5 DEF Next

\* The broker's checks of order and transcript never refuse what the child
\* prints, whether it got to the end or not: they are refusals of another
\* program's output, not of a capture that was cut short.
THEOREM OutputAlwaysAdmitted == Spec => []OutputAdmitted
<1>1. Typed /\ Travelling /\ Faithful /\ Admissible /\ [Next]_vars => Admissible'
  BY AdmissibleStep
<1>2. Typed /\ Travelling /\ Faithful /\ [Next]_vars => Faithful'
  BY FaithfulStep
<1>3. Spec => [](Faithful /\ Admissible)
  BY <1>1, <1>2, FaithfulInit, AdmissibleInit, AlwaysTyped, AlwaysTravelling, PTL DEF Spec
<1>4. Admissible => OutputAdmitted
  BY DEF Admissible
<1> QED
  BY <1>3, <1>4, PTL

=============================================================================
