------------------------ MODULE PageLifecycleProofs ------------------------
(***************************************************************************)
(* Proofs about PageLifecycle for every number of calls, pages, faults and *)
(* changes by others: what a save puts on the wire, that no command is     *)
(* posted twice, and what becomes of the pages the calls make: a round     *)
(* trip that succeeds leaves none, a receipt stands for one.               *)
(***************************************************************************)
EXTENDS PageLifecycle, SequenceTheorems, TLAPS

\* A form that was posted held what the call had read of the page before.
Checked(r) ==
  r.command = "save" =>
    /\ r.op \in {"settings", "zero"} => r.body.rest = r.body.loaded.rest
    /\ r.op = "head" => r.body.seen.own = r.body.loaded.own

WireChecked == \A r \in wire : Checked(r)

\* Nothing of a request changes while it is on the wire.
LEMMA FewerChecked ==
  ASSUME WireChecked, wire' \subseteq wire
  PROVE  WireChecked'
BY DEF WireChecked

LEMMA SentChecked ==
  ASSUME WireChecked, SendSave
  PROVE  WireChecked'
<1>1. CASE InDocument
  <2> DEFINE r == Request("save", SaveBody)
  <2>1. wire' = wire \cup {r}
    BY <1>1 DEF SendSave, Post
  <2>2. /\ r.op = u.op
        /\ r.body.loaded = tab.form /\ r.body.seen = u.seen
        /\ u.op \in {"settings", "zero"} => r.body.rest = u.seen.rest
    BY DEF Request, SaveBody
  <2>3. CASE u.op = "settings"
    <3>1. tab.form.rest = u.seen.rest
      BY <1>1, <2>3 DEF InDocument, InSettings
    <3> QED
      BY <2>2, <2>3, <3>1, <2>1 DEF WireChecked, Checked
  <2>4. CASE u.op = "zero"
    <3>1. tab.form.rest = u.seen.rest
      BY <1>1, <2>4 DEF InDocument, InZero
    <3> QED
      BY <2>2, <2>4, <3>1, <2>1 DEF WireChecked, Checked
  <2>5. CASE u.op = "head"
    <3>1. tab.form.own = u.seen.own
      BY <1>1, <2>5 DEF InDocument, InHead
    <3> QED
      BY <2>2, <2>5, <3>1, <2>1 DEF WireChecked, Checked
  <2>6. CASE u.op \notin {"settings", "zero", "head"}
    BY <2>1, <2>2, <2>6 DEF WireChecked, Checked
  <2> QED
    BY <2>3, <2>4, <2>5, <2>6
<1>2. CASE ~InDocument
  BY <1>2, FewerChecked DEF SendSave
<1> QED
  BY <1>1, <1>2

\* The other commands save nothing.
LEMMA CommandChecked ==
  ASSUME WireChecked, Send \/ Compensate
  PROVE  WireChecked'
<1>1. PICK command : /\ command # "save"
                     /\ wire' \in {wire, wire \cup {Request(command, ListBody)}}
  <2>1. CASE Send
    <3>1. u.step # "save"
      BY <2>1 DEF Send
    <3> QED
      BY <2>1, <3>1 DEF Send
  <2>2. CASE Compensate
    <3>1. Compensation # "save"
      BY DEF Compensation
    <3> QED
      BY <2>2, <3>1 DEF Compensate
  <2> QED
    BY <2>1, <2>2
<1>2. Request(command, ListBody).command # "save"
  BY <1>1 DEF Request
<1> QED
  BY <1>1, <1>2 DEF WireChecked, Checked

LEMMA WireCheckedStep ==
  ASSUME WireChecked, [Next]_vars
  PROVE  WireChecked'
<1>1. CASE Begin \/ \E key \in Keys : Busy(key)
  BY <1>1, FewerChecked DEF Begin, BeginSave, BeginFixed, BeginStructural, Lease,
     Busy
<1>2. CASE CallStep
  <2>1. CASE \/ SaveVisit \/ SaveAnswered \/ Visit \/ File \/ ListAnswered
             \/ Lapse \/ Shut \/ RestoreRoot \/ Look \/ Relook \/ Compensated
             \/ Close \/ Rebind \/ End
    BY <2>1, FewerChecked DEF SaveVisit, SaveAnswered, Visit, File, ListAnswered,
       Lapse, Shut, RestoreRoot, Look, Relook, Compensated, Close, Rebind, End
  <2> QED
    BY <1>2, <2>1, SentChecked, CommandChecked DEF CallStep
<1>3. CASE Server
  BY <1>3, FewerChecked DEF Server, LandSave, LandList, LandDuplicate, LandAdd
<1>4. CASE Failure
  BY <1>4, FewerChecked DEF Failure, Refuse, StepFails, LookFails, CloseFails,
     RebindFails, Crash
<1>5. CASE UserRestores \/ Drift \/ UNCHANGED vars
  BY <1>5, FewerChecked DEF UserRestores, Drift, vars
<1> QED
  BY <1>1, <1>2, <1>3, <1>4, <1>5 DEF Next

\* A form is only saved with what the call has seen of the rest of the page:
\* whatever was on the page when the form was loaded stays on it.
THEOREM SavesAlwaysWhatItSaw == Spec => []SavesWhatItSaw
<1>1. Init => WireChecked
  BY DEF Init, WireChecked
<1>2. WireChecked /\ [Next]_vars => WireChecked'
  BY WireCheckedStep
<1>3. WireChecked => SavesWhatItSaw
  BY DEF WireChecked, Checked, SavesWhatItSaw
<1> QED
  BY <1>1, <1>2, <1>3, PTL DEF Spec

----------------------------------------------------------------------------
(* Scripts                                                                 *)

\* No step occurs twice in a script, and none is a step of the compensation.
Orderly(script) ==
  /\ Len(script) \in Nat \ {0} /\ DOMAIN script = 1 .. Len(script)
  /\ \A i, j \in 1 .. Len(script) : script[i] = script[j] => i = j
  /\ \A i \in 1 .. Len(script) : script[i] = "end" <=> i = Len(script)
  /\ \A i \in 1 .. Len(script) : script[i] \notin Recovery \cup {"sent", "idle"}
  /\ \A i \in 1 .. Len(script) - 1 : script[i] = "shut" => script[i + 1] = "root"
  /\ \A i \in 1 .. Len(script) - 1 : script[i] = "rebind" => script[i + 1] = "end"

\* The eight scripts are orderly.
LEMMA ScriptOrderly ==
  ASSUME NEW op \in Operations
  PROVE  Orderly(Script(op))
<1>1. CASE op = "fixed"
  <2> DEFINE script == <<"check", "base", "source", "ready", "duplicate", "twin",
                         "temp", "aligned", "sort", "sorted", "unsort", "unsorted",
                         "delete", "gone", "after", "root", "close", "end">>
  <2>1. Script(op) = script
    BY <1>1 DEF Script
  <2>2. DOMAIN script = 1 .. 18 /\ Len(script) = 18
    OBVIOUS
  <2>3. script[1] = "check" /\ script[2] = "base" /\ script[3] = "source"
          /\ script[4] = "ready" /\ script[5] = "duplicate" /\
          script[6] = "twin" /\ script[7] = "temp" /\ script[8] = "aligned"
          /\ script[9] = "sort" /\ script[10] = "sorted" /\
          script[11] = "unsort" /\ script[12] = "unsorted" /\
          script[13] = "delete" /\ script[14] = "gone" /\
          script[15] = "after" /\ script[16] = "root" /\
          script[17] = "close" /\ script[18] = "end"
    OBVIOUS
  <2> HIDE DEF script
  <2>4. \A i, j \in 1 .. 18 : script[i] = script[j] => i = j
    BY <2>3, SMTT(60)
  <2>5. \A i \in 1 .. 18 : script[i] = "end" <=> i = 18
    BY <2>3
  <2>6. \A i \in 1 .. 18 : script[i] \notin Recovery \cup {"sent", "idle"}
    BY <2>3 DEF Recovery
  <2>7. \A i \in 1 .. 17 : script[i] = "shut" => script[i + 1] = "root"
    BY <2>3
  <2>8. \A i \in 1 .. 17 : script[i] = "rebind" => script[i + 1] = "end"
    BY <2>3
  <2> QED
    BY <2>1, <2>2, <2>4, <2>5, <2>6, <2>7, <2>8 DEF Orderly
<1>2. CASE op = "create"
  <2> DEFINE script == <<"base", "source", "ready", "duplicate", "delta", "temp",
                         "after", "root", "file", "close", "rebind", "end">>
  <2>1. Script(op) = script
    BY <1>2 DEF Script
  <2>2. DOMAIN script = 1 .. 12 /\ Len(script) = 12
    OBVIOUS
  <2>3. script[1] = "base" /\ script[2] = "source" /\ script[3] = "ready"
          /\ script[4] = "duplicate" /\ script[5] = "delta" /\
          script[6] = "temp" /\ script[7] = "after" /\ script[8] = "root" /\
          script[9] = "file" /\ script[10] = "close" /\
          script[11] = "rebind" /\ script[12] = "end"
    OBVIOUS
  <2> HIDE DEF script
  <2>4. \A i, j \in 1 .. 12 : script[i] = script[j] => i = j
    BY <2>3, SMTT(60)
  <2>5. \A i \in 1 .. 12 : script[i] = "end" <=> i = 12
    BY <2>3
  <2>6. \A i \in 1 .. 12 : script[i] \notin Recovery \cup {"sent", "idle"}
    BY <2>3 DEF Recovery
  <2>7. \A i \in 1 .. 11 : script[i] = "shut" => script[i + 1] = "root"
    BY <2>3
  <2>8. \A i \in 1 .. 11 : script[i] = "rebind" => script[i + 1] = "end"
    BY <2>3
  <2> QED
    BY <2>1, <2>2, <2>4, <2>5, <2>6, <2>7, <2>8 DEF Orderly
<1>3. CASE op = "cleanup"
  <2> DEFINE script == <<"match", "source", "temp", "ready", "delete", "absent",
                         "after", "root", "close", "rebind", "end">>
  <2>1. Script(op) = script
    BY <1>3 DEF Script
  <2>2. DOMAIN script = 1 .. 11 /\ Len(script) = 11
    OBVIOUS
  <2>3. script[1] = "match" /\ script[2] = "source" /\ script[3] = "temp"
          /\ script[4] = "ready" /\ script[5] = "delete" /\
          script[6] = "absent" /\ script[7] = "after" /\ script[8] = "root"
          /\ script[9] = "close" /\ script[10] = "rebind" /\
          script[11] = "end"
    OBVIOUS
  <2> HIDE DEF script
  <2>4. \A i, j \in 1 .. 11 : script[i] = script[j] => i = j
    BY <2>3, SMTT(60)
  <2>5. \A i \in 1 .. 11 : script[i] = "end" <=> i = 11
    BY <2>3
  <2>6. \A i \in 1 .. 11 : script[i] \notin Recovery \cup {"sent", "idle"}
    BY <2>3 DEF Recovery
  <2>7. \A i \in 1 .. 10 : script[i] = "shut" => script[i + 1] = "root"
    BY <2>3
  <2>8. \A i \in 1 .. 10 : script[i] = "rebind" => script[i + 1] = "end"
    BY <2>3
  <2> QED
    BY <2>1, <2>2, <2>4, <2>5, <2>6, <2>7, <2>8 DEF Orderly
<1>4. CASE op = "template"
  <2> DEFINE script == <<"before", "add", "added", "root", "close", "end">>
  <2>1. Script(op) = script
    BY <1>4 DEF Script
  <2>2. DOMAIN script = 1 .. 6 /\ Len(script) = 6
    OBVIOUS
  <2>3. script[1] = "before" /\ script[2] = "add" /\ script[3] = "added"
          /\ script[4] = "root" /\ script[5] = "close" /\ script[6] = "end"
    OBVIOUS
  <2> HIDE DEF script
  <2>4. \A i, j \in 1 .. 6 : script[i] = script[j] => i = j
    BY <2>3, SMTT(60)
  <2>5. \A i \in 1 .. 6 : script[i] = "end" <=> i = 6
    BY <2>3
  <2>6. \A i \in 1 .. 6 : script[i] \notin Recovery \cup {"sent", "idle"}
    BY <2>3 DEF Recovery
  <2>7. \A i \in 1 .. 5 : script[i] = "shut" => script[i + 1] = "root"
    BY <2>3
  <2>8. \A i \in 1 .. 5 : script[i] = "rebind" => script[i + 1] = "end"
    BY <2>3
  <2> QED
    BY <2>1, <2>2, <2>4, <2>5, <2>6, <2>7, <2>8 DEF Orderly
<1>5. CASE op \in {"settings", "zero"}
  <2> DEFINE script == <<"snap", "reread", "open", "save", "shut", "root", "proof",
                         "close", "end">>
  <2>1. Script(op) = script
    BY <1>5 DEF Script
  <2>2. DOMAIN script = 1 .. 9 /\ Len(script) = 9
    OBVIOUS
  <2>3. script[1] = "snap" /\ script[2] = "reread" /\ script[3] = "open"
          /\ script[4] = "save" /\ script[5] = "shut" /\ script[6] = "root"
          /\ script[7] = "proof" /\ script[8] = "close" /\ script[9] = "end"
    OBVIOUS
  <2> HIDE DEF script
  <2>4. \A i, j \in 1 .. 9 : script[i] = script[j] => i = j
    BY <2>3, SMTT(60)
  <2>5. \A i \in 1 .. 9 : script[i] = "end" <=> i = 9
    BY <2>3
  <2>6. \A i \in 1 .. 9 : script[i] \notin Recovery \cup {"sent", "idle"}
    BY <2>3 DEF Recovery
  <2>7. \A i \in 1 .. 8 : script[i] = "shut" => script[i + 1] = "root"
    BY <2>3
  <2>8. \A i \in 1 .. 8 : script[i] = "rebind" => script[i + 1] = "end"
    BY <2>3
  <2> QED
    BY <2>1, <2>2, <2>4, <2>5, <2>6, <2>7, <2>8 DEF Orderly
<1>6. CASE op = "head"
  <2> DEFINE script == <<"snap", "reread", "open", "save", "root", "proof", "close",
                         "end">>
  <2>1. Script(op) = script
    BY <1>6 DEF Script
  <2>2. DOMAIN script = 1 .. 8 /\ Len(script) = 8
    OBVIOUS
  <2>3. script[1] = "snap" /\ script[2] = "reread" /\ script[3] = "open"
          /\ script[4] = "save" /\ script[5] = "root" /\ script[6] = "proof"
          /\ script[7] = "close" /\ script[8] = "end"
    OBVIOUS
  <2> HIDE DEF script
  <2>4. \A i, j \in 1 .. 8 : script[i] = script[j] => i = j
    BY <2>3, SMTT(60)
  <2>5. \A i \in 1 .. 8 : script[i] = "end" <=> i = 8
    BY <2>3
  <2>6. \A i \in 1 .. 8 : script[i] \notin Recovery \cup {"sent", "idle"}
    BY <2>3 DEF Recovery
  <2>7. \A i \in 1 .. 7 : script[i] = "shut" => script[i + 1] = "root"
    BY <2>3
  <2>8. \A i \in 1 .. 7 : script[i] = "rebind" => script[i + 1] = "end"
    BY <2>3
  <2> QED
    BY <2>1, <2>2, <2>4, <2>5, <2>6, <2>7, <2>8 DEF Orderly
<1>7. CASE op = "publish"
  <2> DEFINE script == <<"snap", "reread", "open", "save", "close", "end">>
  <2>1. Script(op) = script
    BY <1>7 DEF Script
  <2>2. DOMAIN script = 1 .. 6 /\ Len(script) = 6
    OBVIOUS
  <2>3. script[1] = "snap" /\ script[2] = "reread" /\ script[3] = "open"
          /\ script[4] = "save" /\ script[5] = "close" /\ script[6] = "end"
    OBVIOUS
  <2> HIDE DEF script
  <2>4. \A i, j \in 1 .. 6 : script[i] = script[j] => i = j
    BY <2>3, SMTT(60)
  <2>5. \A i \in 1 .. 6 : script[i] = "end" <=> i = 6
    BY <2>3
  <2>6. \A i \in 1 .. 6 : script[i] \notin Recovery \cup {"sent", "idle"}
    BY <2>3 DEF Recovery
  <2>7. \A i \in 1 .. 5 : script[i] = "shut" => script[i + 1] = "root"
    BY <2>3
  <2>8. \A i \in 1 .. 5 : script[i] = "rebind" => script[i + 1] = "end"
    BY <2>3
  <2> QED
    BY <2>1, <2>2, <2>4, <2>5, <2>6, <2>7, <2>8 DEF Orderly
<1>8. CASE op \in {"standard", "t123"}
  <2> DEFINE script == <<"snap", "reread", "save", "proof", "close", "end">>
  <2>1. Script(op) = script
    BY <1>8 DEF Script
  <2>2. DOMAIN script = 1 .. 6 /\ Len(script) = 6
    OBVIOUS
  <2>3. script[1] = "snap" /\ script[2] = "reread" /\ script[3] = "save"
          /\ script[4] = "proof" /\ script[5] = "close" /\ script[6] = "end"
    OBVIOUS
  <2> HIDE DEF script
  <2>4. \A i, j \in 1 .. 6 : script[i] = script[j] => i = j
    BY <2>3, SMTT(60)
  <2>5. \A i \in 1 .. 6 : script[i] = "end" <=> i = 6
    BY <2>3
  <2>6. \A i \in 1 .. 6 : script[i] \notin Recovery \cup {"sent", "idle"}
    BY <2>3 DEF Recovery
  <2>7. \A i \in 1 .. 5 : script[i] = "shut" => script[i + 1] = "root"
    BY <2>3
  <2>8. \A i \in 1 .. 5 : script[i] = "rebind" => script[i + 1] = "end"
    BY <2>3
  <2> QED
    BY <2>1, <2>2, <2>4, <2>5, <2>6, <2>7, <2>8 DEF Orderly
<1> QED
  BY <1>1, <1>2, <1>3, <1>4, <1>5, <1>6, <1>7, <1>8 DEF Operations, Saves, Forms, Structural

----------------------------------------------------------------------------
(* Every command is posted once                                            *)

\* The fields of a call.
Fields == DOMAIN Idle
Flags == /\ u.failed \in BOOLEAN /\ u.sortTried \in BOOLEAN /\ u.deleteTried \in BOOLEAN

CallTyped ==
  /\ DOMAIN u = Fields /\ u.sent \in Seq(Commands) /\ Flags
  /\ u.op \in Operations \cup {"none"}
  /\ u.op = "none" => u.step = "idle" /\ ~u.failed /\ u.sent = <<>>

\* What was sent was tried.
Tried ==
  \A i \in 1 .. Len(u.sent) :
    /\ u.sent[i] = "unsort" => u.sortTried
    /\ u.sent[i] = "delete" => u.deleteTried

\* A call that goes well stands at one place of its script, the command it
\* waits for or its next step, and has sent only commands from before it.
Place == IF Waiting THEN LastSent ELSE u.step
Before(p) ==
  \A i \in 1 .. Len(u.sent) :
    \/ Waiting /\ i = Len(u.sent)
    \/ \E q \in 1 .. p - 1 : Script(u.op)[q] = u.sent[i]
Going ==
  u.op \in Operations /\ ~u.failed =>
    /\ Waiting => Len(u.sent) > 0
    /\ \E p \in 1 .. Len(Script(u.op)) : Script(u.op)[p] = Place /\ Before(p)

\* A call that has failed sends nothing but what it has not tried.
Failing ==
  u.failed =>
    /\ u.step \in Recovery \cup {"sent", "shut", "root", "close", "end"}
    /\ At("resort") => ~u.sortTried
    /\ At("redelete") => ~u.deleteTried
    /\ Waiting => Len(u.sent) > 0 /\ LastSent \in {"unsort", "delete"}

Posted == CallTyped /\ Tried /\ Going /\ Failing /\ EachCommandOnce

\* Nobody holds the lease at first.
LEMMA InitPosted == Init => Posted
<1> SUFFICES ASSUME Init PROVE Posted
  OBVIOUS
<1>1. /\ u = Idle /\ u.op = "none" /\ u.step = "idle" /\ u.sent = <<>>
      /\ u.failed = FALSE /\ u.sortTried = FALSE /\ u.deleteTried = FALSE
  BY DEF Init, Idle
<1>2. "none" \notin Operations
  BY DEF Operations, Saves, Structural, Forms
<1>3. <<>> \in Seq(Commands) /\ Len(<<>>) = 0 /\ DOMAIN <<>> = {}
  OBVIOUS
<1>4. CallTyped
  BY <1>1, <1>3 DEF CallTyped, Flags, Fields
<1>5. Tried /\ EachCommandOnce
  BY <1>1, <1>3 DEF Tried, EachCommandOnce, IsInjective
<1>6. Going /\ Failing
  BY <1>1, <1>2 DEF Going, Failing
<1> QED
  BY <1>4, <1>5, <1>6 DEF Posted

\* What of the call none of this looks at may change.
LEMMA SameCallPosted ==
  ASSUME Posted, DOMAIN u' = DOMAIN u,
         u'.op = u.op, u'.step = u.step, u'.sent = u.sent, u'.failed = u.failed,
         u'.sortTried = u.sortTried, u'.deleteTried = u.deleteTried
  PROVE  Posted'
<1>1. /\ Waiting' = Waiting /\ LastSent' = LastSent /\ Place' = Place
      /\ \A s : At(s)' = At(s)
  BY DEF Waiting, LastSent, Place, At
<1>2. \A p : Before(p)' = Before(p)
  BY <1>1 DEF Before
<1>3. CallTyped' /\ Tried' /\ EachCommandOnce'
  BY DEF Posted, CallTyped, Flags, Tried, EachCommandOnce
<1>4. Going' /\ Failing'
  BY <1>1, <1>2 DEF Posted, Going, Failing, Waiting, At
<1> QED
  BY <1>3, <1>4 DEF Posted

\* A call begins with the first step of its script, or fails at once.
LEMMA BeginPosted ==
  ASSUME Posted, NEW op \in Operations, NEW key, NEW receipt, Lease(op, key, receipt)
  PROVE  Posted'
<1>1. /\ DOMAIN u' = Fields /\ u'.op = op /\ u'.sent = <<>>
      /\ u'.sortTried = FALSE /\ u'.deleteTried = FALSE
      /\ \/ u'.failed = FALSE /\ u'.step = Script(op)[1]
         \/ u'.failed = TRUE /\ u'.step = "end"
  <2>1. CASE tab = Root
    BY <2>1 DEF Lease, Idle, Fields
  <2> QED
    BY <2>1 DEF Lease, Idle, Fields
<1>2. /\ Script(op)[1] \notin {"sent", "idle"} \cup Recovery
      /\ 1 \in 1 .. Len(Script(op))
  BY ScriptOrderly DEF Orderly
<1>3. <<>> \in Seq(Commands) /\ Len(<<>>) = 0 /\ DOMAIN <<>> = {}
  OBVIOUS
<1>4. CallTyped'
  <2>1. "none" \notin Operations
    BY DEF Operations, Saves, Structural, Forms
  <2> QED
    BY <1>1, <1>3, <2>1 DEF CallTyped, Flags
<1>8. Tried' /\ EachCommandOnce'
  BY <1>1, <1>3 DEF Tried, EachCommandOnce, IsInjective
<1>5. ~Waiting' /\ ~At("resort")' /\ ~At("redelete")'
  BY <1>1, <1>2 DEF Waiting, At, Recovery
<1>6. Going'
  BY <1>1, <1>2, <1>3, <1>5 DEF Going, Place, Before
<1>7. Failing'
  BY <1>1, <1>5 DEF Failing
<1> QED
  BY <1>4, <1>6, <1>7, <1>8 DEF Posted

\* What follows a step is the next of its script.
LEMMA FollowingPlace ==
  ASSUME u.op \in Operations, NEW p \in 1 .. Len(Script(u.op)),
         Script(u.op)[p] # "end"
  PROVE  /\ p + 1 \in 1 .. Len(Script(u.op))
         /\ Following(Script(u.op)[p]) = Script(u.op)[p + 1]
<1> DEFINE script == Script(u.op)
           place == CHOOSE i \in DOMAIN script : script[i] = script[p]
<1>1. Orderly(script)
  BY ScriptOrderly
<1>2. p + 1 \in 1 .. Len(script)
  BY <1>1 DEF Orderly
<1>3. place = p
  BY <1>1 DEF Orderly
<1>4. Following(script[p]) = script[1 + place]
  BY DEF Following
<1>5. 1 + p = p + 1
  OBVIOUS
<1> QED
  BY <1>2, <1>3, <1>4, <1>5

\* The next step of a call that goes well, from a visit or an answer.
LEMMA AdvancePosted ==
  ASSUME Posted, u.op \in Operations, ~u.failed, Place # "end",
         DOMAIN u' = DOMAIN u, u'.op = u.op, u'.sent = u.sent,
         u'.failed = u.failed, u'.sortTried = u.sortTried,
         u'.deleteTried = u.deleteTried, u'.step = Following(Place)
  PROVE  Posted'
<1> DEFINE script == Script(u.op)
<1>1. PICK p \in 1 .. Len(script) : script[p] = Place /\ Before(p)
  BY DEF Posted, Going
<1>2. p + 1 \in 1 .. Len(script) /\ u'.step = script[p + 1]
  BY <1>1, FollowingPlace
<1>3. u'.step \notin {"sent", "idle"} \cup Recovery
  BY <1>2, ScriptOrderly DEF Orderly
<1>4. ~Waiting' /\ Place' = script[p + 1]
  BY <1>2, <1>3 DEF Waiting, At, Place
<1>5. \A i \in 1 .. Len(u.sent) : \E q \in 1 .. (p + 1) - 1 : script[q] = u.sent[i]
  <2> TAKE i \in 1 .. Len(u.sent)
  <2>1. (p + 1) - 1 = p
    OBVIOUS
  <2>2. CASE Waiting /\ i = Len(u.sent)
    BY <1>1, <2>1, <2>2 DEF Place, LastSent
  <2>3. CASE ~(Waiting /\ i = Len(u.sent))
    BY <1>1, <2>1, <2>3 DEF Before
  <2> QED
    BY <2>2, <2>3
<1>6. Before(p + 1)'
  BY <1>5 DEF Before
<1>7. Going'
  BY <1>2, <1>4, <1>6 DEF Going
<1>8. CallTyped' /\ Tried' /\ EachCommandOnce'
  <2>1. u.op # "none"
    BY DEF Operations, Saves, Structural, Forms
  <2> QED
    BY <2>1 DEF Posted, CallTyped, Flags, Tried, EachCommandOnce
<1> QED
  BY <1>7, <1>8 DEF Posted, Failing

\* A call fails; what it tried it may have noted before.
LEMMA FailPosted ==
  ASSUME Posted, u.op \in Operations, DOMAIN u' = DOMAIN u,
         u'.op = u.op, u'.sent = u.sent, u'.failed = TRUE, Flags',
         u.sortTried => u'.sortTried, u.deleteTried => u'.deleteTried,
         u'.step \in {"look", "relook", "shut", "root", "close", "end"}
  PROVE  Posted'
<1>1. u.op # "none"
  BY DEF Operations, Saves, Structural, Forms
<1>2. CallTyped' /\ Tried' /\ EachCommandOnce'
  BY <1>1 DEF Posted, CallTyped, Tried, EachCommandOnce
<1>3. ~Waiting' /\ ~At("resort")' /\ ~At("redelete")'
  BY DEF Waiting, At
<1> QED
  BY <1>2, <1>3 DEF Posted, Going, Failing, Recovery

\* A command that is not among those sent is appended to them.
LEMMA AppendPosted ==
  ASSUME CallTyped, EachCommandOnce, NEW c \in Commands,
         \A i \in 1 .. Len(u.sent) : u.sent[i] # c,
         u'.sent = Append(u.sent, c)
  PROVE  /\ EachCommandOnce' /\ u'.sent \in Seq(Commands)
         /\ Len(u'.sent) = Len(u.sent) + 1 /\ u'.sent[Len(u'.sent)] = c
         /\ \A i \in 1 .. Len(u.sent) : u'.sent[i] = u.sent[i]
<1>1. u.sent \in Seq(Commands)
  BY DEF CallTyped
<1>2. /\ u'.sent \in Seq(Commands)
      /\ Len(u'.sent) = Len(u.sent) + 1 /\ u'.sent[Len(u'.sent)] = c
      /\ \A i \in 1 .. Len(u.sent) : u'.sent[i] = u.sent[i]
  BY <1>1
<1>3. /\ DOMAIN u.sent = 1 .. Len(u.sent)
      /\ DOMAIN u'.sent = 1 .. Len(u.sent) + 1
      /\ Len(u.sent) \in Nat
  BY <1>1, <1>2
<1>4. EachCommandOnce'
  BY <1>2, <1>3 DEF EachCommandOnce, IsInjective
<1> QED
  BY <1>2, <1>4

\* A call posts the command it has come to.
LEMMA PostPosted ==
  ASSUME Posted, u.op \in Operations, ~u.failed, u.step \in Commands,
         DOMAIN u' = DOMAIN u, u'.op = u.op, u'.failed = u.failed, Flags',
         u'.step = "sent", u'.sent = Append(u.sent, u.step),
         u.sortTried \/ At("unsort") => u'.sortTried,
         u.deleteTried \/ At("delete") => u'.deleteTried
  PROVE  Posted'
<1> DEFINE script == Script(u.op)
<1>1. ~Waiting /\ Place = u.step
  BY DEF Waiting, At, Place, Commands
<1>2. PICK p \in 1 .. Len(script) : script[p] = u.step /\ Before(p)
  BY <1>1 DEF Posted, Going
<1>3. \A i \in 1 .. Len(u.sent) : \E q \in 1 .. p - 1 : script[q] = u.sent[i]
  BY <1>1, <1>2 DEF Before
<1>4. \A i \in 1 .. Len(u.sent) : u.sent[i] # u.step
  BY <1>2, <1>3, ScriptOrderly DEF Orderly
<1>5. /\ EachCommandOnce' /\ u'.sent \in Seq(Commands)
      /\ Len(u'.sent) = Len(u.sent) + 1 /\ u'.sent[Len(u'.sent)] = u.step
      /\ \A i \in 1 .. Len(u.sent) : u'.sent[i] = u.sent[i]
  BY <1>4, AppendPosted DEF Posted
<1>6. Len(u.sent) \in Nat
  BY DEF Posted, CallTyped
<1>7. u.op # "none"
  BY DEF Operations, Saves, Structural, Forms
<1>8. CallTyped'
  BY <1>5, <1>7 DEF Posted, CallTyped
<1>9. Tried'
  <2> SUFFICES ASSUME NEW i \in 1 .. Len(u'.sent)
               PROVE  /\ u'.sent[i] = "unsort" => u'.sortTried
                      /\ u'.sent[i] = "delete" => u'.deleteTried
    BY DEF Tried
  <2>1. CASE i = Len(u'.sent)
    BY <1>5, <2>1 DEF At
  <2>2. CASE i # Len(u'.sent)
    BY <1>5, <1>6, <2>2 DEF Posted, Tried
  <2> QED
    BY <2>1, <2>2
<1>10. Waiting' /\ Len(u'.sent) > 0 /\ Place' = u.step
  BY <1>5, <1>6 DEF Waiting, At, Place, LastSent
<1>11. Before(p)'
  <2> SUFFICES ASSUME NEW i \in 1 .. Len(u'.sent), i # Len(u'.sent)
               PROVE  \E q \in 1 .. p - 1 : script[q] = u'.sent[i]
    BY <1>10 DEF Before
  <2> QED
    BY <1>3, <1>5, <1>6
<1>12. Going'
  BY <1>2, <1>10, <1>11 DEF Going
<1> QED
  BY <1>5, <1>8, <1>9, <1>12 DEF Posted, Failing

\* A compensating command is one the call has not tried.
LEMMA CompensatePosted ==
  ASSUME Posted, u.op \in Operations, u.failed, u.step \in {"resort", "redelete"},
         DOMAIN u' = DOMAIN u, u'.op = u.op, u'.failed = u.failed, Flags',
         u'.step = "sent", u'.sent = Append(u.sent, Compensation),
         u.sortTried \/ At("resort") => u'.sortTried,
         u.deleteTried \/ At("redelete") => u'.deleteTried
  PROVE  Posted'
<1>1. Compensation \in Commands /\ Compensation \in {"unsort", "delete"}
  BY DEF Compensation, Commands
<1>2. \A i \in 1 .. Len(u.sent) : u.sent[i] # Compensation
  BY DEF Posted, Failing, Tried, Compensation, At
<1>3. /\ EachCommandOnce' /\ u'.sent \in Seq(Commands)
      /\ Len(u'.sent) = Len(u.sent) + 1 /\ u'.sent[Len(u'.sent)] = Compensation
      /\ \A i \in 1 .. Len(u.sent) : u'.sent[i] = u.sent[i]
  BY <1>1, <1>2, AppendPosted DEF Posted
<1>4. Len(u.sent) \in Nat
  BY DEF Posted, CallTyped
<1>5. u.op # "none"
  BY DEF Operations, Saves, Structural, Forms
<1>6. CallTyped'
  BY <1>3, <1>5 DEF Posted, CallTyped
<1>7. Tried'
  <2> SUFFICES ASSUME NEW i \in 1 .. Len(u'.sent)
               PROVE  /\ u'.sent[i] = "unsort" => u'.sortTried
                      /\ u'.sent[i] = "delete" => u'.deleteTried
    BY DEF Tried
  <2>1. CASE i = Len(u'.sent)
    BY <1>3, <2>1 DEF At, Compensation
  <2>2. CASE i # Len(u'.sent)
    BY <1>3, <1>4, <2>2 DEF Posted, Tried
  <2> QED
    BY <2>1, <2>2
<1>8. Failing'
  BY <1>1, <1>3, <1>4 DEF Failing, At, Waiting, LastSent
<1> QED
  BY <1>3, <1>6, <1>7, <1>8 DEF Posted, Going

\* The compensation goes on without a command.
LEMMA RecoverPosted ==
  ASSUME Posted, u.op \in Operations, u.failed, DOMAIN u' = DOMAIN u,
         u'.op = u.op, u'.sent = u.sent, u'.failed = u.failed, Flags',
         u.sortTried => u'.sortTried, u.deleteTried => u'.deleteTried,
         u'.step \in Recovery \cup {"shut", "root", "close", "end"},
         At("resort")' => ~u'.sortTried, At("redelete")' => ~u'.deleteTried
  PROVE  Posted'
<1>1. u.op # "none"
  BY DEF Operations, Saves, Structural, Forms
<1>2. CallTyped' /\ Tried' /\ EachCommandOnce'
  BY <1>1 DEF Posted, CallTyped, Tried, EachCommandOnce
<1>3. ~Waiting'
  BY DEF Waiting, At, Recovery
<1> QED
  BY <1>2, <1>3 DEF Posted, Going, Failing

\* The lease is given back, or the process dies.
LEMMA IdlePosted ==
  ASSUME u' = Idle
  PROVE  Posted'
<1>1. /\ u'.op = "none" /\ u'.step = "idle" /\ u'.sent = <<>> /\ DOMAIN u' = Fields
      /\ u'.failed = FALSE /\ u'.sortTried = FALSE /\ u'.deleteTried = FALSE
  BY DEF Idle, Fields
<1>2. "none" \notin Operations
  BY DEF Operations, Saves, Structural, Forms
<1>3. <<>> \in Seq(Commands) /\ Len(<<>>) = 0 /\ DOMAIN <<>> = {}
  OBVIOUS
<1>4. CallTyped'
  BY <1>1, <1>3 DEF CallTyped, Flags
<1>5. Tried' /\ EachCommandOnce'
  BY <1>1, <1>3 DEF Tried, EachCommandOnce, IsInjective
<1>6. Going' /\ Failing'
  BY <1>1, <1>2 DEF Going, Failing
<1> QED
  BY <1>4, <1>5, <1>6 DEF Posted

\* The fields of a call, one by one.
LEMMA CallFields ==
  Fields = {"op", "step", "key", "nr", "failed", "owned", "seen", "base", "temp",
            "receipt", "cur", "sent", "answer", "made", "sortTried",
            "deleteTried", "mark"}
BY DEF Fields, Idle

\* A step of a call belongs to an operation.
LEMMA StepOfOperation ==
  ASSUME Posted, u.step # "idle"
  PROVE  u.op \in Operations
BY DEF Posted, CallTyped

\* A step that fails ends what the call was doing.
LEMMA ThrownPosted ==
  ASSUME Posted, u.step # "idle", NEW call, u' = Thrown(call),
         call = u \/ call = Noted
  PROVE  Posted'
<1>1. u.op \in Operations
  BY StepOfOperation
<1>2. DOMAIN u = Fields /\ Flags
  BY DEF Posted, CallTyped
<1>3. /\ DOMAIN call = Fields /\ call.op = u.op /\ call.sent = u.sent
      /\ call.sortTried \in BOOLEAN /\ call.deleteTried \in BOOLEAN
      /\ u.sortTried => call.sortTried
      /\ u.deleteTried => call.deleteTried
  BY <1>2, CallFields DEF Noted, Flags
<1>4. /\ DOMAIN u' = Fields /\ u'.op = call.op /\ u'.sent = call.sent
      /\ u'.sortTried = call.sortTried /\ u'.deleteTried = call.deleteTried
      /\ u'.failed = TRUE /\ u'.step = Finally
  BY <1>3, CallFields DEF Thrown
<1>5. Finally \in {"look", "shut", "root", "close"}
  BY DEF Finally
<1>6. Flags'
  BY <1>3, <1>4 DEF Flags
<1> QED
  BY <1>1, <1>2, <1>3, <1>4, <1>5, <1>6, FailPosted

\* A visit or an answer that was accepted.
LEMMA GoesOnPosted ==
  ASSUME Posted, u.step \notin {"idle", "end"}, ~u.failed, Place # "end",
         NEW call, call \in {u, Learnt} \/ \E p : call = [u EXCEPT !.seen = p],
         u' = [call EXCEPT !.step = Following(Place)]
  PROVE  Posted'
<1>1. u.op \in Operations /\ DOMAIN u = Fields
  BY StepOfOperation DEF Posted, CallTyped
<1>2. /\ DOMAIN call = Fields /\ call.op = u.op /\ call.sent = u.sent
      /\ call.failed = u.failed /\ call.sortTried = u.sortTried
      /\ call.deleteTried = u.deleteTried
  BY <1>1, CallFields DEF Learnt
<1>3. /\ DOMAIN u' = Fields /\ u'.op = call.op /\ u'.sent = call.sent
      /\ u'.failed = call.failed /\ u'.sortTried = call.sortTried
      /\ u'.deleteTried = call.deleteTried /\ u'.step = Following(Place)
  BY <1>2, CallFields
<1> QED
  BY <1>1, <1>2, <1>3, AdvancePosted

\* The server answers, or refuses to carry out, a request.
LEMMA AnswerPosted ==
  ASSUME Posted, NEW r, NEW answer, NEW made, Answered(r, answer, made)
  PROVE  Posted'
<1>1. DOMAIN u = Fields
  BY DEF Posted, CallTyped
<1>2. /\ DOMAIN u' = DOMAIN u /\ u'.op = u.op /\ u'.step = u.step
      /\ u'.sent = u.sent /\ u'.failed = u.failed
      /\ u'.sortTried = u.sortTried /\ u'.deleteTried = u.deleteTried
  BY <1>1, CallFields DEF Answered
<1> QED
  BY <1>2, SameCallPosted

\* What happens to others does not concern the call.
LEMMA UnchangedPosted ==
  ASSUME Posted, UNCHANGED u
  PROVE  Posted'
BY SameCallPosted

\* The visits of a call, and the steps after them that may fail.
LEMMA VisitPosted ==
  ASSUME Posted, SaveVisit \/ Visit \/ File
  PROVE  Posted'
<1>1. u.step \notin Recovery \cup {"sent", "shut", "root", "close", "end", "idle"}
  BY DEF SaveVisit, Visit, File, At, SaveVisits, ListVisits, Recovery
<1>2. ~u.failed /\ Place = u.step
  BY <1>1 DEF Posted, Failing, Place, Waiting, At
<1>3. CASE SaveVisit
  <2>1. CASE At("reread") => Fresh(page[Source])
    <3> DEFINE p == IF At("snap") THEN page[Source] ELSE u.seen
    <3>1. u' = [[u EXCEPT !.seen = p] EXCEPT !.step = Following(Place)]
      BY <1>2, <1>3, <2>1 DEF SaveVisit, Advance
    <3> HIDE DEF p
    <3> QED
      BY <1>1, <1>2, <3>1, GoesOnPosted
  <2> QED
    BY <1>1, <1>3, <2>1, ThrownPosted DEF SaveVisit, Fail
<1>4. CASE Visit
  BY <1>1, <1>2, <1>4, GoesOnPosted, ThrownPosted DEF Visit, Advance, Fail
<1>5. CASE File
  BY <1>1, <1>2, <1>5, GoesOnPosted, ThrownPosted DEF File, Advance, Fail
<1> QED
  BY <1>3, <1>4, <1>5

\* The commands, and what becomes of them.
LEMMA CommandPosted ==
  ASSUME Posted, SendSave \/ Send
  PROVE  Posted'
<1>1. u.step \in Commands
  BY DEF SendSave, Send, At, Commands
<1>2. u.step # "idle" /\ u.op \in Operations /\ ~u.failed
  BY <1>1, StepOfOperation DEF Commands, Posted, Failing, Recovery
<1>3. DOMAIN u = Fields /\ Flags
  BY DEF Posted, CallTyped
<1>4. CASE u' = Thrown(u) \/ u' = Thrown(Noted)
  BY <1>2, <1>4, ThrownPosted
<1>5. CASE SendSave /\ InDocument
  <2>1. u' = [u EXCEPT !.step = "sent", !.sent = Append(@, u.step), !.answer = None]
    BY <1>5 DEF SendSave, Post
  <2>2. /\ DOMAIN u' = DOMAIN u /\ u'.op = u.op /\ u'.failed = u.failed
        /\ u'.step = "sent" /\ u'.sent = Append(u.sent, u.step)
        /\ u'.sortTried = u.sortTried /\ u'.deleteTried = u.deleteTried
    BY <1>3, <2>1, CallFields
  <2>3. ~At("unsort") /\ ~At("delete")
    BY <1>5 DEF SendSave, At
  <2>4. Flags'
    BY <1>3, <2>2 DEF Flags
  <2> QED
    BY <1>1, <1>2, <2>2, <2>3, <2>4, PostPosted
<1>6. CASE Send /\ Permitted
  <2>1. u' = [Noted EXCEPT !.step = "sent", !.sent = Append(@, u.step)]
    BY <1>6 DEF Send
  <2>2. /\ DOMAIN Noted = Fields /\ Noted.op = u.op /\ Noted.failed = u.failed
        /\ Noted.sent = u.sent
        /\ Noted.sortTried = (u.sortTried \/ At("unsort"))
        /\ Noted.deleteTried = (u.deleteTried \/ At("delete"))
    BY <1>3, CallFields DEF Noted
  <2>3. /\ DOMAIN u' = Fields /\ u'.op = Noted.op /\ u'.failed = Noted.failed
        /\ u'.step = "sent" /\ u'.sent = Append(Noted.sent, u.step)
        /\ u'.sortTried = Noted.sortTried /\ u'.deleteTried = Noted.deleteTried
    BY <2>1, <2>2, CallFields
  <2>4. Flags'
    BY <1>3, <2>2, <2>3 DEF Flags
  <2> QED
    BY <1>1, <1>2, <1>3, <2>2, <2>3, <2>4, PostPosted
<1> QED
  BY <1>4, <1>5, <1>6 DEF SendSave, Send, Fail

\* A command is answered, or given up for lost.
LEMMA OutcomePosted ==
  ASSUME Posted, SaveAnswered \/ ListAnswered \/ Lapse
  PROVE  Posted'
<1>1. Waiting /\ u.step = "sent" /\ Place = LastSent
  BY DEF SaveAnswered, ListAnswered, Lapse, Waiting, At, Place
<1>2. u.op \in Operations /\ DOMAIN u = Fields
  BY <1>1, StepOfOperation DEF Posted, CallTyped
<1>3. ~u.failed
  BY <1>1 DEF SaveAnswered, ListAnswered, Lapse, Posted, Failing
<1>4. Place # "end"
  <2>1. u.sent \in Seq(Commands) /\ Len(u.sent) > 0
    BY <1>1, <1>2, <1>3 DEF Posted, CallTyped, Going
  <2>2. LastSent \in Commands
    BY <2>1 DEF LastSent
  <2> QED
    BY <1>1, <2>2 DEF Commands
<1>5. CASE u' = Thrown(u)
  BY <1>1, <1>5, ThrownPosted
<1>6. CASE SaveAnswered
  <2>1. u' = [u EXCEPT !.step = Following(Place), !.answer = None]
    BY <1>1, <1>6 DEF SaveAnswered
  <2>2. /\ DOMAIN u' = DOMAIN u /\ u'.op = u.op /\ u'.failed = u.failed
        /\ u'.step = Following(Place) /\ u'.sent = u.sent
        /\ u'.sortTried = u.sortTried /\ u'.deleteTried = u.deleteTried
    BY <1>2, <2>1, CallFields
  <2> QED
    BY <1>2, <1>3, <1>4, <2>2, AdvancePosted
<1>7. CASE ListAnswered /\ u.answer # "refused"
  <2> DEFINE temp == IF LastSent = "duplicate" THEN u.made ELSE u.temp
  <2>1. u' = [u EXCEPT !.step = Following(Place), !.answer = None, !.made = None,
                !.temp = temp]
    BY <1>1, <1>7 DEF ListAnswered
  <2> HIDE DEF temp
  <2>2. /\ DOMAIN u' = DOMAIN u /\ u'.op = u.op /\ u'.failed = u.failed
        /\ u'.step = Following(Place) /\ u'.sent = u.sent
        /\ u'.sortTried = u.sortTried /\ u'.deleteTried = u.deleteTried
    BY <1>2, <2>1, CallFields
  <2> QED
    BY <1>2, <1>3, <1>4, <2>2, AdvancePosted
<1> QED
  BY <1>5, <1>6, <1>7 DEF ListAnswered, Lapse, Fail

\* Where a step with only one successor leads.
LEMMA OneSuccessor ==
  ASSUME Posted, u.op \in Operations, ~u.failed, u.step \in {"shut", "rebind"}
  PROVE  Following(Place) = IF At("shut") THEN "root" ELSE "end"
<1> DEFINE script == Script(u.op)
<1>1. Place = u.step
  BY DEF Place, Waiting, At
<1>2. PICK p \in 1 .. Len(script) : script[p] = u.step
  BY <1>1 DEF Posted, Going
<1>3. p + 1 \in 1 .. Len(script) /\ Following(script[p]) = script[p + 1]
  BY <1>2, FollowingPlace
<1>4. p \in 1 .. Len(script) - 1
  BY <1>3, ScriptOrderly DEF Orderly
<1> QED
  BY <1>1, <1>2, <1>3, <1>4, ScriptOrderly DEF Orderly, At

\* Giving the tab back.
LEMMA ReturnPosted ==
  ASSUME Posted, Shut \/ RestoreRoot \/ Close \/ CloseFails \/ Rebind \/ RebindFails
  PROVE  Posted'
<1>1. u.step \in {"shut", "root", "close", "rebind"}
  BY DEF Shut, RestoreRoot, Close, CloseFails, Rebind, RebindFails, At
<1>2. u.op \in Operations /\ DOMAIN u = Fields /\ Flags /\ Place = u.step
  BY <1>1, StepOfOperation DEF Posted, CallTyped, Place, Waiting, At
<1>3. CASE CloseFails \/ RebindFails
  <2>1. u' = [u EXCEPT !.step = "end", !.failed = TRUE]
    BY <1>3 DEF CloseFails, RebindFails
  <2>2. /\ DOMAIN u' = DOMAIN u /\ u'.op = u.op /\ u'.failed = TRUE
        /\ u'.step = "end" /\ u'.sent = u.sent
        /\ u'.sortTried = u.sortTried /\ u'.deleteTried = u.deleteTried
    BY <1>2, <2>1, CallFields
  <2> QED
    BY <1>2, <2>2, FailPosted DEF Flags
<1>4. CASE Shut \/ RestoreRoot \/ Close \/ Rebind
  <2>1. PICK step : /\ u' = [u EXCEPT !.step = step]
                    /\ u.failed => step \in {"root", "close", "end"}
                    /\ ~u.failed => step = Following(Place)
    <3>1. At("rebind") => ~u.failed
      BY DEF Posted, Failing, At, Recovery
    <3>2. CASE Shut
      BY <1>1, <1>2, <3>2, OneSuccessor DEF Shut, At
    <3>3. CASE Rebind
      BY <1>1, <1>2, <3>1, <3>3, OneSuccessor DEF Rebind, At
    <3>4. CASE RestoreRoot
      BY <1>2, <3>4 DEF RestoreRoot, At
    <3>5. CASE Close
      BY <1>2, <3>5 DEF Close, At
    <3> QED
      BY <1>4, <3>2, <3>3, <3>4, <3>5
  <2>2. /\ DOMAIN u' = DOMAIN u /\ u'.op = u.op /\ u'.failed = u.failed
        /\ u'.step = step /\ u'.sent = u.sent
        /\ u'.sortTried = u.sortTried /\ u'.deleteTried = u.deleteTried
    BY <1>2, <2>1, CallFields
  <2>3. CASE u.failed
    BY <1>2, <2>1, <2>2, <2>3, RecoverPosted DEF Flags, At
  <2>4. CASE ~u.failed
    BY <1>1, <1>2, <2>1, <2>2, <2>4, AdvancePosted
  <2> QED
    BY <2>3, <2>4
<1> QED
  BY <1>3, <1>4

\* The compensation of a round trip.
LEMMA RemedyPosted ==
  ASSUME Posted, Look \/ Relook \/ LookFails \/ Compensate \/ Compensated
  PROVE  Posted'
<1>1. u.step \in Recovery \cup {"sent"}
  BY DEF Look, Relook, LookFails, Compensate, Compensated, At, Waiting, Recovery
<1>2. u.step # "idle"
  BY <1>1 DEF Recovery
<1>3. u.op \in Operations /\ DOMAIN u = Fields /\ Flags
  BY <1>2, StepOfOperation DEF Posted, CallTyped
<1>4. u.failed
  <2>1. CASE Compensated
    BY <2>1 DEF Compensated
  <2>2. CASE ~Compensated
    <3>1. u.step \in Recovery
      BY <2>2 DEF Look, Relook, LookFails, Compensate, At, Recovery
    <3>2. SUFFICES ASSUME ~u.failed PROVE FALSE
      BY <1>3 DEF Flags
    <3>3. Place = u.step
      BY <3>1 DEF Place, Waiting, At, Recovery
    <3> QED
      BY <1>3, <3>1, <3>2, <3>3, ScriptOrderly DEF Posted, Going, Orderly
  <2> QED
    BY <2>1, <2>2
<1>5. CASE Compensate /\ Compensable
  <2>1. u' = [[u EXCEPT !.sortTried = @ \/ At("resort"),
                        !.deleteTried = @ \/ At("redelete")]
                EXCEPT !.step = "sent", !.answer = None,
                       !.sent = Append(@, Compensation)]
    BY <1>5 DEF Compensate
  <2>2. /\ DOMAIN u' = DOMAIN u /\ u'.op = u.op /\ u'.failed = u.failed
        /\ u'.step = "sent" /\ u'.sent = Append(u.sent, Compensation)
        /\ u'.sortTried = (u.sortTried \/ At("resort"))
        /\ u'.deleteTried = (u.deleteTried \/ At("redelete"))
    BY <1>3, <2>1, CallFields
  <2>3. u.step \in {"resort", "redelete"}
    BY <1>5 DEF Compensate
  <2>4. Flags'
    BY <1>3, <2>2 DEF Flags
  <2> QED
    BY <1>3, <1>4, <2>2, <2>3, <2>4, CompensatePosted
<1>6. CASE Compensate /\ ~Compensable
  <2>1. u' = [[u EXCEPT !.sortTried = @ \/ At("resort"),
                        !.deleteTried = @ \/ At("redelete")]
                EXCEPT !.step = IF At("resort") THEN "relook" ELSE "root"]
    BY <1>6 DEF Compensate
  <2>2. /\ DOMAIN u' = DOMAIN u /\ u'.op = u.op /\ u'.failed = u.failed
        /\ u'.step \in {"relook", "root"} /\ u'.sent = u.sent
        /\ u'.sortTried = (u.sortTried \/ At("resort"))
        /\ u'.deleteTried = (u.deleteTried \/ At("redelete"))
    BY <1>3, <2>1, CallFields
  <2>3. Flags'
    BY <1>3, <2>2 DEF Flags
  <2> QED
    BY <1>3, <1>4, <2>2, <2>3, RecoverPosted DEF At, Recovery
<1>7. CASE Look \/ Relook \/ LookFails \/ Compensated
  <2>1. DOMAIN u' = DOMAIN u /\ u'.op = u.op /\ u'.failed = u.failed
        /\ u'.sent = u.sent
        /\ u'.sortTried = u.sortTried /\ u'.deleteTried = u.deleteTried
    BY <1>3, <1>7, CallFields DEF Look, Relook, LookFails, Compensated
  <2>2. /\ u'.step \in Recovery \cup {"root"}
        /\ u'.step = "resort" => ~u.sortTried
        /\ u'.step = "redelete" => ~u.deleteTried
    <3>1. CASE Look
      <4>1. u'.step = Remedy(order)
        BY <1>3, <3>1, CallFields DEF Look
      <4> QED
        BY <4>1 DEF Remedy, Recovery
    <3>2. CASE Relook \/ LookFails
      <4>1. u'.step \in {"root", AfterResort}
        BY <1>3, <3>2, CallFields DEF Relook, LookFails
      <4> QED
        BY <4>1 DEF AfterResort, Recovery
    <3>3. CASE Compensated
      <4>1. u'.step \in {"relook", "root"}
        BY <1>3, <3>3, CallFields DEF Compensated
      <4> QED
        BY <4>1 DEF Recovery
    <3> QED
      BY <1>7, <3>1, <3>2, <3>3
  <2>3. Flags'
    BY <1>3, <2>1 DEF Flags
  <2> QED
    BY <1>3, <1>4, <2>1, <2>2, <2>3, RecoverPosted DEF At
<1> QED
  BY <1>5, <1>6, <1>7

\* All steps together.
LEMMA PostedStep ==
  ASSUME Posted, [Next]_vars
  PROVE  Posted'
<1>1. CASE Begin
  <2>1. \E op \in Operations : \E key, receipt : Lease(op, key, receipt)
    BY <1>1 DEF Begin, BeginSave, BeginFixed, BeginStructural, Operations,
       Structural
  <2> QED
    BY <2>1, BeginPosted
<1>2. CASE (\E key \in Keys : Busy(key)) \/ UserRestores \/ Drift \/ UNCHANGED vars
  BY <1>2, UnchangedPosted DEF Busy, UserRestores, Drift, vars
<1>3. CASE CallStep
  <2>1. CASE End
    BY <2>1, IdlePosted DEF End
  <2> QED
    BY <1>3, <2>1, VisitPosted, CommandPosted, OutcomePosted, ReturnPosted,
       RemedyPosted DEF CallStep
<1>4. CASE Server
  BY <1>4, AnswerPosted DEF Server, LandSave, LandList, LandDuplicate, LandAdd
<1>5. CASE \E r \in wire : Refuse(r)
  BY <1>5, AnswerPosted DEF Refuse
<1>6. CASE StepFails
  <2>1. u.step # "idle"
    <3> SUFFICES "idle" \notin Steps
      BY <1>6 DEF StepFails, Visits
    <3>1. \A op \in Operations : "idle" \notin ToSet(Script(op))
      BY ScriptOrderly DEF Orderly, ToSet
    <3> QED
      BY <3>1 DEF Steps
  <2> QED
    BY <1>6, <2>1, ThrownPosted DEF StepFails, Fail
<1>7. CASE LookFails \/ CloseFails \/ RebindFails
  BY <1>7, RemedyPosted, ReturnPosted
<1>8. CASE Crash
  BY <1>8, IdlePosted DEF Crash
<1> QED
  BY <1>1, <1>2, <1>3, <1>4, <1>5, <1>6, <1>7, <1>8 DEF Next, Failure

\* No call posts the same command twice, whatever fails, whatever is carried
\* out late and whatever the compensation tries again.
THEOREM EachCommandPostedOnce == Spec => []EachCommandOnce
<1>1. Posted => EachCommandOnce
  BY DEF Posted
<1> QED
  BY <1>1, InitPosted, PostedStep, PTL DEF Spec

----------------------------------------------------------------------------
(* Pages and receipts: what holds between the steps                        *)

\* The types of the state, but for the operation and the step of the call,
\* which its script implies, and what the bounds alone do not say: the fields
\* of the call at hand, the numbers of requests, the forms on the wire.
ServerTyped ==
  order \in Seq(PageIds) /\ page \in [PageIds -> Page] /\ fresh \in 2 .. MaxPages + 1
RequestTyped(r) ==
  /\ r.command \in Commands /\ r.nr \in 1 .. calls
  /\ r.command = "save" => r.body.rest \in Nat \cup {None}
WireTyped == \A r \in wire : RequestTyped(r)
FieldsTyped ==
  /\ u.op # "none" => u.nr \in 1 .. calls
  /\ u.seen \in Page /\ u.base \in Seq(PageIds) /\ u.cur \in Seq(PageIds)
MemoryTyped ==
  /\ lifecycle \in [Keys -> {"none", "running", "blocked", "done"}]
  /\ structural \in [Keys -> {"none", "PENDING", "FAILED", "SUCCEEDED"}]
  /\ receipts \subseteq Receipt
BoundsTyped ==
  /\ calls \in 0 .. MaxCalls /\ faults \in 0 .. MaxFaults /\ drifts \in 0 .. MaxDrifts
Typed ==
  /\ ServerTyped /\ WireTyped /\ FieldsTyped /\ MemoryTyped /\ BoundsTyped
  /\ tab.at \in Places

\* An id that was handed out, to a page that is not the source.
Given(id) == id \in PageIds /\ Source < id /\ id < fresh

\* Every page is listed once.
ListOK == IsInjective(order) /\ \A id \in Listed(order) : id < fresh

\* The page a call made or has the receipt of: no other receipt is for it,
\* and the call that made it did not find it there.
Own(id) ==
  id # None =>
    /\ Given(id)
    /\ \A receipt \in receipts : receipt.id # id
    /\ u.op \in {"fixed", "create"} => id \notin Listed(u.base)
CallOK ==
  /\ Own(u.temp) /\ Own(u.made)
  /\ \A id \in Listed(u.base) : id < fresh
  /\ u.temp # None /\ u.op # "cleanup" =>
       \E i \in 1 .. Len(u.sent) : u.sent[i] = "duplicate"
  /\ u.answer # None => Waiting
  /\ u.made # None => Waiting /\ ~u.failed /\ LastSent = "duplicate"
  /\ u.step \in Recovery \/ (Waiting /\ u.failed) => u.op = "fixed"

\* What the requests on the wire may do to the list: the source page is never
\* ordered before itself, and nothing deletes a page that was made for keeps.
RequestOK(r) ==
  /\ r.command \in {"sort", "unsort"} => r.body.temp # Source
  /\ r.command = "delete" =>
       /\ r.body.temp # None => Given(r.body.temp)
       /\ \A receipt \in receipts : receipt.id # r.body.temp
       /\ u.op = "create" => r.body.temp # u.temp \/ u.temp = None
       /\ u.op = "create" => r.body.temp # u.made \/ u.made = None
WireOK == \A r \in wire : RequestOK(r)

\* A call that goes well has at most one request on the wire: the one it
\* waits for.
OneOnWire ==
  u.op # "none" /\ ~u.failed =>
    \A r \in wire : r.nr = u.nr =>
      /\ Waiting /\ u.answer = None /\ r.command = LastSent
      /\ \A r2 \in wire : r2.nr = u.nr => r2 = r

\* The round trip has seen its clone gone, and ids are not handed out twice.
SeenGone == {"after", "root", "close", "end"}
GoneOK ==
  u.op = "fixed" /\ ~u.failed /\ u.step \in SeenGone =>
    u.temp \notin Listed(order)

\* A clone that was made for keeps: listed as long as nobody else removes
\* it, and once it was compared with its source it stays as it is.
Kept(id) == Given(id) /\ (drifts = 0 => id \in Listed(order))
Compared == {"after", "root", "file", "close", "rebind", "end"}
CloneOK ==
  u.op = "create" /\ ~u.failed =>
    /\ u.step \in Compared \cup {"temp"} => Kept(u.temp)
    /\ u.step \in Compared => Parity(page[u.temp], u.seen)

ReceiptsOK ==
  /\ \A receipt \in receipts : Kept(receipt.id) /\ Parity(page[receipt.id], receipt)
  /\ \A one, two \in receipts : one.id = two.id => one = two

Pages ==
  ListOK /\ CallOK /\ WireOK /\ OneOnWire /\ GoneOK /\ CloneOK /\ ReceiptsOK
PInv == Posted /\ Typed /\ Pages

----------------------------------------------------------------------------
(* Lists of pages                                                          *)

LEMMA ListSet ==
  ASSUME NEW S, NEW s \in Seq(S)
  PROVE  /\ ToSet(s) = {s[i] : i \in 1 .. Len(s)}
         /\ ToSet(s) \subseteq S
BY DEF ToSet

\* Removing a page from a list without duplicates.
LEMMA RemoveFirstSet ==
  ASSUME NEW S, NEW s \in Seq(S), IsInjective(s), NEW e
  PROVE  /\ RemoveFirst(s, e) \in Seq(S)
         /\ IsInjective(RemoveFirst(s, e))
         /\ ToSet(RemoveFirst(s, e)) = ToSet(s) \ {e}
<1> DEFINE n == Len(s)
<1>1. n \in Nat /\ DOMAIN s = 1 .. n
  OBVIOUS
<1>2. CASE ~\E i \in 1 .. n : s[i] = e
  BY <1>2, ListSet DEF RemoveFirst
<1>3. ASSUME NEW k \in 1 .. n, s[k] = e
      PROVE  /\ RemoveFirst(s, e) \in Seq(S)
             /\ IsInjective(RemoveFirst(s, e))
             /\ ToSet(RemoveFirst(s, e)) = ToSet(s) \ {e}
  <2> DEFINE I == {i \in 1 .. Len(s) : s[i] = e}
             t == RemoveAt(s, k)
             at(i) == IF i < k THEN i ELSE i + 1
  <2>1. I = {k}
    BY <1>1, <1>3 DEF IsInjective
  <2>2. Min(I) = k
    BY <1>1, <2>1 DEF Min
  <2>3. SelectInSeq(s, LAMBDA v : v = e) = k
    BY <2>1, <2>2 DEF SelectInSeq
  <2>4. RemoveFirst(s, e) = t
    BY <1>3, <2>3 DEF RemoveFirst
  <2>5. /\ t \in Seq(S) /\ Len(t) = n - 1
        /\ \A i \in 1 .. n - 1 : t[i] = s[at(i)]
    <3> DEFINE a == SubSeq(s, 1, k - 1)
               b == SubSeq(s, k + 1, n)
    <3>1. /\ a \in Seq(S) /\ Len(a) = k - 1
          /\ \A i \in 1 .. k - 1 : a[i] = s[i]
      <4>1. \A i \in 1 .. k - 1 : s[i] \in S
        BY <1>1
      <4>2. /\ a \in Seq(S)
            /\ Len(a) = IF 1 <= k - 1 THEN (k - 1) - 1 + 1 ELSE 0
            /\ \A i \in 1 .. (k - 1) - 1 + 1 : a[i] = s[1 + i - 1]
        BY <1>1, <4>1, SubSeqProperties
      <4> QED
        BY <1>1, <4>2
    <3>2. /\ b \in Seq(S) /\ Len(b) = n - k
          /\ \A i \in 1 .. n - k : b[i] = s[k + i]
      <4>1. \A i \in k + 1 .. n : s[i] \in S
        BY <1>1
      <4>2. /\ b \in Seq(S)
            /\ Len(b) = IF k + 1 <= n THEN n - (k + 1) + 1 ELSE 0
            /\ \A i \in 1 .. n - (k + 1) + 1 : b[i] = s[(k + 1) + i - 1]
        BY <1>1, <4>1, SubSeqProperties
      <4>3. n - (k + 1) + 1 = n - k /\ (~(k + 1 <= n) => n - k = 0)
        <5>1. n \in Int /\ k \in Int /\ k <= n
          BY <1>1
        <5> HIDE DEF n
        <5> QED
          BY <5>1
      <4>4. \A i \in 1 .. n - k : (k + 1) + i - 1 = k + i
        BY <1>1
      <4> QED
        BY <1>1, <4>2, <4>3, <4>4
    <3>3. t = a \o b
      BY DEF RemoveAt
    <3> HIDE DEF a, b, t
    <3>4. /\ t \in Seq(S) /\ Len(t) = (k - 1) + (n - k)
          /\ \A i \in 1 .. (k - 1) + (n - k) :
               t[i] = IF i <= k - 1 THEN a[i] ELSE b[i - (k - 1)]
      <4>1. /\ t \in Seq(S) /\ Len(t) = Len(a) + Len(b)
            /\ \A i \in 1 .. Len(a) + Len(b) :
                 t[i] = IF i <= Len(a) THEN a[i] ELSE b[i - Len(a)]
        <5>1. a \in Seq(S) /\ b \in Seq(S)
          BY <3>1, <3>2
        <5> QED
          BY ONLY <3>3, <5>1, ConcatProperties
      <4>2. Len(a) = k - 1 /\ Len(b) = n - k
        BY <3>1, <3>2
      <4> QED
        BY ONLY <4>1, <4>2
    <3>5. (k - 1) + (n - k) = n - 1
      <4>1. n \in Int /\ k \in Int
        BY <1>1
      <4> HIDE DEF n
      <4> QED
        BY <4>1
    <3>6. ASSUME NEW i \in 1 .. n - 1 PROVE t[i] = s[at(i)]
      <4>1. CASE i < k
        BY <1>1, <3>1, <3>4, <3>5, <4>1
      <4>2. CASE i >= k
        <5>1. i - (k - 1) \in 1 .. n - k /\ ~(i <= k - 1)
          BY <1>1, <4>2
        <5>2. k + (i - (k - 1)) = i + 1
          BY <1>1
        <5> QED
          BY <1>1, <3>2, <3>4, <3>5, <4>2, <5>1, <5>2
      <4> QED
        BY <1>1, <4>1, <4>2
    <3> QED
      BY <3>4, <3>5, <3>6
  <2> HIDE DEF t
  <2>6. \A i \in 1 .. n - 1 : at(i) \in 1 .. n /\ at(i) # k
    BY <1>1
  <2>7. \A i \in 1 .. n : i # k => \E j \in 1 .. n - 1 : at(j) = i
    <3> TAKE i \in 1 .. n
    <3>1. CASE i < k
      BY <1>1, <3>1
    <3>2. CASE i > k
      <4>1. i - 1 \in 1 .. n - 1 /\ at(i - 1) = i
        BY <1>1, <3>2
      <4> QED
        BY <4>1
    <3> QED
      BY <1>1, <3>1, <3>2
  <2>8. \A i, j \in 1 .. n - 1 : at(i) = at(j) => i = j
    BY <1>1
  <2> HIDE DEF at
  <2>9. IsInjective(t)
    BY <1>1, <2>5, <2>6, <2>8 DEF IsInjective
  <2>10. ToSet(t) = ToSet(s) \ {e}
    <3>1. ToSet(t) = {s[at(i)] : i \in 1 .. n - 1}
      BY <2>5, ListSet
    <3>2. \A i \in 1 .. n - 1 : s[at(i)] # e
      BY <1>1, <1>3, <2>6 DEF IsInjective
    <3>3. \A i \in 1 .. n - 1 : s[at(i)] \in ToSet(s) \ {e}
      BY <2>6, <3>2, ListSet
    <3>4. ASSUME NEW x \in ToSet(s) \ {e} PROVE x \in ToSet(t)
      <4>1. PICK i \in 1 .. n : s[i] = x
        BY ListSet
      <4>2. PICK j \in 1 .. n - 1 : at(j) = i
        BY <1>3, <2>7, <4>1
      <4> QED
        BY <3>1, <4>1, <4>2
    <3> QED
      BY <3>1, <3>3, <3>4
  <2> QED
    BY <2>4, <2>5, <2>9, <2>10
<1> QED
  BY <1>2, <1>3

\* Putting a page in front of a list without it.
LEMMA FrontSet ==
  ASSUME NEW S, NEW s \in Seq(S), IsInjective(s), NEW e \in S, e \notin ToSet(s)
  PROVE  /\ <<e>> \o s \in Seq(S)
         /\ IsInjective(<<e>> \o s)
         /\ ToSet(<<e>> \o s) = ToSet(s) \cup {e}
<1> DEFINE t == <<e>> \o s
<1>1. /\ t \in Seq(S) /\ Len(t) = Len(s) + 1 /\ t[1] = e
      /\ \A i \in 1 .. Len(s) : t[i + 1] = s[i]
      /\ Len(s) \in Nat /\ DOMAIN s = 1 .. Len(s) /\ DOMAIN t = 1 .. Len(s) + 1
  OBVIOUS
<1> HIDE DEF t
<1>2. \A i \in 2 .. Len(s) + 1 : i - 1 \in 1 .. Len(s) /\ t[i] = s[i - 1]
  BY <1>1
<1>3. \A i \in 2 .. Len(s) + 1 : t[i] \in ToSet(s)
  BY <1>2, ListSet
<1>4. IsInjective(t)
  BY <1>1, <1>2, <1>3 DEF IsInjective
<1>5. ToSet(t) = ToSet(s) \cup {e}
  <2>1. ToSet(t) = {t[i] : i \in 1 .. Len(s) + 1}
    BY <1>1, ListSet
  <2>2. \A i \in 1 .. Len(s) : i + 1 \in 1 .. Len(s) + 1
    BY <1>1
  <2> QED
    BY <1>1, <1>3, <2>1, <2>2, ListSet
<1> QED
  BY <1>1, <1>4, <1>5 DEF t

LEMMA BackSet ==
  ASSUME NEW S, NEW s \in Seq(S), IsInjective(s), NEW e \in S, e \notin ToSet(s)
  PROVE  /\ Append(s, e) \in Seq(S)
         /\ IsInjective(Append(s, e))
         /\ ToSet(Append(s, e)) = ToSet(s) \cup {e}
<1> DEFINE t == Append(s, e)
<1>1. /\ t \in Seq(S) /\ Len(t) = Len(s) + 1 /\ t[Len(s) + 1] = e
      /\ \A i \in 1 .. Len(s) : t[i] = s[i]
      /\ Len(s) \in Nat /\ DOMAIN s = 1 .. Len(s) /\ DOMAIN t = 1 .. Len(s) + 1
  OBVIOUS
<1> HIDE DEF t
<1>2. \A i \in 1 .. Len(s) : t[i] \in ToSet(s)
  BY <1>1, ListSet
<1>3. IsInjective(t)
  BY <1>1, <1>2 DEF IsInjective
<1>4. ToSet(t) = ToSet(s) \cup {e}
  <2>1. ToSet(t) = {t[i] : i \in 1 .. Len(s) + 1}
    BY <1>1, ListSet
  <2>2. Len(s) + 1 \in 1 .. Len(s) + 1 /\ 1 .. Len(s) \subseteq 1 .. Len(s) + 1
    BY <1>1
  <2> QED
    BY <1>1, <1>2, <2>1, <2>2, ListSet
<1> QED
  BY <1>1, <1>3, <1>4 DEF t

LEMMA PresentSet ==
  ASSUME NEW S, NEW s \in Seq(S), IsInjective(s), NEW id, id \notin ToSet(s),
         order \in Seq(S)
  PROVE  /\ Present(id) \o s \in Seq(S)
         /\ IsInjective(Present(id) \o s)
         /\ ToSet(Present(id) \o s) = ToSet(s) \cup ({id} \cap Listed(order))
<1>1. CASE id \in Listed(order)
  <2>1. id \in S
    BY <1>1, ListSet DEF Listed
  <2> QED
    BY <1>1, <2>1, FrontSet DEF Present
<1>2. CASE id \notin Listed(order)
  <2>1. Present(id) \o s = s
    BY <1>2 DEF Present
  <2> QED
    BY <1>2, <2>1
<1> QED
  BY <1>1, <1>2

\* Sorting two pages first keeps the pages.
LEMMA SortedSet ==
  ASSUME ServerTyped, ListOK, NEW first, NEW second, first # second
  PROVE  /\ Sorted(first, second) \in Seq(PageIds)
         /\ IsInjective(Sorted(first, second))
         /\ Listed(Sorted(first, second)) = Listed(order)
<1> DEFINE less == RemoveFirst(order, first)
           rest == RemoveFirst(less, second)
           tail == Present(second) \o rest
<1>1. order \in Seq(PageIds) /\ IsInjective(order)
  BY DEF ServerTyped, ListOK
<1>2. less \in Seq(PageIds) /\ IsInjective(less) /\ ToSet(less) = ToSet(order) \ {first}
  BY <1>1, RemoveFirstSet
<1>3. rest \in Seq(PageIds) /\ IsInjective(rest) /\ ToSet(rest) = ToSet(less) \ {second}
  <2> HIDE DEF less
  <2> QED
    BY <1>2, RemoveFirstSet
<1>4. /\ tail \in Seq(PageIds) /\ IsInjective(tail)
      /\ ToSet(tail) = ToSet(rest) \cup ({second} \cap Listed(order))
  <2> HIDE DEF rest
  <2> QED
    BY <1>1, <1>3, PresentSet
<1>5. first \notin ToSet(tail)
  BY <1>2, <1>3, <1>4
<1>6. /\ Present(first) \o tail \in Seq(PageIds)
      /\ IsInjective(Present(first) \o tail)
      /\ ToSet(Present(first) \o tail) = ToSet(tail) \cup ({first} \cap Listed(order))
  <2> HIDE DEF tail
  <2> QED
    BY <1>1, <1>4, <1>5, PresentSet
<1>7. Sorted(first, second) = Present(first) \o tail
  <2>1. Present(first) \in Seq(PageIds) /\ Present(second) \in Seq(PageIds)
    BY <1>1, ListSet DEF Present, Listed
  <2> QED
    BY <1>3, <2>1, ConcatAssociative DEF Sorted
<1> QED
  BY <1>2, <1>3, <1>4, <1>6, <1>7 DEF Listed

----------------------------------------------------------------------------
(* The server                                                              *)

\* No receipt is for this page, nor is it the clone that is being made.
Lone(id) ==
  /\ \A receipt \in receipts : receipt.id # id
  /\ u.op = "create" => id # u.temp

\* What happens on the server: ids are handed out in order, a page given out
\* keeps its records, and only lone pages go unless others remove them.
ServerMoves ==
  /\ fresh <= fresh' /\ IsInjective(order')
  /\ \A id \in Listed(order') : id \in Listed(order) \/ (fresh <= id /\ id < fresh')
  /\ \A id \in PageIds : Given(id) => page'[id] = page[id]
  /\ drifts' = 0 => drifts = 0
  /\ \A id \in Listed(order) \ Listed(order') : drifts' # 0 \/ Lone(id)

LEMMA Numbers ==
  ASSUME Typed
  PROVE  /\ fresh \in Nat /\ MaxPages \in Nat /\ PageIds \subseteq Nat
         /\ None \notin PageIds /\ None \notin Nat
         /\ Source \in PageIds /\ \A id : Given(id) => id # Source /\ id # None
BY BoundsAssumption, NoneAssumption DEF Typed, ServerTyped, PageIds, Source, Given

LEMMA OrderTyped ==
  ASSUME Typed
  PROVE  Listed(order) \subseteq PageIds
BY ListSet DEF Typed, ServerTyped, Listed

LEMMA ServerMovesKeep ==
  ASSUME PInv, Typed', ServerMoves, UNCHANGED receipts,
         u'.op = u.op, u'.step = u.step, u'.failed = u.failed,
         u'.temp = u.temp, u'.seen = u.seen
  PROVE  ListOK' /\ GoneOK' /\ CloneOK' /\ ReceiptsOK'
<1>1. /\ fresh \in Nat /\ fresh' \in Nat /\ PageIds \subseteq Nat /\ None \notin PageIds
      /\ Listed(order) \subseteq PageIds /\ Listed(order') \subseteq PageIds
      /\ Listed(order)' = Listed(order')
  <2>1. fresh' \in Nat
    BY BoundsAssumption DEF Typed, ServerTyped
  <2>2. Listed(order') \subseteq PageIds
    BY ListSet DEF Typed, ServerTyped, Listed
  <2> QED
    BY <2>1, <2>2, Numbers, OrderTyped DEF PInv, Listed
<1>2. \A id : Given(id) => Given(id)' /\ page'[id] = page[id]
  BY <1>1 DEF Given, ServerMoves
<1>3. ASSUME NEW id, Kept(id), ~Lone(id) PROVE Kept(id)'
  <2>1. drifts' = 0 => id \in Listed(order')
    BY <1>3 DEF Kept, ServerMoves
  <2> QED
    BY <1>1, <1>2, <1>3, <2>1 DEF Kept
<1>4. ListOK'
  <2>1. ASSUME NEW id \in Listed(order') PROVE id < fresh'
    <3>1. id \in Nat
      BY <1>1
    <3>2. CASE id \in Listed(order)
      <4>1. id < fresh /\ fresh <= fresh'
        BY <3>2 DEF PInv, Pages, ListOK, ServerMoves
      <4> QED
        BY <1>1, <3>1, <4>1
    <3> QED
      BY <3>2 DEF ServerMoves
  <2> QED
    BY <1>1, <2>1 DEF ListOK, ServerMoves
<1>5. GoneOK'
  <2> SUFFICES ASSUME u.op = "fixed", ~u.failed, u.step \in SeenGone,
                      u.temp \in Listed(order')
               PROVE  FALSE
    BY DEF GoneOK, Listed
  <2>1. u.temp \notin Listed(order)
    BY DEF PInv, Pages, GoneOK
  <2>2. u.temp \in PageIds /\ fresh <= u.temp
    BY <1>1, <2>1 DEF ServerMoves
  <2>3. Given(u.temp)
    BY <1>1, <2>2 DEF PInv, Pages, CallOK, Own
  <2>4. u.temp < fresh /\ u.temp \in Nat
    BY <1>1, <2>3 DEF Given
  <2> QED
    BY <1>1, <2>2, <2>4
<1>6. CloneOK'
  <2> SUFFICES ASSUME u.op = "create", ~u.failed, u.step \in Compared \cup {"temp"}
               PROVE  /\ Kept(u.temp)'
                      /\ u.step \in Compared => Parity(page[u.temp], u.seen)'
    BY DEF CloneOK, Kept, Parity, Given
  <2>1. Kept(u.temp) /\ (u.step \in Compared => Parity(page[u.temp], u.seen))
    BY DEF PInv, Pages, CloneOK
  <2>2. Kept(u.temp)'
    BY <1>3, <2>1 DEF Lone, Kept, Given
  <2>3. page'[u.temp] = page[u.temp]
    BY <1>2, <2>1 DEF Kept
  <2> QED
    BY <2>1, <2>2, <2>3 DEF Parity
<1>7. ReceiptsOK'
  <2>1. \A receipt \in receipts : /\ Kept(receipt.id)'
                                  /\ page'[receipt.id] = page[receipt.id]
    BY <1>2, <1>3 DEF PInv, Pages, ReceiptsOK, Lone, Kept
  <2> QED
    BY <2>1 DEF PInv, Pages, ReceiptsOK, Parity
<1> QED
  BY <1>4, <1>5, <1>6, <1>7

\* The server carries out, or refuses, a request, and answers whoever waits.
LEMMA AnswerKeeps ==
  ASSUME PInv, Typed', NEW r \in wire, NEW answer, NEW made, Answered(r, answer, made),
         wire' = wire \ {r}, fresh <= fresh', UNCHANGED receipts,
         \/ made = None
         \/ /\ r.command = "duplicate" /\ made = fresh
            /\ fresh \in PageIds /\ fresh' = fresh + 1
  PROVE  /\ CallOK' /\ WireOK' /\ OneOnWire'
         /\ u'.op = u.op /\ u'.step = u.step /\ u'.failed = u.failed
         /\ u'.temp = u.temp /\ u'.seen = u.seen
<1>1. DOMAIN u = Fields
  BY DEF PInv, Posted, CallTyped
<1>2. /\ u'.op = u.op /\ u'.step = u.step /\ u'.failed = u.failed /\ u'.nr = u.nr
      /\ u'.temp = u.temp /\ u'.seen = u.seen /\ u'.base = u.base /\ u'.sent = u.sent
      /\ Waits(r) => u'.answer = answer /\ u'.made = made
      /\ ~Waits(r) => u' = u
  BY <1>1, CallFields DEF Answered
<1>3. Waiting' = Waiting /\ LastSent' = LastSent
  BY <1>2 DEF Waiting, At, LastSent
<1>4. /\ fresh \in Nat /\ fresh' \in Nat /\ PageIds \subseteq Nat /\ None \notin Nat
      /\ None \notin PageIds
  BY Numbers, BoundsAssumption DEF PInv, Typed, ServerTyped
<1>5. \A id : Given(id) => Given(id)'
  BY <1>4 DEF Given
<1>6. \A id : Own(id) => Own(id)'
  BY <1>2, <1>5 DEF Own, Listed
<1>7. made # None => Own(made)' /\ \A id : Given(id) => id # made
  <2> SUFFICES ASSUME made # None PROVE Own(made)' /\ \A id : Given(id) => id # made
    OBVIOUS
  <2>1. made = fresh /\ fresh \in PageIds /\ fresh' = fresh + 1
    OBVIOUS
  <2>2. Given(made)'
    BY <1>4, <2>1 DEF Given, Source, PInv, Typed, ServerTyped
  <2>3. \A id : Given(id) => id # made
    BY <1>4, <2>1 DEF Given
  <2>4. \A receipt \in receipts : receipt.id # made
    BY <2>3 DEF PInv, Pages, ReceiptsOK, Kept
  <2>5. made \notin Listed(u.base)
    BY <1>4, <2>1 DEF PInv, Pages, CallOK
  <2> QED
    BY <1>2, <2>2, <2>3, <2>4, <2>5 DEF Own, Listed
<1>8. CallOK'
  <2>1. Own(u.temp)' /\ Own(u.made)'
    BY <1>2, <1>6, <1>7 DEF PInv, Pages, CallOK, Own
  <2>2. \A id \in Listed(u.base)' : id < fresh'
    <3>1. Listed(u.base) \subseteq PageIds
      BY ListSet DEF Listed, PInv, Typed, FieldsTyped
    <3>2. Listed(u.base)' = Listed(u.base)
      BY <1>2 DEF Listed
    <3>3. ASSUME NEW id \in Listed(u.base) PROVE id < fresh'
      <4>1. id < fresh /\ id \in Nat
        BY <1>4, <3>1 DEF PInv, Pages, CallOK
      <4> QED
        BY <1>4, <4>1
    <3> QED
      BY <3>2, <3>3
  <2>3. u'.answer # None => Waiting'
    BY <1>2, <1>3 DEF PInv, Pages, CallOK, Waits
  <2>4. u'.made # None => Waiting' /\ ~u'.failed /\ LastSent' = "duplicate"
    <3>1. CASE ~Waits(r)
      BY <1>2, <1>3, <3>1 DEF PInv, Pages, CallOK
    <3>2. CASE Waits(r) /\ made # None
      <4>1. Waiting /\ LastSent = "duplicate"
        BY <3>2 DEF Waits
      <4>2. ~u.failed
        BY <4>1 DEF PInv, Posted, Failing
      <4> QED
        BY <1>2, <1>3, <4>1, <4>2
    <3> QED
      BY <1>2, <3>1, <3>2
  <2> QED
    BY <1>2, <1>3, <2>1, <2>2, <2>3, <2>4 DEF PInv, Pages, CallOK
<1>9. WireOK'
  <2> SUFFICES ASSUME NEW q \in wire PROVE RequestOK(q)'
    BY DEF WireOK
  <2>1. RequestOK(q)
    BY DEF PInv, Pages, WireOK
  <2>2. q.command = "delete" /\ u'.made # None => q.body.temp # u'.made \/ u'.made = u.made
    BY <1>2, <1>4, <1>7, <2>1 DEF RequestOK
  <2> QED
    BY <1>2, <1>5, <2>1, <2>2 DEF RequestOK
<1>10. OneOnWire'
  BY <1>2, <1>3 DEF PInv, Pages, OneOnWire, Waits
<1> QED
  BY <1>2, <1>8, <1>9, <1>10

\* A request about the list is carried out.
LEMMA LandListMoves ==
  ASSUME PInv, NEW r \in wire, LandList(r)
  PROVE  ServerMoves /\ order' \in Seq(PageIds)
<1>1. order \in Seq(PageIds) /\ IsInjective(order) /\ Listed(order) \subseteq PageIds
  BY OrderTyped DEF PInv, Typed, ServerTyped, Pages, ListOK
<1>2. RequestOK(r) /\ fresh \in Nat /\ None \notin PageIds
  BY Numbers DEF PInv, Pages, WireOK
<1>3. CASE r.command \in {"sort", "unsort"}
  <2>1. r.body.temp # Source
    BY <1>2, <1>3 DEF RequestOK
  <2>2. PICK first, second :
          order' = Sorted(first, second) /\ first # second
    BY <1>3, <2>1 DEF LandList
  <2>3. order' \in Seq(PageIds) /\ IsInjective(order') /\ Listed(order') = Listed(order)
    BY <2>2, SortedSet DEF PInv, Typed, Pages
  <2> QED
    BY <1>2, <2>3 DEF ServerMoves, LandList, bounds
<1>4. CASE r.command = "delete"
  <2>1. order' = RemoveFirst(order, r.body.temp)
    BY <1>4 DEF LandList
  <2>2. /\ order' \in Seq(PageIds) /\ IsInjective(order')
        /\ Listed(order') = Listed(order) \ {r.body.temp}
    BY <1>1, <2>1, RemoveFirstSet DEF Listed
  <2>3. r.body.temp \in Listed(order) => Lone(r.body.temp)
    BY <1>1, <1>2, <1>4 DEF RequestOK, Lone
  <2> QED
    BY <1>2, <2>2, <2>3 DEF ServerMoves, LandList, bounds
<1> QED
  BY <1>3, <1>4 DEF LandList

\* A page is appended: a duplicate, or a colleague's.
LEMMA AppendMoves ==
  ASSUME PInv, fresh \in PageIds, order' = Append(order, fresh), fresh' = fresh + 1,
         \A id \in PageIds : id # fresh => page'[id] = page[id],
         drifts' = 0 => drifts = 0
  PROVE  ServerMoves /\ order' \in Seq(PageIds)
<1>1. order \in Seq(PageIds) /\ IsInjective(order) /\ fresh \notin Listed(order)
  <2>1. fresh \in Nat
    BY Numbers DEF PInv
  <2> QED
    BY <2>1 DEF PInv, Typed, ServerTyped, Pages, ListOK
<1>2. /\ order' \in Seq(PageIds) /\ IsInjective(order')
      /\ Listed(order') = Listed(order) \cup {fresh}
  BY <1>1, BackSet DEF Listed
<1>3. fresh \in Nat
  BY Numbers DEF PInv
<1> QED
  BY <1>2, <1>3 DEF ServerMoves, Given

\* A page is changed that no call made.
LEMMA SourceMoves ==
  ASSUME PInv, UNCHANGED <<order, fresh>>, drifts' = 0 => drifts = 0,
         \A id \in PageIds : id # Source => page'[id] = page[id]
  PROVE  ServerMoves
<1>1. fresh \in Nat /\ Source \in Nat /\ \A id : Given(id) => id # Source
  BY Numbers DEF PInv, Source
<1> QED
  BY <1>1 DEF ServerMoves, PInv, Pages, ListOK

\* Others change the project.
LEMMA DriftMoves ==
  ASSUME PInv, Drift
  PROVE  ServerMoves
<1>1. drifts' = drifts + 1 /\ drifts \in Nat
  BY DEF Drift, PInv, Typed, BoundsTyped
<1>2. drifts' # 0 /\ fresh \in Nat /\ Source \in PageIds
  BY <1>1, Numbers DEF PInv
<1>3. CASE UNCHANGED <<order, fresh>>
  <2>1. \A id \in PageIds : id # Source => page'[id] = page[id]
    BY <1>3 DEF Drift, server, PInv, Typed, ServerTyped
  <2> QED
    BY <1>2, <1>3, <2>1, SourceMoves
<1>4. CASE fresh \in PageIds /\ order' = Append(order, fresh) /\ fresh' = fresh + 1
           /\ UNCHANGED page
  BY <1>2, <1>4, AppendMoves
<1>5. CASE /\ \E id : order' = RemoveFirst(order, id)
           /\ UNCHANGED <<page, fresh>>
  <2>1. PICK id : order' = RemoveFirst(order, id)
    BY <1>5
  <2>2. IsInjective(order') /\ Listed(order') = Listed(order) \ {id}
    BY <2>1, RemoveFirstSet DEF Listed, PInv, Typed, ServerTyped, Pages, ListOK
  <2> QED
    BY <1>2, <1>5, <2>2 DEF ServerMoves
<1> QED
  BY <1>3, <1>4, <1>5 DEF Drift, server

----------------------------------------------------------------------------
(* The call                                                                *)

\* What the scripts of the calls that make pages rely on.
LEMMA FixedScript ==
  LET script == Script("fixed")
  IN  /\ Len(script) = 18 /\ script[1] = "check" /\ script[2] = "base"
      /\ \A p \in 1 .. 17 : script[p + 1] \in SeenGone => script[p] \in SeenGone \cup {"gone"}
<1> DEFINE script == Script("fixed")
<1>1. script = <<"check", "base", "source", "ready", "duplicate", "twin", "temp",
                 "aligned", "sort", "sorted", "unsort", "unsorted", "delete",
                 "gone", "after", "root", "close", "end">>
  BY DEF Script
<1>2. /\ Len(script) = 18 /\ script[1] = "check" /\ script[2] = "base"
      /\ script[3] = "source" /\ script[4] = "ready" /\ script[5] = "duplicate"
      /\ script[6] = "twin" /\ script[7] = "temp" /\ script[8] = "aligned"
      /\ script[9] = "sort" /\ script[10] = "sorted" /\ script[11] = "unsort"
      /\ script[12] = "unsorted" /\ script[13] = "delete" /\ script[14] = "gone"
      /\ script[15] = "after" /\ script[16] = "root" /\ script[17] = "close"
      /\ script[18] = "end"
  BY <1>1
<1> HIDE DEF script
<1>3. \A p \in 1 .. 17 : script[p + 1] \in SeenGone => script[p] \in SeenGone \cup {"gone"}
  BY <1>2 DEF SeenGone
<1> QED
  BY <1>2, <1>3 DEF script

LEMMA CreateScript ==
  LET script == Script("create")
  IN  /\ Len(script) = 12 /\ script[1] = "base"
      /\ \A p \in 1 .. 12 : script[p] # "delete"
      /\ \A p \in 1 .. 11 : script[p + 1] = "temp" => script[p] = "delta"
      /\ \A p \in 1 .. 11 : script[p + 1] \in Compared => script[p] \in Compared \cup {"temp"}
<1> DEFINE script == Script("create")
<1>1. script = <<"base", "source", "ready", "duplicate", "delta", "temp", "after",
                 "root", "file", "close", "rebind", "end">>
  BY DEF Script
<1>2. /\ Len(script) = 12 /\ script[1] = "base" /\ script[2] = "source"
      /\ script[3] = "ready" /\ script[4] = "duplicate" /\ script[5] = "delta"
      /\ script[6] = "temp" /\ script[7] = "after" /\ script[8] = "root"
      /\ script[9] = "file" /\ script[10] = "close" /\ script[11] = "rebind"
      /\ script[12] = "end"
  BY <1>1
<1> HIDE DEF script
<1>3. \A p \in 1 .. 12 : script[p] # "delete"
  BY <1>2
<1>4. \A p \in 1 .. 11 : script[p + 1] = "temp" => script[p] = "delta"
  BY <1>2
<1>5. \A p \in 1 .. 11 : script[p + 1] \in Compared => script[p] \in Compared \cup {"temp"}
  BY <1>2 DEF Compared
<1> QED
  BY <1>2, <1>3, <1>4, <1>5 DEF script

Still == UNCHANGED <<order, page, fresh, receipts, drifts>>

LEMMA StillKeeps ==
  ASSUME PInv, Still
  PROVE  /\ ListOK' /\ ReceiptsOK' /\ Listed(order)' = Listed(order)
         /\ \A id : Given(id)' <=> Given(id)
         /\ \A id : Kept(id)' <=> Kept(id)
         /\ \A one, two : Parity(one, two)' <=> Parity(one, two)
BY DEF Still, PInv, Pages, ListOK, ReceiptsOK, Listed, Given, Kept, Parity

\* A call that has failed goes on without a command.
LEMMA FailedKeeps ==
  ASSUME PInv, Still, UNCHANGED wire,
         u'.failed = TRUE, u'.op = u.op, u'.sent = u.sent, u'.temp = u.temp,
         u'.base \in {u.base, <<>>}, u'.answer = None, u'.made = None,
         u'.step # "sent", u'.step \in Recovery => u.op = "fixed"
  PROVE  Pages'
<1>1. \A id \in Listed(u.base)' : id \in Listed(u.base)
  BY DEF Listed, ToSet
<1>2. Own(u.temp)' /\ Own(u.made)'
  BY <1>1, StillKeeps DEF PInv, Pages, CallOK, Own, Still
<1>3. ~Waiting'
  BY DEF Waiting, At
<1>4. CallOK'
  BY <1>1, <1>2, <1>3 DEF PInv, Pages, CallOK, Still
<1>5. WireOK'
  BY StillKeeps DEF PInv, Pages, WireOK, RequestOK, Still
<1>6. OneOnWire' /\ GoneOK' /\ CloneOK'
  BY DEF OneOnWire, GoneOK, CloneOK
<1> QED
  BY <1>4, <1>5, <1>6, StillKeeps DEF Pages

\* A call posts a request.
LEMMA PostKeeps ==
  ASSUME PInv, Still, u.op \in Operations, ~Waiting,
         NEW c \in Commands, NEW body, wire' = wire \cup {Request(c, body)},
         c # "save" => body = ListBody,
         u.op = "create" => c # "delete", u.failed => u.op = "fixed",
         u'.op = u.op, u'.failed = u.failed, u'.temp = u.temp, u'.base = u.base,
         u'.nr = u.nr, u'.step = "sent", u'.sent = Append(u.sent, c),
         u'.answer = None, u'.made = None
  PROVE  Pages'
<1> PICK q : q = Request(c, body)
  OBVIOUS
<1>1. q.command = c /\ q.nr = u.nr /\ q.body = body /\ wire' = wire \cup {q}
  BY DEF Request
<1>2. u.sent \in Seq(Commands) /\ Len(u.sent) \in Nat
  BY DEF PInv, Posted, CallTyped
<1>3. /\ Len(u'.sent) = Len(u.sent) + 1 /\ u'.sent[Len(u'.sent)] = c
      /\ \A i \in 1 .. Len(u.sent) : u'.sent[i] = u.sent[i]
  BY <1>2
<1>4. Waiting' /\ LastSent' = c
  BY <1>3 DEF Waiting, At, LastSent
<1>5. CallOK'
  <2>1. Own(u.temp)' /\ Own(u.made)'
    BY StillKeeps DEF PInv, Pages, CallOK, Own, Still, Listed
  <2>2. u.temp # None /\ u.op # "cleanup" =>
          \E i \in 1 .. Len(u'.sent) : u'.sent[i] = "duplicate"
    <3> SUFFICES ASSUME u.temp # None, u.op # "cleanup"
                 PROVE  \E i \in 1 .. Len(u'.sent) : u'.sent[i] = "duplicate"
      OBVIOUS
    <3>1. PICK i \in 1 .. Len(u.sent) : u.sent[i] = "duplicate"
      BY DEF PInv, Pages, CallOK
    <3>2. i \in 1 .. Len(u'.sent) /\ u'.sent[i] = "duplicate"
      BY <1>2, <1>3, <3>1
    <3> QED
      BY <3>2
  <2>3. \A id \in Listed(u.base)' : id < fresh'
    BY DEF PInv, Pages, CallOK, Still, Listed
  <2> QED
    BY <1>4, <2>1, <2>2, <2>3 DEF CallOK, Recovery
<1>6. WireOK'
  <2>1. RequestOK(q)'
    <3>1. c \in {"sort", "unsort", "delete"} => q.body.temp = u.temp
      BY <1>1 DEF ListBody
    <3>2. u.temp # Source
      BY Numbers DEF PInv, Pages, CallOK, Own
    <3>3. \A receipt \in receipts : receipt.id # u.temp
      BY Numbers DEF PInv, Pages, CallOK, Own, ReceiptsOK, Kept
    <3>4. u.temp # None => Given(u.temp)
      BY DEF PInv, Pages, CallOK, Own
    <3> QED
      BY <1>1, <3>1, <3>2, <3>3, <3>4, StillKeeps DEF RequestOK, Still
  <2>2. \A r \in wire : RequestOK(r)'
    BY StillKeeps DEF PInv, Pages, WireOK, RequestOK, Still
  <2> QED
    BY <1>1, <2>1, <2>2 DEF WireOK
<1>7. OneOnWire'
  <2> SUFFICES ASSUME ~u.failed
               PROVE  \A r \in wire' : r.nr = u.nr => r.command = c /\ r = q
    BY <1>4 DEF OneOnWire
  <2>1. \A r \in wire : r.nr # u.nr
    BY DEF PInv, Pages, OneOnWire, Operations, Saves, Structural, Forms
  <2> QED
    BY <1>1, <2>1
<1>8. GoneOK' /\ CloneOK'
  BY DEF GoneOK, CloneOK, SeenGone, Compared
<1> QED
  BY <1>5, <1>6, <1>7, <1>8, StillKeeps DEF Pages

\* A call that finds its project has not made a page yet.
LEMMA NothingMade ==
  ASSUME PInv, At("base"), ~u.failed, u.op \in {"fixed", "create"}
  PROVE  u.temp = None
<1> DEFINE script == Script(u.op)
<1>1. u.op \in Operations /\ ~Waiting /\ Place = "base"
  BY DEF At, Waiting, Place, Operations, Structural
<1>2. PICK p \in 1 .. Len(script) : script[p] = "base" /\ Before(p)
  BY <1>1 DEF PInv, Posted, Going
<1>3. \A q \in 1 .. p - 1 : script[q] # "duplicate"
  <2>1. Orderly(script)
    BY <1>1, ScriptOrderly
  <2>2. CASE u.op = "fixed"
    <3>1. script[2] = "base" /\ script[1] = "check" /\ Len(script) = 18
      BY <2>2, FixedScript
    <3>2. p = 2
      BY <1>2, <2>1, <3>1 DEF Orderly
    <3> HIDE DEF script
    <3> QED
      BY <3>1, <3>2
  <2>3. CASE u.op = "create"
    <3>1. script[1] = "base" /\ Len(script) = 12
      BY <2>3, CreateScript
    <3>2. p = 1
      BY <1>2, <2>1, <3>1 DEF Orderly
    <3> QED
      BY <3>2
  <2> QED
    BY <2>2, <2>3
<1>4. \A i \in 1 .. Len(u.sent) : u.sent[i] # "duplicate"
  BY <1>1, <1>2, <1>3 DEF Before
<1> QED
  BY <1>4 DEF PInv, Pages, CallOK

\* A call that goes well goes on.
LEMMA AdvanceKeeps ==
  ASSUME PInv, Still, UNCHANGED wire, u.op \in Operations, ~u.failed, Place # "end",
         Waiting => u.answer # None,
         u'.op = u.op, u'.failed = u.failed, u'.sent = u.sent, u'.nr = u.nr,
         u'.answer = None, u'.made = None, u'.step = Following(Place),
         u'.temp = IF Waiting /\ LastSent = "duplicate" THEN u.made ELSE u.temp,
         u'.base = IF At("base") THEN order ELSE u.base,
         u.step \notin {"source", "before", "snap"} => u'.seen = u.seen,
         u.op = "fixed" /\ At("gone") => Restored,
         u.op = "create" /\ At("delta") => u.temp \in Listed(order),
         u.op = "create" /\ At("temp") => Parity(page[u.temp], u.seen)
  PROVE  Pages'
<1> DEFINE script == Script(u.op)
<1>1. PICK p \in 1 .. Len(script) : script[p] = Place
  BY DEF PInv, Posted, Going
<1>2. /\ Orderly(script) /\ Len(script) \in Nat
      /\ p + 1 \in 1 .. Len(script) /\ u'.step = script[p + 1]
  BY <1>1, ScriptOrderly, FollowingPlace DEF Orderly
<1>3. u'.step \notin Recovery \cup {"sent", "idle"}
  BY <1>2 DEF Orderly
<1>4. Waiting => Len(u.sent) > 0 /\ LastSent \in Commands
  BY DEF PInv, Posted, Going, CallTyped, LastSent
<1>5. Place \notin Commands => ~Waiting /\ u.step = Place
  BY <1>4 DEF Place
<1>6. ~Waiting'
  BY <1>3 DEF Waiting, At
<1>7. At("base") /\ u.op \in {"fixed", "create"} => u'.temp = None
  BY NothingMade DEF Waiting, At
<1>8. CallOK'
  <2>1. Own(u.temp)' /\ Own(u.made)'
    BY <1>7, StillKeeps DEF PInv, Pages, CallOK, Own, Still, Listed
  <2>2. u'.temp # None /\ u.op # "cleanup" =>
          \E i \in 1 .. Len(u.sent) : u.sent[i] = "duplicate"
    <3>1. CASE Waiting /\ LastSent = "duplicate"
      <4>1. Len(u.sent) \in Nat /\ Len(u.sent) > 0
        BY <1>4, <3>1 DEF PInv, Posted, CallTyped
      <4> QED
        BY <3>1, <4>1 DEF LastSent
    <3> QED
      BY <3>1 DEF PInv, Pages, CallOK
  <2>3. \A id \in Listed(u.base)' : id < fresh'
    BY DEF PInv, Pages, CallOK, ListOK, Still, Listed
  <2> QED
    BY <1>3, <1>6, <2>1, <2>2, <2>3 DEF CallOK
<1>9. WireOK'
  BY StillKeeps DEF PInv, Pages, WireOK, RequestOK, Still
<1>10. OneOnWire'
  BY DEF PInv, Pages, OneOnWire, Operations, Saves, Structural, Forms
<1>11. GoneOK'
  <2> SUFFICES ASSUME u.op = "fixed", u'.step \in SeenGone
               PROVE  u'.temp \notin Listed(order)
    BY StillKeeps DEF GoneOK
  <2>1. Place \in SeenGone \cup {"gone"}
    <3>1. p \in 1 .. 17
      <4>1. Len(script) = 18
        BY FixedScript
      <4> HIDE DEF script
      <4> QED
        BY <1>2, <4>1
    <3> QED
      BY <1>1, <1>2, <3>1, FixedScript
  <2>2. ~Waiting /\ u.step = Place /\ u'.temp = u.temp
    BY <1>5, <2>1 DEF SeenGone, Commands
  <2>3. CASE u.step = "gone"
    BY <2>2, <2>3, Numbers, OrderTyped DEF At, Restored, PInv, Pages, CallOK, Own
  <2>4. CASE u.step \in SeenGone
    BY <2>2, <2>4 DEF PInv, Pages, GoneOK
  <2> QED
    BY <2>1, <2>2, <2>3, <2>4
<1>12. CloneOK'
  <2> SUFFICES ASSUME u.op = "create", u'.step \in Compared \cup {"temp"}
               PROVE  /\ Kept(u'.temp)
                      /\ u'.step \in Compared => Parity(page[u'.temp], u'.seen)
    BY StillKeeps DEF CloneOK, Still
  <2>1. /\ u'.step = "temp" => Place = "delta"
        /\ u'.step \in Compared => Place \in Compared \cup {"temp"}
    <3>1. p \in 1 .. 11
      <4>1. Len(script) = 12
        BY CreateScript
      <4> HIDE DEF script
      <4> QED
        BY <1>2, <4>1
    <3> QED
      BY <1>1, <1>2, <3>1, CreateScript
  <2>2. ~Waiting /\ u.step = Place /\ u'.temp = u.temp /\ u'.seen = u.seen
    BY <1>5, <2>1 DEF Compared, Commands
  <2>3. CASE u.step = "delta"
    <3>1. u.temp \in Listed(order) /\ u.temp # None
      BY <2>3, Numbers, OrderTyped DEF At, PInv
    <3> QED
      BY <2>1, <2>2, <2>3, <3>1 DEF PInv, Pages, CallOK, Own, Kept, Compared
  <2>4. CASE u.step \in Compared \cup {"temp"}
    BY <2>2, <2>4 DEF PInv, Pages, CloneOK, At
  <2> QED
    BY <2>1, <2>2, <2>3, <2>4
<1> QED
  BY <1>8, <1>9, <1>10, <1>11, <1>12, StillKeeps DEF Pages

----------------------------------------------------------------------------
(* The steps of a call, one by one                                         *)

LEMMA LoadsTyped ==
  ASSUME NEW step
  PROVE  Loads(step).at \in Places /\ Root.at \in Places /\ ProjectDocument.at \in Places
BY DEF Loads, Places, Root, ProjectDocument, EditorDocument, FormDocument, Tab

\* What a step of the call leaves alone.
LEMMA TypedStill ==
  ASSUME Typed, FieldsTyped', WireTyped', UNCHANGED <<server, memory, calls, drifts>>,
         faults' = faults \/ Fault, tab'.at \in Places
  PROVE  Typed'
<1>1. faults' \in 0 .. MaxFaults
  BY BoundsAssumption DEF Typed, BoundsTyped, Fault
<1> QED
  BY <1>1 DEF Typed, ServerTyped, MemoryTyped, BoundsTyped, server, memory

LEMMA CallValues ==
  ASSUME PInv
  PROVE  /\ DOMAIN u = Fields /\ WireTyped /\ FieldsTyped
         /\ u.step # "idle" => u.op \in Operations
         /\ order \in Seq(PageIds) /\ page[Source] \in Page /\ Blank \in Page
BY Numbers, StepOfOperation
   DEF PInv, Posted, CallTyped, Typed, ServerTyped, Page, Blank, FieldsTyped

\* A call on its way has not failed, and waits for no answer.
LEMMA OnItsWay ==
  ASSUME PInv, u.step \notin Recovery \cup {"sent", "shut", "root", "close", "end", "idle"}
  PROVE  /\ u.op \in Operations /\ ~u.failed /\ ~Waiting /\ Place = u.step
         /\ u.answer = None /\ u.made = None
<1>1. ~Waiting
  BY DEF Waiting, At
<1>2. u.failed \in BOOLEAN /\ ~u.failed
  BY DEF PInv, Posted, Failing, CallTyped, Flags
<1> QED
  BY <1>1, <1>2, CallValues DEF PInv, Pages, CallOK, Place

LEMMA ThrownKeeps ==
  ASSUME PInv, u.step # "idle", Still, UNCHANGED <<wire, calls>>,
         NEW call, call = u \/ call = Noted, u' = Thrown(call)
  PROVE  Pages' /\ FieldsTyped'
<1>1. DOMAIN u = Fields
  BY CallValues
<1>2. /\ DOMAIN call = Fields /\ call.op = u.op /\ call.sent = u.sent
      /\ call.temp = u.temp /\ call.nr = u.nr
  BY <1>1, CallFields DEF Noted
<1>3. /\ u'.op = u.op /\ u'.sent = u.sent /\ u'.temp = u.temp /\ u'.nr = u.nr
      /\ u'.failed = TRUE /\ u'.step = Finally /\ u'.base = <<>> /\ u'.cur = <<>>
      /\ u'.seen = Blank /\ u'.answer = None /\ u'.made = None
  BY <1>2, CallFields DEF Thrown
<1>4. Finally # "sent" /\ (Finally \in Recovery => u.op = "fixed")
  BY DEF Finally, Recovery
<1>5. FieldsTyped'
  BY <1>3, CallValues DEF FieldsTyped
<1> QED
  BY <1>3, <1>4, <1>5, FailedKeeps

LEMMA VisitKeeps ==
  ASSUME PInv, SaveVisit \/ Visit \/ File
  PROVE  Pages' /\ Typed'
<1>1. /\ u.step \notin Recovery \cup {"sent", "shut", "root", "close", "end", "idle"}
      /\ u.step \notin Commands \cup {"end"}
  BY DEF SaveVisit, Visit, File, At, SaveVisits, ListVisits, Recovery, Commands
<1>2. /\ u.op \in Operations /\ ~u.failed /\ ~Waiting /\ Place = u.step
      /\ u.answer = None /\ u.made = None
  BY <1>1, OnItsWay
<1>3. /\ Still /\ UNCHANGED <<wire, server, memory, bounds>> /\ tab'.at \in Places
  BY LoadsTyped
     DEF SaveVisit, Visit, File, Still, server, memory, bounds, PInv, Typed
<1>4. CASE u' = Thrown(u)
  BY <1>1, <1>3, <1>4, ThrownKeeps, TypedStill DEF bounds, PInv, Typed, WireTyped,
     RequestTyped
<1>5. ASSUME NEW call, u' = [call EXCEPT !.step = Following(u.step)],
             \/ SaveVisit /\ call = [u EXCEPT !.seen = IF At("snap") THEN page[Source] ELSE @]
             \/ Visit /\ Accepts /\ call = Learnt
             \/ File /\ call = u
      PROVE  Pages' /\ Typed'
  <2>1. /\ DOMAIN call = Fields /\ call.op = u.op /\ call.failed = u.failed
        /\ call.sent = u.sent /\ call.nr = u.nr /\ call.answer = u.answer
        /\ call.made = u.made /\ call.temp = u.temp
        /\ call.base = IF At("base") THEN order ELSE u.base
        /\ call.cur \in {u.cur, order}
        /\ call.seen \in {u.seen, page[Source]}
        /\ u.step \notin {"source", "before", "snap"} => call.seen = u.seen
    BY <1>5, CallValues, CallFields DEF Learnt, SaveVisit, SaveVisits, File, At
  <2>2. /\ u'.op = u.op /\ u'.failed = u.failed
        /\ u'.sent = u.sent /\ u'.nr = u.nr /\ u'.answer = None
        /\ u'.made = None /\ u'.temp = u.temp /\ u'.step = Following(Place)
        /\ u'.base = IF At("base") THEN order ELSE u.base
        /\ u'.cur \in {u.cur, order}
        /\ u'.seen \in {u.seen, page[Source]}
        /\ u.step \notin {"source", "before", "snap"} => u'.seen = u.seen
    BY <1>2, <1>5, <2>1, CallFields
  <2>3. /\ u.op = "fixed" /\ At("gone") => Restored
        /\ u.op = "create" /\ At("delta") => u.temp \in Listed(order)
        /\ u.op = "create" /\ At("temp") => Parity(page[u.temp], u.seen)
    BY <1>5 DEF Accepts, FixedAccepts, CreateAccepts, At, SaveVisit, SaveVisits, File
  <2>4. Pages'
    BY <1>1, <1>2, <1>3, <2>2, <2>3, AdvanceKeeps
  <2>5. FieldsTyped'
    BY <1>3, <2>2, CallValues DEF FieldsTyped, bounds
  <2>6. Typed'
    BY <1>3, <2>5, TypedStill DEF PInv, Typed, WireTyped, RequestTyped, bounds
  <2> QED
    BY <2>4, <2>6
<1> QED
  BY <1>4, <1>5 DEF SaveVisit, Visit, File, Advance, Fail

LEMMA CommandKeeps ==
  ASSUME PInv, SendSave \/ Send
  PROVE  Pages' /\ Typed'
<1>1. u.step \in Commands
  BY DEF SendSave, Send, At, Commands
<1>2. /\ u.op \in Operations /\ ~u.failed /\ ~Waiting /\ Place = u.step
      /\ u.answer = None /\ u.made = None
  BY <1>1, OnItsWay DEF Commands, Recovery
<1>3. /\ Still /\ UNCHANGED <<server, tab, memory, bounds>> /\ tab.at \in Places
  BY DEF SendSave, Send, Still, server, memory, bounds, PInv, Typed
<1>4. CASE (u' = Thrown(u) \/ u' = Thrown(Noted)) /\ UNCHANGED wire
  BY <1>1, <1>3, <1>4, ThrownKeeps, TypedStill DEF bounds, PInv, Typed, WireTyped,
     RequestTyped, Commands
<1>5. ASSUME NEW body, NEW call,
             wire' = wire \cup {Request(u.step, body)},
             u.step # "save" => body = ListBody,
             u.step = "save" => body = SaveBody,
             u' = [call EXCEPT !.step = "sent", !.sent = Append(@, u.step),
                     !.answer = None],
             call = u \/ call = Noted
      PROVE  Pages' /\ Typed'
  <2>1. /\ DOMAIN call = Fields /\ call.op = u.op /\ call.failed = u.failed
        /\ call.temp = u.temp /\ call.base = u.base /\ call.nr = u.nr
        /\ call.sent = u.sent /\ call.made = u.made /\ call.cur = u.cur
        /\ call.seen = u.seen
    BY <1>5, CallValues, CallFields DEF Noted
  <2>2. /\ u'.op = u.op /\ u'.failed = u.failed
        /\ u'.temp = u.temp /\ u'.base = u.base /\ u'.nr = u.nr
        /\ u'.step = "sent" /\ u'.sent = Append(u.sent, u.step)
        /\ u'.answer = None /\ u'.made = None /\ u'.cur = u.cur /\ u'.seen = u.seen
    BY <1>2, <1>5, <2>1, CallFields
  <2>3. u.op = "create" => u.step # "delete"
    <3>1. PICK p \in 1 .. Len(Script(u.op)) : Script(u.op)[p] = u.step
      BY <1>2 DEF PInv, Posted, Going
    <3> QED
      BY <3>1, CreateScript
  <2>4. Pages'
    BY <1>1, <1>2, <1>3, <1>5, <2>2, <2>3, PostKeeps
  <2>5. RequestTyped(Request(u.step, body))
    BY <1>1, <1>2, <1>5, CallValues
       DEF RequestTyped, Request, SaveBody, FieldsTyped, Page, Operations, Saves,
           Structural, Forms
  <2>6. FieldsTyped' /\ WireTyped'
    BY <1>3, <1>5, <2>2, <2>5, CallValues DEF FieldsTyped, WireTyped, RequestTyped, bounds
  <2>7. Typed'
    BY <1>3, <2>6, TypedStill DEF PInv, bounds
  <2> QED
    BY <2>4, <2>7
<1>6. CASE SendSave /\ InDocument
  BY <1>5, <1>6 DEF SendSave, Post, At
<1>7. CASE Send /\ Permitted
  <2>1. u' = [Noted EXCEPT !.step = "sent", !.sent = Append(@, u.step), !.answer = None]
    <3>1. DOMAIN Noted = Fields /\ Noted.answer = None
      BY <1>2, CallValues, CallFields DEF Noted
    <3>2. u' = [Noted EXCEPT !.step = "sent", !.sent = Append(@, u.step)]
      BY <1>7 DEF Send
    <3> QED
      BY <3>1, <3>2
  <2> QED
    BY <1>5, <1>7, <2>1 DEF Send
<1> QED
  BY <1>4, <1>6, <1>7 DEF SendSave, Send, Fail

LEMMA OutcomeKeeps ==
  ASSUME PInv, SaveAnswered \/ ListAnswered \/ Lapse
  PROVE  Pages' /\ Typed'
<1>1. Waiting /\ u.step = "sent" /\ Place = LastSent
  BY DEF SaveAnswered, ListAnswered, Lapse, Waiting, At, Place
<1>2. u.op \in Operations /\ ~u.failed
  BY <1>1, CallValues DEF SaveAnswered, ListAnswered, Lapse, PInv, Posted, Failing
<1>3. Place # "end"
  <2>1. u.sent \in Seq(Commands) /\ Len(u.sent) > 0
    BY <1>1, <1>2 DEF PInv, Posted, CallTyped, Going
  <2>2. LastSent \in Commands
    BY <2>1 DEF LastSent
  <2> QED
    BY <1>1, <2>2 DEF Commands
<1>4. /\ Still /\ UNCHANGED <<server, wire, tab, memory, bounds>> /\ tab.at \in Places
  BY DEF SaveAnswered, ListAnswered, Lapse, Still, server, memory, bounds, PInv, Typed
<1>5. CASE u' = Thrown(u)
  BY <1>1, <1>4, <1>5, ThrownKeeps, TypedStill DEF bounds, PInv, Typed, WireTyped,
     RequestTyped
<1>6. ASSUME u.answer # None,
             /\ u'.op = u.op /\ u'.failed = u.failed /\ u'.sent = u.sent /\ u'.nr = u.nr
             /\ u'.answer = None /\ u'.made = None /\ u'.step = Following(Place)
             /\ u'.temp = IF LastSent = "duplicate" THEN u.made ELSE u.temp
             /\ u'.base = u.base /\ u'.seen = u.seen /\ u'.cur = u.cur
      PROVE  Pages' /\ Typed'
  <2>1. Pages'
    BY <1>1, <1>2, <1>3, <1>4, <1>6, AdvanceKeeps DEF At
  <2>2. FieldsTyped'
    BY <1>4, <1>6, CallValues DEF FieldsTyped, bounds
  <2>3. Typed'
    BY <1>4, <2>2, TypedStill DEF PInv, Typed, WireTyped, RequestTyped, bounds
  <2> QED
    BY <2>1, <2>3
<1>7. CASE SaveAnswered
  <2>1. u' = [u EXCEPT !.step = Following(Place), !.answer = None] /\ LastSent = "save"
    BY <1>1, <1>7 DEF SaveAnswered
  <2>2. u.made = None
    BY <2>1 DEF PInv, Pages, CallOK
  <2>3. /\ u'.op = u.op /\ u'.failed = u.failed /\ u'.sent = u.sent /\ u'.nr = u.nr
        /\ u'.answer = None /\ u'.made = None /\ u'.step = Following(Place)
        /\ u'.temp = u.temp
        /\ u'.base = u.base /\ u'.seen = u.seen /\ u'.cur = u.cur
    BY <2>1, <2>2, CallValues, CallFields
  <2> QED
    BY <1>6, <1>7, <2>1, <2>3 DEF SaveAnswered
<1>8. CASE ListAnswered /\ u.answer # "refused"
  <2> DEFINE temp == IF LastSent = "duplicate" THEN u.made ELSE u.temp
  <2>1. u' = [u EXCEPT !.step = Following(Place), !.answer = None, !.made = None,
                !.temp = temp]
    BY <1>1, <1>8 DEF ListAnswered
  <2> HIDE DEF temp
  <2>2. /\ u'.op = u.op /\ u'.failed = u.failed /\ u'.sent = u.sent /\ u'.nr = u.nr
        /\ u'.answer = None /\ u'.made = None /\ u'.step = Following(Place)
        /\ u'.temp = temp
        /\ u'.base = u.base /\ u'.seen = u.seen /\ u'.cur = u.cur
    BY <2>1, CallValues, CallFields
  <2> QED
    BY <1>6, <1>8, <2>2 DEF ListAnswered, temp
<1> QED
  BY <1>5, <1>7, <1>8 DEF ListAnswered, Lapse, Fail

\* The tab is given back.
LEMMA ReturnKeeps ==
  ASSUME PInv, Shut \/ RestoreRoot \/ Close \/ CloseFails \/ Rebind \/ RebindFails
  PROVE  Pages' /\ Typed'
<1>1. u.step \in {"shut", "root", "close", "rebind"}
  BY DEF Shut, RestoreRoot, Close, CloseFails, Rebind, RebindFails, At
<1>2. /\ u.op \in Operations /\ DOMAIN u = Fields /\ u.failed \in BOOLEAN
      /\ ~Waiting /\ Place = u.step /\ u.answer = None /\ u.made = None
  BY <1>1, CallValues DEF PInv, Posted, CallTyped, Flags, Place, Waiting, At, Pages, CallOK
<1>3. /\ Still /\ UNCHANGED <<wire, server, memory, calls, drifts>>
      /\ (faults' = faults \/ Fault) /\ tab'.at \in Places
  BY LoadsTyped
     DEF Shut, RestoreRoot, Close, CloseFails, Rebind, RebindFails, Still, server,
         memory, bounds, PInv, Typed
<1> DEFINE Keeps(step, failed) ==
             /\ u'.op = u.op /\ u'.failed = failed /\ u'.sent = u.sent /\ u'.nr = u.nr
             /\ u'.answer = None /\ u'.made = None /\ u'.step = step
             /\ u'.temp = u.temp /\ u'.base = u.base /\ u'.seen = u.seen
             /\ u'.cur = u.cur
<1>4. PICK step, failed :
        /\ Keeps(step, failed)
        /\ step \notin Recovery \cup {"sent"}
        /\ failed \in {TRUE, u.failed}
        /\ ~failed => step = Following(Place)
  <2>1. At("rebind") => ~u.failed
    BY DEF PInv, Posted, Failing, At, Recovery
  <2>2. CASE CloseFails \/ RebindFails
    <3>1. /\ Keeps("end", TRUE)
          /\ "end" \notin Recovery \cup {"sent"} /\ TRUE \in {TRUE, u.failed}
      BY <1>2, <2>2, CallFields DEF CloseFails, RebindFails, Recovery
    <3> QED
      BY <3>1
  <2>3. ASSUME NEW step, u' = [u EXCEPT !.step = step],
               u.failed => step \in {"root", "close", "end"},
               ~u.failed => step = Following(Place)
        PROVE  /\ Keeps(step, u.failed) /\ step \notin Recovery \cup {"sent"}
               /\ ~u.failed => step = Following(Place)
    <3>1. Keeps(step, u.failed)
      BY <1>2, <2>3, CallFields
    <3>2. CASE u.failed
      BY <2>3, <3>1, <3>2 DEF Recovery
    <3>3. CASE ~u.failed
      <4>1. PICK p \in 1 .. Len(Script(u.op)) : Script(u.op)[p] = Place
        BY <1>2, <3>3 DEF PInv, Posted, Going
      <4>2. p + 1 \in 1 .. Len(Script(u.op)) /\ step = Script(u.op)[p + 1]
        BY <1>1, <1>2, <2>3, <3>3, <4>1, FollowingPlace
      <4>3. step \notin Recovery \cup {"sent"}
        BY <1>2, <4>2, ScriptOrderly DEF Orderly
      <4> QED
        BY <2>3, <3>1, <4>3
    <3> QED
      BY <3>2, <3>3
  <2> HIDE DEF Keeps
  <2>4. CASE Shut
    BY <1>1, <1>2, <2>3, <2>4, OneSuccessor DEF Shut, At, PInv
  <2>5. CASE Rebind
    BY <1>1, <1>2, <2>1, <2>3, <2>5, OneSuccessor DEF Rebind, At, PInv
  <2>6. CASE RestoreRoot
    BY <1>2, <2>3, <2>6 DEF RestoreRoot, At
  <2>7. CASE Close
    BY <1>2, <2>3, <2>7 DEF Close, At
  <2> QED
    BY <2>2, <2>4, <2>5, <2>6, <2>7
<1>5. Keeps(step, failed)
  BY <1>4
<1>6. Pages'
  <2>1. CASE failed
    BY <1>2, <1>3, <1>4, <1>5, <2>1, FailedKeeps
  <2>2. CASE ~failed
    BY <1>1, <1>2, <1>3, <1>4, <1>5, <2>2, AdvanceKeeps DEF At
  <2> QED
    BY <2>1, <2>2
<1>7. FieldsTyped' /\ WireTyped'
  BY <1>3, <1>5, CallValues DEF FieldsTyped, WireTyped, RequestTyped
<1>8. Typed'
  BY <1>3, <1>7, TypedStill DEF PInv
<1> QED
  BY <1>6, <1>8

\* The compensation of a round trip.
LEMMA RemedyKeeps ==
  ASSUME PInv, Look \/ Relook \/ LookFails \/ Compensate \/ Compensated
  PROVE  Pages' /\ Typed'
<1>1. u.step \in Recovery \/ (Waiting /\ u.failed)
  BY DEF Look, Relook, LookFails, Compensate, Compensated, At, Recovery
<1>2. /\ u.op = "fixed" /\ u.op \in Operations /\ DOMAIN u = Fields
      /\ u.sent \in Seq(Commands)
  BY <1>1, CallValues DEF PInv, Posted, CallTyped, Pages, CallOK, Operations
<1>3. u.failed = TRUE
  <2>1. SUFFICES ASSUME ~u.failed PROVE FALSE
    BY DEF PInv, Posted, CallTyped, Flags
  <2>2. u.step \in Recovery /\ Place = u.step
    BY <1>1, <2>1 DEF Place, Waiting, At, Recovery
  <2> QED
    BY <1>2, <2>1, <2>2, ScriptOrderly DEF PInv, Posted, Going, Orderly
<1>4. u.made = None
  BY <1>3 DEF PInv, Pages, CallOK
<1>5. u.step \in Recovery => ~Waiting /\ u.answer = None
  BY DEF Waiting, At, Recovery, PInv, Pages, CallOK
<1>6. /\ Still /\ UNCHANGED <<server, memory, calls, drifts>>
      /\ (faults' = faults \/ Fault) /\ tab'.at \in Places
  BY LoadsTyped
     DEF Look, Relook, LookFails, Compensate, Compensated, Still, server, memory,
         bounds, PInv, Typed
<1>7. CASE Compensate /\ Compensable
  <2> DEFINE tried == [u EXCEPT !.sortTried = @ \/ At("resort"),
                                !.deleteTried = @ \/ At("redelete")]
  <2>1. /\ wire' = wire \cup {Request(Compensation, ListBody)}
        /\ u' = [tried EXCEPT !.step = "sent", !.answer = None,
                   !.sent = Append(@, Compensation)]
        /\ u.step \in Recovery
    BY <1>7 DEF Compensate, Recovery
  <2>2. /\ DOMAIN tried = Fields /\ tried.op = u.op /\ tried.failed = u.failed
        /\ tried.sent = u.sent /\ tried.nr = u.nr /\ tried.made = u.made
        /\ tried.temp = u.temp /\ tried.base = u.base /\ tried.seen = u.seen
        /\ tried.cur = u.cur
    BY <1>2, CallFields
  <2> HIDE DEF tried
  <2>3. /\ u'.op = u.op /\ u'.failed = u.failed /\ u'.step = "sent"
        /\ u'.sent = Append(u.sent, Compensation) /\ u'.nr = u.nr
        /\ u'.answer = None /\ u'.made = None
        /\ u'.temp = u.temp /\ u'.base = u.base /\ u'.seen = u.seen /\ u'.cur = u.cur
    BY <1>4, <2>1, <2>2, CallFields
  <2>4. Compensation \in Commands \ {"save"}
    BY DEF Compensation, Commands
  <2>5. Pages'
    BY <1>2, <1>5, <1>6, <2>1, <2>3, <2>4, PostKeeps
  <2>6. RequestTyped(Request(Compensation, ListBody))
    BY <1>2, <2>4, CallValues
       DEF RequestTyped, Request, FieldsTyped
  <2>7. FieldsTyped' /\ WireTyped'
    BY <1>6, <2>1, <2>3, <2>6, CallValues DEF FieldsTyped, WireTyped, RequestTyped
  <2>8. Typed'
    BY <1>6, <2>7, TypedStill DEF PInv
  <2> QED
    BY <2>5, <2>8
<1>8. CASE ~(Compensate /\ Compensable)
  <2>1. /\ wire' = wire
        /\ u'.op = u.op /\ u'.failed = u.failed /\ u'.sent = u.sent /\ u'.nr = u.nr
        /\ u'.answer = None /\ u'.made = None
        /\ u'.step \in Recovery \cup {"root"}
        /\ u'.temp = u.temp /\ u'.base = u.base /\ u'.seen = u.seen
        /\ u'.cur \in {u.cur, order}
    <3>1. CASE Look
      <4>1. Remedy(order) \in Recovery \cup {"root"} /\ u.step \in Recovery
        BY <3>1 DEF Remedy, Recovery, Look, At
      <4> QED
        BY <1>2, <1>4, <1>5, <3>1, <4>1, CallFields DEF Look
    <3>2. CASE Relook \/ LookFails
      <4>1. AfterResort \in Recovery \cup {"root"} /\ u.step \in Recovery
        BY <3>2 DEF AfterResort, Recovery, Relook, LookFails, At
      <4> QED
        BY <1>2, <1>4, <1>5, <3>2, <4>1, CallFields DEF Relook, LookFails
    <3>3. CASE Compensated
      BY <1>2, <1>4, <3>3, CallFields DEF Compensated, Recovery
    <3>4. CASE Compensate
      <4> DEFINE tried == [u EXCEPT !.sortTried = @ \/ At("resort"),
                                    !.deleteTried = @ \/ At("redelete")]
      <4>1. /\ u' = [tried EXCEPT !.step = IF At("resort") THEN "relook" ELSE "root"]
            /\ wire' = wire /\ u.step \in Recovery
        BY <1>8, <3>4 DEF Compensate, Recovery
      <4>2. /\ DOMAIN tried = Fields /\ tried.op = u.op /\ tried.failed = u.failed
            /\ tried.sent = u.sent /\ tried.nr = u.nr /\ tried.made = u.made
            /\ tried.temp = u.temp /\ tried.base = u.base /\ tried.seen = u.seen
            /\ tried.cur = u.cur /\ tried.answer = u.answer
        BY <1>2, CallFields
      <4> HIDE DEF tried
      <4> QED
        BY <1>4, <1>5, <4>1, <4>2, CallFields DEF Recovery
    <3> QED
      BY <3>1, <3>2, <3>3, <3>4
  <2>2. Pages'
    BY <1>2, <1>3, <1>6, <2>1, FailedKeeps DEF Recovery
  <2>3. FieldsTyped' /\ WireTyped'
    BY <1>6, <2>1, CallValues DEF FieldsTyped, WireTyped, RequestTyped
  <2>4. Typed'
    BY <1>6, <2>3, TypedStill DEF PInv
  <2> QED
    BY <2>2, <2>4
<1> QED
  BY <1>7, <1>8

\* A step fails.
LEMMA StepFailsKeeps ==
  ASSUME PInv, StepFails
  PROVE  Pages' /\ Typed'
<1>1. u.step # "idle"
  <2> SUFFICES "idle" \notin Steps
    BY DEF StepFails, Visits
  <2>1. \A op \in Operations : "idle" \notin ToSet(Script(op))
    BY ScriptOrderly DEF Orderly, ToSet
  <2> QED
    BY <2>1 DEF Steps
<1>2. /\ Still /\ UNCHANGED <<wire, server, memory, calls, drifts>> /\ Fault
      /\ tab'.at \in Places /\ u' = Thrown(u)
  BY LoadsTyped DEF StepFails, Fail, Still, server, memory, PInv, Typed
<1>3. Pages' /\ FieldsTyped'
  BY <1>1, <1>2, ThrownKeeps
<1>4. Typed'
  BY <1>2, <1>3, TypedStill DEF PInv, Typed, WireTyped, RequestTyped
<1> QED
  BY <1>3, <1>4

----------------------------------------------------------------------------
(* Calls begin and end                                                     *)

LEMMA BeginKeeps ==
  ASSUME PInv, NEW op \in Operations, NEW key, NEW receipt, Lease(op, key, receipt),
         \/ receipt = None /\ receipts' \subseteq receipts
         \/ op = "cleanup" /\ receipt \in receipts /\ receipts' = receipts \ {receipt},
         lifecycle' \in [Keys -> {"none", "running", "blocked", "done"}],
         structural' \in [Keys -> {"none", "PENDING", "FAILED", "SUCCEEDED"}]
  PROVE  Pages' /\ Typed'
<1>1. /\ u'.op = op /\ u'.nr = calls + 1 /\ u'.sent = <<>> /\ u'.base = <<>>
      /\ u'.cur = <<>> /\ u'.seen = Blank /\ u'.answer = None /\ u'.made = None
      /\ u'.temp = None \/ (receipt # None /\ u'.temp = receipt.id)
      /\ \/ u'.failed = FALSE /\ u'.step = Script(op)[1]
         \/ u'.failed = TRUE /\ u'.step = "end"
  <2>1. CASE tab = Root
    <3> DEFINE temp == IF receipt = None THEN None ELSE receipt.id
    <3>1. u' = [Idle EXCEPT !.op = op, !.key = key, !.nr = calls + 1,
                  !.step = Script(op)[1], !.owned = Listed(order),
                  !.receipt = receipt, !.temp = temp]
      BY <2>1 DEF Lease
    <3>2. temp = None \/ (receipt # None /\ temp = receipt.id)
      OBVIOUS
    <3> HIDE DEF temp
    <3> QED
      BY <3>1, <3>2 DEF Idle
  <2>2. CASE tab # Root
    <3>1. u' = [Idle EXCEPT !.op = op, !.key = key, !.nr = calls + 1,
                  !.step = "end", !.failed = TRUE]
      BY <2>2 DEF Lease
    <3> QED
      BY <3>1 DEF Idle
  <2> QED
    BY <2>1, <2>2
<1>2. /\ UNCHANGED <<server, order, page, fresh, wire, tab, faults, drifts>>
      /\ calls' = calls + 1 /\ calls < MaxCalls
  BY DEF Lease, server
<1>3. Script(op)[1] \notin {"sent", "idle"} \cup Recovery
  BY ScriptOrderly DEF Orderly
<1>4. calls \in Nat /\ calls' \in Nat /\ MaxCalls \in Nat
  BY <1>2, BoundsAssumption DEF PInv, Typed, BoundsTyped
<1>5. /\ receipts' \subseteq receipts /\ op # "none"
      /\ u'.temp # None => /\ receipt \in receipts /\ u'.temp = receipt.id
                           /\ receipts' = receipts \ {receipt} /\ op = "cleanup"
  BY <1>1 DEF Operations, Saves, Structural, Forms
<1>6. Typed'
  <2>1. FieldsTyped'
    BY <1>1, <1>2, <1>4, CallValues DEF FieldsTyped
  <2>2. WireTyped'
    BY <1>2, <1>4, CallValues DEF WireTyped, RequestTyped
  <2>3. BoundsTyped'
    BY <1>2, <1>4 DEF PInv, Typed, BoundsTyped
  <2>4. MemoryTyped'
    BY <1>5 DEF PInv, Typed, MemoryTyped
  <2>5. ServerTyped' /\ tab'.at \in Places
    BY <1>2 DEF PInv, Typed, ServerTyped
  <2> QED
    BY <2>1, <2>2, <2>3, <2>4, <2>5 DEF Typed
<1>7. ListOK' /\ ReceiptsOK'
  BY <1>2, <1>5 DEF PInv, Pages, ListOK, ReceiptsOK, Listed, Kept, Given, Parity
<1>8. \A id : Given(id)' <=> Given(id)
  BY <1>2 DEF Given
<1>9. ~Waiting' /\ u'.step \notin Recovery
  BY <1>1, <1>3 DEF Waiting, At, Recovery
<1>10. Listed(<<>>) = {}
  BY DEF Listed, ToSet
<1>11. CallOK'
  <2>1. Own(u.temp)'
    <3> SUFFICES ASSUME u'.temp # None
                 PROVE  /\ Given(u'.temp) /\ \A other \in receipts' : other.id # u'.temp
                        /\ u'.op = "cleanup"
      BY <1>8 DEF Own
    <3> QED
      BY <1>1, <1>5 DEF PInv, Pages, ReceiptsOK, Kept
  <2>2. Own(u.made)'
    BY <1>1 DEF Own
  <2>3. Listed(u.base)' = {}
    BY <1>1, <1>10 DEF Listed
  <2> QED
    BY <1>1, <1>5, <1>9, <2>1, <2>2, <2>3 DEF CallOK
<1>12. WireOK'
  <2>1. u'.op = "create" => u'.temp = None
    BY <1>1, <1>5
  <2> QED
    BY <1>1, <1>2, <1>5, <1>8, <2>1 DEF PInv, Pages, WireOK, RequestOK
<1>13. OneOnWire'
  <2>1. \A r \in wire : r.nr # calls + 1
    BY <1>4, CallValues DEF WireTyped, RequestTyped
  <2> QED
    BY <1>1, <1>2, <2>1 DEF OneOnWire
<1>14. GoneOK' /\ CloneOK'
  BY <1>1, FixedScript, CreateScript DEF GoneOK, CloneOK, SeenGone, Compared
<1> QED
  BY <1>6, <1>7, <1>11, <1>12, <1>13, <1>14 DEF Pages

\* Nothing but receipts is given away.
LEMMA FewerReceipts ==
  ASSUME PInv, UNCHANGED <<order, page, fresh, u, wire, drifts>>, receipts' \subseteq receipts
  PROVE  Pages'
<1>1. /\ Listed(order)' = Listed(order) /\ Listed(u.base)' = Listed(u.base)
      /\ \A id : Given(id)' <=> Given(id)
      /\ Waiting' = Waiting /\ LastSent' = LastSent
  BY DEF Listed, Given, Waiting, At, LastSent
<1>2. \A id : Own(id) => Own(id)'
  BY <1>1 DEF Own
<1>3. CallOK'
  BY <1>1, <1>2 DEF PInv, Pages, CallOK
<1>4. WireOK' /\ OneOnWire' /\ GoneOK' /\ CloneOK'
  BY <1>1 DEF PInv, Pages, WireOK, RequestOK, OneOnWire, GoneOK, CloneOK, Kept, Parity
<1>5. ListOK' /\ ReceiptsOK'
  BY <1>1 DEF PInv, Pages, ListOK, ReceiptsOK, Kept, Parity
<1> QED
  BY <1>3, <1>4, <1>5 DEF Pages

\* The lease is free again; what is left are the receipts.
LEMMA IdleKeeps ==
  ASSUME PInv, u' = Idle, UNCHANGED <<order, page, fresh, wire, drifts>>,
         ReceiptsOK',
         \A r \in wire : r.command = "delete" =>
           \A receipt \in receipts' : receipt.id # r.body.temp
  PROVE  Pages'
<1>1. /\ u'.op = "none" /\ u'.step = "idle" /\ u'.temp = None /\ u'.made = None
      /\ u'.base = <<>> /\ u'.answer = None /\ ~Waiting'
  BY DEF Idle, Waiting, At
<1>2. Listed(u.base)' = {} /\ Listed(order)' = Listed(order)
  BY <1>1 DEF Listed, ToSet
<1>3. CallOK'
  BY <1>1, <1>2 DEF CallOK, Own, Recovery
<1>4. WireOK'
  BY <1>1 DEF PInv, Pages, WireOK, RequestOK, Given
<1>5. OneOnWire' /\ GoneOK' /\ CloneOK' /\ ListOK'
  BY <1>1, <1>2 DEF PInv, Pages, OneOnWire, GoneOK, CloneOK, ListOK
<1> QED
  BY <1>3, <1>4, <1>5 DEF Pages

LEMMA IdleTyped ==
  ASSUME PInv, u' = Idle, UNCHANGED <<server, wire, tab, calls, drifts>>,
         faults' = faults \/ Fault, MemoryTyped'
  PROVE  Typed'
<1>1. u'.op = "none" /\ u'.seen = Blank /\ u'.base = <<>> /\ u'.cur = <<>>
  BY DEF Idle
<1>2. FieldsTyped' /\ WireTyped'
  BY <1>1, CallValues DEF FieldsTyped, WireTyped, RequestTyped
<1>3. faults' \in 0 .. MaxFaults
  BY BoundsAssumption DEF PInv, Typed, BoundsTyped, Fault
<1> QED
  BY <1>2, <1>3 DEF PInv, Typed, ServerTyped, BoundsTyped, server

\* A call that made a clone leaves its receipt, every other leaves none.
LEMMA EndKeeps ==
  ASSUME PInv, End
  PROVE  Pages' /\ Typed'
<1>1. /\ u' = Idle
      /\ UNCHANGED <<server, order, page, fresh, wire, tab, calls, faults, drifts>>
      /\ u.step = "end"
  BY DEF End, server, bounds, At
<1>2. /\ lifecycle' \in [Keys -> {"none", "running", "blocked", "done"}]
      /\ structural' \in [Keys -> {"none", "PENDING", "FAILED", "SUCCEEDED"}]
  BY DEF End, Journal, PInv, Typed, MemoryTyped
<1>3. /\ \A id : Kept(id)' <=> Kept(id)
      /\ \A one, two : Parity(one, two)' <=> Parity(one, two)
  BY <1>1 DEF Kept, Given, Listed, Parity
<1>4. CASE u.op = "create" /\ ~u.failed
  <2>1. PICK receipt : receipt = [id |-> u.temp, order |-> u.cur, rest |-> u.seen.rest]
    OBVIOUS
  <2>2. receipts' = receipts \cup {receipt}
    BY <1>4, <2>1 DEF End
  <2>3. receipt.id = u.temp /\ receipt.rest = u.seen.rest
    BY <2>1
  <2>4. Kept(u.temp) /\ Parity(page[u.temp], u.seen)
    BY <1>1, <1>4 DEF PInv, Pages, CloneOK, Compared
  <2>5. u.temp # None /\ u.temp \in PageIds
    BY <2>4, Numbers DEF PInv, Kept, Given
  <2>6. receipt \in Receipt
    BY <2>1, <2>5, CallValues DEF Receipt, FieldsTyped, Page
  <2>7. ReceiptsOK'
    <3>1. Kept(receipt.id) /\ Parity(page[receipt.id], receipt)
      BY <2>3, <2>4 DEF Parity
    <3>2. \A other \in receipts : other.id # receipt.id
      BY <2>3, <2>5 DEF PInv, Pages, CallOK, Own
    <3> QED
      BY <1>1, <1>3, <2>2, <3>1, <3>2 DEF PInv, Pages, ReceiptsOK
  <2>8. \A r \in wire : r.command = "delete" =>
          \A other \in receipts' : other.id # r.body.temp
    BY <1>4, <2>2, <2>3, <2>5 DEF PInv, Pages, WireOK, RequestOK
  <2>9. MemoryTyped'
    BY <1>2, <2>2, <2>6 DEF PInv, Typed, MemoryTyped
  <2> QED
    BY <1>1, <2>7, <2>8, <2>9, IdleKeeps, IdleTyped
<1>5. CASE ~(u.op = "create" /\ ~u.failed)
  <2>1. receipts' = receipts
    BY <1>5 DEF End
  <2>2. ReceiptsOK'
    BY <1>1, <1>3, <2>1 DEF PInv, Pages, ReceiptsOK
  <2>3. \A r \in wire : r.command = "delete" =>
          \A other \in receipts' : other.id # r.body.temp
    BY <2>1 DEF PInv, Pages, WireOK, RequestOK
  <2>4. MemoryTyped'
    BY <1>2, <2>1 DEF PInv, Typed, MemoryTyped
  <2> QED
    BY <1>1, <2>2, <2>3, <2>4, IdleKeeps, IdleTyped
<1> QED
  BY <1>4, <1>5

LEMMA CrashKeeps ==
  ASSUME PInv, Crash
  PROVE  Pages' /\ Typed'
<1>1. /\ u' = Idle /\ receipts' = {} /\ Fault
      /\ UNCHANGED <<server, order, page, fresh, wire, tab, calls, drifts>>
  BY DEF Crash, server
<1>2. MemoryTyped'
  BY <1>1 DEF Crash, MemoryTyped
<1>3. ReceiptsOK'
  BY <1>1 DEF ReceiptsOK
<1> QED
  BY <1>1, <1>2, <1>3, IdleKeeps, IdleTyped

\* The calls that find the lease taken, the user at the tab, and idleness.
LEMMA AsideKeeps ==
  ASSUME PInv, (\E key \in Keys : Busy(key)) \/ UserRestores \/ UNCHANGED vars
  PROVE  Pages' /\ Typed'
<1>1. /\ UNCHANGED <<order, page, fresh, u, wire, calls, drifts>>
      /\ faults' = faults \/ Fault
      /\ receipts' \subseteq receipts /\ tab' \in {tab, Root}
      /\ lifecycle' \in [Keys -> {"none", "running", "blocked", "done"}]
      /\ structural' \in [Keys -> {"none", "PENDING", "FAILED", "SUCCEEDED"}]
  BY DEF Busy, UserRestores, vars, server, memory, bounds, PInv, Typed, MemoryTyped
<1>2. faults' \in 0 .. MaxFaults
  BY <1>1, BoundsAssumption DEF PInv, Typed, BoundsTyped, Fault
<1>3. Typed'
  BY <1>1, <1>2, LoadsTyped
     DEF PInv, Typed, ServerTyped, WireTyped, RequestTyped, FieldsTyped, MemoryTyped,
         BoundsTyped
<1> QED
  BY <1>1, <1>3, FewerReceipts

----------------------------------------------------------------------------
(* The server and the others                                               *)

\* Any field of a page may take another value of its type.
LEMMA PageEdited ==
  ASSUME Typed, NEW edited \in Page
  PROVE  [page EXCEPT ![Source] = edited] \in [PageIds -> Page]
BY DEF Typed, ServerTyped

LEMMA SourceTyped ==
  ASSUME Typed, NEW n \in Nat, NEW b \in BOOLEAN
  PROVE  /\ [page[Source] EXCEPT !.own = n] \in Page
         /\ [page[Source] EXCEPT !.rest = n] \in Page
         /\ [page[Source] EXCEPT !.live = b] \in Page
         /\ \A m \in Nat : [page[Source] EXCEPT !.own = m, !.rest = n] \in Page
BY Numbers DEF Typed, ServerTyped, Page

\* Ids that are handed out stay so.
LEMMA DriftKeeps ==
  ASSUME PInv, Drift
  PROVE  Pages' /\ Typed'
<1>1. ServerMoves
  BY DriftMoves
<1>2. /\ UNCHANGED <<wire, u, lifecycle, structural, receipts, calls, faults>>
      /\ drifts' = drifts + 1 /\ drifts < MaxDrifts
  BY DEF Drift, memory
<1>3. /\ fresh \in Nat /\ MaxPages \in Nat /\ drifts \in Nat /\ MaxDrifts \in Nat
      /\ MaxCalls \in Nat
  BY Numbers, BoundsAssumption DEF PInv, Typed, BoundsTyped
<1>4. ServerTyped'
  <2>1. page' \in [PageIds -> Page]
    <3>1. CASE page' = [page EXCEPT ![Source].own = drifts']
      <4>1. drifts + 1 \in Nat
        BY <1>3
      <4>2. [page[Source] EXCEPT !.own = drifts + 1] \in Page
        BY <4>1, SourceTyped DEF PInv
      <4> QED
        BY <1>2, <3>1, <4>2, PageEdited DEF PInv
    <3>2. CASE page' = [page EXCEPT ![Source].rest = @ + MaxCalls + 1]
      <4>1. page[Source].rest + MaxCalls + 1 \in Nat
        BY <1>3, CallValues DEF Page
      <4>2. [page[Source] EXCEPT !.rest = @ + MaxCalls + 1] \in Page
        BY <4>1, SourceTyped DEF PInv
      <4> QED
        BY <3>2, <4>2, PageEdited DEF PInv
    <3>3. CASE page' = [page EXCEPT ![Source].live = TRUE]
      <4>1. [page[Source] EXCEPT !.live = TRUE] \in Page
        BY SourceTyped DEF PInv
      <4> QED
        BY <3>3, <4>1, PageEdited DEF PInv
    <3>4. CASE UNCHANGED page
      BY <3>4 DEF PInv, Typed, ServerTyped
    <3> QED
      BY <3>1, <3>2, <3>3, <3>4 DEF Drift, server
  <2>2. order' \in Seq(PageIds)
    <3>1. order \in Seq(PageIds) /\ IsInjective(order)
      BY DEF PInv, Typed, ServerTyped, Pages, ListOK
    <3>2. CASE fresh \in PageIds /\ order' = Append(order, fresh)
      BY <3>1, <3>2
    <3>3. CASE \E id : order' = RemoveFirst(order, id)
      BY <3>1, <3>3, RemoveFirstSet
    <3> QED
      BY <3>1, <3>2, <3>3 DEF Drift, server
  <2>3. fresh' \in 2 .. MaxPages + 1
    <3>1. fresh' = fresh \/ (fresh \in PageIds /\ fresh' = fresh + 1)
      BY DEF Drift, server
    <3> QED
      BY <1>3, <3>1 DEF PageIds, PInv, Typed, ServerTyped
  <2> QED
    BY <2>1, <2>2, <2>3 DEF ServerTyped
<1>5. Typed'
  <2>1. tab'.at \in Places
    BY DEF Drift, server, Elsewhere, Tab, Places, PInv, Typed
  <2>2. WireTyped' /\ FieldsTyped' /\ MemoryTyped'
    BY <1>2 DEF PInv, Typed, WireTyped, RequestTyped, FieldsTyped, MemoryTyped
  <2>3. BoundsTyped'
    BY <1>2, <1>3 DEF PInv, Typed, BoundsTyped
  <2> QED
    BY <1>4, <2>1, <2>2, <2>3 DEF Typed
<1>6. ListOK' /\ GoneOK' /\ CloneOK' /\ ReceiptsOK'
  BY <1>1, <1>2, <1>5, ServerMovesKeep
<1>7. \A id \in PageIds : id < fresh => id < fresh'
  <2>1. fresh <= fresh' /\ fresh' \in Nat /\ PageIds \subseteq Nat
    BY <1>1, <1>3, <1>4, Numbers DEF ServerMoves, ServerTyped, PInv
  <2> QED
    BY <1>3, <2>1
<1>8. /\ \A id : Given(id) => Given(id)'
      /\ Listed(u.base)' = Listed(u.base) /\ Listed(u.base) \subseteq PageIds
      /\ Waiting' = Waiting /\ LastSent' = LastSent
  BY <1>2, <1>7, ListSet
     DEF Given, Listed, Waiting, At, LastSent, PInv, Typed, FieldsTyped
<1>9. \A id : Own(id) => Own(id)'
  BY <1>2, <1>8 DEF Own
<1>10. CallOK'
  BY <1>2, <1>7, <1>8, <1>9 DEF PInv, Pages, CallOK
<1>11. WireOK' /\ OneOnWire'
  BY <1>2, <1>8 DEF PInv, Pages, WireOK, RequestOK, OneOnWire
<1> QED
  BY <1>5, <1>6, <1>10, <1>11 DEF Pages

LEMMA AnsweredTyped ==
  ASSUME PInv, NEW r, NEW answer, NEW made, Answered(r, answer, made),
         wire' \subseteq wire, UNCHANGED calls
  PROVE  FieldsTyped' /\ WireTyped'
<1>1. /\ u'.op = u.op /\ u'.nr = u.nr /\ u'.seen = u.seen
      /\ u'.base = u.base /\ u'.cur = u.cur
  BY CallValues, CallFields DEF Answered
<1> QED
  BY <1>1, CallValues DEF FieldsTyped, WireTyped, RequestTyped

\* A request is carried out.
LEMMA LandKeeps ==
  ASSUME PInv, NEW r \in wire,
         LandSave(r) \/ LandList(r) \/ LandDuplicate(r) \/ LandAdd(r)
  PROVE  Pages' /\ Typed'
<1>1. PICK made :
        /\ Answered(r, "done", made)
        /\ \/ made = None
           \/ /\ r.command = "duplicate" /\ made = fresh
              /\ fresh \in PageIds /\ fresh' = fresh + 1
  BY DEF LandSave, LandList, LandDuplicate, LandAdd
<1>2. /\ wire' = wire \ {r}
      /\ UNCHANGED <<tab, lifecycle, structural, receipts, calls, faults, drifts>>
  BY DEF LandSave, LandList, LandDuplicate, LandAdd, memory, bounds
<1>3. ServerMoves /\ ServerTyped'
  <2>1. CASE LandSave(r)
    <3>1. page' = [page EXCEPT ![Source] = Saved(r)] /\ UNCHANGED <<order, fresh>>
      BY <2>1 DEF LandSave
    <3>2. Saved(r) \in Page
      <4>1. Edited \in Nat
        BY BoundsAssumption DEF Edited
      <4>2. r.body.rest \in Nat \cup {None} /\ page[Source].rest \in Nat
        BY <2>1, CallValues DEF LandSave, WireTyped, RequestTyped, Page
      <4>3. CASE r.op = "publish"
        BY <4>3, SourceTyped DEF Saved, PInv
      <4>4. CASE r.op # "publish"
        <5> DEFINE rest == IF r.body.rest = None THEN page[Source].rest ELSE r.body.rest
        <5>1. rest \in Nat
          BY <4>2
        <5>2. Saved(r) = [page[Source] EXCEPT !.own = Edited, !.rest = rest]
          BY <4>4 DEF Saved
        <5> HIDE DEF rest
        <5> QED
          BY <4>1, <5>1, <5>2, SourceTyped DEF PInv
      <4> QED
        BY <4>3, <4>4
    <3>3. page' \in [PageIds -> Page]
      BY <3>1, <3>2, PageEdited DEF PInv
    <3>4. \A id \in PageIds : id # Source => page'[id] = page[id]
      BY <3>1 DEF PInv, Typed, ServerTyped
    <3> QED
      BY <1>2, <3>1, <3>3, <3>4, SourceMoves DEF PInv, Typed, ServerTyped
  <2>2. CASE LandAdd(r)
    <3>1. page' = [page EXCEPT ![Source].rest = @ + 1] /\ UNCHANGED <<order, fresh>>
      BY <2>2 DEF LandAdd
    <3>2. [page[Source] EXCEPT !.rest = @ + 1] \in Page
      <4>1. page[Source].rest + 1 \in Nat
        BY CallValues DEF Page
      <4> QED
        BY <4>1, SourceTyped DEF PInv
    <3>3. page' \in [PageIds -> Page]
      BY <3>1, <3>2, PageEdited DEF PInv
    <3>4. \A id \in PageIds : id # Source => page'[id] = page[id]
      BY <3>1 DEF PInv, Typed, ServerTyped
    <3> QED
      BY <1>2, <3>1, <3>3, <3>4, SourceMoves DEF PInv, Typed, ServerTyped
  <2>3. CASE LandList(r)
    BY <2>3, LandListMoves DEF LandList, PInv, Typed, ServerTyped
  <2>4. CASE LandDuplicate(r)
    <3>1. /\ order' = Append(order, fresh) /\ fresh' = fresh + 1 /\ fresh \in PageIds
          /\ page' = [page EXCEPT ![fresh] = [page[Source] EXCEPT !.live = FALSE]]
      BY <2>4 DEF LandDuplicate
    <3>2. page' \in [PageIds -> Page]
      <4>1. [page[Source] EXCEPT !.live = FALSE] \in Page
        BY SourceTyped DEF PInv
      <4> QED
        BY <3>1, <4>1 DEF PInv, Typed, ServerTyped
    <3>3. \A id \in PageIds : id # fresh => page'[id] = page[id]
      BY <3>1 DEF PInv, Typed, ServerTyped
    <3>4. ServerMoves /\ order' \in Seq(PageIds)
      BY <1>2, <3>1, <3>3, AppendMoves
    <3>5. fresh' \in 2 .. MaxPages + 1
      BY <3>1, Numbers DEF PageIds, PInv, Typed, ServerTyped
    <3> QED
      BY <3>2, <3>4, <3>5 DEF ServerTyped
  <2> QED
    BY <2>1, <2>2, <2>3, <2>4
<1>4. Typed'
  <2>1. FieldsTyped' /\ WireTyped'
    BY <1>1, <1>2, AnsweredTyped
  <2> QED
    BY <1>2, <1>3, <2>1 DEF PInv, Typed, MemoryTyped, BoundsTyped
<1>5. /\ CallOK' /\ WireOK' /\ OneOnWire'
      /\ u'.op = u.op /\ u'.step = u.step /\ u'.failed = u.failed
      /\ u'.temp = u.temp /\ u'.seen = u.seen
  BY <1>1, <1>2, <1>3, <1>4, AnswerKeeps DEF ServerMoves
<1>6. ListOK' /\ GoneOK' /\ CloneOK' /\ ReceiptsOK'
  BY <1>2, <1>3, <1>4, <1>5, ServerMovesKeep
<1> QED
  BY <1>4, <1>5, <1>6 DEF Pages

\* A request is refused.
LEMMA RefuseKeeps ==
  ASSUME PInv, NEW r \in wire, Refuse(r)
  PROVE  Pages' /\ Typed'
<1>1. PICK answer : Answered(r, answer, None)
  BY DEF Refuse
<1>2. /\ wire' = wire \ {r} /\ Fault
      /\ UNCHANGED <<server, order, page, fresh, tab, memory, receipts, calls, drifts>>
  BY DEF Refuse, server, memory
<1>3. FieldsTyped' /\ WireTyped'
  BY <1>1, <1>2, AnsweredTyped
<1>4. Typed'
  BY <1>2, <1>3, TypedStill DEF PInv, Typed
<1>5. fresh <= fresh'
  BY <1>2, Numbers DEF PInv
<1>6. /\ CallOK' /\ WireOK' /\ OneOnWire'
      /\ u'.op = u.op /\ u'.step = u.step /\ u'.failed = u.failed
      /\ u'.temp = u.temp /\ u'.seen = u.seen
  BY <1>1, <1>2, <1>4, <1>5, AnswerKeeps
<1>7. UNCHANGED <<order, fresh>>
      /\ (drifts' = 0 => drifts = 0)
      /\ \A id \in PageIds : id # Source => page'[id] = page[id]
  BY <1>2
<1>8. ServerMoves
  BY <1>7, SourceMoves
<1>9. ListOK' /\ GoneOK' /\ CloneOK' /\ ReceiptsOK'
  BY <1>2, <1>4, <1>6, <1>8, ServerMovesKeep
<1> QED
  BY <1>4, <1>6, <1>9 DEF Pages

----------------------------------------------------------------------------
(* All steps together                                                      *)

LEMMA InitPInv ==
  ASSUME Init
  PROVE  PInv
<1>1. Posted
  BY InitPosted
<1>2. /\ order = <<Source>> /\ fresh = 2 /\ wire = {} /\ u = Idle /\ receipts = {}
      /\ tab = Root /\ calls = 0 /\ faults = 0 /\ drifts = 0
  BY DEF Init
<1>3. /\ u.op = "none" /\ u.step = "idle" /\ u.seen = Blank /\ u.base = <<>>
      /\ u.cur = <<>> /\ u.temp = None /\ u.made = None /\ u.answer = None
      /\ u.sent = <<>> /\ ~Waiting
  BY <1>2 DEF Idle, Waiting, At
<1>4. /\ Source \in PageIds /\ 2 \in 2 .. MaxPages + 1 /\ Blank \in Page
      /\ MaxCalls \in Nat /\ MaxFaults \in Nat /\ MaxDrifts \in Nat
  BY BoundsAssumption DEF Source, PageIds, Blank, Page
<1>5. Typed
  <2>1. order \in Seq(PageIds) /\ page \in [PageIds -> Page]
    BY <1>2, <1>4 DEF Init
  <2>2. lifecycle \in [Keys -> {"none", "running", "blocked", "done"}]
        /\ structural \in [Keys -> {"none", "PENDING", "FAILED", "SUCCEEDED"}]
    BY DEF Init
  <2>3. FieldsTyped
    BY <1>3, <1>4 DEF FieldsTyped
  <2> QED
    BY <1>2, <1>4, <2>1, <2>2, <2>3, LoadsTyped
       DEF Typed, ServerTyped, WireTyped, MemoryTyped, BoundsTyped
<1>6. ListOK
  <2>1. Len(order) = 1 /\ order[1] = Source /\ DOMAIN order = 1 .. 1
    BY <1>2
  <2>2. IsInjective(order)
    BY <2>1 DEF IsInjective
  <2>3. \A id \in Listed(order) : id = 1
    BY <2>1 DEF Listed, ToSet, Source
  <2> QED
    BY <1>2, <2>2, <2>3 DEF ListOK
<1>7. CallOK
  <2>1. Listed(u.base) = {}
    BY <1>3 DEF Listed, ToSet
  <2> QED
    BY <1>3, <2>1 DEF CallOK, Own, Recovery
<1>8. WireOK /\ OneOnWire /\ GoneOK /\ CloneOK /\ ReceiptsOK
  BY <1>2, <1>3 DEF WireOK, OneOnWire, GoneOK, CloneOK, ReceiptsOK
<1> QED
  BY <1>1, <1>5, <1>6, <1>7, <1>8 DEF PInv, Pages

LEMMA BeginAllKeeps ==
  ASSUME PInv, Begin
  PROVE  Pages' /\ Typed'
<1>1. MemoryTyped
  BY DEF PInv, Typed
<1>2. ASSUME NEW op \in Saves, BeginSave(op)
      PROVE  Pages' /\ Typed'
  BY <1>1, <1>2, BeginKeeps DEF BeginSave, memory, Operations, MemoryTyped
<1>3. ASSUME NEW key \in Keys, BeginFixed(key)
      PROVE  Pages' /\ Typed'
  BY <1>1, <1>3, BeginKeeps DEF BeginFixed, Operations, MemoryTyped
<1>4. ASSUME NEW key \in Keys, NEW op \in {"create", "template"},
             BeginStructural(op, key, None)
      PROVE  Pages' /\ Typed'
  BY <1>1, <1>4, BeginKeeps DEF BeginStructural, Operations, Structural, MemoryTyped
<1>5. ASSUME NEW key \in Keys, NEW receipt \in receipts,
             BeginStructural("cleanup", key, receipt)
      PROVE  Pages' /\ Typed'
  BY <1>1, <1>5, BeginKeeps DEF BeginStructural, Operations, Structural, MemoryTyped
<1> QED
  BY <1>2, <1>3, <1>4, <1>5 DEF Begin

LEMMA PInvStep ==
  ASSUME PInv, [Next]_vars
  PROVE  PInv'
<1>1. Posted'
  BY PostedStep DEF PInv
<1> SUFFICES Pages' /\ Typed'
  BY <1>1 DEF PInv
<1>2. CASE Begin
  BY <1>2, BeginAllKeeps
<1>3. CASE (\E key \in Keys : Busy(key)) \/ UserRestores \/ UNCHANGED vars
  BY <1>3, AsideKeeps
<1>4. CASE CallStep
  BY <1>4, VisitKeeps, CommandKeeps, OutcomeKeeps, ReturnKeeps, RemedyKeeps, EndKeeps
     DEF CallStep
<1>5. CASE Server
  BY <1>5, LandKeeps DEF Server
<1>6. CASE Failure
  BY <1>6, RefuseKeeps, StepFailsKeeps, RemedyKeeps, ReturnKeeps, CrashKeeps DEF Failure
<1>7. CASE Drift
  BY <1>7, DriftKeeps
<1> QED
  BY <1>2, <1>3, <1>4, <1>5, <1>6, <1>7 DEF Next

\* Every page stands in the project's list once, under an id that was handed
\* out: the list a call reads back is the set of the pages and their order.
THEOREM PagesListedOnce == Spec => []ListOK
<1>1. PInv => ListOK
  BY DEF PInv, Pages
<1> QED
  BY <1>1, InitPInv, PInvStep, PTL DEF Spec

\* All state keeps its types, whatever the order of calls, answers and faults.
THEOREM PagesTypeCorrect == Spec => []TypeOK
<1>1. ASSUME PInv PROVE TypeOK
  <2>1. \A r \in wire : r.command \in Commands /\ r.nr \in 1 .. MaxCalls
    <3>1. calls \in Nat /\ MaxCalls \in Nat /\ calls <= MaxCalls
      BY <1>1, BoundsAssumption DEF PInv, Typed, BoundsTyped
    <3> QED
      BY <1>1, <3>1 DEF PInv, Typed, WireTyped, RequestTyped
  <2>2. u.op \in Operations \cup {"none"}
    BY <1>1 DEF PInv, Posted, CallTyped
  <2>3. u.step \in Steps \cup Recovery \cup {"sent", "idle"}
    <3>1. CASE u.op = "none"
      BY <1>1, <3>1 DEF PInv, Posted, CallTyped
    <3>2. CASE u.op \in Operations /\ ~u.failed
      <4>1. PICK p \in 1 .. Len(Script(u.op)) : Script(u.op)[p] = Place
        BY <1>1, <3>2 DEF PInv, Posted, Going
      <4>2. Place \in Steps
        BY <3>2, <4>1, ScriptOrderly DEF Steps, ToSet, Orderly
      <4> QED
        BY <4>2 DEF Place, Waiting, At
    <3>3. CASE u.failed
      <4>1. {"shut", "root", "close", "end"} \subseteq Steps
        <5> DEFINE script == Script("settings")
        <5>1. script = <<"snap", "reread", "open", "save", "shut", "root", "proof",
                         "close", "end">>
          BY DEF Script
        <5>2. /\ DOMAIN script = 1 .. 9 /\ script[5] = "shut" /\ script[6] = "root"
              /\ script[8] = "close" /\ script[9] = "end"
          BY <5>1
        <5>3. "settings" \in Operations
          BY DEF Operations, Saves, Forms
        <5> HIDE DEF script
        <5>4. {"shut", "root", "close", "end"} \subseteq ToSet(script)
          BY <5>2 DEF ToSet
        <5> QED
          BY <5>3, <5>4 DEF Steps, script
      <4> QED
        BY <1>1, <3>3, <4>1 DEF PInv, Posted, Failing
    <3> QED
      BY <2>2, <3>1, <3>2, <3>3
  <2>4. fresh \in 1 .. MaxPages + 1
    BY <1>1, BoundsAssumption DEF PInv, Typed, ServerTyped
  <2>5. calls <= MaxCalls /\ faults <= MaxFaults /\ drifts <= MaxDrifts
    BY <1>1, BoundsAssumption DEF PInv, Typed, BoundsTyped
  <2> QED
    BY <1>1, <2>1, <2>2, <2>3, <2>4, <2>5
       DEF TypeOK, PInv, Typed, ServerTyped, MemoryTyped
<1> QED
  BY <1>1, InitPInv, PInvStep, PTL DEF Spec

\* A round trip on its way to success has seen its clone gone: ids are never
\* handed out twice and nothing it posted is still under way, so no clone of
\* it comes back, however late the server carries out what others posted.
THEOREM RoundTripsRestore == Spec => []RoundTripRestored
<1>1. ASSUME PInv PROVE RoundTripRestored
  <2> SUFFICES ASSUME u.op = "fixed", ~u.failed,
                      u.step \in {"after", "root", "close", "end"}
               PROVE  u.temp \notin Listed(order) /\ \A r \in wire : r.nr # u.nr
    BY DEF RoundTripRestored
  <2>1. u.temp \notin Listed(order)
    BY <1>1 DEF PInv, Pages, GoneOK, SeenGone
  <2>2. ~Waiting
    BY DEF Waiting, At
  <2> QED
    BY <1>1, <2>1, <2>2 DEF PInv, Pages, OneOnWire
<1> QED
  BY <1>1, InitPInv, PInvStep, PTL DEF Spec

\* A receipt stands for a clone that is there as it was made: whatever requests
\* of other calls are carried out late, none deletes or changes it.
THEOREM ReceiptsStayTrue == Spec => []ReceiptTrue
<1>1. PInv => ReceiptTrue
  BY DEF PInv, Pages, ReceiptsOK, Kept, ReceiptTrue
<1> QED
  BY <1>1, InitPInv, PInvStep, PTL DEF Spec
=============================================================================
