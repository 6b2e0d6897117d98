------------------------ MODULE TaskAuthorityProofs ------------------------
(***************************************************************************)
(* Proofs about TaskAuthority.  A grant in force is pinned by the leases   *)
(* of those who rely on it, tokens tell grants apart, and one browser      *)
(* session at a time makes reference transitions exclusive.                *)
(***************************************************************************)
EXTENDS TaskAuthority, TLAPS

Flying == {"flight", "sent"}

\* The authority's fields belong together; its tokens and tasks are old ones.
GrantOK ==
  /\ active = None => pending = None /\ revocation = 0
  /\ active # None => /\ revocation = active.token
                      /\ active.token <= minted /\ active.task <= minted
  /\ pending # None => pending \in active.pages

\* Only clones that were asked for are ever among the pages.
EditorOK ==
  /\ live \cap Clones \subseteq made
  /\ \A request \in wire : request.page \in made

\* The guard is the grant in force, unless it has been revoked for good.
Known(g) ==
  g.token <= minted /\ (active # None /\ g.token = active.token => g = active)

\* The leases a call holds fit its record.
Holds(c, r) ==
  /\ browser = c <=> r.pc \in Browsing
  /\ dispatchLease = c <=> r.pc \in Flying
  /\ execLease = c <=> r.kind \in Executing
  /\ refLease = c => r.kind \in Reference

\* What a call has established by its step.
Shape(r) ==
  /\ r.pc \in {"capture", "resume"} => r.kind \in {"authorize", "verify"}
  /\ r.pc = "work" => r.kind \in {"plan"} \cup Executing
  /\ r.pc \in Browsing => r.kind \in {"plan"} \cup Executing \cup Reference
  /\ r.pc \in Flying => r.kind # "plan"
  /\ r.pc = "sent" =>
       r.kind \in Reference /\ r.page # None /\ r.seen \in SUBSET Pages
  /\ r.kind \in Reference => r.pc \in Browsing /\ r.session = r.guard
  /\ r.pc \in Browsing => r.session # None
  /\ r.kind \in Reference /\ r.ok => r.page # None /\ r.seen \in SUBSET Pages
  /\ r.kind \in {"plan", "change"} => r.guard # None /\ r.set # None
  /\ r.kind = "verify" => r.guard # None

\* What it relies on.
Relies(r) ==
  /\ r.session # None => Known(r.session)
  /\ r.guard # None => r.guard.task <= minted
  /\ r.kind \in Executing => active # None /\ r.guard = active
  /\ r.kind = "change" => planned[r.set] = r.guard.task
  /\ r.pc \in Flying =>
       active # None /\ r.session = active /\ Needs(r.kind) \in active.allows
  /\ r.kind = "cleanup" => r.page \in made /\ receipts[r.page] = None
  /\ r.kind = "create" /\ r.page # None =>
       r.page \in made /\ r.page \notin r.seen

CallOK(r) == r # Idle => Shape(r) /\ Relies(r)

\* A receipt is for a clone that was asked for, by a task that was granted.
ReceiptOK ==
  /\ ReceiptPending
  /\ \A k \in Clones :
       receipts[k] # None => receipts[k].task <= minted /\ k \in made

IInv ==
  /\ TypeOK /\ LeasesHeld /\ GrantOK /\ EditorOK /\ ReceiptOK
  /\ \A c \in Calls : CallOK(op[c])

----------------------------------------------------------------------------
(* Frames: what a step need not be asked about                             *)

LEMMA IdleFields ==
  /\ Idle.pc = "idle" /\ Idle.kind = "none" /\ Idle.guard = None
  /\ Idle.session = None /\ Idle.page = None
  /\ Idle.pc \notin Browsing \cup Flying
  /\ Idle.kind \notin Executing \cup Reference
BY DEF Idle, Browsing, Flying, Executing, Reference

\* Records of calls, whatever their step and kind.
Steps ==
  {"capture", "resume", "work", "opening", "session", "flight", "sent",
   "closing"}
Record ==
  [pc : Steps \cup {"idle"}, kind : Kinds \cup {"none"},
   guard : Guard \cup {None}, session : Guard \cup {None},
   seen : (SUBSET Pages) \cup {None},
   page : Clones \cup {None}, set : ChangeSets \cup {None}, ok : BOOLEAN,
   left : 0 .. Sessions]

LEMMA IdleTyped == Idle \in Record
<1>1. 0 \in 0 .. Sessions
  BY ConstantsAssumption
<1> QED BY <1>1 DEF Idle, Record, Steps

LEMMA CallTyped == Call \subseteq Record
BY DEF Call, Record, Steps

LEMMA RecordTyped ==
  ASSUME NEW r \in Record, r.kind \in Kinds, r.pc \in Steps
  PROVE  r \in Call
BY DEF Call, Record, Steps

\* One call's record changes, the others' do not.
LEMMA StepOne ==
  ASSUME op \in [Calls -> Call \cup {Idle}],
         NEW c \in Calls, NEW r \in Call \cup {Idle}, Step(c, r)
  PROVE  /\ op' \in [Calls -> Call \cup {Idle}]
         /\ op'[c] = r
         /\ \A d \in Calls \ {c} : op'[d] = op[d]
BY DEF Step

LEMMA HeldIsHolds == LeasesHeld <=> \A c \in Calls : Holds(c, op[c])
BY DEF LeasesHeld, Holds, Flying

\* The leases of the other calls are left alone.
Others(c) ==
  \A d \in Calls \ {c} :
    /\ (browser = d <=> browser' = d)
    /\ (dispatchLease = d <=> dispatchLease' = d)
    /\ (execLease = d <=> execLease' = d)
    /\ (refLease' = d => refLease = d)

LEMMA HeldStep ==
  ASSUME LeasesHeld, op \in [Calls -> Call \cup {Idle}],
         NEW c \in Calls, NEW r \in Call \cup {Idle}, Step(c, r),
         Others(c), Holds(c, r)'
  PROVE  LeasesHeld'
<1>1. op'[c] = r /\ \A d \in Calls \ {c} : op'[d] = op[d]
  BY StepOne
<1>2. \A d \in Calls : Holds(d, op[d])
  BY HeldIsHolds
<1>3. \A d \in Calls : Holds(d, op[d])'
  <2> SUFFICES ASSUME NEW d \in Calls PROVE Holds(d, op[d])'
    OBVIOUS
  <2>1. CASE d = c
    BY <1>1, <2>1 DEF Holds
  <2>2. CASE d # c
    BY <1>1, <1>2, <2>2 DEF Others, Holds
  <2> QED BY <2>1, <2>2
<1> QED BY <1>3 DEF Holds, LeasesHeld, Flying

\* What a call relies on stays true of the others when the grant does.
LEMMA ReliesFrame ==
  ASSUME NEW r, Relies(r), TypeOK,
         UNCHANGED <<active, minted>>,
         \A k \in Clones : receipts[k] = None => receipts'[k] = None,
         r.kind = "change" =>
           r.set \in ChangeSets /\ planned'[r.set] = planned[r.set],
         made \subseteq made'
  PROVE  Relies(r)'
BY DEF Relies, Known, TypeOK

LEMMA StepFrame ==
  ASSUME IInv, NEW c \in Calls, NEW r \in Call \cup {Idle}, Step(c, r),
         UNCHANGED <<authority, bounds>>,
         {refLease', dispatchLease', execLease', browser'}
           \subseteq Calls \cup {None},
         Others(c), Holds(c, r)',
         receipts' \in [Clones -> Receipt \cup {None}],
         \A k \in Clones : receipts'[k] \in {receipts[k], None},
         planned' \in [ChangeSets -> (Nat \ {0}) \cup {None}],
         \A s \in ChangeSets : planned[s] \in {None, planned'[s]},
         made \subseteq made', made' \subseteq Clones, UNCHANGED live,
         wire' \subseteq [kind : {"add", "remove"}, page : made'],
         r # Idle => Shape(r) /\ Relies(r)'
  PROVE  IInv'
<1> USE DEF IInv
<1>1. op' \in [Calls -> Call \cup {Idle}] /\ op'[c] = r
      /\ \A d \in Calls \ {c} : op'[d] = op[d]
  BY StepOne DEF TypeOK
<1>2. TypeOK'
  BY <1>1 DEF TypeOK, authority, bounds
<1>3. LeasesHeld'
  BY HeldStep DEF TypeOK
<1>4. GrantOK'
  BY DEF GrantOK, authority, bounds
<1>5. EditorOK'
  BY DEF EditorOK
<1>6. ReceiptOK'
  BY DEF ReceiptOK, ReceiptPending, authority, bounds
<1>7. \A d \in Calls : CallOK(op[d])'
  <2> SUFFICES ASSUME NEW d \in Calls PROVE CallOK(op[d])'
    OBVIOUS
  <2>1. CASE d = c
    BY <1>1, <2>1 DEF CallOK, Shape, Relies, Known
  <2>2. CASE d # c
    <3> PICK q : q = op[d]
      OBVIOUS
    <3>1. CallOK(q)
      OBVIOUS
    <3>2. op'[d] = q
      BY <1>1, <2>2
    <3>3. q \in Call \cup {Idle}
      BY DEF TypeOK
    <3>4. ASSUME q # Idle PROVE Relies(q)'
      <4>1. Shape(q) /\ Relies(q)
        BY <3>1, <3>4 DEF CallOK
      <4>2. q.kind = "change" =>
              q.set \in ChangeSets /\ planned'[q.set] = planned[q.set]
        BY <3>3, <3>4, <4>1, NoneAssumption
        DEF Shape, Relies, Call, TypeOK, Guard, Executing
      <4> QED BY <4>1, <4>2, ReliesFrame DEF authority, bounds
    <3>5. CallOK(q)'
      BY <3>1, <3>4 DEF CallOK, Shape
    <3> QED BY <3>2, <3>5 DEF CallOK, Shape, Relies, Known
  <2> QED BY <2>1, <2>2
<1> QED BY <1>2, <1>3, <1>4, <1>5, <1>6, <1>7

\* A step that takes or gives back leases of its own call.
LEMMA LeaseStep ==
  ASSUME IInv, NEW c \in Calls, NEW r \in Call \cup {Idle}, Step(c, r),
         UNCHANGED <<authority, memory, editor, bounds>>,
         {refLease', dispatchLease', execLease', browser'}
           \subseteq Calls \cup {None},
         Others(c), Holds(c, r)',
         r # Idle => Shape(r) /\ Relies(r)
  PROVE  IInv'
<1>1. r # Idle => Relies(r)'
  BY ReliesFrame DEF IInv, TypeOK, authority, memory, editor, bounds, Shape,
                     Call
<1>2. wire' \subseteq [kind : {"add", "remove"}, page : made']
  BY DEF IInv, TypeOK, EditorOK, editor
<1> QED BY <1>1, <1>2, StepFrame DEF IInv, TypeOK, memory, editor

\* A step that changes its call's record only.
LEMMA QuietStep ==
  ASSUME IInv, NEW c \in Calls, NEW r \in Call, Step(c, r),
         UNCHANGED <<authority, leases, memory, editor, bounds>>,
         r.pc \in Browsing <=> op[c].pc \in Browsing,
         r.pc \in Flying <=> op[c].pc \in Flying,
         r.kind \in Executing <=> op[c].kind \in Executing,
         op[c].kind \in Reference => r.kind \in Reference,
         Shape(r) /\ Relies(r)
  PROVE  IInv'
<1>1. Holds(c, op[c])
  BY HeldIsHolds DEF IInv
<1>2. Holds(c, r)' /\ Others(c)
  BY <1>1 DEF Holds, Others, leases
<1> QED BY <1>2, LeaseStep DEF IInv, TypeOK, leases

\* What an idle call holds, and what one under way has established.
LEMMA IdleHolds ==
  ASSUME IInv, NEW c \in Calls, op[c].pc = "idle"
  PROVE  /\ op[c] = Idle
         /\ browser # c /\ dispatchLease # c /\ execLease # c /\ refLease # c
BY HeldIsHolds, IdleFields DEF IInv, TypeOK, Call, Holds

LEMMA Busy ==
  ASSUME IInv, NEW c \in Calls, op[c].pc # "idle"
  PROVE  op[c] \in Call /\ Shape(op[c]) /\ Relies(op[c]) /\ Holds(c, op[c])
BY HeldIsHolds, IdleFields DEF IInv, TypeOK, CallOK

----------------------------------------------------------------------------
(* Steps that change a call's record only                                  *)

LEMMA BeginCaptureStep ==
  ASSUME IInv, NEW c \in Calls, BeginCapture(c) PROVE IInv'
<1>1. op[c].pc = "idle" /\ op[c] = Idle
  BY IdleHolds DEF BeginCapture, Start, At
<1>2. ASSUME NEW r \in Call, Step(c, r), r.pc = "capture", r.session = None,
             r.kind \in {"authorize", "verify"},
             r.guard \in {None, active}, r.kind = "verify" => r.guard # None
      PROVE  IInv'
  <2>1. Shape(r) /\ Relies(r)
    BY <1>2 DEF Shape, Relies, IInv, GrantOK, Browsing, Flying, Executing,
                Reference
  <2> QED
    BY <1>1, <1>2, <2>1, IdleFields, QuietStep
    DEF BeginCapture, Browsing, Flying, Executing, Reference
<1>3. CASE Start(c, [Idle EXCEPT !.pc = "capture", !.kind = "authorize"])
  <2>1. PICK r : r = [Idle EXCEPT !.pc = "capture", !.kind = "authorize"]
    OBVIOUS
  <2>2. /\ r \in Record /\ r.pc = "capture" /\ r.kind = "authorize"
        /\ r.session = Idle.session /\ r.guard = Idle.guard
    BY <2>1, IdleTyped DEF Record, Steps, Kinds
  <2> QED
    BY <1>2, <1>3, <2>1, <2>2, IdleFields, RecordTyped DEF Start, Kinds, Steps
<1>4. CASE ~Start(c, [Idle EXCEPT !.pc = "capture", !.kind = "authorize"])
  <2>1. PICK r : r = [Idle EXCEPT !.pc = "capture", !.kind = "verify",
                                  !.guard = active]
    OBVIOUS
  <2>2. active \in Guard /\ active # None
    BY <1>4 DEF BeginCapture, IInv, TypeOK
  <2>3. /\ r \in Record /\ r.pc = "capture" /\ r.kind = "verify"
        /\ r.session = Idle.session /\ r.guard = active
    BY <2>1, <2>2, IdleTyped DEF Record, Steps, Kinds
  <2> QED
    BY <1>2, <1>4, <2>1, <2>2, <2>3, IdleFields, RecordTyped
    DEF BeginCapture, Start, Kinds, Steps
<1> QED BY <1>3, <1>4

LEMMA CaptureStep ==
  ASSUME IInv, NEW c \in Calls, Capture(c) PROVE IInv'
<1>1. PICK seen \in {live, None} :
        Step(c, [op[c] EXCEPT !.seen = seen, !.pc = "resume"])
  BY DEF Capture
<1>2. PICK r : r = [op[c] EXCEPT !.seen = seen, !.pc = "resume"]
  OBVIOUS
<1>3. op[c] \in Call /\ op[c].pc = "capture" /\ Shape(op[c]) /\ Relies(op[c])
  BY Busy DEF Capture, At
<1>4. /\ r \in Call /\ r.pc = "resume" /\ r.kind = op[c].kind
      /\ r.guard = op[c].guard /\ r.session = op[c].session
      /\ r.kind \in {"authorize", "verify"}
  <2>1. seen \in (SUBSET Pages) \cup {None}
    BY <1>1 DEF IInv, TypeOK
  <2>2. op[c].kind \in {"authorize", "verify"}
    BY <1>3 DEF Shape
  <2> QED BY <1>2, <1>3, <2>1, <2>2 DEF Call
<1>5. Shape(r) /\ Relies(r)
  BY <1>3, <1>4 DEF Shape, Relies, Browsing, Flying, Executing, Reference
<1> QED
  BY <1>1, <1>2, <1>3, <1>4, <1>5, QuietStep
  DEF Capture, Browsing, Flying, Executing, Reference

LEMMA BeginPlanStep ==
  ASSUME IInv, NEW c \in Calls, BeginPlan(c) PROVE IInv'
<1>1. PICK s \in ChangeSets :
        /\ op[c].pc = "idle"
        /\ Step(c, [Idle EXCEPT !.pc = "work", !.kind = "plan", !.set = s,
                                !.guard = active, !.left = Sessions])
  BY DEF BeginPlan, Start, At
<1>2. PICK r : r = [Idle EXCEPT !.pc = "work", !.kind = "plan", !.set = s,
                                !.guard = active, !.left = Sessions]
  OBVIOUS
<1>3. /\ r \in Call /\ r.pc = "work" /\ r.kind = "plan" /\ r.guard = active
      /\ r.session = None /\ r.set = s /\ s # None /\ active # None
  <2>1. active # None /\ active \in Guard \cup {None}
    BY DEF IInv, TypeOK, BeginPlan, Authorised
  <2>2. Sessions \in 0 .. Sessions /\ s # None
    BY ConstantsAssumption
  <2>3. /\ r \in Record /\ r.pc = "work" /\ r.kind = "plan"
        /\ r.guard = active /\ r.session = Idle.session /\ r.set = s
    BY <1>2, <2>1, <2>2, IdleTyped DEF Record, Steps, Kinds
  <2> QED BY <2>1, <2>2, <2>3, IdleFields, RecordTyped DEF Kinds, Steps
<1>4. op[c] = Idle
  BY <1>1, IdleHolds
<1>5. Shape(r) /\ Relies(r)
  BY <1>3 DEF Shape, Relies, IInv, GrantOK, Browsing, Flying, Executing,
              Reference
<1> QED
  BY <1>1, <1>2, <1>3, <1>4, <1>5, IdleFields, QuietStep
  DEF BeginPlan, Browsing, Flying, Executing, Reference

LEMMA BindStep ==
  ASSUME IInv, NEW c \in Calls, Bind(c) PROVE IInv'
<1>1. PICK r : r = [op[c] EXCEPT !.pc = "session"]
  OBVIOUS
<1>2. op[c] \in Call /\ op[c].pc = "opening" /\ Shape(op[c]) /\ Relies(op[c])
  BY Busy DEF Bind, At
<1>3. /\ r \in Call /\ r.pc = "session"
      /\ r.kind = op[c].kind /\ r.guard = op[c].guard
      /\ r.session = op[c].session /\ r.seen = op[c].seen
      /\ r.page = op[c].page /\ r.set = op[c].set /\ r.ok = op[c].ok
  BY <1>1, <1>2 DEF Call
<1>4. Shape(r) /\ Relies(r)
  BY <1>2, <1>3 DEF Shape, Relies, Browsing, Flying
<1> QED
  BY <1>1, <1>2, <1>3, <1>4, QuietStep DEF Bind, Browsing, Flying

LEMMA LeaveSessionStep ==
  ASSUME IInv, NEW c \in Calls, LeaveSession(c) PROVE IInv'
<1>1. PICK r : r = [op[c] EXCEPT !.pc = "closing",
                      !.ok = At(c, "session") /\ Is(c, {"plan"})]
  OBVIOUS
<1>2. /\ op[c] \in Call /\ op[c].pc \in {"opening", "session"}
      /\ Shape(op[c]) /\ Relies(op[c])
  BY Busy DEF LeaveSession
<1>3. /\ r \in Call /\ r.pc = "closing"
      /\ r.kind = op[c].kind /\ r.guard = op[c].guard
      /\ r.session = op[c].session /\ r.seen = op[c].seen
      /\ r.page = op[c].page /\ r.set = op[c].set
      /\ r.ok => r.kind = "plan"
  BY <1>1, <1>2 DEF Call, At, Is
<1>4. Shape(r) /\ Relies(r)
  BY <1>2, <1>3 DEF Shape, Relies, Browsing, Flying, Reference
<1> QED
  BY <1>1, <1>2, <1>3, <1>4, QuietStep DEF LeaveSession, Browsing, Flying

----------------------------------------------------------------------------
(* Steps that take leases or give them back                                *)

LEMMA BeginChangeStep ==
  ASSUME IInv, NEW c \in Calls, BeginChange(c) PROVE IInv'
<1>1. PICK s \in ChangeSets :
        /\ planned[s] = active.task /\ op[c].pc = "idle"
        /\ Step(c, [Idle EXCEPT !.pc = "work", !.kind = "change", !.set = s,
                                !.guard = active, !.left = Sessions])
  BY DEF BeginChange, Start, At
<1>2. PICK r : r = [Idle EXCEPT !.pc = "work", !.kind = "change", !.set = s,
                                !.guard = active, !.left = Sessions]
  OBVIOUS
<1>3. active # None /\ active \in Guard /\ s # None
  BY ConstantsAssumption DEF IInv, TypeOK, BeginChange, Authorised
<1>4. /\ r \in Call /\ r.pc = "work" /\ r.kind = "change"
      /\ r.guard = active /\ r.session = None /\ r.set = s
  <2>1. Sessions \in 0 .. Sessions
    BY ConstantsAssumption
  <2>2. /\ r \in Record /\ r.pc = "work" /\ r.kind = "change"
        /\ r.guard = active /\ r.session = Idle.session /\ r.set = s
    BY <1>2, <1>3, <2>1, IdleTyped DEF Record, Steps, Kinds
  <2> QED BY <2>2, IdleFields, RecordTyped DEF Kinds, Steps
<1>5. Shape(r) /\ Relies(r)
  BY <1>1, <1>3, <1>4
  DEF Shape, Relies, IInv, GrantOK, Browsing, Flying, Executing, Reference
<1>6. Others(c) /\ Holds(c, r)'
  BY <1>1, <1>4, IdleHolds, ConstantsAssumption
  DEF BeginChange, Others, Holds, Browsing, Flying, Executing, Reference
<1> QED
  BY <1>1, <1>2, <1>4, <1>5, <1>6, LeaseStep
  DEF BeginChange, IInv, TypeOK, memory

LEMMA BeginPublishStep ==
  ASSUME IInv, NEW c \in Calls, BeginPublish(c) PROVE IInv'
<1>1. op[c].pc = "idle"
  BY DEF BeginPublish, Start, At
<1>2. PICK r : r = [Idle EXCEPT !.pc = "work", !.kind = "publish",
                                !.guard = active, !.left = Sessions]
  OBVIOUS
<1>3. active # None /\ active \in Guard
  BY DEF IInv, TypeOK, BeginPublish, Authorised
<1>4. /\ r \in Call /\ r.pc = "work" /\ r.kind = "publish"
      /\ r.guard = active /\ r.session = None
  <2>1. Sessions \in 0 .. Sessions
    BY ConstantsAssumption
  <2>2. /\ r \in Record /\ r.pc = "work" /\ r.kind = "publish"
        /\ r.guard = active /\ r.session = Idle.session
    BY <1>2, <1>3, <2>1, IdleTyped DEF Record, Steps, Kinds
  <2> QED BY <2>2, IdleFields, RecordTyped DEF Kinds, Steps
<1>5. Shape(r) /\ Relies(r)
  BY <1>3, <1>4
  DEF Shape, Relies, IInv, GrantOK, Browsing, Flying, Executing, Reference
<1>6. Others(c) /\ Holds(c, r)'
  BY <1>1, <1>4, IdleHolds, ConstantsAssumption
  DEF BeginPublish, Others, Holds, Browsing, Flying, Executing, Reference
<1> QED
  BY <1>2, <1>4, <1>5, <1>6, LeaseStep
  DEF BeginPublish, Start, IInv, TypeOK, memory

LEMMA BeginCreateStep ==
  ASSUME IInv, NEW c \in Calls, BeginCreate(c) PROVE IInv'
<1>1. op[c].pc = "idle"
  BY DEF BeginCreate, Start, At
<1>2. PICK r : r = [Idle EXCEPT !.pc = "opening", !.kind = "create",
                                !.guard = active, !.session = active]
  OBVIOUS
<1>3. active # None /\ active \in Guard
  BY DEF IInv, TypeOK, BeginCreate, Authorised
<1>4. /\ r \in Call /\ r.pc = "opening" /\ r.kind = "create"
      /\ r.guard = active /\ r.session = active /\ r.page = None
      /\ r.ok = FALSE
  <2>1. /\ r \in Record /\ r.pc = "opening" /\ r.kind = "create"
        /\ r.guard = active /\ r.session = active /\ r.page = Idle.page
        /\ r.ok = Idle.ok
    BY <1>2, <1>3, IdleTyped DEF Record, Steps, Kinds
  <2>2. Idle.ok = FALSE
    BY DEF Idle
  <2> QED BY <2>1, <2>2, IdleFields, RecordTyped DEF Kinds, Steps
<1>5. Shape(r) /\ Relies(r)
  BY <1>3, <1>4
  DEF Shape, Relies, Known, IInv, GrantOK, Browsing, Flying, Executing,
      Reference
<1>6. Others(c) /\ Holds(c, r)'
  BY <1>1, <1>4, IdleHolds, ConstantsAssumption
  DEF BeginCreate, Others, Holds, Browsing, Flying, Executing, Reference
<1> QED
  BY <1>2, <1>4, <1>5, <1>6, LeaseStep
  DEF BeginCreate, Start, IInv, TypeOK, memory

LEMMA EndWorkStep ==
  ASSUME IInv, NEW c \in Calls, EndWork(c) PROVE IInv'
<1>1. op[c].pc = "work" /\ Shape(op[c]) /\ Holds(c, op[c])
  BY Busy DEF EndWork, At
<1>2. Others(c)
  BY ConstantsAssumption DEF EndWork, Others
<1>3. Holds(c, Idle)'
  BY <1>1, IdleFields, ConstantsAssumption
  DEF EndWork, Holds, Shape, Browsing, Flying, Executing, Reference
<1> QED
  BY <1>2, <1>3, LeaseStep DEF EndWork, End, IInv, TypeOK, memory

LEMMA OpenSessionStep ==
  ASSUME IInv, NEW c \in Calls, OpenSession(c) PROVE IInv'
<1>1. PICK r : r = [op[c] EXCEPT !.pc = "opening", !.session = active,
                                 !.left = op[c].left - 1]
  OBVIOUS
<1>2. /\ op[c] \in Call /\ op[c].pc = "work"
      /\ Shape(op[c]) /\ Relies(op[c]) /\ Holds(c, op[c])
  BY Busy DEF OpenSession, At
<1>3. active # None /\ active \in Guard
  BY DEF IInv, TypeOK, OpenSession
<1>4. /\ r \in Call /\ r.pc = "opening" /\ r.session = active
      /\ r.kind = op[c].kind /\ r.guard = op[c].guard /\ r.set = op[c].set
      /\ r.seen = op[c].seen /\ r.page = op[c].page /\ r.ok = op[c].ok
  <2>1. op[c].left - 1 \in 0 .. Sessions
    BY <1>2, ConstantsAssumption DEF OpenSession, Call
  <2> QED BY <1>1, <1>2, <1>3, <2>1 DEF Call
<1>5. r.kind \in {"plan"} \cup Executing
  BY <1>2, <1>4 DEF Shape
<1>6. Shape(r) /\ Relies(r)
  BY <1>2, <1>3, <1>4, <1>5
  DEF Shape, Relies, Known, IInv, GrantOK, Browsing, Flying, Executing,
      Reference
<1>7. Others(c) /\ Holds(c, r)'
  BY <1>2, <1>4, ConstantsAssumption
  DEF OpenSession, Others, Holds, Browsing, Flying
<1> QED
  BY <1>1, <1>4, <1>6, <1>7, LeaseStep
  DEF OpenSession, IInv, TypeOK, memory

LEMMA DispatchStep ==
  ASSUME IInv, NEW c \in Calls, Dispatch(c) PROVE IInv'
<1>1. PICK r : r = [op[c] EXCEPT !.pc = "flight"]
  OBVIOUS
<1>2. /\ op[c] \in Call /\ op[c].pc = "session" /\ op[c].kind # "plan"
      /\ Shape(op[c]) /\ Relies(op[c]) /\ Holds(c, op[c])
  BY Busy DEF Dispatch, At, Is
<1>3. /\ r \in Call /\ r.pc = "flight" /\ r.session = op[c].session
      /\ r.kind = op[c].kind /\ r.guard = op[c].guard /\ r.set = op[c].set
      /\ r.seen = op[c].seen /\ r.page = op[c].page /\ r.ok = op[c].ok
  BY <1>1, <1>2 DEF Call
<1>4. active # None /\ r.session = active /\ Needs(r.kind) \in active.allows
  BY <1>2, <1>3
  DEF Dispatch, Valid, Shape, Relies, Known, Browsing, IInv, GrantOK
<1>5. Shape(r) /\ Relies(r)
  BY <1>2, <1>3, <1>4 DEF Shape, Relies, Browsing, Flying
<1>6. Others(c) /\ Holds(c, r)'
  BY <1>2, <1>3, ConstantsAssumption
  DEF Dispatch, Others, Holds, Browsing, Flying
<1> QED
  BY <1>1, <1>3, <1>5, <1>6, LeaseStep DEF Dispatch, IInv, TypeOK, memory

LEMMA EndFlightStep ==
  ASSUME IInv, NEW c \in Calls, EndFlight(c) PROVE IInv'
<1>1. PICK r : r = [op[c] EXCEPT !.pc = "closing"]
  OBVIOUS
<1>2. /\ op[c] \in Call /\ op[c].pc = "flight"
      /\ Shape(op[c]) /\ Relies(op[c]) /\ Holds(c, op[c])
  BY Busy DEF EndFlight, At
<1>3. /\ r \in Call /\ r.pc = "closing" /\ r.session = op[c].session
      /\ r.kind = op[c].kind /\ r.guard = op[c].guard /\ r.set = op[c].set
      /\ r.seen = op[c].seen /\ r.page = op[c].page /\ r.ok = op[c].ok
  BY <1>1, <1>2 DEF Call
<1>4. Shape(r) /\ Relies(r)
  BY <1>2, <1>3 DEF Shape, Relies, Browsing, Flying
<1>5. Others(c) /\ Holds(c, r)'
  BY <1>2, <1>3, ConstantsAssumption
  DEF EndFlight, Others, Holds, Browsing, Flying
<1> QED
  BY <1>1, <1>3, <1>4, <1>5, LeaseStep DEF EndFlight, IInv, TypeOK, memory

LEMMA CloseSessionStep ==
  ASSUME IInv, NEW c \in Calls, CloseSession(c) PROVE IInv'
<1>1. PICK r : r = [op[c] EXCEPT !.pc = "work", !.session = None]
  OBVIOUS
<1>2. /\ op[c] \in Call /\ op[c].pc = "closing"
      /\ op[c].kind \in {"plan"} \cup Executing
      /\ Shape(op[c]) /\ Relies(op[c]) /\ Holds(c, op[c])
  BY Busy DEF CloseSession, At, Is, Shape, Browsing
<1>3. /\ r \in Call /\ r.pc = "work" /\ r.session = None
      /\ r.kind = op[c].kind /\ r.guard = op[c].guard /\ r.set = op[c].set
      /\ r.seen = op[c].seen /\ r.page = op[c].page /\ r.ok = op[c].ok
  BY <1>1, <1>2 DEF Call
<1>4. Shape(r) /\ Relies(r)
  BY <1>2, <1>3 DEF Shape, Relies, Browsing, Flying, Executing, Reference
<1>5. Others(c) /\ Holds(c, r)'
  BY <1>2, <1>3, ConstantsAssumption
  DEF CloseSession, Others, Holds, Browsing, Flying
<1> QED
  BY <1>1, <1>3, <1>4, <1>5, LeaseStep DEF CloseSession, IInv, TypeOK, memory

LEMMA AnswerStep ==
  ASSUME IInv, NEW c \in Calls, Answer(c) PROVE IInv'
<1>1. PICK ok \in BOOLEAN :
        Step(c, [op[c] EXCEPT !.pc = "closing", !.ok = ok])
  BY DEF Answer
<1>2. PICK r : r = [op[c] EXCEPT !.pc = "closing", !.ok = ok]
  OBVIOUS
<1>3. /\ op[c] \in Call /\ op[c].pc = "sent"
      /\ Shape(op[c]) /\ Relies(op[c]) /\ Holds(c, op[c])
  BY Busy DEF Answer, At
<1>4. /\ r \in Call /\ r.pc = "closing" /\ r.session = op[c].session
      /\ r.kind = op[c].kind /\ r.guard = op[c].guard /\ r.set = op[c].set
      /\ r.seen = op[c].seen /\ r.page = op[c].page
  BY <1>2, <1>3 DEF Call
<1>5. Shape(r) /\ Relies(r)
  BY <1>3, <1>4 DEF Shape, Relies, Browsing, Flying
<1>6. Others(c) /\ Holds(c, r)'
  BY <1>3, <1>4, ConstantsAssumption
  DEF Answer, Others, Holds, Browsing, Flying
<1> QED
  BY <1>1, <1>2, <1>4, <1>5, <1>6, LeaseStep DEF Answer, IInv, TypeOK, memory

----------------------------------------------------------------------------
(* Steps that use the authority's memory, or send to the editor            *)

LEMMA RecordPlanStep ==
  ASSUME IInv, NEW c \in Calls, RecordPlan(c) PROVE IInv'
<1>1. /\ op[c] \in Call /\ op[c].pc = "work" /\ op[c].kind = "plan"
      /\ Shape(op[c]) /\ Relies(op[c]) /\ Holds(c, op[c])
  BY Busy DEF RecordPlan, At, Is
<1>2. op[c].guard \in Guard /\ op[c].set \in ChangeSets
  BY <1>1 DEF Shape, Call
<1>3. op[c].guard.task \in Nat \ {0}
  BY <1>2 DEF Guard
<1>4. /\ planned' \in [ChangeSets -> (Nat \ {0}) \cup {None}]
      /\ \A s \in ChangeSets : planned[s] \in {None, planned'[s]}
  BY <1>2, <1>3 DEF RecordPlan, IInv, TypeOK
<1>5. Holds(c, Idle)' /\ Others(c)
  BY <1>1, IdleFields
  DEF RecordPlan, leases, Holds, Others, Browsing, Flying, Executing,
      Reference
<1>6. wire' \subseteq [kind : {"add", "remove"}, page : made']
  BY DEF RecordPlan, IInv, TypeOK, EditorOK, editor
<1> QED
  BY <1>4, <1>5, <1>6, StepFrame
  DEF RecordPlan, End, IInv, TypeOK, leases, editor

LEMMA BeginCleanupStep ==
  ASSUME IInv, NEW c \in Calls, BeginCleanup(c) PROVE IInv'
<1>1. PICK k \in Clones :
        /\ receipts[k] # None
        /\ receipts' = [receipts EXCEPT ![k] = None]
        /\ \/ /\ browser = None /\ refLease = None
              /\ refLease' = c /\ browser' = c
              /\ Start(c, [Idle EXCEPT
                   !.pc = "opening", !.kind = "cleanup", !.page = k,
                   !.guard = active, !.session = active,
                   !.seen = receipts[k].pages])
           \/ At(c, "idle") /\ UNCHANGED <<refLease, browser, op>>
  BY DEF BeginCleanup
<1>2. op[c] = Idle
  BY <1>1, IdleHolds DEF Start, At
<1>3. /\ receipts' \in [Clones -> Receipt \cup {None}]
      /\ receipts'[k] = None
      /\ \A j \in Clones : receipts'[j] \in {receipts[j], None}
  BY <1>1 DEF IInv, TypeOK
<1>4. wire' \subseteq [kind : {"add", "remove"}, page : made']
  BY DEF BeginCleanup, IInv, TypeOK, EditorOK, editor
<1>5. CASE UNCHANGED <<refLease, browser, op>>
  <2>1. Step(c, Idle)
    BY <1>2, <1>5 DEF Step, IInv, TypeOK
  <2>2. Others(c) /\ Holds(c, Idle)'
    BY <1>2, <1>5, IdleHolds, IdleFields DEF BeginCleanup, Others, Holds
  <2> QED
    BY <1>3, <1>4, <1>5, <2>1, <2>2, StepFrame
    DEF BeginCleanup, IInv, TypeOK, editor
<1>6. CASE Start(c, [Idle EXCEPT
             !.pc = "opening", !.kind = "cleanup", !.page = k,
             !.guard = active, !.session = active, !.seen = receipts[k].pages])
           /\ browser = None /\ refLease = None /\ refLease' = c
           /\ browser' = c
  <2>1. PICK r : r = [Idle EXCEPT
             !.pc = "opening", !.kind = "cleanup", !.page = k,
             !.guard = active, !.session = active, !.seen = receipts[k].pages]
    OBVIOUS
  <2>2. active # None /\ active \in Guard
    BY DEF IInv, TypeOK, BeginCleanup, Authorised
  <2>3. receipts[k].pages \in SUBSET Pages
    BY <1>1 DEF IInv, TypeOK, Receipt
  <2>4. /\ r \in Record /\ r.pc = "opening" /\ r.kind = "cleanup"
        /\ r.guard = active /\ r.session = active /\ r.page = k
    BY <2>1, <2>2, <2>3, IdleTyped DEF Record, Steps, Kinds
  <2>5. r.ok = Idle.ok
    BY <2>1, IdleTyped DEF Record
  <2>6. r \in Call /\ r.ok = FALSE
    BY <2>4, <2>5, RecordTyped DEF Kinds, Steps, Idle
  <2>7. Shape(r)
    BY <2>2, <2>4, <2>6
    DEF Shape, Browsing, Flying, Executing, Reference
  <2>8. Relies(r)'
    BY <1>1, <1>3, <2>2, <2>4
    DEF Relies, Known, BeginCleanup, authority, editor, bounds, IInv, GrantOK,
        ReceiptOK, Flying, Executing
  <2>9. Others(c) /\ Holds(c, r)'
    BY <1>2, <1>6, <2>4, IdleHolds, IdleFields, ConstantsAssumption
    DEF BeginCleanup, Others, Holds, Browsing, Flying, Executing, Reference
  <2> QED
    BY <1>3, <1>4, <1>6, <2>1, <2>6, <2>7, <2>8, <2>9, StepFrame
    DEF BeginCleanup, Start, IInv, TypeOK, editor
<1> QED BY <1>1, <1>5, <1>6

LEMMA SendCreateStep ==
  ASSUME IInv, NEW c \in Calls, SendCreate(c) PROVE IInv'
<1>1. PICK k \in Clones \ made :
        /\ wire' = wire \cup {[kind |-> "add", page |-> k]}
        /\ made' = made \cup {k}
        /\ Step(c, [op[c] EXCEPT !.pc = "sent", !.seen = live, !.page = k])
  BY DEF SendCreate
<1>2. PICK r : r = [op[c] EXCEPT !.pc = "sent", !.seen = live, !.page = k]
  OBVIOUS
<1>3. /\ op[c] \in Call /\ op[c].pc = "flight" /\ op[c].kind = "create"
      /\ Shape(op[c]) /\ Relies(op[c]) /\ Holds(c, op[c])
  BY Busy DEF SendCreate, At, Is
<1>4. live \in SUBSET Pages /\ k \notin live /\ k # None
  BY <1>1, ConstantsAssumption DEF IInv, TypeOK, EditorOK
<1>5. /\ r \in Call /\ r.pc = "sent" /\ r.session = op[c].session
      /\ r.kind = "create" /\ r.guard = op[c].guard
      /\ r.seen = live /\ r.page = k
  BY <1>1, <1>2, <1>3, <1>4 DEF Call
<1>6. Shape(r)
  BY <1>3, <1>4, <1>5 DEF Shape, Browsing, Flying, Executing, Reference
<1>7. Relies(r)'
  BY <1>1, <1>3, <1>4, <1>5
  DEF Relies, Known, SendCreate, authority, bounds, Flying, Executing
<1>8. Others(c) /\ Holds(c, r)'
  BY <1>3, <1>5
  DEF SendCreate, Others, Holds, leases, Browsing, Flying
<1>9. /\ made' \subseteq Clones
      /\ wire' \subseteq [kind : {"add", "remove"}, page : made']
  BY <1>1 DEF IInv, TypeOK, EditorOK
<1> QED
  BY <1>1, <1>2, <1>5, <1>6, <1>7, <1>8, <1>9, StepFrame
  DEF SendCreate, IInv, TypeOK, leases, memory

LEMMA SendCleanupStep ==
  ASSUME IInv, NEW c \in Calls, SendCleanup(c) PROVE IInv'
<1>1. PICK r : r = [op[c] EXCEPT !.pc = "sent"]
  OBVIOUS
<1>2. /\ op[c] \in Call /\ op[c].pc = "flight" /\ op[c].kind = "cleanup"
      /\ Shape(op[c]) /\ Relies(op[c]) /\ Holds(c, op[c])
  BY Busy DEF SendCleanup, At, Is
<1>3. /\ r \in Call /\ r.pc = "sent" /\ r.session = op[c].session
      /\ r.kind = "cleanup" /\ r.guard = op[c].guard /\ r.set = op[c].set
      /\ r.seen = op[c].seen /\ r.page = op[c].page
  BY <1>1, <1>2 DEF Call
<1>4. r.seen \in SUBSET Pages /\ r.page \in Clones /\ r.page # None
  BY <1>2, <1>3, ConstantsAssumption DEF SendCleanup, IInv, TypeOK, Relies
<1>5. Shape(r)
  BY <1>2, <1>3, <1>4 DEF Shape, Browsing, Flying, Executing, Reference
<1>6. Relies(r)'
  BY <1>2, <1>3
  DEF Relies, Known, SendCleanup, authority, memory, bounds, Flying, Executing
<1>7. Others(c) /\ Holds(c, r)'
  BY <1>2, <1>3 DEF SendCleanup, Others, Holds, leases, Browsing, Flying
<1>8. op[c].page \in made
  BY <1>2 DEF Relies
<1>9. wire' \subseteq [kind : {"add", "remove"}, page : made']
  BY <1>8 DEF SendCleanup, IInv, TypeOK, EditorOK
<1> QED
  BY <1>1, <1>3, <1>5, <1>6, <1>7, <1>9, StepFrame
  DEF SendCleanup, IInv, TypeOK, leases, memory

----------------------------------------------------------------------------
(* The editor, other people, and time                                      *)

LEMMA EnvironmentFrame ==
  ASSUME IInv, UNCHANGED <<authority, leases, memory, op, made, minted>>,
         live' \subseteq Pages, live' \cap Clones \subseteq made,
         wire' \subseteq wire, now' \in Nat, drifts' \in Nat
  PROVE  IInv'
<1> USE DEF IInv
<1>1. TypeOK'
  BY DEF TypeOK, authority, leases, memory
<1>2. LeasesHeld'
  BY DEF LeasesHeld, leases
<1>3. GrantOK' /\ EditorOK' /\ ReceiptOK'
  BY DEF GrantOK, EditorOK, ReceiptOK, ReceiptPending, authority, memory
<1>4. \A c \in Calls : CallOK(op[c])'
  BY DEF CallOK, Shape, Relies, Known, authority, memory
<1> QED BY <1>1, <1>2, <1>3, <1>4

LEMMA LandStep ==
  ASSUME IInv, NEW request \in wire, Land(request) PROVE IInv'
<1>1. request.page \in made /\ made \subseteq Clones /\ Clones \subseteq Pages
  BY ConstantsAssumption DEF IInv, TypeOK, EditorOK
<1>2. live' \subseteq Pages /\ live' \cap Clones \subseteq made
  BY <1>1 DEF Land, IInv, TypeOK, EditorOK
<1> QED BY <1>2, EnvironmentFrame DEF Land, bounds, IInv, TypeOK

LEMMA LostStep ==
  ASSUME IInv, NEW request \in wire, Lost(request) PROVE IInv'
BY EnvironmentFrame DEF Lost, bounds, IInv, TypeOK, EditorOK

LEMMA DriftStep == IInv /\ Drift => IInv'
BY EnvironmentFrame DEF Drift, IInv, TypeOK, EditorOK

LEMMA TickStep == IInv /\ Tick => IInv'
BY EnvironmentFrame DEF Tick, editor, IInv, TypeOK, EditorOK

----------------------------------------------------------------------------
(* Steps that change the grant: nobody relies on it                        *)

LEMMA NobodyRelies ==
  ASSUME IInv, Expired \/ ~Transition \/ Current = None
  PROVE  execLease = None /\ dispatchLease = None
<1>1. CASE active = None
  <2>1. \A c \in Calls : execLease # c /\ dispatchLease # c
    <3> SUFFICES ASSUME NEW c \in Calls
                 PROVE  execLease # c /\ dispatchLease # c
      OBVIOUS
    <3>1. Holds(c, op[c]) /\ (op[c] # Idle => Relies(op[c]))
      BY HeldIsHolds DEF IInv, CallOK
    <3> QED BY <1>1, <3>1, IdleFields DEF Holds, Relies
  <2> QED BY <2>1 DEF IInv, TypeOK
<1>2. CASE active # None
  BY <1>2 DEF Expired, Transition, Current
<1> QED BY <1>1, <1>2

\* The grant is dropped, and the call ends if it is not idle already.
LEMMA DropFrame ==
  ASSUME IInv, NEW c \in Calls, Dropped,
         execLease = None, dispatchLease = None,
         UNCHANGED <<execLease, dispatchLease, memory, editor, bounds>>,
         \/ UNCHANGED <<op, browser>>
         \/ /\ End(c)
            /\ \/ op[c].pc \in Browsing /\ browser' = None
               \/ op[c].pc \notin Browsing /\ browser' = browser
  PROVE  IInv'
<1> USE DEF IInv
<1>1. /\ op' \in [Calls -> Call \cup {Idle}]
      /\ \A d \in Calls : op'[d] \in {op[d], Idle}
      /\ \A d \in Calls \ {c} : op'[d] = op[d]
  <2>1. CASE UNCHANGED op
    BY <2>1 DEF TypeOK
  <2>2. CASE End(c)
    BY <2>2, StepOne DEF TypeOK, End
  <2> QED BY <2>1, <2>2
<1>2. TypeOK'
  BY <1>1 DEF TypeOK, Dropped, memory, editor, bounds
<1>3. LeasesHeld'
  <2>1. \A d \in Calls : Holds(d, op[d])'
    <3> SUFFICES ASSUME NEW d \in Calls PROVE Holds(d, op[d])'
      OBVIOUS
    <3>1. Holds(d, op[d]) /\ Holds(c, op[c])
      BY HeldIsHolds
    <3>2. CASE op'[d] = op[d] /\ browser' = browser
      BY <3>1, <3>2, ConstantsAssumption DEF Holds, Dropped
    <3>3. CASE End(c)
      <4>1. op'[c] = Idle
        BY <3>3, StepOne DEF End, TypeOK
      <4> QED
        BY <1>1, <3>1, <3>3, <4>1, IdleFields, ConstantsAssumption
        DEF Holds, Dropped
    <3> QED BY <3>2, <3>3
  <2> QED BY <2>1 DEF Holds, LeasesHeld, Flying
<1>4. GrantOK' /\ ReceiptOK'
  BY DEF GrantOK, ReceiptOK, ReceiptPending, Dropped, memory, editor, bounds
<1>5. EditorOK'
  BY DEF EditorOK, editor
<1>6. \A d \in Calls : CallOK(op[d])'
  <2> SUFFICES ASSUME NEW d \in Calls PROVE CallOK(op[d])'
    OBVIOUS
  <2>1. CASE op'[d] = Idle
    BY <2>1 DEF CallOK
  <2>2. CASE op'[d] = op[d] /\ op[d] # Idle
    <3>1. Shape(op[d]) /\ Relies(op[d]) /\ Holds(d, op[d])
      BY <2>2, HeldIsHolds DEF CallOK
    <3>2. op[d].kind \notin Executing /\ op[d].pc \notin Flying
      BY <3>1, ConstantsAssumption DEF Holds
    <3> QED
      BY <2>2, <3>1, <3>2
      DEF CallOK, Shape, Relies, Known, Dropped, memory, editor, bounds,
          Executing
  <2> QED BY <1>1, <2>1, <2>2
<1> QED BY <1>2, <1>3, <1>4, <1>5, <1>6

\* A step that ends a call outside sessions and executions, and no more.
LEMMA EndStep ==
  ASSUME IInv, NEW c \in Calls, End(c), op[c].pc \notin Browsing,
         op[c].kind \notin Executing, Kept,
         UNCHANGED <<dispatchLease, execLease, browser, memory, editor,
                     bounds>>
  PROVE  IInv'
<1>1. Holds(c, op[c])
  BY HeldIsHolds DEF IInv
<1>2. Others(c) /\ UNCHANGED leases
  BY DEF Others, Kept, leases
<1>3. op[c].kind \notin Reference
  BY Busy, IdleFields DEF IInv, TypeOK, CallOK, Shape
<1>4. Holds(c, Idle)'
  BY <1>1, <1>2, <1>3, IdleFields DEF Holds, leases, Flying, Browsing
<1> QED
  BY <1>2, <1>4, LeaseStep DEF End, Kept, leases, IInv, TypeOK

LEMMA LapseStep ==
  ASSUME IInv, NEW c \in Calls, Lapse(c) PROVE IInv'
BY NobodyRelies, DropFrame DEF Lapse

LEMMA OpenLapsedStep ==
  ASSUME IInv, NEW c \in Calls, OpenLapsed(c) PROVE IInv'
<1>1. op[c].pc \notin Browsing
  BY DEF OpenLapsed, At, Browsing
<1> QED BY <1>1, NobodyRelies, DropFrame DEF OpenLapsed

\* A resumed call holds nothing.
LEMMA Resumed ==
  ASSUME IInv, NEW c \in Calls, At(c, "resume")
  PROVE  op[c].pc \notin Browsing /\ op[c].kind \notin Executing \cup Reference
BY Busy DEF At, Browsing, Shape, Executing, Reference

LEMMA AuthorizeRefusedStep ==
  ASSUME IInv, NEW c \in Calls, AuthorizeRefused(c) PROVE IInv'
<1>1. op[c].pc \notin Browsing /\ op[c].kind \notin Executing /\ End(c)
  BY Resumed DEF AuthorizeRefused, Resumes
<1>2. UNCHANGED <<dispatchLease, execLease, browser, memory, editor, bounds>>
  BY DEF AuthorizeRefused, Resumes, bounds
<1>3. CASE Kept
  BY <1>1, <1>2, <1>3, EndStep
<1>4. CASE ~Transition /\ Dropped
  BY <1>1, <1>2, <1>4, NobodyRelies, DropFrame
<1> QED BY <1>3, <1>4 DEF AuthorizeRefused, Clear

LEMMA AuthorizeInvalidStep ==
  ASSUME IInv, NEW c \in Calls, AuthorizeInvalid(c) PROVE IInv'
<1>1. op[c].pc \notin Browsing /\ op[c].kind \notin Executing /\ End(c)
  BY Resumed DEF AuthorizeInvalid, Resumes
<1>2. UNCHANGED <<dispatchLease, execLease, browser, memory, editor, bounds>>
  BY DEF AuthorizeInvalid, Resumes, bounds
<1>3. CASE Kept
  BY <1>1, <1>2, <1>3, EndStep
<1>4. CASE (Expired \/ ~Transition) /\ Dropped
  BY <1>1, <1>2, <1>4, NobodyRelies, DropFrame
<1> QED BY <1>3, <1>4 DEF AuthorizeInvalid, Clear

LEMMA VerifyStep ==
  ASSUME IInv, NEW c \in Calls, Verify(c) PROVE IInv'
<1>1. op[c].pc \notin Browsing /\ op[c].kind \notin Executing /\ End(c)
  BY Resumed DEF Verify, Resumes
<1>2. UNCHANGED <<dispatchLease, execLease, browser, memory, editor, bounds>>
  BY DEF Verify, Resumes, bounds
<1>3. CASE Kept
  BY <1>1, <1>2, <1>3, EndStep
<1>4. CASE (Expired \/ ~Transition) /\ Dropped
  BY <1>1, <1>2, <1>4, NobodyRelies, DropFrame
<1> QED BY <1>3, <1>4 DEF Verify, Clear

\* A call that gives up a reference transition leaves the grant alone.
LEMMA RejectStep ==
  ASSUME IInv, NEW c \in Calls, Reject(c) PROVE IInv'
<1>1. /\ op[c].pc = "closing" /\ op[c].kind \in Reference
      /\ Holds(c, op[c])
  BY Busy DEF Reject, At, Is
<1>2. op[c].pc \in Browsing
  BY <1>1 DEF Browsing
<1>3. CASE Expired /\ Dropped
  BY <1>2, <1>3, NobodyRelies, DropFrame DEF Reject
<1>4. CASE UNCHANGED authority
           /\ refLease' = IF refLease = c THEN None ELSE refLease
  <2>1. Others(c) /\ Holds(c, Idle)'
    BY <1>1, <1>2, <1>4, IdleFields, ConstantsAssumption
    DEF Reject, Others, Holds, Flying, Executing, Reference
  <2> QED
    BY <1>4, <2>1, LeaseStep DEF Reject, End, IInv, TypeOK
<1> QED BY <1>3, <1>4 DEF Reject

\* A new guard comes into force: nobody relied on the old one, and what is
\* remembered of other guards has older tokens.
LEMMA ReplaceFrame ==
  ASSUME IInv, NEW c \in Calls, End(c),
         execLease = None, dispatchLease = None,
         UNCHANGED <<execLease, dispatchLease, planned, editor, now, drifts>>,
         minted' = minted + 1, revocation' = minted + 1, refLease' = None,
         active' \in Guard, active'.token = minted + 1,
         active'.task <= minted + 1,
         pending' \in Clones \cup {None},
         pending' # None => pending' \in active'.pages,
         receipts' \in [Clones -> Receipt \cup {None}],
         ReceiptOK',
         \/ op[c].pc \in Browsing /\ browser' = None
         \/ op[c].pc \notin Browsing /\ UNCHANGED <<browser, receipts>>
  PROVE  IInv'
<1> USE DEF IInv
<1>1. /\ op' \in [Calls -> Call \cup {Idle}] /\ op'[c] = Idle
      /\ \A d \in Calls \ {c} : op'[d] = op[d]
  BY StepOne DEF TypeOK, End
<1>2. minted \in Nat /\ minted' \in Nat /\ revocation' \in Nat
  BY DEF TypeOK
<1>3. TypeOK'
  BY <1>1, <1>2 DEF TypeOK, editor
<1>4. LeasesHeld'
  <2>1. \A d \in Calls : Holds(d, op[d])'
    <3> SUFFICES ASSUME NEW d \in Calls PROVE Holds(d, op[d])'
      OBVIOUS
    <3>1. Holds(d, op[d]) /\ Holds(c, op[c])
      BY HeldIsHolds
    <3> QED
      BY <1>1, <3>1, IdleFields, ConstantsAssumption DEF Holds
  <2> QED BY <2>1 DEF Holds, LeasesHeld, Flying
<1>5. GrantOK'
  BY <1>2, NoneAssumption DEF GrantOK
<1>6. EditorOK'
  BY DEF EditorOK, editor
<1>7. \A d \in Calls : CallOK(op[d])'
  <2> SUFFICES ASSUME NEW d \in Calls, d # c, op[d] # Idle
               PROVE  CallOK(op[d])'
    BY <1>1 DEF CallOK
  <2>1. /\ Shape(op[d]) /\ Relies(op[d]) /\ Holds(d, op[d]) /\ Holds(c, op[c])
        /\ op'[d] = op[d]
    BY <1>1, HeldIsHolds DEF CallOK
  <2>2. op[d].kind \notin Executing /\ op[d].pc \notin Flying
    BY <2>1, ConstantsAssumption DEF Holds
  <2>3. op[d].kind \in Reference => UNCHANGED receipts
    BY <2>1 DEF Holds, Shape
  <2>4. op[d].session # None =>
          op[d].session.token <= minted' /\ op[d].session.token # active'.token
    <3>1. op[d] \in Call
      BY DEF TypeOK
    <3> SUFFICES ASSUME op[d].session # None
                 PROVE  op[d].session.token <= minted + 1
                        /\ op[d].session.token # minted + 1
      OBVIOUS
    <3>2. op[d].session.token \in Nat
      BY <3>1 DEF Call, Guard
    <3>3. op[d].session.token <= minted
      BY <2>1 DEF Relies, Known
    <3> QED BY <1>2, <3>2, <3>3
  <2>5. op[d].guard # None => op[d].guard.task <= minted'
    <3>1. op[d] \in Call
      BY DEF TypeOK
    <3>2. op[d].guard # None => op[d].guard.task \in Nat
      BY <3>1 DEF Call, Guard
    <3> QED BY <1>2, <2>1, <3>2 DEF Relies
  <2> QED
    BY <2>1, <2>2, <2>3, <2>4, <2>5
    DEF CallOK, Shape, Relies, Known, editor, Executing, Reference
<1> QED BY <1>3, <1>4, <1>5, <1>6, <1>7

LEMMA AuthorizeStep ==
  ASSUME IInv, NEW c \in Calls, Authorize(c) PROVE IInv'
<1>1. op[c].pc \notin Browsing /\ op[c].kind \notin Executing /\ End(c)
      /\ op[c] \in Call
  BY Resumed, Busy DEF Authorize, Resumes, At
<1>2. execLease = None /\ dispatchLease = None
  BY NobodyRelies DEF Authorize
<1>3. PICK allows \in Scopes, ttl \in Ttls :
        active' = [token |-> minted + 1, task |-> minted + 1,
                   expires |-> now + ttl, allows |-> allows,
                   pages |-> op[c].seen]
  BY DEF Authorize
<1>4. minted \in Nat /\ now \in Nat /\ ttl \in Nat
  BY ConstantsAssumption DEF IInv, TypeOK
<1>5. op[c].seen \in SUBSET Pages
  BY <1>1 DEF Authorize, Call
<1>6. /\ active' \in Guard /\ active'.token = minted + 1
      /\ active'.task = minted + 1
  <2>1. /\ minted + 1 \in Nat \ {0} /\ now + ttl \in Nat
    BY <1>4
  <2> QED BY <1>3, <1>5, <2>1 DEF Guard
<1>7. /\ UNCHANGED <<receipts, editor>> /\ minted' = minted + 1
      /\ pending' = None
  BY DEF Authorize, Resumes, memory
<1>8. ReceiptOK'
  <2>1. \A k \in Clones : receipts[k] # None =>
          /\ receipts[k].task \in Nat
          /\ receipts[k].task <= minted /\ k \in made
    BY DEF IInv, TypeOK, ReceiptOK, Receipt
  <2>2. \A k \in Clones : receipts[k] # None =>
          /\ receipts[k].task # minted + 1
          /\ receipts[k].task <= minted + 1 /\ k \in made
    BY <1>4, <2>1
  <2> QED BY <1>6, <1>7, <2>2 DEF ReceiptOK, ReceiptPending, editor
<1>9. active'.task <= minted + 1
  BY <1>4, <1>6
<1> QED
  BY <1>1, <1>2, <1>6, <1>7, <1>8, <1>9, ReplaceFrame
  DEF Authorize, Resumes, memory, IInv, TypeOK

\* What an accepted transition does to the grant and its pages.
LEMMA AcceptFacts ==
  ASSUME IInv, NEW c \in Calls, Accept(c)
  PROVE  /\ op[c].pc \in Browsing /\ op[c].page \in made
         /\ active # None /\ active \in Guard
         /\ active' \in Guard /\ active'.token = minted + 1
         /\ active'.task = active.task /\ active'.expires = active.expires
         /\ active'.allows = active.allows /\ active'.pages = After(c)
         /\ \/ /\ op[c].kind = "create" /\ pending = None
               /\ op[c].page \notin active.pages /\ pending' = op[c].page
               /\ After(c) = active.pages \cup {op[c].page}
               /\ receipts' = [receipts EXCEPT ![op[c].page] =
                    [task |-> active.task, pages |-> After(c)]]
            \/ /\ op[c].kind = "cleanup" /\ pending = op[c].page
               /\ pending' = None /\ receipts' = receipts
               /\ receipts[pending] = None
               /\ After(c) = active.pages \ {pending}
<1>1. /\ op[c] \in Call /\ op[c].pc = "closing" /\ op[c].kind \in Reference
      /\ op[c].ok /\ Shape(op[c]) /\ Relies(op[c])
  BY Busy DEF Accept, Acceptable, At, Is
<1>2. /\ op[c].pc \in Browsing /\ op[c].page # None
      /\ op[c].seen \in SUBSET Pages
  BY <1>1 DEF Browsing, Shape
<1>3. op[c].page \in made /\ op[c].page \in Clones /\ op[c].page \in Pages
      /\ (op[c].kind = "create" => op[c].page \notin op[c].seen)
  BY <1>1, <1>2, ConstantsAssumption
  DEF Relies, Reference, IInv, TypeOK
<1>4. active # None /\ active \in Guard /\ active.pages = op[c].seen
  BY DEF Accept, Acceptable, IInv, TypeOK
<1>5. After(c) \in SUBSET Pages
  BY <1>2, <1>3 DEF After
<1>6. minted + 1 \in Nat \ {0}
  BY DEF IInv, TypeOK
<1>7. active' = [active EXCEPT !.token = minted + 1, !.pages = After(c)]
  BY DEF Accept
<1>8. /\ active' \in Guard /\ active'.token = minted + 1
      /\ active'.task = active.task /\ active'.expires = active.expires
      /\ active'.allows = active.allows /\ active'.pages = After(c)
  BY <1>4, <1>5, <1>6, <1>7 DEF Guard
<1>9. CASE op[c].kind = "create"
  BY <1>1, <1>2, <1>3, <1>4, <1>8, <1>9 DEF Accept, Acceptable, Is, After
<1>10. CASE op[c].kind = "cleanup"
  BY <1>1, <1>2, <1>3, <1>4, <1>8, <1>10
  DEF Accept, Acceptable, Is, After, Relies
<1> QED BY <1>1, <1>9, <1>10 DEF Reference

LEMMA AcceptStep ==
  ASSUME IInv, NEW c \in Calls, Accept(c) PROVE IInv'
<1>1. execLease = None /\ dispatchLease = None
  BY DEF Accept, Acceptable
<1>2. minted \in Nat /\ active.task \in Nat \ {0} /\ active.task <= minted
  BY AcceptFacts DEF IInv, TypeOK, GrantOK, Guard
<1>3. active'.task <= minted + 1
  <2>1. active'.task = active.task
    BY AcceptFacts
  <2> QED BY <1>2, <2>1
<1>4. op[c].page \in made /\ op[c].page \in Clones
  BY AcceptFacts DEF IInv, TypeOK
<1>5. After(c) \in SUBSET Pages
  BY AcceptFacts DEF Guard
<1>6. receipts' \in [Clones -> Receipt \cup {None}]
  <2>1. [task |-> active.task, pages |-> After(c)] \in Receipt
    BY <1>2, <1>5 DEF Receipt
  <2> QED BY <2>1, <1>4, AcceptFacts DEF IInv, TypeOK
<1>7. /\ pending' \in Clones \cup {None}
      /\ pending' # None => pending' \in active'.pages
  <2>1. active'.pages = After(c)
    BY AcceptFacts
  <2>2. \/ pending' = op[c].page /\ After(c) = active.pages \cup {op[c].page}
        \/ pending' = None
    BY AcceptFacts
  <2> QED BY <1>4, <2>1, <2>2
<1>8. ReceiptOK'
  <2> SUFFICES ASSUME NEW k \in Clones, receipts'[k] # None
               PROVE  /\ receipts'[k].task <= minted + 1 /\ k \in made
                      /\ receipts'[k].task = active.task =>
                           /\ pending' = k /\ k \in active'.pages
                           /\ active'.pages = receipts'[k].pages
    BY AcceptFacts DEF ReceiptOK, ReceiptPending, Accept, editor
  <2>1. CASE op[c].kind = "create" /\ k = op[c].page
    <3>1. /\ pending' = k /\ After(c) = active.pages \cup {k}
          /\ receipts' = [receipts EXCEPT ![k] =
               [task |-> active.task, pages |-> After(c)]]
          /\ active'.pages = After(c)
      BY <2>1, AcceptFacts
    <3>2. receipts'[k] = [task |-> active.task, pages |-> After(c)]
      BY <3>1 DEF IInv, TypeOK
    <3> QED BY <1>2, <1>4, <2>1, <3>1, <3>2
  <2>2. CASE receipts'[k] = receipts[k]
             /\ ~(op[c].kind = "create" /\ k = op[c].page)
    <3>1. receipts[k] \in Receipt /\ receipts[k].task <= minted /\ k \in made
      BY <2>2 DEF IInv, TypeOK, ReceiptOK
    <3>2. receipts[k].task <= minted + 1
      BY <1>2, <3>1 DEF Receipt
    <3>3. receipts[k].task # active.task
      BY <2>2, AcceptFacts, ConstantsAssumption
      DEF IInv, ReceiptOK, ReceiptPending
    <3> QED BY <2>2, <3>1, <3>2, <3>3
  <2> QED BY <1>4, <2>1, <2>2, AcceptFacts DEF IInv, TypeOK
<1>9. /\ refLease' = None /\ browser' = None /\ End(c)
      /\ minted' = minted + 1 /\ revocation' = minted + 1
      /\ UNCHANGED <<dispatchLease, execLease, planned, editor, now, drifts>>
  BY DEF Accept
<1> QED
  BY <1>1, <1>3, <1>6, <1>7, <1>8, <1>9, AcceptFacts, ReplaceFrame

----------------------------------------------------------------------------
(* The invariant                                                           *)

LEMMA InitInvariant == Init => IInv
<1> SUFFICES ASSUME Init PROVE IInv
  OBVIOUS
<1>1. TypeOK
  BY ConstantsAssumption DEF Init, TypeOK
<1>2. LeasesHeld
  BY IdleFields, ConstantsAssumption DEF Init, LeasesHeld, Flying
<1>3. GrantOK /\ EditorOK /\ ReceiptOK
  BY DEF Init, GrantOK, EditorOK, ReceiptOK, ReceiptPending
<1>4. \A c \in Calls : CallOK(op[c])
  BY DEF Init, CallOK
<1> QED BY <1>1, <1>2, <1>3, <1>4 DEF IInv

LEMMA NextInvariant == IInv /\ [Next]_vars => IInv'
<1> SUFFICES ASSUME IInv, [Next]_vars PROVE IInv'
  OBVIOUS
<1>1. ASSUME NEW c \in Calls, Begin(c) PROVE IInv'
  BY <1>1, LapseStep, BeginCaptureStep, BeginPlanStep, BeginChangeStep,
     BeginPublishStep, BeginCreateStep, BeginCleanupStep
  DEF Begin
<1>2. ASSUME NEW c \in Calls, Proceed(c) PROVE IInv'
  BY <1>2, CaptureStep, AuthorizeRefusedStep, AuthorizeInvalidStep,
     AuthorizeStep, VerifyStep, RecordPlanStep, EndWorkStep, OpenSessionStep,
     OpenLapsedStep, BindStep, LeaveSessionStep, DispatchStep, EndFlightStep,
     CloseSessionStep, SendCreateStep, SendCleanupStep, AnswerStep,
     AcceptStep, RejectStep
  DEF Proceed
<1>3. CASE \E request \in wire : Land(request) \/ Lost(request)
  BY <1>3, LandStep, LostStep
<1>4. CASE Drift \/ Tick
  BY <1>4, DriftStep, TickStep
<1>5. CASE UNCHANGED vars
  <2>1. UNCHANGED <<authority, leases, memory, op, editor, bounds>>
    BY <1>5 DEF vars
  <2> QED
    BY <2>1, EnvironmentFrame DEF editor, bounds, IInv, TypeOK, EditorOK
<1> QED BY <1>1, <1>2, <1>3, <1>4, <1>5 DEF Next

LEMMA Invariance == Spec => []IInv
BY InitInvariant, NextInvariant, PTL DEF Spec

\* Every reachable state is well typed.
THEOREM TypeCorrect == Spec => []TypeOK
<1>1. IInv => TypeOK
  BY DEF IInv
<1> QED BY <1>1, Invariance, PTL

\* No lease of the authority or of the browser leaks or is held twice.
THEOREM LeasesCorrect == Spec => []LeasesHeld
<1>1. IInv => LeasesHeld
  BY DEF IInv
<1> QED BY <1>1, Invariance, PTL

\* Whatever is sent to the editor is sent under the grant in force, the one
\* its session was bound to and its call came with.
THEOREM WritesGranted == Spec => []WriteUnderGrant
<1>1. ASSUME IInv, NEW c \in Calls, op[c].pc \in {"flight", "sent"}
      PROVE  /\ active # None /\ revocation = active.token
             /\ op[c].session = active /\ op[c].guard.task = active.task
             /\ Needs(op[c].kind) \in active.allows
             /\ op[c].kind = "change" => planned[op[c].set] = active.task
  <2>1. Shape(op[c]) /\ Relies(op[c]) /\ op[c].pc \in Flying
    BY <1>1, Busy DEF Flying
  <2>2. op[c].kind \in Executing \cup Reference
    BY <2>1 DEF Shape, Flying, Browsing
  <2>3. op[c].session = active /\ op[c].guard = active /\ active # None
    BY <2>1, <2>2 DEF Shape, Relies
  <2> QED
    BY <1>1, <2>1, <2>2, <2>3 DEF Relies, IInv, GrantOK, Executing
<1>2. IInv => WriteUnderGrant
  BY <1>1 DEF WriteUnderGrant
<1> QED BY <1>2, Invariance, PTL

\* A receipt of the task in force always fits its pending clone.
THEOREM ReceiptsPending == Spec => []ReceiptPending
<1>1. IInv => ReceiptPending
  BY DEF IInv, ReceiptOK
<1> QED BY <1>1, Invariance, PTL

----------------------------------------------------------------------------
(* What steps may do to the grant                                          *)

LEMMA AuthoritySteps ==
  ASSUME IInv, [Next]_vars
  PROVE  \/ UNCHANGED authority
         \/ (Expired \/ ~Transition) /\ Dropped
            /\ UNCHANGED <<execLease, dispatchLease>>
         \/ \E c \in Calls : Authorize(c) \/ Accept(c)
<1>1. ASSUME NEW c \in Calls, Begin(c)
      PROVE  \/ UNCHANGED authority
             \/ Expired /\ Dropped /\ UNCHANGED <<execLease, dispatchLease>>
  BY <1>1
  DEF Begin, Lapse, BeginCapture, BeginPlan, BeginChange, BeginPublish,
      BeginCreate, BeginCleanup
<1>2. ASSUME NEW c \in Calls, Proceed(c), ~Authorize(c), ~Accept(c)
      PROVE  \/ UNCHANGED authority
             \/ (Expired \/ ~Transition) /\ Dropped
                /\ UNCHANGED <<execLease, dispatchLease>>
  <2>1. CASE AuthorizeRefused(c) \/ AuthorizeInvalid(c) \/ Verify(c)
    BY <2>1
    DEF AuthorizeRefused, AuthorizeInvalid, Verify, Resumes, Clear, Kept
  <2>2. CASE RecordPlan(c) \/ EndWork(c) \/ OpenSession(c) \/ OpenLapsed(c)
             \/ Capture(c)
    BY <2>2 DEF RecordPlan, EndWork, OpenSession, OpenLapsed, Capture
  <2>3. CASE Bind(c) \/ LeaveSession(c) \/ Dispatch(c) \/ EndFlight(c)
             \/ CloseSession(c)
    BY <2>3 DEF Bind, LeaveSession, Dispatch, EndFlight, CloseSession
  <2>4. CASE SendCreate(c) \/ SendCleanup(c) \/ Answer(c) \/ Reject(c)
    BY <2>4 DEF SendCreate, SendCleanup, Answer, Reject
  <2> QED BY <1>2, <2>1, <2>2, <2>3, <2>4 DEF Proceed
<1>3. CASE (\E request \in wire : Land(request) \/ Lost(request))
           \/ Drift \/ Tick
  BY <1>3 DEF Land, Lost, Drift, Tick
<1>4. CASE UNCHANGED vars
  BY <1>4 DEF vars
<1> QED BY <1>1, <1>2, <1>3, <1>4 DEF Next

\* A rebinding keeps the task's rights and expiry, and moves one clone.
THEOREM RebindingKeepsTask == Spec => RebindKeepsTask
<1> DEFINE Keeps ==
      active # None /\ active' # None /\ active'.task = active.task =>
        /\ active'.expires = active.expires /\ active'.allows = active.allows
        /\ active' # active =>
             \/ pending = None /\ pending' \in made \ active.pages
                /\ active'.pages = active.pages \cup {pending'}
             \/ pending \in active.pages /\ pending' = None
                /\ active'.pages = active.pages \ {pending}
<1>1. IInv /\ [Next]_vars => Keeps
  <2> SUFFICES ASSUME IInv, [Next]_vars, active # None, active' # None,
                      active'.task = active.task
               PROVE  Keeps
    OBVIOUS
  <2>1. CASE UNCHANGED authority
    BY <2>1 DEF authority
  <2>2. CASE Dropped
    BY <2>2 DEF Dropped
  <2>3. ASSUME NEW c \in Calls, Authorize(c) PROVE FALSE
    <3>1. active'.task = minted + 1
      BY <2>3 DEF Authorize
    <3>2. minted \in Nat /\ active.task \in Nat /\ active.task <= minted
      BY DEF IInv, TypeOK, GrantOK, Guard
    <3> QED BY <3>1, <3>2
  <2>4. ASSUME NEW c \in Calls, Accept(c) PROVE Keeps
    <3>1. pending # None => pending \in active.pages
      BY DEF IInv, GrantOK
    <3>2. op[c].page # None
      <4>1. op[c].page \in made
        BY <2>4, AcceptFacts
      <4> QED BY <4>1, ConstantsAssumption DEF IInv, TypeOK
    <3>3. /\ active'.expires = active.expires /\ active'.allows = active.allows
          /\ op[c].page \in made /\ active'.pages = After(c)
      BY <2>4, AcceptFacts
    <3>4. CASE /\ op[c].kind = "create" /\ pending = None
               /\ op[c].page \notin active.pages /\ pending' = op[c].page
               /\ After(c) = active.pages \cup {op[c].page}
      BY <3>3, <3>4
    <3>5. CASE /\ pending = op[c].page /\ pending' = None
               /\ After(c) = active.pages \ {pending}
      BY <3>1, <3>2, <3>3, <3>5
    <3> QED BY <2>4, <3>4, <3>5, AcceptFacts
  <2> QED BY <2>1, <2>2, <2>3, <2>4, AuthoritySteps
<1>2. [][Keeps]_vars <=> RebindKeepsTask
  BY DEF RebindKeepsTask
<1> QED BY <1>1, <1>2, Invariance, PTL DEF Spec

\* A pending clone is let go by its cleanup or by its grant's expiry only.
THEOREM PendingsKept == Spec => PendingKept
<1> DEFINE Keeps ==
      pending # None /\ pending' # pending =>
        \/ now >= active.expires
        \/ /\ active' # None /\ active'.task = active.task
           /\ pending \notin active'.pages
<1>1. IInv /\ [Next]_vars => Keeps
  <2> SUFFICES ASSUME IInv, [Next]_vars, pending # None, pending' # pending
               PROVE  Keeps
    OBVIOUS
  <2>1. active # None /\ Transition
    BY DEF IInv, GrantOK, Transition
  <2>2. CASE UNCHANGED authority
    BY <2>2 DEF authority
  <2>3. CASE Expired
    BY <2>3 DEF Expired
  <2>4. ASSUME NEW c \in Calls, Authorize(c) PROVE Expired
    BY <2>1, <2>4 DEF Authorize, Current
  <2>5. ASSUME NEW c \in Calls, Accept(c) PROVE Keeps
    BY <2>5, NoneAssumption, AcceptFacts
  <2> QED BY <2>1, <2>2, <2>3, <2>4, <2>5, AuthoritySteps
<1>2. [][Keeps]_vars <=> PendingKept
  BY DEF PendingKept
<1> QED BY <1>1, <1>2, Invariance, PTL DEF Spec

----------------------------------------------------------------------------
(* Refinement                                                              *)

Relying == {c \in Calls : c \in {execLease, dispatchLease}}

LEMMA SameLeases ==
  ASSUME UNCHANGED <<execLease, dispatchLease>> PROVE Relying' = Relying
BY DEF Relying

LEMMA TakesExecution ==
  ASSUME IInv, NEW c \in Calls, BeginChange(c) \/ BeginPublish(c)
  PROVE  Grant!Rely(c)
<1>1. /\ active # None /\ active' = active /\ execLease = None
      /\ execLease' = c /\ dispatchLease' = dispatchLease
  BY DEF BeginChange, BeginPublish, Authorised, authority
<1>2. Relying' = Relying \cup {c}
  BY <1>1, ConstantsAssumption DEF Relying
<1> QED BY <1>1, <1>2 DEF Grant!Rely, Relying

LEMMA TakesDispatch ==
  ASSUME IInv, NEW c \in Calls, Dispatch(c) PROVE Grant!Rely(c)
<1>1. /\ active # None /\ active' = active /\ execLease' = execLease
      /\ dispatchLease = None /\ dispatchLease' = c
  BY DEF Dispatch, authority
<1>2. Relying' = Relying \cup {c}
  BY <1>1, ConstantsAssumption DEF Relying
<1> QED BY <1>1, <1>2 DEF Grant!Rely, Relying

LEMMA GivesBack ==
  ASSUME IInv, NEW c \in Calls, EndWork(c) \/ EndFlight(c) \/ Answer(c)
  PROVE  active' = active /\ (Grant!Leave(c) \/ Relying' = Relying)
<1>1. active' = active
  BY DEF EndWork, EndFlight, Answer, authority
<1>2. op[c].pc \in {"work", "flight", "sent"} /\ Holds(c, op[c])
  BY Busy DEF EndWork, EndFlight, Answer, At
<1>3. CASE EndWork(c)
  <2>1. dispatchLease # c /\ dispatchLease' = dispatchLease
        /\ execLease' = IF execLease = c THEN None ELSE execLease
    BY <1>2, <1>3 DEF EndWork, At, Holds, Flying
  <2>2. Relying' = Relying \ {c} \/ Relying' = Relying
    BY <2>1, ConstantsAssumption DEF Relying
  <2> QED BY <1>1, <2>2 DEF Grant!Leave, Relying
<1>4. CASE EndFlight(c) \/ Answer(c)
  <2>1. dispatchLease = c /\ dispatchLease' = None /\ execLease' = execLease
    BY <1>2, <1>4 DEF EndFlight, Answer, At, Holds, Flying
  <2>2. Relying' = Relying \ {c} \/ Relying' = Relying
    BY <2>1, ConstantsAssumption DEF Relying
  <2> QED BY <1>1, <2>2 DEF Grant!Leave, Relying
<1> QED BY <1>3, <1>4

\* Steps that take or give back no lease that pins the grant.
LEMMA LeaseSteps ==
  ASSUME IInv, [Next]_vars
  PROVE  \/ UNCHANGED <<execLease, dispatchLease>>
         \/ \E c \in Calls :
              \/ BeginChange(c) \/ BeginPublish(c) \/ Dispatch(c)
              \/ EndWork(c) \/ EndFlight(c) \/ Answer(c)
<1>1. ASSUME NEW c \in Calls, Begin(c), ~BeginChange(c), ~BeginPublish(c)
      PROVE  UNCHANGED <<execLease, dispatchLease>>
  BY <1>1 DEF Begin, Lapse, BeginCapture, BeginPlan, BeginCreate,
              BeginCleanup, leases
<1>2. ASSUME NEW c \in Calls, Proceed(c), ~Dispatch(c), ~EndWork(c),
             ~EndFlight(c), ~Answer(c)
      PROVE  UNCHANGED <<execLease, dispatchLease>>
  <2>1. CASE Capture(c) \/ AuthorizeRefused(c) \/ AuthorizeInvalid(c)
             \/ Authorize(c) \/ Verify(c)
    BY <2>1 DEF Capture, AuthorizeRefused, AuthorizeInvalid, Authorize, Verify,
                Resumes, leases
  <2>2. CASE RecordPlan(c) \/ OpenSession(c) \/ OpenLapsed(c) \/ Bind(c)
             \/ LeaveSession(c) \/ CloseSession(c)
    BY <2>2 DEF RecordPlan, OpenSession, OpenLapsed, Bind, LeaveSession,
                CloseSession, leases
  <2>3. CASE SendCreate(c) \/ SendCleanup(c) \/ Accept(c) \/ Reject(c)
    BY <2>3 DEF SendCreate, SendCleanup, Accept, Reject, leases
  <2> QED BY <1>2, <2>1, <2>2, <2>3 DEF Proceed
<1>3. CASE (\E request \in wire : Land(request) \/ Lost(request))
           \/ Drift \/ Tick
  BY <1>3 DEF Land, Lost, Drift, Tick, leases
<1>4. CASE UNCHANGED vars
  BY <1>4 DEF vars, leases
<1> QED BY <1>1, <1>2, <1>3, <1>4 DEF Next

\* The authority implements PinnedGrant: the grant changes only while nobody
\* executes a task or runs a remote transaction.
THEOREM ImplementsPinnedGrant == Spec => PinsGrant
<1>1. Init => Grant!Init
  BY ConstantsAssumption DEF Init, Grant!Init
<1>2. IInv /\ [Next]_vars => [Grant!Next]_(Grant!vars)
  <2> SUFFICES ASSUME IInv, [Next]_vars
               PROVE  [Grant!Next]_(Grant!vars)
    OBVIOUS
  <2>1. ASSUME active' = active, Relying' = Relying
        PROVE  UNCHANGED Grant!vars
    BY <2>1 DEF Grant!vars, Relying
  <2>2. ASSUME execLease = None, dispatchLease = None,
               UNCHANGED <<execLease, dispatchLease>>
        PROVE  Grant!Next
    <3>1. active' \in Guard \cup {None}
      BY NextInvariant DEF IInv, TypeOK
    <3>2. Relying = {} /\ Relying' = Relying
      BY <2>2, ConstantsAssumption DEF Relying
    <3> QED BY <3>1, <3>2 DEF Grant!Next, Grant!Change, Relying
  <2>3. ASSUME NEW c \in Calls,
               \/ BeginChange(c) \/ BeginPublish(c) \/ Dispatch(c)
               \/ EndWork(c) \/ EndFlight(c) \/ Answer(c)
        PROVE  [Grant!Next]_(Grant!vars)
    BY <2>1, <2>3, TakesExecution, TakesDispatch, GivesBack DEF Grant!Next
  <2>4. CASE UNCHANGED <<execLease, dispatchLease>>
    <3>1. CASE UNCHANGED authority
      BY <2>1, <2>4, <3>1, SameLeases DEF authority
    <3>2. CASE Expired \/ ~Transition
      BY <2>2, <2>4, <3>2, NobodyRelies
    <3>3. ASSUME NEW c \in Calls, Authorize(c) PROVE Grant!Next
      BY <2>2, <2>4, <3>3, NobodyRelies DEF Authorize
    <3>4. ASSUME NEW c \in Calls, Accept(c) PROVE Grant!Next
      BY <2>2, <2>4, <3>4 DEF Accept, Acceptable
    <3> QED BY <3>1, <3>2, <3>3, <3>4, AuthoritySteps
  <2> QED BY <2>3, <2>4, LeaseSteps
<1> QED BY <1>1, <1>2, Invariance, PTL DEF Spec, PinsGrant, Grant!Spec
============================================================================
