------------------------- MODULE PublicationProofs -------------------------
(***************************************************************************)
(* Proofs about Publication for every number of keys, processes, pages,    *)
(* rereads, foreign edits and faults.                                      *)
(***************************************************************************)
EXTENDS Publication, TLAPS

----------------------------------------------------------------------------
(* Type correctness                                                        *)

\* A call has read its page before it does anything else.
SeenFirst(p) == op[p].pc \in Steps \ {"read"} => op[p].before \in Page

\* A call that is somewhere is a call; an idle process is nowhere.
LEMMA PresentCall ==
  ASSUME TypeOK, NEW p \in Procs, op[p].pc \in Steps
  PROVE  op[p] \in Call
BY DEF TypeOK, Idle, Steps

LEMMA GotoType ==
  ASSUME TypeOK, NEW p \in Procs, op[p] \in Call, NEW pc \in Steps, Goto(p, pc)
  PROVE  op' \in [Procs -> Call \cup {Idle}]
<1>1. [op[p] EXCEPT !.pc = pc] \in Call
  BY DEF Call
<1> QED
  BY <1>1 DEF TypeOK, Goto

LEMMA FinishType ==
  ASSUME TypeOK, NEW p \in Procs, op[p] \in Call, NEW code \in Codes,
         Finish(p, code)
  PROVE  /\ lock' \in Procs \cup {Free, Stale}
         /\ op' \in [Procs -> Call \cup {Idle}]
         /\ reply' \in [code : Codes, action : Actions \cup {"none"},
                        page : Pages \cup {None}]
BY DEF TypeOK, Finish, Call

LEMMA AnswerType ==
  ASSUME TypeOK, NEW p \in Procs, op[p] \in Call, NEW code \in Codes,
         Answer(p, code)
  PROVE  TypeOK'
BY FinishType DEF TypeOK, Answer, world, bounds

LEMMA ConcludeType ==
  ASSUME TypeOK, NEW p \in Procs, op[p] \in Call, NEW s \in Terminal,
         NEW code \in Codes, Conclude(p, s, code)
  PROVE  TypeOK'
<1>1. op[p].key \in Keys
  BY DEF Call
<1>2. publications[op[p].key] \in Journal
  BY <1>1 DEF TypeOK
<1>3. [publications[op[p].key] EXCEPT !.state = s] \in Journal
  BY <1>2 DEF Journal
<1>4. publications' \in [Keys -> Journal]
  BY <1>1, <1>3 DEF TypeOK, Conclude
<1> QED
  BY <1>4, FinishType DEF TypeOK, Conclude, world, bounds

\* Steps that only move the call: everything else keeps its type.
LEMMA MoveType ==
  ASSUME TypeOK, op' \in [Procs -> Call \cup {Idle}],
         UNCHANGED <<world, lock, idempotency, publications, reply, dispatches,
                     bounds>>
  PROVE  TypeOK'
BY DEF TypeOK, world, bounds

LEMMA ExecuteType ==
  ASSUME TypeOK, NEW p \in Procs, SeenFirst(p),
         \/ Read(p) \/ ReadThrows(p) \/ ClaimRefused(p) \/ ClaimBinds(p)
         \/ ClaimDirectory(p) \/ ClaimEvent(p) \/ Dispatch(p) \/ Reread(p)
  PROVE  TypeOK'
<1>1. op[p] \in Call
  BY PresentCall DEF Read, ReadThrows, ClaimRefused, ClaimBinds, ClaimDirectory,
     ClaimEvent, Dispatch, Reread, At, Steps
<1>2. op[p].key \in Keys /\ op[p].page \in Pages /\ op[p].action \in Actions
  BY <1>1 DEF Call
<1>3. page[op[p].page] \in Page
  BY <1>2 DEF TypeOK
<1>4. CASE Read(p)
  <2>1. [op[p] EXCEPT !.before = page[op[p].page], !.pc = "claim"] \in Call
    BY <1>1, <1>3 DEF Call, Steps
  <2> QED
    BY <1>4, <2>1, MoveType DEF Read, TypeOK
<1>5. CASE ReadThrows(p) \/ ClaimRefused(p)
  BY <1>1, <1>5, AnswerType DEF ReadThrows, ClaimRefused, Codes
<1>6. CASE ClaimBinds(p)
  <2>1. idempotency' \in [Keys -> {"unbound", "publication", "other"}]
    BY <1>6 DEF ClaimBinds, TypeOK
  <2>2. op' \in [Procs -> Call \cup {Idle}]
    BY <1>1, <1>6, GotoType DEF ClaimBinds, Steps
  <2> QED
    BY <1>6, <2>1, <2>2 DEF TypeOK, ClaimBinds, world, bounds
<1>7. CASE ClaimDirectory(p)
  <2>1. [NoJournal EXCEPT !.state = "EMPTY"] \in Journal
    BY DEF NoJournal, Journal
  <2>2. publications' \in [Keys -> Journal]
    BY <1>7, <2>1 DEF ClaimDirectory, TypeOK
  <2>3. op' \in [Procs -> Call \cup {Idle}]
    BY <1>1, <1>7, GotoType DEF ClaimDirectory, Steps
  <2> QED
    BY <1>7, <2>2, <2>3 DEF TypeOK, ClaimDirectory, world, bounds
<1>8. CASE Dispatch(p)
  <2>1. dispatches' \in [Keys -> Nat] /\ pending' \subseteq Keys
    BY <1>2, <1>8 DEF Dispatch, TypeOK
  <2>2. op' \in [Procs -> Call \cup {Idle}]
    BY <1>1, <1>8, GotoType DEF Dispatch, Steps
  <2> QED
    BY <1>8, <2>1, <2>2 DEF TypeOK, Dispatch, bounds
<1>9. CASE Reread(p)
  <2>1. PICK seen \in {page[op[p].page], None} :
          \/ /\ op[p].tries < Rereads
             /\ op' = [op EXCEPT ![p] = [@ EXCEPT !.seen = seen,
                                            !.tries = op[p].tries + 1]]
          \/ op' = [op EXCEPT ![p] = [@ EXCEPT !.seen = seen, !.pc = "settle"]]
    BY <1>9 DEF Reread
  <2>2. seen \in Page \cup {None} /\ op[p].tries \in 0 .. Rereads
    BY <1>1, <1>3 DEF Call
  <2>3. op[p].tries < Rereads => op[p].tries + 1 \in 0 .. Rereads
    BY <2>2, ConstantsAssumption
  <2>4. CASE /\ op[p].tries < Rereads
             /\ op' = [op EXCEPT ![p] = [@ EXCEPT !.seen = seen,
                                            !.tries = op[p].tries + 1]]
    <3> DEFINE n == op[p].tries + 1
               o == [op[p] EXCEPT !.seen = seen, !.tries = n]
    <3>0. n \in 0 .. Rereads
      BY <2>3, <2>4
    <3>1. op' = [op EXCEPT ![p] = o]
      BY <2>4
    <3> HIDE DEF n
    <3>2. o \in Call
      BY <1>1, <2>2, <3>0 DEF Call
    <3> HIDE DEF o
    <3>3. op' \in [Procs -> Call \cup {Idle}]
      BY <3>1, <3>2 DEF TypeOK
    <3> QED
      BY <1>9, <3>3, MoveType DEF Reread
  <2>5. CASE op' = [op EXCEPT ![p] = [@ EXCEPT !.seen = seen, !.pc = "settle"]]
    <3>1. [op[p] EXCEPT !.seen = seen, !.pc = "settle"] \in Call
      BY <1>1, <2>2 DEF Call, Steps
    <3>2. op' \in [Procs -> Call \cup {Idle}]
      BY <2>5, <3>1 DEF TypeOK
    <3> QED
      BY <1>9, <3>2, MoveType DEF Reread
  <2> QED
    BY <2>1, <2>4, <2>5
<1>10. CASE ClaimEvent(p)
  <2> DEFINE r == [state |-> "CLAIMED", action |-> op[p].action,
                   page |-> op[p].page, published |-> op[p].before.published,
                   changed |-> op[p].before.changed]
  <2>1. op[p].before \in Page
    BY <1>10 DEF ClaimEvent, At, SeenFirst, Steps
  <2>2. op[p].before.published \in BOOLEAN /\ op[p].before.changed \in Stamps
    BY <2>1 DEF Page
  <2>3. r \in Journal
    BY <1>2, <2>2 DEF Journal
  <2>4. publications' \in [Keys -> Journal]
    BY <1>10, <2>3 DEF ClaimEvent, TypeOK
  <2>5. op' \in [Procs -> Call \cup {Idle}]
    BY <1>1, <1>10, GotoType DEF ClaimEvent, Steps
  <2> QED
    BY <1>10, <2>4, <2>5 DEF TypeOK, ClaimEvent, world, bounds
<1> QED
  BY <1>4, <1>5, <1>6, <1>7, <1>8, <1>9, <1>10

LEMMA OutcomeType ==
  ASSUME TypeOK, NEW p \in Procs,
         Noop(p) \/ Settle(p) \/ ReplaySettled(p) \/ ReplayOpen(p)
  PROVE  TypeOK'
<1>1. op[p] \in Call
  BY PresentCall DEF Noop, Settle, ReplaySettled, ReplayOpen, At, Steps
<1>2. CASE Noop(p)
  BY <1>1, <1>2, ConcludeType DEF Noop, Terminal, Codes
<1>3. CASE Settle(p)
  BY <1>1, <1>3, ConcludeType DEF Settle, Terminal, Codes
<1>4. CASE ReplaySettled(p)
  BY <1>1, <1>4, AnswerType DEF ReplaySettled, Codes
<1>5. CASE ReplayOpen(p)
  BY <1>1, <1>5, ConcludeType DEF ReplayOpen, Terminal, Codes
<1> QED
  BY <1>2, <1>3, <1>4, <1>5

LEMMA WorldType ==
  ASSUME TypeOK,
         \/ \E p \in Procs : Begin(p) \/ WriteFails(p) \/ ProcessDies(p)
         \/ \E k \in Keys : Land(k) \/ Lost(k)
         \/ OtherBinds \/ RemoveStaleLock \/ Drift
  PROVE  TypeOK'
<1>1. ASSUME NEW p \in Procs, Begin(p) PROVE TypeOK'
  <2>1. PICK k \in Keys, a \in Actions, g \in Pages :
          op' = [op EXCEPT ![p] = [Idle EXCEPT !.pc = "read", !.key = k,
                                               !.action = a, !.page = g]]
    BY <1>1 DEF Begin
  <2>2. [Idle EXCEPT !.pc = "read", !.key = k, !.action = a, !.page = g]
          \in Call
    <3>1. 0 \in 0 .. Rereads
      BY ConstantsAssumption
    <3> QED
      BY <3>1 DEF Idle, Call, Steps
  <2> QED
    BY <1>1, <2>1, <2>2 DEF Begin, TypeOK, world, bounds
<1>2. ASSUME NEW p \in Procs, WriteFails(p) PROVE TypeOK'
  <2>1. op[p] \in Call
    BY <1>2, PresentCall DEF WriteFails, At, Steps
  <2> QED
    BY <1>2, <2>1, FinishType DEF WriteFails, TypeOK, world, Codes
<1>3. ASSUME NEW p \in Procs, ProcessDies(p) PROVE TypeOK'
  BY <1>3 DEF ProcessDies, TypeOK, world
<1>4. ASSUME NEW k \in Keys, Land(k) PROVE TypeOK'
  <2> DEFINE g == publications[k].page
             b == publications[k].action = "publish"
  <2>1. page' \in [Pages -> Page]
    <3>1. page' = [page EXCEPT ![g] = [@ EXCEPT !.published = b]]
      BY <1>4 DEF Land
    <3>2. b \in BOOLEAN
      OBVIOUS
    <3> HIDE DEF g, b
    <3>3. CASE g \in Pages
      <4>1. page[g] \in Page
        BY <3>3 DEF TypeOK
      <4>2. [page[g] EXCEPT !.published = b] \in Page
        BY <3>2, <4>1 DEF Page
      <4> QED
        BY <3>1, <3>3, <4>2 DEF TypeOK
    <3>4. CASE g \notin Pages
      BY <3>1, <3>4 DEF TypeOK
    <3> QED
      BY <3>3, <3>4
  <2>2. late' \subseteq Keys /\ pending' \subseteq Keys
    BY <1>4 DEF Land, TypeOK
  <2> QED
    BY <1>4, <2>1, <2>2 DEF Land, TypeOK, bounds
<1>5. ASSUME NEW k \in Keys, Lost(k) PROVE TypeOK'
  BY <1>5 DEF Lost, TypeOK, bounds
<1>6. CASE OtherBinds
  BY <1>6 DEF OtherBinds, TypeOK, world, bounds
<1>7. CASE RemoveStaleLock
  BY <1>7 DEF RemoveStaleLock, TypeOK, world, bounds
<1>8. CASE Drift
  BY <1>8 DEF Drift, TypeOK
<1> QED
  BY <1>1, <1>2, <1>3, <1>4, <1>5, <1>6, <1>7, <1>8

LEMMA TypeInit == Init => TypeOK
BY ConstantsAssumption DEF Init, TypeOK, Journal, NoJournal, Codes

----------------------------------------------------------------------------
(* The inductive invariant                                                 *)

\* What the store holds of one key.  A request that was sent rests on an
\* open or judged claim whose baseline was not yet as desired: that is why
\* no replay can take it for a no-op.
KeyOK(k) ==
  /\ dispatches[k] \in {0, 1}
  /\ dispatches[k] = 1 =>
       /\ publications[k].state \notin {"NONE", "EMPTY", "NOOP"}
       /\ ~Desired(publications[k].action, publications[k])
  /\ publications[k].state # "NONE" => idempotency[k] = "publication"

\* What a call may rely on while it holds the lock.
Local(p) ==
  /\ SeenFirst(p)
  /\ At(p, "directory") => /\ Claim(p).state = "NONE"
                           /\ idempotency[op[p].key] = "publication"
  /\ At(p, "event") => Claim(p).state = "EMPTY"
  /\ At(p, "act") =>
       /\ Claim(p).state = "CLAIMED" /\ dispatches[op[p].key] = 0
       /\ Claim(p).action = op[p].action
       /\ Claim(p).published = op[p].before.published

IInv ==
  /\ TypeOK /\ LockHeld
  /\ \A k \in Keys : KeyOK(k)
  /\ \A p \in Procs : Local(p)

LEMMA IdleLocal ==
  ASSUME NEW p \in Procs, op[p] = Idle
  PROVE  Local(p)
BY DEF Local, SeenFirst, At, Idle, Steps

\* Only one call is under way.
LEMMA Sole ==
  ASSUME LockHeld, NEW p \in Procs, op[p].pc \in Steps
  PROVE  lock = p /\ \A q \in Procs \ {p} : op[q] = Idle
<1>1. op[p] # Idle
  BY DEF Idle, Steps
<1> QED
  BY <1>1 DEF LockHeld

\* A call goes on: it must keep its own part and the keys in order.
LEMMA RunInv ==
  ASSUME IInv, NEW p \in Procs, op[p].pc \in Steps,
         NEW o, op' = [op EXCEPT ![p] = o], o.pc \in Steps, lock' = lock,
         TypeOK', \A k \in Keys : KeyOK(k)', Local(p)'
  PROVE  IInv'
<1>1. op'[p] = o /\ \A q \in Procs \ {p} : op'[q] = op[q]
  BY DEF IInv, TypeOK
<1>2. o # Idle
  BY DEF Idle, Steps
<1>3. lock = p /\ \A q \in Procs \ {p} : op[q] = Idle
  BY Sole DEF IInv
<1>4. LockHeld'
  BY <1>1, <1>2, <1>3 DEF LockHeld
<1>5. ASSUME NEW q \in Procs \ {p} PROVE Local(q)'
  <2>1. op'[q] = Idle
    BY <1>1, <1>3
  <2> QED
    BY <2>1 DEF Local, SeenFirst, At, Idle, Steps
<1> QED
  BY <1>4, <1>5 DEF IInv

\* A call ends, whatever it answers.
LEMMA EndInv ==
  ASSUME IInv, NEW p \in Procs, op[p].pc \in Steps,
         op' = [op EXCEPT ![p] = Idle], lock' \in {Free, Stale},
         TypeOK', \A k \in Keys : KeyOK(k)'
  PROVE  IInv'
<1>1. \A q \in Procs : op'[q] = Idle
  BY Sole DEF IInv, TypeOK
<1>2. LockHeld'
  BY <1>1, ConstantsAssumption DEF LockHeld
<1>3. ASSUME NEW q \in Procs PROVE Local(q)'
  BY <1>1 DEF Local, SeenFirst, At, Idle, Steps
<1> QED
  BY <1>2, <1>3 DEF IInv

LEMMA SameKeys ==
  ASSUME IInv, UNCHANGED <<publications, idempotency, dispatches>>
  PROVE  \A k \in Keys : KeyOK(k)'
BY DEF IInv, KeyOK, Desired

LEMMA AnswerInv ==
  ASSUME IInv, NEW p \in Procs, op[p].pc \in Steps, NEW code \in Codes,
         Answer(p, code)
  PROVE  IInv'
<1>1. TypeOK'
  BY PresentCall, AnswerType DEF IInv
<1> QED
  BY <1>1, EndInv, SameKeys DEF Answer, Finish

\* An outcome is journalled: only a no-op says something about requests.
LEMMA ConcludeInv ==
  ASSUME IInv, NEW p \in Procs, op[p].pc \in Steps, NEW s \in Terminal,
         NEW code \in Codes, Conclude(p, s, code),
         s = "NOOP" => dispatches[op[p].key] = 0
  PROVE  IInv'
<1>1. op[p] \in Call /\ op[p].key \in Keys /\ TypeOK'
  BY PresentCall, ConcludeType DEF IInv, Call
<1>2. ASSUME NEW k \in Keys PROVE KeyOK(k)'
  <2> DEFINE r == publications[k]
  <2>1. /\ publications'[k].action = r.action
        /\ publications'[k].published = r.published
        /\ \/ publications'[k].state = r.state
           \/ k = op[p].key /\ publications'[k].state = s /\ r.state = "CLAIMED"
    <3>1. publications[op[p].key] \in Journal /\ publications[k] \in Journal
      BY <1>1 DEF IInv, TypeOK
    <3>2. /\ publications' = [publications EXCEPT
               ![op[p].key] = [publications[op[p].key] EXCEPT !.state = s]]
          /\ publications[op[p].key].state = "CLAIMED"
      BY DEF Conclude, Claim
    <3> QED
      BY <1>1, <3>1, <3>2 DEF IInv, TypeOK, Journal
  <2>2. UNCHANGED <<idempotency, dispatches>>
    BY DEF Conclude
  <2> QED
    BY <2>1, <2>2 DEF IInv, KeyOK, Desired, Terminal
<1> QED
  BY <1>1, <1>2, EndInv DEF Conclude, Finish

\* A call goes to its next step: what that step relies on must hold.
LEMMA GotoInv ==
  ASSUME IInv, NEW p \in Procs, op[p].pc \in Steps, NEW pc \in Steps,
         Goto(p, pc), lock' = lock, TypeOK', \A k \in Keys : KeyOK(k)',
         pc # "read" => op[p].before \in Page,
         pc = "directory" => /\ publications'[op[p].key].state = "NONE"
                             /\ idempotency'[op[p].key] = "publication",
         pc = "event" => publications'[op[p].key].state = "EMPTY",
         pc = "act" =>
           /\ publications'[op[p].key].state = "CLAIMED"
           /\ dispatches'[op[p].key] = 0
           /\ publications'[op[p].key].action = op[p].action
           /\ publications'[op[p].key].published = op[p].before.published
  PROVE  IInv'
<1> DEFINE o == [op[p] EXCEPT !.pc = pc]
<1>1. op[p] \in Call
  BY PresentCall DEF IInv
<1>2. /\ o.pc = pc /\ o.key = op[p].key /\ o.before = op[p].before
      /\ o.action = op[p].action
  BY <1>1 DEF Call
<1>3. op' = [op EXCEPT ![p] = o] /\ op'[p] = o
  BY DEF Goto, IInv, TypeOK
<1> HIDE DEF o
<1>4. Local(p)'
  BY <1>2, <1>3 DEF Local, SeenFirst, At, Claim
<1> QED
  BY <1>2, <1>3, <1>4, RunInv

LEMMA ReadInv ==
  ASSUME IInv, NEW p \in Procs, Read(p) \/ Reread(p)
  PROVE  IInv'
<1>1. op[p] \in Call /\ op[p].pc \in Steps
  BY PresentCall DEF IInv, Read, Reread, At, Steps
<1>2. TypeOK' /\ \A k \in Keys : KeyOK(k)'
  BY ExecuteType, SameKeys DEF IInv, Local, Read, Reread
<1>3. CASE Read(p)
  <2> DEFINE o == [op[p] EXCEPT !.before = page[op[p].page], !.pc = "claim"]
  <2>1. o.pc = "claim" /\ o.before = page[op[p].page]
    BY <1>1 DEF Call
  <2>2. o.before \in Page
    BY <1>1, <2>1 DEF Call, IInv, TypeOK
  <2>3. op' = [op EXCEPT ![p] = o] /\ op'[p] = o
    BY <1>3 DEF Read, IInv, TypeOK
  <2> HIDE DEF o
  <2>4. Local(p)'
    BY <2>1, <2>2, <2>3 DEF Local, SeenFirst, At
  <2> QED
    BY <1>1, <1>2, <1>3, <2>1, <2>3, <2>4, RunInv DEF Read, Steps
<1>4. CASE Reread(p)
  <2>1. /\ op' = [op EXCEPT ![p] = op'[p]]
        /\ op'[p].pc \in {"reread", "settle"}
        /\ op'[p].before = op[p].before
    <3>1. PICK seen \in {page[op[p].page], None} :
            \/ op' = [op EXCEPT ![p] = [@ EXCEPT !.seen = seen,
                                          !.tries = op[p].tries + 1]]
            \/ op' = [op EXCEPT ![p] = [@ EXCEPT !.seen = seen,
                                                 !.pc = "settle"]]
      BY <1>4 DEF Reread
    <3> DEFINE n == op[p].tries + 1
               o == [op[p] EXCEPT !.seen = seen, !.tries = n]
               e == [op[p] EXCEPT !.seen = seen, !.pc = "settle"]
    <3>2. op' = [op EXCEPT ![p] = o] \/ op' = [op EXCEPT ![p] = e]
      BY <3>1
    <3> HIDE DEF n
    <3>3. /\ o.pc = op[p].pc /\ o.before = op[p].before
          /\ e.pc = "settle" /\ e.before = op[p].before
      BY <1>1 DEF Call
    <3> HIDE DEF o, e
    <3> QED
      BY <1>4, <3>2, <3>3 DEF Reread, At, IInv, TypeOK
  <2>2. op[p].before \in Page
    BY <1>4 DEF Reread, At, IInv, Local, SeenFirst, Steps
  <2>3. Local(p)'
    BY <2>1, <2>2 DEF Local, SeenFirst, At
  <2> QED
    BY <1>1, <1>2, <1>4, <2>1, <2>3, RunInv DEF Reread, Steps
<1> QED
  BY <1>3, <1>4

LEMMA ClaimInv ==
  ASSUME IInv, NEW p \in Procs,
         ClaimBinds(p) \/ ClaimDirectory(p) \/ ClaimEvent(p)
  PROVE  IInv'
<1>1. /\ op[p] \in Call /\ op[p].pc \in Steps /\ op[p].key \in Keys
      /\ op[p].before \in Page
  BY PresentCall DEF IInv, Local, SeenFirst, ClaimBinds, ClaimDirectory,
     ClaimEvent, At, Steps, Call
<1>2. TypeOK'
  BY ExecuteType DEF IInv, Local
<1>3. CASE ClaimBinds(p)
  <2>1. ASSUME NEW k \in Keys PROVE KeyOK(k)'
    BY <1>1, <1>3, <2>1 DEF ClaimBinds, IInv, TypeOK, KeyOK, Desired
  <2>2. /\ publications'[op[p].key].state = "NONE"
        /\ idempotency'[op[p].key] = "publication"
    BY <1>1, <1>3 DEF ClaimBinds, Claim, IInv, TypeOK
  <2> QED
    BY <1>1, <1>2, <1>3, <2>1, <2>2, GotoInv DEF ClaimBinds, Steps
<1>4. CASE ClaimDirectory(p)
  <2> DEFINE r == [NoJournal EXCEPT !.state = "EMPTY"]
  <2>1. Claim(p).state = "NONE" /\ idempotency[op[p].key] = "publication"
    BY <1>4 DEF ClaimDirectory, IInv, Local
  <2>2. publications' = [publications EXCEPT ![op[p].key] = r]
    BY <1>4 DEF ClaimDirectory
  <2>3. r.state = "EMPTY"
    BY DEF NoJournal
  <2> HIDE DEF r
  <2>4. publications'[op[p].key].state = "EMPTY"
    BY <1>1, <2>2, <2>3 DEF IInv, TypeOK
  <2>5. ASSUME NEW k \in Keys PROVE KeyOK(k)'
    <3>1. CASE k = op[p].key
      BY <1>4, <2>1, <2>4, <3>1 DEF ClaimDirectory, IInv, KeyOK, Claim, Desired
    <3>2. CASE k # op[p].key
      BY <1>4, <2>2, <3>2 DEF ClaimDirectory, IInv, TypeOK, KeyOK, Desired
    <3> QED
      BY <3>1, <3>2
  <2> QED
    BY <1>1, <1>2, <1>4, <2>4, <2>5, GotoInv DEF ClaimDirectory, Steps
<1>5. CASE ClaimEvent(p)
  <2> DEFINE r == [state |-> "CLAIMED", action |-> op[p].action,
                   page |-> op[p].page, published |-> op[p].before.published,
                   changed |-> op[p].before.changed]
  <2>1. Claim(p).state = "EMPTY"
    BY <1>5 DEF ClaimEvent, IInv, Local
  <2>2. dispatches[op[p].key] = 0 /\ idempotency[op[p].key] = "publication"
    BY <1>1, <2>1 DEF IInv, KeyOK, Claim
  <2>3. publications' = [publications EXCEPT ![op[p].key] = r]
    BY <1>5 DEF ClaimEvent
  <2>4. /\ r.state = "CLAIMED" /\ r.action = op[p].action
        /\ r.published = op[p].before.published
    OBVIOUS
  <2> HIDE DEF r
  <2>5. publications'[op[p].key] = r
    BY <1>1, <2>3 DEF IInv, TypeOK
  <2>6. ASSUME NEW k \in Keys PROVE KeyOK(k)'
    <3>1. CASE k = op[p].key
      BY <1>5, <2>2, <3>1 DEF ClaimEvent, IInv, KeyOK
    <3>2. CASE k # op[p].key
      BY <1>5, <2>3, <3>2 DEF ClaimEvent, IInv, TypeOK, KeyOK, Desired
    <3> QED
      BY <3>1, <3>2
  <2> QED
    BY <1>1, <1>2, <1>5, <2>2, <2>4, <2>5, <2>6, GotoInv DEF ClaimEvent, Steps
<1> QED
  BY <1>3, <1>4, <1>5

LEMMA DispatchInv ==
  ASSUME IInv, NEW p \in Procs, Dispatch(p)
  PROVE  IInv'
<1>1. /\ op[p] \in Call /\ op[p].pc \in Steps /\ op[p].key \in Keys
      /\ op[p].before \in Page
  BY PresentCall DEF IInv, Local, SeenFirst, Dispatch, At, Steps, Call
<1>2. TypeOK'
  BY ExecuteType DEF IInv, Local
<1>3. /\ Claim(p).state = "CLAIMED" /\ dispatches[op[p].key] = 0
      /\ ~Desired(Claim(p).action, Claim(p))
  BY DEF Dispatch, IInv, Local, Desired
<1>4. dispatches' = [dispatches EXCEPT ![op[p].key] = 1]
  BY <1>3 DEF Dispatch
<1>5. ASSUME NEW k \in Keys PROVE KeyOK(k)'
  <2>1. CASE k = op[p].key
    BY <1>3, <1>4, <2>1 DEF Dispatch, IInv, TypeOK, KeyOK, Claim, Desired
  <2>2. CASE k # op[p].key
    BY <1>4, <2>2 DEF Dispatch, IInv, TypeOK, KeyOK, Desired
  <2> QED
    BY <2>1, <2>2
<1> QED
  BY <1>1, <1>2, <1>5, GotoInv DEF Dispatch, Steps

LEMMA OutcomeInv ==
  ASSUME IInv, NEW p \in Procs,
         \/ ReadThrows(p) \/ ClaimRefused(p) \/ ReplaySettled(p)
         \/ Noop(p) \/ Settle(p) \/ ReplayOpen(p)
  PROVE  IInv'
<1>1. /\ op[p] \in Call /\ op[p].pc \in Steps /\ op[p].key \in Keys
  BY PresentCall DEF IInv, Noop, Settle, ReplayOpen, ReadThrows, ClaimRefused,
     ReplaySettled, At, Steps, Call
<1>2. CASE ReadThrows(p) \/ ClaimRefused(p) \/ ReplaySettled(p)
  BY <1>1, <1>2, AnswerInv DEF ReadThrows, ClaimRefused, ReplaySettled, Codes
<1>3. CASE Noop(p)
  BY <1>1, <1>3, ConcludeInv DEF Noop, Terminal, Codes, IInv, Local
<1>4. CASE Settle(p)
  BY <1>1, <1>4, ConcludeInv DEF Settle, Terminal, Codes
<1>5. CASE ReplayOpen(p)
  <2>1. Desired(op[p].action, Claim(p)) => dispatches[op[p].key] = 0
    BY <1>1, <1>5 DEF ReplayOpen, OwnJournal, IInv, KeyOK, Claim
  <2> QED
    BY <1>1, <1>5, <2>1, ConcludeInv DEF ReplayOpen, Terminal, Codes
<1> QED
  BY <1>2, <1>3, <1>4, <1>5

LEMMA WorldInv ==
  ASSUME IInv,
         \/ \E p \in Procs : Begin(p) \/ WriteFails(p) \/ ProcessDies(p)
         \/ \E k \in Keys : Land(k) \/ Lost(k)
         \/ OtherBinds \/ RemoveStaleLock \/ Drift
  PROVE  IInv'
<1>1. TypeOK'
  BY WorldType DEF IInv
<1>2. ASSUME NEW p \in Procs, Begin(p) PROVE IInv'
  <2>1. PICK o : op' = [op EXCEPT ![p] = o] /\ o.pc = "read"
    <3>1. PICK k \in Keys, a \in Actions, g \in Pages :
            op' = [op EXCEPT ![p] = [Idle EXCEPT !.pc = "read", !.key = k,
                                                 !.action = a, !.page = g]]
      BY <1>2 DEF Begin
    <3> DEFINE c == [Idle EXCEPT !.pc = "read", !.key = k, !.action = a,
                                 !.page = g]
    <3>2. c.pc = "read"
      BY DEF Idle
    <3>3. op' = [op EXCEPT ![p] = c]
      BY <3>1
    <3> HIDE DEF c
    <3> QED
      BY <3>2, <3>3
  <2>2. op'[p] = o /\ o # Idle /\ \A q \in Procs \ {p} : op'[q] = op[q]
    BY <2>1 DEF IInv, TypeOK, Idle
  <2>3. \A q \in Procs : op[q] = Idle
    BY <1>2, ConstantsAssumption DEF Begin, IInv, LockHeld
  <2>4. LockHeld'
    BY <1>2, <2>2, <2>3 DEF Begin, LockHeld
  <2>5. ASSUME NEW q \in Procs PROVE Local(q)'
    <3>1. op'[q].pc \in {"read", "idle"}
      BY <2>1, <2>2, <2>3 DEF Idle
    <3> QED
      BY <3>1 DEF Local, SeenFirst, At, Steps
  <2> QED
    BY <1>1, <1>2, <2>4, <2>5, SameKeys DEF Begin, IInv
<1>3. ASSUME NEW p \in Procs, WriteFails(p) PROVE IInv'
  <2>1. op[p].pc \in Steps
    BY <1>3 DEF WriteFails, At, Steps
  <2> QED
    BY <1>1, <1>3, <2>1, EndInv, SameKeys DEF WriteFails, Finish
<1>4. ASSUME NEW p \in Procs, ProcessDies(p) PROVE IInv'
  <2>1. op[p] # Idle
    BY <1>4 DEF ProcessDies, IInv, LockHeld
  <2>2. op[p].pc \in Steps
    BY <2>1 DEF IInv, TypeOK, Call
  <2> QED
    BY <1>1, <1>4, <2>2, EndInv, SameKeys DEF ProcessDies
<1>5. CASE OtherBinds
  <2>1. UNCHANGED <<publications, dispatches, op, lock>>
    BY <1>5 DEF OtherBinds
  <2>2. \A k \in Keys : idempotency[k] # "unbound"
          => idempotency'[k] = idempotency[k]
    BY <1>5 DEF OtherBinds, IInv, TypeOK
  <2>3. \A k \in Keys : KeyOK(k)'
    BY <2>1, <2>2 DEF IInv, KeyOK, Desired
  <2>4. \A p \in Procs : op[p] = Idle
    BY <1>5, ConstantsAssumption DEF OtherBinds, IInv, LockHeld
  <2>5. ASSUME NEW p \in Procs PROVE Local(p)'
    BY <2>1, <2>4 DEF Local, SeenFirst, At, Idle, Steps
  <2> QED
    BY <1>1, <2>1, <2>3, <2>5 DEF IInv, LockHeld
<1>6. ASSUME \/ \E k \in Keys : Land(k) \/ Lost(k)
             \/ RemoveStaleLock \/ Drift
      PROVE  IInv'
  <2>1. UNCHANGED <<publications, idempotency, dispatches, op>>
    BY <1>6 DEF Land, Lost, RemoveStaleLock, Drift
  <2>2. lock' = lock \/ (lock = Stale /\ lock' = Free)
    BY <1>6 DEF Land, Lost, RemoveStaleLock, Drift
  <2>3. LockHeld'
    BY <2>1, <2>2, ConstantsAssumption DEF IInv, LockHeld
  <2>4. \A p \in Procs : Local(p)'
    BY <2>1 DEF IInv, Local, SeenFirst, At, Claim
  <2> QED
    BY <1>1, <2>1, <2>3, <2>4, SameKeys DEF IInv
<1> QED
  BY <1>2, <1>3, <1>4, <1>5, <1>6

LEMMA InvStep ==
  ASSUME IInv, [Next]_vars
  PROVE  IInv'
<1>1. CASE UNCHANGED vars
  <2>1. TypeOK' /\ \A k \in Keys : KeyOK(k)'
    BY <1>1, SameKeys DEF IInv, TypeOK, vars, world, bounds
  <2>2. \A p \in Procs : Local(p)'
    BY <1>1 DEF IInv, Local, SeenFirst, At, Claim, vars
  <2> QED
    BY <1>1, <2>1, <2>2 DEF IInv, LockHeld, vars
<1>2. ASSUME NEW p \in Procs, Proceed(p) PROVE IInv'
  BY <1>2, ReadInv, ClaimInv, DispatchInv, OutcomeInv DEF Proceed
<1> QED
  BY <1>1, <1>2, WorldInv DEF Next

LEMMA InvInit == Init => IInv
<1> SUFFICES ASSUME Init PROVE IInv
  OBVIOUS
<1>1. TypeOK
  BY TypeInit
<1>2. LockHeld
  BY ConstantsAssumption DEF Init, LockHeld
<1>3. \A k \in Keys : KeyOK(k)
  <2>1. \A k \in Keys : dispatches[k] = 0 /\ publications[k].state = "NONE"
    BY DEF Init, NoJournal
  <2> QED
    BY <2>1, 0 # 1 DEF KeyOK
<1>4. \A p \in Procs : Local(p)
  BY IdleLocal DEF Init
<1> QED
  BY <1>1, <1>2, <1>3, <1>4 DEF IInv

LEMMA Invariance == Spec => []IInv
BY InvInit, InvStep, PTL DEF Spec

----------------------------------------------------------------------------
(* What follows                                                            *)

\* Every reachable state of the controller has the types of TypeOK.
THEOREM TypeCorrect == Spec => []TypeOK
BY Invariance, PTL DEF IInv

\* LockHeld: the process inside a call is the one the lock file names.
THEOREM LockCorrect == Spec => []LockHeld
BY Invariance, PTL DEF IInv

\* DispatchedOnce: no replay, process or death sends a request twice, and
\* none is sent before its claim is on disk.
THEOREM RequestSentOnce == Spec => []DispatchedOnce
<1>1. IInv => DispatchedOnce
  <2> SUFFICES ASSUME IInv, NEW k \in Keys
               PROVE  /\ dispatches[k] <= 1
                      /\ dispatches[k] = 1 =>
                           publications[k].state \notin {"NONE", "EMPTY"}
    BY DEF DispatchedOnce
  <2>1. dispatches[k] \in {0, 1}
    BY DEF IInv, KeyOK
  <2>2. dispatches[k] <= 1
    BY <2>1
  <2> QED
    BY <2>2 DEF IInv, KeyOK
<1> QED
  BY <1>1, Invariance, PTL

\* NoopSilent: what is journalled as a no-op sent nothing.
THEOREM NoopsSilent == Spec => []NoopSilent
<1>1. IInv => NoopSilent
  BY DEF IInv, KeyOK, NoopSilent
<1> QED
  BY <1>1, Invariance, PTL

\* One key of KeyKept.
Keeps(k) ==
  /\ idempotency[k] # "unbound" => idempotency'[k] = idempotency[k]
  /\ publications[k].state \notin {"NONE", "EMPTY"} =>
       publications'[k] =
         [publications[k] EXCEPT !.state = publications'[k].state]

LEMMA KeepStep ==
  ASSUME IInv, [Next]_vars, NEW k \in Keys
  PROVE  Keeps(k)
<1>1. publications[k] \in Journal
  BY DEF IInv, TypeOK
<1>2. CASE publications'[k] = publications[k] /\ idempotency'[k] = idempotency[k]
  BY <1>1, <1>2 DEF Keeps, Journal
<1>3. ASSUME NEW p \in Procs, NEW s \in Terminal, NEW code \in Codes,
             op[p].key \in Keys, Conclude(p, s, code)
      PROVE  Keeps(k)
  <2>1. idempotency' = idempotency
    BY <1>3 DEF Conclude
  <2>2. publications' = [publications EXCEPT
          ![op[p].key] = [publications[op[p].key] EXCEPT !.state = s]]
    BY <1>3 DEF Conclude
  <2>3. CASE k = op[p].key
    <3>1. publications'[k] = [publications[k] EXCEPT !.state = s]
      BY <1>3, <2>2, <2>3 DEF IInv, TypeOK
    <3>2. publications'[k].state = s
      BY <1>1, <3>1 DEF Journal
    <3> QED
      BY <2>1, <3>1, <3>2 DEF Keeps
  <2>4. CASE k # op[p].key
    BY <1>2, <2>1, <2>2, <2>4 DEF IInv, TypeOK
  <2> QED
    BY <2>3, <2>4
<1>4. ASSUME NEW p \in Procs, Proceed(p) PROVE Keeps(k)
  <2>1. /\ op[p] \in Call /\ op[p].pc \in Steps /\ op[p].key \in Keys
    BY <1>4, PresentCall DEF IInv, Proceed, Read, ReadThrows, ClaimRefused,
       ClaimBinds, ClaimDirectory, ClaimEvent, Noop, Dispatch, Reread, Settle,
       ReplaySettled, ReplayOpen, At, Steps, Call
  <2>2. CASE \/ Read(p) \/ ReadThrows(p) \/ ClaimRefused(p) \/ Dispatch(p)
             \/ Reread(p) \/ ReplaySettled(p)
    BY <1>2, <2>2 DEF Read, ReadThrows, ClaimRefused, Dispatch, Reread,
       ReplaySettled, Answer
  <2>3. CASE ClaimBinds(p)
    <3>1. /\ publications'[k] = publications[k]
          /\ idempotency[k] # "unbound" => idempotency'[k] = idempotency[k]
      BY <2>1, <2>3 DEF ClaimBinds, IInv, TypeOK
    <3> QED
      BY <1>1, <3>1 DEF Keeps, Journal
  <2>4. CASE ClaimDirectory(p) \/ ClaimEvent(p)
    <3>1. Claim(p).state \in {"NONE", "EMPTY"} /\ idempotency' = idempotency
      BY <2>4 DEF ClaimDirectory, ClaimEvent, IInv, Local
    <3>2. CASE k = op[p].key
      BY <3>1, <3>2 DEF Keeps, Claim
    <3>3. CASE k # op[p].key
      BY <1>2, <2>4, <3>1, <3>3 DEF ClaimDirectory, ClaimEvent, IInv, TypeOK
    <3> QED
      BY <3>2, <3>3
  <2>5. CASE Noop(p) \/ Settle(p) \/ ReplayOpen(p)
    BY <1>3, <2>1, <2>5 DEF Noop, Settle, ReplayOpen, Terminal, Codes
  <2> QED
    BY <1>4, <2>2, <2>3, <2>4, <2>5 DEF Proceed
<1>5. CASE OtherBinds
  <2>1. /\ publications'[k] = publications[k]
        /\ idempotency[k] # "unbound" => idempotency'[k] = idempotency[k]
    BY <1>5 DEF OtherBinds, IInv, TypeOK
  <2> QED
    BY <1>1, <2>1 DEF Keeps, Journal
<1>6. ASSUME \/ \E p \in Procs : Begin(p) \/ WriteFails(p) \/ ProcessDies(p)
             \/ \E j \in Keys : Land(j) \/ Lost(j)
             \/ RemoveStaleLock \/ Drift \/ UNCHANGED vars
      PROVE  Keeps(k)
  BY <1>2, <1>6 DEF Begin, WriteFails, ProcessDies, Land, Lost, RemoveStaleLock,
     Drift, vars
<1> QED
  BY <1>4, <1>5, <1>6 DEF Next

\* KeyKept: no step of anybody rebinds a key or rewrites what its journal
\* was claimed with.
THEOREM KeysKept == Spec => KeyKept
<1>1. ASSUME IInv, [Next]_vars
      PROVE  \A k \in Keys :
               /\ idempotency[k] # "unbound" => idempotency'[k] = idempotency[k]
               /\ publications[k].state \notin {"NONE", "EMPTY"} =>
                    publications'[k] =
                      [publications[k] EXCEPT !.state = publications'[k].state]
  BY <1>1, KeepStep DEF Keeps
<1> QED
  BY <1>1, Invariance, PTL DEF Spec, KeyKept

----------------------------------------------------------------------------
(* What the journals and the answers say of the pages                      *)

\* A request on its way was sent; a claimed key names a page; a call that
\* acts has its own open claim, and rereads only what it has sent.
Placed ==
  /\ \A k \in pending : dispatches[k] = 1
  /\ \A k \in Keys :
       publications[k].state \notin {"NONE", "EMPTY"} => publications[k].page \in Pages
  /\ \A p \in Procs :
       /\ op[p].pc \in {"act", "reread", "settle"} =>
            /\ Claim(p).state = "CLAIMED"
            /\ Claim(p).page = op[p].page /\ Claim(p).action = op[p].action
       /\ op[p].pc \in {"reread", "settle"} => dispatches[op[p].key] = 1

PlacedInv == Placed /\ IInv

\* A step in which the running call goes on, without touching the journals.
LEMMA GoesOn ==
  ASSUME TypeOK, NEW p \in Procs, op[p] \in Call, NEW pc, Goto(p, pc)
  PROVE  /\ \A q \in Procs \ {p} : op'[q] = op[q]
         /\ op'[p].pc = pc /\ op'[p].key = op[p].key
         /\ op'[p].action = op[p].action /\ op'[p].page = op[p].page
         /\ op'[p].before = op[p].before /\ op'[p].seen = op[p].seen
BY DEF TypeOK, Goto, Call

LEMMA GoesReading ==
  ASSUME TypeOK, NEW p \in Procs, op[p] \in Call, Read(p) \/ Reread(p)
  PROVE  /\ \A q \in Procs \ {p} : op'[q] = op[q]
         /\ op'[p].key = op[p].key /\ op'[p].page = op[p].page
         /\ op'[p].action = op[p].action
         /\ Read(p) => op'[p].pc = "claim" /\ op'[p].before = page[op[p].page]
         /\ Reread(p) => /\ op'[p].pc \in {"reread", "settle"}
                         /\ op'[p].seen \in {page[op[p].page], None}
<1>1. CASE Read(p)
  BY <1>1 DEF Read, Reread, At, TypeOK, Call
<1>2. CASE Reread(p)
  <2>1. PICK seen \in {page[op[p].page], None} :
          \/ op' = [op EXCEPT ![p] = [@ EXCEPT !.seen = seen,
                                        !.tries = op[p].tries + 1]]
          \/ op' = [op EXCEPT ![p] = [@ EXCEPT !.seen = seen, !.pc = "settle"]]
    BY <1>2 DEF Reread
  <2> DEFINE n == op[p].tries + 1
             o == [op[p] EXCEPT !.seen = seen, !.tries = n]
             e == [op[p] EXCEPT !.seen = seen, !.pc = "settle"]
  <2>2. op' = [op EXCEPT ![p] = o] \/ op' = [op EXCEPT ![p] = e]
    BY <2>1
  <2> HIDE DEF n
  <2>3. /\ o.pc = op[p].pc /\ o.key = op[p].key /\ o.page = op[p].page
        /\ o.action = op[p].action /\ o.seen = seen
        /\ e.pc = "settle" /\ e.key = op[p].key /\ e.page = op[p].page
        /\ e.action = op[p].action /\ e.seen = seen
    BY DEF Call
  <2> HIDE DEF o, e
  <2>4. \A q \in Procs \ {p} : op'[q] = op[q]
    BY <2>2 DEF TypeOK
  <2>5. op'[p] \in {o, e}
    BY <2>2 DEF TypeOK
  <2>6. ~Read(p) /\ op[p].pc = "reread"
    BY <1>2 DEF Read, Reread, At
  <2> QED
    BY <2>3, <2>4, <2>5, <2>6
<1> QED
  BY <1>1, <1>2

\* What a conclusion writes.
LEMMA Concludes ==
  ASSUME TypeOK, NEW p \in Procs, op[p] \in Call, NEW s, NEW code,
         Conclude(p, s, code)
  PROVE  /\ \A k \in Keys \ {op[p].key} : publications'[k] = publications[k]
         /\ publications'[op[p].key].state = s
         /\ \A k \in Keys :
              /\ publications'[k].page = publications[k].page
              /\ publications'[k].action = publications[k].action
              /\ publications'[k].published = publications[k].published
         /\ Claim(p).state = "CLAIMED" /\ op[p].key \in Keys
<1>1. op[p].key \in Keys /\ Claim(p) \in Journal
  BY DEF Call, TypeOK, Claim
<1> QED
  BY <1>1 DEF Conclude, TypeOK, Journal, Claim

\* What the two files of a claim write.
LEMMA ClaimWrites ==
  ASSUME IInv, NEW p \in Procs, ClaimDirectory(p) \/ ClaimEvent(p)
  PROVE  /\ op[p] \in Call /\ op[p].key \in Keys
         /\ \A k \in Keys \ {op[p].key} : publications'[k] = publications[k]
         /\ dispatches[op[p].key] = 0
         /\ ClaimDirectory(p) =>
              publications'[op[p].key].state = "EMPTY" /\ Goto(p, "event")
         /\ ClaimEvent(p) =>
              /\ publications'[op[p].key].state = "CLAIMED"
              /\ publications'[op[p].key].page = op[p].page
              /\ publications'[op[p].key].action = op[p].action
              /\ publications'[op[p].key].published = op[p].before.published
              /\ Goto(p, "act")
<1>1. op[p] \in Call /\ op[p].key \in Keys
  BY PresentCall DEF IInv, ClaimDirectory, ClaimEvent, At, Steps, Call
<1>2. dispatches[op[p].key] = 0
  BY <1>1 DEF IInv, Local, ClaimDirectory, ClaimEvent, At, KeyOK, Claim
<1> QED
  BY <1>1, <1>2 DEF ClaimDirectory, ClaimEvent, IInv, TypeOK, NoJournal

LEMMA PlacedEnd ==
  ASSUME PlacedInv, NEW p \in Procs, op[p].pc \in Steps,
         op' = [op EXCEPT ![p] = Idle], UNCHANGED dispatches,
         pending' \subseteq pending,
         \A k \in Keys : \/ publications'[k].state = publications[k].state
                         \/ publications[k].state = "CLAIMED",
         \A k \in Keys : publications'[k].page = publications[k].page
  PROVE  Placed'
<1>1. \A q \in Procs : op'[q].pc = "idle"
  BY Sole DEF PlacedInv, IInv, TypeOK, Idle
<1> QED
  BY <1>1 DEF PlacedInv, Placed

LEMMA PlacedStep ==
  ASSUME PlacedInv, [Next]_vars
  PROVE  Placed'
<1>1. TypeOK /\ LockHeld /\ Placed
  BY DEF PlacedInv, IInv
<1>2. CASE \/ UNCHANGED vars \/ \E k \in Keys : Land(k) \/ Lost(k)
           \/ OtherBinds \/ RemoveStaleLock \/ Drift
  <2>1. UNCHANGED <<publications, dispatches, op>> /\ pending' \subseteq pending
    BY <1>2 DEF vars, world, Land, Lost, OtherBinds, RemoveStaleLock, Drift
  <2> QED
    BY <1>1, <2>1 DEF Placed, Claim
<1>3. ASSUME NEW p \in Procs, Begin(p) PROVE Placed'
  <2>1. /\ UNCHANGED <<publications, dispatches, pending>>
        /\ op'[p].pc = "read" /\ \A q \in Procs \ {p} : op'[q] = op[q]
    BY <1>1, <1>3 DEF Begin, world, TypeOK, Idle
  <2> QED
    BY <1>1, <2>1 DEF Placed, Claim
<1>4. ASSUME NEW p \in Procs, ProcessDies(p) PROVE Placed'
  <2>1. op[p].pc \in Steps
    BY <1>1, <1>4 DEF ProcessDies, LockHeld, TypeOK, Call
  <2> QED
    BY <1>4, <2>1, PlacedEnd DEF ProcessDies, world
<1>5. ASSUME NEW p \in Procs,
             WriteFails(p) \/ ReadThrows(p) \/ ClaimRefused(p) \/ ReplaySettled(p)
      PROVE  Placed'
  <2>1. op[p].pc \in Steps
    BY <1>5 DEF WriteFails, ReadThrows, ClaimRefused, ReplaySettled, At, Steps
  <2> QED
    BY <1>5, <2>1, PlacedEnd DEF WriteFails, ReadThrows, ClaimRefused,
       ReplaySettled, Answer, Finish, world
<1>6. ASSUME NEW p \in Procs, Noop(p) \/ Settle(p) \/ ReplayOpen(p) PROVE Placed'
  <2>1. op[p] \in Call /\ op[p].pc \in Steps
    BY <1>1, <1>6, PresentCall DEF Noop, Settle, ReplayOpen, At, Steps
  <2>2. PICK s, code : Conclude(p, s, code)
    BY <1>6 DEF Noop, Settle, ReplayOpen
  <2>3. /\ \A k \in Keys : publications'[k].page = publications[k].page
        /\ \A k \in Keys : \/ publications'[k].state = publications[k].state
                           \/ publications[k].state = "CLAIMED"
    BY <1>1, <2>1, <2>2, Concludes DEF Claim
  <2> QED
    BY <2>1, <2>2, <2>3, PlacedEnd DEF Conclude, Finish, world
<1>7. ASSUME NEW p \in Procs, Read(p) \/ Reread(p) PROVE Placed'
  <2>1. op[p] \in Call
    BY <1>1, <1>7, PresentCall DEF Read, Reread, At, Steps
  <2>2. UNCHANGED <<publications, dispatches, pending>>
    BY <1>7 DEF Read, Reread, world
  <2>3. Reread(p) => op[p].pc = "reread"
    BY DEF Reread, At
  <2> QED
    BY <1>1, <1>7, <2>1, <2>2, <2>3, GoesReading DEF Placed, Claim
<1>8. ASSUME NEW p \in Procs, ClaimBinds(p) PROVE Placed'
  <2>1. op[p] \in Call
    BY <1>1, <1>8, PresentCall DEF ClaimBinds, At, Steps
  <2> QED
    BY <1>1, <1>8, <2>1, GoesOn DEF ClaimBinds, world, Placed, Claim
<1>9. ASSUME NEW p \in Procs, ClaimDirectory(p) \/ ClaimEvent(p) PROVE Placed'
  <2>1. op[p] \in Call /\ op[p].page \in Pages
    BY <1>9, ClaimWrites DEF PlacedInv, Call
  <2>2. UNCHANGED <<dispatches, pending>>
    BY <1>9 DEF ClaimDirectory, ClaimEvent, world
  <2>3. \A q \in Procs \ {p} : op[q] = Idle
    BY <1>1, <1>9, Sole DEF ClaimDirectory, ClaimEvent, At, Steps
  <2>4. \A q \in Procs \ {p} : op'[q].pc = "idle"
    BY <1>1, <1>9, <2>1, <2>3, ClaimWrites, GoesOn DEF PlacedInv, Idle
  <2>5. CASE ClaimDirectory(p)
    BY <1>1, <2>1, <2>2, <2>4, <2>5, ClaimWrites, GoesOn DEF PlacedInv, Placed
  <2>6. CASE ClaimEvent(p)
    BY <1>1, <2>1, <2>2, <2>4, <2>6, ClaimWrites, GoesOn DEF PlacedInv, Placed,
       Claim
  <2> QED
    BY <1>9, <2>5, <2>6
<1>10. ASSUME NEW p \in Procs, Dispatch(p) PROVE Placed'
  <2>1. op[p] \in Call /\ op[p].pc = "act" /\ op[p].key \in Keys
    BY <1>1, <1>10, PresentCall DEF Dispatch, At, Steps, Call
  <2>2. dispatches[op[p].key] = 0
    BY <1>10 DEF Dispatch, PlacedInv, IInv, Local
  <2>3. /\ dispatches'[op[p].key] = 1
        /\ \A k \in Keys \ {op[p].key} : dispatches'[k] = dispatches[k]
    BY <1>1, <1>10, <2>1, <2>2 DEF Dispatch, TypeOK
  <2>4. pending' = pending \cup {op[p].key} /\ UNCHANGED publications
        /\ pending \subseteq Keys /\ Goto(p, "reread")
    BY <1>1, <1>10 DEF Dispatch, TypeOK
  <2>5. \A q \in Procs \ {p} : op'[q].pc = "idle"
    BY <1>1, <2>1, <2>4, Sole, GoesOn DEF Idle, Steps
  <2> QED
    BY <1>1, <2>1, <2>3, <2>4, <2>5, GoesOn DEF Placed, Claim
<1> QED
  BY <1>2, <1>3, <1>4, <1>5, <1>6, <1>7, <1>8, <1>9, <1>10 DEF Next, Proceed

LEMMA PlacedAlways == Spec => []PlacedInv
<1>1. Init => PlacedInv
  BY InvInit DEF Init, PlacedInv, Placed, NoJournal, Idle
<1>2. PlacedInv /\ [Next]_vars => PlacedInv'
  BY PlacedStep, InvStep DEF PlacedInv
<1> QED
  BY <1>1, <1>2, PTL DEF Spec

\* No other key than k has sent a request for page g.
Clear(k, g) ==
  \A j \in Keys \ {k} : dispatches[j] = 0 \/ publications[j].page # g

\* What the journal of key k says of its page.
Shows(k) ==
  LET r == publications[k]
  IN /\ r.state \in {"SUCCEEDED", "NOOP"} => Desired(r.action, page[r.page])
     /\ r.state = "SUCCEEDED" => dispatches[k] = 1
     /\ r.state = "FAILED" => page[r.page].published = r.published
     /\ r.state = "CLAIMED" /\ dispatches[k] = 0 =>
          page[r.page].published = r.published

\* What the running call has read is what its page holds.
Sees(p) ==
  Clear(op[p].key, op[p].page) =>
    /\ op[p].pc \in {"claim", "directory", "event", "act"} =>
         op[p].before = page[op[p].page]
    /\ op[p].pc = "settle" => op[p].seen \in {page[op[p].page], None}

\* While nobody else edits and no request lands after it was judged.
Truthful ==
  drifts = 0 /\ late = {} =>
    /\ \A p \in Procs : Sees(p)
    /\ \A k \in Keys : Clear(k, publications[k].page) => Shows(k)

\* Nothing happens to the pages, and no request is sent.
LEMMA StillClear ==
  ASSUME UNCHANGED dispatches, IInv,
         \A k \in Keys : \/ publications'[k].page = publications[k].page
                         \/ dispatches[k] = 0
  PROVE  \A k \in Keys : \A g : Clear(k, g)' = Clear(k, g)
BY DEF Clear

LEMMA EndTruthful ==
  ASSUME Truthful, IInv, NEW p \in Procs, op[p].pc \in Steps,
         op' = [op EXCEPT ![p] = Idle],
         UNCHANGED <<page, drifts, late, dispatches>>,
         \A k \in Keys : publications'[k].page = publications[k].page,
         \A k \in Keys :
           \/ publications'[k] = publications[k]
           \/ drifts = 0 /\ late = {} /\ Clear(k, publications[k].page) => Shows(k)'
  PROVE  Truthful'
<1> SUFFICES ASSUME drifts = 0, late = {} PROVE Truthful'
  BY DEF Truthful
<1>1. \A q \in Procs : op'[q].pc = "idle"
  BY Sole DEF IInv, TypeOK, Idle
<1>2. \A q \in Procs : Sees(q)'
  BY <1>1 DEF Sees
<1>3. ASSUME NEW k \in Keys, Clear(k, publications[k].page)' PROVE Shows(k)'
  <2>1. Clear(k, publications[k].page)
    BY <1>3 DEF Clear
  <2>2. CASE publications'[k] = publications[k]
    BY <2>1, <2>2 DEF Truthful, Shows, Desired
  <2> QED
    BY <2>1, <2>2
<1> QED
  BY <1>2, <1>3 DEF Truthful

LEMMA GoTruthful ==
  ASSUME Truthful, IInv, NEW p \in Procs, op[p].pc \in Steps,
         \A q \in Procs \ {p} : op'[q] = op[q],
         UNCHANGED <<page, drifts, late, dispatches, publications>>,
         drifts = 0 /\ late = {} => Sees(p)'
  PROVE  Truthful'
<1>1. \A q \in Procs \ {p} : op'[q].pc = "idle"
  BY Sole DEF IInv, Idle
<1>2. \A q \in Procs \ {p} : Sees(q)'
  BY <1>1 DEF Sees
<1> QED
  BY <1>2 DEF Truthful, Shows, Clear, Desired

\* A request lands while the call that sent it has not judged it.
LEMMA LandTruthful ==
  ASSUME Truthful, PlacedInv, NEW k \in Keys, Land(k)
  PROVE  Truthful'
<1> SUFFICES ASSUME drifts = 0, late' = {} PROVE Truthful'
  BY DEF Truthful, Land, bounds
<1>1. ~Judged(k) /\ late = {}
  BY DEF Land
<1>2. /\ dispatches[k] = 1 /\ publications[k].state = "CLAIMED"
      /\ UNCHANGED <<publications, dispatches, op>>
      /\ TypeOK /\ \A p \in Procs : Local(p)
  BY <1>1 DEF Land, Judged, PlacedInv, Placed, IInv
<1>3. \A g \in Pages : g # publications[k].page => page'[g] = page[g]
  BY <1>2 DEF Land, TypeOK
<1>4. ASSUME NEW j \in Keys, Clear(j, publications[j].page)' PROVE Shows(j)'
  <2>1. CASE j = k
    BY <1>2, <2>1 DEF Shows
  <2>2. CASE j # k
    <3>1. publications[k].page # publications[j].page
      BY <1>2, <1>4, <2>2 DEF Clear
    <3>2. publications[j].state \notin {"NONE", "EMPTY"} =>
            page'[publications[j].page] = page[publications[j].page]
      BY <1>3, <3>1 DEF PlacedInv, Placed
    <3>3. Shows(j)
      BY <1>1, <1>2, <1>4 DEF Truthful, Clear
    <3> QED
      BY <1>2, <3>2, <3>3 DEF Shows, Desired
  <2> QED
    BY <2>1, <2>2
<1>5. ASSUME NEW p \in Procs, Clear(op[p].key, op[p].page)',
             op[p].pc \in {"claim", "directory", "event", "act", "settle"}
      PROVE  Sees(p)'
  <2>1. op[p] \in Call
    BY <1>2, <1>5, PresentCall DEF Steps
  <2>2. op[p].key # k
    BY <1>1, <1>2, <1>5 DEF Judged, Local, At, Claim
  <2>3. publications[k].page # op[p].page
    BY <1>2, <1>5, <2>2 DEF Clear
  <2>4. page'[op[p].page] = page[op[p].page]
    BY <1>3, <2>1, <2>3 DEF Call
  <2>5. Sees(p)
    BY <1>1 DEF Truthful
  <2> QED
    BY <1>2, <1>5, <2>4, <2>5 DEF Sees, Clear
<1>6. \A p \in Procs : Sees(p)'
  BY <1>2, <1>5 DEF Sees
<1> QED
  BY <1>4, <1>6 DEF Truthful

\* An outcome is journalled with the page in sight.
LEMMA OutcomeTruthful ==
  ASSUME Truthful, PlacedInv, NEW p \in Procs, NEW k \in Keys, k = op[p].key,
         Noop(p) \/ Settle(p) \/ ReplayOpen(p)
  PROVE  Truthful'
<1> DEFINE r == publications[k]
           g == op[p].page
<1>1. /\ op[p] \in Call /\ op[p].pc \in Steps /\ g \in Pages
      /\ TypeOK /\ Local(p) /\ KeyOK(k)
  BY PresentCall DEF PlacedInv, IInv, Noop, Settle, ReplayOpen, At, Steps, Call
<1>2. r.page = g /\ r.action = op[p].action
  BY DEF PlacedInv, Placed, Noop, Settle, ReplayOpen, OwnJournal, At, Claim
<1>3. drifts = 0 /\ late = {} => Sees(p) /\ (Clear(k, g) => Shows(k))
  <2>1. Clear(k, publications[k].page) = Clear(k, g)
    BY <1>2
  <2> QED
    BY <2>1 DEF Truthful
<1>4. ASSUME NEW s, NEW code, Conclude(p, s, code),
             drifts = 0 /\ late = {} /\ Clear(k, g) =>
               /\ s \in {"SUCCEEDED", "NOOP"} => Desired(r.action, page[g])
               /\ s = "SUCCEEDED" => dispatches[k] = 1
               /\ s = "FAILED" => page[g].published = r.published
               /\ s # "CLAIMED"
      PROVE  Truthful'
  <2>1. UNCHANGED <<page, drifts, late, dispatches>>
    BY <1>4 DEF Conclude, world, bounds
  <2>2. /\ \A j \in Keys \ {k} : publications'[j] = publications[j]
        /\ publications'[k].state = s
        /\ \A j \in Keys :
             /\ publications'[j].page = publications[j].page
             /\ publications'[j].action = publications[j].action
             /\ publications'[j].published = publications[j].published
    BY <1>1, <1>4, Concludes
  <2>3. drifts = 0 /\ late = {} /\ Clear(k, g) => Shows(k)'
    BY <1>2, <1>4, <2>1, <2>2 DEF Shows, Desired
  <2>4. op' = [op EXCEPT ![p] = Idle]
    BY <1>4 DEF Conclude, Finish
  <2>5. \A j \in Keys :
          \/ publications'[j] = publications[j]
          \/ drifts = 0 /\ late = {} /\ Clear(j, publications[j].page) => Shows(j)'
    BY <1>2, <2>2, <2>3
  <2>6. IInv /\ \A j \in Keys : publications'[j].page = publications[j].page
    BY <2>2 DEF PlacedInv
  <2> QED
    BY <1>1, <2>1, <2>4, <2>5, <2>6, EndTruthful
<1>5. CASE Noop(p)
  BY <1>1, <1>2, <1>3, <1>4, <1>5 DEF Noop, At, Sees
<1>6. CASE Settle(p)
  <2>1. dispatches[k] = 1
    BY <1>6 DEF Settle, At, PlacedInv, Placed
  <2>2. drifts = 0 /\ late = {} /\ Clear(k, g) => op[p].seen \in {page[g], None}
    BY <1>3, <1>6 DEF Settle, At, Sees
  <2>3. Claim(p) = r
    BY DEF Claim
  <2>4. Classify(r, op[p].seen) = "DESIRED" =>
          op[p].seen # None /\ Desired(r.action, op[p].seen)
    BY DEF Classify
  <2>5. Classify(r, op[p].seen) = "UNCHANGED" =>
          op[p].seen # None /\ op[p].seen.published = r.published
    BY DEF Classify, Unchanged
  <2> QED
    BY <1>4, <1>6, <2>1, <2>2, <2>3, <2>4, <2>5 DEF Settle
<1>7. CASE ReplayOpen(p)
  <2>1. drifts = 0 /\ late = {} /\ Clear(k, g) => op[p].before = page[g]
    BY <1>3, <1>7 DEF ReplayOpen, At, Sees
  <2>2. Claim(p) = r /\ r.state = "CLAIMED"
    BY <1>7 DEF Claim, ReplayOpen
  <2>3. Classify(r, op[p].before) = "DESIRED" =>
          op[p].before # None /\ Desired(r.action, op[p].before)
    BY DEF Classify
  <2>4. Classify(r, op[p].before) = "UNCHANGED" =>
          op[p].before # None /\ op[p].before.published = r.published
    BY DEF Classify, Unchanged
  <2>5. drifts = 0 /\ late = {} /\ Clear(k, g) /\ dispatches[k] = 0 =>
          page[g].published = r.published
    BY <1>2, <1>3, <2>2 DEF Shows
  <2>6. dispatches[k] \in {0, 1}
    BY <1>1 DEF KeyOK
  <2>7. ~Desired(r.action, r) /\ Desired(r.action, page[g])
          => page[g].published # r.published
    BY DEF Desired
  <2>8. CASE /\ Classify(r, op[p].before) = "DESIRED"
             /\ Conclude(p, "NOOP", "OK")
    BY <1>4, <2>1, <2>3, <2>8
  <2>9. CASE /\ Classify(r, op[p].before) = "DESIRED"
             /\ ~Desired(r.action, r) /\ Conclude(p, "SUCCEEDED", "OK")
    BY <1>4, <2>1, <2>3, <2>5, <2>6, <2>7, <2>9
  <2>10. CASE /\ Classify(r, op[p].before) = "UNCHANGED"
              /\ Conclude(p, "FAILED", "RECOVERY_REQUIRED")
    BY <1>4, <2>1, <2>4, <2>10
  <2>11. CASE Conclude(p, "AMBIGUOUS", "PUBLICATION_AMBIGUOUS")
    BY <1>4, <2>11
  <2> QED
    BY <1>2, <1>7, <2>2, <2>8, <2>9, <2>10, <2>11 DEF ReplayOpen
<1> QED
  BY <1>5, <1>6, <1>7

LEMMA ClaimTruthful ==
  ASSUME Truthful, PlacedInv, NEW p \in Procs, ClaimDirectory(p) \/ ClaimEvent(p)
  PROVE  Truthful'
<1> DEFINE k == op[p].key
           g == op[p].page
<1> SUFFICES ASSUME drifts = 0, late = {} PROVE Truthful'
  BY DEF Truthful, ClaimDirectory, ClaimEvent, world, bounds
<1>1. /\ op[p] \in Call /\ k \in Keys /\ TypeOK /\ IInv
      /\ op[p].pc \in {"directory", "event"}
  BY ClaimWrites DEF PlacedInv, IInv, ClaimDirectory, ClaimEvent, At
<1>2. /\ UNCHANGED <<page, drifts, late, dispatches>>
      /\ dispatches[k] = 0
      /\ \A j \in Keys \ {k} : publications'[j] = publications[j]
  BY <1>1, ClaimWrites DEF ClaimDirectory, ClaimEvent, world, bounds
<1>3. Goto(p, "event") \/ Goto(p, "act")
  BY DEF ClaimDirectory, ClaimEvent
<1>4. /\ op'[p].key = k /\ op'[p].page = g /\ op'[p].before = op[p].before
      /\ op'[p].pc \in {"event", "act"}
      /\ \A q \in Procs \ {p} : op'[q] = op[q]
  BY <1>1, <1>3, GoesOn
<1>5. \A j \in Keys : \A h : Clear(j, h)' = Clear(j, h)
  BY <1>1, <1>2, StillClear
<1>6. Clear(k, g) => op[p].before = page[g]
  BY <1>1 DEF Truthful, Sees
<1>7. Sees(p)'
  BY <1>1, <1>2, <1>4, <1>5, <1>6 DEF Sees
<1>8. \A q \in Procs \ {p} : Sees(q)'
  BY <1>1, <1>4, Sole DEF IInv, Sees, Idle, Steps
<1>9. ASSUME NEW j \in Keys, Clear(j, publications[j].page)' PROVE Shows(j)'
  <2>1. CASE j # k
    <3>1. publications'[j] = publications[j] /\ Clear(j, publications[j].page)
      BY <1>2, <1>5, <1>9, <2>1
    <3> QED
      BY <1>2, <3>1 DEF Truthful, Shows, Desired
  <2>2. CASE j = k /\ ClaimDirectory(p)
    BY <1>1, <2>2, ClaimWrites DEF Shows
  <2>3. CASE j = k /\ ClaimEvent(p)
    BY <1>1, <1>2, <1>5, <1>6, <1>9, <2>3, ClaimWrites DEF Shows
  <2> QED
    BY <2>1, <2>2, <2>3
<1> QED
  BY <1>7, <1>8, <1>9 DEF Truthful

LEMMA DispatchTruthful ==
  ASSUME Truthful, PlacedInv, NEW p \in Procs, Dispatch(p)
  PROVE  Truthful'
<1> SUFFICES ASSUME drifts = 0, late = {} PROVE Truthful'
  BY DEF Truthful, Dispatch, bounds
<1>1. op[p] \in Call /\ op[p].pc = "act" /\ op[p].key \in Keys /\ TypeOK /\ IInv
  BY PresentCall DEF PlacedInv, IInv, Dispatch, At, Steps, Call
<1>2. dispatches[op[p].key] = 0
  BY DEF Dispatch, PlacedInv, IInv, Local
<1>3. /\ dispatches'[op[p].key] = 1
      /\ \A k \in Keys \ {op[p].key} : dispatches'[k] = dispatches[k]
  BY <1>1, <1>2 DEF Dispatch, TypeOK
<1>4. UNCHANGED <<page, drifts, late, publications>> /\ Goto(p, "reread")
  BY DEF Dispatch, bounds
<1>5. \A q \in Procs : op'[q].pc \in {"idle", "reread"}
  BY <1>1, <1>4, GoesOn, Sole DEF IInv, Idle, Steps
<1>6. \A q \in Procs : Sees(q)'
  BY <1>5 DEF Sees
<1>7. ASSUME NEW k \in Keys, Clear(k, publications[k].page)' PROVE Shows(k)'
  <2>1. CASE k = op[p].key
    <3>1. publications[k].state = "CLAIMED"
      BY <1>1, <2>1 DEF PlacedInv, Placed, Claim
    <3> QED
      BY <1>3, <1>4, <2>1, <3>1 DEF Shows
  <2>2. CASE k # op[p].key
    <3>1. Clear(k, publications[k].page)
      BY <1>1, <1>2, <1>3, <1>4, <1>7 DEF Clear
    <3> QED
      BY <1>3, <1>4, <2>2, <3>1 DEF Truthful, Shows, Desired
  <2> QED
    BY <2>1, <2>2
<1> QED
  BY <1>6, <1>7 DEF Truthful

LEMMA TruthfulStep ==
  ASSUME Truthful, PlacedInv, [Next]_vars
  PROVE  Truthful'
<1>1. TypeOK /\ LockHeld /\ IInv
  BY DEF PlacedInv, IInv
<1>2. CASE \/ UNCHANGED vars \/ OtherBinds \/ RemoveStaleLock
           \/ \E k \in Keys : Lost(k)
  <2>1. UNCHANGED <<page, drifts, late, dispatches, publications, op>>
    BY <1>2 DEF vars, world, bounds, OtherBinds, RemoveStaleLock, Lost
  <2> QED
    BY <2>1 DEF Truthful, Sees, Shows, Clear, Desired
<1>3. CASE Drift
  <2>1. drifts' # 0
    BY <1>1, <1>3 DEF Drift, TypeOK
  <2> QED
    BY <2>1 DEF Truthful
<1>4. ASSUME NEW p \in Procs, Begin(p) PROVE Truthful'
  <2>1. /\ UNCHANGED <<page, drifts, late, dispatches, publications>>
        /\ op'[p].pc = "read" /\ \A q \in Procs \ {p} : op'[q] = op[q]
    BY <1>1, <1>4 DEF Begin, world, bounds, TypeOK, Idle
  <2> QED
    BY <2>1 DEF Truthful, Sees, Shows, Clear, Desired
<1>5. ASSUME NEW p \in Procs,
             \/ WriteFails(p) \/ ProcessDies(p) \/ ReadThrows(p)
             \/ ClaimRefused(p) \/ ReplaySettled(p)
      PROVE  Truthful'
  <2>1. op[p].pc \in Steps
    <3>1. CASE ProcessDies(p)
      BY <1>1, <3>1 DEF ProcessDies, LockHeld, TypeOK, Call
    <3>2. CASE ~ProcessDies(p)
      BY <1>5, <3>2 DEF WriteFails, ReadThrows, ClaimRefused, ReplaySettled,
         At, Steps
    <3> QED
      BY <3>1, <3>2
  <2>2. /\ op' = [op EXCEPT ![p] = Idle]
        /\ UNCHANGED <<page, drifts, late, dispatches, publications>>
    BY <1>5 DEF WriteFails, ProcessDies, ReadThrows, ClaimRefused,
       ReplaySettled, Answer, Finish, world, bounds
  <2> QED
    BY <1>1, <2>1, <2>2, EndTruthful
<1>6. ASSUME NEW p \in Procs, Read(p) \/ Reread(p) \/ ClaimBinds(p) PROVE Truthful'
  <2>1. op[p] \in Call /\ op[p].pc \in {"read", "reread", "claim"}
    BY <1>1, <1>6, PresentCall DEF Read, Reread, ClaimBinds, At, Steps
  <2>2. UNCHANGED <<page, drifts, late, dispatches, publications>>
    BY <1>6 DEF Read, Reread, ClaimBinds, world, bounds
  <2>3. CASE Read(p) \/ Reread(p)
    BY <1>1, <2>1, <2>2, <2>3, GoesReading, GoTruthful DEF Sees, Steps
  <2>4. CASE ClaimBinds(p)
    <3>1. op[p].pc = "claim" /\ Goto(p, "directory")
      BY <2>4 DEF ClaimBinds, At
    <3>2. drifts = 0 /\ late = {} => Sees(p)
      BY DEF Truthful
    <3>3. /\ op'[p].key = op[p].key /\ op'[p].page = op[p].page
          /\ op'[p].pc = "directory" /\ op'[p].before = op[p].before
          /\ \A q \in Procs \ {p} : op'[q] = op[q]
      BY <1>1, <2>1, <3>1, GoesOn
    <3>4. drifts = 0 /\ late = {} => Sees(p)'
      BY <2>2, <3>1, <3>2, <3>3 DEF Sees, Clear
    <3> QED
      BY <1>1, <2>2, <3>1, <3>3, <3>4, GoTruthful DEF Steps
  <2> QED
    BY <1>6, <2>3, <2>4
<1>7. ASSUME NEW p \in Procs, Noop(p) \/ Settle(p) \/ ReplayOpen(p)
      PROVE  Truthful'
  <2>1. op[p].key \in Keys
    BY <1>1, <1>7, PresentCall DEF Noop, Settle, ReplayOpen, At, Steps, Call
  <2> QED
    BY <1>7, <2>1, OutcomeTruthful
<1> QED
  BY <1>2, <1>3, <1>4, <1>5, <1>6, <1>7, LandTruthful, ClaimTruthful,
     DispatchTruthful DEF Next, Proceed

\* OutcomeTrue: a journalled outcome is what the page shows and a success was
\* the key's own, as long as nobody else acts and nothing lands late.
THEOREM OutcomesTrue == Spec => []OutcomeTrue
<1>1. Init => Truthful
  BY DEF Init, Truthful, Sees, Shows, NoJournal, Idle
<1>2. Truthful => OutcomeTrue
  BY DEF Truthful, OutcomeTrue, Alone, Clear, Shows
<1> QED
  BY <1>1, <1>2, TruthfulStep, PlacedAlways, PTL DEF Spec

\* As long as no process has died, an open request belongs to the call that
\* rereads it; the call sees its page and the last success still stands.
Answered ==
  drifts = 0 /\ faults = 0 /\ late = {} =>
    /\ \A k \in pending : publications[k].state = "CLAIMED" =>
         \E p \in Procs : op[p].key = k /\ op[p].pc \in {"reread", "settle"}
    /\ \A p \in Procs :
         /\ op[p].pc \in {"claim", "directory", "event", "act"} =>
              op[p].before = page[op[p].page]
         /\ op[p].pc = "settle" => op[p].seen \in {page[op[p].page], None}
    /\ lock = Free /\ reply.code = "OK" => Desired(reply.action, page[reply.page])
    /\ lock # Stale

\* A call ends; it answers OK only with the page in sight.
LEMMA EndAnswered ==
  ASSUME Answered, PlacedInv, NEW p \in Procs, op[p].pc \in Steps, NEW code,
         Finish(p, code), UNCHANGED <<world, bounds>>,
         \A k \in Keys \ {op[p].key} : publications'[k] = publications[k],
         op[p].pc \in {"reread", "settle"} =>
           publications'[op[p].key].state # "CLAIMED",
         publications'[op[p].key].state = "CLAIMED" =>
           publications[op[p].key].state = "CLAIMED",
         drifts = 0 /\ faults = 0 /\ late = {} /\ code = "OK" =>
           Desired(op[p].action, page[op[p].page])
  PROVE  Answered'
<1> SUFFICES ASSUME drifts = 0, faults = 0, late = {} PROVE Answered'
  BY DEF Answered, world, bounds
<1>1. op[p] \in Call /\ TypeOK /\ LockHeld /\ op[p].key \in Keys
  BY PresentCall DEF PlacedInv, IInv, Call
<1>2. \A q \in Procs \ {p} : op[q].pc = "idle"
  BY <1>1, Sole DEF Idle
<1>3. \A q \in Procs : op'[q].pc = "idle"
  BY <1>1, <1>2 DEF Finish, TypeOK, Idle
<1>4. ASSUME NEW k \in pending', publications'[k].state = "CLAIMED" PROVE FALSE
  <2>1. k \in pending /\ k \in Keys /\ publications[k].state = "CLAIMED"
    BY <1>1, <1>4 DEF world, TypeOK
  <2>2. PICK q \in Procs : op[q].key = k /\ op[q].pc \in {"reread", "settle"}
    BY <2>1 DEF Answered
  <2>3. q = p
    BY <1>2, <2>2
  <2> QED
    BY <1>4, <2>2, <2>3
<1>5. /\ reply'.code = code /\ reply'.action = op[p].action
      /\ reply'.page = op[p].page /\ lock' # Stale
  BY ConstantsAssumption DEF Finish
<1> QED
  BY <1>3, <1>4, <1>5 DEF Answered, world, Desired

\* A call goes on without touching a page or a claim of its own.
LEMMA GoAnswered ==
  ASSUME Answered, PlacedInv, NEW p \in Procs, op[p].pc \in Steps,
         \A q \in Procs \ {p} : op'[q] = op[q], op'[p].key = op[p].key,
         lock' = lock, UNCHANGED <<page, late, bounds, reply>>,
         \A k \in pending' : publications'[k].state = "CLAIMED" =>
           \/ k \in pending /\ publications[k].state = "CLAIMED"
           \/ k = op[p].key /\ op'[p].pc = "reread",
         op[p].pc \in {"reread", "settle"} => op'[p].pc \in {"reread", "settle"},
         drifts = 0 /\ faults = 0 /\ late = {} =>
           /\ op'[p].pc \in {"claim", "directory", "event", "act"} =>
                op'[p].before = page[op'[p].page]
           /\ op'[p].pc = "settle" => op'[p].seen \in {page[op'[p].page], None}
  PROVE  Answered'
<1> SUFFICES ASSUME drifts = 0, faults = 0, late = {} PROVE Answered'
  BY DEF Answered, bounds
<1>1. \A q \in Procs \ {p} : op[q].pc = "idle" /\ op'[q].pc = "idle"
  BY Sole DEF PlacedInv, IInv, Idle
<1>2. ASSUME NEW k \in pending', publications'[k].state = "CLAIMED"
      PROVE  \E q \in Procs : op'[q].key = k /\ op'[q].pc \in {"reread", "settle"}
  <2>1. CASE k \in pending /\ publications[k].state = "CLAIMED"
    <3>1. PICK q \in Procs : op[q].key = k /\ op[q].pc \in {"reread", "settle"}
      BY <2>1 DEF Answered
    <3>2. q = p
      BY <1>1, <3>1
    <3> QED
      BY <3>1, <3>2
  <2>2. CASE k = op[p].key /\ op'[p].pc = "reread"
    BY <2>2
  <2> QED
    BY <1>2, <2>1, <2>2
<1>3. lock' # Free
  BY Sole, ConstantsAssumption DEF PlacedInv, IInv
<1> QED
  BY <1>1, <1>2, <1>3 DEF Answered

LEMMA OutcomeAnswered ==
  ASSUME Answered, PlacedInv, NEW p \in Procs,
         Noop(p) \/ Settle(p) \/ ReplayOpen(p)
  PROVE  Answered'
<1> DEFINE r == Claim(p)
           g == op[p].page
<1>1. op[p] \in Call /\ op[p].pc \in Steps /\ TypeOK
  BY PresentCall DEF PlacedInv, IInv, Noop, Settle, ReplayOpen, At, Steps
<1>2. r.action = op[p].action
  BY DEF PlacedInv, Placed, Noop, Settle, ReplayOpen, OwnJournal, At
<1>3. ASSUME NEW s, NEW code, Conclude(p, s, code), s # "CLAIMED",
             drifts = 0 /\ faults = 0 /\ late = {} /\ code = "OK" =>
               Desired(op[p].action, page[g])
      PROVE  Answered'
  <2>1. /\ \A k \in Keys \ {op[p].key} : publications'[k] = publications[k]
        /\ publications'[op[p].key].state = s
    BY <1>1, <1>3, Concludes
  <2>2. Finish(p, code) /\ UNCHANGED <<world, bounds>>
    BY <1>3 DEF Conclude
  <2> QED
    BY <1>1, <1>3, <2>1, <2>2, EndAnswered
<1>4. CASE Noop(p)
  BY <1>3, <1>4 DEF Noop, At, Answered
<1>5. CASE Settle(p)
  <2>1. drifts = 0 /\ faults = 0 /\ late = {} => op[p].seen \in {page[g], None}
    BY <1>5 DEF Settle, At, Answered
  <2>2. Classify(r, op[p].seen) = "DESIRED" =>
          op[p].seen # None /\ Desired(r.action, op[p].seen)
    BY DEF Classify
  <2> QED
    BY <1>2, <1>3, <1>5, <2>1, <2>2 DEF Settle
<1>6. CASE ReplayOpen(p)
  <2>1. drifts = 0 /\ faults = 0 /\ late = {} => op[p].before = page[g]
    BY <1>6 DEF ReplayOpen, At, Answered
  <2>2. Classify(r, op[p].before) = "DESIRED" => Desired(r.action, op[p].before)
    BY DEF Classify
  <2> QED
    BY <1>2, <1>3, <1>6, <2>1, <2>2 DEF ReplayOpen
<1> QED
  BY <1>4, <1>5, <1>6

LEMMA AnsweredStep ==
  ASSUME Answered, PlacedInv, [Next]_vars
  PROVE  Answered'
<1>1. TypeOK /\ LockHeld /\ IInv /\ Placed
  BY DEF PlacedInv, IInv
<1>2. CASE UNCHANGED vars \/ OtherBinds \/ \E k \in Keys : Lost(k)
  <2>1. /\ UNCHANGED <<page, drifts, faults, late, publications, op, lock, reply>>
        /\ pending' \subseteq pending
    BY <1>2 DEF vars, world, bounds, OtherBinds, Lost
  <2> QED
    BY <2>1 DEF Answered, Desired
<1>3. CASE Drift \/ \E p \in Procs : WriteFails(p) \/ ProcessDies(p)
  <2>1. drifts' # 0 \/ faults' # 0
    BY <1>1, <1>3 DEF Drift, WriteFails, ProcessDies, TypeOK
  <2> QED
    BY <2>1 DEF Answered
<1>4. ASSUME NEW k \in Keys, Land(k) PROVE Answered'
  <2> SUFFICES ASSUME drifts = 0, faults = 0, late' = {} PROVE Answered'
    BY <1>4 DEF Answered, Land, bounds
  <2>1. ~Judged(k) /\ late = {} /\ k \in pending
    BY <1>4 DEF Land
  <2>2. PICK p \in Procs : op[p].key = k /\ op[p].pc = "reread"
    BY <2>1 DEF Answered, Judged
  <2>3. lock = p /\ \A q \in Procs \ {p} : op[q].pc = "idle"
    BY <1>1, <2>2, Sole DEF Idle, Steps
  <2>4. UNCHANGED <<publications, op, lock>> /\ pending' \subseteq pending
    BY <1>4 DEF Land
  <2> QED
    BY <2>1, <2>2, <2>3, <2>4, ConstantsAssumption DEF Answered
<1>5. CASE RemoveStaleLock
  <2>1. UNCHANGED <<drifts, faults, late>> /\ lock = Stale
    BY <1>5 DEF RemoveStaleLock, world, bounds
  <2> QED
    BY <2>1 DEF Answered
<1>6. ASSUME NEW p \in Procs, Begin(p) PROVE Answered'
  <2>1. /\ UNCHANGED <<page, pending, late, drifts, faults, publications>>
        /\ op'[p].pc = "read" /\ \A q \in Procs \ {p} : op'[q] = op[q]
        /\ lock' \notin {Free, Stale}
    BY <1>1, <1>6, ConstantsAssumption DEF Begin, world, bounds, TypeOK, Idle
  <2>2. \A q \in Procs : op[q].pc = "idle"
    BY <1>1, <1>6, ConstantsAssumption DEF Begin, LockHeld, Idle
  <2> QED
    BY <2>1, <2>2 DEF Answered
<1>7. ASSUME NEW p \in Procs, ReadThrows(p) \/ ClaimRefused(p) \/ ReplaySettled(p)
      PROVE  Answered'
  <2>1. op[p].pc \in {"read", "claim"} /\ op[p].pc \in Steps
    BY <1>7 DEF ReadThrows, ClaimRefused, ReplaySettled, At, Steps
  <2>2. PICK code : /\ Answer(p, code)
                    /\ code = "OK" => /\ op[p].pc = "claim"
                                      /\ Desired(op[p].action, op[p].before)
    BY <1>7 DEF ReadThrows, ClaimRefused, ReplaySettled, At
  <2>3. drifts = 0 /\ faults = 0 /\ late = {} /\ code = "OK" =>
          Desired(op[p].action, page[op[p].page])
    BY <2>2 DEF Answered
  <2> QED
    BY <2>1, <2>2, <2>3, EndAnswered DEF Answer
<1>8. ASSUME NEW p \in Procs, Read(p) \/ Reread(p) PROVE Answered'
  <2>1. op[p] \in Call /\ op[p].pc \in {"read", "reread"} /\ op[p].pc \in Steps
        /\ (op[p].pc = "reread" => Reread(p))
    BY <1>1, <1>8, PresentCall DEF Read, Reread, At, Steps
  <2>2. UNCHANGED <<page, pending, late, bounds, reply, lock, publications>>
    BY <1>8 DEF Read, Reread, world
  <2>3. /\ op'[p].pc \in {"claim", "directory", "event", "act"} =>
             op'[p].before = page[op'[p].page]
        /\ op'[p].pc = "settle" => op'[p].seen \in {page[op'[p].page], None}
        /\ op[p].pc = "reread" => op'[p].pc \in {"reread", "settle"}
        /\ op'[p].key = op[p].key /\ \A q \in Procs \ {p} : op'[q] = op[q]
    BY <1>1, <1>8, <2>1, GoesReading
  <2> QED
    BY <2>1, <2>2, <2>3, GoAnswered
<1>9. ASSUME NEW p \in Procs,
             ClaimBinds(p) \/ ClaimDirectory(p) \/ ClaimEvent(p) \/ Dispatch(p)
      PROVE  Answered'
  <2>1. /\ op[p] \in Call /\ op[p].pc \in Steps
        /\ op[p].pc \in {"claim", "directory", "event", "act"}
        /\ UNCHANGED <<page, late, bounds, reply, lock>>
        /\ op[p].key \in Keys /\ pending \subseteq Keys
    BY <1>1, <1>9, PresentCall DEF ClaimBinds, ClaimDirectory, ClaimEvent,
       Dispatch, At, Steps, world, Call, TypeOK
  <2>2. PICK pc \in {"directory", "event", "act", "reread"} :
          Goto(p, pc) /\ (Dispatch(p) => pc = "reread")
    BY <1>9 DEF ClaimBinds, ClaimDirectory, ClaimEvent, Dispatch, At
  <2>3. /\ op'[p].pc = pc /\ op'[p].key = op[p].key /\ op'[p].page = op[p].page
        /\ op'[p].before = op[p].before
        /\ \A q \in Procs \ {p} : op'[q] = op[q]
    BY <1>1, <2>1, <2>2, GoesOn
  <2>4. drifts = 0 /\ faults = 0 /\ late = {} => op[p].before = page[op[p].page]
    BY <2>1 DEF Answered
  <2>5. ASSUME NEW k \in pending', publications'[k].state = "CLAIMED"
        PROVE  \/ k \in pending /\ publications[k].state = "CLAIMED"
               \/ k = op[p].key /\ op'[p].pc = "reread"
    <3>1. CASE ClaimBinds(p)
      BY <2>5, <3>1 DEF ClaimBinds, world
    <3>2. CASE ClaimDirectory(p) \/ ClaimEvent(p)
      <4>1. k \in pending /\ dispatches[k] = 1 /\ k \in Keys
        BY <1>1, <2>1, <2>5, <3>2 DEF ClaimDirectory, ClaimEvent, world, Placed
      <4>2. k # op[p].key
        BY <1>1, <3>2, <4>1, ClaimWrites
      <4> QED
        BY <1>1, <2>5, <3>2, <4>1, <4>2, ClaimWrites
    <3>3. CASE Dispatch(p)
      BY <2>2, <2>3, <2>5, <3>3 DEF Dispatch
    <3> QED
      BY <1>9, <3>1, <3>2, <3>3
  <2> QED
    BY <2>1, <2>2, <2>3, <2>4, <2>5, GoAnswered
<1> QED
  BY <1>2, <1>3, <1>4, <1>5, <1>6, <1>7, <1>8, <1>9, OutcomeAnswered
  DEF Next, Proceed

\* AnswerTrue: while no process has died and no durable write was refused, a
\* success that was answered is what the page shows until somebody acts again.
THEOREM AnswersTrue == Spec => []AnswerTrue
<1>1. Init => Answered
  BY ConstantsAssumption DEF Init, Answered, Idle
<1>2. Answered => AnswerTrue
  BY DEF Answered, AnswerTrue
<1> QED
  BY <1>1, <1>2, AnsweredStep, PlacedAlways, PTL DEF Spec

----------------------------------------------------------------------------
(* The controller implements the ledger                                    *)

Attempts == [k \in Keys |-> IF publications[k].state \in {"NONE", "EMPTY"}
                            THEN {} ELSE {"apply"}]
Sent == [k \in Keys |-> [apply |-> dispatches[k], rollback |-> 0,
                         recovery |-> 0]]
Verdicts == [k \in Keys |-> Verdict[publications[k].state]]

\* Equal journals and requests: the ledger stands still.
LEMMA LedgerStutter ==
  ASSUME UNCHANGED <<publications, dispatches>>
  PROVE  [Ledger!Next]_(Ledger!vars)
<1>1. UNCHANGED <<Attempts, Sent, Verdicts>>
  BY DEF Attempts, Sent, Verdicts
<1> QED
  BY <1>1 DEF Ledger!vars, Attempts, Sent, Verdicts

\* An empty directory is not yet an attempt.
LEMMA LedgerDirectory ==
  ASSUME IInv, NEW p \in Procs, ClaimDirectory(p)
  PROVE  [Ledger!Next]_(Ledger!vars)
<1> DEFINE r == [NoJournal EXCEPT !.state = "EMPTY"]
<1>1. Claim(p).state = "NONE" /\ dispatches' = dispatches
  BY DEF ClaimDirectory, IInv, Local
<1>2. publications' = [publications EXCEPT ![op[p].key] = r]
  BY DEF ClaimDirectory
<1>3. r.state = "EMPTY"
  BY DEF NoJournal
<1> HIDE DEF r
<1>4. ASSUME NEW k \in Keys
      PROVE  \/ publications'[k].state = publications[k].state
             \/ publications[k].state = "NONE" /\ publications'[k].state = "EMPTY"
  BY <1>1, <1>2, <1>3 DEF IInv, TypeOK, Claim
<1>5. ASSUME NEW k \in Keys
      PROVE  Attempts'[k] = Attempts[k] /\ Verdicts'[k] = Verdicts[k]
  BY <1>4 DEF Attempts, Verdicts, Verdict
<1>6. UNCHANGED <<Attempts, Sent, Verdicts>>
  BY <1>1, <1>5 DEF Attempts, Sent, Verdicts
<1> QED
  BY <1>6 DEF Ledger!vars, Attempts, Sent, Verdicts

LEMMA LedgerAttempt ==
  ASSUME IInv, NEW p \in Procs, ClaimEvent(p)
  PROVE  [Ledger!Next]_(Ledger!vars)
<1> DEFINE r == [state |-> "CLAIMED", action |-> op[p].action,
                 page |-> op[p].page, published |-> op[p].before.published,
                 changed |-> op[p].before.changed]
<1>0. PICK c : c = op[p].key
  OBVIOUS
<1>1. c \in Keys /\ publications[c].state = "EMPTY" /\ dispatches' = dispatches
  BY <1>0, PresentCall DEF ClaimEvent, IInv, Local, At, Steps, Call, Claim
<1>2. publications' = [publications EXCEPT ![c] = r]
  BY <1>0 DEF ClaimEvent
<1>3. r.state = "CLAIMED"
  OBVIOUS
<1> HIDE DEF r
<1>4. publications'[c].state = "CLAIMED"
      /\ \A k \in Keys \ {c} : publications'[k] = publications[k]
  BY <1>1, <1>2, <1>3 DEF IInv, TypeOK
<1>5. Attempts' = [Attempts EXCEPT ![c] = @ \cup {"apply"}]
  <2>1. \A k \in Keys : Attempts'[k]
          = IF k = c THEN Attempts[k] \cup {"apply"} ELSE Attempts[k]
    BY <1>1, <1>4 DEF Attempts
  <2> QED
    BY <2>1 DEF Attempts
<1>6. Sent' = Sent /\ Verdicts' = Verdicts
  <2>1. \A k \in Keys : Verdicts'[k] = Verdicts[k]
    BY <1>1, <1>4 DEF Verdicts, Verdict
  <2> QED
    BY <1>1, <2>1 DEF Sent, Verdicts
<1>7. Attempts[c] = {} /\ Verdicts[c] = "open"
  BY <1>1 DEF Attempts, Verdicts, Verdict
<1>8. Ledger!Attempt(c, "apply")
  BY <1>5, <1>6, <1>7 DEF Ledger!Attempt, Attempts, Sent, Verdicts
<1> QED
  BY <1>1, <1>8 DEF Ledger!Next, Ledger!Actions

LEMMA LedgerWrite ==
  ASSUME IInv, NEW p \in Procs, Dispatch(p)
  PROVE  [Ledger!Next]_(Ledger!vars)
<1>0. PICK c : c = op[p].key
  OBVIOUS
<1>1. /\ c \in Keys /\ publications[c].state = "CLAIMED" /\ dispatches[c] = 0
      /\ publications' = publications
  BY <1>0, PresentCall DEF Dispatch, IInv, Local, At, Steps, Call, Claim
<1>2. dispatches' = [dispatches EXCEPT ![c] = 1]
  BY <1>0, <1>1 DEF Dispatch
<1>3. Sent' = [Sent EXCEPT ![c]["apply"] = 1]
  <2>1. \A k \in Keys : dispatches'[k] = IF k = c THEN 1 ELSE dispatches[k]
    BY <1>1, <1>2 DEF IInv, TypeOK
  <2>2. \A k \in Keys : Sent'[k]
          = IF k = c THEN [Sent[k] EXCEPT !["apply"] = 1] ELSE Sent[k]
    BY <2>1 DEF Sent
  <2> QED
    BY <1>1, <2>2 DEF Sent
<1>4. Attempts' = Attempts /\ Verdicts' = Verdicts
  BY <1>1 DEF Attempts, Verdicts
<1>5. /\ "apply" \in Attempts[c] /\ Verdicts[c] = "open"
      /\ Sent[c]["apply"] = 0
  BY <1>1 DEF Attempts, Verdicts, Verdict, Sent
<1>6. Ledger!SendWrite(c, "apply")
  BY <1>3, <1>4, <1>5 DEF Ledger!SendWrite, Attempts, Sent, Verdicts
<1> QED
  BY <1>1, <1>6 DEF Ledger!Next, Ledger!Purposes, Ledger!Actions

LEMMA LedgerSettle ==
  ASSUME IInv, NEW p \in Procs, op[p].pc \in Steps, NEW s \in Terminal,
         NEW code \in Codes, Conclude(p, s, code)
  PROVE  [Ledger!Next]_(Ledger!vars)
<1>0. PICK c : c = op[p].key
  OBVIOUS
<1>1. /\ c \in Keys /\ publications[c].state = "CLAIMED"
      /\ publications[c] \in Journal /\ dispatches' = dispatches
  BY <1>0, PresentCall DEF Conclude, IInv, TypeOK, Claim, Call
<1>2. publications' = [publications EXCEPT
        ![c] = [publications[c] EXCEPT !.state = s]]
  BY <1>0 DEF Conclude
<1>3. /\ publications'[c].state = s
      /\ \A k \in Keys \ {c} : publications'[k] = publications[k]
  BY <1>1, <1>2 DEF IInv, TypeOK, Journal
<1>4. PICK v \in {"applied", "failed"} : v = Verdict[s]
  BY DEF Verdict, Terminal
<1>5. Verdicts' = [Verdicts EXCEPT ![c] = v]
  <2>1. \A k \in Keys : Verdicts'[k] = IF k = c THEN v ELSE Verdicts[k]
    BY <1>1, <1>3, <1>4 DEF Verdicts
  <2> QED
    BY <2>1 DEF Verdicts
<1>6. Attempts' = Attempts /\ Sent' = Sent
  <2>1. \A k \in Keys : Attempts'[k] = Attempts[k]
    BY <1>1, <1>3 DEF Attempts, Terminal
  <2> QED
    BY <1>1, <2>1 DEF Attempts, Sent
<1>7. Attempts[c] = {"apply"} /\ Verdicts[c] = "open"
  BY <1>1 DEF Attempts, Verdicts, Verdict
<1>8. Ledger!Settle(c, v)
  BY <1>4, <1>5, <1>6, <1>7 DEF Ledger!Settle, Ledger!Justified, Attempts, Sent,
     Verdicts
<1> QED
  BY <1>1, <1>4, <1>8 DEF Ledger!Next

\* Every step of the controller is a step of the ledger or leaves it alone.
LEMMA LedgerStep ==
  ASSUME IInv, [Next]_vars
  PROVE  [Ledger!Next]_(Ledger!vars)
<1>1. ASSUME NEW p \in Procs, Proceed(p) PROVE [Ledger!Next]_(Ledger!vars)
  <2>1. CASE \/ Read(p) \/ ReadThrows(p) \/ ClaimRefused(p) \/ ClaimBinds(p)
             \/ Reread(p) \/ ReplaySettled(p)
    BY <2>1, LedgerStutter DEF Read, ReadThrows, ClaimRefused, ClaimBinds, Reread,
       ReplaySettled, Answer
  <2>2. CASE Noop(p) \/ Settle(p) \/ ReplayOpen(p)
    <3>1. op[p].pc \in Steps
      BY <2>2 DEF Noop, Settle, ReplayOpen, At, Steps
    <3> QED
      BY <2>2, <3>1, LedgerSettle DEF Noop, Settle, ReplayOpen, Terminal, Codes
  <2> QED
    BY <1>1, <2>1, <2>2, LedgerDirectory, LedgerAttempt, LedgerWrite DEF Proceed
<1>2. ASSUME \/ \E p \in Procs : Begin(p) \/ WriteFails(p) \/ ProcessDies(p)
             \/ \E k \in Keys : Land(k) \/ Lost(k)
             \/ OtherBinds \/ RemoveStaleLock \/ Drift \/ UNCHANGED vars
      PROVE  [Ledger!Next]_(Ledger!vars)
  BY <1>2, LedgerStutter DEF Begin, WriteFails, ProcessDies, Land, Lost,
     OtherBinds, RemoveStaleLock, Drift, vars
<1> QED
  BY <1>1, <1>2 DEF Next

\* FollowsLedger: claims, requests and outcomes follow the ledger.
THEOREM ImplementsLedger == Spec => FollowsLedger
<1>1. Init => Ledger!Init
  <2> SUFFICES ASSUME Init PROVE Ledger!Init
    OBVIOUS
  <2>1. \A k \in Keys : publications[k].state = "NONE" /\ dispatches[k] = 0
    BY DEF Init, NoJournal
  <2>2. Attempts = [k \in Keys |-> {}]
    BY <2>1 DEF Attempts
  <2>3. Verdicts = [k \in Keys |-> "open"]
    BY <2>1 DEF Verdicts, Verdict
  <2>4. Sent = [k \in Keys |-> [a \in Ledger!Purposes |-> 0]]
    <3>1. [apply |-> 0, rollback |-> 0, recovery |-> 0]
            = [a \in Ledger!Purposes |-> 0]
      BY DEF Ledger!Purposes, Ledger!Actions
    <3> QED
      BY <2>1, <3>1 DEF Sent
  <2> QED
    BY <2>2, <2>3, <2>4 DEF Ledger!Init, Attempts, Sent, Verdicts
<1> QED
  BY <1>1, Invariance, LedgerStep, PTL DEF Spec, FollowsLedger, Ledger!Spec
============================================================================
