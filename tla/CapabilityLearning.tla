------------------------- MODULE CapabilityLearning -------------------------
(***************************************************************************)
(* One bounded capability lesson (learning/workflow.ts), the provider that *)
(* runs it against the editor (adapter-session-learning-provider.ts) and   *)
(* the recipe registry (registry.ts), over the LearningJournal.            *)
(*                                                                         *)
(* A lesson reads a copy-test object, writes a mark into it, takes the     *)
(* mark back, writes it again and restores the object, with an await at    *)
(* every read and write.  Meanwhile the grant may lapse, the process may   *)
(* die, others may edit the object, and a write given up for lost may      *)
(* still land.                                                             *)
(***************************************************************************)
EXTENDS LearningJournal, Sequences

CONSTANTS
  None,
  MaxEdits  \* bound: edits an object carries from somebody else

ASSUME EditAssumption == MaxEdits \in Nat

VARIABLES
  content,   \* what the editor holds for each target
  late,      \* writes given up for lost that may still land
  registry,  \* recipe file of every target and capability
  at,        \* position in the lesson of each process
  before,    \* baseline the lesson captured, or None
  recovering,\* "no", or the lesson failed and is restoring: before its mark
             \* was prepared ("untouched") or after ("touched")
  valid,     \* the grant the call was pinned to is still in force
  told,      \* (history) keys whose lesson was answered stateChanged FALSE
  landed     \* (history) keys whose mark landed late

lesson == <<at, before, recovering, valid>>
editor == <<content, late>>
history == <<told, landed>>
vars == <<journal, lesson, editor, registry, history>>

----------------------------------------------------------------------------
(* The script                                                              *)

\* Phases before (1), after (2-4), replay (5-10) and restore (11-13).
Script ==
  <<"capture",
    "seeBase", "mark", "seeMark",
    "seeMark", "unmark", "seeBase", "seeBase", "mark", "seeMark",
    "inspect", "unmark", "seeBase">>
RestoreAt == 11
RegisterAt == Len(Script) + 1

\* An object: what was done to it, which determines its hash, and whose
\* marks it carries.  A marker is computed from the hash of the baseline
\* alone, so two lessons on the same baseline write the same mark.
Object == [text : Seq({"edit", "mark"}), marks : SUBSET Key]
SameHash(x, y) == x.text = y.text
Write == [target : Target, value : Object]

\* No baseline captured is told from every baseline.
ASSUME NoneAssumption == None \notin Object

KeyOf(p) == req[p].key
Seen(p) == content[req[p].target]
Baseline(p) == before[p]
Intended(p) ==
  [text |-> Append(before[p].text, "mark"),
   marks |-> before[p].marks \cup {KeyOf(p)}]
Recipe(p) == registry[req[p].target][req[p].cap]

WorkflowInit ==
  /\ content = [t \in Target |-> [text |-> <<>>, marks |-> {}]]
  /\ late = {}
  /\ registry = [t \in Target |-> [c \in Capability |-> "none"]]
  /\ at = [p \in Proc |-> 0]
  /\ before = [p \in Proc |-> None]
  /\ recovering = [p \in Proc |-> "no"]
  /\ valid = [p \in Proc |-> FALSE]
  /\ told = {}
  /\ landed = {}

LearningInit == Init /\ WorkflowInit

----------------------------------------------------------------------------
(* learn()                                                                 *)

\* The call pins its grant; claim() follows without an await.
BeginLearn(p) ==
  /\ Call(p)
  /\ valid' = [valid EXCEPT ![p] = TRUE]
  /\ UNCHANGED <<at, before, recovering, editor, registry, history>>

GoOn(p) ==
  /\ Claiming(p) \/ Settling(p)
  /\ UNCHANGED <<lesson, editor, registry, history>>

\* Mutant: the next lesson of the process finds the baseline of this one.
ForgetAllButBaseline(p) ==
  /\ at' = [at EXCEPT ![p] = 0]
  /\ recovering' = [recovering EXCEPT ![p] = "no"]
  /\ valid' = [valid EXCEPT ![p] = FALSE]
  /\ UNCHANGED before

\* The session's state lives no longer than the call.
Forget(p) ==
  /\ at' = [at EXCEPT ![p] = 0]
  /\ before' = [before EXCEPT ![p] = None]
  /\ recovering' = [recovering EXCEPT ![p] = "no"]
  /\ valid' = [valid EXCEPT ![p] = FALSE]

Die(p) ==
  /\ Abandon(p)
  /\ Forget(p)
  /\ UNCHANGED <<editor, registry, history>>

\* The grant the call was pinned to expires.
Lapse(p) ==
  /\ valid[p]
  /\ valid' = [valid EXCEPT ![p] = FALSE]
  /\ UNCHANGED <<journal, at, before, recovering, editor, registry, history>>

\* The call answers; where the final entry cannot even be created it
\* answers the same and leaves its claim in flight.
Settle(p, s) ==
  /\ Finish(p, s) \/ (pc[p] = "claimed" /\ Abandon(p))
  /\ told' = IF s = "AMBIGUOUS" THEN told ELSE told \cup {KeyOf(p)}
  /\ Forget(p)
  /\ UNCHANGED landed

\* Mutant: the registry is not asked for an existing recipe.
LookupNothing(p) ==
  /\ pc[p] = "claimed" /\ at[p] = 0
  /\ UNCHANGED <<editor, registry>>
  /\ \/ Settle(p, "FAILED")
     \/ /\ valid[p]
        /\ at' = [at EXCEPT ![p] = 1]
        /\ UNCHANGED <<journal, before, recovering, valid, history>>

\* An existing recipe completes the claim, if the grant still holds; a
\* damaged one fails it; without one the provider is opened.
Lookup(p) ==
  /\ pc[p] = "claimed" /\ at[p] = 0
  /\ UNCHANGED <<editor, registry>>
  /\ \/ Recipe(p) = "recipe" /\ valid[p] /\ Settle(p, "COMPLETED")
     \/ /\ Recipe(p) = "recipe" /\ ~valid[p]
        /\ Abandon(p) /\ Forget(p)
        /\ told' = told \cup {KeyOf(p)} /\ UNCHANGED landed
     \/ Recipe(p) # "recipe" /\ Settle(p, "FAILED")
     \/ /\ Recipe(p) = "none" /\ valid[p]
        /\ at' = [at EXCEPT ![p] = 1]
        /\ UNCHANGED <<journal, before, recovering, valid, history>>

----------------------------------------------------------------------------
(* The phases                                                              *)

\* The step at hand is op, and a session may be opened for it.
Doing(p, op) ==
  /\ pc[p] = "claimed"
  /\ at[p] \in 1..Len(Script) /\ Script[at[p]] = op
  /\ valid[p]

Advance(p) ==
  /\ at' = [at EXCEPT ![p] = @ + 1]
  /\ UNCHANGED <<journal, before, recovering, valid, history>>

\* The intended state is known from the first mark on.
Prepared(p) == at[p] > 2 /\ recovering[p] # "untouched"

\* Mutant: a lesson that failed before its restore leaves the mark.
FailUnrestored(p) ==
  Settle(p, IF at[p] < RestoreAt THEN "FAILED" ELSE "AMBIGUOUS")

\* Mutant: a restore that failed is tried again until it succeeds.
FailRetrying(p) ==
  \/ at[p] = 1 /\ Settle(p, "FAILED")
  \/ /\ at[p] # 1
     /\ at' = [at EXCEPT ![p] = RestoreAt]
     /\ recovering' = [recovering EXCEPT ![p] =
          IF Prepared(p) THEN "touched" ELSE "untouched"]
     /\ UNCHANGED <<journal, before, valid, history>>

\* The provider restores only once: a failed restore is ambiguous.
Fail(p) ==
  \/ at[p] = 1 /\ Settle(p, "FAILED")
  \/ /\ 1 < at[p] /\ at[p] < RestoreAt
     /\ at' = [at EXCEPT ![p] = RestoreAt]
     /\ recovering' = [recovering EXCEPT ![p] =
          IF Prepared(p) THEN "touched" ELSE "untouched"]
     /\ UNCHANGED <<journal, before, valid, history>>
  \/ at[p] >= RestoreAt /\ Settle(p, "AMBIGUOUS")

\* A session cannot be opened, a read is lost, or the grant has lapsed.
Throw(p) ==
  /\ pc[p] = "claimed" /\ at[p] \in 1..Len(Script)
  /\ Fail(p)
  /\ UNCHANGED <<editor, registry>>

Capture(p) ==
  /\ Doing(p, "capture")
  /\ before' = [before EXCEPT ![p] = Seen(p)]
  /\ at' = [at EXCEPT ![p] = @ + 1]
  /\ UNCHANGED <<journal, recovering, valid, editor, registry, history>>

\* The restored object is what was captured: the lesson is recorded as
\* failed, or goes on to register its recipe.
Restored(p) ==
  \/ recovering[p] # "no" /\ Settle(p, "FAILED")
  \/ /\ recovering[p] = "no"
     /\ at' = [at EXCEPT ![p] = RegisterAt]
     /\ UNCHANGED <<journal, before, recovering, valid, history>>

Reread(p) ==
  /\ \E op \in {"seeBase", "seeMark"} :
       /\ Doing(p, op)
       /\ LET expected == IF op = "seeBase" THEN Baseline(p) ELSE Intended(p)
          IN  \/ ~SameHash(Seen(p), expected) /\ Fail(p)
              \/ /\ SameHash(Seen(p), expected)
                 /\ IF at[p] = Len(Script) THEN Restored(p) ELSE Advance(p)
  /\ UNCHANGED <<editor, registry>>

\* Mutant: an object that is not at its baseline is taken for restored.
InspectNothing(p) ==
  /\ Doing(p, "inspect")
  /\ Restored(p)
  /\ UNCHANGED <<editor, registry>>

\* The restore has nothing to do, writes the baseline over the known test
\* state, or refuses to touch anything else.
Inspect(p) ==
  /\ Doing(p, "inspect")
  /\ \/ SameHash(Seen(p), Baseline(p)) /\ Restored(p)
     \/ Prepared(p) /\ SameHash(Seen(p), Intended(p)) /\ Advance(p)
     \/ /\ ~SameHash(Seen(p), Baseline(p))
        /\ ~(Prepared(p) /\ SameHash(Seen(p), Intended(p)))
        /\ Fail(p)
  /\ UNCHANGED <<editor, registry>>

\* One write: acknowledged, or given up and then done, lost, or late.
Save(p) ==
  \E op \in {"mark", "unmark"} :
    /\ Doing(p, op)
    /\ LET value == IF op = "mark" THEN Intended(p) ELSE Baseline(p)
           Done == content' = [content EXCEPT ![req[p].target] = value]
       IN  \/ Done /\ Advance(p) /\ UNCHANGED late
           \/ Fail(p) /\ UNCHANGED late /\ (Done \/ UNCHANGED content)
           \/ /\ Fail(p) /\ UNCHANGED content
              /\ late' = late \cup
                   {[target |-> req[p].target, value |-> value]}
    /\ UNCHANGED registry

Land(w) ==
  /\ content' = [content EXCEPT ![w.target] = w.value]
  /\ late' = late \ {w}
  /\ landed' = landed \cup w.value.marks
  /\ UNCHANGED <<journal, lesson, registry, told>>

\* Somebody edits the object in the editor.
Edit(t) ==
  /\ Len(SelectSeq(content[t].text, LAMBDA s : s = "edit")) < MaxEdits
  /\ content' = [content EXCEPT ![t].text = Append(@, "edit")]
  /\ UNCHANGED <<journal, lesson, late, registry, history>>

----------------------------------------------------------------------------
(* The registry                                                            *)

SetRecipe(p, r) ==
  registry' = [registry EXCEPT ![req[p].target][req[p].cap] = r]

\* upsert() truncates the recipe file and then writes it.
Register(p) ==
  /\ pc[p] = "claimed" /\ UNCHANGED editor
  /\ \/ /\ at[p] = RegisterAt /\ valid[p]
        /\ SetRecipe(p, "partial") /\ Advance(p)
     \/ at[p] = RegisterAt + 1 /\ SetRecipe(p, "recipe") /\ Advance(p)
     \/ /\ at[p] = RegisterAt + 2 /\ valid[p]
        /\ Settle(p, "COMPLETED") /\ UNCHANGED registry

\* The grant has lapsed, or the file could not be written.
RegisterFails(p) ==
  /\ pc[p] = "claimed" /\ UNCHANGED <<editor, registry>>
  /\ at[p] >= RegisterAt
  /\ at[p] < RegisterAt + 2 \/ ~valid[p]
  /\ Settle(p, "FAILED")

Lesson(p) ==
  \/ Lookup(p) \/ Capture(p) \/ Reread(p) \/ Inspect(p) \/ Save(p)
  \/ Throw(p) \/ Register(p) \/ RegisterFails(p)

LearningNext ==
  \/ \E p \in Proc :
       BeginLearn(p) \/ GoOn(p) \/ Lesson(p) \/ Lapse(p) \/ Die(p)
  \/ \E w \in late : Land(w)
  \/ \E t \in Target : Edit(t)

LearningSpec == LearningInit /\ [][LearningNext]_vars

\* A process that is scheduled takes the next step of its call, and a
\* session's reads and writes end one way or the other.
Fairness == \A p \in Proc : WF_vars(GoOn(p) \/ Lesson(p))

FairSpec == LearningSpec /\ Fairness

----------------------------------------------------------------------------
(* Properties                                                              *)

\* The state is well typed: objects with marks of known keys, positions
\* within the lesson, recipes that are absent, damaged or whole.  Only a
\* call that holds its claim is inside a lesson, and it has a baseline from
\* the capture on (adapter-session-learning-provider.ts:374-382).
WorkflowTypeOK ==
  /\ content \in [Target -> Object]
  /\ late \subseteq Write
  /\ registry \in [Target -> [Capability -> {"none", "partial", "recipe"}]]
  /\ at \in [Proc -> 0..(RegisterAt + 2)]
  /\ before \in [Proc -> Object \cup {None}]
  /\ recovering \in [Proc -> {"no", "untouched", "touched"}]
  /\ valid \in [Proc -> BOOLEAN]
  /\ told \subseteq Key /\ landed \subseteq Key
  /\ \A p \in Proc :
       /\ at[p] > 0 => pc[p] = "claimed"
       /\ before[p] # None <=> at[p] > 1
       /\ recovering[p] # "no" => at[p] \in RestoreAt..Len(Script)

\* Whatever mark an object carries, unless it landed late, the execution
\* that wrote it is unresolved in the journal, so that nobody else learns on
\* the object: over deaths, lost writes, lapsed grants and foreign edits
\* (workflow.ts:387-416, journal.ts:628-689).
MarksQuarantined ==
  \A t \in Target : \A k \in content[t].marks \ landed :
    \E c \in Claims :
      /\ c.id.key = k /\ c.id.target = t
      /\ \A s \in Safe : ~Settled(c.id, s)

\* An answer that nothing changed (workflow.ts:499-545) is true of the
\* object, unless the mark landed after it was given up for lost.
UnchangedTrue ==
  \A c \in Claims :
    c.id.key \in told =>
      c.id.key \notin content[c.id.target].marks \/ c.id.key \in landed

\* A completed execution always has a whole recipe to be replayed from,
\* whoever else learns and dies on the same target (workflow.ts:311-332,
\* registry.ts:288-317).
CompletedHasRecipe ==
  \A f \in Finals :
    f.state = "COMPLETED" => registry[f.id.target][f.id.cap] = "recipe"

\* Every call ends, whether its lesson succeeds, fails or is refused.
LessonsEnd == \A p \in Proc : []<>(pc[p] = "idle")

\* "ended in a safely restored failure" (workflow.ts:338): the object of a
\* key answered as unchanged does not carry its mark.
SafelyRestored ==
  \A c \in Claims :
    c.id.key \in told => c.id.key \notin content[c.id.target].marks
============================================================================
