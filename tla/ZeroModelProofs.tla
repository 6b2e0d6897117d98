-------------------------- MODULE ZeroModelProofs --------------------------
(***************************************************************************)
(* Proofs about ZeroModel for every set of values, fields and identities:  *)
(* identities are kept, and which of the changes can be rolled back.       *)
(***************************************************************************)
EXTENDS ZeroModel, TLAPS

\* No change takes an element's identity or type away.
LEMMA AcceptedKeeps ==
  ASSUME NEW before, NEW after, Accepted(before, after)
  PROVE  /\ WellFormed(after)
         /\ \A k \in DOMAIN before \cap DOMAIN after :
              after[k].id = before[k].id /\ after[k].type = before[k].type
<1>1. WellFormed(after)
  BY DEF Accepted
<1>2. CASE Patched(before, after)
  BY <1>1, <1>2 DEF Patched, OnlyField
<1>3. CASE Cloned(before, after)
  BY <1>1, <1>3 DEF Cloned
<1>4. CASE Removed(before, after)
  BY <1>1, <1>4 DEF Removed
<1> QED
  BY <1>2, <1>3, <1>4 DEF Accepted

\* An element is the same element with the same type as long as it is there,
\* and no two elements ever share an identity.
THEOREM IdentityAlwaysKept == Spec => IdentityKept
<1>1. Next =>
        /\ \A k \in DOMAIN model \cap DOMAIN model' :
             model'[k].id = model[k].id /\ model'[k].type = model[k].type
        /\ WellFormed(model')
  <2>1. Next => Accepted(model, model')
    BY DEF Next, Apply, Rollback
  <2> QED
    BY <2>1, AcceptedKeeps
<1> QED
  BY <1>1, PTL DEF Spec, IdentityKept

\* What was cloned can be taken away again: its removal is accepted.
THEOREM CloneUndoable ==
  ASSUME NEW before, NEW after, WellFormed(before), WellFormed(after),
         Cloned(before, after)
  PROVE  Accepted(after, before)
<1>1. PICK key \in DOMAIN after :
        /\ DOMAIN before = DOMAIN after \ {key}
        /\ \A k \in DOMAIN before : after[k] = before[k]
        /\ key - 1 \in DOMAIN before /\ \A k \in DOMAIN before : k < key
        /\ OneMoreOf(before, after[key])
  BY DEF Cloned
<1>2. Removed(after, before)
  BY <1>1 DEF Removed
<1> QED
  BY <1>2 DEF Accepted

\* A field that was patched within its kind can be patched back.
THEOREM PatchUndoable ==
  ASSUME NEW before, NEW after, WellFormed(before), WellFormed(after),
         DOMAIN after = DOMAIN before,
         NEW key \in DOMAIN before, NEW property,
         \A k \in DOMAIN before \ {key} : after[k] = before[k],
         after[key] # before[key],
         property \in DOMAIN before[key].fields \cup DOMAIN after[key].fields,
         OnlyField(before[key], after[key], property),
         PrimitivePatch(before[key], after[key], property)
  PROVE  Accepted(after, before)
<1>1. OnlyField(after[key], before[key], property)
  BY DEF OnlyField, Has
<1>2. PrimitivePatch(after[key], before[key], property)
  BY DEF PrimitivePatch, OnlyField
<1>3. Patched(after, before)
  BY <1>1, <1>2 DEF Patched
<1> QED
  BY <1>3 DEF Accepted

\* A narrow position on a shape that had none is never taken back: there is
\* no accepted change that takes a field away except a link.
THEOREM NarrowStays ==
  ASSUME NEW before, NEW after, NEW key \in DOMAIN before \cap DOMAIN after,
         DOMAIN before = DOMAIN after, Accepted(after, before),
         Has(after[key], Narrow)
  PROVE  Has(before[key], Narrow)
<1>1. CASE Patched(after, before)
  <2>1. PICK other \in DOMAIN after :
          /\ \A k \in DOMAIN after \ {other} : before[k] = after[k]
          /\ \E property \in DOMAIN after[other].fields \cup DOMAIN before[other].fields :
               /\ OnlyField(after[other], before[other], property)
               /\ \/ PrimitivePatch(after[other], before[other], property)
                  \/ LinkPatch(after[other], before[other], property)
                  \/ ResponsivePatch(after[other], before[other], property)
    BY <1>1 DEF Patched
  <2>2. CASE other # key
    BY <2>1, <2>2
  <2>3. CASE other = key
    <3>1. PICK property \in DOMAIN after[key].fields \cup DOMAIN before[key].fields :
            /\ OnlyField(after[key], before[key], property)
            /\ \/ PrimitivePatch(after[key], before[key], property)
               \/ LinkPatch(after[key], before[key], property)
               \/ ResponsivePatch(after[key], before[key], property)
      BY <2>1, <2>3
    <3>2. CASE property # Narrow
      BY <3>1, <3>2 DEF OnlyField, Has
    <3>3. CASE property = Narrow
      BY <3>1, <3>3 DEF PrimitivePatch, LinkPatch, ResponsivePatch, Narrow, Link
    <3> QED
      BY <3>2, <3>3
  <2> QED
    BY <2>2, <2>3
<1>2. CASE Cloned(after, before) \/ Removed(after, before)
  BY <1>2 DEF Cloned, Removed
<1> QED
  BY <1>1, <1>2 DEF Accepted
=============================================================================
