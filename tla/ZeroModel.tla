----------------------------- MODULE ZeroModel -----------------------------
(***************************************************************************)
(* Changes to the elements of a Zero block: what the adapter plans         *)
(* (adapters/zero.ts), what the browser authority and, once more, the      *)
(* editor's own document accept as a transition of the model               *)
(* (control/browser-authority.ts, research/browser-session.ts), and the    *)
(* rollback, which goes through the very same acceptance.                  *)
(*                                                                         *)
(* A model maps the numeric keys of its elements to the elements.  An      *)
(* element has an identity, a type and fields it may or may not have.  The *)
(* three geometry fields behave alike and are one field here; numerals,    *)
(* which the code admits as geometry next to numbers, are left out.        *)
(***************************************************************************)
EXTENDS Naturals

CONSTANTS
  Strings, Numbers, Others,  \* values of a field, by their primitive kind
  Null,
  Ids,                       \* identities of elements
  MaxKey,                    \* bound: element keys are 0 .. MaxKey
  None

VARIABLES
  model,  \* the elements of the block
  last    \* the write that could be rolled back, or None

vars == <<model, last>>

Values == Strings \cup Numbers \cup Others \cup {Null}
Link == "link"
Narrow == "left-res-480"
Left == "left"
Properties == {Link, Narrow, Left}
BasicTypes == {"text", "shape"}
Types == BasicTypes \cup {"group"}
Fields == UNION {[P -> Values] : P \in SUBSET Properties}
Elements == [id : Ids, type : Types, fields : Fields]

Has(element, property) == property \in DOMAIN element.fields
Kind(value) ==
  CASE value \in Strings -> "string"
    [] value \in Numbers -> "number"
    [] value = Null -> "null"
    [] OTHER -> "none"

----------------------------------------------------------------------------
(* What a write may change                                                 *)

\* inspectModel(): there are elements, and no two are the same.
WellFormed(m) ==
  /\ DOMAIN m # {}
  /\ \A k, l \in DOMAIN m : m[k].id = m[l].id => k = l

\* Everything but one field is as it was.
OnlyField(before, after, property) ==
  /\ after.id = before.id /\ after.type = before.type
  /\ \A p \in (DOMAIN before.fields \cup DOMAIN after.fields) \ {property} :
       /\ Has(before, p) /\ Has(after, p)
       /\ after.fields[p] = before.fields[p]

\* An own primitive field of a basic element keeps its kind.
PrimitivePatch(before, after, property) ==
  /\ before.type \in BasicTypes
  /\ Has(before, property) /\ Has(after, property)
  /\ Kind(before.fields[property]) # "none"
  /\ Kind(after.fields[property]) = Kind(before.fields[property])

\* A text is given a link, or loses the one it had.
LinkPatch(before, after, property) ==
  /\ property = Link /\ before.type = "text"
  /\ \/ Has(after, Link) /\ after.fields[Link] \in Strings
     \/ Has(before, Link) /\ before.fields[Link] \in Strings /\ ~Has(after, Link)

\* A shape is given a position on narrow screens.
ResponsivePatch(before, after, property) ==
  /\ property = Narrow /\ before.type = "shape"
  /\ Has(after, Narrow) /\ after.fields[Narrow] \in Numbers

Patched(before, after) ==
  /\ DOMAIN after = DOMAIN before
  /\ \E key \in DOMAIN before :
       /\ \A k \in DOMAIN before \ {key} : after[k] = before[k]
       /\ after[key] # before[key]
       /\ \E property \in DOMAIN before[key].fields \cup DOMAIN after[key].fields :
            /\ OnlyField(before[key], after[key], property)
            /\ \/ PrimitivePatch(before[key], after[key], property)
               \/ LinkPatch(before[key], after[key], property)
               \/ ResponsivePatch(before[key], after[key], property)

\* Two elements are alike but for their identity and their place.
Alike(one, other) ==
  /\ one.type = other.type
  /\ DOMAIN one.fields \ {Left} = DOMAIN other.fields \ {Left}
  /\ \A p \in DOMAIN one.fields \ {Left} : one.fields[p] = other.fields[p]

\* The element is one more of exactly one other element of the model.
OneMoreOf(m, element) ==
  /\ element.type \in BasicTypes
  /\ \A k \in DOMAIN m : m[k].id # element.id
  /\ \E source \in DOMAIN m :
       /\ Alike(m[source], element)
       /\ \A k \in DOMAIN m : Alike(m[k], element) => k = source
  /\ Has(element, Left) /\ element.fields[Left] \in Numbers

\* An element is appended under the next key.
Cloned(before, after) ==
  \E key \in DOMAIN after :
    /\ DOMAIN before = DOMAIN after \ {key}
    /\ \A k \in DOMAIN before : after[k] = before[k]
    /\ key - 1 \in DOMAIN before /\ \A k \in DOMAIN before : k < key
    /\ OneMoreOf(before, after[key])

\* The element under the last key is taken away.
Removed(before, after) ==
  \E key \in DOMAIN before :
    /\ DOMAIN after = DOMAIN before \ {key}
    /\ \A k \in DOMAIN after : after[k] = before[k]
    /\ \A k \in DOMAIN after : k < key
    /\ OneMoreOf(after, before[key])

Accepted(before, after) ==
  /\ WellFormed(before) /\ WellFormed(after)
  /\ \/ Patched(before, after)
     \/ Cloned(before, after)
     \/ Removed(before, after)

----------------------------------------------------------------------------
(* What is planned                                                         *)

WithField(m, key, property, value) ==
  [m EXCEPT ![key].fields =
     [p \in DOMAIN m[key].fields \cup {property} |->
        IF p = property THEN value ELSE m[key].fields[p]]]

\* zero.property.patch
PlanProperty(m, key, property, value) ==
  IF /\ m[key].type \in BasicTypes /\ Has(m[key], property)
     /\ Kind(value) # "none" /\ Kind(m[key].fields[property]) = Kind(value)
     /\ m[key].fields[property] # value
  THEN {WithField(m, key, property, value)} ELSE {}

\* zero.leaf.patch
PlanLink(m, key, value) ==
  IF m[key].type = "text" /\ value \in Strings
  THEN {WithField(m, key, Link, value)} ELSE {}

\* zero.responsive.patch
PlanResponsive(m, key, value) ==
  IF m[key].type = "shape" /\ value \in Numbers
  THEN {WithField(m, key, Narrow, value)} ELSE {}

\* zero.shape.clone and zero.element.clone
PlanClone(m, key, id, value) ==
  IF /\ m[key].type \in BasicTypes
     /\ Has(m[key], Left) => m[key].fields[Left] \in Numbers \cup {Null}
     /\ id \notin {m[k].id : k \in DOMAIN m} /\ value \in Numbers
  THEN LET next == CHOOSE k \in 1 .. MaxKey + 1 :
                     k - 1 \in DOMAIN m /\ \A l \in DOMAIN m : l < k
           clone == [WithField(m, key, Left, value)[key] EXCEPT !.id = id]
       IN  {[k \in DOMAIN m \cup {next} |-> IF k = next THEN clone ELSE m[k]]}
  ELSE {}

Plans(m) ==
  UNION {PlanProperty(m, key, property, value) \cup PlanLink(m, key, value)
           \cup PlanResponsive(m, key, value)
         : key \in DOMAIN m, property \in Properties, value \in Values}
    \cup UNION {PlanClone(m, key, id, value)
                : key \in DOMAIN m, id \in Ids, value \in Values}

----------------------------------------------------------------------------
(* Writing and rolling back                                                *)

\* The block has one element that is going to change, and one that is not.
Init ==
  /\ \E element \in Elements, other \in Ids :
       /\ other # element.id
       /\ model = [k \in {0, 1} |->
            IF k = 0 THEN element
            ELSE [id |-> other, type |-> "group", fields |-> <<>>]]
  /\ last = None

Apply ==
  \E intended \in Plans(model) :
    /\ \A k \in DOMAIN intended : k <= MaxKey
    /\ Accepted(model, intended)
    /\ model' = intended
    /\ last' = [before |-> model, after |-> intended]

\* restore(): the snapshot is written over the state it was taken before.
Rollback ==
  /\ last # None /\ model = last.after
  /\ Accepted(model, last.before)
  /\ model' = last.before
  /\ last' = None

Next == Apply \/ Rollback
Spec == Init /\ [][Next]_vars

----------------------------------------------------------------------------
(* Properties                                                              *)

\* The keys of a model and its elements.
TypeOK ==
  /\ DOMAIN model \subseteq 0 .. MaxKey
  /\ \A k \in DOMAIN model : model[k] \in Elements

\* Every element keeps its identity and its type as long as it is there, and
\* no two elements ever share an identity.
IdentityKept ==
  [][/\ \A k \in DOMAIN model \cap DOMAIN model' :
          model'[k].id = model[k].id /\ model'[k].type = model[k].type
     /\ WellFormed(model')]_vars

\* What has been written can be rolled back: the snapshot the engine keeps is
\* a transition the writer accepts.
WriteUndoable ==
  last # None /\ model = last.after => Accepted(model, last.before)
=============================================================================
