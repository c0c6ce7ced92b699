--------------------------- MODULE FamilyChildren ---------------------------
(***************************************************************************)
(* A family's profile row.  Its children are one JSON column: adding,      *)
(* editing or removing a child reads the list, and a later statement of    *)
(* the same transaction writes the whole list back, under READ COMMITTED.  *)
(***************************************************************************)
EXTENDS Integers, FiniteSets

CONSTANTS
  Edits,         \* calls that may be under way at once
  MaxChildren,   \* the limit addChild checks; ten in the code
  MaxChildIds    \* bound: child ids ever generated

ASSUME ChildrenAssumption == MaxChildren \in Nat /\ MaxChildIds \in Nat

VARIABLES
  hasProfile,  \* is there a row?
  children,    \* its children, each with a version that stands for its fields
  nextChild,   \* the next id randomUUID gives
  edit,        \* each call: the list it will write, and what that does to one child
  promised,    \* history: the children the family was told are stored
  overlapped   \* history: have two edits been between read and write together?

childVars == <<hasProfile, children, nextChild, edit, promised, overlapped>>

----------------------------------------------------------------------------
ChildIds == 1..MaxChildIds
Child == [id : ChildIds, version : 1..2]
AtRest == [does |-> "nothing"]

ChildrenTypeOK ==
  /\ hasProfile \in BOOLEAN
  /\ children \in SUBSET Child
  /\ nextChild \in 1..(MaxChildIds + 1)
  /\ edit \in [Edits -> {AtRest, [does |-> "create"]}
                \cup [does : {"store", "drop"}, child : Child, list : SUBSET Child]]
  /\ promised \in SUBSET Child
  /\ overlapped \in BOOLEAN

ChildrenInit ==
  /\ hasProfile = FALSE
  /\ children = {}
  /\ nextChild = 1
  /\ edit = [x \in Edits |-> AtRest]
  /\ promised = {}
  /\ overlapped = FALSE

----------------------------------------------------------------------------
\* createFamilyProfile: no profile was found.  The form sends no children.
CreateProfile(x) ==
  /\ edit[x] = AtRest /\ ~ hasProfile
  /\ edit' = [edit EXCEPT ![x] = [does |-> "create"]]
  /\ UNCHANGED <<hasProfile, children, nextChild, promised, overlapped>>

\* A bug: a second insert replaces the row instead of breaking the unique user id.
CreateProfileInsertAgain(x) ==
  /\ edit[x].does = "create"
  /\ hasProfile' = TRUE /\ children' = {}
  /\ edit' = [edit EXCEPT ![x] = AtRest]
  /\ UNCHANGED <<nextChild, promised, overlapped>>

\* The insert; a second one breaks the unique user id and throws.
CreateProfileInsert(x) ==
  /\ edit[x].does = "create"
  /\ hasProfile' = TRUE
  /\ edit' = [edit EXCEPT ![x] = AtRest]
  /\ UNCHANGED <<children, nextChild, promised, overlapped>>

\* x has read the children and will write this list.
WillWrite(x, does, child, list) ==
  /\ edit' = [edit EXCEPT ![x] = [does |-> does, child |-> child, list |-> list]]
  /\ overlapped' = (overlapped \/ \E y \in Edits \ {x} : edit[y].does \in {"store", "drop"})
  /\ UNCHANGED <<hasProfile, children, promised>>

\* A bug: the limit is off by one.
AddChildOneMore(x) ==
  /\ edit[x] = AtRest /\ hasProfile /\ nextChild \in ChildIds
  /\ Cardinality(children) <= MaxChildren
  /\ nextChild' = nextChild + 1
  /\ LET child == [id |-> nextChild, version |-> 1]
     IN  WillWrite(x, "store", child, children \cup {child})

AddChild(x) ==
  /\ edit[x] = AtRest /\ hasProfile /\ nextChild \in ChildIds
  /\ Cardinality(children) < MaxChildren
  /\ nextChild' = nextChild + 1
  /\ LET child == [id |-> nextChild, version |-> 1]
     IN  WillWrite(x, "store", child, children \cup {child})

UpdateChild(x, c) ==
  /\ edit[x] = AtRest /\ hasProfile /\ c \in children
  /\ LET child == [c EXCEPT !.version = 2]
     IN  WillWrite(x, "store", child, (children \ {c}) \cup {child})
  /\ UNCHANGED nextChild

RemoveChild(x, c) ==
  /\ edit[x] = AtRest /\ hasProfile /\ c \in children
  /\ WillWrite(x, "drop", c, children \ {c})
  /\ UNCHANGED nextChild

\* The whole list is written back, and the page told so.
WriteChildren(x) ==
  /\ edit[x].does \in {"store", "drop"}
  /\ children' = edit[x].list
  /\ promised' = {c \in promised : c.id # edit[x].child.id}
                   \cup (IF edit[x].does = "store" THEN {edit[x].child} ELSE {})
  /\ edit' = [edit EXCEPT ![x] = AtRest]
  /\ UNCHANGED <<hasProfile, nextChild, overlapped>>

EditFails(x) ==
  /\ edit[x] # AtRest
  /\ edit' = [edit EXCEPT ![x] = AtRest]
  /\ UNCHANGED <<hasProfile, children, nextChild, promised, overlapped>>

ChildrenNext ==
  \E x \in Edits :
    \/ CreateProfile(x) \/ CreateProfileInsert(x) \/ AddChild(x)
    \/ \E c \in children : UpdateChild(x, c) \/ RemoveChild(x, c)
    \/ WriteChildren(x) \/ EditFails(x)

ChildrenSpec == ChildrenInit /\ [][ChildrenNext]_childVars

----------------------------------------------------------------------------
(* Properties.                                                             *)

\* A family never has more children stored than the limit addChild checks:
\* however many edits overlap, since each writes a whole list that respected it.
ChildLimit == Cardinality(children) <= MaxChildren

\* The row holds what the family was told it holds, until two edits overlap:
\* then the later write undoes the earlier one.
ChildrenKeptInTurn == ~ overlapped => children = promised

============================================================================
