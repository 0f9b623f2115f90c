------------------------------ MODULE DbVariant ------------------------------
(***************************************************************************)
(* CDbVariant (db_variant.cpp): a tagged union that owns a heap block when  *)
(* it holds a string.  Objects are constructed in raw memory, copied, moved,*)
(* assigned and destroyed in any order the language allows; the question is *)
(* who owns which block, and what value an object ends up with.             *)
(***************************************************************************)
EXTENDS Integers, FiniteSets, TLC

CONSTANTS
  Slot,      \* the memory an object can live in
  Signed,    \* the values of Int32 and Int64 objects
  Unsigned,  \* the values of UInt32 and UInt64 objects
  Text,      \* the values of strings: sequences of words
  Wrap       \* 2^64: m_nValue holds an unsigned value as the signed one it wraps to

VARIABLES
  object,   \* per slot: m_eType ("raw" where no object lives) and the union
  block,    \* the live heap blocks, and what each holds
  meant,    \* history: the value the program gave to the object
  broken    \* an invalid pointer was deleted: undefined behaviour

vars == <<object, block, meant, broken>>

\* At most one block per slot is ever live, and one more while a string is replaced.
Address == 1 .. Cardinality(Slot) + 1

None   == [type |-> "None", union |-> 0]
Raw    == [type |-> "raw", union |-> 0]
Number(n) == [type |-> "Number", union |-> n]
String(b) == [type |-> "String", union |-> b]

Init ==
  /\ object = [v \in Slot |-> Raw]
  /\ block = << >>
  /\ meant = [v \in Slot |-> << >>]
  /\ broken = FALSE

-----------------------------------------------------------------------------
Alive(v) == object[v].type # "raw"
Holds(v, type) == object[v].type = type

\* The heap once the object's own block is deleted: clear().
Cleared(v) ==
  IF Holds(v, "String")
  THEN [b \in DOMAIN block \ {object[v].union} |-> block[b]]
  ELSE block

\* new char[nLen]
Fresh(heap) == CHOOSE b \in Address : b \notin DOMAIN heap

\* m_nValue of an unsigned value.
AsSigned(n) == IF n >= Wrap \div 2 THEN n - Wrap ELSE n

\* The words toString() returns: a number is printed from m_nValue; a block that was
\* deleted may hold anything.
toString(v) ==
  CASE Holds(v, "String") -> IF object[v].union \in DOMAIN block THEN block[object[v].union] ELSE <<"?">>
    [] Holds(v, "Number") -> <<ToString(object[v].union)>>
    [] OTHER              -> << >>

-----------------------------------------------------------------------------
(* Every operation below either constructs v in raw memory or acts on a     *)
(* living v; heap is what is left of the heap when it has cleared v.        *)

SetNumber(v, n, heap) ==
  /\ object' = [object EXCEPT ![v] = Number(n)]
  /\ block' = heap

\* setString(), after its clear(): new, then memcpy.
SetString(v, text, heap) ==
  LET own == Fresh(heap)
  IN  /\ object' = [object EXCEPT ![v] = String(own)]
      /\ block' = [b \in DOMAIN heap \cup {own} |-> IF b = own THEN text ELSE heap[b]]

\* What v means from now on, in the words of its decimal or string form.
Means(v, text) == meant' = [meant EXCEPT ![v] = text]

\* CDbVariant(): no value.
ConstructNone(v) ==
  /\ ~Alive(v)
  /\ object' = [object EXCEPT ![v] = None]
  /\ Means(v, << >>)
  /\ UNCHANGED <<block, broken>>

\* The constructors and assignments from the eight integer types.
FromNumber(v, n) ==
  /\ SetNumber(v, AsSigned(n), Cleared(v))
  /\ Means(v, <<ToString(n)>>)
  /\ UNCHANGED broken

\* The constructors from const char* and string (m_eType is set first), and the
\* assignment of a string.
FromString(v, text) ==
  /\ SetString(v, text, Cleared(v))
  /\ Means(v, text)
  /\ UNCHANGED broken

\* Mutant: the pointer is copied, not the text.
CopyShares(v, r, heap) ==
  /\ object' = [object EXCEPT ![v] = object[r]]
  /\ block' = heap
  /\ meant' = [meant EXCEPT ![v] = meant[r]]

\* operator = (const CDbVariant&) after its clear().
Copy(v, r, heap) ==
  /\ IF Holds(r, "String")
     THEN SetString(v, block[object[r].union], heap)
     ELSE object' = [object EXCEPT ![v] = object[r]] /\ block' = heap
  /\ meant' = [meant EXCEPT ![v] = meant[r]]

\* The copy constructor sets m_eType first; an assignment to itself does nothing.
CopyFrom(v, r) ==
  /\ v # r /\ Alive(r)
  /\ Copy(v, r, Cleared(v))
  /\ UNCHANGED broken

\* The move constructor: rhs is an lvalue in "*this = rhs", so that the object is
\* copied; m_eType was not set, and when the raw memory happens to hold eVVT_String
\* there, clear() deletes whatever pointer comes with it.
MoveConstruct(v, r) ==
  /\ v # r /\ ~Alive(v) /\ Alive(r)
  /\ broken' \in BOOLEAN
  /\ Copy(v, r, block)

\* Mutant: the source keeps its pointer.
MoveAssignKeepsSource(v, r) ==
  /\ v # r /\ Alive(v) /\ Alive(r)
  /\ object' = [object EXCEPT ![v] = object[r]]
  /\ block' = Cleared(v)
  /\ meant' = [meant EXCEPT ![v] = meant[r]]
  /\ UNCHANGED broken

\* operator = (CDbVariant&&): the block changes hands, the source becomes None.
MoveAssign(v, r) ==
  /\ v # r /\ Alive(v) /\ Alive(r)
  /\ object' = [object EXCEPT ![v] = object[r], ![r] = None]
  /\ block' = Cleared(v)
  /\ meant' = [meant EXCEPT ![v] = meant[r], ![r] = << >>]
  /\ UNCHANGED broken

\* ~CDbVariant
Destroy(v) ==
  /\ Alive(v)
  /\ object' = [object EXCEPT ![v] = Raw]
  /\ block' = Cleared(v)
  /\ Means(v, << >>)
  /\ UNCHANGED broken

\* The vector and the temporaries of a call go out of scope.
DestroyAll ==
  /\ object' = [v \in Slot |-> Raw]
  /\ block' = [b \in DOMAIN block \ {object[v].union : v \in {u \in Slot : Holds(u, "String")}}
                 |-> block[b]]
  /\ meant' = [v \in Slot |-> << >>]
  /\ UNCHANGED broken

Operation ==
  /\ ~broken
  /\ \E v \in Slot :
       \/ ConstructNone(v)
       \/ \E n \in Signed \cup Unsigned : FromNumber(v, n)
       \/ \E text \in Text : FromString(v, text)
       \/ \E r \in Slot : CopyFrom(v, r) \/ MoveConstruct(v, r) \/ MoveAssign(v, r)
       \/ Destroy(v)

-----------------------------------------------------------------------------
(* Properties.                                                              *)

TypeOK ==
  /\ object \in [Slot -> [type : {"raw", "None", "Number", "String"}, union : Int]]
  /\ DOMAIN block \subseteq Address
  /\ \A b \in DOMAIN block : block[b] \in Text
  /\ broken \in BOOLEAN

\* Every live block belongs to one string object and every string object has a live
\* block: nothing leaks, nothing is deleted twice, no pointer dangles, through any
\* sequence of constructions, copies, moves, assignments and destructions.
HeapExact ==
  /\ \A v \in Slot : Holds(v, "String") => object[v].union \in DOMAIN block
  /\ \A v, r \in Slot :
       (v # r /\ Holds(v, "String") /\ Holds(r, "String")) => object[v].union # object[r].union
  /\ \A b \in DOMAIN block : \E v \in Slot : Holds(v, "String") /\ object[v].union = b

\* The values toString() prints as the signed numbers they wrap to.
Wrapped == {<<ToString(n)>> : n \in {m \in Unsigned : m >= Wrap \div 2}}

\* An object has the value it was given, by whatever way it got it; only an unsigned
\* value of 2^63 and more is printed as a negative one (db_variant.cpp:438).
ValuesKept == \A v \in Slot : Alive(v) => toString(v) = meant[v] \/ meant[v] \in Wrapped
=============================================================================
