-------------------------- MODULE DbArguments_proofs --------------------------
(***************************************************************************)
(* Theorems about the way from the values of a program to a row and back,   *)
(* for any number of objects, any values and texts, and any sequence of     *)
(* operations, commands and failures: who owns which heap block, what value *)
(* an object ends up with, what becomes of a text whose placeholders are    *)
(* replaced, what the table contains, and what a command answers.           *)
(***************************************************************************)
EXTENDS DbRequests_proofs, FiniteSetTheorems, SequenceTheorems, WellFoundedInduction

-----------------------------------------------------------------------------
(* The heap.                                                                *)

HeapInv == Args!TypeOK /\ Args!HeapExact

\* The blocks of the strings among the objects S.
BlocksOf(S) == {object[v].union : v \in {u \in S : Args!Holds(u, "String")}}

\* What an object is; the union of a string is the address of its block.
LEMMA ObjectType ==
  ASSUME HeapInv, NEW v \in Slot
  PROVE  /\ object[v] = [type |-> object[v].type, union |-> object[v].union]
         /\ object[v].type \in {"raw", "None", "Number", "String"}
         /\ object[v].union \in Int
         /\ Args!Holds(v, "String") =>
              /\ object[v].union \in DOMAIN block
              /\ object[v].union \in Args!Address
              /\ block[object[v].union] \in Text
BY DEF HeapInv, Args!TypeOK, Args!HeapExact, Args!Holds

\* clear() leaves the blocks of the other objects, as they were.
LEMMA ClearedHeap ==
  ASSUME HeapInv, NEW v \in Slot
  PROVE  /\ DOMAIN Args!Cleared(v) = BlocksOf(Slot \ {v})
         /\ DOMAIN Args!Cleared(v) \subseteq DOMAIN block
         /\ \A b \in DOMAIN Args!Cleared(v) : Args!Cleared(v)[b] = block[b]
         /\ Args!Holds(v, "String") => object[v].union \notin DOMAIN Args!Cleared(v)
<1>1. DOMAIN block = BlocksOf(Slot)
  <2>1. \A b \in DOMAIN block : \E u \in Slot : Args!Holds(u, "String") /\ object[u].union = b
    BY DEF HeapInv, Args!HeapExact
  <2>2. \A u \in Slot : Args!Holds(u, "String") => object[u].union \in DOMAIN block
    BY DEF HeapInv, Args!HeapExact
  <2> QED
    BY <2>1, <2>2 DEF BlocksOf
<1>2. CASE Args!Holds(v, "String")
  <2>1. Args!Cleared(v) = [b \in DOMAIN block \ {object[v].union} |-> block[b]]
    BY <1>2 DEF Args!Cleared
  <2>2. BlocksOf(Slot) \ {object[v].union} = BlocksOf(Slot \ {v})
    BY <1>2 DEF HeapInv, Args!HeapExact, BlocksOf
  <2> QED
    BY <1>1, <2>1, <2>2
<1>3. CASE ~Args!Holds(v, "String")
  <2>1. Args!Cleared(v) = block
    BY <1>3 DEF Args!Cleared
  <2>2. BlocksOf(Slot) = BlocksOf(Slot \ {v})
    BY <1>3 DEF BlocksOf
  <2> QED
    BY <1>1, <1>3, <2>1, <2>2
<1> QED
  BY <1>2, <1>3

\* new finds an address: there are more than objects.
LEMMA FreshAddress ==
  ASSUME HeapInv, NEW heap, NEW S \in SUBSET Slot, DOMAIN heap = BlocksOf(S)
  PROVE  Args!Fresh(heap) \in Args!Address /\ Args!Fresh(heap) \notin DOMAIN heap
<1> DEFINE strings == {u \in S : Args!Holds(u, "String")}
           owner == [v \in strings |-> object[v].union]
<1>1. IsFiniteSet(strings) /\ Cardinality(strings) <= Cardinality(Slot) /\ Cardinality(Slot) \in Nat
  <2>1. strings \in SUBSET Slot
    OBVIOUS
  <2> QED
    BY <2>1, SlotAssumption, FS_Subset, FS_CardinalityType
<1>2. owner \in Surjection(strings, DOMAIN heap)
  BY DEF BlocksOf, Surjection
<1>3. /\ IsFiniteSet(DOMAIN heap) /\ Cardinality(DOMAIN heap) <= Cardinality(strings)
      /\ Cardinality(DOMAIN heap) \in Nat /\ Cardinality(strings) \in Nat
  BY <1>1, <1>2, FS_Surjection, FS_CardinalityType
<1>4. Cardinality(Args!Address) = Cardinality(Slot) + 1
  <2>1. Cardinality(1 .. Cardinality(Slot) + 1) =
          IF 1 > Cardinality(Slot) + 1 THEN 0 ELSE Cardinality(Slot) + 1 - 1 + 1
    BY <1>1, FS_Interval
  <2>2. Args!Cardinality(Slot) = Cardinality(Slot)
    BY DEF Args!Cardinality, Cardinality
  <2> QED
    BY <1>1, <2>1, <2>2 DEF Args!Address
<1>5. ~(Args!Address \subseteq DOMAIN heap)
  <2> SUFFICES ASSUME Args!Address \subseteq DOMAIN heap PROVE FALSE
    OBVIOUS
  <2>1. Cardinality(Args!Address) <= Cardinality(DOMAIN heap)
    BY <1>3, FS_Subset
  <2> QED
    BY <1>1, <1>3, <1>4, <2>1
<1>6. \E b \in Args!Address : b \notin DOMAIN heap
  BY <1>5
<1> QED
  BY <1>6 DEF Args!Fresh

-----------------------------------------------------------------------------
(* What an operation does to the heap and to the values.                    *)

\* The other objects, and what they print.
OthersKept(S) ==
  \A u \in Slot \ S : object'[u] = object[u] /\ Args!toString(u)' = Args!toString(u)

\* An object that becomes a string gets a block of its own.
LEMMA SetStringStep ==
  ASSUME HeapInv, NEW v \in Slot, NEW text \in Text,
         Args!SetString(v, text, Args!Cleared(v)), broken' \in BOOLEAN
  PROVE  HeapInv' /\ OthersKept({v}) /\ Args!toString(v)' = text
<1> DEFINE heap == Args!Cleared(v)
           own == Args!Fresh(heap)
<1>1. /\ DOMAIN heap = BlocksOf(Slot \ {v})
      /\ DOMAIN heap \subseteq DOMAIN block
      /\ \A b \in DOMAIN heap : heap[b] = block[b]
  BY ClearedHeap
<1>2. own \in Args!Address /\ own \notin DOMAIN heap
  BY <1>1, FreshAddress
<1>3. /\ object' = [object EXCEPT ![v] = Args!String(own)]
      /\ block' = [b \in DOMAIN heap \cup {own} |-> IF b = own THEN text ELSE heap[b]]
  BY DEF Args!SetString
<1> HIDE DEF heap, own
<1>4. Args!String(own) \in [type : {"raw", "None", "Number", "String"}, union : Int]
  BY <1>2 DEF Args!String, Args!Address
<1>5. /\ \A u \in Slot : object'[u] = IF u = v THEN Args!String(own) ELSE object[u]
      /\ object' \in [Slot -> [type : {"raw", "None", "Number", "String"}, union : Int]]
  BY <1>3, <1>4 DEF HeapInv, Args!TypeOK
<1>6. /\ DOMAIN block' = DOMAIN heap \cup {own} /\ block'[own] = text
      /\ \A b \in DOMAIN heap : block'[b] = block[b]
  BY <1>1, <1>2, <1>3
<1>7. \A u \in Slot \ {v} : Args!Holds(u, "String") => object[u].union \in DOMAIN heap
  BY <1>1 DEF BlocksOf
<1>8. Args!TypeOK'
  BY <1>1, <1>2, <1>5, <1>6 DEF HeapInv, Args!TypeOK, Args!Address
<1>9. Args!HeapExact'
  <2>1. \A u \in Slot : Args!Holds(u, "String")' =>
          IF u = v THEN object'[u].union = own
          ELSE Args!Holds(u, "String") /\ object'[u].union = object[u].union
    BY <1>5 DEF Args!Holds, Args!String
  <2>2. Args!Holds(v, "String")' /\ object'[v].union = own
    BY <1>5 DEF Args!Holds, Args!String
  <2>3. \A u \in Slot : Args!Holds(u, "String")' => object'[u].union \in DOMAIN block'
    BY <1>6, <1>7, <2>1
  <2>4. \A u, w \in Slot :
          (u # w /\ Args!Holds(u, "String")' /\ Args!Holds(w, "String")')
            => object'[u].union # object'[w].union
    BY <1>2, <1>7, <2>1 DEF HeapInv, Args!HeapExact
  <2>5. \A b \in DOMAIN block' : \E u \in Slot : Args!Holds(u, "String")' /\ object'[u].union = b
    <3> SUFFICES ASSUME NEW b \in DOMAIN heap
                 PROVE  \E u \in Slot : Args!Holds(u, "String")' /\ object'[u].union = b
      BY <1>6, <2>2
    <3>1. PICK u \in Slot \ {v} : Args!Holds(u, "String") /\ object[u].union = b
      BY <1>1 DEF BlocksOf
    <3>2. object'[u] = object[u]
      BY <1>5, <3>1
    <3> QED
      BY <3>1, <3>2 DEF Args!Holds
  <2> QED
    BY <2>3, <2>4, <2>5 DEF Args!HeapExact, Args!Holds
<1>10. Args!toString(v)' = text
  <2>1. object'[v].type = "String" /\ object'[v].union = own
    BY <1>5 DEF Args!String
  <2> QED
    BY <1>6, <2>1 DEF Args!toString, Args!Holds
<1>11. OthersKept({v})
  <2> SUFFICES ASSUME NEW u \in Slot \ {v}
               PROVE  object'[u] = object[u] /\ Args!toString(u)' = Args!toString(u)
    BY DEF OthersKept
  <2>1. object'[u] = object[u]
    BY <1>5
  <2>2. Args!Holds(u, "String") =>
          /\ object[u].union \in DOMAIN block /\ object[u].union \in DOMAIN block'
          /\ block'[object[u].union] = block[object[u].union]
    BY <1>1, <1>6, <1>7
  <2> QED
    BY <2>1, <2>2 DEF Args!toString, Args!Holds
<1> QED
  BY <1>8, <1>9, <1>10, <1>11 DEF HeapInv

\* An object that becomes anything else gives its block back.
LEMMA ClearStep ==
  ASSUME HeapInv, NEW v \in Slot, NEW x \in [type : {"raw", "None", "Number"}, union : Int],
         object' = [object EXCEPT ![v] = x], block' = Args!Cleared(v), broken' \in BOOLEAN
  PROVE  /\ HeapInv' /\ OthersKept({v}) /\ object'[v] = x
         /\ Args!toString(v)' = IF x.type = "Number" THEN <<Args!ToString(x.union)>> ELSE << >>
<1>1. /\ DOMAIN block' = BlocksOf(Slot \ {v})
      /\ DOMAIN block' \subseteq DOMAIN block
      /\ \A b \in DOMAIN block' : block'[b] = block[b]
  BY ClearedHeap
<1>2. /\ \A u \in Slot : object'[u] = IF u = v THEN x ELSE object[u]
      /\ object' \in [Slot -> [type : {"raw", "None", "Number", "String"}, union : Int]]
  BY DEF HeapInv, Args!TypeOK
<1>3. Args!TypeOK'
  BY <1>1, <1>2 DEF HeapInv, Args!TypeOK, Args!Address
<1>4. \A u \in Slot : Args!Holds(u, "String")' <=> u # v /\ Args!Holds(u, "String")
  BY <1>2 DEF Args!Holds
<1>5. Args!HeapExact'
  <2>1. \A u \in Slot : Args!Holds(u, "String")' => object'[u].union \in DOMAIN block'
    BY <1>1, <1>2, <1>4 DEF BlocksOf
  <2>2. \A u, w \in Slot :
          (u # w /\ Args!Holds(u, "String")' /\ Args!Holds(w, "String")')
            => object'[u].union # object'[w].union
    BY <1>2, <1>4 DEF HeapInv, Args!HeapExact
  <2>3. \A b \in DOMAIN block' : \E u \in Slot : Args!Holds(u, "String")' /\ object'[u].union = b
    BY <1>1, <1>2, <1>4 DEF BlocksOf
  <2> QED
    BY <2>1, <2>2, <2>3 DEF Args!HeapExact, Args!Holds
<1>6. Args!toString(v)' = IF x.type = "Number" THEN <<Args!ToString(x.union)>> ELSE << >>
  BY <1>2 DEF Args!toString, Args!Holds
<1>7. OthersKept({v})
  <2> SUFFICES ASSUME NEW u \in Slot \ {v}
               PROVE  object'[u] = object[u] /\ Args!toString(u)' = Args!toString(u)
    BY DEF OthersKept
  <2>1. object'[u] = object[u]
    BY <1>2
  <2>2. Args!Holds(u, "String") =>
          /\ object[u].union \in DOMAIN block /\ object[u].union \in DOMAIN block'
          /\ block'[object[u].union] = block[object[u].union]
    BY <1>1 DEF BlocksOf
  <2> QED
    BY <2>1, <2>2 DEF Args!toString, Args!Holds
<1> QED
  BY <1>2, <1>3, <1>5, <1>6, <1>7 DEF HeapInv

\* A move: the block changes hands, and the target's own goes.
LEMMA MoveStep ==
  ASSUME HeapInv, NEW v \in Slot, NEW r \in Slot, Args!MoveAssign(v, r)
  PROVE  /\ HeapInv' /\ OthersKept({v, r})
         /\ Args!toString(v)' = Args!toString(r) /\ Args!toString(r)' = << >>
<1>0. /\ v # r /\ object' = [object EXCEPT ![v] = object[r], ![r] = Args!None]
      /\ block' = Args!Cleared(v) /\ broken' = broken
  BY DEF Args!MoveAssign
<1>1. /\ DOMAIN block' = BlocksOf(Slot \ {v})
      /\ DOMAIN block' \subseteq DOMAIN block
      /\ \A b \in DOMAIN block' : block'[b] = block[b]
  BY <1>0, ClearedHeap
<1>2. \A u \in Slot : object'[u] = IF u = v THEN object[r] ELSE IF u = r THEN Args!None ELSE object[u]
  BY <1>0 DEF HeapInv, Args!TypeOK
<1>3. Args!TypeOK'
  <2>1. Args!None \in [type : {"raw", "None", "Number", "String"}, union : Int]
    BY DEF Args!None
  <2>2. object' \in [Slot -> [type : {"raw", "None", "Number", "String"}, union : Int]]
    BY <1>0, <2>1 DEF HeapInv, Args!TypeOK
  <2> QED
    BY <1>0, <1>1, <2>2 DEF HeapInv, Args!TypeOK, Args!Address
<1>4. \A u \in Slot : Args!Holds(u, "String")' <=>
        u # r /\ Args!Holds(IF u = v THEN r ELSE u, "String")
  <2> TAKE u \in Slot
  <2>1. CASE u = r
    <3>1. object'[r] = Args!None
      BY <1>0, <1>2
    <3>2. object'[r].type = "None"
      BY <3>1 DEF Args!None
    <3> QED
      BY <2>1, <3>2 DEF Args!Holds
  <2>2. CASE u = v
    BY <1>0, <1>2, <2>2 DEF Args!Holds
  <2>3. CASE u # r /\ u # v
    BY <1>2, <2>3 DEF Args!Holds
  <2> QED
    BY <2>1, <2>2, <2>3
<1>5. \A u \in Slot \ {r} : object'[u] = object[IF u = v THEN r ELSE u]
  BY <1>2
<1>6. Args!HeapExact'
  <2>1. \A u \in Slot : Args!Holds(u, "String")' => object'[u].union \in DOMAIN block'
    BY <1>0, <1>1, <1>4, <1>5 DEF BlocksOf
  <2>2. \A u, w \in Slot :
          (u # w /\ Args!Holds(u, "String")' /\ Args!Holds(w, "String")')
            => object'[u].union # object'[w].union
    BY <1>4, <1>5 DEF HeapInv, Args!HeapExact
  <2>3. ASSUME NEW b \in DOMAIN block'
        PROVE  \E u \in Slot : Args!Holds(u, "String")' /\ object'[u].union = b
    <3>1. PICK u \in Slot \ {v} : Args!Holds(u, "String") /\ object[u].union = b
      BY <1>1, <2>3 DEF BlocksOf
    <3>2. CASE u = r
      BY <1>0, <1>4, <1>5, <3>1, <3>2
    <3>3. CASE u # r
      BY <1>4, <1>5, <3>1, <3>3
    <3> QED
      BY <3>2, <3>3
  <2> QED
    BY <2>1, <2>2, <2>3 DEF Args!HeapExact, Args!Holds
<1>7. ASSUME NEW u \in Slot \ {r}
      PROVE  Args!toString(u)' = Args!toString(IF u = v THEN r ELSE u)
  <2> DEFINE w == IF u = v THEN r ELSE u
  <2>1. object'[u] = object[w] /\ w \in Slot \ {v}
    BY <1>0, <1>5
  <2> HIDE DEF w
  <2>2. Args!Holds(w, "String") =>
          /\ object[w].union \in DOMAIN block /\ object[w].union \in DOMAIN block'
          /\ block'[object[w].union] = block[object[w].union]
    BY <1>1, <2>1 DEF BlocksOf
  <2>3. Args!toString(u)' = Args!toString(w)
    BY <2>1, <2>2 DEF Args!toString, Args!Holds
  <2> QED
    BY <2>3 DEF w
<1>8. Args!toString(r)' = << >>
  <2>1. object'[r] = Args!None
    BY <1>0, <1>2
  <2>2. object'[r].type = "None"
    BY <2>1 DEF Args!None
  <2> QED
    BY <2>2 DEF Args!toString, Args!Holds
<1>9. OthersKept({v, r})
  BY <1>2, <1>7 DEF OthersKept
<1> QED
  BY <1>0, <1>3, <1>6, <1>7, <1>8, <1>9 DEF HeapInv

\* The end of a scope: every object gives its block back.
LEMMA DestroyAllStep ==
  ASSUME HeapInv, Args!DestroyAll
  PROVE  HeapInv' /\ \A v \in Slot : ~Args!Alive(v)'
<1>1. /\ object' = [v \in Slot |-> Args!Raw] /\ broken' = broken
      /\ block' = [b \in DOMAIN block \ BlocksOf(Slot) |-> block[b]]
  BY DEF Args!DestroyAll, BlocksOf
<1>2. DOMAIN block' = {}
  BY <1>1 DEF HeapInv, Args!HeapExact, BlocksOf
<1>3. \A v \in Slot : object'[v] = Args!Raw
  BY <1>1
<1>4. Args!TypeOK'
  BY <1>1, <1>2 DEF HeapInv, Args!TypeOK, Args!Raw
<1>5. \A v \in Slot : ~Args!Holds(v, "String")' /\ ~Args!Alive(v)'
  BY <1>3 DEF Args!Holds, Args!Alive, Args!Raw
<1>6. Args!HeapExact'
  BY <1>2, <1>5 DEF Args!HeapExact, Args!Holds
<1> QED
  BY <1>4, <1>5, <1>6 DEF HeapInv

-----------------------------------------------------------------------------
(* The values.                                                              *)

\* An object prints what it means, or its meaning is a number it cannot print.
Kept(v) == Args!toString(v) = meant[v] \/ meant[v] \in Args!Wrapped

ArgsInv ==
  /\ HeapInv
  /\ meant = [v \in Slot |-> meant[v]]
  /\ \A v \in Slot : Args!Alive(v) => Kept(v)

\* Operations on one object: the others mean and print what they did.
LEMMA OneObject ==
  ASSUME ArgsInv, NEW v \in Slot, HeapInv', OthersKept({v}), NEW text,
         meant' = [meant EXCEPT ![v] = text],
         \/ ~Args!Alive(v)'
         \/ Args!toString(v)' = text
         \/ text \in Args!Wrapped
  PROVE  ArgsInv'
<1>1. \A u \in Slot : meant'[u] = IF u = v THEN text ELSE meant[u]
  BY DEF ArgsInv
<1>2. meant' = [u \in Slot |-> meant'[u]]
  BY DEF ArgsInv
<1>3. Args!Wrapped' = Args!Wrapped
  BY DEF Args!Wrapped
<1>4. ASSUME NEW u \in Slot, u # v, Args!Alive(u)' PROVE Kept(u)'
  BY <1>1, <1>3, <1>4 DEF OthersKept, ArgsInv, Kept, Args!Alive
<1>5. ASSUME Args!Alive(v)' PROVE Kept(v)'
  BY <1>1, <1>3, <1>5 DEF Kept
<1> QED
  BY <1>2, <1>4, <1>5 DEF ArgsInv

\* A number is printed as the signed one it wraps to.
LEMMA NumberKept ==
  ASSUME NEW n \in Signed \cup Unsigned
  PROVE  /\ n \in Int /\ Args!AsSigned(n) \in Int
         /\ Args!AsSigned(n) = n \/ <<Args!ToString(n)>> \in Args!Wrapped
<1>1. n \in Int /\ Wrap \in Nat /\ Wrap \div 2 \in Int
  BY ValueAssumption
<1>2. CASE n < Wrap \div 2
  BY <1>1, <1>2 DEF Args!AsSigned
<1>3. CASE n >= Wrap \div 2
  <2>1. n \in Unsigned
    BY <1>1, <1>3, ValueAssumption
  <2>2. <<Args!ToString(n)>> \in Args!Wrapped
    BY <1>3, <2>1 DEF Args!Wrapped
  <2> QED
    BY <1>1, <1>3, <2>2 DEF Args!AsSigned
<1> QED
  BY <1>1, <1>2, <1>3

\* A copy has what its source has, in a block of its own.
LEMMA CopyStep ==
  ASSUME ArgsInv, NEW v \in Slot, NEW r \in Slot, v # r, Args!Alive(r), broken' \in BOOLEAN,
         Args!Copy(v, r, Args!Cleared(v))
  PROVE  ArgsInv'
<1>0. HeapInv
  BY DEF ArgsInv
<1>1. meant' = [meant EXCEPT ![v] = meant[r]] /\ Kept(r)
  BY DEF Args!Copy, ArgsInv
<1>2. HeapInv' /\ OthersKept({v}) /\ Args!toString(v)' = Args!toString(r)
  <2>1. CASE Args!Holds(r, "String")
    <3> DEFINE text == block[object[r].union]
    <3>1. Args!SetString(v, text, Args!Cleared(v))
      BY <2>1 DEF Args!Copy
    <3>2. /\ object[r].type = "String" /\ object[r].union \in DOMAIN block
          /\ text \in Text
      BY <1>0, <2>1, ObjectType DEF Args!Holds
    <3>3. Args!toString(r) = text
      BY <3>2 DEF Args!toString, Args!Holds
    <3> HIDE DEF text
    <3> QED
      BY <1>0, <3>1, <3>2, <3>3, SetStringStep
  <2>2. CASE ~Args!Holds(r, "String")
    <3> DEFINE x == object[r]
    <3>1. object' = [object EXCEPT ![v] = x] /\ block' = Args!Cleared(v)
      BY <2>2 DEF Args!Copy
    <3>2. x \in [type : {"raw", "None", "Number"}, union : Int]
      BY <1>0, <2>2 DEF HeapInv, Args!TypeOK, Args!Holds
    <3>3. Args!toString(r) = IF x.type = "Number" THEN <<Args!ToString(x.union)>> ELSE << >>
      BY <2>2 DEF Args!toString, Args!Holds
    <3> HIDE DEF x
    <3> QED
      BY <1>0, <3>1, <3>2, <3>3, ClearStep
  <2> QED
    BY <2>1, <2>2
<1> QED
  BY <1>1, <1>2, OneObject DEF Kept

\* Every operation of the program on its objects.
LEMMA OperationStep ==
  ASSUME ArgsInv, Args!Operation
  PROVE  ArgsInv'
<1>0. HeapInv /\ broken \in BOOLEAN
  BY DEF ArgsInv, HeapInv, Args!TypeOK
<1>1. ASSUME NEW v \in Slot, Args!ConstructNone(v) PROVE ArgsInv'
  <2>1. Args!None \in [type : {"raw", "None", "Number"}, union : Int] /\ Args!None.type = "None"
    BY DEF Args!None
  <2>2. /\ object' = [object EXCEPT ![v] = Args!None] /\ block' = Args!Cleared(v) /\ broken' = broken
        /\ meant' = [meant EXCEPT ![v] = << >>]
    BY <1>1 DEF Args!ConstructNone, Args!Alive, Args!Cleared, Args!Holds, Args!Means
  <2>3. HeapInv' /\ OthersKept({v}) /\ Args!toString(v)' = << >>
    BY <1>0, <2>1, <2>2, ClearStep
  <2> QED
    BY <2>2, <2>3, OneObject
<1>2. ASSUME NEW v \in Slot, NEW n \in Signed \cup Unsigned, Args!FromNumber(v, n) PROVE ArgsInv'
  <2> DEFINE x == Args!Number(Args!AsSigned(n))
  <2>1. /\ object' = [object EXCEPT ![v] = x] /\ block' = Args!Cleared(v) /\ broken' = broken
        /\ meant' = [meant EXCEPT ![v] = <<Args!ToString(n)>>]
    BY <1>2 DEF Args!FromNumber, Args!SetNumber, Args!Means
  <2>2. /\ x \in [type : {"raw", "None", "Number"}, union : Int]
        /\ x.type = "Number" /\ x.union = Args!AsSigned(n)
    BY NumberKept DEF Args!Number
  <2> HIDE DEF x
  <2>3. HeapInv' /\ OthersKept({v}) /\ Args!toString(v)' = <<Args!ToString(Args!AsSigned(n))>>
    BY <1>0, <2>1, <2>2, ClearStep
  <2> QED
    BY <2>1, <2>3, NumberKept, OneObject
<1>3. ASSUME NEW v \in Slot, NEW text \in Text, Args!FromString(v, text) PROVE ArgsInv'
  <2>1. /\ Args!SetString(v, text, Args!Cleared(v)) /\ broken' = broken
        /\ meant' = [meant EXCEPT ![v] = text]
    BY <1>3 DEF Args!FromString, Args!Means
  <2>2. HeapInv' /\ OthersKept({v}) /\ Args!toString(v)' = text
    BY <1>0, <2>1, SetStringStep
  <2> QED
    BY <2>1, <2>2, OneObject
<1>4. ASSUME NEW v \in Slot, NEW r \in Slot, Args!CopyFrom(v, r) PROVE ArgsInv'
  BY <1>0, <1>4, CopyStep DEF Args!CopyFrom
<1>5. ASSUME NEW v \in Slot, NEW r \in Slot, Args!MoveConstruct(v, r) PROVE ArgsInv'
  <2>1. Args!Cleared(v) = block
    BY <1>5 DEF Args!MoveConstruct, Args!Cleared, Args!Alive, Args!Holds
  <2> QED
    BY <1>0, <1>5, <2>1, CopyStep DEF Args!MoveConstruct
<1>6. ASSUME NEW v \in Slot, NEW r \in Slot, Args!MoveAssign(v, r) PROVE ArgsInv'
  <2>1. /\ HeapInv' /\ OthersKept({v, r})
        /\ Args!toString(v)' = Args!toString(r) /\ Args!toString(r)' = << >>
    BY <1>0, <1>6, MoveStep
  <2>2. /\ v # r /\ Args!Alive(r) /\ meant' = [meant EXCEPT ![v] = meant[r], ![r] = << >>]
    BY <1>6 DEF Args!MoveAssign
  <2>3. /\ \A u \in Slot : meant'[u] = IF u = r THEN << >> ELSE IF u = v THEN meant[r] ELSE meant[u]
        /\ meant' = [u \in Slot |-> meant'[u]]
    BY <2>2 DEF ArgsInv
  <2>4. Kept(r) /\ Args!Wrapped' = Args!Wrapped
    BY <2>2 DEF ArgsInv, Args!Wrapped
  <2>5. ASSUME NEW u \in Slot, Args!Alive(u)' PROVE Kept(u)'
    BY <2>1, <2>2, <2>3, <2>4, <2>5 DEF Kept, OthersKept, ArgsInv, Args!Alive
  <2> QED
    BY <2>1, <2>3, <2>5 DEF ArgsInv
<1>7. ASSUME NEW v \in Slot, Args!Destroy(v) PROVE ArgsInv'
  <2>1. /\ object' = [object EXCEPT ![v] = Args!Raw] /\ block' = Args!Cleared(v) /\ broken' = broken
        /\ meant' = [meant EXCEPT ![v] = << >>]
    BY <1>7 DEF Args!Destroy, Args!Means
  <2>2. Args!Raw \in [type : {"raw", "None", "Number"}, union : Int] /\ Args!Raw.type = "raw"
    BY DEF Args!Raw
  <2>3. HeapInv' /\ OthersKept({v}) /\ Args!toString(v)' = << >>
    BY <1>0, <2>1, <2>2, ClearStep
  <2> QED
    BY <2>1, <2>3, OneObject
<1> QED
  BY <1>1, <1>2, <1>3, <1>4, <1>5, <1>6, <1>7 DEF Args!Operation

-----------------------------------------------------------------------------
(* The theorems.                                                            *)

\* Commands destroy the objects of their vector or do not touch any.
LEMMA ArgsStep ==
  ASSUME ArgsInv, [Next]_vars
  PROVE  ArgsInv'
<1>1. CASE UNCHANGED argVars
  BY <1>1 DEF argVars, ArgsInv, HeapInv, Args!TypeOK, Args!HeapExact, Args!Holds, Args!Alive,
              Kept, Args!toString, Args!Wrapped
<1>2. CASE Args!DestroyAll
  <2>1. HeapInv' /\ \A v \in Slot : ~Args!Alive(v)'
    BY <1>2, DestroyAllStep DEF ArgsInv
  <2>2. meant' = [v \in Slot |-> meant'[v]]
    BY <1>2 DEF Args!DestroyAll
  <2> QED
    BY <2>1, <2>2 DEF ArgsInv
<1>3. CASE Prepare
  BY <1>3, OperationStep DEF Prepare
<1>4. ASSUME NEW text, NEW vec, call(text, vec) \/ query(text, vec) PROVE ArgsInv'
  BY <1>2, <1>4 DEF call, query
<1>5. CASE RowCommand \/ Thread \/ LinkDown
  BY <1>1, <1>5 DEF RowCommand, Thread, LinkDown
<1>6. CASE UNCHANGED vars
  BY <1>1, <1>6 DEF vars
<1> QED
  BY <1>3, <1>4, <1>5, <1>6 DEF Next

\* The objects, their blocks and their values, whatever the program does with them.
THEOREM ArgsCorrect == Spec => []ArgsInv
<1>1. Init => ArgsInv
  <2> SUFFICES ASSUME Init PROVE ArgsInv
    OBVIOUS
  <2>1. /\ object = [v \in Slot |-> Args!Raw] /\ block = << >> /\ broken = FALSE
        /\ meant = [v \in Slot |-> << >>]
    BY DEF Init, Args!Init
  <2>2. DOMAIN block = {}
    BY <2>1
  <2>3. \A v \in Slot : ~Args!Holds(v, "String") /\ ~Args!Alive(v)
    BY <2>1 DEF Args!Holds, Args!Alive, Args!Raw
  <2>4. HeapInv
    <3>1. Args!Raw \in [type : {"raw", "None", "Number", "String"}, union : Int]
      BY DEF Args!Raw
    <3>2. Args!TypeOK
      BY <2>1, <2>2, <3>1 DEF Args!TypeOK
    <3>3. Args!HeapExact
      BY <2>2, <2>3 DEF Args!HeapExact
    <3> QED
      BY <3>2, <3>3 DEF HeapInv
  <2> QED
    BY <2>1, <2>3, <2>4 DEF ArgsInv
<1>2. ArgsInv /\ [Next]_vars => ArgsInv'
  BY ArgsStep
<1> QED
  BY <1>1, <1>2, PTL DEF Spec

\* Nothing leaks, nothing is deleted twice and no pointer dangles, for any number of
\* objects and any sequence of constructions, copies, moves, assignments and
\* destructions (db_variant.cpp:50): but for the move constructor, which may free
\* anything (db_variant.cpp:89), the blocks are what the strings own.
THEOREM HeapCorrect == Spec => []HeapExact
<1>1. ArgsInv => HeapExact
  BY DEF ArgsInv, HeapInv, HeapExact
<1> QED
  BY <1>1, ArgsCorrect, PTL

\* An argument is sent as the value the program gave it, by whatever way the object
\* got there, unless it is an unsigned number of 2^63 or more (db_variant.cpp:438).
THEOREM ValuesCorrect == Spec => []ValuesKept
<1>1. ArgsInv => ValuesKept
  BY DEF ArgsInv, Kept, ValuesKept, Args!ValuesKept
<1> QED
  BY <1>1, ArgsCorrect, PTL

\* How many attempts are behind a call, at its statements.
Attempts ==
  /\ try \in 0 .. TRY_DEAD_LOOP_COUNT
  /\ pc \in {"idle", "autocommit off"} => try = 0
  /\ pc \notin {"idle", "autocommit on"} => try < TRY_DEAD_LOOP_COUNT

Codes == {"kRC_OK", "kRC_MYSQL_ERROR", "kRC_LOST_CONNECTION", "kRC_SQLPARM_ERROR"}

Reports == Attempts /\ code \in Codes /\ plain \in BOOLEAN

\* What a handler reports is one of the codes.
LEMMA ErrorCodes ==
  \A errno : Cmd!ErrorCode(errno) \in Codes
BY DEF Cmd!ErrorCode, Codes

\* A call may try at least once.
LEMMA SomeAttempt == 0 \in 0 .. TRY_DEAD_LOOP_COUNT /\ 0 < TRY_DEAD_LOOP_COUNT
BY TryAssumption

\* The statements of a call.
LEMMA CallStepReports ==
  ASSUME CallInv, Reports, Cmd!CallStep
  PROVE  Reports'
<1>0. Attempts /\ code \in Codes /\ plain \in BOOLEAN
  BY DEF Reports
<1>0a. Attempts /\ TRY_DEAD_LOOP_COUNT \in Nat \ {0}
  BY <1>0, TryAssumption
<1>1. plain' = plain
  BY DEF Cmd!CallStep, Cmd!autoCommitOff, Cmd!begin, Cmd!ExecuteOK, Cmd!ExecuteDeadloop,
         Cmd!ExecuteFails, Cmd!Retry, Cmd!Fail, Cmd!commit, Cmd!autoCommitOn, Cmd!callVars,
         Cmd!history
<1>2. code' \in Codes
  <2>1. code' = code \/ code' \in {"kRC_OK", "kRC_MYSQL_ERROR"} \/ Cmd!ExecuteFails
    BY DEF Cmd!CallStep, Cmd!autoCommitOff, Cmd!begin, Cmd!ExecuteOK, Cmd!ExecuteDeadloop,
           Cmd!Retry, Cmd!Fail, Cmd!commit, Cmd!autoCommitOn
  <2>2. CASE Cmd!ExecuteFails
    BY <2>2, ErrorCodes DEF Cmd!ExecuteFails
  <2> QED
    BY <1>0, <2>1, <2>2 DEF Codes
<1>3. Attempts'
  <2>1. CASE Cmd!Retry
    <3>1. /\ pc = "rollback, retry" /\ try' = try + 1
          /\ IF try' < TRY_DEAD_LOOP_COUNT THEN pc' = "begin" ELSE pc' = "autocommit on"
      BY <2>1 DEF Cmd!Retry
    <3>2. try < TRY_DEAD_LOOP_COUNT /\ try \in 0 .. TRY_DEAD_LOOP_COUNT
      BY <1>0, <3>1, Zenon DEF Attempts
    <3>3. try + 1 \in 0 .. TRY_DEAD_LOOP_COUNT
      BY <1>0a, <3>2
    <3>4. pc' \notin {"idle", "autocommit off"}
          /\ (pc' \notin {"idle", "autocommit on"} => try' < TRY_DEAD_LOOP_COUNT)
      BY <3>1
    <3> QED
      BY <3>1, <3>3, <3>4, Zenon DEF Attempts
  <2>2. CASE Cmd!autoCommitOn
    <3>1. pc' = "idle" /\ try' = 0
      BY <2>2 DEF Cmd!autoCommitOn, Cmd!Return
    <3> QED
      BY <3>1, SomeAttempt, Zenon DEF Attempts
  <2>3. CASE Cmd!autoCommitOff \/ Cmd!begin \/ Cmd!ExecuteOK \/ Cmd!ExecuteDeadloop
             \/ Cmd!ExecuteFails \/ Cmd!Fail \/ Cmd!commit
    <3>1. /\ try' = try /\ pc \notin {"idle", "autocommit on"}
          /\ pc' \notin {"idle", "autocommit off"}
      BY <2>3 DEF Cmd!autoCommitOff, Cmd!begin, Cmd!ExecuteOK, Cmd!ExecuteDeadloop,
           Cmd!ExecuteFails, Cmd!Fail, Cmd!commit
    <3>2. try < TRY_DEAD_LOOP_COUNT /\ try \in 0 .. TRY_DEAD_LOOP_COUNT
      BY <1>0, <3>1 DEF Attempts
    <3> QED
      BY <3>1, <3>2, Zenon DEF Attempts
  <2> QED
    BY <2>1, <2>2, <2>3 DEF Cmd!CallStep
<1> QED
  BY <1>0, <1>1, <1>2, <1>3 DEF Reports

\* The next command, which starts with no attempt behind it.
LEMMA NextCommandReports ==
  ASSUME Reports, pc = "idle", try' = try, pc' \in {"idle", "autocommit off"},
         code' \in Codes, plain' \in BOOLEAN
  PROVE  Reports'
<1>0. try = 0
  BY DEF Reports, Attempts
<1>1. Attempts'
  BY <1>0, SomeAttempt, Zenon DEF Attempts
<1> QED
  BY <1>1 DEF Reports

\* Every step reports a code, and counts its attempts.
LEMMA ReportsStep ==
  ASSUME CallInv, Reports, [Next]_vars
  PROVE  Reports'
<1>0. code \in Codes /\ plain \in BOOLEAN /\ {"kRC_OK", "kRC_SQLPARM_ERROR"} \subseteq Codes
  BY DEF Reports, Codes
<1>1. CASE UNCHANGED <<pc, try, code, plain>>
  BY <1>1 DEF Reports, Attempts
<1>2. CASE Prepare \/ LinkDown \/ UNCHANGED vars
  BY <1>1, <1>2 DEF Prepare, LinkDown, Cmd!LinkDown, Cmd!history, vars, sessionVars
<1>3. CASE Thread
  BY <1>3, CallStepReports DEF Thread
<1>4. ASSUME NEW views, NEW id, NEW name, Cmd!RowCommand(views, id, name) PROVE Reports'
  <2>1. /\ pc = "idle" /\ pc' = pc /\ try' = try /\ plain' = plain
    BY <1>4 DEF Cmd!RowCommand, Cmd!NextCommand, Cmd!rowUnchanged
  <2>2. code' \in Codes
    BY <1>0, <1>4, ErrorCodes DEF Cmd!RowCommand
  <2> QED
    BY <1>0, <2>1, <2>2, NextCommandReports
<1>5. ASSUME NEW rows, NEW asked, Cmd!Answer(rows, asked) \/ Cmd!Refuse("kRC_SQLPARM_ERROR"),
             Cmd!Read, plain' \in BOOLEAN
      PROVE  Reports'
  <2>1. pc = "idle" /\ pc' = pc /\ try' = try
    BY <1>5 DEF Cmd!Read, Cmd!NextCommand, Cmd!rowUnchanged
  <2>2. code' \in Codes
    BY <1>0, <1>5, ErrorCodes DEF Cmd!Answer, Cmd!ReadFails, Cmd!Refuse
  <2> QED
    BY <1>5, <2>1, <2>2, NextCommandReports
<1>6. CASE RowCommand
  <2>1. ASSUME NEW m, Cmd!Insert(m) PROVE Reports'
    BY <1>4, <2>1 DEF Cmd!Insert
  <2>2. ASSUME NEW m, Cmd!Update(m) PROVE Reports'
    BY <1>4, <2>2 DEF Cmd!Update
  <2>3. ASSUME NEW k, Cmd!Delete(k) PROVE Reports'
    BY <1>4, <2>3 DEF Cmd!Delete
  <2>4. ASSUME NEW k, Cmd!Select(k) PROVE Reports'
    <3>1. Cmd!Read /\ plain' = plain
      BY <2>4 DEF Cmd!Select
    <3>2. \E rows, asked : Cmd!Answer(rows, asked)
      BY <2>4 DEF Cmd!Select
    <3> QED
      BY <1>0, <1>5, <3>1, <3>2
  <2> QED
    BY <1>6, <2>1, <2>2, <2>3, <2>4 DEF RowCommand
<1>7. ASSUME NEW sql, NEW vec, call(sql, vec) PROVE Reports'
  <2>1. Cmd!Call(sql, Texts(vec), Meant(vec))
    BY <1>7 DEF call
  <2>2. /\ pc = "idle" /\ try' = try /\ pc' \in {"idle", "autocommit off"}
        /\ code' \in {code, "kRC_SQLPARM_ERROR"}
    BY <2>1 DEF Cmd!Call, Cmd!NextCommand
  <2>3. plain' \in BOOLEAN
    BY <1>0, <2>1 DEF Cmd!Call
  <2> QED
    BY <1>0, <2>2, <2>3, NextCommandReports
<1>8. ASSUME NEW where, NEW vec, query(where, vec) PROVE Reports'
  <2>1. Cmd!Query(where, Texts(vec), Meant(vec))
    BY <1>8 DEF query
  <2>2. Cmd!Read /\ plain' \in BOOLEAN
    BY <1>0, <2>1 DEF Cmd!Query
  <2>3. \E rows, asked : Cmd!Answer(rows, asked) \/ Cmd!Refuse("kRC_SQLPARM_ERROR")
    BY <2>1 DEF Cmd!Query, Cmd!Answer
  <2> QED
    BY <1>5, <2>2, <2>3
<1> QED
  BY <1>2, <1>3, <1>6, <1>7, <1>8 DEF Next

\* What the handlers report.
THEOREM ReportsCorrect == Spec => []Reports
<1>1. Init => Reports
  BY TryAssumption DEF Init, Cmd!Init, Reports, Attempts, Codes
<1>2. CallInv /\ Reports /\ [Next]_vars => Reports'
  BY ReportsStep
<1> QED
  BY <1>1, <1>2, CallCorrect, PTL DEF Spec

\* Types; in particular no call makes more attempts than _TRY_DEAD_LOOP_COUNT.
THEOREM TypeCorrect == Spec => []TypeOK
<1>1. ArgsInv /\ CallInv /\ Reports => TypeOK
  BY DEF ArgsInv, HeapInv, CallInv, CommandTypes, Counted, Label, Reports, Attempts, Codes, TypeOK
<1> QED
  BY <1>1, ReportsCorrect, CallCorrect, ArgsCorrect, PTL

-----------------------------------------------------------------------------
(* The texts of commands.                                                   *)

\* The words of texts: what a program writes, and what numbers are printed as.
Word == STRING \cup {Args!ToString(n) : n \in Int}

\* A set of numbers has a least one: NatInductiveDef needs an operator as a parameter.
LEMMA NatMin ==
  ASSUME NEW T, T \subseteq Nat, T # {}
  PROVE  \E x \in T : \A y \in T : x <= y
<1> DEFINE R == OpToRel(<, Nat)
<1>1. IsWellFoundedOn(R, Nat)
  BY NatLessThanWellFounded
<1>2. ASSUME NEW x \in Nat, NEW y \in Nat, y < x PROVE <<y, x>> \in R
  BY <1>2 DEF OpToRel
<1>3. \E x \in T : \A y \in T : <<y, x>> \notin R
  <2> HIDE DEF R
  <2> QED
    BY <1>1, WFMin
<1> HIDE DEF R
<1>4. PICK x \in T : \A y \in T : <<y, x>> \notin R
  BY <1>3
<1>5. ASSUME NEW y \in T PROVE x <= y
  <2>1. x \in Nat /\ y \in Nat /\ ~(y < x)
    BY <1>2, <1>4
  <2> QED
    BY <2>1
<1> QED
  BY <1>4, <1>5

\* The function Meaning is defined with, on the first n words of sql.
Meant1(sql, args, n, f) ==
  f = [k \in 0 .. n |-> IF k = 0 THEN << >> ELSE f[k - 1] \o Cmd!Stands(sql[k], args)]

\* It exists: the recursion goes down to 0.
LEMMA MeaningExists ==
  ASSUME NEW sql, NEW args, NEW n \in Nat
  PROVE  \E f : Meant1(sql, args, n, f)
<1> DEFINE T == {m \in Nat : ~ \E f : Meant1(sql, args, m, f)}
<1>1. SUFFICES ASSUME T # {} PROVE FALSE
  OBVIOUS
<1>2. PICK m \in T : \A y \in T : m <= y
  BY <1>1, NatMin
<1>3. CASE m = 0
  <2>1. Meant1(sql, args, 0, [k \in 0 .. 0 |-> << >>])
    BY DEF Meant1
  <2> QED
    BY <2>1, <1>3
<1>4. CASE m # 0
  <2>1. m - 1 \in Nat /\ m - 1 \notin T
    BY <1>2, <1>4
  <2>2. PICK f : Meant1(sql, args, m - 1, f)
    BY <2>1
  <2> DEFINE g == [k \in 0 .. m |->
                     IF k <= m - 1 THEN f[k] ELSE f[m - 1] \o Cmd!Stands(sql[m], args)]
  <2>3. ASSUME NEW k \in 0 .. m
        PROVE  g[k] = IF k = 0 THEN << >> ELSE g[k - 1] \o Cmd!Stands(sql[k], args)
    <3>1. CASE k <= m - 1
      <4>0. f = [i \in 0 .. m - 1 |->
                   IF i = 0 THEN << >> ELSE f[i - 1] \o Cmd!Stands(sql[i], args)]
        BY <2>2, Zenon DEF Meant1
      <4>1. k \in 0 .. m - 1
        BY <3>1, <2>1
      <4>2. f[k] = IF k = 0 THEN << >> ELSE f[k - 1] \o Cmd!Stands(sql[k], args)
        BY <4>0, <4>1, Zenon
      <4> QED
        BY <4>2, <3>1, <2>1, SMTT(30)
    <3>2. CASE k = m
      BY <3>2, <2>1, <1>4, SMTT(30)
    <3> QED
      BY <3>1, <3>2, <2>1
  <2>4. Meant1(sql, args, m, g)
     BY <2>3, Zenon DEF Meant1
  <2> QED
    BY <2>4
<1> QED
  BY <1>3, <1>4

\* Meaning is its value at the end of sql.
LEMMA MeaningStep ==
  ASSUME NEW sql, NEW args, Len(sql) \in Nat
  PROVE  \E f : Meant1(sql, args, Len(sql), f) /\ Cmd!Meaning(sql, args) = f[Len(sql)]
<1> DEFINE text == CHOOSE f : Meant1(sql, args, Len(sql), f)
<1>1. Meant1(sql, args, Len(sql), text)
  BY MeaningExists, Zenon
<1>2. Cmd!Meaning(sql, args) = text[Len(sql)]
  BY Zenon DEF Cmd!Meaning, Meant1
<1> QED
  BY <1>1, <1>2

\* The function Substituted is defined with, on the first n arguments.
Put(sql, args, n, f) ==
  f = [i \in 0 .. n |->
         IF i = 0 THEN sql
         ELSE IF f[i - 1] # NoText /\ Cmd!Contains(f[i - 1], Cmd!Placeholder(i - 1))
         THEN Cmd!Replace(f[i - 1], i - 1, args[i])
         ELSE NoText]

LEMMA PutExists ==
  ASSUME NEW sql, NEW args, NEW n \in Nat
  PROVE  \E f : Put(sql, args, n, f)
<1> DEFINE T == {m \in Nat : ~ \E f : Put(sql, args, m, f)}
           Next1(text, i) == IF text # NoText /\ Cmd!Contains(text, Cmd!Placeholder(i - 1))
                             THEN Cmd!Replace(text, i - 1, args[i])
                             ELSE NoText
<1>0. \A m, f : Put(sql, args, m, f) <=>
        f = [i \in 0 .. m |-> IF i = 0 THEN sql ELSE Next1(f[i - 1], i)]
  BY Zenon DEF Put
<1>1. SUFFICES ASSUME T # {} PROVE FALSE
  OBVIOUS
<1> HIDE DEF Next1
<1>2. PICK m \in T : \A y \in T : m <= y
  BY <1>1, NatMin
<1>3. CASE m = 0
  <2>1. Put(sql, args, 0, [k \in 0 .. 0 |-> sql])
    BY DEF Put
  <2> QED
    BY <2>1, <1>3
<1>4. CASE m # 0
  <2>1. m - 1 \in Nat /\ m - 1 \notin T
    BY <1>2, <1>4
  <2>2. PICK f : Put(sql, args, m - 1, f)
    BY <2>1
  <2> DEFINE g == [k \in 0 .. m |-> IF k <= m - 1 THEN f[k] ELSE Next1(f[m - 1], m)]
  <2>3. ASSUME NEW k \in 0 .. m
        PROVE  g[k] = IF k = 0 THEN sql ELSE Next1(g[k - 1], k)
    <3>1. CASE k <= m - 1
      <4>0. f = [i \in 0 .. m - 1 |-> IF i = 0 THEN sql ELSE Next1(f[i - 1], i)]
        BY <1>0, <2>2, Zenon
      <4>1. k \in 0 .. m - 1
        BY <3>1, <2>1
      <4>2. f[k] = IF k = 0 THEN sql ELSE Next1(f[k - 1], k)
        BY <4>0, <4>1, Zenon
      <4> QED
        BY <4>2, <3>1, <2>1, SMTT(30)
    <3>2. CASE k = m
      BY <3>2, <2>1, <1>4, SMTT(30)
    <3> QED
      BY <3>1, <3>2, <2>1
  <2>4. Put(sql, args, m, g)
     BY <1>0, <2>3, Zenon
  <2> QED
    BY <2>4
<1> QED
  BY <1>3, <1>4

LEMMA SubstitutedStep ==
  ASSUME NEW sql, NEW args, Len(args) \in Nat
  PROVE  \E f : Put(sql, args, Len(args), f) /\ Cmd!Substituted(sql, args) = f[Len(args)]
<1> DEFINE text == CHOOSE f : Put(sql, args, Len(args), f)
<1>1. Put(sql, args, Len(args), text)
  BY PutExists, Zenon
<1>2. Cmd!Substituted(sql, args) = text[Len(args)]
  BY Zenon DEF Cmd!Substituted, Put
<1> QED
  BY <1>1, <1>2

\* A word stands for its argument, or for itself.
LEMMA StandsType ==
  ASSUME NEW args \in Seq(Seq(Word)), NEW w \in Word
  PROVE  /\ Cmd!Stands(w, args) \in Seq(Word)
         /\ \/ Cmd!Stands(w, args) = <<w>>
            \/ \E i \in 1 .. Len(args) : Cmd!Stands(w, args) = args[i]
<1>1. CASE \E i \in 1 .. Len(args) : w = Cmd!Placeholder(i - 1)
  <2> DEFINE j == CHOOSE i \in 1 .. Len(args) : w = Cmd!Placeholder(i - 1)
  <2>1. j \in 1 .. Len(args)
    BY <1>1
  <2>2. Cmd!Stands(w, args) = args[j]
    BY <1>1 DEF Cmd!Stands
  <2> HIDE DEF j
  <2> QED
    BY <2>1, <2>2, ElementOfSeq
<1>2. CASE ~ \E i \in 1 .. Len(args) : w = Cmd!Placeholder(i - 1)
  <2>1. Cmd!Stands(w, args) = <<w>>
    BY <1>2 DEF Cmd!Stands
  <2> QED
    BY <2>1
<1> QED
  BY <1>1, <1>2

\* Without arguments a text means itself.
LEMMA NothingToPut ==
  ASSUME NEW sql \in Seq(Word)
  PROVE  Cmd!Meaning(sql, << >>) = sql
<1>0. Len(sql) \in Nat
  OBVIOUS
<1>1. PICK f : Meant1(sql, << >>, Len(sql), f) /\ Cmd!Meaning(sql, << >>) = f[Len(sql)]
  BY <1>0, MeaningStep
<1>2. \A w : Cmd!Stands(w, << >>) = <<w>>
  BY DEF Cmd!Stands
<1>3. \A k \in 0 .. Len(sql) : f[k] = IF k = 0 THEN << >> ELSE f[k - 1] \o <<sql[k]>>
  BY <1>1, <1>2, Zenon DEF Meant1
<1> DEFINE T == {k \in 0 .. Len(sql) : f[k] # SubSeq(sql, 1, k)}
<1>4. T = {}
  <2> SUFFICES ASSUME T # {} PROVE FALSE
    OBVIOUS
  <2>1. PICK m \in T : \A y \in T : m <= y
    <3>1. T \subseteq Nat
      BY <1>0
    <3> QED
      BY <3>1, NatMin
  <2>2. m # 0
    <3>0. 0 \in 0 .. Len(sql)
      BY <1>0
    <3>1. f[0] = << >>
      BY <1>3, <3>0, Zenon
    <3>2. SubSeq(sql, 1, 0) = << >>
      BY SubSeqEmpty
    <3> QED
      BY <3>1, <3>2
  <2>3. /\ m - 1 \in 0 .. Len(sql) /\ m \in 1 .. Len(sql) /\ m \in 0 .. Len(sql)
        /\ m - 1 \notin T
    BY <1>0, <2>1, <2>2
  <2>4. f[m] = SubSeq(sql, 1, m - 1) \o <<sql[m]>>
    <3>1. f[m] = f[m - 1] \o <<sql[m]>>
      BY <1>3, <2>2, <2>3
    <3>2. f[m - 1] = SubSeq(sql, 1, m - 1)
      BY <2>3
    <3> QED
      BY <3>1, <3>2
  <2>5. SubSeq(sql, 1, m) = SubSeq(sql, 1, m - 1) \o <<sql[m]>>
    <3>1. 1 \in 1 .. Len(sql) /\ m \in 1 .. Len(sql)
      BY <2>3
    <3> QED
      BY <3>1, SubSeqRecursiveSecond
  <2> QED
    BY <2>1, <2>4, <2>5
<1>5. f[Len(sql)] = SubSeq(sql, 1, Len(sql))
  BY <1>0, <1>4
<1> QED
  BY <1>1, <1>5, SubSeqFull

Around(u, t, v) == (u \o t) \o v

\* A placeholder is replaced where it is first found.
LEMMA ReplaceFirst ==
  ASSUME NEW u \in Seq(Word), NEW v \in Seq(Word), NEW t \in Seq(Word), NEW i \in Nat,
         NEW w \in Word, w = Cmd!Placeholder(i), ~Cmd!Contains(u, w)
  PROVE  Cmd!Replace(Around(u, <<w>>, v), i, t) = Around(u, t, v)
<1> DEFINE n == Len(u)
           s == (u \o <<w>>) \o v
<1>1. n \in Nat /\ Len(v) \in Nat /\ <<w>> \in Seq(Word) /\ Len(<<w>>) = 1
  OBVIOUS
<1>2. /\ u \o <<w>> \in Seq(Word) /\ Len(u \o <<w>>) = n + 1
      /\ \A j \in 1 .. n + 1 : (u \o <<w>>)[j] = IF j <= n THEN u[j] ELSE w
  BY <1>1
<1>3. /\ s \in Seq(Word) /\ Len(s) = n + 1 + Len(v)
      /\ \A j \in 1 .. n + 1 : s[j] = (u \o <<w>>)[j]
  BY <1>1, <1>2
<1>4. s[n + 1] = w /\ n + 1 \in 1 .. Len(s) /\ \A j \in 1 .. n : s[j] = u[j]
  BY <1>1, <1>2, <1>3
<1>5. \A j \in 1 .. n : s[j] # w
  BY <1>4 DEF Cmd!Contains
<1>6. SubSeq(s, 1, n) = u
  <2>1. CASE n = 0
    BY <1>1, <2>1, SubSeqEmpty, EmptySeq
  <2>2. CASE n # 0
    BY <1>1, <1>2, <2>2, SubSeqOfConcat1, SubSeqFull
  <2> QED
    BY <2>1, <2>2
<1>7. SubSeq(s, n + 2, Len(s)) = v
  <2>1. CASE Len(v) = 0
    BY <1>1, <1>3, <2>1, SubSeqEmpty, EmptySeq
  <2>2. CASE Len(v) # 0
    BY <1>1, <1>2, <1>3, <2>2, SubSeqOfConcat2, SubSeqFull
  <2> QED
    BY <2>1, <2>2
<1> HIDE DEF n, s
<1>8. Cmd!SelectInSeq(s, LAMBDA x : x = Cmd!Placeholder(i)) = n + 1
  <2> DEFINE I == {j \in 1 .. Len(s) : s[j] = Cmd!Placeholder(i)}
  <2>1. n + 1 \in I /\ \A j \in I : n + 1 <= j
    BY <1>1, <1>3, <1>4, <1>5
  <2>2. I \subseteq Int
    OBVIOUS
  <2>3. Cmd!Min(I) = n + 1
    BY <1>1, <2>1, <2>2 DEF Cmd!Min
  <2> QED
    BY <2>1, <2>3 DEF Cmd!SelectInSeq
<1>9. Cmd!Replace(s, i, t) = (SubSeq(s, 1, (n + 1) - 1) \o t) \o SubSeq(s, (n + 1) + 1, Len(s))
  BY <1>8, Zenon DEF Cmd!Replace
<1>10. (n + 1) - 1 = n /\ (n + 1) + 1 = n + 2
  BY <1>1
<1> QED
  BY <1>6, <1>7, <1>9, <1>10 DEF s, Around

\* A word of two texts is a word of one of them.
LEMMA ContainsConcat ==
  ASSUME NEW s \in Seq(Word), NEW t \in Seq(Word), NEW w
  PROVE  Cmd!Contains(s \o t, w) <=> Cmd!Contains(s, w) \/ Cmd!Contains(t, w)
<1>1. Len(s) \in Nat /\ Len(t) \in Nat /\ Len(s \o t) = Len(s) + Len(t)
  OBVIOUS
<1>2. \A i \in 1 .. Len(s) + Len(t) :
        (s \o t)[i] = IF i <= Len(s) THEN s[i] ELSE t[i - Len(s)]
  BY ConcatProperties
<1>3. ASSUME Cmd!Contains(s \o t, w) PROVE Cmd!Contains(s, w) \/ Cmd!Contains(t, w)
  <2>1. PICK i \in 1 .. Len(s) + Len(t) : (s \o t)[i] = w
    BY <1>1, <1>3 DEF Cmd!Contains
  <2>2. CASE i <= Len(s)
    BY <1>1, <1>2, <2>1, <2>2 DEF Cmd!Contains
  <2>3. CASE i > Len(s)
    <3>1. i - Len(s) \in 1 .. Len(t) /\ t[i - Len(s)] = w
      BY <1>1, <1>2, <2>1, <2>3
    <3> QED
      BY <3>1 DEF Cmd!Contains
  <2> QED
    BY <1>1, <2>2, <2>3
<1>4. ASSUME Cmd!Contains(s, w) PROVE Cmd!Contains(s \o t, w)
  <2>1. PICK i \in 1 .. Len(s) : s[i] = w
    BY <1>4 DEF Cmd!Contains
  <2>2. i \in 1 .. Len(s) + Len(t) /\ (s \o t)[i] = w
    BY <1>1, <1>2, <2>1
  <2> QED
    BY <1>1, <2>2 DEF Cmd!Contains
<1>5. ASSUME Cmd!Contains(t, w) PROVE Cmd!Contains(s \o t, w)
  <2>1. PICK i \in 1 .. Len(t) : t[i] = w
    BY <1>5 DEF Cmd!Contains
  <2>2. i + Len(s) \in 1 .. Len(s) + Len(t) /\ ~(i + Len(s) <= Len(s)) /\ (i + Len(s)) - Len(s) = i
    BY <1>1
  <2>3. (s \o t)[i + Len(s)] = w
    BY <1>2, <2>1, <2>2
  <2> QED
    BY <1>1, <2>2, <2>3 DEF Cmd!Contains
<1> QED
  BY <1>3, <1>4, <1>5

\* No two placeholders of the first n are the same.
Apart(n) == \A i, j \in 0 .. n : Cmd!Placeholder(i) = Cmd!Placeholder(j) => i = j

\* One argument more: its placeholder, which stood for itself, stands for it.
LEMMA StandsNext ==
  ASSUME NEW a \in Seq(Seq(Word)), NEW t \in Seq(Word), NEW w \in Word, Apart(Len(a)),
         \A i \in 1 .. Len(a) : ~Cmd!Contains(a[i], Cmd!Placeholder(Len(a)))
  PROVE  IF w = Cmd!Placeholder(Len(a))
         THEN Cmd!Stands(w, a) = <<w>> /\ Cmd!Stands(w, Append(a, t)) = t
         ELSE /\ Cmd!Stands(w, Append(a, t)) = Cmd!Stands(w, a)
              /\ ~Cmd!Contains(Cmd!Stands(w, a), Cmd!Placeholder(Len(a)))
<1> DEFINE n == Len(a)
           b == Append(a, t)
<1>1. n \in Nat /\ Len(b) = n + 1 /\ b[n + 1] = t /\ \A i \in 1 .. n : b[i] = a[i]
  BY AppendProperties
<1>2. \A i, j \in 1 .. n + 1 :
        (w = Cmd!Placeholder(i - 1) /\ w = Cmd!Placeholder(j - 1)) => i = j
  <2> TAKE i, j \in 1 .. n + 1
  <2>1. i - 1 \in 0 .. n /\ j - 1 \in 0 .. n /\ (i - 1 = j - 1 => i = j)
    BY <1>1
  <2> QED
    BY <2>1 DEF Apart
<1> HIDE DEF b, n
<1>3. ASSUME NEW i \in 1 .. n + 1, w = Cmd!Placeholder(i - 1) PROVE Cmd!Stands(w, b) = b[i]
  <2> DEFINE c == CHOOSE j \in 1 .. n + 1 : w = Cmd!Placeholder(j - 1)
  <2>1. c \in 1 .. n + 1 /\ w = Cmd!Placeholder(c - 1)
    BY <1>3
  <2>2. c = i
    BY <1>2, <1>3, <2>1
  <2>3. Cmd!Stands(w, b) = b[c]
    BY <1>1, <1>3 DEF Cmd!Stands
  <2> QED
    BY <2>2, <2>3
<1>4. ASSUME NEW i \in 1 .. n, w = Cmd!Placeholder(i - 1) PROVE Cmd!Stands(w, a) = a[i]
  <2> DEFINE c == CHOOSE j \in 1 .. n : w = Cmd!Placeholder(j - 1)
  <2>1. c \in 1 .. n /\ w = Cmd!Placeholder(c - 1)
    BY <1>4
  <2>3. Cmd!Stands(w, a) = a[c]
    BY <1>4 DEF Cmd!Stands, n
  <2> HIDE DEF c
  <2>2. c = i
    <3>1. c \in 1 .. n + 1 /\ i \in 1 .. n + 1
      BY <1>1, <2>1
    <3> QED
      BY <1>2, <1>4, <2>1, <3>1
  <2> QED
    BY <2>2, <2>3
<1>5. CASE w = Cmd!Placeholder(n)
  <2>1. n + 1 \in 1 .. n + 1 /\ (n + 1) - 1 = n
    BY <1>1
  <2>2. Cmd!Stands(w, b) = b[n + 1]
    BY <1>3, <1>5, <2>1
  <2>3. \A i \in 1 .. n : w # Cmd!Placeholder(i - 1)
    <3> SUFFICES ASSUME NEW i \in 1 .. n, w = Cmd!Placeholder(i - 1) PROVE FALSE
      OBVIOUS
    <3>1. i \in 1 .. n + 1 /\ i # n + 1
      BY <1>1
    <3> QED
      BY <1>2, <1>5, <2>1, <3>1
  <2>4. Cmd!Stands(w, a) = <<w>>
    BY <2>3 DEF Cmd!Stands, n
  <2> QED
    BY <1>1, <1>5, <2>2, <2>4 DEF b, n
<1>6. CASE w # Cmd!Placeholder(n)
  <2>1. CASE \E i \in 1 .. n : w = Cmd!Placeholder(i - 1)
    <3>1. PICK i \in 1 .. n : w = Cmd!Placeholder(i - 1)
      BY <2>1
    <3>2. i \in 1 .. n + 1
      BY <1>1
    <3>3. Cmd!Stands(w, a) = a[i] /\ Cmd!Stands(w, b) = a[i]
      BY <1>1, <1>3, <1>4, <3>1, <3>2
    <3> QED
      BY <1>6, <3>3 DEF b, n
  <2>2. CASE ~ \E i \in 1 .. n : w = Cmd!Placeholder(i - 1)
    <3>1. Cmd!Stands(w, a) = <<w>>
      BY <2>2 DEF Cmd!Stands, n
    <3>2. ~ \E i \in 1 .. n + 1 : w = Cmd!Placeholder(i - 1)
      <4> SUFFICES ASSUME NEW i \in 1 .. n + 1, w = Cmd!Placeholder(i - 1) PROVE FALSE
        OBVIOUS
      <4>1. CASE i = n + 1
        <5>1. i - 1 = n
          BY <1>1, <4>1
        <5> QED
          BY <1>6, <5>1
      <4>2. CASE i # n + 1
        <5>1. i \in 1 .. n
          BY <1>1, <4>2
        <5> QED
          BY <2>2, <5>1
      <4> QED
        BY <4>1, <4>2
    <3>3. Cmd!Stands(w, b) = <<w>>
      BY <1>1, <3>2 DEF Cmd!Stands
    <3>4. ~Cmd!Contains(<<w>>, Cmd!Placeholder(n))
      BY <1>6 DEF Cmd!Contains
    <3> QED
      BY <1>6, <3>1, <3>3, <3>4 DEF b, n
  <2> QED
    BY <2>1, <2>2
<1> QED
  BY <1>5, <1>6 DEF n

\* What the meaning x of a text becomes when one argument more is given, t for P: y.
OneMore(P, t, x, y, found) ==
  IF found
  THEN /\ P \in Word
       /\ \E u, v \in Seq(Word) :
            ~Cmd!Contains(u, P) /\ x = Around(u, <<P>>, v) /\ y = Around(u, t, v)
  ELSE y = x /\ ~Cmd!Contains(x, P)

\* One word more.
LEMMA OneMoreWord ==
  ASSUME NEW P, NEW t \in Seq(Word), NEW x \in Seq(Word), NEW y, NEW found \in BOOLEAN,
         OneMore(P, t, x, y, found), NEW s \in Seq(Word), NEW r, NEW w \in Word,
         IF w = P THEN s = <<w>> /\ r = t ELSE r = s /\ ~Cmd!Contains(s, P),
         ~(found /\ w = P)
  PROVE  OneMore(P, t, x \o s, y \o r, found \/ w = P)
<1>1. CASE w = P
  <2>1. y = x /\ ~Cmd!Contains(x, P)
    BY <1>1 DEF OneMore
  <2>2. << >> \in Seq(Word)
    OBVIOUS
  <2>3. x \o s = Around(x, <<P>>, << >>) /\ y \o r = Around(x, t, << >>)
    <3>1. P \in Word /\ s = <<P>> /\ r = t
      BY <1>1
    <3>2. x \o <<P>> \in Seq(Word) /\ x \o t \in Seq(Word)
      BY <3>1
    <3>3. (x \o <<P>>) \o << >> = x \o <<P>> /\ (x \o t) \o << >> = x \o t
      BY <3>2, ConcatEmptySeq
    <3> QED
      BY <2>1, <3>1, <3>3 DEF Around
  <2> QED
    <3>1. ~Cmd!Contains(x, P) /\ P \in Word
      BY <1>1, <2>1
    <3> QED
      BY <1>1, <2>2, <2>3, <3>1, Zenon DEF OneMore
<1>1a. \A p, q, o \in Seq(Word) : (p \o q) \o o = p \o (q \o o)
  BY ConcatAssociative
<1>2. CASE w # P /\ found
  <2>1. PICK u, v \in Seq(Word) :
          ~Cmd!Contains(u, P) /\ x = Around(u, <<P>>, v) /\ y = Around(u, t, v)
    BY <1>2 DEF OneMore
  <2>1a. <<P>> \in Seq(Word)
    BY <1>2 DEF OneMore
  <2>2. v \o s \in Seq(Word)
    OBVIOUS
  <2>3. y \o r = Around(u, t, v \o s)
    <3>1. r = s /\ u \o t \in Seq(Word)
      BY <1>2
    <3> QED
      BY <1>1a, <2>1, <3>1, Zenon DEF Around
  <2>4. x \o s = Around(u, <<P>>, v \o s)
    <3>1. u \o <<P>> \in Seq(Word)
      BY <2>1a
    <3> QED
      BY <1>1a, <2>1, <3>1, Zenon DEF Around
  <2> QED
    <3>1. P \in Word
      BY <1>2 DEF OneMore
    <3> QED
      BY <1>2, <2>1, <2>2, <2>3, <2>4, <3>1, Zenon DEF OneMore
<1>3. CASE w # P /\ ~found
  BY <1>3, ContainsConcat, Zenon DEF OneMore
<1> QED
  BY <1>1, <1>2, <1>3

\* One argument more, t: its placeholder occurs where the text without it leaves off.
LEMMA NextArgument ==
  ASSUME NEW sql \in Seq(Word), NEW a \in Seq(Seq(Word)), NEW t \in Seq(Word), Apart(Len(a)),
         \A i \in 1 .. Len(a) : ~Cmd!Contains(a[i], Cmd!Placeholder(Len(a))),
         \A k, l \in 1 .. Len(sql) :
           (sql[k] = Cmd!Placeholder(Len(a)) /\ sql[l] = Cmd!Placeholder(Len(a))) => k = l
  PROVE  /\ Cmd!Meaning(sql, a) \in Seq(Word)
         /\ OneMore(Cmd!Placeholder(Len(a)), t, Cmd!Meaning(sql, a),
                    Cmd!Meaning(sql, Append(a, t)), Cmd!Contains(sql, Cmd!Placeholder(Len(a))))
<1> DEFINE P == Cmd!Placeholder(Len(a))
           b == Append(a, t)
           n == Len(sql)
<1>0. n \in Nat
  OBVIOUS
<1>1. PICK f : Meant1(sql, a, n, f) /\ Cmd!Meaning(sql, a) = f[n]
  BY <1>0, MeaningStep
<1>2. PICK g : Meant1(sql, b, n, g) /\ Cmd!Meaning(sql, b) = g[n]
  BY <1>0, MeaningStep
<1>3. \A k \in 0 .. n : f[k] = IF k = 0 THEN << >> ELSE f[k - 1] \o Cmd!Stands(sql[k], a)
  BY <1>1, Zenon DEF Meant1
<1>4. \A k \in 0 .. n : g[k] = IF k = 0 THEN << >> ELSE g[k - 1] \o Cmd!Stands(sql[k], b)
  BY <1>2, Zenon DEF Meant1
<1> DEFINE found(k) == \E j \in 1 .. k : sql[j] = P
           Good(k) == f[k] \in Seq(Word) /\ OneMore(P, t, f[k], g[k], found(k))
           T == {k \in 0 .. n : ~Good(k)}
<1>5. ASSUME NEW w \in Word
      PROVE  IF w = P THEN Cmd!Stands(w, a) = <<w>> /\ Cmd!Stands(w, b) = t
             ELSE Cmd!Stands(w, b) = Cmd!Stands(w, a) /\ ~Cmd!Contains(Cmd!Stands(w, a), P)
  BY StandsNext
<1>6. \A k, l \in 1 .. n : sql[k] = P /\ sql[l] = P => k = l
  OBVIOUS
<1>7. Cmd!Contains(sql, P) <=> found(n)
  BY Zenon DEF Cmd!Contains
<1> HIDE DEF P, b, n
<1>8. T = {}
  <2> SUFFICES ASSUME T # {} PROVE FALSE
    OBVIOUS
  <2>1. PICK m \in T : \A y \in T : m <= y
    <3> HIDE DEF Good
    <3>1. T \subseteq Nat
      BY <1>0
    <3> HIDE DEF T
    <3> QED
      BY <3>1, NatMin
  <2>2. m \in 0 .. n /\ ~Good(m)
    OBVIOUS
  <2>3. m # 0
    <3> SUFFICES Good(0)
      BY <2>2
    <3>1. 0 \in 0 .. n
      BY <1>0
    <3>2. f[0] = << >> /\ g[0] = << >>
      BY <1>3, <1>4, <3>1, Zenon
    <3>3. << >> \in Seq(Word) /\ ~Cmd!Contains(<< >>, P) /\ ~found(0)
      BY DEF Cmd!Contains
    <3> QED
      BY <3>2, <3>3, Zenon DEF OneMore
  <2>4. m - 1 \in 0 .. n /\ m - 1 \notin T /\ m \in 1 .. n
    <3> HIDE DEF Good
    <3>1. m - 1 \in 0 .. n /\ m \in 1 .. n /\ ~(m <= m - 1)
      BY <1>0, <2>2, <2>3
    <3> QED
      BY <2>1, <3>1
  <2>5. Good(m - 1)
    BY <2>4
  <2>6. f[m] = f[m - 1] \o Cmd!Stands(sql[m], a) /\ g[m] = g[m - 1] \o Cmd!Stands(sql[m], b)
    BY <1>3, <1>4, <2>2, <2>3, Zenon
  <2>7. sql[m] \in Word /\ Cmd!Stands(sql[m], a) \in Seq(Word)
    <3>1. sql[m] \in Word
      BY <2>4, ElementOfSeq DEF n
    <3> QED
      BY <3>1, StandsType
  <2>8. found(m) <=> found(m - 1) \/ sql[m] = P
    <3>1. m \in 1 .. m /\ m \in Int
      BY <2>4
    <3>2. \A j \in 1 .. m : j = m \/ j \in 1 .. m - 1
      BY <3>1
    <3>3. \A j \in 1 .. m - 1 : j \in 1 .. m
      BY <3>1
    <3> QED
      BY <3>1, <3>2, <3>3, Zenon
  <2>9. ~(found(m - 1) /\ sql[m] = P)
    <3> SUFFICES ASSUME NEW j \in 1 .. m - 1, sql[j] = P, sql[m] = P PROVE FALSE
      BY Zenon
    <3>1. j \in 1 .. n /\ j # m
      BY <1>0, <2>4
    <3> QED
      BY <1>6, <2>4, <3>1
  <2>10. f[m] \in Seq(Word)
    BY <2>5, <2>6, <2>7, ConcatProperties
  <2>11. OneMore(P, t, f[m], g[m], found(m - 1) \/ sql[m] = P)
    <3>1. found(m - 1) \in BOOLEAN
      OBVIOUS
    <3>2. IF sql[m] = P THEN Cmd!Stands(sql[m], a) = <<sql[m]>> /\ Cmd!Stands(sql[m], b) = t
          ELSE /\ Cmd!Stands(sql[m], b) = Cmd!Stands(sql[m], a)
               /\ ~Cmd!Contains(Cmd!Stands(sql[m], a), P)
      BY <1>5, <2>7
    <3> HIDE DEF found
    <3>3. OneMore(P, t, f[m - 1] \o Cmd!Stands(sql[m], a), g[m - 1] \o Cmd!Stands(sql[m], b),
                  found(m - 1) \/ sql[m] = P)
      BY <2>5, <2>7, <2>9, <3>1, <3>2, OneMoreWord
    <3> QED
      BY <2>6, <3>3
  <2>12. OneMore(P, t, f[m], g[m], found(m))
    <3> HIDE DEF found
    <3>1. found(m) = (found(m - 1) \/ sql[m] = P)
      BY <2>8 DEF found
    <3> QED
      BY <2>11, <3>1
  <2> QED
    BY <2>2, <2>10, <2>12
<1>9. Good(n)
  <2>1. n \in 0 .. n
    BY <1>0
  <2> QED
    BY <1>8, <2>1
<1>10. OneMore(P, t, f[n], g[n], Cmd!Contains(sql, P))
  <2>1. Cmd!Contains(sql, P) = found(n)
    BY <1>7 DEF Cmd!Contains
  <2> HIDE DEF found
  <2> QED
    BY <1>9, <2>1
<1> QED
  BY <1>1, <1>2, <1>9, <1>10 DEF P, b

\* The arguments that are put in so far leave the text that means them, or none.
LEMMA PutStep ==
  ASSUME NEW sql \in Seq(Word), NEW a \in Seq(Seq(Word)), NEW t \in Seq(Word), Apart(Len(a)),
         \A i \in 1 .. Len(a) : ~Cmd!Contains(a[i], Cmd!Placeholder(Len(a))),
         \A k, l \in 1 .. Len(sql) :
           (sql[k] = Cmd!Placeholder(Len(a)) /\ sql[l] = Cmd!Placeholder(Len(a))) => k = l,
         Cmd!Contains(Cmd!Meaning(sql, a), Cmd!Placeholder(Len(a)))
  PROVE  Cmd!Replace(Cmd!Meaning(sql, a), Len(a), t) = Cmd!Meaning(sql, Append(a, t))
<1> DEFINE P == Cmd!Placeholder(Len(a))
<1>1. OneMore(P, t, Cmd!Meaning(sql, a), Cmd!Meaning(sql, Append(a, t)), Cmd!Contains(sql, P))
  BY NextArgument
<1>2. Len(a) \in Nat
  OBVIOUS
<1>3. Cmd!Contains(Cmd!Meaning(sql, a), P)
  OBVIOUS
<1>4. ASSUME NEW u \in Seq(Word), NEW v \in Seq(Word), P \in Word, ~Cmd!Contains(u, P)
      PROVE  Cmd!Replace(Around(u, <<P>>, v), Len(a), t) = Around(u, t, v)
  BY <1>2, <1>4, ReplaceFirst
<1> HIDE DEF P
<1> QED
  BY <1>1, <1>3, <1>4, Zenon DEF OneMore

\* A text with any number of plain arguments is sent as what they mean, or refused: the
\* replacements, made one after the other, do not disturb each other
\* (db_command_call_handler.cpp:31).
THEOREM SubstitutedAsMeant ==
  ASSUME NEW sql \in Seq(Word), NEW args \in Seq(Seq(Word)), Apart(Len(args) - 1),
         NEW meanings, Cmd!Plain(sql, args, meanings)
  PROVE  Cmd!Substituted(sql, args) \in {Cmd!Meaning(sql, meanings), NoText}
<1> DEFINE n == Len(args)
           a(i) == SubSeq(args, 1, i)
<1>0. n \in Nat /\ meanings = args
  BY DEF Cmd!Plain
<1>1. PICK f : Put(sql, args, n, f) /\ Cmd!Substituted(sql, args) = f[n]
  BY <1>0, SubstitutedStep
<1>2. \A i \in 0 .. n :
        f[i] = IF i = 0 THEN sql
               ELSE IF f[i - 1] # NoText /\ Cmd!Contains(f[i - 1], Cmd!Placeholder(i - 1))
               THEN Cmd!Replace(f[i - 1], i - 1, args[i])
               ELSE NoText
  BY <1>1, Zenon DEF Put
<1>3. ASSUME NEW i \in 0 .. n - 1
      PROVE  /\ \A k, l \in 1 .. Len(sql) :
                  (sql[k] = Cmd!Placeholder(i) /\ sql[l] = Cmd!Placeholder(i)) => k = l
             /\ \A j \in 0 .. i - 1 : ~Cmd!Contains(args[j + 1], Cmd!Placeholder(i))
  BY Zenon DEF Cmd!Plain
<1>4. ASSUME NEW i \in 0 .. n - 1 PROVE Apart(i)
  <2>1. \A j \in 0 .. i : j \in 0 .. n - 1
    BY <1>0
  <2> QED
    BY <2>1 DEF Apart
<1>5. ASSUME NEW i \in 0 .. n
      PROVE  a(i) \in Seq(Seq(Word)) /\ Len(a(i)) = i /\ \A j \in 1 .. i : a(i)[j] = args[j]
  <2>1. \A j \in 1 .. i : j \in 1 .. n /\ (1 + j) - 1 = j /\ (i - 1) + 1 = i
    BY <1>0
  <2>2. \A j \in 1 .. i : args[j] \in Seq(Word)
    BY <2>1, ElementOfSeq
  <2> QED
    BY <2>1, <2>2, SubSeqProperties
<1>6. ASSUME NEW i \in 1 .. n PROVE a(i) = Append(a(i - 1), args[i]) /\ args[i] \in Seq(Word)
  <2>1. args[i] \in Seq(Word) /\ 1 \in 1 .. n /\ i \in 1 .. n /\ i - 1 \in 0 .. n
    BY <1>0, ElementOfSeq
  <2>2. a(i) = a(i - 1) \o <<args[i]>>
    BY <2>1, SubSeqRecursiveSecond
  <2>3. Append(a(i - 1), args[i]) = a(i - 1) \o <<args[i]>>
    BY <1>5, <2>1, AppendIsConcat
  <2> QED
    BY <2>1, <2>2, <2>3
<1> DEFINE Good(i) == f[i] \in {Cmd!Meaning(sql, a(i)), NoText}
           T == {i \in 0 .. n : ~Good(i)}
<1>7. a(n) = args /\ a(0) = << >>
  BY SubSeqFull, SubSeqEmpty
<1> HIDE DEF n, a
<1>8. T = {}
  <2> SUFFICES ASSUME T # {} PROVE FALSE
    OBVIOUS
  <2>1. PICK m \in T : \A y \in T : m <= y
    <3> HIDE DEF Good
    <3>1. T \subseteq Nat
      BY <1>0
    <3> HIDE DEF T
    <3> QED
      BY <3>1, NatMin
  <2>2. m \in 0 .. n /\ ~Good(m)
    OBVIOUS
  <2>3. m # 0
    <3> SUFFICES Good(0)
      BY <2>2
    <3>1. 0 \in 0 .. n
      BY <1>0
    <3>2. f[0] = sql
      BY <1>2, <3>1, Zenon
    <3> QED
      BY <1>7, <3>2, NothingToPut
  <2>4. m - 1 \in 0 .. n /\ m - 1 \notin T /\ m \in 1 .. n /\ m - 1 \in 0 .. n - 1
    <3> HIDE DEF Good
    <3>1. m - 1 \in 0 .. n /\ m \in 1 .. n /\ ~(m <= m - 1) /\ m - 1 \in 0 .. n - 1
      BY <1>0, <2>2, <2>3
    <3> QED
      BY <2>1, <3>1
  <2>5. Good(m - 1)
    BY <2>4
  <2>6. CASE ~(f[m - 1] # NoText /\ Cmd!Contains(f[m - 1], Cmd!Placeholder(m - 1)))
    <3>1. f[m] = NoText
      BY <1>2, <2>2, <2>3, <2>6, Zenon
    <3> QED
      BY <2>2, <3>1
  <2>7. CASE f[m - 1] # NoText /\ Cmd!Contains(f[m - 1], Cmd!Placeholder(m - 1))
    <3>1. f[m] = Cmd!Replace(f[m - 1], m - 1, args[m])
      BY <1>2, <2>2, <2>3, <2>7, Zenon
    <3>3. f[m - 1] = Cmd!Meaning(sql, a(m - 1))
      BY <2>5, <2>7
    <3>4. /\ a(m - 1) \in Seq(Seq(Word)) /\ Len(a(m - 1)) = m - 1
          /\ \A j \in 1 .. m - 1 : a(m - 1)[j] = args[j]
      BY <1>5, <2>4
    <3>5. \A j \in 1 .. m - 1 : ~Cmd!Contains(a(m - 1)[j], Cmd!Placeholder(m - 1))
      <4> SUFFICES ASSUME NEW j \in 1 .. m - 1
                   PROVE  ~Cmd!Contains(args[j], Cmd!Placeholder(m - 1))
        BY <3>4
      <4>1. j - 1 \in 0 .. (m - 1) - 1 /\ (j - 1) + 1 = j
        BY <2>4
      <4> QED
        BY <1>3, <2>4, <4>1
    <3>6. f[m] = Cmd!Meaning(sql, Append(a(m - 1), args[m]))
      <4>1. Apart(m - 1) /\ args[m] \in Seq(Word)
        BY <1>4, <1>6, <2>4
      <4>2. \A k, l \in 1 .. Len(sql) :
              (sql[k] = Cmd!Placeholder(m - 1) /\ sql[l] = Cmd!Placeholder(m - 1)) => k = l
        BY <1>3, <2>4
      <4> HIDE DEF Good, T
      <4> DEFINE c == a(m - 1)
                 P == Cmd!Placeholder(m - 1)
      <4>3. c \in Seq(Seq(Word)) /\ Len(c) = m - 1
        BY <3>4
      <4>4. /\ Apart(Len(c)) /\ P = Cmd!Placeholder(Len(c)) /\ f[m - 1] = Cmd!Meaning(sql, c)
            /\ \A j \in 1 .. Len(c) : ~Cmd!Contains(c[j], P)
            /\ \A k, l \in 1 .. Len(sql) : (sql[k] = P /\ sql[l] = P) => k = l
            /\ Cmd!Contains(Cmd!Meaning(sql, c), P)
        BY <2>7, <3>3, <3>4, <3>5, <4>1, <4>2
      <4>5. f[m] = Cmd!Replace(Cmd!Meaning(sql, c), Len(c), args[m])
        BY <3>1, <4>3, <4>4
      <4> HIDE DEF c, P
      <4>6. Cmd!Replace(Cmd!Meaning(sql, c), Len(c), args[m])
              = Cmd!Meaning(sql, Append(c, args[m]))
        BY <4>1, <4>3, <4>4, PutStep
      <4> QED
        BY <4>5, <4>6 DEF c
    <3> QED
      BY <1>6, <2>2, <2>4, <3>6
  <2> QED
    BY <2>6, <2>7
<1>9. Good(n)
  <2>1. n \in 0 .. n
    BY <1>0
  <2> QED
    BY <1>8, <2>1
<1> QED
  BY <1>0, <1>1, <1>7, <1>9 DEF n

-----------------------------------------------------------------------------
(* The table and the answers.                                               *)

\* The texts of a vector are sequences of words, and its placeholders differ.
LEMMA VectorTexts ==
  ASSUME ArgsInv, NEW vec \in Vector
  PROVE  Texts(vec) \in Seq(Seq(Word)) /\ Apart(Len(Texts(vec)) - 1)
<1>1. ASSUME NEW v \in Slot PROVE Args!toString(v) \in Seq(Word)
  <2>0. HeapInv
    BY DEF ArgsInv
  <2>1. object[v].type \in {"raw", "None", "Number", "String"} /\ object[v].union \in Int
    BY <2>0, ObjectType
  <2>2. CASE Args!Holds(v, "String")
    <3>1. object[v].union \in DOMAIN block /\ block[object[v].union] \in Text
      BY <2>0, <2>2, ObjectType
    <3>2. Args!toString(v) = block[object[v].union]
      BY <2>2, <3>1 DEF Args!toString, Args!Holds
    <3>3. Text \subseteq Seq(STRING) /\ STRING \subseteq Word
      BY TextAssumption DEF Word
    <3> QED
      BY <3>1, <3>2, <3>3, SeqMonotonic
  <2>3. CASE Args!Holds(v, "Number")
    <3>1. Args!toString(v) = <<Args!ToString(object[v].union)>>
      BY <2>3 DEF Args!toString, Args!Holds
    <3>2. Args!ToString(object[v].union) \in Word
      BY <2>1 DEF Word
    <3> HIDE DEF Word
    <3> QED
      BY <3>1, <3>2
  <2>4. CASE ~Args!Holds(v, "String") /\ ~Args!Holds(v, "Number")
    <3>1. Args!toString(v) = << >>
      BY <2>4 DEF Args!toString
    <3> QED
      BY <3>1
  <2> QED
    BY <2>2, <2>3, <2>4
<1>2. CASE vec = << >>
  <2>1. Texts(vec) = << >>
    BY <1>2 DEF Texts
  <2>2. Texts(vec) \in Seq(Seq(Word)) /\ Len(Texts(vec)) - 1 = -1
    BY <2>1
  <2>3. Apart(-1)
    BY DEF Apart
  <2> QED
    BY <2>2, <2>3
<1>3. ASSUME NEW v \in Slot, vec = <<v>>
      PROVE  Texts(vec) \in Seq(Seq(Word)) /\ Apart(Len(Texts(vec)) - 1)
  <2>1. Texts(vec) = <<Args!toString(v)>>
    BY <1>3 DEF Texts
  <2>2. Texts(vec) \in Seq(Seq(Word)) /\ Len(Texts(vec)) - 1 = 0
    BY <1>1, <2>1
  <2>3. Apart(0)
    <3>1. \A i \in 0 .. 0 : i = 0
      OBVIOUS
    <3> QED
      BY <3>1 DEF Apart
  <2> QED
    BY <2>2, <2>3
<1>4. ASSUME NEW v \in Slot, NEW w \in Slot, vec = <<v, w>>
      PROVE  Texts(vec) \in Seq(Seq(Word)) /\ Apart(Len(Texts(vec)) - 1)
  <2>1. Texts(vec) = <<Args!toString(v), Args!toString(w)>>
    BY <1>4 DEF Texts
  <2>2. Texts(vec) \in Seq(Seq(Word)) /\ Len(Texts(vec)) - 1 = 1
    BY <1>1, <2>1
  <2>3. Apart(1)
    <3>1. \A i \in 0 .. 1 : i = 0 \/ i = 1
      OBVIOUS
    <3> QED
      BY <3>1, PrintedAssumption DEF Apart
  <2> QED
    BY <2>2, <2>3
<1> QED
  BY <1>2, <1>3, <1>4 DEF Vector

\* The text of a command is what the program meant, or refused.
LEMMA CommandAsMeant ==
  ASSUME ArgsInv, NEW vec \in Vector, NEW sql \in Sql \cup Where,
         Cmd!Plain(sql, Texts(vec), Meant(vec))
  PROVE  Cmd!Substituted(sql, Texts(vec)) \in {Cmd!Meaning(sql, Meant(vec)), NoText}
<1>1. Sql \cup Where \subseteq Seq(STRING) /\ STRING \subseteq Word
  BY TextAssumption DEF Word
<1>2. sql \in Seq(Word)
  BY <1>1, SeqMonotonic
<1> QED
  BY <1>2, VectorTexts, SubstitutedAsMeant

\* A number is printed as no other, so that a text denotes one column at most.
LEMMA OneColumn ==
  ASSUME NEW text, NEW c \in Cmd!ColumnOf(text)
  PROVE  c \in Cmd!Column /\ \A id \in Cmd!Column : id \in Cmd!ColumnOf(text) <=> id = c
BY PrintedAssumption DEF Cmd!ColumnOf

IsRows(rows) == rows = [id \in Cmd!Column |-> rows[id]]

\* What a call is about to commit.
Committed == [id \in Cmd!Column |-> IF id \in Cmd!ColumnOf(wish.id) THEN wish.name ELSE intended[id]]

\* The table is what the answers said, and a call writes what it was meant to.
RowsInv ==
  /\ IsRows(table.row) /\ IsRows(work.row) /\ IsRows(intended)
  /\ (link /\ plain) =>
       /\ table.row = intended
       /\ pc \notin {"idle", "autocommit on"} => stmt = wish
       /\ pc = "commit" => work.row = Committed

\* Writing a row, seen as rows.
LEMMA WrittenRows ==
  ASSUME NEW v, IsView(v), IsRows(v.row), NEW id, NEW name
  PROVE  /\ IsRows(Cmd!Written(v, id, name).row)
         /\ Cmd!Written(v, id, name).row
              = [i \in Cmd!Column |-> IF i = id THEN name ELSE v.row[i]]
<1> DEFINE r == v.row
           s == v.writes
<1>1. v = [row |-> r, writes |-> s] /\ r = [i \in Cmd!Column |-> r[i]]
  BY DEF IsView, IsRows
<1> HIDE DEF r, s
<1>2. Cmd!Written(v, id, name) = [row |-> [r EXCEPT ![id] = name], writes |-> s]
  BY <1>1 DEF Cmd!Written
<1>3. Cmd!Written(v, id, name).row = [r EXCEPT ![id] = name]
  BY <1>2
<1>4. [r EXCEPT ![id] = name] = [i \in Cmd!Column |-> IF i = id THEN name ELSE r[i]]
  BY <1>1
<1> QED
  BY <1>3, <1>4 DEF IsRows, r

\* The procedure: its first write is no row, its second the row its arguments denote.
LEMMA ProgressRows ==
  ASSUME CallInv, RowsInv, pc = "execute", NEW k \in 0 .. 2
  PROVE  /\ IsRows(Cmd!Progress(k).row)
         /\ (k = 2 /\ link /\ plain /\ Cmd!ColumnOf(stmt.id) # {}) => Cmd!Progress(k).row = Committed
<1> DEFINE counted == [work EXCEPT !.writes[commands] = @ + k]
           c == CHOOSE id \in Cmd!ColumnOf(stmt.id) : TRUE
<1>1. work = table /\ IsView(work) /\ IsRows(work.row)
  BY DEF CallInv, CommandTypes, Views, SessionAt, InTransaction, RowsInv
<1>2. IsView(counted) /\ counted.row = work.row
  BY <1>1 DEF IsView
<1>3. Cmd!Progress(k) = IF k = 2 THEN Cmd!Written(counted, c, stmt.name) ELSE counted
  BY Zenon DEF Cmd!Progress
<1>4. Cmd!ColumnOf(stmt.id) # {} => c \in Cmd!ColumnOf(stmt.id)
  OBVIOUS
<1> HIDE DEF counted, c
<1>5. CASE k # 2
  BY <1>1, <1>2, <1>3, <1>5
<1>6. CASE k = 2
  <2>1. /\ IsRows(Cmd!Progress(k).row)
        /\ Cmd!Progress(k).row
             = [i \in Cmd!Column |-> IF i = c THEN stmt.name ELSE work.row[i]]
    BY <1>1, <1>2, <1>3, <1>6, WrittenRows
  <2>2. ASSUME link, plain, Cmd!ColumnOf(stmt.id) # {} PROVE Cmd!Progress(k).row = Committed
    <3>1. stmt = wish /\ work.row = intended
      BY <1>1, <2>2 DEF RowsInv
    <3>2. \A i \in Cmd!Column : i \in Cmd!ColumnOf(wish.id) <=> i = c
      BY <1>4, <2>2, <3>1, OneColumn
    <3>3. \A i \in Cmd!Column :
            (IF i = c THEN stmt.name ELSE work.row[i])
              = (IF i \in Cmd!ColumnOf(wish.id) THEN wish.name ELSE intended[i])
      BY <3>1, <3>2
    <3> QED
      BY <2>1, <3>3 DEF Committed
  <2> QED
    BY <2>1, <2>2
<1> QED
  BY <1>5, <1>6

\* The statements of a call.
LEMMA CallStepRows ==
  ASSUME CallInv, RowsInv, Cmd!CallStep
  PROVE  RowsInv'
<1>1. CASE Cmd!autoCommitOff \/ Cmd!begin
  <2>1. /\ pc \in {"autocommit off", "begin"} /\ pc' \in {"begin", "execute"}
        /\ ~open /\ work = table
    BY <1>1 DEF CallInv, SessionAt, InTransaction, Cmd!autoCommitOff, Cmd!begin
  <2>2. UNCHANGED <<table, work, link, plain, intended, stmt, wish>>
    BY <1>1, <2>1 DEF Cmd!autoCommitOff, Cmd!begin, Cmd!ImplicitCommit, Cmd!callVars
  <2> QED
    BY <2>1, <2>2 DEF RowsInv, IsRows
<1>2. CASE Cmd!ExecuteOK
  <2>1. /\ pc = "execute" /\ link /\ Cmd!ColumnOf(stmt.id) # {} /\ work' = Cmd!Progress(2)
        /\ UNCHANGED <<table, link, plain, intended, stmt, wish>>
    BY <1>2 DEF Cmd!ExecuteOK, Cmd!Accepted, Cmd!callVars
  <2>2. IsRows(work'.row) /\ (plain => work'.row = Committed)
    BY <2>1, ProgressRows
  <2>3. Committed' = Committed
    BY <2>1 DEF Committed
  <2> QED
    BY <2>1, <2>2, <2>3 DEF RowsInv, IsRows
<1>3. CASE Cmd!ExecuteDeadloop \/ Cmd!ExecuteFails
  <2>1. /\ pc = "execute" /\ pc' \in {"rollback, retry", "rollback, fail"}
        /\ UNCHANGED <<table, link, plain, intended, stmt, wish>>
    BY <1>3 DEF Cmd!ExecuteDeadloop, Cmd!ExecuteFails, Cmd!callVars
  <2>2. PICK k \in 0 .. 2 : work' = Cmd!Progress(k)
    <3>1. CASE Cmd!ExecuteDeadloop
      <4>1. PICK k \in 0 .. 1 : work' = Cmd!Progress(k)
        BY <3>1 DEF Cmd!ExecuteDeadloop
      <4>2. k \in 0 .. 2
        OBVIOUS
      <4> QED
        BY <4>1, <4>2
    <3>2. CASE Cmd!ExecuteFails
      <4>1. PICK k \in (IF Cmd!Accepted THEN 0 .. 1 ELSE {0}) : work' = Cmd!Progress(k)
        BY <3>2 DEF Cmd!ExecuteFails
      <4>2. k \in 0 .. 2
        OBVIOUS
      <4> QED
        BY <4>1, <4>2
    <3> QED
      BY <1>3, <3>1, <3>2
  <2>3. IsRows(work'.row)
    BY <2>1, <2>2, ProgressRows
  <2> QED
    BY <2>1, <2>3 DEF RowsInv, IsRows
<1>4. CASE Cmd!Retry \/ Cmd!Fail
  <2>1. /\ work' = table /\ pc \in {"rollback, retry", "rollback, fail"}
        /\ pc' \in {"begin", "autocommit on"}
        /\ UNCHANGED <<table, link, plain, intended, stmt, wish>>
    BY <1>4 DEF Cmd!Retry, Cmd!Fail, Cmd!Rollback, Cmd!callVars
  <2> QED
    BY <2>1 DEF RowsInv, IsRows
<1>5. CASE Cmd!commit
  <2>1. /\ pc = "commit" /\ table' = work /\ pc' = "autocommit on" /\ intended' = Committed
        /\ UNCHANGED <<work, link, plain>>
    BY <1>5 DEF Cmd!commit, Cmd!callVars, Committed
  <2>2. IsRows(Committed)
    BY DEF Committed, IsRows
  <2> QED
    BY <2>1, <2>2 DEF RowsInv, IsRows
<1>6. CASE Cmd!autoCommitOn
  <2>1. pc = "autocommit on" /\ ~open /\ work = table
    BY <1>6 DEF CallInv, SessionAt, InTransaction, Cmd!autoCommitOn
  <2>2. UNCHANGED <<table, work, link, intended, plain>> /\ pc' = "idle"
    BY <1>6, <2>1 DEF Cmd!autoCommitOn, Cmd!ImplicitCommit, Cmd!Return, Cmd!history
  <2> QED
    BY <2>2 DEF RowsInv, IsRows
<1> QED
  BY <1>1, <1>2, <1>3, <1>4, <1>5, <1>6 DEF Cmd!CallStep

\* A row command: the row it writes, or leaves, is the one its message names.
LEMMA RowCommandRows ==
  ASSUME CallInv, RowsInv, NEW views, NEW id, NEW name, Cmd!RowCommand(views, id, name),
         \A v \in views : /\ IsRows(v.row)
                          /\ v.row = [i \in Cmd!Column |-> IF i = id THEN name ELSE work.row[i]]
  PROVE  RowsInv'
<1>1. /\ pc = "idle" /\ pc' = "idle" /\ plain' = plain
      /\ work = table /\ (link => autocommit)
  BY DEF Cmd!RowCommand, Cmd!NextCommand, Cmd!rowUnchanged, CallInv, SessionAt, InTransaction
<1>2. CASE link /\ work' \in views /\ link' = link
           /\ (IF autocommit THEN table' = work' ELSE UNCHANGED table)
           /\ intended' = [i \in Cmd!Column |-> IF i = id THEN name ELSE intended[i]]
  <2>1. table' = work' /\ work' \in views
    BY <1>1, <1>2
  <2>2. IsRows(intended)'
    BY <1>2 DEF IsRows
  <2>3. plain => table'.row = intended'
    BY <1>1, <1>2, <2>1 DEF RowsInv
  <2> QED
    BY <1>1, <2>1, <2>2, <2>3 DEF RowsInv, IsRows
<1>3. CASE UNCHANGED <<table, work, link, intended>>
  BY <1>1, <1>3 DEF RowsInv, IsRows
<1>4. CASE /\ table' \in {table} \cup (IF link /\ autocommit THEN views ELSE {})
           /\ work' = table' /\ link' = FALSE /\ UNCHANGED intended
  <2>1. IsRows(table'.row)
    <3>1. table' = table \/ table' \in views
      BY <1>4
    <3> QED
      BY <3>1 DEF RowsInv
  <2> QED
    BY <1>4, <2>1 DEF RowsInv, IsRows
<1> QED
  BY <1>2, <1>3, <1>4 DEF Cmd!RowCommand

\* insert, update and delete; select writes nothing.
LEMMA RowStepRows ==
  ASSUME CallInv, RowsInv, RowCommand
  PROVE  RowsInv'
<1>0. pc = "idle" /\ work = table /\ IsView(work) /\ IsRows(work.row)
  BY DEF RowCommand, Cmd!Insert, Cmd!Update, Cmd!Delete, Cmd!Select, Cmd!RowCommand, Cmd!Read,
         Cmd!NextCommand, CallInv, CommandTypes, Views, SessionAt, InTransaction, RowsInv
<1>1. ASSUME NEW m \in Message, Cmd!Insert(m) PROVE RowsInv'
  <2> DEFINE views == {Cmd!Written(work, id, m.name) :
                         id \in {i \in Cmd!Column \cap {m.id} : work.row[i] = NoRow}}
  <2>1. Cmd!RowCommand(views, m.id, m.name)
    BY <1>1 DEF Cmd!Insert
  <2>2. \A v \in views :
          IsRows(v.row) /\ v.row = [i \in Cmd!Column |-> IF i = m.id THEN m.name ELSE work.row[i]]
    BY <1>0, WrittenRows
  <2> HIDE DEF views
  <2> QED
    BY <2>1, <2>2, RowCommandRows
<1>2. ASSUME NEW m \in Message, Cmd!Update(m) PROVE RowsInv'
  <2> DEFINE views == {Cmd!Written(work, id, m.name) : id \in Cmd!Column \cap {m.id}}
  <2>1. Cmd!RowCommand(views, m.id, m.name)
    BY <1>2 DEF Cmd!Update
  <2>2. \A v \in views :
          IsRows(v.row) /\ v.row = [i \in Cmd!Column |-> IF i = m.id THEN m.name ELSE work.row[i]]
    BY <1>0, WrittenRows
  <2> HIDE DEF views
  <2> QED
    BY <2>1, <2>2, RowCommandRows
<1>3. ASSUME NEW k \in Key, Cmd!Delete(k) PROVE RowsInv'
  <2> DEFINE views == {IF k \in Cmd!Column THEN Cmd!Written(work, k, NoRow) ELSE work}
  <2>1. Cmd!RowCommand(views, k, NoRow)
    BY <1>3 DEF Cmd!Delete
  <2>2. \A v \in views :
          IsRows(v.row) /\ v.row = [i \in Cmd!Column |-> IF i = k THEN NoRow ELSE work.row[i]]
    <3>1. CASE k \in Cmd!Column
      BY <1>0, <3>1, WrittenRows
    <3>2. CASE k \notin Cmd!Column
      <4>1. work.row = [i \in Cmd!Column |-> IF i = k THEN NoRow ELSE work.row[i]]
        BY <1>0, <3>2 DEF IsRows
      <4> QED
        BY <1>0, <3>2, <4>1
    <3> QED
      BY <3>1, <3>2
  <2> HIDE DEF views
  <2> QED
    BY <2>1, <2>2, RowCommandRows
<1>4. ASSUME NEW k \in Key, Cmd!Select(k) PROVE RowsInv'
  <2>1. UNCHANGED <<table, work, link, intended, plain, stmt, wish>> /\ pc' = "idle"
    BY <1>0, <1>4 DEF Cmd!Select, Cmd!Read, Cmd!server, Cmd!rowUnchanged
  <2> QED
    BY <2>1 DEF RowsInv, IsRows
<1> QED
  BY <1>1, <1>2, <1>3, <1>4 DEF RowCommand

\* call: the statement is what the program meant; query reads.
LEMMA FreeStepRows ==
  ASSUME ArgsInv, CallInv, RowsInv, plain \in BOOLEAN, NEW vec \in Vector,
         \/ \E sql \in Sql : call(sql, vec)
         \/ \E where \in Where : query(where, vec)
  PROVE  RowsInv'
<1>1. ASSUME NEW sql \in Sql, call(sql, vec) PROVE RowsInv'
  <2>1. Cmd!Call(sql, Texts(vec), Meant(vec))
    BY <1>1 DEF call
  <2>2. pc = "idle" /\ UNCHANGED <<table, work, link, intended>>
    BY <2>1 DEF Cmd!Call, Cmd!NextCommand, Cmd!server
  <2>3. CASE Cmd!Substituted(sql, Texts(vec)) = NoText
    <3>1. UNCHANGED <<pc, plain, stmt, wish>>
      BY <2>1, <2>3 DEF Cmd!Call
    <3> QED
      BY <2>2, <3>1 DEF RowsInv, IsRows
  <2>4. CASE Cmd!Substituted(sql, Texts(vec)) # NoText
    <3>1. /\ pc' = "autocommit off"
          /\ stmt' = Cmd!Parsed(Cmd!Substituted(sql, Texts(vec)))
          /\ wish' = Cmd!Parsed(Cmd!Meaning(sql, Meant(vec)))
          /\ plain' = (plain /\ Cmd!Plain(sql, Texts(vec), Meant(vec)))
      BY <2>1, <2>4 DEF Cmd!Call
    <3>2. ASSUME plain' PROVE plain /\ stmt' = wish'
      <4>1. plain /\ Cmd!Plain(sql, Texts(vec), Meant(vec))
        BY <3>1, <3>2
      <4>2. Cmd!Substituted(sql, Texts(vec)) = Cmd!Meaning(sql, Meant(vec))
        BY <2>4, <4>1, CommandAsMeant
      <4> QED
        BY <3>1, <4>1, <4>2
    <3> QED
      BY <2>2, <3>1, <3>2 DEF RowsInv, IsRows
  <2> QED
    BY <2>3, <2>4
<1>2. ASSUME NEW where \in Where, query(where, vec) PROVE RowsInv'
  <2>1. Cmd!Query(where, Texts(vec), Meant(vec))
    BY <1>2 DEF query
  <2>2. /\ pc = "idle" /\ pc' = "idle" /\ UNCHANGED <<table, work, link, intended, stmt, wish>>
        /\ plain' => plain
    BY <2>1 DEF Cmd!Query, Cmd!Read, Cmd!NextCommand, Cmd!server, Cmd!rowUnchanged
  <2> QED
    BY <2>2 DEF RowsInv, IsRows
<1> QED
  BY <1>1, <1>2

LEMMA RowsStep ==
  ASSUME ArgsInv, CallInv, Reports, RowsInv, [Next]_vars
  PROVE  RowsInv'
<1>0. plain \in BOOLEAN
  BY DEF Reports
<1>1. CASE UNCHANGED sessionVars
  BY <1>1 DEF sessionVars, RowsInv, IsRows, Committed
<1>2. CASE Prepare \/ UNCHANGED vars
  BY <1>1, <1>2 DEF Prepare, vars
<1>3. CASE Thread
  BY <1>3, CallStepRows DEF Thread
<1>4. CASE LinkDown
  <2>1. link' = FALSE /\ work' = table /\ UNCHANGED <<table, intended>>
    BY <1>4 DEF LinkDown, Cmd!LinkDown, Cmd!history
  <2> QED
    BY <2>1 DEF RowsInv, IsRows
<1>5. CASE RowCommand
  BY <1>5, RowStepRows
<1>6. ASSUME NEW vec \in Vector,
             \/ \E sql \in Sql : call(sql, vec)
             \/ \E where \in Where : query(where, vec)
      PROVE  RowsInv'
  BY <1>0, <1>6, FreeStepRows
<1> QED
  BY <1>2, <1>3, <1>4, <1>5, <1>6 DEF Next

\* The table, the answers and what a call is about to write.
THEOREM RowsCorrect == Spec => []RowsInv
<1>1. Init => RowsInv
  <2> SUFFICES ASSUME Init PROVE RowsInv
    OBVIOUS
  <2>1. /\ table = [row |-> [id \in Cmd!Column |-> NoRow], writes |-> [n \in 1 .. MaxCommand |-> 0]]
        /\ work = table /\ pc = "idle" /\ intended = table.row
    BY DEF Init, Cmd!Init
  <2>2. table.row = [id \in Cmd!Column |-> NoRow]
    BY <2>1
  <2> QED
    BY <2>1, <2>2 DEF RowsInv, IsRows
<1>2. ArgsInv /\ CallInv /\ Reports /\ RowsInv /\ [Next]_vars => RowsInv'
  BY RowsStep
<1> QED
  BY <1>1, <1>2, ArgsCorrect, CallCorrect, ReportsCorrect, PTL DEF Spec

\* While the session lives the table is what the answers say, for every sequence of
\* commands, plain arguments and failures (db_command_call_handler.cpp:57): what is
\* substituted is what was meant, and an error leaves no write behind.
THEOREM TableCorrect == Spec => []TableAsTold
<1>1. RowsInv => TableAsTold
  BY DEF RowsInv, TableAsTold
<1> QED
  BY <1>1, RowsCorrect, PTL

\* The rows a command finds: as many as there are, whichever they are.
LEMMA FoundLength ==
  ASSUME NEW view, NEW ids, ids \subseteq Cmd!Column
  PROVE  /\ Len(Cmd!Found(view, ids)) \in Nat
         /\ DOMAIN Cmd!Found(view, ids) = 1 .. Len(Cmd!Found(view, ids))
         /\ Len(Cmd!Found(view, ids)) = 0 => Cmd!Found(view, ids) = << >>
<1> DEFINE S == {id \in ids : view[id] # NoRow}
           n == Cmd!Cardinality(S)
<1>1. IsFiniteSet(S)
  <2>1. IsFiniteSet(Cmd!Column)
    BY ColumnAssumption, FS_Interval DEF Cmd!Column
  <2>2. S \in SUBSET Cmd!Column
    OBVIOUS
  <2> HIDE DEF S
  <2> QED
    BY <2>1, <2>2, FS_Subset
<1>2. n = Cardinality(S)
  BY DEF Cmd!Cardinality, Cardinality
<1>3. n \in Nat
  <2> HIDE DEF S, n
  <2> QED
    BY <1>1, <1>2, FS_CardinalityType
<1>4. Cmd!Found(view, ids)
        = [i \in 1 .. n |-> CHOOSE id \in S : Cmd!Cardinality({j \in S : j < id}) = i - 1]
  BY Zenon DEF Cmd!Found
<1> HIDE DEF S, n
<1> QED
  BY <1>3, <1>4

\* What a command answers, of the rows it finds.
LEMMA RowsAsFound ==
  ASSUME NEW ids, ids \subseteq Cmd!Column, NEW found, found = Cmd!Found(work.row, ids)
  PROVE  IF found = << >> THEN Cmd!Rows(ids) = << >>
         ELSE /\ Cmd!Rows(ids) # << >> /\ Len(Cmd!Rows(ids)) = Len(found)
              /\ \A i \in DOMAIN found :
                   Cmd!Rows(ids)[i] = Cmd!Filled(found[i], work.row[found[i]])
<1>1. /\ Len(found) \in Nat /\ DOMAIN found = 1 .. Len(found)
      /\ Len(found) = 0 => found = << >>
  BY FoundLength
<1>2. Cmd!Rows(ids) = [i \in 1 .. Len(found) |-> Cmd!Filled(found[i], work.row[found[i]])]
  BY Zenon DEF Cmd!Rows
<1>3. CASE found = << >>
  BY <1>2, <1>3
<1>4. CASE found # << >>
  <2>1. Len(found) # 0
    BY <1>1, <1>4
  <2>2. Len(Cmd!Rows(ids)) = Len(found)
    BY <1>1, <1>2
  <2> QED
    BY <1>1, <1>2, <1>4, <2>1, <2>2
<1> QED
  BY <1>3, <1>4

\* A name in a message: the part before its first zero byte, if it has one.
LEMMA NameUpToZero ==
  ASSUME NEW name
  PROVE  UpToZero(Cmd!getData(name), name)
<1>1. CASE ~Cmd!Contains(name, Nul)
  BY <1>1 DEF Cmd!getData, UpToZero
<1>2. CASE Cmd!Contains(name, Nul)
  <2> DEFINE I == {i \in 1 .. Len(name) : name[i] = Nul}
  <2>1. I # {} /\ I \subseteq Nat
    BY <1>2 DEF Cmd!Contains
  <2>2. PICK k \in I : \A y \in I : k <= y
    <3> HIDE DEF I
    <3> QED
      BY <2>1, NatMin
  <2>3. Cmd!SelectInSeq(name, LAMBDA w : w = Nul) = k
    <3>1. \A x \in I : (\A y \in I : x <= y) => x = k
      BY <2>1, <2>2
    <3>2. Cmd!Min(I) = k
      <4> HIDE DEF I
      <4> QED
        BY <2>2, <3>1 DEF Cmd!Min
    <3> QED
      BY <2>1, <3>2 DEF Cmd!SelectInSeq
  <2>4. Cmd!getData(name) = SubSeq(name, 1, k - 1)
    BY <1>2, <2>3, Zenon DEF Cmd!getData
  <2>5. \A j \in 1 .. k - 1 : name[j] # Nul
    <3> SUFFICES ASSUME NEW j \in 1 .. k - 1, name[j] = Nul PROVE FALSE
      OBVIOUS
    <3>1. k \in 1 .. Len(name) /\ k \in Nat
      BY <2>1, <2>2
    <3>2. j \in 1 .. Len(name) /\ ~(k <= j)
      BY <3>1
    <3> QED
      BY <2>2, <3>2
  <2>6. k \in 1 .. Len(name) /\ name[k] = Nul
    BY <2>2
  <2> QED
    BY <2>4, <2>5, <2>6, Zenon DEF UpToZero
<1> QED
  BY <1>1, <1>2

\* What a message says of a row.
LEMMA FilledRow ==
  ASSUME NEW id, NEW name
  PROVE  /\ Cmd!Filled(id, name).id = IF id \in Cmd!Field THEN id ELSE ColumnWrap \div 2 - 1
         /\ UpToZero(Cmd!Filled(id, name).name, name)
<1>1. /\ Cmd!Filled(id, name).id = Cmd!setIdField(id)
      /\ Cmd!Filled(id, name).name = Cmd!getData(name)
  BY DEF Cmd!Filled
<1> QED
  BY <1>1, NameUpToZero DEF Cmd!setIdField

ReadInv == ReadBack /\ (pc # "idle" => reply = NoReply)

\* The answer of a living session, in the words of ReadBack.
LEMMA AnswerAsWritten ==
  ASSUME NEW rows, NEW ids, ids \subseteq Cmd!Column, work.row = intended,
         \/ rows = Cmd!Rows(ids)
         \/ Cmd!Rows(ids) = << >> /\ rows = <<Cmd!EmptyMessage>>
  PROVE  AsWritten(rows, Cmd!Found(intended, ids), intended)
<1> DEFINE found == Cmd!Found(intended, ids)
<1>1. IF found = << >> THEN Cmd!Rows(ids) = << >>
      ELSE /\ Cmd!Rows(ids) # << >> /\ Len(Cmd!Rows(ids)) = Len(found)
           /\ \A i \in DOMAIN found :
                Cmd!Rows(ids)[i] = Cmd!Filled(found[i], intended[found[i]])
  BY RowsAsFound
<1> HIDE DEF found
<1>2. CASE found = << >>
  <2>1. rows \in {<< >>, <<Cmd!EmptyMessage>>}
    BY <1>1, <1>2
  <2> QED
    BY <1>2, <2>1 DEF AsWritten, found
<1>3. CASE found # << >>
  <2>1. rows = Cmd!Rows(ids) /\ Len(rows) = Len(found)
    BY <1>1, <1>3
  <2>2. ASSUME NEW i \in DOMAIN found
        PROVE  /\ rows[i].id = IF found[i] \in Cmd!Field THEN found[i]
                              ELSE ColumnWrap \div 2 - 1
               /\ UpToZero(rows[i].name, intended[found[i]])
    BY <1>1, <1>3, <2>1, FilledRow
  <2> QED
    BY <1>3, <2>1, <2>2, Zenon DEF AsWritten, found
<1> QED
  BY <1>2, <1>3

\* A read: between commands this session sees what the others see.
LEMMA AnswerStep ==
  ASSUME CallInv, RowsInv, Cmd!Read, plain' => plain, NEW rows, NEW ids, NEW asked,
         Cmd!Answer(rows, asked), ids \subseteq Cmd!Column, plain' => ids = asked,
         \/ rows = Cmd!Rows(ids)
         \/ Cmd!Rows(ids) = << >> /\ rows = <<Cmd!EmptyMessage>>
  PROVE  ReadInv'
<1>1. pc = "idle" /\ pc' = "idle" /\ UNCHANGED <<link, work, intended>> /\ work = table
  BY DEF Cmd!Read, Cmd!NextCommand, Cmd!server, Cmd!rowUnchanged, CallInv, SessionAt,
         InTransaction
<1>2. ASSUME reply' # NoReply, link', plain' PROVE reply' = [rows |-> rows, asked |-> asked]
  BY <1>2 DEF Cmd!Answer, Cmd!ReadFails, Cmd!Refuse
<1>3. ASSUME link', plain' PROVE work.row = intended
  BY <1>1, <1>3 DEF RowsInv
<1>4. ReadBack'
  <2> SUFFICES ASSUME reply' # NoReply, link', plain'
               PROVE  AsWritten(reply.rows, Cmd!Found(intended, reply.asked), intended)'
    BY Zenon DEF ReadBack
  <2>1. reply'.rows = rows /\ reply'.asked = ids
    BY <1>2
  <2>2. AsWritten(rows, Cmd!Found(intended, ids), intended)
    BY <1>3, AnswerAsWritten
  <2>3. AsWritten(rows, Cmd!Found(intended, ids), intended)'
    BY <1>1, <2>2 DEF AsWritten
  <2> QED
    BY <2>1, <2>3, Zenon DEF AsWritten
<1> QED
  BY <1>1, <1>4 DEF ReadInv

\* A select asks for one row; a query for the rows its text denotes, which plain
\* arguments make the ones the program meant.
LEMMA ReadStep ==
  ASSUME ArgsInv, CallInv, RowsInv, plain \in BOOLEAN,
         \/ \E k \in Key : Cmd!Select(k)
         \/ \E vec \in Vector, where \in Where : Cmd!Query(where, Texts(vec), Meant(vec))
  PROVE  ReadInv'
<1>1. ASSUME NEW k \in Key, Cmd!Select(k) PROVE ReadInv'
  <2> DEFINE ids == {k} \cap Cmd!Column
             rows == IF Cmd!Rows(ids) = << >> THEN <<Cmd!EmptyMessage>> ELSE Cmd!Rows(ids)
  <2>1. Cmd!Read /\ plain' = plain /\ Cmd!Answer(rows, ids)
    BY <1>1, Zenon DEF Cmd!Select
  <2>2. ids \subseteq Cmd!Column
    OBVIOUS
  <2>3. \/ rows = Cmd!Rows(ids)
        \/ Cmd!Rows(ids) = << >> /\ rows = <<Cmd!EmptyMessage>>
    OBVIOUS
  <2> HIDE DEF ids, rows
  <2> QED
    BY <2>1, <2>2, <2>3, AnswerStep
<1>2. ASSUME NEW vec \in Vector, NEW where \in Where,
             Cmd!Query(where, Texts(vec), Meant(vec))
      PROVE  ReadInv'
  <2> DEFINE text == Cmd!Substituted(where, Texts(vec))
             wished == Cmd!Meaning(where, Meant(vec))
  <2>1. /\ Cmd!Read /\ plain' = (plain /\ Cmd!Plain(where, Texts(vec), Meant(vec)))
        /\ IF text = NoText THEN Cmd!Refuse("kRC_SQLPARM_ERROR")
           ELSE \/ Cmd!Answer(Cmd!Rows(Cmd!Denoted(text)), Cmd!Denoted(wished))
                \/ Cmd!ReadFails
    BY <1>2, Zenon DEF Cmd!Query
  <2>2. plain' => plain
    BY <2>1
  <2>3. CASE text = NoText \/ Cmd!ReadFails
    <3>1. reply' = NoReply
      BY <2>1, <2>3 DEF Cmd!ReadFails, Cmd!Refuse
    <3> QED
      BY <3>1 DEF ReadInv, ReadBack
  <2>4. CASE text # NoText /\ ~Cmd!ReadFails
    <3>1. ASSUME plain' PROVE Cmd!Denoted(text) = Cmd!Denoted(wished)
      <4>1. Cmd!Plain(where, Texts(vec), Meant(vec))
        BY <2>1, <3>1
      <4>2. text \in {wished, NoText}
        BY <4>1, CommandAsMeant
      <4> QED
        BY <2>4, <4>2
    <3>2. Cmd!Denoted(text) \subseteq Cmd!Column
      BY DEF Cmd!ColumnOf, Cmd!Denoted
    <3>3. Cmd!Answer(Cmd!Rows(Cmd!Denoted(text)), Cmd!Denoted(wished))
      BY <2>1, <2>4
    <3> HIDE DEF text, wished
    <3> QED
      BY <2>1, <2>2, <3>1, <3>2, <3>3, AnswerStep
  <2> QED
    BY <2>3, <2>4
<1> QED
  BY <1>1, <1>2

\* No answer outlives the next change of the table.
LEMMA ReadInvStep ==
  ASSUME ArgsInv, CallInv, Reports, RowsInv, ReadInv, [Next]_vars
  PROVE  ReadInv'
<1>0. plain \in BOOLEAN
  BY DEF Reports
<1>1. CASE reply' = NoReply
  BY <1>1 DEF ReadInv, ReadBack
<1>2. CASE Prepare
  BY <1>1, <1>2 DEF Prepare
<1>3. CASE Thread
  <2>1. pc # "idle" /\ reply' = reply
    BY <1>3 DEF Thread, Cmd!CallStep, Cmd!autoCommitOff, Cmd!begin, Cmd!ExecuteOK,
                Cmd!ExecuteDeadloop, Cmd!ExecuteFails, Cmd!Retry, Cmd!Fail, Cmd!commit,
                Cmd!autoCommitOn, Cmd!callVars
  <2> QED
    BY <1>1, <2>1 DEF ReadInv
<1>4. CASE LinkDown
  <2>1. link' = FALSE /\ UNCHANGED <<pc, reply>>
    BY <1>4 DEF LinkDown, Cmd!LinkDown
  <2> QED
    BY <2>1 DEF ReadInv, ReadBack
<1>5. CASE RowCommand
  <2>1. CASE \E k \in Key : Cmd!Select(k)
    BY <1>0, <2>1, ReadStep
  <2>2. CASE ~ \E k \in Key : Cmd!Select(k)
    <3>1. reply' = NoReply
      BY <1>5, <2>2 DEF RowCommand, Cmd!Insert, Cmd!Update, Cmd!Delete, Cmd!RowCommand
    <3> QED
      BY <1>1, <3>1
  <2> QED
    BY <2>1, <2>2
<1>6. ASSUME NEW vec \in Vector, NEW sql \in Sql, call(sql, vec) PROVE ReadInv'
  BY <1>1, <1>6 DEF call, Cmd!Call
<1>7. ASSUME NEW vec \in Vector, NEW where \in Where, query(where, vec) PROVE ReadInv'
  BY <1>0, <1>7, ReadStep DEF query
<1>8. CASE UNCHANGED vars
  BY <1>8 DEF vars, sessionVars, ReadInv, ReadBack
<1> QED
  BY <1>2, <1>3, <1>4, <1>5, <1>6, <1>7, <1>8 DEF Next

\* select and query return the rows the program asked for, all of them and no other, for
\* any texts, plain arguments and number of columns (db_protobuf.cpp:57); of a name
\* exactly the part before its first zero byte, of an id too large for the field of the
\* message the largest of that field.
THEOREM ReadBackCorrect == Spec => []ReadBack
<1>1. Init => ReadInv
  BY DEF Init, Cmd!Init, ReadInv, ReadBack
<1>2. ArgsInv /\ CallInv /\ Reports /\ RowsInv /\ ReadInv /\ [Next]_vars => ReadInv'
  BY ReadInvStep
<1>3. ReadInv => ReadBack
  BY DEF ReadInv
<1> QED
  BY <1>1, <1>2, <1>3, ArgsCorrect, CallCorrect, ReportsCorrect, RowsCorrect, PTL DEF Spec
=============================================================================
