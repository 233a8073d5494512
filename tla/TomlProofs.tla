----------------------------- MODULE TomlProofs -----------------------------
(***************************************************************************)
(* Proofs about TomlTable, for any keys and documents of any length, and   *)
(* about the calendar, the binary integers and the characters of           *)
(* TomlScalars.                                                            *)
(***************************************************************************)
EXTENDS TomlTable, TomlScalars, SequenceTheorems, WellFoundedInduction, TLAPS

(* Nodes, whatever the values in D are.  The root has no key. *)
NodeSet(D) == [parent : Nat, key : Key \cup {<<>>}, fmt : Formats, is : D]

NodesOf(s) == 1..Len(s)

(* Nodes stand in a tree: the root first, then each after the table or the *)
(* array of tables that holds it.                                          *)
InTree(s) ==
  /\ Len(s) > 0
  /\ s[1].parent = 0
  /\ s[1].fmt = "multiline"
  /\ \A n \in NodesOf(s) :
       n > 1 => /\ s[n].parent \in 1..(n - 1)
                /\ s[s[n].parent].fmt # "value"

(* An array of tables has a last element; elements are tables that stand   *)
(* in the document.                                                        *)
LastOf(s, n, m) ==
  /\ m \in NodesOf(s)
  /\ s[m].parent = n
  /\ \A k \in NodesOf(s) : s[k].parent = n => k <= m

HasElements(s) ==
  /\ \A n \in NodesOf(s) :
       s[n].fmt = "array_of_tables" => \E m \in NodesOf(s) : LastOf(s, n, m)
  /\ \A n \in NodesOf(s) :
       n > 1 /\ s[s[n].parent].fmt = "array_of_tables" => s[n].fmt = "multiline"

NamesOnce(s) ==
  \A m, n \in NodesOf(s) :
    (/\ s[m].parent = s[n].parent
     /\ s[m].key = s[n].key
     /\ m > 1 => s[s[m].parent].fmt # "array_of_tables")
    => m = n

Sound(s) ==
  /\ \E D : s \in Seq(NodeSet(D))
  /\ InTree(s)
  /\ HasElements(s)
  /\ NamesOnce(s)

(* The relation of KeepsNodes *)
Keeps(s, t) ==
  /\ Len(t) >= Len(s)
  /\ \A n \in NodesOf(s) :
       \/ t[n] = s[n]
       \/ /\ s[n].fmt = "implicit"
          /\ t[n] = [s[n] EXCEPT !.fmt = "multiline"]

-----------------------------------------------------------------------------
(* What appending a node does to a sequence of nodes *)
LEMMA AppendNode ==
  ASSUME NEW D, NEW s \in Seq(NodeSet(D)),
         NEW p \in Nat, NEW k \in Key \cup {<<>>}, NEW f \in Formats, NEW v
  PROVE  /\ Append(s, Node(p, k, f, v)) \in Seq(NodeSet(D \cup {v}))
         /\ Len(Append(s, Node(p, k, f, v))) = Len(s) + 1
         /\ \A n \in 1..Len(s) : Append(s, Node(p, k, f, v))[n] = s[n]
         /\ Append(s, Node(p, k, f, v))[Len(s) + 1].parent = p
         /\ Append(s, Node(p, k, f, v))[Len(s) + 1].key = k
         /\ Append(s, Node(p, k, f, v))[Len(s) + 1].fmt = f
<1> DEFINE x == Node(p, k, f, v)
           E == D \cup {v}
<1>1. x \in NodeSet(E) /\ x.parent = p /\ x.key = k /\ x.fmt = f
  BY DEF Node, NodeSet
<1>2. NodeSet(D) \subseteq NodeSet(E)
  BY DEF NodeSet
<1>3. s \in Seq(NodeSet(E))
  BY <1>2, SeqMonotonic
<1> HIDE DEF x, E
<1>4. /\ Append(s, x) \in Seq(NodeSet(E))
      /\ Len(Append(s, x)) = Len(s) + 1
      /\ \A n \in 1..Len(s) : Append(s, x)[n] = s[n]
      /\ Append(s, x)[Len(s) + 1] = x
  BY <1>1, <1>3
<1> QED BY <1>1, <1>4 DEF x, E

LEMMA FieldsOf ==
  ASSUME NEW s, Sound(s), NEW n \in NodesOf(s)
  PROVE  /\ Len(s) \in Nat
         /\ s[n].parent \in Nat
         /\ s[n].fmt \in Formats
<1>1. PICK D : s \in Seq(NodeSet(D))
  BY DEF Sound
<1>2. s[n] \in NodeSet(D) /\ Len(s) \in Nat
  BY <1>1 DEF NodesOf
<1> QED BY <1>2 DEF NodeSet

(* A value or a table may be added under a name that is free. *)
LEMMA AddedUnder ==
  ASSUME NEW s, Sound(s), NEW p \in NodesOf(s), NEW k \in Key, NEW v,
         NEW f \in Formats \ {"array_of_tables"},
         s[p].fmt \in TableFormats,
         \A m \in NodesOf(s) : ~(s[m].parent = p /\ s[m].key = k)
  PROVE  /\ Sound(Append(s, Node(p, k, f, v)))
         /\ Keeps(s, Append(s, Node(p, k, f, v)))
         /\ Len(Append(s, Node(p, k, f, v))) = Len(s) + 1
         /\ Append(s, Node(p, k, f, v))[Len(s) + 1].fmt = f
<1> DEFINE t == Append(s, Node(p, k, f, v))
<1>1. PICK D : s \in Seq(NodeSet(D))
  BY DEF Sound
<1>2. /\ t \in Seq(NodeSet(D \cup {v}))
      /\ Len(t) = Len(s) + 1
      /\ \A n \in 1..Len(s) : t[n] = s[n]
      /\ t[Len(s) + 1].parent = p
      /\ t[Len(s) + 1].key = k
      /\ t[Len(s) + 1].fmt = f
  BY <1>1, AppendNode DEF NodesOf
<1> HIDE DEF t
<1>3. Len(s) \in Nat /\ NodesOf(t) = NodesOf(s) \cup {Len(s) + 1}
  BY <1>1, <1>2 DEF NodesOf
<1>4. s[p].fmt # "value" /\ s[p].fmt # "array_of_tables"
  BY DEF TableFormats
<1>5. InTree(t)
  <2>1. InTree(s)
    BY DEF Sound
  <2>2. ASSUME NEW n \in NodesOf(t), n > 1
        PROVE  t[n].parent \in 1..(n - 1) /\ t[t[n].parent].fmt # "value"
    <3>1. CASE n \in NodesOf(s)
      <4>1. s[n].parent \in 1..(n - 1) /\ s[s[n].parent].fmt # "value"
        BY <2>1, <2>2, <3>1 DEF InTree
      <4>2. t[n] = s[n] /\ t[s[n].parent] = s[s[n].parent]
        BY <3>1, <4>1, <1>2, <1>3 DEF NodesOf
      <4> QED BY <4>1, <4>2
    <3>2. CASE n = Len(s) + 1
      BY <3>2, <1>2, <1>3, <1>4 DEF NodesOf
    <3> QED BY <3>1, <3>2, <1>3
  <2> QED BY <2>1, <2>2, <1>2, <1>3 DEF InTree, NodesOf
<1>6. HasElements(t)
  <2>1. ASSUME NEW n \in NodesOf(t), t[n].fmt = "array_of_tables"
        PROVE  \E m \in NodesOf(t) : LastOf(t, n, m)
    <3>1. n \in NodesOf(s) /\ s[n].fmt = "array_of_tables" /\ n # p
      BY <2>1, <1>2, <1>3, <1>4 DEF NodesOf
    <3>2. PICK m \in NodesOf(s) : LastOf(s, n, m)
      BY <3>1 DEF Sound, HasElements
    <3> QED BY <3>1, <3>2, <1>2, <1>3 DEF LastOf, NodesOf
  <2>2. ASSUME NEW n \in NodesOf(t), n > 1, t[t[n].parent].fmt = "array_of_tables"
        PROVE  t[n].fmt = "multiline"
    <3>1. n \in NodesOf(s)
      BY <2>2, <1>2, <1>3, <1>4 DEF NodesOf
    <3>2. s[n].parent \in NodesOf(s)
      BY <2>2, <3>1, <1>3 DEF Sound, InTree, NodesOf
    <3> QED BY <2>2, <3>1, <3>2, <1>2 DEF Sound, HasElements, NodesOf
  <2> QED BY <2>1, <2>2 DEF HasElements
<1>7. NamesOnce(t)
  <2> SUFFICES ASSUME NEW m \in NodesOf(t), NEW n \in NodesOf(t),
                      t[m].parent = t[n].parent, t[m].key = t[n].key,
                      m > 1 => t[t[m].parent].fmt # "array_of_tables"
               PROVE  m = n
    BY DEF NamesOnce
  <2>1. CASE m \in NodesOf(s) /\ n \in NodesOf(s)
    <3>1. m > 1 => s[m].parent \in NodesOf(s)
      BY <2>1, <1>3 DEF Sound, InTree, NodesOf
    <3> QED BY <2>1, <3>1, <1>2 DEF Sound, NamesOnce, NodesOf
  <2>2. CASE m = Len(s) + 1 \/ n = Len(s) + 1
    BY <2>2, <1>2, <1>3 DEF NodesOf
  <2> QED BY <2>1, <2>2, <1>3
<1>8. Keeps(s, t)
  BY <1>2, <1>3 DEF Keeps, NodesOf
<1> QED BY <1>2, <1>5, <1>6, <1>7, <1>8 DEF Sound, t

(* A further element: the last one of its array from now on. *)
LEMMA AddedElement ==
  ASSUME NEW s, Sound(s), NEW p \in NodesOf(s), NEW k \in Key, NEW v,
         s[p].fmt = "array_of_tables"
  PROVE  /\ Sound(Append(s, Node(p, k, "multiline", v)))
         /\ Keeps(s, Append(s, Node(p, k, "multiline", v)))
         /\ Len(Append(s, Node(p, k, "multiline", v))) = Len(s) + 1
         /\ Append(s, Node(p, k, "multiline", v))[Len(s) + 1].fmt = "multiline"
<1> DEFINE t == Append(s, Node(p, k, "multiline", v))
<1>1. PICK D : s \in Seq(NodeSet(D))
  BY DEF Sound
<1>2. /\ t \in Seq(NodeSet(D \cup {v}))
      /\ Len(t) = Len(s) + 1
      /\ \A n \in 1..Len(s) : t[n] = s[n]
      /\ t[Len(s) + 1].parent = p
      /\ t[Len(s) + 1].key = k
      /\ t[Len(s) + 1].fmt = "multiline"
  BY <1>1, AppendNode DEF NodesOf, Formats, TableFormats
<1> HIDE DEF t
<1>3. Len(s) \in Nat /\ NodesOf(t) = NodesOf(s) \cup {Len(s) + 1}
  BY <1>1, <1>2 DEF NodesOf
<1>5. InTree(t)
  <2>1. InTree(s)
    BY DEF Sound
  <2>2. ASSUME NEW n \in NodesOf(t), n > 1
        PROVE  t[n].parent \in 1..(n - 1) /\ t[t[n].parent].fmt # "value"
    <3>1. CASE n \in NodesOf(s)
      <4>1. s[n].parent \in 1..(n - 1) /\ s[s[n].parent].fmt # "value"
        BY <2>1, <2>2, <3>1 DEF InTree
      <4>2. t[n] = s[n] /\ t[s[n].parent] = s[s[n].parent]
        BY <3>1, <4>1, <1>2, <1>3 DEF NodesOf
      <4> QED BY <4>1, <4>2
    <3>2. CASE n = Len(s) + 1
      BY <3>2, <1>2, <1>3 DEF NodesOf
    <3> QED BY <3>1, <3>2, <1>3
  <2> QED BY <2>1, <2>2, <1>2, <1>3 DEF InTree, NodesOf
<1>6. HasElements(t)
  <2>1. ASSUME NEW n \in NodesOf(t), t[n].fmt = "array_of_tables"
        PROVE  \E m \in NodesOf(t) : LastOf(t, n, m)
    <3>1. n \in NodesOf(s) /\ s[n].fmt = "array_of_tables"
      BY <2>1, <1>2, <1>3 DEF NodesOf
    <3>2. CASE n = p
      BY <3>2, <1>2, <1>3 DEF LastOf, NodesOf
    <3>3. CASE n # p
      <4>1. PICK m \in NodesOf(s) : LastOf(s, n, m)
        BY <3>1 DEF Sound, HasElements
      <4> QED BY <3>1, <3>3, <4>1, <1>2, <1>3 DEF LastOf, NodesOf
    <3> QED BY <3>2, <3>3
  <2>2. ASSUME NEW n \in NodesOf(t), n > 1, t[t[n].parent].fmt = "array_of_tables"
        PROVE  t[n].fmt = "multiline"
    <3>1. CASE n \in NodesOf(s)
      <4>1. s[n].parent \in NodesOf(s)
        BY <2>2, <3>1, <1>3 DEF Sound, InTree, NodesOf
      <4> QED BY <2>2, <3>1, <4>1, <1>2 DEF Sound, HasElements, NodesOf
    <3>2. CASE n = Len(s) + 1
      BY <3>2, <1>2
    <3> QED BY <3>1, <3>2, <1>3
  <2> QED BY <2>1, <2>2 DEF HasElements
<1>7. NamesOnce(t)
  <2> SUFFICES ASSUME NEW m \in NodesOf(t), NEW n \in NodesOf(t),
                      t[m].parent = t[n].parent, t[m].key = t[n].key,
                      m > 1 => t[t[m].parent].fmt # "array_of_tables"
               PROVE  m = n
    BY DEF NamesOnce
  <2>1. CASE m \in NodesOf(s) /\ n \in NodesOf(s)
    <3>1. m > 1 => s[m].parent \in NodesOf(s)
      BY <2>1, <1>3 DEF Sound, InTree, NodesOf
    <3> QED BY <2>1, <3>1, <1>2 DEF Sound, NamesOnce, NodesOf
  <2>2. CASE m = Len(s) + 1
    BY <2>2, <1>2, <1>3 DEF NodesOf, Sound, InTree
  <2>3. CASE m \in NodesOf(s) /\ n = Len(s) + 1
    <3>1. s[m].parent = p
      BY <2>3, <1>2 DEF NodesOf
    <3>2. m > 1
      BY <2>3, <3>1 DEF Sound, InTree, NodesOf
    <3> QED BY <2>3, <3>1, <3>2, <1>2 DEF NodesOf
  <2> QED BY <2>1, <2>2, <2>3, <1>3
<1>8. Keeps(s, t)
  BY <1>2, <1>3 DEF Keeps, NodesOf
<1> QED BY <1>2, <1>5, <1>6, <1>7, <1>8 DEF Sound, t

(* An array comes with its first element. *)
ArrayAdded(s, p, k, t) ==
  /\ \E D : t \in Seq(NodeSet(D))
  /\ Len(t) = Len(s) + 2
  /\ NodesOf(t) = NodesOf(s) \cup {Len(s) + 1, Len(s) + 2}
  /\ \A n \in NodesOf(s) : t[n] = s[n]
  /\ t[Len(s) + 1].parent = p
  /\ t[Len(s) + 1].key = k
  /\ t[Len(s) + 1].fmt = "array_of_tables"
  /\ t[Len(s) + 2].parent = Len(s) + 1
  /\ t[Len(s) + 2].key = k
  /\ t[Len(s) + 2].fmt = "multiline"

LEMMA AppendArray ==
  ASSUME NEW s, Sound(s), NEW p \in NodesOf(s), NEW k \in Key, NEW v
  PROVE  ArrayAdded(s, p, k, Append(Append(s, Node(p, k, "array_of_tables", v)),
                                    Node(Len(s) + 1, k, "multiline", v)))
<1> DEFINE u == Append(s, Node(p, k, "array_of_tables", v))
           t == Append(u, Node(Len(s) + 1, k, "multiline", v))
<1>1. PICK D : s \in Seq(NodeSet(D))
  BY DEF Sound
<1>2. /\ u \in Seq(NodeSet(D \cup {v}))
      /\ Len(u) = Len(s) + 1
      /\ \A n \in 1..Len(s) : u[n] = s[n]
      /\ u[Len(s) + 1].parent = p
      /\ u[Len(s) + 1].key = k
      /\ u[Len(s) + 1].fmt = "array_of_tables"
  BY <1>1, AppendNode DEF NodesOf, Formats
<1> HIDE DEF u
<1>3. Len(s) \in Nat
  BY <1>1
<1>4. /\ t \in Seq(NodeSet((D \cup {v}) \cup {v}))
      /\ Len(t) = Len(u) + 1
      /\ \A n \in 1..Len(u) : t[n] = u[n]
      /\ t[Len(u) + 1].parent = Len(s) + 1
      /\ t[Len(u) + 1].key = k
      /\ t[Len(u) + 1].fmt = "multiline"
  <2>1. Len(s) + 1 \in Nat /\ "multiline" \in Formats /\ k \in Key \cup {<<>>}
    BY <1>3 DEF Formats, TableFormats
  <2> QED BY <1>2, <2>1, AppendNode
<1> HIDE DEF t
<1>5. /\ Len(t) = Len(s) + 2
      /\ NodesOf(t) = NodesOf(s) \cup {Len(s) + 1, Len(s) + 2}
      /\ \A n \in NodesOf(s) : t[n] = s[n]
  BY <1>2, <1>3, <1>4 DEF NodesOf
<1>6. /\ t[Len(s) + 1] = u[Len(s) + 1]
      /\ Len(u) + 1 = Len(s) + 2
  BY <1>2, <1>3, <1>4
<1> QED BY <1>2, <1>4, <1>5, <1>6 DEF ArrayAdded, t, u

LEMMA AddedArray ==
  ASSUME NEW s, Sound(s), NEW p \in NodesOf(s), NEW k \in Key,
         s[p].fmt \in TableFormats,
         \A m \in NodesOf(s) : ~(s[m].parent = p /\ s[m].key = k),
         NEW t, ArrayAdded(s, p, k, t)
  PROVE  Sound(t) /\ Keeps(s, t)
<1>1. Len(s) \in Nat
  BY DEF Sound
<1>2. /\ Len(t) = Len(s) + 2
      /\ NodesOf(t) = NodesOf(s) \cup {Len(s) + 1, Len(s) + 2}
      /\ \A n \in NodesOf(s) : t[n] = s[n]
      /\ t[Len(s) + 1].parent = p
      /\ t[Len(s) + 1].key = k
      /\ t[Len(s) + 1].fmt = "array_of_tables"
      /\ t[Len(s) + 2].parent = Len(s) + 1
      /\ t[Len(s) + 2].key = k
      /\ t[Len(s) + 2].fmt = "multiline"
  BY DEF ArrayAdded
<1>3. s[p].fmt # "value" /\ s[p].fmt # "array_of_tables"
  BY DEF TableFormats
<1>4. \A n \in NodesOf(s) :
        n > 1 => s[n].parent \in 1..(n - 1) /\ s[n].parent \in NodesOf(s)
  BY <1>1 DEF Sound, InTree, NodesOf
<1>5. \A n \in NodesOf(s) : n \in Nat /\ n # Len(s) + 1 /\ n # Len(s) + 2
  BY <1>1 DEF NodesOf
<1>6. InTree(t)
  <2>1. ASSUME NEW n \in NodesOf(t), n > 1
        PROVE  t[n].parent \in 1..(n - 1) /\ t[t[n].parent].fmt # "value"
    <3>1. CASE n \in NodesOf(s)
      BY <2>1, <3>1, <1>2, <1>4 DEF Sound, InTree
    <3>2. CASE n = Len(s) + 1
      BY <3>2, <1>1, <1>2, <1>3 DEF NodesOf
    <3>3. CASE n = Len(s) + 2
      BY <3>3, <1>1, <1>2
    <3> QED BY <3>1, <3>2, <3>3, <1>2
  <2>2. 1 \in NodesOf(s)
    BY <1>1 DEF Sound, InTree, NodesOf
  <2> QED BY <2>1, <2>2, <1>1, <1>2 DEF Sound, InTree
<1>7. HasElements(t)
  <2>1. ASSUME NEW n \in NodesOf(t), t[n].fmt = "array_of_tables"
        PROVE  \E m \in NodesOf(t) : LastOf(t, n, m)
    <3>1. CASE n \in NodesOf(s)
      <4>1. n # p /\ s[n].fmt = "array_of_tables"
        BY <2>1, <3>1, <1>2, <1>3
      <4>2. PICK m \in NodesOf(s) : LastOf(s, n, m)
        BY <3>1, <4>1 DEF Sound, HasElements
      <4> QED BY <3>1, <4>1, <4>2, <1>2, <1>5 DEF LastOf
    <3>2. CASE n = Len(s) + 1
      <4>1. \A m \in NodesOf(t) : m <= Len(s) + 2
        BY <1>1, <1>2 DEF NodesOf
      <4>2. LastOf(t, n, Len(s) + 2)
        BY <3>2, <4>1, <1>2 DEF LastOf
      <4> QED BY <4>2, <1>2
    <3> QED BY <2>1, <3>1, <3>2, <1>2
  <2>2. ASSUME NEW n \in NodesOf(t), n > 1, t[t[n].parent].fmt = "array_of_tables"
        PROVE  t[n].fmt = "multiline"
    <3>1. CASE n \in NodesOf(s)
      BY <2>2, <3>1, <1>2, <1>4 DEF Sound, HasElements
    <3>2. CASE n = Len(s) + 1
      BY <2>2, <3>2, <1>2, <1>3
    <3> QED BY <3>1, <3>2, <1>2
  <2> QED BY <2>1, <2>2 DEF HasElements
<1>8. NamesOnce(t)
  <2> SUFFICES ASSUME NEW m \in NodesOf(t), NEW n \in NodesOf(t),
                      t[m].parent = t[n].parent, t[m].key = t[n].key,
                      m > 1 => t[t[m].parent].fmt # "array_of_tables"
               PROVE  m = n
    BY DEF NamesOnce
  <2>1. m # Len(s) + 2
    BY <1>1, <1>2
  <2>2. n # Len(s) + 2
    <3> SUFFICES ASSUME n = Len(s) + 2 PROVE FALSE
      OBVIOUS
    <3>1. t[m].parent = Len(s) + 1
      BY <1>2
    <3>2. m = 1
      BY <3>1, <1>2, <2>1, <1>1, <1>5 DEF NodesOf
    <3> QED BY <3>1, <3>2, <1>1, <1>2, <2>1 DEF Sound, InTree, NodesOf
  <2>3. CASE m \in NodesOf(s) /\ n \in NodesOf(s)
    <3>1. s[m].parent = s[n].parent /\ s[m].key = s[n].key
      BY <2>3, <1>2
    <3>2. m > 1 => s[s[m].parent].fmt # "array_of_tables"
      <4> SUFFICES ASSUME m > 1 PROVE s[s[m].parent].fmt # "array_of_tables"
        OBVIOUS
      <4>1. s[m].parent \in NodesOf(s) /\ t[m] = s[m]
        BY <2>3, <1>2, <1>4
      <4> QED BY <4>1, <1>2
    <3> QED BY <2>3, <3>1, <3>2 DEF Sound, NamesOnce
  <2>4. \A i \in NodesOf(s) :
          ~(t[i].parent = t[Len(s) + 1].parent /\ t[i].key = t[Len(s) + 1].key)
    BY <1>2
  <2>5. CASE m = Len(s) + 1 /\ n \in NodesOf(s)
    BY <2>4, <2>5
  <2>6. CASE n = Len(s) + 1 /\ m \in NodesOf(s)
    BY <2>4, <2>6
  <2>7. CASE m = Len(s) + 1 /\ n = Len(s) + 1
    BY <2>7
  <2> QED BY <2>1, <2>2, <2>3, <2>5, <2>6, <2>7, <1>2
<1>9. Keeps(s, t)
  BY <1>1, <1>2 DEF Keeps
<1> QED BY <1>6, <1>7, <1>8, <1>9 DEF Sound, ArrayAdded

(* A table that was implied stays where it is. *)
LEMMA Reopened ==
  ASSUME NEW s, Sound(s), NEW p \in NodesOf(s), s[p].fmt = "implicit"
  PROVE  /\ Sound([s EXCEPT ![p].fmt = "multiline"])
         /\ Keeps(s, [s EXCEPT ![p].fmt = "multiline"])
<1> DEFINE x == [s[p] EXCEPT !.fmt = "multiline"]
           t == [s EXCEPT ![p] = x]
<1>1. PICK D : s \in Seq(NodeSet(D))
  BY DEF Sound
<1>2. s[p] \in NodeSet(D)
  BY <1>1, ElementOfSeq DEF NodesOf
<1>3. /\ x \in NodeSet(D) /\ x.fmt = "multiline"
      /\ x.parent = s[p].parent /\ x.key = s[p].key
  BY <1>2 DEF NodeSet, Formats, TableFormats
<1> HIDE DEF x
<1>4. /\ t \in Seq(NodeSet(D))
      /\ Len(t) = Len(s)
      /\ \A n \in 1..Len(s) : t[n] = IF n = p THEN x ELSE s[n]
  BY <1>1, <1>3, ExceptSeq DEF NodesOf
<1> HIDE DEF t
<1>5. /\ Len(s) \in Nat
      /\ NodesOf(t) = NodesOf(s)
      /\ \A n \in NodesOf(s) :
           /\ t[n].parent = s[n].parent
           /\ t[n].key = s[n].key
           /\ n # p => t[n].fmt = s[n].fmt
      /\ t[p].fmt = "multiline"
  BY <1>1, <1>3, <1>4 DEF NodesOf
<1>6. \A n \in NodesOf(s) : n > 1 => s[n].parent \in NodesOf(s)
  BY <1>5 DEF Sound, InTree, NodesOf
<1>7. InTree(t)
  BY <1>4, <1>5, <1>6 DEF Sound, InTree, NodesOf
<1>8. HasElements(t)
  <2>1. ASSUME NEW n \in NodesOf(t), t[n].fmt = "array_of_tables"
        PROVE  \E m \in NodesOf(t) : LastOf(t, n, m)
    <3>1. s[n].fmt = "array_of_tables"
      BY <2>1, <1>5
    <3>2. PICK m \in NodesOf(s) : LastOf(s, n, m)
      BY <2>1, <3>1, <1>5 DEF Sound, HasElements
    <3> QED BY <3>2, <1>5 DEF LastOf
  <2>2. ASSUME NEW n \in NodesOf(t), n > 1, t[t[n].parent].fmt = "array_of_tables"
        PROVE  t[n].fmt = "multiline"
    <3>1. s[s[n].parent].fmt = "array_of_tables"
      BY <2>2, <1>5, <1>6
    <3> QED BY <2>2, <3>1, <1>5 DEF Sound, HasElements
  <2> QED BY <2>1, <2>2 DEF HasElements
<1>9. NamesOnce(t)
  <2> SUFFICES ASSUME NEW m \in NodesOf(t), NEW n \in NodesOf(t),
                      t[m].parent = t[n].parent, t[m].key = t[n].key,
                      m > 1 => t[t[m].parent].fmt # "array_of_tables"
               PROVE  m = n
    BY DEF NamesOnce
  <2>1. m > 1 => s[s[m].parent].fmt # "array_of_tables"
    BY <1>5, <1>6
  <2> QED BY <2>1, <1>5 DEF Sound, NamesOnce
<1>10. Keeps(s, t)
  BY <1>4, <1>5 DEF Keeps, NodesOf, x
<1>11. t = [s EXCEPT ![p].fmt = "multiline"]
  BY DEF t, x
<1> QED BY <1>4, <1>7, <1>8, <1>9, <1>10, <1>11 DEF Sound

-----------------------------------------------------------------------------
(* The table at hand, while something is inserted, is one. *)
Inserting ==
  /\ kind \in Kinds \cup {"none"}
  /\ keys \in Seq(Key)
  /\ kind # "none" => /\ keys # <<>>
                     /\ current \in NodesOf(nodes)
                     /\ nodes[current].fmt \in TableFormats

TableInv == Sound(nodes) /\ Inserting

LEMMA DomainOfNodes == ASSUME Sound(nodes)
                       PROVE  DOMAIN nodes = NodesOf(nodes) /\ Len(nodes) \in Nat
<1>1. PICK D : nodes \in Seq(NodeSet(D))
  BY DEF Sound
<1> QED BY <1>1, LenProperties DEF NodesOf

LEMMA InitInv == TableInit => TableInv
<1> SUFFICES ASSUME TableInit PROVE TableInv
  OBVIOUS
<1> DEFINE x == Node(0, <<>>, "multiline", NoValue)
<1>1. x \in NodeSet({NoValue}) /\ x.parent = 0 /\ x.fmt = "multiline"
  BY DEF Node, NodeSet, Formats, TableFormats
<1>2. nodes = <<x>>
  BY DEF TableInit, Root
<1> HIDE DEF x
<1>3. nodes \in Seq(NodeSet({NoValue})) /\ Len(nodes) = 1 /\ nodes[1] = x
  BY <1>1, <1>2
<1>4. NodesOf(nodes) = {1}
  BY <1>3 DEF NodesOf
<1>5. Sound(nodes)
  BY <1>1, <1>3, <1>4 DEF Sound, InTree, HasElements, NamesOnce
<1> QED BY <1>5 DEF TableInv, TableInit, Inserting, Kinds

(* Going on into table n with the keys that are left *)
LEMMA GoneDown ==
  ASSUME TableInv, Descending, Sound(nodes'), NEW n \in NodesOf(nodes'),
         nodes'[n].fmt \in TableFormats, GoDown(n)
  PROVE  TableInv'
<1>1. keys \in Seq(Key) /\ Len(keys) > 1 /\ keys # <<>>
  BY DEF TableInv, Inserting, Descending
<1>2. keys' \in Seq(Key) /\ keys' # <<>>
  <2>1. Tail(keys) \in Seq(Key) /\ Len(Tail(keys)) = Len(keys) - 1
    BY <1>1, HeadTailProperties
  <2>2. Len(keys) \in Nat
    BY <1>1
  <2>3. Len(Tail(keys)) # 0
    BY <1>1, <2>1, <2>2
  <2>4. Tail(keys) # <<>>
    BY <2>3, EmptySeq
  <2> QED BY <2>1, <2>4 DEF GoDown
<1> QED BY <1>2 DEF GoDown, TableInv, Inserting

LEMMA Finished ==
  ASSUME TableInv, Sound(nodes'), NEW outcome, Finish(outcome)
  PROVE  TableInv'
BY DEF TableInv, Inserting, Finish, Kinds

LEMMA HeadIsKey ==
  ASSUME TableInv, kind # "none"
  PROVE  /\ Head(keys) \in Key
         /\ current \in NodesOf(nodes)
         /\ nodes[current].fmt \in TableFormats
BY HeadTailProperties DEF TableInv, Inserting

LEMMA KeepsSame == ASSUME Sound(nodes) PROVE Keeps(nodes, nodes)
BY DomainOfNodes DEF Keeps

(* What Found and Elements stand for *)
LEMMA NothingFound ==
  ASSUME Sound(nodes), NEW n, NEW key, Found(n, key) = {}
  PROVE  \A m \in NodesOf(nodes) : ~(nodes[m].parent = n /\ nodes[m].key = key)
BY DomainOfNodes DEF Found

LEMMA StepMakeTable ==
  ASSUME TableInv, MakeTable PROVE TableInv' /\ Keeps(nodes, nodes')
<1>1. /\ kind # "none" /\ Sound(nodes)
      /\ Found(current, Head(keys)) = {}
      /\ nodes' = Append(nodes, Node(current, Head(keys), ImpliedFormat, NoValue))
      /\ GoDown(Len(nodes) + 1) /\ Descending
  BY DEF MakeTable, Descending, TableInv
<1>2. ImpliedFormat \in Formats \ {"array_of_tables"} /\ ImpliedFormat \in TableFormats
  BY DEF ImpliedFormat, Formats, TableFormats
<1>3. /\ Sound(nodes') /\ Keeps(nodes, nodes')
      /\ Len(nodes') = Len(nodes) + 1
      /\ nodes'[Len(nodes) + 1].fmt = ImpliedFormat
  BY <1>1, <1>2, HeadIsKey, NothingFound, AddedUnder
<1>4. Len(nodes) + 1 \in NodesOf(nodes')
  BY <1>1, <1>3, DomainOfNodes DEF NodesOf
<1> QED BY <1>1, <1>2, <1>3, <1>4, GoneDown

LEMMA StepEnterTable ==
  ASSUME TableInv, EnterTable PROVE TableInv' /\ Keeps(nodes, nodes')
<1>1. PICK n \in Found(current, Head(keys)) : MayEnter(n) /\ GoDown(n)
  BY DEF EnterTable
<1>2. Sound(nodes) /\ nodes' = nodes /\ Descending
  BY DEF EnterTable, TableInv
<1>3. n \in NodesOf(nodes) /\ nodes[n].fmt \in TableFormats
  BY <1>1, <1>2, DomainOfNodes DEF Found, MayEnter, IsTable
<1> QED BY <1>1, <1>2, <1>3, GoneDown, KeepsSame

LEMMA StepEnterLastTable ==
  ASSUME TableInv, EnterLastTable PROVE TableInv' /\ Keeps(nodes, nodes')
<1>1. PICK n \in Found(current, Head(keys)) :
        MayEnterLast(n) /\ GoDown(Latest(Elements(n)))
  BY DEF EnterLastTable
<1>2. Sound(nodes) /\ nodes' = nodes /\ Descending
  BY DEF EnterLastTable, TableInv
<1>3. n \in NodesOf(nodes) /\ nodes[n].fmt = "array_of_tables"
  BY <1>1, <1>2, DomainOfNodes DEF Found, MayEnterLast
<1>4. PICK m \in NodesOf(nodes) : LastOf(nodes, n, m)
  BY <1>2, <1>3 DEF Sound, HasElements
<1>5. m \in Elements(n) /\ \A k \in Elements(n) : k <= m
  BY <1>2, <1>4, DomainOfNodes DEF LastOf, Elements
<1>6. Latest(Elements(n)) \in Elements(n)
  BY <1>5 DEF Latest
<1> DEFINE last == Latest(Elements(n))
<1>7. last \in NodesOf(nodes) /\ nodes[last].parent = n
  BY <1>2, <1>6, DomainOfNodes DEF Elements
<1>8. last > 1
  BY <1>2, <1>3, <1>7 DEF Sound, InTree, NodesOf
<1>9. nodes[last].fmt \in TableFormats
  BY <1>2, <1>3, <1>7, <1>8 DEF Sound, HasElements, TableFormats
<1> QED BY <1>1, <1>2, <1>7, <1>9, GoneDown, KeepsSame

LEMMA StepInsertValue ==
  ASSUME TableInv, InsertValue PROVE TableInv' /\ Keeps(nodes, nodes')
<1>1. kind # "none" /\ Sound(nodes)
  BY DEF InsertValue, AtLastKey, TableInv
<1>2. CASE AddUnder("value", val) /\ Succeed(Len(nodes) + 1)
  <2>1. Sound(nodes') /\ Keeps(nodes, nodes')
    BY <1>1, <1>2, HeadIsKey, NothingFound, AddedUnder DEF AddUnder, Formats
  <2> QED BY <1>2, <2>1, Finished DEF Succeed
<1>3. CASE Refuse
  BY <1>1, <1>3, Finished, KeepsSame DEF Refuse
<1> QED BY <1>2, <1>3 DEF InsertValue

LEMMA StepInsertTable ==
  ASSUME TableInv, InsertTable PROVE TableInv' /\ Keeps(nodes, nodes')
<1>1. kind # "none" /\ Sound(nodes)
  BY DEF InsertTable, AtLastKey, TableInv, Kinds
<1>2. CASE AddUnder("multiline", NoValue) /\ Succeed(Len(nodes) + 1)
  <2>1. Sound(nodes') /\ Keeps(nodes, nodes')
    BY <1>1, <1>2, HeadIsKey, NothingFound, AddedUnder
       DEF AddUnder, Formats, TableFormats
  <2> QED BY <1>2, <2>1, Finished DEF Succeed
<1>3. ASSUME NEW n \in Found(current, Head(keys)), MayReopen(n),
             nodes' = [nodes EXCEPT ![n].fmt = "multiline"], Succeed(n)
      PROVE  TableInv' /\ Keeps(nodes, nodes')
  <2>1. n \in NodesOf(nodes) /\ nodes[n].fmt = "implicit"
    BY <1>1, <1>3, DomainOfNodes DEF Found, MayReopen
  <2>2. Sound(nodes') /\ Keeps(nodes, nodes')
    BY <1>1, <1>3, <2>1, Reopened
  <2> QED BY <1>3, <2>2, Finished DEF Succeed
<1>4. CASE Refuse
  BY <1>1, <1>4, Finished, KeepsSame DEF Refuse
<1> QED BY <1>2, <1>3, <1>4 DEF InsertTable

LEMMA StepInsertArrayTable ==
  ASSUME TableInv, InsertArrayTable PROVE TableInv' /\ Keeps(nodes, nodes')
<1>1. kind # "none" /\ Sound(nodes)
  BY DEF InsertArrayTable, AtLastKey, TableInv, Kinds
<1>2. CASE /\ Found(current, Head(keys)) = {}
           /\ nodes' =
                Append(Append(nodes,
                              Node(current, Head(keys), "array_of_tables", NoValue)),
                       Node(Len(nodes) + 1, Head(keys), "multiline", NoValue))
           /\ Succeed(Len(nodes) + 2)
  <2>1. Sound(nodes') /\ Keeps(nodes, nodes')
    BY <1>1, <1>2, HeadIsKey, NothingFound, AppendArray, AddedArray
  <2> QED BY <1>2, <2>1, Finished DEF Succeed
<1>3. ASSUME NEW n \in Found(current, Head(keys)), MayAppend(n),
             nodes' = Append(nodes, Node(n, Head(keys), "multiline", NoValue)),
             Succeed(Len(nodes) + 1)
      PROVE  TableInv' /\ Keeps(nodes, nodes')
  <2>1. n \in NodesOf(nodes) /\ nodes[n].fmt = "array_of_tables"
    BY <1>1, <1>3, DomainOfNodes DEF Found, MayAppend
  <2>2. Sound(nodes') /\ Keeps(nodes, nodes')
    BY <1>1, <1>3, <2>1, HeadIsKey, AddedElement
  <2> QED BY <1>3, <2>2, Finished DEF Succeed
<1>4. CASE Refuse
  BY <1>1, <1>4, Finished, KeepsSame DEF Refuse
<1> QED BY <1>2, <1>3, <1>4 DEF InsertArrayTable

LEMMA StepInv == TableInv /\ [TableNext]_tableVars => TableInv' /\ Keeps(nodes, nodes')
<1> SUFFICES ASSUME TableInv, [TableNext]_tableVars
             PROVE  TableInv' /\ Keeps(nodes, nodes')
  OBVIOUS
<1>1. CASE Begin
  <2>1. Sound(nodes) /\ nodes' = nodes
    BY <1>1 DEF Begin, TableInv
  <2>2. current' \in NodesOf(nodes) /\ nodes[current'].fmt \in TableFormats
    BY <1>1, <2>1, DomainOfNodes
       DEF Begin, Sound, InTree, NodesOf, TableFormats
  <2> QED BY <1>1, <2>1, <2>2, KeepsSame DEF Begin, TableInv, Inserting
<1>2. CASE MakeTable
  BY <1>2, StepMakeTable
<1>3. CASE EnterTable
  BY <1>3, StepEnterTable
<1>4. CASE EnterLastTable
  BY <1>4, StepEnterLastTable
<1>5. CASE RefuseToDescend
  BY <1>5, Finished, KeepsSame DEF RefuseToDescend, Refuse, TableInv
<1>6. CASE InsertValue
  BY <1>6, StepInsertValue
<1>7. CASE InsertTable
  BY <1>7, StepInsertTable
<1>8. CASE InsertArrayTable
  BY <1>8, StepInsertArrayTable
<1>9. CASE UNCHANGED tableVars
  BY <1>9, KeepsSame DEF tableVars, TableInv, Inserting
<1> QED BY <1>1, <1>2, <1>3, <1>4, <1>5, <1>6, <1>7, <1>8, <1>9
        DEF TableNext, insert_value

-----------------------------------------------------------------------------
(* What insert_value relies on when it goes down without looking back: the *)
(* nodes are a tree of tables, whatever is inserted in whichever order.    *)
THEOREM TableInvariant == TableSpec => []TableInv
<1>1. TableInit => TableInv
  BY InitInv
<1>2. TableInv /\ [TableNext]_tableVars => TableInv'
  BY StepInv
<1> QED BY <1>1, <1>2, PTL DEF TableSpec

(* A name has one value in its table, in any document. *)
THEOREM NamesHaveOneValue == TableSpec => []OneValuePerName
<1>1. TableInv => OneValuePerName
  BY DomainOfNodes DEF TableInv, Sound, NamesOnce, OneValuePerName
<1> QED BY <1>1, TableInvariant, PTL

(* Inline tables and arrays are as the document gave them, in any document. *)
THEOREM InlineIsImmutable == TableSpec => []ValuesHoldNothing
<1>1. TableInv => ValuesHoldNothing
  BY DomainOfNodes DEF TableInv, Sound, InTree, ValuesHoldNothing
<1> QED BY <1>1, TableInvariant, PTL

(* No line of a document changes what the lines before it have defined. *)
THEOREM DefinitionsStay == TableSpec => NothingRedefined
<1>1. TableInv /\ [TableNext]_tableVars => [KeepsNodes]_tableVars
  <2> SUFFICES ASSUME TableInv, [TableNext]_tableVars PROVE KeepsNodes
    OBVIOUS
  <2>1. Keeps(nodes, nodes') /\ DOMAIN nodes = NodesOf(nodes)
    BY StepInv, DomainOfNodes DEF TableInv
  <2> QED BY <2>1 DEF Keeps, KeepsNodes
<1> QED BY <1>1, TableInvariant, PTL DEF TableSpec, NothingRedefined

-----------------------------------------------------------------------------
(* Characters.  SMT alone: Zenon writes numbers out in unary. *)

(* The bytes of a number, by how many it takes *)
LEMMA OneByte ==
  ASSUME NEW c \in Nat, c < 128
  PROVE  parse_utf8_codepoint(c) = <<c>>
BY SMT DEF parse_utf8_codepoint

LEMMA TwoBytes ==
  ASSUME NEW c \in Nat, 128 <= c, c < 2048
  PROVE  parse_utf8_codepoint(c) = <<192 + c \div 64, 128 + (c % 64)>>
BY SMT DEF parse_utf8_codepoint, Low6

LEMMA ThreeBytes ==
  ASSUME NEW c \in Nat, 2048 <= c, c < 65536
  PROVE  parse_utf8_codepoint(c) =
           <<224 + c \div 4096, 128 + ((c \div 64) % 64), 128 + (c % 64)>>
BY SMT DEF parse_utf8_codepoint, Low6

LEMMA FourBytes ==
  ASSUME NEW c \in Nat, 65536 <= c
  PROVE  parse_utf8_codepoint(c) =
           <<240 + c \div 262144, 128 + ((c \div 4096) % 64),
             128 + ((c \div 64) % 64), 128 + (c % 64)>>
BY SMT DEF parse_utf8_codepoint, Low6

(* A number and its last six bits determine each other. *)
LEMMA SixBits ==
  ASSUME NEW c \in Nat
  PROVE  /\ c \div 64 \in Nat /\ c % 64 \in 0..63
         /\ c = 64 * (c \div 64) + (c % 64)
         /\ c \div 4096 = (c \div 64) \div 64
         /\ c \div 262144 = (c \div 4096) \div 64
BY SMT

(* What an escape of a string is replaced by is one UTF-8 character and    *)
(* stands for the number escaped, for every number that is accepted        *)
(* (toml11.h:13083-13129).                                                 *)
THEOREM EncodingIsUTF8 ==
  ASSUME NEW c \in Nat, Encodable(c)
  PROVE  /\ IsCharacter(parse_utf8_codepoint(c))
         /\ CodePoint(parse_utf8_codepoint(c)) = c
<1> SUFFICES ASSUME NEW t, t = parse_utf8_codepoint(c)
             PROVE  IsCharacter(t) /\ CodePoint(t) = c
  OBVIOUS
<1> USE DEF Carried, Continues, Leads, Encodable
<1>1. CASE c < 128 /\ t = <<c>>
  <2>1. Len(t) = 1 /\ t[1] = c
    BY SMT, <1>1
  <2> QED
    BY SMT, <2>1, <1>1 DEF IsCharacter, CodePoint
<1>2. CASE 128 <= c /\ c < 2048 /\ t = <<192 + c \div 64, 128 + (c % 64)>>
  <2>1. Len(t) = 2 /\ t[1] = 192 + c \div 64 /\ t[2] = 128 + (c % 64)
    BY SMT, <1>2
  <2>2. c \div 64 \in 2..31 /\ c % 64 \in 0..63
    BY SMT, <1>2
  <2>3. CodePoint(t) = c
    BY SMT, <2>1, <2>2, SixBits DEF CodePoint
  <2>4. \A k \in 2..Len(t) : Continues(t[k])
    BY SMT, <2>1, <2>2
  <2> QED
    BY SMT, <2>1, <2>2, <2>3, <2>4, <1>2 DEF IsCharacter
<1>3. CASE /\ 2048 <= c /\ c < 65536
           /\ t = <<224 + c \div 4096, 128 + ((c \div 64) % 64), 128 + (c % 64)>>
  <2>1. /\ Len(t) = 3 /\ t[1] = 224 + c \div 4096
        /\ t[2] = 128 + ((c \div 64) % 64) /\ t[3] = 128 + (c % 64)
    BY SMT, <1>3
  <2>2. c \div 4096 \in 0..15 /\ (c \div 64) % 64 \in 0..63 /\ c % 64 \in 0..63
    BY SMT, <1>3
  <2>3. CodePoint(t) = c
    BY SMT, <2>1, <2>2, SixBits DEF CodePoint
  <2>4. \A k \in 2..Len(t) : Continues(t[k])
    BY SMT, <2>1, <2>2
  <2> QED
    BY SMT, <2>1, <2>2, <2>3, <2>4, <1>3 DEF IsCharacter
<1>4. CASE /\ 65536 <= c /\ c < 1114112
           /\ t = <<240 + c \div 262144, 128 + ((c \div 4096) % 64),
                    128 + ((c \div 64) % 64), 128 + (c % 64)>>
  <2>1. /\ Len(t) = 4 /\ t[1] = 240 + c \div 262144
        /\ t[2] = 128 + ((c \div 4096) % 64)
        /\ t[3] = 128 + ((c \div 64) % 64) /\ t[4] = 128 + (c % 64)
    BY SMT, <1>4
  <2>2. /\ c \div 262144 \in 0..4 /\ (c \div 4096) % 64 \in 0..63
        /\ (c \div 64) % 64 \in 0..63 /\ c % 64 \in 0..63
    BY SMT, <1>4
  <2>3. CodePoint(t) = c
    BY SMT, <2>1, <2>2, SixBits DEF CodePoint
  <2>4. \A k \in 2..Len(t) : Continues(t[k])
    BY SMT, <2>1, <2>2
  <2> QED
    BY SMT, <2>1, <2>2, <2>3, <2>4, <1>4 DEF IsCharacter
<1> QED
  BY SMT, <1>1, <1>2, <1>3, <1>4, OneByte, TwoBytes, ThreeBytes, FourBytes

(* The number of a character of two, three and four bytes *)
LEMMA FromTwo ==
  ASSUME NEW p \in Nat, 192 <= p, p < 224, NEW q \in Nat, Continues(q),
         NEW c \in Int,
         c = 64 * (p - 192) + (q - 128), 128 <= c
  PROVE  parse_utf8_codepoint(c) = <<p, q>>
<1> USE DEF Continues
<1>1. c \in Nat /\ c < 2048 /\ c \div 64 = p - 192 /\ c % 64 = q - 128
  BY SMT
<1>2. parse_utf8_codepoint(c) = <<192 + c \div 64, 128 + (c % 64)>>
  BY SMT, <1>1, TwoBytes
<1> QED
  BY SMT, <1>1, <1>2

LEMMA FromThree ==
  ASSUME NEW p \in Nat, 224 <= p, p < 240, NEW q \in Nat, Continues(q),
         NEW r \in Nat, Continues(r), NEW c \in Int,
         c = 64 * (64 * (p - 224) + (q - 128)) + (r - 128), 2048 <= c
  PROVE  parse_utf8_codepoint(c) = <<p, q, r>>
<1> USE DEF Continues
<1>1. PICK d \in Nat : d = 64 * (p - 224) + (q - 128)
  BY SMT
<1>2. c \in Nat /\ c < 65536 /\ c \div 64 = d /\ c % 64 = r - 128
  BY SMT, <1>1
<1>3. d \div 64 = p - 224 /\ d % 64 = q - 128
  BY SMT, <1>1
<1>4. c \div 4096 = p - 224
  BY SMT, <1>2, <1>3, SixBits
<1>5. parse_utf8_codepoint(c) =
        <<224 + c \div 4096, 128 + ((c \div 64) % 64), 128 + (c % 64)>>
  BY SMT, <1>2, ThreeBytes
<1> QED
  BY SMT, <1>2, <1>3, <1>4, <1>5

LEMMA FromFour ==
  ASSUME NEW p \in Nat, 240 <= p, p < 248, NEW q \in Nat, Continues(q),
         NEW r \in Nat, Continues(r), NEW s \in Nat, Continues(s), NEW c \in Int,
         c = 64 * (64 * (64 * (p - 240) + (q - 128)) + (r - 128)) + (s - 128),
         65536 <= c
  PROVE  parse_utf8_codepoint(c) = <<p, q, r, s>>
<1> USE DEF Continues
<1>1. PICK d \in Nat : d = 64 * (p - 240) + (q - 128)
  BY SMT
<1>2. PICK e \in Nat : e = 64 * d + (r - 128)
  BY SMT, <1>1
<1>3. c \in Nat /\ c = 64 * e + (s - 128)
  BY SMT, <1>1, <1>2
<1>4. c \div 64 = e /\ c % 64 = s - 128
  BY SMT, <1>2, <1>3
<1>5. e \div 64 = d /\ e % 64 = r - 128
  BY SMT, <1>1, <1>2
<1>6. d \div 64 = p - 240 /\ d % 64 = q - 128
  BY SMT, <1>1
<1>7. c \div 4096 = d /\ c \div 262144 = p - 240
  BY SMT, <1>3, <1>4, <1>5, <1>6, SixBits
<1>8. parse_utf8_codepoint(c) =
        <<240 + c \div 262144, 128 + ((c \div 4096) % 64),
          128 + ((c \div 64) % 64), 128 + (c % 64)>>
  BY SMT, <1>3, FourBytes
<1> QED
  BY SMT, <1>4, <1>5, <1>6, <1>7, <1>8

(* A text of so many characters is made of them. *)
LEMMA TextOfOne ==
  ASSUME NEW t \in Seq(Nat), Len(t) = 1
  PROVE  \E p \in Nat : t = <<p>>
<1>0. \A i \in 1..Len(t) : t[i] \in Nat
  BY ElementOfSeq
<1>1. t[1] \in Nat
  BY SMT, <1>0
<1> DEFINE u == <<t[1]>>
<1>2. u \in Seq(Nat) /\ Len(u) = 1 /\ u[1] = t[1]
  BY <1>1
<1> HIDE DEF u
<1>3. \A i \in 1..Len(t) : t[i] = u[i]
  BY SMT, <1>2
<1>4. t = u
  BY <1>2, <1>3, SeqEqual, Zenon
<1> QED
  BY <1>1, <1>4 DEF u

LEMMA TextOfTwo ==
  ASSUME NEW t \in Seq(Nat), Len(t) = 2
  PROVE  \E p, q \in Nat : t = <<p, q>>
<1>0. \A i \in 1..Len(t) : t[i] \in Nat
  BY ElementOfSeq
<1>1. t[1] \in Nat /\ t[2] \in Nat
  BY SMT, <1>0
<1> DEFINE u == <<t[1], t[2]>>
<1>2. /\ u \in Seq(Nat) /\ Len(u) = 2
      /\ u[1] = t[1] /\ u[2] = t[2]
  BY <1>1
<1> HIDE DEF u
<1>3. \A i \in 1..Len(t) : t[i] = u[i]
  BY SMT, <1>2
<1>4. t = u
  BY <1>2, <1>3, SeqEqual, Zenon
<1> QED
  BY <1>1, <1>4 DEF u

LEMMA TextOfThree ==
  ASSUME NEW t \in Seq(Nat), Len(t) = 3
  PROVE  \E p, q, r \in Nat : t = <<p, q, r>>
<1>0. \A i \in 1..Len(t) : t[i] \in Nat
  BY ElementOfSeq
<1>1. t[1] \in Nat /\ t[2] \in Nat /\ t[3] \in Nat
  BY SMT, <1>0
<1> DEFINE u == <<t[1], t[2], t[3]>>
<1>2. /\ u \in Seq(Nat) /\ Len(u) = 3
      /\ u[1] = t[1] /\ u[2] = t[2] /\ u[3] = t[3]
  BY <1>1
<1> HIDE DEF u
<1>3. \A i \in 1..Len(t) : t[i] = u[i]
  BY SMT, <1>2
<1>4. t = u
  BY <1>2, <1>3, SeqEqual, Zenon
<1> QED
  BY <1>1, <1>4 DEF u

LEMMA TextOfFour ==
  ASSUME NEW t \in Seq(Nat), Len(t) = 4
  PROVE  \E p, q, r, s \in Nat : t = <<p, q, r, s>>
<1>0. \A i \in 1..Len(t) : t[i] \in Nat
  BY ElementOfSeq
<1>1. t[1] \in Nat /\ t[2] \in Nat /\ t[3] \in Nat /\ t[4] \in Nat
  BY SMT, <1>0
<1> DEFINE u == <<t[1], t[2], t[3], t[4]>>
<1>2. /\ u \in Seq(Nat) /\ Len(u) = 4
      /\ u[1] = t[1] /\ u[2] = t[2] /\ u[3] = t[3] /\ u[4] = t[4]
  BY <1>1
<1> HIDE DEF u
<1>3. \A i \in 1..Len(t) : t[i] = u[i]
  BY SMT, <1>2
<1>4. t = u
  BY <1>2, <1>3, SeqEqual, Zenon
<1> QED
  BY <1>1, <1>4 DEF u

LEMMA LeadingBytes ==
  /\ Leads[1].from = 0 /\ Leads[1].to = 127 /\ Leads[1].least = 0
  /\ Leads[2].from = 192 /\ Leads[2].to = 223 /\ Leads[2].least = 128
  /\ Leads[3].from = 224 /\ Leads[3].to = 239 /\ Leads[3].least = 2048
  /\ Leads[4].from = 240 /\ Leads[4].to = 247 /\ Leads[4].least = 65536
BY SMT DEF Leads

(* The bytes of a character and the number they carry, by how many there are *)
LEMMA CharacterOfOne ==
  ASSUME NEW p \in Nat, IsCharacter(<<p>>)
  PROVE  p < 128 /\ CodePoint(<<p>>) = p
<1>1. Len(<<p>>) = 1 /\ <<p>>[1] = p
  OBVIOUS
<1>2. CodePoint(<<p>>) = p
  BY SMT, <1>1, LeadingBytes DEF CodePoint
<1> QED
  BY SMT, <1>1, <1>2, LeadingBytes DEF IsCharacter

LEMMA CharacterOfTwo ==
  ASSUME NEW p \in Nat, NEW q \in Nat, IsCharacter(<<p, q>>)
  PROVE  /\ 192 <= p /\ p < 224 /\ Continues(q)
         /\ CodePoint(<<p, q>>) = 64 * (p - 192) + (q - 128)
         /\ 128 <= CodePoint(<<p, q>>)
<1> DEFINE t == <<p, q>>
<1>1. Len(t) = 2 /\ t[1] = p /\ t[2] = q
  OBVIOUS
<1> HIDE DEF t
<1>2. CodePoint(t) = 64 * (p - 192) + (q - 128)
  BY SMT, <1>1, LeadingBytes DEF CodePoint, Carried
<1>3. IsCharacter(t)
  BY DEF t
<1>4. Continues(q)
  BY SMT, <1>1, <1>3 DEF IsCharacter
<1>5. 192 <= p /\ p < 224 /\ 128 <= CodePoint(t)
  BY SMT, <1>1, <1>2, <1>3, LeadingBytes DEF IsCharacter
<1> QED
  BY <1>2, <1>4, <1>5 DEF t

LEMMA CharacterOfThree ==
  ASSUME NEW p \in Nat, NEW q \in Nat, NEW r \in Nat, IsCharacter(<<p, q, r>>)
  PROVE  /\ 224 <= p /\ p < 240 /\ Continues(q) /\ Continues(r)
         /\ CodePoint(<<p, q, r>>) =
              64 * (64 * (p - 224) + (q - 128)) + (r - 128)
         /\ 2048 <= CodePoint(<<p, q, r>>)
<1> DEFINE t == <<p, q, r>>
<1>1. Len(t) = 3 /\ t[1] = p /\ t[2] = q /\ t[3] = r
  OBVIOUS
<1> HIDE DEF t
<1>2. CodePoint(t) = 64 * (64 * (p - 224) + (q - 128)) + (r - 128)
  BY SMT, <1>1, LeadingBytes DEF CodePoint, Carried
<1>3. IsCharacter(t)
  BY DEF t
<1>4. Continues(q) /\ Continues(r)
  BY SMT, <1>1, <1>3 DEF IsCharacter
<1>5. 224 <= p /\ p < 240 /\ 2048 <= CodePoint(t)
  BY SMT, <1>1, <1>2, <1>3, LeadingBytes DEF IsCharacter
<1> QED
  BY <1>2, <1>4, <1>5 DEF t

LEMMA CharacterOfFour ==
  ASSUME NEW p \in Nat, NEW q \in Nat, NEW r \in Nat, NEW s \in Nat,
         IsCharacter(<<p, q, r, s>>)
  PROVE  /\ 240 <= p /\ p < 248
         /\ Continues(q) /\ Continues(r) /\ Continues(s)
         /\ CodePoint(<<p, q, r, s>>) =
              64 * (64 * (64 * (p - 240) + (q - 128)) + (r - 128)) + (s - 128)
         /\ 65536 <= CodePoint(<<p, q, r, s>>)
<1> DEFINE t == <<p, q, r, s>>
<1>1. Len(t) = 4 /\ t[1] = p /\ t[2] = q /\ t[3] = r /\ t[4] = s
  OBVIOUS
<1> HIDE DEF t
<1>2. CodePoint(t) =
        64 * (64 * (64 * (p - 240) + (q - 128)) + (r - 128)) + (s - 128)
  BY SMT, <1>1, LeadingBytes DEF CodePoint, Carried
<1>3. IsCharacter(t)
  BY DEF t
<1>4. Continues(q) /\ Continues(r) /\ Continues(s)
  BY SMT, <1>1, <1>3 DEF IsCharacter
<1>5. 240 <= p /\ p < 248 /\ 65536 <= CodePoint(t)
  BY SMT, <1>1, <1>2, <1>3, LeadingBytes DEF IsCharacter
<1> QED
  BY <1>2, <1>4, <1>5 DEF t

(* No number that UTF-8 can express is refused, and each has one form: any *)
(* character, written as an escape, gives its own bytes                    *)
(* (toml11.h:13083-13129).                                                 *)
THEOREM UTF8IsEncoding ==
  ASSUME NEW t \in Seq(Nat), IsCharacter(t)
  PROVE  /\ Encodable(CodePoint(t))
         /\ parse_utf8_codepoint(CodePoint(t)) = t
<1>1. Encodable(CodePoint(t))
  BY SMT DEF IsCharacter, Encodable
<1>2. CASE Len(t) = 1
  <2>1. PICK p \in Nat : t = <<p>>
    BY <1>2, TextOfOne
  <2>2. p < 128 /\ CodePoint(t) = p
    BY <2>1, CharacterOfOne
  <2> QED
    BY SMT, <1>1, <2>1, <2>2, OneByte
<1>3. CASE Len(t) = 2
  <2>1. PICK p, q \in Nat : t = <<p, q>>
    BY <1>3, TextOfTwo
  <2>2. /\ 192 <= p /\ p < 224 /\ Continues(q)
        /\ CodePoint(t) = 64 * (p - 192) + (q - 128) /\ 128 <= CodePoint(t)
    BY SMT, <2>1, CharacterOfTwo
  <2> QED
    BY SMT, <1>1, <2>1, <2>2, FromTwo
<1>4. CASE Len(t) = 3
  <2>1. PICK p, q, r \in Nat : t = <<p, q, r>>
    BY <1>4, TextOfThree
  <2>2. /\ 224 <= p /\ p < 240 /\ Continues(q) /\ Continues(r)
        /\ CodePoint(t) = 64 * (64 * (p - 224) + (q - 128)) + (r - 128)
        /\ 2048 <= CodePoint(t)
    BY SMT, <2>1, CharacterOfThree
  <2> QED
    BY SMT, <1>1, <2>1, <2>2, FromThree
<1>5. CASE Len(t) = 4
  <2>1. PICK p, q, r, s \in Nat : t = <<p, q, r, s>>
    BY <1>5, TextOfFour
  <2>2. /\ 240 <= p /\ p < 248
        /\ Continues(q) /\ Continues(r) /\ Continues(s)
        /\ CodePoint(t) =
             64 * (64 * (64 * (p - 240) + (q - 128)) + (r - 128)) + (s - 128)
        /\ 65536 <= CodePoint(t)
    BY SMT, <2>1, CharacterOfFour
  <2> QED
    BY SMT, <1>1, <2>1, <2>2, FromFour
<1> QED
  BY SMT, <1>2, <1>3, <1>4, <1>5 DEF IsCharacter


-----------------------------------------------------------------------------
(* The calendar *)

(* Days that leap years have added up to a year, and all days from the     *)
(* first of March of the year 0 to the first of a month                    *)
Leaps(a) == a \div 4 - a \div 100 + a \div 400

DaysTo(year, month) ==
  LET a == IF month <= 2 THEN year - 1 ELSE year
      n == IF month <= 2 THEN month + 9 ELSE month - 3
  IN  365 * a + Leaps(a) + (153 * n + 2) \div 5

DaysToNext(year, month) ==
  IF month = 12 THEN DaysTo(year + 1, 1) ELSE DaysTo(year, month + 1)

LEMMA Multiples ==
  ASSUME NEW a \in Int, NEW k \in {4, 100, 400}
  PROVE  /\ a % k = 0 => a \div k = (a - 1) \div k + 1
         /\ a % k # 0 => a \div k = (a - 1) \div k
         /\ a \div k \in Int
<1>1. CASE k = 4
  BY <1>1 
<1>2. CASE k = 100
  BY <1>2
<1>3. CASE k = 400
  BY <1>3
<1> QED BY <1>1, <1>2, <1>3

LEMMA LeapDay ==
  ASSUME NEW a \in Int
  PROVE  Leaps(a) = Leaps(a - 1) + (IF IsLeap(a) THEN 1 ELSE 0) /\ Leaps(a) \in Int
<1>1. /\ a % 100 = 0 => a % 4 = 0
      /\ a % 400 = 0 => a % 100 = 0
  OBVIOUS
<1>2. a - 1 \in Int
  OBVIOUS
<1> QED BY <1>1, <1>2, Multiples DEF Leaps, IsLeap

(* A month has the days that lie between its first and the first of the   *)
(* next month when the days of the Gregorian calendar are counted, for     *)
(* every year (toml11.h:12656-12669): 365 a year, one more every 4 years,  *)
(* one less every 100, one more every 400, and 153 in five months from     *)
(* March on.                                                               *)
THEOREM MonthsAreGregorian ==
  ASSUME NEW year \in Nat, NEW month \in 1..12
  PROVE  MaxDay(month, year) = DaysToNext(year, month) - DaysTo(year, month)
<1>1. Leaps(year) \in Int /\ Leaps(year - 1) \in Int
      /\ Leaps(year) = Leaps(year - 1) + (IF IsLeap(year) THEN 1 ELSE 0)
  BY LeapDay
<1>2. month \in {1,2,3,4,5,6,7,8,9,10,11,12}
  OBVIOUS
<1>3. CASE month = 2
  BY <1>1, <1>3 DEF MaxDay, DaysToNext, DaysTo
<1>4. CASE month = 12
  BY <1>1, <1>4 DEF MaxDay, DaysToNext, DaysTo
<1>5. CASE month \in {1, 3, 4, 5, 6}
  BY <1>1, <1>5 DEF MaxDay, DaysToNext, DaysTo
<1>6. CASE month \in {7,8,9,10,11}
  BY <1>1, <1>6 DEF MaxDay, DaysToNext, DaysTo
<1> QED BY <1>2, <1>3, <1>4, <1>5, <1>6

-----------------------------------------------------------------------------
(* Binary integers *)

(* Induction, for a set of natural numbers *)
LEMMA Induction ==
  ASSUME NEW T, 0 \in T, \A k \in Nat : k \in T => k + 1 \in T
  PROVE  Nat \subseteq T
<1> SUFFICES ASSUME Nat \ T # {}
             PROVE  FALSE
  OBVIOUS
<1>1. PICK x \in Nat \ T : \A y \in Nat \ T : ~ (<<y, x>> \in OpToRel(<, Nat))
  BY Zenon, NatLessThanWellFounded, WFMin
<1>2. \A y \in Nat \ T : ~ (y < x)
  BY Zenon, <1>1 DEF OpToRel
<1>3. x - 1 \in Nat /\ x - 1 < x
  OBVIOUS
<1>4. x - 1 \in T
  BY <1>2, <1>3
<1> QED
  BY <1>3, <1>4

(* What fits is kept, and one more is the least number. *)
LEMMA Wraps ==
  ASSUME NEW max \in Nat
  PROVE  /\ \A n \in 0..max : Wrapped(n, max) = n
         /\ Wrapped(max + 1, max) = -(max + 1)
<1>1. \A a, b \in Nat : a < b => a % b = a
  OBVIOUS
<1>2. \A b \in Nat : b > 0 => b % b = 0
  OBVIOUS
<1>3. ASSUME NEW n \in 0..max
      PROVE  Wrapped(n, max) = n
  <2>1. n + max + 1 \in Nat /\ 2 * max + 2 \in Nat /\ n + max + 1 < 2 * max + 2
    OBVIOUS
  <2>2. (n + max + 1) % (2 * max + 2) = n + max + 1
    BY <1>1, <2>1
  <2> QED
    BY <2>2 DEF Wrapped
<1>4. Wrapped(max + 1, max) = -(max + 1)
  <2>1. max + 1 + max + 1 = 2 * max + 2 /\ 2 * max + 2 \in Nat /\ 2 * max + 2 > 0
    OBVIOUS
  <2>2. (max + 1 + max + 1) % (2 * max + 2) = 0
    BY <1>2, <2>1
  <2> QED
    BY <2>2 DEF Wrapped
<1> QED
  BY <1>3, <1>4

(* The powers of 2 *)
Powers(p) ==
  /\ p \in [Nat -> Nat]
  /\ p[0] = 1
  /\ \A k \in Nat : p[k + 1] = 2 * p[k]

LEMMA PowersGrow ==
  ASSUME NEW p, Powers(p), NEW j \in Nat, NEW k \in Nat, j <= k
  PROVE  p[j] <= p[k] /\ 0 < p[j]
<1> DEFINE T == {m \in Nat : 0 < p[m] /\ p[j] <= p[j + m]}
<1>1. 0 \in T
  BY DEF Powers
<1>2. ASSUME NEW m \in Nat, m \in T
      PROVE  m + 1 \in T
  <2>1. j + m \in Nat /\ j + (m + 1) = (j + m) + 1
    OBVIOUS
  <2>2. p[m + 1] = 2 * p[m] /\ p[j + (m + 1)] = 2 * p[j + m]
    BY <2>1 DEF Powers
  <2>3. p[m] \in Nat /\ p[j + m] \in Nat /\ p[j] \in Nat
    BY <2>1 DEF Powers
  <2> QED
    BY <1>2, <2>2, <2>3
<1>3. Nat \subseteq T
  <2> HIDE DEF T
  <2> QED BY <1>1, <1>2, Induction
<1>4. k - j \in Nat /\ j + (k - j) = k
  OBVIOUS
<1>5. k - j \in T /\ j \in T
  BY <1>3, <1>4
<1> QED
  BY <1>4, <1>5

(* The digits of a number, the last written first, and what they stand for *)
Counts(n, digit, p, v) ==
  /\ digit \in [1..n -> BOOLEAN]
  /\ v \in [0..n -> Nat]
  /\ v[0] = 0
  /\ \A k \in 0..(n - 1) :
       v[k + 1] = v[k] + (IF digit[k + 1] THEN p[k] ELSE 0)

(* What read_bin_int has after each digit *)
Reads(n, digit, max, r) ==
  /\ r[0] = BinaryStart
  /\ \A k \in 0..(n - 1) :
       r[k + 1] = BinaryDigit(r[k], digit[k + 1], k + 1 = n, max)

(* After k digits: exact while there is room, and no base beyond it *)
SoFar(k, bits, p, v, r) ==
  /\ v[k] \in Nat /\ v[k] < p[k]
  /\ IF k < bits THEN r = [val |-> v[k], base |-> p[k]]
     ELSE \E kept \in 0..(p[bits] - 1) : r = [val |-> kept, base |-> 0]

LEMMA Power ==
  ASSUME NEW p, Powers(p), NEW k \in Nat
  PROVE  p[k] \in Nat /\ 0 < p[k] /\ p[k + 1] = 2 * p[k]
<1>1. 0 < p[k]
  BY PowersGrow
<1> QED
  BY <1>1 DEF Powers

LEMMA DigitTaken ==
  ASSUME NEW n \in Nat, NEW p, NEW max, NEW digit, NEW v, NEW r,
         Counts(n, digit, p, v), Reads(n, digit, max, r),
         NEW k \in Nat, k < n
  PROVE  /\ digit[k + 1] \in BOOLEAN
         /\ v[k] \in Nat
         /\ v[k + 1] = v[k] + (IF digit[k + 1] THEN p[k] ELSE 0)
         /\ r[k + 1] =
              [val  |-> IF digit[k + 1] THEN r[k].val + r[k].base ELSE r[k].val,
               base |-> IF max \div 2 < r[k].base /\ k + 1 # n THEN 0
                        ELSE Wrapped(2 * r[k].base, max)]
<1>1. k \in 0..(n - 1) /\ k \in 0..n /\ k + 1 \in 1..n
  OBVIOUS
<1>2. digit[k + 1] \in BOOLEAN
  BY <1>1 DEF Counts
<1>3. v[k] \in Nat /\ v[k + 1] = v[k] + (IF digit[k + 1] THEN p[k] ELSE 0)
  BY <1>1 DEF Counts
<1>4. r[k + 1] = BinaryDigit(r[k], digit[k + 1], k + 1 = n, max)
  BY <1>1 DEF Reads
<1>5. r[k + 1] =
        [val  |-> IF digit[k + 1] THEN r[k].val + r[k].base ELSE r[k].val,
         base |-> IF max \div 2 < r[k].base /\ k + 1 # n THEN 0
                  ELSE Wrapped(2 * r[k].base, max)]
  BY <1>4 DEF BinaryDigit, NextBase
<1> QED
  BY <1>2, <1>3, <1>5

LEMMA DigitRead ==
  ASSUME NEW bits \in Nat \ {0}, NEW n \in Nat, NEW p, Powers(p),
         NEW max, max = p[bits] - 1,
         NEW digit, NEW v, Counts(n, digit, p, v),
         NEW r, Reads(n, digit, max, r),
         NEW k \in Nat, k + 1 < n, SoFar(k, bits, p, v, r[k])
  PROVE  SoFar(k + 1, bits, p, v, r[k + 1])
<1>1. /\ p[k] \in Nat /\ 0 < p[k] /\ p[k + 1] = 2 * p[k]
      /\ p[bits] \in Nat /\ 0 < p[bits]
  BY Power
<1>2. max \in Nat
  BY <1>1
<1>3. /\ digit[k + 1] \in BOOLEAN
      /\ v[k] \in Nat
      /\ v[k + 1] = v[k] + (IF digit[k + 1] THEN p[k] ELSE 0)
      /\ r[k + 1] =
           [val  |-> IF digit[k + 1] THEN r[k].val + r[k].base ELSE r[k].val,
            base |-> IF max \div 2 < r[k].base /\ k + 1 # n THEN 0
                     ELSE Wrapped(2 * r[k].base, max)]
  BY DigitTaken
<1>4. v[k + 1] \in Nat /\ v[k + 1] < p[k + 1]
  <2>1. v[k] < p[k]
    BY DEF SoFar
  <2> QED
    BY <1>1, <1>3, <2>1
<1>5. CASE k + 1 < bits
  <2>1. r[k].val = v[k] /\ r[k].base = p[k]
    BY <1>5 DEF SoFar
  <2>2. /\ p[k + 1] <= p[bits - 1]
        /\ p[bits] = 2 * p[bits - 1] /\ p[bits - 1] \in Nat /\ 0 < p[bits - 1]
    <3>1. bits - 1 \in Nat /\ (bits - 1) + 1 = bits /\ k + 1 <= bits - 1
      BY <1>5
    <3>2. p[k + 1] <= p[bits - 1]
      BY <3>1, PowersGrow
    <3> QED
      BY <3>1, <3>2, Power
  <2>3. ~ (max \div 2 < p[k]) /\ 2 * p[k] \in 0..max
    BY <1>1, <2>2
  <2>4. Wrapped(2 * p[k], max) = p[k + 1]
    BY <1>1, <1>2, <2>3, Wraps
  <2>5. r[k + 1] = [val |-> v[k + 1], base |-> p[k + 1]]
    BY <1>1, <1>3, <2>1, <2>3, <2>4
  <2> QED
    BY <1>4, <1>5, <2>5 DEF SoFar
<1>6. CASE k + 1 = bits
  <2>1. r[k].val = v[k] /\ r[k].base = p[k]
    BY <1>6 DEF SoFar
  <2>2. max \div 2 < p[k]
    BY <1>1, <1>6
  <2>3. r[k + 1] = [val |-> v[k + 1], base |-> 0]
    BY <1>1, <1>3, <2>1, <2>2
  <2>4. v[k + 1] \in 0..(p[bits] - 1)
    BY <1>1, <1>4, <1>6
  <2> QED
    BY <1>4, <1>6, <2>3, <2>4 DEF SoFar
<1>7. CASE bits < k + 1
  <2>1. PICK kept \in 0..(p[bits] - 1) : r[k] = [val |-> kept, base |-> 0]
    BY <1>7 DEF SoFar
  <2>2. Wrapped(0, max) = 0 /\ 2 * 0 = 0 /\ ~ (max \div 2 < 0)
    BY <1>2, Wraps
  <2>3. kept + 0 = kept
    BY <1>1
  <2>4. r[k + 1] = [val |-> kept, base |-> 0]
    BY <1>3, <2>1, <2>2, <2>3
  <2> QED
    BY <1>4, <1>7, <2>4 DEF SoFar
<1> QED
  BY <1>5, <1>6, <1>7

LEMMA AllButOneRead ==
  ASSUME NEW bits \in Nat \ {0}, NEW n \in Nat, NEW p, Powers(p),
         NEW max, max = p[bits] - 1,
         NEW digit, NEW v, Counts(n, digit, p, v),
         NEW r, Reads(n, digit, max, r),
         NEW k \in Nat, k < n
  PROVE  SoFar(k, bits, p, v, r[k])
<1> DEFINE T == {m \in Nat : m < n => SoFar(m, bits, p, v, r[m])}
<1>1. 0 \in T
  <2>1. v[0] = 0 /\ p[0] = 1 /\ r[0] = [val |-> 0, base |-> 1]
    BY DEF Powers, Counts, Reads, BinaryStart
  <2>2. SoFar(0, bits, p, v, r[0])
    BY <2>1 DEF SoFar
  <2> QED
    BY <2>2
<1>2. \A m \in Nat : m \in T => m + 1 \in T
  BY DigitRead
<1>3. Nat \subseteq T
  <2> HIDE DEF T
  <2> QED BY <1>1, <1>2, Induction
<1> QED
  BY <1>3

(* A binary integer of any length is read as what it is worth, and refused *)
(* when and only when it exceeds the greatest value, whatever the width    *)
(* of the integer type (toml11.h:8000-8045).  A number of several digits   *)
(* begins with a one: parse_bin_integer drops the leading zeros first      *)
(* (toml11.h:12124-12131).                                                 *)
THEOREM BinaryIsExact ==
  ASSUME NEW bits \in Nat \ {0}, NEW n \in Nat \ {0}, NEW p, Powers(p),
         NEW max, max = p[bits] - 1,
         NEW digit, NEW v, Counts(n, digit, p, v), n = 1 \/ digit[n],
         NEW r, Reads(n, digit, max, r)
  PROVE  /\ r[n].base # 0 <=> v[n] <= max
         /\ r[n].base # 0 => r[n].val = v[n]
<1>1. PICK k \in Nat : k + 1 = n
  <2>1. n - 1 \in Nat /\ (n - 1) + 1 = n
    OBVIOUS
  <2> QED
    BY <2>1
<1>2. k < n
  BY <1>1
<1>3. SoFar(k, bits, p, v, r[k])
  BY <1>2, AllButOneRead
<1>4. /\ p[k] \in Nat /\ 0 < p[k] /\ p[n] = 2 * p[k]
      /\ p[bits] \in Nat /\ 0 < p[bits]
  BY <1>1, Power
<1>5. max \in Nat
  BY <1>4
<1>6. /\ digit[n] \in BOOLEAN
      /\ v[k] \in Nat
      /\ v[n] = v[k] + (IF digit[n] THEN p[k] ELSE 0)
      /\ r[n].val = (IF digit[n] THEN r[k].val + r[k].base ELSE r[k].val)
      /\ r[n].base = Wrapped(2 * r[k].base, max)
  <2>1. /\ digit[k + 1] \in BOOLEAN
        /\ v[k] \in Nat
        /\ v[k + 1] = v[k] + (IF digit[k + 1] THEN p[k] ELSE 0)
        /\ r[k + 1] =
             [val  |-> IF digit[k + 1] THEN r[k].val + r[k].base ELSE r[k].val,
              base |-> IF max \div 2 < r[k].base /\ k + 1 # n THEN 0
                       ELSE Wrapped(2 * r[k].base, max)]
    BY <1>2, DigitTaken
  <2> QED
    BY <1>1, <2>1
<1>7. CASE k < bits
  <2>1. r[k].val = v[k] /\ r[k].base = p[k] /\ v[k] < p[k]
    BY <1>3, <1>7 DEF SoFar
  <2>2. p[n] <= p[bits]
    <3>1. n <= bits
      BY <1>1, <1>7
    <3> QED
      BY <3>1, PowersGrow
  <2>3. 2 * p[k] \in 0..max \/ 2 * p[k] = max + 1
    BY <1>4, <2>2
  <2>4. Wrapped(2 * p[k], max) # 0
    <3>1. CASE 2 * p[k] \in 0..max
      BY <1>4, <1>5, <3>1, Wraps
    <3>2. CASE 2 * p[k] = max + 1
      BY <1>5, <3>2, Wraps
    <3> QED
      BY <2>3, <3>1, <3>2
  <2>5. r[n].base # 0 /\ r[n].val = v[n]
    BY <1>4, <1>6, <2>1, <2>4
  <2>6. v[n] <= max
    BY <1>4, <1>6, <2>1, <2>2
  <2> QED
    BY <2>5, <2>6
<1>8. CASE bits <= k
  <2>1. r[k].base = 0
    <3>1. PICK kept \in 0..(p[bits] - 1) : r[k] = [val |-> kept, base |-> 0]
      BY <1>3, <1>8 DEF SoFar
    <3> QED
      BY <3>1
  <2>2. Wrapped(0, max) = 0 /\ 2 * 0 = 0
    BY <1>5, Wraps
  <2>3. r[n].base = 0
    BY <1>6, <2>1, <2>2
  <2>4. p[bits] <= p[k]
    BY <1>8, PowersGrow
  <2>5. digit[n]
    BY <1>1, <1>8
  <2>6. ~ (v[n] <= max)
    BY <1>4, <1>6, <2>4, <2>5
  <2> QED
    BY <2>3, <2>6
<1> QED
  BY <1>7, <1>8

=============================================================================
