----------------------------- MODULE TomlTable -----------------------------
(***************************************************************************)
(* insert_value of src/include/obsc/toml11.h: how a [table], an [[array of *)
(* tables]] or a dotted key finds its place among what the document has    *)
(* defined so far, one key at a time.                                      *)
(*                                                                         *)
(* A node stands for a value in a table.  Nodes are only ever added, and   *)
(* one names the table that holds it by its number, as the code keeps      *)
(* pointers into the tables; the elements of an array of tables are held   *)
(* by the node of the array.  Node 1 is the root table.                    *)
(***************************************************************************)
EXTENDS Naturals, Sequences

CONSTANT Key      \* keys

VARIABLES
  nodes,      \* the values defined so far
  kind,       \* what is inserted, "none" between two insertions
  keys,       \* the keys still to go, the last one being the new value's
  current,    \* current_table_ptr
  val,        \* the value read last, which a dotted key inserts
  inserted    \* outcome of the last insertion: "ok" or "err"

(* val is the reader's. *)
tableVars == <<nodes, kind, keys, current, inserted>>

(* table_format and array_format: an inline table or array is a "value",   *)
(* as nothing can be added to either.                                      *)
TableFormats == {"multiline", "implicit", "dotted"}
Formats == TableFormats \cup {"array_of_tables", "value"}
Kinds == {"std_table", "array_table", "dotted_keys"}

IsTable(n) == nodes[n].fmt \in TableFormats

(* current_table.find(key) *)
Found(n, key) == {m \in DOMAIN nodes : nodes[m].parent = n /\ nodes[m].key = key}

Latest(S) == CHOOSE m \in S : \A n \in S : n <= m

(* as_array().back() *)
Elements(n) == {m \in DOMAIN nodes : nodes[m].parent = n}

Node(parent, key, fmt, is) == [parent |-> parent, key |-> key, fmt |-> fmt, is |-> is]

(* What a table is, is in the nodes under it. *)
NoValue == <<>>

Root == <<Node(0, <<>>, "multiline", NoValue)>>

-----------------------------------------------------------------------------
Insert(k, table, path, value) ==
  /\ kind = "none"
  /\ kind' = k
  /\ keys' = path
  /\ current' = table
  /\ val' = value
  /\ UNCHANGED <<nodes, inserted>>

Finish(outcome) ==
  /\ kind' = "none"
  /\ inserted' = outcome
  /\ UNCHANGED <<keys, val>>

Refuse == Finish("err") /\ UNCHANGED <<nodes, current>>

(* The table that was inserted, or opened again, is the current one now. *)
Succeed(table) == Finish("ok") /\ current' = table

GoDown(table) ==
  /\ current' = table
  /\ keys' = Tail(keys)
  /\ UNCHANGED <<kind, val, inserted>>

Descending == kind # "none" /\ Len(keys) > 1
AtLastKey(k) == kind = k /\ Len(keys) = 1

ImpliedFormat == IF kind = "dotted_keys" THEN "dotted" ELSE "implicit"

(* There is nothing of that name: a table is put in between. *)
MakeTable ==
  /\ Descending
  /\ Found(current, Head(keys)) = {}
  /\ nodes' = Append(nodes, Node(current, Head(keys), ImpliedFormat, NoValue))
  /\ GoDown(Len(nodes) + 1)

(* Slip: a key leads on into an inline table. *)
MayEnterAny(n) == nodes[n].fmt # "array_of_tables"

(* A dotted key opens no table again but those dotted keys have made. *)
MayEnter(n) ==
  /\ IsTable(n)
  /\ kind = "dotted_keys" => nodes[n].fmt = "dotted"

EnterTable ==
  /\ Descending
  /\ \E n \in Found(current, Head(keys)) : MayEnter(n) /\ GoDown(n)
  /\ UNCHANGED nodes

(* A header goes on into the last table of an array. *)
MayEnterLast(n) == nodes[n].fmt = "array_of_tables" /\ kind # "dotted_keys"

EnterLastTable ==
  /\ Descending
  /\ \E n \in Found(current, Head(keys)) :
       MayEnterLast(n) /\ GoDown(Latest(Elements(n)))
  /\ UNCHANGED nodes

RefuseToDescend ==
  /\ Descending
  /\ \E n \in Found(current, Head(keys)) : ~MayEnter(n) /\ ~MayEnterLast(n)
  /\ Refuse

(* Slip: nobody looks whether there is a value of that name. *)
AddUnderAnyway(fmt, is) == nodes' = Append(nodes, Node(current, Head(keys), fmt, is))

(* The new value is added under the last key, or refused. *)
AddUnder(fmt, is) ==
  /\ Found(current, Head(keys)) = {}
  /\ nodes' = Append(nodes, Node(current, Head(keys), fmt, is))

InsertValue ==
  /\ AtLastKey("dotted_keys")
  /\ \/ AddUnder("value", val) /\ Succeed(Len(nodes) + 1)
     \/ Found(current, Head(keys)) # {} /\ Refuse

(* Slip: [a.table] that is there may be given again. *)
MayReopenAny(n) == IsTable(n)

(* A table is opened again when headers below it have only implied it. *)
MayReopen(n) == nodes[n].fmt = "implicit"

InsertTable ==
  /\ AtLastKey("std_table")
  /\ \/ AddUnder("multiline", NoValue) /\ Succeed(Len(nodes) + 1)
     \/ \E n \in Found(current, Head(keys)) :
          \/ /\ MayReopen(n)
             /\ nodes' = [nodes EXCEPT ![n].fmt = "multiline"]
             /\ Succeed(n)
          \/ ~MayReopen(n) /\ Refuse

MayAppend(n) == nodes[n].fmt = "array_of_tables"

InsertArrayTable ==
  /\ AtLastKey("array_table")
  /\ \/ /\ Found(current, Head(keys)) = {}
        /\ nodes' =
             Append(Append(nodes,
                           Node(current, Head(keys), "array_of_tables", NoValue)),
                    Node(Len(nodes) + 1, Head(keys), "multiline", NoValue))
        /\ Succeed(Len(nodes) + 2)
     \/ \E n \in Found(current, Head(keys)) :
          \/ /\ MayAppend(n)
             /\ nodes' = Append(nodes, Node(n, Head(keys), "multiline", NoValue))
             /\ Succeed(Len(nodes) + 1)
          \/ ~MayAppend(n) /\ Refuse

insert_value ==
  \/ MakeTable \/ EnterTable \/ EnterLastTable \/ RefuseToDescend
  \/ InsertValue \/ InsertTable \/ InsertArrayTable

-----------------------------------------------------------------------------
(* What parse_file inserts, whatever the value: headers from the root on,  *)
(* and pairs into a table that stands in the document, nothing else.       *)
Begin ==
  /\ kind = "none"
  /\ kind' \in Kinds
  /\ keys' \in Seq(Key) /\ keys' # <<>>
  /\ \/ kind' # "dotted_keys" /\ current' = 1
     \/ /\ kind' = "dotted_keys"
        /\ current' \in DOMAIN nodes
        /\ nodes[current'].fmt = "multiline"
  /\ UNCHANGED <<nodes, inserted>>

TableInit ==
  /\ nodes = Root
  /\ kind = "none"
  /\ keys = <<>>
  /\ current = 1
  /\ inserted = "ok"

TableNext == Begin \/ insert_value

TableSpec == TableInit /\ [][TableNext]_tableVars

-----------------------------------------------------------------------------
(* A table never holds two values of one name, however headers and dotted  *)
(* keys come to name it (insert_value: "a table must be defined only       *)
(* once"), so that a lookup has one answer.                                *)
OneValuePerName ==
  \A m, n \in DOMAIN nodes :
    (/\ nodes[m].parent = nodes[n].parent
     /\ nodes[m].key = nodes[n].key
     /\ m > 1 => nodes[nodes[m].parent].fmt # "array_of_tables")
    => m = n

(* Nothing is ever put into a value that the document gave in one piece:   *)
(* "inline table is immutable".                                            *)
ValuesHoldNothing ==
  \A n \in DOMAIN nodes :
    n > 1 => /\ nodes[n].parent \in 1..(n - 1)
             /\ nodes[nodes[n].parent].fmt # "value"

(* What a document has defined, no later line takes back or changes: the   *)
(* one thing that happens to it is that a table headers had implied gets   *)
(* its own header.                                                         *)
KeepsNodes ==
  /\ Len(nodes') >= Len(nodes)
  /\ \A n \in DOMAIN nodes :
       \/ nodes'[n] = nodes[n]
       \/ /\ nodes[n].fmt = "implicit"
          /\ nodes'[n] = [nodes[n] EXCEPT !.fmt = "multiline"]

NothingRedefined == [][KeepsNodes]_tableVars

=============================================================================
