-------------------------- MODULE GraphicsOffsets --------------------------
(***************************************************************************)
(* loadGraphicsOffsets, src/include/obsc/graphics_offsets.h: the offsets   *)
(* of the functions to hook, out of the document the offset helper prints. *)
(***************************************************************************)
EXTENDS TomlFile

Wanted == <<
  <<"d3d8", "present">>, <<"d3d9", "present">>, <<"d3d9", "present_ex">>,
  <<"d3d9", "present_swap">>, <<"d3d9", "d3d9_clsoff">>,
  <<"d3d9", "is_d3d9ex_clsoff">>, <<"dxgi", "present">>, <<"dxgi", "present1">>,
  <<"dxgi", "resize">>, <<"dxgi", "release">>>>

(* static_cast<uint32_t> of a toml integer *)
Narrowed(n) == n % (2^(Width \div 2))

(* Slip: the name alone is looked for. *)
FindAnywhere(table, name) ==
  {Narrowed(nodes[m].is.is) :
     m \in {m \in DOMAIN nodes : nodes[m].key = name /\ nodes[m].fmt = "value"}}

(* toml::find<uint32_t>: nothing stands for the exception.  A table given  *)
(* in one line is left out: the helper prints none.                        *)
find(table, name) ==
  {Narrowed(nodes[m].is.is) :
     m \in {m \in UNION {Found(n, name) : n \in {n \in Found(1, table) : IsTable(n)}} :
              nodes[m].fmt = "value" /\ nodes[m].is.type = "integer"}}

Finds(k) == find(Text(Wanted[k][1]), Text(Wanted[k][2]))

(* Slip: an offset that is missing is 0. *)
OffsetsOrZero ==
  IF Rejected THEN <<>>
  ELSE [k \in DOMAIN Wanted |->
          IF Finds(k) = {} THEN 0 ELSE CHOOSE n \in Finds(k) : TRUE]

(* The offsets, once the document has been read; <<>> for an exception. *)
loadGraphicsOffsets ==
  IF Rejected \/ \E k \in DOMAIN Wanted : Finds(k) = {}
    THEN <<>>
    ELSE [k \in DOMAIN Wanted |-> CHOOSE n \in Finds(k) : TRUE]

=============================================================================
