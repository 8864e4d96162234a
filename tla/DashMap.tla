------------------------------ MODULE DashMap ------------------------------
(***************************************************************************)
(* container/dash_map.hpp: the hash map and hash set every keyspace        *)
(* container is built from.  A map is a function whose domain is the set   *)
(* of keys present; a DashSet is the domain alone.                         *)
(***************************************************************************)

CONSTANT Nil        \* an empty std::optional

EmptyMap == [x \in {} |-> x]

MapContains(m, k) == k \in DOMAIN m

MapGet(m, k) == IF MapContains(m, k) THEN m[k] ELSE Nil

\* insert_or_assign: a present key is overwritten.
MapInsert(m, k, v) == [x \in DOMAIN m \cup {k} |-> IF x = k THEN v ELSE m[x]]

MapRemove(m, k) == [x \in DOMAIN m \ {k} |-> m[x]]

=============================================================================
