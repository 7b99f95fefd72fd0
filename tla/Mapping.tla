------------------------------- MODULE Mapping -------------------------------
(***************************************************************************)
(* client_proxy_mapping of the client's ini file: which clients it asks    *)
(* for, and when another reading of the file differs from it.              *)
(*                                                                         *)
(* The text is split at commas into entries and each entry at "->" into    *)
(* fields; a source is the sequence of its entries, an entry the sequence  *)
(* of its fields.                                                          *)
(***************************************************************************)
EXTENDS Naturals, Sequences

\* ClientProxyMappingParser.init: an entry that is not a port and an address
\* leaves the parser without any mapping.
Mappings(source) ==
  IF \A i \in DOMAIN source : Len(source[i]) = 2
  THEN [i \in DOMAIN source |-> [port |-> source[i][1], addr |-> source[i][2]]]
  ELSE <<>>

Ports(maps) == {maps[i].port : i \in DOMAIN maps}
Addrs(maps) == {maps[i].addr : i \in DOMAIN maps}

\* Diff: the lengths, then every port and every address by itself.
Diff(new, old) ==
  \/ Len(new) # Len(old)
  \/ \E i \in DOMAIN new : new[i].port \notin Ports(old) \/ new[i].addr \notin Addrs(old)
=============================================================================
