----------------------------- MODULE MCUdpServer -----------------------------
(* UdpServer on small sets for TLC. *)
EXTENDS UdpServer, TLC

\* Distinct prefixes for distinct identifiers, of a length the template sets.
MCHeaderID(c, t) == <<c, t>>

Symmetry ==
  Permutations(ClientIDs) \cup Permutations(Remotes) \cup Permutations(Ports)
=============================================================================
