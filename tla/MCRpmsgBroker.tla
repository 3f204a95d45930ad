--------------------------- MODULE MCRpmsgBroker ---------------------------
(* Instances of RpmsgBroker for TLC. *)
EXTENDS RpmsgBroker, TLC

\* Connections are interchangeable in safety runs.
ConnSymmetry == Permutations(Conn)
=============================================================================
