--------------------------- MODULE MCQrAttendance ---------------------------
(* Instances of QrAttendance for TLC. *)
EXTENDS QrAttendance, TLC

\* Nothing orders request slots or signatures.
Symmetry == Permutations(Scans) \cup Permutations(Signatures)
=============================================================================
