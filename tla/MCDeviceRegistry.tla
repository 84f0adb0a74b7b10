--------------------------- MODULE MCDeviceRegistry ---------------------------
EXTENDS DeviceRegistry, TLC

(* Requests are interchangeable, and so are the names of files.              *)
Symmetry == Permutations(Reqs) \cup Permutations(Inodes)

=============================================================================
