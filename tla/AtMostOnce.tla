------------------------------ MODULE AtMostOnce ------------------------------
(***************************************************************************)
(* What one direction of a tunnel session promises to the code above it,   *)
(* stated without nonces' windows or networks: a frame that was sealed is  *)
(* handed up at most once, and nothing else is handed up.  Frames may be   *)
(* lost and may be handed up in any order (docs/PROTOCOL.md, section 4).   *)
(***************************************************************************)
EXTENDS Naturals, FiniteSets

VARIABLES
  sealed,     (* how many frames were sealed; frame i carries nonce i      *)
  handed,     (* the frames handed up                                      *)
  upcalls     (* how often a frame was handed up                           *)

vars == <<sealed, handed, upcalls>>

Init ==
  /\ sealed = 0
  /\ handed = {}
  /\ upcalls = 0

Seal ==
  /\ sealed' = sealed + 1
  /\ UNCHANGED <<handed, upcalls>>

HandUp ==
  \E i \in 0 .. sealed - 1 :
    /\ i \notin handed
    /\ handed' = handed \cup {i}
    /\ upcalls' = upcalls + 1
    /\ UNCHANGED sealed

Next == Seal \/ HandUp

Spec == Init /\ [][Next]_vars
===============================================================================
