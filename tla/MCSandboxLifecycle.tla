------------------------- MODULE MCSandboxLifecycle -------------------------
(* Instances of SandboxLifecycle for TLC. *)
EXTENDS SandboxLifecycle, TLC

(* Build job ids are interchangeable. *)
BuildSymmetry == Permutations(Builds)
=============================================================================
