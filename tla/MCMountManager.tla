--------------------------- MODULE MCMountManager ---------------------------
(* Two slots, and more clients and devices than slots.                     *)
EXTENDS MountManager, TLC

Symmetry == Permutations(Clients) \cup Permutations(Devices)

(* No property says anything of what follows a clash.                      *)
NoClashYet == ~ clash
=============================================================================
