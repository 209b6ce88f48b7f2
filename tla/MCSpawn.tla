------------------------------ MODULE MCSpawn -------------------------------
(* Tables of two entries: sixteen pages, the upper eight the kernel's.      *)
EXTENDS Spawn, TLC

MCKernelHalf == <<1>> :> 1
MCPrograms == {<<6>>, <<2, 6>>}
MCStack == <<7>>
MCCode == <<6, 7>>
Blocks == Permutations(Slots)
=============================================================================
