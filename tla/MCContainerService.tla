------------------------- MODULE MCContainerService -------------------------
(***************************************************************************)
(* Model checking of ContainerService: an owner and another user, whose    *)
(* calls on one container are made by two goroutines.                      *)
(***************************************************************************)
EXTENDS ContainerService, TLC

CONSTANTS p1, p2, c1, alice, bob

TwoProcs      == {p1, p2}
OneContainer  == {c1}
MCOwners      == {alice, bob}
OneOwner      == {alice}

MCSymmetry == Permutations(Procs) \cup Permutations(Containers)
              \cup Permutations(Owners)
=============================================================================
