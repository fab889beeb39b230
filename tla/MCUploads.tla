------------------------------ MODULE MCUploads ------------------------------
(***************************************************************************)
(* Model checking of Uploads: two requests at a time, by an owner and      *)
(* another user, over one upload.                                          *)
(***************************************************************************)
EXTENDS Uploads, TLC

CONSTANTS r1, r2, u1, alice, bob

MCRequests == {r1, r2}
OneUpload  == {u1}
MCOwners   == {alice, bob}

MCSymmetry == Permutations(MCRequests) \cup Permutations(MCOwners)
=============================================================================
