------------------------------ MODULE MCFiles ------------------------------
(* An instance of the file system small enough for TLC.                    *)
EXTENDS Files, TLC

MCFiles1 == <<<<5>>>>
MCData == {<<6>>, <<7, 8, 9>>}
MCModes == {<<"rw", FALSE>>, <<"w", TRUE>>, <<"r", FALSE>>}
Symmetry == Permutations(Procs)
=============================================================================
