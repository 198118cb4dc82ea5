---------------------------- MODULE MCMosaicoOta ----------------------------
EXTENDS MosaicoOta, TLC

(* The images differ only in their contents.                               *)
ImageSymmetry == Permutations(Images)
=============================================================================
