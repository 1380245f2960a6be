--------------------------- MODULE MCStreamImages ---------------------------
(* Model values and symmetry for StreamImages.                                *)
EXTENDS StreamImages, TLC

ImageSymmetry == Permutations(Image)
=============================================================================
