---------------------------- MODULE MCErrandSaga ----------------------------
EXTENDS ErrandSaga, TLC
CONSTANTS u1, u2, u3, o1, o2
(* Orders are interchangeable, students who are not administrators are,    *)
(* and so are the administrators.                                          *)
StudentSymmetry == Permutations(Users \ InitialAdmins) \cup Permutations(InitialAdmins)
Symmetry == StudentSymmetry \cup Permutations(Orders)
=============================================================================
