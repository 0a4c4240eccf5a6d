--------------------------- MODULE MCLlmAdmission ---------------------------
(***************************************************************************)
(* Instances of LlmAdmission for TLC.  Reservation ids are interchangeable.*)
(***************************************************************************)
EXTENDS LlmAdmission, TLC

CONSTANTS j1, j2, j3

ReservationSymmetry == Permutations(Reservations)
=============================================================================
