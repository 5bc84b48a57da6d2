---------------------------- MODULE MCBookingList ----------------------------
(***************************************************************************)
(* BookingList for TLC.  Bookings are only ever compared for equality, so  *)
(* the states in which they swap places are checked once.                  *)
(***************************************************************************)
EXTENDS BookingList, TLC

BookingSymmetry == Permutations(Bookings)
=============================================================================
