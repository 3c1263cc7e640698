-------------------------- MODULE MCRentReminders --------------------------
(* Instances of RentReminders for TLC.                                     *)
EXTENDS RentReminders, TLC

PassSymmetry == Permutations(Passes)

EmailOrBoth == {{"email"}, {"email", "sms"}}
=============================================================================
