------------------------------ MODULE MCStatus ------------------------------
(* Instance of Status for TLC: one vendor, three runs. *)
EXTENDS Status, TLC
CONSTANTS aws, p1, absent
OnePoll == {p1}
OneVendor == {aws}
TwoCounts == {0, 2}
=============================================================================
