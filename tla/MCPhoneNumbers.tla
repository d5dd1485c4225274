--------------------------- MODULE MCPhoneNumbers ---------------------------
(* Small instances of PhoneNumbers for TLC.                                *)
EXTENDS PhoneNumbers, TLC

CONSTANTS u1, u2, s1, s2

(* Two members with one request each at a time: alice and bob.             *)
OneTabEach == s1 :> u1 @@ s2 :> u2

(* One member with two browser tabs.                                       *)
TwoTabs == s1 :> u1 @@ s2 :> u1

Symmetry == Permutations(Rows) \cup Permutations(JobIds) \cup Permutations(Sids)
=============================================================================
