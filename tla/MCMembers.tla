------------------------------ MODULE MCMembers ------------------------------
(* A small instance of Members for TLC.                                    *)
EXTENDS Members, TLC

CONSTANTS a1, a2, b1

(* Two administrators and a third person, who is a member, or was none.    *)
TwoAdmins == a1 :> "admin" @@ a2 :> "admin" @@ b1 :> "basic"
=============================================================================
