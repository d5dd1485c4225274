----------------------------- MODULE MCServices -----------------------------
(* Small instances, for TLC, of the mail, of the caller names and of what  *)
(* is heard and written around a call.                                     *)
EXTENDS Services, TLC

CONSTANTS a1, a2, a3, e1, e2, e3, d1, d2, p1, i1, i2, y1, q1, q2, w1, w2

(* What the theorems ask of the constants, these have.                     *)
ASSUME SharedConstants == ServiceConstants

(* Three accounts of one rep, each with its own address.                   *)
OwnAddresses == a1 :> e1 @@ a2 :> e2 @@ a3 :> e3

Captures == {[kinds |-> {}, mail |-> 0],
             [kinds |-> {"sync", "rematch", "purge"}, mail |-> 1],
             [kinds |-> {"sync", "import", "rematch"}, mail |-> 1],
             [kinds |-> {"sync"}, mail |-> 2]}

Libraries == {[kinds |-> {}, first |-> {}, version |-> 1],
              [kinds |-> {"create", "promote", "delete"}, first |-> {}, version |-> 1],
              [kinds |-> {"create", "delete", "giveUp"}, first |-> {d1}, version |-> 1],
              [kinds |-> {"replace", "delete"}, first |-> {d1, d2}, version |-> 2],
              [kinds |-> {"replace", "giveUp"}, first |-> {d1}, version |-> 1],
              [kinds |-> {"create", "promote", "delete", "overlap"}, first |-> {}, version |-> 1],
              [kinds |-> {"replace", "giveUp", "overlap"}, first |-> {d1}, version |-> 2]}

(* Requests are alike, and so are workers.                                 *)
Alike == Permutations({q1, q2}) \cup Permutations({w1, w2})

Dials == {[kinds |-> {}, calls |-> {}],
          [kinds |-> {"call", "end", "blocked", "reload"}, calls |-> {p1}],
          [kinds |-> {"call", "reload"}, calls |-> {i1, i2}],
          [kinds |-> {"call", "end", "reload"}, calls |-> {i1}],
          [kinds |-> {"call", "conflict", "reload"}, calls |-> {p1, y1}]}

Composers == {[kinds |-> {}, acts |-> 0],
              [kinds |-> {"write", "send", "away", "discard", "refuse"}, acts |-> 6],
              [kinds |-> {"write", "away", "discard", "squeeze"}, acts |-> 6],
              [kinds |-> {"write", "send", "noReceipt"}, acts |-> 5],
              [kinds |-> {"write", "send", "slow", "again", "crash"}, acts |-> 4],
              [kinds |-> {"write", "discard", "saveFails", "deleteFails"}, acts |-> 6]}
=============================================================================
