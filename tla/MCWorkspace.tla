----------------------------- MODULE MCWorkspace -----------------------------
(* Small instances, for TLC, of what the members of one organization share. *)
EXTENDS MCMembers, Workspace

CONSTANTS t1, t2, t3, x1, x2, x3, n1, n2, n3

(* What the theorems ask of the constants, these have.                     *)
ASSUME SharedConstants == WorkspaceConstants

Lists == {[kinds |-> {}, first |-> <<>>],
          [kinds |-> {"move", "rank"}, first |-> <<t1, t2, t3>>],
          [kinds |-> {"move", "reorder"}, first |-> <<t1, t2, t3>>],
          [kinds |-> {"move", "add"}, first |-> <<t1, t2>>],
          [kinds |-> {"add", "remove"}, first |-> <<t1>>]}

At(n, k) == [value |-> n, position |-> k]
People == {[table |-> "phones", kinds |-> {}, rows |-> <<>>],
           [table |-> "phones", kinds |-> {"post", "patch"}, rows |-> x1 :> At(n1, 0)],
           [table |-> "phones", kinds |-> {"delete", "patch"},
            rows |-> x1 :> At(n1, 0) @@ x2 :> At(n2, 1) @@ x3 :> At(n3, 2)],
           [table |-> "emails", kinds |-> {"delete", "patch"},
            rows |-> x1 :> At(n1, 0) @@ x2 :> At(n2, 1)]}

UpToTwo == {<<>>, <<x1>>, <<x1, x2>>}

Event(verb, key, to) == [verb |-> verb, key |-> key, to |-> to]
Actions == t1 :> Event("mention", x1, <<a1, a2>>) @@ t2 :> Event("assignment", x1, <<a1, a2>>)
           @@ t3 :> Event("mention", x1, <<a1>>)
Chatter == t1 :> Event("comment", x1, <<a1>>) @@ t2 :> Event("comment", x2, <<a1>>)
           @@ t3 :> Event("comment", x1, <<a1>>)
Plain == t1 :> Event("mentioned", t1, <<a1, a2>>)
Inboxes == {[kinds |-> {}, events |-> <<>>],
            [kinds |-> {"send", "retry"}, events |-> Actions],
            [kinds |-> {"send", "archive"}, events |-> Actions],
            [kinds |-> {"send", "archive", "unarchive"}, events |-> Plain],
            [kinds |-> {"send", "retry"}, events |-> Chatter],
            [kinds |-> {"send", "later"}, events |-> Chatter]}

TwoPipelines == t1 :> x1 @@ t2 :> x1 @@ t3 :> x2
=============================================================================
