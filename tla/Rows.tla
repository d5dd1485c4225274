--------------------------------- MODULE Rows ---------------------------------
(* The rows of a table by their id, as the transactions of PostgreSQL that *)
(* write them see them: what is committed, and their own writes over it.   *)
(***************************************************************************)
NoRows == [i \in {} |-> i]

Over(new, old) ==
    [i \in DOMAIN new \cup DOMAIN old |-> IF i \in DOMAIN new THEN new[i] ELSE old[i]]
=============================================================================
