------------------------------ MODULE ListEntries ------------------------------
(* One list of records and its manual order: adding, removing and ranking  *)
(* an entry, moving one between two others, and reordering all of them     *)
(* (routes/lists.ts).                                                      *)
(*                                                                         *)
(* A move and a reorder lock the rows the list has, and an addition waits  *)
(* for no row lock. Ranks are sparse: a move takes the middle of its       *)
(* neighbours' and spreads the whole list out again when there is none.    *)
(***************************************************************************)
EXTENDS Integers, SequencesExt

CONSTANTS
    Targets,       \* records; a list has one entry of each at most
    ListRequests,  \* concurrent requests
    PositionStep,  \* LIST_POSITION_STEP
    MaxRank,       \* ranks that moves go to; a bound
    PatchRanks,    \* ranks that clients send; a bound
    ListInstances, \* what one behaviour has: its operations and the entries at
                   \* the start
    Unranked       \* position is null

ListKinds == {"add", "remove", "rank", "move", "reorder"}

VARIABLES
    listKinds, \* the operations of this behaviour; never changes
    entries,   \* the targets of the rows, in the order of createdAt
    position,  \* target -> its rank
    listWork   \* request -> what it is in the middle of

listVars == <<listKinds, entries, position, listWork>>

Present == ToSet(entries)
Ranks == -MaxRank..MaxRank
Plans == UNION {[S -> Ranks] : S \in SUBSET Targets}

(* before and after: the neighbours asked for, each possibly Unranked      *)
(* standing for none; plan: the ranks to write; fits: the neighbours were  *)
(* in that order when the move read them.                                  *)
NoListTask == [pc |-> "idle", held |-> {}]

ListInit ==
    /\ \E i \in ListInstances :
          /\ listKinds = i.kinds /\ entries = i.first
          /\ position = [t \in Targets |-> Unranked]
    /\ listWork = [r \in ListRequests |-> NoListTask]

Unheld(r, S) == \A q \in ListRequests \ {r} : listWork[q].held \cap S = {}
ListGoes(r, task) == listWork' = [listWork EXCEPT ![r] = task]
ListStarts(r, op, task) == op \in listKinds /\ listWork[r].pc = "idle" /\ ListGoes(r, task)

(* orderBy position, nulls last, then createdAt.                           *)
Precedes(s, rank, t, u) ==
    LET born(v) == CHOOSE i \in DOMAIN s : s[i] = v IN
    \/ rank[t] # Unranked /\ rank[u] = Unranked
    \/ rank[t] # Unranked /\ rank[u] # Unranked /\ rank[t] < rank[u]
    \/ rank[t] = rank[u] /\ born(t) < born(u)

(* How many of S come before u in that order.                              *)
PlaceIn(S, u) == Cardinality({v \in S : Precedes(entries, position, v, u)})

-----------------------------------------------------------------------------
(* POST: an entry there is, or a new one, or the one that came in between. *)
AddRead(r, t) ==
    /\ t \notin Present
    /\ ListStarts(r, "add", [pc |-> "add", target |-> t, held |-> {}])
    /\ UNCHANGED <<listKinds, entries, position>>

AddCreate(r) ==
    LET t == listWork[r].target IN
    /\ listWork[r].pc = "add"
    /\ IF t \in Present
       THEN ListGoes(r, [listWork[r] EXCEPT !.pc = "readBack"]) /\ UNCHANGED <<entries, position>>
       ELSE /\ entries' = Append(entries, t) /\ position' = [position EXCEPT ![t] = Unranked]
            /\ ListGoes(r, NoListTask)
    /\ UNCHANGED listKinds

AddReadBack(r) ==
    /\ listWork[r].pc = "readBack"
    /\ ListGoes(r, IF listWork[r].target \in Present THEN NoListTask
                   ELSE [listWork[r] EXCEPT !.pc = "failed"])
    /\ UNCHANGED <<listKinds, entries, position>>

(* DELETE and PATCH of one entry wait for its row.                         *)
RemoveEntry(t) ==
    /\ "remove" \in listKinds /\ t \in Present
    /\ \A q \in ListRequests : t \notin listWork[q].held
    /\ \E i \in DOMAIN entries : entries[i] = t /\ entries' = RemoveAt(entries, i)
    /\ UNCHANGED <<listKinds, position, listWork>>

RankEntry(t, rank) ==
    /\ "rank" \in listKinds /\ t \in Present
    /\ \A q \in ListRequests : t \notin listWork[q].held
    /\ position' = [position EXCEPT ![t] = rank]
    /\ UNCHANGED <<listKinds, entries, listWork>>

-----------------------------------------------------------------------------
(* PATCH reorder, sparse: an entry and one or two neighbours.              *)
Neighbours == Targets \cup {Unranked}

(* Mutant: the entries are read, not locked.                               *)
MoveUnlocked(r, t, before, after) ==
    /\ {t, before, after} \ {Unranked} \subseteq Present
    /\ before # after /\ t \notin {before, after}
    /\ ListStarts(r, "move", [pc |-> "moveRead", target |-> t, before |-> before,
                              after |-> after, held |-> {}])
    /\ UNCHANGED <<listKinds, entries, position>>

MoveLock(r, t, before, after) ==
    /\ {t, before, after} \ {Unranked} \subseteq Present
    /\ before # after /\ t \notin {before, after} /\ Unheld(r, Present)
    /\ ListStarts(r, "move", [pc |-> "moveRead", target |-> t, before |-> before,
                              after |-> after, held |-> Present])
    /\ UNCHANGED <<listKinds, entries, position>>

RankOf(t) == IF t = Unranked THEN Unranked ELSE position[t]

(* The rank between the two, if they leave one; or the one at the end.     *)
NextRank(before, after) ==
    LET low == RankOf(before)
        high == RankOf(after) IN
    IF low # Unranked /\ high # Unranked /\ high - low > 1 THEN low + (high - low) \div 2
    ELSE IF low # Unranked /\ after = Unranked THEN low + PositionStep
    ELSE IF high # Unranked /\ before = Unranked THEN high - PositionStep
    ELSE Unranked

(* Everybody's rank when the list is spread out, t beside its neighbour.   *)
Spread(t, before, after) ==
    LET others == Present \ {t}
        place == IF after # Unranked THEN PlaceIn(others, after)
                 ELSE PlaceIn(others, before) + 1
        shifted(n) == IF n < place THEN n ELSE n + 1 IN
    [u \in Present |-> PositionStep * IF u = t THEN place ELSE shifted(PlaceIn(others, u))]

MoveRead(r) ==
    LET task == listWork[r]
        next == NextRank(task.before, task.after)
        plan == IF next # Unranked THEN [u \in {task.target} |-> next]
                ELSE Spread(task.target, task.before, task.after) IN
    /\ task.pc = "moveRead"
    /\ IF {task.target, task.before, task.after} \ {Unranked} \subseteq Present
       THEN /\ \A u \in DOMAIN plan : plan[u] \in Ranks
            /\ ListGoes(r, [pc |-> "moveWrite", target |-> task.target, before |-> task.before,
                            after |-> task.after, held |-> task.held, plan |-> plan,
                            fits |-> Unranked \in {task.before, task.after}
                                     \/ Precedes(entries, position, task.before, task.after)])
       ELSE ListGoes(r, NoListTask)
    /\ UNCHANGED <<listKinds, entries, position>>

(* The writes of a plan, all of them or none.                              *)
ListWrites(r, pc) ==
    LET plan == listWork[r].plan IN
    /\ listWork[r].pc = pc /\ Unheld(r, DOMAIN plan)
    /\ position' = IF DOMAIN plan \subseteq Present
                   THEN [t \in Targets |-> IF t \in DOMAIN plan THEN plan[t] ELSE position[t]]
                   ELSE position
    /\ ListGoes(r, NoListTask)
    /\ UNCHANGED <<listKinds, entries>>
MoveWrite(r) == ListWrites(r, "moveWrite")

(* PATCH reorder, full: the client's order of all entries, which must be   *)
(* the ones that are locked.                                               *)
ReorderLock(r, order) ==
    /\ Unheld(r, Present) /\ ToSet(order) = Present
    /\ ListStarts(r, "reorder", [pc |-> "reorderWrite", held |-> Present,
                                 plan |-> [u \in Present |->
                                     (CHOOSE i \in DOMAIN order : order[i] = u) - 1]])
    /\ UNCHANGED <<listKinds, entries, position>>
ReorderWrite(r) == ListWrites(r, "reorderWrite")

Orders == {s \in UNION {[1..n -> Targets] : n \in 1..Cardinality(Targets)} : IsInjective(s)}

ListNext ==
    \/ \E t \in Targets : RemoveEntry(t) \/ \E rank \in PatchRanks : RankEntry(t, rank)
    \/ \E r \in ListRequests, t \in Targets :
          AddRead(r, t) \/ \E before, after \in Neighbours : MoveLock(r, t, before, after)
    \/ \E r \in ListRequests :
          AddCreate(r) \/ AddReadBack(r) \/ MoveRead(r) \/ MoveWrite(r) \/ ReorderWrite(r)
    \/ \E r \in ListRequests, order \in Orders : ReorderLock(r, order)

ListSpec == ListInit /\ [][ListNext]_listVars

-----------------------------------------------------------------------------
ListTasks ==
    [pc : {"idle"}, held : {{}}]
    \cup [pc : {"add", "readBack", "failed"}, target : Targets, held : {{}}]
    \cup [pc : {"moveRead"}, target : Targets, before : Neighbours, after : Neighbours,
          held : SUBSET Targets]
    \cup [pc : {"moveWrite"}, target : Targets, before : Neighbours, after : Neighbours,
          held : SUBSET Targets, plan : Plans, fits : BOOLEAN]
    \cup [pc : {"reorderWrite"}, held : SUBSET Targets, plan : Plans]

ListTypeOK ==
    /\ listKinds \subseteq ListKinds
    /\ entries \in Seq(Targets) /\ IsInjective(entries)
    /\ position \in [Targets -> Ranks \cup PatchRanks \cup {Unranked}]
    /\ listWork \in [ListRequests -> ListTasks]

(* A move whose neighbours were in the order it was asked to come between  *)
(* ends between them, whatever is ranked, added and removed meanwhile: the *)
(* midpoint, the two ends and the spreading (lists.ts:733-794).            *)
PlacesMoved ==
    \A r \in ListRequests :
        LET task == listWork[r] IN
        /\ task.pc = "moveWrite" /\ listWork'[r].pc = "idle"
        /\ task.fits /\ DOMAIN task.plan \subseteq Present
        => /\ task.before # Unranked => Precedes(entries', position', task.before, task.target)
           /\ task.after # Unranked => Precedes(entries', position', task.target, task.after)
MovedIsPlaced == [][PlacesMoved]_listVars

(* What the theorems ask of the constants.                                 *)
ListConstants ==
    /\ IsFiniteSet(Targets) /\ Unranked \notin Targets /\ Unranked \notin Int
    /\ PositionStep \in Nat \ {0} /\ PatchRanks \subseteq Int
    /\ MaxRank \in Nat /\ Cardinality(Targets) <= MaxRank
    /\ \A i \in ListInstances :
          i.kinds \subseteq ListKinds /\ i.first \in Seq(Targets) /\ IsInjective(i.first)

-----------------------------------------------------------------------------
(* What the code says and does not do; TLC refutes each, see the README.   *)

(* lists.ts: the lock "keeps two dialers from choosing the same midpoint". *)
MovesNeverTie ==
    \A t, u \in Present : t # u /\ position[t] # Unranked => position[t] # position[u]

(* lists.ts: no entry is added "between validation and the position        *)
(* writes".                                                                *)
ReorderIsOfAll ==
    \A r \in ListRequests :
        listWork[r].pc = "reorderWrite" => DOMAIN listWork[r].plan = Present

(* lists.ts: adding twice is "never a duplicate row or an error".          *)
AddNeverFails == \A r \in ListRequests : listWork[r].pc # "failed"
=============================================================================
