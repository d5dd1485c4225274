---------------------------- MODULE AudioCustody ----------------------------
(* What the recording pipeline promises, with the jobs, the callbacks and  *)
(* the requests that keep it left out: of every recording Twilio makes,    *)
(* somebody has the audio, and Twilio's copy goes only when the row names  *)
(* ours, until a person deletes the row. Recordings implements it.         *)
(***************************************************************************)
CONSTANT Items

VARIABLES
    atTwilio,            \* the items whose audio Twilio has
    inStore,             \* the items whose audio our store has
    named,               \* the items whose row names our copy
    deleted              \* the items whose row a person has deleted

vars == <<atTwilio, inStore, named, deleted>>

Init == atTwilio = {} /\ inStore = {} /\ named = {} /\ deleted = {}

(* A recording is made once: what is named once was never made anew.       *)
Record(i) ==
    /\ i \notin named
    /\ atTwilio' = atTwilio \cup {i}
    /\ UNCHANGED <<inStore, named, deleted>>

(* A copy is made of what somebody has; of what a person has deleted, a    *)
(* worker that fetched it before may still put one.                        *)
Copy(i) ==
    /\ i \in atTwilio \cup inStore \cup deleted
    /\ inStore' = inStore \cup {i}
    /\ UNCHANGED <<atTwilio, named, deleted>>

Name(i) ==
    /\ i \in inStore /\ i \notin named \cup deleted
    /\ named' = named \cup {i}
    /\ UNCHANGED <<atTwilio, inStore, deleted>>

(* Twilio's copy is given up for ours, and never another way.              *)
GiveUp(i) ==
    /\ i \in named
    /\ atTwilio' = atTwilio \ {i}
    /\ UNCHANGED <<inStore, named, deleted>>

Delete(i) ==
    /\ deleted' = deleted \cup {i}
    /\ UNCHANGED <<atTwilio, inStore, named>>

Erase(i) ==
    /\ i \in deleted
    /\ inStore' = inStore \ {i}
    /\ UNCHANGED <<atTwilio, named, deleted>>

Next == \E i \in Items :
    Record(i) \/ Copy(i) \/ Name(i) \/ GiveUp(i) \/ Delete(i) \/ Erase(i)

Spec == Init /\ [][Next]_vars
=============================================================================
