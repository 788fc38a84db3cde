------------------------------ MODULE WriteBehind ----------------------------
(***************************************************************************)
(* What the gateway's cache of agent states is: a write-behind cache.  A   *)
(* value is changed in memory and marked pending; a write stores every     *)
(* pending value and, once it is acknowledged, clears the marks.  A stop   *)
(* may change values and write them a last time; a crash writes nothing.   *)
(***************************************************************************)
CONSTANTS Keys, Values, Absent

VARIABLES
    memo,    \* the values in memory
    pending, \* the keys whose value is still to be stored
    stored   \* the values in the database

vars == <<memo, pending, stored>>

Maps == [Keys -> Values \cup {Absent}]

Init ==
    /\ memo = [k \in Keys |-> Absent]
    /\ pending = {}
    /\ stored \in Maps

\* The values become m, and those of the keys in P are to be stored.
Changes(m, P) ==
    /\ pending \subseteq P
    /\ \A k \in Keys \ P : m[k] = memo[k]
    /\ \A k \in Keys : memo[k] # Absent => m[k] # Absent

Change ==
    \E m \in Maps, P \in SUBSET Keys :
        /\ Changes(m, P)
        /\ memo' = m
        /\ pending' = P
        /\ UNCHANGED stored

Written(m, P) == [k \in Keys |-> IF k \in P THEN m[k] ELSE stored[k]]

Write ==
    /\ stored' = Written(memo, pending)
    /\ pending' \in {pending, {}}
    /\ UNCHANGED memo

\* A write is acknowledged only if it was applied.
Stop ==
    /\ memo' = [k \in Keys |-> Absent]
    /\ pending' = {}
    /\ \/ UNCHANGED stored
       \/ \E m \in Maps, P \in SUBSET Keys : Changes(m, P) /\ stored' = Written(m, P)

Next == Change \/ Write \/ Stop

Spec == Init /\ [][Next]_vars
==============================================================================
