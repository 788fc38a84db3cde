----------------------------- MODULE MCLogDelivery ---------------------------
(***************************************************************************)
(* LogDelivery on small instances: two chunks, the first of which makes    *)
(* two frames, and the rules a site could have for their records.          *)
(***************************************************************************)
EXTENDS LogDelivery, TLC

CONSTANTS f1, f2, x, y, z, w, c1, c2, k

TwoFlushes == {f1, f2}
OneFlush == {f1}
TwoChunks == f1 :> <<y, x, z>> @@ f2 :> <<w>>
TwoRows == f1 :> <<x, y>>

Protocols == {"agent_wzcp", "syslog"}
MixedAgents == x :> 1 @@ y :> 2 @@ z :> 3 @@ w :> 4
MixedTags == [r \in {x, y, z, w} |-> IF r = w THEN "syslog" ELSE "agent_wzcp"]
SameTag == [r \in {x, y} |-> "agent_wzcp"]

Rule(mode, act, key, ngx, cols) ==
    [mode |-> mode, act |-> act, key |-> key, ngx |-> ngx, cols |-> cols]

\* x goes to two collections, y matches nothing, z passes a chain of two
\* sequential rules, the first of which finds an empty dedup field, and w goes
\* to the lake once per key.
Site ==
    LET both == Rule("both", "pass", NoKey, FALSE, {c1, c2})
        unkeyed == Rule("both", "dedup", NoKey, FALSE, {c1, c2})
        chained == Rule("etl_only", "pass", NoKey, TRUE, {c1})
    IN  [t \in Protocols |->
            x :> <<both>> @@ y :> << >> @@ z :> <<unkeyed, chained>>
            @@ w :> <<Rule("both", "dedup", k, TRUE, {})>>]

\* Every record goes to c1 once per key.
Deduped == [t \in Protocols |-> [r \in {x, y} |-> <<Rule("both", "dedup", k, FALSE, {c1})>>]]

\* The rows compress well or badly: two fit a TLV, or one.
EitherRoom == {1, 2}
WideRoom == {2}

AllHazards == {"lake", "db", "net", "crash"}
DbHazard == {"db"}
==============================================================================
