-------------------------- MODULE LogDeliveryProofs --------------------------
(***************************************************************************)
(* Theorems about LogDelivery, for any chunks, rules, retry limit and      *)
(* hazards: its types, that a chunk whose delivery is acknowledged has     *)
(* been stored where no rule uses dedup, that the decoder accepts the      *)
(* frames that fit a TLV, that an entry names an agent of its own frame,   *)
(* that raw events come before what is derived from them, and that a       *)
(* record is stored at most once by every attempt.                         *)
(***************************************************************************)
EXTENDS LogDelivery, SequenceTheorems, TLAPS

\* No rule of the site has a dedup action.
NoDedup ==
    \A t \in Tags, r \in Records : \A i \in DOMAIN Rules[t][r] : Rules[t][r][i].act # "dedup"

\* Sequence b is the piece of sequence c that starts after position a.
Piece(b, c, a) == \A j \in DOMAIN b : b[j] = c[a + j]

\* Where the chunk, the frame and the handler of f are with respect to one
\* another: the rows in tsv follow the rows of the frames already accepted.
Place(f) ==
    /\ pc[f] = "wait" <=> hpc[f] # "idle"
    /\ pos[f] <= Len(Chunk[f])
    /\ Len(batch[f]) <= MaxRows
    /\ pc[f] = "queued" => tries[f] <= RetryLimit
    /\ pc[f] = "rows" => pos[f] < Len(Chunk[f]) /\ Len(batch[f]) < MaxRows
    /\ pc[f] \in {"post", "wait"} => batch[f] # << >>
    /\ pc[f] \in {"rows", "post", "wait"} =>
        /\ pos[f] = Len(ackTag[f]) + Len(batch[f])
        /\ Piece(batch[f], Chunk[f], Len(ackTag[f]))
    /\ pc[f] = "acked" => Len(ackTag[f]) = Len(Chunk[f])
    /\ hpc[f] = "route" => Len(results[f]) < Len(batch[f])
    /\ hpc[f] \in {"raw", "etl", "arango", "204"} => Len(results[f]) = Len(batch[f])
    /\ hpc[f] = "204" => left[f] = {}

TypeInv == TypeOK /\ \A f \in Flushes : Place(f)

\* Every target of a row that has been routed is in its result.
Routed(f) ==
    hpc[f] \in {"route", "raw", "etl", "arango", "204"} =>
        \A j \in DOMAIN results[f] : Targets(ChainOf(batch[f], j)) \subseteq results[f][j].cols

\* Every target of a row of the frame is written or still to be written.
Written(f) ==
    hpc[f] \in {"arango", "204"} =>
        \A j \in DOMAIN batch[f] : \A c \in Targets(ChainOf(batch[f], j)) :
            c \in left[f] \/ docs[batch[f][j]][c] > 0

\* Every target of a row of an accepted frame is written.
Kept(f) ==
    pc[f] \in {"rows", "post", "wait", "acked"} =>
        \A i \in DOMAIN ackTag[f] : \A c \in Targets(Rules[ackTag[f][i]][Chunk[f][i]]) :
            docs[Chunk[f][i]][c] > 0

StoreInv == TypeInv /\ \A f \in Flushes : Routed(f) /\ Written(f) /\ Kept(f)

-----------------------------------------------------------------------------
(* The operators. *)

LEMMA RecordAt ==
    ASSUME NEW f \in Flushes, NEW i \in DOMAIN Chunk[f]
    PROVE  Chunk[f][i] \in Records
BY DEF Records

LEMMA MarkedType ==
    ASSUME NEW chain \in Seq(RuleSet), NEW window
    PROVE  Marked(chain, window) \subseteq Keys
<1> SUFFICES ASSUME NEW i \in DOMAIN chain PROVE chain[i].key \in Keys \cup {NoKey}
    BY DEF Marked, Applied
<1>1. chain[i] \in RuleSet
    OBVIOUS
<1> QED
    BY <1>1 DEF RuleSet

LEMMA ProcessType ==
    ASSUME NEW chain \in Seq(RuleSet), NEW window
    PROVE  Process(chain, window) \in Outcome
<1>1. ASSUME chain # << >> PROVE chain[Len(chain)] \in RuleSet
    BY <1>1
<1>2. /\ Process(chain, window).raw \in BOOLEAN
      /\ Process(chain, window).ngx \in BOOLEAN
      /\ Process(chain, window).cols \in SUBSET Collections
    BY <1>1 DEF Process, RuleSet
<1> QED
    BY <1>2 DEF Process, Outcome

LEMMA ProcessTargets ==
    ASSUME NEW chain \in Seq(RuleSet), NEW window,
           \A i \in DOMAIN chain : chain[i].act # "dedup"
    PROVE  Targets(chain) \subseteq Process(chain, window).cols
BY DEF Targets, Process, Stops, Drops

-----------------------------------------------------------------------------
(* Types. *)

\* What the invariant says of g where a step leaves g alone.
LEMMA PlaceFrame ==
    ASSUME NEW g \in Flushes, Place(g),
           pc'[g] = pc[g], tries'[g] = tries[g], pos'[g] = pos[g], batch'[g] = batch[g],
           ackTag'[g] = ackTag[g], hpc'[g] = hpc[g], results'[g] = results[g], left'[g] = left[g]
    PROVE  Place(g)'
BY DEF Place

\* The facts about one flush, one by one.
LEMMA At ==
    ASSUME TypeInv, NEW f \in Flushes
    PROVE  /\ Place(f)
           /\ pc[f] \in {"queued", "rows", "post", "wait", "acked", "dropped"}
           /\ hpc[f] \in {"idle", "decode", "route", "raw", "etl", "arango", "204", "400", "500"}
           /\ tries[f] \in Nat /\ tries[f] <= RetryLimit + 1
           /\ pos[f] \in Nat /\ pos[f] <= Len(Chunk[f])
           /\ batch[f] \in Seq(Records) /\ Len(batch[f]) \in Nat /\ Len(batch[f]) <= MaxRows
           /\ DOMAIN batch[f] = 1 .. Len(batch[f])
           /\ results[f] \in Seq(Outcome) /\ Len(results[f]) \in Nat
           /\ DOMAIN results[f] = 1 .. Len(results[f])
           /\ ackTag[f] \in Seq(Tags) /\ Len(ackTag[f]) \in Nat
           /\ DOMAIN ackTag[f] = 1 .. Len(ackTag[f])
           /\ left[f] \subseteq Collections
           /\ pc[f] = "wait" <=> hpc[f] # "idle"
<1>1. TypeOK /\ Place(f)
    BY DEF TypeInv
<1>2. batch[f] \in Seq(Records) /\ results[f] \in Seq(Outcome) /\ ackTag[f] \in Seq(Tags)
    BY <1>1 DEF TypeOK
<1>3. tries[f] \in 0 .. RetryLimit + 1
    BY <1>1 DEF TypeOK
<1>4. /\ pos[f] <= Len(Chunk[f]) /\ Len(batch[f]) <= MaxRows
      /\ pc[f] = "wait" <=> hpc[f] # "idle"
    BY <1>1 DEF Place
<1>5. /\ pc[f] \in {"queued", "rows", "post", "wait", "acked", "dropped"}
      /\ hpc[f] \in {"idle", "decode", "route", "raw", "etl", "arango", "204", "400", "500"}
      /\ pos[f] \in Nat /\ left[f] \subseteq Collections
    BY <1>1 DEF TypeOK
<1>6. tries[f] \in Nat /\ tries[f] <= RetryLimit + 1
    BY <1>3, DeliveryAssumption
<1> QED
    BY <1>1, <1>2, <1>4, <1>5, <1>6

LEMMA ChunkFacts ==
    ASSUME NEW f \in Flushes
    PROVE  /\ Chunk[f] \in Seq(Records) /\ Len(Chunk[f]) \in Nat \ {0}
           /\ DOMAIN Chunk[f] = 1 .. Len(Chunk[f])
BY DeliveryAssumption, EmptySeq

LEMMA AgainType ==
    ASSUME NEW f \in Flushes
    PROVE  /\ Again(f) \in {"queued", "dropped"}
           /\ Again(f) = "queued" => tries[f] <= RetryLimit
BY DEF Again

LEMMA TypeInit == Init => TypeInv
<1> SUFFICES ASSUME Init PROVE TypeInv
    OBVIOUS
<1>1. TypeOK
    BY DeliveryAssumption DEF Init, TypeOK
<1>2. \A f \in Flushes : Place(f)
    BY DeliveryAssumption, ChunkFacts DEF Init, Place
<1> QED
    BY <1>1, <1>2 DEF TypeInv

LEMMA TypeCbFlush ==
    ASSUME TypeInv, NEW f \in Flushes, CbFlush(f)
    PROVE  TypeInv'
<1>1. TypeOK /\ pc[f] = "queued" /\ tries[f] \in Nat /\ tries[f] <= RetryLimit /\ hpc[f] = "idle"
    BY At DEF TypeInv, CbFlush, Place
<1>2. TypeOK'
    BY <1>1, DeliveryAssumption DEF site, CbFlush, TypeOK, handler, stores
<1>3. Place(f)'
    BY <1>1, ChunkFacts, DeliveryAssumption DEF CbFlush, TypeOK, Place, Piece, handler
<1>4. \A g \in Flushes \ {f} : Place(g)'
    BY <1>1, PlaceFrame DEF TypeInv, TypeOK, CbFlush, handler
<1> QED
    BY <1>2, <1>3, <1>4 DEF TypeInv

\* A piece of c that ends at p, with the next element of c, is a piece of c.
LEMMA NextPiece ==
    ASSUME NEW S, NEW c \in Seq(S), NEW b \in Seq(S), NEW a \in Nat, NEW p \in Nat,
           p < Len(c), p = a + Len(b), Piece(b, c, a)
    PROVE  /\ Append(b, c[p + 1]) \in Seq(S) /\ Append(b, c[p + 1]) # << >>
           /\ Len(Append(b, c[p + 1])) = Len(b) + 1
           /\ p + 1 = a + Len(Append(b, c[p + 1])) /\ p + 1 <= Len(c)
           /\ Piece(Append(b, c[p + 1]), c, a)
<1>1. Len(c) \in Nat /\ Len(b) \in Nat /\ DOMAIN b = 1 .. Len(b) /\ c \in [1 .. Len(c) -> S]
    BY LenProperties
<1>2. p + 1 \in 1 .. Len(c)
    BY <1>1
<1>3. c[p + 1] \in S
    BY <1>1, <1>2
<1> DEFINE d == Append(b, c[p + 1])
<1>4. /\ d \in Seq(S) /\ d # << >> /\ Len(d) = Len(b) + 1
      /\ \A j \in 1 .. Len(b) : d[j] = b[j]
      /\ d[Len(b) + 1] = c[p + 1]
    BY <1>3, AppendProperties
<1>5. DOMAIN d = 1 .. Len(b) + 1
    BY <1>4, LenProperties
<1> HIDE DEF d
<1>6. ASSUME NEW j \in 1 .. Len(b) + 1 PROVE d[j] = c[a + j]
  <2>1. CASE j = Len(b) + 1
    BY <2>1, <1>1, <1>4
  <2>2. CASE j \in 1 .. Len(b)
    BY <2>2, <1>1, <1>4 DEF Piece
  <2> QED
    BY <2>1, <2>2, <1>1
<1>7. p + 1 = a + Len(d) /\ p + 1 <= Len(c)
    BY <1>1, <1>4
<1> QED
    BY <1>4, <1>5, <1>6, <1>7 DEF d, Piece

LEMMA TypeAppendRow ==
    ASSUME TypeInv, NEW f \in Flushes, AppendRow(f)
    PROVE  TypeInv'
<1> DEFINE b == Append(batch[f], Chunk[f][pos[f] + 1])
<1>1. /\ TypeOK /\ Place(f) /\ hpc[f] = "idle" /\ pc[f] = "rows"
      /\ pos[f] \in Nat /\ pos[f] < Len(Chunk[f])
      /\ Len(batch[f]) \in Nat /\ Len(batch[f]) < MaxRows
      /\ Len(ackTag[f]) \in Nat /\ pos[f] = Len(ackTag[f]) + Len(batch[f])
      /\ batch[f] \in Seq(Records)
      /\ Piece(batch[f], Chunk[f], Len(ackTag[f]))
    BY At DEF TypeInv, AppendRow, Place
<1>2. Chunk[f] \in Seq(Records) /\ Len(Chunk[f]) \in Nat /\ MaxRows \in Nat
    BY ChunkFacts, DeliveryAssumption
<1>3. /\ b \in Seq(Records) /\ b # << >> /\ Len(b) = Len(batch[f]) + 1
      /\ pos[f] + 1 = Len(ackTag[f]) + Len(b) /\ pos[f] + 1 <= Len(Chunk[f])
      /\ Piece(b, Chunk[f], Len(ackTag[f]))
  <2> DEFINE c == Chunk[f]
             q == batch[f]
             a == Len(ackTag[f])
             p == pos[f]
  <2>1. c \in Seq(Records) /\ q \in Seq(Records) /\ a \in Nat /\ p \in Nat
    BY <1>1, <1>2
  <2>2. p < Len(c) /\ p = a + Len(q)
    BY <1>1
  <2>3. Piece(q, c, a)
    BY <1>1
  <2> HIDE DEF c, q, a, p
  <2>4. /\ Append(q, c[p + 1]) \in Seq(Records) /\ Append(q, c[p + 1]) # << >>
        /\ Len(Append(q, c[p + 1])) = Len(q) + 1
        /\ p + 1 = a + Len(Append(q, c[p + 1])) /\ p + 1 <= Len(c)
        /\ Piece(Append(q, c[p + 1]), c, a)
    BY <2>1, <2>2, <2>3, NextPiece
  <2> QED
    BY <2>4, Zenon DEF c, q, a, p
<1> HIDE DEF b
<1>4. /\ batch' = [batch EXCEPT ![f] = b] /\ pos' = [pos EXCEPT ![f] = pos[f] + 1]
      /\ pc' = IF Len(b) >= MaxRows \/ pos[f] + 1 = Len(Chunk[f])
               THEN [pc EXCEPT ![f] = "post"] ELSE pc
      /\ tries' = tries /\ ackTag' = ackTag /\ hpc' = hpc /\ results' = results /\ left' = left
      /\ seen' = seen /\ docs' = docs /\ missed' = missed /\ lakeOn' = lakeOn /\ room' = room
    BY <1>1 DEF AppendRow, TypeOK, b, handler, stores, site
<1>5. TypeOK'
    BY <1>1, <1>3, <1>4 DEF TypeOK
<1>6. batch'[f] = b /\ pos'[f] = pos[f] + 1 /\ pc'[f] \in {"rows", "post"}
    BY <1>1, <1>4 DEF TypeOK
<1>7. pc'[f] = "rows" => ~(Len(b) >= MaxRows) /\ pos[f] + 1 # Len(Chunk[f])
    BY <1>1, <1>4 DEF TypeOK
<1>8. /\ pc'[f] = "rows" => Len(b) < MaxRows /\ pos[f] + 1 < Len(Chunk[f])
      /\ Len(b) <= MaxRows
  <2>1. /\ Len(b) = Len(batch[f]) + 1 /\ pos[f] + 1 <= Len(Chunk[f])
        /\ Len(batch[f]) \in Nat /\ Len(batch[f]) < MaxRows /\ pos[f] \in Nat
    BY <1>1, <1>3
  <2> QED
    BY <2>1, <1>2, <1>7
<1>9. Place(f)'
    BY <1>1, <1>3, <1>4, <1>6, <1>8 DEF Place
<1>10. \A g \in Flushes \ {f} : Place(g)'
    BY <1>1, <1>4, PlaceFrame DEF TypeInv, TypeOK
<1> QED
    BY <1>5, <1>9, <1>10 DEF TypeInv

LEMMA TypePost ==
    ASSUME TypeInv, NEW f \in Flushes, Post(f) \/ PostFails(f)
    PROVE  TypeInv'
<1>1. TypeOK /\ Place(f) /\ pc[f] \in {"rows", "post"} /\ hpc[f] = "idle"
    BY At DEF TypeInv, Post, PostFails, Place
<1>2. CASE Post(f)
  <2>1. TypeOK'
    BY <1>1, <1>2 DEF site, Post, TypeOK, stores
  <2>2. Place(f)'
    BY <1>1, <1>2 DEF Post, TypeOK, Place
  <2>3. \A g \in Flushes \ {f} : Place(g)'
    BY <1>1, <1>2, PlaceFrame DEF TypeInv, TypeOK, Post
  <2> QED
    BY <2>1, <2>2, <2>3 DEF TypeInv
<1>3. CASE PostFails(f)
  <2> PICK next \in {Again(f), "dropped"} : pc' = [pc EXCEPT ![f] = next]
    BY <1>3 DEF PostFails
  <2>1. TypeOK'
    BY <1>1, <1>3, AgainType DEF site, PostFails, TypeOK, handler, stores
  <2>2. Place(f)'
    BY <1>1, <1>3, AgainType DEF PostFails, TypeOK, Place, handler
  <2>3. \A g \in Flushes \ {f} : Place(g)'
    BY <1>1, <1>3, PlaceFrame DEF TypeInv, TypeOK, PostFails, handler
  <2> QED
    BY <2>1, <2>2, <2>3 DEF TypeInv
<1> QED
    BY <1>2, <1>3

\* Handlers end only for flushes that then no longer wait.
LEMMA TypeHandlerEnds ==
    ASSUME TypeOK, NEW F \in SUBSET Flushes, HandlerEnds(F)
    PROVE  /\ hpc' \in [Flushes -> {"idle", "decode", "route", "raw", "etl", "arango", "204", "400", "500"}]
           /\ results' \in [Flushes -> Seq(Outcome)]
           /\ left' \in [Flushes -> SUBSET Collections]
           /\ \A f \in F : hpc'[f] = "idle"
           /\ \A g \in Flushes \ F : hpc'[g] = hpc[g] /\ results'[g] = results[g] /\ left'[g] = left[g]
BY DEF TypeOK, HandlerEnds

LEMMA TypeConnectionLost ==
    ASSUME TypeInv, NEW f \in Flushes, ConnectionLost(f)
    PROVE  TypeInv'
<1>1. TypeOK /\ Place(f) /\ HandlerEnds({f})
    BY DEF TypeInv, ConnectionLost
<1>2. TypeOK'
    BY <1>1, TypeHandlerEnds, AgainType DEF site, ConnectionLost, TypeOK, stores
<1>3. /\ hpc'[f] = "idle"
      /\ \A g \in Flushes \ {f} : hpc'[g] = hpc[g] /\ results'[g] = results[g] /\ left'[g] = left[g]
    BY <1>1, TypeHandlerEnds
<1>4. /\ pc'[f] = Again(f)
      /\ \A g \in Flushes \ {f} : pc'[g] = pc[g]
      /\ tries' = tries /\ pos' = pos /\ batch' = batch /\ ackTag' = ackTag
    BY <1>1 DEF ConnectionLost, TypeOK
<1>5. Place(f)'
    BY <1>1, <1>3, <1>4, AgainType DEF Place
<1>6. \A g \in Flushes \ {f} : Place(g)'
    BY <1>3, <1>4, PlaceFrame DEF TypeInv
<1> QED
    BY <1>2, <1>5, <1>6 DEF TypeInv

LEMMA TypeServiceCrash ==
    ASSUME TypeInv, ServiceCrash
    PROVE  TypeInv'
<1>1. TypeOK /\ HandlerEnds(Flushes)
    BY DEF TypeInv, ServiceCrash
<1>2. TypeOK'
    BY <1>1, TypeHandlerEnds, AgainType DEF site, ServiceCrash, TypeOK, stores
<1>3. ASSUME NEW g \in Flushes PROVE Place(g)'
  <2>1. Place(g) /\ hpc'[g] = "idle"
    BY <1>1, TypeHandlerEnds DEF TypeInv
  <2> QED
    BY <1>1, <2>1, AgainType DEF ServiceCrash, TypeOK, Place
<1> QED
    BY <1>2, <1>3 DEF TypeInv

LEMMA FrameTagType ==
    ASSUME NEW rows \in Seq(Records), rows # << >>
    PROVE  FrameTag(rows) \in Tags
<1>1. Len(rows) \in 1 .. Len(rows) /\ rows \in [1 .. Len(rows) -> Records]
    BY EmptySeq, LenProperties
<1>2. rows[Len(rows)] \in Records
    BY <1>1
<1> QED
    BY <1>2, DeliveryAssumption DEF FrameTag

\* The tags the rows of an accepted frame are noted with.
LEMMA AckedTags ==
    ASSUME NEW tags \in Seq(Tags), NEW rows \in Seq(Records), rows # << >>
    PROVE  LET all == tags \o [i \in DOMAIN rows |-> FrameTag(rows)] IN
           /\ all \in Seq(Tags)
           /\ Len(all) = Len(tags) + Len(rows)
           /\ \A i \in 1 .. Len(tags) : all[i] = tags[i]
           /\ \A j \in 1 .. Len(rows) : all[Len(tags) + j] = FrameTag(rows)
<1> DEFINE new == [i \in DOMAIN rows |-> FrameTag(rows)]
<1>1. FrameTag(rows) \in Tags
    BY FrameTagType
<1>2. DOMAIN rows = 1 .. Len(rows) /\ Len(rows) \in Nat /\ Len(tags) \in Nat
    BY LenProperties
<1>3. /\ new \in Seq(Tags) /\ Len(new) = Len(rows)
      /\ \A j \in 1 .. Len(rows) : new[j] = FrameTag(rows)
    BY <1>1, <1>2
<1> HIDE DEF new
<1>4. /\ tags \o new \in Seq(Tags) /\ Len(tags \o new) = Len(tags) + Len(rows)
      /\ \A i \in 1 .. Len(tags) + Len(rows) :
            (tags \o new)[i] = IF i <= Len(tags) THEN tags[i] ELSE new[i - Len(tags)]
  <2>1. new \in Seq(Tags)
    BY <1>3
  <2>2. /\ tags \o new \in Seq(Tags) /\ Len(tags \o new) = Len(tags) + Len(new)
        /\ \A i \in 1 .. Len(tags) + Len(new) :
              (tags \o new)[i] = IF i <= Len(tags) THEN tags[i] ELSE new[i - Len(tags)]
    BY <2>1, ConcatProperties
  <2> QED
    BY <2>2, <1>3
<1>5. ASSUME NEW i \in 1 .. Len(tags) PROVE (tags \o new)[i] = tags[i]
  <2>1. i \in 1 .. Len(tags) + Len(rows) /\ i <= Len(tags)
    BY <1>2
  <2> QED
    BY <2>1, <1>4
<1>6. ASSUME NEW j \in 1 .. Len(rows) PROVE (tags \o new)[Len(tags) + j] = FrameTag(rows)
  <2>1. /\ Len(tags) + j \in 1 .. Len(tags) + Len(rows)
        /\ ~(Len(tags) + j <= Len(tags)) /\ (Len(tags) + j) - Len(tags) = j
    BY <1>2
  <2> QED
    BY <2>1, <1>3, <1>4
<1> QED
    BY <1>4, <1>5, <1>6 DEF new

LEMMA TypeAccepted ==
    ASSUME TypeInv, NEW f \in Flushes, Answer(f), hpc[f] = "204"
    PROVE  TypeInv'
<1> DEFINE tags == ackTag[f] \o [i \in DOMAIN batch[f] |-> FrameTag(batch[f])]
<1>1. /\ TypeOK /\ HandlerEnds({f}) /\ Accepted(f)
      /\ tries' = tries /\ pos' = pos /\ seen' = seen /\ docs' = docs /\ missed' = missed
      /\ lakeOn' = lakeOn /\ room' = room
    BY DEF TypeInv, Answer, stores, site
<1>2. /\ ackTag[f] \in Seq(Tags) /\ batch[f] \in Seq(Records) /\ batch[f] # << >>
      /\ pos[f] \in Nat /\ pos[f] <= Len(Chunk[f]) /\ pos[f] = Len(ackTag[f]) + Len(batch[f])
    BY At DEF Place
<1>3. tags \in Seq(Tags) /\ Len(tags) = pos[f]
    BY <1>2, AckedTags
<1> HIDE DEF tags
<1>4. /\ hpc'[f] = "idle"
      /\ \A g \in Flushes \ {f} : hpc'[g] = hpc[g] /\ results'[g] = results[g] /\ left'[g] = left[g]
    BY <1>1, TypeHandlerEnds
<1>5. /\ pc' = [pc EXCEPT ![f] = IF pos[f] = Len(Chunk[f]) THEN "acked" ELSE "rows"]
      /\ ackTag' = [ackTag EXCEPT ![f] = tags]
      /\ batch' = [batch EXCEPT ![f] = << >>]
    BY <1>1 DEF Accepted, tags, TypeOK
<1>6. TypeOK'
    BY <1>1, <1>3, <1>5, TypeHandlerEnds, SMTT(30) DEF TypeOK
<1>7. /\ batch'[f] = << >> /\ ackTag'[f] = tags
      /\ pc'[f] = IF pos[f] = Len(Chunk[f]) THEN "acked" ELSE "rows"
    BY <1>1, <1>5 DEF TypeOK
<1>8. pc'[f] = "rows" => pos[f] < Len(Chunk[f])
  <2>1. Len(Chunk[f]) \in Nat /\ pos[f] \in Nat /\ pos[f] <= Len(Chunk[f])
    BY <1>2, ChunkFacts
  <2> QED
    BY <2>1, <1>7
<1>9. /\ Len(batch'[f]) = 0 /\ Piece(batch'[f], Chunk[f], Len(tags))
      /\ 0 < MaxRows /\ 0 <= MaxRows /\ pos[f] = Len(tags) + 0
    BY <1>2, <1>3, <1>7, DeliveryAssumption DEF Piece
<1>10. /\ pos'[f] = pos[f] /\ pos[f] <= Len(Chunk[f]) /\ Len(tags) = pos[f]
       /\ pc'[f] = "acked" => pos[f] = Len(Chunk[f])
       /\ pc'[f] \in {"acked", "rows"}
    BY <1>1, <1>2, <1>3, <1>7
<1>11. Place(f)'
    BY <1>4, <1>7, <1>8, <1>9, <1>10 DEF Place
<1>12. \A g \in Flushes \ {f} : Place(g)'
    BY <1>1, <1>4, <1>5, PlaceFrame DEF TypeInv, TypeOK
<1> QED
    BY <1>6, <1>11, <1>12 DEF TypeInv

LEMMA TypeRefused ==
    ASSUME TypeInv, NEW f \in Flushes, Answer(f), hpc[f] # "204"
    PROVE  TypeInv'
<1>1. /\ TypeOK /\ Place(f) /\ HandlerEnds({f}) /\ Refused(f) /\ stores' = stores
      /\ tries' = tries /\ pos' = pos /\ seen' = seen /\ lakeOn' = lakeOn /\ room' = room
    BY DEF TypeInv, Answer, site
<1>2. /\ hpc'[f] = "idle"
      /\ \A g \in Flushes \ {f} : hpc'[g] = hpc[g] /\ results'[g] = results[g] /\ left'[g] = left[g]
    BY <1>1, TypeHandlerEnds
<1>3. /\ pc'[f] = Again(f)
      /\ \A g \in Flushes \ {f} : pc'[g] = pc[g]
      /\ batch' = batch /\ ackTag' = ackTag
    BY <1>1 DEF Refused, TypeOK
<1>4. TypeOK'
  <2>1. pc' \in [Flushes -> {"queued", "rows", "post", "wait", "acked", "dropped"}]
    BY <1>1, AgainType DEF Refused, TypeOK
  <2>2. /\ hpc' \in [Flushes -> {"idle", "decode", "route", "raw", "etl", "arango", "204", "400", "500"}]
        /\ results' \in [Flushes -> Seq(Outcome)] /\ left' \in [Flushes -> SUBSET Collections]
    BY <1>1, TypeHandlerEnds
  <2>3. docs' = docs /\ missed' = missed
    BY <1>1 DEF stores
  <2> QED
    BY <1>1, <1>3, <2>1, <2>2, <2>3 DEF TypeOK
<1>5. Place(f)'
    BY <1>1, <1>2, <1>3, AgainType DEF Place
<1>6. \A g \in Flushes \ {f} : Place(g)'
    BY <1>1, <1>2, <1>3, PlaceFrame DEF TypeInv
<1> QED
    BY <1>4, <1>5, <1>6 DEF TypeInv

\* A step of the handler of f leaves the plugin, and the other handlers, alone.
LEMMA HandlerFrame ==
    ASSUME TypeInv, NEW f \in Flushes, UNCHANGED plugin,
           \A g \in Flushes \ {f} :
               hpc'[g] = hpc[g] /\ results'[g] = results[g] /\ left'[g] = left[g]
    PROVE  \A g \in Flushes \ {f} : Place(g)'
BY PlaceFrame DEF TypeInv, plugin

\* The rules that apply to a row are a sequence of rules.
LEMMA ChainType ==
    ASSUME NEW rows \in Seq(Records), NEW i \in DOMAIN rows
    PROVE  ChainOf(rows, i) \in Seq(RuleSet)
<1>1. rows # << >> /\ rows[i] \in Records
    BY LenProperties
<1> QED
    BY <1>1, FrameTagType, DeliveryAssumption DEF ChainOf

LEMMA TypeDecode ==
    ASSUME TypeInv, NEW f \in Flushes, HandleBinary(f) \/ Processed(f)
    PROVE  TypeInv'
<1>1. /\ TypeOK /\ Place(f) /\ UNCHANGED plugin /\ hpc[f] # "idle"
      /\ Len(batch[f]) \in Nat /\ batch[f] \in Seq(Records)
      /\ pc[f] = "wait" /\ batch[f] # << >>
    BY At DEF TypeInv, HandleBinary, Processed, Place
<1>2. CASE HandleBinary(f)
  <2>1. TypeOK'
    BY <1>1, <1>2 DEF site, HandleBinary, TypeOK, plugin, stores
  <2>2. hpc'[f] \in {"route", "400"} /\ results'[f] = << >>
    BY <1>1, <1>2 DEF HandleBinary, TypeOK
  <2>3. Len(<< >>) < Len(batch[f])
    BY <1>1, EmptySeq
  <2>4. Place(f)'
    BY <1>1, <2>2, <2>3 DEF Place, plugin
  <2>5. \A g \in Flushes \ {f} : Place(g)'
    BY <1>1, <1>2, HandlerFrame DEF HandleBinary, TypeOK
  <2> QED
    BY <2>1, <2>4, <2>5 DEF TypeInv
<1>3. CASE Processed(f)
  <2>1. TypeOK'
    BY <1>1, <1>3 DEF site, Processed, TypeOK, plugin, stores
  <2>2. Place(f)'
    BY <1>1, <1>3 DEF Processed, TypeOK, Place, plugin
  <2>3. \A g \in Flushes \ {f} : Place(g)'
    BY <1>1, <1>3, HandlerFrame DEF Processed, TypeOK
  <2> QED
    BY <2>1, <2>2, <2>3 DEF TypeInv
<1> QED
    BY <1>2, <1>3

LEMMA TypeRoute ==
    ASSUME TypeInv, NEW f \in Flushes, Route(f)
    PROVE  TypeInv'
<1> DEFINE i == Len(results[f]) + 1
           chain == ChainOf(batch[f], i)
           more == Append(results[f], Process(chain, seen))
<1>1. /\ TypeOK /\ Place(f) /\ UNCHANGED plugin /\ pc[f] = "wait" /\ hpc[f] = "route"
      /\ batch[f] \in Seq(Records) /\ DOMAIN batch[f] = 1 .. Len(batch[f])
      /\ Len(batch[f]) \in Nat /\ Len(results[f]) \in Nat /\ Len(results[f]) < Len(batch[f])
      /\ results[f] \in Seq(Outcome)
    BY At, Zenon DEF TypeInv, Route, Place
<1>2. i \in DOMAIN batch[f]
    BY <1>1
<1>3. chain \in Seq(RuleSet)
    BY <1>1, <1>2, ChainType
<1>4. Process(chain, seen) \in Outcome /\ Marked(chain, seen) \subseteq Keys
    BY <1>3, ProcessType, MarkedType
<1>5. more \in Seq(Outcome) /\ Len(more) = i
    BY <1>1, <1>4, AppendProperties
<1> HIDE DEF more, chain
<1>6. /\ results' = [results EXCEPT ![f] = more]
      /\ seen' = seen \cup Marked(chain, seen)
      /\ hpc' = [hpc EXCEPT ![f] = IF i = Len(batch[f]) THEN "raw" ELSE "route"]
      /\ UNCHANGED <<site, plugin, left, stores>>
    BY <1>1, Zenon DEF Route, more, chain, TypeOK
<1>7. TypeOK'
    BY <1>1, <1>4, <1>5, <1>6, Zenon DEF site, TypeOK, plugin, stores
<1>8. /\ results'[f] = more /\ left'[f] = left[f]
      /\ hpc'[f] = IF i = Len(batch[f]) THEN "raw" ELSE "route"
    BY <1>1, <1>6, Zenon DEF TypeOK
<1>9. /\ hpc'[f] \in {"raw", "route"}
      /\ hpc'[f] = "route" => Len(results'[f]) < Len(batch[f])
      /\ hpc'[f] = "raw" => Len(results'[f]) = Len(batch[f])
    BY <1>1, <1>5, <1>8
<1>10. Place(f)'
    BY <1>1, <1>9 DEF Place, plugin
<1>11. \A g \in Flushes \ {f} : Place(g)'
    BY <1>1, <1>6, HandlerFrame, Zenon DEF TypeOK
<1> QED
    BY <1>7, <1>10, <1>11 DEF TypeInv

\* Ingest adds no record to missed that is not one.
LEMMA IngestType ==
    ASSUME TypeInv, NEW f \in Flushes, hpc[f] \in {"raw", "etl"},
           NEW rows \in SUBSET DOMAIN results[f], NEW index, Ingest(f, rows, index)
    PROVE  missed' \subseteq Records
<1>1. /\ missed \subseteq Records
      /\ rows \subseteq DOMAIN batch[f] /\ batch[f] \in [DOMAIN batch[f] -> Records]
    BY At, LenProperties DEF TypeInv, TypeOK, Place
<1>2. {batch[f][i] : i \in rows} \subseteq Records
    BY <1>1
<1> QED
    BY <1>1, <1>2 DEF Ingest

LEMMA TypeFlushLake ==
    ASSUME TypeInv, NEW f \in Flushes, FlushRaw(f) \/ FlushEtl(f)
    PROVE  TypeInv'
<1>1. TypeOK /\ Place(f) /\ UNCHANGED plugin /\ pc[f] = "wait"
    BY At DEF TypeInv, FlushRaw, FlushEtl, Place
<1>2. CASE FlushRaw(f)
  <2>1. missed' \subseteq Records
    BY <1>2, IngestType DEF FlushRaw, RawRows
  <2>2. TypeOK'
    BY <1>1, <1>2, <2>1 DEF site, FlushRaw, TypeOK, plugin
  <2>3. Place(f)'
    BY <1>1, <1>2 DEF FlushRaw, TypeOK, Place, plugin
  <2>4. \A g \in Flushes \ {f} : Place(g)'
    BY <1>1, <1>2, HandlerFrame DEF FlushRaw, TypeOK
  <2> QED
    BY <2>2, <2>3, <2>4 DEF TypeInv
<1>3. CASE FlushEtl(f)
  <2>1. missed' \subseteq Records
    BY <1>3, IngestType DEF FlushEtl, NgxRows
  <2>2. TypeOK'
    BY <1>1, <1>3, <2>1 DEF site, FlushEtl, TypeOK, plugin
  <2>3. Place(f)'
    BY <1>1, <1>3 DEF FlushEtl, TypeOK, Place, plugin
  <2>4. \A g \in Flushes \ {f} : Place(g)'
    BY <1>1, <1>3, HandlerFrame DEF FlushEtl, TypeOK
  <2> QED
    BY <2>2, <2>3, <2>4 DEF TypeInv
<1> QED
    BY <1>2, <1>3

\* Inserted adds documents and takes none away.
LEMMA InsertedType ==
    ASSUME docs \in [Records -> [Collections -> Nat]],
           NEW f, NEW c \in Collections, NEW rows
    PROVE  /\ Inserted(f, c, rows) \in [Records -> [Collections -> Nat]]
           /\ \A r \in Records, d \in Collections : Inserted(f, c, rows)[r][d] >= docs[r][d]
           /\ \A i \in rows : batch[f][i] \in Records => Inserted(f, c, rows)[batch[f][i]][c] > 0
BY DEF Inserted

LEMMA TypeBulkCreate ==
    ASSUME TypeInv, NEW f \in Flushes, NEW c \in Collections, BulkCreate(f, c) \/ BulkCreateFails(f, c)
    PROVE  TypeInv'
<1>1. /\ TypeOK /\ Place(f) /\ UNCHANGED plugin /\ pc[f] = "wait"
      /\ docs \in [Records -> [Collections -> Nat]]
    BY At DEF TypeInv, BulkCreate, BulkCreateFails, Place, TypeOK
<1>2. docs' \in [Records -> [Collections -> Nat]]
  <2>1. PICK rows : docs' = Inserted(f, c, rows)
    BY DEF BulkCreate, BulkCreateFails
  <2>2. Inserted(f, c, rows) \in [Records -> [Collections -> Nat]]
    BY <1>1, InsertedType
  <2> QED
    BY <2>1, <2>2
<1>3. CASE BulkCreate(f, c)
  <2>1. TypeOK'
    BY <1>1, <1>2, <1>3 DEF site, BulkCreate, TypeOK, plugin
  <2>2. Place(f)'
    BY <1>1, <1>3 DEF BulkCreate, TypeOK, Place, plugin
  <2>3. \A g \in Flushes \ {f} : Place(g)'
    BY <1>1, <1>3, HandlerFrame DEF BulkCreate, TypeOK
  <2> QED
    BY <2>1, <2>2, <2>3 DEF TypeInv
<1>4. CASE BulkCreateFails(f, c)
  <2>1. TypeOK'
    BY <1>1, <1>2, <1>4 DEF site, BulkCreateFails, TypeOK, plugin
  <2>2. Place(f)'
    BY <1>1, <1>4 DEF BulkCreateFails, TypeOK, Place, plugin
  <2>3. \A g \in Flushes \ {f} : Place(g)'
    BY <1>1, <1>4, HandlerFrame DEF BulkCreateFails, TypeOK
  <2> QED
    BY <2>1, <2>2, <2>3 DEF TypeInv
<1> QED
    BY <1>3, <1>4

\* A step that changes neither plugin nor handlers.
LEMMA TypeIdle ==
    ASSUME TypeInv, UNCHANGED <<site, plugin, handler, stores>>, seen' \subseteq seen
    PROVE  TypeInv'
<1>1. TypeOK'
    BY DEF site, TypeInv, TypeOK, plugin, handler, stores
<1>2. \A g \in Flushes : Place(g)'
    BY PlaceFrame DEF TypeInv, plugin, handler
<1> QED
    BY <1>1, <1>2 DEF TypeInv

LEMMA TypeStep == TypeInv /\ [Next]_vars => TypeInv'
<1> SUFFICES ASSUME TypeInv, [Next]_vars PROVE TypeInv'
    OBVIOUS
<1>1. ASSUME NEW f \in Flushes, PluginStep(f) PROVE TypeInv'
    BY <1>1, TypeCbFlush, TypeAppendRow, TypePost, TypeAccepted, TypeRefused DEF PluginStep
<1>2. ASSUME NEW f \in Flushes, HandlerStep(f) PROVE TypeInv'
    BY <1>2, TypeDecode, TypeRoute, TypeFlushLake, TypeBulkCreate DEF HandlerStep
<1>3. ASSUME NEW f \in Flushes, PostFails(f) PROVE TypeInv'
    BY <1>3, TypePost
<1>4. ASSUME NEW f \in Flushes, ConnectionLost(f) PROVE TypeInv'
    BY <1>4, TypeConnectionLost
<1>5. ASSUME NEW k \in seen, WindowExpires(k) PROVE TypeInv'
    BY <1>5, TypeIdle DEF WindowExpires
<1>6. CASE ServiceCrash
    BY <1>6, TypeServiceCrash
<1>7. CASE UNCHANGED vars
    BY <1>7, TypeIdle DEF vars
<1> QED
    BY <1>1, <1>2, <1>3, <1>4, <1>5, <1>6, <1>7 DEF Next

\* The variables of the plugin, of the handlers and of the stores always have
\* their types, and no chunk is flushed more often than retry_limit allows.
THEOREM TypeCorrect == Spec => []TypeOK
<1>1. TypeInv => TypeOK
    BY DEF TypeInv
<1> QED
    BY <1>1, TypeInit, TypeStep, PTL DEF Spec

-----------------------------------------------------------------------------
(* Storage. *)

LEMMA StoreInit == Init => StoreInv
<1> SUFFICES ASSUME Init PROVE StoreInv
    OBVIOUS
<1>1. TypeInv
    BY TypeInit
<1>2. \A f \in Flushes : Routed(f) /\ Written(f) /\ Kept(f)
    BY DEF Init, Routed, Written, Kept
<1> QED
    BY <1>1, <1>2 DEF StoreInv

\* Documents are never removed, so that what was written stays written.
Grows == \A r \in Records, c \in Collections : docs[r][c] > 0 => docs'[r][c] > 0

\* The targets of a chain of rules are collections.
LEMMA TargetsType ==
    ASSUME NEW chain \in Seq(RuleSet)
    PROVE  Targets(chain) \subseteq Collections
<1>1. chain # << >> => chain[Len(chain)] \in RuleSet
    BY EmptySeq, LenProperties
<1> QED
    BY <1>1 DEF Targets, RuleSet

\* The records a flush has in hand, and what they are sent to.
LEMMA Hand ==
    ASSUME TypeInv, NEW f \in Flushes
    PROVE  /\ \A j \in DOMAIN batch[f] : /\ batch[f][j] \in Records
                                         /\ Targets(ChainOf(batch[f], j)) \subseteq Collections
           /\ pc[f] \in {"rows", "post", "wait", "acked"} =>
                \A i \in DOMAIN ackTag[f] :
                    /\ Chunk[f][i] \in Records
                    /\ Targets(Rules[ackTag[f][i]][Chunk[f][i]]) \subseteq Collections
<1>1. batch[f] \in Seq(Records) /\ ackTag[f] \in Seq(Tags)
    BY At
<1>2. ASSUME NEW j \in DOMAIN batch[f]
      PROVE  batch[f][j] \in Records /\ Targets(ChainOf(batch[f], j)) \subseteq Collections
    BY <1>1, <1>2, ChainType, TargetsType, LenProperties
<1>3. ASSUME pc[f] \in {"rows", "post", "wait", "acked"}, NEW i \in DOMAIN ackTag[f]
      PROVE  /\ Chunk[f][i] \in Records
             /\ Targets(Rules[ackTag[f][i]][Chunk[f][i]]) \subseteq Collections
  <2>a. /\ Place(f) /\ Len(ackTag[f]) \in Nat /\ Len(batch[f]) \in Nat /\ Len(Chunk[f]) \in Nat
        /\ pos[f] \in Nat /\ pos[f] <= Len(Chunk[f]) /\ DOMAIN ackTag[f] = 1 .. Len(ackTag[f])
    BY At, ChunkFacts
  <2>b. pos[f] = Len(ackTag[f]) + Len(batch[f]) \/ Len(ackTag[f]) = Len(Chunk[f])
    BY <1>3, <2>a DEF Place
  <2>1. Len(ackTag[f]) <= Len(Chunk[f])
    <3> DEFINE a == Len(ackTag[f])
               b == Len(batch[f])
               c == Len(Chunk[f])
               p == pos[f]
    <3>1. a \in Nat /\ b \in Nat /\ c \in Nat /\ p \in Nat /\ p <= c /\ (p = a + b \/ a = c)
      BY <2>a, <2>b
    <3> HIDE DEF a, b, c, p
    <3>2. a <= c
      BY <3>1
    <3> QED
      BY <3>2 DEF a, c
  <2>2. i \in 1 .. Len(Chunk[f])
    BY <2>1, <2>a
  <2>3. Chunk[f][i] \in Records /\ ackTag[f][i] \in Tags
    BY <2>2, <1>1, ChunkFacts, LenProperties
  <2> QED
    BY <2>3, TargetsType, DeliveryAssumption
<1> QED
    BY <1>2, <1>3

\* What the invariant says of g where a step leaves g alone.
LEMMA StoreFrame ==
    ASSUME StoreInv, Grows, NEW g \in Flushes,
           pc'[g] = pc[g], batch'[g] = batch[g], ackTag'[g] = ackTag[g],
           hpc'[g] = hpc[g], results'[g] = results[g], left'[g] = left[g]
    PROVE  Routed(g)' /\ Written(g)' /\ Kept(g)'
<1>1. TypeInv /\ Routed(g) /\ Written(g) /\ Kept(g)
    BY DEF StoreInv
<1>2. Routed(g)'
    BY <1>1, Zenon DEF Routed, ChainOf, FrameTag, Targets
<1>3. Written(g)'
  <2> SUFFICES ASSUME hpc[g] \in {"arango", "204"}, NEW j \in DOMAIN batch[g],
                      NEW c \in Targets(ChainOf(batch[g], j))
               PROVE  c \in left[g] \/ docs'[batch[g][j]][c] > 0
    BY Zenon DEF Written, ChainOf, FrameTag, Targets
  <2>1. c \in left[g] \/ docs[batch[g][j]][c] > 0
    BY <1>1 DEF Written
  <2>2. batch[g][j] \in Records /\ c \in Collections
    BY <1>1, Hand
  <2> QED
    BY <2>1, <2>2 DEF Grows
<1>4. Kept(g)'
    BY <1>1, Hand, ZenonT(60) DEF Kept, Targets, Grows
<1> QED
    BY <1>2, <1>3, <1>4

\* No row of the chunk is in an accepted frame.
Blank(tags) == DOMAIN tags = {}

\* A step that only changes the plugin of f, before it posts or as it gives up.
LEMMA StorePlugin ==
    ASSUME StoreInv, NEW f \in Flushes, UNCHANGED docs,
           hpc'[f] \in {"idle", "decode"},
           pc'[f] \in {"queued", "dropped"} \/ (pc[f] \in {"rows", "post"} /\ ackTag'[f] = ackTag[f]),
           \A g \in Flushes \ {f} :
               /\ pc'[g] = pc[g] /\ batch'[g] = batch[g] /\ ackTag'[g] = ackTag[g]
               /\ hpc'[g] = hpc[g] /\ results'[g] = results[g] /\ left'[g] = left[g]
    PROVE  \A g \in Flushes : Routed(g)' /\ Written(g)' /\ Kept(g)'
<1>1. Grows
    BY DEF Grows
<1>2. \A g \in Flushes \ {f} : Routed(g)' /\ Written(g)' /\ Kept(g)'
    BY <1>1, StoreFrame
<1>3. Routed(f)' /\ Written(f)'
    BY DEF Routed, Written
<1>4. Kept(f)'
  <2>1. CASE pc'[f] \in {"queued", "dropped"}
    BY <2>1 DEF Kept
  <2>2. CASE pc[f] \in {"rows", "post"} /\ ackTag'[f] = ackTag[f]
    <3> SUFFICES ASSUME NEW i \in DOMAIN ackTag'[f], NEW c \in Targets(Rules[ackTag'[f][i]][Chunk[f][i]])
                 PROVE  docs'[Chunk[f][i]][c] > 0
      BY Zenon DEF Kept, Targets
    <3>1. i \in DOMAIN ackTag[f] /\ c \in Targets(Rules[ackTag[f][i]][Chunk[f][i]]) /\ docs' = docs
      BY <2>2
    <3> QED
      BY <2>2, <3>1 DEF StoreInv, Kept
  <2> QED
    BY <2>1, <2>2
<1> QED
    BY <1>2, <1>3, <1>4

\* A step of a handler that only leads from one stage to the next.
LEMMA StoreHandler ==
    ASSUME StoreInv, NEW f \in Flushes, Grows, UNCHANGED plugin,
           \A g \in Flushes \ {f} : hpc'[g] = hpc[g] /\ results'[g] = results[g] /\ left'[g] = left[g],
           Routed(f)', Written(f)'
    PROVE  \A g \in Flushes : Routed(g)' /\ Written(g)' /\ Kept(g)'
<1>1. \A g \in Flushes \ {f} : Routed(g)' /\ Written(g)' /\ Kept(g)'
    BY StoreFrame DEF plugin
<1>2. Kept(f)'
  <2> SUFFICES ASSUME pc[f] \in {"rows", "post", "wait", "acked"}, NEW i \in DOMAIN ackTag[f],
                      NEW c \in Targets(Rules[ackTag[f][i]][Chunk[f][i]])
               PROVE  docs'[Chunk[f][i]][c] > 0
    BY Zenon DEF Kept, Targets, plugin
  <2>1. docs[Chunk[f][i]][c] > 0
    BY DEF StoreInv, Kept
  <2>2. Chunk[f][i] \in Records /\ c \in Collections
    BY Hand DEF StoreInv
  <2> QED
    BY <2>1, <2>2 DEF Grows
<1> QED
    BY <1>1, <1>2

LEMMA StorePluginSteps ==
    ASSUME StoreInv, NEW f \in Flushes,
           \/ CbFlush(f) \/ AppendRow(f) \/ Post(f) \/ PostFails(f) \/ ConnectionLost(f)
           \/ Answer(f) /\ hpc[f] # "204"
    PROVE  \A g \in Flushes : Routed(g)' /\ Written(g)' /\ Kept(g)'
<1>1. TypeInv /\ TypeOK /\ Place(f)
    BY DEF StoreInv, TypeInv
<1>2. CASE CbFlush(f)
  <2>1. /\ hpc' = hpc /\ hpc[f] = "idle" /\ Blank(ackTag'[f]) /\ docs' = docs
        /\ results' = results /\ left' = left
        /\ \A g \in Flushes \ {f} : pc'[g] = pc[g] /\ batch'[g] = batch[g] /\ ackTag'[g] = ackTag[g]
    BY <1>1, <1>2 DEF CbFlush, TypeOK, Place, Blank, handler, stores
  <2>2. \A g \in Flushes \ {f} : Routed(g)' /\ Written(g)' /\ Kept(g)'
    BY <2>1, StoreFrame DEF Grows
  <2>3. Routed(f)' /\ Written(f)'
    BY <2>1 DEF Routed, Written
  <2>4. Kept(f)'
    BY <2>1 DEF Kept, Blank
  <2> QED
    BY <2>2, <2>3, <2>4
<1>3. CASE AppendRow(f)
  <2>1. /\ hpc' = hpc /\ hpc[f] = "idle" /\ ackTag' = ackTag /\ docs' = docs /\ pc[f] = "rows"
        /\ results' = results /\ left' = left
        /\ \A g \in Flushes \ {f} : pc'[g] = pc[g] /\ batch'[g] = batch[g]
    BY <1>1, <1>3 DEF AppendRow, TypeOK, Place, handler, stores
  <2> QED
    BY <2>1, StorePlugin
<1>4. CASE Post(f)
    BY <1>1, <1>4, StorePlugin DEF Post, TypeOK, stores
<1>5. CASE PostFails(f)
  <2>1. PICK next \in {Again(f), "dropped"} : pc' = [pc EXCEPT ![f] = next]
    BY <1>5 DEF PostFails
  <2>2. /\ hpc'[f] = "idle" /\ pc'[f] \in {"queued", "dropped"} /\ docs' = docs
        /\ hpc' = hpc /\ results' = results /\ left' = left /\ batch' = batch /\ ackTag' = ackTag
        /\ \A g \in Flushes \ {f} : pc'[g] = pc[g]
    BY <1>1, <1>5, <2>1, AgainType DEF PostFails, TypeOK, Place, handler, stores
  <2> QED
    BY <2>2, StorePlugin
<1>6. CASE ConnectionLost(f)
  <2>1. /\ hpc'[f] = "idle"
        /\ \A g \in Flushes \ {f} : hpc'[g] = hpc[g] /\ results'[g] = results[g] /\ left'[g] = left[g]
    BY <1>1, <1>6, TypeHandlerEnds DEF ConnectionLost
  <2>2. /\ pc'[f] \in {"queued", "dropped"} /\ batch' = batch /\ ackTag' = ackTag /\ docs' = docs
        /\ \A g \in Flushes \ {f} : pc'[g] = pc[g]
    BY <1>1, <1>6, AgainType DEF ConnectionLost, TypeOK, stores
  <2> QED
    BY <2>1, <2>2, StorePlugin
<1>7. CASE Answer(f) /\ hpc[f] # "204"
  <2>1. /\ hpc'[f] = "idle"
        /\ \A g \in Flushes \ {f} : hpc'[g] = hpc[g] /\ results'[g] = results[g] /\ left'[g] = left[g]
    BY <1>1, <1>7, TypeHandlerEnds DEF Answer
  <2>2. /\ pc'[f] \in {"queued", "dropped"} /\ batch' = batch /\ ackTag' = ackTag /\ docs' = docs
        /\ \A g \in Flushes \ {f} : pc'[g] = pc[g]
    BY <1>1, <1>7, AgainType DEF Answer, Refused, TypeOK, stores
  <2> QED
    BY <2>1, <2>2, StorePlugin
<1> QED
    BY <1>2, <1>3, <1>4, <1>5, <1>6, <1>7

LEMMA StoreAccepted ==
    ASSUME StoreInv, NEW f \in Flushes, Answer(f), hpc[f] = "204"
    PROVE  \A g \in Flushes : Routed(g)' /\ Written(g)' /\ Kept(g)'
<1> DEFINE tags == ackTag[f] \o [i \in DOMAIN batch[f] |-> FrameTag(batch[f])]
<1>1. /\ TypeInv /\ TypeOK /\ Place(f) /\ Written(f) /\ Kept(f)
      /\ HandlerEnds({f}) /\ Accepted(f) /\ docs' = docs /\ Grows
    BY DEF StoreInv, TypeInv, Answer, stores, Grows
<1>2. /\ hpc'[f] = "idle"
      /\ \A g \in Flushes \ {f} : hpc'[g] = hpc[g] /\ results'[g] = results[g] /\ left'[g] = left[g]
    BY <1>1, TypeHandlerEnds
<1>3. /\ ackTag'[f] = tags
      /\ \A g \in Flushes \ {f} : pc'[g] = pc[g] /\ batch'[g] = batch[g] /\ ackTag'[g] = ackTag[g]
    BY <1>1 DEF Accepted, TypeOK
<1>4. \A g \in Flushes \ {f} : Routed(g)' /\ Written(g)' /\ Kept(g)'
    BY <1>1, <1>2, <1>3, StoreFrame
<1>5. Routed(f)' /\ Written(f)'
    BY <1>2 DEF Routed, Written
<1>6. /\ ackTag[f] \in Seq(Tags) /\ Len(ackTag[f]) \in Nat /\ DOMAIN ackTag[f] = 1 .. Len(ackTag[f])
      /\ batch[f] \in Seq(Records) /\ Len(batch[f]) \in Nat /\ DOMAIN batch[f] = 1 .. Len(batch[f])
      /\ batch[f] # << >> /\ pc[f] = "wait" /\ left[f] = {}
      /\ Piece(batch[f], Chunk[f], Len(ackTag[f]))
    BY <1>1, At DEF Place
<1>7. /\ tags \in Seq(Tags) /\ Len(tags) = Len(ackTag[f]) + Len(batch[f])
      /\ \A i \in 1 .. Len(ackTag[f]) : tags[i] = ackTag[f][i]
      /\ \A j \in 1 .. Len(batch[f]) : tags[Len(ackTag[f]) + j] = FrameTag(batch[f])
    BY <1>6, AckedTags
<1> HIDE DEF tags
<1>8. DOMAIN tags = 1 .. Len(ackTag[f]) + Len(batch[f])
    BY <1>7, LenProperties
<1>9. ASSUME NEW i \in DOMAIN tags, NEW c \in Targets(Rules[tags[i]][Chunk[f][i]])
      PROVE  docs[Chunk[f][i]][c] > 0
  <2>1. CASE i \in 1 .. Len(ackTag[f])
    <3>1. tags[i] = ackTag[f][i] /\ i \in DOMAIN ackTag[f]
      BY <2>1, <1>6, <1>7
    <3> QED
      BY <3>1, <1>1, <1>6, <1>9 DEF Kept
  <2>2. CASE i \notin 1 .. Len(ackTag[f])
    <3> DEFINE j == i - Len(ackTag[f])
    <3>1. j \in 1 .. Len(batch[f]) /\ i = Len(ackTag[f]) + j
      <4>1. Len(ackTag[f]) \in Nat /\ Len(batch[f]) \in Nat /\ i \in 1 .. Len(ackTag[f]) + Len(batch[f])
        BY <1>6, <1>8
      <4> DEFINE a == Len(ackTag[f])
                 b == Len(batch[f])
      <4>2. a \in Nat /\ b \in Nat /\ i \in 1 .. a + b /\ i \notin 1 .. a
        BY <4>1, <2>2
      <4> HIDE DEF a, b
      <4>3. i - a \in 1 .. b /\ i = a + (i - a)
        BY <4>2
      <4> QED
        BY <4>3 DEF a, b
    <3> HIDE DEF j
    <3>2. tags[i] = FrameTag(batch[f]) /\ Chunk[f][i] = batch[f][j]
      BY <3>1, <1>6, <1>7 DEF Piece
    <3>3. c \in Targets(ChainOf(batch[f], j))
      BY <3>2, <1>9, SMTT(30) DEF ChainOf
    <3> QED
      BY <3>1, <3>2, <3>3, <1>1, <1>6 DEF Written
  <2> QED
    BY <2>1, <2>2
<1>10. Kept(f)'
    BY <1>1, <1>3, <1>9 DEF Kept, Targets
<1> QED
    BY <1>4, <1>5, <1>10

LEMMA StoreRoute ==
    ASSUME NoDedup, StoreInv, NEW f \in Flushes, Route(f)
    PROVE  \A g \in Flushes : Routed(g)' /\ Written(g)' /\ Kept(g)'
<1> DEFINE i == Len(results[f]) + 1
           chain == ChainOf(batch[f], i)
           out == Process(chain, seen)
<1>1. /\ TypeInv /\ TypeOK /\ Routed(f) /\ UNCHANGED plugin /\ docs' = docs /\ Grows /\ hpc[f] = "route"
    BY DEF StoreInv, TypeInv, Route, stores, Grows
<1>2. /\ batch[f] \in Seq(Records) /\ DOMAIN batch[f] = 1 .. Len(batch[f])
      /\ Len(batch[f]) \in Nat /\ Len(results[f]) \in Nat /\ Len(results[f]) < Len(batch[f])
      /\ results[f] \in Seq(Outcome) /\ DOMAIN results[f] = 1 .. Len(results[f])
    BY <1>1, At DEF Place
<1>3. i \in DOMAIN batch[f]
    BY <1>2
<1>4. chain \in Seq(RuleSet) /\ \A n \in DOMAIN chain : chain[n].act # "dedup"
  <2>1. batch[f] # << >> /\ batch[f][i] \in Records
    BY <1>2, <1>3, LenProperties
  <2>2. FrameTag(batch[f]) \in Tags
    BY <1>2, <2>1, FrameTagType
  <2> QED
    BY <2>1, <2>2, <1>2, <1>3, ChainType DEF ChainOf, NoDedup
<1>5. out \in Outcome /\ Targets(chain) \subseteq out.cols
    BY <1>4, ProcessType, ProcessTargets
<1> HIDE DEF out
<1>6. /\ results'[f] = Append(results[f], out) /\ hpc'[f] \in {"raw", "route"}
      /\ \A g \in Flushes \ {f} : hpc'[g] = hpc[g] /\ results'[g] = results[g] /\ left'[g] = left[g]
    BY <1>1 DEF Route, TypeOK, out
<1>7. /\ DOMAIN results'[f] = 1 .. i /\ results'[f][i] = out
      /\ \A j \in 1 .. Len(results[f]) : results'[f][j] = results[f][j]
    BY <1>2, <1>5, <1>6, AppendProperties, LenProperties
<1>8. ASSUME NEW j \in 1 .. i PROVE Targets(ChainOf(batch[f], j)) \subseteq results'[f][j].cols
  <2>1. CASE j = i
    BY <2>1, <1>5, <1>7
  <2>2. CASE j \in 1 .. Len(results[f])
    BY <2>2, <1>1, <1>2, <1>7 DEF Routed
  <2> QED
    BY <2>1, <2>2, <1>2
<1>9. Routed(f)'
  <2> SUFFICES ASSUME NEW j \in DOMAIN results'[f]
               PROVE  Targets(ChainOf(batch'[f], j)) \subseteq results'[f][j].cols
    BY Zenon DEF Routed, ChainOf, FrameTag, Targets
  <2> QED
    BY <1>1, <1>7, <1>8 DEF plugin
<1>10. Written(f)'
    BY <1>6 DEF Written
<1> QED
    BY <1>1, <1>6, <1>9, <1>10, StoreHandler

LEMMA StoreHandlerSteps ==
    ASSUME StoreInv, NEW f \in Flushes,
           HandleBinary(f) \/ FlushRaw(f) \/ Processed(f) \/ FlushEtl(f)
    PROVE  \A g \in Flushes : Routed(g)' /\ Written(g)' /\ Kept(g)'
<1>1. /\ TypeInv /\ TypeOK /\ Routed(f) /\ Written(f) /\ UNCHANGED plugin /\ docs' = docs /\ Grows
    BY DEF StoreInv, TypeInv, HandleBinary, FlushRaw, Processed, FlushEtl, stores, Grows
<1>2. /\ \A g \in Flushes \ {f} : hpc'[g] = hpc[g] /\ results'[g] = results[g] /\ left'[g] = left[g]
    BY <1>1 DEF HandleBinary, FlushRaw, Processed, FlushEtl, TypeOK
<1>3. CASE HandleBinary(f)
  <2>1. hpc'[f] \in {"route", "400"} /\ DOMAIN results'[f] = {}
    BY <1>1, <1>3 DEF HandleBinary, TypeOK
  <2>2. Routed(f)' /\ Written(f)'
    BY <2>1 DEF Routed, Written
  <2> QED
    BY <1>1, <1>2, <2>2, StoreHandler
<1>4. CASE FlushRaw(f) \/ Processed(f)
  <2>1. /\ hpc[f] \in {"raw", "arango"} /\ hpc'[f] \in {"etl", "204"}
        /\ results'[f] = results[f] /\ left'[f] = left[f] /\ batch'[f] = batch[f]
        /\ hpc'[f] = "204" => hpc[f] = "arango"
    BY <1>1, <1>4 DEF FlushRaw, Processed, TypeOK, plugin
  <2>2. Routed(f)'
    BY <1>1, <2>1, Zenon DEF Routed, ChainOf, FrameTag, Targets
  <2>3. Written(f)'
    BY <1>1, <2>1, Zenon DEF Written, ChainOf, FrameTag, Targets
  <2> QED
    BY <1>1, <1>2, <2>2, <2>3, StoreHandler
<1>5. CASE FlushEtl(f)
  <2>1. /\ hpc[f] = "etl" /\ hpc'[f] = "arango" /\ results'[f] = results[f] /\ batch'[f] = batch[f]
        /\ left'[f] = {c \in Collections : Group(f, c) # {}}
    BY <1>1, <1>5 DEF FlushEtl, TypeOK, plugin
  <2>2. Routed(f)'
    BY <1>1, <2>1, Zenon DEF Routed, ChainOf, FrameTag, Targets
  <2>3. ASSUME NEW j \in DOMAIN batch[f], NEW c \in Targets(ChainOf(batch[f], j))
        PROVE  c \in left'[f]
    <3>1. DOMAIN results[f] = DOMAIN batch[f]
      BY <1>1, <2>1, At, Zenon DEF Place
    <3>2. c \in results[f][j].cols /\ c \in Collections
      BY <1>1, <2>1, <2>3, <3>1, Hand DEF Routed
    <3>3. Group(f, c) # {}
      BY <3>1, <3>2 DEF Group
    <3> QED
      BY <2>1, <3>2, <3>3
  <2>4. Written(f)'
    <3> SUFFICES ASSUME NEW j \in DOMAIN batch'[f], NEW c \in Targets(ChainOf(batch'[f], j))
                 PROVE  c \in left'[f]
      BY Zenon DEF Written, ChainOf, FrameTag, Targets
    <3> QED
      BY <2>1, <2>3
  <2> QED
    BY <1>1, <1>2, <2>2, <2>4, StoreHandler
<1> QED
    BY <1>3, <1>4, <1>5

LEMMA StoreBulkCreate ==
    ASSUME StoreInv, NEW f \in Flushes, NEW c \in Collections, BulkCreate(f, c) \/ BulkCreateFails(f, c)
    PROVE  \A g \in Flushes : Routed(g)' /\ Written(g)' /\ Kept(g)'
<1>1. /\ TypeInv /\ TypeOK /\ Place(f) /\ Routed(f) /\ Written(f) /\ UNCHANGED plugin
      /\ docs \in [Records -> [Collections -> Nat]] /\ hpc[f] = "arango"
    BY DEF StoreInv, TypeInv, TypeOK, BulkCreate, BulkCreateFails
<1>2. \A g \in Flushes \ {f} : hpc'[g] = hpc[g] /\ results'[g] = results[g] /\ left'[g] = left[g]
    BY <1>1 DEF BulkCreate, BulkCreateFails, TypeOK
<1>3. Grows
  <2>1. PICK rows : docs' = Inserted(f, c, rows)
    BY DEF BulkCreate, BulkCreateFails
  <2>2. \A r \in Records, d \in Collections :
            docs[r][d] \in Nat /\ docs'[r][d] \in Nat /\ docs'[r][d] >= docs[r][d]
    <3> DEFINE more == Inserted(f, c, rows)
    <3>1. /\ more \in [Records -> [Collections -> Nat]]
          /\ \A r \in Records, d \in Collections : more[r][d] >= docs[r][d]
      BY <1>1, InsertedType
    <3> HIDE DEF more
    <3> QED
      BY <1>1, <3>1, <2>1 DEF more
  <2> QED
    BY <2>2 DEF Grows
<1>4. CASE BulkCreateFails(f, c)
  <2>1. hpc'[f] = "500"
    BY <1>1, <1>4 DEF BulkCreateFails, TypeOK
  <2>2. Routed(f)' /\ Written(f)'
    BY <2>1 DEF Routed, Written
  <2> QED
    BY <1>1, <1>2, <1>3, <2>2, StoreHandler
<1>5. CASE BulkCreate(f, c)
  <2>1. /\ hpc'[f] = "arango" /\ results'[f] = results[f] /\ batch'[f] = batch[f]
        /\ left'[f] = left[f] \ {c} /\ docs' = Inserted(f, c, Group(f, c))
    BY <1>1, <1>5 DEF BulkCreate, TypeOK, plugin
  <2>2. Routed(f)'
    BY <1>1, <2>1, Zenon DEF Routed, ChainOf, FrameTag, Targets
  <2>3. ASSUME NEW j \in DOMAIN batch[f], NEW d \in Targets(ChainOf(batch[f], j))
        PROVE  d \in left'[f] \/ docs'[batch[f][j]][d] > 0
    <3>1. batch[f][j] \in Records /\ d \in Collections
      BY <1>1, <2>3, Hand
    <3>2. CASE d = c
      <4>1. DOMAIN results[f] = DOMAIN batch[f]
        BY <1>1, At DEF Place
      <4>2. j \in Group(f, c)
        BY <1>1, <2>3, <3>2, <4>1 DEF Routed, Group
      <4> QED
        BY <1>1, <2>1, <3>1, <3>2, <4>2, InsertedType
    <3>3. CASE d # c
      <4>1. d \in left[f] \/ docs[batch[f][j]][d] > 0
        BY <1>1, <2>3 DEF Written
      <4> QED
        BY <1>3, <2>1, <3>1, <3>3, <4>1 DEF Grows
    <3> QED
      BY <3>2, <3>3
  <2>4. Written(f)'
    <3> SUFFICES ASSUME NEW j \in DOMAIN batch'[f], NEW d \in Targets(ChainOf(batch'[f], j))
                 PROVE  d \in left'[f] \/ docs'[batch'[f][j]][d] > 0
      BY Zenon DEF Written, ChainOf, FrameTag, Targets
    <3> QED
      BY <2>1, <2>3
  <2> QED
    BY <1>1, <1>2, <1>3, <2>2, <2>4, StoreHandler
<1> QED
    BY <1>4, <1>5

LEMMA StoreServiceCrash ==
    ASSUME StoreInv, ServiceCrash
    PROVE  \A g \in Flushes : Routed(g)' /\ Written(g)' /\ Kept(g)'
<1> SUFFICES ASSUME NEW g \in Flushes PROVE Routed(g)' /\ Written(g)' /\ Kept(g)'
    OBVIOUS
<1>1. TypeInv /\ TypeOK /\ Kept(g) /\ docs' = docs /\ ackTag' = ackTag /\ HandlerEnds(Flushes)
    BY DEF StoreInv, TypeInv, ServiceCrash, stores
<1>2. hpc'[g] = "idle"
    BY <1>1 DEF HandlerEnds
<1>3. pc'[g] \in {"queued", "dropped"} \/ pc'[g] = pc[g]
    BY <1>1, AgainType DEF ServiceCrash, TypeOK
<1>4. Routed(g)' /\ Written(g)'
    BY <1>2 DEF Routed, Written
<1>5. Kept(g)'
    BY <1>1, <1>3, Zenon DEF Kept, Targets
<1> QED
    BY <1>4, <1>5

\* A step that leaves plugin, handlers and documents alone.
LEMMA StoreIdle ==
    ASSUME StoreInv, UNCHANGED <<plugin, handler, stores>>
    PROVE  \A g \in Flushes : Routed(g)' /\ Written(g)' /\ Kept(g)'
<1>1. Grows
    BY DEF Grows, stores
<1> QED
    BY <1>1, StoreFrame DEF plugin, handler

LEMMA StoreStep == NoDedup /\ StoreInv /\ [Next]_vars => StoreInv'
<1> SUFFICES ASSUME NoDedup, StoreInv, [Next]_vars PROVE StoreInv'
    OBVIOUS
<1>t. TypeInv'
    BY TypeStep DEF StoreInv
<1> DEFINE Stored == \A g \in Flushes : Routed(g)' /\ Written(g)' /\ Kept(g)'
<1> SUFFICES Stored
    BY <1>t DEF StoreInv
<1>1. ASSUME NEW f \in Flushes, PluginStep(f) PROVE Stored
    BY <1>1, StorePluginSteps, StoreAccepted DEF PluginStep
<1>2. ASSUME NEW f \in Flushes, HandlerStep(f) PROVE Stored
    BY <1>2, StoreRoute, StoreHandlerSteps, StoreBulkCreate DEF HandlerStep
<1>3. ASSUME NEW f \in Flushes, PostFails(f) \/ ConnectionLost(f) PROVE Stored
    BY <1>3, StorePluginSteps
<1>4. ASSUME NEW k \in seen, WindowExpires(k) PROVE Stored
    BY <1>4, StoreIdle DEF WindowExpires
<1>5. CASE ServiceCrash
    BY <1>5, StoreServiceCrash
<1>6. CASE UNCHANGED vars
    BY <1>6, StoreIdle DEF vars
<1> QED
    BY <1>1, <1>2, <1>3, <1>4, <1>5, <1>6 DEF Next

\* A delivered chunk is stored, whatever failed before, where no rule has the
\* dedup action: AckedStored for every chunk, batch size, rule set and retry
\* limit.  With the dedup action it fails (run delivery_dedup).
THEOREM AckedStoredAlways == NoDedup /\ Spec => []AckedStored
<1>1. StoreInv => AckedStored
  <2> SUFFICES ASSUME StoreInv, NEW f \in Flushes, pc[f] = "acked", NEW i \in DOMAIN Chunk[f],
                      NEW c \in Targets(Rules[ackTag[f][i]][Chunk[f][i]])
               PROVE  \E s \in Records : (s = Chunk[f][i] \/ Alike(Chunk[f][i], s)) /\ docs[s][c] > 0
    BY DEF AckedStored
  <2>1. TypeInv /\ Kept(f)
    BY DEF StoreInv
  <2>2. i \in DOMAIN ackTag[f]
    BY <2>1, At, ChunkFacts DEF Place
  <2>3. Chunk[f][i] \in Records /\ docs[Chunk[f][i]][c] > 0
    BY <2>1, <2>2, Hand DEF Kept
  <2> QED
    BY <2>3
<1>2. CASE NoDedup
  <2>1. StoreInv /\ [Next]_vars => StoreInv'
    BY <1>2, StoreStep
  <2> QED
    BY <1>1, <2>1, StoreInit, PTL DEF Spec
<1>3. CASE ~NoDedup
    BY <1>3
<1> QED
    BY <1>2, <1>3

-----------------------------------------------------------------------------
(* Agents. *)

\* The rows of a frame that is posted are records of the chunk, in order.
LEMMA RowInChunk ==
    ASSUME TypeInv, NEW f \in Flushes, pc[f] = "wait", NEW j \in DOMAIN batch[f]
    PROVE  /\ Len(ackTag[f]) \in Nat /\ j \in Nat
           /\ Len(ackTag[f]) + j \in DOMAIN Chunk[f] /\ Len(ackTag[f]) + j <= pos[f]
           /\ batch[f][j] = Chunk[f][Len(ackTag[f]) + j]
<1>1. /\ Len(ackTag[f]) \in Nat /\ Len(batch[f]) \in Nat /\ pos[f] \in Nat
      /\ pos[f] <= Len(Chunk[f]) /\ Len(Chunk[f]) \in Nat
      /\ DOMAIN batch[f] = 1 .. Len(batch[f]) /\ DOMAIN Chunk[f] = 1 .. Len(Chunk[f])
  BY At, ChunkFacts
<1>2. pos[f] = Len(ackTag[f]) + Len(batch[f]) /\ Piece(batch[f], Chunk[f], Len(ackTag[f]))
  BY At DEF Place
<1>3. batch[f][j] = Chunk[f][Len(ackTag[f]) + j]
  BY <1>2 DEF Piece
<1> DEFINE a == Len(ackTag[f])
           b == Len(batch[f])
           n == Len(Chunk[f])
           p == pos[f]
<1>4. /\ a \in Nat /\ b \in Nat /\ n \in Nat /\ p \in Nat /\ j \in 1 .. b /\ p = a + b /\ p <= n
  BY <1>1, <1>2
<1> HIDE DEF a, b, n, p
<1>5. j \in Nat /\ a + j \in 1 .. n /\ a + j <= p
  BY <1>4
<1> QED BY <1>1, <1>3, <1>5 DEF a, n, p

\* Only the two calls of Ingest write to the lake.
LEMMA LakeKept ==
    ASSUME [Next]_vars, \A f \in Flushes : ~FlushRaw(f) /\ ~FlushEtl(f)
    PROVE  UNCHANGED <<lake, missed>>
<1>1. ASSUME NEW f \in Flushes, PluginStep(f) \/ PostFails(f) \/ ConnectionLost(f)
      PROVE  UNCHANGED <<lake, missed>>
  BY <1>1 DEF PluginStep, CbFlush, AppendRow, Post, Answer, PostFails, ConnectionLost, stores
<1>2. ASSUME NEW f \in Flushes, HandlerStep(f) PROVE UNCHANGED <<lake, missed>>
  BY <1>2 DEF HandlerStep, HandleBinary, Route, Processed, BulkCreate, BulkCreateFails, stores
<1>3. CASE UNCHANGED vars \/ ServiceCrash \/ \E k \in seen : WindowExpires(k)
  BY <1>3 DEF vars, ServiceCrash, WindowExpires, stores
<1> QED BY <1>1, <1>2, <1>3 DEF Next

\* What a call of Ingest may do to the lake: the entries it adds are of rows of
\* the frame, with the frame's agent.
LEMMA LakeGrows ==
    ASSUME TypeInv, NEW f \in Flushes, NEW rows, NEW index, Ingest(f, rows, index)
    PROVE  /\ lake \subseteq lake' /\ missed \subseteq missed'
           /\ \A e \in lake' : e \in lake \/ \E i \in rows :
                /\ e.rec = batch[f][i] /\ e.agent = FrameAgent(batch[f]) /\ e.index = index
           /\ \A i \in rows :
                \/ batch[f][i] \in missed'
                \/ \E e \in lake' : e.rec = batch[f][i] /\ e.index = index
<1> DEFINE new == Entries(f, rows, index)
           kept == {batch[f][i] : i \in rows}
<1>1. \/ lake' = lake \cup new /\ missed' = missed
      \/ lake' \in {lake, lake \cup new} /\ missed' = missed \cup kept
  BY DEF Ingest
<1>2. /\ \A e \in new : \E i \in rows :
           e.rec = batch[f][i] /\ e.agent = FrameAgent(batch[f]) /\ e.index = index
      /\ \A i \in rows : \E e \in new : e.rec = batch[f][i] /\ e.index = index
  <2> DEFINE entry(i) == [rec |-> batch[f][i], agent |-> FrameAgent(batch[f]), index |-> index]
  <2>1. new = {entry(i) : i \in rows}
    BY DEF Entries
  <2>2. \A i : /\ entry(i).rec = batch[f][i] /\ entry(i).agent = FrameAgent(batch[f])
               /\ entry(i).index = index
    OBVIOUS
  <2> HIDE DEF entry, new
  <2> QED BY <2>1, <2>2
<1>3. \A i \in rows : batch[f][i] \in kept
  OBVIOUS
<1> HIDE DEF new, kept
<1>4. lake \subseteq lake' /\ missed \subseteq missed' /\ lake' \subseteq lake \cup new
  BY <1>1
<1>5. lake' = lake \cup new \/ kept \subseteq missed'
  BY <1>1
<1> QED BY <1>2, <1>3, <1>4, <1>5

\* An entry is never stored under an agent that an earlier frame, chunk or
\* attempt left behind, for any batch size and any mix of agents (cb_flush,
\* entryToHEC).
THEOREM AgentWithinFrameAlways == Spec => []AgentWithinFrame
<1>1. Init => AgentWithinFrame
  BY DEF Init, AgentWithinFrame
<1>2. ASSUME TypeInv, AgentWithinFrame, [Next]_vars PROVE AgentWithinFrame'
  <2>1. ASSUME NEW f \in Flushes, NEW rows \in SUBSET DOMAIN results[f], NEW index,
               hpc[f] \in {"raw", "etl"}, Ingest(f, rows, index)
        PROVE  AgentWithinFrame'
    <3> SUFFICES ASSUME NEW i \in rows
                 PROVE  \E n, m \in DOMAIN Chunk[f] :
                          /\ Chunk[f][n] = batch[f][i] /\ n <= m /\ m < n + MaxRows
                          /\ FrameAgent(batch[f]) = AgentOf[Chunk[f][m]]
      BY <1>2, <2>1, LakeGrows DEF AgentWithinFrame
    <3>1. /\ pc[f] = "wait" /\ Len(results[f]) = Len(batch[f])
          /\ Len(batch[f]) \in Nat /\ Len(batch[f]) <= MaxRows
          /\ DOMAIN batch[f] = 1 .. Len(batch[f]) /\ i \in DOMAIN batch[f]
      BY <1>2, <2>1, At DEF Place
    <3>2. Len(batch[f]) \in DOMAIN batch[f]
      BY <3>1
    <3> DEFINE a == Len(ackTag[f])
               b == Len(batch[f])
    <3>3. /\ a \in Nat /\ a + i \in DOMAIN Chunk[f] /\ batch[f][i] = Chunk[f][a + i]
          /\ a + b \in DOMAIN Chunk[f] /\ batch[f][b] = Chunk[f][a + b]
      BY <1>2, <3>1, <3>2, RowInChunk
    <3>4. FrameAgent(batch[f]) = AgentOf[Chunk[f][a + b]]
      BY <3>3 DEF FrameAgent
    <3>5. b \in Nat /\ i \in 1 .. b /\ b <= MaxRows /\ MaxRows \in Nat
      BY <3>1, DeliveryAssumption
    <3> HIDE DEF a, b
    <3>6. a + i <= a + b /\ a + b < a + i + MaxRows
      BY <3>3, <3>5
    <3> QED BY <3>3, <3>4, <3>6
  <2>2. ASSUME NEW f \in Flushes, FlushRaw(f) PROVE AgentWithinFrame'
    BY <2>1, <2>2 DEF FlushRaw, RawRows
  <2>3. ASSUME NEW f \in Flushes, FlushEtl(f) PROVE AgentWithinFrame'
    BY <2>1, <2>3 DEF FlushEtl, NgxRows
  <2>4. CASE UNCHANGED lake
    BY <1>2, <2>4 DEF AgentWithinFrame
  <2> QED BY <1>2, <2>2, <2>3, <2>4, LakeKept
<1>3. TypeInv /\ AgentWithinFrame /\ [Next]_vars => (TypeInv /\ AgentWithinFrame)'
  BY <1>2, TypeStep
<1> QED BY <1>1, <1>3, TypeInit, PTL DEF Spec

-----------------------------------------------------------------------------
(* Raw events. *)

\* No rule makes the record etl_only; its raw event is in the lake, or a call
\* that failed may have kept it out.
Plain(r) == \A t \in Tags : \A i \in DOMAIN Rules[t][r] : Rules[t][r][i].mode # "etl_only"
HasRaw(r) == lakeOn => r \in missed \/ \E e \in lake : e.rec = r /\ e.index \in Tags

\* A row that goes anywhere after ETL goes to the raw index as well.
RawRouted(f) ==
    hpc[f] \in {"route", "raw", "etl", "arango"} =>
        \A j \in DOMAIN results[f] :
            Plain(batch[f][j]) /\ (results[f][j].ngx \/ results[f][j].cols # {}) => results[f][j].raw

\* The raw events of a frame are in the lake before anything else of it is.
RawWritten(f) == hpc[f] \in {"etl", "arango"} => \A j \in RawRows(f) : HasRaw(batch[f][j])

RawInv == TypeInv /\ RawFirst /\ \A f \in Flushes : RawRouted(f) /\ RawWritten(f)

\* Of a record that no rule makes etl_only, what goes anywhere after ETL also
\* goes to the raw index.
LEMMA ProcessRaw ==
    ASSUME NEW chain \in Seq(RuleSet), NEW window,
           \A i \in DOMAIN chain : chain[i].mode # "etl_only",
           Process(chain, window).ngx \/ Process(chain, window).cols # {}
    PROVE  Process(chain, window).raw
<1>1. chain # << >> /\ \A i \in DOMAIN chain : ~Stops(chain, i, window)
  BY DEF Process
<1>2. ASSUME NEW i \in DOMAIN chain PROVE chain[i].mode = "both" /\ ~Drops(chain, i, window)
  <2>1. chain[i] \in RuleSet
    OBVIOUS
  <2> QED BY <1>1, <2>1 DEF RuleSet, Modes, Stops
<1> QED BY <1>2 DEF Process, Applied

\* A step that takes nothing from the lake, and leaves the frame of g and what is
\* routed of it alone, or ends its handling.
LEMMA RawFrame ==
    ASSUME NEW g \in Flushes, RawRouted(g), RawWritten(g),
           lake \subseteq lake', missed \subseteq missed', lakeOn' = lakeOn,
           \/ hpc'[g] \notin {"route", "raw", "etl", "arango"}
           \/ /\ batch'[g] = batch[g] /\ results'[g] = results[g]
              /\ hpc[g] \in {"route", "raw", "etl", "arango"}
              /\ hpc'[g] \in {"etl", "arango"} => hpc[g] \in {"etl", "arango"}
    PROVE  RawRouted(g)' /\ RawWritten(g)'
<1>1. \A r : HasRaw(r) => HasRaw(r)'
  BY DEF HasRaw
<1>2. CASE hpc'[g] \notin {"route", "raw", "etl", "arango"}
  BY <1>2 DEF RawRouted, RawWritten
<1>3. CASE hpc'[g] \in {"route", "raw", "etl", "arango"}
  <2>1. /\ batch'[g] = batch[g] /\ results'[g] = results[g]
        /\ hpc[g] \in {"route", "raw", "etl", "arango"}
        /\ hpc'[g] \in {"etl", "arango"} => hpc[g] \in {"etl", "arango"}
    BY <1>3
  <2>2. RawRouted(g)'
    BY <2>1 DEF RawRouted, Plain
  <2>3. RawWritten(g)'
    BY <1>1, <2>1 DEF RawWritten, RawRows
  <2> QED BY <2>2, <2>3
<1> QED BY <1>2, <1>3

\* Where nothing derived is stored, RawFirst is kept.
LEMMA RawFirstKept ==
    ASSUME RawFirst, lake \subseteq lake', missed \subseteq missed', lakeOn' = lakeOn,
           \A r \in Records : Derived(r)' /\ Plain(r) => Derived(r) \/ HasRaw(r)'
    PROVE  RawFirst'
<1>1. RawFirst <=> \A r \in Records : Derived(r) /\ Plain(r) => HasRaw(r)
  BY DEF RawFirst, Plain, HasRaw
<1>2. RawFirst' <=> \A r \in Records : Derived(r)' /\ Plain(r) => HasRaw(r)'
  BY DEF RawFirst, Plain, HasRaw
<1>3. \A r : HasRaw(r) => HasRaw(r)'
  BY DEF HasRaw
<1> QED BY <1>1, <1>2, <1>3

\* The plugin, the decoder and the end of a handler store nothing.
LEMMA RawOthers ==
    ASSUME RawInv, UNCHANGED <<lake, missed, docs, lakeOn>>,
           \A g \in Flushes :
               \/ hpc'[g] \notin {"route", "raw", "etl", "arango"}
               \/ /\ batch'[g] = batch[g] /\ results'[g] = results[g]
                  /\ hpc[g] \in {"route", "raw", "etl", "arango"}
                  /\ hpc'[g] \in {"etl", "arango"} => hpc[g] \in {"etl", "arango"}
    PROVE  RawFirst' /\ \A g \in Flushes : RawRouted(g)' /\ RawWritten(g)'
<1>1. \A r \in Records : Derived(r)' => Derived(r)
  BY DEF Derived
<1>2. RawFirst'
  BY <1>1, RawFirstKept DEF RawInv
<1>3. ASSUME NEW g \in Flushes PROVE RawRouted(g)' /\ RawWritten(g)'
  BY RawFrame DEF RawInv
<1> QED BY <1>2, <1>3

\* Routing a row.
LEMMA RawRoute ==
    ASSUME RawInv, NEW f \in Flushes, Route(f)
    PROVE  RawFirst' /\ \A g \in Flushes : RawRouted(g)' /\ RawWritten(g)'
<1> DEFINE n == Len(results[f])
           chain == ChainOf(batch[f], n + 1)
           out == Process(chain, seen)
<1>1. /\ TypeInv /\ TypeOK /\ hpc[f] = "route" /\ batch' = batch /\ UNCHANGED <<lake, missed, docs, lakeOn>>
      /\ \A g \in Flushes \ {f} : hpc'[g] = hpc[g] /\ results'[g] = results[g]
  BY DEF RawInv, TypeInv, TypeOK, Route, plugin, stores, site
<1>2. /\ n \in Nat /\ n + 1 \in DOMAIN batch[f] /\ results[f] \in Seq(Outcome)
      /\ batch[f] \in Seq(Records) /\ DOMAIN batch[f] = 1 .. Len(batch[f])
      /\ DOMAIN results[f] = 1 .. n
  <2>1. n \in Nat /\ Len(batch[f]) \in Nat /\ n < Len(batch[f]) /\ DOMAIN batch[f] = 1 .. Len(batch[f])
    BY <1>1, At DEF Place
  <2>2. n + 1 \in DOMAIN batch[f]
    BY <2>1
  <2> QED BY <1>1, <2>1, <2>2, At
<1>3. chain \in Seq(RuleSet) /\ out \in Outcome
  BY <1>2, ChainType, ProcessType
<1>4. Plain(batch[f][n + 1]) /\ (out.ngx \/ out.cols # {}) => out.raw
  <2>1. FrameTag(batch[f]) \in Tags
    BY <1>2, FrameTagType, EmptySeq
  <2>2. Plain(batch[f][n + 1]) => \A i \in DOMAIN chain : chain[i].mode # "etl_only"
    BY <2>1 DEF Plain, ChainOf
  <2> HIDE DEF chain
  <2> QED BY <1>3, <2>2, ProcessRaw
<1>5. results'[f] = Append(results[f], out) /\ hpc'[f] \in {"route", "raw"}
  BY <1>1 DEF Route, TypeOK
<1> HIDE DEF chain, out
<1>6. /\ DOMAIN results'[f] = 1 .. n + 1 /\ results'[f][n + 1] = out
      /\ \A j \in 1 .. n : results'[f][j] = results[f][j]
  BY <1>2, <1>3, <1>5, AppendProperties
<1>7. RawRouted(f)
  BY DEF RawInv
<1>8. RawRouted(f)'
  <2> SUFFICES ASSUME NEW j \in 1 .. n + 1, Plain(batch[f][j]),
                      results'[f][j].ngx \/ results'[f][j].cols # {}
               PROVE  results'[f][j].raw
    BY <1>1, <1>6 DEF RawRouted, Plain
  <2>1. CASE j = n + 1
    BY <2>1, <1>4, <1>6
  <2>2. CASE j \in 1 .. n
    BY <2>2, <1>1, <1>2, <1>6, <1>7 DEF RawRouted
  <2> QED BY <2>1, <2>2, <1>2
<1>9. RawWritten(f)'
  BY <1>5 DEF RawWritten
<1>10. ASSUME NEW g \in Flushes \ {f} PROVE RawRouted(g)' /\ RawWritten(g)'
  BY <1>1, RawFrame DEF RawInv, RawRouted, RawWritten
<1>11. RawFirst'
  <2>1. \A r \in Records : Derived(r)' => Derived(r)
    BY <1>1 DEF Derived
  <2> QED BY <1>1, <2>1, RawFirstKept DEF RawInv
<1> QED BY <1>8, <1>9, <1>10, <1>11

\* Storing the raw events of a frame.
LEMMA RawFlushRaw ==
    ASSUME RawInv, NEW f \in Flushes, FlushRaw(f)
    PROVE  RawFirst' /\ \A g \in Flushes : RawRouted(g)' /\ RawWritten(g)'
<1> DEFINE tag == FrameTag(batch[f])
<1>1. /\ TypeInv /\ TypeOK /\ hpc[f] = "raw" /\ batch' = batch /\ results' = results /\ docs' = docs
      /\ lakeOn' = lakeOn /\ hpc'[f] = "etl" /\ \A g \in Flushes \ {f} : hpc'[g] = hpc[g]
      /\ Ingest(f, RawRows(f), tag)
  BY DEF RawInv, TypeInv, TypeOK, FlushRaw, plugin, site
<1>2. tag \in Tags
  BY <1>1, At, FrameTagType DEF Place
<1> HIDE DEF tag
<1>3. /\ lake \subseteq lake' /\ missed \subseteq missed'
      /\ \A e \in lake' : e \in lake \/ (e.index = tag /\ \E i \in RawRows(f) : e.rec = batch[f][i])
      /\ \A i \in RawRows(f) : \/ batch[f][i] \in missed'
                               \/ \E e \in lake' : e.rec = batch[f][i] /\ e.index = tag
  BY <1>1, LakeGrows
<1>4. RawRouted(f)' /\ RawWritten(f)'
  <2>1. RawRouted(f)'
    BY <1>1 DEF RawInv, RawRouted, Plain
  <2>2. RawWritten(f)'
    BY <1>1, <1>2, <1>3 DEF RawWritten, RawRows, HasRaw
  <2> QED BY <2>1, <2>2
<1>5. ASSUME NEW g \in Flushes \ {f} PROVE RawRouted(g)' /\ RawWritten(g)'
  BY <1>1, <1>3, RawFrame DEF RawInv
<1>6. RawFirst'
  <2>1. \A r \in Records : Derived(r)' => Derived(r) \/ HasRaw(r)'
    BY <1>1, <1>2, <1>3 DEF Derived, HasRaw
  <2> QED BY <1>1, <1>3, <2>1, RawFirstKept DEF RawInv
<1> QED BY <1>4, <1>5, <1>6

\* What is derived of a row of the frame has its raw event.
LEMMA RowHasRaw ==
    ASSUME RawInv, NEW f \in Flushes, hpc[f] \in {"etl", "arango"}, NEW j \in DOMAIN results[f],
           results[f][j].ngx \/ results[f][j].cols # {}, Plain(batch[f][j])
    PROVE  HasRaw(batch[f][j])
<1>1. results[f][j].raw /\ RawWritten(f)
  BY DEF RawInv, RawRouted
<1>2. CASE lakeOn
  BY <1>1, <1>2 DEF RawWritten, RawRows
<1>3. CASE ~lakeOn
  BY <1>3 DEF HasRaw
<1> QED BY <1>2, <1>3

\* Storing the events of the ETL index.
LEMMA RawFlushEtl ==
    ASSUME RawInv, NEW f \in Flushes, FlushEtl(f)
    PROVE  RawFirst' /\ \A g \in Flushes : RawRouted(g)' /\ RawWritten(g)'
<1>1. /\ TypeOK /\ TypeInv /\ hpc[f] = "etl" /\ batch' = batch /\ results' = results /\ docs' = docs
      /\ lakeOn' = lakeOn /\ hpc'[f] = "arango" /\ \A g \in Flushes \ {f} : hpc'[g] = hpc[g]
      /\ Ingest(f, NgxRows(f), "etl")
  BY DEF RawInv, TypeInv, TypeOK, FlushEtl, plugin, site
<1>2. /\ lake \subseteq lake' /\ missed \subseteq missed'
      /\ \A e \in lake' : e \in lake \/ \E i \in NgxRows(f) : e.rec = batch[f][i]
  BY <1>1, LakeGrows
<1>3. ASSUME NEW g \in Flushes PROVE RawRouted(g)' /\ RawWritten(g)'
  BY <1>1, <1>2, RawFrame DEF RawInv, RawRouted, RawWritten
<1>4. ASSUME NEW r \in Records, Derived(r)', Plain(r) PROVE Derived(r) \/ HasRaw(r)'
  <2>1. CASE \E c \in Collections : docs'[r][c] > 0
    BY <1>1, <2>1 DEF Derived
  <2>2. CASE \E e \in lake' : e.rec = r /\ e.index = "etl"
    <3>1. PICK e \in lake' : e.rec = r /\ e.index = "etl"
      BY <2>2
    <3>2. CASE e \in lake
      BY <3>1, <3>2 DEF Derived
    <3>3. CASE e \notin lake
      <4>1. PICK i \in NgxRows(f) : r = batch[f][i]
        BY <1>2, <3>1, <3>3
      <4>2. HasRaw(r)
        BY <1>1, <1>4, <4>1, RowHasRaw DEF NgxRows
      <4> QED BY <1>1, <1>2, <4>2 DEF HasRaw
    <3> QED BY <3>2, <3>3
  <2> QED BY <1>4, <2>1, <2>2 DEF Derived
<1>5. RawFirst'
  BY <1>1, <1>2, <1>4, RawFirstKept DEF RawInv
<1> QED BY <1>3, <1>5

\* Storing a group, whole or in part.
LEMMA RawBulkCreate ==
    ASSUME RawInv, NEW f \in Flushes, NEW c \in Collections, BulkCreate(f, c) \/ BulkCreateFails(f, c)
    PROVE  RawFirst' /\ \A g \in Flushes : RawRouted(g)' /\ RawWritten(g)'
<1>1. /\ TypeOK /\ TypeInv /\ hpc[f] = "arango" /\ batch' = batch /\ results' = results
      /\ hpc'[f] \in {"arango", "500"} /\ \A g \in Flushes \ {f} : hpc'[g] = hpc[g]
      /\ UNCHANGED <<lake, missed, lakeOn>> /\ docs \in [Records -> [Collections -> Nat]]
  BY DEF RawInv, TypeInv, TypeOK, BulkCreate, BulkCreateFails, plugin, site
<1>2. ASSUME NEW g \in Flushes PROVE RawRouted(g)' /\ RawWritten(g)'
  BY <1>1, RawFrame DEF RawInv, RawRouted, RawWritten
<1>3. ASSUME NEW r \in Records, Derived(r)', Plain(r) PROVE Derived(r) \/ HasRaw(r)'
  <2>1. PICK rows : rows \subseteq Group(f, c) /\ docs' = Inserted(f, c, rows)
    BY DEF BulkCreate, BulkCreateFails
  <2>2. CASE \E i \in rows : batch[f][i] = r
    <3>1. PICK i \in Group(f, c) : batch[f][i] = r
      BY <2>1, <2>2
    <3>2. HasRaw(r)
      BY <1>1, <1>3, <3>1, RowHasRaw DEF Group
    <3> QED BY <1>1, <3>2 DEF HasRaw
  <2>3. CASE ~\E i \in rows : batch[f][i] = r
    <3>1. docs'[r] = docs[r]
      BY <2>1, <2>3 DEF Inserted
    <3> QED BY <1>1, <1>3, <3>1 DEF Derived
  <2> QED BY <2>2, <2>3
<1>4. RawFirst'
  BY <1>1, <1>3, RawFirstKept DEF RawInv
<1> QED BY <1>2, <1>4

LEMMA RawStep == RawInv /\ [Next]_vars => RawInv'
<1> SUFFICES ASSUME RawInv, [Next]_vars PROVE RawInv'
  OBVIOUS
<1> DEFINE Goal == RawFirst' /\ \A g \in Flushes : RawRouted(g)' /\ RawWritten(g)'
<1>t. TypeInv' /\ TypeOK /\ TypeInv
  BY TypeStep DEF RawInv, TypeInv
<1> SUFFICES Goal
  BY <1>t DEF RawInv
<1>1. ASSUME NEW f \in Flushes, CbFlush(f) \/ AppendRow(f) \/ PostFails(f)
      PROVE  Goal
  <2>1. /\ UNCHANGED <<lake, missed, docs, hpc, results, lakeOn>> /\ hpc[f] = "idle"
        /\ \A g \in Flushes \ {f} : batch'[g] = batch[g]
    BY <1>1, <1>t, At DEF CbFlush, AppendRow, PostFails, handler, stores, TypeOK, site
  <2>2. \A g \in Flushes : hpc[g] \in {"idle", "decode", "route", "raw", "etl", "arango", "204", "400", "500"}
    BY <1>t DEF TypeOK
  <2> QED BY <2>1, <2>2, RawOthers
<1>2. ASSUME NEW f \in Flushes, Post(f) \/ Answer(f) \/ ConnectionLost(f) PROVE Goal
  <2>1. /\ UNCHANGED <<lake, missed, docs, lakeOn>> /\ hpc'[f] \in {"idle", "decode"}
        /\ \A g \in Flushes \ {f} : batch'[g] = batch[g] /\ hpc'[g] = hpc[g] /\ results'[g] = results[g]
    BY <1>2, <1>t DEF Post, Answer, ConnectionLost, HandlerEnds, Accepted, Refused, stores, TypeOK, site
  <2> QED BY <2>1, RawOthers
<1>3. ASSUME NEW f \in Flushes, Route(f) \/ FlushRaw(f) \/ FlushEtl(f) PROVE Goal
  BY <1>3, RawRoute, RawFlushRaw, RawFlushEtl
<1>4. ASSUME NEW f \in Flushes, HandleBinary(f) PROVE Goal
  <2>1. /\ UNCHANGED <<lake, missed, docs, batch, lakeOn>> /\ hpc'[f] \in {"route", "400"} /\ results'[f] = << >>
        /\ \A g \in Flushes \ {f} : hpc'[g] = hpc[g] /\ results'[g] = results[g]
    BY <1>4, <1>t DEF HandleBinary, plugin, stores, TypeOK, site
  <2>2. RawRouted(f)' /\ RawWritten(f)'
    BY <2>1 DEF RawRouted, RawWritten
  <2>3. ASSUME NEW g \in Flushes \ {f} PROVE RawRouted(g)' /\ RawWritten(g)'
    BY <2>1, RawFrame DEF RawInv
  <2>4. RawFirst'
    <3>1. \A r \in Records : Derived(r)' => Derived(r)
      BY <2>1 DEF Derived
    <3> QED BY <2>1, <3>1, RawFirstKept DEF RawInv
  <2> QED BY <2>2, <2>3, <2>4
<1>5. ASSUME NEW f \in Flushes, Processed(f) PROVE Goal
  <2>1. /\ UNCHANGED <<lake, missed, docs, batch, results, lakeOn>> /\ hpc'[f] = "204"
        /\ \A g \in Flushes \ {f} : hpc'[g] = hpc[g]
    BY <1>5, <1>t DEF Processed, plugin, stores, TypeOK, site
  <2> QED BY <2>1, RawOthers
<1>6. ASSUME NEW f \in Flushes, NEW c \in Collections, BulkCreate(f, c) \/ BulkCreateFails(f, c)
      PROVE  Goal
  BY <1>6, RawBulkCreate
<1>7. CASE ServiceCrash
  <2>1. UNCHANGED <<lake, missed, docs, lakeOn>> /\ \A g \in Flushes : hpc'[g] = "idle"
    BY <1>7 DEF ServiceCrash, HandlerEnds, stores, site
  <2> QED BY <2>1, RawOthers
<1>8. CASE UNCHANGED vars \/ \E k \in seen : WindowExpires(k)
  <2>1. UNCHANGED <<lake, missed, docs, hpc, batch, results, lakeOn>>
    BY <1>8 DEF vars, WindowExpires, plugin, handler, stores, site
  <2> QED BY <2>1, RawOthers
<1> QED
  BY <1>1, <1>2, <1>3, <1>4, <1>5, <1>6, <1>7, <1>8, Zenon DEF Next, PluginStep, HandlerStep

\* Where the data lake is configured, what is stored of a record after ETL never
\* comes before its raw event, unless a rule makes it etl_only or a call to the
\* lake failed, for any rules, batch size and number of flushes at once
\* (Handler.process).
THEOREM RawFirstAlways == Spec => []RawFirst
<1>1. Init => RawInv
  <2> SUFFICES ASSUME Init PROVE RawInv
    OBVIOUS
  <2>1. \A f \in Flushes : RawRouted(f) /\ RawWritten(f)
    BY DEF Init, RawRouted, RawWritten
  <2>2. RawFirst
    BY DEF Init, RawFirst, Derived
  <2> QED BY <2>1, <2>2, TypeInit DEF RawInv
<1>2. RawInv => RawFirst
  BY DEF RawInv
<1> QED BY <1>1, <1>2, RawStep, PTL DEF Spec

-----------------------------------------------------------------------------
(* Copies. *)

\* This call of cb_flush has not yet stored record i of chunk f in c.
Unsent(f, i, c) ==
    /\ pc[f] \in {"rows", "post", "wait"}
    /\ i > Len(ackTag[f])
    /\ \/ i > pos[f]
       \/ hpc[f] \in {"idle", "decode", "route", "raw", "etl"}
       \/ hpc[f] = "arango" /\ c \in left[f]

\* What is not stored yet in this call has been stored by earlier calls only.
Copies(f) ==
    \A i \in DOMAIN Chunk[f], c \in Collections :
        /\ docs[Chunk[f][i]][c] <= tries[f]
        /\ Unsent(f, i, c) => docs[Chunk[f][i]][c] < tries[f]

CopyInv == TypeInv /\ \A f \in Flushes : Copies(f)

\* A step that leaves the documents and the calls of g as they are, and makes no
\* record unsent.
LEMMA CopiesFrame ==
    ASSUME NEW g \in Flushes, Copies(g), UNCHANGED docs, tries'[g] = tries[g],
           \A i \in DOMAIN Chunk[g], c \in Collections : Unsent(g, i, c)' => Unsent(g, i, c)
    PROVE  Copies(g)'
BY DEF Copies

\* The same where the step does not touch g.
LEMMA CopiesAway ==
    ASSUME NEW g \in Flushes, Copies(g), UNCHANGED docs, tries'[g] = tries[g], pc'[g] = pc[g],
           pos'[g] = pos[g], ackTag'[g] = ackTag[g], hpc'[g] = hpc[g], left'[g] = left[g]
    PROVE  Copies(g)'
BY CopiesFrame DEF Unsent

\* Calling cb_flush.
LEMMA CopiesCbFlush ==
    ASSUME CopyInv, NEW f \in Flushes, CbFlush(f)
    PROVE  \A g \in Flushes : Copies(g)'
<1>1. /\ TypeOK /\ docs' = docs /\ tries'[f] = tries[f] + 1 /\ tries[f] \in Nat
      /\ \A g \in Flushes \ {f} :
           /\ tries'[g] = tries[g] /\ pc'[g] = pc[g] /\ pos'[g] = pos[g] /\ ackTag'[g] = ackTag[g]
           /\ hpc'[g] = hpc[g] /\ left'[g] = left[g]
  BY At DEF CopyInv, TypeInv, TypeOK, CbFlush, handler, stores
<1>2. Copies(f)'
  <2> SUFFICES ASSUME NEW i \in DOMAIN Chunk[f], NEW c \in Collections
               PROVE  docs[Chunk[f][i]][c] <= tries[f] + 1 /\ docs[Chunk[f][i]][c] < tries[f] + 1
    BY <1>1 DEF Copies
  <2>1. docs[Chunk[f][i]][c] <= tries[f] /\ docs[Chunk[f][i]][c] \in Nat
    BY <1>1, RecordAt DEF CopyInv, Copies, TypeOK
  <2> QED BY <1>1, <2>1
<1>3. ASSUME NEW g \in Flushes \ {f} PROVE Copies(g)'
  BY <1>1, CopiesAway DEF CopyInv
<1> QED BY <1>2, <1>3

\* The other steps of the plugin make nothing unsent: the rows of an accepted
\* frame are behind Len(ackTag), and a call that ends has nothing left to send.
LEMMA CopiesPlugin ==
    ASSUME CopyInv, NEW f \in Flushes,
           AppendRow(f) \/ Post(f) \/ PostFails(f) \/ Answer(f) \/ ConnectionLost(f)
    PROVE  \A g \in Flushes : Copies(g)'
<1>1. TypeInv /\ TypeOK /\ Copies(f)
  BY DEF CopyInv, TypeInv
<1>2. /\ docs' = docs /\ tries' = tries
      /\ \A g \in Flushes \ {f} :
           /\ pc'[g] = pc[g] /\ pos'[g] = pos[g] /\ ackTag'[g] = ackTag[g]
           /\ hpc'[g] = hpc[g] /\ left'[g] = left[g]
  <2>1. CASE AppendRow(f) \/ Post(f) \/ PostFails(f)
    BY <1>1, <2>1 DEF TypeOK, AppendRow, Post, PostFails, handler, stores
  <2>2. CASE Answer(f) \/ ConnectionLost(f)
    BY <1>1, <2>2 DEF TypeOK, Answer, ConnectionLost, Accepted, Refused, HandlerEnds, stores
  <2> QED BY <2>1, <2>2
<1>3. ASSUME NEW i \in DOMAIN Chunk[f], NEW c \in Collections, Unsent(f, i, c)'
      PROVE  Unsent(f, i, c)
  <2>1. i \in Nat /\ Len(ackTag[f]) \in Nat /\ pos[f] \in Nat /\ pos[f] >= 0
    BY <1>1, At, ChunkFacts
  <2>2. CASE AppendRow(f) \/ Post(f)
    <3>1. /\ ackTag' = ackTag /\ pc[f] \in {"rows", "post"} /\ hpc[f] = "idle"
      BY <1>1, <2>2, At DEF AppendRow, Post
    <3> QED BY <1>3, <3>1 DEF Unsent
  <2>3. CASE PostFails(f) \/ ConnectionLost(f) \/ (Answer(f) /\ hpc[f] # "204")
    <3>1. pc'[f] \in {"queued", "dropped"}
      BY <1>1, <2>3, AgainType DEF PostFails, ConnectionLost, Answer, Refused, TypeOK
    <3> QED BY <1>3, <3>1 DEF Unsent
  <2>4. CASE Answer(f) /\ hpc[f] = "204"
    <3>1. /\ ackTag[f] \in Seq(Tags) /\ batch[f] \in Seq(Records) /\ batch[f] # << >>
          /\ pos[f] = Len(ackTag[f]) + Len(batch[f]) /\ Len(batch[f]) \in Nat /\ pc[f] = "wait"
      BY <1>1, <2>4, At DEF Place
    <3>2. ackTag'[f] = ackTag[f] \o [k \in DOMAIN batch[f] |-> FrameTag(batch[f])]
      BY <1>1, <2>4 DEF Answer, Accepted, TypeOK
    <3>3. Len(ackTag'[f]) = pos[f]
      BY <3>1, <3>2, AckedTags
    <3>4. i > pos[f]
      BY <1>3, <3>3 DEF Unsent
    <3>5. i > Len(ackTag[f])
      <4> DEFINE a == Len(ackTag[f])
                 b == Len(batch[f])
                 p == pos[f]
      <4>1. a \in Nat /\ b \in Nat /\ p = a + b /\ i > p /\ i \in Nat
        BY <2>1, <3>1, <3>4
      <4> HIDE DEF a, b, p
      <4>2. i > a
        BY <4>1
      <4> QED BY <4>2 DEF a
    <3> QED BY <3>1, <3>4, <3>5 DEF Unsent
  <2> QED BY <2>2, <2>3, <2>4
<1>4. Copies(f)'
  BY <1>1, <1>2, <1>3, CopiesFrame
<1>5. ASSUME NEW g \in Flushes \ {f} PROVE Copies(g)'
  BY <1>2, CopiesAway DEF CopyInv
<1> QED BY <1>4, <1>5

\* The steps of a handler before its groups are written, and its end.
LEMMA CopiesHandler ==
    ASSUME CopyInv, NEW f \in Flushes,
           HandleBinary(f) \/ Route(f) \/ FlushRaw(f) \/ FlushEtl(f) \/ Processed(f)
    PROVE  \A g \in Flushes : Copies(g)'
<1>1. TypeInv /\ TypeOK /\ Copies(f)
  BY DEF CopyInv, TypeInv
<1>2. /\ docs' = docs /\ tries' = tries /\ pc' = pc /\ pos' = pos /\ ackTag' = ackTag
      /\ \A g \in Flushes \ {f} : hpc'[g] = hpc[g] /\ left'[g] = left[g]
  BY <1>1 DEF TypeOK, HandleBinary, Route, FlushRaw, FlushEtl, Processed, plugin, stores
<1>3. \/ hpc[f] \in {"decode", "route", "raw", "etl"}
      \/ hpc'[f] = "204"
  BY <1>1 DEF TypeOK, HandleBinary, Route, FlushRaw, FlushEtl, Processed
<1>4. \A i \in DOMAIN Chunk[f], c \in Collections : Unsent(f, i, c)' => Unsent(f, i, c)
  BY <1>2, <1>3 DEF Unsent
<1>5. Copies(f)'
  BY <1>1, <1>2, <1>4, CopiesFrame
<1>6. ASSUME NEW g \in Flushes \ {f} PROVE Copies(g)'
  BY <1>2, CopiesAway DEF CopyInv
<1> QED BY <1>5, <1>6

\* Writing a group adds one document of records that were unsent, and these are
\* sent then, even if the call fails half way.
LEMMA CopiesBulkCreate ==
    ASSUME CopyInv, NEW f \in Flushes, NEW c \in Collections, BulkCreate(f, c) \/ BulkCreateFails(f, c)
    PROVE  \A g \in Flushes : Copies(g)'
<1>1. /\ TypeInv /\ TypeOK /\ Place(f) /\ hpc[f] = "arango" /\ pc[f] = "wait" /\ c \in left[f]
      /\ docs \in [Records -> [Collections -> Nat]]
  BY At DEF CopyInv, TypeInv, TypeOK, BulkCreate, BulkCreateFails
<1>2. /\ tries' = tries /\ pc' = pc /\ pos' = pos /\ ackTag' = ackTag
      /\ \A g \in Flushes \ {f} : hpc'[g] = hpc[g] /\ left'[g] = left[g]
      /\ (hpc'[f] = "arango" /\ left'[f] = left[f] \ {c}) \/ hpc'[f] = "500"
  BY <1>1 DEF TypeOK, BulkCreate, BulkCreateFails, plugin
<1>3. PICK rows : rows \subseteq Group(f, c) /\ docs' = Inserted(f, c, rows)
  BY DEF BulkCreate, BulkCreateFails
<1>4. \A j \in rows : j \in DOMAIN batch[f]
  BY <1>1, <1>3, At DEF Group, Place
<1> SUFFICES ASSUME NEW g \in Flushes, NEW i \in DOMAIN Chunk[g], NEW d \in Collections
             PROVE  /\ docs'[Chunk[g][i]][d] <= tries[g]
                    /\ Unsent(g, i, d)' => docs'[Chunk[g][i]][d] < tries[g]
  BY <1>2 DEF Copies
<1> DEFINE r == Chunk[g][i]
<1>5. /\ r \in Records /\ docs[r][d] \in Nat /\ tries[g] \in Nat
      /\ docs[r][d] <= tries[g] /\ (Unsent(g, i, d) => docs[r][d] < tries[g])
  BY <1>1, RecordAt, At DEF CopyInv, Copies
<1>6. CASE d = c /\ \E j \in rows : batch[f][j] = r
  <2>1. PICK j \in rows : batch[f][j] = r
    BY <1>6
  <2> DEFINE a == Len(ackTag[f])
  <2>2. /\ a \in Nat /\ j \in Nat /\ j \in DOMAIN batch[f] /\ a + j \in DOMAIN Chunk[f]
        /\ a + j <= pos[f] /\ Chunk[f][a + j] = Chunk[g][i]
    BY <1>1, <1>4, <2>1, RowInChunk
  <2>3. g = f /\ i = a + j
    BY <2>2, DistinctRecords
  <2>4. j > 0 /\ pos[f] \in Nat
    BY <1>1, <2>2, At
  <2>5. i > a /\ ~(i > pos[f]) /\ i \in Nat
    <3> DEFINE p == pos[f]
    <3>1. a \in Nat /\ j \in Nat /\ j > 0 /\ i = a + j /\ a + j <= p /\ p \in Nat
      BY <2>2, <2>3, <2>4
    <3> HIDE DEF a, p
    <3>2. i > a /\ ~(i > p) /\ i \in Nat
      BY <3>1
    <3> QED BY <3>2 DEF p
  <2>6. Unsent(f, i, c)
    BY <1>1, <2>5 DEF Unsent
  <2>7. ~Unsent(f, i, c)'
    BY <1>2, <2>5 DEF Unsent
  <2>8. docs'[r][d] = docs[r][d] + 1
    BY <1>1, <1>3, <1>5, <1>6 DEF Inserted
  <2>9. docs[r][d] + 1 <= tries[g]
    BY <1>5, <1>6, <2>3, <2>6
  <2> QED BY <1>6, <2>3, <2>7, <2>8, <2>9
<1>7. CASE ~(d = c /\ \E j \in rows : batch[f][j] = r)
  <2>1. docs'[r][d] = docs[r][d]
    BY <1>1, <1>3, <1>5, <1>7 DEF Inserted
  <2>2. Unsent(g, i, d)' => Unsent(g, i, d)
    BY <1>1, <1>2 DEF Unsent
  <2> QED BY <1>5, <2>1, <2>2
<1> QED BY <1>6, <1>7

LEMMA CopyStep == CopyInv /\ [Next]_vars => CopyInv'
<1> SUFFICES ASSUME CopyInv, [Next]_vars PROVE CopyInv'
  OBVIOUS
<1> DEFINE Goal == \A g \in Flushes : Copies(g)'
<1>t. TypeInv' /\ TypeInv /\ TypeOK
  BY TypeStep DEF CopyInv, TypeInv
<1> SUFFICES Goal
  BY <1>t DEF CopyInv
<1>1. ASSUME NEW f \in Flushes, PluginStep(f) \/ PostFails(f) \/ ConnectionLost(f) PROVE Goal
  BY <1>1, CopiesCbFlush, CopiesPlugin DEF PluginStep
<1>2. ASSUME NEW f \in Flushes, HandlerStep(f) PROVE Goal
  BY <1>2, CopiesHandler, CopiesBulkCreate DEF HandlerStep
<1>3. CASE UNCHANGED vars \/ \E k \in seen : WindowExpires(k)
  <2>1. UNCHANGED <<plugin, handler, docs>>
    BY <1>3 DEF vars, WindowExpires, stores
  <2> QED BY <2>1, CopiesAway DEF CopyInv, plugin, handler
<1>4. CASE ServiceCrash
  <2> SUFFICES ASSUME NEW g \in Flushes PROVE Copies(g)'
    OBVIOUS
  <2>1. docs' = docs /\ tries' = tries /\ pos' = pos /\ ackTag' = ackTag /\ hpc'[g] = "idle"
    BY <1>4 DEF ServiceCrash, HandlerEnds, stores
  <2>2. pc'[g] \in {"queued", "dropped"} \/ (pc'[g] = pc[g] /\ pc[g] # "wait")
    BY <1>4, AgainType DEF ServiceCrash
  <2>3. pc[g] # "wait" => hpc[g] = "idle"
    BY <1>t, At
  <2>4. \A i \in DOMAIN Chunk[g], c \in Collections : Unsent(g, i, c)' => Unsent(g, i, c)
    BY <2>1, <2>2, <2>3 DEF Unsent
  <2> QED BY <2>1, <2>4, CopiesFrame DEF CopyInv
<1> QED BY <1>1, <1>2, <1>3, <1>4 DEF Next

\* No collection holds more documents of a record than its chunk was flushed, for
\* any retry limit and whatever fails: a retry duplicates what an attempt has
\* written, an attempt duplicates nothing (cb_flush, Handler.process).
THEOREM CopiesBoundedAlways == Spec => []CopiesBounded
<1>1. Init => CopyInv
  <2> SUFFICES ASSUME Init PROVE CopyInv
    OBVIOUS
  <2>1. \A f \in Flushes : Copies(f)
    BY RecordAt DEF Init, Copies, Unsent
  <2> QED BY <2>1, TypeInit DEF CopyInv
<1>2. CopyInv => CopiesBounded
  BY DEF CopyInv, Copies, CopiesBounded
<1> QED BY <1>1, <1>2, CopyStep, PTL DEF Spec
=============================================================================
