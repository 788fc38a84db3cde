-------------------------- MODULE AgentBufferProofs --------------------------
(***************************************************************************)
(* Proofs about the agent's anti-flooding buffer in service (Next, without *)
(* reloads), for any length of the ring, any levels and any number of      *)
(* messages and losses of the server.                                      *)
(***************************************************************************)
EXTENDS AgentBuffer, SequenceTheorems, TLAPS

\* Where the threads are with the ring: the slot the dispatch thread still has
\* to clear is the one before the oldest message, and a message is in its hands
\* only outside "wait".
RingInv ==
    /\ buflength = Length
    /\ mainPc = "append" => received >= 1
    /\ mainPc # "append" => mainWord = {}
    /\ dispPc = "wait" => msg_output = 0
    /\ dispPc \in {"send", "clear"} => msg_output # 0
    /\ dispPc # "wait" => j = Forward(original_j)

\* What holds of the flags while the level is NORMAL.  An alarm that is still up
\* is one that the dispatch thread has not come to, and "normal" is up as well
\* and will be reported after it.
AlarmInv ==
    state = "NORMAL" =>
        /\ mainWord = {}
        /\ dispPc = "report" => ReportOrder[flag] \in buff
                                /\ dispWord = buff \ {ReportOrder[flag]}
        /\ dispPc \in {"flags", "report"} =>
             \A g \in 1 .. 3 : g < flag => ReportOrder[g] \notin buff
        /\ \/ reported \in {"none", "normal"} /\ buff \subseteq {"normal"}
           \/ "normal" \in buff /\ dispPc \in {"flags", "report"}

\* The inductive invariant.
IInv == TypeOK /\ RingInv /\ AlarmInv

-----------------------------------------------------------------------------
(* The indices of the ring, which has N slots. *)

\* The remainders the macros take: of a number within a turn of the ring, in the
\* turn after it, and in the one before.
LEMMA ModTurns ==
    ASSUME NEW n \in Int, n > 0, NEW x \in Int, -n <= x, x < 2 * n
    PROVE  x % n = IF x < 0 THEN x + n ELSE IF x < n THEN x ELSE x - n
<1>1. CASE x < 0
  BY <1>1
<1>2. CASE 0 <= x /\ x < n
  BY <1>2
<1>3. CASE n <= x
  BY <1>3
<1> QED BY <1>1, <1>2, <1>3

\* What the macros compute without remainders.
LEMMA Indices ==
    ASSUME TypeOK
    PROVE  /\ N \in Nat \ {0} /\ N > 1 /\ buflength = N - 1
           /\ \A x \in 0 .. buflength :
                Forward(x) = (IF x = buflength THEN 0 ELSE x + 1) /\ Forward(x) \in 0 .. buflength
           /\ used = (IF j <= i THEN i - j ELSE i - j + N) /\ used \in 0 .. buflength
           /\ empty <=> used = 0
           /\ full <=> used = buflength
<1>1. N \in Nat \ {0} /\ N > 1 /\ buflength = N - 1
  BY DEF TypeOK, N
<1>2. i \in 0 .. N - 1 /\ j \in 0 .. N - 1
  BY <1>1 DEF TypeOK
<1>3. \A x \in 0 .. N - 1 : (x + 1) % N = IF x = N - 1 THEN 0 ELSE x + 1
  <2> SUFFICES ASSUME NEW x \in 0 .. N - 1
               PROVE  (x + 1) % N = IF x = N - 1 THEN 0 ELSE x + 1
    OBVIOUS
  <2>1. x + 1 \in Int /\ -N <= x + 1 /\ x + 1 < 2 * N
    BY <1>1
  <2> HIDE DEF N
  <2>2. (x + 1) % N = IF x + 1 < 0 THEN x + 1 + N ELSE IF x + 1 < N THEN x + 1 ELSE x + 1 - N
    BY <1>1, <2>1, ModTurns
  <2> QED BY <1>1, <2>2
<1>4. (i - j) % N = IF j <= i THEN i - j ELSE i - j + N
  <2>1. i - j \in Int /\ -N <= i - j /\ i - j < 2 * N
    BY <1>1, <1>2
  <2>2. (i - j) % N = IF i - j < 0 THEN i - j + N ELSE IF i - j < N THEN i - j ELSE i - j - N
    BY <1>1, <2>1, ModTurns
  <2> QED BY <1>1, <1>2, <2>2
<1> QED BY <1>1, <1>2, <1>3, <1>4 DEF Forward, used, empty, full

-----------------------------------------------------------------------------
(* The invariant, one conjunct at a time. *)

\* At first the ring is empty and both threads are idle.
LEMMA InitIInv == Init => IInv
<1> SUFFICES ASSUME Init PROVE IInv
  OBVIOUS
<1>1. Length \in Nat \ {0} /\ MaxMsgs \in Nat /\ MaxLosses \in Nat
  BY BufferAssumption
<1>2. TypeOK
  <2>1. buffer \in [0 .. buflength -> {0} \cup Messages] /\ buflength \in Nat \ {0}
    BY <1>1 DEF Init
  <2>2. i \in 0 .. buflength /\ j \in 0 .. buflength /\ original_j \in 0 .. buflength
    BY <1>1 DEF Init
  <2>3. state \in Levels /\ flag \in 1 .. 4 /\ reported \in Flags \cup {"none"}
    BY DEF Init, Levels
  <2>4. received \in 0 .. MaxMsgs /\ losses \in 0 .. MaxLosses
    BY <1>1 DEF Init
  <2> QED BY <2>1, <2>2, <2>3, <2>4 DEF Init, TypeOK
<1>3. RingInv
  BY DEF Init, RingInv
<1>4. AlarmInv
  BY DEF Init, AlarmInv
<1> QED BY <1>2, <1>3, <1>4 DEF IInv

\* The variables keep their types: the indices stay in the ring.
LEMMA NextTypeOK ==
    ASSUME TypeOK, RingInv, [Next]_vars
    PROVE  TypeOK'
<1> USE DEF TypeOK, ringVars, mainVars, dispVars, waitVars
<1>1. \A x \in 0 .. buflength : Forward(x) \in 0 .. buflength
  BY Indices
<1> MaxMsgs \in Nat /\ MaxLosses \in Nat
  BY BufferAssumption
<1>2. CASE BufferAppend
  <2>1. state' \in Levels
    BY <1>2 DEF BufferAppend, Levels
  <2>2. mainWord' \subseteq Flags
    BY <1>2 DEF BufferAppend, Flags
  <2>3. received' \in 0 .. MaxMsgs
    BY <1>2 DEF BufferAppend
  <2> QED BY <1>2, <2>1, <2>2, <2>3 DEF BufferAppend
<1>3. CASE AppendStores
  <2>1. mainPc = "append" /\ received \in Messages
    BY <1>3 DEF AppendStores, RingInv, Messages
  <2>2. i' \in 0 .. buflength /\ buffer' \in [0 .. buflength -> {0} \cup Messages]
    BY <1>1, <1>3, <2>1 DEF AppendStores
  <2> QED BY <1>3, <2>2 DEF AppendStores
<1>4. CASE LostServer \/ ServerUp
  <2>1. losses' \in 0 .. MaxLosses
    BY <1>4 DEF LostServer, ServerUp
  <2>2. waiting' \in BOOLEAN /\ mainPc' \in {"select", "start"}
    BY <1>4 DEF LostServer, ServerUp
  <2> QED BY <1>4, <2>1, <2>2 DEF LostServer, ServerUp
<1>5. CASE TakeOldest
  <2>1. state' \in Levels /\ buff' \subseteq Flags
    BY <1>5 DEF TakeOldest, Levels, Flags
  <2>2. j' \in 0 .. buflength
    BY <1>1, <1>5 DEF TakeOldest
  <2> QED BY <1>5, <2>1, <2>2 DEF TakeOldest
<1>6. flag \in 1 .. 4 /\ ReportOrder[flag] \in Flags /\ (flag % 4) + 1 \in 1 .. 4
  BY DEF ReportOrder, Flags
<1>7. CASE FlagDown
  BY <1>6, <1>7 DEF FlagDown, NextFlag
<1>8. CASE FlagUp
  BY <1>6, <1>8 DEF FlagUp
<1>9. CASE ReportLevel
  BY <1>6, <1>9 DEF ReportLevel, NextFlag
<1>10. CASE OsWait
  BY <1>10 DEF OsWait
<1>11. CASE SendMsg
  BY <1>11 DEF SendMsg
<1>12. CASE ClearSlot
  BY <1>12 DEF ClearSlot
<1>13. CASE UNCHANGED vars
  BY <1>13 DEF vars
<1> QED
  BY <1>2, <1>3, <1>4, <1>5, <1>7, <1>8, <1>9, <1>10, <1>11, <1>12, <1>13
  DEF Next, Main, Dispatch

\* The dispatch thread keeps to the slot before the oldest message.
LEMMA NextRingInv ==
    ASSUME TypeOK, RingInv, [Next]_vars
    PROVE  RingInv'
<1> USE DEF TypeOK, RingInv, ringVars, mainVars, dispVars, waitVars, Forward, N
<1>1. CASE BufferAppend
  BY <1>1 DEF BufferAppend
<1>2. CASE AppendStores
  BY <1>2 DEF AppendStores
<1>3. CASE LostServer \/ ServerUp
  BY <1>3 DEF LostServer, ServerUp
<1>4. CASE TakeOldest
  BY <1>4 DEF TakeOldest, Locked
<1>5. CASE FlagDown
  BY <1>5 DEF FlagDown, NextFlag
<1>6. CASE FlagUp
  BY <1>6 DEF FlagUp
<1>7. CASE ReportLevel
  BY <1>7 DEF ReportLevel, NextFlag
<1>8. CASE OsWait
  BY <1>8 DEF OsWait
<1>9. CASE SendMsg
  BY <1>9 DEF SendMsg
<1>10. CASE ClearSlot
  BY <1>10 DEF ClearSlot
<1>11. CASE UNCHANGED vars
  BY <1>11 DEF vars
<1> QED
  BY <1>1, <1>2, <1>3, <1>4, <1>5, <1>6, <1>7, <1>8, <1>9, <1>10, <1>11
  DEF Next, Main, Dispatch

\* While the level is NORMAL no alarm can overtake "normal": the level becomes
\* NORMAL only when the dispatch thread holds the mutex, so that the main thread
\* has no word of flags in hand, and "normal" is the last flag looked at.
LEMMA NextAlarmInv ==
    ASSUME TypeOK, RingInv, AlarmInv, [Next]_vars
    PROVE  AlarmInv'
<1> USE DEF TypeOK, AlarmInv, mainVars, dispVars
<1>1. CASE BufferAppend
  BY <1>1 DEF BufferAppend
<1>2. CASE AppendStores
  BY <1>2 DEF AppendStores
<1>3. CASE LostServer \/ ServerUp
  BY <1>3 DEF LostServer, ServerUp
<1>4. CASE TakeOldest
  <2>1. mainWord' = {}
    BY <1>4 DEF TakeOldest, Locked, RingInv
  <2> QED BY <1>4, <2>1 DEF TakeOldest
<1>5. CASE FlagDown
  BY <1>5 DEF FlagDown, NextFlag, ReportOrder
<1>6. CASE FlagUp
  BY <1>6 DEF FlagUp
<1>7. CASE ReportLevel
  <2> SUFFICES ASSUME state = "NORMAL" PROVE AlarmInv'
    BY <1>7 DEF ReportLevel
  <2>1. CASE flag = 4
    <3>1. /\ reported' = "normal" /\ buff' = buff \ {"normal"} /\ dispPc' = "os_wait"
          /\ UNCHANGED <<state, mainWord>>
      BY <1>7, <2>1 DEF ReportLevel, NextFlag, ReportOrder
    <3>2. buff \subseteq {"normal"}
      <4>1. \A g \in 1 .. 3 : ReportOrder[g] \notin buff
        BY <1>7, <2>1 DEF ReportLevel
      <4> QED BY <4>1 DEF ReportOrder, Flags
    <3> QED BY <3>1, <3>2
  <2>2. CASE flag \in 1 .. 3
    <3>1. /\ buff' = buff \ {ReportOrder[flag]} /\ flag' = flag + 1 /\ dispPc' = "flags"
          /\ UNCHANGED <<state, mainWord>>
      BY <1>7, <2>2 DEF ReportLevel, NextFlag
    <3>2. ReportOrder[flag] \in buff /\ ReportOrder[flag] # "normal"
      BY <1>7, <2>2 DEF ReportLevel, ReportOrder
    <3>3. "normal" \in buff'
      BY <3>1, <3>2
    <3>4. \A g \in 1 .. 3 : g < flag' => ReportOrder[g] \notin buff'
      BY <1>7, <2>2, <3>1 DEF ReportLevel
    <3> QED BY <3>1, <3>3, <3>4
  <2> QED BY <2>1, <2>2
<1>8. CASE OsWait
  BY <1>8 DEF OsWait
<1>9. CASE SendMsg
  BY <1>9 DEF SendMsg
<1>10. CASE ClearSlot
  BY <1>10 DEF ClearSlot
<1>11. CASE UNCHANGED vars
  BY <1>11 DEF vars
<1> QED
  BY <1>1, <1>2, <1>3, <1>4, <1>5, <1>6, <1>7, <1>8, <1>9, <1>10, <1>11
  DEF Next, Main, Dispatch

\* The invariant holds in every reachable state.
THEOREM Invariance == Spec => []IInv
<1>1. IInv /\ [Next]_vars => IInv'
  BY NextTypeOK, NextRingInv, NextAlarmInv DEF IInv
<1> QED BY <1>1, InitIInv, PTL DEF Spec

\* The indices stay in the ring and every variable keeps its type
\* (buffer_append, dispatch_buffer).
THEOREM TypeCorrect == Spec => []TypeOK
BY Invariance, PTL DEF IInv

\* The manager is not left with an alarm that is over, however the two threads
\* interleave their writes of the flags (buffer_append, dispatch_buffer).
THEOREM NoStaleAlarmAlways == Spec => []NoStaleAlarm
<1>1. IInv => NoStaleAlarm
  BY DEF IInv, AlarmInv, NoStaleAlarm
<1> QED BY <1>1, Invariance, PTL

-----------------------------------------------------------------------------
(* The refinement of BoundedFifo. *)

\* A ring b of n slots for values of M, x being the index of the next message
\* and y that of the oldest one.
IsRing(b, x, y, n, M) ==
    /\ n \in Nat /\ n > 1
    /\ x \in 0 .. n - 1 /\ y \in 0 .. n - 1
    /\ b \in [0 .. n - 1 -> M]

\* The messages in it, how many they are and where the k-th one is.
Ring(b, x, y, n) == [k \in 1 .. (x - y) % n |-> b[(y + k - 1) % n]]
Count(x, y, n) == IF y <= x THEN x - y ELSE x - y + n
At(y, k, n) == IF y + k - 1 < n THEN y + k - 1 ELSE y + k - 1 - n

\* Index z comes after index x; two rings differ in slot x only.
Follows(x, z, n) == z = IF x = n - 1 THEN 0 ELSE x + 1
AllBut(d, b, x, n) == \A a \in 0 .. n - 1 : a # x => d[a] = b[a]

\* The messages in a ring are a sequence.
LEMMA RingIs ==
    ASSUME NEW b, NEW x, NEW y, NEW n, NEW M, IsRing(b, x, y, n, M)
    PROVE  /\ Ring(b, x, y, n) \in Seq(M)
           /\ Len(Ring(b, x, y, n)) = Count(x, y, n)
           /\ Count(x, y, n) \in 0 .. n - 1
           /\ \A k \in 1 .. Count(x, y, n) :
                /\ Ring(b, x, y, n)[k] = b[At(y, k, n)]
                /\ At(y, k, n) \in 0 .. n - 1
<1> USE DEF IsRing
<1> DEFINE c == Count(x, y, n)
           r == Ring(b, x, y, n)
<1>1. c \in 0 .. n - 1
  BY DEF Count
<1>2. (x - y) % n = c
  <2>1. x - y \in Int /\ -n <= x - y /\ x - y < 2 * n
    OBVIOUS
  <2>2. (x - y) % n = IF x - y < 0 THEN x - y + n ELSE IF x - y < n THEN x - y ELSE x - y - n
    BY <2>1, ModTurns
  <2> QED BY <2>2 DEF Count
<1>3. ASSUME NEW k \in 1 .. c
      PROVE  (y + k - 1) % n = At(y, k, n) /\ At(y, k, n) \in 0 .. n - 1
  <2>1. y + k - 1 \in Int /\ 0 <= y + k - 1 /\ -n <= y + k - 1 /\ y + k - 1 < 2 * n
    BY <1>1
  <2>2. (y + k - 1) % n = IF y + k - 1 < 0 THEN y + k - 1 + n
                          ELSE IF y + k - 1 < n THEN y + k - 1 ELSE y + k - 1 - n
    BY <2>1, ModTurns
  <2> QED BY <2>1, <2>2 DEF At
<1>4. r = [k \in 1 .. c |-> b[At(y, k, n)]]
  BY <1>2, <1>3 DEF Ring
<1>5. \A k \in 1 .. c : b[At(y, k, n)] \in M
  BY <1>3
<1> HIDE DEF c, r
<1>6. r \in [1 .. c -> M] /\ c \in Nat
  BY <1>1, <1>4, <1>5
<1>7. r \in Seq(M) /\ Len(r) = c
  BY <1>6
<1> QED BY <1>1, <1>3, <1>4, <1>7 DEF c, r

\* A message stored at the next index of a ring that is not full comes last.
LEMMA RingPut ==
    ASSUME NEW b, NEW d, NEW x, NEW y, NEW z, NEW n, NEW M, NEW v \in M,
           IsRing(b, x, y, n, M), IsRing(d, z, y, n, M), Count(x, y, n) # n - 1,
           Follows(x, z, n), AllBut(d, b, x, n), d[x] = v
    PROVE  Ring(d, z, y, n) = Append(Ring(b, x, y, n), v)
<1> DEFINE r == Ring(b, x, y, n)
           s == Ring(d, z, y, n)
           c == Count(x, y, n)
<1>1. Count(z, y, n) = c + 1 /\ c \in 0 .. n - 1
  BY DEF Count, Follows, IsRing
<1>2. /\ r \in Seq(M) /\ Len(r) = c
      /\ \A k \in 1 .. c : r[k] = b[At(y, k, n)] /\ At(y, k, n) \in 0 .. n - 1
  BY RingIs
<1>3. /\ s \in Seq(M) /\ Len(s) = c + 1
      /\ \A k \in 1 .. c + 1 : s[k] = d[At(y, k, n)] /\ At(y, k, n) \in 0 .. n - 1
  BY <1>1, RingIs
<1>4. \A k \in 1 .. c : At(y, k, n) # x
  BY DEF At, Count, IsRing
<1>5. At(y, c + 1, n) = x
  BY DEF At, Count, IsRing
<1> HIDE DEF r, s, c
<1>6. ASSUME NEW k \in 1 .. c + 1 PROVE s[k] = Append(r, v)[k]
  <2>1. CASE k = c + 1
    BY <1>1, <1>2, <1>3, <1>5, <2>1, AppendProperties
  <2>2. CASE k \in 1 .. c
    BY <1>2, <1>3, <1>4, <2>2, AppendProperties DEF AllBut
  <2>3. k = c + 1 \/ k \in 1 .. c
    BY <1>1 DEF IsRing
  <2> QED BY <2>1, <2>2, <2>3, Zenon
<1>7. Append(r, v) \in Seq(M) /\ Len(Append(r, v)) = c + 1
  BY <1>2, AppendProperties
<1>8. s = Append(r, v)
  BY <1>3, <1>6, <1>7, SeqEqual
<1> QED BY <1>8 DEF r, s

\* Moving the index of the oldest message takes the first one off.
LEMMA RingGet ==
    ASSUME NEW b, NEW x, NEW y, NEW z, NEW n, NEW M,
           IsRing(b, x, y, n, M), IsRing(b, x, z, n, M), Count(x, y, n) # 0, Follows(y, z, n)
    PROVE  /\ Ring(b, x, y, n) # << >>
           /\ Head(Ring(b, x, y, n)) = b[y]
           /\ Ring(b, x, z, n) = Tail(Ring(b, x, y, n))
<1> DEFINE r == Ring(b, x, y, n)
           s == Ring(b, x, z, n)
           c == Count(x, y, n)
<1>1. Count(x, z, n) = c - 1 /\ c \in 1 .. n - 1
  BY DEF Count, Follows, IsRing
<1>2. /\ r \in Seq(M) /\ Len(r) = c
      /\ \A k \in 1 .. c : r[k] = b[At(y, k, n)] /\ At(y, k, n) \in 0 .. n - 1
  BY RingIs
<1>3. /\ s \in Seq(M) /\ Len(s) = c - 1
      /\ \A k \in 1 .. c - 1 : s[k] = b[At(z, k, n)] /\ At(z, k, n) \in 0 .. n - 1
  BY <1>1, RingIs
<1>4. ASSUME NEW k \in 1 .. c - 1 PROVE At(z, k, n) = At(y, k + 1, n)
  <2> HIDE DEF c
  <2>1. k \in Nat /\ 1 <= k /\ k + 1 <= n - 1
    BY <1>1 DEF IsRing
  <2> QED BY <2>1 DEF At, Follows, IsRing
<1>5. At(y, 1, n) = y
  BY DEF At, IsRing
<1> HIDE DEF r, s, c
<1>6. r # << >> /\ Head(r) = b[y]
  BY <1>1, <1>2, <1>5
<1>7. /\ Tail(r) \in Seq(M) /\ Len(Tail(r)) = c - 1
      /\ \A k \in 1 .. c - 1 : Tail(r)[k] = r[k + 1]
  BY <1>2, <1>6, HeadTailProperties
<1>8. ASSUME NEW k \in 1 .. c - 1 PROVE s[k] = Tail(r)[k]
  <2>1. k + 1 \in 1 .. c
    BY <1>1
  <2>2. s[k] = b[At(z, k, n)] /\ Tail(r)[k] = r[k + 1]
    BY <1>3, <1>7
  <2>3. At(z, k, n) = At(y, k + 1, n) /\ r[k + 1] = b[At(y, k + 1, n)]
    BY <1>2, <1>4, <2>1
  <2> QED BY <2>2, <2>3
<1>9. s = Tail(r)
  BY <1>1, <1>3, <1>7, <1>8, SeqEqual
<1> QED BY <1>6, <1>9 DEF r, s

\* Whatever is written to the slot before the oldest message, the messages stay.
LEMMA RingClear ==
    ASSUME NEW b, NEW d, NEW x, NEW y, NEW s, NEW n, NEW M, s \in 0 .. n - 1,
           IsRing(b, x, y, n, M), IsRing(d, x, y, n, M), Follows(s, y, n),
           AllBut(d, b, s, n)
    PROVE  Ring(d, x, y, n) = Ring(b, x, y, n)
<1> DEFINE r == Ring(b, x, y, n)
           t == Ring(d, x, y, n)
           c == Count(x, y, n)
<1>1. /\ r \in Seq(M) /\ Len(r) = c
      /\ \A k \in 1 .. c : r[k] = b[At(y, k, n)] /\ At(y, k, n) \in 0 .. n - 1
  BY RingIs
<1>2. /\ t \in Seq(M) /\ Len(t) = c
      /\ \A k \in 1 .. c : t[k] = d[At(y, k, n)] /\ At(y, k, n) \in 0 .. n - 1
  BY RingIs
<1>3. \A k \in 1 .. c : At(y, k, n) # s
  BY DEF At, Count, Follows, IsRing
<1> HIDE DEF t, r, c
<1>4. \A k \in 1 .. c : t[k] = r[k]
  BY <1>1, <1>2, <1>3 DEF AllBut
<1>5. t = r
  BY <1>1, <1>2, <1>4, SeqEqual
<1> QED BY <1>5 DEF r, t

\* Every step of the two threads is a step of the queue, or none.
LEMMA FifoStep ==
    ASSUME IInv, IInv', [Next]_vars
    PROVE  [Fifo!Next]_(Fifo!vars)
<1> DEFINE M == {0} \cup Messages
           Same == UNCHANGED <<buflength, buffer, i, j, msg_output>>
<1>1. N \in Nat /\ Length = N - 1 /\ UNCHANGED N
  BY DEF IInv, TypeOK, RingInv, N
<1>2. IsRing(buffer, i, j, N, M) /\ IsRing(buffer', i', j', N, M)
  BY DEF IInv, TypeOK, RingInv, N, IsRing
<1>3. Pending(N) = Ring(buffer, i, j, N) /\ Pending(N)' = Ring(buffer', i', j', N)
  BY <1>1 DEF Pending, Ring
<1>4. used = Count(i, j, N)
  BY Indices DEF IInv, Count
<1>5. \A x \in 0 .. N - 1 : Follows(x, Forward(x), N)
  BY <1>1, Indices DEF IInv, Follows
<1>6. ASSUME Same PROVE UNCHANGED Fifo!vars
  BY <1>6 DEF Fifo!vars, Pending, N
<1>7. CASE AppendStores
  <2>1. UNCHANGED <<buflength, j, msg_output>> /\ received \in Messages
    BY <1>7 DEF AppendStores, dispVars, IInv, TypeOK, RingInv, Messages
  <2>2. CASE full
    BY <1>6, <1>7, <2>1, <2>2 DEF AppendStores
  <2>3. CASE ~full
    <3>1. AllBut(buffer', buffer, i, N) /\ buffer'[i] = received /\ Follows(i, i', N)
      BY <1>2, <1>5, <1>7, <2>3 DEF AppendStores, AllBut, IsRing
    <3>2. Count(i, j, N) # N - 1
      BY <1>1, <1>4, <2>3, Indices DEF IInv
    <3>3. received \in M
      BY <2>1
    <3> HIDE DEF M, N
    <3>4. Ring(buffer', i', j, N) = Append(Ring(buffer, i, j, N), received)
      BY <1>2, <2>1, <3>1, <3>2, <3>3, RingPut
    <3>5. Len(Ring(buffer, i, j, N)) = Count(i, j, N) /\ Count(i, j, N) \in 0 .. N - 1
      BY <1>2, RingIs
    <3>6. Len(Ring(buffer, i, j, N)) < Length
      BY <1>1, <3>2, <3>5
    <3>7. Fifo!Put(received)
      BY <1>3, <2>1, <3>4, <3>6 DEF Fifo!Put
    <3> QED BY <2>1, <3>7 DEF Fifo!Next
  <2> QED BY <2>2, <2>3
<1>8. CASE TakeOldest
  <2>1. /\ UNCHANGED <<buffer, i>> /\ msg_output' = buffer[j] /\ msg_output = 0
        /\ Follows(j, j', N)
    BY <1>2, <1>5, <1>8 DEF TakeOldest, IInv, RingInv, IsRing
  <2>2. Count(i, j, N) # 0
    BY <1>4, <1>8, Indices DEF TakeOldest, IInv
  <2> HIDE DEF M, N
  <2>3. /\ Ring(buffer, i, j, N) # << >>
        /\ Head(Ring(buffer, i, j, N)) = buffer[j]
        /\ Ring(buffer, i, j', N) = Tail(Ring(buffer, i, j, N))
    BY <1>2, <2>1, <2>2, RingGet
  <2> QED BY <1>3, <2>1, <2>3 DEF Fifo!Next, Fifo!Get
<1>9. CASE ClearSlot
  <2>1. /\ UNCHANGED <<i, j>> /\ msg_output' = 0 /\ msg_output # 0
        /\ original_j \in 0 .. N - 1 /\ AllBut(buffer', buffer, original_j, N)
    BY <1>2, <1>9 DEF ClearSlot, IInv, RingInv, TypeOK, AllBut, IsRing, N
  <2>2. Follows(original_j, j, N)
    BY <1>5, <1>9, <2>1 DEF ClearSlot, IInv, RingInv
  <2> HIDE DEF M, N
  <2>3. Ring(buffer', i, j, N) = Ring(buffer, i, j, N)
    BY <1>2, <2>1, <2>2, RingClear
  <2> QED BY <1>3, <2>1, <2>3 DEF Fifo!Next, Fifo!Done
<1>10. CASE BufferAppend \/ LostServer \/ ServerUp
  BY <1>6, <1>10 DEF BufferAppend, LostServer, ServerUp, ringVars, dispVars
<1>11. CASE FlagDown \/ FlagUp \/ ReportLevel \/ OsWait \/ SendMsg
  BY <1>6, <1>11 DEF FlagDown, FlagUp, ReportLevel, OsWait, SendMsg, ringVars
<1>12. CASE UNCHANGED vars
  BY <1>6, <1>12 DEF vars, ringVars, dispVars
<1> QED BY <1>6, <1>7, <1>8, <1>9, <1>10, <1>11, <1>12 DEF Next, Main, Dispatch

\* The ring, read from j to i, is a bounded queue: what is accepted leaves once
\* and in order, although slots are cleared after the mutex has been released
\* (the safety half of BufferIsFifo).
THEOREM BufferStepsAreFifo == Spec => Fifo!Safety
<1>1. Init => Fifo!Init
  <2> SUFFICES ASSUME Init PROVE Fifo!Init
    OBVIOUS
  <2>1. IsRing(buffer, i, j, N, {0} \cup Messages) /\ Count(i, j, N) = 0
    BY InitIInv DEF Init, IInv, TypeOK, N, IsRing, Count
  <2>2. Pending(N) = Ring(buffer, i, j, N)
    BY DEF Pending, Ring
  <2> HIDE DEF N
  <2>3. Pending(N) \in Seq({0} \cup Messages) /\ Len(Pending(N)) = 0
    BY <2>1, <2>2, RingIs
  <2> QED BY <2>3, EmptySeq DEF Init, Fifo!Init
<1> QED BY <1>1, FifoStep, Invariance, PTL DEF Spec, Fifo!Safety
==============================================================================
