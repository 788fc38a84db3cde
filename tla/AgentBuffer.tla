------------------------------ MODULE AgentBuffer ----------------------------
(***************************************************************************)
(* The anti-flooding buffer of the agent (client-agent/buffer.c): a ring   *)
(* of pointers shared by the main thread, which appends what it receives   *)
(* from the collectors (EventForward) and resizes the ring when the        *)
(* configuration is reloaded, and the dispatch thread, which takes the     *)
(* oldest message under the mutex and sends, frees and clears it without.  *)
(*                                                                         *)
(* Messages are numbered in the order in which they are received; 0 is the *)
(* null pointer.  The four flags of "buff" are bit-fields of one word,     *)
(* which one thread writes under the mutex and the other without it: a     *)
(* write of a flag is a load and a store of the whole word.                *)
(***************************************************************************)
EXTENDS Naturals, Integers, Sequences

CONSTANTS
    Length,      \* agt->buflength as it was configured at the start
    warn_level,  \* per cent of the buffer in use at which a warning is due
    normal_level,\* per cent at which all is normal again
    Lengths,     \* the lengths a reloaded configuration may give
    MaxMsgs,     \* bound on the messages the collectors produce
    MaxLosses    \* bound on how often the server is lost

\* buffer_init reads the levels within these ranges (getDefine_Int).  A
\* dispatch looks at the level before it takes a message, so "normal" can only
\* be seen if one message alone is normal: the defaults (5000 messages, 70 %)
\* are far from that edge.
ASSUME BufferAssumption ==
    /\ Length \in Nat \ {0}
    /\ warn_level \in 1 .. 100
    /\ normal_level \in 0 .. warn_level - 1
    /\ normal_level * Length >= 100
    /\ Lengths \subseteq Nat \ {0}
    /\ MaxMsgs \in Nat
    /\ MaxLosses \in Nat

VARIABLES
    buflength,  \* agt->buflength
    buffer,     \* the slots of the ring
    i, j,       \* where the next message goes, where the oldest one is
    state,      \* the level the buffer is known to be at
    buff,       \* the flags raised: levels still to be reported
    received,   \* messages received from the collectors
    mainPc,     \* what the main thread does
    mainWord,   \* the word of flags it has loaded
    dispPc,     \* what the dispatch thread does
    flag,       \* the flag it looks at, an index of ReportOrder
    dispWord,   \* the word of flags it has loaded
    msg_output, \* the message it has taken, or 0
    original_j, \* the slot it took it from
    reported,   \* the level reported last
    waiting,    \* os_setwait is in force
    losses,     \* how often the server was lost
    current     \* current_capacity and the count of a resize under way

ringVars == <<buflength, buffer, i, j>>
mainVars == <<received, mainPc, mainWord>>
dispVars == <<dispPc, flag, dispWord, msg_output, original_j, reported>>
waitVars == <<waiting, losses>>
vars == <<ringVars, state, buff, mainVars, dispVars, waitVars, current>>

Levels == {"NORMAL", "WARNING", "FULL", "FLOOD"}
Flags == {"warn", "full", "flood", "normal"}
Messages == 1 .. MaxMsgs

-----------------------------------------------------------------------------
(* The macros of agentd.h.  C's remainder has the sign of its left side, and *)
(* the macros and the function add the modulus where it may be negative.     *)

N == buflength + 1

\* Mutant: the slot that tells full from empty is used as well.
full_NoGap == (i + 1) % (N + 1) = j

full == (i + 1) % N = j
empty == i = j

\* Mutant: the index is not taken modulo the length of the ring.
Forward_NoWrap(x) == x + 1

Forward(x) == (x + 1) % N
used == (i - j) % N
warn == used * 100 >= warn_level * buflength
nowarn == used * 100 <= warn_level * buflength

\* Mutant: the percentage is divided as an integer.
normal_IntegerDivision == used <= (normal_level \div 100) * buflength

normal == used * 100 <= normal_level * buflength

Init ==
    /\ buflength = Length
    /\ buffer = [s \in 0 .. Length |-> 0]
    /\ i = 0
    /\ j = 0
    /\ state = "NORMAL"
    /\ buff = {}
    /\ received = 0
    /\ mainPc = "select"
    /\ mainWord = {}
    /\ dispPc = "wait"
    /\ flag = 1
    /\ dispWord = {}
    /\ msg_output = 0
    /\ original_j = 0
    /\ reported = "none"
    /\ waiting = FALSE
    /\ losses = 0
    /\ current = [capacity |-> 0, count |-> 0]

-----------------------------------------------------------------------------
(* The main thread. *)

\* Mutant: the levels are looked at and the flags raised without the mutex.
Locked_Never == FALSE

\* The mutex is the main thread's while it is in buffer_append; every other
\* section that holds it is one step.
Locked == mainPc = "append"

\* buffer_append takes the mutex and looks whether a higher level is reached;
\* whether the tolerance has run out is left open.  A flag that is to be raised
\* is put into the word just loaded.
BufferAppend ==
    /\ mainPc = "select"
    /\ received < MaxMsgs
    /\ received' = received + 1
    /\ mainPc' = "append"
    /\ \/ /\ state \in {"NORMAL", "WARNING"} /\ full
          /\ state' = "FULL"
          /\ mainWord' = buff \cup {"full"}
       \/ /\ state = "NORMAL" /\ ~full /\ warn
          /\ state' = "WARNING"
          /\ mainWord' = buff \cup {"warn"}
       \/ /\ state = "FULL"
          /\ state' = "FLOOD"
          /\ mainWord' = buff \cup {"flood"}
       \/ /\ \/ state = "NORMAL" /\ ~full /\ ~warn
             \/ state = "WARNING" /\ ~full
             \/ state \in {"FULL", "FLOOD"}
          /\ UNCHANGED state
          /\ mainWord' = {}
    /\ UNCHANGED <<ringVars, buff, dispVars, waitVars, current>>

\* The word goes back if a flag was raised, the message is stored unless the
\* buffer is full, and the mutex is released.
AppendStores ==
    /\ mainPc = "append"
    /\ buff' = IF mainWord = {} THEN buff ELSE mainWord
    /\ \/ /\ ~full
          /\ i \in DOMAIN buffer
          /\ buffer' = [buffer EXCEPT ![i] = received]
          /\ i' = Forward(i)
       \/ full /\ UNCHANGED <<buffer, i>>
    /\ mainPc' = "select"
    /\ mainWord' = {}
    /\ UNCHANGED <<buflength, j, state, received, dispVars, waitVars, current>>

\* The main thread has lost the server: os_setwait, and it connects again.
LostServer ==
    /\ mainPc = "select"
    /\ losses < MaxLosses
    /\ losses' = losses + 1
    /\ waiting' = TRUE
    /\ mainPc' = "start"
    /\ UNCHANGED <<ringVars, state, buff, received, mainWord, dispVars, current>>

\* start_agent returns and os_delwait lets the dispatch thread go on.
ServerUp ==
    /\ mainPc = "start"
    /\ waiting' = FALSE
    /\ mainPc' = "select"
    /\ UNCHANGED <<ringVars, state, buff, received, mainWord, dispVars, losses, current>>

-----------------------------------------------------------------------------
(* The dispatch thread. *)

ReportOrder == <<"warn", "full", "flood", "normal">>

\* dispatch_buffer: it has the mutex and the buffer is not empty.  It looks
\* whether a lower level is reached and takes the oldest message.
TakeOldest ==
    /\ dispPc = "wait"
    /\ ~Locked
    /\ ~empty
    /\ \/ /\ state # "NORMAL" /\ normal
          /\ state' = "NORMAL"
          /\ buff' = buff \cup {"normal"}
       \/ /\ state \in {"FULL", "FLOOD"} /\ nowarn /\ ~normal
          /\ state' = "WARNING"
          /\ UNCHANGED buff
       \/ /\ \/ state = "NORMAL"
             \/ state = "WARNING" /\ ~normal
             \/ state \in {"FULL", "FLOOD"} /\ ~nowarn /\ ~normal
          /\ UNCHANGED <<state, buff>>
    /\ j \in DOMAIN buffer
    /\ msg_output' = buffer[j]
    /\ original_j' = j
    /\ j' = Forward(j)
    /\ dispPc' = "flags"
    /\ flag' = 1
    /\ UNCHANGED <<buflength, buffer, i, mainVars, dispWord, reported, waitVars, current>>

\* From one flag to the next, and from the last one to os_wait.
NextFlag ==
    /\ flag' = (flag % 4) + 1
    /\ dispPc' = IF flag = 4 THEN "os_wait" ELSE "flags"

\* The flags are tested one after the other, without the mutex.
FlagDown ==
    /\ dispPc = "flags"
    /\ ReportOrder[flag] \notin buff
    /\ NextFlag
    /\ UNCHANGED <<ringVars, state, buff, mainVars, dispWord, msg_output, original_j,
                   reported, waitVars, current>>

\* A flag is up: the word is loaded to clear it...
FlagUp ==
    /\ dispPc = "flags"
    /\ ReportOrder[flag] \in buff
    /\ dispWord' = buff \ {ReportOrder[flag]}
    /\ dispPc' = "report"
    /\ UNCHANGED <<ringVars, state, buff, mainVars, flag, msg_output, original_j,
                   reported, waitVars, current>>

\* ... and stored, and the level is reported to the manager.
ReportLevel ==
    /\ dispPc = "report"
    /\ buff' = dispWord
    /\ dispWord' = {}
    /\ reported' = ReportOrder[flag]
    /\ NextFlag
    /\ UNCHANGED <<ringVars, state, mainVars, msg_output, original_j, waitVars, current>>

\* os_wait lets the thread pass.  A null slot is skipped.
OsWait ==
    /\ dispPc = "os_wait"
    /\ ~waiting
    /\ dispPc' = IF msg_output = 0 THEN "wait" ELSE "send"
    /\ UNCHANGED <<ringVars, state, buff, mainVars, flag, dispWord, msg_output, original_j,
                   reported, waitVars, current>>

\* send_msg, which waits for nothing and whose result is ignored, and os_free.
SendMsg ==
    /\ dispPc = "send"
    /\ msg_output # -1
    /\ dispPc' = "clear"
    /\ UNCHANGED <<ringVars, state, buff, mainVars, flag, dispWord, msg_output, original_j,
                   reported, waitVars, current>>

\* buffer[original_j_for_nulling] = NULL, without the mutex.
ClearSlot ==
    /\ dispPc = "clear"
    /\ original_j \in DOMAIN buffer
    /\ buffer' = [buffer EXCEPT ![original_j] = 0]
    /\ msg_output' = 0
    /\ dispPc' = "wait"
    /\ UNCHANGED <<buflength, i, j, state, buff, mainVars, flag, dispWord, original_j,
                   reported, waitVars, current>>

-----------------------------------------------------------------------------
(* The reload of the configuration, on the main thread.  An access beyond    *)
(* the array, or to a message that is freed, ends the behaviour: no step of  *)
(* the thread follows it.                                                    *)

\* ReadConfig stores the new length at once; the ring still has the old one.
ReadConfig(n) ==
    /\ mainPc = "select"
    /\ current' = [capacity |-> buflength, count |-> 0]
    /\ buflength' = n
    /\ mainPc' = "reload"
    /\ UNCHANGED <<buffer, i, j, state, buff, received, mainWord, dispVars, waitVars>>

\* w_agentd_buffer_resize returns if the length is what it was.  Otherwise
\* w_agentd_get_buffer_lenght counts the messages, with the new length, and
\* lets go of the mutex.
CountMessages ==
    /\ mainPc = "reload"
    /\ mainPc' = IF buflength = current.capacity \/ used > current.capacity + 1
                 THEN "select" ELSE "resize"
    /\ current' = [current EXCEPT !.count = used]
    /\ UNCHANGED <<ringVars, state, buff, received, mainWord, dispVars, waitVars>>

\* The new ring has the slots of the old one from j on, in their order.
Copied(count) == [s \in 0 .. buflength |->
    IF s < count THEN buffer[(j + s) % (current.capacity + 1)] ELSE 0]

\* A longer ring: one memcpy, or two when the messages wrap around (or there
\* are none).
Enlarge ==
    /\ mainPc = "resize"
    /\ buflength > current.capacity
    /\ buffer' = Copied(IF j < i THEN current.count ELSE current.capacity + 1 - j + i)
    /\ UNCHANGED msg_output

\* A shorter ring: what is not copied is freed, the message that is being sent
\* included, which still is in its slot.
Shrink ==
    /\ mainPc = "resize"
    /\ buflength < current.capacity
    /\ buffer' = Copied(current.count)
    /\ msg_output' = IF msg_output = 0 THEN 0 ELSE -1

Resize ==
    /\ Enlarge \/ Shrink
    /\ i' = current.count
    /\ j' = 0
    /\ mainPc' = "select"
    /\ UNCHANGED <<buflength, state, buff, received, mainWord, dispPc, flag, dispWord,
                   original_j, reported, waitVars, current>>

-----------------------------------------------------------------------------
(* The specification: the buffer in service, and with reloads. *)

Main == BufferAppend \/ AppendStores \/ LostServer \/ ServerUp
Dispatch == \/ TakeOldest \/ FlagDown \/ FlagUp \/ ReportLevel
            \/ OsWait \/ SendMsg \/ ClearSlot
Reload == CountMessages \/ Resize \/ \E n \in Lengths : ReadConfig(n)

Next == Main \/ Dispatch
Spec == Init /\ [][Next]_vars

\* The dispatch thread is never blocked for good by the mutex, and the main
\* thread leaves buffer_append and start_agent.
Fairness == WF_vars(Dispatch) /\ WF_vars(AppendStores) /\ WF_vars(ServerUp)
LiveSpec == Spec /\ Fairness

ReloadSpec == Init /\ [][Next \/ Reload]_vars

-----------------------------------------------------------------------------
(* Properties. *)

TypeOK ==
    /\ buflength \in Nat \ {0}
    /\ buffer \in [0 .. buflength -> {0} \cup Messages]
    /\ i \in 0 .. buflength /\ j \in 0 .. buflength
    /\ state \in Levels
    /\ buff \subseteq Flags /\ mainWord \subseteq Flags /\ dispWord \subseteq Flags
    /\ received \in 0 .. MaxMsgs
    /\ mainPc \in {"select", "append", "start"}
    /\ dispPc \in {"wait", "flags", "report", "os_wait", "send", "clear"}
    /\ flag \in 1 .. 4
    /\ msg_output \in {0} \cup Messages
    /\ original_j \in 0 .. buflength
    /\ reported \in Flags \cup {"none"}
    /\ waiting \in BOOLEAN
    /\ losses \in 0 .. MaxLosses

\* The messages in the ring, the oldest first, when it has m slots.
Pending(m) == [k \in 1 .. (i - j) % m |-> buffer[(j + k - 1) % m]]

Fifo == INSTANCE BoundedFifo WITH Capacity <- Length, None <- 0,
                                  queue <- Pending(N), out <- msg_output

\* The ring is a bounded queue: every message accepted is taken, once and in
\* order, and sent, although its slot is cleared after the mutex was released
\* and the main thread may meanwhile have gone round the ring.
BufferIsFifo == Fifo!Spec

\* Whatever alarms crossed each other in the flags, which both threads write,
\* the manager is not left with one: when the dispatch thread is at rest and
\* the level is NORMAL, the level reported last is "normal".
NoStaleAlarm ==
    dispPc = "wait" /\ state = "NORMAL" /\ ~Locked => reported \in {"none", "normal"}

\* A flood ends: once no more messages come, the level returns to NORMAL.
FloodEnds == [](received = MaxMsgs => <>[](state = "NORMAL"))

\* agentd.h of w_agentd_buffer_resize: only the newest messages are given up,
\* and only those that the new length has no room for.
ResizeKeepsOldest ==
    [][Resize => LET old == Pending(current.capacity + 1)
                     new == {buffer'[s] : s \in {x \in 0 .. buflength : x < i'}}
                 IN  \A k \in 1 .. Len(old) : k <= buflength => old[k] \in new]_vars
==============================================================================
