---------------------------- MODULE MessageQueue ----------------------------
(***************************************************************************)
(* One message queue of the kernel, access by access.  Its clients are     *)
(* unprivileged tasks, for which save_and_disable_interrupts has no effect,*)
(* and for irrigation_queue the GPIO interrupt.  Tasks are preempted       *)
(* anywhere, or run on two cores, so between any two accesses of one to    *)
(* what it shares there may be accesses of another.  The interrupt is on   *)
(* the core of all clients of its queue and is atomic to them.             *)
(***************************************************************************)
EXTENDS Integers

CONSTANTS
    QueueSize,     \* QUEUE_SIZE
    Senders,       \* the tasks that call mq_send
    Receiver,      \* the task that calls mq_receive: one for each queue
    Messages,
    None           \* MSG_NONE, which a slot holds before its first message

Clients == Senders \cup {Receiver}

ASSUME QueueAssumption ==
    /\ QueueSize \in Nat \ {0}
    /\ Receiver \notin Senders

VARIABLES
    buffer, head, tail, count,
    pc,      \* the access each client makes next
    reg,     \* the tail or count that each client has loaded and not yet stored
    taken    \* what the receiver has copied out

fields == <<buffer, head, tail, count>>
queueVars == <<fields, pc, reg, taken>>

Slots == 0 .. QueueSize - 1
Accesses == {"idle", "test", "copy", "load_tail", "store_tail", "load_count", "store_count"}

QueueInit ==
    /\ buffer = [i \in Slots |-> None]
    /\ head = 0 /\ tail = 0 /\ count = 0
    /\ pc = [c \in Clients |-> "idle"]
    /\ reg = [c \in Clients |-> 0]
    /\ taken = None

-----------------------------------------------------------------------------

Goto(c, access) == pc' = [pc EXCEPT ![c] = access]

Corrupt == count \notin 0 .. QueueSize \/ head \notin Slots \/ tail \notin Slots

\* Both operations begin with mq_check.
Check(c) ==
    /\ pc[c] = "idle"
    /\ Goto(c, IF Corrupt THEN "idle" ELSE "test")
    /\ UNCHANGED <<fields, reg, taken>>

FullLate == count > QueueSize                           \* mutant: off by one
Full == count >= QueueSize
Empty == count <= 0

Test(c) ==
    /\ pc[c] = "test"
    /\ Goto(c, IF (IF c \in Senders THEN Full ELSE Empty) THEN "idle" ELSE "copy")
    /\ UNCHANGED <<fields, reg, taken>>

Load(c, access, value, next) ==
    /\ pc[c] = access
    /\ Goto(c, next)
    /\ reg' = [reg EXCEPT ![c] = value]
    /\ UNCHANGED <<fields, taken>>

LoadTail(c) == Load(c, "load_tail", tail, "store_tail")
LoadCount(c) == Load(c, "load_count", count, "store_count")

Successor(i) == IF i + 1 < QueueSize THEN i + 1 ELSE 0

CopyIn(c, m) ==
    /\ pc[c] = "copy"
    /\ Goto(c, "load_tail")
    /\ buffer' = [buffer EXCEPT ![tail] = m]
    /\ UNCHANGED <<head, tail, count, reg, taken>>

StoreTail(c) ==
    /\ pc[c] = "store_tail"
    /\ Goto(c, "load_count")
    /\ tail' = Successor(reg[c])
    /\ reg' = [reg EXCEPT ![c] = 0]
    /\ UNCHANGED <<buffer, head, count, taken>>

\* Nobody else looks at head, except to see that it is in its range.
CopyOut ==
    /\ pc[Receiver] = "copy"
    /\ Goto(Receiver, "load_count")
    /\ taken' = buffer[head] /\ head' = Successor(head)
    /\ UNCHANGED <<buffer, tail, count, reg>>

\* The operation ends and returns 0.
StoreCount(c, value) ==
    /\ pc[c] = "store_count"
    /\ Goto(c, "idle")
    /\ count' = value
    /\ reg' = [reg EXCEPT ![c] = 0]
    /\ taken' = IF c = Receiver THEN None ELSE taken
    /\ UNCHANGED <<buffer, head, tail>>

\* The next access of mq_send(m), and of mq_receive.
Sending(c, m) ==
    \/ Check(c) \/ Test(c)
    \/ CopyIn(c, m)
    \/ LoadTail(c) \/ StoreTail(c)
    \/ LoadCount(c) \/ StoreCount(c, reg[c] + 1)

Receiving ==
    \/ Check(Receiver) \/ Test(Receiver)
    \/ CopyOut
    \/ LoadCount(Receiver) \/ StoreCount(Receiver, reg[Receiver] - 1)

SendFromIsr(m) ==
    /\ IF Full THEN UNCHANGED fields
       ELSE /\ buffer' = [buffer EXCEPT ![tail] = m]
            /\ tail' = Successor(tail)
            /\ count' = count + 1
            /\ UNCHANGED head
    /\ UNCHANGED <<pc, reg, taken>>

\* A queue that no interrupt sends to.
QueueNext == (\E c \in Senders, m \in Messages : Sending(c, m)) \/ Receiving

QueueSpec == QueueInit /\ [][QueueNext]_queueVars

\* Whether the access that is next ends an operation with success.
Ends(c) == pc[c] = "store_count"

\* Whether it puts a message into the buffer.
Fills(c) == c \in Senders /\ pc[c] = "copy"
=============================================================================
