--------------------------- MODULE MessageQueueProofs -------------------------
(***************************************************************************)
(* How far count may stray on the queues that have one sending task: with  *)
(* the interrupt as a second sender (irrigation_queue) by one beyond       *)
(* QUEUE_SIZE, without it (log_queue) not at all.                          *)
(***************************************************************************)
EXTENDS MessageQueue, TLAPS

\* A sender that has found room and not yet counted its message.
Past(c) == pc[c] \in {"copy", "load_tail", "store_tail", "load_count", "store_count"}

\* excess is what an interrupt may add after the sender's test: one message,
\* since the next one it finds no room for.
OneSender(s, excess) ==
    /\ buffer \in [Slots -> Messages \cup {None}]
    /\ head \in Slots /\ tail \in Slots
    /\ taken \in Messages \cup {None}
    /\ pc \in [Clients -> Accesses]
    /\ reg \in [Clients -> 0 .. QueueSize + excess]
    /\ count \in 0 .. QueueSize + excess
    /\ Past(s) => count < QueueSize + excess
    /\ pc[s] = "store_tail" => reg[s] \in Slots
    /\ pc[s] = "store_count" => reg[s] < QueueSize + excess
    /\ pc[Receiver] \notin {"load_tail", "store_tail"}
    /\ pc[Receiver] \in {"copy", "load_count"} => count > 0
    /\ pc[Receiver] = "store_count" => reg[Receiver] > 0 /\ count > 0

(***************************************************************************)
(* The successor of a slot is a slot.                                      *)
(***************************************************************************)
LEMMA SuccessorType == ASSUME NEW i \in Slots PROVE Successor(i) \in Slots
  BY QueueAssumption DEF Successor, Slots

(***************************************************************************)
(* The queue as mq_init leaves it.                                         *)
(***************************************************************************)
LEMMA OneSenderInit ==
    ASSUME NEW s, Senders = {s}, NEW excess \in {0, 1}, QueueInit
    PROVE  OneSender(s, excess)
  <1>1. 0 \in Slots BY QueueAssumption DEF Slots
  <1>2. pc = [c \in Clients |-> "idle"] /\ reg = [c \in Clients |-> 0]
    BY DEF QueueInit
  <1>3. s \in Clients /\ Receiver \in Clients BY DEF Clients
  <1> QED BY <1>1, <1>2, <1>3, QueueAssumption DEF QueueInit, OneSender, Past, Accesses

(***************************************************************************)
(* An access of the sending task: its own message is the last one that may *)
(* still be added, and it never counts below one.                          *)
(***************************************************************************)
LEMMA SendingKeeps ==
    ASSUME NEW s, Senders = {s}, NEW excess \in {0, 1}, NEW m \in Messages,
           OneSender(s, excess), Sending(s, m)
    PROVE  OneSender(s, excess)'
  <1> USE QueueAssumption DEF OneSender, Past, Goto, fields
  <1>0. s \in Clients /\ Receiver \in Clients /\ s # Receiver BY DEF Clients
  <1>1. CASE Check(s) BY <1>0, <1>1 DEF Check, Accesses
  <1>2. CASE Test(s) BY <1>0, <1>2 DEF Test, Full, Accesses
  <1>3. CASE CopyIn(s, m) BY <1>0, <1>3 DEF CopyIn, Accesses
  <1>4. CASE LoadTail(s)
    <2>1. tail \in 0 .. QueueSize + excess BY DEF Slots
    <2> QED BY <1>0, <1>4, <2>1 DEF LoadTail, Load, Accesses
  <1>5. CASE StoreTail(s)
    <2>1. tail' \in Slots BY <1>5, SuccessorType DEF StoreTail
    <2> QED BY <1>0, <1>5, <2>1 DEF StoreTail, Accesses
  <1>6. CASE LoadCount(s) BY <1>0, <1>6 DEF LoadCount, Load, Accesses
  <1>7. CASE StoreCount(s, reg[s] + 1)
    <2>1. count' = reg[s] + 1 /\ reg[s] \in 0 .. QueueSize + excess - 1
      BY <1>0, <1>7 DEF StoreCount
    <2> QED BY <1>0, <1>7, <2>1 DEF StoreCount, Accesses
  <1> QED BY <1>1, <1>2, <1>3, <1>4, <1>5, <1>6, <1>7 DEF Sending

(***************************************************************************)
(* An access of the receiving task: nobody else takes what it has seen.    *)
(***************************************************************************)
LEMMA ReceivingKeeps ==
    ASSUME NEW s, Senders = {s}, NEW excess \in {0, 1}, OneSender(s, excess), Receiving
    PROVE  OneSender(s, excess)'
  <1> USE QueueAssumption DEF OneSender, Past, Goto, fields
  <1>0. s \in Clients /\ Receiver \in Clients /\ s # Receiver /\ Receiver \notin Senders
    BY DEF Clients
  <1>1. CASE Check(Receiver) BY <1>0, <1>1 DEF Check, Accesses
  <1>2. CASE Test(Receiver) BY <1>0, <1>2 DEF Test, Empty, Accesses
  <1>3. CASE CopyOut
    <2>1. head' \in Slots BY <1>3, SuccessorType DEF CopyOut
    <2>2. taken' \in Messages \cup {None} BY <1>3 DEF CopyOut
    <2> QED BY <1>0, <1>3, <2>1, <2>2 DEF CopyOut, Accesses
  <1>4. CASE LoadCount(Receiver) BY <1>0, <1>4 DEF LoadCount, Load, Accesses
  <1>5. CASE StoreCount(Receiver, reg[Receiver] - 1)
    <2>1. count' = reg[Receiver] - 1 /\ reg[Receiver] \in 1 .. QueueSize + excess
      BY <1>0, <1>5 DEF StoreCount
    <2> QED BY <1>0, <1>5, <2>1 DEF StoreCount, Accesses
  <1> QED BY <1>1, <1>2, <1>3, <1>4, <1>5 DEF Receiving

(***************************************************************************)
(* The interrupt, wherever it finds the two tasks.                         *)
(***************************************************************************)
LEMMA IsrKeeps ==
    ASSUME NEW s, Senders = {s}, NEW m \in Messages, OneSender(s, 1), SendFromIsr(m)
    PROVE  OneSender(s, 1)'
  <1> USE QueueAssumption DEF OneSender, Past, fields
  <1>1. CASE Full BY <1>1 DEF SendFromIsr
  <1>2. CASE ~Full
    <2>1. count' = count + 1 /\ count' \in 1 .. QueueSize BY <1>2 DEF SendFromIsr, Full
    <2>2. tail' \in Slots BY <1>2, SuccessorType DEF SendFromIsr
    <2> QED BY <1>2, <2>1, <2>2 DEF SendFromIsr
  <1> QED BY <1>1, <1>2

(***************************************************************************)
(* The same for steps that leave the queue alone.                          *)
(***************************************************************************)
LEMMA OneSenderStutter ==
    ASSUME NEW s, NEW excess \in {0, 1}, OneSender(s, excess), UNCHANGED queueVars
    PROVE  OneSender(s, excess)'
  BY DEF OneSender, Past, queueVars, fields

(***************************************************************************)
(* On a queue with one sending and one receiving task count stays in       *)
(* 0..QUEUE_SIZE, for every capacity and however the two interleave on     *)
(* one core or two, although updates of count get lost: mq_check never     *)
(* closes log_queue.                                                       *)
(***************************************************************************)
THEOREM PairKeepsCountInRange ==
    ASSUME NEW s, Senders = {s}
    PROVE  QueueSpec => [](count \in 0 .. QueueSize)
  <1>1. QueueInit => OneSender(s, 0) BY OneSenderInit
  <1>2. OneSender(s, 0) /\ [QueueNext]_queueVars => OneSender(s, 0)'
    BY SendingKeeps, ReceivingKeeps, OneSenderStutter DEF QueueNext
  <1>3. OneSender(s, 0) => count \in 0 .. QueueSize
    BY QueueAssumption DEF OneSender
  <1> QED BY <1>1, <1>2, <1>3, PTL DEF QueueSpec
=============================================================================
