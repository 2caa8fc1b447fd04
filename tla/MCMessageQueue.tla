--------------------------- MODULE MCMessageQueue ---------------------------
(***************************************************************************)
(* log_queue as main.c and the tasks use it, from irrigation_task on       *)
(* Core 1 to logger_task on Core 0, for TLC.  The messages are numbered.   *)
(***************************************************************************)
EXTENDS MessageQueue, SequencesExt

CONSTANT MaxMessages

VARIABLES sent, got     \* histories of what went into the buffer and came out

Init == QueueInit /\ sent = <<>> /\ got = <<>>

Number == Len(sent) + 1

Next ==
    \/ \E c \in Senders :
         /\ Number <= MaxMessages /\ Sending(c, Number)
         /\ sent' = IF Fills(c) THEN Append(sent, Number) ELSE sent
         /\ UNCHANGED got
    \/ /\ Receiving
       /\ got' = IF Ends(Receiver) THEN Append(got, taken) ELSE got
       /\ UNCHANGED sent

Spec == Init /\ [][Next]_<<queueVars, sent, got>>

(***************************************************************************)
(* "Mensajes cruzan entre cores sin corrupcion" (REPORTE.md:350): what has *)
(* been received is what was sent, without gaps or repetitions.            *)
(***************************************************************************)
CrossesUncorrupted == IsPrefix(got, sent)
=============================================================================
