------------------------------ MODULE Channels ------------------------------
(***************************************************************************)
(* tokio::sync::mpsc channels of bounded capacity, as this program uses    *)
(* them: every sender calls try_send, which drops the message when the     *)
(* channel is full, and discards the Err.                                  *)
(***************************************************************************)
EXTENDS Integers, Sequences

HasRoom(q, cap) == Len(q) < cap

TrySend(q, cap, m) == IF HasRoom(q, cap) THEN Append(q, m) ELSE q

(* The same for messages sent one after the other with nobody receiving in *)
(* between: the first ones that fit are kept.                              *)
TrySendAll(q, cap, s) ==
    LET room == IF cap >= Len(q) THEN cap - Len(q) ELSE 0
    IN  q \o SubSeq(s, 1, IF Len(s) <= room THEN Len(s) ELSE room)
=============================================================================
