----------------------------- MODULE Broadcast -----------------------------
(***************************************************************************)
(* tokio::sync::broadcast as this program uses it.  Every receiver sees    *)
(* every message sent after it subscribed; a receiver more than `capacity` *)
(* messages behind loses the oldest ones and is told so, once, by the next *)
(* recv, which fails with Lagged.  A receiver is the record of what it has *)
(* not read yet.  The channel is never Closed here: each task that         *)
(* receives from a channel also owns a sender of it.                       *)
(***************************************************************************)
EXTENDS Naturals, Sequences

Receiver(Message) == [q : Seq(Message), missed : BOOLEAN]

\* A receiver that has read everything.
NoMessages == [q |-> <<>>, missed |-> FALSE]

Push(rx, message, capacity) ==
  IF Len(rx.q) < capacity
  THEN [rx EXCEPT !.q = Append(@, message)]
  ELSE [q |-> Append(Tail(rx.q), message), missed |-> TRUE]

\* recv returns Ok(message).
Delivers(rx, message) == ~rx.missed /\ rx.q # <<>> /\ message = Head(rx.q)

\* recv returns Err(Lagged).
Lags(rx) == rx.missed

\* The receiver after either.
Received(rx) == IF rx.missed THEN [rx EXCEPT !.missed = FALSE]
                             ELSE [rx EXCEPT !.q = Tail(@)]

Unread(rx) == { rx.q[i] : i \in 1 .. Len(rx.q) }

=============================================================================
