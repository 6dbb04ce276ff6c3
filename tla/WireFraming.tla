---------------------------- MODULE WireFraming ----------------------------
(***************************************************************************)
(* Messages as bytes: what is written to the socket (message.rs and the    *)
(* write half) and how the read half finds the messages again:             *)
(* read_message inside select!, then the handler that reads the payload.   *)
(*                                                                         *)
(* The network cuts the bytes anywhere and may break.  The future of       *)
(* read_message is dropped, with the bytes it has taken, when an update of *)
(* the child channel wins the select!.  What the handlers do with a        *)
(* message is in PeerSession, which reads messages whole.                  *)
(***************************************************************************)
EXTENDS Integers, Sequences

CONSTANTS
  Message,      \* the messages that may be sent
  MaxMessages,  \* bound: so many are sent
  Conditions    \* what may happen to a header, see `condition`

\* enum MessageId; a keep-alive has no id.
MessageId ==
  [ Choke |-> 0, UnChoke |-> 1, Interested |-> 2, NotInterested |-> 3, Have |-> 4,
    BitField |-> 5, Request |-> 6, Piece |-> 7, Cancel |-> 8, Port |-> 9,
    SuggestPiece |-> 13, HaveAll |-> 14, HaveNone |-> 15, RejectRequest |-> 16,
    AllowedFast |-> 17 ]

\* An id that no MessageId has.
UnknownId == 20

Kinds == DOMAIN MessageId \cup {"KeepAlive", "Unknown"}

Byte == 0 .. 255

ASSUME FramingAssumption ==
  /\ Message \subseteq [kind : Kinds, payload : Seq(Byte)]
  /\ MaxMessages \in Nat
  /\ Conditions \subseteq [cuts : BOOLEAN, updates : BOOLEAN]

VARIABLES
  sent,       \* the messages written so far, but for keep-alives
  written,    \* how many were written, keep-alives among them
  wire,       \* their bytes that have not arrived
  arrived,    \* bytes the read half has not taken
  open,       \* is the connection whole?
  state,      \* the read half: "header", "payload" or, after an error, "ended"
  taken,      \* what it has read of the header, or of the payload
  head,       \* the message whose payload it reads
  received,   \* the messages whose handlers got their payload
  condition   \* may a header arrive in two parts, do updates come in between?

readVars == <<state, taken, head, received>>

vars == <<sent, written, wire, arrived, open, readVars, condition>>

NoHead == [kind |-> "KeepAlive", length |-> 0]

Init ==
  /\ sent = <<>> /\ written = 0 /\ wire = <<>> /\ arrived = <<>> /\ open = TRUE
  /\ state = "header" /\ taken = <<>> /\ head = NoHead /\ received = <<>>
  /\ condition \in Conditions

-----------------------------------------------------------------------------
(* Writing. *)

\* u32::to_be_bytes and u32::from_be_bytes
U32(n) == << n \div (256 * 256 * 256), (n \div (256 * 256)) % 256, (n \div 256) % 256, n % 256 >>

FromU32(bytes) == ((bytes[1] * 256 + bytes[2]) * 256 + bytes[3]) * 256 + bytes[4]

\* The length in the header: a constant of the constructor, or, for BitField and
\* Piece (whose payload begins with two u32s), computed where it is sent.
Length(m) ==
  CASE m.kind = "KeepAlive" -> 0
    [] m.kind \in {"Request", "Cancel"} -> 13
    [] m.kind = "Have" -> 5
    [] m.kind = "Piece" -> (Len(m.payload) - 8) + 9
    [] OTHER -> 1 + Len(m.payload)

\* It fits its u32.
ASSUME LengthAssumption == \A m \in Message : Length(m) \div (256 * 256 * 256) \in Byte

\* Message::as_bytes
AsBytes(m) ==
  U32(Length(m)) \o CASE m.kind = "KeepAlive" -> <<>>
                      [] m.kind = "Unknown" -> <<UnknownId>>
                      [] OTHER -> <<MessageId[m.kind]>>

\* On the wire a byte knows, for the network's sake, whether it goes on a header.
OnWire(m) ==
  [i \in DOMAIN AsBytes(m) |-> [byte |-> AsBytes(m)[i], inside |-> i > 1]]
    \o [i \in DOMAIN m.payload |-> [byte |-> m.payload[i], inside |-> FALSE]]

\* The messages a handler is to see: read_message swallows keep-alives.
IsProper(m) == m.kind # "KeepAlive"

Send(m) ==
  /\ open
  /\ written < MaxMessages
  /\ written' = written + 1
  /\ sent' = IF IsProper(m) THEN Append(sent, m) ELSE sent
  /\ wire' = wire \o OnWire(m)
  /\ UNCHANGED <<arrived, open, readVars, condition>>

\* The network delivers the next n bytes.
Arrive(n) ==
  /\ n < Len(wire) /\ wire[n + 1].inside => condition.cuts
  /\ arrived' = arrived \o [i \in 1 .. n |-> wire[i].byte]
  /\ wire' = SubSeq(wire, n + 1, Len(wire))
  /\ UNCHANGED <<sent, written, open, readVars, condition>>

\* The connection is closed; what has not arrived is lost.
Close ==
  /\ open
  /\ open' = FALSE
  /\ wire' = <<>>
  /\ UNCHANGED <<sent, written, arrived, readVars, condition>>

-----------------------------------------------------------------------------
(* Reading. *)

\* Mutant: the block length in a Cancel is not read.
PayloadWithoutLength(h) ==
  CASE h.kind = "Have" -> 4
    [] h.kind = "Request" -> 12
    [] h.kind = "Cancel" -> 8
    [] h.kind = "Port" -> 2
    [] h.kind = "BitField" -> h.length - 1
    [] h.kind = "Piece" -> 4 + 4 + (h.length - 9)
    [] OTHER -> 0

\* Mutant: the id is not part of a bitfield's length.
PayloadWithId(h) ==
  CASE h.kind = "Have" -> 4
    [] h.kind \in {"Request", "Cancel"} -> 12
    [] h.kind = "Port" -> 2
    [] h.kind = "BitField" -> h.length
    [] h.kind = "Piece" -> 4 + 4 + (h.length - 9)
    [] OTHER -> 0

\* The bytes process_message reads after the header.
PayloadLength(h) ==
  CASE h.kind = "Have" -> 4
    [] h.kind \in {"Request", "Cancel"} -> 12
    [] h.kind = "Port" -> 2
    [] h.kind = "BitField" -> h.length - 1
    [] h.kind = "Piece" -> 4 + 4 + (h.length - 9)
    [] OTHER -> 0

\* read_message reads four bytes and, if they are not all zero, a fifth.
HeaderLength ==
  IF Len(taken) < 4 \/ FromU32(SubSeq(taken, 1, 4)) = 0 THEN 4 ELSE 5

Wanted == (IF state = "header" THEN HeaderLength ELSE PayloadLength(head)) - Len(taken)

\* Mutant: a reader that takes all that has arrived.
TakeAll ==
  /\ state # "ended"
  /\ Wanted > 0
  /\ arrived # <<>>
  /\ taken' = taken \o arrived
  /\ arrived' = <<>>
  /\ UNCHANGED <<sent, written, wire, open, state, head, received, condition>>

\* read_exact takes what is there.
Take ==
  /\ state # "ended"
  /\ Wanted > 0
  /\ arrived # <<>>
  /\ LET n == IF Wanted < Len(arrived) THEN Wanted ELSE Len(arrived)
     IN  /\ taken' = taken \o SubSeq(arrived, 1, n)
         /\ arrived' = SubSeq(arrived, n + 1, Len(arrived))
  /\ UNCHANGED <<sent, written, wire, open, state, head, received, condition>>

\* MessageId::try_from
KindsOf(id) == { kind \in DOMAIN MessageId : MessageId[kind] = id }

\* read_message returns: None for a keep-alive, an error for an unknown id.
HeaderRead ==
  /\ state = "header"
  /\ Wanted = 0
  /\ taken' = <<>>
  /\ \/ /\ Len(taken) = 4
        /\ UNCHANGED <<state, head>>
     \/ /\ Len(taken) = 5
        /\ \E kind \in KindsOf(taken[5]) :
             head' = [kind |-> kind, length |-> FromU32(SubSeq(taken, 1, 4))]
        /\ state' = "payload"
     \/ /\ Len(taken) = 5
        /\ KindsOf(taken[5]) = {}
        /\ state' = "ended"
        /\ UNCHANGED head
  /\ UNCHANGED <<sent, written, wire, arrived, open, received, condition>>

\* The handler has its payload.
PayloadRead ==
  /\ state = "payload"
  /\ Wanted = 0
  /\ received' = Append(received, [kind |-> head.kind, payload |-> taken])
  /\ state' = "header" /\ taken' = <<>> /\ head' = NoHead
  /\ UNCHANGED <<sent, written, wire, arrived, open, condition>>

\* rx.recv wins the select! while read_message waits for bytes.
Update ==
  /\ condition.updates
  /\ state = "header"
  /\ Wanted > 0 /\ arrived = <<>>
  /\ taken' = <<>>
  /\ UNCHANGED <<sent, written, wire, arrived, open, state, head, received, condition>>

\* read_exact meets the end of the stream.
EndOfStream ==
  /\ state # "ended"
  /\ ~open /\ wire = <<>> /\ arrived = <<>> /\ Wanted > 0
  /\ state' = "ended"
  /\ UNCHANGED <<sent, written, wire, arrived, open, taken, head, received, condition>>

-----------------------------------------------------------------------------
Network == \E n \in 1 .. Len(wire) : Arrive(n)

Read == Take \/ HeaderRead \/ PayloadRead \/ EndOfStream

Next ==
  \/ Network \/ Close \/ Read \/ Update
  \/ \E m \in Message : Send(m)

Spec == Init /\ [][Next]_vars

\* What was sent arrives, and the read half is a task that runs when it can.
FairSpec == Spec /\ WF_vars(Network) /\ WF_vars(Read)

-----------------------------------------------------------------------------
(* Properties. *)

\* Every variable has the type its declaration gives it.
TypeOK ==
  /\ sent \in Seq(Message) /\ written \in 0 .. MaxMessages
  /\ wire \in Seq([byte : Byte, inside : BOOLEAN])
  /\ arrived \in Seq(Byte) /\ taken \in Seq(Byte)
  /\ open \in BOOLEAN
  /\ state \in {"header", "payload", "ended"}
  /\ state # "ended" => Wanted >= 0
  /\ head.kind \in Kinds
  /\ condition \in Conditions

Fifo == INSTANCE FifoChannel

\* Handlers get the messages that were sent, with their payloads and in their
\* order, however the network cuts the bytes; a message of which the end of the
\* stream has torn off a part is not handled at all.
ImplementsFifo == Fifo!Spec

\* Every message that was sent reaches its handler, unless the connection breaks
\* or the peer uses an id the client does not know.
AllReceived ==
  \A n \in 1 .. MaxMessages :
    Len(sent) >= n ~>
      \/ Len(received) >= n
      \/ ~open
      \/ \E i \in DOMAIN sent : sent[i].kind = "Unknown"

\* message.rs:154 of SuggestPiece: "Payload: index : u32 integer specifying the
\* zero-based piece index".  What is taken for a message is one that was sent.
OnlySentKinds ==
  \A i \in DOMAIN received :
    /\ i <= Len(sent)
    /\ received[i].kind = sent[i].kind

=============================================================================
