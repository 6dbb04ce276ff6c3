-------------------------- MODULE WireFramingProofs --------------------------
(***************************************************************************)
(* Proofs about WireFraming, for messages of any length, any number of     *)
(* them, and a network that cuts their bytes anywhere.                     *)
(*                                                                         *)
(* The refinement holds on two conditions that the program does not always *)
(* meet: a handler reads the payload of its message (some of those of the  *)
(* Fast Extension do not, and FastPayload shows what comes of it), and a   *)
(* header that arrives in two parts is not dropped by the select! in       *)
(* between.                                                                *)
(***************************************************************************)
EXTENDS WireFraming, SequenceTheorems, TLAPS

-----------------------------------------------------------------------------
(* The types. *)

Bit == [byte : Byte, inside : BOOLEAN]

Header == [kind : Kinds, length : Nat]

TypesOK ==
  /\ sent \in Seq(Message) /\ written \in 0 .. MaxMessages
  /\ wire \in Seq(Bit)
  /\ arrived \in Seq(Byte) /\ taken \in Seq(Byte)
  /\ open \in BOOLEAN
  /\ state \in {"header", "payload", "ended"}
  /\ head \in Header
  /\ condition \in Conditions

\* No reader takes a byte of what it does not read.
WantedOK ==
  /\ state = "header" => Len(taken) <= HeaderLength
  /\ state = "payload" => head.length # 0 /\ Len(taken) <= PayloadLength(head)

IInv == TypesOK /\ WantedOK

\* How long the header of a message is.
HeadLength(m) == IF IsProper(m) THEN 5 ELSE 4

Id(m) == IF m.kind = "Unknown" THEN UnknownId ELSE MessageId[m.kind]

\* One sequence after another.
LEMMA Joined ==
  ASSUME NEW S, NEW s \in Seq(S), NEW t \in Seq(S)
  PROVE  /\ Len(s) \in Nat /\ Len(t) \in Nat
         /\ s \o t \in Seq(S) /\ Len(s \o t) = Len(s) + Len(t)
         /\ \A i \in 1 .. Len(s) : (s \o t)[i] = s[i]
         /\ \A i \in 1 .. Len(t) : (s \o t)[Len(s) + i] = t[i]
OBVIOUS

LEMMA U32Bytes ==
  ASSUME NEW n \in Nat, n \div (256 * 256 * 256) \in Byte
  PROVE  /\ \A i \in 1 .. 4 : U32(n)[i] \in Byte
         /\ U32(n) \in Seq(Byte) /\ Len(U32(n)) = 4
         /\ FromU32(U32(n)) = n
<1> DEFINE a == n \div 256
           b == n \div (256 * 256)
           c == n \div (256 * 256 * 256)
<1>1. a \in Nat /\ b \in Nat /\ c \in 0 .. 255
  BY DEF Byte
<1>2. /\ n % 256 \in 0 .. 255 /\ n = a * 256 + (n % 256)
      /\ a % 256 \in 0 .. 255 /\ a = b * 256 + (a % 256)
      /\ b % 256 \in 0 .. 255 /\ b = c * 256 + (b % 256)
  OBVIOUS
<1>3. U32(n) = <<c, b % 256, a % 256, n % 256>>
  BY DEF U32
<1> HIDE DEF a, b, c
<1>4. QED
  BY <1>1, <1>2, <1>3 DEF FromU32, Byte

LEMMA IdsAreBytes ==
  /\ \A kind \in DOMAIN MessageId : MessageId[kind] \in Byte
  /\ UnknownId \in Byte
  /\ DOMAIN MessageId \cap {"KeepAlive", "Unknown"} = {}
BY DEF MessageId, Byte, UnknownId

LEMMA LengthIs ==
  ASSUME NEW m \in Message
  PROVE  /\ Length(m) \in Nat
         /\ Length(m) = 0 <=> ~IsProper(m)
<1>1. m.kind \in Kinds /\ Len(m.payload) \in Nat
  BY FramingAssumption
<1>2. QED
  BY <1>1 DEF Length, IsProper

\* What is on the wire of a message: the length, the id, the payload.
LEMMA OnWireIs ==
  ASSUME NEW m \in Message
  PROVE  /\ OnWire(m) \in Seq(Bit)
         /\ Len(OnWire(m)) = HeadLength(m) + Len(m.payload)
         /\ \A i \in 1 .. HeadLength(m) : OnWire(m)[i].inside = (i > 1)
         /\ \A i \in 1 .. 4 : OnWire(m)[i].byte = U32(Length(m))[i]
         /\ IsProper(m) => OnWire(m)[5].byte = Id(m)
         /\ \A i \in 1 .. Len(m.payload) :
              OnWire(m)[HeadLength(m) + i].byte = m.payload[i]
<1>1. /\ m.kind \in Kinds /\ m.payload \in Seq(Byte)
      /\ Length(m) \in Nat /\ Length(m) \div (256 * 256 * 256) \in Byte
  BY FramingAssumption, LengthAssumption, LengthIs
<1> DEFINE u == U32(Length(m))
           tag == CASE m.kind = "KeepAlive" -> <<>>
                   [] m.kind = "Unknown" -> <<UnknownId>>
                   [] OTHER -> <<MessageId[m.kind]>>
           bytes == AsBytes(m)
           front == [i \in DOMAIN bytes |-> [byte |-> bytes[i], inside |-> i > 1]]
           back == [i \in DOMAIN m.payload |-> [byte |-> m.payload[i], inside |-> FALSE]]
<1>2. u \in Seq(Byte) /\ Len(u) = 4
  BY <1>1, U32Bytes
<1>3. /\ tag \in Seq(Byte) /\ 4 + Len(tag) = HeadLength(m)
      /\ IsProper(m) => tag[1] = Id(m) /\ Len(tag) = 1 /\ HeadLength(m) = 5
  BY <1>1, IdsAreBytes DEF HeadLength, IsProper, Id, Kinds
<1>4. bytes = u \o tag
  BY DEF AsBytes
<1> HIDE DEF u, tag, bytes
<1>5. /\ bytes \in Seq(Byte) /\ Len(bytes) = HeadLength(m)
      /\ \A i \in 1 .. 4 : bytes[i] = u[i]
      /\ IsProper(m) => bytes[5] = Id(m)
  <2>1. /\ bytes \in Seq(Byte) /\ Len(bytes) = 4 + Len(tag)
        /\ \A i \in 1 .. 4 : bytes[i] = u[i]
        /\ \A i \in 1 .. Len(tag) : bytes[4 + i] = tag[i]
    <3>1. u \in Seq(Byte) /\ tag \in Seq(Byte)
      BY <1>2, <1>3
    <3>2. bytes \in Seq(Byte) /\ Len(bytes) = Len(u) + Len(tag)
      BY <1>4, <3>1
    <3>3. \A i \in 1 .. Len(u) : bytes[i] = u[i]
      BY <1>4, <3>1
    <3>4. \A i \in 1 .. Len(tag) : bytes[Len(u) + i] = tag[i]
      BY <1>4, <3>1
    <3>5. QED
      BY <1>2, <3>2, <3>3, <3>4
  <2>2. IsProper(m) => bytes[5] = tag[1]
    BY <1>3, <2>1
  <2>3. QED
    BY <1>3, <2>1, <2>2
<1>6. /\ front \in Seq(Bit) /\ Len(front) = HeadLength(m)
      /\ \A i \in 1 .. HeadLength(m) : front[i] = [byte |-> bytes[i], inside |-> i > 1]
  <2>1. HeadLength(m) \in Nat
    BY DEF HeadLength
  <2>2. \A i \in 1 .. HeadLength(m) : [byte |-> bytes[i], inside |-> i > 1] \in Bit
    <3>1. SUFFICES ASSUME NEW i \in 1 .. HeadLength(m)
                   PROVE  [byte |-> bytes[i], inside |-> i > 1] \in Bit
      OBVIOUS
    <3>2. bytes[i] \in Byte
      BY <1>5
    <3>3. (i > 1) \in BOOLEAN
      OBVIOUS
    <3>4. QED
      BY <3>2, <3>3, Zenon DEF Bit
  <2>3. DOMAIN bytes = 1 .. HeadLength(m)
    BY <1>5, <2>1
  <2>4. QED
    BY <2>1, <2>2, <2>3
<1>7. /\ back \in Seq(Bit) /\ Len(back) = Len(m.payload)
      /\ \A i \in 1 .. Len(m.payload) : back[i] = [byte |-> m.payload[i], inside |-> FALSE]
  <2>1. \A i \in 1 .. Len(m.payload) : [byte |-> m.payload[i], inside |-> FALSE] \in Bit
    BY <1>1 DEF Bit
  <2>2. QED
    BY <1>1, <2>1
<1>8. OnWire(m) = front \o back
  BY DEF OnWire, bytes
<1> HIDE DEF front, back
<1>9. QED
  <2>1. HeadLength(m) \in {4, 5} /\ (IsProper(m) => HeadLength(m) = 5)
    BY DEF HeadLength
  <2>2. Len(m.payload) \in Nat
    BY <1>1
  <2>3. /\ OnWire(m) \in Seq(Bit)
        /\ Len(OnWire(m)) = HeadLength(m) + Len(m.payload)
        /\ \A i \in 1 .. HeadLength(m) : OnWire(m)[i] = front[i]
        /\ \A i \in 1 .. Len(m.payload) : OnWire(m)[HeadLength(m) + i] = back[i]
    <3>1. /\ front \in Seq(Bit) /\ Len(front) = HeadLength(m)
          /\ back \in Seq(Bit) /\ Len(back) = Len(m.payload)
      BY <1>6, <1>7
    <3>2. /\ front \o back \in Seq(Bit) /\ Len(front \o back) = Len(front) + Len(back)
          /\ \A i \in 1 .. Len(front) : (front \o back)[i] = front[i]
          /\ \A i \in 1 .. Len(back) : (front \o back)[Len(front) + i] = back[i]
      <4>1. front \in Seq(Bit) /\ back \in Seq(Bit)
        BY <3>1
      <4>2. QED
        BY <4>1, Joined
    <3>3. QED
      BY <1>8, <3>1, <3>2
  <2>4. \A i \in 1 .. HeadLength(m) :
          OnWire(m)[i].byte = bytes[i] /\ OnWire(m)[i].inside = (i > 1)
    BY <1>6, <2>3
  <2>5. \A i \in 1 .. 4 : OnWire(m)[i].byte = u[i]
    BY <1>5, <2>1, <2>4
  <2>6. IsProper(m) => OnWire(m)[5].byte = Id(m)
    BY <1>5, <2>1, <2>4
  <2>7. \A i \in 1 .. Len(m.payload) : OnWire(m)[HeadLength(m) + i].byte = m.payload[i]
    <3> SUFFICES ASSUME NEW i \in 1 .. Len(m.payload)
                 PROVE  OnWire(m)[HeadLength(m) + i].byte = m.payload[i]
      OBVIOUS
    <3>1. OnWire(m)[HeadLength(m) + i] = [byte |-> m.payload[i], inside |-> FALSE]
      BY <1>7, <2>3, Zenon
    <3>2. QED
      BY <3>1
  <2>8. QED
    BY <2>3, <2>4, <2>5, <2>6, <2>7 DEF u

LEMMA PayloadLengthIs ==
  ASSUME NEW h \in Header, h.length # 0
  PROVE  PayloadLength(h) \in Nat
BY DEF Header, PayloadLength

\* The four bytes of a length stay what they are when a fifth is read.
LEMMA HeaderGrows ==
  ASSUME NEW s \in Seq(Byte), NEW t \in Seq(Byte), Len(s) >= 4
  PROVE  FromU32(SubSeq(s \o t, 1, 4)) = FromU32(SubSeq(s, 1, 4))
BY DEF FromU32

\* A prefix of what is there is read.
LEMMA Takes ==
  ASSUME IInv, Take
  PROVE  \E n \in 1 .. Len(arrived) :
           /\ Len(taken') = Len(taken) + n
           /\ taken' \in Seq(Byte) /\ arrived' \in Seq(Byte)
           /\ n <= Wanted
           /\ \A i \in 1 .. Len(taken) : taken'[i] = taken[i]
           /\ \A i \in 1 .. n : taken'[Len(taken) + i] = arrived[i]
           /\ Len(arrived') = Len(arrived) - n
           /\ \A i \in 1 .. Len(arrived') : arrived'[i] = arrived[n + i]
<1> DEFINE n == IF Wanted < Len(arrived) THEN Wanted ELSE Len(arrived)
<1>1. taken \in Seq(Byte) /\ arrived \in Seq(Byte) /\ Len(taken) \in Nat /\ Len(arrived) \in Nat
  BY DEF IInv, TypesOK
<1>2. Wanted \in Int
  <2>1. HeaderLength \in Int
    BY DEF HeaderLength
  <2>2. state = "payload" => PayloadLength(head) \in Int
    BY PayloadLengthIs DEF IInv, TypesOK, WantedOK
  <2>3. QED
    BY <1>1, <2>1, <2>2 DEF Wanted, Take, IInv, TypesOK
<1>3. /\ n \in 1 .. Len(arrived) /\ n <= Wanted
      /\ taken' = taken \o SubSeq(arrived, 1, n)
      /\ arrived' = SubSeq(arrived, n + 1, Len(arrived))
  BY <1>1, <1>2 DEF Take
<1> HIDE DEF n
<1>4. /\ SubSeq(arrived, 1, n) \in Seq(Byte) /\ Len(SubSeq(arrived, 1, n)) = n
      /\ \A i \in 1 .. n : SubSeq(arrived, 1, n)[i] = arrived[i]
  BY <1>1, <1>3
<1>5. /\ arrived' \in Seq(Byte) /\ Len(arrived') = Len(arrived) - n
      /\ \A i \in 1 .. Len(arrived) - n : arrived'[i] = arrived[n + i]
  BY <1>1, <1>3
<1>6. /\ Len(taken') = Len(taken) + n /\ taken' \in Seq(Byte)
      /\ \A i \in 1 .. Len(taken) : taken'[i] = taken[i]
      /\ \A i \in 1 .. n : taken'[Len(taken) + i] = arrived[i]
  BY <1>1, <1>3, <1>4
<1>7. QED
  BY <1>1, <1>3, <1>5, <1>6

LEMMA InitInv == Init => IInv
<1> SUFFICES ASSUME Init PROVE IInv
  OBVIOUS
<1>1. NoHead \in Header
  BY DEF NoHead, Header, Kinds
<1>2. QED
  BY <1>1, FramingAssumption DEF Init, IInv, TypesOK, WantedOK, HeaderLength

LEMMA TakeInv == IInv /\ Take => IInv'
<1> SUFFICES ASSUME IInv, Take PROVE IInv'
  OBVIOUS
<1>1. PICK n \in 1 .. Len(arrived) :
        /\ Len(taken') = Len(taken) + n
        /\ taken' \in Seq(Byte) /\ arrived' \in Seq(Byte)
        /\ n <= Wanted
        /\ \A i \in 1 .. Len(taken) : taken'[i] = taken[i]
  BY Takes
<1>2. TypesOK'
  BY <1>1 DEF IInv, TypesOK, Take
<1>3. taken \in Seq(Byte) /\ Len(taken) \in Nat /\ n \in Nat
  BY DEF IInv, TypesOK
<1>4. CASE state = "header"
  <2>1. Len(taken) + n <= HeaderLength
    BY <1>1, <1>3, <1>4 DEF Wanted, HeaderLength
  <2>2. Len(taken) >= 4 => FromU32(SubSeq(taken', 1, 4)) = FromU32(SubSeq(taken, 1, 4))
    <3> SUFFICES ASSUME Len(taken) >= 4
                 PROVE  FromU32(SubSeq(taken', 1, 4)) = FromU32(SubSeq(taken, 1, 4))
      OBVIOUS
    <3>1. \A i \in 1 .. 4 : SubSeq(taken', 1, 4)[i] = SubSeq(taken, 1, 4)[i]
      BY <1>1, <1>3
    <3>2. QED
      BY <3>1 DEF FromU32
  <2>3. HeaderLength' \in {4, 5} /\ (Len(taken) < 4 => HeaderLength = 4)
    BY DEF HeaderLength
  <2>4. Len(taken) >= 4 => HeaderLength' = HeaderLength
    BY <1>1, <1>3, <2>2 DEF HeaderLength
  <2>5. Len(taken') <= HeaderLength'
    BY <1>1, <1>3, <2>1, <2>3, <2>4
  <2>6. QED
    BY <1>2, <1>4, <2>5 DEF IInv, WantedOK, Take
<1>5. CASE state = "payload"
  <2>1. PayloadLength(head) \in Nat
    BY <1>5, PayloadLengthIs DEF IInv, TypesOK, WantedOK
  <2>2. UNCHANGED <<state, head>> /\ Len(taken') <= PayloadLength(head)
    BY <1>1, <1>3, <1>5, <2>1 DEF Take, Wanted
  <2>3. QED
    BY <1>2, <1>5, <2>2 DEF IInv, WantedOK
<1>6. QED
  BY <1>4, <1>5 DEF Take, IInv, TypesOK

LEMMA StepInv == IInv /\ [Next]_vars => IInv'
<1> SUFFICES ASSUME IInv, [Next]_vars PROVE IInv'
  OBVIOUS
<1>1. ASSUME NEW m \in Message, Send(m) PROVE IInv'
  <2>1. /\ wire' \in Seq(Bit) /\ sent' \in Seq(Message)
        /\ written' \in 0 .. MaxMessages
    BY <1>1, OnWireIs, FramingAssumption DEF Send, IInv, TypesOK
  <2>2. QED
    BY <1>1, <2>1
    DEF Send, readVars, IInv, TypesOK, WantedOK, HeaderLength, PayloadLength
<1>2. ASSUME NEW n \in 1 .. Len(wire), Arrive(n) PROVE IInv'
  <2>1. wire' \in Seq(Bit)
    BY <1>2 DEF Arrive, IInv, TypesOK
  <2>2. \A i \in 1 .. n : wire[i].byte \in Byte
    <3>1. wire \in Seq(Bit)
      BY DEF IInv, TypesOK
    <3>2. \A i \in 1 .. Len(wire) : wire[i] \in Bit
      BY <3>1, ElementOfSeq
    <3>3. \A i \in 1 .. n : wire[i] \in Bit
      BY <3>1, <3>2
    <3>4. QED
      BY <3>3 DEF Bit
  <2>3. [i \in 1 .. n |-> wire[i].byte] \in Seq(Byte)
    BY <2>2
  <2>4. arrived' \in Seq(Byte)
    BY <1>2, <2>3 DEF Arrive, IInv, TypesOK
  <2>5. QED
    BY <1>2, <2>1, <2>4
    DEF Arrive, readVars, IInv, TypesOK, WantedOK, HeaderLength, PayloadLength
<1>3. CASE Close
  <2>1. UNCHANGED <<sent, written, arrived, readVars, condition>> /\ open' = FALSE /\ wire' = <<>>
    BY <1>3 DEF Close
  <2>2. open' \in BOOLEAN
    BY <2>1, Zenon
  <2>3. QED
    BY <2>1, <2>2 DEF readVars, IInv, TypesOK, WantedOK, HeaderLength, PayloadLength
<1>4. CASE Take
  BY <1>4, TakeInv
<1>5. CASE HeaderRead
  <2>1. CASE UNCHANGED <<state, head>>
    BY <1>5, <2>1 DEF HeaderRead, IInv, TypesOK, WantedOK, HeaderLength
  <2>2. ASSUME Len(taken) = 5, NEW kind \in KindsOf(taken[5]), state' = "payload",
               head' = [kind |-> kind, length |-> FromU32(SubSeq(taken, 1, 4))]
        PROVE  IInv'
    <3>1. \A i \in 1 .. 4 : SubSeq(taken, 1, 4)[i] \in Nat
      <4>1. taken \in Seq(Byte)
        BY DEF IInv, TypesOK
      <4>2. \A i \in 1 .. 5 : taken[i] \in Byte
        BY <2>2, <4>1, ElementOfSeq
      <4>3. \A i \in 1 .. 4 : SubSeq(taken, 1, 4)[i] = taken[i]
        BY <2>2, <4>1
      <4>4. \A i \in 1 .. 4 : i \in 1 .. 5
        OBVIOUS
      <4>5. \A i \in 1 .. 4 : SubSeq(taken, 1, 4)[i] \in Byte
        BY <4>2, <4>3, <4>4, Zenon
      <4>6. \A x \in Byte : x \in Nat
        BY DEF Byte
      <4>7. QED
        BY <4>5, <4>6, Zenon
    <3>2. FromU32(SubSeq(taken, 1, 4)) \in Nat
      BY <3>1 DEF FromU32
    <3>3. FromU32(SubSeq(taken, 1, 4)) # 0
      BY <1>5, <2>2 DEF HeaderRead, IInv, WantedOK, HeaderLength
    <3>4. kind \in Kinds
      BY DEF KindsOf, Kinds
    <3>5. head' \in Header /\ head'.length # 0
      BY <2>2, <3>2, <3>3, <3>4 DEF Header
    <3>6. PayloadLength(head') \in Nat /\ Len(taken') = 0
      BY <1>5, <3>5, PayloadLengthIs DEF HeaderRead
    <3>7. QED
      BY <1>5, <2>2, <3>5, <3>6 DEF HeaderRead, IInv, TypesOK, WantedOK
  <2>3. CASE state' = "ended" /\ UNCHANGED head
    BY <1>5, <2>3 DEF HeaderRead, IInv, TypesOK, WantedOK
  <2>4. QED
    BY <1>5, <2>1, <2>2, <2>3 DEF HeaderRead
<1>6. CASE PayloadRead
  <2>1. NoHead \in Header
    BY DEF NoHead, Header, Kinds
  <2>2. QED
    BY <1>6, <2>1 DEF PayloadRead, IInv, TypesOK, WantedOK, HeaderLength
<1>7. CASE Update
  BY <1>7 DEF Update, IInv, TypesOK, WantedOK, HeaderLength
<1>8. CASE EndOfStream
  BY <1>8 DEF EndOfStream, IInv, TypesOK, WantedOK
<1>9. CASE UNCHANGED vars
  BY <1>9 DEF vars, readVars, IInv, TypesOK, WantedOK, HeaderLength, PayloadLength
<1>10. QED
  BY <1>1, <1>2, <1>3, <1>4, <1>5, <1>6, <1>7, <1>8, <1>9 DEF Next, Network, Read

LEMMA Inductive == Spec => []IInv
BY InitInv, StepInv, PTL DEF Spec

\* The variables keep their types, whatever is sent, cut and dropped: the reader
\* takes no byte beyond the part of a message it reads.
THEOREM TypeCorrect == Spec => []TypeOK
<1>1. IInv => TypeOK
  <2> SUFFICES ASSUME IInv PROVE TypeOK
    OBVIOUS
  <2>1. state = "payload" => PayloadLength(head) \in Nat
    BY PayloadLengthIs DEF IInv, TypesOK, WantedOK
  <2>2. HeaderLength \in Nat /\ Len(taken) \in Nat
    BY DEF HeaderLength, IInv, TypesOK
  <2>3. state # "ended" => Wanted >= 0
    BY <2>1, <2>2 DEF IInv, TypesOK, WantedOK, Wanted
  <2>4. QED
    BY <2>3 DEF IInv, TypesOK, TypeOK, Bit, Header
<1>2. QED
  BY <1>1, Inductive, PTL

-----------------------------------------------------------------------------
(* One sequence made of many. *)

\* at[i] says where in `whole` the first i parts end.
Ends(at, parts, whole) ==
  /\ at \in [0 .. Len(parts) -> 0 .. Len(whole)]
  /\ at[0] = 0 /\ at[Len(parts)] = Len(whole)
  /\ \A i, j \in 0 .. Len(parts) : i <= j => at[i] <= at[j]
  /\ \A i \in 1 .. Len(parts) :
       /\ at[i] = at[i - 1] + Len(parts[i])
       /\ \A j \in 1 .. Len(parts[i]) : whole[at[i - 1] + j] = parts[i][j]

IsConcat(parts, whole) == \E at : Ends(at, parts, whole)

Rest(s, n) == SubSeq(s, n + 1, Len(s))

LEMMA RestIs ==
  ASSUME NEW S, NEW s \in Seq(S), NEW n \in 0 .. Len(s)
  PROVE  /\ Rest(s, n) \in Seq(S) /\ Len(Rest(s, n)) = Len(s) - n
         /\ \A i \in 1 .. Len(s) - n : Rest(s, n)[i] = s[n + i]
BY DEF Rest

LEMMA NoParts ==
  ASSUME NEW S, NEW whole \in Seq(S)
  PROVE  IsConcat(<<>>, whole) <=> whole = <<>>
<1>1. Len(<<>>) = 0 /\ Len(whole) \in Nat /\ (Len(whole) = 0 <=> whole = <<>>)
  OBVIOUS
<1>2. IsConcat(<<>>, whole) => Len(whole) = 0
  BY <1>1 DEF IsConcat, Ends
<1>3. ASSUME Len(whole) = 0 PROVE IsConcat(<<>>, whole)
  <2> DEFINE at == [i \in 0 .. 0 |-> 0]
  <2>1. at \in [0 .. 0 -> 0 .. 0] /\ at[0] = 0
    OBVIOUS
  <2>2. \A i, j \in 0 .. 0 : at[i] <= at[j]
    OBVIOUS
  <2> HIDE DEF at
  <2>3. QED
    BY <1>1, <1>3, <2>1, <2>2 DEF IsConcat, Ends
<1>4. QED
  BY <1>1, <1>2, <1>3

LEMMA OnePartMore ==
  ASSUME NEW S, NEW parts \in Seq(Seq(S)), NEW whole \in Seq(S), NEW part \in Seq(S),
         IsConcat(parts, whole)
  PROVE  IsConcat(Append(parts, part), whole \o part)
<1> DEFINE n == Len(parts)
           more == Append(parts, part)
           longer == whole \o part
<1>1. PICK at :
        /\ at \in [0 .. n -> 0 .. Len(whole)]
        /\ at[0] = 0 /\ at[n] = Len(whole)
        /\ \A i, j \in 0 .. n : i <= j => at[i] <= at[j]
        /\ \A i \in 1 .. n :
             /\ at[i] = at[i - 1] + Len(parts[i])
             /\ \A j \in 1 .. Len(parts[i]) : whole[at[i - 1] + j] = parts[i][j]
  BY DEF IsConcat, Ends
<1>2. /\ n \in Nat /\ Len(more) = n + 1 /\ more[n + 1] = part
      /\ \A i \in 1 .. n : more[i] = parts[i] /\ parts[i] \in Seq(S)
  OBVIOUS
<1>3. /\ Len(whole) \in Nat /\ Len(part) \in Nat
      /\ longer \in Seq(S) /\ Len(longer) = Len(whole) + Len(part)
      /\ \A i \in 1 .. Len(whole) : longer[i] = whole[i]
      /\ \A i \in 1 .. Len(part) : longer[Len(whole) + i] = part[i]
  BY Joined
<1> HIDE DEF more, longer, n
<1> DEFINE to == [i \in 0 .. n + 1 |-> IF i = n + 1 THEN Len(longer) ELSE at[i]]
<1>4. /\ to[n + 1] = Len(longer)
      /\ \A i \in 0 .. n : to[i] = at[i] /\ at[i] \in 0 .. Len(whole)
  BY <1>1, <1>2
<1>5. to \in [0 .. n + 1 -> 0 .. Len(longer)]
  <2> HIDE DEF to
  <2>1. \A i \in 0 .. n + 1 : to[i] \in 0 .. Len(longer)
    <3> SUFFICES ASSUME NEW i \in 0 .. n + 1 PROVE to[i] \in 0 .. Len(longer)
      OBVIOUS
    <3>1. CASE i = n + 1
      BY <3>1, <1>3, <1>4
    <3>2. CASE i \in 0 .. n
      <4>1. to[i] \in 0 .. Len(whole)
        BY <1>4, <3>2
      <4>2. QED
        BY <1>3, <4>1
    <3>3. QED
      BY <3>1, <3>2, <1>2
  <2>2. QED
    BY <2>1 DEF to
<1> HIDE DEF to
<1>6. to[0] = 0 /\ to[Len(more)] = Len(longer)
  BY <1>1, <1>2, <1>4
<1>7. ASSUME NEW i \in 0 .. n + 1, NEW j \in 0 .. n + 1, i <= j PROVE to[i] <= to[j]
  <2>1. CASE j = n + 1
    BY <1>2, <1>3, <1>5, <2>1, <1>4
  <2>2. CASE j \in 0 .. n
    <3>1. i \in 0 .. n
      BY <1>2, <1>7, <2>2
    <3>2. at[i] <= at[j]
      BY <1>1, <1>7, <2>2, <3>1
    <3>3. QED
      BY <1>4, <2>2, <3>1, <3>2
  <2>3. QED
    BY <1>2, <2>1, <2>2
<1>8. ASSUME NEW i \in 1 .. n + 1
      PROVE  /\ to[i] = to[i - 1] + Len(more[i])
             /\ \A j \in 1 .. Len(more[i]) : longer[to[i - 1] + j] = more[i][j]
  <2>1. CASE i = n + 1
    <3>1. to[i - 1] = Len(whole) /\ to[i] = Len(longer) /\ more[i] = part
      BY <1>1, <1>2, <1>4, <2>1
    <3>2. QED
      BY <1>3, <3>1
  <2>2. CASE i \in 1 .. n
    <3>1. i - 1 \in 0 .. n /\ i \in 0 .. n
      BY <1>2, <2>2
    <3>2. to[i - 1] = at[i - 1] /\ to[i] = at[i] /\ more[i] = parts[i] /\ parts[i] \in Seq(S)
      BY <1>2, <1>4, <2>2, <3>1
    <3>3. at[i] = at[i - 1] + Len(parts[i]) /\ at[i - 1] \in Nat /\ at[i] <= Len(whole)
      BY <1>1, <1>3, <1>4, <2>2, <3>1
    <3>4. ASSUME NEW j \in 1 .. Len(parts[i])
          PROVE  longer[at[i - 1] + j] = parts[i][j]
      <4>1. Len(parts[i]) \in Nat /\ Len(whole) \in Nat /\ at[i - 1] \in Nat
        BY <1>3, <3>2, <3>3
      <4>2. at[i - 1] + Len(parts[i]) <= Len(whole)
        BY <3>3
      <4> DEFINE a == at[i - 1]
                 l == Len(parts[i])
                 w == Len(whole)
      <4>3. a + j \in 1 .. w
        <5>1. a \in Nat /\ l \in Nat /\ w \in Nat /\ j \in 1 .. l /\ a + l <= w
          BY <4>1, <4>2
        <5> HIDE DEF a, l, w
        <5>2. QED
          BY <5>1
      <4>4. QED
        BY <1>1, <1>3, <2>2, <4>3
    <3>5. QED
      BY <3>2, <3>3, <3>4
  <2>3. QED
    BY <1>2, <2>1, <2>2
<1>9. IsConcat(more, longer)
  <2>1. Ends(to, more, longer)
    BY <1>2, <1>5, <1>6, <1>7, <1>8 DEF Ends
  <2>2. QED
    BY <2>1 DEF IsConcat
<1>10. QED
  BY <1>9 DEF more, longer

LEMMA OnePartLess ==
  ASSUME NEW S, NEW parts \in Seq(Seq(S)), NEW whole \in Seq(S), parts # <<>>,
         IsConcat(parts, whole)
  PROVE  /\ Len(parts[1]) \in 0 .. Len(whole)
         /\ \A j \in 1 .. Len(parts[1]) : whole[j] = parts[1][j]
         /\ IsConcat(Tail(parts), Rest(whole, Len(parts[1])))
<1> DEFINE n == Len(parts)
           rest == Rest(whole, Len(parts[1]))
           fewer == Tail(parts)
<1>1. PICK at :
        /\ at \in [0 .. n -> 0 .. Len(whole)]
        /\ at[0] = 0 /\ at[n] = Len(whole)
        /\ \A i, j \in 0 .. n : i <= j => at[i] <= at[j]
        /\ \A i \in 1 .. n :
             /\ at[i] = at[i - 1] + Len(parts[i])
             /\ \A j \in 1 .. Len(parts[i]) : whole[at[i - 1] + j] = parts[i][j]
  BY DEF IsConcat, Ends
<1>2. /\ n \in Nat \ {0} /\ Len(fewer) = n - 1
      /\ \A i \in 1 .. n : parts[i] \in Seq(S)
      /\ \A i \in 1 .. n - 1 : fewer[i] = parts[i + 1]
  OBVIOUS
<1>3. /\ Len(whole) \in Nat /\ parts[1] \in Seq(S) /\ Len(parts[1]) \in Nat
  BY <1>2
<1> DEFINE k == Len(parts[1])
<1>4. at[1] = k /\ k \in 0 .. Len(whole)
  <2>1. 1 \in 1 .. n /\ 1 \in 0 .. n
    BY <1>2
  <2>2. QED
    BY <1>1, <1>3, <2>1
<1>5. \A j \in 1 .. k : whole[j] = parts[1][j]
  <2>1. 1 \in 1 .. n /\ 1 - 1 = 0
    BY <1>2
  <2>2. \A j \in 1 .. k : whole[0 + j] = parts[1][j]
    BY <1>1, <2>1
  <2>3. QED
    BY <1>3, <2>2
<1>6. /\ rest \in Seq(S) /\ Len(rest) = Len(whole) - k
      /\ \A i \in 1 .. Len(whole) - k : rest[i] = whole[k + i]
  BY <1>4, RestIs
<1> DEFINE to == [i \in 0 .. n - 1 |-> at[i + 1] - k]
<1>7. \A i \in 0 .. n - 1 :
        to[i] = at[i + 1] - k /\ at[i + 1] \in k .. Len(whole) /\ i + 1 \in 1 .. n
  <2> SUFFICES ASSUME NEW i \in 0 .. n - 1
               PROVE  at[i + 1] \in k .. Len(whole) /\ i + 1 \in 1 .. n
    BY Zenon
  <2>1. i + 1 \in 1 .. n /\ i + 1 \in 0 .. n /\ 1 \in 0 .. n /\ 1 <= i + 1
    BY <1>2
  <2>2. at[1] <= at[i + 1] /\ at[i + 1] \in 0 .. Len(whole)
    BY <1>1, <2>1
  <2>3. QED
    BY <1>3, <1>4, <2>1, <2>2
<1>8. to \in [0 .. n - 1 -> 0 .. Len(rest)]
  <2>1. \A i \in 0 .. n - 1 : to[i] \in 0 .. Len(rest)
    BY <1>3, <1>6, <1>7
  <2>2. QED
    BY <2>1
<1> HIDE DEF to, fewer, rest, n, k
<1>9. to[0] = 0 /\ to[Len(fewer)] = Len(rest)
  <2>1. 0 \in 0 .. n - 1 /\ 0 + 1 = 1 /\ n - 1 \in 0 .. n - 1 /\ (n - 1) + 1 = n
    BY <1>2
  <2>2. to[0] = at[1] - k /\ to[n - 1] = at[n] - k
    BY <1>7, <2>1
  <2>3. at[1] - k = 0 /\ at[n] - k = Len(whole) - k
    BY <1>1, <1>3, <1>4
  <2>4. QED
    BY <1>2, <1>6, <2>2, <2>3
<1>10. ASSUME NEW i \in 0 .. n - 1, NEW j \in 0 .. n - 1, i <= j PROVE to[i] <= to[j]
  <2>1. i + 1 \in 0 .. n /\ j + 1 \in 0 .. n /\ i + 1 <= j + 1
    BY <1>2, <1>10
  <2>2. at[i + 1] <= at[j + 1]
    BY <1>1, <2>1
  <2>3. QED
    BY <1>3, <1>4, <1>7, <2>2
<1>11. ASSUME NEW i \in 1 .. n - 1
       PROVE  /\ to[i] = to[i - 1] + Len(fewer[i])
              /\ \A j \in 1 .. Len(fewer[i]) : rest[to[i - 1] + j] = fewer[i][j]
  <2>1. i - 1 \in 0 .. n - 1 /\ i \in 0 .. n - 1 /\ i + 1 \in 1 .. n /\ (i - 1) + 1 = i
        /\ (i + 1) - 1 = i
    BY <1>2
  <2>2. /\ to[i - 1] = at[i] - k /\ to[i] = at[i + 1] - k
        /\ at[i] \in k .. Len(whole) /\ at[i + 1] \in k .. Len(whole)
    BY <1>7, <2>1
  <2>3. fewer[i] = parts[i + 1] /\ Len(parts[i + 1]) \in Nat
    BY <1>2, <2>1
  <2>4. /\ at[i + 1] = at[i] + Len(parts[i + 1])
        /\ \A j \in 1 .. Len(parts[i + 1]) : whole[at[i] + j] = parts[i + 1][j]
    BY <1>1, <2>1
  <2>5. ASSUME NEW j \in 1 .. Len(parts[i + 1])
        PROVE  rest[to[i - 1] + j] = parts[i + 1][j]
    <3>1. /\ k \in Nat /\ at[i] \in Nat /\ Len(parts[i + 1]) \in Nat /\ Len(whole) \in Nat
          /\ k <= at[i] /\ at[i + 1] <= Len(whole) /\ at[i + 1] = at[i] + Len(parts[i + 1])
      <4>1. k \in Nat /\ Len(whole) \in Nat
        BY <1>3, <1>4
      <4>2. at[i] \in Nat /\ k <= at[i] /\ at[i + 1] <= Len(whole)
        BY <2>2, <4>1
      <4>3. QED
        BY <2>3, <2>4, <4>1, <4>2
    <3>2. at[i] + Len(parts[i + 1]) <= Len(whole)
      BY <3>1
    <3> DEFINE a == at[i]
               l == Len(parts[i + 1])
               w == Len(whole)
    <3>3. k \in Nat /\ a \in Nat /\ l \in Nat /\ w \in Nat /\ k <= a /\ a + l <= w /\ j \in 1 .. l
      BY <3>1, <3>2
    <3>4. (a - k) + j \in 1 .. w - k /\ k + ((a - k) + j) = a + j
      <4> HIDE DEF a, l, w
      <4>1. QED
        BY <3>3
    <3>5. QED
      BY <1>6, <2>2, <2>4, <3>4
  <2>6. to[i] = to[i - 1] + Len(fewer[i])
    <3> DEFINE a == at[i]
               l == Len(parts[i + 1])
    <3>1. to[i] = (a + l) - k /\ to[i - 1] = a - k /\ Len(fewer[i]) = l
      BY <2>2, <2>3, <2>4
    <3>2. a \in Nat /\ l \in Nat /\ k \in Nat
      BY <1>3, <1>4, <2>2, <2>3
    <3> HIDE DEF a, l
    <3>3. (a + l) - k = (a - k) + l
      BY <3>2
    <3>4. QED
      BY <3>1, <3>3
  <2>7. QED
    BY <2>3, <2>5, <2>6
<1>12. IsConcat(fewer, rest)
  <2>1. Ends(to, fewer, rest)
    BY <1>2, <1>8, <1>9, <1>10, <1>11 DEF Ends
  <2>2. QED
    BY <2>1 DEF IsConcat
<1>13. QED
  BY <1>4, <1>5, <1>12 DEF fewer, rest, k

-----------------------------------------------------------------------------
(* The bytes under way are the messages that were not handled yet. *)

\* The bytes of the messages, and those messages of them that a handler is to see.
Framed(ms) == [i \in 1 .. Len(ms) |-> OnWire(ms[i])]

Shown(m) == IF IsProper(m) THEN <<m>> ELSE <<>>

Handled(ms) == [i \in 1 .. Len(ms) |-> Shown(ms[i])]

\* ms were sent and not handled; due are those of them that a handler is to see.
Waiting(ms, stream, due) ==
  /\ ms \in Seq(Message) /\ stream \in Seq(Bit) /\ due \in Seq(Message)
  /\ IsConcat(Framed(ms), stream) /\ IsConcat(Handled(ms), due)

LEMMA ShownIs ==
  ASSUME NEW m \in Message
  PROVE  /\ Shown(m) \in Seq(Message)
         /\ IsProper(m) => Len(Shown(m)) = 1 /\ Shown(m)[1] = m
         /\ ~IsProper(m) => Len(Shown(m)) = 0 /\ Shown(m) = <<>>
BY DEF Shown

LEMMA PartsAre ==
  ASSUME NEW ms \in Seq(Message)
  PROVE  /\ Framed(ms) \in Seq(Seq(Bit)) /\ Len(Framed(ms)) = Len(ms)
         /\ \A i \in 1 .. Len(ms) : Framed(ms)[i] = OnWire(ms[i])
         /\ Handled(ms) \in Seq(Seq(Message)) /\ Len(Handled(ms)) = Len(ms)
         /\ \A i \in 1 .. Len(ms) : Handled(ms)[i] = Shown(ms[i])
<1>1. \A i \in 1 .. Len(ms) : ms[i] \in Message
  BY ElementOfSeq
<1>2. \A i \in 1 .. Len(ms) : OnWire(ms[i]) \in Seq(Bit) /\ Shown(ms[i]) \in Seq(Message)
  BY <1>1, OnWireIs, ShownIs
<1>3. Len(ms) \in Nat
  OBVIOUS
<1>4. /\ Framed(ms) \in Seq(Seq(Bit)) /\ Len(Framed(ms)) = Len(ms)
      /\ \A i \in 1 .. Len(ms) : Framed(ms)[i] = OnWire(ms[i])
  BY <1>2, <1>3 DEF Framed
<1>5. /\ Handled(ms) \in Seq(Seq(Message)) /\ Len(Handled(ms)) = Len(ms)
      /\ \A i \in 1 .. Len(ms) : Handled(ms)[i] = Shown(ms[i])
  BY <1>2, <1>3 DEF Handled
<1>6. QED
  BY <1>4, <1>5

LEMMA PartsGrow ==
  ASSUME NEW ms \in Seq(Message), NEW m \in Message
  PROVE  /\ Framed(Append(ms, m)) = Append(Framed(ms), OnWire(m))
         /\ Handled(Append(ms, m)) = Append(Handled(ms), Shown(m))
<1> DEFINE more == Append(ms, m)
<1>1. /\ more \in Seq(Message) /\ Len(more) = Len(ms) + 1 /\ Len(ms) \in Nat
      /\ more[Len(ms) + 1] = m /\ \A i \in 1 .. Len(ms) : more[i] = ms[i]
  OBVIOUS
<1>2. OnWire(m) \in Seq(Bit) /\ Shown(m) \in Seq(Message)
  BY OnWireIs, ShownIs
<1> HIDE DEF more
<1> DEFINE f == Append(Framed(ms), OnWire(m))
           h == Append(Handled(ms), Shown(m))
<1>3. /\ f \in Seq(Seq(Bit)) /\ Len(f) = Len(ms) + 1 /\ f[Len(ms) + 1] = OnWire(m)
      /\ \A i \in 1 .. Len(ms) : f[i] = OnWire(ms[i])
  BY <1>2, PartsAre
<1>4. /\ h \in Seq(Seq(Message)) /\ Len(h) = Len(ms) + 1 /\ h[Len(ms) + 1] = Shown(m)
      /\ \A i \in 1 .. Len(ms) : h[i] = Shown(ms[i])
  BY <1>2, PartsAre
<1>5. /\ Framed(more) \in Seq(Seq(Bit)) /\ Len(Framed(more)) = Len(more)
      /\ \A i \in 1 .. Len(more) : Framed(more)[i] = OnWire(more[i])
      /\ Handled(more) \in Seq(Seq(Message)) /\ Len(Handled(more)) = Len(more)
      /\ \A i \in 1 .. Len(more) : Handled(more)[i] = Shown(more[i])
  BY <1>1, PartsAre
<1> HIDE DEF f, h
<1>6. \A i \in 1 .. Len(ms) + 1 : i \in 1 .. Len(ms) \/ i = Len(ms) + 1
  BY <1>1
<1>7. ASSUME NEW i \in 1 .. Len(ms) + 1
      PROVE  Framed(more)[i] = f[i] /\ Handled(more)[i] = h[i]
  <2>1. Framed(more)[i] = OnWire(more[i]) /\ Handled(more)[i] = Shown(more[i])
    BY <1>1, <1>5
  <2>2. CASE i \in 1 .. Len(ms)
    BY <1>1, <1>3, <1>4, <2>1, <2>2
  <2>3. CASE i = Len(ms) + 1
    BY <1>1, <1>3, <1>4, <2>1, <2>3
  <2>4. QED
    BY <1>6, <2>2, <2>3
<1>8. Framed(more) = f
  BY <1>1, <1>3, <1>5, <1>7, SeqEqual
<1>9. Handled(more) = h
  BY <1>1, <1>4, <1>5, <1>7, SeqEqual
<1>10. QED
  BY <1>8, <1>9 DEF more, f, h

LEMMA PartsShrink ==
  ASSUME NEW ms \in Seq(Message), ms # <<>>
  PROVE  /\ Tail(ms) \in Seq(Message)
         /\ Framed(Tail(ms)) = Tail(Framed(ms))
         /\ Handled(Tail(ms)) = Tail(Handled(ms))
<1> DEFINE fewer == Tail(ms)
           f == Tail(Framed(ms))
           h == Tail(Handled(ms))
           n == Len(ms) - 1
<1>1. /\ fewer \in Seq(Message) /\ Len(fewer) = n /\ n \in Nat
      /\ \A i \in 1 .. n : fewer[i] = ms[i + 1] /\ i + 1 \in 1 .. Len(ms)
  OBVIOUS
<1>2. Framed(ms) # <<>> /\ Handled(ms) # <<>> /\ Len(ms) \in Nat \ {0}
  BY PartsAre
<1>3. /\ f \in Seq(Seq(Bit)) /\ Len(f) = n /\ \A i \in 1 .. n : f[i] = OnWire(ms[i + 1])
      /\ h \in Seq(Seq(Message)) /\ Len(h) = n /\ \A i \in 1 .. n : h[i] = Shown(ms[i + 1])
  <2>1. f \in Seq(Seq(Bit)) /\ Len(f) = n /\ \A i \in 1 .. n : f[i] = Framed(ms)[i + 1]
    BY <1>2, PartsAre
  <2>2. h \in Seq(Seq(Message)) /\ Len(h) = n /\ \A i \in 1 .. n : h[i] = Handled(ms)[i + 1]
    BY <1>2, PartsAre
  <2>3. \A i \in 1 .. n : Framed(ms)[i + 1] = OnWire(ms[i + 1])
                          /\ Handled(ms)[i + 1] = Shown(ms[i + 1])
    BY <1>1, PartsAre
  <2>4. QED
    BY <2>1, <2>2, <2>3
<1>4. /\ Framed(fewer) \in Seq(Seq(Bit)) /\ Len(Framed(fewer)) = n
      /\ \A i \in 1 .. n : Framed(fewer)[i] = OnWire(fewer[i])
      /\ Handled(fewer) \in Seq(Seq(Message)) /\ Len(Handled(fewer)) = n
      /\ \A i \in 1 .. n : Handled(fewer)[i] = Shown(fewer[i])
  BY <1>1, PartsAre
<1> HIDE DEF fewer, f, h
<1>5. \A i \in 1 .. n : Framed(fewer)[i] = f[i] /\ Handled(fewer)[i] = h[i]
  BY <1>1, <1>3, <1>4
<1>6. Framed(fewer) = f
  BY <1>3, <1>4, <1>5, SeqEqual
<1>7. Handled(fewer) = h
  BY <1>3, <1>4, <1>5, SeqEqual
<1>8. QED
  BY <1>1, <1>6, <1>7 DEF fewer, f, h

\* One message is sent.
LEMMA OneMessageMore ==
  ASSUME NEW ms, NEW stream, NEW due, Waiting(ms, stream, due), NEW m \in Message
  PROVE  Waiting(Append(ms, m), stream \o OnWire(m), due \o Shown(m))
<1>1. /\ ms \in Seq(Message) /\ stream \in Seq(Bit) /\ due \in Seq(Message)
      /\ OnWire(m) \in Seq(Bit) /\ Shown(m) \in Seq(Message)
  BY OnWireIs, ShownIs DEF Waiting
<1>2. Framed(ms) \in Seq(Seq(Bit)) /\ Handled(ms) \in Seq(Seq(Message))
  BY <1>1, PartsAre
<1>3. IsConcat(Append(Framed(ms), OnWire(m)), stream \o OnWire(m))
  BY <1>1, <1>2, OnePartMore DEF Waiting
<1>4. IsConcat(Append(Handled(ms), Shown(m)), due \o Shown(m))
  BY <1>1, <1>2, OnePartMore DEF Waiting
<1>5. /\ Append(ms, m) \in Seq(Message)
      /\ stream \o OnWire(m) \in Seq(Bit) /\ due \o Shown(m) \in Seq(Message)
  BY <1>1
<1>6. QED
  BY <1>1, <1>3, <1>4, <1>5, PartsGrow DEF Waiting

\* If there are bytes, there is a message they begin with.
LEMMA FirstMessage ==
  ASSUME NEW ms, NEW stream, NEW due, Waiting(ms, stream, due), stream # <<>>
  PROVE  /\ ms # <<>> /\ ms[1] \in Message
         /\ Len(OnWire(ms[1])) \in 0 .. Len(stream)
         /\ \A i \in 1 .. Len(OnWire(ms[1])) : stream[i] = OnWire(ms[1])[i]
         /\ IsProper(ms[1]) => due # <<>> /\ due[1] = ms[1]
         /\ Waiting(Tail(ms), Rest(stream, Len(OnWire(ms[1]))),
                    IF IsProper(ms[1]) THEN Tail(due) ELSE due)
<1>1. /\ ms \in Seq(Message) /\ stream \in Seq(Bit) /\ due \in Seq(Message)
      /\ IsConcat(Framed(ms), stream) /\ IsConcat(Handled(ms), due)
  BY DEF Waiting
<1>2. ms # <<>>
  <2>1. SUFFICES ASSUME ms = <<>> PROVE FALSE
    OBVIOUS
  <2>2. Framed(ms) \in Seq(Seq(Bit)) /\ Len(Framed(ms)) = 0
    BY <1>1, <2>1, PartsAre
  <2>3. Framed(ms) = <<>>
    BY <2>2
  <2>4. QED
    BY <1>1, <2>3, NoParts
<1>3. ms[1] \in Message /\ 1 \in 1 .. Len(ms)
  BY <1>1, <1>2
<1>4. /\ Framed(ms) \in Seq(Seq(Bit)) /\ Framed(ms) # <<>> /\ Framed(ms)[1] = OnWire(ms[1])
      /\ Handled(ms) \in Seq(Seq(Message)) /\ Handled(ms) # <<>>
      /\ Handled(ms)[1] = Shown(ms[1])
  BY <1>1, <1>3, PartsAre
<1>5. /\ Len(OnWire(ms[1])) \in 0 .. Len(stream)
      /\ \A i \in 1 .. Len(OnWire(ms[1])) : stream[i] = OnWire(ms[1])[i]
      /\ IsConcat(Tail(Framed(ms)), Rest(stream, Len(OnWire(ms[1]))))
  BY <1>1, <1>4, OnePartLess
<1>6. /\ Len(Shown(ms[1])) \in 0 .. Len(due)
      /\ \A i \in 1 .. Len(Shown(ms[1])) : due[i] = Shown(ms[1])[i]
      /\ IsConcat(Tail(Handled(ms)), Rest(due, Len(Shown(ms[1]))))
  BY <1>1, <1>4, OnePartLess
<1>7. CASE IsProper(ms[1])
  <2>1. Len(Shown(ms[1])) = 1 /\ Shown(ms[1])[1] = ms[1]
    BY <1>3, <1>7, ShownIs
  <2>2. due # <<>> /\ due[1] = ms[1] /\ Tail(due) \in Seq(Message)
    BY <1>1, <1>6, <2>1
  <2>3. Rest(due, 1) = Tail(due)
    BY <1>1, <2>2, TailIsSubSeq DEF Rest
  <2>4. Rest(stream, Len(OnWire(ms[1]))) \in Seq(Bit)
    BY <1>1, <1>5, RestIs
  <2>5. Waiting(Tail(ms), Rest(stream, Len(OnWire(ms[1]))), Tail(due))
    BY <1>1, <1>2, <1>5, <1>6, <2>1, <2>2, <2>3, <2>4, PartsShrink DEF Waiting
  <2>6. QED
    BY <1>2, <1>3, <1>5, <1>7, <2>2, <2>5
<1>8. CASE ~IsProper(ms[1])
  <2>1. Len(Shown(ms[1])) = 0
    BY <1>3, <1>8, ShownIs
  <2>2. Rest(due, 0) = due
    BY <1>1, SubSeqFull DEF Rest
  <2>3. Rest(stream, Len(OnWire(ms[1]))) \in Seq(Bit)
    BY <1>1, <1>5, RestIs
  <2>4. Waiting(Tail(ms), Rest(stream, Len(OnWire(ms[1]))), due)
    BY <1>1, <1>2, <1>5, <1>6, <2>1, <2>2, <2>3, PartsShrink DEF Waiting
  <2>5. QED
    BY <1>2, <1>3, <1>5, <1>8, <2>4
<1>9. QED
  BY <1>7, <1>8

-----------------------------------------------------------------------------
(* Nothing is lost, doubled or torn. *)

\* process_message reads what the header announces.
PayloadsAreRead ==
  \A m \in Message :
    m.kind # "Unknown" => Len(m.payload) = PayloadLength([kind |-> m.kind, length |-> Length(m)])

\* select! drops no part of a header.
HeadersSurvive == \A c \in Conditions : ~(c.cuts /\ c.updates)

\* How much of the first message is taken, and where the bytes under way begin.
Begin == IF state = "payload" THEN 5 ELSE 0
Position == Begin + Len(taken)
Border == Position + Len(arrived)

\* What is taken, has arrived and is on its way are consecutive parts of the
\* stream, of which a closed connection loses the end.
InPlace(stream) ==
  /\ Border + Len(wire) <= Len(stream)
  /\ open => Border + Len(wire) = Len(stream)
  /\ ~open => wire = <<>>
  /\ \A i \in 1 .. Len(taken) : taken[i] = stream[Begin + i].byte
  /\ \A i \in 1 .. Len(arrived) : arrived[i] = stream[Position + i].byte
  /\ \A i \in 1 .. Len(wire) : wire[i] = stream[Border + i]

\* No header has arrived in part.
HeaderWhole(stream) ==
  ~condition.cuts /\ Border < Len(stream) => ~stream[Border + 1].inside

HeadOf(m) == [kind |-> m.kind, length |-> Length(m)]

Remains(ms, stream, due) ==
  /\ Waiting(ms, stream, due)
  /\ InPlace(stream) /\ HeaderWhole(stream)
  /\ state = "payload" =>
       /\ ms # <<>> /\ IsProper(ms[1]) /\ ms[1].kind # "Unknown" /\ head = HeadOf(ms[1])
       /\ Len(stream) >= 5
  /\ sent = received \o due /\ received \in Seq(Message)

NothingLost == state # "ended" => \E ms, stream, due : Remains(ms, stream, due)

LEMMA InitNothingLost == Init => NothingLost
<1> SUFFICES ASSUME Init PROVE Remains(<<>>, <<>>, <<>>)
  BY DEF NothingLost
<1>1. Framed(<<>>) = <<>> /\ Handled(<<>>) = <<>>
  BY DEF Framed, Handled
<1>2. Waiting(<<>>, <<>>, <<>>)
  <2>1. \A S : <<>> \in Seq(S)
    OBVIOUS
  <2>2. IsConcat(<<>>, <<>>)
    BY <2>1, NoParts
  <2>3. QED
    BY <1>1, <2>1, <2>2 DEF Waiting
<1>3. InPlace(<<>>) /\ HeaderWhole(<<>>)
  BY DEF Init, InPlace, HeaderWhole, Border, Position, Begin
<1>4. QED
  BY <1>2, <1>3 DEF Init, Remains

\* A type for everything a position is computed from.
LEMMA Positions ==
  ASSUME IInv
  PROVE  /\ Len(taken) \in Nat /\ Len(arrived) \in Nat /\ Len(wire) \in Nat
         /\ Begin \in Nat /\ Position \in Nat /\ Border \in Nat
         /\ Begin <= Position /\ Position <= Border
<1>1. Len(taken) \in Nat /\ Len(arrived) \in Nat /\ Len(wire) \in Nat
  BY DEF IInv, TypesOK
<1>2. QED
  BY <1>1 DEF Begin, Position, Border

LEMMA SendLosesNothing ==
  ASSUME IInv, NothingLost, NEW m \in Message, Send(m)
  PROVE  NothingLost'
<1> SUFFICES ASSUME state # "ended" PROVE NothingLost'
  BY DEF NothingLost, Send, readVars
<1>1. PICK ms, stream, due : Remains(ms, stream, due)
  BY DEF NothingLost
<1> DEFINE more == stream \o OnWire(m)
<1>2. Waiting(Append(ms, m), more, due \o Shown(m))
  BY <1>1, OneMessageMore DEF Remains
<1>3. /\ stream \in Seq(Bit) /\ due \in Seq(Message) /\ ms \in Seq(Message)
      /\ OnWire(m) \in Seq(Bit) /\ wire \in Seq(Bit)
      /\ Shown(m) \in Seq(Message) /\ received \in Seq(Message)
  BY <1>1, OnWireIs, ShownIs DEF Remains, Waiting, IInv, TypesOK
<1>4. /\ Len(stream) \in Nat /\ Len(OnWire(m)) \in Nat
      /\ Len(more) = Len(stream) + Len(OnWire(m))
      /\ \A i \in 1 .. Len(stream) : more[i] = stream[i]
      /\ \A i \in 1 .. Len(OnWire(m)) : more[Len(stream) + i] = OnWire(m)[i]
  BY <1>3, Joined
<1>5. /\ wire' = wire \o OnWire(m)
      /\ Len(wire') = Len(wire) + Len(OnWire(m))
      /\ \A i \in 1 .. Len(wire) : wire'[i] = wire[i]
      /\ \A i \in 1 .. Len(OnWire(m)) : wire'[Len(wire) + i] = OnWire(m)[i]
  <2>1. wire' = wire \o OnWire(m)
    BY DEF Send
  <2>2. wire \in Seq(Bit) /\ OnWire(m) \in Seq(Bit)
    BY <1>3
  <2>3. QED
    BY <2>1, <2>2, Joined
<1> HIDE DEF more
<1>6. /\ UNCHANGED <<arrived, open, state, taken, head, received, condition>> /\ open
      /\ Begin' = Begin /\ Position' = Position /\ Border' = Border
  BY DEF Send, readVars, Begin, Position, Border
<1>7. /\ Border + Len(wire) = Len(stream)
      /\ \A i \in 1 .. Len(taken) : taken[i] = stream[Begin + i].byte
      /\ \A i \in 1 .. Len(arrived) : arrived[i] = stream[Position + i].byte
      /\ \A i \in 1 .. Len(wire) : wire[i] = stream[Border + i]
  BY <1>1, <1>6 DEF Remains, InPlace
<1> DEFINE lw == Len(wire)
           lo == Len(OnWire(m))
           ls == Len(stream)
<1>8. /\ lw \in Nat /\ lo \in Nat /\ ls \in Nat /\ Border \in Nat
      /\ Len(wire') = lw + lo /\ Len(more) = ls + lo /\ Border + lw = ls
  BY <1>4, <1>5, <1>7, Positions
<1>9. InPlace(more)'
  <2>1. Border + Len(wire') = Len(more)
    <3> HIDE DEF lw, lo, ls
    <3>1. Border + (lw + lo) = ls + lo
      BY <1>8
    <3>2. QED
      BY <1>8, <3>1
  <2>2. \A i \in 1 .. Len(taken) : taken[i] = more[Begin + i].byte
    <3>1. \A i \in 1 .. Len(taken) : Begin + i \in 1 .. Len(stream)
      <4>1. Begin + Len(taken) <= Len(stream)
        BY <1>4, <1>7, Positions DEF Position
      <4>2. QED
        BY <1>4, <4>1, Positions
    <3>2. QED
      BY <1>4, <1>7, <3>1
  <2>3. \A i \in 1 .. Len(arrived) : arrived[i] = more[Position + i].byte
    <3>1. \A i \in 1 .. Len(arrived) : Position + i \in 1 .. Len(stream)
      <4>1. Position + Len(arrived) <= Len(stream)
        BY <1>4, <1>7, Positions DEF Border
      <4>2. QED
        BY <1>4, <4>1, Positions
    <3>2. QED
      BY <1>4, <1>7, <3>1
  <2>4. \A i \in 1 .. Len(wire') : wire'[i] = more[Border + i]
    <3> SUFFICES ASSUME NEW i \in 1 .. Len(wire') PROVE wire'[i] = more[Border + i]
      OBVIOUS
    <3>1. CASE i <= Len(wire)
      <4>1. i \in 1 .. Len(wire) /\ Border + i \in 1 .. Len(stream)
        BY <1>4, <1>5, <1>7, <3>1, Positions
      <4>2. QED
        BY <1>4, <1>5, <1>7, <4>1
    <3>2. CASE i > Len(wire)
      <4> DEFINE j == i - lw
      <4>1. j \in 1 .. lo /\ lw + j = i /\ ls + j = Border + i
        <5>1. i \in 1 .. (lw + lo) /\ i > lw
          BY <1>8, <3>2
        <5> HIDE DEF lw, lo, ls
        <5>2. QED
          BY <1>8, <5>1
      <4> HIDE DEF j
      <4>2. wire'[lw + j] = OnWire(m)[j]
        BY <1>5, <4>1
      <4>3. more[ls + j] = OnWire(m)[j]
        BY <1>4, <4>1
      <4>4. QED
        BY <4>1, <4>2, <4>3
    <3>3. i <= Len(wire) \/ i > Len(wire)
      BY <1>8
    <3>4. QED
      BY <3>1, <3>2, <3>3
  <2>5. QED
    BY <1>6, <2>1, <2>2, <2>3, <2>4, Positions DEF InPlace
<1>10. HeaderWhole(more)'
  <2>1. CASE Border < Len(stream)
    <3>1. Border + 1 \in 1 .. Len(stream) /\ (~condition.cuts => ~stream[Border + 1].inside)
      BY <1>1, <1>4, <2>1, Positions DEF Remains, HeaderWhole
    <3>2. QED
      BY <1>4, <1>6, <3>1 DEF HeaderWhole
  <2>2. CASE Border = Len(stream)
    <3>1. /\ Len(OnWire(m)) = HeadLength(m) + Len(m.payload)
          /\ HeadLength(m) \in Nat \ {0} /\ Len(m.payload) \in Nat
          /\ \A i \in 1 .. HeadLength(m) : OnWire(m)[i].inside = (i > 1)
      <4>1. HeadLength(m) \in Nat \ {0}
        BY DEF HeadLength
      <4>2. Len(m.payload) \in Nat
        BY FramingAssumption
      <4>3. QED
        BY <4>1, <4>2, OnWireIs
    <3>2. 1 \in 1 .. HeadLength(m) /\ 1 \in 1 .. Len(OnWire(m)) /\ (1 > 1) = FALSE
      BY <3>1
    <3>3. OnWire(m)[1].inside = FALSE
      BY <3>1, <3>2
    <3>4. more[Border + 1].inside = FALSE
      BY <1>4, <2>2, <3>2, <3>3
    <3>5. QED
      BY <1>6, <3>4 DEF HeaderWhole
  <2>3. QED
    BY <1>4, <1>7, <2>1, <2>2, Positions
<1>11. sent' = received' \o (due \o Shown(m)) /\ received' \in Seq(Message)
  <2>1. sent' = sent \o Shown(m)
    <3>1. CASE IsProper(m)
      <4>1. sent' = Append(sent, m) /\ Shown(m) = <<m>> /\ sent \in Seq(Message)
        BY <3>1 DEF Send, Shown, IInv, TypesOK
      <4>2. QED
        BY <4>1, AppendIsConcat
    <3>2. CASE ~IsProper(m)
      <4>1. sent' = sent /\ Shown(m) = <<>> /\ sent \in Seq(Message)
        BY <3>2 DEF Send, Shown, IInv, TypesOK
      <4>2. QED
        BY <4>1, ConcatEmptySeq
    <3>3. QED
      BY <3>1, <3>2
  <2>2. sent = received \o due
    BY <1>1 DEF Remains
  <2>3. (received \o due) \o Shown(m) = received \o (due \o Shown(m))
    <3>1. received \in Seq(Message) /\ due \in Seq(Message) /\ Shown(m) \in Seq(Message)
      BY <1>3
    <3>2. QED
      BY <3>1, ConcatAssociative
  <2>4. QED
    BY <1>3, <1>6, <2>1, <2>2, <2>3
<1>12. state' = "payload" =>
         /\ Append(ms, m) # <<>> /\ Append(ms, m)[1] = ms[1] /\ IsProper(ms[1])
         /\ ms[1].kind # "Unknown" /\ head' = HeadOf(ms[1]) /\ Len(more) >= 5
  <2> SUFFICES ASSUME state = "payload"
               PROVE  /\ Append(ms, m) # <<>> /\ Append(ms, m)[1] = ms[1] /\ IsProper(ms[1])
                      /\ ms[1].kind # "Unknown" /\ head = HeadOf(ms[1]) /\ Len(more) >= 5
    BY <1>6
  <2>1. /\ ms # <<>> /\ IsProper(ms[1]) /\ ms[1].kind # "Unknown" /\ head = HeadOf(ms[1])
        /\ Len(stream) >= 5
    BY <1>1 DEF Remains
  <2>2. Append(ms, m) # <<>> /\ Append(ms, m)[1] = ms[1]
    <3>1. ms \in Seq(Message) /\ ms # <<>>
      BY <1>3, <2>1
    <3>2. 1 \in 1 .. Len(ms)
      BY <3>1
    <3>3. QED
      BY <3>1, <3>2, AppendProperties
  <2>3. Len(more) >= 5
    BY <1>8, <2>1
  <2>4. QED
    BY <2>1, <2>2, <2>3
<1>13. Remains(Append(ms, m), more, due \o Shown(m))'
  BY <1>2, <1>9, <1>10, <1>11, <1>12 DEF Remains, Waiting
<1>14. QED
  BY <1>13 DEF NothingLost

\* The bytes are only handed on.
LEMMA ArriveLosesNothing ==
  ASSUME IInv, NothingLost, NEW n \in 1 .. Len(wire), Arrive(n)
  PROVE  NothingLost'
<1> SUFFICES ASSUME state # "ended" PROVE NothingLost'
  BY DEF NothingLost, Arrive, readVars
<1>1. PICK ms, stream, due : Remains(ms, stream, due)
  BY DEF NothingLost
<1>2. /\ UNCHANGED <<sent, open, state, taken, head, received, condition>>
      /\ Begin' = Begin /\ Position' = Position
  BY DEF Arrive, readVars, Begin, Position
<1> DEFINE new == [i \in 1 .. n |-> wire[i].byte]
<1>3. arrived \in Seq(Byte) /\ wire \in Seq(Bit)
  BY DEF IInv, TypesOK
<1>4. new \in Seq(Byte) /\ Len(new) = n /\ \A i \in 1 .. n : new[i] = wire[i].byte
  <2>1. \A i \in 1 .. n : wire[i] \in Bit
    BY <1>3, ElementOfSeq
  <2>2. \A i \in 1 .. n : wire[i].byte \in Byte
    BY <2>1 DEF Bit
  <2>3. QED
    BY <2>2
<1>5. arrived' = arrived \o new /\ wire' = Rest(wire, n)
  BY DEF Arrive, Rest
<1> HIDE DEF new
<1>6. /\ Len(arrived') = Len(arrived) + n
      /\ \A i \in 1 .. Len(arrived) : arrived'[i] = arrived[i]
      /\ \A i \in 1 .. n : arrived'[Len(arrived) + i] = wire[i].byte
  <2>1. new \in Seq(Byte)
    BY <1>4
  <2>2. /\ Len(arrived') = Len(arrived) + Len(new)
        /\ \A i \in 1 .. Len(arrived) : arrived'[i] = arrived[i]
        /\ \A i \in 1 .. Len(new) : arrived'[Len(arrived) + i] = new[i]
    BY <1>3, <1>5, <2>1, Joined
  <2>3. QED
    BY <1>4, <2>2
<1>7. /\ Len(wire') = Len(wire) - n /\ Len(wire) - n \in Nat
      /\ \A i \in 1 .. Len(wire) - n : wire'[i] = wire[n + i]
  <2>1. n \in 0 .. Len(wire) /\ Len(wire) \in Nat
    BY <1>3
  <2>2. /\ Len(Rest(wire, n)) = Len(wire) - n
        /\ \A i \in 1 .. Len(wire) - n : Rest(wire, n)[i] = wire[n + i]
    BY <1>3, <2>1, RestIs
  <2>3. Len(wire) - n \in Nat
    BY <2>1
  <2>4. QED
    BY <1>5, <2>2, <2>3
<1> DEFINE lw == Len(wire)
           la == Len(arrived)
           ls == Len(stream)
<1>8. /\ lw \in Nat /\ la \in Nat /\ ls \in Nat /\ Border \in Nat /\ Position \in Nat
      /\ n \in 1 .. lw /\ Border + lw <= ls /\ Border = Position + la
      /\ open => Border + lw = ls
      /\ ~open => lw = 0
  BY <1>1, Positions DEF Remains, InPlace, Waiting, Border
<1>9. Border' = Border + n
  <2>1. Border' = Position + (la + n)
    BY <1>2, <1>6 DEF Border
  <2> HIDE DEF la, lw, ls
  <2>2. QED
    BY <1>8, <2>1
<1>10. open /\ Border' + Len(wire') = ls
  <2>1. Len(wire') = lw - n
    BY <1>7
  <2> HIDE DEF la, lw, ls
  <2>2. QED
    BY <1>8, <1>9, <2>1
<1>11. \A i \in 1 .. Len(arrived') : arrived'[i] = stream[Position + i].byte
  <2> SUFFICES ASSUME NEW i \in 1 .. Len(arrived')
               PROVE  arrived'[i] = stream[Position + i].byte
    OBVIOUS
  <2>1. CASE i \in 1 .. la
    BY <1>1, <1>6, <2>1 DEF Remains, InPlace
  <2>2. CASE i \notin 1 .. la
    <3>1. i \in 1 .. la + n
      BY <1>6
    <3>2. i - la \in 1 .. n /\ i - la \in 1 .. lw /\ la + (i - la) = i
          /\ Border + (i - la) = Position + i
      <4> HIDE DEF la, lw, ls
      <4>1. QED
        BY <1>8, <2>2, <3>1
    <3>3. wire[i - la] = stream[Border + (i - la)]
      BY <1>1, <3>2 DEF Remains, InPlace
    <3>4. arrived'[la + (i - la)] = wire[i - la].byte
      BY <1>6, <3>2
    <3>5. QED
      BY <3>2, <3>3, <3>4
  <2>3. QED
    BY <2>1, <2>2
<1>12. \A i \in 1 .. Len(wire') : wire'[i] = stream[Border' + i]
  <2> SUFFICES ASSUME NEW i \in 1 .. lw - n PROVE wire'[i] = stream[Border' + i]
    BY <1>7
  <2>1. n + i \in 1 .. lw /\ Border + (n + i) = Border' + i
    <3> HIDE DEF la, lw, ls
    <3>1. QED
      BY <1>8, <1>9
  <2>2. wire[n + i] = stream[Border + (n + i)]
    BY <1>1, <2>1 DEF Remains, InPlace
  <2>3. QED
    BY <1>7, <2>1, <2>2
<1>13. InPlace(stream)'
  <2>1. \A i \in 1 .. Len(taken) : taken[i] = stream[Begin + i].byte
    BY <1>1 DEF Remains, InPlace
  <2>2. Border' + Len(wire') <= Len(stream)
    BY <1>8, <1>10
  <2>3. QED
    BY <1>2, <1>10, <1>11, <1>12, <2>1, <2>2 DEF InPlace
<1>14. HeaderWhole(stream)'
  <2> SUFFICES ASSUME ~condition.cuts, Border' < Len(stream)
               PROVE  ~stream[Border' + 1].inside
    BY <1>2 DEF HeaderWhole
  <2>1. n < lw /\ n + 1 \in 1 .. lw /\ Border + (n + 1) = Border' + 1
    <3>1. Border' < ls
      OBVIOUS
    <3> HIDE DEF la, lw, ls
    <3>2. QED
      BY <1>8, <1>9, <1>10, <3>1
  <2>2. ~wire[n + 1].inside
    BY <2>1 DEF Arrive
  <2>3. wire[n + 1] = stream[Border + (n + 1)]
    BY <1>1, <2>1 DEF Remains, InPlace
  <2>4. QED
    BY <2>1, <2>2, <2>3
<1>15. Remains(ms, stream, due)'
  BY <1>1, <1>2, <1>13, <1>14 DEF Remains, Waiting
<1>16. QED
  BY <1>15 DEF NothingLost

LEMMA CloseLosesNothing ==
  ASSUME IInv, NothingLost, Close
  PROVE  NothingLost'
<1> SUFFICES ASSUME state # "ended" PROVE NothingLost'
  BY DEF NothingLost, Close, readVars
<1>1. PICK ms, stream, due : Remains(ms, stream, due)
  BY DEF NothingLost
<1>2. /\ UNCHANGED <<sent, arrived, state, taken, head, received, condition>>
      /\ Begin' = Begin /\ Position' = Position /\ Border' = Border
      /\ ~open' /\ wire' = <<>> /\ Len(wire') = 0
  BY DEF Close, readVars, Begin, Position, Border
<1>3. Border + Len(wire') <= Len(stream)
  <2>1. /\ Border \in Nat /\ Len(wire) \in Nat /\ Len(stream) \in Nat
        /\ Border + Len(wire) <= Len(stream)
    BY <1>1, Positions DEF Remains, InPlace, Waiting
  <2>2. QED
    BY <1>2, <2>1
<1>4. InPlace(stream)' /\ HeaderWhole(stream)'
  BY <1>1, <1>2, <1>3 DEF Remains, InPlace, HeaderWhole
<1>5. Remains(ms, stream, due)'
  BY <1>1, <1>2, <1>4 DEF Remains, Waiting
<1>6. QED
  BY <1>5 DEF NothingLost

LEMMA TakeLosesNothing ==
  ASSUME IInv, NothingLost, Take
  PROVE  NothingLost'
<1>1. PICK ms, stream, due : Remains(ms, stream, due)
  BY DEF NothingLost, Take
<1>2. PICK n \in 1 .. Len(arrived) :
        /\ Len(taken') = Len(taken) + n
        /\ \A i \in 1 .. Len(taken) : taken'[i] = taken[i]
        /\ \A i \in 1 .. n : taken'[Len(taken) + i] = arrived[i]
        /\ Len(arrived') = Len(arrived) - n
        /\ \A i \in 1 .. Len(arrived') : arrived'[i] = arrived[n + i]
  BY Takes
<1>3. UNCHANGED <<sent, wire, open, state, head, received, condition>> /\ Begin' = Begin
  BY DEF Take, Begin
<1> DEFINE lt == Len(taken)
           la == Len(arrived)
<1>4. /\ lt \in Nat /\ la \in Nat /\ Begin \in Nat /\ n \in 1 .. la
      /\ Position = Begin + lt /\ Border = Position + la
      /\ Len(taken') = lt + n /\ Len(arrived') = la - n
  BY <1>2, Positions DEF Position, Border
<1>5. Position' = Position + n /\ Border' = Border
  <2>1. Position' = Begin + (lt + n) /\ Border' = Position' + (la - n)
    BY <1>3, <1>4 DEF Position, Border
  <2> HIDE DEF lt, la
  <2>2. QED
    BY <1>4, <2>1
<1>6. \A i \in 1 .. Len(taken') : taken'[i] = stream[Begin + i].byte
  <2> SUFFICES ASSUME NEW i \in 1 .. lt + n PROVE taken'[i] = stream[Begin + i].byte
    BY <1>4
  <2>1. CASE i \in 1 .. lt
    BY <1>1, <1>2, <2>1 DEF Remains, InPlace
  <2>2. CASE i \notin 1 .. lt
    <3>1. i - lt \in 1 .. n /\ i - lt \in 1 .. la /\ lt + (i - lt) = i
          /\ Position + (i - lt) = Begin + i
      <4> HIDE DEF lt, la
      <4>1. QED
        BY <1>4, <2>2
    <3>2. arrived[i - lt] = stream[Position + (i - lt)].byte
      BY <1>1, <3>1 DEF Remains, InPlace
    <3>3. taken'[lt + (i - lt)] = arrived[i - lt]
      BY <1>2, <3>1
    <3>4. QED
      BY <3>1, <3>2, <3>3
  <2>3. QED
    BY <2>1, <2>2
<1>7. \A i \in 1 .. Len(arrived') : arrived'[i] = stream[Position' + i].byte
  <2> SUFFICES ASSUME NEW i \in 1 .. la - n PROVE arrived'[i] = stream[Position' + i].byte
    BY <1>4
  <2>1. n + i \in 1 .. la /\ Position + (n + i) = Position' + i
    <3>1. Position \in Nat
      BY Positions
    <3> HIDE DEF lt, la
    <3>2. QED
      BY <1>4, <1>5, <3>1
  <2>2. arrived[n + i] = stream[Position + (n + i)].byte
    BY <1>1, <2>1 DEF Remains, InPlace
  <2>3. QED
    BY <1>2, <1>4, <2>1, <2>2
<1>8. InPlace(stream)' /\ HeaderWhole(stream)'
  BY <1>1, <1>3, <1>5, <1>6, <1>7 DEF Remains, InPlace, HeaderWhole
<1>9. Remains(ms, stream, due)'
  BY <1>1, <1>3, <1>8 DEF Remains, Waiting
<1>10. QED
  BY <1>9 DEF NothingLost

\* The header that is taken is the first message's.
LEMMA HeaderIs ==
  ASSUME IInv, state = "header", NEW ms, NEW stream, NEW due, Remains(ms, stream, due),
         Len(taken) >= 1
  PROVE  /\ stream # <<>> /\ ms[1] \in Message
         /\ Len(taken) >= 4 => FromU32(SubSeq(taken, 1, 4)) = Length(ms[1])
         /\ Len(taken) = 5 /\ IsProper(ms[1]) => taken[5] = Id(ms[1])
<1>1. /\ Len(taken) \in Nat /\ Len(stream) \in Nat /\ Begin = 0
      /\ Len(taken) <= Len(stream) /\ taken \in Seq(Byte) /\ Waiting(ms, stream, due)
      /\ \A i \in 1 .. Len(taken) : taken[i] = stream[0 + i].byte
  <2>1. Len(stream) \in Nat /\ Border + Len(wire) <= Len(stream) /\ Begin = 0
    BY DEF Remains, InPlace, Waiting, Begin
  <2>2. Position = 0 + Len(taken)
    BY <2>1 DEF Position
  <2>3. QED
    BY <2>1, <2>2, Positions DEF Remains, InPlace, IInv, TypesOK
<1>2. stream # <<>>
  BY <1>1
<1>3. /\ ms[1] \in Message
      /\ Len(OnWire(ms[1])) \in 0 .. Len(stream)
      /\ \A i \in 1 .. Len(OnWire(ms[1])) : stream[i] = OnWire(ms[1])[i]
  BY <1>1, <1>2, FirstMessage
<1>4. /\ HeadLength(ms[1]) \in {4, 5} /\ (IsProper(ms[1]) => HeadLength(ms[1]) = 5)
      /\ Len(ms[1].payload) \in Nat
  BY <1>3, FramingAssumption DEF HeadLength
<1>5. /\ Len(OnWire(ms[1])) >= 4
      /\ IsProper(ms[1]) => Len(OnWire(ms[1])) >= 5
  BY <1>3, <1>4, OnWireIs
<1>6. ASSUME Len(taken) >= 4
      PROVE  FromU32(SubSeq(taken, 1, 4)) = Length(ms[1])
  <2>1. \A i \in 1 .. 4 : taken[i] = U32(Length(ms[1]))[i]
    <3>1. \A i \in 1 .. 4 : i \in 1 .. Len(taken) /\ i \in 1 .. Len(OnWire(ms[1])) /\ 0 + i = i
      BY <1>1, <1>3, <1>5, <1>6
    <3>2. \A i \in 1 .. 4 : OnWire(ms[1])[i].byte = U32(Length(ms[1]))[i]
      BY <1>3, OnWireIs
    <3>3. QED
      BY <1>1, <1>3, <3>1, <3>2
  <2>2. \A i \in 1 .. 4 : SubSeq(taken, 1, 4)[i] = taken[i]
    BY <1>1, <1>6
  <2>3. FromU32(SubSeq(taken, 1, 4)) = FromU32(U32(Length(ms[1])))
    BY <2>1, <2>2 DEF FromU32
  <2>4. QED
    BY <1>3, <2>3, U32Bytes, LengthIs, LengthAssumption
<1>7. ASSUME Len(taken) = 5, IsProper(ms[1])
      PROVE  taken[5] = Id(ms[1])
  <2>1. 5 \in 1 .. Len(taken) /\ 5 \in 1 .. Len(OnWire(ms[1])) /\ 0 + 5 = 5
    BY <1>3, <1>5, <1>7
  <2>2. OnWire(ms[1])[5].byte = Id(ms[1])
    BY <1>3, <1>7, OnWireIs
  <2>3. QED
    BY <1>1, <1>3, <2>1, <2>2
<1>8. QED
  BY <1>2, <1>3, <1>6, <1>7

\* The reader is done with the first n bytes.
LEMMA Passed ==
  ASSUME IInv, NEW stream \in Seq(Bit), InPlace(stream), HeaderWhole(stream),
         NEW n \in 0 .. Len(stream), n = Position,
         state' = "header", taken' = <<>>, UNCHANGED <<arrived, wire, open, condition>>
  PROVE  (InPlace(Rest(stream, n)) /\ HeaderWhole(Rest(stream, n)))'
<1> DEFINE rest == Rest(stream, n)
           la == Len(arrived)
           lw == Len(wire)
           ls == Len(stream)
<1>1. /\ rest \in Seq(Bit) /\ Len(rest) = ls - n
      /\ \A i \in 1 .. ls - n : rest[i] = stream[n + i]
  BY RestIs
<1>2. Begin' = 0 /\ Position' = 0 /\ Border' = 0 + la /\ Len(taken') = 0
  BY DEF Begin, Position, Border
<1>3. /\ la \in Nat /\ lw \in Nat /\ ls \in Nat /\ n \in Nat
      /\ Border = n + la /\ Border + lw <= ls
      /\ open => Border + lw = ls
      /\ ~open => wire = <<>>
  BY Positions DEF InPlace, Border
<1> HIDE DEF rest
<1>4. Border' + lw <= Len(rest) /\ (open => Border' + lw = Len(rest))
  <2>1. Len(rest) = ls - n /\ Border' = la
    BY <1>1, <1>2, <1>3
  <2>2. open \in BOOLEAN
    BY DEF IInv, TypesOK
  <2> HIDE DEF la, lw, ls
  <2>3. QED
    BY <1>3, <2>1, <2>2
<1>5. \A i \in 1 .. la : arrived[i] = rest[0 + i].byte
  <2> SUFFICES ASSUME NEW i \in 1 .. la PROVE arrived[i] = rest[0 + i].byte
    OBVIOUS
  <2>1. 0 + i = i /\ i \in 1 .. ls - n
    <3> HIDE DEF la, lw, ls
    <3>1. QED
      BY <1>3
  <2>2. arrived[i] = stream[n + i].byte
    BY DEF InPlace
  <2>3. QED
    BY <1>1, <2>1, <2>2
<1>6. \A i \in 1 .. lw : wire[i] = rest[Border' + i]
  <2> SUFFICES ASSUME NEW i \in 1 .. lw PROVE wire[i] = rest[Border' + i]
    OBVIOUS
  <2>1. Border' + i \in 1 .. ls - n /\ n + (Border' + i) = Border + i
    <3> HIDE DEF la, lw, ls
    <3>1. QED
      BY <1>2, <1>3
  <2>2. wire[i] = stream[Border + i]
    BY DEF InPlace
  <2>3. QED
    BY <1>1, <2>1, <2>2
<1>7. InPlace(rest)'
  BY <1>2, <1>3, <1>4, <1>5, <1>6 DEF InPlace
<1>8. HeaderWhole(rest)'
  <2> SUFFICES ASSUME ~condition.cuts, Border' < Len(rest) PROVE ~rest[Border' + 1].inside
    BY DEF HeaderWhole
  <2>1. Border < ls /\ Border' + 1 \in 1 .. ls - n /\ n + (Border' + 1) = Border + 1
    <3>1. Border' < ls - n
      BY <1>1
    <3> HIDE DEF la, lw, ls
    <3>2. QED
      BY <1>2, <1>3, <3>1
  <2>2. ~stream[Border + 1].inside
    BY <2>1 DEF HeaderWhole
  <2>3. QED
    BY <1>1, <2>1, <2>2
<1>9. QED
  BY <1>7, <1>8 DEF rest

LEMMA IdsDiffer ==
  ASSUME NEW m \in Message, IsProper(m), NEW kind \in KindsOf(Id(m))
  PROVE  m.kind # "Unknown" /\ kind = m.kind
<1>1. m.kind \in DOMAIN MessageId \cup {"Unknown"}
  BY FramingAssumption DEF IsProper, Kinds
<1>2. /\ \A k \in DOMAIN MessageId : MessageId[k] # UnknownId
      /\ \A k, l \in DOMAIN MessageId : MessageId[k] = MessageId[l] => k = l
  BY DEF MessageId, UnknownId
<1>3. QED
  BY <1>1, <1>2 DEF KindsOf, Id

LEMMA HeaderReadLosesNothing ==
  ASSUME IInv, NothingLost, PayloadsAreRead, HeaderRead
  PROVE  NothingLost'
<1>1. PICK ms, stream, due : Remains(ms, stream, due)
  BY DEF NothingLost, HeaderRead
<1>2. /\ state = "header" /\ Wanted = 0 /\ Len(taken) = HeaderLength /\ taken' = <<>>
      /\ UNCHANGED <<sent, wire, arrived, open, received, condition>>
  <2>1. state = "header" /\ Wanted = 0 /\ Len(taken) \in Nat /\ HeaderLength \in Nat
    BY Positions DEF HeaderRead, HeaderLength
  <2>2. QED
    BY <2>1 DEF HeaderRead, Wanted
<1>3. /\ ms \in Seq(Message) /\ stream \in Seq(Bit) /\ due \in Seq(Message)
      /\ InPlace(stream) /\ HeaderWhole(stream) /\ Waiting(ms, stream, due)
      /\ Begin = 0 /\ Position = 0 + Len(taken) /\ Position <= Len(stream)
      /\ Len(stream) \in Nat
  <2>1. /\ ms \in Seq(Message) /\ stream \in Seq(Bit) /\ due \in Seq(Message)
        /\ InPlace(stream) /\ HeaderWhole(stream) /\ Waiting(ms, stream, due)
        /\ Border + Len(wire) <= Len(stream) /\ Len(stream) \in Nat
    BY <1>1 DEF Remains, Waiting, InPlace
  <2>2. Begin = 0 /\ Position = 0 + Len(taken)
    BY <1>2 DEF Begin, Position
  <2>3. QED
    BY <2>1, <2>2, Positions
<1>4. CASE Len(taken) = 4 /\ UNCHANGED <<state, head>>
  <2>1. FromU32(SubSeq(taken, 1, 4)) = 0
    BY <1>2, <1>4 DEF HeaderLength
  <2>2. stream # <<>> /\ ms[1] \in Message /\ ~IsProper(ms[1])
    BY <1>1, <1>2, <1>4, <2>1, HeaderIs, LengthIs
  <2>3. Len(ms[1].payload) = 0
    <3>1. ms[1].kind = "KeepAlive"
      BY <2>2 DEF IsProper
    <3>2. QED
      BY <2>2, <3>1 DEF PayloadsAreRead, PayloadLength
  <2>4. Len(OnWire(ms[1])) = 4
    <3>1. HeadLength(ms[1]) = 4
      BY <2>2 DEF HeadLength
    <3>2. Len(OnWire(ms[1])) = HeadLength(ms[1]) + Len(ms[1].payload)
      BY <2>2, OnWireIs
    <3>3. QED
      BY <2>3, <3>1, <3>2
  <2>5. Waiting(Tail(ms), Rest(stream, 4), due)
    BY <1>3, <2>2, <2>4, FirstMessage
  <2>6. 4 \in 0 .. Len(stream) /\ 4 = Position
    BY <1>3, <1>4
  <2>7. (InPlace(Rest(stream, 4)) /\ HeaderWhole(Rest(stream, 4)))'
    BY <1>2, <1>3, <1>4, <2>6, Passed
  <2>8. Remains(Tail(ms), Rest(stream, 4), due)'
    BY <1>1, <1>2, <1>4, <2>5, <2>7 DEF Remains, Waiting
  <2>9. QED
    BY <2>8 DEF NothingLost
<1>5. ASSUME Len(taken) = 5, state' = "payload", NEW kind \in KindsOf(taken[5]),
             head' = [kind |-> kind, length |-> FromU32(SubSeq(taken, 1, 4))]
      PROVE  NothingLost'
  <2>1. FromU32(SubSeq(taken, 1, 4)) # 0
    BY <1>2, <1>5 DEF HeaderLength
  <2>2. /\ stream # <<>> /\ ms[1] \in Message /\ IsProper(ms[1])
        /\ FromU32(SubSeq(taken, 1, 4)) = Length(ms[1]) /\ taken[5] = Id(ms[1])
    BY <1>1, <1>2, <1>5, <2>1, HeaderIs, LengthIs
  <2>3. ms[1].kind # "Unknown" /\ kind = ms[1].kind
    BY <1>5, <2>2, IdsDiffer
  <2>4. ms # <<>> /\ head' = HeadOf(ms[1])
    BY <1>3, <1>5, <2>2, <2>3, FirstMessage DEF HeadOf
  <2>5. Begin' = 5 /\ Position' = 5 /\ Position = 5 /\ Len(taken') = 0 /\ Border' = Border
    BY <1>2, <1>3, <1>5 DEF Begin, Position, Border
  <2>6. Len(stream) >= 5
    BY <1>3, <2>5
  <2>7. InPlace(stream)' /\ HeaderWhole(stream)'
    BY <1>2, <1>3, <2>5 DEF InPlace, HeaderWhole
  <2>8. Remains(ms, stream, due)'
    BY <1>1, <1>2, <1>3, <2>2, <2>3, <2>4, <2>6, <2>7 DEF Remains, Waiting
  <2>9. QED
    BY <2>8 DEF NothingLost
<1>6. CASE state' = "ended"
  BY <1>6 DEF NothingLost
<1>7. QED
  BY <1>4, <1>5, <1>6 DEF HeaderRead

\* The payload that is taken is the first message's, so the handler gets what is
\* due next.
LEMMA PayloadIs ==
  ASSUME IInv, PayloadsAreRead, PayloadRead,
         NEW ms, NEW stream, NEW due, Remains(ms, stream, due)
  PROVE  /\ stream # <<>> /\ due # <<>> /\ IsProper(ms[1])
         /\ received' = Append(received, Head(due))
         /\ Len(OnWire(ms[1])) = Position
<1>1. /\ ms[1] \in Message /\ IsProper(ms[1]) /\ ms[1].kind # "Unknown"
      /\ head = HeadOf(ms[1]) /\ stream \in Seq(Bit) /\ due \in Seq(Message)
      /\ stream # <<>> /\ Waiting(ms, stream, due)
  <2>1. ms \in Seq(Message) /\ ms # <<>>
    BY DEF Remains, Waiting, PayloadRead
  <2>2. QED
    BY <2>1 DEF Remains, Waiting, PayloadRead
<1>2. /\ Len(OnWire(ms[1])) \in 0 .. Len(stream)
      /\ \A i \in 1 .. Len(OnWire(ms[1])) : stream[i] = OnWire(ms[1])[i]
      /\ due # <<>> /\ due[1] = ms[1]
  BY <1>1, FirstMessage
<1> DEFINE payload == ms[1].payload
<1>3. payload \in Seq(Byte) /\ Len(payload) \in Nat /\ taken \in Seq(Byte)
  BY <1>1, FramingAssumption DEF IInv, TypesOK
<1>4. Len(taken) = Len(payload)
  <2>1. Len(payload) = PayloadLength(head)
    BY <1>1 DEF PayloadsAreRead, HeadOf
  <2>2. PayloadLength(head) - Len(taken) = 0
    BY DEF PayloadRead, Wanted
  <2>3. QED
    BY <1>3, <2>1, <2>2
<1>5. HeadLength(ms[1]) = 5 /\ Len(OnWire(ms[1])) = 5 + Len(payload)
  <2>1. HeadLength(ms[1]) = 5
    BY <1>1 DEF HeadLength
  <2>2. QED
    BY <1>1, <2>1, OnWireIs
<1>6. Begin = 5 /\ Position = 5 + Len(payload)
  BY <1>4 DEF PayloadRead, Begin, Position
<1>7. \A i \in 1 .. Len(payload) : taken[i] = payload[i]
  <2> SUFFICES ASSUME NEW i \in 1 .. Len(payload) PROVE taken[i] = payload[i]
    OBVIOUS
  <2>1. 5 + i \in 1 .. Len(OnWire(ms[1]))
    <3> DEFINE l == Len(payload)
    <3>1. l \in Nat /\ i \in 1 .. l /\ Len(OnWire(ms[1])) = 5 + l
      BY <1>3, <1>5
    <3> HIDE DEF l
    <3>2. QED
      BY <3>1
  <2>2. taken[i] = stream[5 + i].byte
    BY <1>4, <1>6 DEF Remains, InPlace
  <2>3. OnWire(ms[1])[5 + i].byte = payload[i]
    <3>1. \A j \in 1 .. Len(payload) : OnWire(ms[1])[HeadLength(ms[1]) + j].byte = payload[j]
      BY <1>1, OnWireIs
    <3>2. QED
      BY <1>5, <3>1
  <2>4. QED
    BY <1>2, <2>1, <2>2, <2>3
<1>8. taken = payload
  BY <1>3, <1>4, <1>7, SeqEqual
<1>9. [kind |-> head.kind, payload |-> taken] = ms[1]
  BY <1>1, <1>8, FramingAssumption DEF HeadOf
<1>10. Head(due) = ms[1]
  BY <1>1, <1>2
<1>11. received' = Append(received, Head(due))
  BY <1>9, <1>10 DEF PayloadRead
<1>12. QED
  BY <1>1, <1>2, <1>5, <1>6, <1>11

LEMMA PayloadReadLosesNothing ==
  ASSUME IInv, NothingLost, PayloadsAreRead, PayloadRead
  PROVE  NothingLost' /\ Fifo!Receive
<1>1. PICK ms, stream, due : Remains(ms, stream, due)
  BY DEF NothingLost, PayloadRead
<1>2. /\ stream # <<>> /\ due # <<>> /\ IsProper(ms[1])
      /\ received' = Append(received, Head(due))
      /\ Len(OnWire(ms[1])) = Position
  BY <1>1, PayloadIs
<1>3. /\ stream \in Seq(Bit) /\ due \in Seq(Message) /\ received \in Seq(Message)
      /\ sent = received \o due /\ Waiting(ms, stream, due)
      /\ InPlace(stream) /\ HeaderWhole(stream)
  BY <1>1 DEF Remains, Waiting
<1> DEFINE rest == Rest(stream, Len(OnWire(ms[1])))
<1>4. Waiting(Tail(ms), rest, Tail(due)) /\ Len(OnWire(ms[1])) \in 0 .. Len(stream)
  BY <1>2, <1>3, FirstMessage
<1>5. /\ state' = "header" /\ taken' = <<>>
      /\ UNCHANGED <<sent, wire, arrived, open, condition>>
  BY DEF PayloadRead
<1>6. (InPlace(rest) /\ HeaderWhole(rest))'
  BY <1>2, <1>3, <1>4, <1>5, Passed
<1>7. Head(due) \in Message /\ Tail(due) \in Seq(Message) /\ due = <<Head(due)>> \o Tail(due)
  BY <1>2, <1>3
<1>8. sent' = received' \o Tail(due) /\ received' \in Seq(Message)
  <2>1. received' = received \o <<Head(due)>> /\ received' \in Seq(Message)
    BY <1>2, <1>3, <1>7, AppendIsConcat
  <2>2. (received \o <<Head(due)>>) \o Tail(due) = received \o (<<Head(due)>> \o Tail(due))
    <3>1. <<Head(due)>> \in Seq(Message)
      BY <1>7
    <3>2. QED
      BY <1>3, <1>7, <3>1, ConcatAssociative
  <2>3. QED
    BY <1>3, <1>5, <1>7, <2>1, <2>2
<1>9. Remains(Tail(ms), rest, Tail(due))'
  BY <1>4, <1>5, <1>6, <1>8 DEF Remains, Waiting
<1>10. Fifo!Receive
  <2>1. /\ Len(received) \in Nat /\ Len(due) \in Nat \ {0}
        /\ Len(sent) = Len(received) + Len(due)
        /\ \A i \in 1 .. Len(due) : sent[Len(received) + i] = due[i]
    BY <1>2, <1>3, Joined
  <2>2. Len(received) < Len(sent) /\ sent[Len(received) + 1] = due[1]
    BY <2>1
  <2>3. received' = Append(received, sent[Len(received) + 1])
    BY <1>2, <1>3, <2>2
  <2>4. QED
    BY <1>5, <2>2, <2>3 DEF Fifo!Receive
<1>11. QED
  BY <1>9, <1>10 DEF NothingLost

\* An update finds nothing taken: a header that is there is there as a whole, and
\* then read_message does not wait.
LEMMA UpdateLosesNothing ==
  ASSUME IInv, NothingLost, HeadersSurvive, Update
  PROVE  NothingLost'
<1>1. PICK ms, stream, due : Remains(ms, stream, due)
  BY DEF NothingLost, Update
<1>2. /\ ~condition.cuts /\ state = "header" /\ Wanted > 0 /\ Len(arrived) = 0 /\ taken' = <<>>
      /\ UNCHANGED <<sent, wire, arrived, open, state, head, received, condition>>
  BY DEF Update, HeadersSurvive, IInv, TypesOK
<1>3. /\ Waiting(ms, stream, due) /\ stream \in Seq(Bit) /\ HeaderWhole(stream)
  BY <1>1 DEF Remains, Waiting
<1>4. Begin = 0 /\ Position = 0 + Len(taken) /\ Border = Position + 0
  BY <1>2 DEF Begin, Position, Border
<1>5. ASSUME Len(taken) # 0 PROVE FALSE
  <2>1. Len(taken) \in Nat \ {0}
    BY <1>5, Positions
  <2>2. /\ stream # <<>> /\ ms[1] \in Message
        /\ Len(taken) >= 4 => FromU32(SubSeq(taken, 1, 4)) = Length(ms[1])
    <3>1. Len(taken) >= 1
      BY <2>1
    <3>2. QED
      BY <1>1, <1>2, <3>1, HeaderIs
  <2>3. /\ Len(OnWire(ms[1])) \in 0 .. Len(stream)
        /\ \A i \in 1 .. Len(OnWire(ms[1])) : stream[i] = OnWire(ms[1])[i]
    BY <1>3, <2>2, FirstMessage
  <2>4. HeaderLength > Len(taken)
    <3>1. HeaderLength \in {4, 5}
      BY DEF HeaderLength
    <3>2. HeaderLength - Len(taken) > 0
      BY <1>2 DEF Wanted
    <3>3. QED
      BY <2>1, <3>1, <3>2
  <2>5. HeadLength(ms[1]) \in Nat /\ Len(taken) + 1 <= HeadLength(ms[1])
    <3>1. CASE Len(taken) < 4
      BY <2>1, <3>1 DEF HeadLength
    <3>2. CASE Len(taken) >= 4
      <4>1. HeaderLength = 5 /\ FromU32(SubSeq(taken, 1, 4)) # 0
        BY <2>1, <2>4, <3>2 DEF HeaderLength
      <4>2. IsProper(ms[1])
        BY <2>2, <3>2, <4>1, LengthIs
      <4>3. HeadLength(ms[1]) = 5
        BY <4>2 DEF HeadLength
      <4>4. QED
        BY <2>1, <2>4, <4>1, <4>3
    <3>3. QED
      BY <2>1, <3>1, <3>2
  <2>6. /\ Len(OnWire(ms[1])) = HeadLength(ms[1]) + Len(ms[1].payload)
        /\ \A i \in 1 .. HeadLength(ms[1]) : OnWire(ms[1])[i].inside = (i > 1)
    BY <2>2, OnWireIs
  <2> DEFINE next == Len(taken) + 1
  <2>7. /\ next \in 1 .. HeadLength(ms[1]) /\ next \in 1 .. Len(OnWire(ms[1])) /\ next > 1
        /\ Border + 1 = next /\ Border < Len(stream)
    <3>1. Len(ms[1].payload) \in Nat /\ Len(stream) \in Nat
      BY <1>3, <2>2, FramingAssumption
    <3>2. QED
      BY <1>4, <2>1, <2>3, <2>5, <2>6, <3>1
  <2>8. stream[next].inside
    <3> HIDE DEF next
    <3>1. OnWire(ms[1])[next].inside = TRUE
      BY <2>6, <2>7
    <3>2. QED
      BY <2>3, <2>7, <3>1
  <2>9. QED
    BY <1>2, <1>3, <2>7, <2>8 DEF HeaderWhole
<1>6. taken' = taken
  BY <1>2, <1>5 DEF IInv, TypesOK
<1>7. InPlace(stream)' /\ HeaderWhole(stream)'
  BY <1>1, <1>2, <1>6 DEF Remains, InPlace, HeaderWhole, Begin, Position, Border
<1>8. Remains(ms, stream, due)'
  BY <1>1, <1>2, <1>7 DEF Remains, Waiting
<1>9. QED
  BY <1>8 DEF NothingLost

\* A step of the connection is a step of the channel, or none.
LEMMA StepImplements ==
  ASSUME IInv, NothingLost, PayloadsAreRead, HeadersSurvive, [Next]_vars
  PROVE  NothingLost' /\ [Fifo!Next]_(Fifo!vars)
<1>1. ASSUME NEW m \in Message, Send(m) PROVE NothingLost' /\ [Fifo!Next]_(Fifo!vars)
  <2>1. CASE IsProper(m)
    BY <1>1, <2>1, SendLosesNothing DEF Send, readVars, Fifo!Next, Fifo!Send
  <2>2. CASE ~IsProper(m)
    BY <1>1, <2>2, SendLosesNothing DEF Send, readVars, Fifo!vars
  <2>3. QED
    BY <2>1, <2>2
<1>2. ASSUME NEW n \in 1 .. Len(wire), Arrive(n) PROVE NothingLost' /\ [Fifo!Next]_(Fifo!vars)
  BY <1>2, ArriveLosesNothing DEF Arrive, readVars, Fifo!vars
<1>3. CASE Close
  BY <1>3, CloseLosesNothing DEF Close, readVars, Fifo!vars
<1>4. CASE Take
  BY <1>4, TakeLosesNothing DEF Take, Fifo!vars
<1>5. CASE HeaderRead
  BY <1>5, HeaderReadLosesNothing DEF HeaderRead, Fifo!vars
<1>6. CASE PayloadRead
  BY <1>6, PayloadReadLosesNothing DEF Fifo!Next
<1>7. CASE Update
  BY <1>7, UpdateLosesNothing DEF Update, Fifo!vars
<1>8. CASE EndOfStream
  BY <1>8 DEF EndOfStream, NothingLost, Fifo!vars
<1>9. CASE UNCHANGED vars
  <2>1. UNCHANGED <<sent, wire, arrived, open, state, taken, head, received, condition>>
    BY <1>9 DEF vars, readVars
  <2>2. ASSUME NEW ms, NEW stream, NEW due, Remains(ms, stream, due)
        PROVE  Remains(ms, stream, due)'
    BY <2>1, <2>2 DEF Remains, Waiting, InPlace, HeaderWhole, Begin, Position, Border
  <2>3. QED
    BY <2>1, <2>2 DEF NothingLost, Fifo!vars
<1>10. QED
  BY <1>1, <1>2, <1>3, <1>4, <1>5, <1>6, <1>7, <1>8, <1>9 DEF Next, Network, Read

\* The handlers get the messages that were sent, in their order, each once and
\* with its payload, wherever the network cuts the bytes and whenever it breaks:
\* process_message and the handlers agree with the constructors of message.rs.
THEOREM ImplementsChannel ==
  ASSUME PayloadsAreRead, HeadersSurvive
  PROVE  Spec => ImplementsFifo
<1>1. Init => Fifo!Init
  BY DEF Init, Fifo!Init
<1>2. IInv /\ NothingLost /\ [Next]_vars => NothingLost' /\ [Fifo!Next]_(Fifo!vars)
  BY StepImplements
<1>3. QED
  BY <1>1, <1>2, Inductive, InitNothingLost, PTL DEF Spec, ImplementsFifo, Fifo!Spec
=============================================================================
